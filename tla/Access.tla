------------------------------- MODULE Access -------------------------------
(***************************************************************************)
(* Roles, permissions and grants: the seeded matrix                        *)
(* (api/internal/db/seed/permissions.go), the statements on                *)
(* user_facility_roles (api/internal/db/sqlc/facilities.sql.go) and what   *)
(* the handlers make of their rows (api/internal/httpx/admin.go).          *)
(*                                                                         *)
(* A grant is a row of user_facility_roles without its id and dates.  Keys *)
(* are written without their prefix ("facility.", "system.").              *)
(***************************************************************************)
EXTENDS Integers, FiniteSets

CONSTANTS Facilities,
          Cids,        \* certificates of controllers
          SystemWide   \* facility_id NULL

ASSUME AccessAssumption == Cids \subseteq Nat \ {0} /\ SystemWide \notin Facilities

permissions == {"access", "view", "manage_roster", "manage_config"}

rolePermissions ==
  [atm |-> permissions, datm |-> permissions,
   ta |-> {"access", "view", "manage_config"}, fe |-> {"access", "view"},
   faccbt |-> {"access", "view"}, admin |-> permissions]

roles == {"atm", "datm", "ta", "fe", "faccbt", "admin"}

Grants == [cid : Cids, facility : Facilities \cup {SystemWide}, role : roles,
           source : {"vatusa", "manual"}]

\* INSERT ... ON CONFLICT DO UPDATE or NOTHING, for permissions, roles and their
\* mappings; of a row only the key matters.
Upsert(rows, keys) == rows \cup keys
UpsertFacilityRow(rows, id) == rows \cup {id}

BySource(rows, source) == {g \in rows : g.source = source}

\* Mutation: the WHERE clause is lost.
DeleteEverything(rows, source) == {}

\* The rows left of a table by DELETE ... WHERE source = $1.
DeleteGrantsBySource(rows, source) == rows \ BySource(rows, source)

\* The foreign keys of user_facility_roles.
Insertable(g, facilityRows, roleRows) ==
  g.facility \in facilityRows \cup {SystemWide} /\ g.role \in roleRows

\* Permissions of cid, given the roles whose role_permissions are there.
GetUserPermissions(rows, mapped, cid) ==
  UNION {rolePermissions[g.role] :
           g \in {h \in rows : h.cid = cid /\ h.role \in mapped}}

GetUserFacilityRoles(rows, cid) == {g \in rows : g.cid = cid}

\* One entry per facility with the caller's roles there; system-wide rows skipped.
groupFacilities(rows) ==
  [f \in {g.facility : g \in rows} \ {SystemWide} |->
     {g.role : g \in {h \in rows : h.facility = f}}]
=============================================================================
