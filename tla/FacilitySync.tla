---------------------------- MODULE FacilitySync ----------------------------
(***************************************************************************)
(* The VATUSA sync (api/internal/facility/syncer.go), the seeding it       *)
(* builds on (api/internal/db/seed) and the two requests that read what it *)
(* wrote: GET /auth/me and GET /admin/facilities.                          *)
(*                                                                         *)
(* A step is one upstream answer or one statement on the database; the     *)
(* transaction of reconcile becomes visible with its commit.  upstream is  *)
(* a function on the listed facilities: the staff of the list and the      *)
(* roster.  A posting is one entry of it that grants a role; the history   *)
(* variables follow postings to say what a sync could have seen.           *)
(***************************************************************************)
EXTENDS Access

CONSTANTS Upstreams,    \* what VATUSA may hold
          ManualGrants, \* what an administrator may insert by hand
          MaxChanges,   \* bound on changes of VATUSA
          MaxFaults     \* bound on failed calls, failed statements and crashes

StaffKeys == {"ATM", "DATM", "TA", "FE", "EC", "WM"}
ListKeys == {"ATM", "DATM", "TA", "FE"}

vatusaRoleToKey ==
  [ATM |-> "atm", DATM |-> "datm", TA |-> "ta", FE |-> "fe", FACCBT |-> "faccbt"]

ASSUME SyncAssumption ==
  /\ MaxChanges \in Nat /\ MaxFaults \in Nat
  /\ ManualGrants \subseteq {g \in Grants : g.source = "manual"}
  /\ \A up \in Upstreams :
       /\ DOMAIN up \subseteq Facilities
       /\ \A f \in DOMAIN up :
            /\ up[f].staff \in [StaffKeys -> Cids \cup {0}]
            /\ up[f].roster \subseteq [cid : Cids \cup {0}, role : STRING]

VARIABLES
  upstream, changes,
  facilityRows, roleRows, mapped, grants,   \* the tables
  proc,       \* the server process
  pc,         \* the syncer
  toUpsert, toFetch, wanted, missed,        \* locals of SyncOnce
  deleted, toInsert, inserted,              \* the open transaction
  req,        \* a request of a browser
  faults,
  window,     \* history: postings seen upstream since this sync began
  steady,     \* history: postings there ever since this sync began
  seen, lasting, skipped   \* history: window, steady (kept up to date) and
                           \* missed of the last sync that was committed

tables  == <<facilityRows, roleRows, mapped, grants>>
locals  == <<toUpsert, toFetch, wanted, missed>>
txVars  == <<deleted, toInsert, inserted>>
history == <<window, steady, seen, lasting, skipped>>
world   == <<upstream, changes>>
vars == <<world, tables, proc, pc, locals, txVars, req, faults, history>>

-----------------------------------------------------------------------------
(* What an answer of VATUSA grants *)

Posting(c, f, r, v) == [cid |-> c, facility |-> f, role |-> r, via |-> v]
GrantOf(p) ==
  [cid |-> p.cid, facility |-> p.facility, role |-> p.role, source |-> "vatusa"]
GrantsOf(postings) == {GrantOf(p) : p \in postings}

\* Mutation: a vacant position (CID 0) is granted like any other.
StaffOfWithVacant(up, f) ==
  {Posting(up[f].staff[k], f, vatusaRoleToKey[k], "list") : k \in ListKeys}

\* The staff embedded in the list.  EC and WM grant nothing, zero is vacant.
StaffOf(up, f) ==
  {Posting(up[f].staff[k], f, vatusaRoleToKey[k], "list") :
     k \in {j \in ListKeys : up[f].staff[j] > 0}}

\* The roster of f, restricted to the roles that grant something and, where add()
\* merges it, to real CIDs.
RosterOf(up, f) ==
  {Posting(r.cid, f, vatusaRoleToKey[r.role], "roster") :
     r \in {s \in up[f].roster : s.role \in DOMAIN vatusaRoleToKey /\ s.cid > 0}}

ListPostings(up) == UNION {StaffOf(up, f) : f \in DOMAIN up}
Postings(up) == ListPostings(up) \cup UNION {RosterOf(up, f) : f \in DOMAIN up}

Automatic == BySource(grants, "vatusa")
Manual == BySource(grants, "manual")

Fault == faults < MaxFaults /\ faults' = faults + 1

NoRequest == [state |-> "none"]

Init ==
  /\ upstream \in Upstreams /\ changes = 0
  /\ facilityRows = {} /\ roleRows = {} /\ mapped = {} /\ grants = {}
  /\ proc = "down" /\ pc = "off"
  /\ toUpsert = {} /\ toFetch = {} /\ wanted = {} /\ missed = {}
  /\ deleted = {} /\ toInsert = {} /\ inserted = {}
  /\ req = NoRequest /\ faults = 0
  /\ window = {} /\ steady = {} /\ seen = {} /\ lasting = {} /\ skipped = {}
-----------------------------------------------------------------------------
(* The world: VATUSA and an administrator with database access *)

UpstreamChanges ==
  /\ changes < MaxChanges /\ changes' = changes + 1
  /\ upstream' \in Upstreams \ {upstream}
  /\ window' = window \cup Postings(upstream')
  /\ steady' = steady \cap Postings(upstream')
  /\ lasting' = lasting \cap Postings(upstream')
  /\ UNCHANGED <<tables, proc, pc, locals, txVars, req, faults, seen, skipped>>

\* A request remembers every grant of its caller and those it had throughout.
Witnessed(rows) ==
  IF req.state = "none" THEN req
  ELSE [req EXCEPT !.ever = @ \cup GetUserFacilityRoles(rows, req.cid),
                   !.always = @ \cap rows]

GrantByHand ==
  /\ \E g \in ManualGrants \ grants :
       Insertable(g, facilityRows, roleRows) /\ grants' = grants \cup {g}
  /\ req' = Witnessed(grants')
  /\ UNCHANGED <<world, facilityRows, roleRows, mapped, proc, pc, locals,
                 txVars, faults, history>>

RevokeByHand ==
  /\ \E g \in Manual : grants' = grants \ {g}
  /\ req' = Witnessed(grants')
  /\ UNCHANGED <<world, facilityRows, roleRows, mapped, proc, pc, locals,
                 txVars, faults, history>>
-----------------------------------------------------------------------------
(* Boot and crash *)

Boot ==
  /\ proc = "down" /\ proc' = "permissions"
  /\ UNCHANGED <<world, tables, pc, locals, txVars, req, faults, history>>

\* Permissions, then roles.  The first failing statement ends the process.
SeedRoles ==
  /\ proc = "permissions"
  /\ \/ roleRows' = Upsert(roleRows, roles) /\ proc' = "mappings" /\ UNCHANGED faults
     \/ Fault /\ proc' = "down" /\ UNCHANGED roleRows
  /\ UNCHANGED <<world, facilityRows, mapped, grants, pc, locals, txVars, req,
                 history>>

StartSync ==
  /\ pc' = "listing"
  /\ window' = Postings(upstream) /\ steady' = Postings(upstream)

\* Mutation: a failing statement is logged and the server starts anyway.
SeedMappingsGoesOn ==
  /\ proc = "mappings" /\ proc' = "up" /\ StartSync
  /\ \/ mapped' = roles /\ UNCHANGED faults
     \/ Fault /\ \E some \in {{}, {"atm"}} : mapped' = Upsert(mapped, some)
  /\ UNCHANGED <<world, facilityRows, roleRows, grants, locals, txVars, req,
                 seen, lasting, skipped>>

\* role_permissions; then the server listens and the syncer starts at once.
SeedMappings ==
  /\ proc = "mappings"
  /\ \/ /\ mapped' = roles /\ proc' = "up" /\ StartSync
        /\ UNCHANGED faults
     \/ /\ Fault /\ proc' = "down"
        /\ \E some \in {{}, {"atm"}} : mapped' = Upsert(mapped, some)
        /\ UNCHANGED <<pc, window, steady>>
  /\ UNCHANGED <<world, facilityRows, roleRows, grants, locals, txVars, req,
                 seen, lasting, skipped>>

\* The open transaction is lost with the connection.
Crash ==
  /\ proc # "down" /\ Fault
  /\ proc' = "down" /\ pc' = "off" /\ req' = NoRequest
  /\ toUpsert' = {} /\ toFetch' = {} /\ wanted' = {} /\ missed' = {}
  /\ deleted' = {} /\ toInsert' = {} /\ inserted' = {}
  /\ UNCHANGED <<world, tables, history>>
-----------------------------------------------------------------------------
(* SyncOnce *)

TickerFires ==
  /\ pc = "waiting" /\ StartSync
  /\ UNCHANGED <<world, tables, proc, locals, txVars, req, faults, seen, lasting,
                 skipped>>

\* Mutation: the loop ends with the first failed sync.
ListFailsForGood ==
  /\ pc = "listing" /\ Fault /\ pc' = "stopped"
  /\ UNCHANGED <<world, tables, proc, locals, txVars, req, history>>

ListFails ==
  /\ pc = "listing" /\ Fault /\ pc' = "waiting"
  /\ UNCHANGED <<world, tables, proc, locals, txVars, req, history>>

ListAnswers ==
  /\ pc = "listing" /\ pc' = "collecting"
  /\ toUpsert' = DOMAIN upstream /\ toFetch' = DOMAIN upstream
  /\ wanted' = GrantsOf(ListPostings(upstream)) /\ missed' = {}
  /\ UNCHANGED <<world, tables, proc, txVars, req, faults, history>>

\* A failing upsert is logged; the sync goes on.
UpsertFacility(f) ==
  /\ pc = "collecting" /\ f \in toUpsert
  /\ toUpsert' = toUpsert \ {f}
  /\ \/ facilityRows' = UpsertFacilityRow(facilityRows, f) /\ UNCHANGED faults
     \/ Fault /\ UNCHANGED facilityRows
  /\ UNCHANGED <<world, roleRows, mapped, grants, proc, pc, toFetch, wanted,
                 missed, txVars, req, history>>

\* Rosters are fetched concurrently.
RosterAnswers(f) ==
  /\ pc = "collecting" /\ toUpsert = {} /\ f \in toFetch
  /\ f \in DOMAIN upstream
  /\ toFetch' = toFetch \ {f}
  /\ wanted' = wanted \cup GrantsOf(RosterOf(upstream, f))
  /\ UNCHANGED <<world, tables, proc, pc, toUpsert, missed, txVars, req, faults,
                 history>>

\* A facility whose roster fails (or that is gone) is skipped.
RosterFails(f) ==
  /\ pc = "collecting" /\ toUpsert = {} /\ f \in toFetch
  /\ (f \notin DOMAIN upstream /\ UNCHANGED faults) \/ Fault
  /\ toFetch' = toFetch \ {f} /\ missed' = missed \cup {f}
  /\ UNCHANGED <<world, tables, proc, pc, toUpsert, wanted, txVars, req, history>>
-----------------------------------------------------------------------------
(* reconcile *)

\* Mutation: the fresh set is inserted next to the old one.
DeleteNothing ==
  /\ pc = "collecting" /\ toUpsert = {} /\ toFetch = {}
  /\ pc' = "inserting"
  /\ deleted' = {} /\ toInsert' = wanted \ grants /\ inserted' = {}
  /\ UNCHANGED <<world, tables, proc, locals, req, faults, history>>

\* Begin and DELETE.
Delete ==
  /\ pc = "collecting" /\ toUpsert = {} /\ toFetch = {}
  /\ pc' = "inserting"
  /\ deleted' = grants \ DeleteGrantsBySource(grants, "vatusa")
  /\ toInsert' = wanted /\ inserted' = {}
  /\ UNCHANGED <<world, tables, proc, locals, req, faults, history>>

Insert ==
  /\ pc = "inserting"
  /\ \E g \in toInsert :
       /\ Insertable(g, facilityRows, roleRows)
       /\ toInsert' = toInsert \ {g} /\ inserted' = inserted \cup {g}
  /\ UNCHANGED <<world, tables, proc, pc, locals, deleted, req, faults, history>>

Rollback ==
  /\ pc' = "waiting"
  /\ deleted' = {} /\ toInsert' = {} /\ inserted' = {}
  /\ UNCHANGED <<world, tables, proc, locals, req, history>>

\* Mutation: a grant that cannot be inserted is skipped.
RejectedIsSkipped ==
  /\ pc = "inserting"
  /\ \E g \in toInsert :
       /\ ~Insertable(g, facilityRows, roleRows)
       /\ toInsert' = toInsert \ {g}
  /\ UNCHANGED <<world, tables, proc, pc, locals, deleted, inserted, req, faults,
                 history>>

\* A facility whose upsert failed has no row: the foreign key rejects the grant.
Rejected ==
  /\ pc = "inserting"
  /\ \E g \in toInsert : ~Insertable(g, facilityRows, roleRows)
  /\ Rollback /\ UNCHANGED faults

\* Begin, a statement or the commit fails.
ReconcileFails ==
  /\ \/ pc = "collecting" /\ toUpsert = {} /\ toFetch = {}
     \/ pc = "inserting"
  /\ Fault /\ Rollback

Commit ==
  /\ pc = "inserting" /\ toInsert = {} /\ pc' = "waiting"
  /\ grants' = (grants \ deleted) \cup inserted
  /\ req' = Witnessed(grants')
  /\ deleted' = {} /\ inserted' = {}
  /\ seen' = window /\ lasting' = steady /\ skipped' = missed
  /\ UNCHANGED <<world, facilityRows, roleRows, mapped, proc, locals, toInsert,
                 faults, window, steady>>
-----------------------------------------------------------------------------
(* Requests *)

\* requireAuth has put the CID of the access token into the context.
Ask(kind, c) ==
  /\ proc = "up" /\ req = NoRequest
  /\ req' = [state |-> "asked", kind |-> kind, cid |-> c, perms |-> {},
             facilities |-> {}, ever |-> GetUserFacilityRoles(grants, c),
             always |-> GetUserFacilityRoles(grants, c)]
  /\ UNCHANGED <<world, tables, proc, pc, locals, txVars, faults, history>>

\* requirePermission("system.access") of /admin/facilities.
RequirePermission ==
  /\ req.state = "asked" /\ req.kind = "admin"
  /\ LET perms == GetUserPermissions(grants, mapped, req.cid)
     IN  \/ req' = [req EXCEPT !.state = IF "access" \in perms THEN "allowed" ELSE "403"]
            /\ UNCHANGED faults
         \/ Fault /\ req' = [req EXCEPT !.state = "500"]
  /\ UNCHANGED <<world, tables, proc, pc, locals, txVars, history>>

\* handleMe needs the row of its user; it degrades to no permissions when their
\* lookup fails.
MePermissions ==
  /\ req.state = "asked" /\ req.kind = "me"
  /\ \/ req' = [req EXCEPT !.state = "allowed",
                  !.perms = GetUserPermissions(grants, mapped, req.cid)]
        /\ UNCHANGED faults
     \/ Fault /\ \E state \in {"401", "allowed"} : req' = [req EXCEPT !.state = state]
  /\ UNCHANGED <<world, tables, proc, pc, locals, txVars, history>>

\* The second query; a failure is 500 for the admin, no facilities for me.
UserFacilities ==
  /\ req.state = "allowed"
  /\ \/ req' = [req EXCEPT !.state = "200", !.facilities =
                  DOMAIN groupFacilities(GetUserFacilityRoles(grants, req.cid))]
        /\ UNCHANGED faults
     \/ /\ Fault
        /\ req' = [req EXCEPT !.state = IF req.kind = "me" THEN "200" ELSE "500"]
  /\ UNCHANGED <<world, tables, proc, pc, locals, txVars, history>>

Answered ==
  /\ req.state \in {"200", "401", "403", "500"} /\ req' = NoRequest
  /\ UNCHANGED <<world, tables, proc, pc, locals, txVars, faults, history>>
-----------------------------------------------------------------------------
SyncStep ==
  \/ TickerFires \/ ListFails \/ ListAnswers
  \/ \E f \in Facilities : UpsertFacility(f) \/ RosterAnswers(f) \/ RosterFails(f)
  \/ Delete \/ Insert \/ Rejected \/ ReconcileFails \/ Commit

BootStep == Boot \/ SeedRoles \/ SeedMappings

RequestStep ==
  \/ \E c \in Cids, kind \in {"me", "admin"} : Ask(kind, c)
  \/ RequirePermission \/ MePermissions \/ UserFacilities \/ Answered

ByHand == GrantByHand \/ RevokeByHand

Next == UpstreamChanges \/ ByHand \/ BootStep \/ Crash \/ SyncStep \/ RequestStep

Spec == Init /\ [][Next]_vars

\* The process is started again, Go runs its goroutines, calls end or time out.
FairSpec == Spec /\ WF_vars(BootStep) /\ WF_vars(SyncStep)
-----------------------------------------------------------------------------
(* Properties *)

PostingSet == [cid : Cids, facility : Facilities, role : roles,
               via : {"list", "roster"}]

RequestSet ==
  {NoRequest} \cup
  [state : {"asked", "allowed", "200", "401", "403", "500"}, kind : {"me", "admin"},
   cid : Cids, perms : SUBSET permissions, facilities : SUBSET Facilities,
   ever : SUBSET Grants, always : SUBSET Grants]

\* Every variable has its type; the vacant CID 0 never reaches a table.
TypeOK ==
  /\ upstream \in Upstreams /\ changes \in 0..MaxChanges /\ faults \in 0..MaxFaults
  /\ facilityRows \subseteq Facilities /\ roleRows \subseteq roles
  /\ mapped \subseteq roles /\ grants \subseteq Grants
  /\ proc \in {"down", "permissions", "mappings", "up"}
  /\ pc \in {"off", "listing", "collecting", "inserting", "waiting"}
  /\ toUpsert \subseteq Facilities /\ toFetch \subseteq Facilities
  /\ missed \subseteq Facilities /\ skipped \subseteq Facilities
  /\ wanted \subseteq Grants /\ deleted \subseteq Grants
  /\ toInsert \subseteq Grants /\ inserted \subseteq Grants
  /\ req \in RequestSet
  /\ window \subseteq PostingSet /\ steady \subseteq PostingSet
  /\ seen \subseteq PostingSet /\ lasting \subseteq PostingSet

\* An automatic grant was upstream at some moment of the last sync that was
\* committed: whoever lost the position before that sync is locked out, whatever
\* failed, crashed or was rolled back since.
GrantsAreFresh == Automatic \subseteq GrantsOf(seen)

\* A position held from the beginning of the last committed sync until now is
\* granted, unless only the roster tells of it and that roster could not be read.
SteadyGrantsServed ==
  GrantsOf({p \in lasting : p.via = "list" \/ p.facility \notin skipped})
    \subseteq Automatic

\* The decision on a request is right for some moment of it: no one with a role
\* throughout is refused, no one without any is let in or shown something.
DecisionsAreJust ==
  /\ req.state = "403" =>
       \A g \in req.always : "access" \notin rolePermissions[g.role]
  /\ req.state = "200" =>
       /\ req.kind = "admin" => \E g \in req.ever : "access" \in rolePermissions[g.role]
       /\ req.perms \subseteq UNION {rolePermissions[g.role] : g \in req.ever}
       /\ req.facilities \subseteq {g.facility : g \in req.ever}

\* The sync and its failures never touch the grants made by hand.
ManualUntouched == [][~ByHand => Manual' = Manual]_vars

\* Once VATUSA rests and nothing fails, the grants become what VATUSA holds.
Converges == <>[](Automatic = GrantsOf(Postings(upstream)))
=============================================================================
