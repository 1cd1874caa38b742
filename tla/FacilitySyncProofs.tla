------------------------- MODULE FacilitySyncProofs -------------------------
(***************************************************************************)
(* Proofs about FacilitySync for any facilities, controllers, states of    *)
(* VATUSA and hand-made grants, and any number of changes and failures.    *)
(***************************************************************************)
EXTENDS FacilitySync, TLAPS

\* Every disjunct of Next, one name each.
LEMMA NextCases ==
  ASSUME [Next]_vars
  PROVE  \/ UpstreamChanges \/ GrantByHand \/ RevokeByHand
         \/ Boot \/ SeedRoles \/ SeedMappings \/ Crash
         \/ TickerFires \/ ListFails \/ ListAnswers
         \/ \E f \in Facilities : UpsertFacility(f) \/ RosterAnswers(f) \/ RosterFails(f)
         \/ Delete \/ Insert \/ Rejected \/ ReconcileFails \/ Commit
         \/ \E c \in Cids, kind \in {"me", "admin"} : Ask(kind, c)
         \/ RequirePermission \/ MePermissions \/ UserFacilities \/ Answered
         \/ UNCHANGED vars
  BY DEF Next, ByHand, BootStep, SyncStep, RequestStep
-----------------------------------------------------------------------------
(* What an answer of VATUSA grants *)

\* The roles of staff positions and of rosters are roles.
LEMMA RoleKeys ==
  /\ \A k \in ListKeys : vatusaRoleToKey[k] \in roles /\ k \in StaffKeys
  /\ \A k \in DOMAIN vatusaRoleToKey : vatusaRoleToKey[k] \in roles
<1>1. DOMAIN vatusaRoleToKey = {"ATM", "DATM", "TA", "FE", "FACCBT"}
  BY DEF vatusaRoleToKey
<1>2. /\ vatusaRoleToKey["ATM"] = "atm" /\ vatusaRoleToKey["DATM"] = "datm"
      /\ vatusaRoleToKey["TA"] = "ta" /\ vatusaRoleToKey["FE"] = "fe"
      /\ vatusaRoleToKey["FACCBT"] = "faccbt"
  BY DEF vatusaRoleToKey
<1> QED
  BY <1>1, <1>2 DEF ListKeys, StaffKeys, roles

\* A posting of the list is well-formed, of a listed facility and marked so.
LEMMA StaffPosting ==
  ASSUME NEW up \in Upstreams, NEW f \in DOMAIN up, NEW p \in StaffOf(up, f)
  PROVE  p \in PostingSet /\ p.via = "list" /\ p.facility = f
<1>1. PICK k \in ListKeys :
        up[f].staff[k] > 0 /\ p = Posting(up[f].staff[k], f, vatusaRoleToKey[k], "list")
  BY DEF StaffOf
<1>2. up[f].staff[k] \in Cids /\ f \in Facilities
  BY <1>1, SyncAssumption, AccessAssumption, RoleKeys
<1> QED
  BY <1>1, <1>2, RoleKeys DEF Posting, PostingSet

\* So is a posting of a roster.
LEMMA RosterPosting ==
  ASSUME NEW up \in Upstreams, NEW f \in DOMAIN up, NEW p \in RosterOf(up, f)
  PROVE  p \in PostingSet /\ p.via = "roster" /\ p.facility = f
<1>1. PICK r \in up[f].roster :
        /\ r.role \in DOMAIN vatusaRoleToKey /\ r.cid > 0
        /\ p = Posting(r.cid, f, vatusaRoleToKey[r.role], "roster")
  BY DEF RosterOf
<1>2. r.cid \in Cids /\ f \in Facilities
  BY <1>1, SyncAssumption
<1> QED
  BY <1>1, <1>2, RoleKeys DEF Posting, PostingSet

LEMMA PostingsType ==
  ASSUME NEW up \in Upstreams
  PROVE  /\ Postings(up) \subseteq PostingSet
         /\ ListPostings(up) \subseteq Postings(up)
         /\ \A f \in DOMAIN up : RosterOf(up, f) \subseteq Postings(up)
         /\ DOMAIN up \subseteq Facilities
  BY StaffPosting, RosterPosting, SyncAssumption DEF Postings, ListPostings

\* A posting is found where it says, and at a listed facility.
LEMMA PostingFound ==
  ASSUME NEW up \in Upstreams, NEW p \in Postings(up)
  PROVE  /\ p.facility \in DOMAIN up
         /\ p.via = "list" => p \in ListPostings(up)
         /\ p.via # "list" => p \in RosterOf(up, p.facility)
  BY StaffPosting, RosterPosting DEF Postings, ListPostings

LEMMA GrantOfType ==
  ASSUME NEW p \in PostingSet
  PROVE  GrantOf(p) \in Grants /\ GrantOf(p).source = "vatusa"
  BY DEF PostingSet, GrantOf, Grants

LEMMA GrantsOfType ==
  ASSUME NEW P, P \subseteq PostingSet
  PROVE  GrantsOf(P) \subseteq Grants /\ \A g \in GrantsOf(P) : g.source = "vatusa"
  BY GrantOfType DEF GrantsOf

LEMMA GrantsOfMember ==
  ASSUME NEW P, NEW p \in P PROVE GrantOf(p) \in GrantsOf(P)
  BY DEF GrantsOf

LEMMA GrantsOfMonotone ==
  ASSUME NEW P, NEW Q, P \subseteq Q PROVE GrantsOf(P) \subseteq GrantsOf(Q)
  BY DEF GrantsOf
-----------------------------------------------------------------------------
(* Requests and the rows they read *)

FullRequests ==
  [state : {"asked", "allowed", "200", "401", "403", "500"}, kind : {"me", "admin"},
   cid : Cids, perms : SUBSET permissions, facilities : SUBSET Facilities,
   ever : SUBSET Grants, always : SUBSET Grants]

LEMMA FullRequest ==
  /\ RequestSet = {NoRequest} \cup FullRequests
  /\ \A r \in RequestSet : r.state # "none" => r \in FullRequests
  /\ NoRequest \in RequestSet /\ NoRequest.state = "none"
  BY DEF RequestSet, FullRequests, NoRequest

LEMMA PermissionsOfRoles == \A r \in roles : rolePermissions[r] \subseteq permissions
  BY DEF roles, rolePermissions, permissions

LEMMA PermissionsRead ==
  ASSUME NEW rows \in SUBSET Grants, NEW with, NEW c
  PROVE  GetUserPermissions(rows, with, c) \subseteq permissions
<1>1. \A g \in rows : g.role \in roles
  BY DEF Grants
<1> QED
  BY <1>1, PermissionsOfRoles DEF GetUserPermissions

LEMMA FacilitiesRead ==
  ASSUME NEW rows \in SUBSET Grants, NEW c
  PROVE  /\ GetUserFacilityRoles(rows, c) \in SUBSET Grants
         /\ GetUserFacilityRoles(rows, c) \subseteq rows
         /\ DOMAIN groupFacilities(GetUserFacilityRoles(rows, c)) \subseteq Facilities
         /\ DOMAIN groupFacilities(GetUserFacilityRoles(rows, c))
              \subseteq {g.facility : g \in GetUserFacilityRoles(rows, c)}
<1>1. \A g \in Grants : g.facility \in Facilities \cup {SystemWide}
  BY DEF Grants
<1> QED
  BY <1>1 DEF GetUserFacilityRoles, groupFacilities

LEMMA WitnessedType ==
  ASSUME req \in RequestSet, NEW rows \in SUBSET Grants
  PROVE  Witnessed(rows) \in RequestSet
<1>1. CASE req.state = "none"
  BY <1>1 DEF Witnessed
<1>2. CASE req.state # "none"
  <2>1. req \in FullRequests
    BY <1>2, FullRequest
  <2>2. [req EXCEPT !.ever = @ \cup GetUserFacilityRoles(rows, req.cid),
                    !.always = @ \cap rows] \in FullRequests
    BY <2>1, FacilitiesRead DEF FullRequests
  <2> QED
    BY <1>2, <2>2, FullRequest DEF Witnessed
<1> QED
  BY <1>1, <1>2
-----------------------------------------------------------------------------
(* Type correctness *)

LEMMA TypeInit == Init => TypeOK
<1> SUFFICES ASSUME Init PROVE TypeOK
  OBVIOUS
<1>1. 0 \in 0..MaxChanges /\ 0 \in 0..MaxFaults
  BY SyncAssumption
<1> QED
  BY <1>1, FullRequest DEF Init, TypeOK

LEMMA FaultType ==
  ASSUME TypeOK, Fault PROVE faults' \in 0..MaxFaults
  BY SyncAssumption DEF TypeOK, Fault

LEMMA TypeOfWorld ==
  ASSUME TypeOK, UpstreamChanges \/ GrantByHand \/ RevokeByHand
  PROVE  TypeOK'
<1>1. CASE UpstreamChanges
  <2>1. changes' \in 0..MaxChanges /\ upstream' \in Upstreams
    BY <1>1, SyncAssumption DEF UpstreamChanges, TypeOK
  <2>2. /\ window' \subseteq PostingSet /\ steady' \subseteq PostingSet
        /\ lasting' \subseteq PostingSet
    BY <1>1, <2>1, PostingsType DEF UpstreamChanges, TypeOK
  <2> QED
    BY <1>1, <2>1, <2>2 DEF UpstreamChanges, TypeOK, tables, locals, txVars
<1>2. CASE GrantByHand
  <2>1. grants' \subseteq Grants
    BY <1>2, SyncAssumption DEF GrantByHand, TypeOK
  <2>2. req' \in RequestSet
    BY <1>2, <2>1, WitnessedType DEF GrantByHand, TypeOK
  <2> QED
    BY <1>2, <2>1, <2>2 DEF GrantByHand, TypeOK, world, locals, txVars, history
<1>3. CASE RevokeByHand
  <2>1. grants' \subseteq Grants
    BY <1>3 DEF RevokeByHand, TypeOK
  <2>2. req' \in RequestSet
    BY <1>3, <2>1, WitnessedType DEF RevokeByHand, TypeOK
  <2> QED
    BY <1>3, <2>1, <2>2 DEF RevokeByHand, TypeOK, world, locals, txVars, history
<1> QED
  BY <1>1, <1>2, <1>3

LEMMA TypeOfBoot ==
  ASSUME TypeOK, Boot \/ SeedRoles \/ SeedMappings \/ Crash \/ TickerFires
  PROVE  TypeOK'
<1>1. CASE Boot
  BY <1>1 DEF Boot, TypeOK, world, tables, locals, txVars, history
<1>2. CASE SeedRoles
  BY <1>2, FaultType DEF SeedRoles, Upsert, TypeOK, world, locals, txVars, history
<1>3. CASE SeedMappings
  <2>1. mapped' \subseteq roles
    BY <1>3 DEF SeedMappings, Upsert, TypeOK, roles
  <2>2. window' \subseteq PostingSet /\ steady' \subseteq PostingSet
    BY <1>3, PostingsType DEF SeedMappings, StartSync, TypeOK
  <2>3. faults' \in 0..MaxFaults
    BY <1>3, FaultType DEF SeedMappings, TypeOK
  <2> QED
    BY <1>3, <2>1, <2>2, <2>3
       DEF SeedMappings, StartSync, TypeOK, world, locals, txVars
<1>4. CASE Crash
  BY <1>4, FaultType, FullRequest DEF Crash, TypeOK, world, tables, history
<1>5. CASE TickerFires
  <2>1. window' \subseteq PostingSet /\ steady' \subseteq PostingSet
    BY <1>5, PostingsType DEF TickerFires, StartSync, TypeOK
  <2> QED
    BY <1>5, <2>1 DEF TickerFires, StartSync, TypeOK, world, tables, locals, txVars
<1> QED
  BY <1>1, <1>2, <1>3, <1>4, <1>5

LEMMA TypeOfCollecting ==
  ASSUME TypeOK,
         \/ ListFails \/ ListAnswers
         \/ \E f \in Facilities : UpsertFacility(f) \/ RosterAnswers(f) \/ RosterFails(f)
  PROVE  TypeOK'
<1>1. CASE ListFails
  BY <1>1, FaultType DEF ListFails, TypeOK, world, tables, locals, txVars, history
<1>2. CASE ListAnswers
  <2>1. /\ DOMAIN upstream \subseteq Facilities
        /\ GrantsOf(ListPostings(upstream)) \subseteq Grants
    BY PostingsType, GrantsOfType DEF TypeOK
  <2> QED
    BY <1>2, <2>1 DEF ListAnswers, TypeOK, world, tables, txVars, history
<1>3. ASSUME NEW f \in Facilities, UpsertFacility(f) PROVE TypeOK'
  BY <1>3, FaultType
     DEF UpsertFacility, UpsertFacilityRow, TypeOK, world, txVars, history
<1>4. ASSUME NEW f \in Facilities, RosterAnswers(f) PROVE TypeOK'
  <2>1. GrantsOf(RosterOf(upstream, f)) \subseteq Grants
    BY <1>4, PostingsType, GrantsOfType DEF RosterAnswers, TypeOK
  <2> QED
    BY <1>4, <2>1 DEF RosterAnswers, TypeOK, world, tables, txVars, history
<1>5. ASSUME NEW f \in Facilities, RosterFails(f) PROVE TypeOK'
  BY <1>5, FaultType DEF RosterFails, TypeOK, world, tables, txVars, history
<1> QED
  BY <1>1, <1>2, <1>3, <1>4, <1>5

LEMMA TypeOfReconciling ==
  ASSUME TypeOK, Delete \/ Insert \/ Rejected \/ ReconcileFails \/ Commit
  PROVE  TypeOK'
<1>1. CASE Delete
  BY <1>1 DEF Delete, DeleteGrantsBySource, TypeOK, world, tables, locals, history
<1>2. CASE Insert
  BY <1>2 DEF Insert, TypeOK, world, tables, locals, history
<1>3. CASE Rejected
  BY <1>3 DEF Rejected, Rollback, TypeOK, world, tables, locals, history
<1>4. CASE ReconcileFails
  BY <1>4, FaultType DEF ReconcileFails, Rollback, TypeOK, world, tables, locals, history
<1>5. CASE Commit
  <2>1. grants' \subseteq Grants
    BY <1>5 DEF Commit, TypeOK
  <2>2. req' \in RequestSet
    BY <1>5, <2>1, WitnessedType DEF Commit, TypeOK
  <2> QED
    BY <1>5, <2>1, <2>2 DEF Commit, TypeOK, world, locals
<1> QED
  BY <1>1, <1>2, <1>3, <1>4, <1>5

LEMMA TypeOfRequests ==
  ASSUME TypeOK,
         \/ \E c \in Cids, kind \in {"me", "admin"} : Ask(kind, c)
         \/ RequirePermission \/ MePermissions \/ UserFacilities \/ Answered
  PROVE  TypeOK'
<1>1. ASSUME req' \in RequestSet, faults' \in 0..MaxFaults,
             UNCHANGED <<world, tables, proc, pc, locals, txVars, history>>
      PROVE  TypeOK'
  BY <1>1 DEF TypeOK, world, tables, locals, txVars, history
<1>2. ASSUME NEW c \in Cids, NEW kind \in {"me", "admin"}, Ask(kind, c) PROVE TypeOK'
  <2>1. req' \in FullRequests
    BY <1>2, FacilitiesRead DEF Ask, FullRequests, TypeOK
  <2> QED
    BY <1>1, <1>2, <2>1, FullRequest DEF Ask, TypeOK
<1>3. CASE RequirePermission
  <2>1. req \in FullRequests
    BY <1>3, FullRequest DEF RequirePermission, TypeOK
  <2>2. req' \in FullRequests /\ faults' \in 0..MaxFaults
    BY <1>3, <2>1, FaultType DEF RequirePermission, FullRequests, TypeOK
  <2> QED
    BY <1>1, <1>3, <2>2, FullRequest DEF RequirePermission
<1>4. CASE MePermissions
  <2>1. req \in FullRequests
    BY <1>4, FullRequest DEF MePermissions, TypeOK
  <2>2. GetUserPermissions(grants, mapped, req.cid) \subseteq permissions
    BY PermissionsRead DEF TypeOK
  <2>3. req' \in FullRequests /\ faults' \in 0..MaxFaults
    BY <1>4, <2>1, <2>2, FaultType DEF MePermissions, FullRequests, TypeOK
  <2> QED
    BY <1>1, <1>4, <2>3, FullRequest DEF MePermissions
<1>5. CASE UserFacilities
  <2>1. req \in FullRequests
    BY <1>5, FullRequest DEF UserFacilities, TypeOK
  <2>2. DOMAIN groupFacilities(GetUserFacilityRoles(grants, req.cid)) \subseteq Facilities
    BY FacilitiesRead DEF TypeOK
  <2>3. req' \in FullRequests /\ faults' \in 0..MaxFaults
    BY <1>5, <2>1, <2>2, FaultType DEF UserFacilities, FullRequests, TypeOK
  <2> QED
    BY <1>1, <1>5, <2>3, FullRequest DEF UserFacilities
<1>6. CASE Answered
  BY <1>1, <1>6, FullRequest DEF Answered, TypeOK
<1> QED
  BY <1>2, <1>3, <1>4, <1>5, <1>6

LEMMA TypeStep ==
  ASSUME TypeOK, [Next]_vars PROVE TypeOK'
<1>1. CASE UNCHANGED vars
  BY <1>1 DEF TypeOK, vars, world, tables, locals, txVars, history
<1> QED
  BY <1>1, NextCases, TypeOfWorld, TypeOfBoot, TypeOfCollecting, TypeOfReconciling,
     TypeOfRequests

\* Types hold for every instance; in particular no vacant position, no controller
\* 0, reaches the grants (syncer.go, add).
THEOREM TypeCorrect == Spec => []TypeOK
<1>1. Init => TypeOK
  BY TypeInit
<1>2. TypeOK /\ [Next]_vars => TypeOK'
  BY TypeStep
<1> QED
  BY <1>1, <1>2, PTL DEF Spec
-----------------------------------------------------------------------------
(* What a sync in progress knows *)

\* While a sync is under way, its history brackets what VATUSA holds.
Tracking ==
  pc \in {"listing", "collecting", "inserting"} =>
    steady \subseteq Postings(upstream) /\ Postings(upstream) \subseteq window

\* What it wants was upstream, and lacks of the lasting postings only those of
\* rosters that have not answered.
Collected ==
  pc \in {"collecting", "inserting"} =>
    /\ wanted \subseteq GrantsOf(window)
    /\ \A p \in steady :
         \/ GrantOf(p) \in wanted
         \/ p.via # "list" /\ p.facility \in toFetch \cup missed

\* The transaction replaces the automatic grants by the wanted ones.
Transacted ==
  pc = "inserting" =>
    toFetch = {} /\ deleted = Automatic /\ toInsert \cup inserted = wanted

SyncInv == Tracking /\ Collected /\ Transacted

\* Nothing SyncInv speaks of has changed.
SyncVars == <<upstream, pc, window, steady, wanted, toFetch, missed, toInsert,
              inserted, deleted, Automatic>>

LEMMA SyncInvStutter ==
  ASSUME SyncInv, UNCHANGED SyncVars PROVE SyncInv'
<1>1. Postings(upstream)' = Postings(upstream) /\ GrantsOf(window)' = GrantsOf(window)
  BY DEF SyncVars, Postings, ListPostings, StaffOf, RosterOf, GrantsOf
<1> QED
  BY <1>1 DEF SyncInv, Tracking, Collected, Transacted, SyncVars

\* An administrator's grants are never automatic.
LEMMA ByHandLeavesAutomatic ==
  ASSUME TypeOK, GrantByHand \/ RevokeByHand PROVE Automatic' = Automatic
<1>1. \A g \in ManualGrants : g.source # "vatusa"
  BY SyncAssumption
<1> QED
  BY <1>1 DEF GrantByHand, RevokeByHand, Automatic, Manual, BySource

\* The commit replaces the automatic grants and leaves the others.
LEMMA CommitReplacesAutomatic ==
  ASSUME TypeOK, SyncInv, Commit
  PROVE  /\ inserted = wanted /\ wanted \subseteq GrantsOf(window)
         /\ Automatic' = wanted /\ Manual' = Manual
<1>1. pc = "inserting" /\ toInsert = {} /\ grants' = (grants \ deleted) \cup inserted
  BY DEF Commit
<1>2. /\ inserted = wanted /\ deleted = Automatic
      /\ wanted \subseteq GrantsOf(window)
  BY <1>1 DEF SyncInv, Transacted, Collected
<1>3. \A g \in wanted : g.source = "vatusa"
  BY <1>2, GrantsOfType DEF TypeOK
<1> QED
  BY <1>1, <1>2, <1>3 DEF Automatic, Manual, BySource

LEMMA SyncInit == Init => SyncInv
  BY DEF Init, SyncInv, Tracking, Collected, Transacted

LEMMA SyncInvOfUpstream ==
  ASSUME TypeOK, SyncInv, UpstreamChanges PROVE SyncInv'
<1>1. /\ window' = window \cup Postings(upstream')
      /\ steady' = steady \cap Postings(upstream')
      /\ UNCHANGED <<pc, wanted, toFetch, missed, toInsert, inserted, deleted, grants>>
  BY DEF UpstreamChanges, tables, locals, txVars
<1>2. Postings(upstream)' = Postings(upstream') /\ GrantsOf(window)' = GrantsOf(window')
  BY DEF Postings, ListPostings, StaffOf, RosterOf, GrantsOf
<1>3. Tracking'
  BY <1>1, <1>2 DEF Tracking
<1>4. GrantsOf(window) \subseteq GrantsOf(window')
  BY <1>1, GrantsOfMonotone
<1>5. Collected'
  BY <1>1, <1>2, <1>4 DEF Collected, SyncInv
<1>6. Transacted'
  BY <1>1 DEF Transacted, SyncInv, Automatic
<1> QED
  BY <1>3, <1>5, <1>6 DEF SyncInv

LEMMA SyncInvOfStart ==
  ASSUME TypeOK, StartSync, upstream' = upstream PROVE SyncInv'
<1>1. Postings(upstream)' = Postings(upstream)
  BY DEF Postings, ListPostings, StaffOf, RosterOf
<1> QED
  BY <1>1 DEF StartSync, SyncInv, Tracking, Collected, Transacted

LEMMA SyncInvOfList ==
  ASSUME TypeOK, SyncInv, ListAnswers PROVE SyncInv'
<1>1. /\ pc = "listing" /\ pc' = "collecting" /\ upstream' = upstream
      /\ window' = window /\ steady' = steady
      /\ toFetch' = DOMAIN upstream /\ wanted' = GrantsOf(ListPostings(upstream))
  BY DEF ListAnswers, world, history
<1>2. Postings(upstream)' = Postings(upstream) /\ GrantsOf(window)' = GrantsOf(window)
  BY <1>1 DEF Postings, ListPostings, StaffOf, RosterOf, GrantsOf
<1>3. Tracking'
  BY <1>1, <1>2 DEF Tracking, SyncInv
<1>4. wanted' \subseteq GrantsOf(window)
  BY <1>1, PostingsType, GrantsOfMonotone DEF SyncInv, Tracking, TypeOK
<1>5. ASSUME NEW p \in steady
      PROVE  GrantOf(p) \in wanted' \/ (p.via # "list" /\ p.facility \in toFetch')
  <2>1. p \in Postings(upstream) /\ upstream \in Upstreams
    BY <1>1, <1>5 DEF SyncInv, Tracking, TypeOK
  <2>2. p.facility \in DOMAIN upstream /\ (p.via = "list" => p \in ListPostings(upstream))
    BY <2>1, PostingFound
  <2> QED
    BY <1>1, <2>2, GrantsOfMember
<1>6. Collected'
  BY <1>1, <1>2, <1>4, <1>5 DEF Collected
<1> QED
  BY <1>1, <1>3, <1>6 DEF SyncInv, Transacted

LEMMA SyncInvOfRoster ==
  ASSUME TypeOK, SyncInv, NEW f \in Facilities, RosterAnswers(f) PROVE SyncInv'
<1>1. /\ pc = "collecting" /\ pc' = "collecting" /\ upstream' = upstream
      /\ window' = window /\ steady' = steady /\ missed' = missed
      /\ f \in DOMAIN upstream /\ toFetch' = toFetch \ {f}
      /\ wanted' = wanted \cup GrantsOf(RosterOf(upstream, f))
  BY DEF RosterAnswers, world, history
<1>2. Postings(upstream)' = Postings(upstream) /\ GrantsOf(window)' = GrantsOf(window)
  BY <1>1 DEF Postings, ListPostings, StaffOf, RosterOf, GrantsOf
<1>3. Tracking'
  BY <1>1, <1>2 DEF Tracking, SyncInv
<1>4. GrantsOf(RosterOf(upstream, f)) \subseteq GrantsOf(window)
  BY <1>1, PostingsType, GrantsOfMonotone DEF SyncInv, Tracking, TypeOK
<1>5. ASSUME NEW p \in steady
      PROVE  \/ GrantOf(p) \in wanted'
             \/ p.via # "list" /\ p.facility \in toFetch' \cup missed'
  <2>1. p \in Postings(upstream) /\ upstream \in Upstreams
    BY <1>1, <1>5 DEF SyncInv, Tracking, TypeOK
  <2>2. p.via # "list" => p \in RosterOf(upstream, p.facility)
    BY <2>1, PostingFound
  <2>3. \/ GrantOf(p) \in wanted
        \/ p.via # "list" /\ p.facility \in toFetch \cup missed
    BY <1>1, <1>5 DEF SyncInv, Collected
  <2> QED
    BY <1>1, <2>2, <2>3, GrantsOfMember
<1>6. Collected'
  BY <1>1, <1>2, <1>4, <1>5 DEF Collected, SyncInv
<1> QED
  BY <1>1, <1>3, <1>6 DEF SyncInv, Transacted

LEMMA SyncInvOfRosterFailure ==
  ASSUME TypeOK, SyncInv, NEW f \in Facilities, RosterFails(f) PROVE SyncInv'
<1>1. /\ pc = "collecting" /\ pc' = "collecting" /\ upstream' = upstream
      /\ window' = window /\ steady' = steady /\ wanted' = wanted
      /\ toFetch' = toFetch \ {f} /\ missed' = missed \cup {f}
  BY DEF RosterFails, world, history
<1>2. Postings(upstream)' = Postings(upstream) /\ GrantsOf(window)' = GrantsOf(window)
  BY <1>1 DEF Postings, ListPostings, StaffOf, RosterOf, GrantsOf
<1> QED
  BY <1>1, <1>2 DEF SyncInv, Tracking, Collected, Transacted

LEMMA SyncInvOfDelete ==
  ASSUME TypeOK, SyncInv, Delete PROVE SyncInv'
<1>1. /\ pc = "collecting" /\ pc' = "inserting" /\ upstream' = upstream
      /\ window' = window /\ steady' = steady /\ grants' = grants
      /\ toFetch = {} /\ toFetch' = {} /\ wanted' = wanted /\ missed' = missed
      /\ toInsert' = wanted /\ inserted' = {}
  BY DEF Delete, world, tables, locals, history
<1>2. deleted' = Automatic
  BY DEF Delete, DeleteGrantsBySource, Automatic, BySource
<1>3. Postings(upstream)' = Postings(upstream) /\ GrantsOf(window)' = GrantsOf(window)
  BY <1>1 DEF Postings, ListPostings, StaffOf, RosterOf, GrantsOf
<1> QED
  BY <1>1, <1>2, <1>3 DEF SyncInv, Tracking, Collected, Transacted, Automatic

LEMMA SyncInvOfInsert ==
  ASSUME TypeOK, SyncInv, Insert PROVE SyncInv'
<1>1. /\ pc = "inserting" /\ pc' = "inserting" /\ upstream' = upstream
      /\ window' = window /\ steady' = steady /\ grants' = grants
      /\ toFetch' = toFetch /\ wanted' = wanted /\ missed' = missed
      /\ deleted' = deleted
      /\ toInsert' \cup inserted' = toInsert \cup inserted
  BY DEF Insert, world, tables, locals, history
<1>2. Postings(upstream)' = Postings(upstream) /\ GrantsOf(window)' = GrantsOf(window)
  BY <1>1 DEF Postings, ListPostings, StaffOf, RosterOf, GrantsOf
<1> QED
  BY <1>1, <1>2 DEF SyncInv, Tracking, Collected, Transacted, Automatic

LEMMA SyncInvOfEnd ==
  ASSUME pc' \in {"off", "waiting"} PROVE SyncInv'
  BY DEF SyncInv, Tracking, Collected, Transacted

LEMMA SyncStepInv ==
  ASSUME TypeOK, SyncInv, [Next]_vars PROVE SyncInv'
<1>1. CASE GrantByHand \/ RevokeByHand
  BY <1>1, ByHandLeavesAutomatic, SyncInvStutter
     DEF GrantByHand, RevokeByHand, SyncVars, world, locals, txVars, history
<1>2. CASE Boot
  BY <1>2, SyncInvStutter
     DEF Boot, SyncVars, world, tables, locals, txVars, history, Automatic
<1>3. CASE SeedRoles
  BY <1>3, SyncInvStutter
     DEF SeedRoles, SyncVars, world, locals, txVars, history, Automatic
<1>4. CASE SeedMappings
  <2>1. CASE StartSync
    BY <1>4, <2>1, SyncInvOfStart DEF SeedMappings, world
  <2>2. CASE UNCHANGED <<pc, window, steady>>
    BY <1>4, <2>2, SyncInvStutter
       DEF SeedMappings, SyncVars, world, locals, txVars, Automatic
  <2> QED
    BY <1>4, <2>1, <2>2 DEF SeedMappings
<1>5. CASE TickerFires
  BY <1>5, SyncInvOfStart DEF TickerFires, world
<1>6. CASE Crash \/ ListFails \/ Rejected \/ ReconcileFails \/ Commit
  BY <1>6, SyncInvOfEnd DEF Crash, ListFails, Rejected, ReconcileFails, Rollback, Commit
<1>7. ASSUME NEW f \in Facilities, UpsertFacility(f) PROVE SyncInv'
  BY <1>7, SyncInvStutter DEF UpsertFacility, SyncVars, world, txVars, history, Automatic
<1>8. ASSUME \/ \E c \in Cids, kind \in {"me", "admin"} : Ask(kind, c)
             \/ RequirePermission \/ MePermissions \/ UserFacilities \/ Answered
      PROVE  SyncInv'
  BY <1>8, SyncInvStutter
     DEF Ask, RequirePermission, MePermissions, UserFacilities, Answered, SyncVars,
         world, tables, locals, txVars, history, Automatic
<1>9. CASE UNCHANGED vars
  BY <1>9, SyncInvStutter
     DEF SyncVars, vars, world, tables, locals, txVars, history, Automatic
<1> QED
  BY <1>1, <1>2, <1>3, <1>4, <1>5, <1>6, <1>7, <1>8, <1>9, NextCases, SyncInvOfUpstream,
     SyncInvOfList, SyncInvOfRoster, SyncInvOfRosterFailure, SyncInvOfDelete,
     SyncInvOfInsert

LEMMA SyncInvariant == Spec => [](TypeOK /\ SyncInv)
<1>1. Init => TypeOK /\ SyncInv
  BY TypeInit, SyncInit
<1>2. TypeOK /\ SyncInv /\ [Next]_vars => (TypeOK /\ SyncInv)'
  BY TypeStep, SyncStepInv
<1> QED
  BY <1>1, <1>2, PTL DEF Spec
-----------------------------------------------------------------------------
(* What the last sync leaves behind *)

\* The automatic grants and the history of the last sync change with a commit
\* only; VATUSA can just shorten what lasts.
LEMMA KeptSinceCommit ==
  ASSUME TypeOK, SyncInv, [Next]_vars, ~Commit
  PROVE  /\ Automatic' = Automatic /\ seen' = seen /\ skipped' = skipped
         /\ lasting' \subseteq lasting
<1>1. CASE GrantByHand \/ RevokeByHand
  BY <1>1, ByHandLeavesAutomatic DEF GrantByHand, RevokeByHand, history
<1>2. CASE UpstreamChanges
  BY <1>2 DEF UpstreamChanges, tables, Automatic
<1>3. CASE Boot \/ SeedRoles \/ SeedMappings \/ Crash
  BY <1>3 DEF Boot, SeedRoles, SeedMappings, Crash, tables, history, Automatic
<1>4. CASE TickerFires \/ ListFails \/ ListAnswers
  BY <1>4 DEF TickerFires, ListFails, ListAnswers, tables, history, Automatic
<1>5. ASSUME NEW f \in Facilities, UpsertFacility(f) \/ RosterAnswers(f) \/ RosterFails(f)
      PROVE  grants' = grants /\ UNCHANGED history
  BY <1>5 DEF UpsertFacility, RosterAnswers, RosterFails, tables
<1>6. CASE Delete \/ Insert \/ Rejected \/ ReconcileFails
  BY <1>6 DEF Delete, Insert, Rejected, ReconcileFails, Rollback, tables, history,
              Automatic
<1>7. ASSUME \/ \E c \in Cids, kind \in {"me", "admin"} : Ask(kind, c)
             \/ RequirePermission \/ MePermissions \/ UserFacilities \/ Answered
      PROVE  grants' = grants /\ UNCHANGED history
  BY <1>7 DEF Ask, RequirePermission, MePermissions, UserFacilities, Answered, tables
<1>8. CASE UNCHANGED vars
  BY <1>8 DEF vars, tables, history, Automatic
<1>9. grants' = grants /\ UNCHANGED history
      => /\ Automatic' = Automatic /\ seen' = seen /\ skipped' = skipped
         /\ lasting' \subseteq lasting
  BY DEF history, Automatic
<1> QED
  BY <1>1, <1>2, <1>3, <1>4, <1>5, <1>6, <1>7, <1>8, <1>9, NextCases

LEMMA FreshStep ==
  ASSUME TypeOK, SyncInv, GrantsAreFresh, [Next]_vars PROVE GrantsAreFresh'
<1>1. CASE Commit
  <2>1. Automatic' \subseteq GrantsOf(window) /\ seen' = window
    BY <1>1, CommitReplacesAutomatic DEF Commit
  <2>2. GrantsOf(seen)' = GrantsOf(window)
    BY <2>1 DEF GrantsOf
  <2> QED
    BY <2>1, <2>2 DEF GrantsAreFresh
<1>2. CASE ~Commit
  <2>1. Automatic' = Automatic /\ seen' = seen
    BY <1>2, KeptSinceCommit
  <2>2. GrantsOf(seen)' = GrantsOf(seen)
    BY <2>1 DEF GrantsOf
  <2> QED
    BY <2>1, <2>2 DEF GrantsAreFresh
<1> QED
  BY <1>1, <1>2

\* Every automatic grant was upstream at some moment of the last sync committed
\* (syncer.go, SyncOnce and reconcile), whatever failed or crashed in between.
THEOREM GrantsFollowLastSync == Spec => []GrantsAreFresh
<1>1. Init => GrantsAreFresh
  BY DEF Init, GrantsAreFresh, Automatic, BySource
<1>2. TypeOK /\ SyncInv /\ GrantsAreFresh /\ [Next]_vars => GrantsAreFresh'
  BY FreshStep
<1> QED
  BY <1>1, <1>2, SyncInvariant, PTL DEF Spec

\* The lasting postings that must be granted.
Served(postings, without) ==
  {p \in postings : p.via = "list" \/ p.facility \notin without}

LEMMA ServedStep ==
  ASSUME TypeOK, SyncInv, SteadyGrantsServed, [Next]_vars PROVE SteadyGrantsServed'
<1>1. CASE Commit
  <2>1. /\ pc = "inserting" /\ lasting' = steady /\ skipped' = missed
        /\ Automatic' = wanted
    BY <1>1, CommitReplacesAutomatic DEF Commit
  <2>2. ASSUME NEW p \in Served(steady, missed) PROVE GrantOf(p) \in wanted
    BY <2>1, <2>2 DEF Served, SyncInv, Collected, Transacted
  <2>3. GrantsOf(Served(steady, missed)) \subseteq wanted
    BY <2>2 DEF GrantsOf
  <2>4. GrantsOf(Served(lasting, skipped))' = GrantsOf(Served(steady, missed))
    BY <2>1 DEF GrantsOf, Served
  <2> QED
    BY <2>1, <2>3, <2>4 DEF SteadyGrantsServed, Served
<1>2. CASE ~Commit
  <2>1. Automatic' = Automatic /\ skipped' = skipped /\ lasting' \subseteq lasting
    BY <1>2, KeptSinceCommit
  <2>2. Served(lasting', skipped') \subseteq Served(lasting, skipped)
    BY <2>1 DEF Served
  <2>3. GrantsOf(Served(lasting', skipped')) \subseteq GrantsOf(Served(lasting, skipped))
    BY <2>2, GrantsOfMonotone
  <2>4. GrantsOf(Served(lasting, skipped))' = GrantsOf(Served(lasting', skipped'))
    BY DEF GrantsOf, Served
  <2> QED
    BY <2>1, <2>3, <2>4 DEF SteadyGrantsServed, Served
<1> QED
  BY <1>1, <1>2

\* Whoever kept a position since the last sync that was committed began has its
\* grant, unless it was a matter of a roster that failed (syncer.go, the skipped
\* facilities of SyncOnce).
THEOREM SteadyAreServed == Spec => []SteadyGrantsServed
<1>1. Init => SteadyGrantsServed
  BY DEF Init, SteadyGrantsServed, GrantsOf
<1>2. TypeOK /\ SyncInv /\ SteadyGrantsServed /\ [Next]_vars => SteadyGrantsServed'
  BY ServedStep
<1> QED
  BY <1>1, <1>2, SyncInvariant, PTL DEF Spec

LEMMA ManualStep ==
  ASSUME TypeOK, SyncInv, [Next]_vars, ~ByHand PROVE Manual' = Manual
<1>1. CASE Commit
  BY <1>1, CommitReplacesAutomatic
<1>2. ASSUME NEW f \in Facilities, UpsertFacility(f) \/ RosterAnswers(f) \/ RosterFails(f)
      PROVE  grants' = grants
  BY <1>2 DEF UpsertFacility, RosterAnswers, RosterFails, tables
<1>3. ASSUME \/ \E c \in Cids, kind \in {"me", "admin"} : Ask(kind, c)
             \/ RequirePermission \/ MePermissions \/ UserFacilities \/ Answered
      PROVE  grants' = grants
  BY <1>3 DEF Ask, RequirePermission, MePermissions, UserFacilities, Answered, tables
<1>4. CASE UpstreamChanges \/ Boot \/ SeedRoles \/ SeedMappings \/ Crash
  BY <1>4 DEF UpstreamChanges, Boot, SeedRoles, SeedMappings, Crash, tables, Manual
<1>5. CASE \/ TickerFires \/ ListFails \/ ListAnswers
           \/ Delete \/ Insert \/ Rejected \/ ReconcileFails
  BY <1>5 DEF TickerFires, ListFails, ListAnswers, Delete, Insert, Rejected,
              ReconcileFails, Rollback, tables, Manual
<1>6. CASE UNCHANGED vars
  BY <1>6 DEF vars, tables, Manual
<1>7. grants' = grants => Manual' = Manual
  BY DEF Manual
<1> QED
  BY <1>1, <1>2, <1>3, <1>4, <1>5, <1>6, <1>7, NextCases DEF ByHand

\* Syncs, failures and crashes leave the hand-made grants alone (syncer.go,
\* reconcile: only rows of the source vatusa are deleted).
THEOREM ManualIsUntouched == Spec => ManualUntouched
<1>1. TypeOK /\ SyncInv /\ [Next]_vars => [~ByHand => Manual' = Manual]_vars
  BY ManualStep
<1> QED
  BY <1>1, SyncInvariant, PTL DEF Spec, ManualUntouched
-----------------------------------------------------------------------------
(* What a request has seen *)

Gives(g) == "access" \in rolePermissions[g.role]

\* A request r when the grants are rows: its two bounds enclose the grants of its
\* caller, and what it read so far lies within them.
Bracketed(r, rows) ==
  /\ r.always \subseteq GetUserFacilityRoles(rows, r.cid)
  /\ GetUserFacilityRoles(rows, r.cid) \subseteq r.ever
  /\ r.state = "403" => \A g \in r.always : ~Gives(g)
  /\ r.kind = "admin" /\ r.state \in {"allowed", "200"} => \E g \in r.ever : Gives(g)
  /\ r.perms \subseteq UNION {rolePermissions[g.role] : g \in r.ever}
  /\ r.facilities \subseteq {g.facility : g \in r.ever}

\* Requests are served by a process that has seeded every mapping.
RequestInv ==
  /\ proc = "up" => mapped = roles
  /\ req.state # "none" => proc = "up" /\ Bracketed(req, grants)

LEMMA WitnessedBracketed ==
  ASSUME NEW r, NEW n, NEW before, NEW after, Bracketed(r, before),
         /\ n.state = r.state /\ n.kind = r.kind /\ n.cid = r.cid
         /\ n.perms = r.perms /\ n.facilities = r.facilities
         /\ n.ever = r.ever \cup GetUserFacilityRoles(after, r.cid)
         /\ n.always = r.always \cap after
  PROVE  Bracketed(n, after)
<1>1. n.always \subseteq GetUserFacilityRoles(after, n.cid)
  BY DEF Bracketed, GetUserFacilityRoles
<1>2. r.ever \subseteq n.ever /\ n.always \subseteq r.always
  OBVIOUS
<1>3. /\ n.perms \subseteq UNION {rolePermissions[g.role] : g \in n.ever}
      /\ n.facilities \subseteq {g.facility : g \in n.ever}
  BY <1>2 DEF Bracketed
<1> QED
  BY <1>1, <1>2, <1>3 DEF Bracketed

\* The grants change: every change keeps the books of the request in progress.
LEMMA RequestInvOfGrants ==
  ASSUME TypeOK, RequestInv, req' = Witnessed(grants'), mapped' = mapped, proc' = proc
  PROVE  RequestInv'
<1>1. CASE req.state = "none"
  BY <1>1 DEF Witnessed, RequestInv
<1>2. CASE req.state # "none"
  <2>1. req \in FullRequests /\ Bracketed(req, grants)
    BY <1>2, FullRequest DEF TypeOK, RequestInv
  <2>2. /\ req'.state = req.state /\ req'.kind = req.kind /\ req'.cid = req.cid
        /\ req'.perms = req.perms /\ req'.facilities = req.facilities
        /\ req'.ever = req.ever \cup GetUserFacilityRoles(grants', req.cid)
        /\ req'.always = req.always \cap grants'
    BY <1>2, <2>1 DEF Witnessed, FullRequests
  <2>3. Bracketed(req', grants')
    BY <2>1, <2>2, WitnessedBracketed
  <2>4. Bracketed(req, grants)'
    BY <2>3
  <2> QED
    BY <1>2, <2>4 DEF RequestInv
<1> QED
  BY <1>1, <1>2

LEMMA RequestInvStutter ==
  ASSUME RequestInv, req' = req, grants' = grants, mapped' = mapped, proc' = proc
  PROVE  RequestInv'
  BY DEF RequestInv, Bracketed, Gives

\* A request takes a step: the tables are those it reads.
LEMMA RequestInvOfAnswer ==
  ASSUME RequestInv, UNCHANGED <<grants, mapped, proc>>,
         req'.state # "none" => proc = "up" /\ Bracketed(req', grants)
  PROVE  RequestInv'
<1>1. Bracketed(req, grants)' = Bracketed(req', grants)
  BY DEF Bracketed, Gives
<1> QED
  BY <1>1 DEF RequestInv

\* What is read now lies within the bounds of the request.
LEMMA ReadsBracketed ==
  ASSUME NEW r, NEW rows \in SUBSET Grants, Bracketed(r, rows)
  PROVE  /\ GetUserPermissions(rows, roles, r.cid)
              \subseteq UNION {rolePermissions[g.role] : g \in r.ever}
         /\ DOMAIN groupFacilities(GetUserFacilityRoles(rows, r.cid))
              \subseteq {g.facility : g \in r.ever}
         /\ \A g \in r.always :
              rolePermissions[g.role] \subseteq GetUserPermissions(rows, roles, r.cid)
<1>1. GetUserFacilityRoles(rows, r.cid) \subseteq r.ever
  BY DEF Bracketed
<1>2. \A g \in rows : g.cid = r.cid => g \in r.ever
  BY <1>1 DEF GetUserFacilityRoles
<1>3. GetUserPermissions(rows, roles, r.cid)
        \subseteq UNION {rolePermissions[g.role] : g \in r.ever}
  BY <1>2 DEF GetUserPermissions
<1>4. {g.facility : g \in GetUserFacilityRoles(rows, r.cid)}
        \subseteq {g.facility : g \in r.ever}
  BY <1>1
<1>5. DOMAIN groupFacilities(GetUserFacilityRoles(rows, r.cid))
        \subseteq {g.facility : g \in r.ever}
  BY <1>4, FacilitiesRead
<1>6. \A g \in r.always : g \in rows /\ g.cid = r.cid /\ g.role \in roles
  BY DEF Bracketed, GetUserFacilityRoles, Grants
<1>7. \A g \in r.always :
        rolePermissions[g.role] \subseteq GetUserPermissions(rows, roles, r.cid)
  BY <1>6 DEF GetUserPermissions
<1> QED
  BY <1>3, <1>5, <1>7

LEMMA RequestInvOfAsk ==
  ASSUME TypeOK, RequestInv, NEW c \in Cids, NEW kind \in {"me", "admin"}, Ask(kind, c)
  PROVE  RequestInv'
<1>1. UNCHANGED <<grants, mapped, proc>> /\ proc = "up"
  BY DEF Ask, tables
<1>2. /\ req'.state = "asked" /\ req'.cid = c
      /\ req'.perms = {} /\ req'.facilities = {}
      /\ req'.ever = GetUserFacilityRoles(grants, c)
      /\ req'.always = GetUserFacilityRoles(grants, c)
  BY DEF Ask
<1>3. Bracketed(req', grants)
  BY <1>2 DEF Bracketed
<1> QED
  BY <1>1, <1>3, RequestInvOfAnswer

\* A step that keeps the bounds keeps what must lie within them.
LEMMA SameBounds ==
  ASSUME NEW r, NEW n, NEW rows, Bracketed(r, rows),
         n.kind = r.kind /\ n.cid = r.cid /\ n.ever = r.ever /\ n.always = r.always,
         n.state = "403" => \A g \in r.always : ~Gives(g),
         n.kind = "admin" /\ n.state \in {"allowed", "200"} => \E g \in r.ever : Gives(g),
         n.perms \subseteq UNION {rolePermissions[g.role] : g \in r.ever},
         n.facilities \subseteq {g.facility : g \in r.ever}
  PROVE  Bracketed(n, rows)
  BY DEF Bracketed

LEMMA RequestInvOfPermission ==
  ASSUME TypeOK, RequestInv, RequirePermission PROVE RequestInv'
<1> DEFINE read == GetUserPermissions(grants, mapped, req.cid)
<1>1. /\ req \in FullRequests /\ proc = "up" /\ mapped = roles /\ Bracketed(req, grants)
      /\ grants \in SUBSET Grants
  BY FullRequest DEF RequirePermission, RequestInv, TypeOK
<1>2. /\ UNCHANGED <<grants, mapped, proc>>
      /\ req'.kind = req.kind /\ req'.cid = req.cid
      /\ req'.ever = req.ever /\ req'.always = req.always
      /\ req'.perms = req.perms /\ req'.facilities = req.facilities
      /\ req'.state \in {"allowed", "403", "500"}
      /\ req'.state = "allowed" => "access" \in read
      /\ req'.state = "403" => "access" \notin read
  BY <1>1 DEF RequirePermission, FullRequests, tables
<1>3. /\ read \subseteq UNION {rolePermissions[g.role] : g \in req.ever}
      /\ \A g \in req.always : rolePermissions[g.role] \subseteq read
  BY <1>1, ReadsBracketed
<1>4. req'.state = "403" => \A g \in req.always : ~Gives(g)
  BY <1>2, <1>3 DEF Gives
<1>5. req'.state = "allowed" => \E g \in req.ever : Gives(g)
  BY <1>2, <1>3 DEF Gives
<1>6. /\ req.perms \subseteq UNION {rolePermissions[g.role] : g \in req.ever}
      /\ req.facilities \subseteq {g.facility : g \in req.ever}
  BY <1>1 DEF Bracketed
<1>7. Bracketed(req', grants)
  BY <1>1, <1>2, <1>4, <1>5, <1>6, SameBounds
<1> QED
  BY <1>1, <1>2, <1>7, RequestInvOfAnswer

LEMMA RequestInvOfMe ==
  ASSUME TypeOK, RequestInv, MePermissions PROVE RequestInv'
<1> DEFINE read == GetUserPermissions(grants, mapped, req.cid)
<1>1. /\ req \in FullRequests /\ proc = "up" /\ mapped = roles /\ Bracketed(req, grants)
      /\ grants \in SUBSET Grants /\ req.kind = "me"
  BY FullRequest DEF MePermissions, RequestInv, TypeOK
<1>2. /\ UNCHANGED <<grants, mapped, proc>>
      /\ req'.kind = "me" /\ req'.cid = req.cid
      /\ req'.ever = req.ever /\ req'.always = req.always
      /\ req'.perms \in {req.perms, read} /\ req'.facilities = req.facilities
      /\ req'.state \in {"allowed", "401"}
  BY <1>1 DEF MePermissions, FullRequests, tables
<1>3. read \subseteq UNION {rolePermissions[g.role] : g \in req.ever}
  BY <1>1, ReadsBracketed
<1>4. /\ req.perms \subseteq UNION {rolePermissions[g.role] : g \in req.ever}
      /\ req.facilities \subseteq {g.facility : g \in req.ever}
  BY <1>1 DEF Bracketed
<1>5. req'.perms \subseteq UNION {rolePermissions[g.role] : g \in req.ever}
  BY <1>2, <1>3, <1>4
<1>6. Bracketed(req', grants)
  BY <1>1, <1>2, <1>4, <1>5, SameBounds
<1> QED
  BY <1>1, <1>2, <1>6, RequestInvOfAnswer

LEMMA RequestInvOfFacilities ==
  ASSUME TypeOK, RequestInv, UserFacilities PROVE RequestInv'
<1> DEFINE read == DOMAIN groupFacilities(GetUserFacilityRoles(grants, req.cid))
<1>1. /\ req \in FullRequests /\ proc = "up" /\ Bracketed(req, grants)
      /\ grants \in SUBSET Grants /\ req.state = "allowed"
  BY FullRequest DEF UserFacilities, RequestInv, TypeOK
<1>2. /\ UNCHANGED <<grants, mapped, proc>>
      /\ req'.kind = req.kind /\ req'.cid = req.cid
      /\ req'.ever = req.ever /\ req'.always = req.always
      /\ req'.perms = req.perms /\ req'.facilities \in {req.facilities, read}
      /\ req'.state \in {"200", "500"}
  BY <1>1 DEF UserFacilities, FullRequests, tables
<1>3. read \subseteq {g.facility : g \in req.ever}
  BY <1>1, ReadsBracketed
<1>4. /\ req.perms \subseteq UNION {rolePermissions[g.role] : g \in req.ever}
      /\ req.facilities \subseteq {g.facility : g \in req.ever}
      /\ req.kind = "admin" => \E g \in req.ever : Gives(g)
  BY <1>1 DEF Bracketed
<1>5. req'.facilities \subseteq {g.facility : g \in req.ever}
  BY <1>2, <1>3, <1>4
<1>6. Bracketed(req', grants)
  BY <1>1, <1>2, <1>4, <1>5, SameBounds
<1> QED
  BY <1>1, <1>2, <1>6, RequestInvOfAnswer

LEMMA RequestInvStep ==
  ASSUME TypeOK, RequestInv, [Next]_vars PROVE RequestInv'
<1>1. CASE GrantByHand \/ RevokeByHand \/ Commit
  BY <1>1, RequestInvOfGrants DEF GrantByHand, RevokeByHand, Commit
<1>2. CASE UpstreamChanges \/ TickerFires \/ ListFails \/ ListAnswers
  BY <1>2, RequestInvStutter
     DEF UpstreamChanges, TickerFires, ListFails, ListAnswers, tables
<1>3. CASE Boot \/ SeedRoles \/ SeedMappings
  BY <1>3 DEF Boot, SeedRoles, SeedMappings, RequestInv, tables
<1>4. CASE Crash
  BY <1>4 DEF Crash, RequestInv, NoRequest
<1>5. ASSUME NEW f \in Facilities, UpsertFacility(f) \/ RosterAnswers(f) \/ RosterFails(f)
      PROVE  RequestInv'
  BY <1>5, RequestInvStutter DEF UpsertFacility, RosterAnswers, RosterFails, tables
<1>6. CASE Delete \/ Insert \/ Rejected \/ ReconcileFails
  BY <1>6, RequestInvStutter
     DEF Delete, Insert, Rejected, ReconcileFails, Rollback, tables
<1>7. CASE Answered
  BY <1>7, RequestInvOfAnswer DEF Answered, NoRequest, tables
<1>8. CASE UNCHANGED vars
  BY <1>8, RequestInvStutter DEF vars, tables
<1> QED
  BY <1>1, <1>2, <1>3, <1>4, <1>5, <1>6, <1>7, <1>8, NextCases, RequestInvOfAsk,
     RequestInvOfPermission, RequestInvOfMe, RequestInvOfFacilities

\* A decision on a request is right for some moment of it (middleware.go,
\* requirePermission; auth.go, handleMe), however grants change between its two
\* queries.
THEOREM DecisionsJust == Spec => []DecisionsAreJust
<1>1. Init => TypeOK /\ RequestInv
  BY TypeInit DEF Init, RequestInv, NoRequest
<1>2. TypeOK /\ RequestInv /\ [Next]_vars => (TypeOK /\ RequestInv)'
  BY TypeStep, RequestInvStep
<1>3. RequestInv => DecisionsAreJust
  BY DEF RequestInv, Bracketed, Gives, DecisionsAreJust
<1> QED
  BY <1>1, <1>2, <1>3, PTL DEF Spec
=============================================================================
