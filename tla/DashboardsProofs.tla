-------------------------- MODULE DashboardsProofs --------------------------
(***************************************************************************)
(* Proofs about Dashboards for any number of tabs, edits, faults and       *)
(* reloads.                                                                *)
(***************************************************************************)
EXTENDS Dashboards, TLAPS

PutSet == [owner : Tabs \cup {Gone}, config : Configs, state : {"sent", "ok", "failed"}]

Maybe == Configs \cup {None}
-----------------------------------------------------------------------------
(* Lemmas about configs, answers and requests *)

LEMMA ConfigTypes ==
  /\ None \notin Nat /\ Gone \notin Tabs /\ None \notin Configs /\ Configs \subseteq Nat
  /\ 0 \in Configs /\ getDefaultDashboard \in Configs
  /\ MaxEdits \in Nat /\ MaxFaults \in Nat /\ MaxReloads \in Nat
  BY DashboardAssumption, OwnerAssumption DEF Configs, getDefaultDashboard

LEMMA PutType ==
  ASSUME NEW p \in PutSet
  PROVE  /\ p = [owner |-> p.owner, config |-> p.config, state |-> p.state]
         /\ p.owner \in Tabs \cup {Gone} /\ p.config \in Configs
         /\ p.state \in {"sent", "ok", "failed"}
  BY DEF PutSet

LEMMA PutProgress ==
  ASSUME NEW p \in PutSet, NEW s \in {"sent", "ok", "failed"}, NEW q,
         q = [p EXCEPT !.state = s]
  PROVE  q \in PutSet /\ q.owner = p.owner /\ q.config = p.config /\ q.state = s
  BY DEF PutSet

LEMMA PutGone ==
  ASSUME NEW p \in PutSet, NEW q, q = [p EXCEPT !.owner = Gone]
  PROVE  q \in PutSet /\ q.owner = Gone
  BY DEF PutSet

\* What load() was answered: nothing yet, an error, a 404 or a config.
LEMMA GetType ==
  ASSUME NEW g \in GetSet
  PROVE  /\ g.state \in {"answered", "error"}
              => g = LoadError \/ \E c \in Maybe : g = Answer(c)
         /\ g # Idle => g \in {Asked, LoadError} \/ \E c \in Maybe : g = Answer(c)
  BY DEF GetSet, Maybe, Idle, Asked

LEMMA AnswerIs ==
  ASSUME NEW c
  PROVE  /\ Answer(c).config = c /\ Answer(c) # LoadError /\ Answer(c) # Idle
         /\ Answer(c) # Asked /\ (\A d : Answer(c) = Answer(d) => c = d)
<1>1. /\ Answer(c).config = c /\ Answer(c).state = "answered"
      /\ \A d : Answer(d).config = d
  BY DEF Answer
<1>2. LoadError.state = "error" /\ Idle.state = "idle" /\ Asked.state = "asked"
  BY DEF LoadError, Idle, Asked
<1> QED
  BY <1>1, <1>2

\* The config that load() leaves in the tab.
Loaded(g) == IF g \in {LoadError, Answer(None)} THEN getDefaultDashboard ELSE g.config

LEMMA LoadedType ==
  ASSUME NEW g \in GetSet, g.state \in {"answered", "error"}
  PROVE  /\ Loaded(g) \in Configs
         /\ \/ g \in {LoadError, Answer(None)} /\ Loaded(g) = getDefaultDashboard
            \/ Loaded(g) \in Configs /\ g = Answer(Loaded(g))
<1>1. CASE g = LoadError
  BY <1>1, ConfigTypes DEF Loaded
<1>2. ASSUME NEW c \in Maybe, g = Answer(c)
      PROVE  /\ Loaded(g) \in Configs
             /\ \/ g \in {LoadError, Answer(None)} /\ Loaded(g) = getDefaultDashboard
                \/ Loaded(g) \in Configs /\ g = Answer(Loaded(g))
  <2>1. CASE c = None
    BY <1>2, <2>1, ConfigTypes DEF Loaded
  <2>2. CASE c \in Configs
    <3>1. g.config = c /\ g # LoadError /\ g # Answer(None)
      BY <1>2, <2>2, AnswerIs, ConfigTypes
    <3> QED
      BY <1>2, <2>2, <3>1 DEF Loaded
  <2> QED
    BY <2>1, <2>2 DEF Maybe
<1> QED
  BY <1>1, <1>2, GetType
-----------------------------------------------------------------------------
(* Type correctness *)

\* Every disjunct of Next.
LEMMA StepCases ==
  ASSUME [Next]_vars
  PROVE  \/ UpsertDashboard \/ PutEnds \/ PutFails \/ UNCHANGED vars
         \/ \E t \in Tabs : \/ Load(t) \/ GetDefaultDashboard(t) \/ LoadEnds(t)
                            \/ Edit(t) \/ ResetToDefault(t)
                            \/ TimerFires(t) \/ Reload(t)
  BY DEF Next, Requests

\* The user changes the config in the same way whether by an edit or by the reset.
LEMMA ApplyCases ==
  ASSUME TypeOK, NEW t \in Tabs, Edit(t) \/ ResetToDefault(t)
  PROVE  \E c \in Configs : Apply(t, c)
<1>1. edits \in 0..MaxEdits /\ MaxEdits \in Nat
  BY DashboardAssumption DEF TypeOK
<1>2. CASE Edit(t)
  <2>1. edits < MaxEdits
    BY <1>2 DEF Edit, Apply
  <2>2. edits + 1 \in Configs
    BY <1>1, <2>1 DEF Configs
  <2> QED
    BY <1>2, <2>2 DEF Edit
<1>3. CASE ResetToDefault(t)
  BY <1>3, ConfigTypes DEF ResetToDefault
<1> QED
  BY <1>2, <1>3

\* TypeOK in two parts: the stores of the tabs, and the requests and counters.
StoreTypes ==
  /\ \A t \in Tabs : loaded[t] <=> config[t] # None
  /\ config \in [Tabs -> Maybe] /\ timer \in [Tabs -> Maybe]
  /\ loaded \in [Tabs -> BOOLEAN] /\ saving \in [Tabs -> BOOLEAN]
  /\ failed \in [Tabs -> BOOLEAN]

RequestTypes ==
  /\ stored \in Maybe
  /\ gets \in [Tabs -> [Loads -> GetSet]] /\ puts \subseteq PutSet
  /\ edits \in 0..MaxEdits /\ faults \in 0..MaxFaults /\ reloads \in 0..MaxReloads
  /\ disturbed \subseteq Tabs /\ misled \subseteq Tabs

LEMMA TypeParts == TypeOK <=> StoreTypes /\ RequestTypes
  BY DEF TypeOK, StoreTypes, RequestTypes, Maybe, PutSet

LEMMA TypeInit == Init => TypeOK
<1> SUFFICES ASSUME Init PROVE StoreTypes /\ RequestTypes
  BY TypeParts
<1>1. StoreTypes
  BY DEF Init, StoreTypes, Maybe
<1>2. Idle \in GetSet /\ 0 \in 0..MaxEdits /\ 0 \in 0..MaxFaults /\ 0 \in 0..MaxReloads
  BY ConfigTypes DEF GetSet
<1>3. RequestTypes
  BY <1>2 DEF Init, RequestTypes, Maybe
<1> QED
  BY <1>1, <1>3

LEMMA FaultType == ASSUME faults \in 0..MaxFaults, Fault PROVE faults' \in 0..MaxFaults
  BY ConfigTypes DEF Fault

\* One GET of a tab changes its state.
LEMMA OneGet ==
  ASSUME gets \in [Tabs -> [Loads -> GetSet]], NEW t \in Tabs, NEW i \in Loads,
         NEW g \in GetSet, gets' = [gets EXCEPT ![t][i] = g]
  PROVE  /\ gets' \in [Tabs -> [Loads -> GetSet]] /\ gets'[t][i] = g
         /\ \A u \in Tabs \ {t} : gets'[u] = gets[u]
         /\ \A j \in Loads \ {i} : gets'[t][j] = gets[t][j]
  OBVIOUS

LEMMA TypeStep == ASSUME TypeOK, [Next]_vars PROVE TypeOK'
<1> SUFFICES StoreTypes' /\ RequestTypes'
  BY DEF TypeOK, StoreTypes, RequestTypes, Maybe, PutSet
<1> USE ConfigTypes
<1>0. StoreTypes /\ RequestTypes
  BY TypeParts
<1>1. ASSUME NEW t \in Tabs, Load(t) PROVE StoreTypes' /\ RequestTypes'
  <2>1. PICK i \in Loads : gets' = [gets EXCEPT ![t][i] = Asked]
    BY <1>1 DEF Load
  <2>2. gets' \in [Tabs -> [Loads -> GetSet]]
    BY <1>0, <2>1, OneGet DEF RequestTypes, GetSet
  <2> QED
    BY <1>0, <1>1, <2>2 DEF Load, StoreTypes, RequestTypes, storeVars
<1>2. ASSUME NEW t \in Tabs, GetDefaultDashboard(t) PROVE StoreTypes' /\ RequestTypes'
  <2>1. PICK i \in Loads, g \in GetSet : gets' = [gets EXCEPT ![t][i] = g]
    BY <1>0, <1>2 DEF GetDefaultDashboard, GetSet, RequestTypes, Maybe
  <2>2. gets' \in [Tabs -> [Loads -> GetSet]] /\ faults' \in 0..MaxFaults
    BY <1>0, <1>2, <2>1, OneGet, FaultType DEF RequestTypes, GetDefaultDashboard
  <2>3. UNCHANGED <<stored, storeVars, puts, edits, reloads, disturbed, misled>>
    BY <1>2 DEF GetDefaultDashboard
  <2> QED
    BY <1>0, <2>2, <2>3 DEF StoreTypes, RequestTypes, storeVars
<1>3. ASSUME NEW t \in Tabs, LoadEnds(t) PROVE StoreTypes' /\ RequestTypes'
  <2>1. PICK i \in Loads :
          /\ gets[t][i].state \in {"answered", "error"}
          /\ gets' = [gets EXCEPT ![t][i] = Idle]
          /\ config' = [config EXCEPT ![t] = Loaded(gets[t][i])]
          /\ failed' = [failed EXCEPT ![t] = @ \/ gets[t][i] = LoadError]
          /\ disturbed' = IF loaded[t] THEN disturbed \cup {t} ELSE disturbed
          /\ misled' = IF gets[t][i] = Answer(None) /\ stored # None
                       THEN misled \cup {t} ELSE misled
    BY <1>3 DEF LoadEnds, Loaded
  <2>2. Loaded(gets[t][i]) \in Configs
    BY <1>0, <2>1, LoadedType DEF RequestTypes
  <2>3. gets' \in [Tabs -> [Loads -> GetSet]]
    BY <1>0, <2>1, OneGet DEF RequestTypes, GetSet
  <2>4. /\ loaded' = [loaded EXCEPT ![t] = TRUE]
        /\ UNCHANGED <<stored, saving, timer, puts, edits, faults, reloads>>
    BY <1>3 DEF LoadEnds
  <2>5. config' \in [Tabs -> Maybe] /\ config'[t] # None
    BY <1>0, <2>1, <2>2 DEF StoreTypes, Maybe
  <2>6. failed' \in [Tabs -> BOOLEAN]
    BY <1>0, <2>1 DEF StoreTypes
  <2>7. \A u \in Tabs : loaded'[u] <=> config'[u] # None
    BY <1>0, <2>1, <2>4, <2>5 DEF StoreTypes
  <2>8. StoreTypes'
    BY <1>0, <2>4, <2>5, <2>6, <2>7 DEF StoreTypes
  <2>9. RequestTypes'
    BY <1>0, <2>1, <2>3, <2>4 DEF RequestTypes
  <2> QED
    BY <2>8, <2>9
<1>4. ASSUME NEW t \in Tabs, NEW c \in Configs, Apply(t, c)
      PROVE  StoreTypes' /\ RequestTypes'
  <2>1. edits + 1 \in 0..MaxEdits /\ c # None
    BY <1>0, <1>4 DEF Apply, RequestTypes
  <2>2. StoreTypes'
    BY <1>0, <1>4, <2>1 DEF Apply, StoreTypes, Maybe
  <2>3. RequestTypes'
    BY <1>0, <1>4, <2>1 DEF Apply, RequestTypes
  <2> QED
    BY <2>2, <2>3
<1>5. ASSUME NEW t \in Tabs, TimerFires(t) PROVE StoreTypes' /\ RequestTypes'
  <2>1. [owner |-> t, config |-> timer[t], state |-> "sent"] \in PutSet
    BY <1>0, <1>5 DEF TimerFires, StoreTypes, PutSet, Maybe
  <2>2. StoreTypes'
    BY <1>0, <1>5 DEF TimerFires, StoreTypes, Maybe
  <2>3. RequestTypes'
    BY <1>0, <1>5, <2>1 DEF TimerFires, RequestTypes
  <2> QED
    BY <2>2, <2>3
<1>6. CASE UpsertDashboard
  <2>1. PICK p \in puts : /\ puts' = (puts \ {p}) \cup {[p EXCEPT !.state = "ok"]}
                          /\ stored' = p.config
                          /\ disturbed' = disturbed \cup Watching(p.owner)
    BY <1>6 DEF UpsertDashboard
  <2>2. p \in PutSet /\ [p EXCEPT !.state = "ok"] \in PutSet /\ p.config \in Maybe
    BY <1>0, <2>1, PutType, PutProgress DEF RequestTypes, Maybe
  <2>3. puts' \subseteq PutSet /\ stored' \in Maybe /\ disturbed' \subseteq Tabs
    BY <1>0, <2>1, <2>2 DEF RequestTypes, Watching
  <2>4. UNCHANGED <<storeVars, gets, edits, faults, reloads, misled>>
    BY <1>6 DEF UpsertDashboard
  <2> QED
    BY <1>0, <2>3, <2>4 DEF StoreTypes, RequestTypes, storeVars
<1>7. CASE PutFails
  <2>1. PICK p \in puts :
          Fault /\ puts' = (puts \ {p}) \cup {[p EXCEPT !.state = "failed"]}
    BY <1>7 DEF PutFails
  <2>2. p \in PutSet /\ [p EXCEPT !.state = "failed"] \in PutSet
    BY <1>0, <2>1, PutProgress DEF RequestTypes
  <2>3. puts' \subseteq PutSet /\ faults' \in 0..MaxFaults
    BY <1>0, <2>1, <2>2, FaultType DEF RequestTypes
  <2>4. UNCHANGED <<stored, storeVars, gets, edits, reloads, disturbed, misled>>
    BY <1>7 DEF PutFails
  <2> QED
    BY <1>0, <2>3, <2>4 DEF StoreTypes, RequestTypes, storeVars
<1>8. CASE PutEnds
  <2>1. /\ puts' \subseteq puts /\ saving' \in [Tabs -> BOOLEAN]
        /\ failed' \in [Tabs -> BOOLEAN]
    BY <1>0, <1>8 DEF PutEnds, StoreTypes
  <2>2. UNCHANGED <<stored, config, loaded, timer, gets, edits, faults, reloads,
                    disturbed, misled>>
    BY <1>8 DEF PutEnds
  <2> QED
    BY <1>0, <2>1, <2>2 DEF StoreTypes, RequestTypes
<1>9. ASSUME NEW t \in Tabs, Reload(t) PROVE StoreTypes' /\ RequestTypes'
  <2>1. StoreTypes'
    BY <1>0, <1>9 DEF Reload, StoreTypes, Maybe
  <2>2. puts' \subseteq PutSet
    BY <1>0, <1>9, PutGone DEF Reload, RequestTypes
  <2>3. gets' \in [Tabs -> [Loads -> GetSet]]
    BY <1>0, <1>9 DEF Reload, RequestTypes, GetSet
  <2>4. /\ reloads' \in 0..MaxReloads /\ disturbed' \subseteq Tabs
        /\ misled' \subseteq Tabs
    BY <1>0, <1>9 DEF Reload, RequestTypes
  <2>5. UNCHANGED <<stored, edits, faults>>
    BY <1>9 DEF Reload
  <2> QED
    BY <1>0, <2>1, <2>2, <2>3, <2>4, <2>5 DEF RequestTypes
<1>10. CASE UNCHANGED vars
  BY <1>0, <1>10 DEF StoreTypes, RequestTypes, vars, storeVars
<1> QED
  BY <1>1, <1>2, <1>3, <1>4, <1>5, <1>6, <1>7, <1>8, <1>9, <1>10,
     StepCases, ApplyCases

\* Every tab's store and every request under way is well-formed, and a tab that
\* has loaded shows a config, whatever its request came back with.
THEOREM TypeCorrect == Spec => []TypeOK
  BY TypeInit, TypeStep, PTL DEF Spec
-----------------------------------------------------------------------------
(* Saves *)

PutsOf(t) == {p \in puts : p.owner = t}

\* A tab that has not loaded has nothing to save.
LoadsFirst(t) == ~loaded[t] => timer[t] = None /\ PutsOf(t) = {}

\* One save at a time, and the tab says so.
OneSave(t) ==
  /\ \A p, q \in PutsOf(t) : p = q
  /\ saving[t] <=> PutsOf(t) # {}

\* What is on its way to a tab that waits for its first config is the row.
AnswerIsRow(t) ==
  ~loaded[t] => \A i \in Loads, c \in Configs : gets[t][i] = Answer(c) => stored = c

\* What the timer or the request of a tab will save is what the tab shows, and a
\* request that succeeded has written the row.
SavesShown(t) ==
  /\ timer[t] # None => timer[t] = config[t]
  /\ timer[t] = None => \A p \in PutsOf(t) : p.config = config[t]
  /\ \A p \in PutsOf(t) : p.state = "ok" => stored = p.config

\* SavedIsStored, for one tab.
Settled(t) ==
  loaded[t] /\ timer[t] = None /\ PutsOf(t) = {} /\ ~failed[t] /\ t \notin misled
    => InRow(config[t])

Calm(t) == OneSave(t) /\ AnswerIsRow(t) /\ SavesShown(t) /\ Settled(t)

TabInv(t) == LoadsFirst(t) /\ (t \notin disturbed => Calm(t))

SaveInv == \A t \in Tabs : TabInv(t)

LEMMA SaveInit == Init => SaveInv
<1> SUFFICES ASSUME Init, NEW t \in Tabs PROVE TabInv(t)
  BY DEF SaveInv
<1>1. /\ PutsOf(t) = {} /\ ~loaded[t] /\ ~saving[t] /\ timer[t] = None
      /\ \A i \in Loads : gets[t][i] = Idle
  BY DEF Init, PutsOf
<1> QED
  BY <1>1, AnswerIs
     DEF TabInv, LoadsFirst, Calm, OneSave, AnswerIsRow, SavesShown, Settled, InRow

\* A tab that a step leaves alone, the row included.
LEMMA TabStays ==
  ASSUME NEW t \in Tabs, TabInv(t), stored' = stored, PutsOf(t)' = PutsOf(t),
         config'[t] = config[t], loaded'[t] = loaded[t], saving'[t] = saving[t],
         failed'[t] = failed[t], timer'[t] = timer[t], gets'[t] = gets[t],
         t \notin disturbed' => t \notin disturbed,
         t \notin misled' => t \notin misled
  PROVE  TabInv(t)'
<1>1. LoadsFirst(t)'
  BY DEF TabInv, LoadsFirst
<1>2. ASSUME t \notin disturbed' PROVE Calm(t)'
  BY <1>2 DEF TabInv, Calm, OneSave, AnswerIsRow, SavesShown, Settled, InRow
<1> QED
  BY <1>1, <1>2 DEF TabInv

\* The requests of the other tabs, and of its own, when one request changes.
LEMMA OtherPuts ==
  ASSUME NEW p \in puts, NEW q, q.owner = p.owner, puts' = (puts \ {p}) \cup {q},
         NEW t, t # p.owner
  PROVE  PutsOf(t)' = PutsOf(t)
  BY DEF PutsOf

LEMMA OwnPut ==
  ASSUME NEW p \in puts, NEW q, q.owner = p.owner, puts' = (puts \ {p}) \cup {q},
         OneSave(p.owner)
  PROVE  PutsOf(p.owner) = {p} /\ PutsOf(p.owner)' = {q}
  BY DEF PutsOf, OneSave

LEMMA LoadKeeps ==
  ASSUME TypeOK, SaveInv, NEW t \in Tabs, Load(t) PROVE SaveInv'
<1>1. RequestTypes
  BY TypeParts
<1>2. PICK i \in Loads : gets' = [gets EXCEPT ![t][i] = Asked]
  BY DEF Load
<1>3. /\ stored' = stored /\ config' = config /\ loaded' = loaded /\ saving' = saving
      /\ failed' = failed /\ timer' = timer /\ puts' = puts /\ disturbed' = disturbed
      /\ misled' = misled
  BY DEF Load, storeVars
<1>4. ASSUME NEW u \in Tabs PROVE PutsOf(u)' = PutsOf(u)
  BY <1>3 DEF PutsOf
<1>5. ASSUME NEW u \in Tabs, u # t PROVE TabInv(u)'
  BY <1>1, <1>2, <1>3, <1>4, <1>5, TabStays DEF SaveInv, RequestTypes
<1>6. TabInv(t)'
  <2>1. TabInv(t)
    BY DEF SaveInv
  <2>2. ASSUME NEW j \in Loads, NEW c \in Configs, gets'[t][j] = Answer(c)
        PROVE  gets[t][j] = Answer(c)
    <3>1. gets'[t][i] # Answer(c)
      BY <1>1, <1>2, AnswerIs DEF RequestTypes
    <3> QED
      BY <1>1, <1>2, <2>2, <3>1 DEF RequestTypes
  <2>3. LoadsFirst(t)'
    BY <1>3, <1>4, <2>1 DEF TabInv, LoadsFirst
  <2>4. ASSUME t \notin disturbed' PROVE Calm(t)'
    <3>1. Calm(t)
      BY <1>3, <2>1, <2>4 DEF TabInv
    <3>2. AnswerIsRow(t)'
      BY <1>3, <2>2, <3>1 DEF Calm, AnswerIsRow
    <3>3. OneSave(t)' /\ SavesShown(t)' /\ Settled(t)'
      BY <1>3, <1>4, <3>1 DEF Calm, OneSave, SavesShown, Settled, InRow
    <3> QED
      BY <3>2, <3>3 DEF Calm
  <2> QED
    BY <2>3, <2>4 DEF TabInv
<1> QED
  BY <1>5, <1>6 DEF SaveInv

LEMMA GetKeeps ==
  ASSUME TypeOK, SaveInv, NEW t \in Tabs, GetDefaultDashboard(t) PROVE SaveInv'
<1>1. RequestTypes
  BY TypeParts
<1>2. PICK i \in Loads, g \in {Answer(stored), Answer(None), LoadError} :
        gets' = [gets EXCEPT ![t][i] = g]
  BY DEF GetDefaultDashboard
<1>3. /\ stored' = stored /\ config' = config /\ loaded' = loaded /\ saving' = saving
      /\ failed' = failed /\ timer' = timer /\ puts' = puts /\ disturbed' = disturbed
      /\ misled' = misled
  BY DEF GetDefaultDashboard, storeVars
<1>4. ASSUME NEW u \in Tabs PROVE PutsOf(u)' = PutsOf(u)
  BY <1>3 DEF PutsOf
<1>5. ASSUME NEW u \in Tabs, u # t PROVE TabInv(u)'
  BY <1>1, <1>2, <1>3, <1>4, <1>5, TabStays DEF SaveInv, RequestTypes
<1>6. TabInv(t)'
  <2>1. TabInv(t)
    BY DEF SaveInv
  <2>2. ASSUME NEW j \in Loads, NEW c \in Configs, gets'[t][j] = Answer(c)
        PROVE  gets[t][j] = Answer(c) \/ stored = c
    <3>1. gets'[t][i] = Answer(c) => stored = c
      BY <1>1, <1>2, AnswerIs, ConfigTypes DEF RequestTypes
    <3> QED
      BY <1>1, <1>2, <2>2, <3>1 DEF RequestTypes
  <2>3. LoadsFirst(t)'
    BY <1>3, <1>4, <2>1 DEF TabInv, LoadsFirst
  <2>4. ASSUME t \notin disturbed' PROVE Calm(t)'
    <3>1. Calm(t)
      BY <1>3, <2>1, <2>4 DEF TabInv
    <3>2. AnswerIsRow(t)'
      BY <1>3, <2>2, <3>1 DEF Calm, AnswerIsRow
    <3>3. OneSave(t)' /\ SavesShown(t)' /\ Settled(t)'
      BY <1>3, <1>4, <3>1 DEF Calm, OneSave, SavesShown, Settled, InRow
    <3> QED
      BY <3>2, <3>3 DEF Calm
  <2> QED
    BY <2>3, <2>4 DEF TabInv
<1> QED
  BY <1>5, <1>6 DEF SaveInv
LEMMA LoadEndsKeeps ==
  ASSUME TypeOK, SaveInv, NEW t \in Tabs, LoadEnds(t) PROVE SaveInv'
<1>1. StoreTypes /\ RequestTypes
  BY TypeParts
<1>2. PICK i \in Loads :
        /\ gets[t][i].state \in {"answered", "error"}
        /\ gets' = [gets EXCEPT ![t][i] = Idle]
        /\ config' = [config EXCEPT ![t] = Loaded(gets[t][i])]
        /\ failed' = [failed EXCEPT ![t] = @ \/ gets[t][i] = LoadError]
        /\ disturbed' = IF loaded[t] THEN disturbed \cup {t} ELSE disturbed
        /\ misled' = IF gets[t][i] = Answer(None) /\ stored # None
                     THEN misled \cup {t} ELSE misled
  BY DEF LoadEnds, Loaded
<1>3. /\ loaded' = [loaded EXCEPT ![t] = TRUE]
      /\ stored' = stored /\ saving' = saving /\ timer' = timer /\ puts' = puts
  BY DEF LoadEnds
<1>4. ASSUME NEW u \in Tabs PROVE PutsOf(u)' = PutsOf(u)
  BY <1>3 DEF PutsOf
<1>5. ASSUME NEW u \in Tabs, u # t PROVE TabInv(u)'
  <2>1. /\ config'[u] = config[u] /\ loaded'[u] = loaded[u] /\ failed'[u] = failed[u]
        /\ gets'[u] = gets[u] /\ (u \notin disturbed' => u \notin disturbed)
        /\ (u \notin misled' => u \notin misled)
    BY <1>1, <1>2, <1>3, <1>5 DEF StoreTypes, RequestTypes
  <2> QED
    BY <1>3, <1>4, <2>1, TabStays DEF SaveInv
<1>6. TabInv(t)'
  <2>1. TabInv(t) /\ loaded'[t] /\ config'[t] = Loaded(gets[t][i])
    BY <1>1, <1>2, <1>3 DEF SaveInv, StoreTypes
  <2>2. ASSUME t \notin disturbed' PROVE Calm(t)'
    <3>1. ~loaded[t] /\ t \notin disturbed
      BY <1>2, <2>2
    <3>2. Calm(t) /\ timer[t] = None /\ PutsOf(t) = {}
      BY <2>1, <3>1 DEF TabInv, LoadsFirst
    <3>3. ASSUME ~failed'[t], t \notin misled' PROVE InRow(config[t])'
      <4>1. \/ gets[t][i] = Answer(None) /\ config'[t] = getDefaultDashboard
            \/ config'[t] \in Configs /\ gets[t][i] = Answer(config'[t])
        BY <1>1, <1>2, <2>1, <3>3, LoadedType DEF RequestTypes, StoreTypes
      <4>2. CASE gets[t][i] = Answer(None) /\ config'[t] = getDefaultDashboard
        <5>1. stored = None
          BY <1>2, <3>3, <4>2
        <5> QED
          BY <1>3, <4>2, <5>1 DEF InRow
      <4>3. CASE config'[t] \in Configs /\ gets[t][i] = Answer(config'[t])
        BY <1>3, <3>1, <3>2, <4>3 DEF Calm, AnswerIsRow, InRow
      <4> QED
        BY <4>1, <4>2, <4>3
    <3>4. OneSave(t)' /\ SavesShown(t)'
      BY <1>3, <1>4, <3>2 DEF Calm, OneSave, SavesShown
    <3>5. AnswerIsRow(t)' /\ Settled(t)'
      BY <1>3, <2>1, <3>3 DEF AnswerIsRow, Settled
    <3> QED
      BY <3>4, <3>5 DEF Calm
  <2> QED
    BY <2>1, <2>2 DEF TabInv, LoadsFirst
<1> QED
  BY <1>5, <1>6 DEF SaveInv

LEMMA ApplyKeeps ==
  ASSUME TypeOK, SaveInv, NEW t \in Tabs, NEW c \in Configs, Apply(t, c) PROVE SaveInv'
<1>1. StoreTypes /\ RequestTypes
  BY TypeParts
<1>2. /\ config' = [config EXCEPT ![t] = c] /\ config[t] # None
      /\ timer' = [timer EXCEPT ![t] = c] /\ misled' = misled \ {t}
      /\ stored' = stored /\ loaded' = loaded /\ saving' = saving /\ failed' = failed
      /\ gets' = gets /\ puts' = puts /\ disturbed' = disturbed
  BY DEF Apply
<1>3. ASSUME NEW u \in Tabs PROVE PutsOf(u)' = PutsOf(u)
  BY <1>2 DEF PutsOf
<1>4. ASSUME NEW u \in Tabs, u # t PROVE TabInv(u)'
  <2>1. /\ config'[u] = config[u] /\ timer'[u] = timer[u]
        /\ (u \notin misled' => u \notin misled)
    BY <1>1, <1>2, <1>4 DEF StoreTypes
  <2> QED
    BY <1>2, <1>3, <2>1, TabStays DEF SaveInv
<1>5. TabInv(t)'
  <2>1. /\ TabInv(t) /\ loaded[t] /\ timer'[t] = config'[t] /\ timer'[t] # None
    BY <1>1, <1>2, ConfigTypes DEF SaveInv, StoreTypes, RequestTypes
  <2>2. ASSUME t \notin disturbed' PROVE Calm(t)'
    <3>1. Calm(t)
      BY <1>2, <2>1, <2>2 DEF TabInv
    <3> QED
      BY <1>2, <1>3, <2>1, <3>1 DEF Calm, OneSave, AnswerIsRow, SavesShown, Settled, InRow
  <2> QED
    BY <1>2, <2>1, <2>2 DEF TabInv, LoadsFirst
<1> QED
  BY <1>4, <1>5 DEF SaveInv

LEMMA TimerKeeps ==
  ASSUME TypeOK, SaveInv, NEW t \in Tabs, TimerFires(t) PROVE SaveInv'
<1>1. StoreTypes /\ RequestTypes
  BY TypeParts
<1>2. PICK p : p = [owner |-> t, config |-> timer[t], state |-> "sent"]
  OBVIOUS
<1>3. /\ p.owner = t /\ p.config = timer[t] /\ p.state = "sent"
      /\ puts' = puts \cup {p} /\ timer[t] # None
      /\ timer' = [timer EXCEPT ![t] = None] /\ saving' = [saving EXCEPT ![t] = TRUE]
      /\ failed' = [failed EXCEPT ![t] = FALSE]
      /\ disturbed' = IF \E q \in puts : q.owner = t THEN disturbed \cup {t}
                      ELSE disturbed
      /\ stored' = stored /\ config' = config /\ loaded' = loaded /\ gets' = gets
      /\ misled' = misled
  BY <1>2 DEF TimerFires
<1>4. ASSUME NEW u \in Tabs, u # t PROVE TabInv(u)'
  <2>1. /\ PutsOf(u)' = PutsOf(u) /\ timer'[u] = timer[u] /\ saving'[u] = saving[u]
        /\ failed'[u] = failed[u] /\ (u \notin disturbed' => u \notin disturbed)
    BY <1>1, <1>3, <1>4 DEF StoreTypes, PutsOf
  <2> QED
    BY <1>3, <2>1, TabStays DEF SaveInv
<1>5. TabInv(t)'
  <2>1. /\ TabInv(t) /\ loaded[t] /\ timer'[t] = None /\ saving'[t]
    BY <1>1, <1>3 DEF SaveInv, StoreTypes, TabInv, LoadsFirst
  <2>2. ASSUME t \notin disturbed' PROVE Calm(t)'
    <3>1. PutsOf(t) = {} /\ t \notin disturbed
      BY <1>3, <2>2 DEF PutsOf
    <3>2. PutsOf(t)' = {p}
      BY <1>3, <3>1 DEF PutsOf
    <3>3. Calm(t) /\ timer[t] = config[t]
      BY <1>3, <2>1, <3>1 DEF TabInv, Calm, SavesShown
    <3> QED
      BY <1>3, <2>1, <3>2, <3>3 DEF Calm, OneSave, AnswerIsRow, SavesShown, Settled, InRow
  <2> QED
    BY <1>3, <2>1, <2>2 DEF TabInv, LoadsFirst
<1> QED
  BY <1>4, <1>5 DEF SaveInv

LEMMA UpsertKeeps == ASSUME TypeOK, SaveInv, UpsertDashboard PROVE SaveInv'
<1>1. StoreTypes /\ RequestTypes
  BY TypeParts
<1>2. PICK p \in puts : /\ p.state = "sent"
                        /\ puts' = (puts \ {p}) \cup {[p EXCEPT !.state = "ok"]}
                        /\ stored' = p.config
                        /\ disturbed' = disturbed \cup Watching(p.owner)
  BY DEF UpsertDashboard
<1>3. PICK q : q = [p EXCEPT !.state = "ok"]
  OBVIOUS
<1>4. /\ q.owner = p.owner /\ q.config = p.config /\ puts' = (puts \ {p}) \cup {q}
  BY <1>1, <1>2, <1>3, PutProgress DEF RequestTypes
<1>5. /\ config' = config /\ loaded' = loaded /\ saving' = saving /\ failed' = failed
      /\ timer' = timer /\ gets' = gets /\ misled' = misled
  BY DEF UpsertDashboard, storeVars
<1>6. ASSUME NEW u \in Tabs, u # p.owner PROVE TabInv(u)'
  <2>1. TabInv(u) /\ PutsOf(u)' = PutsOf(u)
    BY <1>2, <1>4, <1>6, OtherPuts DEF SaveInv
  <2>2. LoadsFirst(u)'
    BY <1>5, <2>1 DEF TabInv, LoadsFirst
  <2>3. ASSUME u \notin disturbed' PROVE Calm(u)'
    <3>1. ~loaded[u] /\ (\A i \in Loads : gets[u][i] = Idle) /\ u \notin disturbed
      BY <1>2, <1>6, <2>3 DEF Watching
    <3>2. Calm(u) /\ timer[u] = None /\ PutsOf(u) = {}
      BY <2>1, <3>1 DEF TabInv, LoadsFirst
    <3>3. \A i \in Loads, c \in Configs : gets[u][i] # Answer(c)
      BY <3>1, AnswerIs
    <3> QED
      BY <1>5, <2>1, <3>1, <3>2, <3>3
         DEF Calm, OneSave, AnswerIsRow, SavesShown, Settled, InRow
  <2> QED
    BY <2>2, <2>3 DEF TabInv
<1>7. ASSUME NEW u \in Tabs, u = p.owner PROVE TabInv(u)'
  <2>1. TabInv(u) /\ p \in PutsOf(u)
    BY <1>2, <1>7 DEF SaveInv, PutsOf
  <2>2. loaded[u]
    BY <2>1 DEF TabInv, LoadsFirst
  <2>3. ASSUME u \notin disturbed' PROVE Calm(u)'
    <3>1. Calm(u)
      BY <1>2, <2>1, <2>3 DEF TabInv
    <3>2. PutsOf(u) = {p} /\ PutsOf(u)' = {q}
      BY <1>2, <1>4, <1>7, <3>1, OwnPut DEF Calm
    <3> QED
      BY <1>2, <1>4, <1>5, <2>2, <3>1, <3>2
         DEF Calm, OneSave, AnswerIsRow, SavesShown, Settled, InRow
  <2> QED
    BY <1>5, <2>2, <2>3 DEF TabInv, LoadsFirst
<1> QED
  BY <1>6, <1>7 DEF SaveInv

LEMMA PutFailsKeeps == ASSUME TypeOK, SaveInv, PutFails PROVE SaveInv'
<1>1. StoreTypes /\ RequestTypes
  BY TypeParts
<1>2. PICK p \in puts : puts' = (puts \ {p}) \cup {[p EXCEPT !.state = "failed"]}
  BY DEF PutFails
<1>3. PICK q : q = [p EXCEPT !.state = "failed"]
  OBVIOUS
<1>4. /\ q.owner = p.owner /\ q.config = p.config /\ q.state = "failed"
      /\ puts' = (puts \ {p}) \cup {q}
  BY <1>1, <1>2, <1>3, PutProgress DEF RequestTypes
<1>5. /\ config' = config /\ loaded' = loaded /\ saving' = saving /\ failed' = failed
      /\ timer' = timer /\ gets' = gets /\ stored' = stored /\ disturbed' = disturbed
      /\ misled' = misled
  BY DEF PutFails, storeVars
<1>6. ASSUME NEW u \in Tabs, u # p.owner PROVE TabInv(u)'
  <2>1. PutsOf(u)' = PutsOf(u)
    BY <1>4, <1>6, OtherPuts
  <2> QED
    BY <1>5, <2>1, TabStays DEF SaveInv
<1>7. ASSUME NEW u \in Tabs, u = p.owner PROVE TabInv(u)'
  <2>1. TabInv(u) /\ p \in PutsOf(u)
    BY <1>7 DEF SaveInv, PutsOf
  <2>2. loaded[u]
    BY <2>1 DEF TabInv, LoadsFirst
  <2>3. ASSUME u \notin disturbed' PROVE Calm(u)'
    <3>1. Calm(u)
      BY <1>5, <2>1, <2>3 DEF TabInv
    <3>2. PutsOf(u) = {p} /\ PutsOf(u)' = {q}
      BY <1>4, <1>7, <3>1, OwnPut DEF Calm
    <3> QED
      BY <1>4, <1>5, <2>2, <3>1, <3>2
         DEF Calm, OneSave, AnswerIsRow, SavesShown, Settled, InRow
  <2> QED
    BY <1>5, <2>2, <2>3 DEF TabInv, LoadsFirst
<1> QED
  BY <1>6, <1>7 DEF SaveInv

LEMMA PutEndsKeeps == ASSUME TypeOK, SaveInv, PutEnds PROVE SaveInv'
<1>1. StoreTypes /\ RequestTypes
  BY TypeParts
<1>2. PICK p \in puts :
        /\ p.state \in {"ok", "failed"} /\ puts' = puts \ {p}
        /\ saving' = [t \in Tabs |-> saving[t] /\ t # p.owner]
        /\ failed' = [t \in Tabs |-> failed[t] \/ (t = p.owner /\ p.state = "failed")]
  BY DEF PutEnds
<1>3. /\ config' = config /\ loaded' = loaded /\ timer' = timer /\ gets' = gets
      /\ stored' = stored /\ disturbed' = disturbed /\ misled' = misled
  BY DEF PutEnds
<1>4. ASSUME NEW u \in Tabs, u # p.owner PROVE TabInv(u)'
  <2>1. PutsOf(u)' = PutsOf(u)
    BY <1>2, <1>4 DEF PutsOf
  <2>2. saving'[u] = saving[u] /\ failed'[u] = failed[u]
    BY <1>1, <1>2, <1>4 DEF StoreTypes
  <2> QED
    BY <1>3, <2>1, <2>2, TabStays DEF SaveInv
<1>5. ASSUME NEW u \in Tabs, u = p.owner PROVE TabInv(u)'
  <2>1. TabInv(u) /\ p \in PutsOf(u)
    BY <1>5 DEF SaveInv, PutsOf
  <2>2. loaded[u] /\ ~saving'[u] /\ (~failed'[u] => p.state = "ok")
    BY <1>2, <1>5, <2>1 DEF TabInv, LoadsFirst
  <2>3. ASSUME u \notin disturbed' PROVE Calm(u)'
    <3>1. Calm(u)
      BY <1>3, <2>1, <2>3 DEF TabInv
    <3>2. PutsOf(u)' = {}
      BY <1>2, <1>5, <3>1 DEF PutsOf, Calm, OneSave
    <3>3. ASSUME ~failed'[u], timer[u] = None PROVE stored = config[u]
      BY <2>1, <2>2, <3>1, <3>3 DEF Calm, SavesShown
    <3> QED
      BY <1>3, <2>2, <3>1, <3>2, <3>3
         DEF Calm, OneSave, AnswerIsRow, SavesShown, Settled, InRow
  <2> QED
    BY <1>3, <2>2, <2>3 DEF TabInv, LoadsFirst
<1> QED
  BY <1>4, <1>5 DEF SaveInv

LEMMA ReloadKeeps ==
  ASSUME TypeOK, SaveInv, NEW t \in Tabs, Reload(t) PROVE SaveInv'
<1>1. StoreTypes /\ RequestTypes
  BY TypeParts
<1>2. /\ puts' = {IF p.owner = t THEN [p EXCEPT !.owner = Gone] ELSE p : p \in puts}
      /\ gets' = [gets EXCEPT ![t] = [i \in Loads |-> Idle]]
      /\ stored' = stored /\ disturbed' = disturbed \ {t} /\ misled' = misled \ {t}
  BY DEF Reload
<1>3. ASSUME NEW p \in puts, NEW q, q = [p EXCEPT !.owner = Gone] PROVE q.owner = Gone
  BY <1>1, <1>3, PutGone DEF RequestTypes
<1>4. ASSUME NEW u \in Tabs, u # t PROVE TabInv(u)'
  <2>1. PutsOf(u)' = PutsOf(u)
    <3>1. ASSUME NEW q \in puts', q.owner = u PROVE q \in puts
      BY <1>2, <1>3, <3>1, ConfigTypes
    <3>2. ASSUME NEW q \in puts, q.owner = u PROVE q \in puts'
      BY <1>2, <1>4, <3>2
    <3> QED
      BY <3>1, <3>2 DEF PutsOf
  <2>2. /\ config'[u] = config[u] /\ loaded'[u] = loaded[u] /\ saving'[u] = saving[u]
        /\ failed'[u] = failed[u] /\ timer'[u] = timer[u]
    BY <1>1, <1>4 DEF Reload, StoreTypes
  <2>3. /\ gets'[u] = gets[u] /\ (u \notin disturbed' => u \notin disturbed)
        /\ (u \notin misled' => u \notin misled)
    BY <1>1, <1>2, <1>4 DEF RequestTypes
  <2> QED
    BY <1>2, <2>1, <2>2, <2>3, TabStays DEF SaveInv
<1>5. TabInv(t)'
  <2>1. PutsOf(t)' = {}
    <3>1. ASSUME NEW q \in puts' PROVE q.owner # t
      BY <1>2, <1>3, ConfigTypes
    <3> QED
      BY <3>1 DEF PutsOf
  <2>2. ~loaded'[t] /\ ~saving'[t] /\ timer'[t] = None
    BY <1>1 DEF Reload, StoreTypes
  <2>3. \A i \in Loads : gets'[t][i] = Idle
    BY <1>1, <1>2 DEF RequestTypes
  <2> QED
    BY <2>1, <2>2, <2>3, AnswerIs
       DEF TabInv, LoadsFirst, Calm, OneSave, AnswerIsRow, SavesShown, Settled, InRow
<1> QED
  BY <1>4, <1>5 DEF SaveInv

LEMMA SaveStep == ASSUME TypeOK, SaveInv, [Next]_vars PROVE SaveInv'
<1>1. CASE UNCHANGED vars
  <2>1. ASSUME NEW u \in Tabs PROVE TabInv(u)'
    <3>1. PutsOf(u)' = PutsOf(u)
      BY <1>1 DEF vars, PutsOf
    <3> QED
      BY <1>1, <3>1, TabStays DEF vars, storeVars, SaveInv
  <2> QED
    BY <2>1 DEF SaveInv
<1> QED
  BY <1>1, StepCases, LoadKeeps, GetKeeps, LoadEndsKeeps, ApplyCases, ApplyKeeps,
     TimerKeeps,
     UpsertKeeps, PutFailsKeeps, PutEndsKeeps, ReloadKeeps

LEMMA Invariance == Spec => [](TypeOK /\ SaveInv)
<1>1. Init => TypeOK /\ SaveInv
  BY TypeInit, SaveInit
<1>2. TypeOK /\ SaveInv /\ [Next]_vars => (TypeOK /\ SaveInv)'
  BY TypeStep, SaveStep
<1> QED
  BY <1>1, <1>2, PTL DEF Spec

\* A store that has nothing to save, nothing under way and no error shows what the
\* row of UpsertDashboard holds, the default if there is none.  It says nothing of
\* a tab whose saves or loads overlapped or met a save of another tab, nor of one
\* that a failing query answered 404, until the user edits it.
THEOREM SavesAreStored == Spec => []SavedIsStored
<1>1. SaveInv => SavedIsStored
  <2> SUFFICES ASSUME SaveInv, NEW t \in Tabs \ (disturbed \cup misled), Quiet(t),
                      ~failed[t]
               PROVE  InRow(config[t])
    BY DEF SavedIsStored
  <2>1. PutsOf(t) = {}
    BY DEF PutsOf, Quiet
  <2> QED
    BY <2>1 DEF SaveInv, TabInv, Calm, Settled, Quiet
<1> QED
  BY <1>1, Invariance, PTL

\* saving of a tab's store is true exactly while a PUT of it is under way, however
\* the PUT ends.
THEOREM IndicatorIsRight == Spec => []IndicatorFollowsSave
<1>1. SaveInv => IndicatorFollowsSave
  BY DEF SaveInv, TabInv, Calm, OneSave, PutsOf, IndicatorFollowsSave
<1> QED
  BY <1>1, Invariance, PTL
=============================================================================
