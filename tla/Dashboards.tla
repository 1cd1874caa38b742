----------------------------- MODULE Dashboards -----------------------------
(***************************************************************************)
(* The dashboard of one user: the store of every open tab                  *)
(* (frontend/src/stores/dashboard.ts), its debounced saves, and the two    *)
(* handlers behind them (api/internal/httpx/dashboards.go).                *)
(*                                                                         *)
(* A config is the number of the edit that made it: no code here looks     *)
(* into it.  0 is the bundled default.                                     *)
(***************************************************************************)
EXTENDS Integers, FiniteSets

CONSTANTS Tabs,
          MaxEdits,   \* bound on edits of the user
          MaxFaults,  \* bound on failed requests and statements
          MaxReloads, \* bound on reloads of a tab
          None        \* no config: not loaded, no row, no timer

ASSUME DashboardAssumption ==
  MaxEdits \in Nat /\ MaxFaults \in Nat /\ MaxReloads \in Nat

Loads == 1..2   \* load() may run again before its first call has ended
Gone == "gone"  \* owner of a request whose tab was reloaded

ASSUME OwnerAssumption == Gone \notin Tabs /\ None \notin Nat

VARIABLES
  stored,    \* the row dash-<user>: its config
  config,    \* what a tab shows
  loaded, saving, failed,   \* loaded, saving, error of a tab's store
  timer,     \* the config the debounce timer of a tab will send
  gets,      \* GET requests of load()
  puts,      \* PUT requests: [owner, config, state]
  edits, faults, reloads,
  disturbed, \* history: tabs whose last save or view raced something
  misled     \* history: tabs that were told 404 while there was a row

storeVars == <<config, loaded, saving, failed, timer>>
vars == <<stored, storeVars, gets, puts, edits, faults, reloads, disturbed,
          misled>>

Configs == 0..MaxEdits
getDefaultDashboard == 0

Idle == [state |-> "idle"]
Asked == [state |-> "asked"]
Answer(c) == [state |-> "answered", config |-> c]
LoadError == [state |-> "error"]

Fault == faults < MaxFaults /\ faults' = faults + 1

Init ==
  /\ stored = None
  /\ config = [t \in Tabs |-> None] /\ loaded = [t \in Tabs |-> FALSE]
  /\ saving = [t \in Tabs |-> FALSE] /\ failed = [t \in Tabs |-> FALSE]
  /\ timer = [t \in Tabs |-> None]
  /\ gets = [t \in Tabs |-> [i \in Loads |-> Idle]]
  /\ puts = {}
  /\ edits = 0 /\ faults = 0 /\ reloads = 0
  /\ disturbed = {} /\ misled = {}
-----------------------------------------------------------------------------
(* Loading *)

\* load() checks loaded before it waits for the answer.
Load(t) ==
  /\ ~loaded[t]
  /\ \E i \in Loads :
       /\ gets[t][i] = Idle /\ \A j \in Loads : j < i => gets[t][j] # Idle
       /\ gets' = [gets EXCEPT ![t][i] = Asked]
  /\ UNCHANGED <<stored, storeVars, puts, edits, faults, reloads, disturbed, misled>>

\* The handler of the GET.  A failing query is 404 as well, so the tab gets
\* the default (None stands for 404).
GetDefaultDashboard(t) ==
  /\ \E i \in Loads :
       /\ gets[t][i] = Asked
       /\ \/ gets' = [gets EXCEPT ![t][i] = Answer(stored)] /\ UNCHANGED faults
          \/ Fault /\ gets' = [gets EXCEPT ![t][i] = Answer(None)]
          \/ Fault /\ gets' = [gets EXCEPT ![t][i] = LoadError]
  /\ UNCHANGED <<stored, storeVars, puts, edits, reloads, disturbed, misled>>

\* Mutation: a 404 is no config.
LoadEndsEmpty(t) ==
  /\ \E i \in Loads :
       /\ gets[t][i].state \in {"answered", "error"}
       /\ gets' = [gets EXCEPT ![t][i] = Idle]
       /\ config' = [config EXCEPT ![t] =
                       IF gets[t][i] = LoadError
                       THEN getDefaultDashboard ELSE gets[t][i].config]
       /\ failed' = [failed EXCEPT ![t] = @ \/ gets[t][i] = LoadError]
       /\ disturbed' = IF loaded[t] THEN disturbed \cup {t} ELSE disturbed
       /\ misled' = IF gets[t][i] = Answer(None) /\ stored # None
                    THEN misled \cup {t} ELSE misled
  /\ loaded' = [loaded EXCEPT ![t] = TRUE]
  /\ UNCHANGED <<stored, saving, timer, puts, edits, faults, reloads>>

\* The rest of load(): whatever the tab shows by now is replaced.
LoadEnds(t) ==
  /\ \E i \in Loads :
       /\ gets[t][i].state \in {"answered", "error"}
       /\ gets' = [gets EXCEPT ![t][i] = Idle]
       /\ config' = [config EXCEPT ![t] =
                       IF gets[t][i] \in {LoadError, Answer(None)}
                       THEN getDefaultDashboard ELSE gets[t][i].config]
       /\ failed' = [failed EXCEPT ![t] = @ \/ gets[t][i] = LoadError]
       /\ disturbed' = IF loaded[t] THEN disturbed \cup {t} ELSE disturbed
       /\ misled' = IF gets[t][i] = Answer(None) /\ stored # None
                    THEN misled \cup {t} ELSE misled
  /\ loaded' = [loaded EXCEPT ![t] = TRUE]
  /\ UNCHANGED <<stored, saving, timer, puts, edits, faults, reloads>>
-----------------------------------------------------------------------------
(* Editing *)

\* Mutation: no new timer while a save is under way.
ApplySkipsBusySave(t, next) ==
  /\ config[t] # None /\ edits < MaxEdits /\ edits' = edits + 1
  /\ config' = [config EXCEPT ![t] = next]
  /\ timer' = IF saving[t] THEN timer ELSE [timer EXCEPT ![t] = next]
  /\ misled' = misled \ {t}
  /\ UNCHANGED <<stored, loaded, saving, failed, gets, puts, faults, reloads,
                 disturbed>>

\* apply and scheduleSave, which clears the timer of an earlier edit.  The page
\* offers edits and the reset once it has a config.
Apply(t, next) ==
  /\ config[t] # None /\ edits < MaxEdits /\ edits' = edits + 1
  /\ config' = [config EXCEPT ![t] = next]
  /\ timer' = [timer EXCEPT ![t] = next]
  /\ misled' = misled \ {t}
  /\ UNCHANGED <<stored, loaded, saving, failed, gets, puts, faults, reloads,
                 disturbed>>

\* Adding or removing a panel, its settings or the layout.
Edit(t) == Apply(t, edits + 1)

ResetToDefault(t) == Apply(t, getDefaultDashboard)

\* The debounce timer: saves of one tab are not serialised.
TimerFires(t) ==
  /\ timer[t] # None
  /\ timer' = [timer EXCEPT ![t] = None]
  /\ saving' = [saving EXCEPT ![t] = TRUE] /\ failed' = [failed EXCEPT ![t] = FALSE]
  /\ puts' = puts \cup {[owner |-> t, config |-> timer[t], state |-> "sent"]}
  /\ disturbed' = IF \E p \in puts : p.owner = t THEN disturbed \cup {t}
                  ELSE disturbed
  /\ UNCHANGED <<stored, config, loaded, gets, edits, faults, reloads, misled>>
-----------------------------------------------------------------------------
(* Saving *)

\* Tabs whose view a save of another owner leaves behind.
Watching(owner) ==
  {t \in Tabs \ {owner} : loaded[t] \/ \E i \in Loads : gets[t][i] # Idle}

\* UpsertDashboard replaces the one row of the user.
UpsertDashboard ==
  /\ \E p \in puts :
       /\ p.state = "sent"
       /\ puts' = (puts \ {p}) \cup {[p EXCEPT !.state = "ok"]}
       /\ stored' = p.config
       /\ disturbed' = disturbed \cup Watching(p.owner)
  /\ UNCHANGED <<storeVars, gets, edits, faults, reloads, misled>>

\* The body is unreadable or too long, the statement fails, the request or
\* its answer is lost: the tab learns of a failure, the row may be written.
PutFails ==
  /\ \E p \in puts :
       /\ p.state \in {"sent", "ok"} /\ Fault
       /\ puts' = (puts \ {p}) \cup {[p EXCEPT !.state = "failed"]}
  /\ UNCHANGED <<stored, storeVars, gets, edits, reloads, disturbed, misled>>

\* Mutation: an answer of 500 counts as saved.
PutEndsAlwaysWell ==
  /\ \E p \in puts :
       /\ p.state \in {"ok", "failed"} /\ puts' = puts \ {p}
       /\ saving' = [t \in Tabs |-> saving[t] /\ t # p.owner]
       /\ UNCHANGED failed
  /\ UNCHANGED <<stored, config, loaded, timer, gets, edits, faults, reloads,
                 disturbed, misled>>

\* Mutation: a failure leaves the indicator at "Saving...".
PutEndsStaysBusy ==
  /\ \E p \in puts :
       /\ p.state \in {"ok", "failed"} /\ puts' = puts \ {p}
       /\ saving' = [t \in Tabs |-> saving[t] /\ (t # p.owner \/ p.state = "failed")]
       /\ failed' = [t \in Tabs |->
                       failed[t] \/ (t = p.owner /\ p.state = "failed")]
  /\ UNCHANGED <<stored, config, loaded, timer, gets, edits, faults, reloads,
                 disturbed, misled>>

\* The answer reaches the tab that sent the request, if it is still there.
PutEnds ==
  /\ \E p \in puts :
       /\ p.state \in {"ok", "failed"} /\ puts' = puts \ {p}
       /\ saving' = [t \in Tabs |-> saving[t] /\ t # p.owner]
       /\ failed' = [t \in Tabs |->
                       failed[t] \/ (t = p.owner /\ p.state = "failed")]
  /\ UNCHANGED <<stored, config, loaded, timer, gets, edits, faults, reloads,
                 disturbed, misled>>

\* A tab is reloaded: a pending timer dies, requests under way do not.
Reload(t) ==
  /\ reloads < MaxReloads /\ reloads' = reloads + 1
  /\ config' = [config EXCEPT ![t] = None]
  /\ loaded' = [loaded EXCEPT ![t] = FALSE]
  /\ saving' = [saving EXCEPT ![t] = FALSE]
  /\ failed' = [failed EXCEPT ![t] = FALSE]
  /\ timer' = [timer EXCEPT ![t] = None]
  /\ gets' = [gets EXCEPT ![t] = [i \in Loads |-> Idle]]
  /\ puts' = {IF p.owner = t THEN [p EXCEPT !.owner = Gone] ELSE p : p \in puts}
  /\ disturbed' = disturbed \ {t} /\ misled' = misled \ {t}
  /\ UNCHANGED <<stored, edits, faults>>
-----------------------------------------------------------------------------
Requests ==
  \/ UpsertDashboard \/ PutEnds
  \/ \E t \in Tabs : GetDefaultDashboard(t) \/ LoadEnds(t) \/ TimerFires(t)

Next ==
  \/ Requests \/ PutFails
  \/ \E t \in Tabs : Load(t) \/ Edit(t) \/ ResetToDefault(t) \/ Reload(t)

Spec == Init /\ [][Next]_vars

\* Timers fire, handlers answer and answers arrive or fail.
FairSpec == Spec /\ WF_vars(Requests)
-----------------------------------------------------------------------------
(* Properties *)

GetSet == {Idle, Asked, LoadError} \cup {Answer(c) : c \in Configs \cup {None}}

\* Every variable has its type, and a tab that has loaded shows a config, also
\* when there was none or its request failed.
TypeOK ==
  /\ \A t \in Tabs : loaded[t] <=> config[t] # None
  /\ stored \in Configs \cup {None}
  /\ config \in [Tabs -> Configs \cup {None}] /\ timer \in [Tabs -> Configs \cup {None}]
  /\ loaded \in [Tabs -> BOOLEAN] /\ saving \in [Tabs -> BOOLEAN]
  /\ failed \in [Tabs -> BOOLEAN]
  /\ gets \in [Tabs -> [Loads -> GetSet]]
  /\ puts \subseteq [owner : Tabs \cup {Gone}, config : Configs,
                     state : {"sent", "ok", "failed"}]
  /\ edits \in 0..MaxEdits /\ faults \in 0..MaxFaults /\ reloads \in 0..MaxReloads
  /\ disturbed \subseteq Tabs /\ misled \subseteq Tabs

\* The edits of tab t are all sent and answered.
Quiet(t) == loaded[t] /\ timer[t] = None /\ \A p \in puts : p.owner # t

\* What the next load will show: the row, or the default if there is none.
InRow(c) == stored = c \/ (stored = None /\ c = getDefaultDashboard)

\* A tab that shows no error, waits for no save and has none under way shows what
\* the next load will show, however requests fail and tabs are reloaded.  Exempt
\* are the tabs whose saves or loads overlapped or met a save of another tab, and
\* those that were told 404 for a failing query and have not been edited since.
SavedIsStored ==
  \A t \in Tabs \ (disturbed \cup misled) : Quiet(t) /\ ~failed[t] => InRow(config[t])

\* The indicator of a tab that is not disturbed shows "Saving..." exactly while
\* a request of it is under way, whatever failed, was lost or was reloaded.
IndicatorFollowsSave ==
  \A t \in Tabs \ disturbed :
    saving[t] <=> \E p \in puts : p.owner = t

\* When the user rests, what a tab shows gets into the row, or the tab shows an
\* error.  Edits that a reload of their tab overtakes leave no tab that shows them
\* and are not covered; nor are the tabs that SavedIsStored exempts.
EditsSettle ==
  <>[](\A t \in Tabs \ (disturbed \cup misled) :
         config[t] # None => InRow(config[t]) \/ failed[t])
=============================================================================
