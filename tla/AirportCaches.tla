--------------------------- MODULE AirportCaches ---------------------------
(***************************************************************************)
(* The two in-memory caches of upstream data: charts and airport metadata, *)
(* filled by concurrent requests (api/internal/httpx/charts.go), and the   *)
(* METARs of the poller (fetchMetars in api/internal/feed/poller.go).      *)
(*                                                                         *)
(* Time passes in ticks.  A copy of upstream data is known by its lag: 0   *)
(* while it is what upstream holds, n + 1 when upstream replaced it n ticks*)
(* ago.  Entries keep their age instead of the time they were stored.      *)
(***************************************************************************)
EXTENDS Integers, FiniteSets

CONSTANTS Requests,
          Airports,   \* with charts
          Stations,   \* online in the datafeed, with a METAR each
          ChartsTTL, MetarTTL,
          Slots,      \* capacity of sem in fetchMetars
          Rounds,     \* rounds of Slots calls that serve all stations
          MaxCall,    \* bound on the ticks a call takes (Timeout of http.Client)
          MaxFaults,  \* bound on failed METAR calls
          Nothing     \* no copy: no entry, an empty METAR

ASSUME CacheAssumption ==
  /\ ChartsTTL \in Nat \ {0} /\ MetarTTL \in Nat \ {0} /\ MaxCall \in Nat
  /\ MaxFaults \in Nat
  /\ Slots \in Nat \ {0} /\ Rounds \in Nat \ {0}
  /\ IsFiniteSet(Stations) /\ Cardinality(Stations) <= Rounds * Slots
  /\ Nothing \notin Int /\ Nothing \notin [copy : Int \cup {Nothing}, age : Nat]

MaxTick == Rounds * MaxCall  \* the longest tick of the poller

MaxLag == (IF ChartsTTL > MetarTTL THEN ChartsTTL ELSE MetarTTL) + MaxTick + MaxCall + 1
          \* lags are counted up to here
Lags == 0..MaxLag

VARIABLES
  charts,    \* chartsCache: Nothing or [copy, age]
  req,       \* requests to GET /charts and GET /airports/{icao}
  metars,    \* metarCache
  pc,        \* the poller: idle, or waiting for the METARs of its tick
  tickAge,   \* ticks since that tick began
  job,       \* goroutine of a station: in the queue, in its call, what it was told
  result,    \* the METARs the tick works with
  reported,  \* stations whose latest report has a METAR
  faults,
  sinceCall  \* history: ticks since a METAR was called for

chartVars == <<charts, req>>
metarVars == <<metars, pc, tickAge, job, result, reported, faults, sinceCall>>
vars == <<chartVars, metarVars>>

Least(m, n) == IF m < n THEN m ELSE n

Entry(copy) == [copy |-> copy, age |-> 0]
Fresh(entry, ttl) == entry # Nothing /\ entry.age < ttl

IdleRequest ==
  [state |-> "idle", airport |-> Nothing, copy |-> Nothing, waited |-> 0]
IdleJob == [state |-> "idle", copy |-> Nothing, waited |-> 0]

Init ==
  /\ charts = [a \in Airports |-> Nothing] /\ req = [r \in Requests |-> IdleRequest]
  /\ metars = [a \in Stations |-> Nothing]
  /\ pc = "idle" /\ tickAge = 0 /\ job = [a \in Stations |-> IdleJob]
  /\ result = [a \in Stations |-> Nothing]
  /\ reported = {} /\ faults = 0
  /\ sinceCall = [a \in Stations |-> MetarTTL]
-----------------------------------------------------------------------------
(* Upstream and time *)

Replaced(copy) == IF copy = 0 THEN 1 ELSE copy
Older(copy) == IF copy \in {0, Nothing} THEN copy ELSE Least(copy + 1, MaxLag)

ReplacedIn(entry) ==
  IF entry = Nothing THEN entry ELSE [entry EXCEPT !.copy = Replaced(@)]
OlderIn(entry, ttl) ==
  IF entry = Nothing THEN entry
  ELSE [copy |-> Older(entry.copy), age |-> Least(entry.age + 1, ttl)]

Waiting(q) == q.state \in {"calling", "called"}

NewCharts(a) ==
  /\ charts' = [charts EXCEPT ![a] = ReplacedIn(@)]
  /\ req' = [r \in Requests |->
               IF Waiting(req[r]) /\ req[r].airport = a
               THEN [req[r] EXCEPT !.copy = Replaced(@)] ELSE req[r]]
  /\ UNCHANGED metarVars

NewMetar(a) ==
  /\ metars' = [metars EXCEPT ![a] = ReplacedIn(@)]
  /\ job' = [job EXCEPT ![a].copy = Replaced(@)]
  /\ result' = [result EXCEPT ![a] = Replaced(@)]
  /\ UNCHANGED <<chartVars, pc, tickAge, reported, faults, sinceCall>>

InCall == {a \in Stations : job[a].state \in {"calling", "called"}}
Queued == {a \in Stations : job[a].state = "queued"}

\* What the poller does without waiting for upstream takes no time: a free slot
\* is taken, wg.Wait returns.
PollerWaits ==
  pc = "fetching" =>
    /\ InCall # {}
    /\ Queued # {} => Cardinality(InCall) >= Slots

\* No call outlives its timeout.
Clock ==
  /\ \A r \in Requests : Waiting(req[r]) => req[r].waited < MaxCall
  /\ \A a \in InCall : job[a].waited < MaxCall
  /\ PollerWaits
  /\ charts' = [a \in Airports |-> OlderIn(charts[a], ChartsTTL)]
  /\ req' = [r \in Requests |->
               IF Waiting(req[r])
               THEN [req[r] EXCEPT !.copy = Older(@), !.waited = @ + 1] ELSE req[r]]
  /\ metars' = [a \in Stations |-> OlderIn(metars[a], MetarTTL)]
  /\ job' = [a \in Stations |->
               IF a \in InCall
               THEN [job[a] EXCEPT !.copy = Older(@), !.waited = @ + 1] ELSE job[a]]
  /\ result' = [a \in Stations |-> Older(result[a])]
  /\ tickAge' = IF pc = "fetching" THEN tickAge + 1 ELSE tickAge
  /\ sinceCall' = [a \in Stations |-> Least(sinceCall[a] + 1, MetarTTL)]
  /\ UNCHANGED <<pc, reported, faults>>
-----------------------------------------------------------------------------
(* Charts: getCharts and its two handlers *)

\* Mutation: a hit renews the entry's time.
AskRenews(r, a) ==
  /\ req[r].state = "idle"
  /\ req' = [req EXCEPT ![r] =
               IF Fresh(charts[a], ChartsTTL)
               THEN [IdleRequest EXCEPT !.state = "200", !.airport = a,
                                        !.copy = charts[a].copy]
               ELSE [IdleRequest EXCEPT !.state = "calling", !.airport = a]]
  /\ charts' = IF Fresh(charts[a], ChartsTTL)
               THEN [charts EXCEPT ![a].age = 0] ELSE charts
  /\ UNCHANGED metarVars

\* The lookup, under chartsMu.
AskCharts(r, a) ==
  /\ req[r].state = "idle"
  /\ req' = [req EXCEPT ![r] =
               IF Fresh(charts[a], ChartsTTL)
               THEN [IdleRequest EXCEPT !.state = "200", !.airport = a,
                                        !.copy = charts[a].copy]
               ELSE [IdleRequest EXCEPT !.state = "calling", !.airport = a]]
  /\ UNCHANGED <<charts, metarVars>>

\* Mutation: what was not found is remembered like any other answer.
FetchRemembersNil(r) ==
  /\ req[r].state = "calling"
  /\ \/ req' = [req EXCEPT ![r].state = "called", ![r].copy = 0]
     \/ req' = [req EXCEPT ![r].state = "called", ![r].copy = Nothing]
  /\ UNCHANGED <<charts, metarVars>>

\* The call, without the lock: several requests may be at it.  No connection or
\* no JSON is an error; any status but 200 and empty metadata mean not found.
FetchAirportCharts(r) ==
  /\ req[r].state = "calling"
  /\ \/ req' = [req EXCEPT ![r].state = "called", ![r].copy = 0]
     \/ \E status \in {"404", "502"} :
          req' = [req EXCEPT ![r].state = status, ![r].copy = Nothing,
                             ![r].waited = 0]
  /\ UNCHANGED <<charts, metarVars>>

\* The last one to store wins, be its copy older or newer.
StoreCharts(r) ==
  /\ req[r].state = "called"
  /\ charts' = [charts EXCEPT ![req[r].airport] = Entry(req[r].copy)]
  /\ req' = [req EXCEPT ![r].state = "200", ![r].waited = 0]
  /\ UNCHANGED metarVars

ChartsAnswered(r) ==
  /\ req[r].state \in {"200", "404", "502"}
  /\ req' = [req EXCEPT ![r] = IdleRequest]
  /\ UNCHANGED <<charts, metarVars>>
-----------------------------------------------------------------------------
(* METARs: fetchMetars within a tick of the poller *)

\* Mutation: any entry is a hit, whatever its age.
TickIgnoresAge ==
  /\ pc = "idle" /\ pc' = "fetching"
  /\ result' = [a \in Stations |->
                  IF metars[a] # Nothing THEN metars[a].copy ELSE Nothing]
  /\ job' = [a \in Stations |->
               IF metars[a] # Nothing THEN IdleJob
               ELSE [IdleJob EXCEPT !.state = "queued"]]
  /\ UNCHANGED <<chartVars, metars, tickAge, reported, faults, sinceCall>>

\* Under metarMu: the hits are taken, a goroutine is started for every other
\* station.
TickStarts ==
  /\ pc = "idle" /\ pc' = "fetching"
  /\ result' = [a \in Stations |->
                  IF Fresh(metars[a], MetarTTL) THEN metars[a].copy ELSE Nothing]
  /\ job' = [a \in Stations |->
               IF Fresh(metars[a], MetarTTL) THEN IdleJob
               ELSE [IdleJob EXCEPT !.state = "queued"]]
  /\ UNCHANGED <<chartVars, metars, tickAge, reported, faults, sinceCall>>

\* A goroutine gets a slot of sem, in no particular order, and calls.
Call(a) ==
  /\ job[a].state = "queued" /\ Cardinality(InCall) < Slots
  /\ job' = [job EXCEPT ![a] = [IdleJob EXCEPT !.state = "calling"]]
  /\ sinceCall' = [sinceCall EXCEPT ![a] = 0]
  /\ UNCHANGED <<chartVars, metars, pc, tickAge, result, reported, faults>>

\* Every failure of FetchMetar is an empty text.
FetchMetar(a) ==
  /\ job[a].state = "calling"
  /\ \/ job' = [job EXCEPT ![a].state = "called", ![a].copy = 0]
        /\ UNCHANGED faults
     \/ job' = [job EXCEPT ![a].state = "called"]
        /\ faults < MaxFaults /\ faults' = faults + 1
  /\ UNCHANGED <<chartVars, metars, pc, tickAge, result, reported, sinceCall>>

\* Mutation: an empty text is not stored, so it is asked for again at once.
StoreOnlyText(a) ==
  /\ job[a].state = "called"
  /\ result' = [result EXCEPT ![a] = job[a].copy]
  /\ metars' = IF job[a].copy = Nothing THEN metars
               ELSE [metars EXCEPT ![a] = Entry(job[a].copy)]
  /\ job' = [job EXCEPT ![a] = IdleJob]
  /\ UNCHANGED <<chartVars, pc, tickAge, reported, faults, sinceCall>>

\* Text or not, the outcome is cached; the slot is free again.
StoreMetar(a) ==
  /\ job[a].state = "called"
  /\ result' = [result EXCEPT ![a] = job[a].copy]
  /\ metars' = [metars EXCEPT ![a] = Entry(job[a].copy)]
  /\ job' = [job EXCEPT ![a] = IdleJob]
  /\ UNCHANGED <<chartVars, pc, tickAge, reported, faults, sinceCall>>

\* wg.Wait has returned: the reports are built.
Build ==
  /\ pc = "fetching" /\ job = [a \in Stations |-> IdleJob] /\ pc' = "idle"
  /\ reported' = {a \in Stations : result[a] # Nothing}
  /\ tickAge' = 0 /\ result' = [a \in Stations |-> Nothing]
  /\ UNCHANGED <<chartVars, metars, job, faults, sinceCall>>
-----------------------------------------------------------------------------
PollerStep ==
  \/ TickStarts \/ Build
  \/ \E a \in Stations : Call(a) \/ FetchMetar(a) \/ StoreMetar(a)

RequestStep(r) == FetchAirportCharts(r) \/ StoreCharts(r) \/ ChartsAnswered(r)

Next ==
  \/ Clock \/ PollerStep
  \/ \E a \in Airports : NewCharts(a)
  \/ \E a \in Stations : NewMetar(a)
  \/ \E r \in Requests : RequestStep(r) \/ \E a \in Airports : AskCharts(r, a)

Spec == Init /\ [][Next]_vars

\* The datafeed changes again and again, the goroutines run, time passes.
FairSpec ==
  /\ Spec /\ WF_vars(PollerStep) /\ SF_vars(Clock)
  /\ \A r \in Requests : WF_vars(RequestStep(r))
-----------------------------------------------------------------------------
(* Properties *)

Copies == Lags \cup {Nothing}
EntrySet(copies, ttl) == {Nothing} \cup [copy : copies, age : 0..ttl]

\* Every variable has its type; only found charts are ever cached.
TypeOK ==
  /\ charts \in [Airports -> EntrySet(Lags, ChartsTTL)]
  /\ metars \in [Stations -> EntrySet(Copies, MetarTTL)]
  /\ req \in [Requests ->
       [state : {"idle", "calling", "called", "200", "404", "502"},
        airport : Airports \cup {Nothing}, copy : Copies, waited : 0..MaxCall]]
  /\ pc \in {"idle", "fetching"} /\ tickAge \in 0..MaxTick
  /\ job \in [Stations ->
       [state : {"idle", "queued", "calling", "called"}, copy : Copies,
        waited : 0..MaxCall]]
  /\ result \in [Stations -> Copies] /\ reported \subseteq Stations
  /\ faults \in 0..MaxFaults /\ sinceCall \in [Stations -> 0..MetarTTL]

\* Charts that are answered were upstream less than the TTL and one call ago,
\* also when a slow request stored an old copy over a newer one.
ChartsAreRecent ==
  \A r \in Requests : req[r].state = "200" =>
    req[r].copy # Nothing /\ req[r].copy <= ChartsTTL + MaxCall

\* The METARs a tick builds its reports with were upstream less than the TTL, one
\* call and one tick before: the call that stored it, and the tick that still waits
\* for other stations.  With at most Slots calls at a time a tick lasts as many
\* calls as it takes rounds, not one.
ReportsAreRecent ==
  \A a \in Stations : result[a] = Nothing \/ result[a] <= MetarTTL + MaxCall + MaxTick

\* The poller calls for the METAR of a station at most once per TTL, whether the
\* calls succeed or fail, and however long they queue.
MetarRateIsBounded ==
  [][\A a \in Stations :
       job[a].state = "queued" /\ job'[a].state = "calling" => sinceCall[a] >= MetarTTL]_vars

\* An empty METAR that was cached for a failure goes away: when calls fail no
\* more, the reports have their METAR and keep it.
MetarsHeal == <>[](reported = Stations)
=============================================================================
