------------------------ MODULE AirportCachesProofs ------------------------
(***************************************************************************)
(* Proofs about AirportCaches for any number of requests and airports,     *)
(* every TTL and every bound on the length of a call.  The charts and the  *)
(* METARs share nothing but the clock: each side has an inductive          *)
(* invariant of its own.                                                   *)
(***************************************************************************)
EXTENDS AirportCaches, FiniteSetTheorems, TLAPS

\* A copy that left upstream at most n ticks ago, if there is one.
Within(copy, n) == copy = Nothing \/ copy <= n
-----------------------------------------------------------------------------
(* Lemmas about copies and entries *)

LEMMA Constants ==
  /\ ChartsTTL \in Nat /\ ChartsTTL >= 1 /\ MetarTTL \in Nat /\ MetarTTL >= 1
  /\ MaxCall \in Nat /\ MaxFaults \in Nat /\ Nothing \notin Int
  /\ MaxLag \in Nat /\ MaxLag >= 1 /\ 0 \in Lags /\ 1 \in Lags
  /\ Lags \subseteq Nat /\ Nothing \notin Lags
  /\ Slots \in Nat /\ Slots >= 1 /\ Rounds \in Nat /\ Rounds >= 1 /\ MaxTick \in Nat
<1>1. MaxTick \in Nat
  BY CacheAssumption DEF MaxTick
<1> QED
  BY <1>1, CacheAssumption DEF MaxLag, Lags

\* What upstream replaces is one tick old at least, and no older if it was old.
LEMMA ReplacedCopy ==
  ASSUME NEW c \in Copies
  PROVE  /\ Replaced(c) \in Copies /\ (c \in Lags => Replaced(c) \in Lags)
         /\ c = Nothing => Replaced(c) = Nothing
         /\ \A n \in Nat : n >= 1 /\ Within(c, n) => Within(Replaced(c), n)
  BY Constants DEF Replaced, Copies, Within

\* A tick makes a copy at most one tick older.
LEMMA OlderCopy ==
  ASSUME NEW c \in Copies
  PROVE  /\ Older(c) \in Copies /\ (c \in Lags => Older(c) \in Lags)
         /\ c = Nothing => Older(c) = Nothing
         /\ \A n \in Nat : Within(c, n) => Within(Older(c), n + 1)
<1>1. CASE c = Nothing
  BY <1>1, Constants DEF Older, Copies, Within
<1>2. CASE c \in Lags
  <2>1. Older(c) \in Lags /\ Older(c) <= c + 1
    BY <1>2, Constants DEF Older, Least, Lags
  <2>2. c \in Int /\ Older(c) \in Int /\ c # Nothing
    BY <1>2, <2>1, Constants DEF Lags
  <2>3. \A n \in Nat : Within(c, n) => Within(Older(c), n + 1)
    BY <2>1, <2>2 DEF Within
  <2> QED
    BY <1>2, <2>1, <2>2, <2>3 DEF Copies
<1> QED
  BY <1>1, <1>2 DEF Copies

\* An entry that may still be a hit left upstream at most one call before it
\* was stored.
EntryOK(entry, ttl) ==
  Fresh(entry, ttl) => Within(entry.copy, entry.age + MaxCall + 1)

LEMMA EntryType ==
  ASSUME NEW copies, NEW ttl, NEW entry \in EntrySet(copies, ttl), entry # Nothing
  PROVE  entry = [copy |-> entry.copy, age |-> entry.age]
         /\ entry.copy \in copies /\ entry.age \in 0..ttl
  BY DEF EntrySet

\* No entry is mistaken for a missing one.
LEMMA EntryIsSomething ==
  ASSUME NEW c \in Copies, NEW n \in Nat
  PROVE  [copy |-> c, age |-> n] # Nothing
  BY CacheAssumption, Constants DEF Copies

LEMMA ReplacedEntry ==
  ASSUME NEW copies \in {Lags, Copies}, NEW ttl \in Nat,
         NEW entry \in EntrySet(copies, ttl)
  PROVE  /\ ReplacedIn(entry) \in EntrySet(copies, ttl)
         /\ ReplacedIn(entry) = Nothing <=> entry = Nothing
         /\ entry # Nothing => ReplacedIn(entry).age = entry.age
         /\ EntryOK(entry, ttl) => EntryOK(ReplacedIn(entry), ttl)
<1>1. CASE entry = Nothing
  BY <1>1 DEF ReplacedIn, EntrySet, EntryOK, Fresh
<1>2. CASE entry # Nothing
  <2> DEFINE c == entry.copy
             n == entry.age
  <2>1. entry = [copy |-> c, age |-> n] /\ c \in copies /\ n \in 0..ttl /\ c \in Copies
    BY <1>2, EntryType DEF Copies
  <2>2. ReplacedIn(entry) = [copy |-> Replaced(c), age |-> n]
    BY <1>2, <2>1 DEF ReplacedIn
  <2>3. /\ Replaced(c) \in copies /\ Replaced(c) \in Copies
        /\ \A m \in Nat : m >= 1 /\ Within(c, m) => Within(Replaced(c), m)
    BY <2>1, ReplacedCopy
  <2>4. ReplacedIn(entry) # Nothing
    BY <2>1, <2>2, <2>3, EntryIsSomething
  <2>5. n + MaxCall + 1 \in Nat /\ n + MaxCall + 1 >= 1
    BY <2>1, Constants
  <2> QED
    BY <1>2, <2>1, <2>2, <2>3, <2>4, <2>5 DEF EntrySet, EntryOK, Fresh
<1> QED
  BY <1>1, <1>2

LEMMA OlderEntry ==
  ASSUME NEW copies \in {Lags, Copies}, NEW ttl \in Nat,
         NEW entry \in EntrySet(copies, ttl)
  PROVE  /\ OlderIn(entry, ttl) \in EntrySet(copies, ttl)
         /\ OlderIn(entry, ttl) = Nothing <=> entry = Nothing
         /\ entry # Nothing => OlderIn(entry, ttl).age = Least(entry.age + 1, ttl)
         /\ EntryOK(entry, ttl) => EntryOK(OlderIn(entry, ttl), ttl)
<1>1. CASE entry = Nothing
  BY <1>1 DEF OlderIn, EntrySet, EntryOK, Fresh
<1>2. CASE entry # Nothing
  <2> DEFINE c == entry.copy
             n == entry.age
  <2>1. entry = [copy |-> c, age |-> n] /\ c \in copies /\ n \in 0..ttl /\ c \in Copies
    BY <1>2, EntryType DEF Copies
  <2>2. OlderIn(entry, ttl) = [copy |-> Older(c), age |-> Least(n + 1, ttl)]
    BY <1>2 DEF OlderIn
  <2>3. /\ Older(c) \in copies /\ Older(c) \in Copies
        /\ \A m \in Nat : Within(c, m) => Within(Older(c), m + 1)
    BY <2>1, OlderCopy
  <2>4. /\ Least(n + 1, ttl) \in 0..ttl
        /\ Least(n + 1, ttl) < ttl => n < ttl /\ Least(n + 1, ttl) = n + 1
    BY <2>1 DEF Least
  <2>5. OlderIn(entry, ttl) # Nothing
    BY <2>2, <2>3, <2>4, EntryIsSomething
  <2>6. ASSUME EntryOK(entry, ttl), Least(n + 1, ttl) < ttl
        PROVE  Within(Older(c), Least(n + 1, ttl) + MaxCall + 1)
    <3>1. Within(c, n + MaxCall + 1) /\ n + MaxCall + 1 \in Nat
      BY <1>2, <2>1, <2>4, <2>6, Constants DEF EntryOK, Fresh
    <3>2. Within(Older(c), n + MaxCall + 1 + 1)
      BY <2>3, <3>1
    <3>3. n + MaxCall + 1 + 1 = Least(n + 1, ttl) + MaxCall + 1
      BY <2>1, <2>4, <2>6, Constants
    <3> QED
      BY <3>2, <3>3
  <2> QED
    BY <1>2, <2>2, <2>3, <2>4, <2>5, <2>6 DEF EntrySet, EntryOK, Fresh
<1> QED
  BY <1>1, <1>2

\* An entry that was just stored with a copy of one call ago.
LEMMA NewEntry ==
  ASSUME NEW copies \in {Lags, Copies}, NEW ttl \in Nat, NEW c \in copies,
         Within(c, MaxCall + 1)
  PROVE  /\ Entry(c) \in EntrySet(copies, ttl) /\ EntryOK(Entry(c), ttl)
         /\ Entry(c) # Nothing /\ Entry(c).age = 0
<1>1. Entry(c) # Nothing
  BY EntryIsSomething DEF Entry, Copies
<1> QED
  BY <1>1, Constants DEF Entry, EntrySet, EntryOK, Fresh
-----------------------------------------------------------------------------
(* The charts *)

RequestSet ==
  [state : {"idle", "calling", "called", "200", "404", "502"},
   airport : Airports \cup {Nothing}, copy : Copies, waited : 0..MaxCall]

\* A copy on its way to the cache is as old as its call, and one that was
\* answered at most a call older than the TTL.
RequestOK(q) ==
  /\ q.state = "called" => q.copy \in Lags /\ q.copy <= q.waited + 1
  /\ q.state = "200" => q.copy \in Lags /\ q.copy <= ChartsTTL + MaxCall

ChartInv ==
  /\ charts \in [Airports -> EntrySet(Lags, ChartsTTL)]
  /\ \A a \in Airports : EntryOK(charts[a], ChartsTTL)

RequestInv ==
  /\ req \in [Requests -> RequestSet]
  /\ \A r \in Requests : RequestOK(req[r])

LEMMA RequestType ==
  ASSUME NEW q \in RequestSet
  PROVE  /\ q = [state |-> q.state, airport |-> q.airport, copy |-> q.copy,
                 waited |-> q.waited]
         /\ q.state \in {"idle", "calling", "called", "200", "404", "502"}
         /\ q.airport \in Airports \cup {Nothing} /\ q.copy \in Copies
         /\ q.waited \in 0..MaxCall
  BY DEF RequestSet

LEMMA RequestIntro ==
  ASSUME NEW s \in {"idle", "calling", "called", "200", "404", "502"},
         NEW b \in Airports \cup {Nothing}, NEW c \in Copies, NEW w \in 0..MaxCall
  PROVE  [state |-> s, airport |-> b, copy |-> c, waited |-> w] \in RequestSet
  BY DEF RequestSet

\* What updates of two or three fields of a request at once amount to.
LEMMA SetStateAirport ==
  ASSUME NEW s, NEW b, NEW c, NEW w, NEW s2, NEW b2, NEW q, NEW p,
         q = [state |-> s, airport |-> b, copy |-> c, waited |-> w],
         p = [q EXCEPT !.state = s2, !.airport = b2]
  PROVE  p = [state |-> s2, airport |-> b2, copy |-> c, waited |-> w]
<1>1. PICK r : r = [q EXCEPT !.state = s2]
  OBVIOUS
<1>2. p = [r EXCEPT !.airport = b2]
  BY <1>1
<1>3. r = [state |-> s2, airport |-> b, copy |-> c, waited |-> w]
  BY <1>1
<1> QED
  BY <1>2, <1>3

LEMMA SetStateCopy ==
  ASSUME NEW s, NEW b, NEW c, NEW w, NEW s2, NEW c2, NEW q, NEW p,
         q = [state |-> s, airport |-> b, copy |-> c, waited |-> w],
         p = [q EXCEPT !.state = s2, !.copy = c2]
  PROVE  p = [state |-> s2, airport |-> b, copy |-> c2, waited |-> w]
<1>1. PICK r : r = [q EXCEPT !.state = s2]
  OBVIOUS
<1>2. p = [r EXCEPT !.copy = c2]
  BY <1>1
<1>3. r = [state |-> s2, airport |-> b, copy |-> c, waited |-> w]
  BY <1>1
<1> QED
  BY <1>2, <1>3

LEMMA SetStateWaited ==
  ASSUME NEW s, NEW b, NEW c, NEW w, NEW s2, NEW w2, NEW q, NEW p,
         q = [state |-> s, airport |-> b, copy |-> c, waited |-> w],
         p = [q EXCEPT !.state = s2, !.waited = w2]
  PROVE  p = [state |-> s2, airport |-> b, copy |-> c, waited |-> w2]
<1>1. PICK r : r = [q EXCEPT !.state = s2]
  OBVIOUS
<1>2. p = [r EXCEPT !.waited = w2]
  BY <1>1
<1>3. r = [state |-> s2, airport |-> b, copy |-> c, waited |-> w]
  BY <1>1
<1> QED
  BY <1>2, <1>3

LEMMA SetCopyWaited ==
  ASSUME NEW s, NEW b, NEW c, NEW w, NEW c2, NEW w2, NEW q, NEW p,
         q = [state |-> s, airport |-> b, copy |-> c, waited |-> w],
         p = [q EXCEPT !.copy = c2, !.waited = w2]
  PROVE  p = [state |-> s, airport |-> b, copy |-> c2, waited |-> w2]
<1>1. PICK r : r = [q EXCEPT !.copy = c2]
  OBVIOUS
<1>2. p = [r EXCEPT !.waited = w2]
  BY <1>1
<1>3. r = [state |-> s, airport |-> b, copy |-> c2, waited |-> w]
  BY <1>1
<1> QED
  BY <1>2, <1>3

LEMMA SetStateAirportCopy ==
  ASSUME NEW s, NEW b, NEW c, NEW w, NEW s2, NEW b2, NEW c2, NEW q, NEW p,
         q = [state |-> s, airport |-> b, copy |-> c, waited |-> w],
         p = [q EXCEPT !.state = s2, !.airport = b2, !.copy = c2]
  PROVE  p = [state |-> s2, airport |-> b2, copy |-> c2, waited |-> w]
<1>1. PICK r : r = [q EXCEPT !.state = s2]
  OBVIOUS
<1>2. PICK u : u = [r EXCEPT !.airport = b2]
  OBVIOUS
<1>3. p = [u EXCEPT !.copy = c2]
  BY <1>1, <1>2
<1>4. r = [state |-> s2, airport |-> b, copy |-> c, waited |-> w]
  BY <1>1
<1>5. u = [state |-> s2, airport |-> b2, copy |-> c, waited |-> w]
  BY <1>2, <1>4
<1> QED
  BY <1>3, <1>5

LEMMA SetStateCopyWaited ==
  ASSUME NEW s, NEW b, NEW c, NEW w, NEW s2, NEW c2, NEW w2, NEW q, NEW p,
         q = [state |-> s, airport |-> b, copy |-> c, waited |-> w],
         p = [q EXCEPT !.state = s2, !.copy = c2, !.waited = w2]
  PROVE  p = [state |-> s2, airport |-> b, copy |-> c2, waited |-> w2]
<1>1. PICK r : r = [q EXCEPT !.state = s2]
  OBVIOUS
<1>2. PICK u : u = [r EXCEPT !.copy = c2]
  OBVIOUS
<1>3. p = [u EXCEPT !.waited = w2]
  BY <1>1, <1>2
<1>4. r = [state |-> s2, airport |-> b, copy |-> c, waited |-> w]
  BY <1>1
<1>5. u = [state |-> s2, airport |-> b, copy |-> c2, waited |-> w]
  BY <1>2, <1>4
<1> QED
  BY <1>3, <1>5

LEMMA IdleRequestIs ==
  IdleRequest = [state |-> "idle", airport |-> Nothing, copy |-> Nothing, waited |-> 0]
  BY DEF IdleRequest

LEMMA IdleRequestOK == IdleRequest \in RequestSet /\ RequestOK(IdleRequest)
  BY Constants DEF IdleRequest, RequestSet, RequestOK, Copies

LEMMA ReplacedRequest ==
  ASSUME NEW q \in RequestSet, RequestOK(q), Waiting(q),
         NEW p, p = [q EXCEPT !.copy = Replaced(@)]
  PROVE  p \in RequestSet /\ RequestOK(p)
<1>1. /\ q.copy \in Copies /\ q.waited \in 0..MaxCall
      /\ p = [state |-> q.state, airport |-> q.airport,
              copy |-> Replaced(q.copy), waited |-> q.waited]
  BY DEF RequestSet
<1>2. /\ Replaced(q.copy) \in Copies
      /\ q.copy \in Lags => Replaced(q.copy) \in Lags
      /\ \A n \in Nat : n >= 1 /\ Within(q.copy, n) => Within(Replaced(q.copy), n)
  BY <1>1, ReplacedCopy
<1>3. ASSUME q.copy \in Lags, q.copy <= q.waited + 1
      PROVE  Replaced(q.copy) <= q.waited + 1
  BY <1>1, <1>2, <1>3, Constants DEF Within
<1> QED
  BY <1>1, <1>2, <1>3 DEF RequestSet, RequestOK, Waiting

LEMMA OlderRequest ==
  ASSUME NEW q \in RequestSet, RequestOK(q), Waiting(q), q.waited < MaxCall,
         NEW p, p = [q EXCEPT !.copy = Older(@), !.waited = @ + 1]
  PROVE  p \in RequestSet /\ RequestOK(p)
<1>1. /\ q.copy \in Copies /\ q.waited \in 0..MaxCall /\ q.waited + 1 \in 0..MaxCall
      /\ p = [state |-> q.state, airport |-> q.airport,
              copy |-> Older(q.copy), waited |-> q.waited + 1]
  <2>1. p = [q EXCEPT !.copy = Older(q.copy), !.waited = q.waited + 1]
    OBVIOUS
  <2>2. p = [state |-> q.state, airport |-> q.airport,
             copy |-> Older(q.copy), waited |-> q.waited + 1]
    BY <2>1, RequestType, SetCopyWaited, Zenon
  <2>3. q.copy \in Copies /\ q.waited \in 0..MaxCall
    BY RequestType
  <2>4. q.waited + 1 \in 0..MaxCall
    BY <2>3, Constants
  <2> QED
    BY <2>2, <2>3, <2>4, Zenon
<1>2. /\ Older(q.copy) \in Copies
      /\ q.copy \in Lags => Older(q.copy) \in Lags
      /\ \A n \in Nat : Within(q.copy, n) => Within(Older(q.copy), n + 1)
  BY <1>1, OlderCopy
<1>3. ASSUME q.copy \in Lags, q.copy <= q.waited + 1
      PROVE  Older(q.copy) <= q.waited + 1 + 1
  BY <1>1, <1>2, <1>3, Constants DEF Within
<1> QED
  BY <1>1, <1>2, <1>3 DEF RequestSet, RequestOK, Waiting

\* A hit within the TTL is within the bound of the answers, and so is a copy
\* that comes straight from the call.
LEMMA HitIsRecent ==
  ASSUME NEW entry \in EntrySet(Lags, ChartsTTL), EntryOK(entry, ChartsTTL),
         Fresh(entry, ChartsTTL)
  PROVE  entry.copy \in Lags /\ entry.copy <= ChartsTTL + MaxCall
<1>1. entry.copy \in Lags /\ entry.age \in Nat /\ entry.age < ChartsTTL
  BY EntryType DEF Fresh
<1> QED
  BY <1>1, Constants DEF EntryOK, Within, Lags

ChartSide == ChartInv /\ RequestInv

LEMMA ChartSideInit == Init => ChartSide
<1> SUFFICES ASSUME Init PROVE ChartSide
  OBVIOUS
<1>1. ChartInv
  BY DEF Init, ChartInv, EntrySet, EntryOK, Fresh
<1>2. RequestInv
  BY IdleRequestOK DEF Init, RequestInv
<1> QED
  BY <1>1, <1>2 DEF ChartSide

\* Every disjunct of Next, as the charts see it.
LEMMA ChartCases ==
  ASSUME [Next]_vars
  PROVE  \/ Clock \/ UNCHANGED chartVars
         \/ \E a \in Airports : NewCharts(a)
         \/ \E r \in Requests :
              \/ FetchAirportCharts(r) \/ StoreCharts(r) \/ ChartsAnswered(r)
              \/ \E a \in Airports : AskCharts(r, a)
  BY DEF Next, vars, PollerStep, RequestStep, TickStarts, Build, Call, FetchMetar,
     StoreMetar, NewMetar

\* One request changes, and stays within its bounds.
LEMMA OneRequest ==
  ASSUME RequestInv, NEW r \in Requests, NEW q \in RequestSet, RequestOK(q),
         req' = [req EXCEPT ![r] = q]
  PROVE  RequestInv'
  BY DEF RequestInv

LEMMA ChartStep == ASSUME ChartSide, [Next]_vars PROVE ChartSide'
<1>1. ChartInv /\ RequestInv
  BY DEF ChartSide
<1>2. CASE Clock
  <2>1. ASSUME NEW a \in Airports
        PROVE  /\ charts'[a] \in EntrySet(Lags, ChartsTTL)
               /\ EntryOK(charts'[a], ChartsTTL)
    BY <1>1, <1>2, OlderEntry, Constants DEF Clock, ChartInv
  <2>2. ASSUME NEW r \in Requests
        PROVE  req'[r] \in RequestSet /\ RequestOK(req'[r])
    <3>1. req[r] \in RequestSet /\ RequestOK(req[r])
      BY <1>1 DEF RequestInv
    <3>2. CASE Waiting(req[r])
      BY <1>2, <3>1, <3>2, OlderRequest DEF Clock
    <3>3. CASE ~Waiting(req[r])
      BY <1>2, <3>1, <3>3 DEF Clock
    <3> QED
      BY <3>2, <3>3
  <2> QED
    BY <1>2, <2>1, <2>2 DEF Clock, ChartSide, ChartInv, RequestInv
<1>3. CASE UNCHANGED chartVars
  BY <1>1, <1>3 DEF chartVars, ChartSide, ChartInv, RequestInv
<1>4. ASSUME NEW a \in Airports, NewCharts(a) PROVE ChartSide'
  <2>1. ChartInv'
    BY <1>1, <1>4, ReplacedEntry, Constants DEF NewCharts, ChartInv
  <2>2. ASSUME NEW r \in Requests
        PROVE  req'[r] \in RequestSet /\ RequestOK(req'[r])
    <3>1. req[r] \in RequestSet /\ RequestOK(req[r])
      BY <1>1 DEF RequestInv
    <3>2. CASE Waiting(req[r]) /\ req[r].airport = a
      BY <1>4, <3>1, <3>2, ReplacedRequest DEF NewCharts
    <3>3. CASE ~(Waiting(req[r]) /\ req[r].airport = a)
      BY <1>4, <3>1, <3>3 DEF NewCharts
    <3> QED
      BY <3>2, <3>3
  <2> QED
    BY <1>4, <2>1, <2>2 DEF NewCharts, ChartSide, RequestInv
<1>5. ASSUME NEW r \in Requests, NEW a \in Airports, AskCharts(r, a) PROVE ChartSide'
  <2>1. /\ charts[a] \in EntrySet(Lags, ChartsTTL) /\ EntryOK(charts[a], ChartsTTL)
        /\ charts' = charts
    BY <1>1, <1>5 DEF AskCharts, ChartInv
  <2>2. CASE Fresh(charts[a], ChartsTTL)
    <3>0. PICK q : q = [IdleRequest EXCEPT !.state = "200", !.airport = a,
                                           !.copy = charts[a].copy]
      OBVIOUS
    <3>1. charts[a].copy \in Lags /\ charts[a].copy <= ChartsTTL + MaxCall
      BY <2>1, <2>2, HitIsRecent
    <3>2. q = [state |-> "200", airport |-> a, copy |-> charts[a].copy, waited |-> 0]
      BY ONLY <3>0, IdleRequestIs, SetStateAirportCopy, Zenon
    <3>3. q \in RequestSet
      BY <3>1, <3>2, RequestIntro, Constants DEF Copies
    <3>4. RequestOK(q)
      BY <3>1, <3>2 DEF RequestOK
    <3>5. req' = [req EXCEPT ![r] = q]
      BY <1>5, <2>2, <3>0 DEF AskCharts
    <3> QED
      BY <1>1, <2>1, <3>3, <3>4, <3>5, OneRequest DEF ChartSide, ChartInv
  <2>3. CASE ~Fresh(charts[a], ChartsTTL)
    <3>0. PICK q : q = [IdleRequest EXCEPT !.state = "calling", !.airport = a]
      OBVIOUS
    <3>1. q = [state |-> "calling", airport |-> a, copy |-> Nothing, waited |-> 0]
      BY ONLY <3>0, IdleRequestIs, SetStateAirport, Zenon
    <3>2. q \in RequestSet
      <4>1. Nothing \in Copies /\ 0 \in 0..MaxCall
        BY Constants DEF Copies
      <4> QED
        BY <3>1, <4>1, RequestIntro
    <3>3. RequestOK(q)
      BY <3>1 DEF RequestOK
    <3>4. req' = [req EXCEPT ![r] = q]
      BY <1>5, <2>3, <3>0 DEF AskCharts
    <3> QED
      BY <1>1, <2>1, <3>2, <3>3, <3>4, OneRequest DEF ChartSide, ChartInv
  <2> QED
    BY <2>2, <2>3
<1>6. ASSUME NEW r \in Requests, FetchAirportCharts(r) PROVE ChartSide'
  <2>1. /\ req[r] \in RequestSet /\ req[r].waited \in 0..MaxCall
        /\ req \in [Requests -> RequestSet]
    BY <1>1 DEF RequestInv, RequestSet
  <2>0. req[r] = [state |-> req[r].state, airport |-> req[r].airport,
                  copy |-> req[r].copy, waited |-> req[r].waited]
    BY <2>1, RequestType
  <2>2. PICK q :
          /\ req' = [req EXCEPT ![r] = q]
          /\ \/ q = [req[r] EXCEPT !.state = "called", !.copy = 0]
             \/ \E status \in {"404", "502"} :
                  q = [req[r] EXCEPT !.state = status, !.copy = Nothing, !.waited = 0]
    <3>1. req'[r] = req'[r] /\ req' = [req EXCEPT ![r] = req'[r]]
      BY <1>6, <2>1 DEF FetchAirportCharts
    <3> QED
      BY <1>6, <2>1, <3>1 DEF FetchAirportCharts
  <2>3. CASE q = [req[r] EXCEPT !.state = "called", !.copy = 0]
    <3>1. q = [state |-> "called", airport |-> req[r].airport, copy |-> 0,
               waited |-> req[r].waited]
      BY ONLY <2>0, <2>3, SetStateCopy, Zenon
    <3>2. q \in RequestSet
      BY <2>1, <3>1, RequestType, RequestIntro, Constants DEF Copies
    <3>3. RequestOK(q)
      BY <2>1, <3>1, Constants DEF RequestOK
    <3> QED
      BY <1>1, <1>6, <2>2, <3>2, <3>3, OneRequest
         DEF FetchAirportCharts, ChartSide, ChartInv
  <2>4. ASSUME NEW status \in {"404", "502"},
               q = [req[r] EXCEPT !.state = status, !.copy = Nothing, !.waited = 0]
        PROVE  ChartSide'
    <3>1. q = [state |-> status, airport |-> req[r].airport, copy |-> Nothing,
               waited |-> 0]
      BY ONLY <2>0, <2>4, SetStateCopyWaited, Zenon
    <3>2. q \in RequestSet
      BY <2>1, <3>1, RequestType, RequestIntro, Constants DEF Copies
    <3>3. RequestOK(q)
      BY <3>1 DEF RequestOK
    <3> QED
      BY <1>1, <1>6, <2>2, <3>2, <3>3, OneRequest
         DEF FetchAirportCharts, ChartSide, ChartInv
  <2> QED
    BY <2>2, <2>3, <2>4
<1>7. ASSUME NEW r \in Requests, StoreCharts(r) PROVE ChartSide'
  <2>1. /\ req[r] \in RequestSet /\ req[r].waited \in 0..MaxCall
        /\ req[r].copy \in Lags /\ req[r].copy <= req[r].waited + 1
        /\ req \in [Requests -> RequestSet]
    BY <1>1, <1>7 DEF RequestInv, RequestSet, RequestOK, StoreCharts
  <2>2. req[r].copy \in Nat /\ req[r].copy <= MaxCall + 1
        /\ req[r].copy <= ChartsTTL + MaxCall
    BY <2>1, Constants DEF Lags
  <2>3. /\ Entry(req[r].copy) \in EntrySet(Lags, ChartsTTL)
        /\ EntryOK(Entry(req[r].copy), ChartsTTL)
    BY <2>1, <2>2, NewEntry, Constants DEF Within
  <2>4. ChartInv'
    BY <1>1, <1>7, <2>3 DEF StoreCharts, ChartInv
  <2>0. req[r] = [state |-> req[r].state, airport |-> req[r].airport,
                  copy |-> req[r].copy, waited |-> req[r].waited]
    BY <2>1, RequestType
  <2>9. PICK q : q = [req[r] EXCEPT !.state = "200", !.waited = 0]
    OBVIOUS
  <2>5. q = [state |-> "200", airport |-> req[r].airport, copy |-> req[r].copy,
             waited |-> 0]
    BY ONLY <2>0, <2>9, SetStateWaited, Zenon
  <2>6. q \in RequestSet
    BY <2>1, <2>5, RequestType, RequestIntro, Constants
  <2>7. RequestOK(q)
    BY <2>1, <2>2, <2>5 DEF RequestOK
  <2>8. req' = [req EXCEPT ![r] = q]
    BY <1>7, <2>1, <2>9 DEF StoreCharts
  <2> QED
    BY <1>1, <2>4, <2>6, <2>7, <2>8, OneRequest DEF ChartSide
<1>8. ASSUME NEW r \in Requests, ChartsAnswered(r) PROVE ChartSide'
  BY <1>1, <1>8, OneRequest, IdleRequestOK DEF ChartsAnswered, ChartSide, ChartInv
<1> QED
  BY <1>2, <1>3, <1>4, <1>5, <1>6, <1>7, <1>8, ChartCases
-----------------------------------------------------------------------------
(* The METARs, station by station *)

JobSet ==
  [state : {"idle", "queued", "calling", "called"}, copy : Copies, waited : 0..MaxCall]

InCallState == {"calling", "called"}

\* What a goroutine was told, it was told during its call.
JobOK(j) ==
  /\ IF j.state = "called" THEN Within(j.copy, j.waited + 1) ELSE j.copy = Nothing
  /\ j.state \notin InCallState => j = [IdleJob EXCEPT !.state = j.state]

\* While no goroutine calls, the entry is not older than the last call, and who
\* queues found none that is fresh.
RateOK(state, entry, since) ==
  /\ state = "idle" => IF entry = Nothing THEN since >= MetarTTL ELSE entry.age <= since
  /\ state = "queued" => since >= MetarTTL

\* Everything the poller keeps about one station.
StationOK(a) ==
  /\ metars[a] \in EntrySet(Copies, MetarTTL) /\ EntryOK(metars[a], MetarTTL)
  /\ job[a] \in JobSet /\ JobOK(job[a])
  /\ result[a] \in Copies /\ Within(result[a], MetarTTL + MaxCall + tickAge)
  /\ sinceCall[a] \in 0..MetarTTL /\ RateOK(job[a].state, metars[a], sinceCall[a])
  /\ pc = "idle" => job[a] = IdleJob /\ result[a] = Nothing

TickOK ==
  /\ pc \in {"idle", "fetching"} /\ tickAge \in 0..MaxTick
  /\ pc = "idle" => tickAge = 0
  /\ faults \in 0..MaxFaults /\ reported \subseteq Stations

Tables ==
  /\ metars = [a \in Stations |-> metars[a]] /\ job = [a \in Stations |-> job[a]]
  /\ result = [a \in Stations |-> result[a]]
  /\ sinceCall = [a \in Stations |-> sinceCall[a]]

MetarSide == Tables /\ TickOK /\ \A a \in Stations : StationOK(a)

LEMMA JobType ==
  ASSUME NEW j \in JobSet
  PROVE  /\ j = [state |-> j.state, copy |-> j.copy, waited |-> j.waited]
         /\ j.copy \in Copies /\ j.waited \in 0..MaxCall
         /\ j.state \in {"idle", "queued", "calling", "called"}
  BY DEF JobSet

\* A goroutine that is not in its call was told nothing yet.
LEMMA QuietJob ==
  ASSUME NEW s \in {"idle", "queued"}
  PROVE  /\ [IdleJob EXCEPT !.state = s] = [state |-> s, copy |-> Nothing, waited |-> 0]
         /\ [IdleJob EXCEPT !.state = s] \in JobSet
         /\ JobOK([IdleJob EXCEPT !.state = s])
<1>1. [IdleJob EXCEPT !.state = s] = [state |-> s, copy |-> Nothing, waited |-> 0]
  BY DEF IdleJob
<1>2. [IdleJob EXCEPT !.state = s] \in JobSet
  BY <1>1, Constants DEF JobSet, Copies
<1>3. s # "called"
  OBVIOUS
<1> QED
  BY <1>1, <1>2, <1>3 DEF JobOK

LEMMA IdleJobOK ==
  /\ IdleJob = [state |-> "idle", copy |-> Nothing, waited |-> 0]
  /\ IdleJob \in JobSet /\ JobOK(IdleJob)
<1>1. IdleJob = [IdleJob EXCEPT !.state = "idle"]
  BY DEF IdleJob
<1> QED
  BY <1>1, QuietJob

LEMMA MetarSideInit == Init => MetarSide
<1> SUFFICES ASSUME Init PROVE MetarSide
  OBVIOUS
<1>1. Tables
  BY DEF Init, Tables
<1>2. TickOK
  BY Constants DEF Init, TickOK
<1>3. ASSUME NEW a \in Stations PROVE StationOK(a)
  <2>1. /\ metars[a] = Nothing /\ job[a] = IdleJob /\ result[a] = Nothing
        /\ sinceCall[a] = MetarTTL
    BY DEF Init
  <2> QED
    BY <2>1, IdleJobOK, Constants
       DEF StationOK, EntrySet, EntryOK, Fresh, Within, Copies, RateOK
<1> QED
  BY <1>1, <1>2, <1>3 DEF MetarSide

\* Every disjunct of Next, as the METARs see it.
LEMMA MetarCases ==
  ASSUME [Next]_vars
  PROVE  \/ Clock \/ UNCHANGED metarVars \/ TickStarts \/ Build
         \/ \E a \in Stations : NewMetar(a) \/ Call(a) \/ FetchMetar(a) \/ StoreMetar(a)
  BY DEF Next, vars, PollerStep, RequestStep, NewCharts, AskCharts,
     FetchAirportCharts, StoreCharts, ChartsAnswered

\* A station whose part of the state does not change within a tick.
LEMMA OtherStation ==
  ASSUME NEW a \in Stations, StationOK(a), pc' = pc, tickAge' = tickAge,
         metars'[a] = metars[a], job'[a] = job[a], result'[a] = result[a],
         sinceCall'[a] = sinceCall[a]
  PROVE  StationOK(a)'
  BY DEF StationOK

\* What time does to a goroutine.
LEMMA OlderJob ==
  ASSUME NEW j \in JobSet, JobOK(j), j.state \in InCallState, j.waited < MaxCall,
         NEW k, k = [j EXCEPT !.copy = Older(@), !.waited = @ + 1]
  PROVE  k \in JobSet /\ JobOK(k) /\ k.state = j.state /\ k.waited = j.waited + 1
<1>1. k = [j EXCEPT !.copy = Older(j.copy), !.waited = j.waited + 1]
  OBVIOUS
<1>2. PICK i : i = [j EXCEPT !.copy = Older(j.copy)]
  OBVIOUS
<1>3. k = [i EXCEPT !.waited = j.waited + 1]
  BY <1>1, <1>2
<1>4. /\ j = [state |-> j.state, copy |-> j.copy, waited |-> j.waited]
      /\ j.copy \in Copies /\ j.waited \in 0..MaxCall
      /\ j.state \in {"idle", "queued", "calling", "called"}
  BY JobType
<1>5. i = [state |-> j.state, copy |-> Older(j.copy), waited |-> j.waited]
  BY <1>2, <1>4
<1>6. k = [state |-> j.state, copy |-> Older(j.copy), waited |-> j.waited + 1]
  BY <1>3, <1>5
<1>7. j.waited \in Nat /\ j.waited + 1 \in 0..MaxCall
  BY <1>4, Constants
<1>8. /\ Older(j.copy) \in Copies /\ (j.copy = Nothing => Older(j.copy) = Nothing)
      /\ \A n \in Nat : Within(j.copy, n) => Within(Older(j.copy), n + 1)
  BY <1>4, OlderCopy
<1>9. k \in JobSet
  BY <1>4, <1>6, <1>7, <1>8 DEF JobSet
<1>10. JobOK(k)
  <2>1. j.waited + 1 \in Nat
    BY <1>7
  <2> QED
    BY <1>6, <1>8, <2>1 DEF JobOK
<1> QED
  BY <1>6, <1>9, <1>10

LEMMA ClockKeepsMetars ==
  ASSUME MetarSide, Clock, tickAge' \in 0..MaxTick PROVE MetarSide'
<1>1. Tables /\ TickOK /\ (\A a \in Stations : StationOK(a))
  BY DEF MetarSide
<1>2. Tables'
  BY <1>1 DEF Clock, Tables
<1>3. /\ pc' = pc /\ tickAge \in Nat /\ tickAge' \in Nat
      /\ pc = "fetching" => tickAge' = tickAge + 1
      /\ pc = "idle" => tickAge' = tickAge
      /\ pc \in {"idle", "fetching"} /\ TickOK'
  <2>1. /\ pc' = pc /\ faults' = faults /\ reported' = reported
        /\ tickAge' = IF pc = "fetching" THEN tickAge + 1 ELSE tickAge
    BY Zenon DEF Clock
  <2> QED
    BY <1>1, <2>1, Constants DEF TickOK
<1>4. ASSUME NEW a \in Stations PROVE StationOK(a)'
  <2>1. StationOK(a)
    BY <1>1
  <2>2. /\ metars'[a] = OlderIn(metars[a], MetarTTL)
        /\ result'[a] = Older(result[a])
        /\ sinceCall'[a] = Least(sinceCall[a] + 1, MetarTTL)
    BY DEF Clock
  <2>3. /\ metars'[a] \in EntrySet(Copies, MetarTTL) /\ EntryOK(metars'[a], MetarTTL)
        /\ metars'[a] = Nothing <=> metars[a] = Nothing
        /\ metars[a] # Nothing => metars'[a].age = Least(metars[a].age + 1, MetarTTL)
    BY <2>1, <2>2, OlderEntry, Constants DEF StationOK
  <2>4. job'[a] \in JobSet /\ JobOK(job'[a]) /\ job'[a].state = job[a].state
    <3>1. CASE a \in InCall
      <4>1. job'[a] = [job[a] EXCEPT !.copy = Older(@), !.waited = @ + 1]
        BY <3>1 DEF Clock
      <4>2. job[a].waited < MaxCall
        BY <3>1 DEF Clock
      <4>3. job[a].state \in InCallState
        BY <3>1 DEF InCall, InCallState
      <4> QED
        BY <2>1, <4>1, <4>2, <4>3, OlderJob DEF StationOK
    <3>2. CASE a \notin InCall
      BY <2>1, <3>2 DEF Clock, StationOK
    <3> QED
      BY <3>1, <3>2
  <2>5. ASSUME pc = "idle" PROVE job'[a] = IdleJob /\ result'[a] = Nothing
    <3>1. job[a] = IdleJob /\ result[a] = Nothing
      BY <2>1, <2>5 DEF StationOK
    <3>2. a \notin InCall
      BY <3>1, IdleJobOK DEF InCall
    <3>3. job'[a] = job[a]
      BY <3>2 DEF Clock
    <3> QED
      BY <2>2, <3>1, <3>3, OlderCopy DEF Copies
  <2>6. result'[a] \in Copies /\ Within(result'[a], MetarTTL + MaxCall + tickAge')
    <3>1. /\ result[a] \in Copies /\ MetarTTL + MaxCall + tickAge \in Nat
          /\ Within(result[a], MetarTTL + MaxCall + tickAge)
      BY <1>3, <2>1, Constants DEF StationOK
    <3>2. Older(result[a]) \in Copies
      BY <3>1, OlderCopy
    <3>3. CASE pc = "idle"
      BY <2>2, <2>5, <3>2, <3>3 DEF Within
    <3>4. CASE pc = "fetching"
      <4>1. Within(Older(result[a]), MetarTTL + MaxCall + tickAge + 1)
        BY <3>1, OlderCopy
      <4>2. MetarTTL + MaxCall + tickAge + 1 = MetarTTL + MaxCall + tickAge'
        BY <1>3, <3>4, Constants
      <4> QED
        BY <2>2, <3>2, <4>1, <4>2
    <3> QED
      BY <1>3, <3>3, <3>4
  <2>7. /\ sinceCall'[a] \in 0..MetarTTL
        /\ RateOK(job'[a].state, metars'[a], sinceCall'[a])
    <3>1. sinceCall[a] \in 0..MetarTTL
      BY <2>1 DEF StationOK
    <3>2. sinceCall'[a] \in 0..MetarTTL
      BY <2>2, <3>1, Constants DEF Least
    <3>3. ASSUME sinceCall[a] >= MetarTTL PROVE sinceCall'[a] >= MetarTTL
      BY <2>2, <3>1, <3>3, Constants DEF Least
    <3>4. ASSUME job[a].state = "idle", metars[a] # Nothing
          PROVE  metars'[a].age <= sinceCall'[a]
      <4>1. metars[a].age \in 0..MetarTTL /\ metars[a].age <= sinceCall[a]
        BY <2>1, <3>4, EntryType DEF StationOK, RateOK
      <4> QED
        BY <2>2, <2>3, <3>1, <3>4, <4>1, Constants DEF Least
    <3> QED
      BY <2>1, <2>3, <2>4, <3>2, <3>3, <3>4 DEF RateOK, StationOK
  <2> QED
    BY <1>3, <2>3, <2>4, <2>5, <2>6, <2>7 DEF StationOK
<1> QED
  BY <1>2, <1>3, <1>4 DEF MetarSide

LEMMA NewMetarKeepsMetars ==
  ASSUME MetarSide, NEW a \in Stations, NewMetar(a)
  PROVE  /\ MetarSide'
         /\ \A b \in Stations : job'[b].state = job[b].state /\ job'[b].waited = job[b].waited
<1>1. Tables /\ TickOK /\ \A b \in Stations : StationOK(b)
  BY DEF MetarSide
<1>2. Tables' /\ TickOK'
  BY <1>1 DEF NewMetar, Tables, TickOK
<1>3. /\ StationOK(a)' /\ job'[a].state = job[a].state /\ job'[a].waited = job[a].waited
  <2>1. /\ StationOK(a) /\ tickAge \in Nat
        /\ pc' = pc /\ tickAge' = tickAge
    BY <1>1, Constants DEF NewMetar, TickOK
  <2>2. /\ metars'[a] = ReplacedIn(metars[a])
        /\ job'[a] = [job[a] EXCEPT !.copy = Replaced(@)]
        /\ result'[a] = Replaced(result[a])
        /\ sinceCall'[a] = sinceCall[a]
    BY <1>1 DEF NewMetar, Tables
  <2>3. /\ metars'[a] \in EntrySet(Copies, MetarTTL) /\ EntryOK(metars'[a], MetarTTL)
        /\ metars'[a] = Nothing <=> metars[a] = Nothing
        /\ metars[a] # Nothing => metars'[a].age = metars[a].age
    BY <2>1, <2>2, ReplacedEntry, Constants DEF StationOK
  <2>4. /\ job'[a] = [state |-> job[a].state, copy |-> Replaced(job[a].copy),
                      waited |-> job[a].waited]
        /\ job[a] = [state |-> job[a].state, copy |-> job[a].copy,
                     waited |-> job[a].waited]
        /\ job[a].copy \in Copies /\ job[a] \in JobSet /\ job[a].waited \in 0..MaxCall
    BY <2>1, <2>2, JobType DEF StationOK
  <2>5. /\ job'[a] \in JobSet /\ job'[a].state = job[a].state
        /\ job'[a].waited = job[a].waited
    BY <2>4, ReplacedCopy DEF JobSet
  <2>6. job[a].copy = Nothing => job'[a] = job[a]
    BY <2>4, ReplacedCopy
  <2>7. JobOK(job'[a])
    <3>1. CASE job[a].state = "called"
      <4>1. job[a].waited + 1 \in Nat /\ job[a].waited + 1 >= 1
        BY <2>4, Constants
      <4>2. Within(job[a].copy, job[a].waited + 1)
        BY <2>1, <3>1 DEF StationOK, JobOK
      <4>3. Within(Replaced(job[a].copy), job[a].waited + 1)
        BY <2>4, <4>1, <4>2, ReplacedCopy
      <4> QED
        BY <2>4, <3>1, <4>3 DEF JobOK, InCallState
    <3>2. CASE job[a].state # "called"
      <4>1. job[a].copy = Nothing /\ JobOK(job[a])
        BY <2>1, <3>2 DEF StationOK, JobOK
      <4> QED
        BY <2>6, <4>1
    <3> QED
      BY <3>1, <3>2
  <2>8. result'[a] \in Copies /\ Within(result'[a], MetarTTL + MaxCall + tickAge)
    <3>1. /\ result[a] \in Copies /\ MetarTTL + MaxCall + tickAge \in Nat
          /\ MetarTTL + MaxCall + tickAge >= 1
          /\ Within(result[a], MetarTTL + MaxCall + tickAge)
      BY <2>1, Constants DEF StationOK
    <3> QED
      BY <2>2, <3>1, ReplacedCopy
  <2>9. RateOK(job'[a].state, metars'[a], sinceCall'[a])
    BY <2>1, <2>2, <2>3, <2>5 DEF StationOK, RateOK
  <2>10. ASSUME pc = "idle" PROVE job'[a] = IdleJob /\ result'[a] = Nothing
    <3>1. job[a] = IdleJob /\ result[a] = Nothing
      BY <2>1, <2>10 DEF StationOK
    <3> QED
      BY <2>2, <2>6, <3>1, IdleJobOK, ReplacedCopy DEF Copies
  <2> QED
    BY <2>1, <2>2, <2>3, <2>5, <2>7, <2>8, <2>9, <2>10 DEF StationOK
<1>4. ASSUME NEW b \in Stations, b # a PROVE StationOK(b)' /\ job'[b] = job[b]
  <2>1. /\ metars'[b] = metars[b] /\ job'[b] = job[b] /\ result'[b] = result[b]
        /\ sinceCall'[b] = sinceCall[b]
        /\ pc' = pc /\ tickAge' = tickAge
    BY <1>1, <1>4 DEF NewMetar, Tables
  <2> QED
    BY <1>1, <2>1, OtherStation
<1> QED
  BY <1>2, <1>3, <1>4 DEF MetarSide

LEMMA TickKeepsMetars == ASSUME MetarSide, TickStarts PROVE MetarSide'
<1>1. Tables /\ TickOK /\ \A a \in Stations : StationOK(a)
  BY DEF MetarSide
<1>2. Tables' /\ TickOK'
  BY <1>1, Constants DEF TickStarts, Tables, TickOK
<1>3. ASSUME NEW a \in Stations PROVE StationOK(a)'
  <2>1. /\ StationOK(a) /\ pc' = "fetching" /\ tickAge' = 0 /\ tickAge = 0
        /\ metars'[a] = metars[a] /\ sinceCall'[a] = sinceCall[a]
        /\ sinceCall[a] \in 0..MetarTTL
        /\ job[a] = IdleJob /\ result[a] = Nothing
    BY <1>1 DEF TickStarts, TickOK, StationOK
  <2>2. CASE Fresh(metars[a], MetarTTL)
    <3>1. result'[a] = metars[a].copy /\ job'[a] = IdleJob
      BY <2>2 DEF TickStarts
    <3>2. metars[a].copy \in Copies /\ metars[a].age \in Nat /\ metars[a].age < MetarTTL
      BY <2>1, <2>2, EntryType DEF StationOK, Fresh
    <3>3. Within(metars[a].copy, MetarTTL + MaxCall)
      <4>1. Within(metars[a].copy, metars[a].age + MaxCall + 1)
        BY <2>1, <2>2 DEF StationOK, EntryOK
      <4>2. metars[a].copy = Nothing \/ metars[a].copy \in Nat
        BY <3>2, Constants DEF Copies
      <4> QED
        BY <3>2, <4>1, <4>2, Constants DEF Within
    <3>4. MetarTTL + MaxCall + 0 = MetarTTL + MaxCall
      BY Constants
    <3> QED
      BY <2>1, <3>1, <3>2, <3>3, <3>4, IdleJobOK DEF StationOK
  <2>3. CASE ~Fresh(metars[a], MetarTTL)
    <3>1. result'[a] = Nothing /\ job'[a] = [IdleJob EXCEPT !.state = "queued"]
      BY <2>3 DEF TickStarts
    <3>2. job'[a] \in JobSet /\ JobOK(job'[a]) /\ job'[a].state = "queued"
      BY <3>1, QuietJob
    <3>3. sinceCall[a] >= MetarTTL
      <4>1. RateOK("idle", metars[a], sinceCall[a])
        BY <2>1, IdleJobOK DEF StationOK
      <4>2. CASE metars[a] = Nothing
        BY <4>1, <4>2 DEF RateOK
      <4>3. CASE metars[a] # Nothing
        <5>1. metars[a].age \in 0..MetarTTL
          BY <2>1, <4>3, EntryType DEF StationOK
        <5>2. metars[a].age >= MetarTTL
          BY <2>3, <4>3, <5>1, Constants DEF Fresh
        <5> QED
          BY <2>1, <4>1, <4>3, <5>1, <5>2, Constants DEF RateOK
      <4> QED
        BY <4>2, <4>3
    <3>4. RateOK(job'[a].state, metars'[a], sinceCall'[a])
      BY <2>1, <3>2, <3>3 DEF RateOK
    <3> QED
      BY <2>1, <3>1, <3>2, <3>4, Constants DEF StationOK, Within, Copies
  <2> QED
    BY <2>2, <2>3
<1> QED
  BY <1>2, <1>3 DEF MetarSide

LEMMA CallKeepsMetars ==
  ASSUME MetarSide, NEW a \in Stations, Call(a) PROVE MetarSide'
<1>1. Tables /\ TickOK /\ \A b \in Stations : StationOK(b)
  BY DEF MetarSide
<1>2. Tables' /\ TickOK'
  BY <1>1 DEF Call, Tables, TickOK
<1>3. StationOK(a)'
  <2>1. /\ StationOK(a) /\ job[a].state = "queued" /\ pc' = pc /\ tickAge' = tickAge
        /\ job'[a] = [IdleJob EXCEPT !.state = "calling"] /\ sinceCall'[a] = 0
        /\ metars'[a] = metars[a] /\ result'[a] = result[a]
    BY <1>1 DEF Call, Tables
  <2>2. job'[a] = [state |-> "calling", copy |-> Nothing, waited |-> 0]
    BY <2>1, IdleJobOK
  <2>3. job'[a] \in JobSet /\ JobOK(job'[a]) /\ job'[a].state = "calling"
    BY <2>2, Constants DEF JobSet, JobOK, Copies, InCallState
  <2>4. pc # "idle"
    BY <2>1, IdleJobOK DEF StationOK
  <2> QED
    BY <2>1, <2>3, <2>4, Constants DEF StationOK, RateOK
<1>4. ASSUME NEW b \in Stations, b # a PROVE StationOK(b)'
  <2>1. /\ metars'[b] = metars[b] /\ job'[b] = job[b] /\ result'[b] = result[b]
        /\ sinceCall'[b] = sinceCall[b] /\ pc' = pc /\ tickAge' = tickAge
    BY <1>1, <1>4 DEF Call, Tables
  <2> QED
    BY <1>1, <2>1, OtherStation
<1> QED
  BY <1>2, <1>3, <1>4 DEF MetarSide

LEMMA FetchKeepsMetars ==
  ASSUME MetarSide, NEW a \in Stations, FetchMetar(a)
  PROVE  /\ MetarSide' /\ job[a].state = "calling"
         /\ job'[a].state = "called" /\ job'[a].waited = job[a].waited
         /\ \A b \in Stations \ {a} : job'[b] = job[b]
<1>1. Tables /\ TickOK /\ \A b \in Stations : StationOK(b)
  BY DEF MetarSide
<1>0. /\ job[a] \in JobSet /\ JobOK(job[a]) /\ job[a].state = "calling"
      /\ job[a] = [state |-> job[a].state, copy |-> job[a].copy, waited |-> job[a].waited]
      /\ job[a].waited \in 0..MaxCall
  BY <1>1, JobType DEF FetchMetar, StationOK
<1>2. PICK c \in {0, Nothing} :
        /\ job'[a] = [state |-> "called", copy |-> c, waited |-> job[a].waited]
        /\ \A b \in Stations \ {a} : job'[b] = job[b]
        /\ job' = [b \in Stations |-> job'[b]]
  <2>1. CASE job' = [job EXCEPT ![a].state = "called", ![a].copy = 0]
    <3>1. PICK u : u = [job EXCEPT ![a].state = "called"]
      OBVIOUS
    <3>2. job' = [u EXCEPT ![a].copy = 0]
      BY <2>1, <3>1
    <3>3. u = [b \in Stations |-> IF b = a THEN [job[a] EXCEPT !.state = "called"]
                                  ELSE job[b]]
      BY <1>1, <3>1 DEF Tables
    <3>4. u[a] = [state |-> "called", copy |-> job[a].copy, waited |-> job[a].waited]
      BY <1>0, <3>3
    <3>5. job'[a] = [state |-> "called", copy |-> 0, waited |-> job[a].waited]
      BY <3>2, <3>3, <3>4
    <3> QED
      BY <3>2, <3>3, <3>5
  <2>2. CASE job' = [job EXCEPT ![a].state = "called"]
    <3>1. job[a].copy = Nothing
      BY <1>0 DEF JobOK
    <3>2. job' = [b \in Stations |-> IF b = a THEN [job[a] EXCEPT !.state = "called"]
                                     ELSE job[b]]
      BY <1>1, <2>2 DEF Tables
    <3>3. job'[a] = [state |-> "called", copy |-> Nothing, waited |-> job[a].waited]
      BY <1>0, <3>1, <3>2
    <3> QED
      BY <3>2, <3>3
  <2> QED
    BY <2>1, <2>2 DEF FetchMetar
<1>3. Tables' /\ TickOK'
  BY <1>1, <1>2, Constants DEF FetchMetar, Tables, TickOK
<1>5. /\ metars' = metars /\ result' = result
      /\ sinceCall' = sinceCall /\ pc' = pc /\ tickAge' = tickAge
  BY DEF FetchMetar
<1>6. StationOK(a)'
  <2>1. StationOK(a)
    BY <1>1
  <2>2. job'[a] \in JobSet /\ job'[a].state = "called"
    BY <1>0, <1>2, Constants DEF JobSet, Copies
  <2>3. JobOK(job'[a])
    BY <1>0, <1>2, Constants DEF JobOK, Within, InCallState
  <2>4. pc # "idle"
    BY <1>0, <2>1, IdleJobOK DEF StationOK
  <2> QED
    BY <1>5, <2>1, <2>2, <2>3, <2>4 DEF StationOK, RateOK
<1>7. ASSUME NEW b \in Stations, b # a PROVE StationOK(b)'
  BY <1>1, <1>2, <1>5, <1>7, OtherStation
<1> QED
  BY <1>0, <1>2, <1>3, <1>6, <1>7 DEF MetarSide

LEMMA StoreKeepsMetars ==
  ASSUME MetarSide, NEW a \in Stations, StoreMetar(a) PROVE MetarSide'
<1>1. Tables /\ TickOK /\ \A b \in Stations : StationOK(b)
  BY DEF MetarSide
<1>2. Tables' /\ TickOK'
  BY <1>1 DEF StoreMetar, Tables, TickOK
<1>3. StationOK(a)'
  <2>1. /\ StationOK(a) /\ tickAge \in 0..MaxTick /\ pc' = pc /\ tickAge' = tickAge
        /\ job[a].state = "called" /\ result'[a] = job[a].copy
        /\ metars'[a] = Entry(job[a].copy) /\ job'[a] = IdleJob
        /\ sinceCall'[a] = sinceCall[a]
    BY <1>1 DEF StoreMetar, Tables, TickOK
  <2>2. /\ job[a].copy \in Copies /\ job[a].waited \in 0..MaxCall
        /\ Within(job[a].copy, job[a].waited + 1)
    BY <2>1, JobType DEF StationOK, JobOK
  <2>3. job[a].copy = Nothing \/ job[a].copy \in Nat
    BY <2>2, Constants DEF Copies
  <2>4. /\ Within(job[a].copy, MaxCall + 1)
        /\ Within(job[a].copy, MetarTTL + MaxCall + tickAge)
    BY <2>1, <2>2, <2>3, Constants DEF Within
  <2>5. /\ metars'[a] \in EntrySet(Copies, MetarTTL) /\ EntryOK(metars'[a], MetarTTL)
        /\ metars'[a] # Nothing /\ metars'[a].age = 0
    BY <2>1, <2>2, <2>4, NewEntry, Constants
  <2>6. RateOK(job'[a].state, metars'[a], sinceCall'[a])
    BY <2>1, <2>5, IdleJobOK DEF StationOK, RateOK
  <2>7. pc # "idle"
    BY <2>1, IdleJobOK DEF StationOK
  <2> QED
    BY <2>1, <2>2, <2>4, <2>5, <2>6, <2>7, IdleJobOK DEF StationOK
<1>4. ASSUME NEW b \in Stations, b # a PROVE StationOK(b)'
  <2>1. /\ metars'[b] = metars[b] /\ job'[b] = job[b] /\ result'[b] = result[b]
        /\ sinceCall'[b] = sinceCall[b]
        /\ pc' = pc /\ tickAge' = tickAge
    BY <1>1, <1>4 DEF StoreMetar, Tables
  <2> QED
    BY <1>1, <2>1, OtherStation
<1> QED
  BY <1>2, <1>3, <1>4 DEF MetarSide

LEMMA BuildKeepsMetars == ASSUME MetarSide, Build PROVE MetarSide'
<1>1. Tables /\ TickOK /\ \A a \in Stations : StationOK(a)
  BY DEF MetarSide
<1>2. Tables' /\ TickOK'
  BY <1>1, Constants DEF Build, Tables, TickOK
<1>3. ASSUME NEW a \in Stations PROVE StationOK(a)'
  <2>1. /\ StationOK(a) /\ tickAge' = 0 /\ pc' = "idle"
        /\ job[a] = IdleJob /\ job'[a] = IdleJob /\ metars'[a] = metars[a]
        /\ result'[a] = Nothing /\ sinceCall'[a] = sinceCall[a]
    BY <1>1 DEF Build
  <2> QED
    BY <2>1, IdleJobOK DEF StationOK, Within, Copies
<1> QED
  BY <1>2, <1>3 DEF MetarSide
-----------------------------------------------------------------------------
(* How long a tick lasts *)

\* The stations that had their slot after n ticks, when f says at which tick each
\* of them got it.
StartedBy(f, n) == {a \in Stations \ Queued : f[a] <= n}

\* While anyone queues every slot is taken, and no call takes more than MaxCall:
\* each round starts Slots calls more.  So the last round starts at Rounds - 1
\* calls at the latest.
Schedule(f) ==
  /\ f \in [Stations -> Nat]
  /\ \A a \in InCall : f[a] + job[a].waited = tickAge
  /\ \A a \in Stations \ Queued : f[a] <= (Rounds - 1) * MaxCall
  /\ \A r \in Nat : tickAge > r * MaxCall /\ Queued # {} =>
       Cardinality(StartedBy(f, r * MaxCall)) >= (r + 1) * Slots

Crowd == \E f : Schedule(f)

LEMMA RoundLength ==
  \A r \in Nat : /\ r * MaxCall \in Nat /\ (r + 1) * MaxCall = r * MaxCall + MaxCall
                 /\ (r + 1) * Slots = r * Slots + Slots /\ r * Slots \in Nat
  BY Constants

LEMMA CrowdInit == Init => Crowd
<1> SUFFICES ASSUME Init PROVE Crowd
  OBVIOUS
<1>1. tickAge = 0 /\ \A a \in Stations : job[a] = IdleJob
  BY DEF Init
<1>2. InCall = {}
  BY <1>1, IdleJobOK DEF InCall
<1>3. (Rounds - 1) * MaxCall >= 0
  BY RoundLength, Constants
<1>4. \A r \in Nat : ~(tickAge > r * MaxCall)
  BY <1>1, RoundLength
<1>5. Schedule([a \in Stations |-> 0])
  BY <1>2, <1>3, <1>4 DEF Schedule
<1> QED
  BY <1>5 DEF Crowd

\* Who queues does so during a tick.
LEMMA InTick ==
  ASSUME MetarSide, pc = "idle"
  PROVE  InCall = {} /\ Queued = {} /\ tickAge = 0
<1>1. \A a \in Stations : job[a] = IdleJob
  BY DEF MetarSide, StationOK
<1> QED
  BY <1>1, IdleJobOK DEF InCall, Queued, MetarSide, TickOK

\* No tick lasts longer than MaxTick.
LEMMA TickIsShort ==
  ASSUME MetarSide, Crowd, Clock PROVE tickAge' \in 0..MaxTick
<1>0. /\ tickAge \in 0..MaxTick /\ pc \in {"idle", "fetching"}
      /\ tickAge' = IF pc = "fetching" THEN tickAge + 1 ELSE tickAge
  BY DEF MetarSide, TickOK, Clock
<1>1. CASE pc = "idle"
  BY <1>0, <1>1
<1>2. CASE pc = "fetching"
  <2>1. PICK f : Schedule(f)
    BY DEF Crowd
  <2>2. PICK a \in InCall : job[a].waited < MaxCall
    BY <1>2 DEF Clock, PollerWaits
  <2>3. a \in Stations \ Queued
    BY <2>2 DEF InCall, Queued
  <2>4. job[a].waited \in Nat
    BY <2>3, JobType DEF MetarSide, StationOK
  <2>5. /\ f[a] \in Nat /\ f[a] + job[a].waited = tickAge
        /\ f[a] <= (Rounds - 1) * MaxCall
    BY <2>1, <2>2, <2>3 DEF Schedule
  <2>6. MaxTick = (Rounds - 1) * MaxCall + MaxCall /\ (Rounds - 1) * MaxCall \in Nat
    <3>1. Rounds - 1 \in Nat /\ Rounds - 1 + 1 = Rounds
      BY Constants
    <3> QED
      BY <3>1, RoundLength DEF MaxTick
  <2> QED
    BY <1>0, <1>2, <2>2, <2>4, <2>5, <2>6, Constants
<1> QED
  BY <1>0, <1>1, <1>2

\* Sets of stations that hold each other or are apart.
LEMMA SubsetCount ==
  ASSUME NEW S \in SUBSET Stations
  PROVE  /\ IsFiniteSet(S) /\ Cardinality(S) \in Nat
         /\ \A T \in SUBSET S : Cardinality(T) <= Cardinality(S)
<1>1. IsFiniteSet(S)
  BY FS_Subset, CacheAssumption
<1>2. \A T \in SUBSET S : Cardinality(T) <= Cardinality(S)
  BY <1>1, FS_Subset
<1> QED
  BY <1>1, <1>2, FS_CardinalityType

LEMMA ApartCount ==
  ASSUME NEW U \in SUBSET Stations, NEW S \in SUBSET U, NEW T \in SUBSET U,
         S \cap T = {}
  PROVE  Cardinality(S) + Cardinality(T) <= Cardinality(U)
<1>1. /\ IsFiniteSet(S) /\ IsFiniteSet(T) /\ Cardinality(S) \in Nat
      /\ Cardinality(T) \in Nat
  BY SubsetCount
<1>2. Cardinality(S \cup T) = Cardinality(S) + Cardinality(T)
  <2>1. Cardinality(S \cap T) = 0
    BY FS_EmptySet
  <2>2. Cardinality(S \cup T)
          = Cardinality(S) + Cardinality(T) - Cardinality(S \cap T)
    BY <1>1, FS_Union
  <2> QED
    BY <1>1, <2>1, <2>2
<1>3. Cardinality(S \cup T) <= Cardinality(U)
  BY SubsetCount
<1> QED
  BY <1>2, <1>3

\* The heart of it: when a round is over and some still queue, Slots stations are
\* in their call that had no slot a round before.
LEMMA RoundFills ==
  ASSUME MetarSide, Clock, NEW f, Schedule(f), NEW r \in Nat,
         tickAge = r * MaxCall, Queued # {}
  PROVE  Cardinality(StartedBy(f, r * MaxCall)) >= (r + 1) * Slots
<1>1. /\ Cardinality(InCall) >= Slots /\ \A a \in InCall : job[a].waited < MaxCall
  <2>1. pc = "fetching"
    BY InTick DEF MetarSide, TickOK
  <2> QED
    BY <2>1 DEF Clock, PollerWaits
<1>2. ASSUME NEW a \in InCall
      PROVE  /\ a \in Stations \ Queued /\ f[a] \in Nat /\ job[a].waited \in Nat
             /\ f[a] + job[a].waited = r * MaxCall /\ job[a].waited < MaxCall
  <2>1. a \in Stations \ Queued /\ job[a].waited \in Nat
    BY JobType DEF InCall, Queued, MetarSide, StationOK
  <2> QED
    BY <1>1, <2>1 DEF Schedule
<1>3. InCall \in SUBSET StartedBy(f, r * MaxCall)
  BY <1>2, RoundLength DEF StartedBy
<1>4. StartedBy(f, r * MaxCall) \in SUBSET Stations
  BY DEF StartedBy
<1>5. Cardinality(InCall) \in Nat /\ Cardinality(StartedBy(f, r * MaxCall)) \in Nat
  BY <1>3, <1>4, SubsetCount
<1>6. CASE r = 0
  <2>1. Cardinality(InCall) <= Cardinality(StartedBy(f, r * MaxCall))
    BY <1>3, <1>4, SubsetCount
  <2> QED
    BY <1>1, <1>5, <1>6, <2>1, Constants
<1>7. CASE r # 0
  <2> DEFINE q == r - 1
  <2>1. q \in Nat /\ q + 1 = r
    BY <1>7
  <2>2. r * MaxCall = q * MaxCall + MaxCall /\ q * MaxCall \in Nat
    BY <2>1, RoundLength
  <2>3. MaxCall > 0
    <3>1. InCall # {}
      <4>1. IsFiniteSet({}) /\ Cardinality({}) = 0
        BY FS_EmptySet
      <4> QED
        BY <1>1, <4>1, Constants
    <3> QED
      BY <1>2, <3>1, Constants
  <2>4. Cardinality(StartedBy(f, q * MaxCall)) >= (q + 1) * Slots
    <3>1. tickAge > q * MaxCall
      BY <2>2, <2>3, Constants
    <3> QED
      BY <2>1, <3>1 DEF Schedule
  <2>5. StartedBy(f, q * MaxCall) \in SUBSET StartedBy(f, r * MaxCall)
    <3>1. \A a \in Stations : f[a] \in Nat
      BY DEF Schedule
    <3> QED
      BY <2>2, <3>1, Constants DEF StartedBy
  <2>6. StartedBy(f, q * MaxCall) \cap InCall = {}
    <3>1. ASSUME NEW a \in InCall PROVE ~(f[a] <= q * MaxCall)
      BY <1>2, <2>2, Constants
    <3> QED
      BY <3>1 DEF StartedBy
  <2>7. Cardinality(StartedBy(f, q * MaxCall)) + Cardinality(InCall)
          <= Cardinality(StartedBy(f, r * MaxCall))
    BY <1>3, <1>4, <2>5, <2>6, ApartCount
  <2>8. Cardinality(StartedBy(f, q * MaxCall)) \in Nat
    BY <1>4, <2>5, SubsetCount
  <2>9. (r + 1) * Slots = (q + 1) * Slots + Slots /\ (q + 1) * Slots \in Nat
    BY <2>1, RoundLength
  <2> QED
    BY <1>1, <1>5, <2>4, <2>7, <2>8, <2>9, Constants
<1> QED
  BY <1>6, <1>7

LEMMA ClockKeepsCrowd == ASSUME MetarSide, Crowd, Clock PROVE Crowd'
<1>1. PICK f : Schedule(f)
  BY DEF Crowd
<1>2. /\ pc \in {"idle", "fetching"} /\ tickAge \in Nat
      /\ tickAge' = IF pc = "fetching" THEN tickAge + 1 ELSE tickAge
  <2>1. tickAge' = IF pc = "fetching" THEN tickAge + 1 ELSE tickAge
    BY Zenon DEF Clock
  <2> QED
    BY <2>1, Constants DEF MetarSide, TickOK
<1>3. ASSUME NEW a \in Stations
      PROVE  /\ job'[a].state = job[a].state
             /\ a \in InCall => job'[a].waited = job[a].waited + 1
  <2>1. job[a] \in JobSet /\ JobOK(job[a])
    BY DEF MetarSide, StationOK
  <2>2. CASE a \in InCall
    <3>1. job'[a] = [job[a] EXCEPT !.copy = Older(@), !.waited = @ + 1]
      BY <2>2 DEF Clock
    <3>2. job[a].waited < MaxCall /\ job[a].state \in InCallState
      BY <2>2 DEF Clock, InCall, InCallState
    <3> QED
      BY <2>1, <3>1, <3>2, OlderJob
  <2>3. CASE a \notin InCall
    BY <2>3 DEF Clock
  <2> QED
    BY <2>2, <2>3
<1>4. InCall' = InCall /\ Queued' = Queued
  BY <1>3 DEF InCall, Queued
<1>5. \A n : StartedBy(f, n)' = StartedBy(f, n)
  BY <1>4 DEF StartedBy
<1>6. ASSUME NEW a \in InCall' PROVE f[a] + job'[a].waited = tickAge'
  <2>1. a \in InCall /\ a \in Stations /\ pc = "fetching"
    BY <1>2, <1>4, InTick DEF InCall
  <2>2. job[a].waited \in Nat /\ f[a] \in Nat /\ f[a] + job[a].waited = tickAge
    BY <1>1, <2>1, JobType DEF MetarSide, StationOK, Schedule
  <2>3. tickAge' = tickAge + 1 /\ job'[a].waited = job[a].waited + 1
    BY <1>2, <1>3, <2>1
  <2> QED
    BY <1>2, <2>2, <2>3
<1>7. ASSUME NEW r \in Nat, tickAge' > r * MaxCall, Queued # {}
      PROVE  Cardinality(StartedBy(f, r * MaxCall)) >= (r + 1) * Slots
  <2>1. r * MaxCall \in Nat
    BY RoundLength
  <2>2. CASE tickAge > r * MaxCall
    BY <1>1, <1>7, <2>2 DEF Schedule
  <2>3. CASE tickAge = r * MaxCall
    BY <1>1, <1>7, <2>3, RoundFills
  <2> QED
    BY <1>2, <1>7, <2>1, <2>2, <2>3
<1>8. Schedule(f)'
  BY <1>1, <1>4, <1>5, <1>6, <1>7 DEF Schedule
<1> QED
  BY <1>8 DEF Crowd

\* A station that gets its slot gets it while the tick is in its last round at the
\* latest: after that every station would have had one.
LEMMA CallKeepsCrowd ==
  ASSUME MetarSide, Crowd, NEW a \in Stations, Call(a) PROVE Crowd'
<1>1. PICK f : Schedule(f)
  BY DEF Crowd
<1>2. /\ a \in Queued /\ tickAge' = tickAge /\ tickAge \in Nat
      /\ job'[a].state = "calling" /\ job'[a].waited = 0
      /\ \A b \in Stations \ {a} : job'[b] = job[b]
  <2>1. job = [b \in Stations |-> job[b]]
    BY DEF MetarSide, Tables
  <2>2. job'[a] = [IdleJob EXCEPT !.state = "calling"]
    BY <2>1 DEF Call
  <2>3. job'[a] = [state |-> "calling", copy |-> Nothing, waited |-> 0]
    BY <2>2, IdleJobOK
  <2> QED
    BY <2>1, <2>3, Constants DEF Call, Queued, MetarSide, TickOK
<1>3. Queued' = Queued \ {a} /\ InCall' = InCall \cup {a}
  BY <1>2 DEF Queued, InCall
<1>4. tickAge <= (Rounds - 1) * MaxCall
  <2>1. SUFFICES ASSUME tickAge > (Rounds - 1) * MaxCall PROVE FALSE
    BY <1>2, RoundLength, Constants
  <2> DEFINE S == StartedBy(f, (Rounds - 1) * MaxCall)
  <2>2. Rounds - 1 \in Nat /\ Rounds - 1 + 1 = Rounds
    BY Constants
  <2>3. Cardinality(S) >= Rounds * Slots
    BY <1>1, <1>2, <2>1, <2>2 DEF Schedule
  <2>4. S \in SUBSET (Stations \ {a})
    BY <1>2 DEF StartedBy
  <2>5. /\ Cardinality(Stations \ {a}) = Cardinality(Stations) - 1
        /\ Cardinality(Stations) \in Nat /\ Cardinality(Stations) <= Rounds * Slots
    BY CacheAssumption, FS_RemoveElement, FS_CardinalityType
  <2>6. Cardinality(S) <= Cardinality(Stations \ {a}) /\ Cardinality(S) \in Nat
    <3>1. Stations \ {a} \in SUBSET Stations
      OBVIOUS
    <3>2. S \in SUBSET Stations
      BY <2>4
    <3> QED
      BY <2>4, <3>1, <3>2, SubsetCount
  <2>7. Rounds * Slots \in Nat
    BY RoundLength, Constants
  <2> QED
    BY <2>3, <2>5, <2>6, <2>7
<1>10. PICK g : g = [f EXCEPT ![a] = tickAge]
  OBVIOUS
<1>5. /\ f \in [Stations -> Nat] /\ g \in [Stations -> Nat] /\ g[a] = tickAge
      /\ \A b \in Stations \ {a} : g[b] = f[b]
  BY <1>1, <1>2, <1>10 DEF Schedule
<1>6. ASSUME NEW b \in InCall' PROVE g[b] + job'[b].waited = tickAge'
  <2>1. CASE b = a
    BY <1>2, <1>5, <2>1
  <2>2. CASE b # a
    BY <1>1, <1>2, <1>3, <1>5, <2>2 DEF Schedule, InCall
  <2> QED
    BY <2>1, <2>2
<1>7. ASSUME NEW b \in Stations \ Queued' PROVE g[b] <= (Rounds - 1) * MaxCall
  BY <1>1, <1>3, <1>4, <1>5 DEF Schedule
<1>8. ASSUME NEW r \in Nat, tickAge' > r * MaxCall, Queued' # {}
      PROVE  Cardinality(StartedBy(g, r * MaxCall)') >= (r + 1) * Slots
  <2>1. ~(g[a] <= r * MaxCall)
    BY <1>2, <1>5, <1>8, RoundLength
  <2>2. StartedBy(g, r * MaxCall)' = StartedBy(f, r * MaxCall)
    BY <1>2, <1>3, <1>5, <2>1 DEF StartedBy
  <2> QED
    BY <1>1, <1>2, <1>3, <1>8, <2>2 DEF Schedule
<1>9. Schedule(g)'
  BY <1>5, <1>6, <1>7, <1>8 DEF Schedule
<1> QED
  BY <1>9 DEF Crowd

\* Whatever leaves the queue and the tick alone and only ends calls.
LEMMA CallsEnd ==
  ASSUME Crowd, tickAge' = tickAge, Queued' = Queued, InCall' \in SUBSET InCall,
         \A a \in InCall' : job'[a].waited = job[a].waited
  PROVE  Crowd'
<1>1. PICK f : Schedule(f)
  BY DEF Crowd
<1>2. \A n : StartedBy(f, n)' = StartedBy(f, n)
  BY DEF StartedBy
<1>3. Schedule(f)'
  BY <1>1, <1>2 DEF Schedule
<1> QED
  BY <1>3 DEF Crowd

\* A tick begins and ends with age 0 and no call.
LEMMA NewTick ==
  ASSUME tickAge' = 0, InCall' = {} PROVE Crowd'
<1>1. (Rounds - 1) * MaxCall >= 0
  BY RoundLength, Constants
<1>2. \A r \in Nat : ~(tickAge' > r * MaxCall)
  BY RoundLength
<1>3. Schedule([a \in Stations |-> 0])'
  BY <1>1, <1>2 DEF Schedule
<1> QED
  BY <1>3 DEF Crowd

LEMMA MetarStep ==
  ASSUME MetarSide, Crowd, [Next]_vars PROVE MetarSide' /\ Crowd'
<1>0. job = [a \in Stations |-> job[a]]
  BY DEF MetarSide, Tables
<1>1. CASE UNCHANGED metarVars
  <2>1. Tables' /\ TickOK'
    BY <1>1 DEF metarVars, MetarSide, Tables, TickOK
  <2>2. ASSUME NEW a \in Stations PROVE StationOK(a)'
    BY <1>1, OtherStation DEF metarVars, MetarSide
  <2>3. Crowd'
    BY <1>1, CallsEnd DEF metarVars, InCall, Queued
  <2> QED
    BY <2>1, <2>2, <2>3 DEF MetarSide
<1>2. CASE Clock
  BY <1>2, TickIsShort, ClockKeepsMetars, ClockKeepsCrowd
<1>3. CASE TickStarts
  <2>1. tickAge' = 0
    BY <1>3 DEF TickStarts, MetarSide, TickOK
  <2>2. ASSUME NEW a \in Stations PROVE job'[a].state \in {"idle", "queued"}
    BY <1>3, IdleJobOK, QuietJob DEF TickStarts
  <2>3. InCall' = {}
    BY <2>2 DEF InCall
  <2> QED
    BY <1>3, <2>1, <2>3, TickKeepsMetars, NewTick
<1>4. CASE Build
  <2>1. tickAge' = 0 /\ \A a \in Stations : job'[a] = IdleJob
    BY <1>4 DEF Build
  <2>2. InCall' = {}
    BY <2>1, IdleJobOK DEF InCall
  <2> QED
    BY <1>4, <2>1, <2>2, BuildKeepsMetars, NewTick
<1>5. ASSUME NEW a \in Stations, NewMetar(a) PROVE MetarSide' /\ Crowd'
  <2>1. /\ MetarSide' /\ tickAge' = tickAge
        /\ \A b \in Stations : job'[b].state = job[b].state /\ job'[b].waited = job[b].waited
    BY <1>5, NewMetarKeepsMetars DEF NewMetar
  <2>2. InCall' = InCall /\ Queued' = Queued /\ InCall \in SUBSET Stations
    BY <2>1 DEF InCall, Queued
  <2> QED
    BY <2>1, <2>2, CallsEnd
<1>6. ASSUME NEW a \in Stations, Call(a) PROVE MetarSide' /\ Crowd'
  BY <1>6, CallKeepsMetars, CallKeepsCrowd
<1>7. ASSUME NEW a \in Stations, FetchMetar(a) PROVE MetarSide' /\ Crowd'
  <2>1. /\ MetarSide' /\ job[a].state = "calling" /\ tickAge' = tickAge
        /\ job'[a].state = "called" /\ job'[a].waited = job[a].waited
        /\ \A b \in Stations \ {a} : job'[b] = job[b]
    BY <1>7, FetchKeepsMetars DEF FetchMetar
  <2>2. InCall' = InCall /\ Queued' = Queued /\ InCall \in SUBSET Stations
    BY <2>1 DEF InCall, Queued
  <2> QED
    BY <2>1, <2>2, CallsEnd
<1>8. ASSUME NEW a \in Stations, StoreMetar(a) PROVE MetarSide' /\ Crowd'
  <2>1. /\ tickAge' = tickAge /\ job[a].state = "called" /\ job'[a] = IdleJob
        /\ \A b \in Stations \ {a} : job'[b] = job[b]
    BY <1>0, <1>8 DEF StoreMetar
  <2>2. InCall' = InCall \ {a} /\ Queued' = Queued /\ InCall \in SUBSET Stations
    BY <2>1, IdleJobOK DEF InCall, Queued
  <2> QED
    BY <1>8, <2>1, <2>2, StoreKeepsMetars, CallsEnd
<1> QED
  BY <1>1, <1>2, <1>3, <1>4, <1>5, <1>6, <1>7, <1>8, MetarCases
-----------------------------------------------------------------------------
(* The theorems *)

Inv == ChartSide /\ MetarSide /\ Crowd

LEMMA Invariance == Spec => []Inv
<1>1. Init => Inv
  BY ChartSideInit, MetarSideInit, CrowdInit DEF Inv
<1>2. Inv /\ [Next]_vars => Inv'
  BY ChartStep, MetarStep DEF Inv
<1> QED
  BY <1>1, <1>2, PTL DEF Spec

\* The handlers and the poller keep the types of AirportCaches; no nil metadata
\* ever enters chartsCache.
THEOREM TypeCorrect == Spec => []TypeOK
<1>1. Inv => TypeOK
  <2> SUFFICES ASSUME Inv PROVE TypeOK
    OBVIOUS
  <2>1. /\ charts \in [Airports -> EntrySet(Lags, ChartsTTL)]
        /\ req \in [Requests -> RequestSet]
    BY DEF Inv, ChartSide, ChartInv, RequestInv
  <2>2. Tables /\ TickOK /\ \A a \in Stations : StationOK(a)
    BY DEF Inv, MetarSide
  <2>3. /\ metars \in [Stations -> EntrySet(Copies, MetarTTL)]
        /\ job \in [Stations -> JobSet] /\ result \in [Stations -> Copies]
        /\ sinceCall \in [Stations -> 0..MetarTTL]
    BY <2>2 DEF Tables, StationOK
  <2> QED
    BY <2>1, <2>2, <2>3 DEF TypeOK, RequestSet, JobSet, TickOK
<1> QED
  BY <1>1, Invariance, PTL

\* Charts that getCharts answers were upstream less than chartsTTL and one call
\* ago, whichever of several requests stored last.
THEOREM AnsweredChartsAreRecent == Spec => []ChartsAreRecent
<1>1. Inv => ChartsAreRecent
  <2> SUFFICES ASSUME Inv, NEW r \in Requests, req[r].state = "200"
               PROVE  req[r].copy # Nothing /\ req[r].copy <= ChartsTTL + MaxCall
    BY DEF ChartsAreRecent
  <2> QED
    BY Constants DEF Inv, ChartSide, RequestInv, RequestOK
<1> QED
  BY <1>1, Invariance, PTL

\* The METAR fetchMetars gives to a report was upstream less than metarTTL, one
\* call and as many calls as the stations need rounds of slots before, however the
\* goroutines get their slots.
THEOREM ReportedMetarsAreRecent == Spec => []ReportsAreRecent
<1>1. Inv => ReportsAreRecent
  <2> SUFFICES ASSUME Inv, NEW a \in Stations, result[a] # Nothing
               PROVE  result[a] <= MetarTTL + MaxCall + MaxTick
    BY DEF ReportsAreRecent
  <2>1. /\ tickAge \in 0..MaxTick /\ result[a] \in Copies
        /\ Within(result[a], MetarTTL + MaxCall + tickAge)
    BY DEF Inv, MetarSide, StationOK, TickOK
  <2>2. result[a] \in Nat /\ result[a] <= MetarTTL + MaxCall + tickAge
    BY <2>1, Constants DEF Within, Copies
  <2> QED
    BY <2>1, <2>2, Constants
<1> QED
  BY <1>1, Invariance, PTL

\* fetchMetars calls for the METAR of a station at most once per metarTTL, and an
\* empty answer counts like a text.
THEOREM MetarCallsAreBounded == Spec => MetarRateIsBounded
<1> DEFINE A == \A a \in Stations : job[a].state = "queued" /\ job'[a].state = "calling"
                                    => sinceCall[a] >= MetarTTL
<1>1. Inv => [A]_vars
  <2> SUFFICES ASSUME Inv, NEW a \in Stations, job[a].state = "queued"
               PROVE  sinceCall[a] >= MetarTTL
    OBVIOUS
  <2> QED
    BY DEF Inv, MetarSide, StationOK, RateOK
<1> QED
  BY <1>1, Invariance, PTL DEF MetarRateIsBounded
=============================================================================
