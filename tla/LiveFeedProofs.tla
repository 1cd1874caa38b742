--------------------------- MODULE LiveFeedProofs ---------------------------
(***************************************************************************)
(* Proofs about LiveFeed for every set of tabs and stations, all bounds of *)
(* buffers, and any number of publications, connections and restarts.      *)
(***************************************************************************)
EXTENDS LiveFeed, AtisPollerProofs

\* Every disjunct of Next, one name each.
LEMMA NextCases ==
  ASSUME [Next]_vars
  PROVE  \/ PollerStep \/ FanOut \/ ServerRestarts
         \/ \E c \in Clients : \/ HandleWS(c) \/ Register(c) \/ SendInitial(c)
                               \/ Disconnect(c) \/ Receive(c)
         \/ UNCHANGED vars
  BY DEF Next

\* Of the poller's variables a step of a tab changes none.
LEMMA PollerNextStep == [Next]_vars => [PollerNext]_pollerVars
  BY DEF Next, PollerStep, FanOut, ServerRestarts, HandleWS, Register, SendInitial,
     Disconnect, Receive, PollerNext, vars

\* The poller of LiveFeed is that of AtisPoller, so what is proved of AtisPoller
\* holds with any number of connections at the other end (poller.go, store.go).
THEOREM PollerIsAtisPoller == Spec => PollerSpec
<1>1. Init => PollerInit
  BY DEF Init
<1> QED
  BY <1>1, PollerNextStep, PTL DEF Spec, PollerSpec
-----------------------------------------------------------------------------
(***************************************************************************)
(* Messages in a queue.  Has: is one of q in N?  LastIn: the last such one.*)
(***************************************************************************)
Has(q, N) == \E i \in 1..Len(q) : q[i] \in N

LastIn(q, N) ==
  {q[i] : i \in {k \in 1..Len(q) :
                   q[k] \in N /\ \A j \in (k + 1)..Len(q) : q[j] \notin N}}

LEMMA EmptyHasNone == ASSUME NEW N PROVE ~Has(<< >>, N) /\ LastIn(<< >>, N) = {}
  BY DEF Has, LastIn

LEMMA LastInType ==
  ASSUME NEW M, NEW N, NEW q \in Seq(M)
  PROVE  LastIn(q, N) \subseteq M \cap N
  BY DEF LastIn

\* What Append(q, m) is, as far as these lemmas need it.
IsAppend(p, q, m) ==
  /\ Len(q) \in Nat /\ Len(p) = Len(q) + 1 /\ p[Len(q) + 1] = m
  /\ \A i \in 1..Len(q) : p[i] = q[i]

LEMMA AppendIs ==
  ASSUME NEW M, NEW q \in Seq(M), NEW m \in M
  PROVE  IsAppend(Append(q, m), q, m)
  BY DEF IsAppend

LEMMA HasAppend ==
  ASSUME NEW p, NEW q, NEW m, IsAppend(p, q, m), NEW N
  PROVE  /\ Has(p, N) <=> m \in N \/ Has(q, N)
         /\ m \in N => LastIn(p, N) = {m}
         /\ m \notin N => LastIn(p, N) = LastIn(q, N)
<1>1. PICK n : n = Len(q)
  OBVIOUS
<1>2. /\ n \in Nat /\ Len(p) = n + 1 /\ p[n + 1] = m
      /\ \A i \in 1..n : p[i] = q[i]
  BY <1>1 DEF IsAppend
<1>3. Has(p, N) <=> m \in N \/ Has(q, N)
  BY <1>1, <1>2 DEF Has
<1>4. CASE m \in N
  <2>1. \A i \in 1..(n + 1) :
          (p[i] \in N /\ \A j \in (i + 1)..(n + 1) : p[j] \notin N) <=> i = n + 1
    BY <1>2, <1>4
  <2> QED
    BY <1>1, <1>2, <1>3, <1>4, <2>1 DEF LastIn
<1>5. CASE m \notin N
  <2>1. \A i \in 1..(n + 1) :
          (p[i] \in N /\ \A j \in (i + 1)..(n + 1) : p[j] \notin N)
            <=> i \in 1..n /\ q[i] \in N /\ \A j \in (i + 1)..n : q[j] \notin N
    BY <1>2, <1>5
  <2> QED
    BY <1>1, <1>2, <1>3, <1>5, <2>1 DEF LastIn
<1> QED
  BY <1>4, <1>5

\* What it means that m is the head of q and p its tail.
IsTail(p, q, m) ==
  /\ Len(q) \in Nat /\ Len(q) > 0 /\ Len(p) = Len(q) - 1 /\ q[1] = m
  /\ \A i \in 1..(Len(q) - 1) : p[i] = q[i + 1]

LEMMA TailIs ==
  ASSUME NEW M, NEW q \in Seq(M), q # << >>
  PROVE  IsTail(Tail(q), q, Head(q)) /\ Head(q) \in M
  BY DEF IsTail

LEMMA HasTail ==
  ASSUME NEW p, NEW q, NEW m, IsTail(p, q, m), NEW N
  PROVE  /\ Has(q, N) <=> m \in N \/ Has(p, N)
         /\ Has(p, N) => LastIn(q, N) = LastIn(p, N)
         /\ ~Has(p, N) => LastIn(q, N) = {m} \cap N
<1>1. PICK n : n = Len(q)
  OBVIOUS
<1>2. /\ n \in Nat /\ n > 0 /\ Len(p) = n - 1 /\ q[1] = m
      /\ \A i \in 1..(n - 1) : p[i] = q[i + 1]
      /\ \A i \in 2..n : i - 1 \in 1..(n - 1) /\ q[i] = p[i - 1]
  BY <1>1 DEF IsTail
<1>3. Has(q, N) <=> q[1] \in N \/ Has(p, N)
  BY <1>1, <1>2 DEF Has
<1>4. CASE Has(p, N)
  <2>1. ~(q[1] \in N /\ \A j \in 2..n : q[j] \notin N)
    <3>1. PICK i \in 1..(n - 1) : p[i] \in N
      BY <1>2, <1>4 DEF Has
    <3>2. i + 1 \in 2..n /\ q[i + 1] \in N
      BY <1>2, <3>1
    <3> QED
      BY <3>2
  <2>2. ASSUME NEW x PROVE x \in LastIn(q, N) <=> x \in LastIn(p, N)
    <3>1. ASSUME x \in LastIn(q, N) PROVE x \in LastIn(p, N)
      <4>1. PICK i \in 1..n : /\ x = q[i] /\ q[i] \in N
                              /\ \A j \in (i + 1)..n : q[j] \notin N
        BY <1>1, <3>1 DEF LastIn
      <4>2. i \in 2..n
        BY <1>2, <2>1, <4>1
      <4>3. PICK k \in 1..(n - 1) : k = i - 1
        BY <1>2, <4>2
      <4>4. ASSUME NEW j \in (k + 1)..(n - 1) PROVE p[j] \notin N
        <5>1. j + 1 \in (i + 1)..n /\ p[j] = q[j + 1]
          BY <1>2, <4>2, <4>3
        <5> QED
          BY <4>1, <5>1
      <4>5. x = p[k] /\ p[k] \in N
        BY <1>2, <4>1, <4>2, <4>3
      <4> QED
        BY <1>2, <4>4, <4>5 DEF LastIn
    <3>2. ASSUME x \in LastIn(p, N) PROVE x \in LastIn(q, N)
      <4>1. PICK i \in 1..(n - 1) : /\ x = p[i] /\ p[i] \in N
                                    /\ \A j \in (i + 1)..(n - 1) : p[j] \notin N
        BY <1>2, <3>2 DEF LastIn
      <4>2. PICK k \in 1..n : k = i + 1
        BY <1>2, <4>1
      <4>3. ASSUME NEW j \in (k + 1)..n PROVE q[j] \notin N
        <5>1. j - 1 \in (i + 1)..(n - 1) /\ q[j] = p[j - 1]
          BY <1>2, <4>1, <4>2
        <5> QED
          BY <4>1, <5>1
      <4>4. x = q[k] /\ q[k] \in N
        BY <1>2, <4>1, <4>2
      <4> QED
        BY <1>1, <4>3, <4>4 DEF LastIn
    <3> QED
      BY <3>1, <3>2
  <2> QED
    BY <1>1, <1>2, <1>3, <1>4, <2>2
<1>5. CASE ~Has(p, N)
  <2>1. \A j \in 2..n : q[j] \notin N
    BY <1>2, <1>5 DEF Has
  <2>2. \A i \in 1..n :
          (q[i] \in N /\ \A j \in (i + 1)..n : q[j] \notin N) <=> i = 1 /\ q[1] \in N
    BY <1>2, <2>1
  <2>3. LastIn(q, N) = {q[1]} \cap N
    BY <1>1, <1>2, <2>2 DEF LastIn
  <2> QED
    BY <1>1, <1>2, <1>3, <1>5, <2>3
<1> QED
  BY <1>4, <1>5
-----------------------------------------------------------------------------
(* Type correctness *)

Snaps == [datafeed : 0..MaxFeed, atis : [Stations -> Report]]
Views == [datafeed : 0..MaxFeed, atisByIcao : [Stations -> Report]]
TabMessages == Messages \cup {SnapshotMsg(sn) : sn \in Snaps}

\* TypeOK says what the capacities are about; the messages themselves are needed
\* to see that a tab stays well-typed when it merges them.
TabTypeInv ==
  /\ link \in [Clients -> {"down", "accepted", "registered", "open"}]
  /\ snap \in [Clients -> Snaps]
  /\ inbox \in [Clients -> Seq(TabMessages)]
  /\ \A c \in Clients : Len(inbox[c]) <= SendCap
  /\ view \in [Clients -> Views]
  /\ connects \in [Clients -> 0..MaxConnects]
  /\ raced \in [Clients -> SUBSET {"datafeed", "atis"}]

LiveTypeInv == PollerTypeInv /\ TabTypeInv

LEMMA MessageKinds ==
  ASSUME NEW m \in TabMessages
  PROVE  \/ m.type = "datafeed" /\ m.version \in 0..MaxFeed
         \/ m.type = "atis" /\ m.reports \in Changes
         \/ m.type = "snapshot" /\ m.snapshot \in Snaps
  BY DEF TabMessages, Messages, DatafeedMsg, AtisMsg, SnapshotMsg

LEMMA BroadcastKinds ==
  ASSUME NEW m \in Messages
  PROVE  /\ m.type \in {"datafeed", "atis"} /\ m \in TabMessages
         /\ m.type = "datafeed" => m.version \in 0..MaxFeed
         /\ m.type = "atis" => m.reports \in Changes
  BY DEF TabMessages, Messages, DatafeedMsg, AtisMsg

\* The messages that say something of station s, and what they say.
Naming(s) == {m \in TabMessages : \/ m.type = "snapshot"
                                  \/ m.type = "atis" /\ s \in DOMAIN m.reports}
LetterIn(m, s) == IF m.type = "snapshot" THEN m.snapshot.atis[s] ELSE m.reports[s]

\* The messages that bring a datafeed, and which.
Projecting == {m \in TabMessages : \/ m.type = "datafeed"
                                   \/ m.type = "snapshot" /\ m.snapshot.datafeed # 0}
VersionIn(m) == IF m.type = "snapshot" THEN m.snapshot.datafeed ELSE m.version

\* What onMessage makes of each.
LEMMA MergedIs ==
  ASSUME NEW v \in Views, NEW m \in TabMessages
  PROVE  /\ Merged(v, m) \in Views
         /\ \A s \in Stations : Merged(v, m).atisByIcao[s] =
              IF m \in Naming(s) THEN LetterIn(m, s) ELSE v.atisByIcao[s]
         /\ Merged(v, m).datafeed =
              IF m \in Projecting THEN VersionIn(m) ELSE v.datafeed
<1>1. CASE m.type = "snapshot" /\ m.snapshot \in Snaps
  <2>1. Merged(v, m) = [datafeed   |-> IF m.snapshot.datafeed = 0 THEN v.datafeed
                                       ELSE m.snapshot.datafeed,
                        atisByIcao |-> m.snapshot.atis]
    BY <1>1 DEF Merged
  <2> QED
    BY <1>1, <2>1 DEF Naming, LetterIn, Projecting, VersionIn, Views, Snaps
<1>2. CASE m.type = "datafeed" /\ m.version \in 0..MaxFeed
  <2>1. Merged(v, m) = [v EXCEPT !.datafeed = m.version]
    BY <1>2 DEF Merged
  <2> QED
    BY <1>2, <2>1 DEF Naming, Projecting, VersionIn, Views
<1>3. CASE m.type = "atis" /\ m.reports \in Changes
  <2>1. Merged(v, m) =
          [v EXCEPT !.atisByIcao = [s \in Stations |->
             IF s \in DOMAIN m.reports THEN m.reports[s] ELSE v.atisByIcao[s]]]
    BY <1>3 DEF Merged
  <2>2. \A s \in DOMAIN m.reports : m.reports[s] \in Report
    BY <1>3, ChangeType DEF Report
  <2>3. [s \in Stations |-> IF s \in DOMAIN m.reports THEN m.reports[s]
                            ELSE v.atisByIcao[s]] \in [Stations -> Report]
    BY <2>2 DEF Views
  <2> QED
    BY <1>3, <2>1, <2>3 DEF Naming, LetterIn, Projecting, Views
<1> QED
  BY <1>1, <1>2, <1>3, MessageKinds

LEMMA LiveTypeInit == Init => LiveTypeInv
<1> SUFFICES ASSUME Init PROVE LiveTypeInv
  OBVIOUS
<1>1. PollerTypeInv
  BY PollerTypeInit DEF Init
<1>2. 0 \in 0..MaxFeed /\ 0 \in 0..MaxConnects /\ 0 <= SendCap
  BY PollerAssumption, LiveAssumption
<1>3. << >> \in Seq(TabMessages) /\ Len(<< >>) = 0
  OBVIOUS
<1>4. NoSnap \in Snaps /\ [datafeed |-> 0, atisByIcao |-> NoneOnline] \in Views
  BY <1>2, NoneOnlineType DEF NoSnap, Snaps, Views
<1> QED
  BY <1>1, <1>2, <1>3, <1>4 DEF Init, LiveTypeInv, TabTypeInv

LEMMA NoSnapType == NoSnap \in Snaps
<1>1. 0 \in 0..MaxFeed
  BY PollerAssumption
<1> QED
  BY <1>1, NoneOnlineType DEF NoSnap, Snaps

LEMMA TabTypeStep ==
  ASSUME LiveTypeInv, [Next]_vars PROVE TabTypeInv'
<1> USE DEF LiveTypeInv, TabTypeInv
<1>1. CASE PollerStep
  BY <1>1 DEF PollerStep, clientVars
<1>2. ASSUME NEW c \in Clients, HandleWS(c) PROVE TabTypeInv'
  <2>1. [datafeed |-> df, atis |-> reports] \in Snaps
    BY DEF PollerTypeInv, PollerTypeOK, Snaps
  <2>2. connects[c] + 1 \in 0..MaxConnects
    BY <1>2, LiveAssumption DEF HandleWS
  <2> QED
    BY <1>2, <2>1, <2>2 DEF HandleWS
<1>3. ASSUME NEW c \in Clients, Register(c) PROVE TabTypeInv'
  BY <1>3 DEF Register
<1>4. ASSUME NEW c \in Clients, SendInitial(c) PROVE TabTypeInv'
  <2>1. SnapshotMsg(snap[c]) \in TabMessages
    BY DEF TabMessages
  <2>2. PICK q : q = Append(inbox[c], SnapshotMsg(snap[c]))
    OBVIOUS
  <2>3. q \in Seq(TabMessages) /\ Len(q) <= SendCap
    BY <1>4, <2>1, <2>2, LiveAssumption DEF SendInitial
  <2>4. inbox' = [inbox EXCEPT ![c] = q]
    BY <1>4, <2>2 DEF SendInitial
  <2>5. /\ inbox' \in [Clients -> Seq(TabMessages)]
        /\ \A d \in Clients : Len(inbox'[d]) <= SendCap
    BY <2>3, <2>4
  <2> QED
    BY <1>4, <2>5, NoSnapType DEF SendInitial
<1>5. ASSUME NEW c \in Clients, Disconnect(c) PROVE TabTypeInv'
  <2>1. /\ inbox' \in [Clients -> Seq(TabMessages)]
        /\ \A d \in Clients : Len(inbox'[d]) <= SendCap
    BY <1>5, LiveAssumption DEF Disconnect
  <2> QED
    BY <1>5, <2>1, NoSnapType DEF Disconnect
<1>6. ASSUME NEW c \in Clients, Receive(c) PROVE TabTypeInv'
  <2>1. PICK q : q = Tail(inbox[c])
    OBVIOUS
  <2>2. /\ q \in Seq(TabMessages) /\ Len(q) <= SendCap
        /\ Head(inbox[c]) \in TabMessages
    BY <1>6, <2>1, LiveAssumption DEF Receive
  <2>3. inbox' = [inbox EXCEPT ![c] = q]
    BY <1>6, <2>1 DEF Receive
  <2>4. /\ inbox' \in [Clients -> Seq(TabMessages)]
        /\ \A d \in Clients : Len(inbox'[d]) <= SendCap
    BY <2>2, <2>3
  <2>5. Merged(view[c], Head(inbox[c])) \in Views
    BY <2>2, MergedIs
  <2> QED
    BY <1>6, <2>4, <2>5 DEF Receive
<1>7. CASE FanOut
  <2>1. PICK m : m = Head(bcast)
    OBVIOUS
  <2>2. m \in TabMessages /\ m.type \in {"datafeed", "atis"}
    BY <1>7, <2>1, BroadcastKinds
       DEF FanOut, HubTakes, PollerTypeInv, PollerTypeOK
  <2>3. ASSUME NEW c \in Clients
        PROVE  inbox'[c] \in Seq(TabMessages) /\ Len(inbox'[c]) <= SendCap
    <3>1. \/ inbox'[c] = inbox[c] \/ inbox'[c] = << >>
          \/ ~Full(c) /\ inbox'[c] = Append(inbox[c], m)
      BY <1>7, <2>1 DEF FanOut
    <3>2. CASE ~Full(c) /\ inbox'[c] = Append(inbox[c], m)
      <4>1. PICK q \in Seq(TabMessages) : q = inbox[c]
        OBVIOUS
      <4>2. Len(q) <= SendCap /\ Len(q) # SendCap
        BY <3>2, <4>1 DEF Full
      <4>3. PICK p : p = Append(q, m)
        OBVIOUS
      <4>4. p \in Seq(TabMessages) /\ Len(p) <= SendCap
        BY <2>2, <4>1, <4>2, <4>3, LiveAssumption
      <4> QED
        BY <3>2, <4>1, <4>3, <4>4
    <3>3. CASE inbox'[c] = inbox[c]
      BY <3>3
    <3>4. CASE inbox'[c] = << >>
      <4>1. << >> \in Seq(TabMessages) /\ Len(<< >>) <= SendCap
        BY LiveAssumption
      <4> QED
        BY ONLY <3>4, <4>1, Zenon
    <3> QED
      BY <3>1, <3>2, <3>3, <3>4, Zenon
  <2>4. inbox' \in [Clients -> Seq(TabMessages)]
    <3>1. inbox' = [c \in Clients |-> inbox'[c]]
      BY <1>7 DEF FanOut
    <3> QED
      BY <2>3, <3>1
  <2>5. raced' \in [Clients -> SUBSET {"datafeed", "atis"}]
    BY <1>7, <2>1, <2>2 DEF FanOut
  <2> QED
    BY <1>7, <2>3, <2>4, <2>5, NoSnapType DEF FanOut
<1>8. CASE ServerRestarts
  <2>1. << >> \in Seq(TabMessages) /\ Len(<< >>) <= SendCap
    BY LiveAssumption
  <2> QED
    BY <1>8, <2>1, NoSnapType DEF ServerRestarts
<1>9. CASE UNCHANGED vars
  BY <1>9 DEF vars, clientVars
<1> QED
  BY <1>1, <1>2, <1>3, <1>4, <1>5, <1>6, <1>7, <1>8, <1>9, NextCases

LEMMA LiveTypeStep == ASSUME LiveTypeInv, [Next]_vars PROVE LiveTypeInv'
<1>1. PollerTypeInv'
  BY PollerNextStep, PollerTypeStep DEF LiveTypeInv
<1> QED
  BY <1>1, TabTypeStep DEF LiveTypeInv

\* Through reconnects, evictions and restarts every queue keeps within its
\* capacity, and a tab shows only versions and letters that can occur, whatever
\* mixture of messages it merges (hub.go, ws.go, liveData.ts).
THEOREM TypeCorrect == Spec => []TypeOK
<1>1. LiveTypeInv /\ [Next]_vars => LiveTypeInv'
  BY LiveTypeStep
<1>2. LiveTypeInv => TypeOK
  BY DEF LiveTypeInv, PollerTypeInv, TabTypeInv, TypeOK, Snaps, Views
<1> QED
  BY LiveTypeInit, <1>1, <1>2, PTL DEF Spec
-----------------------------------------------------------------------------
(***************************************************************************)
(* What is still to come.  A letter that a tab shows of s settles when it  *)
(* is the remembered one or will be replaced: by a message in the channel, *)
(* by the changes being collected, or by a comparison that finds it new.   *)
(***************************************************************************)
LetterSettles(s, x) ==
  \/ Has(bcast, Naming(s))
  \/ s \in DOMAIN changed
  \/ x \in {Offline, lastLetter[s]}
  \/ s \in todo /\ x = reports[s]

VersionSettles(v) ==
  Has(bcast, Projecting) \/ poll = "sendDatafeed" \/ df \in {0, v}

\* The collected changes are of this tick and are the remembered letters,
ChangesInv ==
  /\ poll # "compare" => DOMAIN changed = {}
  /\ \A s \in DOMAIN changed : s \notin todo /\ changed[s] = lastLetter[s]

\* and the last message in the channel that says something of a station says the
\* remembered letter, unless another one follows.
BusLetters ==
  \A s \in Stations : \A m \in LastIn(bcast, Naming(s)) :
    LetterIn(m, s) = lastLetter[s] \/ s \in DOMAIN changed
BusVersions ==
  \A m \in LastIn(bcast, Projecting) : VersionIn(m) = df \/ poll = "sendDatafeed"

BusInv == ChangesInv /\ BusLetters /\ BusVersions

LEMMA BusInit == Init => BusInv
  BY EmptyHasNone, NoChangesType
     DEF Init, PollerInit, BusInv, ChangesInv, BusLetters, BusVersions

\* What the two messages of a tick are about.
LEMMA SentMessages ==
  ASSUME PollerTypeInv
  PROVE  /\ DatafeedMsg(df) \in Messages /\ DatafeedMsg(df) \in Projecting
         /\ VersionIn(DatafeedMsg(df)) = df
         /\ AtisMsg(changed) \in Messages /\ AtisMsg(changed) \notin Projecting
         /\ \A s \in Stations :
              /\ DatafeedMsg(df) \notin Naming(s)
              /\ AtisMsg(changed) \in Naming(s) <=> s \in DOMAIN changed
              /\ LetterIn(AtisMsg(changed), s) = changed[s]
<1>1. DatafeedMsg(df) \in Messages /\ AtisMsg(changed) \in Messages
  BY DEF PollerTypeInv, PollerTypeOK, Messages
<1>2. DatafeedMsg(df) \in TabMessages /\ AtisMsg(changed) \in TabMessages
  BY <1>1 DEF TabMessages
<1> QED
  BY <1>1, <1>2
     DEF DatafeedMsg, AtisMsg, Projecting, Naming, VersionIn, LetterIn

LEMMA SentIs ==
  ASSUME bcast \in Seq(Messages), NEW m \in Messages, bcast' = Append(bcast, m)
  PROVE  IsAppend(bcast', bcast, m)
  BY AppendIs

LEMMA ChangesStep ==
  ASSUME PollerTypeInv, ChangesInv, [PollerNext]_pollerVars PROVE ChangesInv'
<1> USE DEF ChangesInv
<1>1. CASE UpstreamPublishes \/ BroadcastDatafeed \/ HubTakes \/ NothingChanged
           \/ Persist \/ FetchAndProject \/ UNCHANGED pollerVars
  BY <1>1, NoChangesType
     DEF UpstreamPublishes, BroadcastDatafeed, HubTakes, NothingChanged, Persist,
         FetchAndProject, pollerVars, tickVars, storeVars
<1>2. CASE SetAtis \/ BroadcastAtis \/ Restart
  BY <1>2, NoChangesType DEF SetAtis, BroadcastAtis, Restart
<1>3. ASSUME NEW s \in Stations, SameLetter(s) PROVE ChangesInv'
  BY <1>3 DEF SameLetter, AtStation, storeVars
<1>4. ASSUME NEW s \in Stations, NewLetter(s) PROVE ChangesInv'
  BY <1>4, ChangeType DEF NewLetter, AtStation, PollerTypeInv, PollerTypeOK
<1> QED
  BY <1>1, <1>2, <1>3, <1>4, PollerNextCases

LEMMA BusStep ==
  ASSUME PollerTypeInv, BusInv, [PollerNext]_pollerVars
  PROVE  BusLetters' /\ BusVersions'
<1> USE DEF BusInv, ChangesInv, BusLetters, BusVersions
<1>0. bcast \in Seq(Messages)
  BY DEF PollerTypeInv, PollerTypeOK
<1>1. CASE \/ UpstreamPublishes \/ NothingChanged \/ Persist
           \/ UNCHANGED pollerVars
  BY <1>1 DEF UpstreamPublishes, NothingChanged, LoopEnded, Persist, pollerVars,
              tickVars, storeVars
<1>2. CASE FetchAndProject
  BY <1>2 DEF FetchAndProject
<1>3. CASE BroadcastDatafeed
  <2>1. PICK m \in Messages : m = DatafeedMsg(df)
    BY SentMessages
  <2>2. bcast' = Append(bcast, m)
    BY <1>3, <2>1 DEF BroadcastDatafeed, Broadcast
  <2>3. \A N : /\ m \in N => LastIn(bcast', N) = {m}
               /\ m \notin N => LastIn(bcast', N) = LastIn(bcast, N)
    BY <1>0, <2>2, SentIs, HasAppend
  <2> HIDE DEF BusInv, ChangesInv
  <2>4. /\ m \in Projecting /\ VersionIn(m) = df
        /\ \A s \in Stations : m \notin Naming(s)
    BY <2>1, SentMessages
  <2>5. BusLetters'
    BY <1>3, <2>3, <2>4 DEF BroadcastDatafeed, storeVars, BusInv
  <2>6. BusVersions'
    BY <1>3, <2>3, <2>4 DEF BroadcastDatafeed, storeVars
  <2> QED
    BY <2>5, <2>6
<1>4. CASE SetAtis
  BY <1>4 DEF SetAtis
<1>5. ASSUME NEW s \in Stations, SameLetter(s) PROVE BusLetters' /\ BusVersions'
  BY <1>5 DEF SameLetter, AtStation, storeVars
<1>6. ASSUME NEW s \in Stations, NewLetter(s) PROVE BusLetters' /\ BusVersions'
  <2>1. /\ DOMAIN changed' = DOMAIN changed \cup {s}
        /\ \A t \in Stations \ {s} : lastLetter'[t] = lastLetter[t]
        /\ UNCHANGED <<bcast, df, poll>>
    BY <1>6 DEF NewLetter, AtStation, PollerTypeInv, PollerTypeOK
  <2> QED
    BY <2>1
<1>7. CASE BroadcastAtis
  <2>1. PICK m \in Messages : m = AtisMsg(changed)
    BY SentMessages
  <2>2. /\ bcast' = Append(bcast, m) /\ poll = "compare"
        /\ UNCHANGED <<lastLetter, df>>
    BY <1>7, <2>1 DEF BroadcastAtis, LoopEnded, Broadcast, storeVars
  <2>3. \A N : /\ m \in N => LastIn(bcast', N) = {m}
               /\ m \notin N => LastIn(bcast', N) = LastIn(bcast, N)
    BY <1>0, <2>2, SentIs, HasAppend
  <2>4. /\ m \notin Projecting
        /\ \A s \in Stations : /\ m \in Naming(s) <=> s \in DOMAIN changed
                               /\ LetterIn(m, s) = changed[s]
    BY <2>1, SentMessages
  <2>5. BusLetters'
    BY <2>2, <2>3, <2>4
  <2>6. BusVersions'
    BY <2>2, <2>3, <2>4
  <2> QED
    BY <2>5, <2>6
<1>8. CASE Restart
  BY <1>8, EmptyHasNone DEF Restart
<1>9. CASE HubTakes
  <2>1. bcast # << >> /\ bcast' = Tail(bcast)
    BY <1>9 DEF HubTakes
  <2>2. ASSUME NEW N PROVE LastIn(bcast', N) \subseteq LastIn(bcast, N)
    <3>1. CASE Has(bcast', N)
      <4>1. IsTail(bcast', bcast, Head(bcast))
        BY <1>0, <2>1, TailIs
      <4> QED
        BY <3>1, <4>1, HasTail
    <3>2. CASE ~Has(bcast', N)
      BY <3>2 DEF Has, LastIn
    <3> QED
      BY <3>1, <3>2
  <2> QED
    BY <1>9, <2>2 DEF HubTakes, tickVars, storeVars
<1> QED
  BY <1>1, <1>2, <1>3, <1>4, <1>5, <1>6, <1>7, <1>8, <1>9, PollerNextCases

\* While no message is taken, what settles goes on to.
LEMMA TickSettles ==
  ASSUME PollerTypeInv, Compared, ChangesInv, UpstreamPublishes \/ Tick
  PROVE  /\ \A s \in Stations, x \in Report :
              LetterSettles(s, x) => LetterSettles(s, x)'
         /\ \A v \in 0..MaxFeed : VersionSettles(v) => VersionSettles(v)'
<1> USE DEF LetterSettles, VersionSettles
<1> DEFINE Goal == /\ \A s \in Stations, x \in Report :
                        LetterSettles(s, x) => LetterSettles(s, x)'
                   /\ \A v \in 0..MaxFeed : VersionSettles(v) => VersionSettles(v)'
<1>0. bcast \in Seq(Messages)
  BY DEF PollerTypeInv, PollerTypeOK
<1>1. CASE UpstreamPublishes \/ NothingChanged \/ Persist
  BY <1>1 DEF UpstreamPublishes, NothingChanged, LoopEnded, Persist, tickVars,
              storeVars
<1>2. CASE FetchAndProject
  BY <1>2 DEF FetchAndProject
<1>3. CASE BroadcastDatafeed
  <2>1. PICK m \in Messages : m = DatafeedMsg(df)
    BY SentMessages
  <2>2. IsAppend(bcast', bcast, m)
    BY <1>0, <1>3, <2>1, SentIs DEF BroadcastDatafeed, Broadcast
  <2>3. \A N : Has(bcast', N) <=> m \in N \/ Has(bcast, N)
    BY <2>2, HasAppend
  <2>4. Has(bcast', Projecting)
    BY <2>1, <2>3, SentMessages
  <2> QED
    BY <1>3, <2>3, <2>4 DEF BroadcastDatafeed, storeVars
<1>4. CASE SetAtis
  BY <1>4 DEF SetAtis, Compared, ChangesInv
<1>5. ASSUME NEW s \in Stations, SameLetter(s) PROVE Goal
  BY <1>5 DEF SameLetter, AtStation, storeVars
<1>6. ASSUME NEW s \in Stations, NewLetter(s) PROVE Goal
  <2>1. /\ DOMAIN changed' = DOMAIN changed \cup {s} /\ todo' = todo \ {s}
        /\ \A t \in Stations \ {s} : lastLetter'[t] = lastLetter[t]
        /\ UNCHANGED <<bcast, df, poll, reports>>
    BY <1>6 DEF NewLetter, AtStation, PollerTypeInv, PollerTypeOK
  <2> QED
    BY <2>1
<1>7. CASE BroadcastAtis
  <2>1. PICK m \in Messages : m = AtisMsg(changed)
    BY SentMessages
  <2>2. /\ poll = "compare" /\ todo = {} /\ IsAppend(bcast', bcast, m)
        /\ UNCHANGED <<lastLetter, df, reports>>
    BY <1>0, <1>7, <2>1, SentIs DEF BroadcastAtis, LoopEnded, Broadcast, storeVars
  <2>3. \A N : Has(bcast', N) <=> m \in N \/ Has(bcast, N)
    BY <2>2, HasAppend
  <2>4. \A s \in DOMAIN changed : s \in Stations => Has(bcast', Naming(s))
    BY <2>1, <2>3, SentMessages
  <2> QED
    BY <2>2, <2>3, <2>4
<1> QED
  BY <1>1, <1>2, <1>3, <1>4, <1>5, <1>6, <1>7 DEF Tick

\* Once message m is taken, what it says settles, and so does anything of which it
\* says nothing.
LEMMA TakenSettles ==
  ASSUME PollerTypeInv, BusInv, HubTakes, NEW m, m = Head(bcast)
  PROVE  /\ m \in Messages
         /\ \A s \in Stations :
              /\ m \in Naming(s) => LetterSettles(s, LetterIn(m, s))'
              /\ m \notin Naming(s) =>
                   \A x \in Report : LetterSettles(s, x) => LetterSettles(s, x)'
         /\ m \in Projecting => VersionSettles(VersionIn(m))'
         /\ m \notin Projecting =>
              \A v \in 0..MaxFeed : VersionSettles(v) => VersionSettles(v)'
<1>1. /\ bcast \in Seq(Messages) /\ bcast # << >> /\ bcast' = Tail(bcast)
      /\ UNCHANGED <<poll, changed, todo, df, reports, lastLetter>>
  BY DEF PollerTypeInv, PollerTypeOK, HubTakes, tickVars, storeVars
<1>2. /\ m \in Messages
      /\ \A N : /\ Has(bcast, N) <=> m \in N \/ Has(bcast', N)
                /\ ~Has(bcast', N) /\ m \in N => LastIn(bcast, N) = {m}
  <2>1. m \in Messages /\ IsTail(bcast', bcast, m)
    BY <1>1, TailIs
  <2> QED
    BY <2>1, HasTail
<1>3. ASSUME NEW s \in Stations
      PROVE  /\ m \in Naming(s) => LetterSettles(s, LetterIn(m, s))'
             /\ m \notin Naming(s) =>
                  \A x \in Report : LetterSettles(s, x) => LetterSettles(s, x)'
  <2>1. CASE Has(bcast', Naming(s))
    BY <2>1 DEF LetterSettles
  <2>2. CASE ~Has(bcast', Naming(s)) /\ m \in Naming(s)
    <3>1. LetterIn(m, s) = lastLetter[s] \/ s \in DOMAIN changed
      BY <1>2, <2>2 DEF BusInv, BusLetters
    <3> QED
      BY <1>1, <2>2, <3>1 DEF LetterSettles
  <2>3. CASE ~Has(bcast', Naming(s)) /\ m \notin Naming(s)
    BY <1>1, <1>2, <2>3 DEF LetterSettles
  <2> QED
    BY <2>1, <2>2, <2>3
<1>4. /\ m \in Projecting => VersionSettles(VersionIn(m))'
      /\ m \notin Projecting =>
           \A v \in 0..MaxFeed : VersionSettles(v) => VersionSettles(v)'
  <2>1. CASE Has(bcast', Projecting)
    BY <2>1 DEF VersionSettles
  <2>2. CASE ~Has(bcast', Projecting) /\ m \in Projecting
    <3>1. VersionIn(m) = df \/ poll = "sendDatafeed"
      BY <1>2, <2>2 DEF BusInv, BusVersions
    <3> QED
      BY <1>1, <2>2, <3>1 DEF VersionSettles
  <2>3. CASE ~Has(bcast', Projecting) /\ m \notin Projecting
    BY <1>1, <1>2, <2>3 DEF VersionSettles
  <2> QED
    BY <2>1, <2>2, <2>3
<1> QED
  BY <1>2, <1>3, <1>4
-----------------------------------------------------------------------------
(* Tabs *)

\* What tab c shows once it has received what is queued for it.
LettersAfter(c, s) ==
  IF Has(inbox[c], Naming(s))
    THEN {LetterIn(m, s) : m \in LastIn(inbox[c], Naming(s))}
    ELSE {view[c].atisByIcao[s]}

VersionsAfter(c) ==
  IF Has(inbox[c], Projecting)
    THEN {VersionIn(m) : m \in LastIn(inbox[c], Projecting)}
    ELSE {view[c].datafeed}

\* Of a connection that was not raced: until its snapshot is queued, what that
\* holds settles,
SnapInv(c) ==
  link[c] \in {"accepted", "registered"} =>
    /\ "atis" \notin raced[c] =>
         \A s \in Stations : LetterSettles(s, snap[c].atis[s])
    /\ "datafeed" \notin raced[c] => VersionSettles(snap[c].datafeed)

\* and from then on what the tab will show does.
OpenInv(c) ==
  link[c] = "open" =>
    /\ "atis" \notin raced[c] =>
         \A s \in Stations : \A x \in LettersAfter(c, s) : LetterSettles(s, x)
    /\ "datafeed" \notin raced[c] => \A v \in VersionsAfter(c) : VersionSettles(v)

TabInv == \A c \in Clients : SnapInv(c) /\ OpenInv(c)

LEMMA AfterType ==
  ASSUME TabTypeInv, NEW c \in Clients
  PROVE  /\ \A s \in Stations : LettersAfter(c, s) \subseteq Report
         /\ VersionsAfter(c) \subseteq 0..MaxFeed
<1>0. inbox[c] \in Seq(TabMessages) /\ view[c] \in Views
  BY DEF TabTypeInv
<1>1. ASSUME NEW m \in TabMessages, NEW s \in Stations, m \in Naming(s)
      PROVE  LetterIn(m, s) \in Report
  BY <1>1, MessageKinds, ChangeType DEF Naming, LetterIn, Snaps, Report
<1>2. ASSUME NEW m \in TabMessages, m \in Projecting
      PROVE  VersionIn(m) \in 0..MaxFeed
  BY <1>2, MessageKinds DEF Projecting, VersionIn, Snaps
<1>3. \A N : LastIn(inbox[c], N) \subseteq TabMessages \cap N
  BY <1>0, LastInType
<1> QED
  BY <1>0, <1>1, <1>2, <1>3 DEF LettersAfter, VersionsAfter, Views

\* Appending a message to what is queued for c.
LEMMA AfterAppend ==
  ASSUME NEW c \in Clients, NEW m, IsAppend(inbox'[c], inbox[c], m), view'[c] = view[c]
  PROVE  /\ \A s \in Stations : LettersAfter(c, s)' =
              IF m \in Naming(s) THEN {LetterIn(m, s)} ELSE LettersAfter(c, s)
         /\ VersionsAfter(c)' =
              IF m \in Projecting THEN {VersionIn(m)} ELSE VersionsAfter(c)
<1>1. \A N : /\ Has(inbox'[c], N) <=> m \in N \/ Has(inbox[c], N)
             /\ m \in N => LastIn(inbox'[c], N) = {m}
             /\ m \notin N => LastIn(inbox'[c], N) = LastIn(inbox[c], N)
  BY HasAppend
<1>2. ASSUME NEW s \in Stations
      PROVE  LettersAfter(c, s)' =
               IF m \in Naming(s) THEN {LetterIn(m, s)} ELSE LettersAfter(c, s)
  BY <1>1 DEF LettersAfter
<1>3. VersionsAfter(c)' =
        IF m \in Projecting THEN {VersionIn(m)} ELSE VersionsAfter(c)
  BY <1>1 DEF VersionsAfter
<1> QED
  BY <1>2, <1>3

\* A step that changes nothing of tab c keeps its part of the invariant as long as
\* what settles goes on to.
LEMMA TabUntouched ==
  ASSUME TabTypeInv, NEW c \in Clients, SnapInv(c), OpenInv(c),
         link'[c] = link[c], snap'[c] = snap[c], raced'[c] = raced[c],
         inbox'[c] = inbox[c], view'[c] = view[c],
         \A s \in Stations, x \in Report : LetterSettles(s, x) => LetterSettles(s, x)',
         \A v \in 0..MaxFeed : VersionSettles(v) => VersionSettles(v)'
  PROVE  SnapInv(c)' /\ OpenInv(c)'
<1>1. SnapInv(c)'
  <2>1. PICK sn \in Snaps : sn = snap[c] /\ sn = snap'[c]
    BY DEF TabTypeInv
  <2>2. sn.datafeed \in 0..MaxFeed /\ \A s \in Stations : sn.atis[s] \in Report
    BY DEF Snaps
  <2> QED
    BY <2>1, <2>2 DEF SnapInv
<1>2. OpenInv(c)'
  <2>1. /\ \A s \in Stations : LettersAfter(c, s)' = LettersAfter(c, s)
        /\ VersionsAfter(c)' = VersionsAfter(c)
    BY DEF LettersAfter, VersionsAfter
  <2> QED
    BY <2>1, AfterType DEF OpenInv
<1> QED
  BY <1>1, <1>2

\* The same when the poller does not move either.
LEMMA SettledStays ==
  ASSUME UNCHANGED pollerVars
  PROVE  /\ \A s, x : LetterSettles(s, x)' <=> LetterSettles(s, x)
         /\ \A v : VersionSettles(v)' <=> VersionSettles(v)
  BY DEF pollerVars, tickVars, storeVars, LetterSettles, VersionSettles

LEMMA OtherTabs ==
  ASSUME TabTypeInv, TabInv, UNCHANGED pollerVars, NEW c \in Clients,
         SnapInv(c)' /\ OpenInv(c)',
         \A d \in Clients \ {c} :
           /\ link'[d] = link[d] /\ snap'[d] = snap[d] /\ raced'[d] = raced[d]
           /\ inbox'[d] = inbox[d] /\ view'[d] = view[d]
  PROVE  TabInv'
<1>1. ASSUME NEW d \in Clients \ {c} PROVE SnapInv(d)' /\ OpenInv(d)'
  BY <1>1, SettledStays, TabUntouched DEF TabInv
<1> QED
  BY <1>1 DEF TabInv

\* The store settles: handleWS may take its snapshot at any moment of a tick.
LEMMA StoreSettles ==
  ASSUME PollerTypeInv, Compared
  PROVE  /\ \A s \in Stations : LetterSettles(s, reports[s])
         /\ VersionSettles(df)
<1>1. ASSUME NEW s \in Stations PROVE LetterSettles(s, reports[s])
  <2>1. CASE s \in Online(reports) \ todo
    BY <2>1 DEF Compared, LetterSettles
  <2>2. CASE s \in todo
    BY <2>2 DEF LetterSettles
  <2>3. CASE s \notin Online(reports)
    BY <2>3 DEF Online, LetterSettles
  <2> QED
    BY <2>1, <2>2, <2>3
<1> QED
  BY <1>1 DEF VersionSettles

LEMMA HandleWSTab ==
  ASSUME LiveTypeInv, Compared, TabInv, NEW c \in Clients, HandleWS(c) PROVE TabInv'
<1>0. TabTypeInv /\ PollerTypeInv
  BY DEF LiveTypeInv
<1>1. UNCHANGED pollerVars
  BY DEF HandleWS
<1>2. /\ link'[c] = "accepted" /\ snap'[c].datafeed = df
      /\ \A s \in Stations : snap'[c].atis[s] = reports[s]
  BY <1>0 DEF HandleWS, TabTypeInv
<1>3. SnapInv(c)' /\ OpenInv(c)'
  BY <1>0, <1>1, <1>2, StoreSettles, SettledStays DEF SnapInv, OpenInv
<1>4. \A d \in Clients \ {c} :
        /\ link'[d] = link[d] /\ snap'[d] = snap[d] /\ raced'[d] = raced[d]
        /\ inbox'[d] = inbox[d] /\ view'[d] = view[d]
  BY <1>0 DEF HandleWS, TabTypeInv
<1> QED
  BY <1>0, <1>1, <1>3, <1>4, OtherTabs

LEMMA RegisterTab ==
  ASSUME LiveTypeInv, TabInv, NEW c \in Clients, Register(c) PROVE TabInv'
<1>0. TabTypeInv
  BY DEF LiveTypeInv
<1>1. UNCHANGED <<pollerVars, snap, inbox, view, raced>>
  BY DEF Register
<1>2. /\ link[c] = "accepted" /\ link'[c] = "registered"
      /\ \A d \in Clients \ {c} : link'[d] = link[d]
  BY <1>0 DEF Register, TabTypeInv
<1>3. SnapInv(c)' /\ OpenInv(c)'
  BY <1>1, <1>2, SettledStays DEF TabInv, SnapInv, OpenInv
<1> QED
  BY <1>0, <1>1, <1>2, <1>3, OtherTabs

\* The snapshot says something of every station, and of the datafeed unless there
\* was none, in which case one is on its way or there is none still.
LEMMA SendInitialTab ==
  ASSUME LiveTypeInv, TabInv, NEW c \in Clients, SendInitial(c) PROVE TabInv'
<1>0. TabTypeInv
  BY DEF LiveTypeInv
<1>1. UNCHANGED <<pollerVars, view, raced>> /\ link[c] = "registered"
  BY DEF SendInitial
<1>2. /\ link'[c] = "open"
      /\ \A d \in Clients \ {c} : /\ link'[d] = link[d] /\ snap'[d] = snap[d]
                                  /\ inbox'[d] = inbox[d]
  BY <1>0 DEF SendInitial, TabTypeInv
<1>3. PICK m \in TabMessages : m = SnapshotMsg(snap[c])
  BY <1>0 DEF TabMessages, TabTypeInv
<1>4. IsAppend(inbox'[c], inbox[c], m)
  <2>1. inbox[c] \in Seq(TabMessages) /\ inbox'[c] = Append(inbox[c], m)
    BY <1>0, <1>3 DEF SendInitial, TabTypeInv
  <2> QED
    BY <2>1, AppendIs
<1>5. /\ \A s \in Stations : m \in Naming(s) /\ LetterIn(m, s) = snap[c].atis[s]
      /\ m \in Projecting <=> snap[c].datafeed # 0
      /\ VersionIn(m) = snap[c].datafeed
  BY <1>3 DEF SnapshotMsg, Naming, LetterIn, Projecting, VersionIn
<1>6. /\ \A s \in Stations : LettersAfter(c, s)' = {snap[c].atis[s]}
      /\ snap[c].datafeed # 0 => VersionsAfter(c)' = {snap[c].datafeed}
  BY <1>1, <1>4, <1>5, AfterAppend
<1>7. SnapInv(c)
  BY DEF TabInv
<1>8. OpenInv(c)'
  <2>1. ASSUME "atis" \notin raced[c], NEW s \in Stations, NEW x \in LettersAfter(c, s)'
        PROVE  LetterSettles(s, x)'
    <3>1. x = snap[c].atis[s] /\ LetterSettles(s, snap[c].atis[s])
      BY <1>1, <1>6, <1>7, <2>1 DEF SnapInv
    <3> QED
      BY <1>1, <3>1, SettledStays
  <2>2. ASSUME "datafeed" \notin raced[c], NEW v \in VersionsAfter(c)'
        PROVE  VersionSettles(v)'
    <3>1. VersionSettles(snap[c].datafeed)
      BY <1>1, <1>7, <2>2 DEF SnapInv
    <3>2. VersionSettles(v)
      BY <1>6, <2>2, <3>1 DEF VersionSettles
    <3> QED
      BY <1>1, <3>2, SettledStays
  <2> QED
    BY <1>1, <2>1, <2>2 DEF OpenInv
<1>9. SnapInv(c)'
  BY <1>2 DEF SnapInv
<1> QED
  BY <1>0, <1>1, <1>2, <1>8, <1>9, OtherTabs

LEMMA DisconnectTab ==
  ASSUME LiveTypeInv, TabInv, NEW c \in Clients, Disconnect(c) PROVE TabInv'
<1>0. TabTypeInv
  BY DEF LiveTypeInv
<1>1. UNCHANGED <<pollerVars, view>>
  BY DEF Disconnect
<1>2. /\ link'[c] = "down"
      /\ \A d \in Clients \ {c} :
           /\ link'[d] = link[d] /\ snap'[d] = snap[d] /\ raced'[d] = raced[d]
           /\ inbox'[d] = inbox[d]
  BY <1>0 DEF Disconnect, TabTypeInv
<1>3. SnapInv(c)' /\ OpenInv(c)'
  BY <1>2 DEF SnapInv, OpenInv
<1> QED
  BY <1>0, <1>1, <1>2, <1>3, OtherTabs

\* Merging the first message leaves what the tab will show as it was.
LEMMA AfterReceive ==
  ASSUME TabTypeInv, NEW c \in Clients, Receive(c)
  PROVE  /\ \A s \in Stations : LettersAfter(c, s)' = LettersAfter(c, s)
         /\ VersionsAfter(c)' = VersionsAfter(c)
<1>1. /\ inbox[c] \in Seq(TabMessages) /\ inbox[c] # << >>
      /\ inbox'[c] = Tail(inbox[c])
      /\ view'[c] = Merged(view[c], Head(inbox[c])) /\ view[c] \in Views
  BY DEF Receive, TabTypeInv
<1>2. PICK m \in TabMessages : m = Head(inbox[c]) /\ IsTail(inbox'[c], inbox[c], m)
  BY <1>1, TailIs
<1>3. \A N : /\ Has(inbox[c], N) <=> m \in N \/ Has(inbox'[c], N)
             /\ Has(inbox'[c], N) => LastIn(inbox[c], N) = LastIn(inbox'[c], N)
             /\ ~Has(inbox'[c], N) => LastIn(inbox[c], N) = {m} \cap N
  BY <1>2, HasTail
<1>4. /\ \A s \in Stations : view'[c].atisByIcao[s] =
           IF m \in Naming(s) THEN LetterIn(m, s) ELSE view[c].atisByIcao[s]
      /\ view'[c].datafeed =
           IF m \in Projecting THEN VersionIn(m) ELSE view[c].datafeed
  BY <1>1, <1>2, <1>3, MergedIs
<1>5. ASSUME NEW s \in Stations PROVE LettersAfter(c, s)' = LettersAfter(c, s)
  <2>1. CASE Has(inbox'[c], Naming(s))
    BY <1>3, <2>1 DEF LettersAfter
  <2>2. CASE ~Has(inbox'[c], Naming(s))
    <3>1. LettersAfter(c, s)' = {view'[c].atisByIcao[s]}
      BY <2>2 DEF LettersAfter
    <3>2. CASE m \in Naming(s)
      <4>1. LettersAfter(c, s) = {LetterIn(m, s)}
        BY <1>3, <2>2, <3>2 DEF LettersAfter
      <4> QED
        BY <1>4, <3>1, <3>2, <4>1
    <3>3. CASE m \notin Naming(s)
      <4>1. LettersAfter(c, s) = {view[c].atisByIcao[s]}
        BY <1>3, <2>2, <3>3 DEF LettersAfter
      <4> QED
        BY <1>4, <3>1, <3>3, <4>1
    <3> QED
      BY <3>2, <3>3
  <2> QED
    BY <2>1, <2>2
<1>6. VersionsAfter(c)' = VersionsAfter(c)
  <2>1. CASE Has(inbox'[c], Projecting)
    BY <1>3, <2>1 DEF VersionsAfter
  <2>2. CASE ~Has(inbox'[c], Projecting)
    <3>1. VersionsAfter(c)' = {view'[c].datafeed}
      BY <2>2 DEF VersionsAfter
    <3>2. CASE m \in Projecting
      <4>1. VersionsAfter(c) = {VersionIn(m)}
        BY <1>3, <2>2, <3>2 DEF VersionsAfter
      <4> QED
        BY <1>4, <3>1, <3>2, <4>1
    <3>3. CASE m \notin Projecting
      <4>1. VersionsAfter(c) = {view[c].datafeed}
        BY <1>3, <2>2, <3>3 DEF VersionsAfter
      <4> QED
        BY <1>4, <3>1, <3>3, <4>1
    <3> QED
      BY <3>2, <3>3
  <2> QED
    BY <2>1, <2>2
<1> QED
  BY <1>5, <1>6

LEMMA ReceiveTab ==
  ASSUME LiveTypeInv, TabInv, NEW c \in Clients, Receive(c) PROVE TabInv'
<1>0. TabTypeInv
  BY DEF LiveTypeInv
<1>1. UNCHANGED <<pollerVars, link, snap, raced>>
  BY DEF Receive
<1>2. \A d \in Clients \ {c} : inbox'[d] = inbox[d] /\ view'[d] = view[d]
  BY <1>0 DEF Receive, TabTypeInv
<1>3. SnapInv(c)'
  BY <1>1, SettledStays DEF TabInv, SnapInv
<1>4. OpenInv(c)'
  BY <1>0, <1>1, AfterReceive, SettledStays DEF TabInv, OpenInv
<1> QED
  BY <1>0, <1>1, <1>2, <1>3, <1>4, OtherTabs

\* What the hub does with message m for one tab.
LEMMA FanOutTab ==
  ASSUME LiveTypeInv, BusInv, TabInv, FanOut, NEW c \in Clients
  PROVE  SnapInv(c)' /\ OpenInv(c)'
<1>0. TabTypeInv /\ PollerTypeInv /\ HubTakes
  BY DEF LiveTypeInv, FanOut
<1>1. PICK m : m = Head(bcast)
  OBVIOUS
<1>2. /\ m \in Messages
      /\ \A s \in Stations :
           /\ m \in Naming(s) => LetterSettles(s, LetterIn(m, s))'
           /\ m \notin Naming(s) =>
                \A x \in Report : LetterSettles(s, x) => LetterSettles(s, x)'
      /\ m \in Projecting => VersionSettles(VersionIn(m))'
      /\ m \notin Projecting =>
           \A v \in 0..MaxFeed : VersionSettles(v) => VersionSettles(v)'
  BY <1>0, <1>1, TakenSettles
<1>3. /\ m.type # "atis" => \A s \in Stations : m \notin Naming(s)
      /\ m.type # "datafeed" => m \notin Projecting
  BY <1>2, BroadcastKinds DEF Naming, Projecting
<1>4. view' = view
  BY DEF FanOut
<1>5. CASE (InMap(c) /\ Full(c)) \/ link[c] = "down"
  <2>1. link'[c] = "down"
    BY <1>5 DEF FanOut
  <2> QED
    BY <2>1 DEF SnapInv, OpenInv
<1>6. CASE link[c] \in {"accepted", "registered"} /\ ~(InMap(c) /\ Full(c))
  <2>1. /\ link'[c] = link[c] /\ snap'[c] = snap[c]
        /\ raced'[c] = raced[c] \cup {m.type}
    BY <1>1, <1>6 DEF FanOut
  <2>2. PICK sn \in Snaps : sn = snap[c] /\ sn = snap'[c]
    BY <1>0, <2>1 DEF TabTypeInv
  <2>3. sn.datafeed \in 0..MaxFeed /\ \A s \in Stations : sn.atis[s] \in Report
    BY DEF Snaps
  <2>4. /\ "atis" \notin raced[c] => \A s \in Stations : LetterSettles(s, sn.atis[s])
        /\ "datafeed" \notin raced[c] => VersionSettles(sn.datafeed)
    BY <1>6, <2>2 DEF TabInv, SnapInv
  <2>5. "atis" \notin raced'[c] => \A s \in Stations : LetterSettles(s, sn.atis[s])'
    BY <1>2, <1>3, <2>1, <2>3, <2>4
  <2>6. "datafeed" \notin raced'[c] => VersionSettles(sn.datafeed)'
    BY <1>2, <1>3, <2>1, <2>3, <2>4
  <2>7. SnapInv(c)'
    BY <2>2, <2>5, <2>6 DEF SnapInv
  <2>8. OpenInv(c)'
    BY <1>6, <2>1 DEF OpenInv
  <2> QED
    BY <2>7, <2>8
<1>7. CASE link[c] = "open" /\ ~Full(c)
  <2>1. /\ link'[c] = "open" /\ raced'[c] = raced[c]
        /\ inbox'[c] = Append(inbox[c], m)
    BY <1>1, <1>7 DEF FanOut, InMap
  <2>2. IsAppend(inbox'[c], inbox[c], m)
    <3>1. inbox[c] \in Seq(TabMessages) /\ m \in TabMessages
      BY <1>0, <1>2, BroadcastKinds DEF TabTypeInv
    <3> QED
      BY <2>1, <3>1, AppendIs
  <2>3. /\ \A s \in Stations : LettersAfter(c, s)' =
             IF m \in Naming(s) THEN {LetterIn(m, s)} ELSE LettersAfter(c, s)
        /\ VersionsAfter(c)' =
             IF m \in Projecting THEN {VersionIn(m)} ELSE VersionsAfter(c)
    BY <1>4, <2>2, AfterAppend
  <2>4. /\ "atis" \notin raced[c] =>
             \A s \in Stations : \A x \in LettersAfter(c, s) : LetterSettles(s, x)
        /\ "datafeed" \notin raced[c] =>
             \A v \in VersionsAfter(c) : VersionSettles(v)
    BY <1>7 DEF TabInv, OpenInv
  <2>5. /\ \A s \in Stations : LettersAfter(c, s) \subseteq Report
        /\ VersionsAfter(c) \subseteq 0..MaxFeed
    BY <1>0, AfterType
  <2>6. ASSUME "atis" \notin raced[c], NEW s \in Stations, NEW x \in LettersAfter(c, s)'
        PROVE  LetterSettles(s, x)'
    <3>1. CASE m \in Naming(s)
      BY <1>2, <2>3, <3>1
    <3>2. CASE m \notin Naming(s)
      BY <1>2, <2>3, <2>4, <2>5, <2>6, <3>2
    <3> QED
      BY <3>1, <3>2
  <2>7. ASSUME "datafeed" \notin raced[c], NEW v \in VersionsAfter(c)'
        PROVE  VersionSettles(v)'
    <3>1. CASE m \in Projecting
      BY <1>2, <2>3, <3>1
    <3>2. CASE m \notin Projecting
      BY <1>2, <2>3, <2>4, <2>5, <2>7, <3>2
    <3> QED
      BY <3>1, <3>2
  <2>8. OpenInv(c)'
    BY <2>1, <2>6, <2>7 DEF OpenInv
  <2>9. SnapInv(c)'
    BY <2>1 DEF SnapInv
  <2> QED
    BY <2>8, <2>9
<1>8. link[c] \in {"down", "accepted", "registered", "open"}
  BY <1>0 DEF TabTypeInv
<1> QED
  BY <1>5, <1>6, <1>7, <1>8 DEF InMap

LEMMA TabStep ==
  ASSUME LiveTypeInv, Compared, BusInv, TabInv, [Next]_vars PROVE TabInv'
<1>1. CASE PollerStep
  <2>1. /\ UNCHANGED <<link, snap, raced, inbox, view>>
        /\ UpstreamPublishes \/ Tick
    BY <1>1 DEF PollerStep, clientVars
  <2>2. /\ \A s \in Stations, x \in Report : LetterSettles(s, x) => LetterSettles(s, x)'
        /\ \A v \in 0..MaxFeed : VersionSettles(v) => VersionSettles(v)'
    BY <2>1, TickSettles DEF LiveTypeInv, BusInv
  <2>3. ASSUME NEW c \in Clients PROVE SnapInv(c)' /\ OpenInv(c)'
    BY <2>1, <2>2, TabUntouched DEF TabInv, LiveTypeInv
  <2> QED
    BY <2>3 DEF TabInv
<1>2. CASE FanOut
  BY <1>2, FanOutTab DEF TabInv
<1>3. CASE ServerRestarts
  BY <1>3 DEF ServerRestarts, TabInv, SnapInv, OpenInv
<1>4. ASSUME NEW c \in Clients,
             HandleWS(c) \/ Register(c) \/ SendInitial(c) \/ Disconnect(c) \/ Receive(c)
      PROVE  TabInv'
  BY <1>4, HandleWSTab, RegisterTab, SendInitialTab, DisconnectTab, ReceiveTab
<1>5. CASE UNCHANGED vars
  <2>1. UNCHANGED pollerVars /\ UNCHANGED <<link, snap, raced, inbox, view>>
    BY <1>5 DEF vars, clientVars
  <2>2. ASSUME NEW c \in Clients PROVE SnapInv(c)' /\ OpenInv(c)'
    BY <2>1, SettledStays, TabUntouched DEF TabInv, LiveTypeInv
  <2> QED
    BY <2>2 DEF TabInv
<1> QED
  BY <1>1, <1>2, <1>3, <1>4, <1>5, NextCases

LEMMA TabInit == Init => TabInv
  BY DEF Init, TabInv, SnapInv, OpenInv

LiveInv == LiveTypeInv /\ Compared /\ BusInv /\ TabInv

LEMMA LiveInvStep == ASSUME LiveInv, [Next]_vars PROVE LiveInv'
<1>1. [PollerNext]_pollerVars /\ PollerTypeInv
  BY PollerNextStep DEF LiveInv, LiveTypeInv
<1>2. LiveTypeInv'
  BY LiveTypeStep DEF LiveInv
<1>3. Compared'
  BY <1>1, ComparedStep DEF LiveInv
<1>4. BusInv'
  BY <1>1, ChangesStep, BusStep DEF LiveInv, BusInv
<1>5. TabInv'
  BY TabStep DEF LiveInv
<1> QED
  BY <1>2, <1>3, <1>4, <1>5 DEF LiveInv

LEMMA QuietTabsAgree == LiveInv => UnracedTabsAgree
<1> SUFFICES ASSUME LiveInv, NEW c \in Clients, Quiet(c)
             PROVE  /\ "atis" \notin raced[c] => Disagree(c) = {}
                    /\ "datafeed" \notin raced[c] => df \in {0, view[c].datafeed}
  BY DEF UnracedTabsAgree
<1>1. poll = "idle" /\ bcast = << >> /\ link[c] = "open" /\ inbox[c] = << >>
  BY DEF Quiet
<1>2. /\ \A N : ~Has(bcast, N) /\ ~Has(inbox[c], N)
      /\ todo = {} /\ DOMAIN changed = {}
  BY <1>1, EmptyHasNone DEF LiveInv, Compared, BusInv, ChangesInv
<1>3. /\ \A s \in Stations : view[c].atisByIcao[s] \in LettersAfter(c, s)
      /\ view[c].datafeed \in VersionsAfter(c)
  BY <1>2 DEF LettersAfter, VersionsAfter
<1>4. ASSUME "atis" \notin raced[c], NEW s \in Online(reports)
      PROVE  view[c].atisByIcao[s] \in {Offline, reports[s]}
  <2>1. s \in Stations /\ reports[s] = lastLetter[s]
    BY <1>2 DEF LiveInv, Compared, Online
  <2>2. LetterSettles(s, view[c].atisByIcao[s])
    BY <1>1, <1>3, <1>4, <2>1 DEF LiveInv, TabInv, OpenInv
  <2> QED
    BY <1>2, <2>1, <2>2 DEF LetterSettles
<1>5. ASSUME "datafeed" \notin raced[c] PROVE df \in {0, view[c].datafeed}
  <2>1. VersionSettles(view[c].datafeed)
    BY <1>1, <1>3, <1>5 DEF LiveInv, TabInv, OpenInv
  <2> QED
    BY <1>1, <1>2, <2>1 DEF VersionSettles
<1> QED
  BY <1>4, <1>5 DEF Disagree

\* A tab whose snapshot was not overtaken shows, once everything is delivered, the
\* current letter of every station it shows and the current datafeed, for any
\* number of tabs and stations, through evictions, reconnects and restarts
\* (poller.go, hub.go, ws.go, liveData.ts).
THEOREM UnracedTabsAreRight == Spec => []UnracedTabsAgree
<1>1. Init => LiveInv
  BY LiveTypeInit, ComparedInit, BusInit, TabInit DEF LiveInv, Init
<1>2. LiveInv /\ [Next]_vars => LiveInv'
  BY LiveInvStep
<1> QED
  BY <1>1, <1>2, QuietTabsAgree, PTL DEF Spec
=============================================================================
