-------------------------- MODULE AtisPollerProofs --------------------------
(***************************************************************************)
(* Proofs about AtisPoller for every set of stations and letters, every    *)
(* capacity of the channel and any number of publications and restarts.    *)
(***************************************************************************)
EXTENDS AtisPoller, TLAPS

\* Every disjunct of PollerNext, one name each.
LEMMA PollerNextCases ==
  ASSUME [PollerNext]_pollerVars
  PROVE  \/ UpstreamPublishes \/ FetchAndProject \/ BroadcastDatafeed
         \/ SetAtis \/ Persist \/ BroadcastAtis \/ NothingChanged \/ Restart
         \/ HubTakes
         \/ \E s \in Stations : SameLetter(s) \/ NewLetter(s)
         \/ UNCHANGED pollerVars
  BY DEF PollerNext, Tick

\* Adding a letter to the changes, as NewLetter does, leaves them changes.
LEMMA AddChange ==
  ASSUME NEW f \in Changes, NEW s \in Stations, NEW a \in Code,
         NEW g, g = [t \in DOMAIN f \cup {s} |-> IF t = s THEN a ELSE f[t]]
  PROVE  g \in Changes
<1>1. PICK S \in SUBSET Stations : f \in [S -> Code]
  BY DEF Changes
<1>2. g \in [S \cup {s} -> Code]
  BY <1>1
<1>3. S \cup {s} \in SUBSET Stations
  OBVIOUS
<1> QED
  BY <1>2, <1>3 DEF Changes

LEMMA NoChangesType == NoChanges \in Changes /\ DOMAIN NoChanges = {}
<1>1. NoChanges \in [{} -> Code] /\ {} \in SUBSET Stations
  BY DEF NoChanges
<1> QED
  BY <1>1 DEF Changes, NoChanges

LEMMA ChangeType ==
  ASSUME NEW f \in Changes
  PROVE  DOMAIN f \subseteq Stations /\ \A s \in DOMAIN f : f[s] \in Code
  BY DEF Changes

\* Sending a message that fits leaves the channel well-formed.
LEMMA BroadcastType ==
  ASSUME bcast \in Seq(Messages), NEW msg \in Messages, Broadcast(msg)
  PROVE  bcast' \in Seq(Messages) /\ Len(bcast') <= BcastCap
  BY PollerAssumption DEF Broadcast
-----------------------------------------------------------------------------
(* Type correctness *)

\* The stations the loop has still to compare have a report; the one it is
\* writing has one too and has been compared.
PollerTypeInv ==
  /\ PollerTypeOK
  /\ todo \subseteq Online(reports)
  /\ unsaved \subseteq Online(reports) \ todo
  /\ poll # "compare" => unsaved = {}

LEMMA NoneOnlineType ==
  /\ NoneOnline \in [Stations -> Report] /\ Online(NoneOnline) = {}
  /\ NoFeed \in Feeds
<1>1. NoneOnline \in [Stations -> Report] /\ Online(NoneOnline) = {}
  BY DEF NoneOnline, Report, Online
<1>2. 0 \in 0..MaxFeed
  BY PollerAssumption
<1> QED
  BY <1>1, <1>2 DEF NoFeed, Feeds, NoTimestamp

LEMMA PollerTypeInit == PollerInit => PollerTypeInv
<1> SUFFICES ASSUME PollerInit PROVE PollerTypeInv
  OBVIOUS
<1>1. /\ 0 \in 0..MaxFeed /\ 0 \in 0..MaxRestarts
      /\ bcast \in Seq(Messages) /\ Len(bcast) = 0
  BY PollerAssumption DEF PollerInit
<1>2. Len(bcast) <= BcastCap
  BY <1>1, PollerAssumption
<1>3. lastLetter \in [Stations -> Code]
  BY DEF PollerInit, Code
<1> QED
  BY <1>1, <1>2, <1>3, NoneOnlineType, NoChangesType
     DEF PollerInit, PollerTypeInv, PollerTypeOK, NoTimestamp

LEMMA PollerTypeStep ==
  ASSUME PollerTypeInv, [PollerNext]_pollerVars
  PROVE  PollerTypeInv'
<1> USE DEF PollerTypeInv, PollerTypeOK
<1>1. CASE UpstreamPublishes
  <2>1. PICK atis \in [Stations -> Report], stamped \in BOOLEAN :
          feed' = [ts |-> IF stamped THEN feed.version + 1 ELSE NoTimestamp,
                   version |-> feed.version + 1, atis |-> atis]
    BY <1>1 DEF UpstreamPublishes
  <2>2. feed.version \in 0..MaxFeed /\ feed.version < MaxFeed
    BY <1>1 DEF UpstreamPublishes, Feeds
  <2>3. feed.version + 1 \in 0..MaxFeed /\ NoTimestamp \in 0..MaxFeed
    BY <2>2, PollerAssumption DEF NoTimestamp
  <2>4. feed' \in Feeds
    BY <2>1, <2>3 DEF Feeds
  <2> QED
    BY <1>1, <2>4 DEF UpstreamPublishes, tickVars, storeVars, historyVars
<1>2. CASE FetchAndProject
  <2>1. feed.ts \in 0..MaxFeed /\ feed.version \in 0..MaxFeed
    BY DEF Feeds
  <2>2. moved' \subseteq Stations
    BY <1>2 DEF FetchAndProject, Online
  <2> QED
    BY <1>2, <2>1, <2>2 DEF FetchAndProject
<1>3. CASE BroadcastDatafeed
  <2>1. DatafeedMsg(df) \in Messages
    BY DEF Messages
  <2> QED
    BY <1>3, <2>1, BroadcastType
       DEF BroadcastDatafeed, storeVars, historyVars
<1>4. CASE SetAtis
  <2>1. got.atis \in [Stations -> Report]
    BY DEF Feeds
  <2>2. Online(got.atis) \subseteq Stations /\ todo' = Online(reports')
    BY <1>4 DEF SetAtis, Online
  <2> QED
    BY <1>4, <2>1, <2>2, NoneOnlineType, NoChangesType
       DEF SetAtis, historyVars
<1>5. ASSUME NEW s \in Stations, SameLetter(s) PROVE PollerTypeInv'
  BY <1>5 DEF SameLetter, AtStation, storeVars, historyVars, Online
<1>6. ASSUME NEW s \in Stations, NewLetter(s) PROVE PollerTypeInv'
  <2>1. s \in todo /\ reports[s] \in Code
    BY <1>6 DEF NewLetter, AtStation, Online, Report
  <2>2. changed' \in Changes /\ unsaved' \subseteq DOMAIN changed'
    BY <1>6, <2>1, AddChange DEF NewLetter
  <2>3. lastLetter' \in [Stations -> Code]
    BY <1>6, <2>1 DEF NewLetter
  <2> QED
    BY <1>6, <2>1, <2>2, <2>3 DEF NewLetter, AtStation, historyVars, Online
<1>12. CASE Persist
  <2>1. db' \in [Stations -> Report] /\ faulty' \in BOOLEAN
    BY <1>12 DEF Persist
  <2> QED
    BY <1>12, <2>1 DEF Persist, storeVars, Online
<1>7. CASE BroadcastAtis
  <2>1. AtisMsg(changed) \in Messages
    BY DEF Messages
  <2>2. /\ announced' \in [Stations -> Report]
        /\ told' \in [Stations -> Report]
    BY <1>7, ChangeType DEF BroadcastAtis, Report
  <2>3. unsaved' = {}
    BY <1>7 DEF BroadcastAtis, LoopEnded
  <2> QED
    BY <1>7, <2>1, <2>2, <2>3, BroadcastType, NoChangesType
       DEF BroadcastAtis, storeVars
<1>8. CASE NothingChanged
  BY <1>8 DEF NothingChanged, LoopEnded, storeVars, historyVars
<1>9. CASE Restart
  <2>1. /\ reports' \in [Stations -> Report] /\ faulty' \in BOOLEAN
        /\ lastLetter' = [s \in Stations |-> LetterOf(reports'[s])]
        /\ told' = reports'
    BY <1>9 DEF Restart, Seed, Report
  <2>3. lastLetter' \in [Stations -> Code]
    BY <2>1 DEF LetterOf, Report, Code
  <2>2. /\ bcast' \in Seq(Messages) /\ Len(bcast') <= BcastCap
        /\ restarts' \in 0..MaxRestarts /\ 0 \in 0..MaxFeed
    BY <1>9, PollerAssumption DEF Restart
  <2> QED
    BY <1>9, <2>1, <2>2, <2>3, NoneOnlineType, NoChangesType
       DEF Restart, NoTimestamp
<1>10. CASE HubTakes
  <2>1. bcast' \in Seq(Messages) /\ Len(bcast') <= BcastCap
    BY <1>10, PollerAssumption DEF HubTakes
  <2> QED
    BY <1>10, <2>1 DEF HubTakes, tickVars, storeVars, historyVars
<1>11. CASE UNCHANGED pollerVars
  BY <1>11 DEF pollerVars, tickVars, storeVars, historyVars
<1> QED
  BY <1>1, <1>2, <1>3, <1>4, <1>5, <1>6, <1>7, <1>8, <1>9, <1>10, <1>11,
     <1>12, PollerNextCases

\* Whatever upstream sends and whenever the server dies, the poller keeps to
\* its types and the channel to its capacity.
THEOREM PollerTypeCorrect == PollerSpec => []PollerTypeOK
<1>1. PollerTypeInv /\ [PollerNext]_pollerVars => PollerTypeInv'
  BY PollerTypeStep
<1> QED
  BY PollerTypeInit, <1>1, PTL DEF PollerSpec, PollerTypeInv
-----------------------------------------------------------------------------
(* Change detection *)

\* Outside the comparing loop nothing waits to be compared, and every report
\* that does not wait has been: its letter is the remembered one.
Compared ==
  /\ poll # "compare" => todo = {}
  /\ \A s \in Online(reports) \ todo : reports[s] = lastLetter[s]

LEMMA ComparedInit == PollerInit => Compared
  BY NoneOnlineType DEF PollerInit, Compared

LEMMA ComparedStep ==
  ASSUME PollerTypeInv, Compared, [PollerNext]_pollerVars
  PROVE  Compared'
<1> USE DEF Compared, PollerTypeInv, PollerTypeOK
<1>1. CASE \/ UpstreamPublishes \/ BroadcastDatafeed \/ HubTakes
           \/ NothingChanged \/ Persist
  BY <1>1 DEF UpstreamPublishes, BroadcastDatafeed, HubTakes, NothingChanged,
              LoopEnded, Persist, tickVars, storeVars
<1>2. CASE FetchAndProject \/ BroadcastAtis
  BY <1>2 DEF FetchAndProject, BroadcastAtis, LoopEnded, storeVars
<1>3. CASE SetAtis
  BY <1>3 DEF SetAtis
<1>4. ASSUME NEW s \in Stations, SameLetter(s) PROVE Compared'
  BY <1>4 DEF SameLetter, AtStation, storeVars
<1>5. ASSUME NEW s \in Stations, NewLetter(s) PROVE Compared'
  <2>1. /\ reports' = reports /\ poll' = "compare" /\ todo' = todo \ {s}
        /\ lastLetter' = [lastLetter EXCEPT ![s] = reports[s]]
    BY <1>5 DEF NewLetter, AtStation
  <2>2. Online(reports)' = Online(reports) /\ Online(reports) \subseteq Stations
    BY <2>1 DEF Online
  <2> QED
    BY <2>1, <2>2
<1>6. CASE Restart
  <2>1. poll' = "idle" /\ todo' = {}
    BY <1>6 DEF Restart
  <2>2. \A s \in Online(reports') : reports'[s] = lastLetter'[s]
    BY <1>6 DEF Restart, Seed, Online, LetterOf
  <2> QED
    BY <2>1, <2>2 DEF Online
<1>7. CASE UNCHANGED pollerVars
  BY <1>7 DEF pollerVars, tickVars, storeVars
<1> QED
  BY <1>1, <1>2, <1>3, <1>4, <1>5, <1>6, <1>7, PollerNextCases

\* What is remembered of a station is what was told of it or is about to be.
ToldInv ==
  /\ poll # "compare" => changed = NoChanges
  /\ \A s \in Stations :
       lastLetter[s] = IF s \in DOMAIN changed THEN changed[s]
                       ELSE LetterOf(told[s])

LEMMA ToldInit == PollerInit => ToldInv
  BY NoChangesType DEF PollerInit, ToldInv, NoneOnline, LetterOf

LEMMA ToldStep ==
  ASSUME PollerTypeInv, ToldInv, [PollerNext]_pollerVars
  PROVE  ToldInv'
<1> USE DEF ToldInv, PollerTypeInv, PollerTypeOK
<1>1. CASE UpstreamPublishes \/ BroadcastDatafeed \/ HubTakes \/ NothingChanged
           \/ Persist \/ FetchAndProject
  BY <1>1 DEF UpstreamPublishes, BroadcastDatafeed, HubTakes, NothingChanged,
     LoopEnded, Persist, FetchAndProject, tickVars, storeVars, historyVars
<1>2. CASE SetAtis
  BY <1>2 DEF SetAtis, historyVars
<1>3. ASSUME NEW s \in Stations, SameLetter(s) PROVE ToldInv'
  BY <1>3 DEF SameLetter, AtStation, storeVars, historyVars
<1>4. ASSUME NEW s \in Stations, NewLetter(s) PROVE ToldInv'
  BY <1>4 DEF NewLetter, AtStation, historyVars
<1>5. CASE BroadcastAtis
  <2>1. /\ poll' = "idle" /\ changed' = NoChanges /\ UNCHANGED lastLetter
        /\ told' = [s \in Stations |-> IF s \in DOMAIN changed THEN changed[s]
                                       ELSE told[s]]
    BY <1>5 DEF BroadcastAtis, storeVars
  <2>2. \A s \in DOMAIN changed : LetterOf(changed[s]) = changed[s]
    BY ChangeType, PollerAssumption DEF LetterOf, Code
  <2> QED
    BY <2>1, <2>2, NoChangesType
<1>6. CASE Restart
  <2>1. /\ poll' = "idle" /\ changed' = NoChanges /\ told' = reports'
        /\ lastLetter' = [s \in Stations |-> LetterOf(reports'[s])]
    BY <1>6 DEF Restart, Seed
  <2> QED
    BY <2>1, NoChangesType
<1>7. CASE UNCHANGED pollerVars
  BY <1>7 DEF pollerVars, tickVars, storeVars, historyVars
<1> QED
  BY <1>1, <1>2, <1>3, <1>4, <1>5, <1>6, <1>7, PollerNextCases

\* Between ticks every letter of the store was there at boot or is the last one
\* announced, for any stations and letters, failed writes and restarts.
THEOREM ChangesAreAnnounced == PollerSpec => []EveryChangeIsAnnounced
<1>1. PollerTypeInv /\ [PollerNext]_pollerVars => PollerTypeInv'
  BY PollerTypeStep
<1>2. PollerTypeInv /\ Compared /\ [PollerNext]_pollerVars => Compared'
  BY ComparedStep
<1>3. PollerTypeInv /\ ToldInv /\ [PollerNext]_pollerVars => ToldInv'
  BY ToldStep
<1>4. Compared /\ ToldInv => EveryChangeIsAnnounced
  <2> SUFFICES ASSUME Compared, ToldInv, poll = "idle",
                      NEW s \in Online(reports)
               PROVE  reports[s] = LetterOf(told[s])
    BY DEF EveryChangeIsAnnounced
  <2>1. s \in Stations /\ reports[s] = lastLetter[s]
    BY DEF Compared, Online
  <2>2. lastLetter[s] = LetterOf(told[s])
    BY <2>1, NoChangesType DEF ToldInv
  <2> QED
    BY <2>1, <2>2
<1> QED
  BY PollerTypeInit, ComparedInit, ToldInit, <1>1, <1>2, <1>3, <1>4, PTL
     DEF PollerSpec
-----------------------------------------------------------------------------
(* Memory and table *)

\* As long as the table works, it lacks the letter of the station whose write
\* is under way and has that of every other.
MemoryInv ==
  ~faulty => \A s \in Stations :
               s \in unsaved <=> lastLetter[s] # LetterOf(db[s])

LEMMA MemoryStep ==
  ASSUME PollerTypeInv, Compared, MemoryInv, [PollerNext]_pollerVars
  PROVE  MemoryInv'
<1> USE DEF MemoryInv, PollerTypeInv, PollerTypeOK
<1>1. ASSUME NEW s \in Stations, NewLetter(s) PROVE MemoryInv'
  BY <1>1 DEF NewLetter, AtStation, historyVars
<1>2. CASE Persist
  <2> SUFFICES ASSUME ~faulty' PROVE MemoryInv'
    OBVIOUS
  <2>1. /\ db' = [s \in Stations |-> IF s \in unsaved THEN reports[s] ELSE db[s]]
        /\ unsaved' = {} /\ UNCHANGED <<faulty, lastLetter>>
    BY <1>2 DEF Persist, storeVars
  <2>2. \A s \in unsaved : LetterOf(reports[s]) = lastLetter[s]
    BY DEF Compared, Online, LetterOf
  <2> QED
    BY <2>1, <2>2
<1>3. CASE Restart
  BY <1>3 DEF Restart, Seed
<1>4. CASE UNCHANGED <<lastLetter, db, faulty, unsaved>>
  BY <1>4
<1> QED
  BY <1>1, <1>2, <1>3, <1>4, PollerNextCases DEF pollerVars, tickVars,
     storeVars, historyVars, UpstreamPublishes, FetchAndProject,
     BroadcastDatafeed, SetAtis, SameLetter, BroadcastAtis, NothingChanged,
     HubTakes

LEMMA MemoryInit == PollerInit => MemoryInv
  BY DEF PollerInit, MemoryInv, NoneOnline, LetterOf

\* A crash between any two steps of the tick, the change of memory and the
\* write to the table included, forgets at most the change under way, and that
\* one is found again, as long as the table works.
THEOREM CrashesLoseNoChange == PollerSpec => CrashLosesNoChange
<1>1. PollerTypeInv /\ [PollerNext]_pollerVars => PollerTypeInv'
  BY PollerTypeStep
<1>2. PollerTypeInv /\ Compared /\ [PollerNext]_pollerVars => Compared'
  BY ComparedStep
<1>3. /\ PollerTypeInv /\ Compared /\ MemoryInv /\ [PollerNext]_pollerVars
      => MemoryInv'
  BY MemoryStep
<1>4. MemoryInv /\ [PollerNext]_pollerVars
      => [restarts' # restarts /\ ~faulty' =>
            \A s \in Stations :
              IF s \in unsaved
                THEN lastLetter'[s] # lastLetter[s]
                ELSE lastLetter'[s] = lastLetter[s]
                       /\ LetterOf(reports'[s]) = lastLetter[s]]_pollerVars
  <2> SUFFICES ASSUME MemoryInv, [PollerNext]_pollerVars, restarts' # restarts,
                      ~faulty', NEW s \in Stations
               PROVE  IF s \in unsaved
                        THEN lastLetter'[s] # lastLetter[s]
                        ELSE lastLetter'[s] = lastLetter[s]
                               /\ LetterOf(reports'[s]) = lastLetter[s]
    OBVIOUS
  <2>1. Restart
    BY PollerNextCases DEF pollerVars, UpstreamPublishes, FetchAndProject,
       BroadcastDatafeed, SetAtis, SameLetter, NewLetter, Persist,
       BroadcastAtis, NothingChanged, HubTakes
  <2>2. ~faulty /\ reports'[s] = db[s] /\ lastLetter'[s] = LetterOf(db[s])
    BY <2>1 DEF Restart, Seed
  <2> QED
    BY <2>2 DEF MemoryInv
<1> QED
  BY PollerTypeInit, ComparedInit, MemoryInit, <1>1, <1>2, <1>3, <1>4, PTL
     DEF PollerSpec, CrashLosesNoChange
-----------------------------------------------------------------------------
(* Announcements *)

\* Why no announcement repeats itself, while the table works:
\* a station not fetched with another letter since its announcement is
\* remembered with the announced letter,
Remembered ==
  \A s \in Stations \ moved : lastLetter[s] = LetterOf(announced[s])

\* a report under way that differs from the announced one has been noticed,
Noticed ==
  /\ poll \in {"sendDatafeed", "setAtis"} =>
       \A s \in Online(got.atis) : got.atis[s] # announced[s] => s \in moved
  /\ \A s \in todo : reports[s] # announced[s] => s \in moved

\* and the changes collected so far are remembered, waiting no longer, and of
\* stations that have moved.
Collected ==
  \A s \in DOMAIN changed :
     s \notin todo /\ changed[s] = lastLetter[s] /\ s \in moved

AnnounceInv == ~faulty => Remembered /\ Noticed /\ Collected

LEMMA AnnounceInit == PollerInit => AnnounceInv
  BY NoChangesType DEF PollerInit, AnnounceInv, Remembered, Noticed, Collected,
     NoneOnline, LetterOf

LEMMA AnnounceStep ==
  ASSUME PollerTypeInv, Compared, MemoryInv, AnnounceInv,
         [PollerNext]_pollerVars
  PROVE  AnnounceInv'
<1> SUFFICES ASSUME ~faulty' PROVE (Remembered /\ Noticed /\ Collected)'
  BY DEF AnnounceInv
<1>0. ~faulty /\ Remembered /\ Noticed /\ Collected
  BY PollerNextCases DEF AnnounceInv, PollerTypeInv, PollerTypeOK, pollerVars,
     historyVars, UpstreamPublishes, FetchAndProject, BroadcastDatafeed,
     SetAtis, SameLetter, NewLetter, Persist, BroadcastAtis, NothingChanged,
     HubTakes, Restart, Seed
<1> USE <1>0 DEF Remembered, Noticed, Collected
<1>1. CASE UpstreamPublishes \/ HubTakes \/ NothingChanged \/ Persist
  BY <1>1 DEF UpstreamPublishes, HubTakes, NothingChanged, Persist, tickVars,
              storeVars, historyVars
<1>2. CASE FetchAndProject
  <2>1. \A s \in Online(got'.atis) : got'.atis[s] # announced[s] => s \in moved'
    BY <1>2 DEF FetchAndProject
  <2>2. moved \subseteq moved' /\ todo = {}
    BY <1>2 DEF FetchAndProject, Compared
  <2> QED
    BY <1>2, <2>1, <2>2 DEF FetchAndProject
<1>3. CASE BroadcastDatafeed
  BY <1>3 DEF BroadcastDatafeed, storeVars, historyVars
<1>4. CASE SetAtis
  BY <1>4, NoChangesType DEF SetAtis, historyVars
<1>5. ASSUME NEW s \in Stations, SameLetter(s)
      PROVE  (Remembered /\ Noticed /\ Collected)'
  BY <1>5 DEF SameLetter, AtStation, storeVars, historyVars
<1>6. ASSUME NEW s \in Stations, NewLetter(s)
      PROVE  (Remembered /\ Noticed /\ Collected)'
  <2>1. /\ poll = "compare" /\ s \in todo /\ reports[s] # lastLetter[s]
        /\ todo' = todo \ {s}
        /\ changed' = [t \in DOMAIN changed \cup {s} |->
                         IF t = s THEN reports[s] ELSE changed[t]]
        /\ lastLetter' = [lastLetter EXCEPT ![s] = reports[s]]
        /\ UNCHANGED <<poll, got, reports, announced, moved>>
    BY <1>6 DEF NewLetter, AtStation, historyVars
  <2>2. s \in moved
    <3>1. CASE reports[s] # announced[s]
      BY <2>1, <3>1
    <3>2. CASE reports[s] = announced[s]
      <4>1. LetterOf(announced[s]) = reports[s]
        BY <2>1, <3>2 DEF PollerTypeInv, Online, LetterOf
      <4> QED
        BY <2>1, <4>1
    <3> QED
      BY <3>1, <3>2
  <2>3. \A t \in Stations \ {s} : lastLetter'[t] = lastLetter[t]
    BY <2>1 DEF PollerTypeInv, PollerTypeOK
  <2>4. lastLetter'[s] = reports[s]
    BY <2>1 DEF PollerTypeInv, PollerTypeOK
  <2>5. Remembered'
    BY <2>1, <2>2, <2>3
  <2>6. Noticed'
    BY <2>1
  <2>7. Collected'
    <3> SUFFICES ASSUME NEW t \in DOMAIN changed'
                 PROVE  /\ t \notin todo' /\ changed'[t] = lastLetter'[t]
                        /\ t \in moved'
      OBVIOUS
    <3>1. CASE t = s
      BY <2>1, <2>2, <2>4, <3>1
    <3>2. CASE t # s
      <4>1. t \in DOMAIN changed /\ t \in Stations /\ changed'[t] = changed[t]
        BY <2>1, <3>2, ChangeType DEF PollerTypeInv, PollerTypeOK
      <4> QED
        BY <2>1, <2>3, <3>2, <4>1
    <3> QED
      BY <3>1, <3>2
  <2> QED
    BY <2>5, <2>6, <2>7
<1>7. CASE BroadcastAtis
  <2>1. /\ poll' = "idle" /\ todo' = {} /\ DOMAIN changed' = {}
        /\ moved' = moved \ DOMAIN changed /\ UNCHANGED lastLetter
        /\ announced' = [s \in Stations |-> IF s \in DOMAIN changed
                          THEN changed[s] ELSE announced[s]]
    BY <1>7, NoChangesType DEF BroadcastAtis, LoopEnded, storeVars
  <2>2. \A s \in DOMAIN changed : LetterOf(changed[s]) = changed[s]
    BY ChangeType, PollerAssumption
       DEF PollerTypeInv, PollerTypeOK, LetterOf, Code
  <2> QED
    BY <2>1, <2>2
<1>8. CASE Restart
  <2>1. /\ \A s \in Stations : lastLetter'[s] = LetterOf(db[s])
        /\ poll' = "idle" /\ todo' = {} /\ DOMAIN changed' = {}
        /\ UNCHANGED <<announced, moved>>
    BY <1>8, NoChangesType DEF Restart, Seed
  <2>2. \A s \in Stations \ moved : s \notin unsaved
    BY DEF PollerTypeInv, PollerTypeOK
  <2>3. \A s \in Stations \ moved : lastLetter'[s] = lastLetter[s]
    BY <2>1, <2>2 DEF MemoryInv
  <2> QED
    BY <2>1, <2>3
<1>9. CASE UNCHANGED pollerVars
  BY <1>9 DEF pollerVars, tickVars, storeVars, historyVars
<1> QED
  BY <1>1, <1>2, <1>3, <1>4, <1>5, <1>6, <1>7, <1>8, <1>9, PollerNextCases

\* No restart and no retry of an unstamped feed makes the server announce a
\* letter the clients were told already.
THEOREM AnnouncementsAreNews == PollerSpec => NoSpuriousAnnouncement
<1>1. PollerTypeInv /\ [PollerNext]_pollerVars => PollerTypeInv'
  BY PollerTypeStep
<1>2. PollerTypeInv /\ Compared /\ [PollerNext]_pollerVars => Compared'
  BY ComparedStep
<1>3. /\ PollerTypeInv /\ Compared /\ MemoryInv /\ [PollerNext]_pollerVars
      => MemoryInv'
  BY MemoryStep
<1>4. /\ PollerTypeInv /\ Compared /\ MemoryInv /\ AnnounceInv
      /\ [PollerNext]_pollerVars
      => AnnounceInv'
  BY AnnounceStep
<1>5. AnnounceInv /\ [PollerNext]_pollerVars
      => [~faulty => \A s \in Stations :
            bcast' # bcast /\ poll = "compare" /\ s \in DOMAIN changed
              => announced[s] # changed[s] \/ s \in moved]_pollerVars
  BY DEF AnnounceInv, Collected
<1> QED
  BY PollerTypeInit, ComparedInit, MemoryInit, AnnounceInit,
     <1>1, <1>2, <1>3, <1>4, <1>5, PTL DEF PollerSpec, NoSpuriousAnnouncement
=============================================================================
