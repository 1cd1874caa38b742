----------------------------- MODULE AtisPoller -----------------------------
(***************************************************************************)
(* The background poller of api/internal/feed, the in-memory Store it      *)
(* writes, the atis_state table behind it, and the restarts of the server. *)
(*                                                                         *)
(* A feed is the number of the upstream publication and the ATIS letter of *)
(* every station in it (Offline when it has none, NoLetter when its ATIS   *)
(* carries no code); a report is its letter, the only part of it that      *)
(* change detection reads.  Text, METARs and pilots are left out.          *)
(***************************************************************************)
EXTENDS Integers, Sequences, FiniteSets

CONSTANTS Stations, Letters,
          NoLetter,     \* the empty code letter, ""
          Offline,      \* the station has no ATIS (no report, no row)
          BcastCap,     \* capacity of Hub.broadcast
          MaxFeed,      \* bound on upstream publications
          MaxRestarts   \* bound on restarts of the server

ASSUME PollerAssumption == /\ NoLetter \notin Letters
                           /\ Offline \notin Letters \cup {NoLetter}
                           /\ BcastCap \in Nat \ {0}
                           /\ MaxFeed \in Nat /\ MaxRestarts \in Nat

VARIABLES
  feed,        \* what VATSIM serves now: [ts, version, atis]
  poll,        \* control state of tick
  got,         \* the feed this tick fetched and has not built reports of
  lastTs,      \* Poller.lastTimestamp
  todo,        \* stations whose report the loop has still to compare
  changed,     \* the changed reports: a function from stations to letters
  unsaved,     \* the station whose letter is remembered and not yet written
  df,          \* Store.datafeed: its version, 0 for nil
  reports,     \* Store.atisReports
  lastLetter,  \* Store.lastLetter
  db,          \* the table atis_state
  bcast,       \* content of the channel Hub.broadcast
  restarts,    \* number of restarts so far
  faulty,      \* history: did a write or the read of atis_state fail?
  told,        \* history: the letter this process has of each station from
               \* its boot or put into an atis message since
  announced,   \* history: last letter of each station in an atis message
  moved        \* history: stations fetched since with another letter

storeVars   == <<df, reports, lastLetter>>
tickVars    == <<poll, got, lastTs, todo, changed, unsaved>>
historyVars == <<faulty, told, announced, moved>>
pollerVars  == <<feed, tickVars, storeVars, db, bcast, restarts, historyVars>>

NoTimestamp == 0      \* an empty update_timestamp
Code   == Letters \cup {NoLetter}
Report == Code \cup {Offline}
Feeds  == [ts : 0..MaxFeed, version : 0..MaxFeed, atis : [Stations -> Report]]

Online(atis) == {s \in Stations : atis[s] # Offline}
NoneOnline == [s \in Stations |-> Offline]
NoFeed == [ts |-> NoTimestamp, version |-> 0, atis |-> NoneOnline]

\* The letter Store.Seed takes from a row, and from the lack of one.
LetterOf(r) == IF r = Offline THEN NoLetter ELSE r

\* Changed reports: letters of some of the stations.
Changes   == UNION {[S -> Code] : S \in SUBSET Stations}
NoChanges == [s \in {} |-> NoLetter]

DatafeedMsg(v) == [type |-> "datafeed", version |-> v]
AtisMsg(f)     == [type |-> "atis", reports |-> f]
Messages == {DatafeedMsg(v) : v \in 0..MaxFeed} \cup {AtisMsg(f) : f \in Changes}

PollerInit ==
  /\ feed = NoFeed
  /\ poll = "idle" /\ got = NoFeed /\ lastTs = NoTimestamp
  /\ todo = {} /\ changed = NoChanges /\ unsaved = {}
  /\ df = 0 /\ reports = NoneOnline
  /\ lastLetter = [s \in Stations |-> NoLetter]
  /\ db = NoneOnline
  /\ bcast = << >> /\ restarts = 0
  /\ faulty = FALSE /\ told = NoneOnline
  /\ announced = NoneOnline /\ moved = {}
-----------------------------------------------------------------------------
(* The VATSIM datafeed *)

UpstreamPublishes ==
  /\ feed.version < MaxFeed
  /\ \E atis \in [Stations -> Report], stamped \in BOOLEAN :
       feed' = [ts |-> IF stamped THEN feed.version + 1 ELSE NoTimestamp,
                version |-> feed.version + 1, atis |-> atis]
  /\ UNCHANGED <<tickVars, storeVars, db, bcast, restarts, historyVars>>
-----------------------------------------------------------------------------
(* tick *)

\* FetchDatafeed succeeds with a feed not seen before; its projection goes to
\* the store.  A failed fetch or a known timestamp ends the tick at once.
FetchAndProject ==
  /\ poll = "idle" /\ feed.version > 0
  /\ feed.ts = NoTimestamp \/ feed.ts # lastTs
  /\ got' = feed /\ lastTs' = feed.ts
  /\ df' = feed.version
  /\ poll' = "sendDatafeed"
  /\ moved' = moved \cup
       {s \in Online(feed.atis) : feed.atis[s] # announced[s]}
  /\ UNCHANGED <<feed, todo, changed, unsaved, reports, lastLetter, db, bcast,
                 restarts, faulty, told, announced>>

\* Mutation: the message is queued whether or not there is room.
BroadcastUnbounded(msg) == bcast' = Append(bcast, msg)

Broadcast(msg) ==
  /\ Len(bcast) < BcastCap
  /\ bcast' = Append(bcast, msg)

BroadcastDatafeed ==
  /\ poll = "sendDatafeed"
  /\ Broadcast(DatafeedMsg(df))
  /\ poll' = "setAtis"
  /\ UNCHANGED <<feed, got, lastTs, todo, changed, unsaved, storeVars, db,
                 restarts, historyVars>>

\* The METARs are in; Build makes a report of every station with an ATIS.
SetAtis ==
  /\ poll = "setAtis"
  /\ reports' = got.atis /\ got' = NoFeed
  /\ todo' = Online(got.atis) /\ changed' = NoChanges
  /\ poll' = "compare"
  /\ UNCHANGED <<feed, lastTs, unsaved, df, lastLetter, db, bcast, restarts,
                 historyVars>>

\* The loop is at a station: it has nothing to write from the one before.
AtStation(s) == poll = "compare" /\ unsaved = {} /\ s \in todo

SameLetter(s) ==
  /\ AtStation(s)
  /\ reports[s] = lastLetter[s]
  /\ todo' = todo \ {s}
  /\ UNCHANGED <<feed, poll, got, lastTs, changed, unsaved, storeVars, db,
                 bcast, restarts, historyVars>>

\* A changed report is collected and its letter remembered; the table does not
\* have it yet.
NewLetter(s) ==
  /\ AtStation(s)
  /\ reports[s] # lastLetter[s]
  /\ todo' = todo \ {s}
  /\ changed' = [t \in DOMAIN changed \cup {s} |->
                   IF t = s THEN reports[s] ELSE changed[t]]
  /\ lastLetter' = [lastLetter EXCEPT ![s] = reports[s]]
  /\ unsaved' = {s}
  /\ UNCHANGED <<feed, poll, got, lastTs, df, reports, db, bcast, restarts,
                 historyVars>>

\* Mutation: the report is not written.
PersistNothing ==
  /\ unsaved # {} /\ unsaved' = {}
  /\ UNCHANGED <<feed, poll, got, lastTs, todo, changed, storeVars, db, bcast,
                 restarts, historyVars>>

\* Mutation: a report that could not be written is not announced either.
PersistOrDrop ==
  /\ unsaved # {} /\ unsaved' = {}
  /\ \/ /\ db' = [s \in Stations |-> IF s \in unsaved THEN reports[s] ELSE db[s]]
        /\ UNCHANGED <<changed, faulty>>
     \/ /\ faulty' = TRUE
        /\ changed' = [s \in DOMAIN changed \ unsaved |-> changed[s]]
        /\ UNCHANGED db
  /\ UNCHANGED <<feed, poll, got, lastTs, todo, storeVars, bcast, restarts,
                 told, announced, moved>>

\* persistAtis writes the report; a failure is logged and forgotten.
Persist ==
  /\ unsaved # {} /\ unsaved' = {}
  /\ \/ /\ db' = [s \in Stations |-> IF s \in unsaved THEN reports[s] ELSE db[s]]
        /\ UNCHANGED faulty
     \/ /\ faulty' = TRUE
        /\ UNCHANGED db
  /\ UNCHANGED <<feed, poll, got, lastTs, todo, changed, storeVars, bcast,
                 restarts, told, announced, moved>>

LoopEnded == poll = "compare" /\ unsaved = {} /\ todo = {}

BroadcastAtis ==
  /\ LoopEnded /\ changed # NoChanges
  /\ Broadcast(AtisMsg(changed))
  /\ poll' = "idle" /\ changed' = NoChanges
  /\ told' = [s \in Stations |-> IF s \in DOMAIN changed THEN changed[s]
                                 ELSE told[s]]
  /\ announced' = [s \in Stations |-> IF s \in DOMAIN changed THEN changed[s]
                                      ELSE announced[s]]
  /\ moved' = moved \ DOMAIN changed
  /\ UNCHANGED <<feed, got, lastTs, todo, unsaved, storeVars, db, restarts,
                 faulty>>

NothingChanged ==
  /\ LoopEnded /\ changed = NoChanges
  /\ poll' = "idle"
  /\ UNCHANGED <<feed, got, lastTs, todo, changed, unsaved, storeVars, db,
                 bcast, restarts, historyVars>>

Tick ==
  \/ FetchAndProject \/ BroadcastDatafeed \/ SetAtis
  \/ \E s \in Stations : SameLetter(s) \/ NewLetter(s)
  \/ Persist \/ BroadcastAtis \/ NothingChanged
-----------------------------------------------------------------------------
(* Restart of the server *)

\* Mutation: the reports are seeded, the letters are not.
SeedForgetsLetters ==
  /\ reports' = db
  /\ lastLetter' = [s \in Stations |-> NoLetter]
  /\ UNCHANGED faulty

\* SeedFromDB: the persisted reports become the store's, letters included.  A
\* row that cannot be read is skipped, and so are all when the query fails.
Seed ==
  \E unread \in SUBSET Stations :
     /\ reports' = [s \in Stations |-> IF s \in unread THEN Offline ELSE db[s]]
     /\ lastLetter' = [s \in Stations |-> LetterOf(reports'[s])]
     /\ faulty' = (faulty \/ unread # {})

\* The process dies at any point and comes up again; the poller is seeded
\* before it, the hub and the HTTP server start.
Restart ==
  /\ restarts < MaxRestarts
  /\ restarts' = restarts + 1
  /\ poll' = "idle" /\ got' = NoFeed /\ lastTs' = NoTimestamp
  /\ todo' = {} /\ changed' = NoChanges /\ unsaved' = {}
  /\ df' = 0 /\ bcast' = << >>
  /\ Seed
  /\ told' = reports'
  /\ UNCHANGED <<feed, db, announced, moved>>

\* The hub takes a message; LiveFeed says what it does with it.
HubTakes ==
  /\ bcast # << >>
  /\ bcast' = Tail(bcast)
  /\ UNCHANGED <<feed, tickVars, storeVars, db, restarts, historyVars>>

PollerNext == UpstreamPublishes \/ Tick \/ Restart \/ HubTakes

PollerSpec == PollerInit /\ [][PollerNext]_pollerVars
-----------------------------------------------------------------------------
(* Properties *)

\* Type invariant.
PollerTypeOK ==
  /\ feed \in Feeds /\ got \in Feeds
  /\ poll \in {"idle", "sendDatafeed", "setAtis", "compare"}
  /\ lastTs \in 0..MaxFeed
  /\ todo \subseteq Stations
  /\ changed \in Changes
  /\ unsaved \subseteq DOMAIN changed
  /\ df \in 0..MaxFeed
  /\ reports \in [Stations -> Report]
  /\ lastLetter \in [Stations -> Code]
  /\ db \in [Stations -> Report]
  /\ bcast \in Seq(Messages) /\ Len(bcast) <= BcastCap
  /\ restarts \in 0..MaxRestarts
  /\ faulty \in BOOLEAN
  /\ told \in [Stations -> Report]
  /\ announced \in [Stations -> Report] /\ moved \subseteq Stations

\* "a restart does not spuriously re-broadcast every station" (websocket.md
\* 84): unless the table failed, a station is announced twice with the same
\* letter only if another letter was fetched for it in between, however the
\* restarts fall within the tick (poller.go 111-121, store.go 56-63).
NoSpuriousAnnouncement ==
  [][~faulty =>
       \A s \in Stations :
         bcast' # bcast /\ poll = "compare" /\ s \in DOMAIN changed
           => announced[s] # changed[s] \/ s \in moved]_pollerVars

\* A crash at any point of the tick loses nothing change detection had decided,
\* unless the table failed: the boot seed brings back the remembered letter of
\* every station, announced or not, except the one whose write was under way,
\* and that one the next tick finds changed again (poller.go 56-72, 113-116).
CrashLosesNoChange ==
  [][restarts' # restarts /\ ~faulty' =>
       \A s \in Stations :
         IF s \in unsaved
           THEN lastLetter'[s] # lastLetter[s]
           ELSE lastLetter'[s] = lastLetter[s]
                  /\ LetterOf(reports'[s]) = lastLetter[s]]_pollerVars

\* Between ticks the letter the store shows of a station is the one this
\* process got at boot or announced last, whichever writes failed: no change of
\* a letter passes without an atis message.  The empty letter is what the code
\* takes a station for that it has not heard of, so a station that comes without
\* a code is in none; nor is one that comes back with the letter it left with,
\* whoever connected in the meantime (poller.go 111-122).
EveryChangeIsAnnounced ==
  poll = "idle" => \A s \in Online(reports) : reports[s] = LetterOf(told[s])
=============================================================================
