------------------------------ MODULE LiveFeed ------------------------------
(***************************************************************************)
(* The live view end to end: the poller and the store of AtisPoller, the   *)
(* distribution of FeedBus, handleWS and Serve taking a snapshot, and the  *)
(* browser's live store (frontend/src/stores/liveData.ts) merging what it  *)
(* receives, with lost connections, reconnects and server restarts.        *)
(*                                                                         *)
(* The hub appears here as what FeedHub implements: a connection gets      *)
(* every message that is fanned out while it is registered, in order.      *)
(***************************************************************************)
EXTENDS AtisPoller

CONSTANTS Clients,     \* browser tabs
          SendCap,     \* messages a tab can lag before it is evicted
          MaxConnects  \* bound on the connections of a tab

ASSUME LiveAssumption == SendCap \in Nat \ {0} /\ MaxConnects \in Nat

VARIABLES
  link,      \* state of the tab's connection
  snap,      \* the snapshot handleWS took, not sent yet
  inbox,     \* what was queued for the connection and not received yet
  view,      \* the tab's live store: [datafeed, atisByIcao]
  connects,  \* number of connections so far
  raced      \* history: types of the messages fanned out between the
             \* connection's snapshot and the queueing of it

clientVars == <<link, snap, inbox, view, connects, raced>>
vars == <<pollerVars, clientVars>>

NoSnap == [datafeed |-> 0, atis |-> NoneOnline]

SnapshotMsg(sn) == [type |-> "snapshot", snapshot |-> sn]

Init ==
  /\ PollerInit
  /\ link = [c \in Clients |-> "down"]
  /\ snap = [c \in Clients |-> NoSnap]
  /\ inbox = [c \in Clients |-> << >>]
  /\ view = [c \in Clients |-> [datafeed |-> 0, atisByIcao |-> NoneOnline]]
  /\ connects = [c \in Clients |-> 0]
  /\ raced = [c \in Clients |-> {}]
-----------------------------------------------------------------------------
(* Server side of a connection *)

\* The tab (re)connects; handleWS accepts and takes Store.Snapshot.
HandleWS(c) ==
  /\ link[c] = "down" /\ connects[c] < MaxConnects
  /\ link' = [link EXCEPT ![c] = "accepted"]
  /\ snap' = [snap EXCEPT ![c] = [datafeed |-> df, atis |-> reports]]
  /\ connects' = [connects EXCEPT ![c] = @ + 1]
  /\ UNCHANGED <<pollerVars, inbox, view, raced>>

\* register_: the hub adds the connection to its map.
Register(c) ==
  /\ link[c] = "accepted"
  /\ link' = [link EXCEPT ![c] = "registered"]
  /\ UNCHANGED <<pollerVars, snap, inbox, view, connects, raced>>

\* c.send <- initial.
SendInitial(c) ==
  /\ link[c] = "registered" /\ Len(inbox[c]) < SendCap
  /\ link' = [link EXCEPT ![c] = "open"]
  /\ inbox' = [inbox EXCEPT ![c] = Append(@, SnapshotMsg(snap[c]))]
  /\ snap' = [snap EXCEPT ![c] = NoSnap]
  /\ UNCHANGED <<pollerVars, view, connects, raced>>

InMap(c) == link[c] \in {"registered", "open"}
Full(c) == Len(inbox[c]) = SendCap

\* Mutation: a full connection skips the message and stays.
FanOutSkipsFull ==
  /\ HubTakes
  /\ inbox' = [c \in Clients |->
                 IF InMap(c) /\ ~Full(c) THEN Append(inbox[c], Head(bcast))
                 ELSE inbox[c]]
  /\ raced' = [c \in Clients |->
                 IF link[c] \in {"accepted", "registered"}
                   THEN raced[c] \cup {Head(bcast).type} ELSE raced[c]]
  /\ UNCHANGED <<link, snap, view, connects>>

\* Mutation: a full connection is given the message all the same.
FanOutOverflows ==
  /\ HubTakes
  /\ inbox' = [c \in Clients |->
                 IF InMap(c) THEN Append(inbox[c], Head(bcast)) ELSE inbox[c]]
  /\ UNCHANGED <<link, raced, snap, view, connects>>

\* The hub hands one message to every connection of its map; one that is full
\* is evicted, and its tab loses the connection.
FanOut ==
  /\ HubTakes
  /\ inbox' = [c \in Clients |->
                 IF ~InMap(c) THEN inbox[c]
                 ELSE IF Full(c) THEN << >>
                 ELSE Append(inbox[c], Head(bcast))]
  /\ link' = [c \in Clients |-> IF InMap(c) /\ Full(c) THEN "down" ELSE link[c]]
  /\ snap' = [c \in Clients |-> IF InMap(c) /\ Full(c) THEN NoSnap ELSE snap[c]]
  /\ raced' = [c \in Clients |->
                 IF InMap(c) /\ Full(c) THEN {}
                 ELSE IF link[c] \in {"accepted", "registered"}
                   THEN raced[c] \cup {Head(bcast).type}
                 ELSE raced[c]]
  /\ UNCHANGED <<view, connects>>

\* The connection breaks; what was still queued or in flight is lost.
Disconnect(c) ==
  /\ link[c] # "down"
  /\ link' = [link EXCEPT ![c] = "down"]
  /\ inbox' = [inbox EXCEPT ![c] = << >>]
  /\ snap' = [snap EXCEPT ![c] = NoSnap]
  /\ raced' = [raced EXCEPT ![c] = {}]
  /\ UNCHANGED <<pollerVars, view, connects>>

ServerRestarts ==
  /\ Restart
  /\ link' = [c \in Clients |-> "down"]
  /\ inbox' = [c \in Clients |-> << >>]
  /\ snap' = [c \in Clients |-> NoSnap]
  /\ raced' = [c \in Clients |-> {}]
  /\ UNCHANGED <<view, connects>>
-----------------------------------------------------------------------------
(* The tab: onMessage of the live store *)

\* Mutation: the changes an atis message carries are not merged.
MergedIgnoring(v, msg) ==
  CASE msg.type = "snapshot" ->
         [datafeed   |-> IF msg.snapshot.datafeed = 0 THEN v.datafeed
                         ELSE msg.snapshot.datafeed,
          atisByIcao |-> msg.snapshot.atis]
    [] msg.type = "datafeed" -> [v EXCEPT !.datafeed = msg.version]
    [] msg.type = "atis" -> v

\* snapshot replaces both parts, its datafeed only when it has one; datafeed
\* replaces the projection; atis merges the reports it carries.
Merged(v, msg) ==
  CASE msg.type = "snapshot" ->
         [datafeed   |-> IF msg.snapshot.datafeed = 0 THEN v.datafeed
                         ELSE msg.snapshot.datafeed,
          atisByIcao |-> msg.snapshot.atis]
    [] msg.type = "datafeed" -> [v EXCEPT !.datafeed = msg.version]
    [] msg.type = "atis" ->
         [v EXCEPT !.atisByIcao =
            [s \in Stations |-> IF s \in DOMAIN msg.reports
                                  THEN msg.reports[s] ELSE v.atisByIcao[s]]]

Receive(c) ==
  /\ link[c] = "open" \/ link[c] = "registered"
  /\ inbox[c] # << >>
  /\ view' = [view EXCEPT ![c] = Merged(@, Head(inbox[c]))]
  /\ inbox' = [inbox EXCEPT ![c] = Tail(@)]
  /\ UNCHANGED <<pollerVars, link, snap, connects, raced>>
-----------------------------------------------------------------------------
PollerStep == (UpstreamPublishes \/ Tick) /\ UNCHANGED clientVars

Next ==
  \/ PollerStep \/ FanOut \/ ServerRestarts
  \/ \E c \in Clients : \/ HandleWS(c) \/ Register(c) \/ SendInitial(c)
                        \/ Disconnect(c) \/ Receive(c)

Spec == Init /\ [][Next]_vars

\* The tick runs on its ticker and every fetch is retried at the next one, the
\* hub and the handlers run, a connected browser reads.  Nothing is assumed of
\* upstream, of connecting, of connections breaking or of restarts.
Fairness ==
  /\ WF_vars(Tick /\ UNCHANGED clientVars)
  /\ WF_vars(FanOut)
  /\ \A c \in Clients :
       WF_vars(Register(c)) /\ WF_vars(SendInitial(c)) /\ WF_vars(Receive(c))

FairSpec == Spec /\ Fairness
-----------------------------------------------------------------------------
(* Properties *)

\* Type invariant.
TypeOK ==
  /\ PollerTypeOK
  /\ link \in [Clients -> {"down", "accepted", "registered", "open"}]
  /\ snap \in [Clients -> [datafeed : 0..MaxFeed,
                           atis : [Stations -> Report]]]
  /\ \A c \in Clients :
       /\ Len(inbox[c]) <= SendCap
       /\ view[c].datafeed \in 0..MaxFeed
       /\ view[c].atisByIcao \in [Stations -> Report]
       /\ connects[c] \in 0..MaxConnects
       /\ raced[c] \subseteq {"datafeed", "atis"}

\* Nothing is under way between the store and the tab.
Quiet(c) ==
  /\ poll = "idle" /\ bcast = << >>
  /\ link[c] = "open" /\ inbox[c] = << >>

\* Stations that tab c and the store both show, with different letters.
Disagree(c) == {s \in Online(reports) : view[c].atisByIcao[s]
                                          \notin {Offline, reports[s]}}

\* A tab whose connection was not raced, that is, where no message was fanned
\* out between the snapshot and the queueing of it, agrees with the store once
\* everything has been delivered: through restarts, evictions and reconnects
\* the deltas it merged add up to the current letter of every station it shows,
\* and it shows the current datafeed (poller.go 98-121, hub.go 45-55, liveData.ts
\* 40-60).
UnracedTabsAgree ==
  \A c \in Clients : Quiet(c) =>
     /\ "atis" \notin raced[c] => Disagree(c) = {}
     /\ "datafeed" \notin raced[c] => df \in {0, view[c].datafeed}

\* The last upstream publication reaches every tab that stays connected on a
\* connection that was not raced (poller.go 95-103, 121).
LatestReachesTabs ==
  \A c \in Clients :
    link[c] = "open" /\ raced[c] = {} /\ feed.version = MaxFeed
      ~> link[c] # "open" \/ view[c].datafeed = MaxFeed

\* "registers the client with the hub, and streams it the initial snapshot +
\* live updates until it disconnects" (ws.go 13-14): once everything has been
\* delivered a connected tab agrees with the store.
ConnectedTabsAgree == \A c \in Clients : Quiet(c) => Disagree(c) = {}

\* "ATIS + weather for one ICAO, or null if no ATIS is online for it."
\* (liveData.ts 73), of a tab that has everything.
OfflineIsShownOffline ==
  \A c \in Clients : Quiet(c) /\ df > 0 =>
    \A s \in Stations \ Online(reports) : view[c].atisByIcao[s] = Offline
=============================================================================
