------------------------------ MODULE FeedHub ------------------------------
(***************************************************************************)
(* The WebSocket hub of api/internal/feed: one goroutine (Hub.Run) owns    *)
(* the client map, the poller feeds it through the buffered channel        *)
(* broadcast, and every connection has a handler goroutine (handleWS, then *)
(* Serve and its readPump) and a writePump goroutine.                      *)
(*                                                                         *)
(* A member of Clients is one connection, served once; a peer that         *)
(* reconnects is another member.  Broadcast messages are numbered in the   *)
(* order in which the poller sends them; the message Initial is the        *)
(* snapshot Serve queues itself.  queued[c] is everything ever put on the  *)
(* channel c.send and taken[c] how much of it writePump has received, so   *)
(* the content of the channel is the rest.                                 *)
(***************************************************************************)
EXTENDS Integers, Sequences, FiniteSets

CONSTANTS Clients,   \* connections
          SendCap,   \* capacity of Client.send (32 in the code)
          BcastCap,  \* capacity of Hub.broadcast (16 in the code)
          MaxMsg,    \* bound on the messages the poller sends
          SnapshotMayFail  \* may SnapshotMessage return an error?

ASSUME CapAssumption == /\ SendCap \in Nat \ {0}
                        /\ BcastCap \in Nat \ {0}
                        /\ MaxMsg \in Nat
                        /\ SnapshotMayFail \in BOOLEAN

VARIABLES
  sent,       \* number of Broadcast calls made so far
  prod,       \* the poller: "idle", or "sending" inside Hub.Broadcast
  bcast,      \* content of the channel Hub.broadcast
  hub,        \* control state of Hub.Run
  current,    \* number of the last message Hub.Run received
  todo,       \* clients the current fan-out has still to visit
  victim,     \* clients whose dropped() is running (at most one)
  clients,    \* the map Hub.clients
  serve,      \* control state of handleWS/Serve
  initial,    \* is the argument initial of Serve non-nil?
  queued,     \* everything ever sent on c.send
  taken,      \* how many of these writePump has received
  closed,     \* is c.send closed?
  writer,     \* control state of writePump
  conn,       \* "open" or "closed": the WebSocket
  joined      \* history: the value of current when the hub added c

feedVars   == <<sent, prod, bcast>>
hubVars    == <<hub, current, todo, victim, clients>>
serveVars  == <<serve, initial>>
chanVars   == <<queued, taken, closed>>
vars == <<feedVars, hubVars, serveVars, chanVars, writer, conn, joined>>

Initial == 0

HubStates    == {"select", "fanout", "dropping", "stopped", "panicked"}
ServeStates  == {"idle", "registering", "registered", "reading",
                 "unregistering", "panicking", "done"}
WriterStates == {"none", "waiting", "writing", "stopped"}

Buffered(c) == Len(queued[c]) - taken[c]      \* len(c.send)
HubDone == hub = "stopped"                    \* Hub.done is closed

Init ==
  /\ sent = 0 /\ prod = "idle" /\ bcast = << >>
  /\ hub = "select" /\ current = 0 /\ todo = {} /\ victim = {} /\ clients = {}
  /\ serve = [c \in Clients |-> "idle"]
  /\ initial = [c \in Clients |-> FALSE]
  /\ queued = [c \in Clients |-> << >>]
  /\ taken = [c \in Clients |-> 0]
  /\ closed = [c \in Clients |-> FALSE]
  /\ writer = [c \in Clients |-> "none"]
  /\ conn = [c \in Clients |-> "open"]
  /\ joined = [c \in Clients |-> 0]
-----------------------------------------------------------------------------
(* Channel and connection operations *)

Enqueue(c, m) == queued' = [queued EXCEPT ![c] = Append(@, m)]

CloseChan(c) == closed' = [closed EXCEPT ![c] = TRUE]

CloseConn(c) == conn' = [conn EXCEPT ![c] = "closed"]
-----------------------------------------------------------------------------
(* The poller's side: Hub.Broadcast *)

BroadcastCall ==
  /\ prod = "idle" /\ sent < MaxMsg
  /\ prod' = "sending" /\ sent' = sent + 1
  /\ UNCHANGED <<bcast, hubVars, serveVars, chanVars, writer, conn, joined>>

BroadcastEnqueue ==
  /\ prod = "sending" /\ Len(bcast) < BcastCap
  /\ bcast' = Append(bcast, sent)
  /\ prod' = "idle"
  /\ UNCHANGED <<sent, hubVars, serveVars, chanVars, writer, conn, joined>>

\* Mutation: Broadcast without the arm that waits for done.
BroadcastNeverAbandons == FALSE /\ UNCHANGED vars

\* The other arm of the select in Broadcast: the message is discarded.
BroadcastAbandon ==
  /\ prod = "sending" /\ HubDone
  /\ prod' = "idle"
  /\ UNCHANGED <<sent, bcast, hubVars, serveVars, chanVars, writer, conn,
                 joined>>
-----------------------------------------------------------------------------
(* Hub.Run *)

\* ctx.Done(): the root context is cancelled, at any time.
HubStop ==
  /\ hub = "select"
  /\ hub' = "stopped"
  /\ UNCHANGED <<feedVars, current, todo, victim, clients, serveVars,
                 chanVars, writer, conn, joined>>

\* register and unregister are unbuffered: the handler's send and the hub's
\* receive are one step.
HubRegister(c) ==
  /\ hub = "select" /\ serve[c] = "registering"
  /\ clients' = clients \cup {c}
  /\ serve' = [serve EXCEPT ![c] = "registered"]
  /\ joined' = [joined EXCEPT ![c] = current]
  /\ UNCHANGED <<feedVars, hub, current, todo, victim, initial, chanVars,
                 writer, conn>>

\* Closing a closed channel panics.
HubUnregister(c) ==
  /\ hub = "select" /\ serve[c] \in {"unregistering", "panicking"}
  /\ serve' = [serve EXCEPT ![c] = "done"]
  /\ \/ /\ c \notin clients
        /\ UNCHANGED <<hub, clients, closed>>
     \/ /\ c \in clients
        /\ clients' = clients \ {c}
        /\ CloseChan(c)
        /\ hub' = IF closed[c] THEN "panicked" ELSE hub
  /\ UNCHANGED <<feedVars, current, todo, victim, initial, queued, taken,
                 writer, conn, joined>>

HubReceive ==
  /\ hub = "select" /\ bcast # << >>
  /\ current' = Head(bcast) /\ bcast' = Tail(bcast)
  /\ hub' = "fanout" /\ todo' = clients
  /\ UNCHANGED <<sent, prod, victim, clients, serveVars, chanVars, writer,
                 conn, joined>>

\* case c.send <- msg.  Sending on a closed channel panics.
HubSend(c) ==
  /\ hub = "fanout" /\ c \in todo
  /\ todo' = todo \ {c}
  /\ \/ /\ closed[c]
        /\ hub' = "panicked"
        /\ UNCHANGED queued
     \/ /\ ~closed[c] /\ Buffered(c) < SendCap
        /\ Enqueue(c, current)
        /\ UNCHANGED hub
  /\ UNCHANGED <<feedVars, current, victim, clients, serveVars, taken, closed,
                 writer, conn, joined>>

\* Mutations of HubEvict: the entry stays in the map; the channel stays open;
\* the message is dropped instead of the client; the buffer is taken for full
\* one message early; a full buffer overflows.
HubEvictKeepsEntry(c) ==
  /\ hub = "fanout" /\ c \in todo
  /\ ~closed[c] /\ Buffered(c) = SendCap
  /\ todo' = todo \ {c}
  /\ CloseChan(c)
  /\ hub' = "dropping" /\ victim' = {c}
  /\ UNCHANGED <<feedVars, current, clients, serveVars, queued, taken, writer,
                 conn, joined>>

HubEvictLeavesOpen(c) ==
  /\ hub = "fanout" /\ c \in todo
  /\ ~closed[c] /\ Buffered(c) = SendCap
  /\ todo' = todo \ {c} /\ clients' = clients \ {c}
  /\ hub' = "dropping" /\ victim' = {c}
  /\ UNCHANGED <<feedVars, current, serveVars, chanVars, writer, conn, joined>>

HubEvictDropsMessage(c) ==
  /\ hub = "fanout" /\ c \in todo
  /\ ~closed[c] /\ Buffered(c) = SendCap
  /\ todo' = todo \ {c}
  /\ UNCHANGED <<feedVars, hub, current, victim, clients, serveVars, chanVars,
                 writer, conn, joined>>

HubEvictTooEarly(c) ==
  /\ hub = "fanout" /\ c \in todo
  /\ ~closed[c] /\ Buffered(c) >= SendCap - 1
  /\ todo' = todo \ {c} /\ clients' = clients \ {c}
  /\ CloseChan(c)
  /\ hub' = "dropping" /\ victim' = {c}
  /\ UNCHANGED <<feedVars, current, serveVars, queued, taken, writer, conn,
                 joined>>

HubEvictOverflows(c) ==
  /\ hub = "fanout" /\ c \in todo
  /\ ~closed[c] /\ Buffered(c) = SendCap
  /\ todo' = todo \ {c}
  /\ Enqueue(c, current)
  /\ UNCHANGED <<feedVars, hub, current, victim, clients, serveVars, taken,
                 closed, writer, conn, joined>>

\* default: the buffer is full.  The client leaves the map and its channel is
\* closed; dropped() runs next, in the hub's goroutine.
HubEvict(c) ==
  /\ hub = "fanout" /\ c \in todo
  /\ ~closed[c] /\ Buffered(c) = SendCap
  /\ todo' = todo \ {c} /\ clients' = clients \ {c}
  /\ CloseChan(c)
  /\ hub' = "dropping" /\ victim' = {c}
  /\ UNCHANGED <<feedVars, current, serveVars, queued, taken, writer, conn,
                 joined>>

\* dropped() returns: Conn.Close has ended its handshake or timed out.
HubDropped(c) ==
  /\ hub = "dropping" /\ c \in victim
  /\ CloseConn(c)
  /\ hub' = "fanout" /\ victim' = {}
  /\ UNCHANGED <<feedVars, current, todo, clients, serveVars, chanVars,
                 writer, joined>>

HubFanoutDone ==
  /\ hub = "fanout" /\ todo = {}
  /\ hub' = "select"
  /\ UNCHANGED <<feedVars, current, todo, victim, clients, serveVars,
                 chanVars, writer, conn, joined>>
-----------------------------------------------------------------------------
(* handleWS and Serve *)

\* Accept, SnapshotMessage (initial is nil when it fails), then register_.
HandleWS(c) ==
  /\ serve[c] = "idle"
  /\ serve' = [serve EXCEPT ![c] = "registering"]
  /\ \E ok \in {TRUE, ~SnapshotMayFail} :
       initial' = [initial EXCEPT ![c] = ok]
  /\ UNCHANGED <<feedVars, hubVars, chanVars, writer, conn, joined>>

\* Mutation: unregister_ without the arm that waits for done.
UnregisterBlocksAfterDone(c) == FALSE /\ UNCHANGED vars

\* register_ and unregister_ return when the hub has stopped.
RegisterAfterDone(c) ==
  /\ HubDone /\ serve[c] = "registering"
  /\ serve' = [serve EXCEPT ![c] = "registered"]
  /\ UNCHANGED <<feedVars, hubVars, initial, chanVars, writer, conn, joined>>

UnregisterAfterDone(c) ==
  /\ HubDone /\ serve[c] \in {"unregistering", "panicking"}
  /\ serve' = [serve EXCEPT ![c] = "done"]
  /\ UNCHANGED <<feedVars, hubVars, initial, chanVars, writer, conn, joined>>

\* c.send <- initial, then both pumps start.  The send waits while the buffer
\* is full.
SendInitial(c) ==
  /\ serve[c] = "registered"
  /\ \/ /\ ~initial[c]
        /\ UNCHANGED queued
     \/ /\ initial[c] /\ ~closed[c] /\ Buffered(c) < SendCap
        /\ Enqueue(c, Initial)
  /\ serve' = [serve EXCEPT ![c] = "reading"]
  /\ writer' = [writer EXCEPT ![c] = "waiting"]
  /\ UNCHANGED <<feedVars, hubVars, initial, taken, closed, conn, joined>>

\* c.send <- initial on a closed channel: the handler panics, net/http
\* recovers it, and the deferred unregister_ runs on the way.
SendInitialPanics(c) ==
  /\ serve[c] = "registered" /\ initial[c] /\ closed[c]
  /\ serve' = [serve EXCEPT ![c] = "panicking"]
  /\ UNCHANGED <<feedVars, hubVars, initial, chanVars, writer, conn, joined>>

\* Mutation: the handler returns without the deferred unregister_.
ReadErrorSkipsUnregister(c) ==
  /\ serve[c] = "reading" /\ conn[c] = "closed"
  /\ serve' = [serve EXCEPT ![c] = "done"]
  /\ UNCHANGED <<feedVars, hubVars, initial, chanVars, writer, conn, joined>>

\* readPump: Read fails once the connection is closed, by either side.
ReadError(c) ==
  /\ serve[c] = "reading" /\ conn[c] = "closed"
  /\ serve' = [serve EXCEPT ![c] = "unregistering"]
  /\ UNCHANGED <<feedVars, hubVars, initial, chanVars, writer, conn, joined>>

PeerLeaves(c) ==
  /\ serve[c] # "idle" /\ conn[c] = "open"
  /\ CloseConn(c)
  /\ UNCHANGED <<feedVars, hubVars, serveVars, chanVars, writer, joined>>
-----------------------------------------------------------------------------
(* writePump *)

WriterTake(c) ==
  /\ writer[c] = "waiting" /\ Buffered(c) > 0
  /\ taken' = [taken EXCEPT ![c] = @ + 1]
  /\ writer' = [writer EXCEPT ![c] = "writing"]
  /\ UNCHANGED <<feedVars, hubVars, serveVars, queued, closed, conn, joined>>

\* A closed channel is drained before the receive reports it closed.
WriterClosed(c) ==
  /\ writer[c] = "waiting" /\ Buffered(c) = 0 /\ closed[c]
  /\ CloseConn(c)
  /\ writer' = [writer EXCEPT ![c] = "stopped"]
  /\ UNCHANGED <<feedVars, hubVars, serveVars, chanVars, joined>>

\* The request's context is cancelled when the handler returns.
WriterCtxDone(c) ==
  /\ writer[c] = "waiting" /\ serve[c] = "done"
  /\ writer' = [writer EXCEPT ![c] = "stopped"]
  /\ UNCHANGED <<feedVars, hubVars, serveVars, chanVars, conn, joined>>

WriteOk(c) ==
  /\ writer[c] = "writing" /\ conn[c] = "open"
  /\ writer' = [writer EXCEPT ![c] = "waiting"]
  /\ UNCHANGED <<feedVars, hubVars, serveVars, chanVars, conn, joined>>

\* Write fails on a closed connection; after 10 s without progress the
\* library closes the connection itself.
WriteFails(c) ==
  /\ writer[c] = "writing"
  /\ CloseConn(c)
  /\ writer' = [writer EXCEPT ![c] = "stopped"]
  /\ UNCHANGED <<feedVars, hubVars, serveVars, chanVars, joined>>
-----------------------------------------------------------------------------
Poller == BroadcastCall \/ BroadcastEnqueue \/ BroadcastAbandon

HubStep ==
  \/ HubReceive \/ HubFanoutDone
  \/ \E c \in Clients : \/ HubRegister(c) \/ HubUnregister(c)
                        \/ HubSend(c) \/ HubEvict(c) \/ HubDropped(c)

ServeStep(c) ==
  \/ RegisterAfterDone(c) \/ UnregisterAfterDone(c)
  \/ SendInitial(c) \/ SendInitialPanics(c) \/ ReadError(c)

WriteStep(c) ==
  \/ WriterTake(c) \/ WriterClosed(c) \/ WriterCtxDone(c)
  \/ WriteOk(c) \/ WriteFails(c)

Next ==
  \/ Poller \/ HubStop \/ HubStep
  \/ \E c \in Clients : \/ HandleWS(c) \/ ServeStep(c) \/ WriteStep(c)
                        \/ PeerLeaves(c)

Spec == Init /\ [][Next]_vars

\* Each goroutine that can take a step takes one: the poller inside Broadcast,
\* the hub, the handlers after Accept and the write pumps.  Conn.Close and
\* Conn.Write return within their timeouts.  Nothing is assumed of the peers,
\* of new connections, of the poller's next call or of the shutdown signal, nor
\* of which ready arm the hub's select takes.
Fairness ==
  /\ WF_vars(BroadcastEnqueue \/ BroadcastAbandon)
  /\ WF_vars(HubStep)
  /\ \A c \in Clients : WF_vars(ServeStep(c)) /\ WF_vars(WriteStep(c))

FairSpec == Spec /\ Fairness
-----------------------------------------------------------------------------
(* Properties *)

Registered(c) == serve[c] \in {"registered", "reading", "unregistering",
                               "panicking"}

\* Type invariant.  Both kinds of channel stay within their capacity, and
\* dropped() runs for one client at a time.
FeedTypeOK ==
  /\ sent \in 0..MaxMsg /\ prod \in {"idle", "sending"}
  /\ bcast \in Seq(1..MaxMsg) /\ Len(bcast) <= BcastCap

HubTypeOK ==
  /\ hub \in HubStates /\ current \in 0..MaxMsg
  /\ todo \subseteq Clients /\ clients \subseteq Clients
  /\ victim \subseteq Clients /\ (hub = "dropping" <=> victim # {})
  /\ joined \in [Clients -> 0..MaxMsg]

ChanTypeOK ==
  /\ queued \in [Clients -> Seq(0..MaxMsg)]
  /\ taken \in [Clients -> Nat]
  /\ closed \in [Clients -> BOOLEAN]
  /\ \A c \in Clients : Buffered(c) \in 0..SendCap

ConnTypeOK ==
  /\ serve \in [Clients -> ServeStates]
  /\ initial \in [Clients -> BOOLEAN]
  /\ writer \in [Clients -> WriterStates]
  /\ conn \in [Clients -> {"open", "closed"}]

TypeOK == FeedTypeOK /\ HubTypeOK /\ ChanTypeOK /\ ConnTypeOK

\* However evictions, disconnects and fan-outs interleave, the hub goroutine
\* never sends on a closed channel and never closes one twice; either would
\* panic outside any handler and take the whole server down (hub.go 40-54).
HubNeverPanics == hub # "panicked"

\* While the hub runs, a handler that has returned has left no entry behind in
\* the client map, whichever way it returned, a panic included (client.go 25).
NoGhostClient ==
  \A c \in Clients : serve[c] = "done" /\ ~HubDone => c \notin clients

\* A connection whose handler is still attached but which the hub no longer
\* feeds has a closed channel, so that its writePump will end it: no client
\* sits connected without updates (hub.go 42-43, 51-52).
NoDeafClient ==
  \A c \in Clients : Registered(c) /\ ~HubDone /\ c \notin clients => closed[c]

\* Position in the stream of broadcasts of the i-th message of a channel q: the
\* initial snapshot, wherever it was queued, does not count.
StreamPos(q, i) ==
  IF \E j \in 1..(i - 1) : q[j] = Initial THEN i - 1 ELSE i

\* Each connection is sent the broadcasts that follow its registration without
\* a gap, a duplicate or a swap, whatever the hub does to it or to others.
DeliveredInOrder ==
  \A c \in Clients : \A i \in 1..Len(queued[c]) :
     queued[c][i] # Initial => queued[c][i] = joined[c] + StreamPos(queued[c], i)

\* The initial send panics (client.go 29) only for a connection that was sent
\* a whole buffer of broadcasts between register_ and that line.
PanicsOnlyIfFlooded ==
  \A c \in Clients : serve[c] = "panicking" => Len(queued[c]) >= SendCap

\* The stream of broadcasts of a connection, its snapshot left out.
WithoutInitial(q) ==
  [i \in 1..(StreamPos(q, Len(q) + 1) - 1) |->
     q[IF \E j \in 1..i : q[j] = Initial THEN i + 1 ELSE i]]

Broadcasts(c) == WithoutInitial(queued[c])

Bus == INSTANCE FeedBus WITH
         published <- current,
         status    <- [c \in Clients |-> IF c \in clients THEN "member"
                                         ELSE IF closed[c] THEN "left"
                                         ELSE "new"],
         joinedAt  <- joined,
         stream    <- [c \in Clients |-> Broadcasts(c)]

\* The hub implements the bus: every step of it, a fan-out interrupted by
\* evictions included, is a step of FeedBus or leaves the bus unchanged, and
\* every member is handed what it misses or leaves (hub.go 45-55).
ImplementsBus == Bus!BusSpec

\* Hub.Broadcast always returns: the poller is never stuck behind slow clients
\* or behind a hub that has stopped (hub.go 50, 75-80).
BroadcastReturns == prod = "sending" ~> prod = "idle"

\* The peer is gone, or the hub or the handler has given the connection up.
Ended(c) ==
  \/ closed[c] \/ serve[c] \in {"unregistering", "panicking"}
  \/ conn[c] = "closed" /\ serve[c] \in {"registering", "registered", "reading"}

CleanedUp(c) ==
  conn[c] = "closed" /\ serve[c] = "done" /\ writer[c] \in {"none", "stopped"}

\* Serve waits at c.send <- initial: broadcasts have filled the buffer and no
\* writePump has started.  Only the next fan-out, by evicting c, gets it on.
BlockedAtInitial(c) ==
  serve[c] = "registered" /\ initial[c] /\ ~closed[c] /\ Buffered(c) = SendCap

\* A connection that has ended, by eviction, panic or the peer's leaving, is cleaned
\* up: it is disconnected, its handler gets through unregister_ and its writePump
\* stops, also when the hub stopped without closing its channel (hub.go 51-53,
\* 67-72, client.go 25, 39-40).  The one exception is a handler that is blocked at
\* its initial send (client.go 29) when no broadcast follows or the hub stops: it
\* stays there, and so do its entry in the map and its goroutine.
ConnectionsCleanUp ==
  \A c \in Clients : Ended(c) ~> CleanedUp(c) \/ BlockedAtInitial(c)

\* "MsgSnapshot is sent once, immediately on connect, with the current state."
\* (protocol.go 12): nothing goes out before it.
SnapshotIsFirst ==
  \A c \in Clients : initial[c] /\ taken[c] > 0 /\ writer[c] = "waiting"
                       => queued[c][1] = Initial
=============================================================================
