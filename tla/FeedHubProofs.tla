--------------------------- MODULE FeedHubProofs ---------------------------
(***************************************************************************)
(* Proofs about FeedHub for every set of connections and every capacity.   *)
(***************************************************************************)
EXTENDS FeedHub, TLAPS

\* Every disjunct of Next, one name each.
LEMMA NextCases ==
  ASSUME [Next]_vars
  PROVE  \/ BroadcastCall \/ BroadcastEnqueue \/ BroadcastAbandon
         \/ HubStop \/ HubReceive \/ HubFanoutDone
         \/ \E c \in Clients :
              \/ HubRegister(c) \/ HubUnregister(c) \/ HubSend(c)
              \/ HubEvict(c) \/ HubDropped(c)
              \/ HandleWS(c) \/ RegisterAfterDone(c) \/ UnregisterAfterDone(c)
              \/ SendInitial(c) \/ SendInitialPanics(c) \/ ReadError(c)
              \/ WriterTake(c) \/ WriterClosed(c) \/ WriterCtxDone(c)
              \/ WriteOk(c) \/ WriteFails(c) \/ PeerLeaves(c)
         \/ UNCHANGED vars
  BY DEF Next, Poller, HubStep, ServeStep, WriteStep

\* Putting a message on a channel that has room keeps its type and capacity.
LEMMA EnqueueType ==
  ASSUME ChanTypeOK, NEW c \in Clients, NEW m \in 0..MaxMsg,
         Enqueue(c, m), Buffered(c) < SendCap, UNCHANGED <<taken, closed>>
  PROVE  ChanTypeOK'
<1>1. queued[c] \in Seq(0..MaxMsg) /\ taken[c] \in Nat
  BY DEF ChanTypeOK
<1>2. /\ Append(queued[c], m) \in Seq(0..MaxMsg)
      /\ Len(Append(queued[c], m)) = Len(queued[c]) + 1
      /\ Len(queued[c]) \in Nat
  BY <1>1
<1>3. queued' = [queued EXCEPT ![c] = Append(queued[c], m)]
  BY DEF Enqueue
<1>4. queued' \in [Clients -> Seq(0..MaxMsg)]
  BY <1>2, <1>3 DEF ChanTypeOK
<1>5. ASSUME NEW d \in Clients PROVE Buffered(d)' \in 0..SendCap
  <2>1. CASE d = c
    <3>1. Buffered(c)' = Buffered(c) + 1
      BY <1>1, <1>2, <1>3 DEF Buffered, ChanTypeOK
    <3> QED
      BY <2>1, <3>1, CapAssumption DEF ChanTypeOK
  <2>2. CASE d # c
    BY <1>3, <2>2 DEF ChanTypeOK, Buffered
  <2> QED
    BY <2>1, <2>2
<1> QED
  BY <1>4, <1>5 DEF ChanTypeOK

\* What typing needs besides TypeOK: a message being sent has been counted.
TypeInv == TypeOK /\ (prod = "sending" => sent > 0)

LEMMA TypeInit == Init => TypeInv
<1> SUFFICES ASSUME Init PROVE TypeInv
  OBVIOUS
<1>2. FeedTypeOK /\ ~(prod = "sending")
  BY CapAssumption DEF Init, FeedTypeOK
<1>3. HubTypeOK
  BY CapAssumption DEF Init, HubTypeOK, HubStates
<1>4. ChanTypeOK
  BY CapAssumption DEF Init, ChanTypeOK, Buffered
<1>5. serve \in [Clients -> ServeStates] /\ writer \in [Clients -> WriterStates]
  BY DEF Init, ServeStates, WriterStates
<1>6. ConnTypeOK
  BY <1>5 DEF Init, ConnTypeOK
<1> QED
  BY <1>2, <1>3, <1>4, <1>6 DEF TypeInv, TypeOK

\* The poller's variables and the channel broadcast.
LEMMA FeedTypeStep ==
  ASSUME TypeInv, [Next]_vars
  PROVE  FeedTypeOK' /\ (prod = "sending" => sent > 0)'
<1> USE CapAssumption DEF TypeInv, TypeOK, FeedTypeOK
<1>1. CASE BroadcastCall \/ BroadcastAbandon
  BY <1>1 DEF BroadcastCall, BroadcastAbandon
<1>2. CASE BroadcastEnqueue
  <2>1. sent \in 1..MaxMsg
    BY <1>2 DEF BroadcastEnqueue
  <2>2. Append(bcast, sent) \in Seq(1..MaxMsg)
        /\ Len(Append(bcast, sent)) = Len(bcast) + 1 /\ Len(bcast) \in Nat
    BY <2>1
  <2> QED
    BY <1>2, <2>2 DEF BroadcastEnqueue
<1>3. CASE HubReceive
  BY <1>3 DEF HubReceive
<1>4. CASE UNCHANGED feedVars
  BY <1>4 DEF feedVars
<1> QED
  BY <1>1, <1>2, <1>3, <1>4, NextCases DEF vars,
     HubStop, HubFanoutDone, HubRegister, HubUnregister, HubSend, HubEvict,
     HubDropped, HandleWS, RegisterAfterDone, UnregisterAfterDone,
     SendInitial, SendInitialPanics, ReadError, WriterTake, WriterClosed,
     WriterCtxDone, WriteOk, WriteFails, PeerLeaves

\* The hub's control state, its map and the history of registrations.
LEMMA HubTypeStep ==
  ASSUME TypeInv, [Next]_vars
  PROVE  HubTypeOK'
<1> USE DEF TypeInv, TypeOK, HubTypeOK, HubStates
<1>1. CASE HubReceive
  <2>1. Head(bcast) \in 0..MaxMsg
    BY <1>1, CapAssumption DEF HubReceive, FeedTypeOK
  <2> QED
    BY <1>1, <2>1 DEF HubReceive
<1>2. CASE HubStop \/ HubFanoutDone
  BY <1>2 DEF HubStop, HubFanoutDone
<1>3. ASSUME NEW c \in Clients, HubRegister(c) PROVE HubTypeOK'
  BY <1>3 DEF HubRegister
<1>4. ASSUME NEW c \in Clients, HubUnregister(c) PROVE HubTypeOK'
  BY <1>4 DEF HubUnregister
<1>5. ASSUME NEW c \in Clients, HubSend(c) PROVE HubTypeOK'
  BY <1>5 DEF HubSend
<1>6. ASSUME NEW c \in Clients, HubEvict(c) \/ HubDropped(c) PROVE HubTypeOK'
  BY <1>6 DEF HubEvict, HubDropped
<1>7. CASE UNCHANGED <<hubVars, joined>>
  BY <1>7 DEF hubVars
<1> QED
  BY <1>1, <1>2, <1>3, <1>4, <1>5, <1>6, <1>7, NextCases DEF vars,
     BroadcastCall, BroadcastEnqueue, BroadcastAbandon, HandleWS,
     RegisterAfterDone, UnregisterAfterDone, SendInitial, SendInitialPanics,
     ReadError, WriterTake, WriterClosed, WriterCtxDone, WriteOk, WriteFails,
     PeerLeaves

\* The channels c.send: only the hub, Serve and writePump touch them.
LEMMA ChanTypeStep ==
  ASSUME TypeInv, [Next]_vars
  PROVE  ChanTypeOK'
<1>0. ChanTypeOK /\ current \in 0..MaxMsg /\ Initial \in 0..MaxMsg
  BY CapAssumption DEF TypeInv, TypeOK, HubTypeOK, Initial
<1>1. ASSUME NEW c \in Clients, HubSend(c) PROVE ChanTypeOK'
  <2>1. CASE UNCHANGED queued
    BY <1>0, <1>1, <2>1 DEF HubSend, ChanTypeOK, Buffered
  <2>2. CASE Buffered(c) < SendCap /\ Enqueue(c, current)
    BY <1>0, <1>1, <2>2, EnqueueType DEF HubSend
  <2> QED
    BY <1>1, <2>1, <2>2 DEF HubSend
<1>2. ASSUME NEW c \in Clients, SendInitial(c) PROVE ChanTypeOK'
  <2>1. CASE UNCHANGED queued
    BY <1>0, <1>2, <2>1 DEF SendInitial, ChanTypeOK, Buffered
  <2>2. CASE Buffered(c) < SendCap /\ Enqueue(c, Initial)
    BY <1>0, <1>2, <2>2, EnqueueType DEF SendInitial
  <2> QED
    BY <1>2, <2>1, <2>2 DEF SendInitial
<1>3. ASSUME NEW c \in Clients, WriterTake(c) PROVE ChanTypeOK'
  <2>1. queued' = queued /\ closed' = closed
        /\ taken' = [taken EXCEPT ![c] = taken[c] + 1] /\ Buffered(c) > 0
    BY <1>3 DEF WriterTake
  <2>2. ASSUME NEW d \in Clients PROVE Buffered(d)' \in 0..SendCap
    <3>1. Len(queued[d]) \in Nat /\ taken[d] \in Nat /\ Buffered(d) \in 0..SendCap
      BY <1>0 DEF ChanTypeOK
    <3>2. taken'[d] = IF d = c THEN taken[d] + 1 ELSE taken[d]
      BY <1>0, <2>1 DEF ChanTypeOK
    <3> QED
      BY <2>1, <3>1, <3>2, CapAssumption DEF Buffered
  <2>3. taken' \in [Clients -> Nat]
    BY <1>0, <2>1 DEF ChanTypeOK
  <2> QED
    BY <1>0, <2>1, <2>2, <2>3 DEF ChanTypeOK
<1>4. ASSUME NEW c \in Clients, HubUnregister(c) \/ HubEvict(c)
      PROVE  ChanTypeOK'
  BY <1>0, <1>4 DEF HubUnregister, HubEvict, CloseChan, ChanTypeOK, Buffered
<1>5. CASE UNCHANGED chanVars
  BY <1>0, <1>5 DEF chanVars, ChanTypeOK, Buffered
<1> QED
  BY <1>1, <1>2, <1>3, <1>4, <1>5, NextCases DEF vars,
     BroadcastCall, BroadcastEnqueue, BroadcastAbandon,
     HubStop, HubReceive, HubFanoutDone, HubRegister, HubDropped, HandleWS,
     RegisterAfterDone, UnregisterAfterDone, SendInitialPanics, ReadError,
     WriterClosed, WriterCtxDone, WriteOk, WriteFails, PeerLeaves

\* Handlers, write pumps and connections.
LEMMA ConnTypeStep ==
  ASSUME TypeInv, [Next]_vars
  PROVE  ConnTypeOK'
<1> USE DEF TypeInv, TypeOK, ConnTypeOK, ServeStates, WriterStates, serveVars
<1>1. ASSUME NEW c \in Clients, HubRegister(c) \/ HubUnregister(c)
      PROVE  ConnTypeOK'
  BY <1>1 DEF HubRegister, HubUnregister
<1>2. ASSUME NEW c \in Clients, HubDropped(c) \/ WriterClosed(c)
      PROVE  ConnTypeOK'
  BY <1>2 DEF HubDropped, WriterClosed, CloseConn
<1>3. ASSUME NEW c \in Clients, HandleWS(c) PROVE ConnTypeOK'
  BY <1>3 DEF HandleWS
<1>4. ASSUME NEW c \in Clients,
             \/ RegisterAfterDone(c) \/ UnregisterAfterDone(c)
             \/ SendInitial(c) \/ SendInitialPanics(c) \/ ReadError(c)
      PROVE  ConnTypeOK'
  BY <1>4 DEF RegisterAfterDone, UnregisterAfterDone, SendInitial,
     SendInitialPanics, ReadError
<1>5. ASSUME NEW c \in Clients,
             \/ WriterTake(c) \/ WriterCtxDone(c) \/ WriteOk(c)
             \/ WriteFails(c) \/ PeerLeaves(c)
      PROVE  ConnTypeOK'
  BY <1>5 DEF WriterTake, WriterCtxDone, WriteOk, WriteFails, PeerLeaves,
     CloseConn
<1>6. CASE UNCHANGED <<serveVars, writer, conn>>
  BY <1>6
<1> QED
  BY <1>1, <1>2, <1>3, <1>4, <1>5, <1>6, NextCases DEF vars,
     BroadcastCall, BroadcastEnqueue, BroadcastAbandon,
     HubStop, HubReceive, HubFanoutDone, HubSend, HubEvict

\* Every variable keeps its type, both kinds of channel keep within their
\* capacity, and dropped() runs exactly when the hub is inside it.
THEOREM TypeCorrect == Spec => []TypeOK
<1>1. TypeInv /\ [Next]_vars => TypeInv'
  BY FeedTypeStep, HubTypeStep, ChanTypeStep, ConnTypeStep DEF TypeInv, TypeOK
<1>2. Spec => []TypeInv
  BY TypeInit, <1>1, PTL DEF Spec
<1> QED
  BY <1>2, PTL DEF TypeInv
-----------------------------------------------------------------------------
(***************************************************************************)
(* The life of a channel.  NoHubPanic needs more than itself to be         *)
(* inductive: that the map holds open channels only, that a fan-out visits *)
(* members only, that no fan-out is pending when the hub serves its        *)
(* select, and that a connection enters the map once, with a channel that  *)
(* nobody has closed.                                                      *)
(***************************************************************************)
LifeInv ==
  /\ HubNeverPanics
  /\ todo \subseteq clients
  /\ hub \in {"select", "stopped"} => todo = {}
  /\ \A c \in clients : ~closed[c]
  /\ \A c \in Clients :
       serve[c] \in {"idle", "registering"} => c \notin clients /\ ~closed[c]
  /\ NoGhostClient
  /\ NoDeafClient

LEMMA LifeInit == Init => LifeInv
  BY DEF Init, LifeInv, HubNeverPanics, NoGhostClient, NoDeafClient, HubDone,
     Registered

LEMMA LifeStep ==
  ASSUME TypeInv, LifeInv, [Next]_vars
  PROVE  LifeInv'
<1> USE DEF TypeInv, TypeOK, HubTypeOK, ChanTypeOK, ConnTypeOK, ServeStates,
     LifeInv, HubNeverPanics, NoGhostClient, NoDeafClient, HubDone, Registered
<1>1. CASE HubStop \/ HubReceive \/ HubFanoutDone
  BY <1>1 DEF HubStop, HubReceive, HubFanoutDone, serveVars, chanVars
<1>2. ASSUME NEW c \in Clients, HubRegister(c) PROVE LifeInv'
  BY <1>2 DEF HubRegister, chanVars
<1>3. ASSUME NEW c \in Clients, HubUnregister(c) PROVE LifeInv'
  BY <1>3 DEF HubUnregister, CloseChan
<1>4. ASSUME NEW c \in Clients, HubSend(c) PROVE LifeInv'
  BY <1>4 DEF HubSend, serveVars
<1>5. ASSUME NEW c \in Clients, HubEvict(c) PROVE LifeInv'
  BY <1>5 DEF HubEvict, CloseChan, serveVars
<1>6. ASSUME NEW c \in Clients, HubDropped(c) PROVE LifeInv'
  BY <1>6 DEF HubDropped, serveVars, chanVars
<1>7. ASSUME NEW c \in Clients,
             \/ HandleWS(c) \/ RegisterAfterDone(c) \/ UnregisterAfterDone(c)
             \/ SendInitialPanics(c) \/ ReadError(c)
      PROVE  LifeInv'
  BY <1>7 DEF HandleWS, RegisterAfterDone, UnregisterAfterDone,
     SendInitialPanics, ReadError, hubVars, chanVars
<1>8. ASSUME NEW c \in Clients, SendInitial(c) PROVE LifeInv'
  BY <1>8 DEF SendInitial, hubVars
<1>9. CASE UNCHANGED <<hubVars, serve, closed>>
  BY <1>9 DEF hubVars
<1> QED
  BY <1>1, <1>2, <1>3, <1>4, <1>5, <1>6, <1>7, <1>8, <1>9, NextCases DEF vars,
     serveVars, chanVars, BroadcastCall, BroadcastEnqueue, BroadcastAbandon,
     WriterTake, WriterClosed, WriterCtxDone, WriteOk, WriteFails,
     PeerLeaves

LEMMA LifeCorrect == Spec => []LifeInv
<1>1. TypeInv /\ [Next]_vars => TypeInv'
  BY FeedTypeStep, HubTypeStep, ChanTypeStep, ConnTypeStep DEF TypeInv, TypeOK
<1>2. (TypeInv /\ LifeInv) /\ [Next]_vars => (TypeInv /\ LifeInv)'
  BY <1>1, LifeStep
<1> QED
  BY TypeInit, LifeInit, <1>2, PTL DEF Spec

\* For any number of connections, whatever their timing: the hub goroutine
\* never sends on a closed channel nor closes one twice.
THEOREM HubIsPanicFree == Spec => []HubNeverPanics
  BY LifeCorrect, PTL DEF LifeInv

\* No handler returns while the running hub still has its connection.
THEOREM NoGhosts == Spec => []NoGhostClient
  BY LifeCorrect, PTL DEF LifeInv

\* No attached connection is out of the map of the running hub with an open
\* channel.
THEOREM NoClientIsDeaf == Spec => []NoDeafClient
  BY LifeCorrect, PTL DEF LifeInv
-----------------------------------------------------------------------------
(* The panic of the initial send.  Only an eviction closes the channel of a
   connection that has not returned from register_, and an eviction needs a
   full channel. *)
FloodInv ==
  /\ PanicsOnlyIfFlooded
  /\ \A c \in Clients :
       serve[c] = "registered" /\ closed[c] => Len(queued[c]) >= SendCap

LEMMA FloodInit == Init => FloodInv
  BY DEF Init, FloodInv, PanicsOnlyIfFlooded

\* A message more in a channel floods no other channel less.
LEMMA EnqueueGrows ==
  ASSUME ChanTypeOK, NEW c \in Clients, NEW m, Enqueue(c, m), NEW d \in Clients
  PROVE  Len(queued'[d]) \in Nat /\ Len(queued'[d]) >= Len(queued[d])
<1>1. queued[c] \in Seq(0..MaxMsg) /\ queued[d] \in Seq(0..MaxMsg)
  BY DEF ChanTypeOK
<1>2. queued'[d] = IF d = c THEN Append(queued[c], m) ELSE queued[d]
  BY DEF Enqueue, ChanTypeOK
<1>3. Len(Append(queued[c], m)) = Len(queued[c]) + 1
  BY <1>1
<1> QED
  BY <1>1, <1>2, <1>3

LEMMA FloodStep ==
  ASSUME TypeInv, LifeInv, FloodInv, [Next]_vars PROVE FloodInv'
<1> SUFFICES ASSUME NEW d \in Clients
             PROVE  /\ serve'[d] = "panicking" => Len(queued'[d]) >= SendCap
                    /\ serve'[d] = "registered" /\ closed'[d]
                         => Len(queued'[d]) >= SendCap
  BY DEF FloodInv, PanicsOnlyIfFlooded
<1>1. /\ serve[d] = "panicking" => Len(queued[d]) >= SendCap
      /\ serve[d] = "registered" /\ closed[d] => Len(queued[d]) >= SendCap
  BY DEF FloodInv, PanicsOnlyIfFlooded
<1>2. /\ ChanTypeOK /\ Len(queued[d]) \in Nat /\ SendCap \in Nat
      /\ serve \in [Clients -> ServeStates] /\ closed \in [Clients -> BOOLEAN]
  BY CapAssumption DEF TypeInv, TypeOK, ChanTypeOK, ConnTypeOK
<1>3. ASSUME NEW c \in Clients, HubSend(c) \/ SendInitial(c)
      PROVE  /\ Len(queued'[d]) \in Nat /\ Len(queued'[d]) >= Len(queued[d])
             /\ closed' = closed /\ (serve'[d] = serve[d] \/ serve'[d] = "reading")
  <2>1. (\E m : Enqueue(c, m)) \/ queued' = queued
    BY <1>3 DEF HubSend, SendInitial
  <2> QED
    BY <1>2, <1>3, <2>1, EnqueueGrows DEF HubSend, SendInitial, serveVars
<1>4. ASSUME NEW c \in Clients, HubEvict(c) \/ HubUnregister(c)
      PROVE  /\ queued' = queued
             /\ serve'[d] \in {"registered", "panicking"} => serve'[d] = serve[d]
             /\ serve'[d] = "registered" /\ closed'[d] /\ ~closed[d]
                  => Len(queued[d]) >= SendCap
  <2>1. CASE HubEvict(c)
    <3>1. queued' = queued /\ serve' = serve /\ closed' = [closed EXCEPT ![c] = TRUE]
      BY <2>1 DEF HubEvict, serveVars, CloseChan
    <3>2. Len(queued[c]) >= SendCap
      BY <1>2, <2>1 DEF HubEvict, Buffered, ChanTypeOK
    <3> QED
      BY <1>2, <3>1, <3>2
  <2>2. CASE HubUnregister(c)
    <3>1. /\ queued' = queued /\ serve' = [serve EXCEPT ![c] = "done"]
          /\ closed' = closed \/ closed' = [closed EXCEPT ![c] = TRUE]
      BY <2>2 DEF HubUnregister, CloseChan
    <3> QED
      BY <1>2, <3>1
  <2> QED
    BY <1>4, <2>1, <2>2
<1>5. ASSUME NEW c \in Clients, HubRegister(c) \/ RegisterAfterDone(c)
      PROVE  /\ queued' = queued /\ closed' = closed
             /\ serve'[d] = serve[d] \/ (serve'[d] = "registered" /\ ~closed[d])
  <2>1. /\ queued' = queued /\ closed' = closed /\ serve[c] = "registering"
        /\ serve' = [serve EXCEPT ![c] = "registered"]
    BY <1>5 DEF HubRegister, RegisterAfterDone, chanVars
  <2>2. ~closed[c]
    BY <2>1 DEF LifeInv
  <2> QED
    BY <1>2, <2>1, <2>2
<1>6. ASSUME NEW c \in Clients, SendInitialPanics(c)
      PROVE  /\ queued' = queued /\ closed' = closed
             /\ \/ serve'[d] = serve[d]
                \/ serve'[d] = "panicking" /\ serve[d] = "registered" /\ closed[d]
  BY <1>2, <1>6 DEF SendInitialPanics, chanVars
<1>7. ASSUME NEW c \in Clients,
             HandleWS(c) \/ UnregisterAfterDone(c) \/ ReadError(c)
      PROVE  /\ queued' = queued /\ closed' = closed
             /\ serve'[d] = serve[d] \/ serve'[d] \notin {"registered", "panicking"}
  BY <1>2, <1>7 DEF HandleWS, UnregisterAfterDone, ReadError, chanVars
<1>8. CASE UNCHANGED <<serve, queued, closed>>
  BY <1>1, <1>8
<1> QED
  BY <1>1, <1>2, <1>3, <1>4, <1>5, <1>6, <1>7, <1>8, NextCases
     DEF vars, serveVars, chanVars, BroadcastCall, BroadcastEnqueue, BroadcastAbandon,
     HubStop, HubReceive, HubFanoutDone, HubDropped, WriterTake, WriterClosed,
     WriterCtxDone, WriteOk, WriteFails, PeerLeaves

\* The recovered panic of c.send <- initial hits only a connection that the hub
\* sent a whole buffer of broadcasts before.
THEOREM OnlyTheFloodedPanic == Spec => []PanicsOnlyIfFlooded
<1>1. TypeInv /\ [Next]_vars => TypeInv'
  BY FeedTypeStep, HubTypeStep, ChanTypeStep, ConnTypeStep DEF TypeInv, TypeOK
<1>2. TypeInv /\ LifeInv /\ [Next]_vars => LifeInv'
  BY LifeStep
<1>3. TypeInv /\ LifeInv /\ FloodInv /\ [Next]_vars => FloodInv'
  BY FloodStep
<1>4. Spec => []FloodInv
  BY TypeInit, LifeInit, FloodInit, <1>1, <1>2, <1>3, PTL DEF Spec
<1> QED
  BY <1>4, PTL DEF FloodInv
-----------------------------------------------------------------------------
(***************************************************************************)
(* The order of delivery.  DeliveredInOrder speaks of what is queued; to   *)
(* be inductive it needs where the next broadcast of a member belongs,     *)
(* that the channel broadcast holds the very next numbers, and that a      *)
(* connection queues its snapshot once.                                    *)
(***************************************************************************)
NoInitial(q) == \A i \in 1..Len(q) : q[i] # Initial

\* The channel broadcast holds the numbers that follow current.
Numbered ==
  /\ todo # {} => current > 0
  /\ ~HubDone => /\ \A i \in 1..Len(bcast) : bcast[i] = current + i
                 /\ sent = current + Len(bcast)
                             + (IF prod = "sending" THEN 1 ELSE 0)

\* The next broadcast of a member belongs at the end of its stream.
Placed(c) ==
  /\ serve[c] \in {"idle", "registering"} => queued[c] = << >>
  /\ serve[c] \in {"idle", "registering", "registered", "panicking"}
       => NoInitial(queued[c])
  /\ c \in clients /\ ~HubDone =>
       joined[c] + StreamPos(queued[c], Len(queued[c]) + 1)
         = current + (IF c \in todo THEN 0 ELSE 1)

StreamInv == Numbered /\ (\A c \in Clients : Placed(c)) /\ DeliveredInOrder

\* A message put on a channel moves no earlier message of the stream.
LEMMA PosOfPrefix ==
  ASSUME NEW q \in Seq(Nat), NEW m \in Nat, NEW i \in 1..(Len(q) + 1)
  PROVE  StreamPos(Append(q, m), i) = StreamPos(q, i)
<1>1. \A j \in 1..(i - 1) : Append(q, m)[j] = q[j]
  OBVIOUS
<1> QED
  BY <1>1 DEF StreamPos

\* A broadcast takes one place of the stream, the snapshot takes none.
LEMMA PosOfNext ==
  ASSUME NEW q \in Seq(Nat), NEW m \in Nat, m = Initial => NoInitial(q)
  PROVE  StreamPos(Append(q, m), Len(q) + 2) =
           StreamPos(q, Len(q) + 1) + (IF m = Initial THEN 0 ELSE 1)
<1> DEFINE q2 == Append(q, m)
<1>0. Len(q) \in Nat
  OBVIOUS
<1>1. (\A j \in 1..Len(q) : q2[j] = q[j]) /\ q2[Len(q) + 1] = m
  OBVIOUS
<1>2. StreamPos(q, Len(q) + 1) =
        IF \E j \in 1..Len(q) : q[j] = Initial THEN Len(q) ELSE Len(q) + 1
  BY <1>0 DEF StreamPos
<1>3. StreamPos(q2, Len(q) + 2) =
        IF \E j \in 1..(Len(q) + 1) : q2[j] = Initial
          THEN Len(q) + 1 ELSE Len(q) + 2
  BY <1>0 DEF StreamPos
<1>4. CASE m = Initial
  <2>1. \E j \in 1..(Len(q) + 1) : q2[j] = Initial
    BY <1>0, <1>1, <1>4
  <2>2. ~ \E j \in 1..Len(q) : q[j] = Initial
    BY <1>4 DEF NoInitial
  <2> QED
    BY <1>0, <1>2, <1>3, <1>4, <2>1, <2>2
<1>5. CASE m # Initial
  <2>1. (\E j \in 1..(Len(q) + 1) : q2[j] = Initial)
          <=> (\E j \in 1..Len(q) : q[j] = Initial)
    BY <1>0, <1>1, <1>5
  <2> QED
    BY <1>0, <1>2, <1>3, <1>5, <2>1
<1> QED
  BY <1>4, <1>5

LEMMA StreamInit == Init => StreamInv
<1> SUFFICES ASSUME Init PROVE StreamInv
  OBVIOUS
<1>1. \A c \in Clients : queued[c] = << >> /\ Len(queued[c]) = 0
  BY DEF Init
<1>2. DeliveredInOrder
  BY <1>1 DEF DeliveredInOrder
<1> QED
  BY <1>1, <1>2 DEF Init, StreamInv, Numbered, Placed, NoInitial

\* Queueing a broadcast that is next in the stream, or the only snapshot.
LEMMA EnqueueInOrder ==
  ASSUME ChanTypeOK, joined \in [Clients -> 0..MaxMsg], StreamInv,
         NEW c \in Clients, NEW m \in 0..MaxMsg, Enqueue(c, m),
         UNCHANGED joined,
         m = Initial => NoInitial(queued[c]),
         m # Initial =>
           m = joined[c] + StreamPos(queued[c], Len(queued[c]) + 1)
  PROVE  DeliveredInOrder'
<1> DEFINE q == queued[c]
           q2 == Append(q, m)
<1>1. q \in Seq(Nat) /\ Len(q) \in Nat /\ m \in Nat
  BY CapAssumption DEF ChanTypeOK
<1>2. queued'[c] = q2 /\ \A d \in Clients \ {c} : queued'[d] = queued[d]
  BY DEF Enqueue, ChanTypeOK
<1>3. Len(q2) = Len(q) + 1
  BY <1>1
<1>4. ASSUME NEW i \in 1..Len(q2), q2[i] # Initial
      PROVE  q2[i] = joined[c] + StreamPos(q2, i)
  <2>1. StreamPos(q2, i) = StreamPos(q, i)
    BY <1>1, <1>3, PosOfPrefix
  <2>2. CASE i = Len(q) + 1
    BY <1>1, <1>4, <2>1, <2>2
  <2>3. CASE i \in 1..Len(q)
    <3>1. q2[i] = q[i]
      BY <1>1, <2>3
    <3> QED
      BY <1>4, <2>1, <2>3, <3>1 DEF StreamInv, DeliveredInOrder
  <2> QED
    BY <1>1, <1>3, <2>2, <2>3
<1>5. ASSUME NEW d \in Clients, NEW i \in 1..Len(queued'[d]),
             queued'[d][i] # Initial
      PROVE  queued'[d][i] = joined[d] + StreamPos(queued'[d], i)
  <2>1. CASE d = c
    BY <1>2, <1>4, <1>5, <2>1
  <2>2. CASE d # c
    BY <1>2, <1>5, <2>2 DEF StreamInv, DeliveredInOrder
  <2> QED
    BY <2>1, <2>2
<1> QED
  BY <1>5 DEF DeliveredInOrder, Initial

LEMMA NumberedStep ==
  ASSUME TypeInv, LifeInv, Numbered, [Next]_vars
  PROVE  Numbered'
<1>0. /\ sent \in Int /\ current \in Int /\ Len(bcast) \in Nat
      /\ bcast \in Seq(Int) /\ prod \in {"idle", "sending"}
  BY CapAssumption DEF TypeInv, TypeOK, FeedTypeOK, HubTypeOK
<1>1. CASE BroadcastCall
  BY <1>0, <1>1 DEF BroadcastCall, hubVars, Numbered, HubDone
<1>2. CASE BroadcastEnqueue
  <2>1. /\ Len(bcast') = Len(bcast) + 1 /\ bcast'[Len(bcast) + 1] = sent
        /\ \A i \in 1..Len(bcast) : bcast'[i] = bcast[i]
    BY <1>0, <1>2 DEF BroadcastEnqueue
  <2>2. prod = "sending" /\ prod' = "idle" /\ UNCHANGED <<sent, current, hub, todo>>
    BY <1>2 DEF BroadcastEnqueue, hubVars
  <2> QED
    BY <1>0, <2>1, <2>2 DEF Numbered, HubDone
<1> USE DEF TypeInv, TypeOK, FeedTypeOK, HubTypeOK, HubStates, Numbered,
     HubDone
<1>3. CASE BroadcastAbandon
  BY <1>3 DEF BroadcastAbandon, hubVars
<1>4. CASE HubReceive
  <2>1. /\ current' = bcast[1] /\ Len(bcast') = Len(bcast) - 1
        /\ \A i \in 1..Len(bcast') : bcast'[i] = bcast[i + 1]
        /\ Len(bcast) \in Nat /\ Len(bcast) > 0
    BY <1>4 DEF HubReceive
  <2>2. hub = "select" /\ hub' = "fanout" /\ UNCHANGED <<sent, prod>>
    BY <1>4 DEF HubReceive
  <2>3. current' = current + 1
    BY <2>1, <2>2
  <2> QED
    BY <2>1, <2>2, <2>3, CapAssumption
<1>5. CASE UNCHANGED <<feedVars, current>> /\ (HubDone => HubDone')
           /\ todo' \subseteq todo
  BY <1>5 DEF feedVars
<1> QED
  BY <1>1, <1>2, <1>3, <1>4, <1>5, NextCases DEF LifeInv, HubNeverPanics, vars,
     hubVars, HubStop, HubFanoutDone, HubRegister, HubUnregister,
     HubSend, HubEvict, HubDropped, HandleWS, RegisterAfterDone,
     UnregisterAfterDone, SendInitial, SendInitialPanics, ReadError,
     WriterTake, WriterClosed, WriterCtxDone, WriteOk, WriteFails, PeerLeaves

LEMMA PlacedStep ==
  ASSUME TypeInv, LifeInv, StreamInv, [Next]_vars, NEW d \in Clients
  PROVE  Placed(d)'
<1>0. Placed(d)
  BY DEF StreamInv, Placed
<1> USE DEF TypeInv, TypeOK, HubTypeOK, HubStates, ConnTypeOK, ServeStates,
     HubDone
<1>1. CASE HubReceive
  <2>1. current' = current + 1
    <3>1. bcast # << >> /\ current' = Head(bcast) /\ hub = "select"
      BY <1>1 DEF HubReceive
    <3>2. Len(bcast) \in Nat /\ Len(bcast) > 0 /\ Head(bcast) = bcast[1]
      BY <3>1 DEF FeedTypeOK
    <3> QED
      BY <3>1, <3>2 DEF StreamInv, Numbered
  <2>2. todo = {} /\ todo' = clients /\ hub = "select"
        /\ UNCHANGED <<serve, queued, joined, clients>>
    BY <1>1 DEF HubReceive, LifeInv, serveVars, chanVars
  <2> QED
    BY <1>0, <2>1, <2>2 DEF Placed
<1>2. ASSUME NEW c \in Clients, HubRegister(c) PROVE Placed(d)'
  <2>1. CASE d = c
    <3>1. /\ queued[d] = << >> /\ queued' = queued
          /\ joined'[d] = current /\ current' = current
          /\ d \notin todo' /\ serve'[d] = "registered"
      BY <1>0, <1>2, <2>1 DEF HubRegister, LifeInv, Placed, chanVars
    <3>2. StreamPos(<< >>, 1) = 1 /\ NoInitial(<< >>)
      BY DEF StreamPos, NoInitial
    <3> QED
      BY <3>1, <3>2 DEF Placed
  <2>2. CASE d # c
    BY <1>0, <1>2, <2>2 DEF HubRegister, Placed, chanVars
  <2> QED
    BY <2>1, <2>2
<1>3. ASSUME NEW c \in Clients, HubUnregister(c) PROVE Placed(d)'
  BY <1>0, <1>3 DEF HubUnregister, Placed
<1>4. ASSUME NEW c \in Clients, HubSend(c) PROVE Placed(d)'
  <2>1. ~closed[c] /\ Enqueue(c, current) /\ UNCHANGED hub
    BY <1>4 DEF HubSend, LifeInv, HubNeverPanics
  <2>2. CASE d = c
    <3> DEFINE q == queued[d]
    <3>1. queued'[d] = Append(q, current) /\ q \in Seq(Nat) /\ Len(q) \in Nat
      BY <2>1, <2>2, CapAssumption DEF Enqueue, ChanTypeOK
    <3>2. current \in Nat /\ current # Initial /\ c \in todo
      BY <1>4, CapAssumption DEF HubSend, StreamInv, Numbered, Initial
    <3>3. Len(queued'[d]) + 1 = Len(q) + 2
      BY <3>1, <3>2
    <3>4. StreamPos(queued'[d], Len(queued'[d]) + 1)
            = StreamPos(q, Len(q) + 1) + 1
      BY <3>1, <3>2, <3>3, PosOfNext
    <3>5. /\ d \in clients /\ d \notin todo' /\ hub = "fanout"
          /\ UNCHANGED <<serve, joined, current, clients>>
      BY <1>4, <2>2, <3>2 DEF HubSend, LifeInv, serveVars
    <3>6. serve[d] \notin {"idle", "registering"}
      BY <3>5 DEF LifeInv
    <3>7. NoInitial(q) => NoInitial(queued'[d])
      BY <3>1, <3>2 DEF NoInitial
    <3>8. StreamPos(q, Len(q) + 1) \in Int /\ joined[d] \in Int
      BY <3>1 DEF StreamPos
    <3>9. ~HubDone /\ ~HubDone' /\ d \in todo
      BY <2>1, <2>2, <3>2, <3>5
    <3>10. joined[d] + StreamPos(q, Len(q) + 1) = current
      BY <1>0, <3>5, <3>9 DEF Placed
    <3>11. (joined[d] + StreamPos(queued[d], Len(queued[d]) + 1))' = current' + 1
      BY <3>2, <3>4, <3>5, <3>8, <3>10
    <3> QED
      BY <1>0, <3>5, <3>6, <3>7, <3>11 DEF Placed
  <2>3. CASE d # c
    BY <1>0, <1>4, <2>1, <2>3 DEF HubSend, Enqueue, Placed, ChanTypeOK,
       serveVars
  <2> QED
    BY <2>2, <2>3
<1>5. ASSUME NEW c \in Clients, HubEvict(c) PROVE Placed(d)'
  BY <1>0, <1>5 DEF HubEvict, Placed, serveVars
<1>6. ASSUME NEW c \in Clients, SendInitial(c) PROVE Placed(d)'
  <2>1. CASE UNCHANGED queued
    BY <1>0, <1>6, <2>1 DEF SendInitial, Placed, hubVars
  <2>2. CASE Enqueue(c, Initial) /\ d = c
    <3> DEFINE q == queued[d]
    <3>1. queued'[d] = Append(q, Initial) /\ q \in Seq(Nat) /\ Len(q) \in Nat
      BY <2>2, CapAssumption DEF Enqueue, ChanTypeOK
    <3>2. NoInitial(q) /\ serve[d] = "registered" /\ serve'[d] = "reading"
          /\ UNCHANGED <<joined, hub, current, todo, clients>>
      BY <1>0, <1>6, <2>2 DEF SendInitial, Placed, hubVars
    <3>3. Initial \in Nat /\ Len(queued'[d]) + 1 = Len(q) + 2
      BY <3>1 DEF Initial
    <3>4. StreamPos(queued'[d], Len(queued'[d]) + 1)
            = StreamPos(q, Len(q) + 1)
      <4>1. StreamPos(q, Len(q) + 1) \in Int
        BY <3>1 DEF StreamPos
      <4> QED
        BY <3>1, <3>2, <3>3, <4>1, PosOfNext
    <3> QED
      BY <1>0, <3>2, <3>4 DEF Placed
  <2>3. CASE Enqueue(c, Initial) /\ d # c
    BY <1>0, <1>6, <2>3 DEF SendInitial, Enqueue, Placed, ChanTypeOK, hubVars
  <2> QED
    BY <1>6, <2>1, <2>2, <2>3 DEF SendInitial
<1>7. ASSUME NEW c \in Clients,
             \/ HandleWS(c) \/ RegisterAfterDone(c) \/ UnregisterAfterDone(c)
             \/ SendInitialPanics(c) \/ ReadError(c)
      PROVE  Placed(d)'
  BY <1>0, <1>7 DEF HandleWS, RegisterAfterDone, UnregisterAfterDone,
     SendInitialPanics, ReadError, Placed, hubVars, chanVars
<1>8. CASE HubStop \/ HubFanoutDone
  BY <1>0, <1>8 DEF HubStop, HubFanoutDone, Placed, serveVars, chanVars
<1>9. ASSUME NEW c \in Clients, HubDropped(c) PROVE Placed(d)'
  BY <1>0, <1>9 DEF HubDropped, Placed, serveVars, chanVars
<1>10. CASE UNCHANGED <<hubVars, serve, queued, joined>>
  BY <1>0, <1>10 DEF Placed, hubVars
<1> QED
  BY <1>1, <1>2, <1>3, <1>4, <1>5, <1>6, <1>7, <1>8, <1>9, <1>10, NextCases
  DEF vars, serveVars, chanVars, BroadcastCall, BroadcastEnqueue,
     BroadcastAbandon, WriterTake, WriterClosed, WriterCtxDone,
     WriteOk, WriteFails, PeerLeaves

LEMMA OrderStep ==
  ASSUME TypeInv, LifeInv, StreamInv, [Next]_vars
  PROVE  DeliveredInOrder'
<1>0. ChanTypeOK /\ joined \in [Clients -> 0..MaxMsg] /\ current \in 0..MaxMsg
      /\ Initial \in 0..MaxMsg
  BY CapAssumption DEF TypeInv, TypeOK, HubTypeOK, Initial
<1>1. ASSUME NEW c \in Clients, HubSend(c) PROVE DeliveredInOrder'
  <2>1. ~closed[c] /\ Enqueue(c, current) /\ UNCHANGED joined
    BY <1>1 DEF HubSend, LifeInv
  <2>2. current = joined[c] + StreamPos(queued[c], Len(queued[c]) + 1)
        /\ current # Initial
    BY <1>0, <1>1 DEF HubSend, StreamInv, Numbered, Placed, LifeInv, HubDone,
       Initial
  <2> QED
    BY <1>0, <2>1, <2>2, EnqueueInOrder
<1>2. ASSUME NEW c \in Clients, SendInitial(c), Enqueue(c, Initial)
      PROVE  DeliveredInOrder'
  <2>1. NoInitial(queued[c]) /\ UNCHANGED joined
    BY <1>2 DEF SendInitial, StreamInv, Placed
  <2> QED
    BY <1>0, <1>2, <2>1, EnqueueInOrder
<1>3. ASSUME NEW c \in Clients, HubRegister(c) PROVE DeliveredInOrder'
  <2>1. queued[c] = << >> /\ UNCHANGED queued
    BY <1>3 DEF HubRegister, StreamInv, Placed, chanVars
  <2>2. \A d \in Clients \ {c} : joined'[d] = joined[d]
    BY <1>0, <1>3 DEF HubRegister
  <2> QED
    BY <2>1, <2>2 DEF StreamInv, DeliveredInOrder
<1>4. CASE UNCHANGED <<queued, joined>>
  BY <1>4 DEF StreamInv, DeliveredInOrder
<1> QED
  BY <1>1, <1>2, <1>3, <1>4, NextCases DEF vars, chanVars, BroadcastCall,
     BroadcastEnqueue, BroadcastAbandon, HubStop, HubReceive,
     HubFanoutDone, HubUnregister, HubEvict, HubDropped, HandleWS,
     RegisterAfterDone, UnregisterAfterDone, SendInitial, SendInitialPanics,
     ReadError, WriterTake, WriterClosed, WriterCtxDone, WriteOk, WriteFails,
     PeerLeaves

\* Every connection is handed the broadcasts that follow its registration, all
\* of them and in order, for as long as the hub keeps it.
THEOREM StreamsAreContiguous == Spec => []DeliveredInOrder
<1>1. TypeInv /\ [Next]_vars => TypeInv'
  BY FeedTypeStep, HubTypeStep, ChanTypeStep, ConnTypeStep DEF TypeInv, TypeOK
<1>2. TypeInv /\ LifeInv /\ [Next]_vars => LifeInv'
  BY LifeStep
<1>3. TypeInv /\ LifeInv /\ StreamInv /\ [Next]_vars => StreamInv'
  <2> SUFFICES ASSUME TypeInv, LifeInv, StreamInv, [Next]_vars
               PROVE  StreamInv'
    OBVIOUS
  <2>1. Numbered'
    BY NumberedStep DEF StreamInv
  <2>2. \A d \in Clients : Placed(d)'
    BY PlacedStep
  <2> QED
    BY <2>1, <2>2, OrderStep DEF StreamInv
<1>4. Spec => []StreamInv
  BY TypeInit, LifeInit, StreamInit, <1>1, <1>2, <1>3, PTL DEF Spec
<1> QED
  BY <1>4, PTL DEF StreamInv
-----------------------------------------------------------------------------
(***************************************************************************)
(* The hub implements the safety of FeedBus.  What a step does to the bus  *)
(* follows from the invariants above: no member misses a message when the  *)
(* next one is received, a member that is visited misses exactly that one, *)
(* and a connection is "new" until the hub adds it.                        *)
(***************************************************************************)
LEMMA WithoutInitialLen ==
  ASSUME NEW q \in Seq(Nat)
  PROVE  /\ WithoutInitial(q) \in Seq(Nat)
         /\ Len(WithoutInitial(q)) = StreamPos(q, Len(q) + 1) - 1
<1> DEFINE n == StreamPos(q, Len(q) + 1) - 1
<1>1. Len(q) \in Nat /\ \A i \in 1..Len(q) : q[i] \in Nat
  OBVIOUS
<1>2. n = IF \E j \in 1..Len(q) : q[j] = Initial THEN Len(q) - 1 ELSE Len(q)
  BY <1>1 DEF StreamPos
<1>3. n \in Nat
  BY <1>1, <1>2
<1>4. ASSUME NEW i \in 1..n
      PROVE  (IF \E j \in 1..i : q[j] = Initial THEN i + 1 ELSE i) \in 1..Len(q)
  <2>1. CASE \E j \in 1..Len(q) : q[j] = Initial
    BY <1>1, <1>2, <2>1
  <2>2. CASE ~ \E j \in 1..Len(q) : q[j] = Initial
    BY <1>1, <1>2, <2>2
  <2> QED
    BY <2>1, <2>2
<1>5. WithoutInitial(q) \in [1..n -> Nat]
  BY <1>1, <1>4 DEF WithoutInitial
<1> QED
  BY <1>3, <1>5

\* Queueing the only snapshot leaves the stream of broadcasts as it is.
LEMMA WithoutSnapshot ==
  ASSUME NEW q \in Seq(Nat), NoInitial(q)
  PROVE  WithoutInitial(Append(q, Initial)) = WithoutInitial(q)
<1> DEFINE q2 == Append(q, Initial)
<1>1. /\ Len(q) \in Nat /\ Len(q2) = Len(q) + 1 /\ q2[Len(q) + 1] = Initial
      /\ \A i \in 1..Len(q) : q2[i] = q[i] /\ q[i] # Initial
  BY DEF NoInitial
<1>2. StreamPos(q, Len(q) + 1) - 1 = Len(q) /\ StreamPos(q2, Len(q2) + 1) - 1 = Len(q)
  BY <1>1 DEF StreamPos
<1>3. ASSUME NEW i \in 1..Len(q)
      PROVE  /\ ~ \E j \in 1..i : q[j] = Initial
             /\ ~ \E j \in 1..i : q2[j] = Initial
             /\ q2[i] = q[i]
  BY <1>1
<1> HIDE DEF q2
<1>4. /\ WithoutInitial(q) = [i \in 1..Len(q) |-> q[i]]
      /\ WithoutInitial(q2) = [i \in 1..Len(q) |-> q[i]]
  BY <1>2, <1>3 DEF WithoutInitial
<1> QED
  BY <1>4 DEF q2

\* A broadcast is appended to it.
LEMMA WithoutNext ==
  ASSUME NEW q \in Seq(Nat), NEW m \in Nat, m # Initial
  PROVE  WithoutInitial(Append(q, m)) = Append(WithoutInitial(q), m)
<1> DEFINE Seen(p, i) == \E j \in 1..i : p[j] = Initial
           At(p, i) == p[IF Seen(p, i) THEN i + 1 ELSE i]
<1>1. PICK q2, n : q2 = Append(q, m) /\ n = Len(WithoutInitial(q))
  OBVIOUS
<1>2. /\ Len(q) \in Nat /\ Len(q2) = Len(q) + 1 /\ q2[Len(q) + 1] = m
      /\ \A i \in 1..Len(q) : q2[i] = q[i]
  BY <1>1
<1>3. n \in Nat /\ WithoutInitial(q) \in Seq(Nat) /\ n = StreamPos(q, Len(q) + 1) - 1
  BY <1>1, WithoutInitialLen
<1>4. n = IF Seen(q, Len(q)) THEN Len(q) - 1 ELSE Len(q)
  BY <1>2, <1>3 DEF StreamPos
<1>5. StreamPos(q2, Len(q2) + 1) - 1 = n + 1
  <2>1. StreamPos(q2, Len(q) + 2) = StreamPos(q, Len(q) + 1) + 1
    BY <1>1, PosOfNext
  <2>2. Len(q2) + 1 = Len(q) + 2 /\ StreamPos(q, Len(q) + 1) \in Int
    BY <1>2 DEF StreamPos
  <2> QED
    BY <1>3, <2>1, <2>2
<1>6. /\ WithoutInitial(q) = [i \in 1..n |-> At(q, i)]
      /\ WithoutInitial(q2) = [i \in 1..(n + 1) |-> At(q2, i)]
  BY <1>3, <1>5, Zenon DEF WithoutInitial
<1>7. At(q2, n + 1) = m
  <2>1. CASE Seen(q, Len(q))
    BY <1>2, <1>4, <2>1
  <2>2. CASE ~Seen(q, Len(q))
    BY <1>2, <1>4, <2>2
  <2> QED
    BY <2>1, <2>2
<1>8. ASSUME NEW i \in 1..n PROVE At(q2, i) = At(q, i)
  <2>1. i \in 1..Len(q) /\ (Seen(q, i) => i + 1 \in 1..Len(q))
    BY <1>2, <1>3, <1>4
  <2>2. \A j \in 1..i : q2[j] = q[j]
    BY <1>2, <2>1
  <2>3. Seen(q2, i) <=> Seen(q, i)
    BY <2>2
  <2> HIDE DEF Seen
  <2> QED
    BY <1>2, <2>1, <2>3
<1> HIDE DEF At
<1>9. /\ Append(WithoutInitial(q), m) \in [1..(n + 1) -> Nat]
      /\ \A i \in 1..n : Append(WithoutInitial(q), m)[i] = WithoutInitial(q)[i]
      /\ Append(WithoutInitial(q), m)[n + 1] = m
  <2>1. PICK w \in Seq(Nat) : w = WithoutInitial(q)
    BY <1>3
  <2>2. Len(w) = n
    BY <1>1, <2>1
  <2>3. /\ Append(w, m) \in Seq(Nat) /\ Len(Append(w, m)) = n + 1
        /\ \A i \in 1..n : Append(w, m)[i] = w[i]
        /\ Append(w, m)[n + 1] = m
    BY <1>3, <2>2
  <2>4. Append(w, m) \in [1..(n + 1) -> Nat]
    <3>1. PICK v \in Seq(Nat) : v = Append(w, m) /\ Len(v) = n + 1
      BY <2>3
    <3>2. v \in [1..Len(v) -> Nat]
      OBVIOUS
    <3> QED
      BY <3>1, <3>2, Zenon
  <2> QED
    BY <2>1, <2>3, <2>4
<1>10. ASSUME NEW i \in 1..(n + 1)
       PROVE  At(q2, i) = Append(WithoutInitial(q), m)[i]
  <2>1. CASE i = n + 1
    BY <1>7, <1>9, <2>1
  <2>2. CASE i \in 1..n
    <3>1. WithoutInitial(q)[i] = At(q, i)
      BY <1>6, <2>2
    <3> QED
      BY <1>8, <1>9, <2>2, <3>1
  <2>3. i = n + 1 \/ i \in 1..n
    BY <1>3
  <2> QED
    BY <2>1, <2>2, <2>3, Zenon
<1>11. WithoutInitial(q2) = Append(WithoutInitial(q), m)
  BY <1>6, <1>9, <1>10
<1> QED
  BY <1>1, <1>11

HubInv == TypeInv /\ LifeInv /\ StreamInv

\* The variables of the bus, as the hub's.
Status == [c \in Clients |-> IF c \in clients THEN "member"
                             ELSE IF closed[c] THEN "left" ELSE "new"]
Stream == [c \in Clients |-> Broadcasts(c)]

LEMMA BusInitial == Init => Bus!BusInit
<1> SUFFICES ASSUME Init PROVE Bus!BusInit
  OBVIOUS
<1>1. WithoutInitial(<< >>) = << >>
  <2>1. << >> \in Seq(Nat) /\ Len(<< >>) = 0 /\ StreamPos(<< >>, 1) = 1
    BY DEF StreamPos
  <2>2. PICK q, n : q = << >> /\ n = Len(q)
    OBVIOUS
  <2>3. q \in Seq(Nat) /\ n = 0 /\ StreamPos(q, n + 1) = 1
    BY <2>1, <2>2
  <2>4. PICK w : w = WithoutInitial(q)
    OBVIOUS
  <2>5. w \in Seq(Nat) /\ Len(w) = 0
    <3>1. /\ WithoutInitial(q) \in Seq(Nat)
          /\ Len(WithoutInitial(q)) = StreamPos(q, n + 1) - 1
      BY ONLY <2>2, <2>3, WithoutInitialLen, Zenon
    <3> QED
      BY <2>3, <2>4, <3>1
  <2>6. w = << >>
    BY <2>5
  <2> QED
    BY <2>2, <2>4, <2>6
<1>2. \A c \in Clients : Broadcasts(c) = << >> /\ c \notin clients /\ ~closed[c]
  BY <1>1 DEF Init, Broadcasts
<1> QED
  BY <1>2 DEF Init, Bus!BusInit

\* How far a member is behind: one message while the fan-out has still to visit
\* it, else none.
LEMMA MemberMissing ==
  ASSUME HubInv, NEW c \in clients, ~HubDone
  PROVE  /\ c \in Clients /\ Broadcasts(c) \in Seq(Nat)
         /\ current = joined[c] + Len(Broadcasts(c)) + (IF c \in todo THEN 1 ELSE 0)
         /\ joined[c] \in Nat /\ Len(Broadcasts(c)) \in Nat
<1>1. c \in Clients /\ queued[c] \in Seq(Nat) /\ joined[c] \in Nat
  BY CapAssumption DEF HubInv, TypeInv, TypeOK, HubTypeOK, ChanTypeOK
<1>2. joined[c] + StreamPos(queued[c], Len(queued[c]) + 1)
        = current + (IF c \in todo THEN 0 ELSE 1)
  BY <1>1 DEF HubInv, StreamInv, Placed
<1>3. /\ Broadcasts(c) \in Seq(Nat) /\ Len(Broadcasts(c)) \in Nat
      /\ Len(Broadcasts(c)) = StreamPos(queued[c], Len(queued[c]) + 1) - 1
  BY <1>1, WithoutInitialLen DEF Broadcasts
<1>4. current \in Int /\ StreamPos(queued[c], Len(queued[c]) + 1) \in Int
  BY <1>1 DEF HubInv, TypeInv, TypeOK, HubTypeOK, StreamPos
<1> QED
  BY <1>1, <1>2, <1>3, <1>4

LEMMA StreamUnchanged == ASSUME queued' = queued PROVE Stream' = Stream
  BY DEF Stream, Broadcasts

LEMMA ReceiveIsPublish == ASSUME HubInv, HubReceive PROVE Bus!Publish
<1>1. hub = "select" /\ todo = {} /\ bcast # << >>
  BY DEF HubReceive, HubInv, LifeInv
<1>2. current' = current + 1
  <2>1. current' = Head(bcast)
    BY DEF HubReceive
  <2>2. Len(bcast) \in Nat /\ Len(bcast) > 0 /\ Head(bcast) = bcast[1]
    BY <1>1 DEF HubInv, TypeInv, TypeOK, FeedTypeOK
  <2>3. bcast[1] = current + 1
    BY <1>1, <2>2 DEF HubInv, StreamInv, Numbered, HubDone
  <2> QED
    BY <2>1, <2>2, <2>3
<1>3. Status' = Status /\ joined' = joined /\ Stream' = Stream
  BY StreamUnchanged DEF HubReceive, chanVars, Status
<1>4. ASSUME NEW c \in Clients, c \in clients
      PROVE  current - (joined[c] + Len(Broadcasts(c))) = 0
  BY <1>1, <1>4, MemberMissing DEF HubDone
<1> QED
  BY <1>2, <1>3, <1>4 DEF Bus!Publish, Bus!Missing, Status, Stream

LEMMA RegisterIsJoin ==
  ASSUME HubInv, NEW c \in Clients, HubRegister(c) PROVE Bus!Join(c)
<1>1. c \notin clients /\ ~closed[c]
  BY DEF HubRegister, HubInv, LifeInv
<1>2. /\ Status[c] = "new"
      /\ Status' = [Status EXCEPT ![c] = "member"]
  BY <1>1 DEF HubRegister, chanVars, Status
<1>3. /\ joined' = [joined EXCEPT ![c] = current] /\ current' = current
      /\ Stream' = Stream
  BY StreamUnchanged DEF HubRegister, chanVars
<1> QED
  BY <1>2, <1>3 DEF Bus!Join, Status, Stream

LEMMA SendIsDeliver ==
  ASSUME HubInv, NEW c \in Clients, HubSend(c) PROVE Bus!Deliver(c)
<1>1. c \in clients /\ c \in todo /\ ~closed[c] /\ ~HubDone
  BY DEF HubSend, HubInv, LifeInv, HubDone
<1>2. queued' = [queued EXCEPT ![c] = Append(@, current)]
  BY <1>1 DEF HubSend, Enqueue
<1>3. /\ Broadcasts(c) \in Seq(Nat) /\ Len(Broadcasts(c)) \in Nat /\ joined[c] \in Nat
      /\ current = joined[c] + Len(Broadcasts(c)) + 1
  BY <1>1, MemberMissing
<1>4. Broadcasts(c)' = Append(Broadcasts(c), current)
  <2>1. /\ queued[c] \in Seq(Nat) /\ queued'[c] = Append(queued[c], current)
        /\ current \in Nat /\ current # Initial
    BY <1>1, <1>2, <1>3, CapAssumption
       DEF HubInv, TypeInv, TypeOK, ChanTypeOK, Initial
  <2> QED
    BY <2>1, WithoutNext DEF Broadcasts
<1>5. \A d \in Clients \ {c} : Broadcasts(d)' = Broadcasts(d)
  BY <1>2 DEF Broadcasts, HubInv, TypeInv, TypeOK, ChanTypeOK
<1>6. Stream' = [Stream EXCEPT ![c] = Append(@, joined[c] + Len(@) + 1)]
  BY <1>3, <1>4, <1>5 DEF Stream
<1>7. Status' = Status /\ current' = current /\ joined' = joined
  BY DEF HubSend, Status
<1>8. Status[c] = "member" /\ current - (joined[c] + Len(Stream[c])) > 0
  BY <1>1, <1>3 DEF Status, Stream
<1> QED
  BY <1>6, <1>7, <1>8 DEF Bus!Deliver, Bus!Missing, Status, Stream

LEMMA RemovalIsLeave ==
  ASSUME HubInv, NEW c \in Clients, c \in clients, clients' = clients \ {c},
         CloseChan(c), UNCHANGED <<current, joined, queued>>
  PROVE  Bus!Leave(c)
<1>1. Status[c] = "member" /\ Status' = [Status EXCEPT ![c] = "left"]
  BY DEF Status, CloseChan, HubInv, TypeInv, TypeOK, ChanTypeOK
<1>2. Stream' = Stream
  BY StreamUnchanged
<1> QED
  BY <1>1, <1>2 DEF Bus!Leave, Status, Stream

\* Serve's own message is not one of the bus.
LEMMA InitialIsNoBusStep ==
  ASSUME HubInv, NEW c \in Clients, SendInitial(c) PROVE Stream' = Stream
<1>1. CASE queued' = queued
  BY <1>1, StreamUnchanged
<1>2. CASE queued' = [queued EXCEPT ![c] = Append(@, Initial)]
  <2>1. queued[c] \in Seq(Nat) /\ NoInitial(queued[c])
    BY CapAssumption
       DEF SendInitial, HubInv, TypeInv, TypeOK, ChanTypeOK, StreamInv, Placed
  <2>2. queued'[c] = Append(queued[c], Initial)
    BY <1>2 DEF HubInv, TypeInv, TypeOK, ChanTypeOK
  <2>3. Broadcasts(c)' = Broadcasts(c)
    BY <2>1, <2>2, WithoutSnapshot DEF Broadcasts
  <2>4. \A d \in Clients \ {c} : Broadcasts(d)' = Broadcasts(d)
    BY <1>2 DEF Broadcasts, HubInv, TypeInv, TypeOK, ChanTypeOK
  <2> QED
    BY <2>3, <2>4 DEF Stream
<1> QED
  BY <1>1, <1>2 DEF SendInitial, Enqueue

LEMMA BusStep ==
  ASSUME HubInv, [Next]_vars PROVE [Bus!BusNext]_(Bus!busVars)
<1>1. UNCHANGED <<current, Status, joined, Stream>> => UNCHANGED Bus!busVars
  BY DEF Bus!busVars, Status, Stream
<1>2. CASE HubReceive
  BY <1>2, ReceiveIsPublish DEF Bus!BusNext
<1>3. ASSUME NEW c \in Clients, HubRegister(c) PROVE Bus!BusNext
  BY <1>3, RegisterIsJoin DEF Bus!BusNext
<1>4. ASSUME NEW c \in Clients, HubSend(c) PROVE Bus!BusNext
  BY <1>4, SendIsDeliver DEF Bus!BusNext
<1>5. ASSUME NEW c \in Clients, HubEvict(c) PROVE Bus!BusNext
  <2>1. c \in clients
    BY <1>5 DEF HubEvict, HubInv, LifeInv
  <2> QED
    BY <1>5, <2>1, RemovalIsLeave DEF HubEvict, Bus!BusNext
<1>6. ASSUME NEW c \in Clients, HubUnregister(c)
      PROVE  Bus!BusNext \/ UNCHANGED <<current, Status, joined, Stream>>
  <2>1. CASE c \in clients
    BY <1>6, <2>1, RemovalIsLeave DEF HubUnregister, Bus!BusNext
  <2>2. CASE c \notin clients
    BY <1>6, <2>2, StreamUnchanged DEF HubUnregister, Status
  <2> QED
    BY <2>1, <2>2
<1>7. ASSUME NEW c \in Clients, SendInitial(c)
      PROVE  UNCHANGED <<current, Status, joined, Stream>>
  BY <1>7, InitialIsNoBusStep DEF SendInitial, hubVars, Status
<1>8. CASE UNCHANGED <<current, clients, closed, joined, queued>>
  BY <1>1, <1>8, StreamUnchanged DEF Status
<1> QED
  BY <1>1, <1>2, <1>3, <1>4, <1>5, <1>6, <1>7, <1>8, NextCases
     DEF vars, hubVars, serveVars, chanVars, BroadcastCall, BroadcastEnqueue,
     BroadcastAbandon, HubStop, HubFanoutDone, HubDropped, HandleWS,
     RegisterAfterDone, UnregisterAfterDone, SendInitialPanics, ReadError,
     WriterTake, WriterClosed, WriterCtxDone, WriteOk, WriteFails, PeerLeaves

\* The hub implements the bus: each of its steps is a publication, a join, a
\* delivery or a departure of FeedBus, or nothing the bus can see.  (The fairness
\* half of ImplementsBus is checked only.)
THEOREM HubImplementsBus == Spec => Bus!BusSafety
<1>1. HubInv /\ [Next]_vars => HubInv'
  <2> SUFFICES ASSUME TypeInv, LifeInv, StreamInv, [Next]_vars
               PROVE  TypeInv' /\ LifeInv' /\ StreamInv'
    BY DEF HubInv
  <2>1. TypeInv' /\ LifeInv'
    BY FeedTypeStep, HubTypeStep, ChanTypeStep, ConnTypeStep, LifeStep
       DEF TypeInv, TypeOK
  <2>2. StreamInv'
    BY NumberedStep, PlacedStep, OrderStep DEF StreamInv
  <2> QED
    BY <2>1, <2>2
<1>2. Init => HubInv
  BY TypeInit, LifeInit, StreamInit DEF HubInv
<1>3. Spec => []HubInv
  BY <1>1, <1>2, PTL DEF Spec
<1> QED
  BY <1>3, BusInitial, BusStep, PTL DEF Spec, Bus!BusSafety
=============================================================================
