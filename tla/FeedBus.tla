------------------------------ MODULE FeedBus ------------------------------
(***************************************************************************)
(* What the hub promises its callers, without goroutines or channels.      *)
(* Messages are published in the order 1, 2, ...  A connection joins once, *)
(* is handed every message published after it joined, one by one and in    *)
(* that order, until it leaves, and never comes back.                      *)
(***************************************************************************)
EXTENDS Naturals, Sequences

CONSTANTS Clients

VARIABLES
  published,  \* number of messages published
  status,     \* "new", "member" or "left", per connection
  joinedAt,   \* value of published when the connection joined
  stream      \* the messages handed to each connection

busVars == <<published, status, joinedAt, stream>>

BusInit ==
  /\ published = 0
  /\ status = [c \in Clients |-> "new"]
  /\ joinedAt = [c \in Clients |-> 0]
  /\ stream = [c \in Clients |-> << >>]

Missing(c) == published - (joinedAt[c] + Len(stream[c]))

Publish ==
  /\ \A c \in Clients : status[c] = "member" => Missing(c) = 0
  /\ published' = published + 1
  /\ UNCHANGED <<status, joinedAt, stream>>

Join(c) ==
  /\ status[c] = "new"
  /\ status' = [status EXCEPT ![c] = "member"]
  /\ joinedAt' = [joinedAt EXCEPT ![c] = published]
  /\ UNCHANGED <<published, stream>>

Deliver(c) ==
  /\ status[c] = "member" /\ Missing(c) > 0
  /\ stream' = [stream EXCEPT ![c] = Append(@, joinedAt[c] + Len(@) + 1)]
  /\ UNCHANGED <<published, status, joinedAt>>

\* The connection closed, or it could not keep up.
Leave(c) ==
  /\ status[c] = "member"
  /\ status' = [status EXCEPT ![c] = "left"]
  /\ UNCHANGED <<published, joinedAt, stream>>

BusNext == Publish \/ \E c \in Clients : Join(c) \/ Deliver(c) \/ Leave(c)

\* A member that misses a message gets it or leaves.
BusFairness == \A c \in Clients : WF_busVars(Deliver(c))

BusSafety == BusInit /\ [][BusNext]_busVars
BusSpec   == BusSafety /\ BusFairness
=============================================================================
