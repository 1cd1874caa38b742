-------------------------- MODULE MCAirportCaches --------------------------
(***************************************************************************)
(* AirportCaches with two concurrent requests and more stations than       *)
(* slots.  Charts and METARs share no variable and no action but Clock, and*)
(* each side only ever restricts when Clock may happen: to save states, a  *)
(* behaviour uses one of them while the other stays as it started.         *)
(***************************************************************************)
EXTENDS AirportCaches

ChartsUnused ==
  charts = [a \in Airports |-> Nothing] /\ req = [r \in Requests |-> IdleRequest]
MetarsUnused == metars = [a \in Stations |-> Nothing] /\ pc = "idle"

OneSide == ChartsUnused' \/ MetarsUnused'
=============================================================================
