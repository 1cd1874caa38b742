---------------------------- MODULE MCAtisPoller ----------------------------
(* AtisPoller on two stations and two letters, with restarts. *)
EXTENDS AtisPoller, TLC

Symmetry == Permutations(Stations) \cup Permutations(Letters)
=============================================================================
