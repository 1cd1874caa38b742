----------------------------- MODULE MCFeedHub -----------------------------
(* FeedHub on small instances. *)
EXTENDS FeedHub, TLC

Symmetry == Permutations(Clients)
=============================================================================
