----------------------------- MODULE MCLiveFeed -----------------------------
(* LiveFeed on one browser tab. *)
EXTENDS LiveFeed
=============================================================================
