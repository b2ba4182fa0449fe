---------------------------- MODULE MCVoteTracker ----------------------------
(* A committee of four senders, one of double weight, and three values.    *)
EXTENDS VoteTracker

MCWeight == <<1, 2, 1, 1>>
=============================================================================
