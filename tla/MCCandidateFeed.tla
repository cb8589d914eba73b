---------------------------- MODULE MCCandidateFeed ----------------------------
(* Instances of CandidateFeed for TLC. *)
EXTENDS CandidateFeed

CONSTANTS btc, alt
=============================================================================
