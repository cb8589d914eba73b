---------------------------- MODULE MCDemoTrading ----------------------------
(* An instance of DemoTrading for TLC. *)
EXTENDS DemoTrading, TLC

CONSTANTS a, b, c3, k1, k2

\* a and its retry b have the same key, c3 closes.
RetryKeys == a :> k1 @@ b :> k1 @@ c3 :> k2
=============================================================================
