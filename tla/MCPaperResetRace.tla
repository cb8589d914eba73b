-------------------------- MODULE MCPaperResetRace --------------------------
(* An instance of PaperResetRace for TLC: one symbol, one long signal. *)
EXTENDS PaperResetRace, TLC

CONSTANTS BTC, s1

OneSignal ==
  s1 :> [symbol |-> BTC, side |-> "LONG", entry |-> 100, stop |-> 90]
DeepQuote == {[bid |-> 99, bidQty |-> 2, ask |-> 101, askQty |-> 2]}
=============================================================================
