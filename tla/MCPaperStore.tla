---------------------------- MODULE MCPaperStore ----------------------------
(* An instance of PaperStore for TLC: one symbol, two long signals. *)
EXTENDS PaperStore, TLC

CONSTANTS BTC, s1, s2

Long == [symbol |-> BTC, side |-> "LONG", entry |-> 100, stop |-> 90]
TwoSignals == s1 :> Long @@ s2 :> Long
\* The properties say nothing after a race with the reset.
NoRace == ~raced
\* An entry of three fills in two parts, an exit one by one.
ThinQuote == {[bid |-> 99, bidQty |-> 1, ask |-> 101, askQty |-> 2]}
=============================================================================
