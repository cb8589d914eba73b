--------------------------- MODULE MCPaperBroker ---------------------------
(* Instances of PaperBroker for TLC. *)
EXTENDS PaperLedger, TLC

CONSTANTS BTC, ETH, s1, s2

\* A long signal at 100 that risks 10, and its take profit at 120.
Long(symbol) == [symbol |-> symbol, side |-> "LONG", entry |-> 100, stop |-> 90]
Short(symbol) == [symbol |-> symbol, side |-> "SHORT", entry |-> 100, stop |-> 110]
OneSymbolSignals == s1 :> Long(BTC) @@ s2 :> Short(BTC)
TwoSymbolSignals == s1 :> Long(BTC) @@ s2 :> Long(ETH)
OneSignal == s1 :> Long(BTC)

Quote(bid, bidQty, askQty) == [bid |-> bid, bidQty |-> bidQty, ask |-> bid + 2, askQty |-> askQty]
\* Around the entry, below the stop, above the take profit; thin and deep.
MixedQuotes == {Quote(99, 2, 1), Quote(99, 2, 2), Quote(88, 1, 2), Quote(121, 2, 1)}
ThinAndDeepQuotes == {Quote(99, 1, 1), Quote(99, 3, 3)}
DeepQuote == {Quote(99, 2, 2)}
StopQuotes == {Quote(99, 2, 1), Quote(88, 1, 2)}
=============================================================================
