------------------------------ MODULE PaperLedger ------------------------------
(***************************************************************************)
(* The paper broker implements the trade ledger: a symbol's exposure is its   *)
(* position with the sign of its side, and the result of its trade is what    *)
(* the fills and the fundings of the position have booked.                    *)
(***************************************************************************)
EXTENDS PaperBroker

Exposure(s) ==
  IF s \in DOMAIN positions THEN Sign(positions[s].side) * positions[s].quantity ELSE 0
Result(s) ==
  IF s \in DOMAIN positions THEN positions[s].realized + positions[s].funding ELSE 0

Trades == INSTANCE TradeLedger WITH
  exposure <- [s \in Symbols |-> Exposure(s)],
  result   <- [s \in Symbols |-> Result(s)],
  cash     <- account.cash,
  closed   <- closedPnl

\* _apply_fill_to_account, _apply_funding: every step of the broker opens, grows,
\* shrinks, closes or funds the trade of one symbol at most, never turns a long
\* trade into a short one, and books the same amount on the cash and on that trade;
\* the result the risk manager learns is all that the trade has booked.
ImplementsLedger == Trades!Spec
=============================================================================
