------------------------------ MODULE TradeLedger ------------------------------
(***************************************************************************)
(* What the paper account promises, without orders, quotes or risk checks: at *)
(* most one open trade per symbol, and money that is booked once, on the cash *)
(* and on the trade that earned or cost it.                                   *)
(***************************************************************************)
EXTENDS Integers

CONSTANTS Symbols, InitialBalance

VARIABLES
  exposure,   \* symbol -> signed quantity of its open trade, 0 without one
  result,     \* symbol -> what the open trade has booked so far
  cash,       \* the account's balance
  closed      \* what all closed trades have booked

vars == <<exposure, result, cash, closed>>

Init ==
  /\ exposure = [s \in Symbols |-> 0] /\ result = [s \in Symbols |-> 0]
  /\ cash = InitialBalance /\ closed = 0

\* What a step books.
Booked == cash' - cash

\* The trade of s is opened, increased, reduced or closed, and no other: it never
\* goes from long to short in one step.
Moves(s) ==
  /\ exposure'[s] # exposure[s] /\ exposure[s] * exposure'[s] >= 0
  /\ exposure' = [exposure EXCEPT ![s] = exposure'[s]]

\* A fill that leaves the trade open; what it books goes to the trade.
Trade(s) ==
  /\ Moves(s) /\ exposure'[s] # 0
  /\ result' = [result EXCEPT ![s] = @ + Booked]
  /\ UNCHANGED closed

\* A fill that closes the trade, which ends with all it has booked.
Close(s) ==
  /\ Moves(s) /\ exposure'[s] = 0
  /\ closed' = closed + result[s] + Booked
  /\ result' = [result EXCEPT ![s] = 0]

\* A payment on an open trade.
Fund(s) ==
  /\ exposure[s] # 0
  /\ result' = [result EXCEPT ![s] = @ + Booked]
  /\ UNCHANGED <<exposure, closed>>

\* The account starts again, which it does only without an open trade.
Restart ==
  /\ \A s \in Symbols : exposure[s] = 0
  /\ exposure' = [s \in Symbols |-> 0] /\ result' = [s \in Symbols |-> 0]
  /\ cash' = InitialBalance /\ closed' = 0

Next == (\E s \in Symbols : Trade(s) \/ Close(s) \/ Fund(s)) \/ Restart
Spec == Init /\ [][Next]_vars
=============================================================================
