------------------------------ MODULE BookMirrored ------------------------------
(***************************************************************************)
(* The synchronized order book implements the mirror.  A history variable     *)
(* remembers the newest update at which the book has been synchronized.       *)
(***************************************************************************)
EXTENDS OrderBookSync

VARIABLE shown    \* the newest update a synchronized book has stood at

\* The book as other components see it: never in the middle of initialize's loop.
Shows == synchronized /\ LoopFree

InitShown == Init /\ shown = 0
NextShown == Next /\ shown' = IF Shows' THEN lastUpdateId' ELSE shown
SpecShown == InitShown /\ [][NextShown]_<<vars, shown>>

Mirror == INSTANCE BookMirror WITH
  Blank   <- EmptyBook,
  history <- books,
  version <- shown,
  valid   <- Shows,
  mirror  <- IF Shows THEN levels ELSE EmptyBook

\* LocalOrderBook.apply and initialize: through gaps, lost, repeated and late events and
\* any number of snapshots, a synchronized book is the exchange's book after the update
\* it names, and never one before a state it has shown already.
ImplementsMirror == Mirror!Spec
=============================================================================
