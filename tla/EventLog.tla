-------------------------------- MODULE EventLog --------------------------------
(***************************************************************************)
(* What the market data pipeline promises about the events it accepts,        *)
(* without queues, batches, sessions or tasks.  Each partition of the files    *)
(* is a log of its own.                                                        *)
(***************************************************************************)
EXTENDS Naturals, Sequences, SequencesExt

CONSTANTS Partitions, Events

VARIABLES
  log,      \* partition -> the events accepted, in order
  stored,   \* partition -> the events in its files, in order
  closed    \* the service has stopped normally

vars == <<log, stored, closed>>

Init ==
  /\ log = [p \in Partitions |-> << >>] /\ stored = [p \in Partitions |-> << >>]
  /\ closed = FALSE

\* An event is accepted once, in one partition.
Accept ==
  /\ ~closed
  /\ \E p \in Partitions, e \in Events :
       /\ \A q \in Partitions : ~Contains(log[q], e)
       /\ log' = [log EXCEPT ![p] = Append(@, e)]
  /\ UNCHANGED <<stored, closed>>

\* The next events of a partition reach its files, in the order they were accepted.
Store ==
  /\ ~closed
  /\ \E p \in Partitions : \E n \in Len(stored[p]) + 1 .. Len(log[p]) :
       stored' = [stored EXCEPT ![p] = SubSeq(log[p], 1, n)]
  /\ UNCHANGED <<log, closed>>

\* The service stops with every event in the files.
Close == ~closed /\ closed' /\ stored = log /\ UNCHANGED <<log, stored>>

Next == Accept \/ Store \/ Close
Spec == Init /\ [][Next]_vars
=============================================================================
