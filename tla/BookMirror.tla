------------------------------- MODULE BookMirror -------------------------------
(***************************************************************************)
(* What a synchronized order book promises, without events, snapshots or      *)
(* buffers: the mirror shows some past state of the exchange's book or says   *)
(* that it has none, and what it shows never goes back in time.               *)
(***************************************************************************)
EXTENDS Naturals

CONSTANT Blank    \* what the exchange's book is before its first update

VARIABLES
  history,   \* the exchange: update -> its book after that update
  version,   \* the newest update the mirror has shown
  valid,     \* the mirror has a state to show
  mirror     \* the state it shows

vars == <<history, version, valid, mirror>>

Init ==
  /\ history = [n \in {0} |-> Blank] /\ version = 0
  /\ valid = FALSE /\ mirror = Blank

\* The exchange's book moves on; the states it had remain what they were.
Move ==
  /\ \E n \in DOMAIN history :
       n + 1 \notin DOMAIN history /\ DOMAIN history' = DOMAIN history \cup {n + 1}
  /\ \A n \in DOMAIN history : history'[n] = history[n]
  /\ UNCHANGED <<version, valid, mirror>>

Lose == valid /\ ~valid' /\ mirror' = Blank /\ UNCHANGED <<history, version>>

\* The mirror shows a state, no older than any it has shown before.
Show ==
  /\ valid' /\ version' >= version
  /\ version' \in DOMAIN history /\ mirror' = history[version']
  /\ UNCHANGED history

Next == Move \/ Lose \/ Show
Spec == Init /\ [][Next]_vars
=============================================================================
