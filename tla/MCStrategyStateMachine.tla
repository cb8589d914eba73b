----------------------- MODULE MCStrategyStateMachine -----------------------
(* An instance of StrategyStateMachine for TLC. *)
EXTENDS StrategyStateMachine

FivePrices == 1 .. 5
Falling == {-1, 0, 1}
=============================================================================
