-------------------------- MODULE MCOrderBookSync --------------------------
(* An instance of OrderBookSync for TLC: two price levels, interchangeable. *)
EXTENDS BookMirrored, TLC

CONSTANTS p1, p2
PriceSymmetry == Permutations({p1, p2})
=============================================================================
