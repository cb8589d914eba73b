---------------------------- MODULE MCMarketPipeline ----------------------------
(* Instances of MarketPipeline for TLC. *)
EXTENDS MarketPipeline

CONSTANTS market, btc, eth

\* The partitions take turns; the first message is late and the last may be noise.
Alternating ==
  {m \in Message :
     /\ m.partition = IF m.number % 2 = 1 THEN btc ELSE eth
     /\ \/ m.kind = IF m.number = 1 THEN "late" ELSE "fresh"
        \/ m.kind = "noise" /\ m.number = MaxMessages}
=============================================================================
