------------------------------ MODULE MCPriceFeed ------------------------------
(* Instance of PriceFeed for TLC: the code's times, in units of 5 s. *)
EXTENDS PriceFeed
MCThresholds == [k \in 1..4 |-> 3 * k]
=============================================================================
