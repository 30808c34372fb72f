---------------------------- MODULE MCLimitOrders ----------------------------
(* Instances of LimitOrders for TLC. *)
EXTENDS LimitOrders, TLC
CONSTANTS o1, o2, o3, x1, x2, x3
Three == NewRow(3)
Two == NewRow(2)
Symmetry == Permutations({o1, o2, o3}) \cup Permutations({x1, x2, x3})
=============================================================================
