----------------------------- MODULE MCMatcherRpc -----------------------------
(* Instances of MatcherRpc for TLC. *)
EXTENDS MatcherRpc
CONSTANTS s1, s2, c1, c2
=============================================================================
