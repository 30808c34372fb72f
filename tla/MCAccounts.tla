----------------------------- MODULE MCAccounts -----------------------------
(* Instance of Accounts for TLC. *)
EXTENDS Accounts, TLC
CONSTANTS r1, r2, f1, f2, k1, k2, k3, b1, b2, b3
Symmetry ==
  Permutations({r1, r2}) \cup Permutations({f1, f2})
    \cup Permutations({k1, k2, k3}) \cup Permutations({b1, b2, b3})
\* Once a route has overwritten a change the properties say no more about the factor.
NothingOverwritten == ~stale
=============================================================================
