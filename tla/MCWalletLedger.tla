---------------------------- MODULE MCWalletLedger ----------------------------
(* Instance of WalletLedger for TLC. *)
EXTENDS WalletLedger
CONSTANTS r1, r2, r3, w1, w2
MCOpening == [w \in {w1, w2} |-> [balance |-> 2, available |-> 1, locked |-> 1]]
=============================================================================
