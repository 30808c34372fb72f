----------------------------- MODULE MCWalletRequests -----------------------------
(* Two connections, and two transactions that each need both, beside the creation
   of the wallets, a reader and a single statement.                                *)
EXTENDS WalletRequests

CONSTANTS reader, creator, lateMover, converter, locker

MCRequests == {reader, creator, lateMover, converter, locker}
MCKind ==
    [r \in MCRequests |->
        CASE r = reader -> "read"
          [] r = creator -> "create"
          [] r = lateMover -> "move by email"
          [] r = converter -> "convert"
          [] r = locker -> "statement"]
================================================================================
