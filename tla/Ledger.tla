-------------------------------- MODULE Ledger --------------------------------
(***************************************************************************)
(* What the wallet service promises its callers: every operation happens   *)
(* at once or not at all, against a state that can afford it.  There are   *)
(* no transactions, row locks, connections or failures here.               *)
(***************************************************************************)
EXTENDS WalletRows

CONSTANTS Wallets, Amounts, Quotes, Opening

VARIABLE wallets

\* Take paid out of one wallet, then put received into one (maybe the same).
Moved(rows, from, to, paid, received) ==
  LET afterDebit == [rows EXCEPT ![from] = Debited(@, paid)]
  IN  [afterDebit EXCEPT ![to] = Credited(@, received)]

Init == wallets = Opening

Move(from, to, paid, received) ==
  /\ wallets[from].available >= paid
  /\ wallets' = Moved(wallets, from, to, paid, received)

Lock(w, n) == wallets' = [wallets EXCEPT ![w] = FundsLocked(@, n)]

Unlock(w, n) == wallets' = [wallets EXCEPT ![w] = FundsUnlocked(@, n)]

Next ==
  \/ \E from, to \in Wallets, paid \in Amounts \cup {0},
       received \in Amounts \cup Quotes \cup {0} :
       Move(from, to, paid, received)
  \/ \E w \in Wallets, n \in Amounts : Lock(w, n) \/ Unlock(w, n)

Spec == Init /\ [][Next]_wallets
=============================================================================
