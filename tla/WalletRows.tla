------------------------------ MODULE WalletRows ------------------------------
(***************************************************************************)
(* A row of the wallets table (db/init.sql) and what each UPDATE statement *)
(* of the server does to it.  Amounts are whole units: the code's DECIMAL  *)
(* arithmetic in the database is exact.                                    *)
(***************************************************************************)
EXTENDS Integers

Row == [balance : Nat, available : Nat, locked : Nat]

RowOf(b, a, l) == [balance |-> b, available |-> a, locked |-> l]

\* The row a new user starts from.
NewRow(n) == RowOf(n, n, 0)

\* Mutant: the table lets a balance go negative.
Legal_unsigned_missing(row) == row.locked >= 0

\* The CHECK constraints of the table; UPDATE fails on a row that breaks one.
Legal(row) == row.balance >= 0 /\ row.available >= 0 /\ row.locked >= 0

\* balance = balance + n, available = available + n
Credited(row, n) == RowOf(row.balance + n, row.available + n, row.locked)

\* Mutant: the UPDATE forgets one column.
Debited_balance_only(row, n) == RowOf(row.balance - n, row.available, row.locked)

\* balance = balance - n, available = available - n
Debited(row, n) == RowOf(row.balance - n, row.available - n, row.locked)

\* lockFunds: WHERE available >= n, otherwise no row is updated.
FundsLocked(row, n) ==
  IF row.available >= n
    THEN RowOf(row.balance, row.available - n, row.locked + n)
    ELSE row

\* unlockFunds: WHERE locked >= n, otherwise no row is updated.
FundsUnlocked(row, n) ==
  IF row.locked >= n
    THEN RowOf(row.balance, row.available + n, row.locked - n)
    ELSE row

\* updateBalance: balance and available become n, locked is left alone.
Overwritten(row, n) == RowOf(n, n, row.locked)

\* What a row should always say: the balance is what is free plus what is
\* reserved for open orders.
Coherent(row) == row.balance = row.available + row.locked
=============================================================================
