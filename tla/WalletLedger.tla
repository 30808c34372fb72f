----------------------------- MODULE WalletLedger -----------------------------
(***************************************************************************)
(* The transactional operations on wallets: walletService.transfer, credit,*)
(* debit, lockFunds and unlockFunds (server/wallet/wallet-service.ts) and  *)
(* tradeService.executeConvert (server/trade/trade-service.ts), run by     *)
(* concurrent requests over db.transaction (server/db/index.ts).           *)
(*                                                                         *)
(* PostgreSQL's part: SELECT ... FOR UPDATE and UPDATE lock the row until  *)
(* the transaction ends, so nobody sees a row between its first change and *)
(* COMMIT and the changes are applied here at COMMIT; a cycle of waiting   *)
(* transactions is broken by aborting one of them.                         *)
(*                                                                         *)
(* An operation is described by what it takes from one wallet and what it  *)
(* puts into another: a transfer puts what it takes, a conversion what the *)
(* quote says, a credit takes nothing and a debit puts nothing.            *)
(***************************************************************************)
EXTENDS WalletRows, FiniteSetsExt

CONSTANTS
  Requests,  \* HTTP requests, each running one operation
  Wallets,   \* rows of the table
  Amounts,   \* amounts a request may name
  Quotes,    \* amounts a conversion may put into the other wallet
  Opening,   \* the rows at the start
  Free       \* no request

ASSUME LedgerAssumption ==
  /\ Amounts \subseteq Nat \ {0}
  /\ Quotes \subseteq Nat \ {0}
  /\ Opening \in [Wallets -> {row \in Row : Coherent(row)}]
  /\ Free \notin Requests
  /\ IsFiniteSet(Requests)

VARIABLES
  wallets,  \* committed rows
  lock,     \* per row: the request whose transaction locked it, or Free
  pc,       \* per request: how far its operation is
  op        \* per request: its operation, once it began

vars == <<wallets, lock, pc, op>>

\* A request that has not begun.
NoOp == [kind |-> "none"]

Op == [kind : {"transfer", "debit", "credit", "convert", "lock", "unlock"},
       from : Wallets, to : Wallets,
       paid : Amounts \cup {0}, received : Amounts \cup Quotes \cup {0}]

Moving(kind, f, t, p, q) ==
  [kind |-> kind, from |-> f, to |-> t, paid |-> p, received |-> q]

\* The operations the routes can start: amounts are positive, a transfer may
\* name its own sender (by e-mail), a conversion is between two assets.
Operations ==
  UNION { {Moving("transfer", f, t, n, n) : f, t \in Wallets, n \in Amounts},
          {Moving("debit", w, w, n, 0) : w \in Wallets, n \in Amounts},
          {Moving("credit", w, w, 0, n) : w \in Wallets, n \in Amounts},
          {Moving("lock", w, w, n, 0) : w \in Wallets, n \in Amounts},
          {Moving("unlock", w, w, n, 0) : w \in Wallets, n \in Amounts},
          {Moving("convert", f, t, p, q) :
             f, t \in Wallets, p \in Amounts, q \in Quotes} }

\* What took effect: the answer to a COMMIT, or to a single UPDATE, may be lost,
\* and then the operation throws as if it had failed.
Applied == {"committed", "unanswered"}

Progress == {"new", "begun", "checked", "holdsFrom", "holdsBoth", "failed"} \cup Applied
InTransaction == {"begun", "checked", "holdsFrom", "holdsBoth"}

Init ==
  /\ wallets = Opening
  /\ lock = [w \in Wallets |-> Free]
  /\ pc = [r \in Requests |-> "new"]
  /\ op = [r \in Requests |-> NoOp]

GoTo(r, next) == pc' = [pc EXCEPT ![r] = next]

LocksOf(r) == {w \in Wallets : lock[w] = r}
ReleaseLocks(r) == lock' = [w \in Wallets |-> IF lock[w] = r THEN Free ELSE lock[w]]

\* Mutant: the client goes back to the pool without ROLLBACK.
RollBack_keeps_locks(r) ==
  /\ GoTo(r, "failed")
  /\ UNCHANGED <<wallets, lock, op>>

RollBack(r) ==
  /\ GoTo(r, "failed")
  /\ ReleaseLocks(r)
  /\ UNCHANGED <<wallets, op>>

\* BEGIN.
Begin(r, o) ==
  /\ pc[r] = "new"
  /\ o.kind \notin {"lock", "unlock"}
  /\ GoTo(r, "begun")
  /\ op' = [op EXCEPT ![r] = o]
  /\ UNCHANGED <<wallets, lock>>

\* executeConvert reads the balance through the pool, outside its own
\* transaction and without a lock.
ConvertCheck(r) ==
  /\ pc[r] = "begun"
  /\ op[r].kind = "convert"
  /\ IF wallets[op[r].from].available < op[r].paid
       THEN RollBack(r)
       ELSE GoTo(r, "checked") /\ UNCHANGED <<wallets, lock, op>>

\* Mutant: SELECT without FOR UPDATE.
CanLock_always(r, w) == TRUE

CanLock(r, w) == lock[w] \in {Free, r}

\* Mutant: the check reads balance, not available.
Affordable_by_balance(o) == wallets[o.from].balance >= o.paid

(***************************************************************************)
(* The statement that locks the first row.  transfer and debit check what  *)
(* is available in the row they just locked; a conversion's UPDATE does    *)
(* not check, but the table's constraints do; a credit cannot fail.        *)
(***************************************************************************)
Affordable(o) ==
  LET row == wallets[o.from]
  IN  IF o.kind = "convert"
        THEN Legal(Debited(row, o.paid))
        ELSE row.available >= o.paid

ReadyToLock(r) == IF op[r].kind = "convert" THEN "checked" ELSE "begun"

LockFrom(r) ==
  /\ pc[r] \in InTransaction
  /\ pc[r] = ReadyToLock(r)
  /\ CanLock(r, op[r].from)
  /\ IF Affordable(op[r])
       THEN /\ lock' = [lock EXCEPT ![op[r].from] = r]
            /\ GoTo(r, "holdsFrom")
            /\ UNCHANGED <<wallets, op>>
       ELSE RollBack(r)

\* The statement that locks the second row, when there is one.
LockTo(r) ==
  /\ pc[r] = "holdsFrom"
  /\ op[r].kind \in {"transfer", "convert"}
  /\ CanLock(r, op[r].to)
  /\ lock' = [lock EXCEPT ![op[r].to] = r]
  /\ GoTo(r, "holdsBoth")
  /\ UNCHANGED <<wallets, op>>

\* Mutant: absolute values computed from rows read before the debit.
Moved_from_stale_rows(rows, o) ==
  [rows EXCEPT ![o.from] = Debited(rows[o.from], o.paid),
               ![o.to] = Credited(rows[o.to], o.received)]

\* Both rows as the transaction leaves them.
Moved(rows, o) ==
  LET afterDebit == [rows EXCEPT ![o.from] = Debited(@, o.paid)]
  IN  [afterDebit EXCEPT ![o.to] = Credited(@, o.received)]

\* COMMIT: the changes are seen by others and the locks are released, whether
\* or not its answer arrives.
Commit(r) ==
  /\ \/ pc[r] = "holdsBoth"
     \/ pc[r] = "holdsFrom" /\ op[r].kind \in {"debit", "credit"}
  /\ wallets' = Moved(wallets, op[r])
  /\ ReleaseLocks(r)
  /\ \E end \in Applied : GoTo(r, end)
  /\ UNCHANGED op

\* lockFunds and unlockFunds: one UPDATE, a transaction of its own.
LockFunds(r, w, n) ==
  /\ pc[r] = "new"
  /\ lock[w] = Free
  /\ wallets' = [wallets EXCEPT ![w] = FundsLocked(@, n)]
  /\ \E end \in Applied : GoTo(r, end)
  /\ op' = [op EXCEPT ![r] = Moving("lock", w, w, n, 0)]
  /\ UNCHANGED lock

UnlockFunds(r, w, n) ==
  /\ pc[r] = "new"
  /\ lock[w] = Free
  /\ wallets' = [wallets EXCEPT ![w] = FundsUnlocked(@, n)]
  /\ \E end \in Applied : GoTo(r, end)
  /\ op' = [op EXCEPT ![r] = Moving("unlock", w, w, n, 0)]
  /\ UNCHANGED lock

\* The connection is lost before COMMIT, or a statement fails for a reason of
\* its own.
ConnectionLost(r) ==
  /\ pc[r] \in InTransaction
  /\ RollBack(r)

-----------------------------------------------------------------------------
\* The row the next statement of r locks.
Wanted(r) == IF pc[r] = "holdsFrom" THEN op[r].to ELSE op[r].from

Waiting(r) ==
  /\ pc[r] \in {ReadyToLock(r), "holdsFrom"}
  /\ ~CanLock(r, Wanted(r))

(***************************************************************************)
(* r is on a cycle of waiting transactions: a transaction waits for one    *)
(* other at most, so a set of waiting ones that is the set of those they   *)
(* wait for is made of cycles.                                             *)
(***************************************************************************)
Deadlocked(r) ==
  \E S \in SUBSET Requests :
    /\ r \in S
    /\ \A s \in S : pc[s] \in InTransaction /\ Waiting(s)
    /\ {lock[Wanted(s)] : s \in S} = S

\* PostgreSQL's deadlock detector aborts a transaction of the cycle.
DeadlockVictim(r) ==
  /\ Deadlocked(r)
  /\ RollBack(r)

Step(r) ==
  ConvertCheck(r) \/ LockFrom(r) \/ LockTo(r) \/ Commit(r) \/ DeadlockVictim(r)

Next ==
  \E r \in Requests :
    \/ \E o \in Operations : Begin(r, o)
    \/ \E w \in Wallets, n \in Amounts : LockFunds(r, w, n) \/ UnlockFunds(r, w, n)
    \/ Step(r)
    \/ ConnectionLost(r)

Spec == Init /\ [][Next]_vars

\* A transaction takes its next step once it can: statements wait for nothing
\* but the database, which grants free locks and breaks deadlocks.  A request
\* need not start, and a connection need not fail.
FairSpec == Spec /\ \A r \in Requests : WF_vars(Step(r))

-----------------------------------------------------------------------------
TypeOK ==
  /\ wallets \in [Wallets -> Row]
  /\ lock \in [Wallets -> Requests \cup {Free}]
  /\ pc \in [Requests -> Progress]
  /\ op \in [Requests -> Op \cup {NoOp}]

(***************************************************************************)
(* Whatever operations interleave, a wallet's balance is its available     *)
(* plus its locked part: no UPDATE of one operation undoes half of         *)
(* another's.  (Every UPDATE of wallets but updateBalance's.)              *)
(***************************************************************************)
RowsCoherent == \A w \in Wallets : Coherent(wallets[w])

(***************************************************************************)
(* What transfer and debit checked under FOR UPDATE, and what a            *)
(* conversion's constraint accepted, is still true when they commit, and   *)
(* the rows they change are theirs alone until then.                       *)
(***************************************************************************)
ChecksStayTrue ==
  \A r \in Requests :
    /\ pc[r] \in {"holdsFrom", "holdsBoth"} =>
         /\ lock[op[r].from] = r
         /\ wallets[op[r].from].available >= op[r].paid
    /\ pc[r] = "holdsBoth" => lock[op[r].to] = r
    /\ LocksOf(r) # {} => pc[r] \in {"holdsFrom", "holdsBoth"}

\* What an operation adds to w: what it puts there, less what it takes.
Effect(r, w) ==
  (IF op[r].to = w THEN op[r].received ELSE 0)
    - (IF op[r].from = w /\ op[r].kind \notin {"lock", "unlock"} THEN op[r].paid ELSE 0)

\* What the operations that took effect added to w.
CommittedInto(w) ==
  SumFunction([r \in {s \in Requests : pc[s] \in Applied} |-> Effect(r, w)])

(***************************************************************************)
(* No update is lost and none is applied twice or by half: a wallet holds  *)
(* what it held at the start plus exactly what the operations whose COMMIT *)
(* or single UPDATE took effect moved.  Those reported as done are among   *)
(* them; one reported as failed is only when the answer to it was lost     *)
(* ("unanswered"), and moved nothing otherwise.                            *)
(***************************************************************************)
Accounting ==
  \A w \in Wallets : wallets[w].balance = Opening[w].balance + CommittedInto(w)

(***************************************************************************)
(* Two transfers in opposite directions, or conversions, lock the same two *)
(* rows in opposite orders, yet every operation that began ends.           *)
(***************************************************************************)
EveryRequestEnds ==
  \A r \in Requests :
    pc[r] \in InTransaction ~> pc[r] \in Applied \cup {"failed"}

\* The transactions implement the service's promise: each one happens at once.
AtomicLedger == INSTANCE Ledger
                  WITH Wallets <- Wallets, Amounts <- Amounts, Quotes <- Quotes,
                       Opening <- Opening, wallets <- wallets
ImplementsLedger == AtomicLedger!Spec
=============================================================================
