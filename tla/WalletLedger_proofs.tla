------------------------- MODULE WalletLedger_proofs -------------------------
(***************************************************************************)
(* For every set of wallets, requests and amounts: rows stay coherent, a   *)
(* balance checked under a row lock is still there at COMMIT, and every    *)
(* transaction happens at once, as Ledger says.                            *)
(***************************************************************************)
EXTENDS WalletLedger, Sums

\* Operations on one wallet name it twice.
SingleRowOps ==
  \A r \in Requests : op[r].kind \in {"debit", "credit"} => op[r].from = op[r].to

OpsKnown == \A r \in Requests : pc[r] # "new" => op[r] \in Op

(***************************************************************************)
(* ChecksStayTrue is what makes the rest inductive: COMMIT debits without  *)
(* looking, and is safe because the lock kept the checked balance.         *)
(***************************************************************************)
IInv == TypeOK /\ RowsCoherent /\ ChecksStayTrue /\ SingleRowOps /\ OpsKnown

-----------------------------------------------------------------------------
\* What the UPDATE statements do to one coherent row.

LEMMA CreditedRow ==
  ASSUME NEW row \in Row, Coherent(row), NEW n \in Nat
  PROVE  /\ Credited(row, n) \in Row
         /\ Coherent(Credited(row, n))
         /\ Credited(row, n).available >= row.available
  BY SMT DEF Row, RowOf, Coherent, Credited

LEMMA DebitedRow ==
  ASSUME NEW row \in Row, Coherent(row), NEW n \in Nat, row.available >= n
  PROVE  Debited(row, n) \in Row /\ Coherent(Debited(row, n))
  BY SMT DEF Row, RowOf, Coherent, Debited

LEMMA FundsLockedRow ==
  ASSUME NEW row \in Row, Coherent(row), NEW n \in Nat
  PROVE  FundsLocked(row, n) \in Row /\ Coherent(FundsLocked(row, n))
  BY SMT DEF Row, RowOf, Coherent, FundsLocked

LEMMA FundsUnlockedRow ==
  ASSUME NEW row \in Row, Coherent(row), NEW n \in Nat
  PROVE  FundsUnlocked(row, n) \in Row /\ Coherent(FundsUnlocked(row, n))
  BY SMT DEF Row, RowOf, Coherent, FundsUnlocked

\* A row a conversion's UPDATE accepts could afford it.
LEMMA LegalAffords ==
  ASSUME NEW row \in Row, NEW n \in Nat, Legal(Debited(row, n))
  PROVE  row.available >= n
  BY SMT DEF Row, RowOf, Legal, Debited

LEMMA AmountsAreNaturals ==
  ASSUME NEW o \in Op
  PROVE  /\ o.from \in Wallets /\ o.to \in Wallets
         /\ o.paid \in Nat /\ o.received \in Nat
<1>1. /\ o.from \in Wallets /\ o.to \in Wallets
      /\ o.paid \in Amounts \cup {0} /\ o.received \in Amounts \cup Quotes \cup {0}
  BY DEF Op
<1>2. Amounts \cup Quotes \cup {0} \subseteq Nat
  BY LedgerAssumption
<1>3. QED
  BY <1>1, <1>2

\* COMMIT keeps every row coherent and disturbs no row but its two.
LEMMA MovedRows ==
  ASSUME NEW rows \in [Wallets -> Row], \A w \in Wallets : Coherent(rows[w]),
         NEW o \in Op, rows[o.from].available >= o.paid
  PROVE  /\ Moved(rows, o) \in [Wallets -> Row]
         /\ \A w \in Wallets : Coherent(Moved(rows, o)[w])
         /\ \A w \in Wallets : w \notin {o.from, o.to} => Moved(rows, o)[w] = rows[w]
<1> DEFINE after == [rows EXCEPT ![o.from] = Debited(@, o.paid)]
<1>1. o.from \in Wallets /\ o.to \in Wallets /\ o.paid \in Nat /\ o.received \in Nat
  BY AmountsAreNaturals
<1>2. Debited(rows[o.from], o.paid) \in Row /\ Coherent(Debited(rows[o.from], o.paid))
  BY <1>1, DebitedRow
<1>3. after \in [Wallets -> Row] /\ \A w \in Wallets : Coherent(after[w])
  BY <1>1, <1>2
<1>4. Credited(after[o.to], o.received) \in Row /\ Coherent(Credited(after[o.to], o.received))
  BY <1>1, <1>3, CreditedRow
<1>5. Moved(rows, o) = [after EXCEPT ![o.to] = Credited(@, o.received)]
  BY DEF Moved
<1> HIDE DEF after
<1>6. Moved(rows, o) \in [Wallets -> Row]
  BY <1>1, <1>3, <1>4, <1>5
<1>7. \A w \in Wallets : Coherent(Moved(rows, o)[w])
  BY <1>1, <1>3, <1>4, <1>5
<1>8. \A w \in Wallets : w \notin {o.from, o.to} => Moved(rows, o)[w] = rows[w]
  BY <1>1, <1>3, <1>5 DEF after
<1>9. QED
  BY <1>6, <1>7, <1>8

\* The routes start operations of the right shape.
LEMMA OperationsAreOps ==
  ASSUME NEW o \in Operations
  PROVE  o \in Op /\ (o.kind \in {"debit", "credit"} => o.from = o.to)
  BY SMT DEF Operations, Op, Moving

LEMMA InitIInv == Init => IInv
<1> SUFFICES ASSUME Init PROVE IInv
  OBVIOUS
<1> USE LedgerAssumption DEF Init
<1>1. TypeOK /\ RowsCoherent
  <2>1. wallets \in [Wallets -> Row] /\ RowsCoherent
    BY DEF RowsCoherent
  <2>2. lock \in [Wallets -> Requests \cup {Free}]
    OBVIOUS
  <2>3. pc \in [Requests -> Progress] /\ op \in [Requests -> Op \cup {NoOp}]
    BY DEF Progress
  <2>4. QED
    BY <2>1, <2>2, <2>3 DEF TypeOK
<1>2. ChecksStayTrue
  BY SMT DEF ChecksStayTrue, LocksOf
<1>3. SingleRowOps /\ OpsKnown
  BY SMT DEF SingleRowOps, OpsKnown, NoOp
<1>4. QED
  BY <1>1, <1>2, <1>3 DEF IInv

-----------------------------------------------------------------------------
\* A step that ends r's transaction without a trace keeps the invariant.
LEMMA RollBackIInv ==
  ASSUME IInv, NEW r \in Requests, pc[r] # "new", RollBack(r)
  PROVE  IInv'
<1> USE DEF RollBack, GoTo, ReleaseLocks
<1>1. TypeOK'
  <2>1. lock' \in [Wallets -> Requests \cup {Free}]
    BY DEF IInv, TypeOK
  <2>2. pc' \in [Requests -> Progress]
    BY DEF IInv, TypeOK, Progress
  <2>3. QED
    BY <2>1, <2>2 DEF IInv, TypeOK
<1>2. RowsCoherent'
  BY DEF IInv, RowsCoherent
<1>3. ChecksStayTrue'
  <2>1. \A w \in Wallets : lock'[w] # r /\ (lock[w] # r => lock'[w] = lock[w])
    BY LedgerAssumption, SMT DEF IInv, TypeOK
  <2>2. /\ \A s \in Requests : s # r => pc'[s] = pc[s]
        /\ pc'[r] = "failed"
    BY DEF IInv, TypeOK
  <2>3. \A s \in Requests :
          pc[s] \in {"holdsFrom", "holdsBoth"} => op[s].from \in Wallets /\ op[s].to \in Wallets
    BY AmountsAreNaturals DEF IInv, OpsKnown
  <2>4. \A s \in Requests, w \in Wallets : lock'[w] = s => lock[w] = s
    BY LedgerAssumption, SMT DEF IInv, TypeOK
  <2>5. QED
    BY <2>1, <2>2, <2>3, <2>4 DEF IInv, ChecksStayTrue, LocksOf
<1>4. SingleRowOps'
  BY DEF IInv, SingleRowOps
<1>5. OpsKnown'
  BY SMT DEF IInv, OpsKnown, TypeOK
<1>6. QED
  BY <1>1, <1>2, <1>3, <1>4, <1>5 DEF IInv

\* A step of r that only moves its pc, without a change of rows or locks.
LEMMA BeginIInv ==
  ASSUME IInv, NEW r \in Requests, NEW o \in Operations, Begin(r, o)
  PROVE  IInv'
<1> USE DEF Begin, GoTo
<1>1. o \in Op /\ (o.kind \in {"debit", "credit"} => o.from = o.to)
  BY OperationsAreOps
<1>2. TypeOK'
  BY <1>1 DEF IInv, TypeOK, Progress
<1>3. RowsCoherent'
  BY DEF IInv, RowsCoherent
<1>4. ChecksStayTrue'
  <2>1. /\ \A s \in Requests : s # r => pc'[s] = pc[s] /\ op'[s] = op[s]
        /\ pc'[r] = "begun" /\ pc[r] = "new"
    BY DEF IInv, TypeOK
  <2>2. QED
    BY <2>1 DEF IInv, ChecksStayTrue, LocksOf
<1>5. SingleRowOps' /\ OpsKnown'
  BY <1>1, SMT DEF IInv, TypeOK, SingleRowOps, OpsKnown
<1>6. QED
  BY <1>2, <1>3, <1>4, <1>5 DEF IInv

LEMMA ConvertCheckIInv ==
  ASSUME IInv, NEW r \in Requests, ConvertCheck(r)
  PROVE  IInv'
<1>1. CASE RollBack(r)
  BY <1>1, RollBackIInv DEF ConvertCheck
<1>2. CASE GoTo(r, "checked") /\ UNCHANGED <<wallets, lock, op>>
  <2> USE <1>2 DEF GoTo
  <2>1. pc[r] = "begun"
    BY DEF ConvertCheck
  <2>2. /\ \A s \in Requests : s # r => pc'[s] = pc[s]
        /\ pc'[r] = "checked"
    BY DEF IInv, TypeOK
  <2>3. TypeOK'
    BY DEF IInv, TypeOK, Progress
  <2>4. RowsCoherent' /\ SingleRowOps'
    BY DEF IInv, RowsCoherent, SingleRowOps
  <2>5. ChecksStayTrue'
    BY <2>1, <2>2 DEF IInv, ChecksStayTrue, LocksOf
  <2>6. OpsKnown'
    BY <2>1, <2>2 DEF IInv, OpsKnown
  <2>7. QED
    BY <2>3, <2>4, <2>5, <2>6 DEF IInv
<1>3. QED
  BY <1>1, <1>2 DEF ConvertCheck

\* Both kinds of first statement leave a balance that covers what is paid.
LEMMA AffordableCovers ==
  ASSUME IInv, NEW o \in Op, Affordable(o)
  PROVE  wallets[o.from].available >= o.paid
  BY LegalAffords, AmountsAreNaturals DEF IInv, TypeOK, Affordable

LEMMA LockFromIInv ==
  ASSUME IInv, NEW r \in Requests, LockFrom(r)
  PROVE  IInv'
<1>1. pc[r] \in {"begun", "checked"}
  BY DEF LockFrom, ReadyToLock
<1>2. op[r] \in Op
  BY <1>1 DEF IInv, OpsKnown
<1>3. CASE RollBack(r)
  BY <1>1, <1>3, RollBackIInv
<1>4. CASE ~RollBack(r)
  <2>1. /\ Affordable(op[r]) /\ lock[op[r].from] \in {Free, r}
        /\ lock' = [lock EXCEPT ![op[r].from] = r]
        /\ pc' = [pc EXCEPT ![r] = "holdsFrom"]
        /\ UNCHANGED <<wallets, op>>
    BY <1>4 DEF LockFrom, CanLock, GoTo
  <2>2. op[r].from \in Wallets /\ wallets[op[r].from].available >= op[r].paid
    BY <1>2, <2>1, AmountsAreNaturals, AffordableCovers
  <2>3. TypeOK'
    BY <2>1, <2>2 DEF IInv, TypeOK, Progress
  <2>4. RowsCoherent' /\ SingleRowOps'
    BY <2>1 DEF IInv, RowsCoherent, SingleRowOps
  <2>5. /\ \A s \in Requests : s # r => pc'[s] = pc[s]
        /\ pc'[r] = "holdsFrom"
        /\ lock'[op[r].from] = r
        /\ \A w \in Wallets : w # op[r].from => lock'[w] = lock[w]
    BY <2>1, <2>2 DEF IInv, TypeOK
  <2>6. ChecksStayTrue'
    <3> SUFFICES ASSUME NEW s \in Requests
                 PROVE  /\ pc'[s] \in {"holdsFrom", "holdsBoth"} =>
                             /\ lock'[op[s].from] = s
                             /\ wallets[op[s].from].available >= op[s].paid
                        /\ pc'[s] = "holdsBoth" => lock'[op[s].to] = s
                        /\ LocksOf(s)' # {} => pc'[s] \in {"holdsFrom", "holdsBoth"}
      BY <2>1 DEF ChecksStayTrue
    <3>1. CASE s = r
      BY <3>1, <2>2, <2>5
    <3>2. CASE s # r
      <4>1. LocksOf(s)' \subseteq LocksOf(s)
        BY <3>2, <2>5 DEF LocksOf
      <4>2. pc[s] \in {"holdsFrom", "holdsBoth"} =>
              op[s].from \in Wallets /\ op[s].to \in Wallets
        BY AmountsAreNaturals DEF IInv, OpsKnown
      <4>3. lock[op[r].from] # s
        BY <3>2, <2>1, LedgerAssumption
      <4>4. QED
        BY <3>2, <2>5, <4>1, <4>2, <4>3 DEF IInv, ChecksStayTrue
    <3>3. QED
      BY <3>1, <3>2
  <2>7. OpsKnown'
    BY <1>2, <2>1, <2>5 DEF IInv, OpsKnown
  <2>8. QED
    BY <2>3, <2>4, <2>6, <2>7 DEF IInv
<1>5. QED
  BY <1>3, <1>4

LEMMA LockToIInv ==
  ASSUME IInv, NEW r \in Requests, LockTo(r)
  PROVE  IInv'
<1> USE DEF LockTo, GoTo, CanLock
<1>1. op[r].to \in Wallets /\ op[r].from \in Wallets
  BY AmountsAreNaturals DEF IInv, OpsKnown
<1>2. TypeOK'
  BY <1>1 DEF IInv, TypeOK, Progress
<1>3. RowsCoherent' /\ SingleRowOps'
  BY DEF IInv, RowsCoherent, SingleRowOps
<1>4. /\ \A s \in Requests : s # r => pc'[s] = pc[s]
      /\ pc[r] = "holdsFrom" /\ pc'[r] = "holdsBoth"
      /\ lock'[op[r].to] = r
      /\ \A w \in Wallets : w # op[r].to => lock'[w] = lock[w]
  BY <1>1 DEF IInv, TypeOK
<1>5. ChecksStayTrue'
  <2> SUFFICES ASSUME NEW s \in Requests
               PROVE  /\ pc'[s] \in {"holdsFrom", "holdsBoth"} =>
                           /\ lock'[op[s].from] = s
                           /\ wallets[op[s].from].available >= op[s].paid
                      /\ pc'[s] = "holdsBoth" => lock'[op[s].to] = s
                      /\ LocksOf(s)' # {} => pc'[s] \in {"holdsFrom", "holdsBoth"}
    BY DEF ChecksStayTrue
  <2>1. CASE s = r
    BY <2>1, <1>1, <1>4 DEF IInv, ChecksStayTrue
  <2>2. CASE s # r
    <3>1. LocksOf(s)' \subseteq LocksOf(s)
      BY <2>2, <1>4 DEF LocksOf
    <3>2. pc[s] \in {"holdsFrom", "holdsBoth"} =>
            op[s].from \in Wallets /\ op[s].to \in Wallets
      BY AmountsAreNaturals DEF IInv, OpsKnown
    <3>3. lock[op[r].to] # s
      BY <2>2, LedgerAssumption
    <3>4. QED
      BY <2>2, <1>4, <3>1, <3>2, <3>3 DEF IInv, ChecksStayTrue
  <2>3. QED
    BY <2>1, <2>2
<1>6. OpsKnown'
  BY <1>4 DEF IInv, OpsKnown
<1>7. QED
  BY <1>2, <1>3, <1>5, <1>6 DEF IInv

\* What a transaction holds when it commits.
LEMMA AtCommit ==
  ASSUME IInv, NEW r \in Requests, Commit(r)
  PROVE  /\ op[r] \in Op
         /\ wallets[op[r].from].available >= op[r].paid
         /\ lock[op[r].from] = r /\ lock[op[r].to] = r
<1>1. op[r] \in Op
  BY DEF Commit, IInv, OpsKnown
<1>2. lock[op[r].from] = r /\ wallets[op[r].from].available >= op[r].paid
  BY DEF Commit, IInv, ChecksStayTrue
<1>3. lock[op[r].to] = r
  <2>1. CASE pc[r] = "holdsBoth"
    BY <2>1 DEF IInv, ChecksStayTrue
  <2>2. CASE op[r].kind \in {"debit", "credit"}
    BY <2>2, <1>2 DEF IInv, SingleRowOps
  <2>3. QED
    BY <2>1, <2>2 DEF Commit
<1>4. QED
  BY <1>1, <1>2, <1>3

LEMMA CommitIInv ==
  ASSUME IInv, NEW r \in Requests, Commit(r)
  PROVE  IInv'
<1> PICK end \in Applied : GoTo(r, end)
  BY DEF Commit
<1>1. /\ op[r] \in Op
      /\ wallets[op[r].from].available >= op[r].paid
      /\ lock[op[r].from] = r /\ lock[op[r].to] = r
  BY AtCommit
<1>2. /\ wallets' \in [Wallets -> Row]
      /\ \A w \in Wallets : Coherent(wallets'[w])
      /\ \A w \in Wallets : w \notin {op[r].from, op[r].to} => wallets'[w] = wallets[w]
  BY <1>1, MovedRows DEF Commit, IInv, TypeOK, RowsCoherent
<1>3. /\ \A s \in Requests : s # r => pc'[s] = pc[s]
      /\ pc'[r] = end /\ pc[r] # "new" /\ op' = op
      /\ end \notin {"holdsFrom", "holdsBoth", "new"}
      /\ \A w \in Wallets : lock'[w] = IF lock[w] = r THEN Free ELSE lock[w]
  BY DEF Commit, GoTo, Applied, ReleaseLocks, IInv, TypeOK
<1>4. TypeOK'
  <2>1. lock' \in [Wallets -> Requests \cup {Free}]
    BY DEF Commit, ReleaseLocks, IInv, TypeOK
  <2>2. pc' \in [Requests -> Progress]
    BY DEF GoTo, IInv, TypeOK, Progress
  <2>3. QED
    BY <1>2, <1>3, <2>1, <2>2 DEF IInv, TypeOK
<1>5. RowsCoherent'
  BY <1>2 DEF RowsCoherent
<1>6. ChecksStayTrue'
  <2> SUFFICES ASSUME NEW s \in Requests
               PROVE  /\ pc'[s] \in {"holdsFrom", "holdsBoth"} =>
                           /\ lock'[op[s].from] = s
                           /\ wallets'[op[s].from].available >= op[s].paid
                      /\ pc'[s] = "holdsBoth" => lock'[op[s].to] = s
                      /\ LocksOf(s)' # {} => pc'[s] \in {"holdsFrom", "holdsBoth"}
    BY <1>3 DEF ChecksStayTrue
  <2>1. CASE s = r
    <3>1. LocksOf(s)' = {}
      BY <2>1, <1>3, LedgerAssumption DEF LocksOf
    <3>2. QED
      BY <2>1, <1>3, <3>1
  <2>2. CASE s # r
    <3>1. LocksOf(s)' \subseteq LocksOf(s)
      BY <2>2, <1>3, LedgerAssumption DEF LocksOf
    <3>2. pc[s] \in {"holdsFrom", "holdsBoth"} =>
            op[s].from \in Wallets /\ op[s].to \in Wallets
      BY AmountsAreNaturals DEF IInv, OpsKnown
    <3>3. pc[s] \in {"holdsFrom", "holdsBoth"} => op[s].from \notin {op[r].from, op[r].to}
      BY <2>2, <1>1 DEF IInv, ChecksStayTrue
    <3>4. QED
      BY <2>2, <1>2, <1>3, <3>1, <3>2, <3>3 DEF IInv, ChecksStayTrue
  <2>3. QED
    BY <2>1, <2>2
<1>7. SingleRowOps' /\ OpsKnown'
  BY <1>1, <1>3 DEF IInv, SingleRowOps, OpsKnown
<1>8. QED
  BY <1>4, <1>5, <1>6, <1>7 DEF IInv

\* A single UPDATE of a free row that keeps the row coherent.
LEMMA OneRowIInv ==
  ASSUME IInv, NEW r \in Requests, pc[r] = "new",
         NEW w \in Wallets, lock[w] = Free,
         NEW row \in Row, Coherent(row), wallets' = [wallets EXCEPT ![w] = row],
         NEW o \in Op, o.kind \notin {"debit", "credit"},
         op' = [op EXCEPT ![r] = o], NEW end \in Applied, GoTo(r, end), UNCHANGED lock
  PROVE  IInv'
<1> USE DEF GoTo
<1>1. TypeOK'
  BY DEF IInv, TypeOK, Progress
<1>2. RowsCoherent'
  BY DEF IInv, TypeOK, RowsCoherent
<1>3. /\ \A s \in Requests : s # r => pc'[s] = pc[s] /\ op'[s] = op[s]
      /\ pc'[r] = end /\ op'[r] = o
      /\ end \notin {"holdsFrom", "holdsBoth", "new"}
      /\ \A v \in Wallets : v # w => wallets'[v] = wallets[v]
  BY DEF IInv, TypeOK, Applied
<1>4. ChecksStayTrue'
  <2> SUFFICES ASSUME NEW s \in Requests
               PROVE  /\ pc'[s] \in {"holdsFrom", "holdsBoth"} =>
                           /\ lock[op'[s].from] = s
                           /\ wallets'[op'[s].from].available >= op'[s].paid
                      /\ pc'[s] = "holdsBoth" => lock[op'[s].to] = s
                      /\ LocksOf(s)' # {} => pc'[s] \in {"holdsFrom", "holdsBoth"}
    BY DEF ChecksStayTrue
  <2>1. CASE s = r
    BY <2>1, <1>3 DEF IInv, ChecksStayTrue, LocksOf
  <2>2. CASE s # r
    <3>1. pc[s] \in {"holdsFrom", "holdsBoth"} =>
            op[s].from \in Wallets /\ op[s].from # w
      BY AmountsAreNaturals, LedgerAssumption DEF IInv, OpsKnown, ChecksStayTrue
    <3>2. QED
      BY <2>2, <1>3, <3>1 DEF IInv, ChecksStayTrue, LocksOf
  <2>3. QED
    BY <2>1, <2>2
<1>5. SingleRowOps' /\ OpsKnown'
  BY <1>3 DEF IInv, SingleRowOps, OpsKnown
<1>6. QED
  BY <1>1, <1>2, <1>4, <1>5 DEF IInv

LEMMA LockFundsIInv ==
  ASSUME IInv, NEW r \in Requests, NEW w \in Wallets, NEW n \in Amounts,
         LockFunds(r, w, n) \/ UnlockFunds(r, w, n)
  PROVE  IInv'
<1>1. n \in Nat /\ wallets[w] \in Row /\ Coherent(wallets[w])
  BY LedgerAssumption DEF IInv, TypeOK, RowsCoherent
<1>2. CASE LockFunds(r, w, n)
  <2>1. FundsLocked(wallets[w], n) \in Row /\ Coherent(FundsLocked(wallets[w], n))
    BY <1>1, FundsLockedRow
  <2>2. Moving("lock", w, w, n, 0) \in Op
    BY DEF Moving, Op
  <2>3. Moving("lock", w, w, n, 0).kind \notin {"debit", "credit"}
    BY DEF Moving
  <2>4. QED
    BY <1>2, <2>1, <2>2, <2>3, OneRowIInv DEF LockFunds
<1>3. CASE UnlockFunds(r, w, n)
  <2>1. FundsUnlocked(wallets[w], n) \in Row /\ Coherent(FundsUnlocked(wallets[w], n))
    BY <1>1, FundsUnlockedRow
  <2>2. Moving("unlock", w, w, n, 0) \in Op
    BY DEF Moving, Op
  <2>3. Moving("unlock", w, w, n, 0).kind \notin {"debit", "credit"}
    BY DEF Moving
  <2>4. QED
    BY <1>3, <2>1, <2>2, <2>3, OneRowIInv DEF UnlockFunds
<1>4. QED
  BY <1>2, <1>3

LEMMA StepIInv == IInv /\ [Next]_vars => IInv'
<1> SUFFICES ASSUME IInv, [Next]_vars PROVE IInv'
  OBVIOUS
<1>1. ASSUME NEW r \in Requests, NEW o \in Operations, Begin(r, o) PROVE IInv'
  BY <1>1, BeginIInv
<1>2. ASSUME NEW r \in Requests, NEW w \in Wallets, NEW n \in Amounts,
             LockFunds(r, w, n) \/ UnlockFunds(r, w, n) PROVE IInv'
  BY <1>2, LockFundsIInv
<1>3. ASSUME NEW r \in Requests, Step(r) PROVE IInv'
  <2>1. CASE ConvertCheck(r)
    BY <2>1, ConvertCheckIInv
  <2>2. CASE LockFrom(r)
    BY <2>2, LockFromIInv
  <2>3. CASE LockTo(r)
    BY <2>3, LockToIInv
  <2>4. CASE Commit(r)
    BY <2>4, CommitIInv
  <2>5. CASE DeadlockVictim(r)
    <3>1. pc[r] # "new"
      BY <2>5 DEF DeadlockVictim, Deadlocked, InTransaction
    <3>2. QED
      BY <2>5, <3>1, RollBackIInv DEF DeadlockVictim
  <2>6. QED
    BY <1>3, <2>1, <2>2, <2>3, <2>4, <2>5 DEF Step
<1>4. ASSUME NEW r \in Requests, ConnectionLost(r) PROVE IInv'
  BY <1>4, RollBackIInv DEF ConnectionLost, InTransaction
<1>5. CASE UNCHANGED vars
  BY <1>5 DEF vars, IInv, TypeOK, RowsCoherent, ChecksStayTrue, LocksOf, SingleRowOps, OpsKnown
<1>6. QED
  BY <1>1, <1>2, <1>3, <1>4, <1>5 DEF Next

\* Balances never go negative and every variable stays in its range.
THEOREM TypeCorrect == Spec => []TypeOK
<1>1. IInv => TypeOK
  BY DEF IInv
<1>2. QED
  BY InitIInv, StepIInv, <1>1, PTL DEF Spec

(***************************************************************************)
(* Every committed row of wallets has balance = available + locked,        *)
(* whatever transfers, debits, credits, conversions, locks and unlocks ran *)
(* concurrently and wherever connections were lost.                        *)
(***************************************************************************)
THEOREM RowsStayCoherent == Spec => []RowsCoherent
<1>1. IInv => RowsCoherent
  BY DEF IInv
<1>2. QED
  BY InitIInv, StepIInv, <1>1, PTL DEF Spec

\* What was checked under a row lock is still true when the transaction
\* commits, and nobody else can change the rows in between.
THEOREM ChecksHoldAtCommit == Spec => []ChecksStayTrue
<1>1. IInv => ChecksStayTrue
  BY DEF IInv
<1>2. QED
  BY InitIInv, StepIInv, <1>1, PTL DEF Spec

-----------------------------------------------------------------------------
\* A step of the transactions is one whole operation of Ledger, or none.
LEMMA StepRefines == IInv /\ [Next]_vars => [AtomicLedger!Next]_wallets
<1> SUFFICES ASSUME IInv, [Next]_vars PROVE [AtomicLedger!Next]_wallets
  OBVIOUS
<1>1. ASSUME NEW r \in Requests, Commit(r) PROVE AtomicLedger!Next
  <2>1. /\ op[r] \in Op
        /\ wallets[op[r].from].available >= op[r].paid
    BY <1>1, AtCommit
  <2>2. /\ op[r].from \in Wallets /\ op[r].to \in Wallets
        /\ op[r].paid \in Amounts \cup {0} /\ op[r].received \in Amounts \cup Quotes \cup {0}
    BY <2>1 DEF Op
  <2>3. wallets' = AtomicLedger!Moved(wallets, op[r].from, op[r].to, op[r].paid, op[r].received)
    BY <1>1 DEF Commit, Moved, Debited, Credited, RowOf, AtomicLedger!Moved,
                AtomicLedger!Debited, AtomicLedger!Credited, AtomicLedger!RowOf
  <2>4. AtomicLedger!Move(op[r].from, op[r].to, op[r].paid, op[r].received)
    BY <2>1, <2>3 DEF AtomicLedger!Move
  <2>5. QED
    BY <2>2, <2>4 DEF AtomicLedger!Next
<1>2. ASSUME NEW r \in Requests, NEW w \in Wallets, NEW n \in Amounts,
             LockFunds(r, w, n) PROVE AtomicLedger!Next
  BY <1>2 DEF LockFunds, FundsLocked, RowOf, AtomicLedger!Next, AtomicLedger!Lock,
              AtomicLedger!FundsLocked, AtomicLedger!RowOf
<1>3. ASSUME NEW r \in Requests, NEW w \in Wallets, NEW n \in Amounts,
             UnlockFunds(r, w, n) PROVE AtomicLedger!Next
  BY <1>3 DEF UnlockFunds, FundsUnlocked, RowOf, AtomicLedger!Next, AtomicLedger!Unlock,
              AtomicLedger!FundsUnlocked, AtomicLedger!RowOf
<1>4. ASSUME NEW r \in Requests, NEW o \in Operations, Begin(r, o) PROVE UNCHANGED wallets
  BY <1>4 DEF Begin
<1>5. ASSUME NEW r \in Requests, Step(r), ~Commit(r) PROVE UNCHANGED wallets
  BY <1>5 DEF Step, ConvertCheck, LockFrom, LockTo, DeadlockVictim, RollBack
<1>6. ASSUME NEW r \in Requests, ConnectionLost(r) PROVE UNCHANGED wallets
  BY <1>6 DEF ConnectionLost, RollBack
<1>7. CASE UNCHANGED vars
  BY <1>7 DEF vars
<1>8. QED
  BY <1>1, <1>2, <1>3, <1>4, <1>5, <1>6, <1>7 DEF Next

(***************************************************************************)
(* The concurrent, lock-based transactions implement the service's         *)
(* promise: an outside reader of wallets sees each operation happen at     *)
(* once, taken from a wallet that could afford it, or not at all.          *)
(***************************************************************************)
THEOREM TransactionsAreAtomic == Spec => ImplementsLedger
<1>1. Init => AtomicLedger!Init
  BY DEF Init, AtomicLedger!Init
<1>2. QED
  BY InitIInv, StepIInv, StepRefines, <1>1, PTL DEF Spec, ImplementsLedger, AtomicLedger!Spec
-----------------------------------------------------------------------------
(***************************************************************************)
(* Accounting.  A request joins the sum of what was committed once, at     *)
(* COMMIT, with what that COMMIT did to the two rows; nothing else changes *)
(* a balance, and a committed request's operation is never replaced.       *)
(***************************************************************************)
Done == {r \in Requests : pc[r] \in Applied}

\* BEGIN is for the others: locking and unlocking funds is one statement.
LocksAreOneStatement ==
  \A r \in Requests : op[r].kind \in {"lock", "unlock"} => pc[r] \in Applied

AccountingInv == IInv /\ LocksAreOneStatement /\ Accounting

\* What COMMIT does to the balance of each wallet.
LEMMA MovedBalances ==
  ASSUME NEW rows \in [Wallets -> Row], NEW o \in Op, NEW w \in Wallets
  PROVE  Moved(rows, o)[w].balance =
           rows[w].balance + ((IF o.to = w THEN o.received ELSE 0)
                                - (IF o.from = w THEN o.paid ELSE 0))
<1> DEFINE after == [rows EXCEPT ![o.from] = Debited(@, o.paid)]
<1>1. o.from \in Wallets /\ o.to \in Wallets /\ o.paid \in Nat /\ o.received \in Nat
  BY AmountsAreNaturals
<1>2. \A v \in Wallets : rows[v].balance \in Int
  BY DEF Row
<1>3. after[w].balance = rows[w].balance - (IF o.from = w THEN o.paid ELSE 0)
  BY <1>1, <1>2 DEF Debited, RowOf
<1>4. DOMAIN after = Wallets
  OBVIOUS
<1>5. Moved(rows, o) = [after EXCEPT ![o.to] = Credited(@, o.received)]
  BY DEF Moved
<1> HIDE DEF after
<1>6. Moved(rows, o)[w].balance = after[w].balance + (IF o.to = w THEN o.received ELSE 0)
  <2>1. CASE o.to = w
    <3>1. Moved(rows, o)[w] = Credited(after[w], o.received)
      BY <1>4, <1>5, <2>1
    <3>2. QED
      BY <2>1, <3>1 DEF Credited, RowOf
  <2>2. CASE o.to # w
    <3>1. Moved(rows, o)[w] = after[w]
      BY <1>1, <1>4, <1>5, <2>2
    <3>2. after[w].balance \in Int
      BY <1>1, <1>2, <1>3
    <3>3. QED
      BY <2>2, <3>1, <3>2
  <2>3. QED
    BY <2>1, <2>2
<1>7. QED
  BY <1>1, <1>2, <1>3, <1>6

\* A step that commits nothing and changes no row leaves the accounts as they are.
LEMMA SameAccounts ==
  ASSUME Accounting, UNCHANGED <<wallets, Done>>, \A s \in Done : op'[s] = op[s]
  PROVE  Accounting'
<1> SUFFICES ASSUME NEW w \in Wallets
             PROVE  wallets'[w].balance = Opening[w].balance + CommittedInto(w)'
  BY DEF Accounting
<1>1. CommittedInto(w) = SumFunction([r \in Done |-> Effect(r, w)])
  BY DEF CommittedInto, Done
<1>2. CommittedInto(w)' = SumFunction([r \in Done |-> Effect(r, w)'])
  BY DEF CommittedInto, Done
<1>3. \A r \in Done : Effect(r, w)' = Effect(r, w)
  BY DEF Effect
<1>4. [r \in Done |-> Effect(r, w)'] = [r \in Done |-> Effect(r, w)]
  BY <1>3
<1>5. QED
  BY <1>1, <1>2, <1>4 DEF Accounting

\* A step that commits r adds r's effect to each balance.
LEMMA OneMoreCommitted ==
  ASSUME IInv, Accounting, NEW r \in Requests, pc[r] \notin Applied,
         NEW end \in Applied, pc' = [pc EXCEPT ![r] = end],
         \A s \in Requests : s # r => op'[s] = op[s],
         \A w \in Wallets : /\ Effect(r, w)' \in Int
                            /\ wallets'[w].balance = wallets[w].balance + Effect(r, w)'
  PROVE  Accounting'
<1> SUFFICES ASSUME NEW w \in Wallets
             PROVE  wallets'[w].balance = Opening[w].balance + CommittedInto(w)'
  BY DEF Accounting
<1> DEFINE before == [s \in Done |-> Effect(s, w)]
           after == [s \in Done' |-> Effect(s, w)']
<1>1. r \notin Done /\ Done' = Done \cup {r} /\ Done \in SUBSET Requests
  BY DEF IInv, TypeOK, Done
<1>2. \A s \in Done : before[s] \in Int
  <2>1. ASSUME NEW s \in Done PROVE Effect(s, w) \in Int
    <3>1. op[s] \in Op
      BY DEF IInv, OpsKnown, Done, Applied
    <3>2. op[s].paid \in Int /\ op[s].received \in Int
      BY <3>1, AmountsAreNaturals
    <3>3. QED
      BY <3>2 DEF Effect
  <2>2. QED
    BY <1>1, <2>1
<1>3. \A s \in Done : after[s] = before[s]
  BY <1>1 DEF Effect, Done
<1>4. after[r] = Effect(r, w)' /\ after[r] \in Int
  BY <1>1
<1>5. CommittedInto(w) = SumFunction(before) /\ CommittedInto(w)' = SumFunction(after)
  BY DEF CommittedInto, Done
<1>6. DOMAIN before = Done /\ DOMAIN after = Done \cup {r}
  BY <1>1
<1>7. Opening[w].balance \in Int /\ wallets[w].balance = Opening[w].balance + CommittedInto(w)
  BY LedgerAssumption DEF Row, Accounting
<1> HIDE DEF before, after
<1>8. \A s \in Done : before[s] \in Int /\ after[s] = before[s]
  BY <1>2, <1>3
<1>9. IsFiniteSet(Done)
  BY <1>1, LedgerAssumption, FS_Subset
<1>10. SumFunction(before) \in Int
  BY <1>6, <1>8, <1>9, SumIsInteger
<1>11. SumFunction(after) = SumFunction(before) + after[r]
  BY <1>1, <1>4, <1>6, <1>8, <1>9, SumExtended, Z3
<1>12. QED
  BY <1>4, <1>5, <1>7, <1>10, <1>11

LEMMA InitAccounting == Init => AccountingInv
<1> SUFFICES ASSUME Init PROVE LocksAreOneStatement /\ Accounting
  BY InitIInv DEF AccountingInv
<1>1. LocksAreOneStatement
  BY DEF Init, LocksAreOneStatement, NoOp
<1>2. ASSUME NEW w \in Wallets PROVE wallets[w].balance = Opening[w].balance + CommittedInto(w)
  <2>1. {s \in Requests : pc[s] \in Applied} = {}
    BY DEF Init, Applied
  <2>2. CommittedInto(w) = 0
    <3> DEFINE none == [r \in {} |-> Effect(r, w)]
    <3>1. CommittedInto(w) = SumFunction(none) /\ DOMAIN none = {}
      BY <2>1 DEF CommittedInto
    <3> HIDE DEF none
    <3>2. QED
      BY <3>1, SumOfNone DEF SumFunction
  <2>3. Opening[w].balance \in Int
    BY LedgerAssumption DEF Row
  <2>4. QED
    BY <2>2, <2>3 DEF Init
<1>3. QED
  BY <1>1, <1>2 DEF Accounting

LEMMA StepAccounting == AccountingInv /\ [Next]_vars => AccountingInv'
<1> SUFFICES ASSUME AccountingInv, [Next]_vars PROVE LocksAreOneStatement' /\ Accounting'
  BY StepIInv DEF AccountingInv
<1> USE DEF AccountingInv
<1>1. ASSUME NEW r \in Requests, RollBack(r), pc[r] \in InTransaction
      PROVE  LocksAreOneStatement' /\ Accounting'
  <2>1. \A s \in Requests : pc'[s] = IF s = r THEN "failed" ELSE pc[s]
    BY <1>1 DEF RollBack, GoTo, IInv, TypeOK
  <2>2. pc[r] \notin Applied /\ "failed" \notin Applied
    BY <1>1 DEF InTransaction, Applied
  <2>3. UNCHANGED <<wallets, Done, op>>
    BY <1>1, <2>1, <2>2 DEF RollBack, Done
  <2>4. LocksAreOneStatement'
    BY <2>1, <2>2, <2>3 DEF LocksAreOneStatement
  <2>5. QED
    BY <2>3, <2>4, SameAccounts
<1>2. ASSUME NEW r \in Requests, NEW o \in Operations, Begin(r, o)
      PROVE  LocksAreOneStatement' /\ Accounting'
  <2>1. \A s \in Requests : /\ pc'[s] = IF s = r THEN "begun" ELSE pc[s]
                            /\ op'[s] = IF s = r THEN o ELSE op[s]
    BY <1>2 DEF Begin, GoTo, IInv, TypeOK
  <2>2. /\ pc[r] \notin Applied /\ "begun" \notin Applied
        /\ o.kind \notin {"lock", "unlock"} /\ UNCHANGED wallets
    BY <1>2 DEF Begin, Applied
  <2>3. UNCHANGED Done /\ \A s \in Done : op'[s] = op[s]
    BY <2>1, <2>2 DEF Done
  <2>4. LocksAreOneStatement'
    BY <2>1, <2>2 DEF LocksAreOneStatement
  <2>5. QED
    BY <2>2, <2>3, <2>4, SameAccounts
<1>3. ASSUME NEW r \in Requests, NEW next \in InTransaction, GoTo(r, next),
             pc[r] \in InTransaction, UNCHANGED <<wallets, op>>
      PROVE  LocksAreOneStatement' /\ Accounting'
  <2>1. \A s \in Requests : pc'[s] = IF s = r THEN next ELSE pc[s]
    BY <1>3 DEF GoTo, IInv, TypeOK
  <2>2. pc[r] \notin Applied /\ next \notin Applied
    BY <1>3 DEF InTransaction, Applied
  <2>3. UNCHANGED Done
    BY <2>1, <2>2 DEF Done
  <2>4. LocksAreOneStatement'
    BY <1>3, <2>1, <2>2 DEF LocksAreOneStatement
  <2>5. QED
    BY <1>3, <2>3, <2>4, SameAccounts
<1>4. ASSUME NEW r \in Requests, ConvertCheck(r) PROVE LocksAreOneStatement' /\ Accounting'
  BY <1>1, <1>3, <1>4 DEF ConvertCheck, InTransaction
<1>5. ASSUME NEW r \in Requests, LockFrom(r) PROVE LocksAreOneStatement' /\ Accounting'
  BY <1>1, <1>3, <1>5 DEF LockFrom, InTransaction
<1>6. ASSUME NEW r \in Requests, LockTo(r) PROVE LocksAreOneStatement' /\ Accounting'
  BY <1>3, <1>6 DEF LockTo, InTransaction
<1>7. ASSUME NEW r \in Requests, Commit(r) PROVE LocksAreOneStatement' /\ Accounting'
  <2> PICK end \in Applied : GoTo(r, end)
    BY <1>7 DEF Commit
  <2>1. op[r] \in Op /\ pc[r] \notin Applied /\ UNCHANGED op
        /\ pc' = [pc EXCEPT ![r] = end]
        /\ wallets' = Moved(wallets, op[r]) /\ wallets \in [Wallets -> Row]
    BY <1>7, AtCommit DEF Commit, GoTo, Applied, IInv, TypeOK
  <2>2. op[r].kind \notin {"lock", "unlock"}
    BY <2>1 DEF LocksAreOneStatement
  <2>3. ASSUME NEW w \in Wallets
        PROVE  /\ Effect(r, w)' \in Int
               /\ wallets'[w].balance = wallets[w].balance + Effect(r, w)'
    <3>1. Effect(r, w)' = (IF op[r].to = w THEN op[r].received ELSE 0)
                            - (IF op[r].from = w THEN op[r].paid ELSE 0)
      BY <2>1, <2>2 DEF Effect
    <3>2. op[r].paid \in Int /\ op[r].received \in Int
      BY <2>1, AmountsAreNaturals
    <3>3. QED
      BY <2>1, <3>1, <3>2, MovedBalances
  <2>4. Accounting'
    BY <2>1, <2>3, OneMoreCommitted
  <2>5. LocksAreOneStatement'
    BY <2>1 DEF LocksAreOneStatement, IInv, TypeOK
  <2>6. QED
    BY <2>4, <2>5
<1>8. ASSUME NEW r \in Requests, NEW w \in Wallets, NEW n \in Amounts,
             LockFunds(r, w, n) \/ UnlockFunds(r, w, n)
      PROVE  LocksAreOneStatement' /\ Accounting'
  <2> DEFINE o == op'[r]
  <2> PICK end \in Applied : GoTo(r, end)
    BY <1>8 DEF LockFunds, UnlockFunds
  <2>1. /\ pc[r] \notin Applied /\ pc' = [pc EXCEPT ![r] = end]
        /\ \A s \in Requests : s # r => op'[s] = op[s]
        /\ o.kind \in {"lock", "unlock"} /\ o.received = 0
    BY <1>8 DEF LockFunds, UnlockFunds, GoTo, Applied, Moving, IInv, TypeOK
  <2>2. \A v \in Wallets : wallets[v].balance \in Int
    BY DEF IInv, TypeOK, Row
  <2>3. \A v \in Wallets : wallets'[v].balance = wallets[v].balance
    <3>1. /\ FundsLocked(wallets[w], n).balance = wallets[w].balance
          /\ FundsUnlocked(wallets[w], n).balance = wallets[w].balance
      BY DEF FundsLocked, FundsUnlocked, RowOf
    <3>2. \A v \in Wallets : v # w => wallets'[v] = wallets[v]
      BY <1>8 DEF LockFunds, UnlockFunds, IInv, TypeOK
    <3>3. wallets'[w] \in {FundsLocked(wallets[w], n), FundsUnlocked(wallets[w], n)}
      BY <1>8 DEF LockFunds, UnlockFunds, IInv, TypeOK
    <3>4. QED
      BY <3>1, <3>2, <3>3
  <2>4. \A v \in Wallets : Effect(r, v)' = 0
    BY <2>1 DEF Effect
  <2>5. \A v \in Wallets : /\ Effect(r, v)' \in Int
                             /\ wallets'[v].balance = wallets[v].balance + Effect(r, v)'
    BY <2>2, <2>3, <2>4
  <2>6. Accounting'
    BY <2>1, <2>5, OneMoreCommitted
  <2>7. LocksAreOneStatement'
    BY <2>1 DEF LocksAreOneStatement, IInv, TypeOK
  <2>8. QED
    BY <2>6, <2>7
<1>9. ASSUME NEW r \in Requests, DeadlockVictim(r) PROVE LocksAreOneStatement' /\ Accounting'
  BY <1>1, <1>9 DEF DeadlockVictim, Deadlocked
<1>10. ASSUME NEW r \in Requests, ConnectionLost(r) PROVE LocksAreOneStatement' /\ Accounting'
  BY <1>1, <1>10 DEF ConnectionLost
<1>11. CASE UNCHANGED vars
  BY <1>11, SameAccounts DEF vars, LocksAreOneStatement, Done
<1>12. QED
  BY <1>2, <1>4, <1>5, <1>6, <1>7, <1>8, <1>9, <1>10, <1>11 DEF Next, Step

(***************************************************************************)
(* No update of a balance is lost, and none is applied twice or by half:   *)
(* whatever requests run concurrently, and whichever of them deadlock or   *)
(* lose their connection, a wallet holds its opening balance plus exactly  *)
(* what the operations whose COMMIT or single UPDATE took effect moved,    *)
(* all that reported success among them.                                   *)
(***************************************************************************)
THEOREM AccountsBalance == Spec => []Accounting
<1>1. AccountingInv => Accounting
  BY DEF AccountingInv
<1>2. QED
  BY InitAccounting, StepAccounting, <1>1, PTL DEF Spec
=============================================================================
