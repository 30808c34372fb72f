--------------------------- MODULE WalletService_proofs ---------------------------
(***************************************************************************)
(* Two sides of the wallet service.  LimitOrders: for every number of       *)
(* concurrent placements and cancellations and every amount, the wallet's   *)
(* row keeps to the table's constraints, and what is locked backs the open  *)
(* orders but for three recorded races.  WalletRequests: for every number   *)
(* of requests and connections, none is lost and the cached wallets are the *)
(* committed ones unless a recorded cause made them old.                    *)
(***************************************************************************)
EXTENDS LimitOrders, WalletRequests, Sums

\* A row that can be stored and whose columns agree.
Sound(r) == r \in Row /\ Coherent(r)

LEMMA LockedRow ==
  ASSUME NEW r, Sound(r), NEW n \in Nat
  PROVE  Sound(FundsLocked(r, n)) /\ Sound(FundsUnlocked(r, n))
BY SMT DEF Sound, Row, Coherent, FundsLocked, FundsUnlocked, RowOf

LEMMA DebitedRow ==
  ASSUME NEW r, Sound(r), NEW n \in Nat, r.available >= n
  PROVE  Sound(Debited(r, n))
BY SMT DEF Sound, Row, Coherent, Debited, RowOf

\* Each half is inductive with the other: without coherence a debit of what is
\* available could make the balance negative.
IInv == TypeOK /\ Coherent(row)

LEMMA InitIInv == Init => IInv
BY LimitAssumption DEF Init, IInv, TypeOK

LEMMA StepIInv == IInv /\ [Next]_vars => IInv'
<1> SUFFICES ASSUME IInv, [Next]_vars PROVE IInv'
  OBVIOUS
<1>1. Sound(row) /\ Amounts \subseteq Nat
  BY LimitAssumption DEF IInv, TypeOK, Sound
<1> USE DEF IInv, TypeOK, PlaceGoes, CancelGoes, placeVars, cancelVars
<1>2. ASSUME NEW o \in Orders, CheckFunds(o) PROVE IInv'
  BY <1>2 DEF CheckFunds
<1>3. ASSUME NEW o \in Orders, LockFunds(o) PROVE IInv'
  <2>1. Sound(row')
    BY <1>1, <1>3, LockedRow DEF LockFunds
  <2>2. QED
    BY <1>3, <2>1 DEF LockFunds, Sound
<1>4. ASSUME NEW o \in Orders, InsertOrder(o) PROVE IInv'
  BY <1>4 DEF InsertOrder
<1>5. ASSUME NEW o \in Orders, PlaceFails(o) PROVE IInv'
  BY <1>5 DEF PlaceFails
<1>6. ASSUME NEW c \in Cancels, FindOrder(c) PROVE IInv'
  BY <1>6 DEF FindOrder
<1>7. ASSUME NEW c \in Cancels, UnlockFunds(c) PROVE IInv'
  <2>1. amount[target[c]] \in Nat
    BY <1>1
  <2>2. Sound(row')
    BY <1>1, <1>7, <2>1, LockedRow DEF UnlockFunds
  <2>3. QED
    BY <1>7, <2>2 DEF UnlockFunds, Sound
<1>8. ASSUME NEW c \in Cancels, CloseOrder(c) PROVE IInv'
  BY <1>8 DEF CloseOrder
<1>9. ASSUME NEW c \in Cancels, CancelFails(c) PROVE IInv'
  BY <1>9 DEF CancelFails
<1>10. ASSUME NEW n \in Amounts, Withdraw(n) PROVE IInv'
  <2>1. Sound(row')
    BY <1>1, <1>10, DebitedRow DEF Withdraw
  <2>2. QED
    BY <1>10, <2>1 DEF Withdraw, Sound
<1>11. ASSUME UNCHANGED vars PROVE IInv'
  BY <1>11 DEF vars
<1>12. QED
  BY <1>2, <1>3, <1>4, <1>5, <1>6, <1>7, <1>8, <1>9, <1>10, <1>11 DEF Next, HealthyNext

\* Every variable stays in its range; the row never breaks a CHECK constraint.
THEOREM TypeCorrect == Spec => []TypeOK
<1>1. IInv => TypeOK
  BY DEF IInv
<1>2. QED
  BY InitIInv, StepIInv, <1>1, PTL DEF Spec

-----------------------------------------------------------------------------
(***************************************************************************)
(* The reserved amounts.  Without a race a cancel that is under way has the *)
(* only claim on an order that is open, so it gives back exactly what that  *)
(* order put into the sum, and unlockFunds finds that much locked.          *)
(***************************************************************************)
RecordedWasPlaced ==
  /\ \A o \in Orders : status[o] # "none" => place[o] = "placed"
  /\ \A c \in Cancels : cancel[c] \in InProgress => status[target[c]] # "none"

CancelsAreAlone ==
  ~raced =>
    \A c \in Cancels : cancel[c] \in InProgress =>
      /\ status[target[c]] = "open"
      /\ \A d \in Cancels : cancel[d] \in InProgress /\ target[d] = target[c] => d = c

BackedInv == IInv /\ RecordedWasPlaced /\ CancelsAreAlone /\ BackedUnlessRaced

LEMMA AmountsAreNaturals ==
  ASSUME IInv
  PROVE  /\ \A o \in Orders : amount[o] \in Nat
         /\ Opening.locked \in Nat /\ row.locked \in Nat /\ row.available \in Nat
         /\ IsFiniteSet(Reserving) /\ SumFunctionOnSet(amount, Reserving) \in Nat
         /\ \A o \in Reserving : amount[o] <= SumFunctionOnSet(amount, Reserving)
<1>1. \A o \in Orders : amount[o] \in Nat
  BY LimitAssumption DEF IInv, TypeOK
<1>2. Opening.locked \in Nat /\ row.locked \in Nat /\ row.available \in Nat
  BY LimitAssumption DEF IInv, TypeOK, Row
<1>3. IsFiniteSet(Reserving) /\ \A o \in Reserving : amount[o] \in Nat
  BY <1>1, LimitAssumption, FS_Subset DEF Reserving
<1>4. QED
  BY <1>1, <1>2, <1>3, SumOfNaturals

LEMMA InitBacked == Init => BackedInv
<1> SUFFICES ASSUME Init PROVE RecordedWasPlaced /\ CancelsAreAlone /\ BackedUnlessRaced
  BY InitIInv DEF BackedInv
<1>1. RecordedWasPlaced /\ CancelsAreAlone
  BY DEF Init, RecordedWasPlaced, CancelsAreAlone, InProgress
<1>2. Reserving = {}
  BY DEF Init, Reserving
<1>3. Opening.locked \in Nat
  BY LimitAssumption DEF Row
<1>4. BackedUnlessRaced
  BY <1>2, <1>3, SumOfNone DEF Init, BackedUnlessRaced
<1>5. QED
  BY <1>1, <1>4

\* A step that changes neither what is locked nor what should be.
LEMMA SameReserving ==
  ASSUME BackedInv, UNCHANGED <<amount, Reserving>>, row'.locked = row.locked, raced' \/ ~raced
  PROVE  BackedUnlessRaced'
BY DEF BackedInv, BackedUnlessRaced

\* The steps of placeLimitOrder.
LEMMA PlaceBacked ==
  ASSUME BackedInv, NEW o \in Orders,
         CheckFunds(o) \/ LockFunds(o) \/ InsertOrder(o) \/ PlaceFails(o)
  PROVE  RecordedWasPlaced' /\ CancelsAreAlone' /\ BackedUnlessRaced'
<1> USE DEF BackedInv, PlaceGoes, cancelVars
<1>1. /\ place \in [Orders -> {"new", "checked", "locked", "placed", "refused", "failed"}]
      /\ status \in [Orders -> {"none", "open", "cancelled"}]
      /\ target \in [Cancels -> Orders]
  BY DEF IInv, TypeOK
<1>2. /\ \A p \in Orders : p # o => place'[p] = place[p] /\ status'[p] = status[p]
      /\ UNCHANGED <<target, cancel, amount>> /\ (raced => raced')
      /\ place[o] \in {"new", "checked", "locked"}
  <2>1. CASE CheckFunds(o)
    BY <1>1, <2>1 DEF CheckFunds
  <2>2. CASE LockFunds(o)
    BY <1>1, <2>2 DEF LockFunds
  <2>3. CASE InsertOrder(o)
    BY <1>1, <2>3 DEF InsertOrder
  <2>4. CASE PlaceFails(o)
    BY <1>1, <2>4 DEF PlaceFails
  <2>5. QED
    BY <2>1, <2>2, <2>3, <2>4
<1>3. status[o] = "none"
  BY <1>1, <1>2 DEF RecordedWasPlaced
<1>4. RecordedWasPlaced'
  <2>1. status'[o] # "none" => place'[o] = "placed"
    BY <1>1, <1>3 DEF CheckFunds, LockFunds, InsertOrder, PlaceFails
  <2>2. \A c \in Cancels : cancel[c] \in InProgress => status'[target[c]] # "none"
    BY <1>1, <1>2, <1>3 DEF RecordedWasPlaced
  <2>3. QED
    BY <1>2, <2>1, <2>2 DEF RecordedWasPlaced
<1>5. \A p \in Orders : status[p] = "open" => status'[p] = "open"
  BY <1>2, <1>3
<1>6. CancelsAreAlone'
  BY <1>1, <1>2, <1>5 DEF CancelsAreAlone
<1>7. \A p \in Orders : GivenBack(p)' = GivenBack(p)
  BY <1>2 DEF GivenBack
<1>8. ~raced => ~GivenBack(o)
  BY <1>1, <1>3 DEF CancelsAreAlone, GivenBack, InProgress
<1>9. BackedUnlessRaced'
  <2>1. CASE CheckFunds(o)
    <3>1. place'[o] # "locked" /\ place[o] # "locked" /\ status' = status
      BY <1>1, <2>1 DEF CheckFunds
    <3>2. Reserving' = Reserving
      BY <1>2, <1>7, <3>1 DEF Reserving
    <3>3. QED
      BY <1>2, <2>1, <3>2, SameReserving DEF CheckFunds
  <2>2. CASE LockFunds(o) /\ ~raced'
    <3>1. place'[o] = "locked" /\ place[o] = "checked" /\ status' = status
      BY <1>1, <2>2 DEF LockFunds
    <3>2. o \notin Reserving /\ Reserving' = Reserving \cup {o}
      BY <1>2, <1>7, <1>3, <3>1 DEF Reserving
    <3>3. row'.locked = row.locked + amount[o]
      <4>1. row.available \in Nat /\ amount[o] \in Nat
        BY AmountsAreNaturals
      <4>2. row' = FundsLocked(row, amount[o]) /\ ~(row.available < amount[o])
        BY <2>2 DEF LockFunds
      <4>3. QED
        BY <4>1, <4>2 DEF FundsLocked, RowOf
    <3>4. \A p \in Reserving \cup {o} : amount[p] \in Int
      BY AmountsAreNaturals DEF Reserving
    <3>5. SumFunctionOnSet(amount, Reserving \cup {o}) = SumFunctionOnSet(amount, Reserving) + amount[o]
      BY <3>2, <3>4, AmountsAreNaturals, SumWith
    <3>6. row.locked = Opening.locked + SumFunctionOnSet(amount, Reserving)
      BY <2>2 DEF LockFunds, BackedUnlessRaced
    <3>7. row'.locked = Opening.locked + SumFunctionOnSet(amount, Reserving \cup {o})
      BY <3>3, <3>5, <3>6, AmountsAreNaturals
    <3>8. QED
      BY <1>2, <3>2, <3>7 DEF BackedUnlessRaced
  <2>3. CASE InsertOrder(o)
    <3>1. /\ place[o] = "locked" /\ place'[o] = "placed" /\ status'[o] = "open"
          /\ UNCHANGED <<row, raced>>
      BY <1>1, <2>3 DEF InsertOrder
    <3>2. ~raced => Reserving' = Reserving
      BY <1>2, <1>7, <1>8, <1>3, <3>1 DEF Reserving
    <3>3. QED
      BY <1>2, <3>1, <3>2 DEF BackedUnlessRaced
  <2>4. CASE PlaceFails(o) /\ ~raced'
    <3>1. place'[o] = "failed" /\ place[o] = "checked" /\ UNCHANGED <<row, status>>
      BY <1>1, <2>4 DEF PlaceFails
    <3>2. Reserving' = Reserving
      BY <1>2, <1>7, <3>1 DEF Reserving
    <3>3. QED
      BY <1>2, <3>1, <3>2, SameReserving
  <2>5. QED
    BY <2>1, <2>2, <2>3, <2>4 DEF BackedUnlessRaced
<1>10. QED
  BY <1>4, <1>6, <1>9

\* The steps of cancelOrder.
LEMMA CancelBacked ==
  ASSUME BackedInv, NEW c \in Cancels,
         FindOrder(c) \/ UnlockFunds(c) \/ CloseOrder(c) \/ CancelFails(c)
  PROVE  RecordedWasPlaced' /\ CancelsAreAlone' /\ BackedUnlessRaced'
<1> USE DEF BackedInv, CancelGoes, placeVars
<1> DEFINE o == target[c]
<1>1. /\ status \in [Orders -> {"none", "open", "cancelled"}]
      /\ target \in [Cancels -> Orders] /\ o \in Orders
      /\ cancel \in [Cancels -> {"new", "found", "unlocked", "done", "refused", "failed"}]
  BY DEF IInv, TypeOK
<1>2. /\ \A d \in Cancels : d # c => cancel'[d] = cancel[d]
      /\ \A p \in Orders : p # o => status'[p] = status[p]
      /\ UNCHANGED <<target, amount, place>> /\ (raced => raced')
      /\ cancel'[c] \in InProgress =>
           cancel[c] \in InProgress \/ status[o] = "open"
      /\ status'[o] \in {status[o], "cancelled"}
      /\ status'[o] = "cancelled" /\ status[o] # "cancelled" => cancel[c] \in InProgress
  <2>1. CASE FindOrder(c)
    BY <1>1, <2>1 DEF FindOrder, IsOpen, InProgress
  <2>2. CASE UnlockFunds(c)
    BY <1>1, <2>2 DEF UnlockFunds, InProgress
  <2>3. CASE CloseOrder(c)
    BY <1>1, <2>3 DEF CloseOrder, InProgress
  <2>4. CASE CancelFails(c)
    BY <1>1, <2>4 DEF CancelFails, InProgress
  <2>5. QED
    BY <2>1, <2>2, <2>3, <2>4
<1>3. RecordedWasPlaced'
  <2>1. \A p \in Orders : status'[p] = "none" <=> status[p] = "none"
    BY <1>2 DEF RecordedWasPlaced
  <2>2. \A d \in Cancels : cancel'[d] \in InProgress => status[target[d]] # "none"
    BY <1>2 DEF RecordedWasPlaced
  <2>3. QED
    BY <1>1, <1>2, <2>1, <2>2 DEF RecordedWasPlaced
<1>4. \A p \in Orders : p # o => GivenBack(p)' = GivenBack(p)
  BY <1>1, <1>2 DEF GivenBack
<1>5. CASE FindOrder(c)
  <2>1. /\ cancel[c] = "new" /\ cancel'[c] \in {"found", "refused"} /\ UNCHANGED <<row, status>>
        /\ cancel'[c] = "found" => status[o] = "open"
        /\ ~raced' => \A d \in Cancels : target[d] = o => cancel[d] \notin InProgress
    BY <1>1, <1>5 DEF FindOrder, IsOpen
  <2>3. CancelsAreAlone'
    <3> SUFFICES ASSUME ~raced', NEW d \in Cancels, cancel'[d] \in InProgress
                 PROVE  /\ status[target[d]] = "open"
                        /\ \A e \in Cancels : cancel'[e] \in InProgress /\ target[e] = target[d] => e = d
      BY <1>2, <2>1 DEF CancelsAreAlone
    <3>1. CASE d = c
      BY <1>2, <2>1, <3>1 DEF InProgress
    <3>2. CASE d # c
      <4>1. cancel[d] \in InProgress /\ target[d] # o
        BY <1>2, <2>1, <3>2
      <4>2. QED
        BY <1>2, <4>1 DEF CancelsAreAlone
    <3>3. QED
      BY <3>1, <3>2
  <2>4. Reserving' = Reserving
    <3>1. GivenBack(o)' = GivenBack(o)
      BY <1>2, <2>1 DEF GivenBack
    <3>2. QED
      BY <1>2, <1>4, <2>1, <3>1 DEF Reserving
  <2>5. QED
    BY <1>2, <1>3, <2>1, <2>3, <2>4, SameReserving
<1>6. CASE UnlockFunds(c)
  <2>1. cancel[c] = "found" /\ cancel'[c] = "unlocked" /\ UNCHANGED <<status, raced>>
    BY <1>1, <1>6 DEF UnlockFunds
  <2>3. \A d \in Cancels : cancel'[d] \in InProgress <=> cancel[d] \in InProgress
    BY <1>2, <2>1 DEF InProgress
  <2>4. CancelsAreAlone'
    BY <1>2, <2>1, <2>3 DEF CancelsAreAlone
  <2>5. ASSUME ~raced PROVE row'.locked = Opening.locked + SumFunctionOnSet(amount, Reserving')
    <3>1. status[o] = "open" /\ place[o] = "placed"
      BY <1>1, <2>1, <2>5 DEF CancelsAreAlone, RecordedWasPlaced, InProgress
    <3>2. ~GivenBack(o)
      BY <2>1, <2>5 DEF CancelsAreAlone, GivenBack, InProgress
    <3>3. GivenBack(o)'
      BY <1>2, <2>1 DEF GivenBack
    <3>4. o \in Reserving /\ Reserving' = Reserving \ {o}
      BY <1>1, <1>2, <1>4, <2>1, <3>1, <3>2, <3>3 DEF Reserving
    <3>5. row.locked = Opening.locked + SumFunctionOnSet(amount, Reserving)
      BY <2>5 DEF BackedUnlessRaced
    <3>6. row'.locked = row.locked - amount[o]
      <4>1. row.locked >= amount[o]
        BY <1>1, <3>4, <3>5, AmountsAreNaturals
      <4>2. QED
        BY <1>6, <4>1 DEF UnlockFunds, FundsUnlocked, RowOf
    <3>7. \A p \in Reserving : amount[p] \in Int
      BY AmountsAreNaturals DEF Reserving
    <3>8. SumFunctionOnSet(amount, Reserving) = SumFunctionOnSet(amount, Reserving \ {o}) + amount[o]
      BY <3>4, <3>7, AmountsAreNaturals, SumWithout
    <3>9. SumFunctionOnSet(amount, Reserving \ {o}) \in Int
      <4>1. IsFiniteSet(Reserving \ {o}) /\ \A p \in Reserving \ {o} : amount[p] \in Int
        BY <3>7, AmountsAreNaturals, FS_Subset
      <4>2. QED
        BY <4>1, SumWithout
    <3>10. row'.locked = Opening.locked + SumFunctionOnSet(amount, Reserving \ {o})
      BY <1>1, <3>5, <3>6, <3>8, <3>9, AmountsAreNaturals
    <3>11. QED
      BY <3>4, <3>10
  <2>6. BackedUnlessRaced'
    BY <1>2, <2>1, <2>5 DEF BackedUnlessRaced
  <2>7. QED
    BY <1>3, <2>4, <2>6
<1>7. CASE CloseOrder(c)
  <2>1. /\ cancel[c] = "unlocked" /\ cancel'[c] = "done" /\ status'[o] = "cancelled"
        /\ UNCHANGED <<row, raced>>
    BY <1>1, <1>7 DEF CloseOrder
  <2>2. CASE raced
    BY <1>3, <2>1, <2>2 DEF CancelsAreAlone, BackedUnlessRaced
  <2>3. CASE ~raced
    <3>1. status[o] = "open" /\ place[o] = "placed"
      BY <1>1, <2>1, <2>3 DEF CancelsAreAlone, RecordedWasPlaced, InProgress
    <3>3. CancelsAreAlone'
      BY <1>1, <1>2, <2>1, <2>3 DEF CancelsAreAlone, InProgress
    <3>4. GivenBack(o)
      BY <2>1 DEF GivenBack
    <3>5. Reserving' = Reserving
      BY <1>1, <1>2, <1>4, <2>1, <3>1, <3>4 DEF Reserving
    <3>6. QED
      BY <1>2, <1>3, <2>1, <3>3, <3>5, SameReserving
  <2>4. QED
    BY <2>2, <2>3
<1>8. CASE CancelFails(c)
  <2>1. /\ cancel[c] \in InProgress /\ cancel'[c] = "failed" /\ UNCHANGED <<row, status>>
        /\ ~raced' => cancel[c] = "found"
    BY <1>1, <1>8 DEF CancelFails, InProgress
  <2>3. CancelsAreAlone'
    BY <1>2, <2>1 DEF CancelsAreAlone, InProgress
  <2>4. ~raced' => Reserving' = Reserving
    <3>1. ~raced' => GivenBack(o)' = GivenBack(o)
      BY <1>2, <2>1 DEF GivenBack
    <3>2. QED
      BY <1>2, <1>4, <2>1, <3>1 DEF Reserving
  <2>5. BackedUnlessRaced'
    BY <1>2, <2>1, <2>4 DEF BackedUnlessRaced
  <2>6. QED
    BY <1>3, <2>3, <2>5
<1>9. QED
  BY <1>5, <1>6, <1>7, <1>8

LEMMA StepBacked == BackedInv /\ [Next]_vars => BackedInv'
<1> SUFFICES ASSUME BackedInv, [Next]_vars
             PROVE  RecordedWasPlaced' /\ CancelsAreAlone' /\ BackedUnlessRaced'
  BY StepIInv DEF BackedInv
<1>1. ASSUME NEW n \in Amounts, Withdraw(n)
      PROVE  RecordedWasPlaced' /\ CancelsAreAlone' /\ BackedUnlessRaced'
  <2>1. UNCHANGED <<status, placeVars, cancelVars, raced>> /\ row'.locked = row.locked
    BY <1>1 DEF Withdraw, Debited, RowOf
  <2>2. Reserving' = Reserving
    BY <2>1 DEF Reserving, GivenBack, placeVars, cancelVars
  <2>3. BackedUnlessRaced'
    BY <2>1, <2>2, SameReserving DEF placeVars
  <2>4. QED
    BY <2>1, <2>3 DEF BackedInv, RecordedWasPlaced, CancelsAreAlone, placeVars, cancelVars
<1>2. CASE UNCHANGED vars
  <2>1. Reserving' = Reserving
    BY <1>2 DEF Reserving, GivenBack, vars, placeVars, cancelVars
  <2>2. BackedUnlessRaced'
    BY <1>2, <2>1, SameReserving DEF vars, placeVars
  <2>3. QED
    BY <1>2, <2>2 DEF BackedInv, RecordedWasPlaced, CancelsAreAlone, vars, placeVars, cancelVars
<1>3. QED
  BY <1>1, <1>2, PlaceBacked, CancelBacked DEF Next, HealthyNext

(***************************************************************************)
(* Exactly the amounts of the open limit orders are locked, for any number  *)
(* of orders, cancellations and withdrawals, unless a lock found too little *)
(* available, two cancels of one order overlapped or a request failed half  *)
(* way: placeLimitOrder and cancelOrder go wrong in no other way.           *)
(***************************************************************************)
THEOREM OpenOrdersAreBacked == Spec => []BackedUnlessRaced
<1>1. BackedInv => BackedUnlessRaced
  BY DEF BackedInv
<1>2. QED
  BY InitBacked, StepBacked, <1>1, PTL DEF Spec

-----------------------------------------------------------------------------
(* Requests over the pool and the cache.  A step of one request moves the
   connections of that request alone, so what is inductive says, request by
   request, how many connections belong to the place it has reached.         *)

Places == Ended \cup {"look up", "connect", "waiting", "resolve", "query",
                      "fill", "delete", "commit"}

\* What a request that has reached step s and holds h connections can be.
Placed(r, s, h) ==
    /\ s \in {"look up", "fill"} => Kind[r] = "read" /\ h = 0
    /\ s \in {"connect", "waiting"} => h < Needs(r)
    /\ s = "resolve" => h = 2 /\ Needs(r) = 2
    /\ s = "query" => h = 1
    /\ s = "delete" => /\ Kind[r] # "read" /\ Deletes(r)
                       /\ h = IF InTransaction(r) THEN 1 ELSE 0
    /\ s = "commit" => InTransaction(r) /\ h = 1
    /\ s \in Ended => h = 0

PoolInv ==
    /\ free \in 0..MaxConnections
    /\ held \in [Requests -> 0..2]
    /\ free + SumFunction(held) = MaxConnections
    /\ pc \in [Requests -> Places]
    /\ \A r \in Requests : Placed(r, pc[r], held[r])

\* Whoever is in the queue waits, and is there once.
QueueOf(q, W) == q \in Seq(W) /\ IsInjective(q)
QueueInv == QueueOf(queue, {r \in Requests : pc[r] = "waiting"})

LockInv ==
    /\ lock \in SUBSET Requests
    /\ \A r \in lock : InTransaction(r) /\ pc[r] \in {"delete", "commit"}

\* An entry filled while a transaction is between its deletion and its commit is
\* on record before that commit makes it an old one.
RowsInv ==
    /\ committed \in Nat /\ cache \in {Missing} \cup 0..committed
    /\ got \in [Requests -> {Missing} \cup 0..committed]
    /\ redis \in BOOLEAN
    /\ cause \subseteq Causes
    /\ FreshUnlessRaced
    /\ cache # Missing /\ DeletedEarly => cause # {}

RequestsInv == PoolInv /\ QueueInv /\ LockInv /\ RowsInv

-----------------------------------------------------------------------------
(* The queue: joining, being served, and leaving it from the middle. *)

LEMMA QueueJoined ==
  ASSUME NEW W, NEW q, QueueOf(q, W), NEW r, r \notin W
  PROVE  QueueOf(Append(q, r), W \cup {r})
<1>1. Append(q, r) \in Seq(W \cup {r})
  BY DEF QueueOf
<1>2. ASSUME NEW a \in DOMAIN Append(q, r), NEW b \in DOMAIN Append(q, r),
             Append(q, r)[a] = Append(q, r)[b]
      PROVE  a = b
  BY <1>2 DEF QueueOf, IsInjective
<1>3. QED
  BY <1>1, <1>2 DEF QueueOf, IsInjective

LEMMA QueueServed ==
  ASSUME NEW W, NEW q, QueueOf(q, W), q # <<>>
  PROVE  Head(q) \in W /\ QueueOf(Tail(q), W \ {Head(q)})
<1>1. q \in Seq(W) /\ Len(q) \in Nat /\ Len(q) > 0
  BY DEF QueueOf
<1>2. Len(Tail(q)) = Len(q) - 1 /\ \A i \in 1..Len(q) - 1 : Tail(q)[i] = q[i + 1]
  BY <1>1
<1>3. \A i \in 1..Len(q) - 1 : q[i + 1] \in W /\ q[i + 1] # q[1]
  BY <1>1 DEF QueueOf, IsInjective
<1>4. Tail(q) \in Seq(W) /\ DOMAIN Tail(q) = 1..Len(q) - 1 /\ Head(q) = q[1]
  BY <1>1, <1>2
<1>5. Tail(q) \in Seq(W \ {Head(q)})
  <2> DEFINE s == Tail(q)
  <2>1. \A j \in 1..Len(q) - 1 : s[j] \in W \ {Head(q)}
    BY <1>2, <1>3, <1>4
  <2>2. s \in Seq(W) /\ Len(s) = Len(q) - 1
    BY <1>2, <1>4
  <2> DEFINE first == Head(q)
             left == W \ {first}
  <2>3. Len(q) - 1 \in Nat
    BY <1>1
  <2>4. \A j \in 1..Len(s) : s[j] \in left
    BY <2>1, <2>2
  <2> HIDE DEF s, left
  <2>5. s \in Seq(left)
    BY <2>2, <2>3, <2>4
  <2>6. QED
    BY <2>5 DEF s, left
<1>6. ASSUME NEW a \in DOMAIN Tail(q), NEW b \in DOMAIN Tail(q), Tail(q)[a] = Tail(q)[b]
      PROVE  a = b
  <2>1. a \in Int /\ b \in Int /\ a + 1 \in DOMAIN q /\ b + 1 \in DOMAIN q
    BY <1>1, <1>4
  <2>2. q[a + 1] = q[b + 1]
    BY <1>2, <1>4, <1>6
  <2>3. a + 1 = b + 1
    BY <2>1, <2>2 DEF QueueOf, IsInjective
  <2>4. QED
    BY <2>1, <2>3
<1>7. QED
  BY <1>1, <1>5, <1>6 DEF QueueOf, IsInjective

LEMMA QueueLeft ==
  ASSUME NEW W, NEW q, QueueOf(q, W), NEW i \in DOMAIN q
  PROVE  QueueOf(RemoveAt(q, i), W \ {q[i]})
<1> DEFINE s == RemoveAt(q, i)
           was(j) == IF j < i THEN j ELSE j + 1
<1>1. q \in Seq(W) /\ Len(q) \in Nat /\ i \in 1..Len(q) /\ DOMAIN q = 1..Len(q)
  BY DEF QueueOf
<1>2. /\ SubSeq(q, 1, i - 1) \in Seq(W) /\ Len(SubSeq(q, 1, i - 1)) = i - 1
      /\ SubSeq(q, i + 1, Len(q)) \in Seq(W) /\ Len(SubSeq(q, i + 1, Len(q))) = Len(q) - i
  BY <1>1
<1>3. s \in Seq(W) /\ Len(s) = Len(q) - 1
  BY <1>1, <1>2 DEF RemoveAt
<1>4. ASSUME NEW j \in 1..Len(q) - 1
      PROVE  s[j] = q[was(j)]
  <2>1. CASE j < i
    <3>1. s[j] = SubSeq(q, 1, i - 1)[j]
      BY <1>1, <1>2, <2>1 DEF RemoveAt
    <3>2. QED
      BY <1>1, <2>1, <3>1
  <2>2. CASE ~ j < i
    <3> DEFINE before == SubSeq(q, 1, i - 1)
               after == SubSeq(q, i + 1, Len(q))
    <3>1. /\ before \in Seq(W) /\ after \in Seq(W) /\ s = before \o after
          /\ Len(before) = i - 1 /\ Len(after) = Len(q) - i
      BY <1>2 DEF RemoveAt
    <3>2. s[j] = SubSeq(q, i + 1, Len(q))[j - (i - 1)]
      <4>1. j \in Int /\ Len(before) < j /\ j <= Len(before) + Len(after)
        BY <1>1, <2>2, <3>1
      <4>2. s[j] = after[j - Len(before)]
        <5> HIDE DEF before, after, s
        <5>1. QED
          BY <3>1, <4>1
      <4>3. QED
        BY <3>1, <4>2
    <3>3. j - (i - 1) \in 1..Len(q) - i
      BY <1>1, <2>2
    <3>4. SubSeq(q, i + 1, Len(q))[j - (i - 1)] = q[i + 1 + (j - (i - 1)) - 1]
      BY <1>1, <3>3
    <3>5. i + 1 + (j - (i - 1)) - 1 = j + 1
      BY <1>1
    <3>6. QED
      BY <2>2, <3>2, <3>4, <3>5
  <2>3. QED
    BY <2>1, <2>2
<1>5. \A j \in 1..Len(q) - 1 : was(j) \in 1..Len(q) /\ was(j) # i
  BY <1>1
<1>6. \A j \in 1..Len(q) - 1 : s[j] \in W \ {q[i]}
  <2>1. \A j \in 1..Len(q) - 1 : q[was(j)] \in W
    BY <1>1, <1>5
  <2>2. \A j \in 1..Len(q) - 1 : q[was(j)] # q[i]
    BY <1>1, <1>5 DEF QueueOf, IsInjective
  <2>3. QED
    BY <2>1, <2>2, <1>4
<1>7. s \in Seq(W \ {q[i]})
  <2> HIDE DEF s, was
  <2>1. QED
    BY <1>1, <1>3, <1>6
<1>8. ASSUME NEW a \in DOMAIN s, NEW b \in DOMAIN s, s[a] = s[b]
      PROVE  a = b
  <2>1. a \in 1..Len(q) - 1 /\ b \in 1..Len(q) - 1
    <3> HIDE DEF s
    <3>1. QED
      BY <1>1, <1>3
  <2>2. q[was(a)] = q[was(b)]
    BY <1>4, <1>8, <2>1
  <2>3. was(a) = was(b)
    BY <1>1, <1>5, <2>1, <2>2 DEF QueueOf, IsInjective
  <2>4. QED
    BY <1>1, <2>1, <2>3
<1>9. QED
  BY <1>7, <1>8 DEF QueueOf, IsInjective

-----------------------------------------------------------------------------
(* The connections: what one request takes or gives back. *)

LEMMA HeldAreCounted ==
  ASSUME PoolInv
  PROVE  \A r \in Requests : held[r] <= SumFunction(held)
<1>1. DOMAIN held = Requests /\ IsFiniteSet(Requests) /\ \A r \in Requests : held[r] \in Nat
  BY PoolAssumption DEF PoolInv
<1>2. QED
  BY <1>1, SumOfNaturals DEF SumFunction

\* A step of one request, to another place and with other connections.
LEMMA OneMoves ==
  ASSUME PoolInv, NEW r \in Requests, NEW s \in Places, NEW h \in 0..2,
         pc' = [pc EXCEPT ![r] = s], held' = [held EXCEPT ![r] = h],
         free' = free + held[r] - h, free' >= 0, Placed(r, s, h)
  PROVE  PoolInv'
<1>1. held \in [Requests -> 0..2] /\ free \in 0..MaxConnections /\ IsFiniteSet(Requests)
  BY PoolAssumption DEF PoolInv
<1>2. held' \in [Requests -> 0..2]
  BY <1>1
<1>3. SumFunction(held') = SumFunction(held) - held[r] + h
  <2>1. \A y \in Requests : held[y] \in Int /\ held'[y] \in Int
    BY <1>1, <1>2
  <2>2. \A y \in Requests : y # r => held'[y] = held[y]
    BY <1>1
  <2>3. held'[r] = h /\ DOMAIN held = Requests /\ DOMAIN held' = Requests
    BY <1>1
  <2> DEFINE before == held
             after == held'
  <2>4. /\ \A y \in Requests : before[y] \in Int /\ after[y] \in Int
        /\ \A y \in Requests : y # r => after[y] = before[y]
    BY <2>1, <2>2
  <2>5. SumFunctionOnSet(after, Requests)
          = SumFunctionOnSet(before, Requests) - before[r] + after[r]
    <3> HIDE DEF before, after
    <3>1. QED
      BY <1>1, <2>4, SumChanged, Z3
  <2>6. QED
    BY <2>3, <2>5 DEF SumFunction
<1>4. pc' \in [Requests -> Places] /\ \A q \in Requests : Placed(q, pc'[q], held'[q])
  <2>1. pc' \in [Requests -> Places]
    BY DEF PoolInv
  <2>2. ASSUME NEW q \in Requests PROVE Placed(q, pc'[q], held'[q])
    <3>1. CASE q = r
      <4>1. pc'[q] = s /\ held'[q] = h
        BY <1>1, <3>1 DEF PoolInv
      <4>2. QED
        BY <3>1, <4>1
    <3>2. CASE q # r
      <4>1. pc'[q] = pc[q] /\ held'[q] = held[q]
        BY <1>1, <3>2 DEF PoolInv
      <4>2. Placed(q, pc[q], held[q])
        BY DEF PoolInv
      <4>3. QED
        BY <4>1, <4>2
    <3>3. QED
      BY <3>1, <3>2
  <2>3. QED
    BY <2>1, <2>2
<1>5. SumFunction(held') \in Nat
  <2>1. DOMAIN held' = Requests /\ \A y \in Requests : held'[y] \in Nat
    BY <1>2
  <2>2. QED
    BY <1>1, <2>1, SumOfNaturals DEF SumFunction
<1>6. free' \in 0..MaxConnections /\ free' + SumFunction(held') = MaxConnections
  <2>1. held[r] \in Int /\ h \in Int /\ free \in Int /\ MaxConnections \in Int
    BY <1>1, PoolAssumption
  <2>2. SumFunction(held) = MaxConnections - free /\ SumFunction(held) \in Int
    <3>1. SumFunction(held) \in Int
      BY <1>1, SumIsInteger
    <3>2. free + SumFunction(held) = MaxConnections
      BY DEF PoolInv
    <3>3. QED
      BY <2>1, <3>1, <3>2
  <2>3. free' + SumFunction(held') = MaxConnections
    BY <1>3, <2>1, <2>2
  <2>4. QED
    BY <1>5, <2>1, <2>3
<1>7. QED
  BY <1>2, <1>4, <1>6 DEF PoolInv

LEMMA StepPool == RequestsInv /\ [RequestsNext]_requestVars => PoolInv'
<1> SUFFICES ASSUME RequestsInv, [RequestsNext]_requestVars PROVE PoolInv'
  OBVIOUS
<1>1. PoolInv
  BY DEF RequestsInv
<1>2. /\ free \in 0..MaxConnections /\ held \in [Requests -> 0..2]
      /\ pc \in [Requests -> Places] /\ \A r \in Requests : Placed(r, pc[r], held[r])
  BY <1>1 DEF PoolInv
<1>3. UNCHANGED <<free, held, pc>> => PoolInv'
  <2> SUFFICES ASSUME UNCHANGED <<free, held, pc>> PROVE PoolInv'
    OBVIOUS
  <2>1. \A r \in Requests : Placed(r, pc'[r], held'[r])
    BY <1>2
  <2>2. QED
    BY <1>1, <2>1 DEF PoolInv
\* A request that gives back what it holds.
<1>8. ASSUME NEW r \in Requests, NEW s \in Places, Goes(r, s), Release(r, held[r]),
             Placed(r, s, 0)
      PROVE  PoolInv'
  <2>1. held[r] \in 0..2 /\ free \in Nat
    BY <1>2, PoolAssumption
  <2>2. held[r] - held[r] = 0 /\ free + held[r] - 0 = free + held[r] /\ free + held[r] >= 0
    BY <2>1
  <2>3. held' = [held EXCEPT ![r] = 0] /\ free' = free + held[r] - 0 /\ free' >= 0
    BY <2>2, <1>8 DEF Release
  <2> DEFINE none == 0
  <2>4. /\ held' = [held EXCEPT ![r] = none] /\ free' = free + held[r] - none
        /\ Placed(r, s, none) /\ none \in 0..2
    BY <1>8, <2>3
  <2> HIDE DEF none
  <2>5. QED
    BY <1>1, <1>8, <2>3, <2>4, OneMoves DEF Goes
\* A request that keeps what it holds.
<1>25. ASSUME NEW r \in Requests, NEW s \in Places, Goes(r, s), UNCHANGED <<free, held>>,
             Placed(r, s, held[r])
      PROVE  PoolInv'
  <2>1. held[r] \in 0..2 /\ free \in Nat
    BY <1>2, PoolAssumption
  <2>2. free + held[r] - held[r] = free
    BY <2>1
  <2>3. held' = [held EXCEPT ![r] = held[r]] /\ free' = free + held[r] - held[r] /\ free' >= 0
    BY <1>2, <1>25, <2>1, <2>2
  <2>4. QED
    BY <1>1, <1>25, <2>1, <2>3, OneMoves DEF Goes
\* The same, for a step that leaves the pool alone.
<1>9. ASSUME NEW r \in Requests, NEW s \in Places, Goes(r, s), UNCHANGED poolVars,
             Placed(r, s, held[r])
      PROVE  PoolInv'
  BY <1>25, <1>9 DEF poolVars
<1>4. ASSUME NEW r \in Requests, LookUp(r) PROVE PoolInv'
  <2>1. \E s \in {"answered", "connect"} : Goes(r, s)
    BY <1>4 DEF LookUp
  <2>2. PICK s \in {"answered", "connect"} : pc' = [pc EXCEPT ![r] = s]
    BY <2>1 DEF Goes
  <2>3. held[r] = 0 /\ UNCHANGED poolVars
    BY <1>2, <1>4 DEF LookUp, Placed
  <2>4. Needs(r) \in {1, 2}
    BY DEF Needs
  <2>5. Placed(r, s, 0)
    <3>1. Placed(r, "answered", 0)
      BY DEF Placed, Ended
    <3>2. Placed(r, "connect", 0)
      BY <2>4 DEF Placed, Ended
    <3>3. QED
      BY <2>2, <3>1, <3>2
  <2>6. Goes(r, s) /\ s \in Places
    BY <2>2 DEF Goes, Places, Ended
  <2>7. QED
    BY <1>9, <2>3, <2>5, <2>6
<1>5. ASSUME NEW r \in Requests, Asks(r) PROVE PoolInv'
  <2>1. Goes(r, "waiting") /\ Placed(r, "waiting", held[r])
    BY <1>2, <1>5 DEF Asks, Placed, Ended
  <2>2. UNCHANGED <<free, held>>
    BY <1>5 DEF Asks, Connect
  <2>3. QED
    BY <1>25, <2>1, <2>2 DEF Places
<1>6. ASSUME NEW r \in Requests, Granted(r) PROVE PoolInv'
  <2> DEFINE s == IF held[r] + 1 < Needs(r) THEN "connect"
                  ELSE IF Needs(r) = 2 THEN "resolve" ELSE "query"
  <2>1. held[r] < Needs(r) /\ Needs(r) \in {1, 2} /\ held[r] \in 0..2
    BY <1>2, <1>6 DEF Granted, Placed, Needs
  <2>2. Placed(r, s, held[r] + 1)
    BY <2>1 DEF Placed, Ended
  <2>3. pc' = [pc EXCEPT ![r] = s]
    BY <1>6 DEF Granted, Goes
  <2>4. /\ held' = [held EXCEPT ![r] = held[r] + 1]
        /\ free' = free + held[r] - (held[r] + 1) /\ free' >= 0 /\ held[r] + 1 \in 0..2
    BY <1>2, <1>6, <2>1, PoolAssumption DEF Granted, Serve
  <2>5. s \in Places
    BY DEF Places
  <2> HIDE DEF s
  <2>6. QED
    BY <1>1, <2>2, <2>3, <2>4, <2>5, OneMoves
<1>7. ASSUME NEW r \in Requests, Resolve(r) PROVE PoolInv'
  <2>1. held[r] = 2 /\ pc' = [pc EXCEPT ![r] = "query"]
    BY <1>2, <1>7 DEF Resolve, Placed, Goes
  <2>2. held' = [held EXCEPT ![r] = 1] /\ free' = free + held[r] - 1 /\ free' >= 0
    <3>1. held[r] - 1 = 1 /\ free + held[r] - 1 = free + 1 /\ free + 1 >= 0
      BY <1>2, <2>1, PoolAssumption
    <3>2. held' = [held EXCEPT ![r] = held[r] - 1] /\ free' = free + 1
      BY <1>7 DEF Resolve, Release
    <3>3. QED
      BY <3>1, <3>2
  <2>3. Placed(r, "query", 1)
    BY DEF Placed, Ended
  <2> DEFINE one == 1
             s == "query"
  <2>4. /\ held' = [held EXCEPT ![r] = one] /\ free' = free + held[r] - one
        /\ pc' = [pc EXCEPT ![r] = s] /\ Placed(r, s, one) /\ one \in 0..2 /\ s \in Places
    BY <2>1, <2>2, <2>3 DEF Places
  <2> HIDE DEF one, s
  <2>5. QED
    BY <1>1, <2>2, <2>4, OneMoves
<1>10. ASSUME NEW r \in Requests, Select(r) PROVE PoolInv'
  BY <1>8, <1>10 DEF Select, Places, Placed, Ended
<1>11. ASSUME NEW r \in Requests, Fill(r) PROVE PoolInv'
  BY <1>2, <1>9, <1>11 DEF Fill, Places, Placed, Ended
<1>12. ASSUME NEW r \in Requests, Write(r) PROVE PoolInv'
  <2>1. PICK s \in {"commit", "delete"} :
          /\ Goes(r, s) /\ InTransaction(r)
          /\ s = "delete" => Kind[r] # "read" /\ Deletes(r)
    BY <1>12, KindAssumption DEF Write, InTransaction
  <2>2. Placed(r, s, held[r])
    BY <1>2, <1>12, <2>1 DEF Write, Placed, Ended
  <2>3. QED
    BY <1>9, <1>12, <2>1, <2>2 DEF Write, Places
<1>13. ASSUME NEW r \in Requests, Update(r) PROVE PoolInv'
  <2>1. PICK s \in {"delete", "failed"} : Goes(r, s)
    BY <1>13 DEF Update
  <2>2. Placed(r, s, 0) /\ s \in Places
    BY <1>13 DEF Update, Places, Placed, Ended, InTransaction, Deletes
  <2>3. QED
    BY <1>8, <1>13, <2>1, <2>2 DEF Update
<1>14. ASSUME NEW r \in Requests, Delete(r) PROVE PoolInv'
  <2>1. Goes(r, AfterDelete(r)) /\ UNCHANGED poolVars /\ AfterDelete(r) \in Places
    BY <1>14 DEF Delete, AfterDelete, Places, Ended
  <2>2. Placed(r, AfterDelete(r), held[r])
    BY <1>2, <1>14 DEF Delete, Placed, AfterDelete, Ended
  <2>3. QED
    BY <1>9, <2>1, <2>2
<1>15. ASSUME NEW r \in Requests, Commit(r) PROVE PoolInv'
  <2>1. PICK s \in Ended : Goes(r, s)
    BY <1>15 DEF Commit
  <2>2. Placed(r, s, 0) /\ s \in Places
    BY <2>1 DEF Places, Placed, Ended
  <2>3. QED
    BY <1>8, <1>15, <2>1, <2>2 DEF Commit
<1>16. ASSUME NEW r \in Requests, IsRefused(r) PROVE PoolInv'
  BY <1>8, <1>16 DEF IsRefused, Places, Placed, Ended
<1>17. ASSUME NEW r \in Requests, Fails(r) PROVE PoolInv'
  BY <1>8, <1>17 DEF Fails, Places, Placed, Ended
<1>18. ASSUME NEW r \in Requests, TimesOut(r) PROVE PoolInv'
  BY <1>8, <1>18 DEF TimesOut, GiveUp, Places, Placed, Ended
<1>19. ASSUME ProcessExits PROVE PoolInv'
  <2>1. SumFunction(held) = 0 /\ \A r \in Requests : held[r] = 0
    <3>1. \A r \in Requests : held[r] <= SumFunction(held) /\ held[r] \in 0..2
      BY <1>1, <1>2, HeldAreCounted
    <3>2. SumFunction(held) \in Int
      BY <1>2, PoolAssumption, SumIsInteger
    <3>3. free = MaxConnections /\ free + SumFunction(held) = MaxConnections
      BY <1>1, <1>19 DEF ProcessExits, Exit, PoolInv
    <3>4. SumFunction(held) = 0
      BY <3>2, <3>3, PoolAssumption
    <3>5. QED
      BY <3>1, <3>4
  <2>2. UNCHANGED <<free, held>>
    BY <1>19 DEF ProcessExits, Exit
  <2>3. pc' \in [Requests -> Places] /\ \A r \in Requests : pc'[r] \in Ended
    BY <1>2, <1>19 DEF ProcessExits, Places, Ended
  <2>4. \A r \in Requests : Placed(r, pc'[r], held'[r])
    BY <2>1, <2>2, <2>3 DEF Placed, Ended
  <2>5. QED
    BY <1>1, <2>2, <2>3, <2>4 DEF PoolInv
<1>20. CASE UNCHANGED requestVars
  BY <1>3, <1>20 DEF requestVars, poolVars
<1>21. CASE Expire /\ UNCHANGED <<poolVars, pc, got, lock>>
  BY <1>3, <1>21 DEF poolVars
<1>22. CASE RedisToggles /\ UNCHANGED <<poolVars, pc, got, lock>>
  BY <1>3, <1>22 DEF poolVars
<1>23. CASE ShutDown
  BY <1>3, <1>23 DEF ShutDown, EndPool
<1>99. QED
  BY <1>4, <1>5, <1>6, <1>7, <1>10, <1>11, <1>12, <1>13, <1>14, <1>15, <1>16, <1>17,
     <1>18, <1>19, <1>20, <1>21, <1>22, <1>23 DEF RequestsNext, Step, Rejected

\* Joining makes a request wait, being served and giving up take it out.
LEMMA StepQueue == RequestsInv /\ [RequestsNext]_requestVars => QueueInv'
<1> SUFFICES ASSUME RequestsInv, [RequestsNext]_requestVars PROVE QueueInv'
  OBVIOUS
<1> DEFINE W == {r \in Requests : pc[r] = "waiting"}
<1>1. QueueOf(queue, W) /\ pc \in [Requests -> Places]
  BY DEF RequestsInv, QueueInv, PoolInv
<1>2. ASSUME NEW r \in Requests, NEW s, s # "waiting", pc[r] # "waiting",
             Goes(r, s), UNCHANGED queue
      PROVE  QueueInv'
  <2>1. W' = W
    BY <1>1, <1>2 DEF Goes
  <2>2. QED
    BY <1>1, <1>2, <2>1 DEF QueueInv
<1>3. ASSUME NEW r \in Requests, Asks(r) PROVE QueueInv'
  <2>1. W' = W \cup {r} /\ r \notin W
    BY <1>1, <1>3 DEF Asks, Goes
  <2>2. queue' = Append(queue, r)
    BY <1>3 DEF Asks, Connect
  <2>3. QED
    BY <1>1, <2>1, <2>2, QueueJoined DEF QueueInv
<1>4. ASSUME NEW r \in Requests, Granted(r) PROVE QueueInv'
  <2>1. W' = W \ {r}
    BY <1>1, <1>4 DEF Granted, Goes
  <2>2. queue # <<>> /\ r = Head(queue) /\ queue' = Tail(queue)
    BY <1>4 DEF Granted, Serve
  <2>3. QED
    BY <1>1, <2>1, <2>2, QueueServed DEF QueueInv
<1>5. ASSUME NEW r \in Requests, TimesOut(r) PROVE QueueInv'
  <2>1. W' = W \ {r}
    BY <1>1, <1>5 DEF TimesOut, Goes
  <2>2. PICK i \in DOMAIN queue : queue[i] = r /\ queue' = RemoveAt(queue, i)
    BY <1>5 DEF TimesOut, GiveUp, Leaves
  <2>3. QED
    BY <1>1, <2>1, <2>2, QueueLeft DEF QueueInv
<1>6. ASSUME NEW r \in Requests,
             \/ LookUp(r) \/ Resolve(r) \/ Select(r) \/ Fill(r) \/ Write(r) \/ Update(r)
             \/ Delete(r) \/ Commit(r) \/ IsRefused(r) \/ Fails(r)
      PROVE  QueueInv'
  <2>1. pc[r] # "waiting" /\ UNCHANGED queue
    BY <1>6 DEF LookUp, Resolve, Select, Fill, Write, Update, Delete, Commit, IsRefused,
                Fails, poolVars
  <2>2. \E s \in {"answered", "connect", "query", "fill", "commit", "delete", "failed"} :
          Goes(r, s)
    BY <1>6 DEF LookUp, Resolve, Select, Fill, Write, Update, Delete, Commit, IsRefused,
                Fails, AfterDelete, Ended
  <2>3. QED
    BY <1>2, <2>1, <2>2
<1>7. CASE ProcessExits
  <2>1. queue' = <<>>
    BY <1>7 DEF ProcessExits, Exit
  <2>2. QED
    BY <2>1 DEF QueueInv, QueueOf, IsInjective
<1>8. CASE UNCHANGED <<queue, pc>>
  <2>1. W' = W
    BY <1>8
  <2>2. QED
    BY <1>1, <1>8, <2>1 DEF QueueInv
<1>9. QED
  BY <1>3, <1>4, <1>5, <1>6, <1>7, <1>8
     DEF RequestsNext, Step, Rejected, ShutDown, EndPool, requestVars, poolVars

-----------------------------------------------------------------------------
(* The row locks and the rows. *)

LEMMA StepLock == RequestsInv /\ [RequestsNext]_requestVars => LockInv'
<1> SUFFICES ASSUME RequestsInv, [RequestsNext]_requestVars PROVE LockInv'
  OBVIOUS
<1>1. /\ pc \in [Requests -> Places] /\ LockInv
      /\ \A r \in Requests : Placed(r, pc[r], held[r])
  BY DEF RequestsInv, PoolInv
\* Nothing but a writing transaction moves while it holds the locks.
<1>2. ASSUME NEW r \in Requests, NEW s, Goes(r, s), lock' = lock \ {r}
      PROVE  LockInv'
  BY <1>1, <1>2 DEF LockInv, Goes
<1>3. ASSUME NEW r \in Requests, NEW s, Goes(r, s), UNCHANGED lock, r \notin lock
      PROVE  LockInv'
  BY <1>1, <1>3 DEF LockInv, Goes
<1>4. ASSUME NEW r \in Requests,
             \/ LookUp(r) \/ Asks(r) \/ Granted(r) \/ Resolve(r) \/ Select(r) \/ Fill(r)
             \/ Update(r) \/ IsRefused(r) \/ TimesOut(r)
      PROVE  LockInv'
  <2>1. UNCHANGED lock /\ pc[r] \notin {"delete", "commit"}
    BY <1>4 DEF LookUp, Asks, Granted, Resolve, Select, Fill, Update, IsRefused, TimesOut
  <2>2. \E s : Goes(r, s)
    BY <1>4 DEF LookUp, Asks, Granted, Resolve, Select, Fill, Update, IsRefused, TimesOut
  <2>3. QED
    BY <1>1, <1>3, <2>1, <2>2 DEF LockInv
<1>5. ASSUME NEW r \in Requests, Write(r) PROVE LockInv'
  <2>1. lock' = {r} /\ InTransaction(r) /\ pc'[r] \in {"delete", "commit"}
    BY <1>1, <1>5 DEF Write, Goes
  <2>2. QED
    BY <2>1 DEF LockInv
<1>6. ASSUME NEW r \in Requests, Delete(r) PROVE LockInv'
  <2>1. pc' = [pc EXCEPT ![r] = AfterDelete(r)] /\ UNCHANGED lock
    BY <1>6 DEF Delete, Goes
  <2>2. \A q \in lock : InTransaction(q) /\ pc'[q] \in {"delete", "commit"}
    BY <1>1, <2>1 DEF LockInv, AfterDelete
  <2>3. QED
    BY <1>1, <2>1, <2>2 DEF LockInv
<1>7. ASSUME NEW r \in Requests, Commit(r) PROVE LockInv'
  BY <1>7 DEF Commit, LockInv
<1>8. ASSUME NEW r \in Requests, Fails(r) PROVE LockInv'
  BY <1>2, <1>8 DEF Fails
\* The process exits with every connection back, so no transaction is open.
<1>9. CASE ProcessExits
  <2>1. \A r \in Requests : held[r] <= SumFunction(held) /\ held[r] \in 0..2
    BY HeldAreCounted DEF RequestsInv, PoolInv
  <2>2. SumFunction(held) = 0
    <3>1. SumFunction(held) \in Int
      BY PoolAssumption, SumIsInteger DEF RequestsInv, PoolInv
    <3>2. free = MaxConnections /\ free + SumFunction(held) = MaxConnections
      BY <1>9 DEF ProcessExits, Exit, RequestsInv, PoolInv
    <3>3. QED
      BY <3>1, <3>2, PoolAssumption
  <2>3. \A r \in Requests : held[r] = 0
    BY <2>1, <2>2
  <2>4. \A r \in lock : held[r] = 1
    BY <1>1 DEF LockInv, Placed
  <2>5. lock = {}
    BY <1>1, <2>3, <2>4 DEF LockInv
  <2>6. QED
    BY <1>9, <2>5 DEF ProcessExits, LockInv
<1>10. CASE UNCHANGED <<pc, lock>>
  BY <1>1, <1>10 DEF LockInv
<1>11. QED
  BY <1>4, <1>5, <1>6, <1>7, <1>8, <1>9, <1>10
     DEF RequestsNext, Step, Rejected, ShutDown, requestVars

\* What a request that moves leaves true about the cached rows, when it is about
\* neither to delete them nor to commit.
LEMMA RowsKept ==
  ASSUME RequestsInv, NEW r \in Requests, NEW s, Goes(r, s), s # "commit",
         pc[r] = "delete" => Kind[r] # "statement" \/ cause # {},
         UNCHANGED <<committed, redis, cache, cause>>,
         got' \in [Requests -> {Missing} \cup 0..committed]
  PROVE  RowsInv'
<1>1. RowsInv /\ pc \in [Requests -> Places]
  BY DEF RequestsInv, PoolInv
<1>2. \A q \in Requests : q # r => pc'[q] = pc[q]
  BY <1>1 DEF Goes
<1>3. pc'[r] = s
  BY <1>1 DEF Goes
<1>4. FreshUnlessRaced'
  BY <1>1, <1>2 DEF RowsInv, FreshUnlessRaced, Missing
<1>5. DeletedEarly' => DeletedEarly
  BY <1>2, <1>3 DEF DeletedEarly, InTransaction
<1>6. QED
  BY <1>1, <1>4, <1>5 DEF RowsInv

\* The writes: a deletion, a commit and the statement that commits by itself.
LEMMA RowsWritten ==
  ASSUME RequestsInv, NEW r \in Requests, Update(r) \/ Delete(r) \/ Commit(r)
  PROVE  RowsInv'
<1>1. RowsInv /\ pc \in [Requests -> Places] /\ \A q \in Requests : Placed(q, pc[q], held[q])
  BY DEF RequestsInv, PoolInv
<1>2. /\ committed \in Nat /\ cache \in {Missing} \cup 0..committed /\ redis \in BOOLEAN
      /\ got \in [Requests -> {Missing} \cup 0..committed]
      /\ cause \subseteq Causes
      /\ cache # Missing /\ DeletedEarly => cause # {}
  BY <1>1 DEF RowsInv
<1>3. /\ committed + 1 \in Nat /\ cache \in {Missing} \cup 0..committed + 1
      /\ got \in [Requests -> {Missing} \cup 0..committed + 1]
  <2>1. 0..committed \subseteq 0..committed + 1 /\ committed + 1 \in Nat
    <3>1. committed \in Nat
      BY <1>2
    <3>2. QED
      BY <3>1
  <2>2. QED
    BY <1>2, <2>1
<1>4. CASE Update(r)
  <2>1. Kind[r] = "statement" /\ committed' = committed + 1 /\ UNCHANGED <<redis, cache, got>>
    BY <1>4 DEF Update
  <2>2. DeletedEarly' => DeletedEarly
    BY <1>1, <1>4 DEF Update, Goes, DeletedEarly, InTransaction
  <2>3. \/ pc'[r] = "delete" /\ cause' = cause
        \/ cause' = Behind("lost answer")
    BY <1>1, <1>4 DEF Update, Goes
  <2>4. FreshUnlessRaced'
    BY <2>1, <2>3 DEF FreshUnlessRaced, Behind, Missing
  <2>5. cause' \subseteq Causes /\ (cause # {} => cause' # {})
    BY <1>2, <2>3 DEF Behind, Causes
  <2>6. QED
    BY <1>2, <1>3, <2>1, <2>2, <2>4, <2>5 DEF RowsInv, Missing
<1>5. CASE Delete(r)
  <2>1. UNCHANGED <<committed, redis, got>> /\ CacheDel
    BY <1>5 DEF Delete
  <2>2. \/ cache' = Missing /\ cause' = {}
        \/ cache' = cache /\ cause' = cause \cup {"lost delete"}
    BY <2>1 DEF CacheDel
  <2>3. cache' = Missing \/ cause' # {}
    BY <2>2
  <2>4. FreshUnlessRaced' /\ (cache' # Missing /\ DeletedEarly' => cause' # {})
    BY <2>3 DEF FreshUnlessRaced, Missing
  <2>5. cause' \subseteq Causes
    BY <1>2, <2>2 DEF Causes
  <2>6. cache' \in {Missing} \cup 0..committed
    BY <1>2, <2>2
  <2>7. QED
    BY <1>2, <2>1, <2>4, <2>5, <2>6 DEF RowsInv, Missing
<1>6. CASE Commit(r)
  <2>1. /\ committed' = committed + 1 /\ UNCHANGED <<redis, cache, got>>
        /\ cause' = IF Deletes(r) THEN cause ELSE Behind(Kind[r])
    BY <1>6 DEF Commit
  <2>2. cache # Missing => cause' # {}
    <3>1. CASE ~Deletes(r)
      BY <2>1, <3>1 DEF Behind
    <3>2. CASE Deletes(r)
      <4>1. DeletedEarly
        BY <1>1, <1>6, <3>2 DEF Commit, DeletedEarly, Placed
      <4>2. QED
        BY <1>2, <2>1, <3>2, <4>1
    <3>3. QED
      BY <3>1, <3>2
  <2>3. FreshUnlessRaced' /\ (cache' # Missing /\ DeletedEarly' => cause' # {})
    BY <2>1, <2>2 DEF FreshUnlessRaced, Missing
  <2>4. cause' \subseteq Causes
    BY <1>2, <2>1 DEF Behind, Deletes, Causes
  <2>5. QED
    BY <1>2, <1>3, <2>1, <2>3, <2>4 DEF RowsInv, Missing
<1>7. QED
  BY <1>4, <1>5, <1>6

LEMMA StepRows == RequestsInv /\ [RequestsNext]_requestVars => RowsInv'
<1> SUFFICES ASSUME RequestsInv, [RequestsNext]_requestVars PROVE RowsInv'
  OBVIOUS
<1>1. RowsInv /\ pc \in [Requests -> Places] /\ \A r \in Requests : Placed(r, pc[r], held[r])
  BY DEF RequestsInv, PoolInv
<1>2. /\ committed \in Nat /\ cache \in {Missing} \cup 0..committed /\ redis \in BOOLEAN
      /\ got \in [Requests -> {Missing} \cup 0..committed]
      /\ cause \subseteq Causes
      /\ FreshUnlessRaced /\ (cache # Missing /\ DeletedEarly => cause # {})
  BY <1>1 DEF RowsInv
<1>3. ASSUME NEW r \in Requests,
             \/ LookUp(r) \/ Asks(r) \/ Granted(r) \/ Resolve(r) \/ Select(r)
             \/ IsRefused(r) \/ Fails(r) \/ TimesOut(r)
      PROVE  RowsInv'
  <2>1. UNCHANGED cacheVars \/ UNCHANGED <<committed, redis, cache, cause>>
    BY <1>3 DEF LookUp, Asks, Granted, Resolve, Select, IsRefused, Fails, TimesOut
  <2>2. got' \in [Requests -> {Missing} \cup 0..committed]
    <3>1. got' = got \/ got' = [got EXCEPT ![r] = cache] \/ got' = [got EXCEPT ![r] = committed]
      BY <1>3 DEF LookUp, Asks, Granted, Resolve, Select, IsRefused, Fails, TimesOut
    <3>2. committed \in 0..committed
      <4>1. committed \in Nat
        BY <1>2
      <4>2. QED
        BY <4>1
    <3>3. QED
      BY <1>2, <3>1, <3>2
  <2>3. \E s \in {"answered", "connect", "waiting", "resolve", "query", "fill", "failed"} :
          Goes(r, s)
    BY <1>3 DEF LookUp, Asks, Granted, Resolve, Select, IsRefused, Fails, TimesOut
  <2>4. pc[r] # "delete"
    BY <1>3 DEF LookUp, Asks, Granted, Resolve, Select, IsRefused, Fails, TimesOut
  <2>5. QED
    BY <2>1, <2>2, <2>3, <2>4, RowsKept DEF cacheVars
\* What a slow reader stores is an old version, or is on record if it may become one.
<1>4. ASSUME NEW r \in Requests, Fill(r) PROVE RowsInv'
  <2>1. /\ CacheSet(got[r], DeletedEarly) /\ UNCHANGED <<committed, redis, got>>
        /\ Goes(r, "answered") /\ pc[r] = "fill"
    BY <1>4 DEF Fill
  <2>2. CASE redis
    <3>1. /\ cache' = got[r]
          /\ cause' = (IF got[r] < committed THEN {"old read"} ELSE {})
                          \cup (IF DeletedEarly THEN {"early delete"} ELSE {})
      BY <2>1, <2>2 DEF CacheSet
    <3>2. got[r] \in {Missing} \cup 0..committed
      BY <1>2
    <3>3. DeletedEarly' => DeletedEarly
      BY <1>1, <2>1 DEF DeletedEarly, Goes, InTransaction
    <3>4. got[r] \notin {Missing, committed} => got[r] < committed
      <4>1. committed \in Nat
        BY <1>2
      <4>2. QED
        BY <3>2, <4>1
    <3>5. FreshUnlessRaced'
      BY <2>1, <3>1, <3>4 DEF FreshUnlessRaced, Missing
    <3>6. cause' \subseteq Causes
      BY <3>1 DEF Causes
    <3>7. cache' # Missing /\ DeletedEarly' => cause' # {}
      BY <3>1, <3>3
    <3>8. QED
      BY <1>2, <2>1, <3>1, <3>2, <3>5, <3>6, <3>7 DEF RowsInv, Missing
  <2>3. CASE ~redis
    <3>1. UNCHANGED <<committed, redis, cache, cause>>
      BY <2>1, <2>3 DEF CacheSet
    <3>2. QED
      BY <1>2, <2>1, <3>1, RowsKept
  <2>4. QED
    BY <2>2, <2>3
<1>5. ASSUME NEW r \in Requests, Write(r) PROVE RowsInv'
  <2>1. UNCHANGED <<committed, redis, cache, cause, got>> /\ pc[r] = "query"
    BY <1>5 DEF Write, cacheVars
  <2>2. pc' = [pc EXCEPT ![r] = IF Deletes(r) THEN "delete" ELSE "commit"]
    BY <1>5 DEF Write, Goes
  <2>3. \A q \in Requests : q # r => pc'[q] = pc[q]
    BY <1>1, <2>2
  <2>4. pc'[r] = IF Deletes(r) THEN "delete" ELSE "commit"
    BY <1>1, <2>2
  <2>5. DeletedEarly' => DeletedEarly
    BY <2>3, <2>4 DEF DeletedEarly, InTransaction
  <2>6. FreshUnlessRaced'
    BY <1>2, <2>1, <2>3 DEF FreshUnlessRaced, Missing
  <2>7. QED
    BY <1>2, <2>1, <2>5, <2>6 DEF RowsInv, Missing
<1>6. ASSUME NEW r \in Requests, Update(r) \/ Delete(r) \/ Commit(r) PROVE RowsInv'
  BY <1>6, RowsWritten
<1>7. CASE Expire /\ UNCHANGED <<poolVars, pc, got, lock>>
  BY <1>2, <1>7 DEF Expire, RowsInv, FreshUnlessRaced, Missing
<1>8. CASE UNCHANGED <<committed, cache, cause, pc, got>> /\ redis' \in BOOLEAN
  <2>1. FreshUnlessRaced' /\ (DeletedEarly' => DeletedEarly)
    BY <1>2, <1>8 DEF FreshUnlessRaced, DeletedEarly, InTransaction, Missing
  <2>2. QED
    BY <1>2, <1>8, <2>1 DEF RowsInv, Missing
<1>9. CASE ProcessExits
  <2>1. /\ UNCHANGED <<committed, redis, cache, got>>
        /\ pc' = [r \in Requests |-> IF pc[r] \in Ended THEN pc[r] ELSE "failed"]
        /\ cause' = IF \E r \in Requests : Kind[r] = "statement" /\ pc[r] = "delete"
                    THEN cause \cup {"lost delete"} ELSE cause
    BY <1>9 DEF ProcessExits
  <2>2. ~DeletedEarly'
    BY <2>1 DEF DeletedEarly, Ended
  <2>3. FreshUnlessRaced'
    BY <1>2, <2>1 DEF FreshUnlessRaced, Missing
  <2>4. cause' \subseteq Causes
    BY <1>2, <2>1 DEF Causes
  <2>5. QED
    BY <1>2, <2>1, <2>2, <2>3, <2>4 DEF RowsInv, Missing
<1>10. CASE UNCHANGED requestVars
  BY <1>2, <1>8, <1>10 DEF requestVars, cacheVars
<1>11. CASE RedisToggles /\ UNCHANGED <<poolVars, pc, got, lock>>
  BY <1>2, <1>8, <1>11 DEF RedisToggles
<1>12. CASE ShutDown
  BY <1>2, <1>8, <1>12 DEF ShutDown, cacheVars
<1>13. QED
  BY <1>3, <1>4, <1>5, <1>6, <1>7, <1>9, <1>10, <1>11, <1>12 
     DEF RequestsNext, Step, Rejected

-----------------------------------------------------------------------------
LEMMA InitRequests == RequestsInit => RequestsInv
<1> SUFFICES ASSUME RequestsInit PROVE RequestsInv
  OBVIOUS
<1>1. /\ free = MaxConnections /\ held = [r \in Requests |-> 0] /\ queue = <<>>
      /\ committed = 0 /\ redis = TRUE /\ cache = Missing /\ cause = {} /\ lock = {}
      /\ pc = [r \in Requests |-> IF Kind[r] = "read" THEN "look up" ELSE "connect"]
      /\ got = [r \in Requests |-> Missing]
  BY DEF RequestsInit, PoolInit, CacheInit
<1>2. PoolInv
  <2>1. SumFunction(held) = 0
    <3> DEFINE none == [r \in Requests |-> 0]
    <3>1. SumFunctionOnSet(none, Requests) = 0
      BY PoolAssumption, SumOfZeros
    <3>2. QED
      BY <1>1, <3>1 DEF SumFunction
  <2>2. \A r \in Requests : Placed(r, pc[r], held[r])
    <3>1. ASSUME NEW r \in Requests PROVE Placed(r, pc[r], held[r])
      <4>1. held[r] = 0 /\ Needs(r) \in {1, 2}
        BY <1>1 DEF Needs
      <4>2. (pc[r] = "look up" /\ Kind[r] = "read") \/ pc[r] = "connect"
        BY <1>1
      <4>3. CASE pc[r] = "look up" /\ Kind[r] = "read"
        BY <4>1, <4>3 DEF Placed, Ended
      <4>4. CASE pc[r] = "connect"
        BY <4>1, <4>4 DEF Placed, Ended
      <4>5. QED
        BY <4>2, <4>3, <4>4
    <3>2. QED
      BY <3>1
  <2>3. pc \in [Requests -> Places] /\ held \in [Requests -> 0..2]
    <3>1. pc \in [Requests -> Places]
      BY <1>1 DEF Places
    <3>2. held \in [Requests -> 0..2]
      <4>1. held = [r \in Requests |-> 0]
        BY <1>1
      <4>2. QED
        BY <4>1
    <3>3. QED
      BY <3>1, <3>2
  <2>4. free \in 0..MaxConnections /\ free + SumFunction(held) = MaxConnections
    <3>1. free = MaxConnections /\ MaxConnections \in Nat
      BY <1>1, PoolAssumption
    <3>2. QED
      BY <2>1, <3>1
  <2>5. QED
    BY <2>2, <2>3, <2>4 DEF PoolInv
<1>3. QueueInv
  <2>1. \A W : <<>> \in Seq(W)
    OBVIOUS
  <2>2. IsInjective(<<>>)
    BY DEF IsInjective
  <2>3. queue = <<>>
    BY <1>1
  <2>4. QED
    BY <2>1, <2>2, <2>3 DEF QueueInv, QueueOf
<1>4. LockInv
  BY <1>1 DEF LockInv
<1>5. RowsInv
  BY <1>1 DEF RowsInv, FreshUnlessRaced, Missing
<1>6. QED
  BY <1>2, <1>3, <1>4, <1>5 DEF RequestsInv

LEMMA RequestsInvHolds == RequestsSpec => []RequestsInv
<1>1. RequestsInv /\ [RequestsNext]_requestVars => RequestsInv'
  BY StepPool, StepQueue, StepLock, StepRows DEF RequestsInv
<1>2. QED
  BY <1>1, InitRequests, PTL DEF RequestsSpec

(* Whatever the number of requests and of connections: none is lost or handed out
   twice, and a request that ended holds neither a connection nor a row lock.      *)
THEOREM RequestsTypeCorrect == RequestsSpec => []RequestsTypeOK
<1>1. RequestsInv => RequestsTypeOK
  <2> SUFFICES ASSUME RequestsInv PROVE RequestsTypeOK
    OBVIOUS
  <2>1. PoolSound
    BY DEF RequestsInv, PoolInv, QueueInv, QueueOf, PoolSound
  <2>2. \A r \in Requests : pc[r] \in Ended => held[r] = 0 /\ r \notin lock
    BY DEF RequestsInv, PoolInv, LockInv, Placed, Ended
  <2>3. QED
    BY <2>1, <2>2 DEF RequestsInv, PoolInv, LockInv, RowsInv, RequestsTypeOK, Places
<1>2. QED
  BY <1>1, RequestsInvHolds, PTL

(* Cached wallets that are not the committed ones have one of the recorded causes,
   or the statement that made them old is about to delete them.                    *)
THEOREM CacheIsFreshUnlessRaced == RequestsSpec => []FreshUnlessRaced
<1>1. RequestsInv => FreshUnlessRaced
  BY DEF RequestsInv, RowsInv
<1>2. QED
  BY <1>1, RequestsInvHolds, PTL
=============================================================================
