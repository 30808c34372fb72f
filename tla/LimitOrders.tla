------------------------------ MODULE LimitOrders ------------------------------
(***************************************************************************)
(* Limit orders of one user on one asset: tradeService.placeLimitOrder and  *)
(* cancelOrder (server/trade/trade-service.ts) with walletService.lockFunds *)
(* and unlockFunds, by concurrent requests, beside withdrawals.             *)
(*                                                                         *)
(* Neither operation is a transaction: each statement commits by itself and *)
(* anything can happen between two of them.  lockFunds and unlockFunds      *)
(* update no row, and report nothing, when the row cannot afford it.       *)
(* No code fills a limit order, so an open one ends by being cancelled.    *)
(***************************************************************************)
EXTENDS WalletRows, FiniteSetsExt

CONSTANTS
  Orders,    \* placeLimitOrder requests, and the orders rows they create
  Cancels,   \* cancelOrder requests
  Amounts,   \* what an order may lock, a withdrawal may take
  Opening    \* the wallet's row at the start

ASSUME LimitAssumption ==
  /\ Amounts \subseteq Nat \ {0}
  /\ Opening \in Row
  /\ Coherent(Opening)
  /\ IsFiniteSet(Orders)

VARIABLES
  row,      \* the wallet's row
  amount,   \* per order: what it locks
  status,   \* per order: status column of its row, "none" before INSERT
  place,    \* per order: how far placeLimitOrder is
  target,   \* per cancel request: the order it names
  cancel,   \* per cancel request: how far cancelOrder is
  raced     \* history: a lock did nothing, two cancels of one order
            \* overlapped, or a request failed between its statements

placeVars == <<amount, place>>
cancelVars == <<target, cancel>>
vars == <<row, placeVars, status, cancelVars, raced>>

Init ==
  /\ row = Opening
  /\ amount \in [Orders -> Amounts]
  /\ status = [o \in Orders |-> "none"]
  /\ place = [o \in Orders |-> "new"]
  /\ target \in [Cancels -> Orders]
  /\ cancel = [c \in Cancels |-> "new"]
  /\ raced = FALSE

PlaceGoes(o, from, to) == place[o] = from /\ place' = [place EXCEPT ![o] = to]
CancelGoes(c, from, to) == cancel[c] = from /\ cancel' = [cancel EXCEPT ![c] = to]

-----------------------------------------------------------------------------
(* placeLimitOrder *)

CheckFunds(o) ==
  /\ PlaceGoes(o, "new", IF row.available >= amount[o] THEN "checked" ELSE "refused")
  /\ UNCHANGED <<row, amount, status, cancelVars, raced>>

LockFunds(o) ==
  /\ PlaceGoes(o, "checked", "locked")
  /\ row' = FundsLocked(row, amount[o])
  /\ raced' = (raced \/ row.available < amount[o])
  /\ UNCHANGED <<amount, status, cancelVars>>

InsertOrder(o) ==
  /\ PlaceGoes(o, "locked", "placed")
  /\ status' = [status EXCEPT ![o] = "open"]
  /\ UNCHANGED <<row, amount, cancelVars, raced>>

\* A statement fails or the process dies: what is locked stays locked.
PlaceFails(o) ==
  /\ \/ PlaceGoes(o, "checked", "failed") /\ UNCHANGED raced
     \/ PlaceGoes(o, "locked", "failed") /\ raced' = TRUE
  /\ UNCHANGED <<row, amount, status, cancelVars>>

-----------------------------------------------------------------------------
(* cancelOrder *)

InProgress == {"found", "unlocked"}

\* Mutant: without AND status = 'open'.
IsOpen_any_status(o) == status[o] # "none"

IsOpen(o) == status[o] = "open"

FindOrder(c) ==
  /\ \/ IsOpen(target[c]) /\ CancelGoes(c, "new", "found")
     \/ ~IsOpen(target[c]) /\ CancelGoes(c, "new", "refused")
  /\ raced' = (raced \/ \E d \in Cancels : target[d] = target[c] /\ cancel[d] \in InProgress)
  /\ UNCHANGED <<row, status, placeVars, target>>

UnlockFunds(c) ==
  /\ CancelGoes(c, "found", "unlocked")
  /\ row' = FundsUnlocked(row, amount[target[c]])
  /\ UNCHANGED <<status, placeVars, target, raced>>

CloseOrder(c) ==
  /\ CancelGoes(c, "unlocked", "done")
  /\ status' = [status EXCEPT ![target[c]] = "cancelled"]
  /\ UNCHANGED <<row, placeVars, target, raced>>

CancelFails(c) ==
  /\ \/ CancelGoes(c, "found", "failed") /\ UNCHANGED raced
     \/ CancelGoes(c, "unlocked", "failed") /\ raced' = TRUE
  /\ UNCHANGED <<row, status, placeVars, target>>

\* debit: what is available is checked and taken in one transaction.
Withdraw(n) ==
  /\ row.available >= n
  /\ row' = Debited(row, n)
  /\ UNCHANGED <<status, placeVars, cancelVars, raced>>

-----------------------------------------------------------------------------
HealthyNext ==
  \/ \E o \in Orders : CheckFunds(o) \/ LockFunds(o) \/ InsertOrder(o)
  \/ \E c \in Cancels : FindOrder(c) \/ UnlockFunds(c) \/ CloseOrder(c)
  \/ \E n \in Amounts : Withdraw(n)

Next ==
  \/ HealthyNext
  \/ \E o \in Orders : PlaceFails(o)
  \/ \E c \in Cancels : CancelFails(c)

Spec == Init /\ [][Next]_vars

-----------------------------------------------------------------------------
(* Properties *)

\* Every variable stays in its range: unlocking twice never makes locked negative.
TypeOK ==
  /\ row \in Row
  /\ amount \in [Orders -> Amounts]
  /\ status \in [Orders -> {"none", "open", "cancelled"}]
  /\ place \in [Orders -> {"new", "checked", "locked", "placed", "refused", "failed"}]
  /\ target \in [Cancels -> Orders]
  /\ cancel \in [Cancels -> {"new", "found", "unlocked", "done", "refused", "failed"}]
  /\ raced \in BOOLEAN

\* The orders whose amount should be locked now: the lock is taken before the
\* row is inserted and given back before it is closed.
GivenBack(o) == \E c \in Cancels : target[c] = o /\ cancel[c] = "unlocked"
Reserving ==
  {o \in Orders : place[o] = "locked" \/ (status[o] = "open" /\ ~GivenBack(o))}

\* As long as no lock was skipped, no two cancels of one order overlapped and no
\* request failed half way, exactly the amounts of the open orders are locked:
\* these three are the only ways the books of placeLimitOrder and cancelOrder
\* can go wrong.
BackedUnlessRaced ==
  ~raced => row.locked = Opening.locked + SumFunctionOnSet(amount, Reserving)
=============================================================================
