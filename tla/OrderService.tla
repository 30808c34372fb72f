----------------------------- MODULE OrderService -----------------------------
(***************************************************************************)
(* server/core/order-service.ts: submitOrder with its settlement           *)
(* (updateUserWallet) and processTransfer, run by concurrent calls of one  *)
(* server process, each suspended at every await.                          *)
(*                                                                         *)
(* The request to the matcher is one step here: it is answered with a fill *)
(* or it fails (module MatcherRpc shows that a call is answered once and   *)
(* that late answers go nowhere).  walletService.transfer is one step too  *)
(* (module WalletLedger shows that it is atomic).  updateBalance is a      *)
(* single UPDATE outside any transaction, and a settlement makes two.      *)
(* Storage is PostgreSQL, the default (server/storage.ts).                 *)
(*                                                                         *)
(* Wallets exist before the first order: verifying an account creates all  *)
(* five (module Registration), so the branches that create demo balances   *)
(* for a user with a missing wallet are not entered.                       *)
(***************************************************************************)
EXTENDS WalletRows, FiniteSetsExt

CONSTANTS
  Orders,      \* calls of submitOrder, and the orders rows they create
  Transfers,   \* calls of processTransfer
  Users,
  Quantities,  \* BTC amounts a request may name
  Prices,      \* USD per BTC getPrice may answer: the feed's, or its default
  Slips,       \* how far a fill may be from the price, per BTC
  Opening      \* the wallets at the start

Assets == {"BTC", "USD"}
Sides == {"BUY", "SELL"}

ASSUME OrderAssumption ==
  /\ Quantities \subseteq Nat \ {0}
  /\ Prices \subseteq Nat \ {0}
  /\ \A price \in Prices : Slips \subseteq 0..price
  /\ IsFiniteSet(Orders) /\ IsFiniteSet(Transfers)
  /\ Opening \in [Users -> [Assets -> Row]]
  /\ \A u \in Users, a \in Assets : Coherent(Opening[u][a])

VARIABLES
  wallets,    \* committed rows, per user and asset
  orders,     \* status column of each order's row, "none" before INSERT
  call,       \* per order: how far submitOrder is
  ask,        \* per order: user, side and quantity asked for
  fill,       \* per order: the price it is sent with, then that of its execution
  seen,       \* per order: balances updateUserWallet has read
  move,       \* per transfer: how far processTransfer is
  wire,       \* per transfer: sender, receiver and amount
  moved,      \* history: the legs of each order that were written
  paid,       \* history: the transfers whose funds moved
  lost        \* history: rows where a write buried one made since its read

walletVars == <<wallets, moved, paid, lost>>
orderVars == <<orders, call, ask, fill, seen>>
transferVars == <<move, wire>>
vars == <<walletVars, orderVars, transferVars>>

Request == [user : Users, side : Sides, quantity : Quantities]
Wire == [from : Users, to : Users, amount : Quantities]

Init ==
  /\ wallets = Opening
  /\ orders = [o \in Orders |-> "none"]
  /\ call = [o \in Orders |-> "new"]
  /\ ask \in [Orders -> Request]
  /\ fill = [o \in Orders |-> 0]
  /\ seen = [o \in Orders |-> [a \in Assets |-> 0]]
  /\ move = [t \in Transfers |-> "new"]
  /\ wire \in [Transfers -> Wire]
  /\ moved = [o \in Orders |-> {}]
  /\ paid = {}
  /\ lost = {}

AdvanceT(t, from, to) == move[t] = from /\ move' = [move EXCEPT ![t] = to]
Advance(o, from, to) == call[o] = from /\ call' = [call EXCEPT ![o] = to]
SetStatus(o, status) == orders' = [orders EXCEPT ![o] = status]

-----------------------------------------------------------------------------
(* submitOrder *)

\* What the wallet must have available, as read before the order exists.
HasFunds(o, price) ==
  LET r == ask[o]
  IN  IF r.side = "BUY"
        THEN price * r.quantity <= wallets[r.user]["USD"].available
        ELSE r.quantity <= wallets[r.user]["BTC"].available

\* getPrice always answers: with no fresh price of the feed it is a default.
CheckFunds(o) ==
  \E price \in Prices :
    /\ \/ HasFunds(o, price) /\ Advance(o, "new", "checked")
       \/ ~HasFunds(o, price) /\ Advance(o, "new", "refused")
    /\ fill' = [fill EXCEPT ![o] = price]
    /\ UNCHANGED <<walletVars, orders, ask, seen, transferVars>>

CreateOrderRecord(o) ==
  /\ Advance(o, "checked", "recorded")
  /\ SetStatus(o, "accepted")
  /\ UNCHANGED <<walletVars, ask, fill, seen, transferVars>>

\* publishOrderAndWait when rabbitMQClient.isConnected(), otherwise straight to
\* the rejection.
Publish(o) ==
  /\ \/ Advance(o, "recorded", "waiting")
     \/ Advance(o, "recorded", "rejecting")
  /\ UNCHANGED <<walletVars, orders, ask, fill, seen, transferVars>>

\* The matcher fills every order, a little above the price for a BUY and a
\* little below it for a SELL.
Filled(o, slip) ==
  /\ Advance(o, "waiting", "settling")
  /\ fill' = [fill EXCEPT ![o] = IF ask[o].side = "BUY" THEN @ + slip ELSE @ - slip]
  /\ UNCHANGED <<walletVars, orders, ask, seen, transferVars>>

\* Mutant: the timeout is not cancelled by the answer.
RpcFailed_late(o) ==
  /\ \E pc \in {"waiting", "answered"} : Advance(o, pc, "rejecting")
  /\ UNCHANGED <<walletVars, orders, ask, fill, seen, transferVars>>

\* The breaker is open, the send failed or no answer came in time.
RpcFailed(o) ==
  /\ Advance(o, "waiting", "rejecting")
  /\ UNCHANGED <<walletVars, orders, ask, fill, seen, transferVars>>

(* updateUserWallet *)

\* getWalletSummary reads the balance of both assets in one SELECT.
ReadSummary(o) ==
  /\ Advance(o, "settling", "updateBtc")
  /\ seen' = [seen EXCEPT ![o] = [a \in Assets |-> wallets[ask[o].user][a].balance]]
  /\ UNCHANGED <<walletVars, orders, ask, fill, transferVars>>

\* Mutant: what a sale fetches is charged, not paid.
Leg_sale_charged(o, asset) ==
  IF asset = "BTC"
    THEN IF ask[o].side = "BUY" THEN ask[o].quantity ELSE -ask[o].quantity
    ELSE -(ask[o].quantity * fill[o])

\* What a settlement adds to a balance.
Leg(o, asset) ==
  LET bought == IF asset = "BTC" THEN ask[o].quantity ELSE -(ask[o].quantity * fill[o])
  IN  IF ask[o].side = "BUY" THEN bought ELSE -bought

\* Mutant: the settlement goes on when an UPDATE was refused.
UpdateBalance_unchecked(o, asset, next) ==
  LET u == ask[o].user
      row == Overwritten(wallets[u][asset], seen[o][asset] + Leg(o, asset))
      buried == wallets[u][asset].balance # seen[o][asset]
  IN  /\ call' = [call EXCEPT ![o] = next]
      /\ IF Legal(row)
           THEN /\ wallets' = [wallets EXCEPT ![u][asset] = row]
                /\ moved' = [moved EXCEPT ![o] = @ \cup {asset}]
                /\ UNCHANGED paid
                /\ lost' = lost \cup (IF buried THEN {<<u, asset>>} ELSE {})
           ELSE UNCHANGED walletVars

\* updateBalance writes an absolute value made from what was read; the table's
\* constraints reject a negative one.
UpdateBalance(o, asset, next) ==
  LET u == ask[o].user
      row == Overwritten(wallets[u][asset], seen[o][asset] + Leg(o, asset))
      buried == wallets[u][asset].balance # seen[o][asset]
  IN  IF Legal(row)
        THEN /\ wallets' = [wallets EXCEPT ![u][asset] = row]
             /\ moved' = [moved EXCEPT ![o] = @ \cup {asset}]
             /\ UNCHANGED paid
             /\ lost' = lost \cup (IF buried THEN {<<u, asset>>} ELSE {})
             /\ call' = [call EXCEPT ![o] = next]
        ELSE call' = [call EXCEPT ![o] = "rejecting"] /\ UNCHANGED walletVars

UpdateBtc(o) ==
  /\ call[o] = "updateBtc"
  /\ UpdateBalance(o, "BTC", "updateUsd")
  /\ UNCHANGED <<orders, ask, fill, seen, transferVars>>

UpdateUsd(o) ==
  /\ call[o] = "updateUsd"
  /\ UpdateBalance(o, "USD", "settled")
  /\ UNCHANGED <<orders, ask, fill, seen, transferVars>>

\* updateOrderRecord, and the answer to the caller.
RecordFill(o) ==
  /\ Advance(o, "settled", "answered")
  /\ SetStatus(o, "filled")
  /\ UNCHANGED <<walletVars, ask, fill, seen, transferVars>>

\* Mutant: the record is left for a later sweep.
RecordRejection_not_stored(o) ==
  /\ Advance(o, "rejecting", "rejected")
  /\ UNCHANGED <<walletVars, orders, ask, fill, seen, transferVars>>

\* The catch blocks: REJECTED is stored as 'cancelled' (twice over when the
\* settlement failed, with the same effect) and the error is thrown on.
RecordRejection(o) ==
  /\ Advance(o, "rejecting", "rejected")
  /\ SetStatus(o, "cancelled")
  /\ UNCHANGED <<walletVars, ask, fill, seen, transferVars>>

\* Mutant: a fill that cannot be recorded is answered all the same.
QueryFails_answered(o) ==
  /\ \/ \E pc \in {"new", "checked"} : Advance(o, pc, "refused")
     \/ \E pc \in {"settling", "updateBtc", "updateUsd"} :
          Advance(o, pc, "rejecting")
     \/ Advance(o, "settled", "answered")
     \/ Advance(o, "rejecting", "unrecorded")
  /\ UNCHANGED <<walletVars, orders, ask, fill, seen, transferVars>>

\* A query of submitOrder fails: before the order exists the error is thrown
\* on, in the settlement it leads to the catch block, in the catch block it
\* ends the call and the record stays as it is.
QueryFails(o) ==
  /\ \/ \E pc \in {"new", "checked"} : Advance(o, pc, "refused")
     \/ \E pc \in {"settling", "updateBtc", "updateUsd", "settled"} :
          Advance(o, pc, "rejecting")
     \/ Advance(o, "rejecting", "unrecorded")
  /\ UNCHANGED <<walletVars, orders, ask, fill, seen, transferVars>>

\* A write took effect and its answer is lost: submitOrder sees it fail.
AnswerLost(o) ==
  /\ \/ /\ \/ Advance(o, "checked", "refused") /\ SetStatus(o, "accepted")
           \/ Advance(o, "settled", "rejecting") /\ SetStatus(o, "filled")
           \/ Advance(o, "rejecting", "unrecorded") /\ SetStatus(o, "cancelled")
        /\ UNCHANGED walletVars
     \/ /\ \/ call[o] = "updateBtc" /\ UpdateBalance(o, "BTC", "rejecting")
           \/ call[o] = "updateUsd" /\ UpdateBalance(o, "USD", "rejecting")
        /\ UNCHANGED orders
  /\ UNCHANGED <<ask, fill, seen, transferVars>>

-----------------------------------------------------------------------------
(* processTransfer *)

CheckTransfer(t) ==
  LET enough == wallets[wire[t].from]["BTC"].balance >= wire[t].amount
  IN  /\ AdvanceT(t, "new", IF enough THEN "checked" ELSE "failed")
      /\ UNCHANGED <<walletVars, orderVars, wire>>

\* storage.createTransfer looks up wallets by address and the 'system' user; a
\* transfer between user ids matches neither, so no row is inserted.
CreateTransfer(t) ==
  /\ AdvanceT(t, "checked", "recorded")
  /\ UNCHANGED <<walletVars, orderVars, wire>>

\* walletService.transfer: what is available is checked again, under the lock.
\* Its COMMIT may take effect and its answer be lost: then it throws.
MoveFunds(t) ==
  LET w == wire[t]
      debited == [wallets EXCEPT ![w.from]["BTC"] = Debited(@, w.amount)]
  IN  /\ IF wallets[w.from]["BTC"].available >= w.amount
           THEN /\ \E next \in {"moved", "failed"} : AdvanceT(t, "recorded", next)
                /\ wallets' = [debited EXCEPT ![w.to]["BTC"] = Credited(@, w.amount)]
                /\ paid' = paid \cup {t}
           ELSE AdvanceT(t, "recorded", "failed") /\ UNCHANGED <<wallets, paid>>
      /\ UNCHANGED <<moved, lost, orderVars, wire>>

\* storage.updateTransfer compares a UUID column with the id 'TXN-...', which is
\* an error of the query: the catch block answers FAILED though the funds moved.
UpdateTransfer(t) ==
  /\ AdvanceT(t, "moved", "failed")
  /\ UNCHANGED <<walletVars, orderVars, wire>>

\* Another query of processTransfer fails: the catch block answers FAILED.
TransferQueryFails(t) ==
  /\ \E pc \in {"new", "checked", "recorded"} : AdvanceT(t, pc, "failed")
  /\ UNCHANGED <<walletVars, orderVars, wire>>

-----------------------------------------------------------------------------
\* The process dies: calls in progress are gone and nothing resumes them, rows
\* stay.
Ended == {"answered", "rejected", "unrecorded", "refused", "failed", "gone"}
Abandon(pc) == IF pc \in Ended \cup {"new"} THEN pc ELSE "gone"

Crash ==
  /\ call' = [o \in Orders |-> Abandon(call[o])]
  /\ move' = [t \in Transfers |-> Abandon(move[t])]
  /\ UNCHANGED <<walletVars, orders, ask, fill, seen, wire>>

OrderStep(o) ==
  \/ CheckFunds(o) \/ CreateOrderRecord(o) \/ Publish(o)
  \/ \E slip \in Slips : Filled(o, slip)
  \/ RpcFailed(o)
  \/ ReadSummary(o) \/ UpdateBtc(o) \/ UpdateUsd(o)
  \/ RecordFill(o) \/ RecordRejection(o)

TransferStep(t) ==
  CheckTransfer(t) \/ CreateTransfer(t) \/ MoveFunds(t) \/ UpdateTransfer(t)

HealthyNext ==
  \/ \E o \in Orders : OrderStep(o)
  \/ \E t \in Transfers : TransferStep(t)

Next ==
  \/ HealthyNext
  \/ \E o \in Orders : QueryFails(o) \/ AnswerLost(o)
  \/ \E t \in Transfers : TransferQueryFails(t)
  \/ Crash

Spec == Init /\ [][Next]_vars

\* Every await of a call in progress settles: queries return or fail, and the
\* request to the matcher has a timeout.  Nothing need fail.
Progress ==
  /\ \A o \in Orders : WF_vars(OrderStep(o))
  /\ \A t \in Transfers : WF_vars(TransferStep(t))

FairSpec == Spec /\ Progress

-----------------------------------------------------------------------------
(* Properties *)

\* Every variable stays in its range; rows never break the table's constraints.
TypeOK ==
  /\ wallets \in [Users -> [Assets -> Row]]
  /\ orders \in [Orders -> {"none", "accepted", "filled", "cancelled"}]
  /\ call \in [Orders -> Ended \cup {"new", "checked", "recorded", "waiting",
                 "settling", "updateBtc", "updateUsd", "settled", "rejecting"}]
  /\ ask \in [Orders -> Request]
  /\ fill \in [Orders -> Nat]
  /\ seen \in [Orders -> [Assets -> Nat]]
  /\ move \in [Transfers -> Ended \cup {"new", "checked", "recorded", "moved"}]
  /\ wire \in [Transfers -> Wire]
  /\ moved \in [Orders -> SUBSET Assets]
  /\ paid \subseteq Transfers
  /\ lost \subseteq Users \X Assets

\* What the caller of submitOrder is told agrees with what is stored, over
\* failures, lost answers and crashes: an order answered FILLED is filled and both
\* its legs were written, one whose rejection was recorded is cancelled, one that
\* was refused moved nothing and is at most an order still pending.
AnswerAgreesWithRecord ==
  \A o \in Orders :
    /\ call[o] = "answered" => orders[o] = "filled" /\ moved[o] = Assets
    /\ call[o] = "rejected" => orders[o] = "cancelled"
    /\ call[o] = "refused" => orders[o] \in {"none", "accepted"} /\ moved[o] = {}

\* No crash, failed query or lost answer leaves an order 'filled' with a leg
\* missing: the status is written after the settlement.
FilledHasBothLegs == \A o \in Orders : orders[o] = "filled" => moved[o] = Assets

\* A cancelled order stays cancelled, and once submitOrder has ended, nothing
\* late changes its order's record or what the caller was told (a fill whose
\* recording seems to have failed is the one record still turned to cancelled).
FinalStatus ==
  [][\A o \in Orders :
       /\ orders[o] = "cancelled" => orders'[o] = "cancelled"
       /\ call[o] \in Ended => call'[o] = call[o] /\ orders'[o] = orders[o]]_vars

\* What a balance should be: the opening balance, the legs of the orders that
\* were written at their fill prices, and the transfers that moved funds.
Bought(o, asset) == IF asset = "BTC" THEN ask[o].quantity ELSE -(fill[o] * ask[o].quantity)
Trade(o, asset) == IF ask[o].side = "BUY" THEN Bought(o, asset) ELSE -Bought(o, asset)

LegsOf(u, asset) ==
  SumFunction([o \in {p \in Orders : ask[p].user = u /\ asset \in moved[p]} |-> Trade(o, asset)])

\* What a transfer adds to the BTC of u, who may be both its sender and receiver.
Share(t, u) ==
  (IF wire[t].to = u THEN wire[t].amount ELSE 0)
    - (IF wire[t].from = u THEN wire[t].amount ELSE 0)

Received(u, asset) ==
  IF asset = "BTC" THEN SumFunction([t \in paid |-> Share(t, u)]) ELSE 0

Expected(u, asset) == Opening[u][asset].balance + LegsOf(u, asset) + Received(u, asset)

\* Unless a settlement wrote over a change made since its read, every balance
\* is what the settlements and transfers so far add up to, at every moment of
\* any interleaving, failed queries and crashes included.
OnlyStaleWritesLose ==
  \A u \in Users, a \in Assets : <<u, a>> \notin lost => wallets[u][a].balance = Expected(u, a)

\* What open limit orders have locked stays out of what can be spent, beside any
\* transfers and failures, unless a settlement wrote the row: updateBalance makes
\* the whole balance available (wallet-service.ts:586-593), and then the row
\* stays just that, with all that is locked spendable too.
LockedUnlessSettled ==
  \A u \in Users, a \in Assets :
    \/ Coherent(wallets[u][a])
    \/ /\ wallets[u][a].available = wallets[u][a].balance
       /\ \E o \in Orders : ask[o].user = u /\ a \in moved[o]

\* No order stays pending, whatever fails on the way: it is filled or cancelled
\* in the end, unless the process died, the very query that records the rejection
\* failed, or the INSERT that created it seemed to have failed (submitOrder:
\* "Mark order as rejected to prevent stuck pending orders").
OrdersSettle ==
  \A o \in Orders :
    orders[o] = "accepted" ~> \/ orders[o] \in {"filled", "cancelled"}
                             \/ call[o] \in {"gone", "unrecorded", "refused"}
=============================================================================
