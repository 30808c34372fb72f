--------------------------- MODULE OrderService_proofs ---------------------------
(***************************************************************************)
(* For any number of concurrent orders and transfers, any amounts, prices   *)
(* and slips, and with failing queries and crashes anywhere: what callers   *)
(* are told agrees with what is stored, a filled order has both its legs,   *)
(* and an order that ended keeps its status.                               *)
(***************************************************************************)
EXTENDS OrderService, Sums

\* Where a call may be once its fill is recorded: the answer to that UPDATE may
\* be lost, and the fill be taken for a failure.
PastFill == {"answered", "rejecting", "unrecorded", "gone"}

\* How far an order has come tells which of its legs were written and what its
\* record can say.
OrderProgress ==
  \A o \in Orders :
    /\ call[o] \in {"new", "checked", "recorded", "waiting", "settling", "updateBtc", "refused"}
         => moved[o] = {}
    /\ call[o] = "updateUsd" => "BTC" \in moved[o]
    /\ call[o] \in {"settled", "answered"} => moved[o] = Assets
    /\ call[o] = "answered" => orders[o] = "filled"
    /\ call[o] = "rejected" => orders[o] = "cancelled"
    /\ orders[o] = "filled" => call[o] \in PastFill /\ moved[o] = Assets
    /\ orders[o] = "cancelled" => call[o] \in {"rejected", "unrecorded"}

\* A transfer's funds move once.
TransferProgress == \A t \in Transfers : move[t] \in {"new", "checked", "recorded"} => t \notin paid

\* The calls' and records' part of TypeOK.
ControlOK ==
  /\ orders \in [Orders -> {"none", "accepted", "filled", "cancelled"}]
  /\ call \in [Orders -> Ended \cup {"new", "checked", "recorded", "waiting",
                 "settling", "updateBtc", "updateUsd", "settled", "rejecting"}]
  /\ move \in [Transfers -> Ended \cup {"new", "checked", "recorded", "moved"}]
  /\ moved \in [Orders -> SUBSET Assets]
  /\ paid \subseteq Transfers

IInv == ControlOK /\ OrderProgress /\ TransferProgress

LEMMA InitIInv == Init => IInv
<1> SUFFICES ASSUME Init PROVE IInv
  OBVIOUS
<1>1. ControlOK
  BY DEF Init, ControlOK
<1>2. OrderProgress
  BY DEF Init, OrderProgress
<1>3. TransferProgress
  BY DEF Init, TransferProgress
<1>4. QED
  BY <1>1, <1>2, <1>3 DEF IInv

-----------------------------------------------------------------------------
\* A step of one order that leaves the transfers alone keeps the invariant when
\* the order's own part of it holds afterwards.
LEMMA OrderStepIInv ==
  ASSUME IInv, NEW o \in Orders,
         UNCHANGED <<move, paid>>,
         NEW pc \in Ended \cup {"new", "checked", "recorded", "waiting", "settling",
                                "updateBtc", "updateUsd", "settled", "rejecting"},
         NEW status \in {"none", "accepted", "filled", "cancelled"},
         NEW legs \in SUBSET Assets,
         call' = [call EXCEPT ![o] = pc],
         orders' = [orders EXCEPT ![o] = status],
         moved' = [moved EXCEPT ![o] = legs],
         pc \in {"new", "checked", "recorded", "waiting", "settling", "updateBtc", "refused"}
           => legs = {},
         pc = "updateUsd" => "BTC" \in legs,
         pc \in {"settled", "answered"} => legs = Assets,
         pc = "answered" => status = "filled",
         pc = "rejected" => status = "cancelled",
         status = "filled" => pc \in PastFill /\ legs = Assets,
         status = "cancelled" => pc \in {"rejected", "unrecorded"}
  PROVE  IInv'
<1>1. ControlOK'
  BY DEF IInv, ControlOK
<1>2. TransferProgress'
  BY DEF IInv, TransferProgress
<1>3. /\ call'[o] = pc /\ orders'[o] = status /\ moved'[o] = legs
      /\ \A p \in Orders : p # o => /\ call'[p] = call[p]
                                    /\ orders'[p] = orders[p]
                                    /\ moved'[p] = moved[p]
  BY DEF IInv, ControlOK
<1>4. OrderProgress'
  <2> SUFFICES ASSUME NEW p \in Orders
               PROVE  /\ call'[p] \in {"new", "checked", "recorded", "waiting", "settling",
                                       "updateBtc", "refused"} => moved'[p] = {}
                      /\ call'[p] = "updateUsd" => "BTC" \in moved'[p]
                      /\ call'[p] \in {"settled", "answered"} => moved'[p] = Assets
                      /\ call'[p] = "answered" => orders'[p] = "filled"
                      /\ call'[p] = "rejected" => orders'[p] = "cancelled"
                      /\ orders'[p] = "filled" => call'[p] \in PastFill /\ moved'[p] = Assets
                      /\ orders'[p] = "cancelled" => call'[p] \in {"rejected", "unrecorded"}
    BY DEF OrderProgress
  <2>1. CASE p = o
    BY <1>3, <2>1
  <2>2. CASE p # o
    BY <1>3, <2>2 DEF IInv, OrderProgress
  <2>3. QED
    BY <2>1, <2>2
<1>5. QED
  BY <1>1, <1>2, <1>4 DEF IInv

\* The steps that change neither records nor legs.
LEMMA ControlStepIInv ==
  ASSUME IInv, NEW o \in Orders, UNCHANGED <<move, paid, orders, moved>>,
         call[o] \in {"new", "checked", "recorded", "waiting", "settling"},
         call'[o] \in {"checked", "refused", "waiting", "rejecting", "settling", "updateBtc"},
         call' = [call EXCEPT ![o] = call'[o]]
  PROVE  IInv'
<1>1. /\ orders[o] \in {"none", "accepted"} /\ moved[o] \in SUBSET Assets
      /\ orders' = [orders EXCEPT ![o] = orders[o]]
      /\ moved' = [moved EXCEPT ![o] = moved[o]]
  BY DEF IInv, ControlOK, OrderProgress, PastFill
<1>2. /\ moved[o] = {}
      /\ orders[o] \notin {"filled", "cancelled"}
      /\ orders[o] \in {"none", "accepted", "filled", "cancelled"}
  BY <1>1 DEF IInv, OrderProgress
<1>3. /\ call'[o] \notin {"updateUsd", "settled", "answered", "rejected"}
      /\ call'[o] \in Ended \cup {"new", "checked", "recorded", "waiting", "settling",
                                  "updateBtc", "updateUsd", "settled", "rejecting"}
  BY DEF Ended
<1> DEFINE pc == call'[o]  status == orders[o]  legs == moved[o]
<1>4. /\ pc \in {"new", "checked", "recorded", "waiting", "settling", "updateBtc", "refused"} => legs = {}
      /\ pc = "updateUsd" => "BTC" \in legs
      /\ pc \in {"settled", "answered"} => legs = Assets
      /\ pc = "answered" => status = "filled"
      /\ pc = "rejected" => status = "cancelled"
      /\ status = "filled" => pc \in PastFill /\ legs = Assets
      /\ status = "cancelled" => pc \in {"rejected", "unrecorded"}
  BY <1>2, <1>3
<1>5. QED
  BY <1>1, <1>2, <1>3, <1>4, OrderStepIInv

\* A settlement's UPDATE writes its leg and goes on, or gives up.
LEMMA UpdateBalanceIInv ==
  ASSUME IInv, NEW o \in Orders, NEW asset \in Assets, NEW next,
         UpdateBalance(o, asset, next),
         UNCHANGED <<orders, transferVars>>,
         \/ call[o] = "updateBtc" /\ asset = "BTC" /\ next \in {"updateUsd", "rejecting"}
         \/ call[o] = "updateUsd" /\ asset = "USD" /\ next \in {"settled", "rejecting"}
  PROVE  IInv'
<1> USE DEF transferVars, walletVars
<1>1. /\ orders[o] \in {"none", "accepted"} /\ orders' = [orders EXCEPT ![o] = orders[o]]
      /\ call[o] = "updateUsd" => "BTC" \in moved[o]
      /\ moved[o] \in SUBSET Assets
  BY DEF IInv, ControlOK, OrderProgress, PastFill
<1>2. CASE call' = [call EXCEPT ![o] = "rejecting"] /\ UNCHANGED walletVars
  <2>1. moved' = [moved EXCEPT ![o] = moved[o]]
    BY <1>2 DEF IInv, ControlOK
  <2>2. QED
    BY <1>1, <1>2, <2>1, OrderStepIInv
<1>3. CASE /\ call' = [call EXCEPT ![o] = next]
           /\ moved' = [moved EXCEPT ![o] = @ \cup {asset}]
           /\ UNCHANGED paid
  <2>1. /\ moved[o] \cup {asset} \in SUBSET Assets /\ asset \in moved[o] \cup {asset}
        /\ moved' = [moved EXCEPT ![o] = moved[o] \cup {asset}]
    BY <1>1, <1>3
  <2>2. next = "settled" => moved[o] \cup {asset} = Assets
    BY <1>1 DEF Assets
  <2>3. QED
    BY <1>1, <1>3, <2>1, <2>2, OrderStepIInv DEF Ended
<1>4. QED
  BY <1>2, <1>3 DEF UpdateBalance

LEMMA OrdersIInv ==
  ASSUME IInv, NEW o \in Orders,
         OrderStep(o) \/ QueryFails(o) \/ AnswerLost(o)
  PROVE  IInv'
<1> USE DEF Advance, walletVars, transferVars
<1>1. /\ call[o] \in {"new", "checked", "recorded", "waiting", "settling", "refused"} => moved[o] = {}
      /\ call[o] \notin PastFill \cup {"rejected"} => orders[o] \in {"none", "accepted"}
      /\ call[o] = "rejecting" => orders[o] # "cancelled"
      /\ orders[o] = "filled" => moved[o] = Assets
      /\ call[o] = "settled" => moved[o] = Assets
      /\ moved[o] \in SUBSET Assets
      /\ orders[o] \in {"none", "accepted", "filled", "cancelled"}
  BY DEF IInv, ControlOK, OrderProgress, PastFill
<1>2. CASE CheckFunds(o) \/ Publish(o) \/ RpcFailed(o) \/ ReadSummary(o)
           \/ \E slip \in Slips : Filled(o, slip)
  <2>1. /\ call[o] \in {"new", "checked", "recorded", "waiting", "settling"}
        /\ call'[o] \in {"checked", "refused", "waiting", "rejecting", "settling", "updateBtc"}
        /\ call' = [call EXCEPT ![o] = call'[o]]
        /\ UNCHANGED <<move, paid, orders, moved>>
    BY <1>2 DEF CheckFunds, Publish, RpcFailed, ReadSummary, Filled, IInv, ControlOK
  <2>2. QED
    BY <2>1, ControlStepIInv
<1>3. CASE QueryFails(o)
  <2>1. /\ UNCHANGED <<move, paid>>
        /\ orders' = [orders EXCEPT ![o] = orders[o]]
        /\ moved' = [moved EXCEPT ![o] = moved[o]]
    BY <1>3 DEF QueryFails, IInv, ControlOK
  <2>2. CASE call[o] \in {"new", "checked"} /\ call' = [call EXCEPT ![o] = "refused"]
    <3>1. moved[o] = {} /\ orders[o] \in {"none", "accepted"}
      BY <1>1, <2>2 DEF PastFill
    <3>2. QED
      BY <2>1, <2>2, <3>1, OrderStepIInv DEF Ended
  <2>3. ASSUME NEW pc \in {"rejecting", "unrecorded"}, call' = [call EXCEPT ![o] = pc],
               orders[o] # "cancelled"
        PROVE  IInv'
    <3>1. /\ pc \notin {"new", "checked", "recorded", "waiting", "settling", "updateBtc", "refused"}
          /\ pc \notin {"updateUsd", "settled", "answered", "rejected"}
          /\ pc \in Ended \cup {"rejecting"} /\ pc \in PastFill
      BY DEF Ended, PastFill
    <3>2. QED
      BY <1>1, <2>1, <2>3, <3>1, OrderStepIInv
  <2>4. \/ call[o] \in {"new", "checked"} /\ call' = [call EXCEPT ![o] = "refused"]
        \/ \E pc \in {"rejecting", "unrecorded"} :
             call' = [call EXCEPT ![o] = pc] /\ orders[o] # "cancelled"
    BY <1>1, <1>3 DEF QueryFails, PastFill
  <2>5. QED
    BY <2>2, <2>3, <2>4
<1>4. CASE CreateOrderRecord(o) \/ RecordFill(o) \/ RecordRejection(o)
  <2>1. moved' = [moved EXCEPT ![o] = moved[o]] /\ UNCHANGED <<move, paid>>
    BY <1>4 DEF CreateOrderRecord, RecordFill, RecordRejection, IInv, ControlOK
  <2>2. CASE CreateOrderRecord(o)
    BY <1>1, <2>1, <2>2, OrderStepIInv DEF CreateOrderRecord, SetStatus, Ended
  <2>3. CASE RecordFill(o)
    BY <1>1, <2>1, <2>3, OrderStepIInv DEF RecordFill, SetStatus, Ended, PastFill
  <2>4. CASE RecordRejection(o)
    BY <1>1, <2>1, <2>4, OrderStepIInv DEF RecordRejection, SetStatus, Ended
  <2>5. QED
    BY <1>4, <2>2, <2>3, <2>4
<1>5. CASE AnswerLost(o) /\ UNCHANGED walletVars /\ call[o] \in {"checked", "settled", "rejecting"}
  <2>1. moved' = [moved EXCEPT ![o] = moved[o]] /\ UNCHANGED <<move, paid>>
    BY <1>5 DEF AnswerLost, IInv, ControlOK
  <2>2. CASE call' = [call EXCEPT ![o] = "refused"] /\ call[o] = "checked" /\ SetStatus(o, "accepted")
    BY <1>1, <2>1, <2>2, OrderStepIInv DEF SetStatus, Ended
  <2>3. CASE call' = [call EXCEPT ![o] = "rejecting"] /\ call[o] = "settled" /\ SetStatus(o, "filled")
    BY <1>1, <2>1, <2>3, OrderStepIInv DEF SetStatus, PastFill
  <2>4. CASE call' = [call EXCEPT ![o] = "unrecorded"] /\ SetStatus(o, "cancelled")
    BY <1>1, <2>1, <2>4, OrderStepIInv DEF SetStatus, Ended
  <2>5. QED
    BY <1>5, <2>2, <2>3, <2>4 DEF AnswerLost
<1>6. ASSUME AnswerLost(o), NEW asset \in Assets, UpdateBalance(o, asset, "rejecting"), UNCHANGED orders,
             \/ call[o] = "updateBtc" /\ asset = "BTC"
             \/ call[o] = "updateUsd" /\ asset = "USD"
      PROVE  IInv'
  BY <1>6, UpdateBalanceIInv DEF AnswerLost
<1>7. CASE UpdateBtc(o)
  BY <1>7, UpdateBalanceIInv DEF UpdateBtc, Assets
<1>8. CASE UpdateUsd(o)
  BY <1>8, UpdateBalanceIInv DEF UpdateUsd, Assets
<1>9. CASE AnswerLost(o)
  <2>1. "BTC" \in Assets /\ "USD" \in Assets
    BY DEF Assets
  <2>2. QED
    BY <1>5, <1>6, <1>9, <2>1 DEF AnswerLost
<1>10. QED
  BY <1>2, <1>3, <1>4, <1>7, <1>8, <1>9 DEF OrderStep

LEMMA TransfersIInv ==
  ASSUME IInv, NEW t \in Transfers,
         TransferStep(t) \/ TransferQueryFails(t)
  PROVE  IInv'
<1> USE DEF AdvanceT, walletVars, orderVars
<1>1. UNCHANGED <<orders, call, moved>>
  BY DEF TransferStep, CheckTransfer, CreateTransfer, MoveFunds, UpdateTransfer, TransferQueryFails
<1>2. OrderProgress'
  BY <1>1 DEF IInv, OrderProgress
<1>3. ControlOK' /\ TransferProgress'
  <2> USE DEF IInv, ControlOK, TransferProgress, Ended
  <2>1. CASE CheckTransfer(t)
    BY <1>1, <2>1 DEF CheckTransfer
  <2>2. CASE CreateTransfer(t)
    BY <1>1, <2>2 DEF CreateTransfer
  <2>3. CASE MoveFunds(t)
    BY <1>1, <2>3 DEF MoveFunds
  <2>4. CASE UpdateTransfer(t)
    BY <1>1, <2>4 DEF UpdateTransfer
  <2>5. CASE TransferQueryFails(t)
    BY <1>1, <2>5 DEF TransferQueryFails
  <2>6. QED
    BY <2>1, <2>2, <2>3, <2>4, <2>5 DEF TransferStep
<1>4. QED
  BY <1>2, <1>3 DEF IInv

LEMMA StepIInv == IInv /\ [Next]_vars => IInv'
<1> SUFFICES ASSUME IInv, [Next]_vars PROVE IInv'
  OBVIOUS
<1>1. CASE Crash
  <2> USE DEF Crash, Abandon, Ended, walletVars, IInv
  <2>1. ControlOK'
    BY <1>1 DEF ControlOK
  <2>2. OrderProgress'
    BY <1>1 DEF ControlOK, OrderProgress, PastFill
  <2>3. TransferProgress'
    BY <1>1 DEF ControlOK, TransferProgress
  <2>4. QED
    BY <2>1, <2>2, <2>3
<1>2. CASE UNCHANGED vars
  BY <1>2 DEF vars, walletVars, orderVars, transferVars, IInv, ControlOK, OrderProgress, TransferProgress
<1>3. QED
  BY <1>1, <1>2, OrdersIInv, TransfersIInv DEF Next, HealthyNext

-----------------------------------------------------------------------------
\* An answered order is filled with both legs written, a rejected one is
\* cancelled and a refused one moved nothing, over failed queries, lost answers
\* and crashes (submitOrder).
THEOREM AnswersAgree == Spec => []AnswerAgreesWithRecord
<1>1. IInv => AnswerAgreesWithRecord
  <2> SUFFICES ASSUME IInv, NEW o \in Orders
               PROVE  /\ call[o] = "answered" => orders[o] = "filled" /\ moved[o] = Assets
                      /\ call[o] = "rejected" => orders[o] = "cancelled"
                      /\ call[o] = "refused" => orders[o] \in {"none", "accepted"} /\ moved[o] = {}
    BY DEF AnswerAgreesWithRecord
  <2>1. orders[o] \in {"none", "accepted", "filled", "cancelled"}
    BY DEF IInv, ControlOK
  <2>2. QED
    BY <2>1 DEF IInv, OrderProgress, PastFill
<1>2. QED
  BY InitIInv, StepIInv, <1>1, PTL DEF Spec

\* A filled order has both its legs, whatever failed or crashed (submitOrder
\* records the fill after the settlement).
THEOREM FilledOrdersSettled == Spec => []FilledHasBothLegs
<1>1. IInv => FilledHasBothLegs
  BY DEF IInv, OrderProgress, FilledHasBothLegs
<1>2. QED
  BY InitIInv, StepIInv, <1>1, PTL DEF Spec

-----------------------------------------------------------------------------
\* A call that ended takes no step, and no other call touches its record.
LEMMA EndedStays ==
  ASSUME IInv, [Next]_vars, NEW o \in Orders, call[o] \in Ended
  PROVE  call'[o] = call[o] /\ orders'[o] = orders[o]
<1>1. ASSUME NEW p \in Orders, OrderStep(p) \/ QueryFails(p) \/ AnswerLost(p)
      PROVE  call'[o] = call[o] /\ orders'[o] = orders[o]
  <2>1. call[p] \notin Ended
    BY <1>1 DEF OrderStep, CheckFunds, Publish, Filled, RpcFailed, ReadSummary, CreateOrderRecord,
                RecordFill, RecordRejection, UpdateBtc, UpdateUsd, QueryFails, AnswerLost, Advance,
                Ended
  <2>2. \E pc : call' = [call EXCEPT ![p] = pc]
    BY <1>1 DEF OrderStep, CheckFunds, Publish, Filled, RpcFailed, ReadSummary, CreateOrderRecord,
                RecordFill, RecordRejection, UpdateBtc, UpdateUsd, UpdateBalance, QueryFails,
                AnswerLost, Advance
  <2>3. orders' = orders \/ \E status : orders' = [orders EXCEPT ![p] = status]
    BY <1>1 DEF OrderStep, CheckFunds, Publish, Filled, RpcFailed, ReadSummary, CreateOrderRecord,
                RecordFill, RecordRejection, UpdateBtc, UpdateUsd, QueryFails, AnswerLost, SetStatus
  <2>4. QED
    BY <2>1, <2>2, <2>3 DEF IInv, ControlOK
<1>2. ASSUME NEW t \in Transfers, TransferStep(t) \/ TransferQueryFails(t)
      PROVE  UNCHANGED <<call, orders>>
  BY <1>2 DEF TransferStep, CheckTransfer, CreateTransfer, MoveFunds, UpdateTransfer,
              TransferQueryFails, orderVars
<1>3. ASSUME Crash PROVE call'[o] = call[o] /\ orders'[o] = orders[o]
  BY <1>3 DEF Crash, Abandon
<1>4. ASSUME UNCHANGED vars PROVE call'[o] = call[o] /\ orders'[o] = orders[o]
  BY <1>4 DEF vars, orderVars
<1>5. QED
  BY <1>1, <1>2, <1>3, <1>4 DEF Next, HealthyNext

\* A cancelled order stays cancelled, and no retry, late answer, failed query or
\* crash changes what an ended submitOrder answered or recorded
\* (updateOrderRecord is never called again).
THEOREM StatusIsFinal == Spec => FinalStatus
<1>1. ASSUME IInv, [Next]_vars, NEW o \in Orders, orders[o] = "cancelled"
      PROVE  orders'[o] = "cancelled"
  <2>1. call[o] \in Ended
    BY <1>1 DEF IInv, OrderProgress, Ended
  <2>2. QED
    BY <1>1, <2>1, EndedStays
<1>2. IInv /\ [Next]_vars
        => [\A o \in Orders :
              /\ orders[o] = "cancelled" => orders'[o] = "cancelled"
              /\ call[o] \in Ended => call'[o] = call[o] /\ orders'[o] = orders[o]]_vars
  BY <1>1, EndedStays
<1>3. QED
  BY InitIInv, StepIInv, <1>2, PTL DEF Spec, FinalStatus

-----------------------------------------------------------------------------
\* Rows.  A transfer takes from a row no more than is available, and what is
\* available is at most the balance while the row is coherent or all of it is
\* available: the table's constraints then never stop a transfer half way.

Sound(row) == Coherent(row) \/ row.available = row.balance

LEMMA TransferredRows ==
  ASSUME NEW row \in Row, NEW n \in Nat
  PROVE  /\ Credited(row, n) \in Row
         /\ row.available >= n /\ Sound(row) => Debited(row, n) \in Row
         /\ Coherent(row) => Coherent(Credited(row, n)) /\ Coherent(Debited(row, n))
         /\ row.available = row.balance
              => /\ Credited(row, n).available = Credited(row, n).balance
                 /\ Debited(row, n).available = Debited(row, n).balance
BY DEF Row, RowOf, Credited, Debited, Coherent, Sound

LEMMA OverwrittenRow ==
  ASSUME NEW row \in Row, NEW n \in Int, Legal(Overwritten(row, n))
  PROVE  Overwritten(row, n) \in Row /\ Overwritten(row, n).available = Overwritten(row, n).balance
BY DEF Row, RowOf, Overwritten, Legal

LockedInv == TypeOK /\ LockedUnlessSettled

\* An order is sent to the matcher with a price of getPrice, which its fill is
\* made from.
Quoted == \A o \in Orders : call[o] \in {"checked", "recorded", "waiting"} => fill[o] \in Prices

LEMMA InitQuoted == Init => Quoted
  BY DEF Init, Quoted

LEMMA StepQuoted == TypeOK /\ Quoted /\ [Next]_vars => Quoted'
<1> SUFFICES ASSUME TypeOK, Quoted, [Next]_vars, NEW o \in Orders,
                    call'[o] \in {"checked", "recorded", "waiting"}
             PROVE  fill'[o] \in Prices
  BY DEF Quoted
<1>1. ASSUME NEW p \in Orders, CheckFunds(p) PROVE fill'[o] \in Prices
  <2>1. PICK price \in Prices :
          fill' = [fill EXCEPT ![p] = price] /\ \E pc : call' = [call EXCEPT ![p] = pc]
    BY <1>1 DEF CheckFunds, Advance
  <2>2. QED
    BY <2>1 DEF TypeOK, Quoted
<1>2. ASSUME NEW p \in Orders, NEW slip \in Slips, Filled(p, slip) PROVE fill'[o] \in Prices
  <2>1. /\ call' = [call EXCEPT ![p] = "settling"]
        /\ \E price : fill' = [fill EXCEPT ![p] = price]
    BY <1>2 DEF Filled, Advance
  <2>2. QED
    BY <2>1 DEF TypeOK, Quoted
<1>3. ASSUME NEW p \in Orders, OrderStep(p) \/ QueryFails(p) \/ AnswerLost(p),
             ~CheckFunds(p), \A slip \in Slips : ~Filled(p, slip)
      PROVE  fill'[o] \in Prices
  <2>1. UNCHANGED fill
    BY <1>3 DEF OrderStep, Publish, RpcFailed, ReadSummary, CreateOrderRecord, RecordFill,
                RecordRejection, UpdateBtc, UpdateUsd, QueryFails, AnswerLost
  <2>2. \E pc : /\ call' = [call EXCEPT ![p] = pc]
                /\ \/ pc \notin {"checked", "recorded", "waiting"}
                   \/ call[p] \in {"checked", "recorded", "waiting"}
    BY <1>3 DEF OrderStep, Publish, RpcFailed, ReadSummary, CreateOrderRecord, RecordFill,
                RecordRejection, UpdateBtc, UpdateUsd, UpdateBalance, QueryFails, AnswerLost, Advance
  <2>3. QED
    BY <2>1, <2>2 DEF TypeOK, Quoted
<1>4. ASSUME NEW t \in Transfers, TransferStep(t) \/ TransferQueryFails(t)
      PROVE  fill'[o] \in Prices
  BY <1>4 DEF TransferStep, CheckTransfer, CreateTransfer, MoveFunds, UpdateTransfer,
              TransferQueryFails, orderVars, Quoted
<1>5. ASSUME Crash PROVE fill'[o] \in Prices
  BY <1>5 DEF Crash, Abandon, Quoted
<1>6. ASSUME UNCHANGED vars PROVE fill'[o] \in Prices
  BY <1>6 DEF vars, orderVars, Quoted
<1>7. QED
  BY <1>1, <1>2, <1>3, <1>4, <1>5, <1>6 DEF Next, HealthyNext

LEMMA InitLocked == Init => LockedInv
<1> SUFFICES ASSUME Init PROVE LockedInv
  OBVIOUS
<1>1. TypeOK
  BY OrderAssumption DEF Init, TypeOK
<1>2. LockedUnlessSettled
  BY OrderAssumption DEF Init, LockedUnlessSettled
<1>3. QED
  BY <1>1, <1>2 DEF LockedInv

\* What a settlement adds to a balance is a number.
LEMMA LegIsANumber ==
  ASSUME TypeOK, NEW o \in Orders, NEW asset \in Assets
  PROVE  Leg(o, asset) \in Int
<1>1. ask[o].quantity \in Int /\ fill[o] \in Int
  <2>1. ask[o] \in Request /\ fill[o] \in Nat
    BY DEF TypeOK
  <2>2. ask[o].quantity \in Quantities
    BY <2>1 DEF Request
  <2>3. Quantities \subseteq Int
    BY OrderAssumption
  <2>4. fill[o] \in Int
    BY <2>1
  <2>5. QED
    BY <2>2, <2>3, <2>4
<1>2. ask[o].quantity * fill[o] \in Int
  BY <1>1
<1> DEFINE bought == IF asset = "BTC" THEN ask[o].quantity ELSE -(ask[o].quantity * fill[o])
<1>3. bought \in Int
  BY <1>1, <1>2
<1>4. QED
  BY <1>3 DEF Leg

LEMMA UpdateBalanceLocked ==
  ASSUME LockedInv, NEW o \in Orders, NEW asset \in Assets, NEW next \in {"updateUsd", "settled", "rejecting"},
         UpdateBalance(o, asset, next),
         UNCHANGED <<orders, ask, fill, seen, transferVars>>
  PROVE  LockedInv'
<1> USE DEF transferVars
<1> DEFINE u == ask[o].user
           n == seen[o][asset] + Leg(o, asset)
           row == Overwritten(wallets[u][asset], n)
<1>1. u \in Users /\ wallets[u][asset] \in Row /\ n \in Int
  BY LegIsANumber DEF LockedInv, TypeOK, Request
<1>2. CASE call' = [call EXCEPT ![o] = "rejecting"] /\ UNCHANGED walletVars
  <2>1. TypeOK'
    BY <1>2 DEF LockedInv, TypeOK, walletVars
  <2>2. LockedUnlessSettled'
    BY <1>2 DEF LockedInv, LockedUnlessSettled, walletVars
  <2>3. QED
    BY <2>1, <2>2 DEF LockedInv
<1>3. CASE /\ Legal(row)
           /\ wallets' = [wallets EXCEPT ![u][asset] = row]
           /\ moved' = [moved EXCEPT ![o] = @ \cup {asset}]
           /\ UNCHANGED paid
           /\ lost' \in {lost, lost \cup {<<u, asset>>}}
           /\ call' = [call EXCEPT ![o] = next]
  <2>1. row \in Row /\ row.available = row.balance
    BY <1>1, <1>3, OverwrittenRow
  <2>2. wallets' \in [Users -> [Assets -> Row]]
    BY <1>1, <1>3, <2>1 DEF LockedInv, TypeOK
  <2>3. moved' \in [Orders -> SUBSET Assets] /\ lost' \subseteq Users \X Assets
    BY <1>1, <1>3 DEF LockedInv, TypeOK
  <2>4. call' \in [Orders -> Ended \cup {"new", "checked", "recorded", "waiting",
                     "settling", "updateBtc", "updateUsd", "settled", "rejecting"}]
    BY <1>3 DEF LockedInv, TypeOK
  <2>5. TypeOK'
    BY <1>3, <2>2, <2>3, <2>4 DEF LockedInv, TypeOK
  <2>6. LockedUnlessSettled'
    <3> SUFFICES ASSUME NEW v \in Users, NEW a \in Assets
                 PROVE  \/ Coherent(wallets'[v][a])
                        \/ /\ wallets'[v][a].available = wallets'[v][a].balance
                           /\ \E p \in Orders : ask[p].user = v /\ a \in moved'[p]
      BY DEF LockedUnlessSettled
    <3>1. \A p \in Orders : moved[p] \subseteq moved'[p]
      BY <1>3 DEF LockedInv, TypeOK
    <3>2. CASE v = u /\ a = asset
      <4>1. wallets'[v][a] = row /\ asset \in moved'[o]
        BY <1>1, <1>3, <3>2 DEF LockedInv, TypeOK
      <4>2. QED
        BY <2>1, <3>2, <4>1
    <3>3. CASE ~(v = u /\ a = asset)
      <4>1. wallets'[v][a] = wallets[v][a]
        BY <1>1, <1>3, <3>3 DEF LockedInv, TypeOK
      <4>2. QED
        BY <3>1, <4>1 DEF LockedInv, LockedUnlessSettled
    <3>4. QED
      BY <3>2, <3>3
  <2>7. QED
    BY <2>5, <2>6 DEF LockedInv
<1>4. QED
  BY <1>2, <1>3 DEF UpdateBalance

LEMMA OrdersLocked ==
  ASSUME LockedInv, Quoted, NEW o \in Orders, OrderStep(o) \/ QueryFails(o) \/ AnswerLost(o)
  PROVE  LockedInv'
<1> USE DEF Advance, walletVars, transferVars
<1>1. CASE UpdateBtc(o)
  BY <1>1, UpdateBalanceLocked DEF UpdateBtc, Assets
<1>2. CASE UpdateUsd(o)
  BY <1>2, UpdateBalanceLocked DEF UpdateUsd, Assets
<1>3. ASSUME AnswerLost(o), NEW asset \in Assets, UpdateBalance(o, asset, "rejecting"), UNCHANGED orders
      PROVE  LockedInv'
  BY <1>3, UpdateBalanceLocked DEF AnswerLost
<1>4. ASSUME ~UpdateBtc(o), ~UpdateUsd(o), AnswerLost(o) => UNCHANGED walletVars PROVE LockedInv'
  <2>1. UNCHANGED <<walletVars, ask, transferVars>>
    BY <1>4 DEF OrderStep, CheckFunds, Publish, Filled, RpcFailed, ReadSummary,
                CreateOrderRecord, RecordFill, RecordRejection, QueryFails, AnswerLost
  <2>2. LockedUnlessSettled'
    BY <2>1 DEF LockedInv, LockedUnlessSettled
  <2>3. call' \in [Orders -> Ended \cup {"new", "checked", "recorded", "waiting",
                     "settling", "updateBtc", "updateUsd", "settled", "rejecting"}]
    <3>1. \E pc \in Ended \cup {"checked", "recorded", "waiting", "settling", "updateBtc", "rejecting"} :
            call' = [call EXCEPT ![o] = pc]
      BY <1>4 DEF OrderStep, CheckFunds, Publish, Filled, RpcFailed, ReadSummary, CreateOrderRecord,
                  RecordFill, RecordRejection, QueryFails, AnswerLost, UpdateBalance, Ended
    <3>2. QED
      BY <3>1 DEF LockedInv, TypeOK
  <2>4. orders' \in [Orders -> {"none", "accepted", "filled", "cancelled"}]
    BY <1>4 DEF LockedInv, TypeOK, OrderStep, CheckFunds, Publish, Filled, RpcFailed,
                ReadSummary, CreateOrderRecord, RecordFill, RecordRejection, QueryFails, AnswerLost, SetStatus
  <2>5. fill' \in [Orders -> Nat]
    <3>1. CASE UNCHANGED fill
      BY <3>1 DEF LockedInv, TypeOK
    <3>2. ASSUME NEW slip \in Slips, Filled(o, slip) PROVE fill' \in [Orders -> Nat]
      <4>1. fill[o] \in Prices
        BY <3>2 DEF Filled, Advance, Quoted
      <4>2. fill[o] + slip \in Nat /\ fill[o] - slip \in Nat
        <5>1. fill[o] \in Nat /\ slip \in 0..fill[o]
          BY <4>1, OrderAssumption
        <5>2. QED
          BY <5>1
      <4>3. QED
        BY <3>2, <4>2 DEF LockedInv, TypeOK, Filled
    <3>3. CASE CheckFunds(o)
      BY <3>3, OrderAssumption DEF CheckFunds, LockedInv, TypeOK
    <3>4. QED
      BY <1>4, <3>1, <3>2, <3>3 DEF OrderStep, Publish, RpcFailed, ReadSummary,
                              CreateOrderRecord, RecordFill, RecordRejection, QueryFails, AnswerLost
  <2>6. seen' \in [Orders -> [Assets -> Nat]]
    <3>1. CASE UNCHANGED seen
      BY <3>1 DEF LockedInv, TypeOK
    <3>2. CASE ReadSummary(o)
      <4>1. [a \in Assets |-> wallets[ask[o].user][a].balance] \in [Assets -> Nat]
        BY DEF LockedInv, TypeOK, Request, Row
      <4>2. QED
        BY <3>2, <4>1 DEF LockedInv, TypeOK, ReadSummary
    <3>3. QED
      BY <1>4, <3>1, <3>2 DEF OrderStep, CheckFunds, Publish, Filled, RpcFailed,
                              CreateOrderRecord, RecordFill, RecordRejection, QueryFails, AnswerLost
  <2>7. TypeOK'
    BY <2>1, <2>3, <2>4, <2>5, <2>6 DEF LockedInv, TypeOK
  <2>8. QED
    BY <2>2, <2>7 DEF LockedInv
<1>5. QED
  <2>1. "BTC" \in Assets /\ "USD" \in Assets
    BY DEF Assets
  <2>2. QED
    BY <1>1, <1>2, <1>3, <1>4, <2>1 DEF AnswerLost

\* A transfer that moves funds debits the sender's row, then credits the
\* receiver's, which may be the same.
LEMMA MoveFundsLocked ==
  ASSUME LockedInv, NEW t \in Transfers, MoveFunds(t)
  PROVE  LockedInv'
<1> USE DEF orderVars
<1> DEFINE from == wire[t].from  to == wire[t].to  n == wire[t].amount
           debited == [wallets EXCEPT ![from]["BTC"] = Debited(@, n)]
<1>1. from \in Users /\ to \in Users /\ n \in Nat /\ "BTC" \in Assets
  BY OrderAssumption DEF LockedInv, TypeOK, Wire, Assets
<1>2. CASE UNCHANGED wallets
  <2>1. TypeOK'
    BY <1>2 DEF MoveFunds, AdvanceT, LockedInv, TypeOK, Ended
  <2>2. LockedUnlessSettled'
    BY <1>2 DEF MoveFunds, LockedInv, LockedUnlessSettled
  <2>3. QED
    BY <2>1, <2>2 DEF LockedInv
<1>3. CASE /\ wallets[from]["BTC"].available >= n
           /\ wallets' = [debited EXCEPT ![to]["BTC"] = Credited(@, n)]
  <2>1. \A v \in Users, a \in Assets : wallets[v][a] \in Row /\ Sound(wallets[v][a])
    BY DEF LockedInv, TypeOK, LockedUnlessSettled, Sound
  <2>2. /\ debited \in [Users -> [Assets -> Row]]
        /\ \A v \in Users, a \in Assets :
             debited[v][a] = IF v = from /\ a = "BTC" THEN Debited(wallets[v][a], n) ELSE wallets[v][a]
    <3>1. Debited(wallets[from]["BTC"], n) \in Row
      BY <1>1, <1>3, <2>1, TransferredRows
    <3>2. wallets \in [Users -> [Assets -> Row]]
      BY DEF LockedInv, TypeOK
    <3>3. QED
      BY <1>1, <3>1, <3>2
  <2>3. /\ wallets' \in [Users -> [Assets -> Row]]
        /\ \A v \in Users, a \in Assets :
             wallets'[v][a] = IF v = to /\ a = "BTC" THEN Credited(debited[v][a], n) ELSE debited[v][a]
    <3>1. Credited(debited[to]["BTC"], n) \in Row
      BY <1>1, <2>2, TransferredRows
    <3>2. QED
      BY <1>1, <1>3, <2>2, <3>1
  <2>4. ASSUME NEW v \in Users, NEW a \in Assets
        PROVE  /\ Coherent(wallets[v][a]) => Coherent(wallets'[v][a])
               /\ wallets[v][a].available = wallets[v][a].balance
                    => wallets'[v][a].available = wallets'[v][a].balance
    <3>1. /\ Coherent(wallets[v][a]) => Coherent(debited[v][a])
          /\ wallets[v][a].available = wallets[v][a].balance
               => debited[v][a].available = debited[v][a].balance
      BY <1>1, <2>1, <2>2, TransferredRows
    <3>2. /\ Coherent(debited[v][a]) => Coherent(wallets'[v][a])
          /\ debited[v][a].available = debited[v][a].balance
               => wallets'[v][a].available = wallets'[v][a].balance
      BY <1>1, <2>2, <2>3, TransferredRows
    <3>3. QED
      BY <3>1, <3>2
  <2>5. LockedUnlessSettled'
    BY <2>4 DEF MoveFunds, LockedInv, LockedUnlessSettled
  <2>6. TypeOK'
    <3>1. \E next \in {"moved", "failed"} : move' = [move EXCEPT ![t] = next]
      BY DEF MoveFunds, AdvanceT
    <3>2. move' \in [Transfers -> Ended \cup {"new", "checked", "recorded", "moved"}]
      BY <3>1 DEF LockedInv, TypeOK, Ended
    <3>3. QED
      BY <2>3, <3>2 DEF MoveFunds, LockedInv, TypeOK
  <2>7. QED
    BY <2>5, <2>6 DEF LockedInv
<1>4. QED
  BY <1>2, <1>3 DEF MoveFunds

LEMMA StepLocked == LockedInv /\ Quoted /\ [Next]_vars => LockedInv'
<1> SUFFICES ASSUME LockedInv, Quoted, [Next]_vars PROVE LockedInv'
  OBVIOUS
<1>1. ASSUME NEW t \in Transfers,
             CheckTransfer(t) \/ CreateTransfer(t) \/ UpdateTransfer(t) \/ TransferQueryFails(t)
      PROVE  LockedInv'
  <2>1. UNCHANGED <<walletVars, orderVars, wire>>
    BY <1>1 DEF CheckTransfer, CreateTransfer, UpdateTransfer, TransferQueryFails
  <2>2. move' \in [Transfers -> Ended \cup {"new", "checked", "recorded", "moved"}]
    BY <1>1 DEF CheckTransfer, CreateTransfer, UpdateTransfer, TransferQueryFails, AdvanceT,
                LockedInv, TypeOK, Ended
  <2>3. TypeOK'
    BY <2>1, <2>2 DEF LockedInv, TypeOK, walletVars, orderVars
  <2>4. LockedUnlessSettled'
    BY <2>1 DEF LockedInv, LockedUnlessSettled, walletVars, orderVars
  <2>5. QED
    BY <2>3, <2>4 DEF LockedInv
<1>2. CASE Crash
  <2>1. TypeOK'
    BY <1>2 DEF Crash, Abandon, Ended, walletVars, LockedInv, TypeOK
  <2>2. LockedUnlessSettled'
    BY <1>2 DEF Crash, walletVars, LockedInv, LockedUnlessSettled
  <2>3. QED
    BY <2>1, <2>2 DEF LockedInv
<1>3. CASE UNCHANGED vars
  BY <1>3 DEF vars, walletVars, orderVars, transferVars, LockedInv, TypeOK, LockedUnlessSettled
<1>4. QED
  BY <1>1, <1>2, <1>3, OrdersLocked, MoveFundsLocked DEF Next, HealthyNext, TransferStep

\* Every variable stays in its range and no row ever breaks the table's
\* constraints, whatever is settled, transferred, failed or cut off.
THEOREM TypeCorrect == Spec => []TypeOK
<1>1. LockedInv => TypeOK
  BY DEF LockedInv
<1>2. QED
  BY InitLocked, StepLocked, InitQuoted, StepQuoted, <1>1, PTL DEF Spec

\* What limit orders have locked stays out of reach of any transfers and failures
\* unless a settlement wrote the row (updateBalance), for any users and amounts.
THEOREM LockedFundsAreKept == Spec => []LockedUnlessSettled
<1>1. LockedInv => LockedUnlessSettled
  BY DEF LockedInv
<1>2. LockedInv => TypeOK
  BY DEF LockedInv
<1>3. QED
  BY InitLocked, StepLocked, InitQuoted, StepQuoted, <1>1, <1>2, PTL DEF Spec
-----------------------------------------------------------------------------
(***************************************************************************)
(* The books.  A row whose writes all knew what they wrote over holds what *)
(* the settlements and transfers add up to.  A leg joins the sum when its   *)
(* UPDATE writes it and is written once, since an order never returns to a  *)
(* step it has passed; its terms are fixed by then, since a fill is only    *)
(* set while no leg is written.                                            *)
(***************************************************************************)
LegsInOrder == \A o \in Orders : call[o] = "updateUsd" => moved[o] = {"BTC"}

BooksInv == IInv /\ LockedInv /\ Quoted /\ LegsInOrder /\ OnlyStaleWritesLose

\* The orders whose leg on u's row of the asset is written.
Settled(u, asset) == {o \in Orders : ask[o].user = u /\ asset \in moved[o]}

LEMMA LegIsTrade ==
  ASSUME TypeOK, NEW o \in Orders, NEW asset \in Assets
  PROVE  Trade(o, asset) = Leg(o, asset) /\ Trade(o, asset) \in Int
<1>1. ask[o].quantity \in Int /\ fill[o] \in Int
  <2>1. ask[o] \in Request /\ fill[o] \in Nat
    BY DEF TypeOK
  <2>2. ask[o].quantity \in Quantities
    BY <2>1 DEF Request
  <2>3. Quantities \subseteq Int
    BY OrderAssumption
  <2>4. fill[o] \in Int
    BY <2>1
  <2>5. QED
    BY <2>2, <2>3, <2>4
<1>2. ask[o].quantity * fill[o] = fill[o] * ask[o].quantity
  BY <1>1
<1>3. Trade(o, asset) = Leg(o, asset)
  BY <1>2 DEF Trade, Bought, Leg
<1>4. QED
  BY <1>3, LegIsANumber

LEMMA ShareIsANumber ==
  ASSUME TypeOK, NEW t \in Transfers, NEW u
  PROVE  Share(t, u) \in Int
<1>1. wire[t].amount \in Quantities /\ Quantities \subseteq Int
  BY OrderAssumption DEF TypeOK, Wire
<1>2. wire[t].amount \in Int
  BY <1>1
<1>3. QED
  BY <1>2 DEF Share

\* Both sums are numbers.
LEMMA BooksAreNumbers ==
  ASSUME TypeOK, NEW u \in Users, NEW asset \in Assets
  PROVE  LegsOf(u, asset) \in Int /\ Received(u, asset) \in Int
<1> DEFINE legs == [o \in Settled(u, asset) |-> Trade(o, asset)]
           shares == [t \in paid |-> Share(t, u)]
<1>1. IsFiniteSet(Settled(u, asset)) /\ IsFiniteSet(paid)
  BY OrderAssumption, FS_Subset DEF Settled, TypeOK
<1>2. \A o \in Settled(u, asset) : legs[o] \in Int
  BY LegIsTrade DEF Settled
<1>3. \A t \in paid : shares[t] \in Int
  BY ShareIsANumber DEF TypeOK
<1>4. DOMAIN legs = Settled(u, asset) /\ DOMAIN shares = paid
  OBVIOUS
<1>5. LegsOf(u, asset) = SumFunction(legs)
      /\ Received(u, asset) = IF asset = "BTC" THEN SumFunction(shares) ELSE 0
  BY DEF LegsOf, Received, Settled
<1> HIDE DEF legs, shares
<1>6. SumFunction(legs) \in Int
  BY <1>1, <1>2, <1>4, SumIsInteger
<1>7. SumFunction(shares) \in Int
  BY <1>1, <1>3, <1>4, SumIsInteger
<1>8. QED
  BY <1>5, <1>6, <1>7

\* A step that writes no leg on the row leaves the sum of its legs alone.
LEMMA SameLegs ==
  ASSUME UNCHANGED ask, NEW u, NEW asset,
         \A o \in Orders : ask[o].user = u => (asset \in moved'[o] <=> asset \in moved[o]),
         \A o \in Orders : asset \in moved[o] => fill'[o] = fill[o]
  PROVE  LegsOf(u, asset)' = LegsOf(u, asset)
<1>1. Settled(u, asset)' = Settled(u, asset)
  BY DEF Settled
<1>2. \A o \in Settled(u, asset) : Trade(o, asset)' = Trade(o, asset)
  BY DEF Settled, Trade, Bought
<1>3. [o \in Settled(u, asset)' |-> Trade(o, asset)'] = [o \in Settled(u, asset) |-> Trade(o, asset)]
  BY <1>1, <1>2
<1>4. QED
  BY <1>3 DEF LegsOf, Settled

\* A step that moves no funds leaves the sum of the transfers alone.
LEMMA SameShares ==
  ASSUME UNCHANGED <<wire, paid>>, NEW u, NEW asset
  PROVE  Received(u, asset)' = Received(u, asset)
BY DEF Received, Share

\* A leg that is written joins the sum of its row.
LEMMA LegJoins ==
  ASSUME TypeOK, NEW o \in Orders, NEW asset \in Assets, asset \notin moved[o],
         moved' = [moved EXCEPT ![o] = @ \cup {asset}],
         UNCHANGED <<ask, fill>>
  PROVE  LegsOf(ask[o].user, asset)' = LegsOf(ask[o].user, asset) + Leg(o, asset)
<1> DEFINE u == ask[o].user
           S == Settled(u, asset)
           before == [p \in S |-> Trade(p, asset)]
           after == [p \in S' |-> Trade(p, asset)']
<1>1. o \notin S /\ S' = S \cup {o} /\ IsFiniteSet(S)
  <2>1. S \subseteq Orders /\ o \notin S
    BY DEF Settled
  <2>2. S' = S \cup {o}
    BY DEF Settled, TypeOK
  <2>3. QED
    BY <2>1, <2>2, OrderAssumption, FS_Subset
<1>2. \A p \in Orders : Trade(p, asset)' = Trade(p, asset)
  BY DEF Trade, Bought
<1>3. \A p \in S : before[p] \in Int /\ after[p] = before[p]
  BY <1>1, <1>2, LegIsTrade DEF Settled
<1>4. after[o] = Leg(o, asset) /\ after[o] \in Int
  BY <1>1, <1>2, LegIsTrade
<1>5. DOMAIN before = S /\ DOMAIN after = S \cup {o}
  BY <1>1
<1>6. LegsOf(u, asset) = SumFunction(before) /\ LegsOf(u, asset)' = SumFunction(after)
  BY DEF LegsOf, Settled
<1> HIDE DEF before, after, S
<1>7. SumFunction(after) = SumFunction(before) + after[o]
  BY <1>1, <1>3, <1>4, <1>5, SumExtended, Z3
<1>8. QED
  BY <1>4, <1>6, <1>7

\* A transfer whose funds move joins the sum of every user's BTC.
LEMMA TransferJoins ==
  ASSUME TypeOK, NEW t \in Transfers, t \notin paid, paid' = paid \cup {t}, UNCHANGED wire,
         NEW u \in Users
  PROVE  Received(u, "BTC")' = Received(u, "BTC") + Share(t, u)
<1> DEFINE before == [x \in paid |-> Share(x, u)]
           after == [x \in paid' |-> Share(x, u)']
<1>1. IsFiniteSet(paid)
  BY OrderAssumption, FS_Subset DEF TypeOK
<1>2. \A x \in Transfers : Share(x, u)' = Share(x, u)
  BY DEF Share
<1>3. \A x \in paid : before[x] \in Int /\ after[x] = before[x]
  BY <1>2, ShareIsANumber DEF TypeOK
<1>4. after[t] = Share(t, u) /\ after[t] \in Int
  BY <1>2, ShareIsANumber
<1>5. DOMAIN before = paid /\ DOMAIN after = paid \cup {t}
  OBVIOUS
<1>6. Received(u, "BTC") = SumFunction(before) /\ Received(u, "BTC")' = SumFunction(after)
  BY DEF Received
<1> HIDE DEF before, after
<1>7. SumFunction(after) = SumFunction(before) + after[t]
  BY <1>1, <1>3, <1>4, <1>5, SumExtended, Z3
<1>8. QED
  BY <1>4, <1>6, <1>7

LEMMA InitBooks == Init => BooksInv
<1> SUFFICES ASSUME Init PROVE LegsInOrder /\ OnlyStaleWritesLose
  BY InitIInv, InitLocked, InitQuoted DEF BooksInv
<1>1. LegsInOrder
  BY DEF Init, LegsInOrder
<1>2. ASSUME NEW u \in Users, NEW a \in Assets PROVE wallets[u][a].balance = Expected(u, a)
  <2>1. Settled(u, a) = {} /\ paid = {}
    BY DEF Init, Settled
  <2>2. LegsOf(u, a) = 0
    <3> DEFINE legs == [o \in Settled(u, a) |-> Trade(o, a)]
    <3>1. LegsOf(u, a) = SumFunction(legs) /\ DOMAIN legs = {}
      BY <2>1 DEF LegsOf, Settled
    <3> HIDE DEF legs
    <3>2. QED
      BY <3>1, SumOfNone DEF SumFunction
  <2>3. Received(u, a) = 0
    <3> DEFINE shares == [t \in paid |-> Share(t, u)]
    <3>1. DOMAIN shares = {} /\ Received(u, a) = IF a = "BTC" THEN SumFunction(shares) ELSE 0
      BY <2>1 DEF Received
    <3> HIDE DEF shares
    <3>2. QED
      BY <3>1, SumOfNone DEF SumFunction
  <2>4. Opening[u][a].balance \in Int
    BY OrderAssumption DEF Row
  <2>5. QED
    BY <2>2, <2>3, <2>4 DEF Init, Expected
<1>3. QED
  BY <1>1, <1>2 DEF OnlyStaleWritesLose

\* Steps that write no row and no leg.
LEMMA SameBooks ==
  ASSUME BooksInv, UNCHANGED <<walletVars, ask, wire>>,
         \A o \in Orders : moved[o] # {} => fill'[o] = fill[o]
  PROVE  OnlyStaleWritesLose'
<1> USE DEF walletVars
<1> SUFFICES ASSUME NEW u \in Users, NEW a \in Assets, <<u, a>> \notin lost
             PROVE  wallets[u][a].balance = Expected(u, a)'
  BY DEF OnlyStaleWritesLose
<1>1. LegsOf(u, a)' = LegsOf(u, a)
  BY SameLegs
<1>2. Received(u, a)' = Received(u, a)
  BY SameShares
<1>3. wallets[u][a].balance = Expected(u, a)
  BY DEF BooksInv, OnlyStaleWritesLose
<1>4. QED
  BY <1>1, <1>2, <1>3 DEF Expected
\* A settlement's UPDATE.  When nothing changed its row since the read, the
\* balance grows by the leg; otherwise the row joins the lost ones.
LEMMA UpdateBalanceBooks ==
  ASSUME BooksInv, NEW o \in Orders, NEW asset \in Assets, NEW next, asset \notin moved[o],
         UpdateBalance(o, asset, next), UNCHANGED <<ask, fill, wire>>
  PROVE  OnlyStaleWritesLose'
<1> DEFINE u == ask[o].user
           n == seen[o][asset] + Leg(o, asset)
           row == Overwritten(wallets[u][asset], n)
           buried == wallets[u][asset].balance # seen[o][asset]
<1>1. CASE UNCHANGED walletVars
  BY <1>1, SameBooks
<1>2. CASE /\ wallets' = [wallets EXCEPT ![u][asset] = row]
           /\ moved' = [moved EXCEPT ![o] = @ \cup {asset}]
           /\ UNCHANGED paid
           /\ lost' = lost \cup (IF buried THEN {<<u, asset>>} ELSE {})
  <2> SUFFICES ASSUME NEW v \in Users, NEW a \in Assets, <<v, a>> \notin lost'
               PROVE  wallets'[v][a].balance = Expected(v, a)'
    BY DEF OnlyStaleWritesLose
  <2>1. u \in Users /\ TypeOK
    BY DEF BooksInv, LockedInv, TypeOK, Request
  <2>2. wallets[v][a].balance = Opening[v][a].balance + LegsOf(v, a) + Received(v, a)
    BY <1>2 DEF BooksInv, OnlyStaleWritesLose, Expected
  <2>3. Received(v, a)' = Received(v, a)
    BY <1>2, SameShares
  <2>4. CASE v = u /\ a = asset
    <3>1. wallets[u][asset].balance = seen[o][asset]
      BY <1>2, <2>4
    <3>2. wallets'[u][asset].balance = seen[o][asset] + Leg(o, asset)
      BY <1>2, <2>1 DEF Overwritten, RowOf, TypeOK
    <3>3. LegsOf(u, asset)' = LegsOf(u, asset) + Leg(o, asset)
      BY <1>2, <2>1, LegJoins
    <3>4. /\ LegsOf(u, asset) \in Int /\ Received(u, asset) \in Int
          /\ Leg(o, asset) \in Int /\ Opening[u][asset].balance \in Int
      BY <2>1, BooksAreNumbers, LegIsANumber, OrderAssumption DEF Row
    <3>5. wallets'[u][asset].balance
            = Opening[u][asset].balance + LegsOf(u, asset)' + Received(u, asset)
      BY <2>2, <2>4, <3>1, <3>2, <3>3, <3>4
    <3>6. QED
      BY <2>3, <2>4, <3>5 DEF Expected
  <2>5. CASE ~(v = u /\ a = asset)
    <3>1. wallets'[v][a] = wallets[v][a]
      BY <1>2, <2>1, <2>5 DEF TypeOK
    <3>2. \A p \in Orders : ask[p].user = v => (a \in moved'[p] <=> a \in moved[p])
      BY <1>2, <2>1, <2>5 DEF TypeOK
    <3>3. LegsOf(v, a)' = LegsOf(v, a)
      BY <3>2, SameLegs
    <3>4. QED
      BY <2>2, <2>3, <3>1, <3>3 DEF Expected
  <2>6. QED
    BY <2>4, <2>5
<1>3. QED
  BY <1>1, <1>2 DEF UpdateBalance

\* What a transfer that moves funds does to the balances.
LEMMA MovedFunds ==
  ASSUME TypeOK, NEW t \in Transfers, NEW u \in Users, NEW a \in Assets,
         wallets' = [[wallets EXCEPT ![wire[t].from]["BTC"] = Debited(@, wire[t].amount)]
                       EXCEPT ![wire[t].to]["BTC"] = Credited(@, wire[t].amount)]
  PROVE  wallets'[u][a].balance =
           wallets[u][a].balance + (IF a = "BTC" THEN Share(t, u) ELSE 0)
<1> DEFINE from == wire[t].from  to == wire[t].to  n == wire[t].amount
           debited == [wallets EXCEPT ![from]["BTC"] = Debited(@, n)]
<1>1. from \in Users /\ to \in Users /\ n \in Int /\ "BTC" \in Assets
  <2>1. from \in Users /\ to \in Users /\ n \in Quantities
    BY DEF TypeOK, Wire
  <2>2. Quantities \subseteq Int
    BY OrderAssumption
  <2>3. QED
    BY <2>1, <2>2 DEF Assets
<1>2. /\ DOMAIN wallets = Users /\ wallets[u][a].balance \in Int
      /\ \A v \in Users : DOMAIN wallets[v] = Assets
  BY DEF TypeOK, Row
<1>3. /\ DOMAIN debited = Users /\ \A v \in Users : DOMAIN debited[v] = Assets
      /\ debited[u][a] = IF u = from /\ a = "BTC" THEN Debited(wallets[u][a], n) ELSE wallets[u][a]
  BY <1>1, <1>2
<1>4. wallets' = [debited EXCEPT ![to]["BTC"] = Credited(@, n)]
  OBVIOUS
<1> HIDE DEF debited
<1>5. wallets'[u][a] = IF u = to /\ a = "BTC" THEN Credited(debited[u][a], n) ELSE debited[u][a]
  BY <1>1, <1>3, <1>4
<1>6. /\ Debited(wallets[u][a], n).balance = wallets[u][a].balance - n
      /\ Credited(debited[u][a], n).balance = debited[u][a].balance + n
  BY DEF Debited, Credited, RowOf
<1>7. debited[u][a].balance = wallets[u][a].balance - (IF u = from /\ a = "BTC" THEN n ELSE 0)
  BY <1>1, <1>2, <1>3, <1>6
<1>8. wallets'[u][a].balance = debited[u][a].balance + (IF u = to /\ a = "BTC" THEN n ELSE 0)
  BY <1>1, <1>2, <1>5, <1>6, <1>7
<1>9. Share(t, u) = (IF to = u THEN n ELSE 0) - (IF from = u THEN n ELSE 0)
  BY DEF Share
<1>10. QED
  BY <1>1, <1>2, <1>7, <1>8, <1>9

LEMMA MoveFundsBooks ==
  ASSUME BooksInv, NEW t \in Transfers, MoveFunds(t)
  PROVE  OnlyStaleWritesLose'
<1>1. UNCHANGED <<moved, lost, ask, fill, wire>>
  BY DEF MoveFunds, orderVars
<1>2. CASE UNCHANGED <<wallets, paid>>
  BY <1>1, <1>2, SameBooks DEF walletVars
<1>3. CASE /\ wallets' = [[wallets EXCEPT ![wire[t].from]["BTC"] = Debited(@, wire[t].amount)]
                            EXCEPT ![wire[t].to]["BTC"] = Credited(@, wire[t].amount)]
           /\ paid' = paid \cup {t}
  <2>1. TypeOK /\ t \notin paid
    BY DEF MoveFunds, AdvanceT, BooksInv, LockedInv, IInv, TransferProgress
  <2> SUFFICES ASSUME NEW u \in Users, NEW a \in Assets, <<u, a>> \notin lost
               PROVE  wallets'[u][a].balance = Expected(u, a)'
    BY <1>1 DEF OnlyStaleWritesLose
  <2>2. wallets[u][a].balance = Opening[u][a].balance + LegsOf(u, a) + Received(u, a)
    BY DEF BooksInv, OnlyStaleWritesLose, Expected
  <2>3. LegsOf(u, a)' = LegsOf(u, a)
    BY <1>1, SameLegs
  <2>4. wallets'[u][a].balance =
          wallets[u][a].balance + (IF a = "BTC" THEN Share(t, u) ELSE 0)
    BY <1>3, <2>1, MovedFunds
  <2>5. Received(u, a)' = Received(u, a) + (IF a = "BTC" THEN Share(t, u) ELSE 0)
    <3>1. CASE a = "BTC"
      BY <1>1, <1>3, <2>1, <3>1, TransferJoins
    <3>2. CASE a # "BTC"
      BY <3>2 DEF Received
    <3>3. QED
      BY <3>1, <3>2
  <2>6. /\ LegsOf(u, a) \in Int /\ Received(u, a) \in Int
        /\ Share(t, u) \in Int /\ Opening[u][a].balance \in Int
    BY <2>1, BooksAreNumbers, ShareIsANumber, OrderAssumption DEF Row
  <2>7. wallets'[u][a].balance = Opening[u][a].balance + LegsOf(u, a) + Received(u, a)'
    BY <2>2, <2>4, <2>5, <2>6
  <2>8. QED
    BY <2>3, <2>7 DEF Expected
<1>4. QED
  BY <1>2, <1>3 DEF MoveFunds

\* A step of one order whose settlement is not past its first leg afterwards.
LEMMA OrdersInOrder ==
  ASSUME BooksInv, NEW o \in Orders, OrderStep(o) \/ QueryFails(o) \/ AnswerLost(o)
  PROVE  LegsInOrder'
<1>1. call[o] = "updateBtc" => moved[o] = {}
  BY DEF BooksInv, IInv, OrderProgress
<1>2. \A p \in Orders : p # o => call'[p] = call[p] /\ moved'[p] = moved[p]
  BY DEF OrderStep, CheckFunds, Publish, Filled, RpcFailed, ReadSummary,
         CreateOrderRecord, RecordFill, RecordRejection, QueryFails, AnswerLost, UpdateBtc, UpdateUsd,
         UpdateBalance, Advance, walletVars, BooksInv, IInv, ControlOK
<1>3. call'[o] = "updateUsd" => moved'[o] = {"BTC"}
  <2>1. CASE UpdateBtc(o)
    BY <1>1, <2>1 DEF UpdateBtc, UpdateBalance, BooksInv, IInv, ControlOK
  <2>2. ASSUME ~UpdateBtc(o) PROVE call'[o] # "updateUsd"
    BY <2>2 DEF OrderStep, CheckFunds, Publish, Filled, RpcFailed, ReadSummary,
         CreateOrderRecord, RecordFill, RecordRejection, QueryFails, AnswerLost,
         UpdateUsd, UpdateBalance, Advance, BooksInv, IInv, ControlOK
  <2>3. QED
    BY <2>1, <2>2
<1>4. QED
  BY <1>2, <1>3 DEF BooksInv, LegsInOrder

LEMMA OrdersBooks ==
  ASSUME BooksInv, NEW o \in Orders, OrderStep(o) \/ QueryFails(o) \/ AnswerLost(o)
  PROVE  OnlyStaleWritesLose'
<1> USE DEF transferVars
<1>1. CASE UpdateBtc(o)
  <2>1. "BTC" \notin moved[o] /\ "BTC" \in Assets
    BY <1>1 DEF UpdateBtc, BooksInv, IInv, OrderProgress, Assets
  <2>2. QED
    BY <1>1, <2>1, UpdateBalanceBooks DEF UpdateBtc
<1>2. CASE UpdateUsd(o)
  <2>1. "USD" \notin moved[o] /\ "USD" \in Assets
    BY <1>2 DEF UpdateUsd, BooksInv, LegsInOrder, Assets
  <2>2. QED
    BY <1>2, <2>1, UpdateBalanceBooks DEF UpdateUsd
<1>3. ASSUME AnswerLost(o), NEW asset \in Assets, UpdateBalance(o, asset, "rejecting"),
             asset \notin moved[o]
      PROVE  OnlyStaleWritesLose'
  BY <1>3, UpdateBalanceBooks DEF AnswerLost
<1>4. ASSUME AnswerLost(o), ~UNCHANGED walletVars PROVE OnlyStaleWritesLose'
  <2>1. CASE call[o] = "updateBtc" /\ UpdateBalance(o, "BTC", "rejecting")
    <3>1. "BTC" \notin moved[o] /\ "BTC" \in Assets
      BY <2>1 DEF BooksInv, IInv, OrderProgress, Assets
    <3>2. QED
      BY <1>3, <1>4, <2>1, <3>1
  <2>2. CASE call[o] = "updateUsd" /\ UpdateBalance(o, "USD", "rejecting")
    <3>1. "USD" \notin moved[o] /\ "USD" \in Assets
      BY <2>2 DEF BooksInv, LegsInOrder, Assets
    <3>2. QED
      BY <1>3, <1>4, <2>2, <3>1
  <2>3. QED
    BY <1>4, <2>1, <2>2 DEF AnswerLost
<1>5. ASSUME ~UpdateBtc(o), ~UpdateUsd(o), AnswerLost(o) => UNCHANGED walletVars
      PROVE  OnlyStaleWritesLose'
  <2>1. UNCHANGED <<walletVars, ask, wire>>
    BY <1>5 DEF OrderStep, CheckFunds, Publish, Filled, RpcFailed, ReadSummary,
                CreateOrderRecord, RecordFill, RecordRejection, QueryFails, AnswerLost
  <2>2. ASSUME NEW p \in Orders, moved[p] # {} PROVE fill'[p] = fill[p]
    <3>1. call[p] \notin {"new", "waiting"}
      BY <2>2 DEF BooksInv, IInv, OrderProgress
    <3>2. \/ UNCHANGED fill
          \/ /\ call[o] \in {"new", "waiting"}
             /\ \E price : fill' = [fill EXCEPT ![o] = price]
      BY <1>5 DEF OrderStep, CheckFunds, Publish, Filled, RpcFailed, ReadSummary,
                  CreateOrderRecord, RecordFill, RecordRejection, QueryFails, AnswerLost, Advance
    <3>3. QED
      BY <3>1, <3>2 DEF BooksInv, LockedInv, TypeOK
  <2>3. QED
    BY <2>1, <2>2, SameBooks
<1>6. QED
  BY <1>1, <1>2, <1>4, <1>5

LEMMA StepBooks == BooksInv /\ [Next]_vars => BooksInv'
<1> SUFFICES ASSUME BooksInv, [Next]_vars PROVE LegsInOrder' /\ OnlyStaleWritesLose'
  BY StepIInv, StepLocked, StepQuoted DEF BooksInv, LockedInv
<1>1. ASSUME NEW o \in Orders, OrderStep(o) \/ QueryFails(o) \/ AnswerLost(o)
      PROVE  LegsInOrder' /\ OnlyStaleWritesLose'
  BY <1>1, OrdersInOrder, OrdersBooks
<1>2. ASSUME NEW t \in Transfers, MoveFunds(t) PROVE LegsInOrder' /\ OnlyStaleWritesLose'
  BY <1>2, MoveFundsBooks DEF MoveFunds, orderVars, BooksInv, LegsInOrder
<1>3. ASSUME NEW t \in Transfers,
             CheckTransfer(t) \/ CreateTransfer(t) \/ UpdateTransfer(t) \/ TransferQueryFails(t)
      PROVE  LegsInOrder' /\ OnlyStaleWritesLose'
  <2>1. UNCHANGED <<walletVars, orderVars, wire>>
    BY <1>3 DEF CheckTransfer, CreateTransfer, UpdateTransfer, TransferQueryFails
  <2>2. QED
    BY <2>1, SameBooks DEF walletVars, orderVars, BooksInv, LegsInOrder
<1>4. CASE Crash
  <2>1. UNCHANGED <<walletVars, ask, wire, fill>>
    BY <1>4 DEF Crash
  <2>2. \A o \in Orders : call'[o] = "updateUsd" => call[o] = "updateUsd"
    BY <1>4 DEF Crash, Abandon, Ended
  <2>3. LegsInOrder'
    BY <2>1, <2>2 DEF walletVars, BooksInv, LegsInOrder
  <2>4. QED
    BY <2>1, <2>3, SameBooks
<1>5. CASE UNCHANGED vars
  BY <1>5, SameBooks DEF vars, walletVars, orderVars, transferVars, BooksInv, LegsInOrder
<1>6. QED
  BY <1>1, <1>2, <1>3, <1>4, <1>5 DEF Next, HealthyNext, TransferStep

(***************************************************************************)
(* For any number of concurrent orders and transfers, failing queries and   *)
(* crashes: a balance differs from what the settlements and transfers add   *)
(* up to only where a settlement wrote over a change made after it read the *)
(* row (updateUserWallet: getWalletSummary, then updateBalance twice).      *)
(***************************************************************************)
THEOREM BooksBalance == Spec => []OnlyStaleWritesLose
<1>1. BooksInv => OnlyStaleWritesLose
  BY DEF BooksInv
<1>2. QED
  BY InitBooks, StepBooks, <1>1, PTL DEF Spec
=============================================================================
