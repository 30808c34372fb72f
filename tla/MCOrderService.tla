---------------------------- MODULE MCOrderService ----------------------------
(* Instances of OrderService for TLC. *)
EXTENDS OrderService
CONSTANTS alice, bob, o1, o2, t1

\* One unit of BTC costs two of USD: a fill one above the price is more than
\* the opening balance can pay, and two orders are more than it can afford.
\* Another unit of BTC is locked by limit orders.
MCOpening ==
  [u \in Users |-> [a \in Assets |->
     IF a = "BTC" THEN FundsLocked(NewRow(2), 1) ELSE NewRow(2)]]

\* The users are interchangeable and so are the orders: alice sends, and of the
\* cases only those are left out where the sender places no order.
MCInit == Init /\ ask[o1].user = alice /\ wire[t1].from = alice
MCSpec == MCInit /\ [][Next]_vars /\ Progress
=============================================================================
