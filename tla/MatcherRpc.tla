------------------------------ MODULE MatcherRpc ------------------------------
(***************************************************************************)
(* The request to the order matcher: doPublishOrderAndWait and the response *)
(* consumer of server/services/rabbitmq-client.ts, run by several server    *)
(* instances, the broker between them, and the consumer of                  *)
(* payment-processor/index.ts.                                             *)
(*                                                                         *)
(* An instance is one process of the server: a restart is another instance *)
(* with a reply queue of its own.  A call is named by its correlation id.   *)
(* The price an order is filled at is drawn anew each time the matcher runs *)
(* it, so a reply is named by the run it comes from: 1, 2, ...             *)
(***************************************************************************)
EXTENDS Naturals, FiniteSets

CONSTANTS
  Calls,         \* correlation ids of publishOrderAndWait calls
  Instances,     \* server processes
  MaxDeliveries  \* bound: how often the broker delivers one order

ASSUME DeliveryAssumption == MaxDeliveries \in Nat

VARIABLES
  link,     \* per instance: what became of its connection to the broker
  home,     \* per call: the instance that makes it
  call,     \* per call: new, waiting, resolved, rejected or gone
  answer,   \* per call: the run it was resolved with, 0 before
  pending,  \* per instance: the keys of pendingResponses
  timers,   \* per instance: the calls whose timeout is armed
  order,    \* per call: where its message in the orders queue is
  runs,     \* per call: how often the matcher has started on it
  inbox     \* per call: its replies in the reply queue of its home

clientVars == <<call, answer, pending, timers>>
brokerVars == <<order, runs, inbox>>
vars == <<link, home, clientVars, brokerVars>>

Links == {"off", "connected", "consuming", "broken", "closed", "dead"}

Init ==
  /\ link = [i \in Instances |-> "off"]
  /\ home \in [Calls -> Instances]
  /\ call = [c \in Calls |-> "new"]
  /\ answer = [c \in Calls |-> 0]
  /\ pending = [i \in Instances |-> {}]
  /\ timers = [i \in Instances |-> {}]
  /\ order = [c \in Calls |-> "none"]
  /\ runs = [c \in Calls |-> 0]
  /\ inbox = [c \in Calls |-> {}]

\* The channel is open, so the exclusive reply queue exists.
Up(i) == link[i] \in {"connected", "consuming"}
CallsOf(i) == {c \in Calls : home[c] = i}

-----------------------------------------------------------------------------
(* The connection of an instance *)

Connect(i) ==
  /\ link[i] = "off"
  /\ link' = [link EXCEPT ![i] = "connected"]
  /\ UNCHANGED <<home, clientVars, brokerVars>>

StartConsumer(i) ==
  /\ link[i] = "connected"
  /\ link' = [link EXCEPT ![i] = "consuming"]
  /\ UNCHANGED <<home, clientVars, brokerVars>>

\* Mutant: the reply queue is a durable one.
LoseQueue_durable(i) == UNCHANGED inbox

\* An exclusive queue goes with the connection that declared it.
LoseQueue(i) == inbox' = [c \in Calls |-> IF home[c] = i THEN {} ELSE inbox[c]]

\* The broker closes the connection: the client does not notice.
ConnectionLost(i) ==
  /\ Up(i)
  /\ link' = [link EXCEPT ![i] = "broken"]
  /\ LoseQueue(i)
  /\ UNCHANGED <<home, clientVars, order, runs>>

Disconnect(i) ==
  /\ link[i] \in {"connected", "consuming", "broken"}
  /\ link' = [link EXCEPT ![i] = "closed"]
  /\ LoseQueue(i)
  /\ UNCHANGED <<home, clientVars, order, runs>>

\* The process dies, and what it had in memory with it.
Crash(i) ==
  /\ link[i] # "dead"
  /\ link' = [link EXCEPT ![i] = "dead"]
  /\ LoseQueue(i)
  /\ call' = [c \in Calls |-> IF home[c] = i /\ call[c] \in {"new", "waiting"}
                                THEN "gone" ELSE call[c]]
  /\ pending' = [pending EXCEPT ![i] = {}]
  /\ timers' = [timers EXCEPT ![i] = {}]
  /\ UNCHANGED <<home, answer, order, runs>>

-----------------------------------------------------------------------------
(* doPublishOrderAndWait *)

Publish(c) ==
  LET i == home[c]
  IN  /\ call[c] = "new" /\ Up(i)
      /\ call' = [call EXCEPT ![c] = "waiting"]
      /\ pending' = [pending EXCEPT ![i] = @ \cup {c}]
      /\ timers' = [timers EXCEPT ![i] = @ \cup {c}]
      /\ order' = [order EXCEPT ![c] = "queued"]
      /\ UNCHANGED <<link, home, answer, runs, inbox>>

\* sendToQueue returns false: the write buffer is full.  The message goes out
\* all the same; the entry and the timer are dropped and the caller is told
\* that sending failed.
BufferFull(c) ==
  /\ call[c] = "new" /\ Up(home[c])
  /\ call' = [call EXCEPT ![c] = "rejected"]
  /\ order' = [order EXCEPT ![c] = "queued"]
  /\ UNCHANGED <<link, home, answer, pending, timers, runs, inbox>>

\* There is no channel, or sendToQueue throws on one that is closed.
SendFails(c) ==
  /\ call[c] = "new" /\ link[home[c]] \in {"off", "broken", "closed"}
  /\ call' = [call EXCEPT ![c] = "rejected"]
  /\ UNCHANGED <<link, home, answer, pending, timers, brokerVars>>

\* Mutant: the timer removes the entry and forgets to reject.
Timeout_silent(c) ==
  LET i == home[c]
  IN  /\ c \in timers[i]
      /\ timers' = [timers EXCEPT ![i] = @ \ {c}]
      /\ pending' = [pending EXCEPT ![i] = @ \ {c}]
      /\ UNCHANGED <<link, home, call, answer, brokerVars>>

Timeout(c) ==
  LET i == home[c]
  IN  /\ c \in timers[i]
      /\ timers' = [timers EXCEPT ![i] = @ \ {c}]
      /\ pending' = [pending EXCEPT ![i] = @ \ {c}]
      /\ call' = [call EXCEPT ![c] = "rejected"]
      /\ UNCHANGED <<link, home, answer, brokerVars>>

\* Mutant: the callback does not clear the timeout.
Resolve_timer_kept(c, n) ==
  LET i == home[c]
  IN  /\ pending' = [pending EXCEPT ![i] = @ \ {c}]
      /\ call' = [call EXCEPT ![c] = "resolved"]
      /\ answer' = [answer EXCEPT ![c] = n]
      /\ UNCHANGED timers

\* What the callback stored in pendingResponses does.
Resolve(c, n) ==
  LET i == home[c]
  IN  /\ timers' = [timers EXCEPT ![i] = @ \ {c}]
      /\ pending' = [pending EXCEPT ![i] = @ \ {c}]
      /\ call' = [call EXCEPT ![c] = "resolved"]
      /\ answer' = [answer EXCEPT ![c] = n]

\* Mutant: a reply nobody waits for is not acknowledged.
HandleReply_unacked(c, n) ==
  /\ link[home[c]] = "consuming" /\ n \in inbox[c] /\ c \in pending[home[c]]
  /\ inbox' = [inbox EXCEPT ![c] = @ \ {n}]
  /\ Resolve(c, n)
  /\ UNCHANGED <<link, home, order, runs>>

\* Mutant: a reply is handed over whether or not its call is in the map.
HandleReply_unmatched(c, n) ==
  /\ link[home[c]] = "consuming" /\ n \in inbox[c]
  /\ inbox' = [inbox EXCEPT ![c] = @ \ {n}]
  /\ Resolve(c, n)
  /\ UNCHANGED <<link, home, order, runs>>

\* handleMessage: a reply whose call is not waiting any more is acknowledged
\* and goes nowhere.
HandleReply(c, n) ==
  /\ link[home[c]] = "consuming" /\ n \in inbox[c]
  /\ inbox' = [inbox EXCEPT ![c] = @ \ {n}]
  /\ IF c \in pending[home[c]] THEN Resolve(c, n) ELSE UNCHANGED clientVars
  /\ UNCHANGED <<link, home, order, runs>>

-----------------------------------------------------------------------------
(* The broker and the matcher *)

\* Publishing is not confirmed: a broker that restarts may not have the order.
OrderLost(c) ==
  /\ order[c] = "queued"
  /\ order' = [order EXCEPT ![c] = "lost"]
  /\ UNCHANGED <<link, home, clientVars, runs, inbox>>

\* There is no prefetch limit: the matcher works on any number of orders, each
\* for a random time.
Deliver(c) ==
  /\ order[c] = "queued" /\ runs[c] < MaxDeliveries
  /\ order' = [order EXCEPT ![c] = "matching"]
  /\ runs' = [runs EXCEPT ![c] = @ + 1]
  /\ UNCHANGED <<link, home, clientVars, inbox>>

\* The reply goes to replyTo, and nowhere when that queue is gone.
Reply(c) ==
  /\ order[c] = "matching"
  /\ order' = [order EXCEPT ![c] = "replied"]
  /\ inbox' = IF Up(home[c]) THEN [inbox EXCEPT ![c] = @ \cup {runs[c]}] ELSE inbox
  /\ UNCHANGED <<link, home, clientVars, runs>>

\* channel.ack(msg) reaches the broker.
AckOrder(c) ==
  /\ order[c] = "replied"
  /\ order' = [order EXCEPT ![c] = "acked"]
  /\ UNCHANGED <<link, home, clientVars, runs, inbox>>

\* The handler throws: nack without requeue, so the order is dropped.
MatchingFails(c) ==
  /\ order[c] = "matching"
  /\ order' = [order EXCEPT ![c] = "dropped"]
  /\ UNCHANGED <<link, home, clientVars, runs, inbox>>

\* The matcher dies: what it has not acknowledged is queued again.
MatcherCrash ==
  /\ \E c \in Calls : order[c] \in {"matching", "replied"}
  /\ order' = [c \in Calls |-> IF order[c] \in {"matching", "replied"}
                                 THEN "queued" ELSE order[c]]
  /\ UNCHANGED <<link, home, clientVars, runs, inbox>>

-----------------------------------------------------------------------------
Next ==
  \/ \E i \in Instances : \/ Connect(i) \/ StartConsumer(i)
                          \/ ConnectionLost(i) \/ Disconnect(i) \/ Crash(i)
  \/ \E c \in Calls : \/ Publish(c) \/ BufferFull(c) \/ SendFails(c) \/ Timeout(c)
                      \/ \E n \in 1..MaxDeliveries : HandleReply(c, n)
                      \/ OrderLost(c) \/ Deliver(c) \/ Reply(c)
                      \/ AckOrder(c) \/ MatchingFails(c)
  \/ MatcherCrash

Spec == Init /\ [][Next]_vars

\* Timers fire, the broker delivers replies to a consumer, and an instance that
\* connected goes on to start it.  Nothing is assumed of the matcher.
FairSpec ==
  /\ Spec
  /\ \A i \in Instances : WF_vars(Connect(i)) /\ WF_vars(StartConsumer(i))
  /\ \A c \in Calls : /\ WF_vars(Timeout(c))
                      /\ WF_vars(\E n \in 1..MaxDeliveries : HandleReply(c, n))

-----------------------------------------------------------------------------
(* Properties *)

TypeOK ==
  /\ link \in [Instances -> Links]
  /\ home \in [Calls -> Instances]
  /\ call \in [Calls -> {"new", "waiting", "resolved", "rejected", "gone"}]
  /\ answer \in [Calls -> 0..MaxDeliveries]
  /\ pending \in [Instances -> SUBSET Calls]
  /\ timers \in [Instances -> SUBSET Calls]
  /\ order \in [Calls -> {"none", "queued", "matching", "replied", "acked",
                          "dropped", "lost"}]
  /\ runs \in [Calls -> 0..MaxDeliveries]
  /\ inbox \in [Calls -> SUBSET (1..MaxDeliveries)]

\* The map and the timers of an instance hold exactly the calls of its own that
\* wait: no entry or armed timer outlives its call (a leak, or a second end of
\* the same promise), and no waiting call is without either (it would hang).
PendingAreWaiting ==
  \A i \in Instances :
    /\ pending[i] = {c \in CallsOf(i) : call[c] = "waiting"}
    /\ timers[i] = pending[i]

\* A reply queue holds only replies to orders its owner sent, each from a run
\* the matcher made, and a resolved call has the price of such a run, whatever
\* was redelivered, delayed or overtaken.
AnswersComeFromRuns ==
  \A c \in Calls :
    /\ \A n \in inbox[c] : n <= runs[c] /\ Up(home[c])
    /\ call[c] = "resolved" => answer[c] \in 1..runs[c]

\* Every call is answered at most once and its outcome never changes, however
\* late or often the matcher replies: the abstract specification of a call.
Once == INSTANCE AnsweredOnce
          WITH Calls <- Calls, MaxDeliveries <- MaxDeliveries,
               call <- call, answer <- answer
ImplementsAnsweredOnce == Once!Spec

\* A waiting call ends, whatever the broker and the matcher do.
EveryCallEnds == \A c \in Calls : call[c] = "waiting" ~> call[c] # "waiting"

\* Late and duplicate replies are consumed too: none stays in the reply queue of
\* an instance that has a consumer.
RepliesAreConsumed ==
  \A c \in Calls :
    (inbox[c] # {} /\ link[home[c]] = "consuming") ~> inbox[c] = {}
=============================================================================
