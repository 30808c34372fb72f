--------------------------- MODULE MatcherClient_proofs ---------------------------
(***************************************************************************)
(* For every set of calls and server instances and every bound on          *)
(* redelivery: the pending map and the timers hold exactly the waiting      *)
(* calls, answers come from runs of the matcher, and the request            *)
(* implements AnsweredOnce.  And for any callers and thresholds, the         *)
(* breaker's counters agree with its state.                                 *)
(***************************************************************************)
EXTENDS MatcherRpc, CircuitBreaker, TLAPS

\* PendingAreWaiting is what rules out a second end of a call; the other two
\* give the types and the runs behind the replies it is ended with.
Started == \A c \in Calls : order[c] \in {"matching", "replied"} => runs[c] >= 1

IInv == TypeOK /\ PendingAreWaiting /\ AnswersComeFromRuns /\ Started

LEMMA InitIInv == Init => IInv
<1> SUFFICES ASSUME Init PROVE IInv
  OBVIOUS
<1> USE DeliveryAssumption DEF Init
<1>1. TypeOK
  BY SMT DEF TypeOK, Links
<1>2. PendingAreWaiting
  BY SMT DEF PendingAreWaiting, CallsOf
<1>3. AnswersComeFromRuns
  BY SMT DEF AnswersComeFromRuns
<1>4. Started
  BY DEF Started
<1>5. QED
  BY <1>1, <1>2, <1>3, <1>4 DEF IInv

\* A call that starts to wait enters its instance's map and timers.
LEMMA PendingGrows ==
  ASSUME TypeOK, PendingAreWaiting, home' = home, NEW c \in Calls,
         call'[c] = "waiting", \A d \in Calls : d # c => call'[d] = call[d],
         pending'[home[c]] = pending[home[c]] \cup {c},
         timers'[home[c]] = timers[home[c]] \cup {c},
         \A j \in Instances : j # home[c] => pending'[j] = pending[j] /\ timers'[j] = timers[j]
  PROVE  PendingAreWaiting'
<1> SUFFICES ASSUME NEW i \in Instances
             PROVE  /\ pending'[i] = {d \in Calls : home[d] = i /\ call'[d] = "waiting"}
                    /\ timers'[i] = pending'[i]
  BY DEF PendingAreWaiting, CallsOf
<1>1. pending[i] = {d \in Calls : home[d] = i /\ call[d] = "waiting"} /\ timers[i] = pending[i]
  BY DEF PendingAreWaiting, CallsOf
<1>2. CASE i = home[c]
  BY <1>1, <1>2
<1>3. CASE i # home[c]
  <2>1. pending'[i] = pending[i] /\ timers'[i] = timers[i]
    BY <1>3
  <2>2. \A d \in Calls : home[d] = i => call'[d] = call[d]
    BY <1>3
  <2>3. {d \in Calls : home[d] = i /\ call'[d] = "waiting"}
        = {d \in Calls : home[d] = i /\ call[d] = "waiting"}
    BY <2>2
  <2>4. QED
    BY <1>1, <2>1, <2>3
<1>4. QED
  BY <1>2, <1>3

\* A call that ends leaves both.
LEMMA PendingShrinks ==
  ASSUME TypeOK, PendingAreWaiting, home' = home, NEW c \in Calls,
         call'[c] # "waiting", \A d \in Calls : d # c => call'[d] = call[d],
         pending'[home[c]] = pending[home[c]] \ {c},
         timers'[home[c]] = timers[home[c]] \ {c},
         \A j \in Instances : j # home[c] => pending'[j] = pending[j] /\ timers'[j] = timers[j]
  PROVE  PendingAreWaiting'
<1> SUFFICES ASSUME NEW i \in Instances
             PROVE  /\ pending'[i] = {d \in Calls : home[d] = i /\ call'[d] = "waiting"}
                    /\ timers'[i] = pending'[i]
  BY DEF PendingAreWaiting, CallsOf
<1>1. pending[i] = {d \in Calls : home[d] = i /\ call[d] = "waiting"} /\ timers[i] = pending[i]
  BY DEF PendingAreWaiting, CallsOf
<1>2. CASE i = home[c]
  BY <1>1, <1>2
<1>3. CASE i # home[c]
  <2>1. pending'[i] = pending[i] /\ timers'[i] = timers[i]
    BY <1>3
  <2>2. \A d \in Calls : home[d] = i => call'[d] = call[d]
    BY <1>3
  <2>3. {d \in Calls : home[d] = i /\ call'[d] = "waiting"}
        = {d \in Calls : home[d] = i /\ call[d] = "waiting"}
    BY <2>2
  <2>4. QED
    BY <1>1, <2>1, <2>3
<1>4. QED
  BY <1>2, <1>3

LEMMA StepIInv == IInv /\ [Next]_vars => IInv'
<1> SUFFICES ASSUME IInv, [Next]_vars PROVE IInv'
  OBVIOUS
<1> USE DeliveryAssumption DEF IInv, clientVars, brokerVars
<1>1. ASSUME NEW i \in Instances, Connect(i) PROVE IInv'
  <2>1. TypeOK'
    BY <1>1, SMT DEF TypeOK, Links, Connect
  <2>2. PendingAreWaiting'
    BY <1>1, SMT DEF TypeOK, PendingAreWaiting, CallsOf, Connect
  <2>3. AnswersComeFromRuns'
    BY <1>1, SMT DEF TypeOK, PendingAreWaiting, CallsOf, AnswersComeFromRuns, Connect, Up
  <2>4. Started'
    BY <1>1, SMT DEF TypeOK, Started, Connect
  <2>5. QED
    BY <2>1, <2>2, <2>3, <2>4
<1>2. ASSUME NEW i \in Instances, StartConsumer(i) PROVE IInv'
  <2>1. TypeOK'
    BY <1>2, SMT DEF TypeOK, Links, StartConsumer
  <2>2. PendingAreWaiting'
    BY <1>2, SMT DEF TypeOK, PendingAreWaiting, CallsOf, StartConsumer
  <2>3. AnswersComeFromRuns'
    BY <1>2, SMT DEF TypeOK, PendingAreWaiting, CallsOf, AnswersComeFromRuns, StartConsumer, Up
  <2>4. Started'
    BY <1>2, SMT DEF TypeOK, Started, StartConsumer
  <2>5. QED
    BY <2>1, <2>2, <2>3, <2>4
<1>3. ASSUME NEW i \in Instances, ConnectionLost(i) PROVE IInv'
  <2>1. TypeOK'
    BY <1>3, SMT DEF TypeOK, Links, ConnectionLost, Up, LoseQueue
  <2>2. PendingAreWaiting'
    BY <1>3, SMT DEF TypeOK, PendingAreWaiting, CallsOf, ConnectionLost, Up, LoseQueue
  <2>3. AnswersComeFromRuns'
    BY <1>3, SMT DEF TypeOK, PendingAreWaiting, CallsOf, AnswersComeFromRuns, ConnectionLost, Up, LoseQueue
  <2>4. Started'
    BY <1>3, SMT DEF TypeOK, Started, ConnectionLost, Up, LoseQueue
  <2>5. QED
    BY <2>1, <2>2, <2>3, <2>4
<1>4. ASSUME NEW i \in Instances, Disconnect(i) PROVE IInv'
  <2>1. TypeOK'
    BY <1>4, SMT DEF TypeOK, Links, Disconnect, LoseQueue
  <2>2. PendingAreWaiting'
    BY <1>4, SMT DEF TypeOK, PendingAreWaiting, CallsOf, Disconnect, LoseQueue
  <2>3. AnswersComeFromRuns'
    BY <1>4, SMT DEF TypeOK, PendingAreWaiting, CallsOf, AnswersComeFromRuns, Disconnect, LoseQueue, Up
  <2>4. Started'
    BY <1>4, SMT DEF TypeOK, Started, Disconnect, LoseQueue
  <2>5. QED
    BY <2>1, <2>2, <2>3, <2>4
<1>5. ASSUME NEW i \in Instances, Crash(i) PROVE IInv'
  <2>1. TypeOK'
    BY <1>5, SMT DEF TypeOK, Links, Crash, LoseQueue
  <2>2. PendingAreWaiting'
    BY <1>5, SMT DEF TypeOK, PendingAreWaiting, CallsOf, Crash, LoseQueue
  <2>3. AnswersComeFromRuns'
    BY <1>5, SMT DEF TypeOK, PendingAreWaiting, CallsOf, AnswersComeFromRuns, Crash, LoseQueue, Up
  <2>4. Started'
    BY <1>5, SMT DEF TypeOK, Started, Crash, LoseQueue
  <2>5. QED
    BY <2>1, <2>2, <2>3, <2>4
<1>6. ASSUME NEW c \in Calls, Publish(c) PROVE IInv'
  <2>1. TypeOK'
    BY <1>6, SMT DEF TypeOK, Links, Publish, Up
  <2>2. PendingAreWaiting'
    <3>1. /\ call'[c] = "waiting" /\ call[c] = "new"
          /\ \A d \in Calls : d # c => call'[d] = call[d]
      BY <1>6 DEF Publish, TypeOK
    <3>2. /\ pending'[home[c]] = pending[home[c]] \cup {c}
          /\ timers'[home[c]] = timers[home[c]] \cup {c}
          /\ \A j \in Instances : j # home[c] => pending'[j] = pending[j] /\ timers'[j] = timers[j]
      BY <1>6 DEF Publish, TypeOK
    <3>3. home' = home /\ c \in CallsOf(home[c])
      BY <1>6 DEF Publish, CallsOf
    <3>4. QED
      BY <3>1, <3>2, <3>3, PendingGrows DEF TypeOK
  <2>3. AnswersComeFromRuns'
    BY <1>6, SMT DEF TypeOK, PendingAreWaiting, CallsOf, AnswersComeFromRuns, Publish, Up
  <2>4. Started'
    BY <1>6, SMT DEF TypeOK, Started, Publish, Up
  <2>5. QED
    BY <2>1, <2>2, <2>3, <2>4
<1>7. ASSUME NEW c \in Calls, BufferFull(c) PROVE IInv'
  <2>1. TypeOK'
    BY <1>7, SMT DEF TypeOK, Links, BufferFull, Up
  <2>2. PendingAreWaiting'
    BY <1>7, SMT DEF TypeOK, PendingAreWaiting, CallsOf, BufferFull, Up
  <2>3. AnswersComeFromRuns'
    BY <1>7, SMT DEF TypeOK, PendingAreWaiting, CallsOf, AnswersComeFromRuns, BufferFull, Up
  <2>4. Started'
    BY <1>7, SMT DEF TypeOK, Started, BufferFull, Up
  <2>5. QED
    BY <2>1, <2>2, <2>3, <2>4
<1>8. ASSUME NEW c \in Calls, SendFails(c) PROVE IInv'
  <2>1. TypeOK'
    BY <1>8, SMT DEF TypeOK, Links, SendFails
  <2>2. PendingAreWaiting'
    BY <1>8, SMT DEF TypeOK, PendingAreWaiting, CallsOf, SendFails
  <2>3. AnswersComeFromRuns'
    BY <1>8, SMT DEF TypeOK, PendingAreWaiting, CallsOf, AnswersComeFromRuns, SendFails, Up
  <2>4. Started'
    BY <1>8, SMT DEF TypeOK, Started, SendFails
  <2>5. QED
    BY <2>1, <2>2, <2>3, <2>4
<1>9. ASSUME NEW c \in Calls, Timeout(c) PROVE IInv'
  <2>1. TypeOK'
    BY <1>9, SMT DEF TypeOK, Links, Timeout
  <2>2. PendingAreWaiting'
    <3>1. /\ call'[c] = "rejected"
          /\ \A d \in Calls : d # c => call'[d] = call[d]
      BY <1>9 DEF Timeout, TypeOK
    <3>2. /\ pending'[home[c]] = pending[home[c]] \ {c}
          /\ timers'[home[c]] = timers[home[c]] \ {c}
          /\ \A j \in Instances : j # home[c] => pending'[j] = pending[j] /\ timers'[j] = timers[j]
      BY <1>9 DEF Timeout, TypeOK
    <3>3. home' = home
      BY <1>9 DEF Timeout
    <3>4. QED
      BY <3>1, <3>2, <3>3, PendingShrinks DEF TypeOK
  <2>3. AnswersComeFromRuns'
    BY <1>9, SMT DEF TypeOK, PendingAreWaiting, CallsOf, AnswersComeFromRuns, Timeout, Up
  <2>4. Started'
    BY <1>9, SMT DEF TypeOK, Started, Timeout
  <2>5. QED
    BY <2>1, <2>2, <2>3, <2>4
<1>10. ASSUME NEW c \in Calls, OrderLost(c) PROVE IInv'
  <2>1. TypeOK'
    BY <1>10, SMT DEF TypeOK, Links, OrderLost
  <2>2. PendingAreWaiting'
    BY <1>10, SMT DEF TypeOK, PendingAreWaiting, CallsOf, OrderLost
  <2>3. AnswersComeFromRuns'
    BY <1>10, SMT DEF TypeOK, PendingAreWaiting, CallsOf, AnswersComeFromRuns, OrderLost, Up
  <2>4. Started'
    BY <1>10, SMT DEF TypeOK, Started, OrderLost
  <2>5. QED
    BY <2>1, <2>2, <2>3, <2>4
<1>11. ASSUME NEW c \in Calls, Deliver(c) PROVE IInv'
  <2>1. TypeOK'
    BY <1>11, SMT DEF TypeOK, Links, Deliver
  <2>2. PendingAreWaiting'
    BY <1>11, SMT DEF TypeOK, PendingAreWaiting, CallsOf, Deliver
  <2>3. AnswersComeFromRuns'
    BY <1>11, SMT DEF TypeOK, PendingAreWaiting, CallsOf, AnswersComeFromRuns, Deliver, Up
  <2>4. Started'
    BY <1>11, SMT DEF TypeOK, Started, Deliver
  <2>5. QED
    BY <2>1, <2>2, <2>3, <2>4
<1>12. ASSUME NEW c \in Calls, Reply(c) PROVE IInv'
  <2>1. TypeOK'
    <3>1. inbox' \in [Calls -> SUBSET (1..MaxDeliveries)]
      BY <1>12, SMT DEF Reply, TypeOK, Started
    <3>2. order' \in [Calls -> {"none", "queued", "matching", "replied", "acked", "dropped", "lost"}]
      BY <1>12 DEF Reply, TypeOK
    <3>3. QED
      BY <1>12, <3>1, <3>2 DEF Reply, TypeOK
  <2>2. PendingAreWaiting'
    BY <1>12, SMT DEF TypeOK, PendingAreWaiting, CallsOf, Reply, Up
  <2>3. AnswersComeFromRuns'
    BY <1>12, SMT DEF TypeOK, PendingAreWaiting, CallsOf, AnswersComeFromRuns, Reply, Up
  <2>4. Started'
    BY <1>12, SMT DEF TypeOK, Started, Reply, Up
  <2>5. QED
    BY <2>1, <2>2, <2>3, <2>4
<1>13. ASSUME NEW c \in Calls, AckOrder(c) PROVE IInv'
  <2>1. TypeOK'
    BY <1>13, SMT DEF TypeOK, Links, AckOrder
  <2>2. PendingAreWaiting'
    BY <1>13, SMT DEF TypeOK, PendingAreWaiting, CallsOf, AckOrder
  <2>3. AnswersComeFromRuns'
    BY <1>13, SMT DEF TypeOK, PendingAreWaiting, CallsOf, AnswersComeFromRuns, AckOrder, Up
  <2>4. Started'
    BY <1>13, SMT DEF TypeOK, Started, AckOrder
  <2>5. QED
    BY <2>1, <2>2, <2>3, <2>4
<1>14. ASSUME NEW c \in Calls, MatchingFails(c) PROVE IInv'
  <2>1. TypeOK'
    BY <1>14, SMT DEF TypeOK, Links, MatchingFails
  <2>2. PendingAreWaiting'
    BY <1>14, SMT DEF TypeOK, PendingAreWaiting, CallsOf, MatchingFails
  <2>3. AnswersComeFromRuns'
    BY <1>14, SMT DEF TypeOK, PendingAreWaiting, CallsOf, AnswersComeFromRuns, MatchingFails, Up
  <2>4. Started'
    BY <1>14, SMT DEF TypeOK, Started, MatchingFails
  <2>5. QED
    BY <2>1, <2>2, <2>3, <2>4
<1>15. ASSUME NEW c \in Calls, NEW n \in 1..MaxDeliveries, HandleReply(c, n) PROVE IInv'
  <2>1. TypeOK'
    BY <1>15, SMT DEF TypeOK, Links, HandleReply, Resolve
  <2>2. PendingAreWaiting'
    <3>1. CASE c \notin pending[home[c]]
      BY <1>15, <3>1 DEF HandleReply, PendingAreWaiting, CallsOf
    <3>2. CASE c \in pending[home[c]]
      <4>1. /\ call'[c] = "resolved"
            /\ \A d \in Calls : d # c => call'[d] = call[d]
        BY <1>15, <3>2 DEF HandleReply, Resolve, TypeOK
      <4>2. /\ pending'[home[c]] = pending[home[c]] \ {c}
            /\ timers'[home[c]] = timers[home[c]] \ {c}
            /\ \A j \in Instances : j # home[c] => pending'[j] = pending[j] /\ timers'[j] = timers[j]
        BY <1>15, <3>2 DEF HandleReply, Resolve, TypeOK
      <4>3. home' = home
        BY <1>15 DEF HandleReply, Resolve
      <4>4. QED
        BY <4>1, <4>2, <4>3, PendingShrinks DEF TypeOK
    <3>3. QED
      BY <3>1, <3>2
  <2>3. AnswersComeFromRuns'
    BY <1>15, SMT DEF TypeOK, PendingAreWaiting, CallsOf, AnswersComeFromRuns, HandleReply, Resolve, Up
  <2>4. Started'
    BY <1>15, SMT DEF TypeOK, Started, HandleReply, Resolve
  <2>5. QED
    BY <2>1, <2>2, <2>3, <2>4
<1>16. ASSUME MatcherCrash PROVE IInv'
  <2>1. TypeOK'
    BY <1>16, SMT DEF TypeOK, Links, MatcherCrash
  <2>2. PendingAreWaiting'
    BY <1>16, SMT DEF TypeOK, PendingAreWaiting, CallsOf, MatcherCrash
  <2>3. AnswersComeFromRuns'
    BY <1>16, SMT DEF TypeOK, PendingAreWaiting, CallsOf, AnswersComeFromRuns, MatcherCrash, Up
  <2>4. Started'
    BY <1>16, SMT DEF TypeOK, Started, MatcherCrash
  <2>5. QED
    BY <2>1, <2>2, <2>3, <2>4
<1>17. ASSUME UNCHANGED vars PROVE IInv'
  <2>1. TypeOK'
    BY <1>17, SMT DEF TypeOK, Links, vars
  <2>2. PendingAreWaiting'
    BY <1>17, SMT DEF TypeOK, PendingAreWaiting, CallsOf, vars
  <2>3. AnswersComeFromRuns'
    BY <1>17, SMT DEF TypeOK, PendingAreWaiting, CallsOf, AnswersComeFromRuns, vars, Up
  <2>4. Started'
    BY <1>17, SMT DEF TypeOK, Started, vars
  <2>5. QED
    BY <2>1, <2>2, <2>3, <2>4
<1>18. QED
  BY <1>1, <1>2, <1>3, <1>4, <1>5, <1>6, <1>7, <1>8, <1>9, <1>10, <1>11, <1>12, <1>13, <1>14, <1>15, <1>16, <1>17 DEF Next

\* Every variable stays in its range.
THEOREM TypeCorrect == Spec => []TypeOK
<1>1. IInv => TypeOK
  BY DEF IInv
<1>2. QED
  BY InitIInv, StepIInv, <1>1, PTL DEF Spec

(***************************************************************************)
(* pendingResponses and the armed timers are exactly the waiting calls of   *)
(* their instance, whatever the order of replies, timeouts, redeliveries    *)
(* and crashes (doPublishOrderAndWait, handleMessage).                      *)
(***************************************************************************)
THEOREM PendingCorrect == Spec => []PendingAreWaiting
<1>1. IInv => PendingAreWaiting
  BY DEF IInv
<1>2. QED
  BY InitIInv, StepIInv, <1>1, PTL DEF Spec

(***************************************************************************)
(* A caller is only ever given a price the matcher computed for its order,  *)
(* and reply queues hold such prices only.                                  *)
(***************************************************************************)
THEOREM AnswersCorrect == Spec => []AnswersComeFromRuns
<1>1. IInv => AnswersComeFromRuns
  BY DEF IInv
<1>2. QED
  BY InitIInv, StepIInv, <1>1, PTL DEF Spec

-----------------------------------------------------------------------------
\* Each step of the protocol is a step of AnsweredOnce or none at all: a reply
\* or a timer ends a call only while it waits.
LEMMA StepOnce == IInv /\ [Next]_vars => [Once!Next]_<<call, answer>>
<1> SUFFICES ASSUME IInv, [Next]_vars PROVE [Once!Next]_<<call, answer>>
  OBVIOUS
<1> USE DEF IInv, TypeOK, clientVars, brokerVars
<1>1. ASSUME NEW c \in Calls, Publish(c) PROVE Once!Ask(c)
  BY <1>1 DEF Publish, Once!Ask
<1>2. ASSUME NEW c \in Calls, BufferFull(c) \/ SendFails(c) PROVE Once!Fail(c)
  BY <1>2 DEF BufferFull, SendFails, Once!Fail
<1>3. ASSUME NEW c \in Calls, Timeout(c) PROVE Once!Fail(c)
  BY <1>3 DEF Timeout, PendingAreWaiting, Once!Fail
<1>4. ASSUME NEW c \in Calls, NEW n \in 1..MaxDeliveries, HandleReply(c, n)
      PROVE  Once!Answer(c, n) \/ UNCHANGED <<call, answer>>
  BY <1>4 DEF HandleReply, Resolve, PendingAreWaiting, CallsOf, Once!Answer
<1>5. ASSUME NEW i \in Instances, Crash(i)
      PROVE  \E calls \in SUBSET Calls : Once!Abandon(calls)
  <2> DEFINE abandoned == {c \in Calls : home[c] = i /\ call[c] \in {"new", "waiting"}}
  <2>1. abandoned \in SUBSET Calls
    OBVIOUS
  <2>2. Once!Abandon(abandoned)
    BY <1>5 DEF Crash, Once!Abandon
  <2>3. QED
    BY <2>1, <2>2
<1>6. ASSUME NEW i \in Instances,
             Connect(i) \/ StartConsumer(i) \/ ConnectionLost(i) \/ Disconnect(i)
      PROVE  UNCHANGED <<call, answer>>
  BY <1>6 DEF Connect, StartConsumer, ConnectionLost, Disconnect
<1>7. ASSUME NEW c \in Calls,
             OrderLost(c) \/ Deliver(c) \/ Reply(c) \/ AckOrder(c) \/ MatchingFails(c)
      PROVE  UNCHANGED <<call, answer>>
  BY <1>7 DEF OrderLost, Deliver, Reply, AckOrder, MatchingFails
<1>8. ASSUME MatcherCrash PROVE UNCHANGED <<call, answer>>
  BY <1>8 DEF MatcherCrash
<1>9. ASSUME UNCHANGED vars PROVE UNCHANGED <<call, answer>>
  BY <1>9 DEF vars
<1>10. QED
  BY <1>1, <1>2, <1>3, <1>4, <1>5, <1>6, <1>7, <1>8, <1>9 DEF Next, Once!Next

(***************************************************************************)
(* publishOrderAndWait answers each caller at most once and never takes an  *)
(* answer back, over timeouts, late and duplicate replies, broken           *)
(* connections and crashes of either side.                                  *)
(***************************************************************************)
THEOREM RequestsAreAnsweredOnce == Spec => ImplementsAnsweredOnce
<1>1. Init => Once!Init
  BY DEF Init, Once!Init
<1>2. QED
  BY InitIInv, StepIInv, StepOnce, <1>1, PTL DEF Spec, ImplementsAnsweredOnce, Once!Spec
-----------------------------------------------------------------------------
(***************************************************************************)
(* The breaker around the request: for every set of callers, every pair of  *)
(* thresholds and every timeout, its counters stay in their ranges and      *)
(* agree with its state.                                                   *)
(***************************************************************************)

\* The conjunction is inductive: each half uses the other's ranges.
BreakerInv == BreakerTypeOK /\ CountersMatchState

LEMMA InitBreakerInv == BreakerInit => BreakerInv
<1> SUFFICES ASSUME BreakerInit PROVE BreakerInv
  OBVIOUS
<1> USE ThresholdsAssumption DEF BreakerInit
<1>1. state \in CircuitState /\ healthy \in BOOLEAN
  BY DEF CircuitState
<1>2. /\ failures \in 0..FailureThreshold
      /\ successes \in 0..SuccessThreshold
      /\ elapsed \in 0..OpenTimeout
  BY SMT
<1>3. attempt \in [Callers -> {"idle", "sick", "well"}]
  OBVIOUS
<1>4. CountersMatchState
  BY SMT DEF CountersMatchState
<1>5. QED
  BY <1>1, <1>2, <1>3, <1>4 DEF BreakerInv, BreakerTypeOK

LEMMA StepBreakerInv == BreakerInv /\ [BreakerNext]_breakerVars => BreakerInv'
<1> SUFFICES ASSUME BreakerInv, [BreakerNext]_breakerVars PROVE BreakerInv'
  OBVIOUS
<1> USE ThresholdsAssumption DEF BreakerInv, BreakerTypeOK, CountersMatchState, CircuitState
<1>1. ASSUME NEW c \in Callers, Execute(c) PROVE BreakerInv'
  BY <1>1, SMT DEF Execute, CanTry
<1>2. ASSUME NEW c \in Callers, FailFast(c) PROVE BreakerInv'
  BY <1>2, SMT DEF FailFast, breakerVars
<1>3. ASSUME NEW c \in Callers, OnSuccess(c) PROVE BreakerInv'
  <2>1. CASE state = "HALF_OPEN" /\ TrialPassed
    BY <1>3, <2>1, SMT DEF OnSuccess, TrialPassed
  <2>2. CASE state = "HALF_OPEN" /\ ~TrialPassed
    BY <1>3, <2>2, SMT DEF OnSuccess, TrialPassed
  <2>3. CASE state # "HALF_OPEN"
    BY <1>3, <2>3, SMT DEF OnSuccess, TrialPassed
  <2>4. QED
    BY <2>1, <2>2, <2>3
<1>4. ASSUME NEW c \in Callers, OnFailure(c) PROVE BreakerInv'
  BY <1>4, SMT DEF OnFailure, UpTo, SuccessesAfterFailure
<1>5. ASSUME Reset PROVE BreakerInv'
  BY <1>5, SMT DEF Reset
<1>6. ASSUME Tick PROVE BreakerInv'
  BY <1>6, SMT DEF Tick
<1>7. ASSUME Recover PROVE BreakerInv'
  BY <1>7, SMT DEF Recover, breaker
<1>8. ASSUME UNCHANGED breakerVars PROVE BreakerInv'
  BY <1>8, SMT DEF breakerVars
<1>9. QED
  BY <1>1, <1>2, <1>3, <1>4, <1>5, <1>6, <1>7, <1>8 DEF BreakerNext

\* Every variable of the breaker stays in its range.
THEOREM BreakerTypeCorrect == BreakerSpec => []BreakerTypeOK
<1>1. BreakerInv => BreakerTypeOK
  BY DEF BreakerInv
<1>2. QED
  BY InitBreakerInv, StepBreakerInv, <1>1, PTL DEF BreakerSpec

(***************************************************************************)
(* A CLOSED breaker has counted fewer failures than its threshold and      *)
(* successes are counted in HALF_OPEN only and below their threshold,      *)
(* whenever the results of concurrent calls arrive (onSuccess, onFailure). *)
(***************************************************************************)
THEOREM CountersCorrect == BreakerSpec => []CountersMatchState
<1>1. BreakerInv => CountersMatchState
  BY DEF BreakerInv
<1>2. QED
  BY InitBreakerInv, StepBreakerInv, <1>1, PTL DEF BreakerSpec
=============================================================================
