----------------------------- MODULE AnsweredOnce -----------------------------
(***************************************************************************)
(* What publishOrderAndWait promises: a call is answered at most once, with *)
(* one of the executions of its order, or it fails, and what the caller was *)
(* told never changes.  No queues, timers, matcher or connections here.    *)
(***************************************************************************)
EXTENDS Naturals

CONSTANTS Calls, MaxDeliveries

VARIABLES call, answer

Init ==
  /\ call = [c \in Calls |-> "new"]
  /\ answer = [c \in Calls |-> 0]

Ask(c) ==
  /\ call[c] = "new"
  /\ call' = [call EXCEPT ![c] = "waiting"]
  /\ UNCHANGED answer

Answer(c, n) ==
  /\ call[c] = "waiting"
  /\ call' = [call EXCEPT ![c] = "resolved"]
  /\ answer' = [answer EXCEPT ![c] = n]

Fail(c) ==
  /\ call[c] \in {"new", "waiting"}
  /\ call' = [call EXCEPT ![c] = "rejected"]
  /\ UNCHANGED answer

\* The process that made these calls died.
Abandon(calls) ==
  /\ \A c \in calls : call[c] \in {"new", "waiting"}
  /\ call' = [c \in Calls |-> IF c \in calls THEN "gone" ELSE call[c]]
  /\ UNCHANGED answer

Next ==
  \/ \E c \in Calls : Ask(c) \/ Fail(c) \/ \E n \in 1..MaxDeliveries : Answer(c, n)
  \/ \E calls \in SUBSET Calls : Abandon(calls)

Spec == Init /\ [][Next]_<<call, answer>>
=============================================================================
