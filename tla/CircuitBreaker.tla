--------------------------- MODULE CircuitBreaker ---------------------------
(***************************************************************************)
(* The circuit breaker of server/lib/circuit-breaker.ts, as the RabbitMQ   *)
(* client uses it: several callers run execute() concurrently, each one    *)
(* suspended at the await of the protected function, so that the result of *)
(* a call is handled in whatever state the breaker has by then.            *)
(*                                                                         *)
(* Two counters are kept up to what the code compares them with.  The code *)
(* only asks whether failures has reached the threshold, and whether       *)
(* Date.now() - lastFailureTime has reached the timeout, so failures stops *)
(* at FailureThreshold and elapsed at OpenTimeout (options.timeout);       *)
(* lastFailureTime = null (treated as time 0) is elapsed = OpenTimeout.    *)
(***************************************************************************)
EXTENDS Naturals

CONSTANTS
  Callers,           \* concurrent users of the breaker
  FailureThreshold,  \* consecutive failures that open it
  SuccessThreshold,  \* successes in HALF_OPEN that close it
  OpenTimeout        \* clock ticks an open breaker waits for

ASSUME ThresholdsAssumption ==
  /\ FailureThreshold \in Nat \ {0}
  /\ SuccessThreshold \in Nat \ {0}
  /\ OpenTimeout \in Nat \ {0}

VARIABLES
  state,      \* CLOSED, OPEN or HALF_OPEN
  failures,   \* failures since the last success, up to FailureThreshold
  successes,  \* successes counted in the current HALF_OPEN period
  elapsed,    \* ticks since the last failure, up to OpenTimeout
  attempt,    \* per caller: idle, or the health of the service it called
  healthy     \* TRUE once the service has recovered for good

breaker == <<state, failures, successes, elapsed>>
breakerVars == <<state, failures, successes, elapsed, attempt, healthy>>

CircuitState == {"CLOSED", "OPEN", "HALF_OPEN"}

BreakerInit ==
  /\ state = "CLOSED"
  /\ failures = 0
  /\ successes = 0
  /\ elapsed = OpenTimeout
  /\ attempt = [c \in Callers |-> "idle"]
  /\ healthy = FALSE

UpTo(limit, n) == IF n < limit THEN n ELSE limit

(***************************************************************************)
(* execute(): an OPEN breaker whose timeout has passed turns HALF_OPEN and *)
(* lets the call through; an OPEN one whose timeout has not passed throws. *)
(***************************************************************************)
CanTry == state # "OPEN" \/ elapsed >= OpenTimeout

Execute(c) ==
  /\ attempt[c] = "idle"
  /\ CanTry
  /\ state' = IF state = "OPEN" THEN "HALF_OPEN" ELSE state
  /\ attempt' = [attempt EXCEPT ![c] = IF healthy THEN "well" ELSE "sick"]
  /\ UNCHANGED <<failures, successes, elapsed, healthy>>

\* Mutant: a call that is refused counts as a failure of the service.
FailFast_counted(c) ==
  /\ attempt[c] = "idle"
  /\ ~CanTry
  /\ elapsed' = 0
  /\ UNCHANGED <<state, failures, successes, attempt, healthy>>

FailFast(c) ==
  /\ attempt[c] = "idle"
  /\ ~CanTry
  /\ UNCHANGED breakerVars

TrialPassed == successes + 1 >= SuccessThreshold

\* The protected function resolved.
OnSuccess(c) ==
  /\ attempt[c] # "idle"
  /\ attempt' = [attempt EXCEPT ![c] = "idle"]
  /\ failures' = 0
  /\ IF state = "HALF_OPEN"
       THEN IF TrialPassed
              THEN state' = "CLOSED" /\ successes' = 0
              ELSE state' = state /\ successes' = successes + 1
       ELSE UNCHANGED <<state, successes>>
  /\ UNCHANGED <<elapsed, healthy>>

\* Mutant: reopening the breaker does not clear the trial's successes.
SuccessesAfterFailure_kept == successes

SuccessesAfterFailure == IF state = "HALF_OPEN" THEN 0 ELSE successes

\* The protected function rejected: only a call made before the service
\* recovered can.
OnFailure(c) ==
  /\ attempt[c] = "sick"
  /\ attempt' = [attempt EXCEPT ![c] = "idle"]
  /\ failures' = UpTo(FailureThreshold, failures + 1)
  /\ elapsed' = 0
  /\ state' = IF state = "HALF_OPEN" \/ failures + 1 >= FailureThreshold
                THEN "OPEN" ELSE state
  /\ successes' = SuccessesAfterFailure
  /\ UNCHANGED healthy

\* reset(), the manual override.
Reset ==
  /\ state' = "CLOSED"
  /\ failures' = 0
  /\ successes' = 0
  /\ elapsed' = OpenTimeout
  /\ UNCHANGED <<attempt, healthy>>

Tick ==
  /\ elapsed < OpenTimeout
  /\ elapsed' = elapsed + 1
  /\ UNCHANGED <<state, failures, successes, attempt, healthy>>

\* The environment: the protected service recovers and stays up.
Recover ==
  /\ ~healthy
  /\ healthy' = TRUE
  /\ UNCHANGED <<breaker, attempt>>

BreakerNext ==
  \/ \E c \in Callers : Execute(c) \/ FailFast(c) \/ OnSuccess(c) \/ OnFailure(c)
  \/ Reset
  \/ Tick
  \/ Recover

BreakerSpec == BreakerInit /\ [][BreakerNext]_breakerVars

(***************************************************************************)
(* Time passes, a call in flight ends (publishOrderAndWait always settles: *)
(* it arms a timer), and callers keep calling.  Nothing is assumed about   *)
(* Reset and Recover, which may never happen.                              *)
(***************************************************************************)
Fairness ==
  /\ WF_breakerVars(Tick)
  /\ \A c \in Callers : WF_breakerVars(Execute(c)) /\ WF_breakerVars(OnSuccess(c) \/ OnFailure(c))

FairBreakerSpec == BreakerSpec /\ Fairness

-----------------------------------------------------------------------------
BreakerTypeOK ==
  /\ state \in CircuitState
  /\ failures \in 0..FailureThreshold
  /\ successes \in 0..SuccessThreshold
  /\ elapsed \in 0..OpenTimeout
  /\ attempt \in [Callers -> {"idle", "sick", "well"}]
  /\ healthy \in BOOLEAN

(***************************************************************************)
(* The counters agree with the state although results of calls admitted in *)
(* one state are counted in another: a CLOSED breaker is always one more   *)
(* failure away from its threshold at least, a success count survives only *)
(* inside HALF_OPEN, and it never reaches the threshold without closing.   *)
(* (onSuccess and onFailure handle late results; circuit-breaker.ts.)      *)
(***************************************************************************)
CountersMatchState ==
  /\ state = "CLOSED" => failures < FailureThreshold
  /\ state # "HALF_OPEN" => successes = 0
  /\ successes < SuccessThreshold

(***************************************************************************)
(* A breaker never stays open on a service that is back: once the service  *)
(* has recovered, the breaker ends up CLOSED for good, whatever calls were *)
(* in flight and however many trials fail before (execute's OPEN to        *)
(* HALF_OPEN step is the only way back, nothing else re-arms it).          *)
(***************************************************************************)
Recovers == healthy ~> [](state = "CLOSED")
=============================================================================
