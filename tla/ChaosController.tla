----------------------------- MODULE ChaosController -----------------------------
(* The chaos controller (server/monitor/chaos-controller.ts), its middleware
   (server/middleware/chaos.ts) and the trace profiler whose baselines it freezes
   (server/monitor/trace-profiler.ts).

   A start stops whatever runs, so a start is one step.  Each start is numbered;
   an armed timer carries the number of the start that armed it.                *)
EXTENDS Integers, FiniteSets

CONSTANTS
    Phases,           \* the escalations after the first phase of a scenario
    MaxStarts,        \* bound: starts of a scenario or of custom chaos
    MaxCollections,   \* bound: collections under way at a time
    Fetches           \* Jaeger is asked once for each of MONITORED_SERVICES

ASSUME ChaosAssumption ==
    Phases \in Nat /\ MaxStarts \in Nat /\ MaxCollections \in Nat \ {0} /\ Fetches \in Nat \ {0}

VARIABLES
    chaos,        \* config: what runs, its number, its phase, whether its time is over
    handles,      \* the start whose timer phaseTimer and expiryTimer refer to, 0 for null
    armed,        \* the timers that will fire
    starts,       \* starts so far
    frozen,       \* the profiler's flag
    held,         \* a request waits for its injected delay
    recent,       \* the kinds of spans Jaeger has of the last hour
    collections,  \* collectAndUpdate calls under way
    baselines     \* the kinds of spans the baselines were computed from

controllerVars == <<chaos, handles, armed, starts, frozen>>
profilerVars == <<collections, baselines>>
chaosVars == <<controllerVars, held, recent, profilerVars>>

Kinds == {"normal", "slow"}
TimerTypes == {"phase", "expiry"}
Off == [runs |-> "nothing", number |-> 0, phase |-> 0, over |-> FALSE]
Enabled == chaos.runs # "nothing"

ChaosInit ==
    /\ chaos = Off
    /\ handles = [type \in TimerTypes |-> 0]
    /\ armed = {} /\ starts = 0 /\ frozen = FALSE
    /\ held = FALSE /\ recent = {}
    /\ collections = {} /\ baselines = {}

(* What stop() leaves of the timers and of the flag. *)
\* Mutant: only the phase timer is cleared.
Cleared_expiry_kept == armed \ {<<"phase", handles["phase"]>>}
Cleared == armed \ {<<type, handles[type]>> : type \in TimerTypes}
FrozenAfterStop == IF Enabled THEN FALSE ELSE frozen

Stops ==
    /\ chaos' = Off
    /\ handles' = [type \in TimerTypes |-> 0]
    /\ armed' = Cleared
    /\ frozen' = FrozenAfterStop
    /\ UNCHANGED starts

\* Mutant: a handle that is set is taken for a timer of this start.
Starts_timers_reused(what, types) ==
    /\ starts < MaxStarts
    /\ starts' = starts + 1
    /\ chaos' = [Off EXCEPT !.runs = what, !.number = starts']
    /\ handles' = [type \in TimerTypes |-> IF type \in types THEN starts' ELSE 0]
    /\ armed' = Cleared \cup {<<type, starts'>> : type \in {t \in types : handles[t] = 0}}

Starts(what, types) ==
    /\ starts < MaxStarts
    /\ starts' = starts + 1
    /\ chaos' = [Off EXCEPT !.runs = what, !.number = starts']
    /\ handles' = [type \in TimerTypes |-> IF type \in types THEN starts' ELSE 0]
    /\ armed' = Cleared \cup {<<type, starts'>> : type \in types}

(* startScenario, of a scenario with or without escalations, freezes the baselines. *)
StartScenario(escalates) ==
    /\ Starts("scenario", IF escalates THEN TimerTypes ELSE {"expiry"})
    /\ frozen' = TRUE
    /\ UNCHANGED <<held, recent, profilerVars>>

(* startCustom does not. *)
StartCustom ==
    /\ Starts("custom", {"expiry"})
    /\ frozen' = FrozenAfterStop
    /\ UNCHANGED <<held, recent, profilerVars>>

Stop == Stops /\ UNCHANGED <<held, recent, profilerVars>>

(* expiresAt passes. *)
TimePasses ==
    /\ Enabled /\ ~chaos.over
    /\ chaos' = [chaos EXCEPT !.over = TRUE]
    /\ UNCHANGED <<handles, armed, starts, frozen, held, recent, profilerVars>>

(* The timers; that of the running start does not fire before its time is over. *)
Expires(n) ==
    /\ <<"expiry", n>> \in armed
    /\ chaos.number = n => chaos.over
    /\ chaos' = Off
    /\ handles' = [type \in TimerTypes |-> 0]
    /\ armed' = Cleared \ {<<"expiry", n>>}
    /\ frozen' = FrozenAfterStop
    /\ UNCHANGED <<starts, held, recent, profilerVars>>

Escalates(n) ==
    /\ <<"phase", n>> \in armed
    /\ chaos.phase < Phases
    /\ chaos' = [chaos EXCEPT !.phase = @ + 1]
    /\ UNCHANGED <<handles, armed, starts, frozen, held, recent, profilerVars>>

(* A request: shouldAffect stops chaos that is over.  Otherwise, if the route is a
   target, the request may be refused, delayed or left alone.                    *)
Request ==
    \/ /\ Enabled /\ chaos.over
       /\ Stops
       /\ recent' = recent \cup {"normal"} /\ UNCHANGED <<held, profilerVars>>
    \/ /\ ~(Enabled /\ chaos.over)
       /\ recent' = recent \cup {"normal"}
       /\ UNCHANGED <<controllerVars, held, profilerVars>>
    \/ /\ Enabled /\ ~chaos.over
       /\ held' = TRUE
       /\ UNCHANGED <<controllerVars, recent, profilerVars>>

(* The delay is over, whatever has become of the scenario. *)
DelayEnds ==
    /\ held
    /\ held' = FALSE
    /\ recent' = recent \cup {"slow"}
    /\ UNCHANGED <<controllerVars, profilerVars>>

(* Spans leave the hour that collectAndUpdate looks back on. *)
SpansAge ==
    /\ \E kept \in SUBSET recent : recent' = kept
    /\ UNCHANGED <<controllerVars, held, profilerVars>>

(* collectAndUpdate, called at the start and every thirty seconds whether the last
   call has ended or not.  since is the number of starts when it looked at the flag. *)
\* Mutant: the flag is not looked at.
MayCollect_always == TRUE
MayCollect == ~frozen

Collect(c) ==
    /\ MayCollect
    /\ c \notin {d.id : d \in collections}
    /\ collections' = collections \cup
          {[id |-> c, since |-> starts, left |-> Fetches, spans |-> {}]}
    /\ UNCHANGED <<controllerVars, held, recent, baselines>>

FetchTraces(c) ==
    /\ c \in collections /\ c.left > 0
    /\ collections' = (collections \ {c}) \cup
          {[c EXCEPT !.left = @ - 1, !.spans = @ \cup recent]}
    /\ UNCHANGED <<controllerVars, held, recent, baselines>>

(* An answer that is not an array of traces ends the collection. *)
FetchUnusable(c) ==
    /\ c \in collections /\ c.left > 0
    /\ collections' = collections \ {c}
    /\ UNCHANGED <<controllerVars, held, recent, baselines>>

(* updateBaselines; operations without spans keep the baseline they have. *)
UpdateBaselines(c) ==
    /\ c \in collections /\ c.left = 0
    /\ collections' = collections \ {c}
    /\ baselines' = IF c.spans = {} THEN baselines ELSE c.spans
    /\ UNCHANGED <<controllerVars, held, recent>>

ChaosNext ==
    \/ \E escalates \in BOOLEAN : StartScenario(escalates)
    \/ StartCustom \/ Stop \/ TimePasses
    \/ \E n \in 1..MaxStarts : Expires(n) \/ Escalates(n)
    \/ Request \/ DelayEnds \/ SpansAge
    \/ \E c \in 1..MaxCollections : Collect(c)
    \/ \E c \in collections : FetchTraces(c) \/ FetchUnusable(c) \/ UpdateBaselines(c)

(* Time passes and Node's timers fire. *)
ChaosFairness ==
    /\ WF_chaosVars(TimePasses)
    /\ \A n \in 1..MaxStarts : WF_chaosVars(Expires(n))

ChaosSpec == ChaosInit /\ [][ChaosNext]_chaosVars /\ ChaosFairness

--------------------------------------------------------------------------------
(* The baselines are frozen exactly while a built-in scenario runs, and the timers
   that will fire are those of what runs now, whichever starts and stops overlap
   (chaos-controller.ts:160-293).                                                *)
FrozenWhileScenarioRuns ==
    /\ frozen = (chaos.runs = "scenario")
    /\ armed = {<<type, handles[type]>> : type \in {t \in TimerTypes : handles[t] # 0}}
    /\ \A type \in TimerTypes : handles[type] \in {0, chaos.number}
    /\ Enabled = (<<"expiry", chaos.number>> \in armed)

(* While the baselines are frozen, only a collection that looked at the flag before
   the scenario was started still changes them (trace-profiler.ts:36-45, 97-135). *)
OnlyStragglersChangeFrozen ==
    [][frozen /\ baselines' # baselines =>
          \E c \in collections : c.left = 0 /\ c.since < chaos.number]_chaosVars

(* No chaos outlives its duration (chaos-controller.ts:203-206, 246-249). *)
ChaosEnds == \A n \in 1..MaxStarts : chaos.number = n ~> chaos.number # n
================================================================================
