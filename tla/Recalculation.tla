------------------------------ MODULE Recalculation ------------------------------
(* The baseline calculator of one replica (server/monitor/baseline-calculator.ts),
   the two tables it merges its results into (server/monitor/history-store.ts) and
   the maintenance route that empties them (server/monitor/routes.ts).

   A calculation asks Jaeger, one service after the other, for the traces since
   the service's watermark, moves the watermark, and then merges what it gathered
   into time_baselines and span_baselines, one row at a time.  A baseline is a
   weighted average, so all that matters of it is how often each trace is counted
   in it.  A row stands for the spans of one service.                            *)
EXTENDS Integers, Sequences, FiniteSets

CONSTANTS
    Monitored,   \* MONITORED_SERVICES, a sequence
    Traces,
    At,          \* the start of a trace's latest span
    Of,          \* the services a trace has spans of
    Limit,       \* the most traces Jaeger is asked for at a time
    MaxRuns      \* bound: calculations started

Services == {Monitored[i] : i \in DOMAIN Monitored}

ASSUME TracesAssumption ==
    /\ At \in [Traces -> Nat \ {0}]
    /\ Of \in [Traces -> (SUBSET Services) \ {{}}]
ASSUME ServicesAssumption == Monitored \in Seq(STRING) /\ Monitored # <<>>
ASSUME RunsAssumption == MaxRuns \in Nat /\ Limit \in Nat \ {0}

VARIABLES
    jaeger,      \* traces Jaeger returns when asked
    watermark,   \* recalculation_state.last_trace_time of each service, 0 for none
    rows,        \* rows[table][service][trace]: how often the baseline counts it
    served,      \* timeBaselines in memory
    run,         \* the calculation in progress
    runs,        \* calculations started so far
    \* What happened, for the properties only:
    late,        \* traces Jaeger got after one that started later
    reads,       \* how often each trace was gathered since the tables were emptied
    seen,        \* seen[s]: traces a fetch for s returned since then
    cutOff,      \* cutOff[s]: traces such a fetch left out because of the limit
    misread,     \* services whose fetch failed after one of an earlier service succeeded
    dropped,     \* traces of a calculation that did not finish
    raced        \* the tables were emptied while a calculation was under way

vars == <<jaeger, watermark, rows, served, run, runs,
          late, reads, seen, cutOff, misread, dropped, raced>>
history == <<late, reads, seen, cutOff, misread, dropped, raced>>

Tables == {"time", "span"}
Weights == [Traces -> Nat]
Nothing == [t \in Traces |-> 0]
NoRows == [s \in Services |-> Nothing]
Idle == [pc |-> "idle"]

Added(f, g) == [t \in Traces |-> f[t] + g[t]]
Once(ts) == [t \in Traces |-> IF t \in ts THEN 1 ELSE 0]
Support(f) == {t \in Traces : f[t] > 0}

RecalculationInit ==
    /\ jaeger = {}
    /\ watermark = [s \in Services |-> 0]
    /\ rows = [tbl \in Tables |-> NoRows]
    /\ served = Nothing
    /\ run = Idle
    /\ runs = 0
    /\ late = {} /\ dropped = {} /\ misread = {}
    /\ reads = Nothing
    /\ seen = [s \in Services |-> {}] /\ cutOff = seen
    /\ raced = FALSE

(* A trace becomes visible in Jaeger, not necessarily in the order of its start. *)
Ingest(t) ==
    /\ t \notin jaeger
    /\ jaeger' = jaeger \cup {t}
    /\ late' = IF \E u \in jaeger : At[u] > At[t] THEN late \cup {t} ELSE late
    /\ UNCHANGED <<watermark, rows, served, run, runs, reads, seen, cutOff, misread, dropped, raced>>

(* recalculate: one calculation at a time, the others are answered at once. *)
MayCalculate == run = Idle

Recalculate(full) ==
    /\ MayCalculate
    /\ runs < MaxRuns
    /\ runs' = runs + 1
    /\ run' = [pc |-> IF full THEN "clear" ELSE "watermark", full |-> full,
               i |-> 1, from |-> 0, latest |-> 0, gathered |-> Nothing]
    /\ UNCHANGED <<jaeger, watermark, rows, served>> /\ UNCHANGED history

(* clearWatermarks; its error is only logged. *)
ClearWatermarks ==
    /\ run.pc = "clear"
    /\ \/ watermark' = [s \in Services |-> 0]
       \/ UNCHANGED watermark
    /\ run' = [run EXCEPT !.pc = "watermark"]
    /\ UNCHANGED <<jaeger, rows, served, runs>> /\ UNCHANGED history

(* getWatermark; an error reads as no watermark, and a full run does not ask. *)
GetWatermark ==
    /\ run.pc = "watermark"
    /\ \E w \in {watermark[Monitored[run.i]], 0} :
          /\ run.full => w = 0
          /\ run' = [run EXCEPT !.pc = "fetch", !.from = w]
    /\ UNCHANGED <<jaeger, watermark, rows, served, runs>> /\ UNCHANGED history

(* What Jaeger returns for start=from: the bound is inclusive. *)
\* Mutant: the start of the fetch is exclusive.
Since_exclusive(s, from) == {t \in jaeger : s \in Of[t] /\ At[t] > from}
Since(s, from) == {t \in jaeger : s \in Of[t] /\ At[t] >= from}

(* The running maximum of the loop over the traces. *)
IsLatest(n, ts, before) == n >= before /\ \A t \in ts : n >= At[t]

(* fetchHistoricalTraces and the loop over its traces, of which there are no more
   than the limit.  latestTraceTime is one variable for all the services.       *)
Answers(s, from) == {ts \in SUBSET Since(s, from) :
                        Cardinality(ts) = Limit \/ ts = Since(s, from)}

Fetch ==
    /\ run.pc = "fetch"
    /\ \E ts \in Answers(Monitored[run.i], run.from) :
       LET s == Monitored[run.i]
       IN  /\ Cardinality(ts) <= Limit
           /\ \E n \in {run.latest} \cup {At[t] : t \in ts} :
                 /\ IsLatest(n, ts, run.latest)
                 /\ run' = [run EXCEPT !.pc = "mark", !.latest = n,
                                       !.gathered = Added(run.gathered, Once(ts))]
           /\ seen' = [seen EXCEPT ![s] = @ \cup ts]
           /\ cutOff' = [cutOff EXCEPT ![s] = @ \cup (Since(s, run.from) \ ts)]
    /\ UNCHANGED <<jaeger, watermark, rows, served, runs, late, reads, misread, dropped, raced>>

(* Jaeger cannot be reached or refuses: no traces, and the run goes on. *)
FetchFails ==
    /\ run.pc = "fetch"
    /\ run' = [run EXCEPT !.pc = "mark"]
    /\ misread' = IF run.latest > 0 THEN misread \cup {Monitored[run.i]} ELSE misread
    /\ UNCHANGED <<jaeger, watermark, rows, served, runs, late, reads, seen, cutOff, dropped, raced>>

(* The end of the loop body: the next service, or what was gathered. *)
NextService ==
    IF run.i < Len(Monitored)
    THEN /\ run' = [run EXCEPT !.pc = "watermark", !.i = @ + 1]
         /\ UNCHANGED <<served, reads>>
    ELSE IF Support(run.gathered) = {}
    THEN run' = Idle /\ UNCHANGED <<served, reads>>
    ELSE /\ run' = [pc |-> "select", table |-> "time", gathered |-> run.gathered]
         /\ served' = run.gathered
         /\ reads' = Added(reads, run.gathered)

(* setWatermark, when any trace was seen yet; its error is only logged. *)
SetWatermark ==
    /\ run.pc = "mark"
    /\ \/ run.latest > 0 /\ watermark' = [watermark EXCEPT ![Monitored[run.i]] = run.latest]
       \/ UNCHANGED watermark
    /\ NextService
    /\ UNCHANGED <<jaeger, rows, runs, late, seen, cutOff, misread, dropped, raced>>

(* setTimeBaselines, then updateBaselines: the rows are read once, and each one is
   then updated from what was read, or inserted.                                 *)
Select ==
    /\ run.pc = "select"
    /\ run' = [pc |-> "merge", table |-> run.table, gathered |-> run.gathered,
               existing |-> rows[run.table],
               todo |-> UNION {Of[t] : t \in Support(run.gathered)}]
    /\ UNCHANGED <<jaeger, watermark, rows, served, runs>> /\ UNCHANGED history

(* The part of what was gathered that goes into the row of a service. *)
Share(s) == [t \in Traces |-> IF s \in Of[t] THEN run.gathered[t] ELSE 0]

\* Mutant: the stored baseline is replaced, not averaged with the new one.
Merged_replaced(s) == Share(s)
Merged(s) == Added(run.existing[s], Share(s))

(* UPDATE ... WHERE key finds no row that was deleted since; INSERT ... ON
   CONFLICT DO NOTHING leaves one that was inserted since.                       *)
Written(s) ==
    LET now == rows[run.table][s]
        known == Support(run.existing[s]) # {}
    IN  IF known = (Support(now) # {}) THEN Merged(s) ELSE now

Merge(s) ==
    /\ run.pc = "merge"
    /\ s \in run.todo
    /\ rows' = [rows EXCEPT ![run.table][s] = Written(s)]
    /\ run' = IF run.todo # {s} THEN [run EXCEPT !.todo = @ \ {s}]
              ELSE IF run.table = "time"
              THEN [pc |-> "select", table |-> "span", gathered |-> run.gathered]
              ELSE Idle
    /\ UNCHANGED <<jaeger, watermark, served, runs>> /\ UNCHANGED history

(* A query of the merge fails: recalculate answers the error.  Or the process dies
   at any point and starts again with an empty memory.  The rows already written
   and the watermarks stay.                                                      *)
Abandon ==
    /\ run' = Idle
    /\ dropped' = dropped \cup Support(run.gathered)
    /\ UNCHANGED <<jaeger, watermark, rows, runs, late, seen, cutOff, misread, raced>>

MergeFails == run.pc \in {"select", "merge"} /\ Abandon /\ UNCHANGED <<served, reads>>

Crash ==
    /\ run # Idle
    /\ Abandon
    /\ served' = Nothing
    /\ reads' = IF run.pc \in {"select", "merge"} THEN reads ELSE Added(reads, run.gathered)

(* DELETE /api/monitor/reset: both tables and the watermarks are truncated. *)
Reset ==
    /\ rows' = [tbl \in Tables |-> NoRows]
    /\ watermark' = [s \in Services |-> 0]
    /\ reads' = Nothing
    /\ seen' = [s \in Services |-> {}] /\ cutOff' = seen'
    /\ dropped' = {} /\ misread' = {}
    /\ raced' = (run # Idle)
    /\ UNCHANGED <<jaeger, served, run, runs, late>>

Next ==
    \/ \E t \in Traces : Ingest(t)
    \/ \E full \in BOOLEAN : Recalculate(full)
    \/ ClearWatermarks \/ GetWatermark
    \/ Fetch \/ FetchFails \/ SetWatermark
    \/ Select \/ (\E s \in Services : Merge(s)) \/ MergeFails
    \/ Crash
    \/ Reset

Spec == RecalculationInit /\ [][Next]_vars

--------------------------------------------------------------------------------
(* A calculation is collecting, or about to read a table, or merging into it
   (baseline-calculator.ts:293-476).                                             *)
CollectingRuns == [pc : {"clear", "watermark", "fetch", "mark"}, full : BOOLEAN,
                   i : DOMAIN Monitored, from : Nat, latest : Nat, gathered : Weights]
SelectingRuns == [pc : {"select"}, table : Tables, gathered : Weights]
MergingRuns == [pc : {"merge"}, table : Tables, gathered : Weights,
                existing : [Services -> Weights], todo : SUBSET Services]

TypeOK ==
    /\ rows \in [Tables -> [Services -> Weights]]
    /\ reads \in Weights /\ served \in Weights
    /\ watermark \in [Services -> Nat] /\ seen \in [Services -> SUBSET Traces]
    /\ cutOff \in [Services -> SUBSET Traces]
    /\ jaeger \subseteq Traces /\ late \subseteq Traces /\ dropped \subseteq Traces
    /\ misread \subseteq Services /\ raced \in BOOLEAN
    /\ runs \in Nat
    /\ run \in {Idle} \cup CollectingRuns \cup SelectingRuns \cup MergingRuns

(* An incremental run skips nothing: a trace that the next fetch of its service
   would no longer return was returned by one before.  The exceptions are the ones
   the code has: a trace that reached Jaeger after one that started later, a
   trace beyond the limit of 5000 a fetch asks for, a service whose fetch failed
   and that was given the watermark of the services before it, and tables emptied
   during a calculation
   (baseline-calculator.ts:329-352).                                             *)
NothingSkipped ==
    ~raced =>
        \A s \in Services \ misread :
            {t \in jaeger : s \in Of[t]} \subseteq
                Since(s, watermark[s]) \cup seen[s] \cup cutOff[s] \cup late

(* Between calculations both tables count a trace exactly as often as it was
   gathered, in the row of every service it has spans of: the additive merge of
   history-store.ts loses and doubles nothing.  A trace of a calculation that died
   or failed half way is the exception: its watermark has moved on.              *)
TablesCountWhatWasGathered ==
    run = Idle /\ ~raced =>
        \A tbl \in Tables, s \in Services, t \in Traces \ dropped :
            s \in Of[t] => rows[tbl][s][t] = reads[t]
================================================================================
