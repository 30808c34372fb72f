--------------------------- MODULE Monitor_proofs ---------------------------
(***************************************************************************)
(* Three parts of the monitor.  Recalculation: for any services, traces and *)
(* number of calculations, the tables count what was gathered, and no trace *)
(* is skipped but for the reasons the code has.  ChaosController: however   *)
(* starts, stops and timers interleave, the baselines are frozen exactly    *)
(* while a scenario runs.  Analysis: a page that is connected and has       *)
(* missed nothing shows what the analyzer does.                             *)
(***************************************************************************)
EXTENDS Recalculation, ChaosController, Analysis, TLAPS

(* The row of a service still lacks what the calculation gathered. *)
Lacking(tbl, s) ==
    /\ run.pc \in {"select", "merge"}
    /\ run.table = "span" => tbl = "span"
    /\ run.pc = "merge" /\ run.table = tbl => s \in run.todo

(* Every row counts what was gathered, or lacks just the calculation's share. *)
Accounted ==
    \A tbl \in Tables, s \in Services, t \in Traces :
        t \notin dropped /\ s \in Of[t] =>
            IF Lacking(tbl, s)
            THEN rows[tbl][s][t] + run.gathered[t] = reads[t]
            ELSE rows[tbl][s][t] = reads[t]

(* The rows a merge has still to write are as it read them. *)
NoStaleRow ==
    run.pc = "merge" => \A s \in run.todo : rows[run.table][s] = run.existing[s]

AccountInv == TypeOK /\ (~raced => Accounted /\ NoStaleRow)

--------------------------------------------------------------------------------
(* The helpers on weights. *)
LEMMA Weighing ==
    /\ Nothing \in Weights
    /\ \A ts : Once(ts) \in Weights
    /\ \A f, g \in Weights : Added(f, g) \in Weights /\ \A t \in Traces : Added(f, g)[t] = f[t] + g[t]
    /\ \A f \in Weights, t \in Traces : t \notin Support(f) => f[t] = 0
BY DEF Nothing, Weights, Once, Added, Support

(* A run of one kind is of no other kind. *)
LEMMA RunKinds ==
    ASSUME run \in {Idle} \cup CollectingRuns \cup SelectingRuns \cup MergingRuns
    PROVE  /\ run = Idle <=> run.pc = "idle"
           /\ run.pc \in {"clear", "watermark", "fetch", "mark"} => run \in CollectingRuns
           /\ run.pc = "select" => run \in SelectingRuns
           /\ run.pc = "merge" => run \in MergingRuns
           /\ run.pc \in {"idle", "clear", "watermark", "fetch", "mark", "select", "merge"}
           /\ run # Idle => run.gathered \in Weights
<1>1. CASE run = Idle
  BY <1>1 DEF Idle
<1>2. CASE run \in CollectingRuns
  BY <1>2 DEF Idle, CollectingRuns
<1>3. CASE run \in SelectingRuns
  BY <1>3 DEF Idle, SelectingRuns
<1>4. CASE run \in MergingRuns
  BY <1>4 DEF Idle, MergingRuns
<1> QED
  BY <1>1, <1>2, <1>3, <1>4

(* A row takes its share of what was gathered. *)
LEMMA MergedRow ==
    ASSUME run \in MergingRuns, NEW s \in Services
    PROVE  /\ Merged(s) \in Weights
           /\ \A t \in Traces : s \in Of[t] =>
                  Merged(s)[t] = run.existing[s][t] + run.gathered[t]
<1>1. run.gathered \in Weights /\ run.existing[s] \in Weights
  BY DEF MergingRuns
<1>2. /\ Share(s) \in Weights
      /\ \A t \in Traces : s \in Of[t] => Share(s)[t] = run.gathered[t]
  BY <1>1 DEF Share, Weights
<1> QED
  BY <1>1, <1>2, Weighing DEF Merged

--------------------------------------------------------------------------------
LEMMA TypeStep == TypeOK /\ [Next]_vars => TypeOK'
<1> SUFFICES ASSUME TypeOK, [Next]_vars PROVE TypeOK'
  OBVIOUS
<1> USE DEF TypeOK
<1>1. ASSUME NEW t \in Traces, Ingest(t) PROVE TypeOK'
  BY <1>1 DEF Ingest
<1>2. ASSUME NEW full \in BOOLEAN, Recalculate(full) PROVE TypeOK'
  <2>1. 1 \in DOMAIN Monitored
    BY ServicesAssumption
  <2> QED
    BY <1>2, <2>1, Weighing, RunsAssumption DEF Recalculate, CollectingRuns, history
<1>3. ASSUME ClearWatermarks PROVE TypeOK'
  BY <1>3, RunKinds DEF ClearWatermarks, CollectingRuns, history
<1>4. ASSUME GetWatermark PROVE TypeOK'
  <2>1. run \in CollectingRuns /\ Monitored[run.i] \in Services
    BY <1>4, RunKinds DEF GetWatermark, CollectingRuns, Services
  <2>2. PICK w \in {watermark[Monitored[run.i]], 0} :
           run' = [run EXCEPT !.pc = "fetch", !.from = w]
    BY <1>4 DEF GetWatermark
  <2>3. w \in Nat
    BY <2>1
  <2>4. run' \in CollectingRuns
    BY <2>1, <2>2, <2>3 DEF CollectingRuns
  <2> QED
    BY <1>4, <2>4 DEF GetWatermark, history
<1>5. ASSUME Fetch PROVE TypeOK'
  <2>1. run \in CollectingRuns
    BY <1>5, RunKinds DEF Fetch
  <2> DEFINE s0 == Monitored[run.i]
             all == Since(s0, run.from)
  <2>2. PICK ts \in SUBSET all :
           /\ \E n \in {run.latest} \cup {At[t] : t \in ts} :
                 run' = [run EXCEPT !.pc = "mark", !.latest = n,
                                    !.gathered = Added(run.gathered, Once(ts))]
           /\ seen' = [seen EXCEPT ![s0] = @ \cup ts]
           /\ cutOff' = [cutOff EXCEPT ![s0] = @ \cup (all \ ts)]
    BY <1>5 DEF Fetch, Answers
  <2>a. all \subseteq Traces
    BY DEF Since
  <2>b. PICK n \in {run.latest} \cup {At[t] : t \in ts} :
           run' = [run EXCEPT !.pc = "mark", !.latest = n,
                              !.gathered = Added(run.gathered, Once(ts))]
    BY <2>2
  <2>3. n \in Nat
    BY <2>1, <2>a, TracesAssumption DEF CollectingRuns
  <2>4. Added(run.gathered, Once(ts)) \in Weights
    BY <2>1, Weighing DEF CollectingRuns
  <2>5. run' \in CollectingRuns
    BY <2>b, <2>1, <2>3, <2>4 DEF CollectingRuns
  <2>6. seen' \in [Services -> SUBSET Traces] /\ cutOff' \in [Services -> SUBSET Traces]
    BY <2>2, <2>a
  <2> QED
    BY <1>5, <2>5, <2>6 DEF Fetch
<1>6. ASSUME FetchFails PROVE TypeOK'
  <2>1. run \in CollectingRuns /\ Monitored[run.i] \in Services
    BY <1>6, RunKinds DEF FetchFails, CollectingRuns, Services
  <2> QED
    BY <1>6, <2>1 DEF FetchFails, CollectingRuns
<1>7. ASSUME SetWatermark PROVE TypeOK'
  <2>1. run \in CollectingRuns /\ Monitored[run.i] \in Services
    BY <1>7, RunKinds DEF SetWatermark, CollectingRuns, Services
  <2>2. watermark' \in [Services -> Nat]
    BY <1>7, <2>1 DEF SetWatermark, CollectingRuns
  <2>3. run' \in {Idle} \cup CollectingRuns \cup SelectingRuns /\ reads' \in Weights /\ served' \in Weights
    <3>1. CASE run.i < Len(Monitored)
      <4>1. run.i + 1 \in DOMAIN Monitored
        BY <2>1, <3>1, ServicesAssumption DEF CollectingRuns
      <4> QED
        BY <1>7, <2>1, <3>1, <4>1 DEF SetWatermark, NextService, CollectingRuns
    <3>2. CASE ~(run.i < Len(Monitored)) /\ Support(run.gathered) = {}
      BY <1>7, <3>2 DEF SetWatermark, NextService
    <3>3. CASE ~(run.i < Len(Monitored)) /\ Support(run.gathered) # {}
      BY <1>7, <2>1, <3>3, Weighing
      DEF SetWatermark, NextService, CollectingRuns, SelectingRuns, Tables
    <3> QED
      BY <3>1, <3>2, <3>3
  <2> QED
    BY <1>7, <2>2, <2>3 DEF SetWatermark
<1>8. ASSUME Select PROVE TypeOK'
  <2>1. run \in SelectingRuns
    BY <1>8, RunKinds DEF Select
  <2>2. UNION {Of[t] : t \in Support(run.gathered)} \in SUBSET Services
    BY TracesAssumption DEF Support
  <2> QED
    BY <1>8, <2>1, <2>2 DEF Select, SelectingRuns, MergingRuns, history
<1>9. ASSUME NEW s \in Services, Merge(s) PROVE TypeOK'
  <2>1. run \in MergingRuns
    BY <1>9, RunKinds DEF Merge
  <2>2. Written(s) \in Weights
    BY <2>1, MergedRow DEF Written, MergingRuns
  <2>3. rows' \in [Tables -> [Services -> Weights]]
    BY <1>9, <2>1, <2>2 DEF Merge, MergingRuns
  <2>4. run' \in {Idle} \cup SelectingRuns \cup MergingRuns
    BY <1>9, <2>1 DEF Merge, SelectingRuns, MergingRuns, Tables
  <2> QED
    BY <1>9, <2>3, <2>4 DEF Merge, history
<1>10. ASSUME MergeFails PROVE TypeOK'
  BY <1>10 DEF MergeFails, Abandon, Support
<1>11. ASSUME Crash PROVE TypeOK'
  <2>1. run.gathered \in Weights
    BY <1>11, RunKinds DEF Crash
  <2> QED
    BY <1>11, <2>1, Weighing DEF Crash, Abandon, Support
<1>12. ASSUME Reset PROVE TypeOK'
  BY <1>12, Weighing DEF Reset, NoRows
<1>13. ASSUME UNCHANGED vars PROVE TypeOK'
  BY <1>13 DEF vars
<1> QED
  BY <1>1, <1>2, <1>3, <1>4, <1>5, <1>6, <1>7, <1>8, <1>9, <1>10, <1>11, <1>12, <1>13 DEF Next

(* A step that touches neither the tables nor what was gathered, and that leaves
   the run collecting, keeps the account. *)
LEMMA CollectingKeepsAccount ==
    ASSUME AccountInv, TypeOK',
           run.pc \in {"idle", "clear", "watermark", "fetch", "mark"},
           run'.pc \in {"idle", "clear", "watermark", "fetch", "mark"},
           UNCHANGED <<rows, reads, dropped, raced>>
    PROVE  AccountInv'
<1> USE DEF AccountInv
<1>1. ASSUME ~raced PROVE Accounted'
  BY <1>1 DEF Accounted, Lacking
<1>2. NoStaleRow'
  BY DEF NoStaleRow
<1> QED
  BY <1>1, <1>2

LEMMA AccountStep == AccountInv /\ [Next]_vars => AccountInv'
<1> SUFFICES ASSUME AccountInv, [Next]_vars PROVE AccountInv'
  OBVIOUS
<1>0. TypeOK /\ TypeOK'
  BY TypeStep DEF AccountInv
<1> USE DEF AccountInv
<1>1. ASSUME NEW t \in Traces, Ingest(t) PROVE AccountInv'
  BY <1>0, <1>1 DEF Ingest, Accounted, Lacking, NoStaleRow
<1>2. ASSUME NEW full \in BOOLEAN, Recalculate(full) PROVE AccountInv'
  <2>1. run.pc = "idle" /\ run'.pc \in {"clear", "watermark"}
    BY <1>2 DEF Recalculate, MayCalculate, Idle
  <2> QED
    BY <1>0, <1>2, <2>1, CollectingKeepsAccount DEF Recalculate, history
<1>3. ASSUME ClearWatermarks PROVE AccountInv'
  <2>1. run'.pc = "watermark"
    BY <1>0, <1>3, RunKinds DEF ClearWatermarks, TypeOK, CollectingRuns
  <2> QED
    BY <1>0, <1>3, <2>1, CollectingKeepsAccount DEF ClearWatermarks, history
<1>4. ASSUME GetWatermark PROVE AccountInv'
  <2>1. run'.pc = "fetch"
    BY <1>0, <1>4, RunKinds DEF GetWatermark, TypeOK, CollectingRuns
  <2> QED
    BY <1>0, <1>4, <2>1, CollectingKeepsAccount DEF GetWatermark, history
<1>5. ASSUME Fetch PROVE AccountInv'
  <2>1. run'.pc = "mark"
    BY <1>0, <1>5, RunKinds DEF Fetch, TypeOK, CollectingRuns
  <2> QED
    BY <1>0, <1>5, <2>1, CollectingKeepsAccount DEF Fetch
<1>6. ASSUME FetchFails PROVE AccountInv'
  <2>1. run'.pc = "mark"
    BY <1>0, <1>6, RunKinds DEF FetchFails, TypeOK, CollectingRuns
  <2> QED
    BY <1>0, <1>6, <2>1, CollectingKeepsAccount DEF FetchFails
<1>7. ASSUME SetWatermark PROVE AccountInv'
  <2>1. run \in CollectingRuns
    BY <1>0, <1>7, RunKinds DEF SetWatermark, TypeOK
  <2>2. CASE run.i < Len(Monitored) \/ Support(run.gathered) = {}
    <3>1. run'.pc \in {"watermark", "idle"} /\ reads' = reads
      <4>1. CASE run.i < Len(Monitored)
        BY <1>7, <2>1, <4>1 DEF SetWatermark, NextService, CollectingRuns
      <4>2. CASE ~(run.i < Len(Monitored)) /\ Support(run.gathered) = {}
        BY <1>7, <4>2 DEF SetWatermark, NextService, Idle
      <4> QED
        BY <2>2, <4>1, <4>2
    <3> QED
      BY <1>0, <1>7, <3>1, CollectingKeepsAccount DEF SetWatermark
  <2>3. CASE ~(run.i < Len(Monitored)) /\ Support(run.gathered) # {}
    <3>1. /\ run' = [pc |-> "select", table |-> "time", gathered |-> run.gathered]
          /\ reads' = Added(reads, run.gathered)
          /\ UNCHANGED <<rows, dropped, raced>>
      BY <1>7, <2>3 DEF SetWatermark, NextService
    <3>2. \A t \in Traces : reads'[t] = reads[t] + run.gathered[t]
      BY <1>0, <2>1, <3>1, Weighing DEF TypeOK, CollectingRuns
    <3>3. ASSUME ~raced PROVE Accounted'
      BY <1>7, <3>1, <3>2, <3>3 DEF Accounted, Lacking, SetWatermark, Tables
    <3> QED
      BY <1>0, <3>1, <3>3 DEF NoStaleRow
  <2> QED
    BY <2>2, <2>3
<1>8. ASSUME Select PROVE AccountInv'
  <2>1. run \in SelectingRuns
    BY <1>0, <1>8, RunKinds DEF Select, TypeOK
  <2>2. /\ run'.pc = "merge" /\ run'.table = run.table /\ run'.gathered = run.gathered
        /\ run'.existing = rows[run.table]
        /\ run'.todo = UNION {Of[t] : t \in Support(run.gathered)}
        /\ UNCHANGED <<rows, reads, dropped, raced>>
    BY <1>8 DEF Select, history
  <2>3. ASSUME NEW s \in Services, NEW t \in Traces, s \in Of[t], s \notin run'.todo
        PROVE  run.gathered[t] = 0
    BY <2>1, <2>2, <2>3, Weighing DEF SelectingRuns
  <2>4. ASSUME ~raced PROVE Accounted'
    <3> SUFFICES ASSUME NEW tbl \in Tables, NEW s \in Services, NEW t \in Traces,
                        t \notin dropped, s \in Of[t]
                 PROVE  IF Lacking(tbl, s)'
                        THEN rows[tbl][s][t] + run.gathered[t] = reads[t]
                        ELSE rows[tbl][s][t] = reads[t]
      BY <2>2 DEF Accounted
    <3>1. rows[tbl][s][t] \in Nat /\ run.gathered[t] \in Nat
      BY <1>0, <2>1 DEF TypeOK, SelectingRuns, Weights
    <3>2. IF Lacking(tbl, s)
          THEN rows[tbl][s][t] + run.gathered[t] = reads[t]
          ELSE rows[tbl][s][t] = reads[t]
      BY <2>4 DEF Accounted
    <3>3. Lacking(tbl, s) = (run.table = "span" => tbl = "span")
      BY <2>1 DEF Lacking, SelectingRuns
    <3>4. Lacking(tbl, s)' = ((run.table = "span" => tbl = "span")
                              /\ (run.table = tbl => s \in run'.todo))
      BY <2>2 DEF Lacking
    <3> QED
      BY <2>3, <3>1, <3>2, <3>3, <3>4
  <2>5. NoStaleRow'
    BY <2>2 DEF NoStaleRow
  <2> QED
    BY <1>0, <2>2, <2>4, <2>5
<1>9. ASSUME NEW s \in Services, Merge(s) PROVE AccountInv'
  <2>1. run \in MergingRuns /\ s \in run.todo
    BY <1>0, <1>9, RunKinds DEF Merge, TypeOK
  <2>2. rows' = [rows EXCEPT ![run.table][s] = Written(s)] /\ UNCHANGED <<reads, dropped, raced>>
    BY <1>9 DEF Merge, history
  <2> SUFFICES ASSUME ~raced PROVE Accounted' /\ NoStaleRow'
    BY <1>0, <2>2
  <2>3. rows[run.table][s] = run.existing[s]
    BY <2>1 DEF NoStaleRow, MergingRuns
  <2>4. Written(s) = Merged(s)
    BY <2>3 DEF Written
  <2>5. /\ run.table \in Tables
        /\ rows'[run.table][s] = Merged(s)
        /\ \A tbl \in Tables, r \in Services :
              <<tbl, r>> # <<run.table, s>> => rows'[tbl][r] = rows[tbl][r]
    BY <1>0, <2>1, <2>2, <2>4 DEF TypeOK, MergingRuns
  <2>6. \A t \in Traces : s \in Of[t] => rows'[run.table][s][t] = reads[t] \/ t \in dropped
    <3> SUFFICES ASSUME NEW t \in Traces, s \in Of[t], t \notin dropped
                 PROVE  rows'[run.table][s][t] = reads[t]
      OBVIOUS
    <3>1. Lacking(run.table, s)
      BY <2>1 DEF Lacking, MergingRuns
    <3>2. rows[run.table][s][t] + run.gathered[t] = reads[t]
      BY <2>5, <3>1 DEF Accounted
    <3> QED
      BY <2>1, <2>3, <2>5, <3>2, MergedRow
  <2>7. \/ run.todo # {s} /\ run' = [run EXCEPT !.todo = @ \ {s}]
        \/ run.todo = {s} /\ run.table = "time"
             /\ run' = [pc |-> "select", table |-> "span", gathered |-> run.gathered]
        \/ run.todo = {s} /\ run.table = "span" /\ run' = Idle
    BY <1>9, <2>1 DEF Merge, MergingRuns, Tables
  <2>8. \A tbl \in Tables, r \in Services :
          /\ Lacking(tbl, r)' => Lacking(tbl, r) /\ <<tbl, r>> # <<run.table, s>>
          /\ Lacking(tbl, r) /\ ~Lacking(tbl, r)' => <<tbl, r>> = <<run.table, s>>
    BY <2>1, <2>7 DEF Lacking, MergingRuns, Tables, Idle
  <2>9. \A tbl \in Tables, r \in Services : Lacking(tbl, r)' => run'.gathered = run.gathered
    BY <2>1, <2>7 DEF Lacking, MergingRuns, Idle
  <2>10. Accounted'
    BY <2>2, <2>5, <2>6, <2>8, <2>9 DEF Accounted
  <2>11. NoStaleRow'
    BY <2>1, <2>5, <2>7 DEF NoStaleRow, MergingRuns, Idle
  <2> QED
    BY <2>10, <2>11
<1>10. ASSUME Abandon, run # Idle, reads' = reads \/ reads' = Added(reads, run.gathered),
              reads' # reads => run.pc \notin {"select", "merge"}
       PROVE  AccountInv'
  <2>1. run.gathered \in Weights
    BY <1>0, <1>10, RunKinds DEF TypeOK
  <2>2. \A t \in Traces : t \notin dropped' => t \notin dropped /\ run.gathered[t] = 0
    BY <1>10, <2>1, Weighing DEF Abandon
  <2>3. \A t \in Traces : t \notin dropped' => reads'[t] = reads[t]
    <3> SUFFICES ASSUME NEW t \in Traces, t \notin dropped' PROVE reads'[t] = reads[t]
      OBVIOUS
    <3>1. reads[t] \in Nat /\ reads \in Weights
      BY <1>0 DEF TypeOK, Weights
    <3>2. Added(reads, run.gathered)[t] = reads[t] + run.gathered[t]
      BY <2>1, <3>1, Weighing
    <3> QED
      BY <1>10, <2>2, <3>1, <3>2
  <2>4. ASSUME ~raced PROVE Accounted'
    <3> SUFFICES ASSUME NEW tbl \in Tables, NEW s \in Services, NEW t \in Traces,
                        t \notin dropped', s \in Of[t]
                 PROVE  rows[tbl][s][t] = reads[t]
      BY <1>10, <2>3 DEF Accounted, Lacking, Abandon, Idle
    <3>1. rows[tbl][s][t] \in Nat
      BY <1>0 DEF TypeOK, Weights
    <3> QED
      BY <2>2, <2>4, <3>1 DEF Accounted
  <2> QED
    BY <1>0, <1>10, <2>4 DEF Abandon, NoStaleRow, Idle
<1>11. ASSUME MergeFails PROVE AccountInv'
  <2>1. run # Idle
    BY <1>11 DEF MergeFails, Idle
  <2> QED
    BY <1>10, <1>11, <2>1 DEF MergeFails
<1>12. ASSUME Crash PROVE AccountInv'
  BY <1>10, <1>12 DEF Crash
<1>13. ASSUME Reset PROVE AccountInv'
  <2>1. CASE run = Idle
    BY <1>0, <1>13, <2>1 DEF Reset, Accounted, Lacking, NoStaleRow, NoRows, Idle
  <2>2. CASE run # Idle
    BY <1>0, <1>13, <2>2 DEF Reset
  <2> QED
    BY <2>1, <2>2
<1>14. ASSUME UNCHANGED vars PROVE AccountInv'
  BY <1>0, <1>14 DEF vars, Accounted, Lacking, NoStaleRow
<1> QED
  BY <1>1, <1>2, <1>3, <1>4, <1>5, <1>6, <1>7, <1>8, <1>9, <1>11, <1>12, <1>13, <1>14 DEF Next

(* A calculation is at one of its steps, and every table, watermark and weight stays
   in its range (baseline-calculator.ts:293-476).                               *)
THEOREM TypeCorrect == Spec => []TypeOK
<1>1. ASSUME RecalculationInit PROVE TypeOK
  <2>1. NoRows \in [Services -> Weights]
    BY Weighing DEF NoRows
  <2>2. rows \in [Tables -> [Services -> Weights]]
    BY <1>1, <2>1 DEF RecalculationInit
  <2>3. seen \in [Services -> SUBSET Traces] /\ watermark \in [Services -> Nat]
    BY <1>1 DEF RecalculationInit
  <2> QED
    BY <1>1, <2>2, <2>3, Weighing DEF RecalculationInit, TypeOK
<1> QED
  BY <1>1, TypeStep, PTL DEF Spec

(* Between calculations both tables count a trace as often as it was gathered, in
   the row of each of its services, for any services and traces: the additive
   merge of history-store.ts:48-131 and 258-335 loses and doubles nothing.       *)
THEOREM Accounting == Spec => []TablesCountWhatWasGathered
<1>1. ASSUME RecalculationInit PROVE AccountInv
  <2>1. TypeOK
    BY <1>1, Weighing DEF RecalculationInit, TypeOK, NoRows
  <2>2. Accounted /\ NoStaleRow
    BY <1>1 DEF RecalculationInit, Accounted, Lacking, NoStaleRow, NoRows, Nothing, Idle
  <2> QED
    BY <2>1, <2>2 DEF AccountInv
<1>2. AccountInv => TablesCountWhatWasGathered
  BY DEF AccountInv, TablesCountWhatWasGathered, Accounted, Lacking, Idle
<1> QED
  BY <1>1, <1>2, AccountStep, PTL DEF Spec

--------------------------------------------------------------------------------
Times == {0} \cup {At[t] : t \in jaeger}

(* Every trace of the service that started before n was read, was beyond the limit
   of a fetch, or came late. *)
Covered(s, n) == \A t \in jaeger : s \in Of[t] /\ At[t] < n => t \in seen[s] \cup cutOff[s] \cup late

(* The times a run works with are starts of traces, so a trace that arrives below
   one of them is late; and what is below a watermark, or is about to be, is
   covered. *)
SkipInv ==
    /\ TypeOK
    /\ seen \in [Services -> SUBSET Traces]
    /\ watermark \in [Services -> Times]
    /\ run.pc \in {"clear", "watermark", "fetch", "mark"} => run.latest \in Times
    /\ run.pc = "fetch" => run.from \in Times
    /\ ~raced =>
         \A s \in Services \ misread :
            /\ Covered(s, watermark[s])
            /\ run.pc = "fetch" /\ s = Monitored[run.i] => Covered(s, run.from)
            /\ run.pc = "mark" /\ s = Monitored[run.i] => Covered(s, run.latest)

(* A new trace is late for every time that is the start of an older one. *)
LEMMA IngestKeepsCovered ==
    ASSUME NEW u \in Traces, Ingest(u), jaeger \subseteq Traces,
           NEW s \in Services, NEW n \in Times, Covered(s, n)
    PROVE  n \in Times' /\ Covered(s, n)'
<1>1. n \in Times'
  BY DEF Ingest, Times
<1>2. At[u] < n => u \in late'
  <2>1. ASSUME At[u] < n PROVE \E v \in jaeger : At[v] > At[u]
    BY <2>1, TracesAssumption DEF Times
  <2> QED
    BY <2>1 DEF Ingest
<1>3. late \subseteq late'
  BY DEF Ingest
<1> QED
  BY <1>1, <1>2, <1>3 DEF Covered, Ingest

LEMMA NothingBelowZero ==
    ASSUME NEW s \in Services, jaeger \subseteq Traces
    PROVE  Covered(s, 0)
BY TracesAssumption DEF Covered

LEMMA SkipStep == SkipInv /\ [Next]_vars => SkipInv'
<1> SUFFICES ASSUME SkipInv, [Next]_vars PROVE SkipInv'
  OBVIOUS
<1>0. TypeOK /\ TypeOK'
  BY TypeStep DEF SkipInv
<1>1. ASSUME NEW u \in Traces, Ingest(u) PROVE SkipInv'
  <2>1. UNCHANGED <<watermark, run, seen, cutOff, misread, raced>> /\ jaeger \subseteq Traces
    BY <1>0, <1>1 DEF Ingest, TypeOK
  <2>2. Times \subseteq Times'
    BY <1>1 DEF Ingest, Times
  <2>3. ASSUME ~raced, NEW s \in Services \ misread
        PROVE  /\ Covered(s, watermark[s])'
               /\ run.pc = "fetch" /\ s = Monitored[run.i] => Covered(s, run.from)'
               /\ run.pc = "mark" /\ s = Monitored[run.i] => Covered(s, run.latest)'
    <3>1. \A n \in Times : Covered(s, n) => Covered(s, n)'
      BY <1>1, <2>1, IngestKeepsCovered
    <3>2. watermark[s] \in Times
      BY DEF SkipInv
    <3>3. Covered(s, watermark[s])'
      BY <2>1, <2>3, <3>1, <3>2 DEF SkipInv, Covered
    <3>4. ASSUME run.pc = "fetch", s = Monitored[run.i] PROVE Covered(s, run.from)'
      BY <2>1, <2>3, <3>1, <3>4 DEF SkipInv, Covered
    <3>5. ASSUME run.pc = "mark", s = Monitored[run.i] PROVE Covered(s, run.latest)'
      BY <2>1, <2>3, <3>1, <3>5 DEF SkipInv, Covered
    <3> QED
      BY <3>3, <3>4, <3>5
  <2> QED
    BY <1>0, <2>1, <2>2, <2>3 DEF SkipInv
<1>2. ASSUME NEW full \in BOOLEAN, Recalculate(full) PROVE SkipInv'
  BY <1>0, <1>2 DEF Recalculate, SkipInv, Covered, Times, history
<1>3. ASSUME ClearWatermarks PROVE SkipInv'
  <2>1. run \in CollectingRuns
    BY <1>0, <1>3, RunKinds DEF ClearWatermarks, TypeOK
  <2>2. run'.pc = "watermark" /\ run'.latest = run.latest
    BY <1>3, <2>1 DEF ClearWatermarks, CollectingRuns
  <2>3. UNCHANGED <<jaeger, seen, cutOff, late, misread, raced>>
    BY <1>3 DEF ClearWatermarks, history
  <2>4. watermark' \in [Services -> Times']
    BY <1>3, <2>3 DEF ClearWatermarks, SkipInv, Times
  <2>5. \A s \in Services : watermark'[s] = watermark[s] \/ watermark'[s] = 0
    BY <1>3 DEF ClearWatermarks
  <2>6. ASSUME ~raced, NEW s \in Services \ misread PROVE Covered(s, watermark[s])'
    <3>1. Covered(s, watermark'[s])
      BY <1>0, <2>5, <2>6, NothingBelowZero DEF SkipInv, TypeOK
    <3> QED
      BY <2>3, <3>1 DEF Covered
  <2> QED
    BY <1>0, <1>3, <2>2, <2>3, <2>4, <2>6 DEF SkipInv, Times, ClearWatermarks
<1>4. ASSUME GetWatermark PROVE SkipInv'
  <2>1. run \in CollectingRuns /\ Monitored[run.i] \in Services
    BY <1>0, <1>4, RunKinds DEF GetWatermark, TypeOK, CollectingRuns, Services
  <2>2. PICK w \in {watermark[Monitored[run.i]], 0} :
           run' = [run EXCEPT !.pc = "fetch", !.from = w]
    BY <1>4 DEF GetWatermark
  <2>3. run'.pc = "fetch" /\ run'.from = w /\ run'.latest = run.latest /\ run'.i = run.i
    BY <2>1, <2>2 DEF CollectingRuns
  <2>4. UNCHANGED <<jaeger, watermark, seen, cutOff, late, misread, raced>>
    BY <1>4 DEF GetWatermark, history
  <2>5. w \in Times
    BY <2>1 DEF SkipInv, Times
  <2>6. run.latest \in Times
    BY <1>4 DEF SkipInv, GetWatermark
  <2>7. ASSUME ~raced, NEW s \in Services \ misread
        PROVE  Covered(s, watermark[s])' /\ (s = Monitored[run.i] => Covered(s, w)')
    BY <1>0, <2>4, <2>7, NothingBelowZero DEF SkipInv, TypeOK, Covered
  <2> QED
    BY <1>0, <2>3, <2>4, <2>5, <2>6, <2>7 DEF SkipInv, Times, Covered
<1>5. ASSUME Fetch PROVE SkipInv'
  <2> DEFINE s0 == Monitored[run.i]
             all == Since(s0, run.from)
  <2>1. run \in CollectingRuns /\ s0 \in Services
    BY <1>0, <1>5, RunKinds DEF Fetch, TypeOK, CollectingRuns, Services
  <2>a. PICK ts \in SUBSET all :
           /\ \E n \in {run.latest} \cup {At[t] : t \in ts} :
                 run' = [run EXCEPT !.pc = "mark", !.latest = n,
                                    !.gathered = Added(run.gathered, Once(ts))]
           /\ seen' = [seen EXCEPT ![s0] = @ \cup ts]
           /\ cutOff' = [cutOff EXCEPT ![s0] = @ \cup (all \ ts)]
    BY <1>5 DEF Fetch, Answers
  <2>2. PICK n \in {run.latest} \cup {At[t] : t \in ts} :
           run' = [run EXCEPT !.pc = "mark", !.latest = n,
                              !.gathered = Added(run.gathered, Once(ts))]
    BY <2>a
  <2>3. run'.pc = "mark" /\ run'.latest = n /\ run'.i = run.i
    BY <2>1, <2>2 DEF CollectingRuns
  <2>4. UNCHANGED <<jaeger, watermark, late, misread, raced>>
    BY <1>5 DEF Fetch
  <2>5. n \in Times
    BY <1>5, <2>a, <2>2 DEF SkipInv, Fetch, Times, Since
  <2>6. ts \subseteq jaeger /\ jaeger \subseteq Traces
    BY <1>0, <2>a DEF TypeOK, Since
  <2>7. /\ seen' \in [Services -> SUBSET Traces]
        /\ \A s \in Services : seen[s] \subseteq seen'[s] /\ cutOff[s] \subseteq cutOff'[s]
    BY <1>0, <2>a, <2>6 DEF TypeOK
  <2>8. ASSUME ~raced, s0 \notin misread
        PROVE  \A t \in jaeger : s0 \in Of[t] => t \in seen'[s0] \cup cutOff'[s0] \cup late
    <3> SUFFICES ASSUME NEW t \in jaeger, s0 \in Of[t]
                 PROVE  t \in seen'[s0] \cup cutOff'[s0] \cup late
      OBVIOUS
    <3>1. CASE At[t] < run.from
      BY <1>5, <2>1, <2>7, <2>8, <3>1 DEF SkipInv, Covered, Fetch
    <3>2. CASE ~(At[t] < run.from)
      <4>1. At[t] \in Nat /\ run.from \in Nat
        BY <2>1, <2>6, TracesAssumption DEF CollectingRuns
      <4>2. t \in all
        BY <3>2, <4>1 DEF Since
      <4>3. seen'[s0] = seen[s0] \cup ts /\ cutOff'[s0] = cutOff[s0] \cup (all \ ts)
        BY <1>0, <2>1, <2>a DEF TypeOK
      <4> QED
        BY <4>2, <4>3
    <3> QED
      BY <3>1, <3>2
  <2>9. ASSUME ~raced, NEW s \in Services \ misread
        PROVE  Covered(s, watermark[s])' /\ (s = s0 => Covered(s, n)')
    <3>1. Covered(s, watermark[s])
      BY <2>9 DEF SkipInv
    <3>2. Covered(s, watermark[s])'
      BY <2>4, <2>7, <3>1 DEF Covered
    <3>3. ASSUME s = s0 PROVE Covered(s, n)'
      BY <2>4, <2>8, <2>9, <3>3 DEF Covered
    <3> QED
      BY <3>2, <3>3
  <2> QED
    BY <1>0, <2>3, <2>4, <2>5, <2>7, <2>9 DEF SkipInv, Times, Covered
<1>6. ASSUME FetchFails PROVE SkipInv'
  <2>1. run \in CollectingRuns /\ Monitored[run.i] \in Services
    BY <1>0, <1>6, RunKinds DEF FetchFails, TypeOK, CollectingRuns, Services
  <2>2. run'.pc = "mark" /\ run'.latest = run.latest /\ run'.i = run.i
    BY <1>6, <2>1 DEF FetchFails, CollectingRuns
  <2>3. UNCHANGED <<jaeger, watermark, seen, cutOff, late, raced>> /\ misread \subseteq misread'
    BY <1>6 DEF FetchFails
  <2>4. run.latest \in Times
    BY <1>6 DEF SkipInv, FetchFails
  <2>5. ASSUME ~raced, NEW s \in Services \ misread', s = Monitored[run.i]
        PROVE  Covered(s, run.latest)'
    <3>1. run.latest = 0
      BY <1>6, <2>1, <2>5 DEF FetchFails, CollectingRuns
    <3> QED
      BY <1>0, <2>2, <2>3, <3>1, NothingBelowZero DEF TypeOK, Covered
  <2>6. ASSUME ~raced, NEW s \in Services \ misread'
        PROVE  Covered(s, watermark[s])'
    BY <2>3, <2>6 DEF SkipInv, Covered
  <2> QED
    BY <1>0, <2>2, <2>3, <2>4, <2>5, <2>6 DEF SkipInv, Times, Covered
<1>7. ASSUME SetWatermark PROVE SkipInv'
  <2> DEFINE s0 == Monitored[run.i]
  <2>1. run \in CollectingRuns /\ s0 \in Services /\ run.pc = "mark"
    BY <1>0, <1>7, RunKinds DEF SetWatermark, TypeOK, CollectingRuns, Services
  <2>2. UNCHANGED <<jaeger, seen, cutOff, late, misread, raced>>
    BY <1>7 DEF SetWatermark
  <2>3. /\ run'.pc \in {"watermark", "idle", "select"}
        /\ run'.pc = "watermark" => run'.latest = run.latest
    <3>1. CASE run.i < Len(Monitored)
      BY <1>7, <2>1, <3>1 DEF SetWatermark, NextService, CollectingRuns
    <3>2. CASE ~(run.i < Len(Monitored))
      BY <1>7, <3>2 DEF SetWatermark, NextService, Idle
    <3> QED
      BY <3>1, <3>2
  <2>4. run.latest \in Times
    BY <2>1 DEF SkipInv
  <2>5. watermark' = watermark \/ watermark' = [watermark EXCEPT ![s0] = run.latest]
    BY <1>7 DEF SetWatermark
  <2>6. watermark' \in [Services -> Times]
    BY <2>4, <2>5 DEF SkipInv
  <2>7. ASSUME ~raced, NEW s \in Services \ misread PROVE Covered(s, watermark[s])'
    <3>1. \/ watermark'[s] = watermark[s]
          \/ s = s0 /\ watermark'[s] = run.latest
      BY <2>5 DEF SkipInv
    <3>2. Covered(s, watermark'[s])
      BY <2>1, <2>7, <3>1 DEF SkipInv
    <3> QED
      BY <2>2, <3>2 DEF Covered
  <2> QED
    BY <1>0, <2>2, <2>3, <2>4, <2>6, <2>7 DEF SkipInv, Times
<1>8. ASSUME Select PROVE SkipInv'
  BY <1>0, <1>8 DEF Select, SkipInv, Covered, Times, history
<1>9. ASSUME NEW s \in Services, Merge(s) PROVE SkipInv'
  <2>1. run'.pc \in {"merge", "select", "idle"}
    BY <1>0, <1>9, RunKinds DEF Merge, TypeOK, MergingRuns, Idle
  <2> QED
    BY <1>0, <1>9, <2>1 DEF Merge, SkipInv, Covered, Times, history
<1>10. ASSUME MergeFails \/ Crash PROVE SkipInv'
  BY <1>0, <1>10 DEF MergeFails, Crash, Abandon, SkipInv, Covered, Times, Idle
<1>11. ASSUME Reset PROVE SkipInv'
  <2>1. watermark' \in [Services -> Times'] /\ seen' \in [Services -> SUBSET Traces]
    BY <1>11 DEF Reset, Times
  <2>2. run' = run /\ jaeger' = jaeger /\ (~raced' => run = Idle)
    BY <1>11 DEF Reset
  <2>3. ASSUME NEW s \in Services PROVE Covered(s, watermark[s])'
    BY <1>0, <1>11, TracesAssumption DEF Reset, Covered, TypeOK
  <2> QED
    BY <1>0, <2>1, <2>2, <2>3 DEF SkipInv, Times, Idle
<1>12. ASSUME UNCHANGED vars PROVE SkipInv'
  BY <1>0, <1>12 DEF vars, SkipInv, Covered, Times
<1> QED
  BY <1>1, <1>2, <1>3, <1>4, <1>5, <1>6, <1>7, <1>8, <1>9, <1>10, <1>11, <1>12 DEF Next

(* An incremental calculation skips no trace but one that reached Jaeger late, one
   beyond the limit of a fetch, one of a service that was given another's watermark,
   and those of tables emptied during a calculation (baseline-calculator.ts:329-352),
   for any services, traces and number of calculations.                         *)
THEOREM Watermarks == Spec => []NothingSkipped
<1>1. ASSUME RecalculationInit PROVE SkipInv
  <2>1. TypeOK
    BY <1>1, Weighing DEF RecalculationInit, TypeOK, NoRows
  <2> QED
    BY <1>1, <2>1, NothingBelowZero DEF RecalculationInit, SkipInv, Covered, Times, Idle
<1>2. ASSUME SkipInv PROVE NothingSkipped
  <2> SUFFICES ASSUME ~raced, NEW s \in Services \ misread, NEW t \in jaeger, s \in Of[t]
               PROVE  t \in Since(s, watermark[s]) \cup seen[s] \cup cutOff[s] \cup late
    BY DEF NothingSkipped
  <2>1. At[t] \in Nat /\ watermark[s] \in Nat
    BY <1>2, TracesAssumption DEF SkipInv, TypeOK
  <2>2. At[t] < watermark[s] => t \in seen[s] \cup cutOff[s] \cup late
    BY <1>2 DEF SkipInv, Covered
  <2> QED
    BY <2>1, <2>2 DEF Since
<1> QED
  BY <1>1, <1>2, SkipStep, PTL DEF Spec

-----------------------------------------------------------------------------
(* The chaos controller.  A collection carries the number of starts when it looked
   at the flag, so what is inductive compares it with the start that froze it.     *)

Runs == [runs : {"nothing", "scenario", "custom"}, number : Nat, phase : Nat, over : BOOLEAN]
Collections == [id : Nat, since : Nat, left : Nat, spans : SUBSET Kinds]

ChaosTypes ==
    /\ chaos \in Runs /\ chaos.number <= starts
    /\ handles \in [TimerTypes -> Nat]
    /\ starts \in Nat
    /\ recent \subseteq Kinds

\* Every collection under way began before the scenario that runs was started.
Stragglers ==
    /\ collections \subseteq Collections
    /\ \A c \in collections : c.since <= starts
    /\ frozen => \A c \in collections : c.since < chaos.number

ChaosInv == ChaosTypes /\ FrozenWhileScenarioRuns /\ Stragglers

LEMMA InitChaos == ChaosInit => ChaosInv
<1> SUFFICES ASSUME ChaosInit PROVE ChaosInv
  OBVIOUS
<1>1. /\ chaos = Off /\ handles = [type \in TimerTypes |-> 0] /\ armed = {}
      /\ starts = 0 /\ frozen = FALSE /\ recent = {} /\ collections = {}
  BY DEF ChaosInit
<1>2. Off \in Runs /\ Off.number = 0 /\ Off.runs = "nothing"
  BY DEF Off, Runs
<1>3. ChaosTypes
  BY <1>1, <1>2 DEF ChaosTypes
<1>4. FrozenWhileScenarioRuns
  <2>1. {t \in TimerTypes : handles[t] # 0} = {}
    BY <1>1
  <2>2. armed = {<<type, handles[type]>> : type \in {t \in TimerTypes : handles[t] # 0}}
    BY <1>1, <2>1
  <2>3. frozen = (chaos.runs = "scenario") /\ Enabled = (<<"expiry", chaos.number>> \in armed)
    <3>1. /\ frozen = FALSE /\ ~(chaos.runs = "scenario")
          /\ ~Enabled /\ ~(<<"expiry", chaos.number>> \in armed)
      BY <1>1, <1>2 DEF Enabled
    <3>2. (chaos.runs = "scenario") = FALSE
      BY <3>1
    <3>3. frozen = (chaos.runs = "scenario")
      BY <3>1, <3>2
    <3>4. Enabled = FALSE /\ (<<"expiry", chaos.number>> \in armed) = FALSE
      BY <3>1 DEF Enabled
    <3>5. QED
      BY <3>3, <3>4
  <2>4. \A type \in TimerTypes : handles[type] \in {0, chaos.number}
    BY <1>1
  <2>5. QED
    BY <2>2, <2>3, <2>4 DEF FrozenWhileScenarioRuns
<1>5. Stragglers
  BY <1>1 DEF Stragglers
<1>6. QED
  BY <1>3, <1>4, <1>5 DEF ChaosInv

\* With the timers as the handles say, stop() clears all of them.
LEMMA NothingKept == FrozenWhileScenarioRuns => Cleared = {}
BY DEF FrozenWhileScenarioRuns, Cleared

LEMMA FlagCleared == FrozenWhileScenarioRuns => FrozenAfterStop = FALSE
BY DEF FrozenWhileScenarioRuns, FrozenAfterStop, Enabled

\* What stop() leaves, whoever calls it.
LEMMA StoppedIsSound ==
  ASSUME ChaosInv, chaos' = Off, handles' = [type \in TimerTypes |-> 0], armed' = {},
         frozen' = FALSE, UNCHANGED <<starts, collections>>, recent' \subseteq Kinds
  PROVE  ChaosInv'
<1>1. ChaosTypes'
  BY DEF ChaosInv, ChaosTypes, Off, Runs
<1>2. FrozenWhileScenarioRuns'
  <2>1. {t \in TimerTypes : handles'[t] # 0} = {}
    OBVIOUS
  <2>2. armed' = {<<type, handles'[type]>> : type \in {t \in TimerTypes : handles'[t] # 0}}
    BY <2>1
  <2>3. ~Enabled' /\ chaos'.runs = "nothing" /\ chaos'.number = 0
    BY DEF Enabled, Off
  <2>4. /\ frozen' = (chaos'.runs = "scenario")
        /\ Enabled' = (<<"expiry", chaos'.number>> \in armed')
    <3>1. /\ frozen' = FALSE /\ ~(chaos'.runs = "scenario")
          /\ ~Enabled' /\ ~(<<"expiry", chaos'.number>> \in armed')
      BY <2>3
    <3>2. (chaos'.runs = "scenario") = FALSE
      BY <3>1
    <3>3. frozen' = (chaos'.runs = "scenario")
      BY <3>1, <3>2
    <3>4. Enabled' = FALSE /\ (<<"expiry", chaos'.number>> \in armed') = FALSE
      BY <3>1 DEF Enabled
    <3>5. QED
      BY <3>3, <3>4
  <2>5. \A type \in TimerTypes : handles'[type] \in {0, chaos'.number}
    OBVIOUS
  <2>6. QED
    BY <2>2, <2>4, <2>5 DEF FrozenWhileScenarioRuns
<1>3. Stragglers'
  BY DEF ChaosInv, Stragglers
<1>4. QED
  BY <1>1, <1>2, <1>3 DEF ChaosInv

\* A start, of whatever kind.
LEMMA StartedIsSound ==
  ASSUME ChaosInv, NEW what \in {"scenario", "custom"}, NEW types \in SUBSET TimerTypes,
         "expiry" \in types, Starts(what, types), frozen' = (what = "scenario"),
         UNCHANGED <<recent, collections>>
  PROVE  ChaosInv'
<1>1. /\ starts' = starts + 1 /\ starts \in Nat
      /\ chaos' = [Off EXCEPT !.runs = what, !.number = starts']
      /\ handles' = [type \in TimerTypes |-> IF type \in types THEN starts' ELSE 0]
      /\ armed' = {<<type, starts'>> : type \in types}
  BY NothingKept DEF ChaosInv, ChaosTypes, Starts
<1>2. chaos' = [runs |-> what, number |-> starts', phase |-> 0, over |-> FALSE]
  BY <1>1 DEF Off
<1>3. ChaosTypes'
  <2>1. starts' \in Nat /\ starts' <= starts' /\ handles' \in [TimerTypes -> Nat]
    BY <1>1
  <2>2. chaos' \in Runs /\ chaos'.number = starts'
    BY <1>2, <2>1 DEF Runs
  <2>3. QED
    BY <2>1, <2>2 DEF ChaosInv, ChaosTypes
<1>4. FrozenWhileScenarioRuns'
  <2>1. {t \in TimerTypes : handles'[t] # 0} = types
    BY <1>1
  <2>2. \A t \in types : handles'[t] = starts'
    BY <1>1
  <2>3. armed' = {<<type, handles'[type]>> : type \in {t \in TimerTypes : handles'[t] # 0}}
    BY <1>1, <2>1, <2>2
  <2>4. \A type \in TimerTypes : handles'[type] \in {0, chaos'.number}
    BY <1>1, <1>2
  <2>5. Enabled' /\ <<"expiry", chaos'.number>> \in armed'
    BY <1>1, <1>2 DEF Enabled
  <2>6. frozen' = (chaos'.runs = "scenario")
    BY <1>2
  <2>7. QED
    BY <2>3, <2>4, <2>5, <2>6 DEF FrozenWhileScenarioRuns
<1>5. Stragglers'
  <2>1. \A c \in collections : c.since \in Nat /\ c.since <= starts
    BY DEF ChaosInv, Stragglers, Collections
  <2>2. chaos'.number = starts + 1
    BY <1>1, <1>2
  <2>3. \A c \in collections : c.since <= starts + 1 /\ c.since < starts + 1
    BY <1>1, <2>1
  <2>4. QED
    BY <1>1, <2>2, <2>3 DEF ChaosInv, Stragglers
<1>6. QED
  BY <1>3, <1>4, <1>5 DEF ChaosInv

\* A step that leaves the controller alone.
LEMMA ControllerAlone ==
  ASSUME ChaosInv, UNCHANGED controllerVars, recent' \subseteq Kinds, Stragglers'
  PROVE  ChaosInv'
BY DEF ChaosInv, ChaosTypes, FrozenWhileScenarioRuns, controllerVars, Enabled

LEMMA StepChaos == ChaosInv /\ [ChaosNext]_chaosVars => ChaosInv'
<1> SUFFICES ASSUME ChaosInv, [ChaosNext]_chaosVars PROVE ChaosInv'
  OBVIOUS
<1>1. /\ chaos \in Runs /\ starts \in Nat /\ recent \subseteq Kinds
      /\ collections \subseteq Collections /\ \A c \in collections : c.since <= starts
      /\ frozen => \A c \in collections : c.since < chaos.number
  BY DEF ChaosInv, ChaosTypes, Stragglers
<1>2. Cleared = {} /\ FrozenAfterStop = FALSE
  BY NothingKept, FlagCleared DEF ChaosInv
<1>3. ASSUME NEW escalates \in BOOLEAN, StartScenario(escalates) PROVE ChaosInv'
  <2> DEFINE types == IF escalates THEN TimerTypes ELSE {"expiry"}
  <2>1. types \in SUBSET TimerTypes /\ "expiry" \in types
    BY DEF TimerTypes
  <2>2. Starts("scenario", types) /\ frozen' = TRUE /\ UNCHANGED <<recent, collections>>
    BY <1>3 DEF StartScenario, profilerVars
  <2> HIDE DEF types
  <2>3. QED
    BY <2>1, <2>2, StartedIsSound
<1>4. CASE StartCustom
  <2> DEFINE types == {"expiry"}
  <2>1. types \in SUBSET TimerTypes /\ "expiry" \in types
    BY DEF TimerTypes
  <2>2. Starts("custom", types) /\ frozen' = FALSE /\ UNCHANGED <<recent, collections>>
    BY <1>2, <1>4 DEF StartCustom, profilerVars
  <2> HIDE DEF types
  <2>3. QED
    BY <2>1, <2>2, StartedIsSound
<1>5. CASE Stop
  BY <1>1, <1>2, <1>5, StoppedIsSound DEF Stop, Stops, profilerVars
<1>6. CASE TimePasses
  BY <1>6 DEF TimePasses, ChaosInv, ChaosTypes, Stragglers, FrozenWhileScenarioRuns, Runs,
              Enabled, profilerVars
<1>7. ASSUME NEW n \in 1..MaxStarts, Expires(n) PROVE ChaosInv'
  BY <1>1, <1>2, <1>7, StoppedIsSound DEF Expires, profilerVars
<1>8. ASSUME NEW n \in 1..MaxStarts, Escalates(n) PROVE ChaosInv'
  BY <1>8 DEF Escalates, ChaosInv, ChaosTypes, Stragglers, FrozenWhileScenarioRuns, Runs,
              Enabled, profilerVars
<1>9. CASE Request
  <2>1. recent' \subseteq Kinds /\ UNCHANGED collections
    BY <1>1, <1>9 DEF Request, Kinds, profilerVars
  <2>2. CASE Stops
    BY <1>1, <1>2, <2>1, <2>2, StoppedIsSound DEF Stops
  <2>3. CASE UNCHANGED controllerVars
    BY <2>1, <2>3, ControllerAlone DEF ChaosInv, Stragglers, controllerVars
  <2>4. QED
    BY <1>9, <2>2, <2>3 DEF Request
<1>10. CASE UNCHANGED controllerVars /\ UNCHANGED collections /\ recent' \subseteq Kinds
  BY <1>10, ControllerAlone DEF ChaosInv, Stragglers, controllerVars
<1>11. CASE DelayEnds
  BY <1>1, <1>10, <1>11 DEF DelayEnds, Kinds, profilerVars
<1>12. CASE SpansAge
  BY <1>1, <1>10, <1>12 DEF SpansAge, profilerVars
\* A collection begins only while nothing is frozen.
<1>13. ASSUME NEW c \in 1..MaxCollections, Collect(c) PROVE ChaosInv'
  <2> DEFINE new == [id |-> c, since |-> starts, left |-> Fetches, spans |-> {}]
  <2>1. new \in Collections /\ new.since <= starts
    BY <1>1, ChaosAssumption DEF Collections
  <2>2. /\ ~frozen /\ collections' = collections \cup {new}
        /\ UNCHANGED controllerVars /\ UNCHANGED recent
    BY <1>13 DEF Collect, MayCollect
  <2> HIDE DEF new
  <2>3. Stragglers'
    BY <1>1, <2>1, <2>2 DEF Stragglers, controllerVars
  <2>4. QED
    BY <1>1, <2>2, <2>3, ControllerAlone
<1>14. ASSUME NEW c \in collections, FetchTraces(c) PROVE ChaosInv'
  <2> DEFINE next == [c EXCEPT !.left = @ - 1, !.spans = @ \cup recent]
  <2>1. c \in Collections /\ c.left > 0
    BY <1>1, <1>14 DEF FetchTraces
  <2>2. next \in Collections /\ next.since = c.since
    <3>1. c.left \in Nat /\ c.spans \subseteq Kinds
      BY <2>1 DEF Collections
    <3>2. c.left - 1 \in Nat /\ c.spans \cup recent \subseteq Kinds
      BY <1>1, <2>1, <3>1
    <3>3. QED
      BY <2>1, <3>2 DEF Collections
  <2>3. /\ collections' = (collections \ {c}) \cup {next}
        /\ UNCHANGED controllerVars /\ UNCHANGED recent
    BY <1>14 DEF FetchTraces
  <2> HIDE DEF next
  <2>4. Stragglers'
    BY <1>1, <2>2, <2>3 DEF Stragglers, controllerVars
  <2>5. QED
    BY <1>1, <2>3, <2>4, ControllerAlone
<1>15. ASSUME NEW c \in collections, FetchUnusable(c) \/ UpdateBaselines(c) PROVE ChaosInv'
  <2>1. collections' = collections \ {c} /\ UNCHANGED controllerVars /\ UNCHANGED recent
    BY <1>15 DEF FetchUnusable, UpdateBaselines
  <2>2. Stragglers'
    BY <1>1, <2>1 DEF Stragglers, controllerVars
  <2>3. QED
    BY <1>1, <2>1, <2>2, ControllerAlone
<1>16. CASE UNCHANGED chaosVars
  BY <1>1, <1>10, <1>16 DEF chaosVars, profilerVars
<1>17. QED
  BY <1>3, <1>4, <1>5, <1>6, <1>7, <1>8, <1>9, <1>11, <1>12, <1>13, <1>14, <1>15, <1>16
     DEF ChaosNext

(* However starts, stops and timers interleave, the baselines are frozen exactly
   while a built-in scenario runs, and no timer of an earlier start is left.       *)
THEOREM FrozenExactly == ChaosSpec => []FrozenWhileScenarioRuns
<1>1. ChaosInv => FrozenWhileScenarioRuns
  BY DEF ChaosInv
<1>2. QED
  BY <1>1, InitChaos, StepChaos, PTL DEF ChaosSpec

(* While they are frozen, the only collections that change them are the ones that
   looked at the flag before the scenario was started.                             *)
THEOREM OnlyStragglers == ChaosSpec => OnlyStragglersChangeFrozen
<1>1. ASSUME ChaosInv, [ChaosNext]_chaosVars
      PROVE  [frozen /\ baselines' # baselines =>
                \E c \in collections : c.left = 0 /\ c.since < chaos.number]_chaosVars
  <2> SUFFICES ASSUME frozen, baselines' # baselines
               PROVE  \E c \in collections : c.left = 0 /\ c.since < chaos.number
    OBVIOUS
  <2>1. PICK c \in collections : UpdateBaselines(c)
    BY <1>1 DEF ChaosNext, StartScenario, StartCustom, Stop, TimePasses, Expires, Escalates,
                Request, DelayEnds, SpansAge, Collect, FetchTraces, FetchUnusable,
                chaosVars, profilerVars
  <2>2. c.left = 0 /\ c.since < chaos.number
    BY <1>1, <2>1 DEF UpdateBaselines, ChaosInv, Stragglers
  <2>3. QED
    BY <2>2
<1>2. QED
  BY <1>1, InitChaos, StepChaos, PTL DEF ChaosSpec, OnlyStragglersChangeFrozen

-----------------------------------------------------------------------------
(* The stream analyzer. *)

\* batchTimer holds a timer only while something waits, and one that has fired in
\* vain only while a batch is being processed, whose end arms another.
TimerInv ==
  /\ timer = "armed" => buffer # <<>>
  /\ timer = "spent" => busy /\ buffer # <<>>

AnalyzerInv == AnalyzerTypeOK /\ BufferIsWatched /\ TimerInv

LEMMA FirstBatch ==
  ASSUME NEW b \in Seq(Anomalies), b # <<>>
  PROVE  /\ First(b) \in Seq(Anomalies) /\ First(b) # <<>> /\ Len(First(b)) <= BatchSize
         /\ SubSeq(b, Len(First(b)) + 1, Len(b)) \in Seq(Anomalies)
         /\ Len(SubSeq(b, Len(First(b)) + 1, Len(b))) <= Len(b)
<1> DEFINE n == IF Len(b) < BatchSize THEN Len(b) ELSE BatchSize
<1>1. Len(b) \in Nat /\ Len(b) > 0
  OBVIOUS
<1>2. n \in 1..Len(b) /\ n <= BatchSize
  BY <1>1, QueueAssumption
<1>3. First(b) = SubSeq(b, 1, n)
  BY DEF First
<1> HIDE DEF n
<1>4. First(b) \in Seq(Anomalies) /\ Len(First(b)) = n
  BY <1>1, <1>2, <1>3
<1>5. First(b) # <<>>
  BY <1>2, <1>4
<1>6. /\ SubSeq(b, n + 1, Len(b)) \in Seq(Anomalies)
      /\ Len(SubSeq(b, n + 1, Len(b))) <= Len(b)
  BY <1>1, <1>2
<1>7. QED
  BY <1>2, <1>4, <1>5, <1>6

LEMMA StartKeepsAnalyzer ==
  ASSUME AnalyzerInv, NEW b \in Seq(Anomalies), Len(b) <= MaxQueue, StartBatch(b),
         strays' \in Nat,
         fate' \in [Anomalies -> {"undetected", "accepted", "analysed", "failed", "dropped"}]
  PROVE  AnalyzerInv'
<1>1. /\ b # <<>> /\ timer' = "none" /\ busy' = TRUE /\ batch' = First(b)
      /\ buffer' = SubSeq(b, Len(First(b)) + 1, Len(b))
  BY DEF StartBatch, MayProcess
<1>2. /\ First(b) \in Seq(Anomalies) /\ First(b) # <<>> /\ Len(First(b)) <= BatchSize
      /\ buffer' \in Seq(Anomalies) /\ Len(buffer') <= Len(b)
  BY <1>1, FirstBatch
<1>3. Len(buffer') <= MaxQueue
  <2>1. Len(buffer') \in Nat /\ Len(b) \in Nat /\ MaxQueue \in Nat
    BY <1>2, QueueAssumption
  <2>2. QED
    BY <1>2, <2>1
<1>4. AnalyzerTypeOK'
  BY <1>1, <1>2, <1>3 DEF AnalyzerTypeOK
<1>5. QED
  BY <1>1, <1>4 DEF AnalyzerInv, BufferIsWatched, TimerInv

LEMMA StepAnalyzer == AnalyzerInv /\ [AnalysisNext]_analysisVars => AnalyzerInv'
<1> SUFFICES ASSUME AnalyzerInv, [AnalysisNext]_analysisVars PROVE AnalyzerInv'
  OBVIOUS
<1>1. /\ buffer \in Seq(Anomalies) /\ Len(buffer) <= MaxQueue /\ Len(buffer) \in Nat
      /\ busy \in BOOLEAN /\ batch \in Seq(Anomalies) /\ Len(batch) <= BatchSize
      /\ timer \in {"none", "armed", "spent"} /\ strays \in Nat
      /\ fate \in [Anomalies -> {"undetected", "accepted", "analysed", "failed", "dropped"}]
      /\ busy <=> batch # <<>>
  BY DEF AnalyzerInv, AnalyzerTypeOK
<1>2. CASE UNCHANGED analyzerVars
  BY <1>2 DEF analyzerVars, AnalyzerInv, AnalyzerTypeOK, BufferIsWatched, TimerInv
<1>3. ASSUME NEW a \in Anomalies, Drop(a) PROVE AnalyzerInv'
  BY <1>1, <1>3 DEF Drop, AnalyzerInv, AnalyzerTypeOK, BufferIsWatched, TimerInv
<1>4. ASSUME NEW a \in Anomalies, Accept(a)
      PROVE  /\ Append(buffer, a) \in Seq(Anomalies) /\ Append(buffer, a) # <<>>
             /\ Len(Append(buffer, a)) <= MaxQueue
             /\ strays' = strays
             /\ fate' \in [Anomalies -> {"undetected", "accepted", "analysed", "failed", "dropped"}]
  <2>1. Len(buffer) < MaxQueue /\ strays' = strays /\ fate' = [fate EXCEPT ![a] = "accepted"]
    BY <1>4 DEF Accept
  <2>2. Append(buffer, a) \in Seq(Anomalies) /\ Len(Append(buffer, a)) = Len(buffer) + 1
    BY <1>1
  <2>3. QED
    BY <1>1, <2>1, <2>2, QueueAssumption
<1>5. ASSUME NEW a \in Anomalies, Buffered(a) PROVE AnalyzerInv'
  <2> DEFINE b == Append(buffer, a)
  <2>1. /\ b \in Seq(Anomalies) /\ b # <<>> /\ Len(b) <= MaxQueue /\ strays' = strays
        /\ fate' \in [Anomalies -> {"undetected", "accepted", "analysed", "failed", "dropped"}]
    BY <1>4, <1>5 DEF Buffered
  <2>2. \/ SkipBatch(b, timer)
        \/ /\ buffer' = b
           /\ timer' = IF timer = "none" THEN "armed" ELSE timer
           /\ UNCHANGED <<busy, batch>>
    BY <1>5 DEF Buffered
  <2> HIDE DEF b
  <2>3. buffer' = b /\ UNCHANGED <<busy, batch>>
    BY <2>2 DEF SkipBatch
  <2>4. \/ timer' = timer /\ busy
        \/ timer' = IF timer = "none" THEN "armed" ELSE timer
    BY <2>1, <2>2 DEF SkipBatch, MayProcess
  <2>5. AnalyzerTypeOK'
    BY <1>1, <2>1, <2>3, <2>4 DEF AnalyzerTypeOK
  <2>6. BufferIsWatched' /\ TimerInv'
    BY <1>1, <2>1, <2>3, <2>4 DEF AnalyzerInv, BufferIsWatched, TimerInv
  <2>7. QED
    BY <2>5, <2>6 DEF AnalyzerInv
<1>6. ASSUME NEW a \in Anomalies, Fills(a) PROVE AnalyzerInv'
  <2> DEFINE b == Append(buffer, a)
  <2>1. /\ b \in Seq(Anomalies) /\ Len(b) <= MaxQueue /\ strays' \in Nat
        /\ fate' \in [Anomalies -> {"undetected", "accepted", "analysed", "failed", "dropped"}]
    BY <1>1, <1>4, <1>6 DEF Fills
  <2>2. StartBatch(b)
    BY <1>6 DEF Fills
  <2> HIDE DEF b
  <2>3. QED
    BY <2>1, <2>2, StartKeepsAnalyzer
<1>7. ASSUME NEW t \in {"none", "armed", "spent"}, Fires(t)
      PROVE  /\ strays' \in Nat /\ fate' = fate
             /\ \/ timer = "armed" /\ t = "spent" /\ strays' = strays
                \/ t = timer
  BY <1>1, <1>7 DEF Fires
\* A timer that fires in vain found a batch being processed, or nothing to do.
<1>8. CASE FiresInVain
  <2>1. PICK t \in {"none", "armed", "spent"} : Fires(t) /\ SkipBatch(buffer, t)
    BY <1>8 DEF FiresInVain
  <2>2. /\ buffer' = buffer /\ timer' = t /\ UNCHANGED <<busy, batch>>
        /\ buffer = <<>> \/ busy
    BY <2>1 DEF SkipBatch, MayProcess
  <2>3. /\ strays' \in Nat /\ fate' = fate
        /\ \/ timer = "armed" /\ t = "spent"
           \/ t = timer
    BY <1>7, <2>1
  <2>4. AnalyzerTypeOK'
    BY <1>1, <2>2, <2>3 DEF AnalyzerTypeOK
  <2>5. BufferIsWatched' /\ TimerInv'
    BY <2>2, <2>3 DEF AnalyzerInv, BufferIsWatched, TimerInv
  <2>6. QED
    BY <2>4, <2>5 DEF AnalyzerInv
<1>9. CASE FiresOnBatch
  <2>1. PICK t \in {"none", "armed", "spent"} : Fires(t) /\ StartBatch(buffer)
    BY <1>9 DEF FiresOnBatch
  <2>2. QED
    BY <1>1, <1>7, <2>1, StartKeepsAnalyzer
<1>10. ASSUME NEW how \in {"analysed", "failed"}, EndBatch(how) PROVE AnalyzerInv'
  <2>1. busy' = FALSE /\ batch' = <<>> /\ fate' = AllAre(batch, how) /\ buffer' = buffer
    BY <1>10 DEF EndBatch
  <2>2. \/ buffer = <<>> /\ timer' = timer /\ strays' = strays
        \/ /\ buffer # <<>> /\ timer' = "armed"
           /\ strays' = IF timer = "armed" THEN strays + 1 ELSE strays
    BY <1>10 DEF EndBatch, Rearm
  <2>3. AnalyzerTypeOK'
    <3>1. fate' \in [Anomalies -> {"undetected", "accepted", "analysed", "failed", "dropped"}]
      BY <1>1, <2>1 DEF AllAre
    <3>2. strays' \in Nat /\ timer' \in {"none", "armed", "spent"}
      BY <1>1, <2>2
    <3>3. batch' \in Seq(Anomalies) /\ Len(batch') <= BatchSize
      BY <2>1, QueueAssumption
    <3>4. QED
      BY <1>1, <2>1, <3>1, <3>2, <3>3 DEF AnalyzerTypeOK
  <2>4. BufferIsWatched' /\ TimerInv'
    BY <1>1, <2>1, <2>2 DEF AnalyzerInv, BufferIsWatched, TimerInv
  <2>5. QED
    BY <2>3, <2>4 DEF AnalyzerInv
<1>11. QED
  BY <1>2, <1>3, <1>5, <1>6, <1>8, <1>9, <1>10
     DEF AnalysisNext, Detect, TimerFires, Chunk, Analysed, Fails, AskStarts, AskEnds, Browser,
         analysisVars

-----------------------------------------------------------------------------
(* The live feed: what the page will show once it has read what is on its way. *)

Ids == Seq(Anomalies \cup {Subject[k] : k \in Asks})
Messages == [type : {"start", "chunk", "complete", "failed"}, ids : Ids]

\* No message of w starts or ends an analysis.
Silent(w) == \A i \in DOMAIN w : w[i].type = "chunk"

\* The i-th message of w is the last that does.
Latest(w, i) ==
  /\ i \in DOMAIN w /\ w[i].type # "chunk"
  /\ \A j \in DOMAIN w : j > i => w[j].type = "chunk"

\* It speaks of what is running: a start that is the last news of something that
\* still runs; an end of everything, unless one of the others was silenced.
Says(m, running, quiet) == IF m.type = "start" THEN m.ids \in running ELSE running = {} \/ quiet
Agrees(w, running, quiet) == \A i \in DOMAIN w : Latest(w, i) => Says(w[i], running, quiet)

\* A page that is told nothing more shows what runs; one that is not connected
\* shows no analysis, or has missed something.
Shows(v) ==
  /\ link[v] # "open" => wire[v] = <<>> /\ (~missed[v] => ~streaming[v])
  /\ link[v] = "open" =>
       /\ Agrees(wire[v], Running, silenced)
       /\ ~missed[v] /\ Silent(wire[v]) =>
            IF streaming[v] THEN shown[v] \in Running ELSE Running = {} \/ silenced

FeedInv ==
  /\ FeedTypeOK
  /\ wire \in [Visits -> Seq(Messages)]
  /\ shown \in [Visits -> Ids]
  /\ asked \subseteq Asks /\ silenced \in BOOLEAN
  /\ \A v \in Visits : Shows(v)

LEMMA NewsIsLatest ==
  ASSUME NEW w \in Seq(Messages), NEW m \in Messages, m.type # "chunk",
         NEW running, NEW quiet, Says(m, running, quiet)
  PROVE  Agrees(Append(w, m), running, quiet) /\ ~Silent(Append(w, m))
<1> DEFINE u == Append(w, m)
           n == Len(w) + 1
<1>1. /\ Len(w) \in Nat /\ DOMAIN u = 1..n /\ u[n] = m /\ n \in 1..n
      /\ \A i \in 1..n : i # n => n > i
  OBVIOUS
<1> HIDE DEF u, n
<1>2. ~Silent(u)
  BY <1>1 DEF Silent
<1>3. ASSUME NEW i \in DOMAIN u, Latest(u, i) PROVE i = n
  BY <1>1, <1>3 DEF Latest
<1>4. Agrees(u, running, quiet)
  BY <1>1, <1>3 DEF Agrees
<1>5. QED
  BY <1>2, <1>4 DEF u

LEMMA ChunkSaysNothing ==
  ASSUME NEW w \in Seq(Messages), NEW m \in Messages, m.type = "chunk",
         NEW running, NEW quiet, Agrees(w, running, quiet)
  PROVE  Agrees(Append(w, m), running, quiet) /\ (Silent(Append(w, m)) => Silent(w))
<1> DEFINE u == Append(w, m)
           n == Len(w) + 1
<1>1. /\ Len(w) \in Nat /\ DOMAIN u = 1..n /\ DOMAIN w = 1..Len(w) /\ u[n] = m
      /\ \A i \in 1..Len(w) : i \in 1..n /\ u[i] = w[i]
      /\ \A i \in 1..n : i # n => i \in 1..Len(w)
  OBVIOUS
<1> HIDE DEF u, n
<1>2. Silent(u) => Silent(w)
  BY <1>1 DEF Silent
<1>3. ASSUME NEW i \in DOMAIN u, Latest(u, i) PROVE i \in DOMAIN w /\ Latest(w, i) /\ u[i] = w[i]
  <2>1. i # n
    BY <1>1, <1>3 DEF Latest
  <2>2. i \in DOMAIN w /\ u[i] = w[i]
    BY <1>1, <2>1
  <2>3. \A j \in DOMAIN w : j > i => w[j].type = "chunk"
    BY <1>1, <1>3 DEF Latest
  <2>4. QED
    BY <1>3, <2>2, <2>3 DEF Latest
<1>4. Agrees(u, running, quiet)
  BY <1>3 DEF Agrees
<1>5. QED
  BY <1>2, <1>4 DEF u

LEMMA RestOfWire ==
  ASSUME NEW w \in Seq(Messages), w # <<>>, NEW running, NEW quiet, Agrees(w, running, quiet)
  PROVE  /\ Head(w) \in Messages /\ Tail(w) \in Seq(Messages)
         /\ Agrees(Tail(w), running, quiet)
         /\ Silent(Tail(w)) =>
              IF Head(w).type = "chunk" THEN Silent(w) ELSE Says(Head(w), running, quiet)
<1> DEFINE u == Tail(w)
<1>1. /\ Len(w) \in Nat /\ Len(w) >= 1 /\ DOMAIN w = 1..Len(w)
      /\ u \in Seq(Messages) /\ Head(w) = w[1] /\ Head(w) \in Messages
  OBVIOUS
<1>2. DOMAIN u = 1..Len(w) - 1 /\ \A i \in 1..Len(w) - 1 : u[i] = w[i + 1]
  OBVIOUS
<1> HIDE DEF u
<1>3. ASSUME NEW i \in DOMAIN u, Latest(u, i)
      PROVE  i + 1 \in DOMAIN w /\ Latest(w, i + 1) /\ u[i] = w[i + 1]
  <2>1. i + 1 \in DOMAIN w /\ u[i] = w[i + 1] /\ i \in Int
    BY <1>1, <1>2
  <2>2. ASSUME NEW j \in DOMAIN w, j > i + 1 PROVE w[j].type = "chunk"
    <3>1. j - 1 \in DOMAIN u /\ j - 1 > i /\ u[j - 1] = w[(j - 1) + 1] /\ (j - 1) + 1 = j
      BY <1>1, <1>2, <2>1, <2>2
    <3>2. u[j - 1].type = "chunk"
      BY <1>3, <3>1 DEF Latest
    <3>3. QED
      BY <3>1, <3>2
  <2>3. QED
    BY <1>3, <2>1, <2>2 DEF Latest
<1>4. Agrees(u, running, quiet)
  BY <1>3 DEF Agrees
<1>5. ASSUME Silent(u)
      PROVE  \A j \in DOMAIN w : j > 1 => w[j].type = "chunk"
  <2> TAKE j \in DOMAIN w
  <2> HAVE j > 1
  <2>1. j - 1 \in DOMAIN u /\ u[j - 1] = w[(j - 1) + 1] /\ (j - 1) + 1 = j
    BY <1>1, <1>2
  <2>2. u[j - 1].type = "chunk"
    BY <1>5, <2>1 DEF Silent
  <2>3. QED
    BY <2>1, <2>2
<1>6. ASSUME Silent(u), Head(w).type = "chunk" PROVE Silent(w)
  <2>1. \A j \in DOMAIN w : j = 1 \/ j > 1
    BY <1>1
  <2>2. QED
    BY <1>1, <1>5, <1>6, <2>1 DEF Silent
<1>7. ASSUME Silent(u), Head(w).type # "chunk" PROVE Says(Head(w), running, quiet)
  <2>1. 1 \in DOMAIN w /\ Latest(w, 1)
    BY <1>1, <1>5, <1>7 DEF Latest
  <2>2. QED
    BY <1>1, <2>1 DEF Agrees
<1>8. QED
  BY <1>1, <1>4, <1>6, <1>7 DEF u

\* What the others' steps need of a page: a visit that neither the feed nor the
\* analyzer touches shows what it did.
LEMMA SameShows ==
  ASSUME NEW v, Shows(v), link'[v] = link[v], wire'[v] = wire[v], missed'[v] = missed[v],
         streaming'[v] = streaming[v], shown'[v] = shown[v], UNCHANGED <<Running, silenced>>
  PROVE  Shows(v)'
BY DEF Shows, Agrees, Says, Silent, Latest

LEMMA FeedAlone ==
  ASSUME FeedInv, UNCHANGED feedVars, UNCHANGED <<asked, busy, batch, silenced>>
  PROVE  FeedInv'
<1>1. /\ FeedTypeOK' /\ wire' \in [Visits -> Seq(Messages)]
      /\ shown' \in [Visits -> Ids]
  BY DEF FeedInv, FeedTypeOK, feedVars
<1>2. UNCHANGED <<Running, silenced>>
  BY DEF Running
<1>3. ASSUME NEW v \in Visits PROVE Shows(v)'
  BY <1>2, SameShows DEF FeedInv, feedVars
<1>4. QED
  BY <1>1, <1>3 DEF FeedInv

\* A broadcast goes to every open page, and either says what the analyzer does now
\* or says nothing while the analyzer goes on.
LEMMA BroadcastKeepsFeed ==
  ASSUME FeedInv, NEW m \in Messages, Broadcast(m),
         asked' \subseteq Asks, silenced' \in BOOLEAN,
         \/ m.type # "chunk" /\ Says(m, Running', silenced')
         \/ m.type = "chunk" /\ UNCHANGED <<Running, silenced>>
  PROVE  FeedInv'
<1>1. /\ wire \in [Visits -> Seq(Messages)] /\ \A v \in Visits : Len(wire[v]) <= Wire
      /\ \A v \in Visits : link[v] = "open" => Len(wire[v]) < Wire
      /\ wire' = [v \in Visits |-> IF link[v] = "open" THEN Append(wire[v], m) ELSE wire[v]]
      /\ UNCHANGED <<page, link, streaming, shown, missed>>
  BY DEF FeedInv, FeedTypeOK, Broadcast, HasRoom
<1>2. ASSUME NEW v \in Visits
      PROVE  wire'[v] \in Seq(Messages) /\ Len(wire'[v]) <= Wire /\ Shows(v)'
  <2>1. wire[v] \in Seq(Messages) /\ Len(wire[v]) \in Nat /\ Shows(v)
    BY <1>1 DEF FeedInv
  <2>2. CASE link[v] # "open"
    <3>1. wire'[v] = wire[v]
      BY <1>1, <2>2
    <3>2. QED
      BY <1>1, <2>1, <2>2, <3>1 DEF Shows
  <2>3. CASE link[v] = "open"
    <3> DEFINE w == wire[v]
               u == Append(w, m)
    <3>1. wire'[v] = u /\ u \in Seq(Messages) /\ Len(u) = Len(w) + 1 /\ Len(w) < Wire
      BY <1>1, <2>1, <2>3
    <3>2. Len(u) <= Wire
      BY <2>1, <3>1, WireAssumption
    <3>3. CASE m.type # "chunk" /\ Says(m, Running', silenced')
      <4>1. Agrees(u, Running', silenced') /\ ~Silent(u)
        BY <2>1, <3>3, NewsIsLatest
      <4>2. Shows(v)'
        <5>1. Agrees(wire'[v], Running', silenced') /\ ~Silent(wire'[v])
          BY <3>1, <4>1
        <5> HIDE DEF u
        <5>2. Agrees(wire[v], Running, silenced)' /\ ~Silent(wire[v])'
          BY <5>1 DEF Agrees, Silent, Says, Latest
        <5>3. QED
          BY <1>1, <2>3, <5>2 DEF Shows
      <4>3. QED
        BY <3>1, <3>2, <4>2
    <3>4. CASE m.type = "chunk" /\ UNCHANGED <<Running, silenced>>
      <4>1. Agrees(u, Running, silenced) /\ (Silent(u) => Silent(w))
        <5>1. Agrees(w, Running, silenced)
          BY <2>1, <2>3 DEF Shows
        <5>2. QED
          BY <2>1, <3>4, <5>1, ChunkSaysNothing
      <4>2. Shows(v)'
        <5>1. /\ Agrees(wire'[v], Running', silenced')
              /\ Silent(wire'[v]) => Silent(wire[v])
          BY <3>1, <3>4, <4>1
        <5> HIDE DEF u, w
        <5>2. /\ Agrees(wire[v], Running, silenced)'
              /\ Silent(wire[v])' => Silent(wire[v])
          BY <5>1 DEF Agrees, Silent, Says, Latest
        <5>3. QED
          BY <1>1, <2>1, <2>3, <3>4, <5>2 DEF Shows
      <4>3. QED
        BY <3>1, <3>2, <4>2
    <3>5. QED
      BY <3>3, <3>4
  <2>4. QED
    BY <2>2, <2>3
<1>3. /\ wire' \in [Visits -> Seq(Messages)] /\ FeedTypeOK'
      /\ shown' \in [Visits -> Ids]
  <2>1. wire' \in [Visits -> Seq(Messages)] /\ \A v \in Visits : Len(wire'[v]) <= Wire
    BY <1>1, <1>2
  <2>2. QED
    BY <1>1, <2>1 DEF FeedInv, FeedTypeOK
<1>4. QED
  BY <1>2, <1>3 DEF FeedInv

\* One page moves; what it is about to show is left to prove.
LEMMA OnePageMoves ==
  ASSUME FeedInv, UNCHANGED <<Running, asked, silenced>>, NEW v \in Visits,
         NEW p \in {"unopened", "mounted", "left"}, page' = [page EXCEPT ![v] = p],
         NEW l \in {"none", "connecting", "open", "waiting"}, link' = [link EXCEPT ![v] = l],
         p = "unopened" <=> l = "none",
         NEW w \in Seq(Messages), wire' = [wire EXCEPT ![v] = w], Len(w) <= Wire,
         NEW s \in BOOLEAN, streaming' = [streaming EXCEPT ![v] = s],
         NEW its \in Ids, shown' = [shown EXCEPT ![v] = its],
         NEW x \in BOOLEAN, missed' = [missed EXCEPT ![v] = x],
         l # "open" => w = <<>> /\ (~x => ~s),
         l = "open" => /\ Agrees(w, Running, silenced)
                       /\ ~x /\ Silent(w) => IF s THEN its \in Running ELSE Running = {} \/ silenced
  PROVE  FeedInv'
<1>1. /\ FeedTypeOK /\ wire \in [Visits -> Seq(Messages)] /\ \A u \in Visits : Shows(u)
      /\ shown \in [Visits -> Ids]
  BY DEF FeedInv
<1>2. /\ page'[v] = p /\ link'[v] = l /\ wire'[v] = w /\ streaming'[v] = s /\ shown'[v] = its
      /\ missed'[v] = x
  BY <1>1 DEF FeedTypeOK
<1>3. \A u \in Visits : u # v =>
        /\ page'[u] = page[u] /\ link'[u] = link[u] /\ wire'[u] = wire[u]
        /\ streaming'[u] = streaming[u] /\ shown'[u] = shown[u] /\ missed'[u] = missed[u]
  BY <1>1 DEF FeedTypeOK
<1>4. /\ wire' \in [Visits -> Seq(Messages)] /\ FeedTypeOK'
      /\ shown' \in [Visits -> Ids]
  <2>1. wire' \in [Visits -> Seq(Messages)]
    BY <1>1
  <2>2. /\ page' \in [Visits -> {"unopened", "mounted", "left"}]
        /\ link' \in [Visits -> {"none", "connecting", "open", "waiting"}]
        /\ streaming' \in [Visits -> BOOLEAN] /\ missed' \in [Visits -> BOOLEAN]
        /\ DOMAIN wire' = Visits /\ DOMAIN shown' = Visits
    BY <1>1 DEF FeedTypeOK
  <2>3. \A u \in Visits : Len(wire'[u]) <= Wire /\ (page'[u] = "unopened" <=> link'[u] = "none")
    BY <1>1, <1>2, <1>3 DEF FeedTypeOK
  <2>4. shown' \in [Visits -> Ids]
    BY <1>1
  <2>5. QED
    BY <2>1, <2>2, <2>3, <2>4 DEF FeedTypeOK
<1>5. Shows(v)'
  <2>1. l = "open" => Agrees(wire[v], Running, silenced)' /\ (Silent(wire[v])' => Silent(w))
    BY <1>2 DEF Agrees, Silent, Says, Latest
  <2>2. QED
    BY <1>2, <2>1 DEF Shows
<1>6. ASSUME NEW u \in Visits, u # v PROVE Shows(u)'
  BY <1>1, <1>3, <1>6, SameShows
<1>7. QED
  BY <1>4, <1>5, <1>6 DEF FeedInv

LEMMA StepFeed ==
  AnalyzerInv /\ AnalyzerInv' /\ FeedInv /\ [AnalysisNext]_analysisVars => FeedInv'
<1> SUFFICES ASSUME AnalyzerInv, AnalyzerInv', FeedInv, [AnalysisNext]_analysisVars
             PROVE  FeedInv'
  OBVIOUS
<1>1. /\ FeedTypeOK /\ wire \in [Visits -> Seq(Messages)] /\ \A v \in Visits : Shows(v)
      /\ shown \in [Visits -> Ids] /\ asked \subseteq Asks /\ silenced \in BOOLEAN
      /\ batch \in Ids /\ batch' \in Ids
  <2>1. Anomalies \subseteq Anomalies \cup {Subject[k] : k \in Asks}
    OBVIOUS
  <2>2. \A b \in Seq(Anomalies) : b \in Ids
    BY <2>1 DEF Ids
  <2>3. QED
    BY <2>2 DEF FeedInv, AnalyzerInv, AnalyzerTypeOK
<1>2. ASSUME NEW a \in Anomalies, Drop(a) \/ Buffered(a), UNCHANGED <<feedVars, askVars>>
      PROVE  FeedInv'
  BY <1>2, FeedAlone DEF Drop, Buffered, SkipBatch, askVars
<1>3. CASE FiresInVain /\ UNCHANGED <<feedVars, askVars>>
  BY <1>3, FeedAlone DEF FiresInVain, SkipBatch, askVars
<1>4. CASE UNCHANGED analysisVars
  BY <1>4, FeedAlone DEF analysisVars, analyzerVars, askVars
\* A start that is broadcast is of something that runs from then on.
<1>5. ASSUME NEW ids \in Ids, Announces(ids), ids \in Running', asked' \subseteq Asks PROVE FeedInv'
  <2> DEFINE m == Message("start", ids)
  <2>1. m \in Messages /\ m.type = "start" /\ m.ids = ids
    BY DEF Message, Messages
  <2>2. Broadcast(m) /\ silenced' \in BOOLEAN
    BY <1>5 DEF Announces
  <2> HIDE DEF m
  <2>3. Says(m, Running', silenced')
    BY <1>5, <2>1 DEF Says
  <2>4. QED
    BY <1>5, <2>1, <2>2, <2>3, BroadcastKeepsFeed
<1>6. ASSUME NEW b, StartBatch(b), Announces(batch'), UNCHANGED asked PROVE FeedInv'
  <2>1. batch' \in Running' /\ asked' \subseteq Asks
    BY <1>1, <1>6 DEF StartBatch, Running
  <2>2. QED
    BY <1>1, <1>5, <1>6, <2>1
\* An end that is broadcast silences what still runs.
<1>7. ASSUME NEW type \in {"complete", "failed"}, NEW ids \in Ids, Finishes(type, ids),
             asked' \subseteq Asks
      PROVE  FeedInv'
  <2> DEFINE m == Message(type, ids)
  <2>1. m \in Messages /\ m.type \notin {"start", "chunk"}
    BY DEF Message, Messages
  <2>2. Broadcast(m) /\ silenced' = (Running' # {})
    BY <1>7 DEF Finishes
  <2> HIDE DEF m
  <2>3. Says(m, Running', silenced') /\ silenced' \in BOOLEAN
    BY <2>1, <2>2 DEF Says
  <2>4. QED
    BY <1>7, <2>1, <2>2, <2>3, BroadcastKeepsFeed
<1>8. CASE Analysed \/ Fails
  BY <1>1, <1>7, <1>8 DEF Analysed, Fails
<1>9. ASSUME NEW k \in Asks, AskStarts(k) \/ AskEnds(k) PROVE FeedInv'
  <2>1. <<Subject[k]>> \in Ids
    BY DEF Ids
  <2>2. CASE AskStarts(k)
    <3>1. <<Subject[k]>> \in Running' /\ asked' \subseteq Asks /\ Announces(<<Subject[k]>>)
      BY <1>1, <2>2 DEF AskStarts, Running
    <3>2. QED
      BY <1>5, <2>1, <3>1
  <2>3. CASE AskEnds(k)
    <3>1. PICK type \in {"complete", "failed"} : Finishes(type, <<Subject[k]>>)
      BY <2>3 DEF AskEnds
    <3>2. asked' \subseteq Asks
      BY <1>1, <2>3 DEF AskEnds
    <3>3. QED
      BY <1>7, <2>1, <3>1, <3>2
  <2>4. QED
    BY <1>9, <2>2, <2>3
<1>10. CASE Chunk
  <2> DEFINE m == Message("chunk", batch)
  <2>1. m \in Messages /\ m.type = "chunk"
    BY <1>1 DEF Message, Messages
  <2>2. Broadcast(m) /\ UNCHANGED <<asked, busy, batch, silenced>>
    BY <1>10 DEF Chunk, analyzerVars, askVars
  <2>3. UNCHANGED <<Running, silenced>>
    BY <2>2 DEF Running
  <2> HIDE DEF m
  <2>4. QED
    BY <1>1, <2>1, <2>2, <2>3, BroadcastKeepsFeed
<1>11. ASSUME NEW v \in Visits, Browser(v) PROVE FeedInv'
  <2>1. UNCHANGED <<Running, asked, silenced>>
    BY <1>11 DEF Browser, analyzerVars, askVars, Running
  <2>2. /\ page[v] \in {"unopened", "mounted", "left"}
        /\ link[v] \in {"none", "connecting", "open", "waiting"}
        /\ page[v] = "unopened" <=> link[v] = "none"
        /\ wire[v] \in Seq(Messages) /\ Len(wire[v]) <= Wire
        /\ streaming[v] \in BOOLEAN /\ missed[v] \in BOOLEAN
        /\ shown[v] \in Ids
        /\ Shows(v)
    BY <1>1 DEF FeedTypeOK
  <2>3. /\ page = [page EXCEPT ![v] = page[v]] /\ link = [link EXCEPT ![v] = link[v]]
        /\ wire = [wire EXCEPT ![v] = wire[v]] /\ missed = [missed EXCEPT ![v] = missed[v]]
        /\ streaming = [streaming EXCEPT ![v] = streaming[v]]
        /\ shown = [shown EXCEPT ![v] = shown[v]]
    BY <1>1 DEF FeedTypeOK
  <2>4. <<>> \in Seq(Messages) /\ Len(<<>>) <= Wire
    BY WireAssumption
  \* A page whose connection closes has missed something unless nothing goes on.
  <2>5. ASSUME NEW p \in {"mounted", "left"}, page' = [page EXCEPT ![v] = p],
               Closed(v, Running # {}), UNCHANGED <<streaming, shown>>
        PROVE  FeedInv'
    <3> DEFINE x == missed[v] \/ Running # {} \/ wire[v] # <<>>
               none == <<>>
    <3>1. link' = [link EXCEPT ![v] = "waiting"] /\ missed' = [missed EXCEPT ![v] = x]
      BY <2>5 DEF Closed
    <3>2. ~x => ~streaming[v]
      <4>1. wire[v] = <<>> => Silent(wire[v])
        BY DEF Silent
      <4>2. QED
        BY <2>2, <4>1 DEF Shows
    <3>3. wire' = [wire EXCEPT ![v] = none] /\ none \in Seq(Messages) /\ Len(none) <= Wire
      BY <2>4, <2>5 DEF Closed
    <3>4. x \in BOOLEAN /\ none = <<>>
      OBVIOUS
    <3> HIDE DEF x, none
    <3>5. QED
      BY <2>1, <2>2, <2>3, <2>5, <3>1, <3>2, <3>3, <3>4, OnePageMoves
  <2>6. CASE Visit(v)
    <3>1. /\ page' = [page EXCEPT ![v] = "mounted"] /\ link' = [link EXCEPT ![v] = "connecting"]
          /\ UNCHANGED <<wire, streaming, shown, missed>> /\ link[v] # "open"
      BY <2>2, <2>6 DEF Visit
    <3>2. wire[v] = <<>> /\ (~missed[v] => ~streaming[v])
      BY <2>2, <3>1 DEF Shows
    <3>3. QED
      BY <2>1, <2>2, <2>3, <3>1, <3>2, OnePageMoves
  <2>7. CASE Leave(v, Running # {})
    <3>1. page[v] = "mounted" /\ page' = [page EXCEPT ![v] = "left"] /\ UNCHANGED <<streaming, shown>>
      BY <2>7 DEF Leave
    <3>2. CASE Closed(v, Running # {})
      BY <2>5, <3>1, <3>2
    <3>3. CASE link[v] = "waiting" /\ UNCHANGED <<link, wire, missed>>
      <4>1. wire[v] = <<>> /\ (~missed[v] => ~streaming[v])
        BY <2>2, <3>3 DEF Shows
      <4>2. QED
        BY <2>1, <2>2, <2>3, <3>1, <3>3, <4>1, OnePageMoves
    <3>4. QED
      BY <2>7, <3>2, <3>3 DEF Leave
  <2>8. CASE Drops(v, Running # {})
    <3>1. page' = [page EXCEPT ![v] = page[v]] /\ page[v] \in {"mounted", "left"}
      BY <2>2, <2>3, <2>8 DEF Drops
    <3>2. QED
      BY <2>5, <2>8, <3>1 DEF Drops
  \* Nor has one that opens while nothing is analysed.
  <2>9. CASE Opens(v, Running # {})
    <3> DEFINE x == missed[v] \/ Running # {}
    <3>1. /\ link[v] = "connecting" /\ link' = [link EXCEPT ![v] = "open"]
          /\ missed' = [missed EXCEPT ![v] = x]
          /\ UNCHANGED <<page, wire, streaming, shown>>
      BY <2>9 DEF Opens
    <3>2. wire[v] = <<>> /\ (~missed[v] => ~streaming[v])
      BY <2>2, <3>1 DEF Shows
    <3>3. Agrees(wire[v], Running, silenced)
      BY <3>2 DEF Agrees
    <3>4. ~x => Running = {} /\ ~streaming[v]
      BY <3>2
    <3>5. x \in BOOLEAN
      OBVIOUS
    <3> HIDE DEF x
    <3>6. QED
      BY <2>1, <2>2, <2>3, <3>1, <3>3, <3>4, <3>5, OnePageMoves
  <2>10. CASE Reconnects(v)
    <3>1. /\ link[v] = "waiting" /\ link' = [link EXCEPT ![v] = "connecting"]
          /\ UNCHANGED <<page, wire, streaming, shown, missed>>
      BY <2>10 DEF Reconnects
    <3>2. wire[v] = <<>> /\ (~missed[v] => ~streaming[v])
      BY <2>2, <3>1 DEF Shows
    <3>3. QED
      BY <2>1, <2>2, <2>3, <3>1, <3>2, OnePageMoves
  <2>11. CASE Receives(v)
    <3> DEFINE m == Head(wire[v])
               w == Tail(wire[v])
    <3>1. /\ wire[v] # <<>> /\ wire' = [wire EXCEPT ![v] = w] /\ UNCHANGED <<page, link>>
      BY <2>11 DEF Receives
    <3>2. link[v] = "open" /\ Agrees(wire[v], Running, silenced)
      BY <2>2, <3>1 DEF Shows
    <3>3. /\ m \in Messages /\ w \in Seq(Messages) /\ Agrees(w, Running, silenced)
          /\ Silent(w) => IF m.type = "chunk" THEN Silent(wire[v]) ELSE Says(m, Running, silenced)
      BY <2>2, <3>1, <3>2, RestOfWire
    <3>4. Len(w) <= Wire
      BY <2>2, <3>1, WireAssumption
    <3>5. PICK s \in BOOLEAN, its \in Ids, x \in BOOLEAN :
            /\ streaming' = [streaming EXCEPT ![v] = s] /\ shown' = [shown EXCEPT ![v] = its]
            /\ missed' = [missed EXCEPT ![v] = x]
            /\ \/ m.type = "start" /\ s /\ its = m.ids
               \/ m.type \in {"complete", "failed"} /\ ~s
               \/ m.type = "chunk" /\ s = streaming[v] /\ its = shown[v] /\ x = missed[v]
      <4>1. /\ m.type \in {"start", "complete", "failed", "chunk"} /\ m.ids \in Ids
        BY <3>3 DEF Messages
      <4>2. \/ /\ m.type = "start" /\ streaming' = [streaming EXCEPT ![v] = TRUE]
               /\ shown' = [shown EXCEPT ![v] = m.ids] /\ missed' = [missed EXCEPT ![v] = FALSE]
            \/ /\ m.type \in {"complete", "failed"} /\ streaming' = [streaming EXCEPT ![v] = FALSE]
               /\ shown' = shown /\ missed' = [missed EXCEPT ![v] = FALSE]
            \/ /\ m.type = "chunk" /\ UNCHANGED <<streaming, shown, missed>>
        BY <2>11, <4>1 DEF Receives, Ends
      <4> HIDE DEF m, w
      <4>3. CASE m.type = "start"
        BY <4>1, <4>2, <4>3
      <4>4. CASE m.type \in {"complete", "failed"}
        BY <2>2, <2>3, <4>2, <4>4
      <4>5. CASE m.type = "chunk"
        BY <2>2, <2>3, <4>2, <4>5
      <4>6. QED
        BY <4>1, <4>3, <4>4, <4>5
    <3>6. ~x /\ Silent(w) => IF s THEN its \in Running ELSE Running = {} \/ silenced
      BY <2>2, <3>2, <3>3, <3>5 DEF Shows, Says
    <3> HIDE DEF m, w
    <3>7. QED
      BY <2>1, <2>2, <2>3, <3>1, <3>2, <3>3, <3>4, <3>5, <3>6, OnePageMoves
  <2>12. QED
    BY <1>11, <2>6, <2>7, <2>8, <2>9, <2>10, <2>11 DEF Browser
<1>12. ASSUME NEW a \in Anomalies, Detect(a) PROVE FeedInv'
  BY <1>2, <1>6, <1>12 DEF Detect, Fills, askVars
<1>13. CASE TimerFires
  BY <1>3, <1>6, <1>13 DEF TimerFires, FiresOnBatch, askVars
<1>14. QED
  BY <1>4, <1>8, <1>9, <1>10, <1>11, <1>12, <1>13 DEF AnalysisNext

LEMMA InitAnalysis == AnalysisInit => AnalyzerInv /\ FeedInv
<1> SUFFICES ASSUME AnalysisInit PROVE AnalyzerInv /\ FeedInv
  OBVIOUS
<1>1. AnalyzerInv
  <2>1. /\ buffer = <<>> /\ busy = FALSE /\ batch = <<>> /\ timer = "none" /\ strays = 0
        /\ fate = [a \in Anomalies |-> "undetected"]
    BY DEF AnalysisInit, AnalyzerInit
  <2>2. <<>> \in Seq(Anomalies) /\ Len(<<>>) <= MaxQueue /\ Len(<<>>) <= BatchSize
    BY QueueAssumption
  <2>3. AnalyzerTypeOK
    BY <2>1, <2>2 DEF AnalyzerTypeOK
  <2>4. QED
    BY <2>1, <2>3 DEF AnalyzerInv, BufferIsWatched, TimerInv
<1>2. \A v \in Visits :
        /\ page[v] = "unopened" /\ link[v] = "none" /\ wire[v] = <<>> /\ streaming[v] = FALSE
        /\ shown[v] = <<>> /\ missed[v] = FALSE
  BY DEF AnalysisInit, FeedInit
<1>3. /\ page \in [Visits -> {"unopened", "mounted", "left"}]
      /\ link \in [Visits -> {"none", "connecting", "open", "waiting"}]
      /\ streaming \in [Visits -> BOOLEAN] /\ missed \in [Visits -> BOOLEAN]
      /\ wire \in [Visits -> Seq(Messages)] /\ shown \in [Visits -> Ids]
  BY DEF AnalysisInit, FeedInit, Ids
<1>4. FeedTypeOK
  BY <1>2, <1>3, WireAssumption DEF FeedTypeOK
<1>5. \A v \in Visits : Shows(v)
  BY <1>2 DEF Shows
<1>6. asked \subseteq Asks /\ silenced \in BOOLEAN
  BY DEF AnalysisInit
<1>7. QED
  BY <1>1, <1>3, <1>4, <1>5, <1>6 DEF FeedInv

LEMMA AnalysisInvHolds == AnalysisSpec => [](AnalyzerInv /\ FeedInv)
<1>1. AnalyzerInv /\ FeedInv /\ [AnalysisNext]_analysisVars => AnalyzerInv' /\ FeedInv'
  BY StepAnalyzer, StepFeed
<1>2. QED
  BY <1>1, InitAnalysis, PTL DEF AnalysisSpec

(* Whatever the sizes of the queue and of a batch, and however timers interleave
   with batches: the buffer keeps to its limit, and what waits in it is watched.   *)
THEOREM WaitingIsWatched == AnalysisSpec => []AnalysisTypeOK
<1>1. AnalyzerInv /\ FeedInv => AnalysisTypeOK
  BY DEF AnalyzerInv, FeedInv, AnalysisTypeOK
<1>2. QED
  BY <1>1, AnalysisInvHolds, PTL

(* Whatever is broadcast while pages connect, break and leave: a connected page that
   has read everything and missed nothing shows an analysis that runs, or shows none
   because none runs or one ended beside another (onmessage, POST /analyze).       *)
THEOREM PageIsRight == AnalysisSpec => []PageShowsTheAnalysis
<1>1. FeedInv => PageShowsTheAnalysis
  <2> SUFFICES ASSUME FeedInv, NEW v \in Visits,
                      link[v] = "open", wire[v] = <<>>, ~missed[v]
               PROVE  IF streaming[v] THEN shown[v] \in Running ELSE Running = {} \/ silenced
    BY DEF PageShowsTheAnalysis
  <2>1. Silent(wire[v]) /\ Shows(v)
    BY DEF Silent, FeedInv
  <2>2. QED
    BY <2>1 DEF Shows
<1>2. QED
  BY <1>1, AnalysisInvHolds, PTL
=============================================================================
