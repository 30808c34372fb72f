----------------------------- MODULE StreamAnalyzer -----------------------------
(***************************************************************************)
(* The queue in front of the language model (server/monitor/                *)
(* stream-analyzer.ts): anomalies are buffered, and analysed a batch at a   *)
(* time when the buffer holds a batch or when the batch timer fires.        *)
(*                                                                         *)
(* batchTimer is one field, but several timers can be armed: the end of a   *)
(* batch overwrites the field without clearing the timer it held, and the   *)
(* field keeps a timer that has fired for nothing.                         *)
(***************************************************************************)
EXTENDS Naturals, SequencesExt

CONSTANTS
  Anomalies,  \* anomalies of severity 1 to 3 the detector may find
  BatchSize,  \* BATCH_SIZE
  MaxQueue    \* MAX_QUEUE_SIZE

ASSUME QueueAssumption == BatchSize \in Nat \ {0} /\ MaxQueue \in Nat \ {0}

VARIABLES
  buffer,     \* the buffer
  busy,       \* isProcessing
  batch,      \* the batch that is being analysed
  timer,      \* batchTimer: "none", "armed", or "spent" once it fired in vain
  strays,     \* armed timers that are no longer in batchTimer
  fate        \* per anomaly: where it is, or how it ended

analyzerVars == <<buffer, busy, batch, timer, strays, fate>>

AnalyzerInit ==
  /\ buffer = <<>>
  /\ busy = FALSE
  /\ batch = <<>>
  /\ timer = "none"
  /\ strays = 0
  /\ fate = [a \in Anomalies |-> "undetected"]

First(s) == SubSeq(s, 1, IF Len(s) < BatchSize THEN Len(s) ELSE BatchSize)
AllAre(s, what) == [a \in Anomalies |-> IF a \in ToSet(s) THEN what ELSE fate[a]]

\* processBatch on a buffer, found by a caller that leaves batchTimer at t; it
\* returns at once when there is nothing to do or a batch is being processed.
MayProcess(b) == b # <<>> /\ ~busy

StartBatch(b) ==
  /\ MayProcess(b)
  /\ timer' = "none"
  /\ busy' = TRUE
  /\ batch' = First(b)
  /\ buffer' = SubSeq(b, Len(First(b)) + 1, Len(b))

SkipBatch(b, t) ==
  /\ ~MayProcess(b)
  /\ buffer' = b
  /\ timer' = t
  /\ UNCHANGED <<busy, batch>>

-----------------------------------------------------------------------------
(* enqueue *)

Drop(a) ==
  /\ fate[a] = "undetected"
  /\ Len(buffer) >= MaxQueue
  /\ fate' = [fate EXCEPT ![a] = "dropped"]
  /\ UNCHANGED <<buffer, busy, batch, timer, strays>>

Accept(a) ==
  /\ fate[a] = "undetected"
  /\ Len(buffer) < MaxQueue
  /\ fate' = [fate EXCEPT ![a] = "accepted"]
  /\ UNCHANGED strays

\* The anomaly waits for the batch to fill or the timer to fire.
Buffered(a) ==
  LET b == Append(buffer, a)
  IN  /\ Accept(a)
      /\ \/ Len(b) >= BatchSize /\ SkipBatch(b, timer)
         \/ /\ Len(b) < BatchSize
            /\ buffer' = b
            /\ timer' = IF timer = "none" THEN "armed" ELSE timer
            /\ UNCHANGED <<busy, batch>>

\* The anomaly fills a batch.
Fills(a) ==
  LET b == Append(buffer, a)
  IN  Accept(a) /\ Len(b) >= BatchSize /\ StartBatch(b)

-----------------------------------------------------------------------------
(* the batch timer *)

\* One of the armed timers fires: batchTimer's own, which batchTimer then still
\* holds, or a stray one.
Fires(t) ==
  /\ UNCHANGED fate
  /\ \/ timer = "armed" /\ t = "spent" /\ UNCHANGED strays
     \/ strays > 0 /\ t = timer /\ strays' = strays - 1

FiresInVain == \E t \in {"none", "armed", "spent"} : Fires(t) /\ SkipBatch(buffer, t)

\* clearTimeout: when a stray timer fires, batchTimer's is disarmed.
FiresOnBatch == \E t \in {"none", "armed", "spent"} : Fires(t) /\ StartBatch(buffer)

-----------------------------------------------------------------------------
(* the end of a batch *)

\* Mutant: what arrived during the batch waits for the next anomaly.
Rearm_never == UNCHANGED <<timer, strays>>

Rearm ==
  \/ buffer = <<>> /\ UNCHANGED <<timer, strays>>
  \/ /\ buffer # <<>>
     /\ timer' = "armed"
     /\ strays' = IF timer = "armed" THEN strays + 1 ELSE strays

\* streamAnalysis returned, or threw: the request or the stream failed.
EndBatch(how) ==
  /\ busy
  /\ busy' = FALSE
  /\ batch' = <<>>
  /\ fate' = AllAre(batch, how)
  /\ Rearm
  /\ UNCHANGED buffer

-----------------------------------------------------------------------------
(* Properties *)

AnalyzerTypeOK ==
  /\ buffer \in Seq(Anomalies) /\ Len(buffer) <= MaxQueue
  /\ busy \in BOOLEAN
  /\ batch \in Seq(Anomalies) /\ Len(batch) <= BatchSize
  /\ busy <=> batch # <<>>
  /\ timer \in {"none", "armed", "spent"}
  /\ strays \in Nat
  /\ fate \in [Anomalies -> {"undetected", "accepted", "analysed", "failed", "dropped"}]

\* Waiting anomalies are watched: a batch is being processed, whose end arms a
\* timer, or a timer is armed.
BufferIsWatched == buffer # <<>> => busy \/ timer = "armed" \/ strays > 0

\* Every anomaly the detector hands over is analysed, reported as failed or
\* dropped because the queue was full, as long as requests to the language
\* model end: none waits for ever behind a timer that fired in vain.
EveryAnomalyIsHandled ==
  \A a \in Anomalies : fate[a] = "accepted" ~> fate[a] \in {"analysed", "failed"}
=============================================================================
