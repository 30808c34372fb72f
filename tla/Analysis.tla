-------------------------------- MODULE Analysis --------------------------------
(***************************************************************************)
(* StreamAnalyzer and MonitorFeed together: what is analysed is broadcast   *)
(* as it happens, and a page should show what is analysed.                  *)
(*                                                                         *)
(* Two parts of the server analyse: the stream analyzer, one batch at a     *)
(* time, and POST /api/monitor/analyze (server/monitor/routes.ts), each     *)
(* request by itself and without a look at the analyzer's isProcessing.     *)
(* Both tell every page when they start and end.                           *)
(***************************************************************************)
EXTENDS StreamAnalyzer, MonitorFeed

CONSTANTS
  Asks,      \* POST /analyze requests; each may be made again once it has ended
  Subject    \* per request: the anomaly it names

VARIABLES
  asked,     \* the requests whose analysis is running
  silenced   \* history: the last broadcast start or end was an end while
             \* another analysis ran

askVars == <<asked, silenced>>
analysisVars == <<analyzerVars, feedVars, askVars>>

AnalysisInit == AnalyzerInit /\ FeedInit /\ asked = {} /\ silenced = FALSE

\* What is being analysed.
Running == {<<Subject[k]>> : k \in asked} \cup (IF busy THEN {batch} ELSE {})

Announces(ids) == Broadcast(Message("start", ids)) /\ silenced' = FALSE
Finishes(type, ids) == Broadcast(Message(type, ids)) /\ silenced' = (Running' # {})

\* anomalyDetector found an anomaly.
Detect(a) ==
  /\ \/ (Drop(a) \/ Buffered(a)) /\ UNCHANGED <<feedVars, silenced>>
     \/ Fills(a) /\ Announces(batch')
  /\ UNCHANGED asked

TimerFires ==
  /\ \/ FiresInVain /\ UNCHANGED <<feedVars, silenced>>
     \/ FiresOnBatch /\ Announces(batch')
  /\ UNCHANGED asked

Chunk ==
  /\ busy
  /\ Broadcast(Message("chunk", batch))
  /\ UNCHANGED <<analyzerVars, askVars>>

Analysed == EndBatch("analysed") /\ UNCHANGED asked /\ Finishes("complete", batch)
Fails == EndBatch("failed") /\ UNCHANGED asked /\ Finishes("failed", batch)

\* POST /analyze announces its analysis, starts it and answers at once.
AskStarts(k) ==
  /\ k \notin asked
  /\ asked' = asked \cup {k}
  /\ Announces(<<Subject[k]>>)
  /\ UNCHANGED analyzerVars

\* analyzeAnomaly's promise is kept or broken.
AskEnds(k) ==
  /\ k \in asked
  /\ asked' = asked \ {k}
  /\ UNCHANGED analyzerVars
  /\ \E type \in {"complete", "failed"} : Finishes(type, <<Subject[k]>>)

Browser(v) ==
  /\ \/ Visit(v) \/ Reconnects(v) \/ Receives(v)
     \/ Leave(v, Running # {}) \/ Drops(v, Running # {}) \/ Opens(v, Running # {})
  /\ UNCHANGED <<analyzerVars, askVars>>

AnalysisNext ==
  \/ \E a \in Anomalies : Detect(a)
  \/ TimerFires \/ Chunk \/ Analysed \/ Fails
  \/ \E k \in Asks : AskStarts(k) \/ AskEnds(k)
  \/ \E v \in Visits : Browser(v)

\* Timers fire, the language model's answer to a batch ends one way or the other,
\* and the network delivers.
AnalysisFairness ==
  /\ SF_analysisVars(TimerFires)
  /\ SF_analysisVars(Analysed \/ Fails)
  /\ \A v \in Visits : WF_analysisVars(Receives(v) /\ UNCHANGED <<analyzerVars, askVars>>)

AnalysisSpec == AnalysisInit /\ [][AnalysisNext]_analysisVars /\ AnalysisFairness

-----------------------------------------------------------------------------
(* Properties *)

\* Every variable stays in its range, no timer is needed that is not armed.
AnalysisTypeOK ==
  AnalyzerTypeOK /\ FeedTypeOK /\ BufferIsWatched /\ asked \subseteq Asks /\ silenced \in BOOLEAN

\* A connected page that has received everything sent to it shows an analysis
\* only while it runs, and shows none only when none runs or one ended beside
\* another: onmessage takes every analysis-complete for the end of what it
\* shows, so batches and analyses on demand silence one another until the next
\* start.  Out of this is a page that was not connected when an analysis started
\* or ended: wsServer tells a new client nothing, and a page whose connection
\* broke goes on showing what it showed.  The next start or end puts it right.
PageShowsTheAnalysis ==
  \A v \in Visits :
    (link[v] = "open" /\ wire[v] = <<>> /\ ~missed[v])
      => IF streaming[v] THEN shown[v] \in Running ELSE Running = {} \/ silenced
=============================================================================
