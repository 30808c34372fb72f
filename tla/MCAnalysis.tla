----------------------------- MODULE MCAnalysis -----------------------------
(* An instance of Analysis for TLC. *)
EXTENDS Analysis, TLC
CONSTANTS a1, a2, a3, a4, k1, k2, v1

\* One request names an anomaly the analyzer may have in a batch, one a trace
\* that is no active anomaly.
Named == [k \in {k1, k2} |-> IF k = k1 THEN a1 ELSE k2]

\* Anomalies are interchangeable but for the one k1 names: they are detected in
\* this order.
Order == <<a1, a2, a3, a4>>
InOrder ==
  \A i \in 2..4 : fate'[Order[i]] # "undetected" => fate'[Order[i - 1]] # "undetected"

MCSpec == AnalysisInit /\ [][AnalysisNext /\ InOrder]_analysisVars /\ AnalysisFairness
=============================================================================
