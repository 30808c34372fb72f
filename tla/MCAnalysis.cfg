\* Four anomalies, batches of two, a queue of two, two requests beside them, one
\* visit to the page that is left.
SPECIFICATION MCSpec
CONSTANTS
  a1 = a1
  a2 = a2
  a3 = a3
  a4 = a4
  k1 = k1
  k2 = k2
  v1 = v1
  Anomalies = {a1, a2, a3, a4}
  BatchSize = 2
  MaxQueue = 2
  Asks = {k1, k2}
  Subject <- Named
  Visits = {v1}
  Wire = 1
INVARIANTS
  AnalysisTypeOK
  PageShowsTheAnalysis
PROPERTY
  EveryAnomalyIsHandled
CHECK_DEADLOCK FALSE
