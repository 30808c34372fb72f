SPECIFICATION Spec
CONSTANTS
    Monitored <- MCMonitored
    Traces <- MCTraces
    At <- MCAt
    Of <- MCOf
    Limit = 2
    MaxRuns = 2
INVARIANTS
    NothingSkipped
    TablesCountWhatWasGathered
