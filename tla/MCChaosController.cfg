SPECIFICATION ChaosSpec
CONSTANTS
    Phases = 1
    MaxStarts = 3
    MaxCollections = 2
    Fetches = 2
INVARIANT
    FrozenWhileScenarioRuns
PROPERTIES
    OnlyStragglersChangeFrozen
    ChaosEnds
