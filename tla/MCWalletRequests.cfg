SPECIFICATION FairRequestsSpec
CONSTANTS
    reader = reader
    lateMover = lateMover
    converter = converter
    locker = locker
    creator = creator
    Requests <- MCRequests
    Kind <- MCKind
    MaxConnections = 2
INVARIANTS
    RequestsTypeOK
    FreshUnlessRaced
PROPERTY
    EveryRequestEnds
CHECK_DEADLOCK FALSE
