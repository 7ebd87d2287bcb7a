SPECIFICATION StreamSpec
CONSTANTS
    Scenarios <- MCScenarios
    BatchItems = 2
    PageLimit = 2
INVARIANTS
    StreamExact
    NoChunkStuck
    NoLostWakeup
    FollowerExact
PROPERTIES
    StreamEnds
CHECK_DEADLOCK FALSE
