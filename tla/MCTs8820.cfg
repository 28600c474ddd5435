SPECIFICATION Spec
CONSTANTS
    Commands <- MCCommands
    MaxRuns = 2
    Chunk = 3
    Block = 4
    Limit = 7
    Ring = 12
    Depth = 5
INVARIANTS
    RingKept
    OutputAsAsked
    CommandEffect
PROPERTIES
    BrakeStopsFirst
    CallsEnd
CHECK_DEADLOCK FALSE
