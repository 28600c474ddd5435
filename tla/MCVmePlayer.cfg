SPECIFICATION Spec
CONSTANTS
    Images <- Files
    Tries = 3
INVARIANTS
    TypeOK
    TapInStep
    ScansComplete
    ResetAtEnd
    PollReadsFresh
    Programmed
    NoDataPlayed
    BuffersFit
    SourceMatchesLoop
PROPERTIES
    ShiftOfThisRound
    
