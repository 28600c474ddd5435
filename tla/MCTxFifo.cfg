\* A ring of 3 slots and 9 bytes: three laps, every get size,
\* reconnections.
SPECIFICATION Spec
CONSTANTS
    TxSize = 3
    ByteMod = 3
    GetSizes = {1, 2, 3}
    MaxSend = 9
INVARIANTS
    IInv
    GetReadsSomething
    StallIsAnnounced
PROPERTIES
    ChannelSpec
