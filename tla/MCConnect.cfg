\* The sizes of the build to scale: a read of stdin is one byte more than the RX
\* FIFO takes, and the answers to it fit in the TX FIFO with room to spare
\* (16 * 14 < 256 there, 3 * 2 < 7 here).
SPECIFICATION FairSpec
CONSTANTS
    TxSize = 7
    RxSize = 3
    Replies = {1, 2}
    ReadSizes = {1, 2, 3}
INVARIANTS
    TypeOK
    SleepIsSafe
    NoEmbrace
PROPERTIES
    OutputDelivered
    EofEnds
    StallEnds
