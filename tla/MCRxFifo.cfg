\* A ring of 5 slots and 12 bytes: every put size up to one more than the ring
\* can take, two laps, processes that come and go.
SPECIFICATION FairSpec
CONSTANTS
    RxSize = 5
    PutSizes = {1, 2, 3, 4, 5}
    MaxSend = 12
INVARIANT IInv
PROPERTIES
    ChannelSpec
    RoomReturns
    EveryByteTaken
