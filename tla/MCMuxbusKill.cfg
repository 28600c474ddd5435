\* The same with one process that dies, and a TX FIFO that its answer may fill.
SPECIFICATION FairSpec
CONSTANTS
    Registers = {r}
    Stream = adc
    Values = {0, 1}
    MaxCount = 2
    RxCap = 15
    TxCap = 4
    MaxCalls = 3
    MaxKills = 1
INVARIANTS
    InStep
    WholeWords
PROPERTY StallEnds
\* A process that connects while the ZPU still answers a dead one may lose its
\* interrupt and wait in a select() without timeout for ever.
CHECK_DEADLOCK FALSE
