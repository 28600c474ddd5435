\* Violated: see PokeReturnsWritten in MCMuxbusDoc.
SPECIFICATION Spec
CONSTANTS
    Registers = {r}
    Stream = adc
    Values = {0, 1}
    MaxCount = 2
    RxCap = 15
    TxCap = 4
    MaxCalls = 3
    MaxKills = 1
INVARIANT PokeReturnsWritten
CHECK_DEADLOCK FALSE
