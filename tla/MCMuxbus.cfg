\* One register of two values, streams of up to two words, no deaths.
SPECIFICATION FairSpec
CONSTANTS
    Registers = {r}
    Stream = adc
    Values = {0, 1}
    MaxCount = 2
    RxCap = 10
    TxCap = 4
    MaxCalls = 4
    MaxKills = 0
INVARIANT TypeOK
PROPERTIES
    AtomicAccess
    CallsReturn
