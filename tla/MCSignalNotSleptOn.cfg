\* Violated: see SignalNotSleptOn in MCConnectDoc.
SPECIFICATION Spec
CONSTANTS
    TxSize = 4
    RxSize = 3
    Replies = {1, 3}
    ReadSizes = {1, 4}
INVARIANT SignalNotSleptOn
