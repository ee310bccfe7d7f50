SPECIFICATION Spec
CONSTANTS
    a = a
    b = b
    Node = {a, b}
    Multicast = Multicast
    NoMsg = NoMsg
    Body = {1, 2, 3, 4}
    NoBody = NoBody
    MaxTid = 9
    StopWhen = 2
    RtxWhen = 1
    MaxRtx = 1
    EmptyValid = FALSE
    Wrapped = 99
    Traffic <- PairOrGroup
    LocalTid = {8}
    MaxFaults = 1
    Starts <- ApartOrClose
INVARIANTS TypeOK DroppedIsDecided
PROPERTIES NoRepeatWhilePending ImplementsExchange
