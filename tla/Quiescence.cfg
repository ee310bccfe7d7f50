SPECIFICATION FairSpec
CONSTANTS
    a = a
    b = b
    Node = {a, b}
    Multicast = Multicast
    NoMsg = NoMsg
    Body = {1, 2}
    NoBody = NoBody
    MaxTid = 9
    StopWhen = 2
    RtxWhen = 1
    MaxRtx = 1
    EmptyValid = FALSE
    Wrapped = 99
    Traffic <- OneRequest
    LocalTid = {8}
    MaxFaults = 0
    Starts <- Apart
PROPERTIES Quiesces EveryTransactionEnds
