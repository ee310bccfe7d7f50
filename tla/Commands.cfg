SPECIFICATION FairSpec
CONSTANTS
    u1 = u1
    u2 = u2
    p = p
    l1 = l1
    l2 = l2
    User = {u1, u2}
    Peer = {p}
    Link = {l1, l2}
    Mihf = Mihf
    Mobile <- MobileUsers
    Request <- Mixed
    FirstTid = 10
    LinkDelete = 1
    MaxRequests = 3
INVARIANTS InactiveAfterFailures AnswersFit DiesOnClashOnly
PROPERTY AggregatesAnswered
CHECK_DEADLOCK FALSE
