CONSTANTS
    a = a  b = b  u1 = u1  u2 = u2  v = v  w = w  la = la  lb = lb  up = up  det = det  none = none
    Node = {a, b}
    User = {u1, u2, v, w}
    Link = {la, lb}
    Event = {up, det}
    home <- MCHome
    Broad = {det}
    Supported <- All
    Request <- RequestSet
    NoReq = none
    Batches <- Together
    MaxOwn = 1
    FirstTid <- MCTid
    LinkDelete = 1
SPECIFICATION Spec
CHECK_DEADLOCK FALSE
INVARIANTS
    LinkCovers PeerCovers EventsWanted RelayedOnRequest AnswersFit DiesOnGivenUpLinkOnly
PROPERTIES
    SubscriptionAnswered
