CONSTANTS
    a = a  b = b  c = c
    u = u  v = v  w = w  dns = dns  dhcp = dhcp
    la = la  lb = lb
    up = up  det = det  get = get  ho = ho  rdf = rdf
    none = none  all = all
    Node = {a, b, c}
    User = {u, v, w, dns, dhcp}
    Link = {la, lb}
    Event = {up, det}
    Cmd = {get, ho}
    Query = {rdf}
    home <- MCHome
    Supported <- MCSupported
    Serves <- MCServes
    Order <- MCOrder
    Results <- MCResults
    Static <- MCStatic
    Peers <- MCPeers
    Request <- RequestSet
    Nobody = none
    Batches <- MCBatches
    FirstTid <- MCTid
    LinkDelete = 1
    Valid <- MCValid
    Span = 3
    All = all
SPECIFICATION Spec
INVARIANTS AdvertisedHonest ConfirmsFit
PROPERTIES IntervalFollowsGrant RequestAnswered DiscoveryEnds
CHECK_DEADLOCK FALSE
