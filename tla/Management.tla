----------------------------- MODULE Management ------------------------------
(***************************************************************************)
(* Service management (src/src/mihf/service_management.cpp), discovery     *)
(* (discover_service.cpp) and information (information_service.cpp) of     *)
(* several MIHFs, with their books of links, users and peers.              *)
(*                                                                         *)
(* Links and users register with their MIHF, which learns what they can do *)
(* and tells its peers.  A user asks for the capabilities of a MIHF,       *)
(* registers with it, asks it for information, or pushes some; the MIHF    *)
(* that is asked passes registrations and questions on to its users.       *)
(* Discovery users find the peers that a user does not know.               *)
(* Messages between MIHFs may be lost.  A message remembers the request it *)
(* belongs to (req), which no handler reads.                               *)
(***************************************************************************)
EXTENDS LocalPool, Functions

CONSTANTS
    Node, User, Link, Event, Cmd, Query,
    home,        \* the MIHF of a user or link
    Supported,   \* Supported[l].events, Supported[l].cmds: what the link l can do
    Serves,      \* Serves[u].cmds, Serves[u].queries: what the user u registers with
    Order,       \* Order[n]: the discovery users of n, in the order they are asked
    Results,     \* what a discovery user may find: [ok, found, all]
    Static,      \* the users and links in the configuration files
    Peers,       \* Peers[n]: the peers in the configuration file of n
    Request,     \* the requests of users, and what users and links do unasked
    Batches,     \* the sets of requests that are sent together
    FirstTid,
    LinkDelete,  \* the failures after which a link is given up
    Valid,       \* Valid[u]: for how long u accepts a registration
    Span,        \* the number of intervals, 2^16 in the code
    All,         \* the empty MIHF identifier: everybody
    Nobody

UserKinds == {"caps", "register", "deregister", "info", "push", "start", "report"}
LinkKinds == {"linkstart", "used", "heard"}

\* Everybody has one identifier and one MIHF.
ASSUME SetsAssumption ==
    /\ Node \cap User = {} /\ Node \cap Link = {} /\ User \cap Link = {}
    /\ All \notin Node \cup User \cup Link /\ Nobody \notin Node \cup User \cup Link \cup {All}
    /\ home \in [User \cup Link -> Node]
    /\ \A n \in Node : \A i \in DOMAIN Order[n] : Order[n][i] \in User /\ home[Order[n][i]] = n

ASSUME RequestAssumption ==
    /\ Request \subseteq
           [kind : UserKinds, from : User, to : Node \cup {All}, tid : Nat] \cup
           [kind : LinkKinds, from : Link, to : Node, tid : Nat]
    /\ \A r \in Request : r.to = All => r.kind = "caps"
    /\ \A B \in Batches : B \subseteq Request

ASSUME ServiceAssumption ==
    /\ Supported \in [Link -> [events : SUBSET Event, cmds : SUBSET Cmd]]
    /\ Serves \in [User -> [cmds : SUBSET Cmd, queries : SUBSET Query]]

ASSUME BoundAssumption ==
    /\ LinkDelete \in Nat /\ FirstTid \in [Node -> Nat]
    /\ Span \in Nat \ {0} /\ Valid \in [User -> 0 .. Span - 1]

VARIABLES
    users,       \* user_book: the registered users
    book,        \* link_book
    abook,       \* address_book: abook[n][m] is what n knows of m, itself included
    lpool,       \* local_transaction_pool
    tid,         \* message_out::_tid
    enabled,     \* the configuration allows unsolicited discovery
    toLink, fromLink,   \* capability discovery of links
    toUser,      \* the indications that users have yet to answer
    net,         \* the messages between MIHFs
    sent,        \* the requests so far
    confirms,    \* the confirmations that users received
    told,        \* the other indications that users received
    granted,     \* the registrations that a user accepted: <<asking MIHF, MIHF, interval>>
    lost         \* the requests with a message that was lost or had nowhere to go

books == <<users, book, abook>>
wires == <<toLink, fromLink, toUser, net>>
hist  == <<sent, confirms, told, granted, lost>>
vars  == <<books, lpool, tid, enabled, wires, hist>>

-----------------------------------------------------------------------------
(***************************************************************************)
(* Capabilities                                                            *)
(***************************************************************************)
NoCaps == [links |-> {}, events |-> {}, cmds |-> {}, queries |-> {}]

Active(n, bk) == {l \in Link : home[l] = n /\ bk[l].status}

\* update_local_capabilities.  The lists start full, so that without an active
\* link the commands of users are added to all commands; without a command of a
\* user there are none.  Repeated addresses are left out, and a list that is
\* absent is empty.
Capabilities(n, bk, us) ==
    LET L == Active(n, bk)
        U == {u \in us : home[u] = n}
        served == UNION {Serves[u].cmds : u \in U}
    IN  [links   |-> L,
         events  |-> IF L = {} THEN {} ELSE {e \in Event : \A l \in L : e \in bk[l].events},
         cmds    |-> IF served = {} THEN {} ELSE served \cup {x \in Cmd : \A l \in L : x \in bk[l].cmds},
         queries |-> UNION {Serves[u].queries : u \in U}]

\* update_local_capabilities, called with the books bk and us.
Updated(n, bk, us) == [abook EXCEPT ![n][n].caps = Capabilities(n, bk, us)]

\* address_book::add of get_capabilities: an entry without a registration.
Learnt(n, m, caps) ==
    [abook EXCEPT ![n][m] = [known |-> TRUE, caps |-> caps, reg |-> FALSE, interval |-> {}]]

\* address_book::set_registration of the list.  The interval, an optional number,
\* becomes 0, which is not none.
ListSet(n, m) ==
    [abook EXCEPT ![n][m] = IF @.known THEN [@ EXCEPT !.reg = TRUE, !.interval = {0}] ELSE @]

\* address_book::set_registration of the interval
IntervalSet(n, m, v) ==
    [abook EXCEPT ![n][m] = IF @.known THEN [@ EXCEPT !.interval = {v}] ELSE @]

\* Both, with neither a list nor an interval.
Deregistered(n, m) ==
    [abook EXCEPT ![n][m] = IF @.known THEN [@ EXCEPT !.reg = FALSE, !.interval = {}] ELSE @]

\* One second less of the optional interval i; after 0 comes the largest number.
Less(i) == {(v - 1) % Span : v \in i}

\* address_book::tick, once a second
Tick(n) ==
    /\ abook' = [abook EXCEPT ![n] = [m \in Node |-> [abook[n][m] EXCEPT !.interval = Less(@)]]]
    /\ UNCHANGED <<users, book, lpool, tid, enabled, wires, hist>>

-----------------------------------------------------------------------------
(***************************************************************************)
(* Messages                                                                *)
(***************************************************************************)
NetMsg(type, kind, src, dst, t, ok, caps, r) ==
    [type |-> type, kind |-> kind, src |-> src, dst |-> dst, tid |-> t, ok |-> ok, caps |-> caps,
     valid |-> 0, req |-> r]

Ind(u, kind, from, t, r) == [user |-> u, kind |-> kind, from |-> from, tid |-> t, req |-> r]

\* transmit of a confirmation to a registered user
Confirmed(u, kind, src, t, r, by) ==
    confirms \cup {[user |-> u, kind |-> kind, src |-> src, tid |-> t, req |-> r, by |-> by]}

UsersOf(n) == {u \in users : home[u] = n}

\* The users that answer queries.
Servers(n) == {u \in UsersOf(n) : Serves[u].queries # {}}

\* The MIHFs that receive what n sends to dst: net_sap::send finds a peer in the
\* address book, or is told its address (at) by the message; what goes to
\* everybody goes to that address too, if there is one.  A MIHF drops what comes
\* from itself (sac_process_message).
Reached(n, dst, at) ==
    {m \in Node \ {n} : IF dst = All THEN at \in {Nobody, m}
                         ELSE m = dst /\ (abook[n][m].known \/ at = m)}

\* utils::forward_request by way of message_out, which numbers the message.
Forwarded(pool, u, dst, lt, rt) == SetRemoteTid(Append(pool, Entry(u, dst, lt)), dst, lt, rt)

\* The pool of n after the same message was sent to one after the other of dsts for
\* the user u, who numbered it t: after the first time the message is from n, with
\* the number that n gave it.
Fan(n, u, t, dsts, pool) ==
    LET after[i \in 0 .. Len(dsts)] ==
            IF i = 0 THEN pool
            ELSE Forwarded(after[i - 1], IF i = 1 THEN u ELSE n, dsts[i],
                           IF i = 1 THEN t ELSE tid[n] + i - 1, tid[n] + i)
    IN  after[Len(dsts)]

\* The messages: at[i] is the address that the message has by then.
Sends(n, dsts, at, kind, r) ==
    LET type == IF kind = "push" THEN "indication" ELSE "request"
        caps == IF kind = "caps" THEN abook[n][n].caps ELSE NoCaps
    IN  /\ tid' = [tid EXCEPT ![n] = @ + Len(dsts)]
        /\ net' = net \cup UNION {{NetMsg(type, kind, n, m, tid[n] + i, TRUE, caps, r) :
                                       m \in Reached(n, dsts[i], at[i])} : i \in DOMAIN dsts}
        /\ lost' = IF \E i \in DOMAIN dsts : Reached(n, dsts[i], at[i]) = {} THEN lost \cup {r} ELSE lost

\* A request of a user sent on to a peer, or to everybody.
Forward(r) ==
    LET n == home[r.from]
    IN  /\ lpool' = [lpool EXCEPT ![n] = Fan(n, r.from, r.tid, <<r.to>>, @)]
        /\ Sends(n, <<r.to>>, <<Nobody>>, r.kind, r)

-----------------------------------------------------------------------------
(***************************************************************************)
(* Links and users                                                         *)
(***************************************************************************)

\* A user or link does something of its own accord.
Sent(r) ==
    /\ r \notin sent
    /\ \E B \in Batches : sent \cup {r} \subseteq B
    /\ sent' = sent \cup {r}

\* link_register_indication with link_capability_discover_request: the entry of
\* the link starts anew, its address is advertised, and it is asked what it can do.
LinkRegister(r) ==
    LET l  == r.from
        n  == home[l]
        bk == [book EXCEPT ![l] = [known |-> TRUE, status |-> 1 <= LinkDelete, fail |-> 1,
                                   events |-> {}, cmds |-> {}]]
    IN  /\ Sent(r) /\ r.kind = "linkstart"
        /\ book' = bk
        /\ \/ /\ bk[l].status
              /\ abook' = [abook EXCEPT ![n][n].caps.links = @ \cup {l}]
              /\ lpool' = [lpool EXCEPT ![n] = Append(@, Entry(Nobody, l, r.tid))]
              /\ toLink' = toLink \cup {[link |-> l, tid |-> r.tid]}
           \/ /\ ~bk[l].status
              /\ abook' = Updated(n, bk, users)
              /\ UNCHANGED <<lpool, toLink>>
        /\ UNCHANGED <<users, tid, enabled, fromLink, toUser, net, confirms, told, granted, lost>>

\* A link answers a capability discovery.
LinkAnswer(m, ok) ==
    /\ toLink' = toLink \ {m}
    /\ fromLink' = fromLink \cup {[link |-> m.link, tid |-> m.tid, ok |-> ok]}
    /\ UNCHANGED <<books, lpool, tid, enabled, toUser, net, hist>>

\* link_book::reset
Reset(l) == [book EXCEPT ![l].fail = 0, ![l].status = TRUE]

\* capability_discover_confirm
CapabilityConfirm(m) ==
    LET l == m.link
        n == home[l]
        i == Find(lpool[n], l, m.tid)
        s == [Reset(l) EXCEPT ![l].events = Supported[l].events, ![l].cmds = Supported[l].cmds]
    IN  /\ fromLink' = fromLink \ {m}
        /\ lpool' = IF i = 0 THEN lpool ELSE [lpool EXCEPT ![n] = Without(@, i)]
        /\ \/ /\ i # 0 /\ m.ok
              /\ book' = s
              /\ abook' = Updated(n, s, users)
           \/ /\ i = 0 \/ ~m.ok
              /\ book' = Reset(l)
              /\ UNCHANGED abook
        /\ UNCHANGED <<users, tid, enabled, toLink, toUser, net, hist>>

\* Mutant of LinkUsed: the link is given up, and its capabilities stay.
LinkUsedQuietly(r) ==
    /\ Sent(r) /\ r.kind = "used" /\ book[r.from].status
    /\ book' = [book EXCEPT ![r.from].fail = @ + 1, ![r.from].status = book[r.from].fail + 1 <= LinkDelete]
    /\ UNCHANGED <<users, abook, lpool, tid, enabled, wires, confirms, told, granted, lost>>

\* Another service sends an active link a request: when it failed to answer too
\* often it is given up.
LinkUsed(r) ==
    /\ Sent(r) /\ r.kind = "used" /\ book[r.from].status
    /\ book' = [book EXCEPT ![r.from].fail = @ + 1, ![r.from].status = book[r.from].fail + 1 <= LinkDelete]
    /\ abook' = IF book'[r.from].status THEN abook ELSE Updated(home[r.from], book', users)
    /\ UNCHANGED <<users, lpool, tid, enabled, wires, confirms, told, granted, lost>>

\* Another service hears from a link, which is active again.
LinkHeard(r) ==
    /\ Sent(r) /\ r.kind = "heard" /\ book[r.from].known
    /\ book' = Reset(r.from)
    /\ UNCHANGED <<users, abook, lpool, tid, enabled, wires, confirms, told, granted, lost>>

\* user_register_indication
UserRegister(r) ==
    /\ Sent(r) /\ r.kind = "start"
    /\ users' = users \cup {r.from}
    /\ abook' = Updated(home[r.from], book, users')
    /\ UNCHANGED <<book, lpool, tid, enabled, wires, confirms, told, granted, lost>>

-----------------------------------------------------------------------------
(***************************************************************************)
(* Discovery                                                               *)
(***************************************************************************)

\* The peers of discover_service::response without the repeated ones.
Distinct(pos) ==
    LET kept[i \in 0 .. Len(pos)] ==
            IF i = 0 THEN <<>>
            ELSE IF pos[i] \in Range(kept[i - 1]) THEN kept[i - 1] ELSE Append(kept[i - 1], pos[i])
    IN  kept[Len(pos)]

\* Mutant of After: after the last comes the first.
AfterRound(n, e) == Order[n][1 + ((CHOOSE i \in DOMAIN Order[n] : Order[n][i] = e) % Len(Order[n]))]

\* The discovery user of n after e, or everybody.
After(n, e) ==
    LET k == CHOOSE i \in DOMAIN Order[n] : Order[n][i] = e
    IN  IF k = Len(Order[n]) THEN All ELSE Order[n][k + 1]

\* discover_service::response: the peers that the discovery user e found are asked
\* for their capabilities; if it did not find all, the next discovery user is
\* asked, or everybody.  The request is that of u with the number t.
Discovered(n, e, u, t, res, r, waits, pool, rest) ==
    LET pos  == IF res.ok THEN Distinct(res.found) ELSE <<>>
        next == After(n, e)
        more == ~res.ok \/ ~res.all
        ask  == more /\ next \in users
        dsts == pos \o (IF more /\ ~ask THEN <<next>> ELSE <<>>)
        at   == pos \o (IF pos = <<>> THEN <<Nobody>> ELSE <<pos[Len(pos)]>>)
        src  == IF pos = <<>> THEN u ELSE n
        num  == IF pos = <<>> THEN t ELSE tid[n] + Len(pos)
    IN  /\ lpool' = [lpool EXCEPT ![n] =
                        IF waits THEN Fan(n, u, t, dsts, pool) \o (IF ask THEN <<Entry(src, next, num)>> ELSE <<>>)
                        ELSE pool]
        /\ Sends(n, dsts, at, "caps", r)
        /\ toUser' = rest \cup (IF ask THEN {Ind(next, "discover", n, num, r)} ELSE {})

\* capability_discover_response from the discovery user u, while the other
\* indications are rest.
FromDiscovery(u, t, res, r, rest) ==
    LET n == home[u]
        j == Find(lpool[n], u, t)
        entry == lpool[n][j]
    IN  /\ \/ j # 0 /\ Discovered(n, u, entry.user, entry.ltid, res, r, TRUE, Without(lpool[n], j), rest)
           \/ j = 0 /\ enabled /\ Discovered(n, u, n, t, res, r, FALSE, lpool[n], rest)
           \/ j = 0 /\ ~enabled /\ toUser' = rest /\ UNCHANGED <<lpool, tid, net, lost>>
        /\ UNCHANGED <<books, enabled, toLink, fromLink, confirms, told, granted>>

\* A discovery user answers what it was asked, or reports peers unasked.
DiscoveryAnswer(i, res) ==
    /\ i.kind = "discover"
    /\ FromDiscovery(i.user, i.tid, res, i.req, toUser \ {i})
    /\ UNCHANGED sent

DiscoveryReport(r, res) ==
    /\ Sent(r) /\ r.kind = "report" /\ r.from \in users /\ r.from \in Range(Order[home[r.from]]) /\ res.ok
    /\ FromDiscovery(r.from, r.tid, res, r, toUser)

-----------------------------------------------------------------------------
(***************************************************************************)
(* Requests                                                                *)
(***************************************************************************)

\* The members of S, one after the other.
Listed(S) == CHOOSE s \in [1 .. Cardinality(S) -> S] : IsInjective(s)

\* Mutant of PassToUsers: the pool does not remember who waits.
PassToUsersNot(n, U, kind, from, t, r, first) ==
    /\ UNCHANGED lpool
    /\ toUser' = toUser \cup {Ind(u, kind, from, t, r) : u \in U}

\* A request passed on to the users U of n as an indication from the identifier
\* from.  first waits for the answer of the first of them, and from for the others.
PassToUsers(n, U, kind, from, t, r, first) ==
    LET s == Listed(U)
    IN  /\ lpool' = [lpool EXCEPT ![n] =
                        @ \o [i \in DOMAIN s |-> Entry(IF i = 1 THEN first ELSE from, s[i], t)]]
        /\ toUser' = toUser \cup {Ind(u, kind, from, t, r) : u \in U}

\* capability_discover_request from a user.
AskCaps(r) ==
    LET n == home[r.from]
    IN  /\ r.kind = "caps"
        /\ \/ /\ r.to = n
              /\ confirms' = Confirmed(r.from, "caps", n, r.tid, r, "asked")
              /\ UNCHANGED <<lpool, tid, net, lost, toUser>>
           \/ /\ r.to = All /\ Order[n] # <<>> /\ Order[n][1] \in users
              /\ lpool' = [lpool EXCEPT ![n] = Append(@, Entry(r.from, Order[n][1], r.tid))]
              /\ toUser' = toUser \cup {Ind(Order[n][1], "discover", n, r.tid, r)}
              /\ UNCHANGED <<tid, net, lost, confirms>>
           \/ /\ r.to = All /\ Order[n] # <<>> /\ Order[n][1] \notin users
              /\ lpool' = [lpool EXCEPT ![n] = Fan(n, r.from, r.tid, <<Order[n][1]>>, @)]
              /\ Sends(n, <<Order[n][1]>>, <<Nobody>>, "caps", r)
              /\ UNCHANGED <<toUser, confirms>>
           \/ /\ r.to # n /\ (r.to = All => Order[n] = <<>>)
              /\ Forward(r)
              /\ UNCHANGED <<toUser, confirms>>
        /\ UNCHANGED <<abook, told>>

\* register_request and deregister_request from a user: to the MIHF itself they are
\* from the MIHF; the registration with a peer is recorded before the peer answers.
AskRegister(r) ==
    LET n == home[r.from]
    IN  /\ r.kind \in {"register", "deregister"}
        /\ \/ /\ r.to = n
              /\ PassToUsers(n, UsersOf(n), r.kind, n, r.tid, r, n)
              /\ UNCHANGED <<abook, tid, net, lost>>
           \/ /\ r.to # n
              /\ abook' = IF r.kind = "register" THEN ListSet(n, r.to) ELSE abook
              /\ Forward(r)
              /\ UNCHANGED toUser
        /\ UNCHANGED <<confirms, told>>

\* get_information_request from a user, who is entered before the question becomes
\* the MIHF's.
AskInfo(r) ==
    LET n == home[r.from]
    IN  /\ r.kind = "info"
        /\ \/ /\ r.to = n
              /\ PassToUsers(n, Servers(n), "info", n, r.tid, r, r.from)
              /\ UNCHANGED <<tid, net, lost>>
           \/ /\ r.to # n
              /\ Forward(r)
              /\ UNCHANGED toUser
        /\ UNCHANGED <<abook, confirms, told>>

\* push_information_request from a user: its entry in the pool stays for good.
AskPush(r) ==
    LET n == home[r.from]
    IN  /\ r.kind = "push"
        /\ \/ /\ r.to = n
              /\ told' = told \cup {[user |-> u, kind |-> "push", req |-> r] : u \in Servers(n)}
              /\ UNCHANGED <<lpool, tid, net, lost>>
           \/ /\ r.to # n
              /\ Forward(r)
              /\ UNCHANGED told
        /\ UNCHANGED <<abook, confirms, toUser>>

Ask(r) ==
    /\ Sent(r) /\ r.from \in users
    /\ AskCaps(r) \/ AskRegister(r) \/ AskInfo(r) \/ AskPush(r)
    /\ UNCHANGED <<users, book, enabled, toLink, fromLink, granted>>

\* A request of a peer.
PeerRequest(m) ==
    LET n == m.dst
    IN  /\ m.type = "request"
        /\ \/ /\ m.kind = "caps"
              /\ abook' = Learnt(n, m.src, m.caps)
              /\ told' = told \cup {[user |-> u, kind |-> "caps", req |-> m.req] :
                                       u \in {x \in UsersOf(n) : x \notin Range(Order[n])}}
              /\ net' = (net \ {m}) \cup
                            {NetMsg("response", "caps", n, m.src, m.tid, TRUE, abook[n][n].caps, m.req)}
              /\ UNCHANGED <<lpool, toUser>>
           \/ /\ m.kind \in {"register", "deregister"}
              /\ abook' = IF m.kind = "register" THEN ListSet(n, m.src) ELSE abook
              /\ PassToUsers(n, UsersOf(n), m.kind, m.src, m.tid, m.req, m.src)
              /\ net' = net \ {m}
              /\ UNCHANGED told
           \/ /\ m.kind = "info"
              /\ PassToUsers(n, Servers(n), "info", m.src, m.tid, m.req, m.src)
              /\ net' = net \ {m}
              /\ UNCHANGED <<abook, told>>
        /\ UNCHANGED <<users, book, tid, enabled, toLink, fromLink, sent, confirms, granted, lost>>

\* push_information_indication
PeerIndication(m) ==
    /\ m.type = "indication"
    /\ told' = told \cup {[user |-> u, kind |-> "push", req |-> m.req] : u \in UsersOf(m.dst)}
    /\ net' = net \ {m}
    /\ UNCHANGED <<books, lpool, tid, enabled, toLink, fromLink, toUser, sent, confirms, granted, lost>>

-----------------------------------------------------------------------------
(***************************************************************************)
(* Answers                                                                 *)
(***************************************************************************)

\* Mutant of Granted: the status is not looked at.
GrantedAlways(n, m, kind, ok, v) ==
    IF kind = "register" THEN IntervalSet(n, m, v)
    ELSE IF kind = "deregister" THEN Deregistered(n, m) ELSE abook

\* What the answer to a registration or deregistration changes.
Granted(n, m, kind, ok, v) ==
    IF ok /\ kind = "register" THEN IntervalSet(n, m, v)
    ELSE IF ok /\ kind = "deregister" THEN Deregistered(n, m) ELSE abook

\* register_response, deregister_response and get_information_response from a
\* user.  The answer to a peer has the number of its request if the transaction
\* is still there, else (late) a new one.  An answer to the MIHF itself, which it
\* sends to its own address under a new number, ends there.
UserAnswer(i, ok, late) ==
    LET n == home[i.user]
        j == Find(lpool[n], i.user, i.tid)
        entry == lpool[n][j]
    IN  /\ i.kind # "discover"
        /\ toUser' = toUser \ {i}
        /\ \/ /\ j = 0 /\ ~late
              /\ UNCHANGED <<abook, lpool, tid, net, confirms, granted, lost>>
           \/ /\ j # 0 /\ i.from = n /\ ~late
              /\ lpool' = [lpool EXCEPT ![n] = Without(@, j)]
              /\ confirms' = IF entry.user \in users THEN Confirmed(entry.user, i.kind, i.user, entry.ltid, i.req, "asked")
                             ELSE confirms
              /\ tid' = IF entry.user \in users THEN tid ELSE [tid EXCEPT ![n] = @ + 1]
              /\ UNCHANGED <<abook, net, granted, lost>>
           \/ /\ j # 0 /\ i.from # n
              /\ lpool' = [lpool EXCEPT ![n] = Without(@, j)]
              /\ abook' = Granted(n, entry.user, i.kind, ok, Valid[i.user])
              /\ granted' = IF ok /\ i.kind = "register" THEN granted \cup {<<entry.user, n, Valid[i.user]>>}
                            ELSE granted
              /\ tid' = IF late THEN [tid EXCEPT ![n] = @ + 1] ELSE tid
              /\ net' = net \cup {[NetMsg("response", i.kind, n, entry.user, IF late THEN tid[n] + 1 ELSE entry.ltid,
                                          ok, NoCaps, i.req) EXCEPT !.valid = Valid[i.user]]}
              /\ lost' = IF late THEN lost \cup {i.req} ELSE lost
              /\ UNCHANGED confirms
        /\ UNCHANGED <<users, book, enabled, toLink, fromLink, sent, told>>

\* The pool of n without the entry that m answers, and a confirmation for its user;
\* for the MIHF itself transmit sends it to the MIHF's own address.
Answered(n, m, j) ==
    LET entry == lpool[n][j]
    IN  /\ lpool' = [lpool EXCEPT ![n] = Without(@, j)]
        /\ \/ /\ entry.user \in users
              /\ confirms' = Confirmed(entry.user, m.kind, m.src, entry.ltid, m.req, "asked")
              /\ net' = net \ {m}
              /\ UNCHANGED tid
           \/ /\ entry.user \notin users
              /\ tid' = [tid EXCEPT ![n] = @ + 1]
              /\ net' = (net \ {m}) \cup {[m EXCEPT !.tid = tid[n] + 1]}
              /\ UNCHANGED confirms

\* capability_discover_response from a peer: for the user that asked the peer, else
\* for the one that asked everybody, else for all users, if allowed.
CapsResponse(m) ==
    LET n == m.dst
        j == Find(lpool[n], m.src, m.tid)
        k == Find(lpool[n], All, m.tid)
    IN  /\ m.type = "response" /\ m.kind = "caps"
        /\ abook' = Learnt(n, m.src, m.caps)
        /\ \/ j # 0 /\ Answered(n, m, j)
           \/ j = 0 /\ k # 0 /\ Answered(n, m, k)
           \/ /\ j = 0 /\ k = 0
              /\ confirms' = IF enabled
                             THEN UNION {Confirmed(u, "caps", n, m.tid, m.req, "unsolicited") : u \in UsersOf(n)}
                                      \cup confirms
                             ELSE confirms
              /\ net' = net \ {m}
              /\ UNCHANGED <<lpool, tid>>
        /\ UNCHANGED <<users, book, enabled, toLink, fromLink, toUser, sent, told, granted, lost>>

\* register_response, deregister_response and get_information_response from a peer.
PeerResponse(m) ==
    LET n == m.dst
        j == Find(lpool[n], m.src, m.tid)
    IN  /\ m.type = "response" /\ m.kind # "caps"
        /\ \/ /\ j # 0
              /\ Answered(n, m, j)
              /\ abook' = Granted(n, m.src, m.kind, m.ok, m.valid)
           \/ /\ j = 0
              /\ net' = net \ {m}
              /\ UNCHANGED <<abook, lpool, tid, confirms>>
        /\ UNCHANGED <<users, book, enabled, toLink, fromLink, toUser, sent, told, granted, lost>>

Lose(m) ==
    /\ net' = net \ {m}
    /\ lost' = lost \cup {m.req}
    /\ UNCHANGED <<books, lpool, tid, enabled, toLink, fromLink, toUser, sent, confirms, told, granted>>

-----------------------------------------------------------------------------
\* The MIHF starts with the users, links and peers of its configuration file, and
\* asks the links what they can do.
StaticLinks(n) == Listed({l \in Static \cap Link : home[l] = n})

Init ==
    /\ users = Static \cap User
    /\ book = [l \in Link |-> [known |-> l \in Static, status |-> l \in Static, fail |-> 0,
                               events |-> {}, cmds |-> {}]]
    /\ abook = [n \in Node |-> [m \in Node |->
                   [known |-> m = n \/ m \in Peers[n], reg |-> FALSE, interval |-> {},
                    caps |-> IF m = n THEN Capabilities(n, book, users) ELSE NoCaps]]]
    /\ lpool = [n \in Node |-> LET s == StaticLinks(n)
                               IN  [i \in DOMAIN s |-> Entry(Nobody, s[i], 0)]]
    /\ tid = FirstTid
    /\ enabled \in BOOLEAN
    /\ toLink = {[link |-> l, tid |-> 0] : l \in Static \cap Link}
    /\ fromLink = {} /\ toUser = {} /\ net = {}
    /\ sent = {} /\ confirms = {} /\ told = {} /\ granted = {} /\ lost = {}

Next ==
    \/ \E n \in Node : Tick(n)
    \/ \E r \in Request : LinkRegister(r) \/ LinkUsed(r) \/ LinkHeard(r) \/ UserRegister(r) \/ Ask(r)
    \/ \E m \in toLink, ok \in BOOLEAN : LinkAnswer(m, ok)
    \/ \E m \in fromLink : CapabilityConfirm(m)
    \/ \E i \in toUser, res \in Results : DiscoveryAnswer(i, res)
    \/ \E r \in Request, res \in Results : DiscoveryReport(r, res)
    \/ \E i \in toUser, ok \in BOOLEAN, late \in BOOLEAN : UserAnswer(i, ok, late)
    \/ \E m \in net : PeerRequest(m) \/ PeerIndication(m) \/ CapsResponse(m) \/ PeerResponse(m) \/ Lose(m)

\* Users answer, and messages arrive or are lost.
Fairness ==
    /\ WF_vars(\E i \in toUser, res \in Results : DiscoveryAnswer(i, res))
    /\ WF_vars(\E i \in toUser, ok \in BOOLEAN, late \in BOOLEAN : UserAnswer(i, ok, late))
    /\ WF_vars(\E m \in net : PeerRequest(m) \/ PeerIndication(m) \/ CapsResponse(m) \/ PeerResponse(m))

Spec == Init /\ [][Next]_vars /\ Fairness

-----------------------------------------------------------------------------
(***************************************************************************)
(* Properties                                                              *)
(***************************************************************************)
\* What a MIHF tells its peers is so: it names active links only, and no event that
\* one of them cannot send, unless the link has yet to say what it can do.  The
\* address list grows in link_register_indication, the other lists in
\* update_local_capabilities, which only some changes of the link book call.
AdvertisedHonest ==
    \A n \in Node : \A l \in abook[n][n].caps.links :
        /\ book[l].status
        /\ book[l].events # {} => abook[n][n].caps.events \subseteq Supported[l].events

\* How a MIHF's record of the interval of its registration with another changes: it
\* becomes 0 with the list of links when a request for registration passes, it is
\* counted down, it is dropped, or it is set to the interval that a user of one of the
\* two accepted for the registration of the other.  Both ends record on their own,
\* from answers that may be late or belong to another request.
IntervalFollowsGrant ==
    [][\A n, m \in Node :
         LET old == abook[n][m].interval
             new == abook'[n][m].interval
         IN  \/ new \in {old, {}, Less(old)}
             \/ new = {0} /\ abook'[n][m].reg
             \/ \E v \in new : new = {v} /\ (<<n, m, v>> \in granted' \/ <<m, n, v>> \in granted')]_vars

Asked(r) == {c \in confirms : c.req = r /\ c.by = "asked"}

\* A confirmation goes to the user that asked, under the number it chose, and each
\* request has one at most, whatever the number of peers that a discovery found and
\* of users that answer.
ConfirmsFit ==
    /\ \A c \in confirms : c.by = "asked" =>
           c.req \in sent /\ c.user = c.req.from /\ c.kind = c.req.kind /\ c.tid = c.req.tid
    /\ \A r \in Request : Cardinality(Asked(r)) <= 1

\* A question for the capabilities of a known peer, and any other request that
\* reached a user, is answered unless a message is lost; but nobody waits for the
\* answer to a registration with the user's own MIHF.
RequestAnswered ==
    \A r \in {x \in Request : x.to \in Node /\ (x.to # home[x.from] \/ x.kind = "info")} :
        (\/ r.kind = "caps" /\ r \in sent
         \/ \E i \in toUser : i.req = r) ~> (Asked(r) # {} \/ r \in lost)

\* A discovery runs out of discovery users to ask.
DiscoveryEnds == <>[](\A i \in toUser : i.kind # "discover")
=============================================================================
