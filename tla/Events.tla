------------------------------- MODULE Events --------------------------------
(***************************************************************************)
(* The event services (src/src/mihf/event_service.cpp) of several MIHFs,   *)
(* with the link SAPs that raise the events (src/app/sap_80211/main.cpp).  *)
(*                                                                         *)
(* A user subscribes to events of a link of its own MIHF or of a peer.     *)
(* The MIHF of the link keeps a table of subscribers, users and peers      *)
(* alike, and asks the link for what it does not send yet; the link keeps  *)
(* a list of its own.  The MIHF of the user keeps a table too.  Messages   *)
(* between MIHFs and to and from links may be lost or overtake each other, *)
(* and links restart.  A message remembers the request it belongs to       *)
(* (req), which no handler reads.                                          *)
(***************************************************************************)
EXTENDS LocalPool

CONSTANTS
    Node, User, Link, Event,
    home,        \* the MIHF of a user or link
    Broad,       \* the events whose indications go to the subscribers of any link
    Supported,   \* Supported[l]: the events that the link l knows
    Request,     \* the requests that users may send
    NoReq,       \* the request of a message that belongs to none
    Batches,     \* which requests are sent together
    MaxOwn,      \* how often links restart and raise events, together
    FirstTid,    \* FirstTid[n]: message_out::_tid at the start
    LinkDelete   \* kConf_MIHF_Link_Delete_Value

ASSUME SetsAssumption ==
    /\ User \cap Node = {} /\ User \cap Link = {} /\ Node \cap Link = {}
    /\ home \in [User \cup Link -> Node]
    /\ Broad \subseteq Event /\ Supported \in [Link -> SUBSET Event]
    /\ NoReq \notin Request
ASSUME RequestAssumption ==
    Request \subseteq [from : User, to : Node, tid : Nat, kind : {"subscribe", "unsubscribe"},
                       link : Link, events : SUBSET Event]
ASSUME BoundAssumption ==
    /\ Batches \subseteq SUBSET Request /\ MaxOwn \in Nat /\ LinkDelete \in Nat
    /\ FirstTid \in [Node -> Nat]

VARIABLES
    subs,      \* subs[n]: _event_subscriptions
    book,      \* book[l]: the entry of l in the _link_abook of its MIHF
    lpool,     \* lpool[n]: _lpool
    timer,     \* timer[n]: for an identifier, the message and whether its time is over
    due,       \* due[n]: messages whose timers expired and whose handlers have not run yet
    tid,       \* tid[n]: message_out::_tid
    listed,    \* listed[l]: subscribed_event_list of the link SAP
    toLink,    \* requests on their way to links
    fromLink,  \* confirmations on their way to MIHFs
    net,       \* messages on their way between MIHFs
    sent,      \* the requests of users so far
    answers,   \* answers[r]: the answers given to r
    got,       \* the indications that users got
    alive,     \* alive[n]: the process runs
    own,       \* restarts of links and events raised by links so far
    overlap    \* history: a subscription and an unsubscription of the event were on
               \* their way to the link together, or the link restarted

mihf  == <<subs, book, lpool, timer, due, tid, alive>>
wires == <<toLink, fromLink, net>>
hist  == <<sent, answers, got, own, overlap>>
vars  == <<mihf, listed, wires, hist>>

-----------------------------------------------------------------------------
(***************************************************************************)
(* Tables                                                                  *)
(***************************************************************************)
Subscription(u, l, E) == {[user |-> u, link |-> l, event |-> e] : e \in E}

\* subscribe
Subscribed(n, u, l, E) == [subs EXCEPT ![n] = @ \cup Subscription(u, l, E)]

\* Mutant of Unsubscribed: the user is not compared.
UnsubscribedAll(n, u, l, E) == [subs EXCEPT ![n] = {s \in @ : ~(s.link = l /\ s.event \in E)}]

\* unsubscribe
Unsubscribed(n, u, l, E) == [subs EXCEPT ![n] = @ \ Subscription(u, l, E)]

\* The events of l that somebody other than the users U is subscribed to.
Wanted(n, l, U) == {s.event : s \in {x \in subs[n] : x.link = l /\ x.user \notin U}}

\* Mutant of Known: a link with a request under way is not found.
KnownIdle(n, l) == home[l] = n /\ book[l].fail = 0

\* link_book::search_interface
Known(n, l) == home[l] = n /\ book[l].status

\* link_book::fail, and inactive when the link failed too often
Failed(l) == [book EXCEPT ![l] = [fail |-> @.fail + 1, status |-> @.fail + 1 <= LinkDelete]]

\* link_book::reset
Reset(l) == [book EXCEPT ![l] = [fail |-> 0, status |-> TRUE]]

\* Mutant of Armed: no timer is set.
NotArmed(n, in) == timer

Armed(n, in) ==
    [timer EXCEPT ![n] = [t \in DOMAIN @ \cup {in.tid} |->
                              IF t = in.tid THEN [in |-> in, expired |-> FALSE] ELSE @[t]]]

Disarmed(n, t) == [timer EXCEPT ![n] = [u \in DOMAIN @ \ {t} |-> @[u]]]

-----------------------------------------------------------------------------
(***************************************************************************)
(* Messages                                                                *)
(***************************************************************************)
LinkMsg(kind, l, t, E, r) == [kind |-> kind, link |-> l, tid |-> t, events |-> E, req |-> r]

\* A message from src, sent by via, to dst.
NetMsg(type, kind, src, via, dst, t, l, ok, E, r) ==
    [type |-> type, kind |-> kind, src |-> src, via |-> via, dst |-> dst,
     tid |-> t, link |-> l, ok |-> ok, events |-> E, req |-> r]

\* The subscriptions, or unsubscriptions, of E that are on their way to l; a
\* subscription is until its confirmation arrives.
OnTheWay(kind, l, E) ==
    {e \in E : \E m \in toLink \cup fromLink :
                   m.kind = kind /\ m.link = l /\ e \in m.events /\ (kind = "unsubscribe" => m \in toLink)}

\* transmit: the answer of n to the user or peer that sent in, while the messages
\* between MIHFs are rest.
Reply(n, in, ok, E, by, rest) ==
    /\ answers' = IF in.from \in User
                  THEN [answers EXCEPT ![in.req] =
                           Append(@, [to |-> in.from, tid |-> in.tid, ok |-> ok, events |-> E, by |-> by])]
                  ELSE answers
    /\ net' = IF in.from \in Node \ {n}
              THEN rest \cup {NetMsg("response", in.kind, n, n, in.from, in.tid, in.link, ok, E, in.req)}
              ELSE rest

NoReply(rest) == net' = rest /\ UNCHANGED answers

-----------------------------------------------------------------------------
(***************************************************************************)
(* Requests to the MIHF of the link                                        *)
(***************************************************************************)

\* utils::forward_request to a link
SendSubscribe(n, in) ==
    /\ lpool' = [lpool EXCEPT ![n] = Append(@, Entry(in.from, in.link, in.tid))]
    /\ toLink' = toLink \cup {LinkMsg("subscribe", in.link, in.tid, in.events, in.req)}
    /\ overlap' = overlap \cup ({in.link} \X OnTheWay("unsubscribe", in.link, in.events))
    /\ timer' = Armed(n, in)

\* local_event_subscribe_request.  A link that failed too often is not asked,
\* and nobody is told.
LocalSubscribe(n, in, rest) ==
    \/ /\ ~Known(n, in.link)
       /\ Reply(n, in, FALSE, {}, "mihf", rest)
       /\ UNCHANGED <<subs, book, lpool, timer, toLink, overlap, alive>>
    \/ /\ Known(n, in.link) /\ in.events = Wanted(n, in.link, {})
       /\ subs' = Subscribed(n, in.from, in.link, in.events)
       /\ Reply(n, in, TRUE, in.events, "mihf", rest)
       /\ UNCHANGED <<book, lpool, timer, toLink, overlap, alive>>
    \/ /\ Known(n, in.link) /\ in.events # Wanted(n, in.link, {})
       /\ book' = Failed(in.link)
       /\ \/ book'[in.link].status /\ SendSubscribe(n, in)
          \/ ~book'[in.link].status /\ UNCHANGED <<lpool, timer, toLink, overlap>>
       /\ NoReply(rest)
       /\ UNCHANGED <<subs, alive>>

\* forward_request of an unsubscription: the MIHF itself waits for the answer.
SendUnsubscribe(n, in, E) ==
    /\ lpool' = [lpool EXCEPT ![n] = Append(@, Entry(n, in.link, in.tid))]
    /\ toLink' = toLink \cup {LinkMsg("unsubscribe", in.link, in.tid, E, in.req)}
    /\ overlap' = overlap \cup ({in.link} \X OnTheWay("subscribe", in.link, E))

\* Mutant of Unneeded: events that others want are unsubscribed too.
UnneededAll(n, in) == in.events

\* The events that link_unsubscribe takes from the link.
Unneeded(n, in) == in.events \ Wanted(n, in.link, {in.from})

\* local_event_unsubscribe_request with link_unsubscribe.  For a link that is
\* inactive link_book::fail throws: sac_dispatch drops the message of a user,
\* but nobody catches the exception in the message of a peer.
LocalUnsubscribe(n, in, rest) ==
    LET E == Unneeded(n, in)
    IN  /\ subs' = Unsubscribed(n, in.from, in.link, in.events)
        /\ \/ /\ E = {}
              /\ Reply(n, in, TRUE, in.events, "mihf", rest)
              /\ UNCHANGED <<book, lpool, toLink, overlap, alive>>
           \/ /\ E # {} /\ Known(n, in.link)
              /\ book' = Failed(in.link)
              /\ \/ book'[in.link].status /\ SendUnsubscribe(n, in, E)
                 \/ ~book'[in.link].status /\ UNCHANGED <<lpool, toLink, overlap>>
              /\ Reply(n, in, TRUE, in.events, "mihf", rest)
              /\ UNCHANGED alive
           \/ /\ E # {} /\ ~Known(n, in.link)
              /\ alive' = [alive EXCEPT ![n] = in.from \in User]
              /\ NoReply(rest)
              /\ UNCHANGED <<book, lpool, toLink, overlap>>
        /\ UNCHANGED timer

LocalRequest(n, in, rest) ==
    /\ \/ in.kind = "subscribe" /\ LocalSubscribe(n, in, rest)
       \/ in.kind = "unsubscribe" /\ LocalUnsubscribe(n, in, rest)
    /\ UNCHANGED <<due, tid, listed, fromLink, got, own>>

Incoming(from, t, x) ==
    [kind |-> x.kind, from |-> from, tid |-> t, link |-> x.link, events |-> x.events, req |-> x.req]

Accept(r) ==
    /\ r \notin sent /\ \E B \in Batches : sent \cup {r} \subseteq B
    /\ alive[home[r.from]]
    /\ sent' = sent \cup {r}

\* A request of a user to its own MIHF
Submit(r) ==
    /\ Accept(r) /\ r.to = home[r.from]
    /\ LocalRequest(r.to, [kind |-> r.kind, from |-> r.from, tid |-> r.tid, link |-> r.link,
                           events |-> r.events, req |-> r], net)

\* event_subscribe_request and event_unsubscribe_request to a peer:
\* forward_request and message_out, which takes the next identifier.
Forward(r) ==
    LET n == home[r.from]
    IN  /\ Accept(r) /\ r.to # n
        /\ tid' = [tid EXCEPT ![n] = @ + 1]
        /\ lpool' = [lpool EXCEPT ![n] =
                        SetRemoteTid(Append(@, Entry(r.from, r.to, r.tid)), r.to, r.tid, tid[n] + 1)]
        /\ net' = net \cup {NetMsg("request", r.kind, n, n, r.to, tid[n] + 1, r.link, TRUE, r.events, r)}
        /\ UNCHANGED <<subs, book, timer, due, listed, toLink, fromLink, answers, got, alive, own, overlap>>

\* The request of a peer arrives.
PeerRequest(m) ==
    /\ m \in net /\ m.type = "request" /\ alive[m.dst]
    /\ LocalRequest(m.dst, Incoming(m.src, m.tid, m), net \ {m})
    /\ UNCHANGED sent

-----------------------------------------------------------------------------
(***************************************************************************)
(* Answers                                                                 *)
(***************************************************************************)

\* event_subscribe_response, event_unsubscribe_response: the answer of a peer.
PeerResponse(m) ==
    LET n == m.dst
        i == Find(lpool[n], m.src, m.tid)
        e == lpool[n][i]
        told == [kind |-> m.kind, from |-> e.user, tid |-> e.ltid, link |-> m.link, req |-> m.req]
    IN  /\ m \in net /\ m.type = "response" /\ alive[n]
        /\ \/ i = 0 /\ NoReply(net \ {m}) /\ UNCHANGED <<subs, lpool>>
           \/ /\ i # 0
              /\ lpool' = [lpool EXCEPT ![n] = Without(@, i)]
              /\ \/ ~m.ok /\ UNCHANGED subs
                 \/ m.ok /\ m.kind = "subscribe" /\ subs' = Subscribed(n, e.user, m.link, m.events)
                 \/ m.ok /\ m.kind = "unsubscribe" /\ subs' = Unsubscribed(n, e.user, m.link, m.events)
              /\ Reply(n, told, m.ok, m.events, "peer", net \ {m})
        /\ UNCHANGED <<book, timer, due, tid, listed, toLink, fromLink, sent, got, alive, own, overlap>>

\* event_subscribe_confirm: the user of the entry is subscribed to what the link
\* confirmed, also when the timer has already told it of a failure.
SubscribeConfirm(n, m) ==
    LET i == Find(lpool[n], m.link, m.tid)
        e == lpool[n][i]
        told == [kind |-> "subscribe", from |-> e.user, tid |-> e.ltid, link |-> m.link, req |-> m.req]
    IN  \/ i = 0 /\ NoReply(net) /\ UNCHANGED <<subs, lpool, timer>>
        \/ /\ i # 0
           /\ lpool' = [lpool EXCEPT ![n] = Without(@, i)]
           /\ timer' = Disarmed(n, m.tid)
           /\ subs' = Subscribed(n, e.user, m.link, m.events)
           /\ Reply(n, told, TRUE, m.events, "link", net)

\* event_unsubscribe_confirm, capability_discover_confirm
OtherConfirm(n, m) ==
    LET i == Find(lpool[n], m.link, m.tid)
    IN  /\ lpool' = IF i = 0 THEN lpool ELSE [lpool EXCEPT ![n] = Without(@, i)]
        /\ NoReply(net) /\ UNCHANGED <<subs, timer>>

\* The confirmation of a link arrives.
Confirm(m) ==
    LET n == home[m.link]
    IN  /\ m \in fromLink /\ alive[n]
        /\ fromLink' = fromLink \ {m}
        /\ book' = Reset(m.link)
        /\ \/ m.kind = "subscribe" /\ SubscribeConfirm(n, m)
           \/ m.kind # "subscribe" /\ OtherConfirm(n, m)
        /\ UNCHANGED <<due, tid, listed, toLink, sent, got, alive, own, overlap>>

\* The time of a request to a link is over.
Expire(n) ==
    \E t \in DOMAIN timer[n] :
        /\ alive[n] /\ ~timer[n][t].expired
        /\ timer' = [timer EXCEPT ![n][t].expired = TRUE]
        /\ due' = [due EXCEPT ![n] = Append(@, timer[n][t].in)]
        /\ UNCHANGED <<subs, book, lpool, tid, alive, listed, wires, hist>>

\* link_event_subscribe_response_timeout: the entry stays in the pool.
Fire(n) ==
    /\ alive[n] /\ due[n] # <<>>
    /\ due' = [due EXCEPT ![n] = Tail(@)]
    /\ timer' = Disarmed(n, Head(due[n]).tid)
    /\ Reply(n, Head(due[n]), FALSE, {}, "timer", net)
    /\ UNCHANGED <<subs, book, lpool, tid, alive, listed, toLink, fromLink, sent, got, own, overlap>>

-----------------------------------------------------------------------------
(***************************************************************************)
(* Link SAPs                                                               *)
(***************************************************************************)

\* handle_event_subscribe, handle_event_unsubscribe, handle_capability_discover
LinkHandle(m) ==
    LET E == m.events \cap Supported[m.link]
    IN  /\ m \in toLink
        /\ toLink' = toLink \ {m}
        /\ fromLink' = fromLink \cup {LinkMsg(m.kind, m.link, m.tid, E, m.req)}
        /\ listed' = CASE m.kind = "subscribe"   -> [listed EXCEPT ![m.link] = @ \cup E]
                       [] m.kind = "unsubscribe" -> [listed EXCEPT ![m.link] = @ \ E]
                       [] OTHER                  -> listed
        /\ UNCHANGED <<mihf, net, hist>>

\* The link SAP starts again and announces itself: link_register_indication,
\* which asks for the capabilities (link_capability_discover_request).
Restart(l) ==
    LET n == home[l]
    IN  /\ own < MaxOwn /\ alive[n]
        /\ own' = own + 1
        /\ listed' = [listed EXCEPT ![l] = {}]
        /\ overlap' = overlap \cup ({l} \X Event)
        /\ book' = [book EXCEPT ![l] = [fail |-> 1, status |-> 1 <= LinkDelete]]
        /\ \/ /\ book'[l].status
              /\ lpool' = [lpool EXCEPT ![n] = Append(@, Entry(n, l, 0))]
              /\ toLink' = toLink \cup {LinkMsg("capability", l, 0, {}, NoReq)}
           \/ ~book'[l].status /\ UNCHANGED <<lpool, toLink>>
        /\ UNCHANGED <<subs, timer, due, tid, alive, fromLink, net, sent, answers, got>>

\* Mutant of Receivers: the link is not compared for peers.
ReceiversAnyPeer(n, l, e) ==
    {s.user : s \in {x \in subs[n] : x.event = e /\ (x.link = l \/ e \in Broad \/ x.user \in Node)}}

\* Mutant of Receivers: the event is not compared.
ReceiversOfLink(n, l, e) == {s.user : s \in {x \in subs[n] : x.link = l}}

\* msg_forward, and the loops of link_detected_indication,
\* link_handover_imminent_indication and link_handover_complete_indication
Receivers(n, l, e) ==
    {s.user : s \in {x \in subs[n] : x.event = e /\ (x.link = l \/ e \in Broad)}}

\* The indication of e that n got from src (n itself when the link is its own),
\* passed on by n.  The source of the message of a peer stays as it is.
PassOn(n, src, l, e, rest) ==
    /\ got' = got \cup {[user |-> u, link |-> l, event |-> e] : u \in Receivers(n, l, e) \cap User}
    /\ net' = rest \cup {NetMsg("indication", "event", src, n, k, 0, l, TRUE, {e}, NoReq) :
                            k \in Receivers(n, l, e) \cap Node}

\* The link raises e (dispatch_link_up and its like) and its MIHF handles it.
Indicate(l) ==
    \E e \in listed[l] :
        /\ alive[home[l]] /\ own < MaxOwn
        /\ own' = own + 1
        /\ book' = Reset(l)
        /\ PassOn(home[l], home[l], l, e, net)
        /\ UNCHANGED <<subs, lpool, timer, due, tid, alive, listed, toLink, fromLink,
                       sent, answers, overlap>>

\* The indication of a peer arrives; sac_process_message drops one's own.
PeerIndication(m) ==
    /\ m \in net /\ m.type = "indication" /\ alive[m.dst]
    /\ \/ m.src = m.dst /\ net' = net \ {m} /\ UNCHANGED got
       \/ m.src # m.dst /\ \E e \in m.events : PassOn(m.dst, m.src, m.link, e, net \ {m})
    /\ UNCHANGED <<mihf, listed, toLink, fromLink, sent, answers, own, overlap>>

-----------------------------------------------------------------------------
Init ==
    /\ subs = [n \in Node |-> {}]
    /\ book = [l \in Link |-> [fail |-> 0, status |-> TRUE]]
    /\ lpool = [n \in Node |-> <<>>]
    /\ timer = [n \in Node |-> <<>>]
    /\ due = [n \in Node |-> <<>>]
    /\ tid = FirstTid
    /\ listed = [l \in Link |-> {}]
    /\ toLink = {} /\ fromLink = {} /\ net = {}
    /\ sent = {} /\ answers = [r \in Request |-> <<>>] /\ got = {}
    /\ alive = [n \in Node |-> TRUE]
    /\ own = 0 /\ overlap = {}

Next ==
    \/ \E r \in Request : Submit(r) \/ Forward(r)
    \/ \E m \in net : PeerRequest(m) \/ PeerResponse(m) \/ PeerIndication(m)
    \/ \E m \in fromLink : Confirm(m)
    \/ \E m \in toLink : LinkHandle(m)
    \/ \E l \in Link : Restart(l) \/ Indicate(l)
    \/ \E n \in Node : Expire(n) \/ Fire(n)

\* Time passes, and the io_service of a MIHF runs the handlers that are due.
Fairness == \A n \in Node : WF_vars(Expire(n)) /\ WF_vars(Fire(n))

Spec == Init /\ [][Next]_vars /\ Fairness

-----------------------------------------------------------------------------
(***************************************************************************)
(* Properties                                                              *)
(***************************************************************************)
\* An event that somebody is subscribed to at the MIHF of the link is one the link
\* sends, whoever else subscribed and unsubscribed meanwhile, except where a
\* subscription and an unsubscription overtook each other or the link restarted
\* (subscribe, link_unsubscribe, event_subscribe_confirm).
LinkCovers ==
    \A l \in Link : \A s \in subs[home[l]] :
        s.link = l => s.event \in listed[l] \/ <<l, s.event>> \in overlap

\* Somebody at n asked the MIHF of l to end the subscription to e.
GaveUp(n, l, e) ==
    \E r \in sent : /\ r.kind = "unsubscribe" /\ home[r.from] = n /\ r.to = home[l]
                    /\ r.link = l /\ e \in r.events

\* When a MIHF has a user of a peer's link in its table, the peer has the MIHF in
\* its own, unless some user of the MIHF ended the subscription
\* (event_subscribe_response follows local_event_subscribe_request).
PeerCovers ==
    \A n \in Node : \A s \in subs[n] :
        home[s.link] # n =>
            \/ [user |-> n, link |-> s.link, event |-> s.event] \in subs[home[s.link]]
            \/ GaveUp(n, s.link, s.event)

\* "The MIHF unsubscribes the event with the Link SAP or the peer MIHF only if the
\* event has no more subscriptions" (doc/src/odtone.qbk:540): when an unsubscription
\* goes to a peer, no other user is in the table for the event.
PeerKeptWhileNeeded ==
    [][\A m \in net' \ net : m.type = "request" /\ m.kind = "unsubscribe" =>
           ~ \E s \in subs[m.src] : s.link = m.link /\ s.event \in m.events /\ s.user # m.req.from]_vars

\* What the variables hold.  Only users wait for the answers of peers.
Waiting ==
    {e \in [user : User \cup Node, destination : Link \cup Node, ltid : Nat, rtid : Nat] :
        e.destination \in Node => e.user \in User}

Types ==
    /\ subs \in [Node -> SUBSET [user : User \cup Node, link : Link, event : Event]]
    /\ lpool \in [Node -> Seq(Waiting)]
    /\ tid \in [Node -> Nat]
    /\ listed \in [Link -> SUBSET Event]
    /\ sent \subseteq Request
    /\ \A m \in toLink \cup fromLink : m.link \in Link /\ m.tid \in Nat /\ m.events \subseteq Event

\* The identifiers that the MIHF n may give to the requests that it sends to peers.
Issued(n) == FirstTid[n] + 1 .. FirstTid[n] + Cardinality(Request)

\* No two requests so far have the same identifier: neither those of users, nor
\* those the MIHFs may give, nor the 0 of the requests for capabilities.
Apart ==
    /\ IsFiniteSet(Request)
    /\ \A r, q \in sent : r.tid = q.tid => r = q
    /\ \A r \in sent : r.tid # 0 /\ \A n \in Node : r.tid \notin Issued(n)
    /\ \A n, k \in Node : n # k => Issued(n) \cap Issued(k) = {}

ToldOf(g) ==
    \E r \in sent :
        /\ r.kind = "subscribe" /\ r.from = g.user
        /\ r.link = g.link \/ g.event \in Broad
        /\ \E i \in DOMAIN answers[r] : answers[r][i].ok /\ g.event \in answers[r][i].events

\* While no two requests share an identifier, a user gets an indication only of an
\* event it was told it is subscribed to, of this link or, for the events that are
\* not compared by link, of another.
EventsWanted == Apart => \A g \in got : ToldOf(g)

Relayed(m) ==
    m.type = "indication" /\ m.via # m.src =>
        /\ m.events \subseteq Broad
        /\ \E r \in sent : /\ r.kind = "subscribe" /\ home[r.from] = m.dst /\ r.to = m.via
                           /\ m.events \subseteq r.events

\* While no two requests share an identifier, a MIHF sends the indication of a peer
\* on to another MIHF only when the event is not compared by link and a user there
\* has subscribed to it with this MIHF (sac_process_message stops an indication only
\* at the MIHF of its link).
RelayedOnRequest == Apart => \A m \in net : Relayed(m)

Fits(r) ==
    \A i \in DOMAIN answers[r] :
        LET ans == answers[r][i]
        IN  /\ ans.to = r.from /\ ans.tid = r.tid
            /\ ans.events \subseteq r.events
            /\ \A j \in DOMAIN answers[r] : answers[r][j].by = ans.by => i = j

\* While no two requests share an identifier, every answer goes to the user of the
\* request, under its identifier, and a success names only events that were asked
\* for; the link, the MIHF and the timer each answer at most once
\* (event_subscribe_confirm, timeout).
AnswersFit == Apart => \A r \in Request : Fits(r)

\* The process ends only at the hands of a peer that unsubscribes from a link that
\* is given up (link_book::fail under sac_process_message).
DiesOnGivenUpLinkOnly ==
    \A n \in Node : ~alive[n] =>
        \E r \in sent : /\ r.kind = "unsubscribe" /\ r.to = n /\ home[r.from] # n
                        /\ home[r.link] = n => ~book[r.link].status

LocalSubscriptions ==
    {r \in Request : r.kind = "subscribe" /\ r.to = home[r.from]}

\* The subscriptions at the MIHF of r under the identifier of r, which is the key of
\* the timers and, with the link, of the pool.
Sharing(r) == {q \in LocalSubscriptions : q.to = r.to /\ q.tid = r.tid}

\* The identifiers that n gave so far to the requests it sent to peers.
Given(n) == FirstTid[n] + 1 .. tid[n]

\* Somebody was told something under the identifier of r.
Heard(r) ==
    \E q \in sent \cap Sharing(r), p \in sent : \E i \in DOMAIN answers[p] :
        answers[p][i].to = q.from /\ answers[p][i].tid = q.tid

\* When subscriptions of users went to a link, one user of those that chose the same
\* identifier gets an answer in the end, so the user that has it alone does, whatever
\* the link does and whoever else subscribes, unless the process ends or a peer gave
\* the identifier to a request of its own (the timer of local_event_subscribe_request
\* takes the place of the one under the same identifier).
SubscriptionAnswered ==
    \A r \in LocalSubscriptions :
        (\E m \in toLink : m.req = r) ~>
            (Heard(r) \/ ~alive[r.to] \/ \E k \in Node \ {r.to} : r.tid \in Given(k))
=============================================================================
