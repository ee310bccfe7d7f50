---------------------------- MODULE LocalCommands ----------------------------
(***************************************************************************)
(* The command service of one MIHF (src/src/mihf/command_service.cpp) with *)
(* what it keeps: the local transaction pool, the link response pool, the  *)
(* link book and the timers of its requests.                               *)
(*                                                                         *)
(* Users and peer MIHFs send requests.  A request to this MIHF is sent on  *)
(* to link SAPs, or as an indication to the users that handle handovers; a *)
(* request to a peer is forwarded to it.  Links, users and peers answer    *)
(* late, never, or again.  A message outside remembers the request it      *)
(* belongs to (req), which no handler reads.                               *)
(***************************************************************************)
EXTENDS LocalPool

CONSTANTS
    User, Peer, Link,
    Mihf,        \* the identifier of this MIHF
    Mobile,      \* the users with support for handover commands, by identifier
    Request,     \* the requests that users and peers may send
    MaxRequests, \* how many of them they send
    FirstTid,    \* message_out::_tid at the start
    LinkDelete   \* kConf_MIHF_Link_Delete_Value

Aggregated == {"get", "action"}      \* answered by the timer
Relayed    == {"configure", "conf"}  \* answered by the link, or by the timer

ASSUME EntityAssumption ==
    /\ Mihf \notin User \cup Peer \cup Link
    /\ User \cap Peer = {} /\ User \cap Link = {} /\ Peer \cap Link = {}
    /\ Mobile \in Seq(User) /\ \A i, j \in DOMAIN Mobile : Mobile[i] = Mobile[j] => i = j
ASSUME RequestAssumption ==
    \A r \in Request :
        /\ r.from \in User \cup Peer /\ r.to \in {Mihf} \cup Peer
        /\ r.from \in Peer => r.to = Mihf
        /\ r.tid \in 0 .. FirstTid /\ r.links \subseteq Link /\ IsFiniteSet(r.links)
        /\ \/ r.kind \in Aggregated
           \/ r.kind \in Relayed /\ \E l \in Link : r.links = {l}
           \/ r.kind = "handover"
ASSUME BookAssumption == FirstTid \in Nat /\ LinkDelete \in Nat /\ MaxRequests \in Nat

VARIABLES
    book,     \* _link_abook: the failures and the activity of each link
    lpool,    \* _lpool: the pending local transactions, oldest first
    lrpool,   \* _lrpool: answers of links to aggregated requests, oldest first
    timer,    \* _timer: for a transaction identifier, the request and whether its time is over
    due,      \* handlers of expired timers that have not run yet
    tid,      \* message_out::_tid
    atLink,   \* requests that a link has
    atPeer,   \* requests that a peer has
    atUser,   \* indications that a user has
    sent,     \* the requests sent so far
    answers,  \* answers[r]: the answers given to r
    alive     \* the process runs

vars == <<book, lpool, lrpool, timer, due, tid, atLink, atPeer, atUser, sent, answers, alive>>

-----------------------------------------------------------------------------
(***************************************************************************)
(* local_transaction_pool: see LocalPool                                   *)
(***************************************************************************)

\* Mutant of TakeEntry: the entry stays in the pool.
TakeEntryKeeps(id, t) == Find(lpool, id, t) # 0 /\ UNCHANGED lpool

\* set_user_tid finds an entry for a message from id and takes it out.
TakeEntry(id, t) ==
    /\ Find(lpool, id, t) # 0
    /\ lpool' = Without(lpool, Find(lpool, id, t))

NoEntry(id, t) == Find(lpool, id, t) = 0 /\ UNCHANGED lpool

-----------------------------------------------------------------------------
(***************************************************************************)
(* link_book                                                               *)
(***************************************************************************)

\* search_interface
Known(links) == {l \in links : book[l].status}

\* The links of a request that may be asked once more.
Live(links) == {l \in Known(links) : book[l].fail + 1 <= LinkDelete}

\* fail, and inactive for a link that failed too often.
Fail(links) ==
    book' = [l \in Link |->
                IF l \in Known(links)
                THEN [fail |-> book[l].fail + 1, status |-> l \in Live(links)]
                ELSE book[l]]

\* Mutant of Reset: the link stays inactive.
ResetCounter(l) == book' = [book EXCEPT ![l].fail = 0]

Reset(l) == book' = [book EXCEPT ![l] = [fail |-> 0, status |-> TRUE]]

-----------------------------------------------------------------------------
(***************************************************************************)
(* Timers.  Replacing or erasing a timer cancels it, unless it has expired *)
(* and its handler waits in the io_service.                                *)
(***************************************************************************)
Armed(r) ==
    [t \in DOMAIN timer \cup {r.tid} |->
        IF t = r.tid THEN [req |-> r, expired |-> FALSE] ELSE timer[t]]

Disarmed(t) == [u \in DOMAIN timer \ {t} |-> timer[u]]

Expire(t) ==
    /\ t \in DOMAIN timer /\ ~timer[t].expired
    /\ timer' = [timer EXCEPT ![t].expired = TRUE]
    /\ due' = Append(due, timer[t].req)
    /\ UNCHANGED <<book, lpool, lrpool, tid, atLink, atPeer, atUser, sent, answers, alive>>

-----------------------------------------------------------------------------
\* An answer: its receiver, its identifier, who gave it (this MIHF when it found
\* no link or the time was over), and the answers it is made of.
Answer(to, t, by, parts) == [to |-> to, tid |-> t, by |-> by, parts |-> parts]

Answered(r, a) == answers' = [answers EXCEPT ![r] = Append(@, a)]

ToLink(l, r) == [link |-> l, tid |-> r.tid, kind |-> r.kind, req |-> r]

\* utils::forward_request for each of the links.
Entries(user, links, r) ==
    LET list == CHOOSE s \in [1 .. Cardinality(links) -> links] :
                    \A i, j \in DOMAIN s : s[i] = s[j] => i = j
    IN  [i \in 1 .. Cardinality(links) |-> Entry(user, list[i], r.tid)]

Accept(r) ==
    /\ r \notin sent /\ Cardinality(sent) < MaxRequests
    /\ sent' = sent \cup {r}

(***************************************************************************)
(* Requests                                                                *)
(***************************************************************************)

\* link_get_parameters_request, link_actions_request
AskLinks(r) ==
    /\ Accept(r) /\ r.to = Mihf /\ r.kind \in Aggregated
    /\ Fail(r.links)
    /\ lpool' = lpool \o Entries(Mihf, Live(r.links), r)
    /\ atLink' = atLink \cup {ToLink(l, r) : l \in Live(r.links)}
    /\ timer' = Armed(r)
    /\ UNCHANGED <<lrpool, due, tid, atPeer, atUser, answers, alive>>

\* link_configure_thresholds_request.  A link that failed too often is not
\* asked, and nobody is told.
Configure(r) ==
    /\ Accept(r) /\ r.to = Mihf /\ r.kind = "configure"
    /\ Fail(r.links)
    /\ lpool' = lpool \o Entries(r.from, Live(r.links), r)
    /\ atLink' = atLink \cup {ToLink(l, r) : l \in Live(r.links)}
    /\ \/ Known(r.links) = {} /\ Answered(r, Answer(r.from, r.tid, Mihf, {})) /\ UNCHANGED timer
       \/ Live(r.links) # {} /\ timer' = Armed(r) /\ UNCHANGED answers
       \/ Known(r.links) # {} /\ Live(r.links) = {} /\ UNCHANGED <<timer, answers>>
    /\ UNCHANGED <<lrpool, due, tid, atPeer, atUser, alive>>

\* message_out sends the message of r, stored in pool, to the peer or unknown
\* identifier id under the next transaction identifier.
MessageOut(pool, id, r) ==
    /\ tid' = tid + 1
    /\ lpool' = SetRemoteTid(pool, id, r.tid, tid + 1)

\* link_conf_request, l3_conf_request.  For a link that failed too often the
\* message stays empty: transmit takes it for an answer to a user, knows no such
\* user, and passes it to message_out, which knows no such peer.
Conf(r) ==
    LET known == Known(r.links)
        pool  == lpool \o Entries(r.from, known, r)
    IN  /\ Accept(r) /\ r.to = Mihf /\ r.kind = "conf"
        /\ Fail(r.links)
        /\ \/ known = Live(r.links) /\ lpool' = pool /\ UNCHANGED tid
           \/ \E l \in known \ Live(r.links) : MessageOut(pool, l, r)
        /\ atLink' = atLink \cup {ToLink(l, r) : l \in Live(r.links)}
        /\ timer' = Armed(r)
        /\ UNCHANGED <<lrpool, due, atPeer, atUser, answers, alive>>

\* utils::forward_request: a request of a user to a peer.
Forward(r) ==
    /\ Accept(r) /\ r.to \in Peer
    /\ MessageOut(Append(lpool, Entry(r.from, r.to, r.tid)), r.to, r)
    /\ atPeer' = atPeer \cup {[peer |-> r.to, tid |-> tid', req |-> r]}
    /\ UNCHANGED <<book, lrpool, timer, due, atLink, atUser, answers, alive>>

\* generic_command_request.  From the second user on, the source of a local
\* message is this MIHF, in the pool too.
Handover(r) ==
    LET source(i) == IF i = 1 \/ r.from \in Peer THEN r.from ELSE Mihf
    IN  /\ Accept(r) /\ r.to = Mihf /\ r.kind = "handover"
        /\ lpool' = lpool \o [i \in DOMAIN Mobile |-> Entry(source(i), Mobile[i], r.tid)]
        /\ atUser' = atUser \cup {[user |-> Mobile[i], tid |-> r.tid, req |-> r] : i \in DOMAIN Mobile}
        /\ UNCHANGED <<book, lrpool, timer, due, tid, atLink, atPeer, answers, alive>>

-----------------------------------------------------------------------------
(***************************************************************************)
(* Answers                                                                 *)
(***************************************************************************)

\* Mutant of Collect: the first answer cancels the timer.
CollectDisarms(c, t, ok) ==
    /\ lrpool' = IF ok THEN Append(lrpool, [link |-> c.link, tid |-> t, kind |-> c.kind, req |-> c.req])
                 ELSE lrpool
    /\ timer' = Disarmed(t) /\ UNCHANGED answers

\* link_get_parameters_confirm, link_actions_confirm: a success is stored.
Collect(c, t, ok) ==
    /\ lrpool' = IF ok THEN Append(lrpool, [link |-> c.link, tid |-> t, kind |-> c.kind, req |-> c.req])
                 ELSE lrpool
    /\ UNCHANGED <<timer, answers>>

\* link_configure_thresholds_confirm, link_conf_confirm, l3_conf_confirm: the
\* answer goes to the user of the entry e.
Relay(c, e) ==
    /\ timer' = Disarmed(IF c.kind = "configure" THEN c.tid ELSE e.ltid)
    /\ Answered(c.req, Answer(e.user, e.ltid, c.link, {c.req}))
    /\ UNCHANGED lrpool

\* A link confirms the request c.
Confirm(c, ok) ==
    LET e == lpool[Find(lpool, c.link, c.tid)]
    IN  /\ c \in atLink
        /\ Reset(c.link)
        /\ \/ NoEntry(c.link, c.tid) /\ UNCHANGED <<lrpool, timer, answers>>
           \/ /\ TakeEntry(c.link, c.tid)
              /\ \/ c.kind \in Aggregated /\ Collect(c, e.ltid, ok)
                 \/ c.kind \in Relayed /\ Relay(c, e)
        /\ UNCHANGED <<due, tid, atLink, atPeer, atUser, sent, alive>>

\* An answer to req comes from the peer or user id under the identifier t.
Respond(id, t, req) ==
    LET e == lpool[Find(lpool, id, t)]
    IN  /\ \/ NoEntry(id, t) /\ UNCHANGED answers
           \/ TakeEntry(id, t) /\ Answered(req, Answer(e.user, e.ltid, id, {req}))
        /\ UNCHANGED <<book, lrpool, timer, due, tid, atLink, atPeer, atUser, sent, alive>>

\* The handlers of a response from a peer
PeerResponse(c) ==
    /\ c \in atPeer
    /\ Respond(c.peer, c.tid, c.req)

\* generic_command_response for the answer of a user
UserResponse(c) ==
    /\ c \in atUser
    /\ Respond(c.user, c.tid, c.req)

\* Mutant of Matches: an answer to any request of the link.
MatchesLink(x, t, l) == x.link = l

\* link_response_pool::check
Matches(x, t, l) == x.tid = t /\ x.link = l

\* The first stored answer of each link for the identifier t.
Stored(t) ==
    LET at(l) == First({i \in DOMAIN lrpool : Matches(lrpool[i], t, l)})
    IN  {at(l) : l \in {k \in Link : at(k) # 0}}

\* The elements of the list s at the positions P, in their order.
Keep(s, P) ==
    LET rank(i) == Cardinality({k \in P : k <= i})
    IN  [j \in {rank(i) : i \in P} |-> s[CHOOSE i \in P : rank(i) = j]]

\* link_get_parameters_response_handler, link_actions_response_handler.  A stored
\* answer of the other kind makes boost::get throw, and nobody catches it.
Aggregate(r) ==
    LET got == Stored(r.tid)
    IN  \/ /\ \E i \in got : lrpool[i].kind # r.kind
           /\ alive' = FALSE
           /\ UNCHANGED <<lrpool, answers>>
        \/ /\ \A i \in got : lrpool[i].kind = r.kind
           /\ lrpool' = Keep(lrpool, DOMAIN lrpool \ got)
           /\ Answered(r, Answer(r.from, r.tid, Mihf, {lrpool[i].req : i \in got}))
           /\ UNCHANGED alive

\* The handler of an expired timer.
Fire ==
    LET r == Head(due)
    IN  /\ due # <<>>
        /\ due' = Tail(due)
        /\ timer' = Disarmed(r.tid)
        /\ \/ r.kind \in Aggregated /\ Aggregate(r)
           \/ /\ r.kind \in Relayed
              /\ Answered(r, Answer(r.from, r.tid, Mihf, {}))
              /\ UNCHANGED <<lrpool, alive>>
        /\ UNCHANGED <<book, lpool, tid, atLink, atPeer, atUser, sent>>

-----------------------------------------------------------------------------
Init ==
    /\ book = [l \in Link |-> [fail |-> 0, status |-> TRUE]]
    /\ lpool = <<>> /\ lrpool = <<>> /\ due = <<>>
    /\ timer = [t \in {} |-> 0]
    /\ tid = FirstTid
    /\ atLink = {} /\ atPeer = {} /\ atUser = {}
    /\ sent = {}
    /\ answers = [r \in Request |-> <<>>]
    /\ alive = TRUE

Next ==
    /\ alive
    /\ \/ \E r \in Request : AskLinks(r) \/ Configure(r) \/ Conf(r) \/ Forward(r) \/ Handover(r)
       \/ \E c \in atLink, ok \in BOOLEAN : Confirm(c, ok)
       \/ \E c \in atPeer : PeerResponse(c)
       \/ \E c \in atUser : UserResponse(c)
       \/ \E t \in DOMAIN timer : Expire(t)
       \/ Fire

Spec == Init /\ [][Next]_vars

\* Time passes, and the io_service runs its handlers.
FairSpec == Spec /\ WF_vars(\E t \in DOMAIN timer : Expire(t)) /\ WF_vars(Fire)

-----------------------------------------------------------------------------
(***************************************************************************)
(* Properties                                                              *)
(***************************************************************************)
\* A link is inactive exactly when it failed more often than link_delete allows
\* since its last confirmation: a confirmation that comes late brings it back,
\* and the counter stops at the failure that makes it inactive.
InactiveAfterFailures ==
    \A l \in Link : (book[l].status <=> book[l].fail <= LinkDelete) /\ book[l].fail <= LinkDelete + 1

Clash(q, r) == q # r /\ q.tid = r.tid /\ {q, r} \subseteq sent

\* The answers to a request go to its sender, under its identifier, and are made
\* of answers to this request only; a link, a peer or a user that repeats its
\* answer is heard once, and so is the timer.  This needs that no other request has
\* the identifier of this one.  The answers of the second and later users to the
\* handover request of a local user go to this MIHF instead (generic_command_request).
AnswersFit ==
    \A r \in Request :
        \/ \E q \in Request : Clash(q, r)
        \/ \A i, j \in DOMAIN answers[r] :
               LET a == answers[r][i]
               IN  /\ a.tid = r.tid /\ a.parts \subseteq {r}
                   /\ \/ a.to = r.from
                      \/ a.to = Mihf /\ r.from \in User /\ \E k \in 2 .. Len(Mobile) : a.by = Mobile[k]
                   /\ i # j => a.by # answers[r][j].by

\* The handler of a timer meets no answer of the other kind, which would end the
\* process, unless two requests of different kinds had the same identifier.
DiesOnClashOnly == alive \/ \E q, r \in Request : Clash(q, r) /\ q.kind # r.kind

\* Every request the timer answers is answered, unless another one has its
\* identifier and takes over its timer.
AggregatesAnswered ==
    \A r \in {q \in Request : q.kind \in Aggregated /\ q.to = Mihf} :
        r \in sent ~> answers[r] # <<>> \/ ~alive \/ \E q \in Request : Clash(q, r)
=============================================================================
