------------------------------ MODULE MihfPeers ------------------------------
(***************************************************************************)
(* MIHFs exchanging messages: in each one the transaction pool             *)
(* (src/src/mihf/transaction_pool.cpp) driven by message_in.cpp (a message *)
(* from the network), message_out.cpp (a message of a service or of a user *)
(* to a peer) and the one-second tick; between them UDP, which loses,      *)
(* duplicates, delays and reorders.                                        *)
(*                                                                         *)
(* The MIHF runs one io_service in one thread, so a handler is one action. *)
(* The services above are the environment: they send any request or        *)
(* indication, answer a request at once or any time later, once.           *)
(***************************************************************************)
EXTENDS Transaction, FiniteSets

CONSTANTS
    Traffic,    \* the messages that users and services send of their own accord
    LocalTid,   \* transaction identifiers they put in these messages
    MaxFaults,  \* how many packets the network duplicates or loses
    Starts      \* the starts considered: the values of _tid (random in the code),
                \* the messages to be sent, and the faults already used up

ASSUME TrafficAssumption ==
    /\ Traffic \subseteq [from : Node, to : Id, opcode : {"request", "indication"}, body : Body]
    /\ \A x \in Traffic : x.to # x.from
    /\ \A x, y \in Traffic : x.body = y.body => x = y
ASSUME LocalTidAssumption == LocalTid \subseteq Tid
ASSUME NetAssumption      == MaxFaults \in Nat
ASSUME StartAssumption    ==
    Starts \subseteq [tid : [Node -> Tid], unsent : SUBSET Traffic, faults : 0 .. MaxFaults]

VARIABLES
    src,      \* src[n]: the pool _src of n, a function from Key to Transaction
    dst,      \* dst[n]: the pool _dst of n
    tid,      \* tid[n]: message_out::_tid
    net,      \* packets in flight
    faults,   \* packets the network has duplicated or lost
    unsent,   \* the messages of Traffic not sent yet
    todo,     \* todo[n]: requests given to the services of n and not answered
    handled,  \* handled[n]: messages given to the services of n
    repeated, \* repeated[n]: those given to them more than once
    verdict   \* verdict[x]: how the source transaction of x ended

vars == <<src, dst, tid, net, faults, unsent, todo, handled, repeated, verdict>>

-----------------------------------------------------------------------------
(***************************************************************************)
(* The pools.  Both are a std::set whose comparator says "less" for any    *)
(* two different keys, which is no ordering.  libstdc++ then puts a new    *)
(* element in front of all others and looks for the element to erase on    *)
(* the right spine of its tree only.  The oldest element is always there,  *)
(* any other one may be off it, and is then left in the set.  A            *)
(* transaction therefore remembers the ones inserted before it (older).    *)
(* An element with the key of another one is refused if that one is on the *)
(* left spine, as in a set that never held more than two; Insert takes it  *)
(* so.                                                                     *)
(***************************************************************************)
KeyOf(t) == <<t.peer, t.tid>>

Stored(t) == [t EXCEPT !.sent = {}, !.handed = {}]

Insert(pool, t) ==
    [k \in DOMAIN pool \cup {KeyOf(t)} |->
        IF k \in DOMAIN pool THEN pool[k] ELSE [Stored(t) EXCEPT !.older = DOMAIN pool]]

Update(pool, k, t) == [pool EXCEPT ![k] = Stored(t)]

Keep(pool, K) == [k \in K |-> [pool[k] EXCEPT !.older = @ \cap K]]

\* The pools that erasing the keys del, oldest first, can leave.
Erase(pool, del) ==
    {Keep(pool, K) : K \in {S \in SUBSET DOMAIN pool :
        /\ DOMAIN pool \ del \subseteq S
        /\ \A k \in S \cap del : pool[k].older \cap S # {}}}

\* if (transaction_status != ONGOING && ack_requestor_status != ONGOING) del(t)
EraseIfDone(pool, k, t) ==
    Erase(Update(pool, k, t),
          IF t.transaction_status # "ONGOING" /\ t.ack_requestor_status # "ONGOING"
          THEN {k} ELSE {})

\* if (transaction_status == ONGOING) add(t)
AddIfOngoing(pool, t) ==
    IF t.transaction_status = "ONGOING" THEN Insert(pool, t) ELSE pool

-----------------------------------------------------------------------------
Packet == [to : Node, msg : Message]

Packets(m) ==
    [to : IF m.destination = Multicast THEN Node ELSE {m.destination}, msg : {m}]

Transmitted(t) == UNION {Packets(m) : m \in t.sent}

\* The services of n get the messages ms.  A request waits for an answer
\* unless its handler gave one at once.
HandOver(n, ms, answered) ==
    /\ handled'  = [handled EXCEPT ![n] = @ \cup ms]
    /\ repeated' = [repeated EXCEPT ![n] = @ \cup (ms \cap handled[n])]
    /\ todo' = [todo EXCEPT ![n] = @ \cup {m \in ms : m.opcode = "request" /\ ~answered}]

\* The status of a source transaction of n when it ends; ts are its versions
\* after a handler that found it ongoing.
Judge(n, ts) ==
    verdict' = [x \in Traffic |->
        LET ended == {t \in ts : /\ t.transaction_status # "ONGOING"
                                /\ x.from = n /\ t.out.body = x.body}
        IN  IF ended = {} THEN verdict[x] ELSE (CHOOSE t \in ended : TRUE).transaction_status]

IfOngoing(before, after) == IF before.transaction_status = "ONGOING" THEN {after} ELSE {}

-----------------------------------------------------------------------------
(***************************************************************************)
(* message_out::operator()                                                 *)
(***************************************************************************)

\* Mutant of NextTid: the identifier does not wrap.
NextTidUnbounded(i) == i + 1

\* uint16 _tid, which skips 0
NextTid(i) == IF i = MaxTid THEN 1 ELSE i + 1

\* new_src_transaction
NewSrc(n, m) ==
    LET i == NextTid(tid[n])
        t == NewSrcTransaction([m EXCEPT !.tid = i])
    IN  /\ tid' = [tid EXCEPT ![n] = i]
        /\ src' = [src EXCEPT ![n] = AddIfOngoing(@, t)]
        /\ net' = net \cup Transmitted(t)
        /\ Judge(n, {t})
        /\ UNCHANGED dst

\* What message_out does to a transaction found for the message m; Run is
\* its state machine.
OutTo(t, m, Run(_)) ==
    LET s == StartedAckResponder(StartedAckRequestor(
                 [t EXCEPT !.out = m, !.msg_out_avail = TRUE]))
    IN  IF s.transaction_status = "ONGOING" THEN Run(s) ELSE s

\* A user or a service of n sends the request or indication x to a peer, in a
\* message with the transaction identifier i.
SendMessage(n, x, i) ==
    LET m == [opcode |-> x.opcode, ackreq |-> TRUE, ackrsp |-> FALSE, tlv |-> TRUE,
              tid |-> i, source |-> n, destination |-> x.to, body |-> x.body]
        k == <<x.to, i>>
        t == OutTo(src[n][k], m, LAMBDA s : SrcRun(s, n))
    IN  /\ x \in unsent /\ x.from = n
        /\ unsent' = unsent \ {x}
        /\ \/ /\ k \notin DOMAIN src[n]
              /\ NewSrc(n, m)
              /\ UNCHANGED <<todo, handled, repeated>>
           \/ /\ k \in DOMAIN src[n]
              /\ \E pool \in EraseIfDone(src[n], k, t) : src' = [src EXCEPT ![n] = pool]
              /\ net' = net \cup Transmitted(t)
              /\ HandOver(n, t.handed, FALSE)
              /\ Judge(n, IfOngoing(src[n][k], t))
              /\ UNCHANGED <<dst, tid>>
        /\ UNCHANGED faults

Response(n, m) ==
    [opcode |-> "response", ackreq |-> FALSE, ackrsp |-> FALSE, tlv |-> TRUE,
     tid |-> m.tid, source |-> n, destination |-> m.source, body |-> m.body]

\* A service or a user of n answers the request m it was given.
SendResponse(n, m) ==
    LET r == [Response(n, m) EXCEPT !.ackreq = TRUE]
        k == <<m.source, m.tid>>
        t == OutTo(dst[n][k], r, DstRun)
    IN  /\ m \in todo[n]
        /\ todo' = [todo EXCEPT ![n] = @ \ {m}]
        /\ \/ /\ k \notin DOMAIN dst[n]
              /\ NewSrc(n, r)
           \/ /\ k \in DOMAIN dst[n]
              /\ \E pool \in EraseIfDone(dst[n], k, t) : dst' = [dst EXCEPT ![n] = pool]
              /\ net' = net \cup Transmitted(t)
              /\ UNCHANGED <<src, tid, verdict>>
        /\ UNCHANGED <<faults, unsent, handled, repeated>>

-----------------------------------------------------------------------------
(***************************************************************************)
(* message_in::operator()                                                  *)
(***************************************************************************)

\* Mutant of ForSrc: every acknowledgement goes to a source transaction.
ForSrcAnyAck(m) == m.ackrsp \/ m.opcode = "response"

\* The message belongs to a source transaction, if there is one.
ForSrc(m) ==
    \/ m.ackrsp /\ m.opcode \in {"request", "indication"}
    \/ ~m.ackrsp /\ m.opcode = "response"
    \/ m.ackrsp /\ m.opcode = "response" /\ m.tlv

InToSrc(t, m, me) ==
    LET s == StartedAckResponder(StartedAckRequestor(
                 [t EXCEPT !.in = m, !.msg_in_avail = TRUE]))
    IN  IF s.transaction_status = "ONGOING" /\ ~(m.ackrsp /\ m.opcode = "request")
        THEN SrcRun(s, me) ELSE s

\* Mutant of InToDst: a copy of the request is processed again.
InToDstAgain(t, m) ==
    LET s == StartedAckRequestor([t EXCEPT !.in = m, !.msg_in_avail = TRUE])
        r == IF s.transaction_status = "ONGOING" THEN ProcessMessage(DstRun(s), s.me) ELSE s
    IN  IF r.transaction_status = "ONGOING" THEN StartedAckResponder(r) ELSE r

InToDst(t, m) ==
    LET s == StartedAckRequestor([t EXCEPT !.in = m, !.msg_in_avail = TRUE])
        r == IF s.transaction_status = "ONGOING" THEN DstRun(s) ELSE s
    IN  IF r.transaction_status = "ONGOING" THEN StartedAckResponder(r) ELSE r

\* What the handler of m can put in out: nothing, or the answer to a request.
Reply(n, m) ==
    {NoMsg} \cup IF m.opcode = "request" /\ Accepted(m, n) THEN {Response(n, m)} ELSE {}

MessageIn(n, m, rest) ==
    LET k == <<m.source, m.tid>>
    IN  \/ /\ ForSrc(m) /\ k \in DOMAIN src[n]
           /\ LET t == InToSrc(src[n][k], m, n)
              IN  /\ \E pool \in EraseIfDone(src[n], k, t) : src' = [src EXCEPT ![n] = pool]
                  /\ net' = rest \cup Transmitted(t)
                  /\ HandOver(n, t.handed, FALSE)
                  /\ Judge(n, IfOngoing(src[n][k], t))
           /\ UNCHANGED dst
        \/ /\ ~ForSrc(m) /\ k \in DOMAIN dst[n]
           /\ LET t == InToDst(dst[n][k], m)
              IN  /\ \E pool \in EraseIfDone(dst[n], k, t) : dst' = [dst EXCEPT ![n] = pool]
                  /\ net' = rest \cup Transmitted(t)
                  /\ HandOver(n, t.handed, FALSE)
           /\ UNCHANGED <<src, verdict>>
        \/ /\ k \notin DOMAIN (IF ForSrc(m) THEN src[n] ELSE dst[n])
           /\ \E reply \in Reply(n, m) :
                  LET t == NewDstTransaction(m, n, reply)
                  IN  /\ dst' = [dst EXCEPT ![n] = AddIfOngoing(@, t)]
                      /\ net' = rest \cup Transmitted(t)
                      /\ HandOver(n, t.handed, reply # NoMsg)
           /\ UNCHANGED <<src, verdict>>

-----------------------------------------------------------------------------
(***************************************************************************)
(* The network and the clock.                                              *)
(***************************************************************************)

\* udp_listener passes a packet on; the network may deliver it again.
Receive(p) ==
    /\ p \in net
    /\ \/ MessageIn(p.to, p.msg, net \ {p}) /\ UNCHANGED faults
       \/ /\ faults < MaxFaults
          /\ faults' = faults + 1
          /\ MessageIn(p.to, p.msg, net)
    /\ UNCHANGED <<tid, unsent>>

Lose(p) ==
    /\ p \in net
    /\ faults < MaxFaults
    /\ faults' = faults + 1
    /\ net' = net \ {p}
    /\ UNCHANGED <<src, dst, tid, unsent, todo, handled, repeated, verdict>>

\* transaction_pool::tick: dec on both pools.
Tick(n) ==
    LET s == [k \in DOMAIN src[n] |-> SrcDec(src[n][k], n)]
        d == [k \in DOMAIN dst[n] |-> DstDec(dst[n][k])]
        sDel == {k \in DOMAIN s : DecDeletes(src[n][k], s[k])}
        dDel == {k \in DOMAIN d : DecDeletes(dst[n][k], d[k])}
        all  == {s[k] : k \in DOMAIN s} \cup {d[k] : k \in DOMAIN d}
    IN  /\ \E pool \in Erase([k \in DOMAIN s |-> Stored(s[k])], sDel) :
               src' = [src EXCEPT ![n] = pool]
        /\ \E pool \in Erase([k \in DOMAIN d |-> Stored(d[k])], dDel) :
               dst' = [dst EXCEPT ![n] = pool]
        /\ net' = net \cup UNION {Transmitted(t) : t \in all}
        /\ HandOver(n, UNION {t.handed : t \in all}, FALSE)
        /\ Judge(n, UNION {IfOngoing(src[n][k], s[k]) : k \in DOMAIN s})
        /\ UNCHANGED <<tid, faults, unsent>>

-----------------------------------------------------------------------------
NoTransactions == [k \in {} |-> NewTransaction]

Init ==
    /\ src = [n \in Node |-> NoTransactions]
    /\ dst = [n \in Node |-> NoTransactions]
    /\ \E s \in Starts : tid = s.tid /\ unsent = s.unsent /\ faults = s.faults
    /\ net = {}
    /\ todo = [n \in Node |-> {}]
    /\ handled = [n \in Node |-> {}]
    /\ repeated = [n \in Node |-> {}]
    /\ verdict = [x \in Traffic |-> "ONGOING"]

Next ==
    \/ \E n \in Node, x \in Traffic, i \in LocalTid : SendMessage(n, x, i)
    \/ \E n \in Node : \E m \in todo[n] : SendResponse(n, m)
    \/ \E p \in net : Receive(p)
    \/ \E p \in net : Lose(p)
    \/ \E n \in Node : Tick(n)

Spec == Init /\ [][Next]_vars

\* The timer of every pool fires again and again, and no packet stays in the
\* network for ever.
Fairness ==
    /\ \A n \in Node : WF_vars(Tick(n))
    /\ WF_vars(\E p \in net : Receive(p) \/ Lose(p))

FairSpec == Spec /\ Fairness

-----------------------------------------------------------------------------
(***************************************************************************)
(* Properties                                                              *)
(***************************************************************************)

IsPool(pool) == DOMAIN pool \subseteq Key /\ pool \in [DOMAIN pool -> Transaction]

\* Types of all variables: no null message pointer is sent, handed over or
\* kept as the message to retransmit, and message_out::_tid wraps around within
\* its width.
TypeOK ==
    /\ src = [n \in Node |-> src[n]]
    /\ dst = [n \in Node |-> dst[n]]
    /\ \A n \in Node : IsPool(src[n]) /\ IsPool(dst[n])
    /\ tid \in [Node -> Tid]
    /\ net \subseteq Packet
    /\ faults \in 0 .. MaxFaults
    /\ unsent \subseteq Traffic
    /\ todo \in [Node -> SUBSET Message]
    /\ handled \in [Node -> SUBSET Message]
    /\ repeated \in [Node -> SUBSET Message]
    /\ verdict \in [Traffic -> Status]

\* Every transaction is stored under its own key, with nothing left to send or
\* to hand over, and is sound: its state machine, its acknowledgements and its
\* timers agree.
PoolsSound ==
    \A n \in Node :
        /\ \A k \in DOMAIN src[n] :
               LET t == src[n][k]
               IN  KeyOf(t) = k /\ t.sent = {} /\ t.handed = {} /\ SrcSound(t)
        /\ \A k \in DOMAIN dst[n] :
               LET t == dst[n][k]
               IN  KeyOf(t) = k /\ t.sent = {} /\ t.handed = {} /\ DstSound(t)

\* dec runs the state machines with the pool's mutex locked.  It never reaches
\* process_message there: the handler could send a message, and message_out
\* would lock the same mutex again and block for ever.
NoHandlerUnderLock ==
    \A n \in Node : \A k \in DOMAIN src[n] : SrcDec(src[n][k], n).handed = {}

\* When dec drops a source transaction because its time is over, the
\* transaction has succeeded or failed: the last retransmission of a message
\* and the end of its transaction fall in the same tick, in this order.
DroppedIsDecided ==
    \A n \in Node : \A k \in DOMAIN src[n] :
        LET d == SrcDec(src[n][k], n)
        IN  DecDeletes(src[n][k], d) => d.transaction_status # "ONGOING"

\* x reached the services of its destination.
Arrived(x) ==
    \E n \in Node \ {x.from} : \E m \in handled[n] :
        x.to \in {n, Multicast} /\ m.source = x.from /\ m.opcode = x.opcode /\ m.body = x.body

\* An answer to x reached the services of its sender.
Answered(x) == \E m \in handled[x.from] : m.opcode = "response" /\ m.body = x.body

\* The destination transaction of a request detects its copies: the services
\* get a request again only when no transaction for it is pending.  (With ackrsp
\* the message is an acknowledgement, which message_in looks for in _src.)
NoRepeatWhilePending ==
    [][\A n \in Node : \A m \in repeated'[n] \ repeated[n] :
          m.opcode = "request" /\ ~m.ackrsp => <<m.source, m.tid>> \notin DOMAIN dst[n]]_vars

\* Every message sent to a peer ends with success or failure.
EveryTransactionEnds ==
    \A x \in Traffic : x \in unsent => (x \notin unsent ~> verdict[x] # "ONGOING")

\* Once the users stop, the retransmissions, acknowledgements, answers and
\* the transactions they open die out: every pool becomes and stays empty.
Quiesces == <>[](net = {} /\ \A n \in Node : DOMAIN src[n] = {} /\ DOMAIN dst[n] = {})

\* The transaction controller detects duplicates, as doc/src/app/mihf.qbk says
\* of it: no message reaches the services of a MIHF twice.
DuplicatesDetected == \A n \in Node : repeated[n] = {}
=============================================================================
