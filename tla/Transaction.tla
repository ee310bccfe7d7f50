---------------------------- MODULE Transaction ----------------------------
(***************************************************************************)
(* The remote transactions of the MIHF (src/src/mihf/transaction.hpp,      *)
(* src_transaction.cpp, dst_transaction.cpp): the ack requestor and the    *)
(* ack responder, the source and the destination state machine.            *)
(*                                                                         *)
(* A transaction is a record with the fields of transaction_t.  A state    *)
(* machine of the code is an operator from a transaction to a transaction, *)
(* with one operator per label.  Two fields collect what one call does to  *)
(* the outside and are empty between calls:                                *)
(*   sent     the messages passed to _netsap.send                          *)
(*   handed   the messages process_message gives to a service              *)
(***************************************************************************)
EXTENDS Naturals

CONSTANTS
    Node,       \* identifiers of the MIHFs
    Multicast,  \* the empty destination identifier (utils::is_multicast)
    NoMsg,      \* a null meta_message_ptr, or a message nobody reads
    Body,       \* payloads of the messages the MIH users exchange
    NoBody,     \* the payload of a pure acknowledgement
    MaxTid,     \* largest transaction identifier (65535 in the code)
    StopWhen,   \* ticks a transaction may last (15 in the code)
    RtxWhen,    \* ticks between two transmissions (5 in the code)
    MaxRtx,     \* retransmissions of an unacknowledged message (2 in the code)
    EmptyValid, \* whether the handlers take a message without payload
    Wrapped     \* an unsigned counter that was decremented below zero

ASSUME IdAssumption   == Multicast \notin Node
ASSUME MsgAssumption  == NoBody \notin Body
ASSUME HandlerAssumption == EmptyValid \in BOOLEAN
ASSUME TidAssumption  == MaxTid \in Nat \ {0}
ASSUME TimeAssumption ==
    /\ StopWhen \in Nat \ {0}
    /\ RtxWhen \in Nat \ {0}
    /\ MaxRtx \in Nat
    /\ Wrapped \in Nat
    /\ Wrapped > StopWhen
    /\ Wrapped > RtxWhen
    /\ StopWhen >= RtxWhen * (MaxRtx + 1)

Id     == Node \cup {Multicast}
Tid    == 0 .. MaxTid
Opcode == {"request", "response", "indication"}
Status == {"ONGOING", "SUCCESS", "FAILURE"}

\* A meta_message: the header fields the transactions read.  tlv is
\* has_service_specific_tlv: whether there is a payload after the header.
Message == [opcode : Opcode, ackreq : BOOLEAN, ackrsp : BOOLEAN, tlv : BOOLEAN,
            tid : Tid, source : Node, destination : Id, body : Body \cup {NoBody}]

MaybeMessage == Message \cup {NoMsg}

SrcState    == {"INIT", "WAIT_RESPONSE_MSG", "PROCESS_MSG", "WAIT_ACK", "FAILURE", "SUCCESS"}
DstState    == {"INIT", "WAIT_RESPONSE_PRM", "SEND_RESPONSE", "FAILURE", "SUCCESS"}
AckReqState == {"INIT", "WAIT_ACK", "RETRANSMIT", "SUCCESS", "FAILURE"}
AckRspState == {"INIT", "RETURN_ACK", "PIGGYBACKING", "RETURN_DUPLICATE"}

Key == Id \X Tid

\* older is not a field of the code: see Insert in module MihfPeers.
Transaction ==
    [state : SrcState \cup DstState, opcode : Opcode,
     tid : Tid, me : Id, peer : Id,
     in : MaybeMessage, msg_in_avail : BOOLEAN,
     out : MaybeMessage, msg_out_avail : BOOLEAN,
     transaction_status : Status, ack_requestor_status : Status,
     start_ack_requestor : BOOLEAN, start_ack_responder : BOOLEAN,
     is_multicast : BOOLEAN, response_received : BOOLEAN,
     ack_req_state : AckReqState, ack_rsp_state : AckRspState,
     dup : MaybeMessage, ack : MaybeMessage, rtxctr : 0 .. MaxRtx,
     transaction_stop_when : 0 .. Wrapped, retransmission_when : 0 .. Wrapped,
     sent : SUBSET MaybeMessage, handed : SUBSET MaybeMessage,
     older : SUBSET Key]
-----------------------------------------------------------------------------
(***************************************************************************)
(* Acknowledge responder (transaction_t::ack_responder).                   *)
(***************************************************************************)

\* The acknowledgement built in _rsp_init_lbl_; mid(in->mid()) overrides the
\* operation code set before it.
AckMessage(t) ==
    [opcode |-> t.in.opcode, ackreq |-> FALSE, ackrsp |-> TRUE, tlv |-> FALSE,
     tid |-> t.tid, source |-> t.me, destination |-> t.peer, body |-> NoBody]

RspReturnDuplicate(t) ==
    [t EXCEPT !.ack_rsp_state = "RETURN_DUPLICATE",
              !.sent = IF t.msg_in_avail THEN @ \cup {t.dup} ELSE @,
              !.msg_in_avail = FALSE]

RspPiggybacking(t) ==
    LET out == [t.out EXCEPT !.ackrsp = TRUE]
        p   == [t EXCEPT !.ack_rsp_state = "PIGGYBACKING", !.out = out, !.dup = out]
    IN  IF t.msg_in_avail THEN RspReturnDuplicate(p) ELSE p

\* _netsap.send(ack); msg_in_avail = false
SendAck(t) == [t EXCEPT !.sent = @ \cup {t.ack}, !.msg_in_avail = FALSE]

RspReturnAck(t) ==
    LET r == [t EXCEPT !.ack_rsp_state = "RETURN_ACK"]
    IN  IF t.msg_in_avail THEN SendAck(r)
        ELSE IF t.msg_out_avail THEN RspPiggybacking(r) ELSE r

RspInit(t) ==
    LET r == [t EXCEPT !.ack = AckMessage(t)]
    IN  IF t.msg_out_avail THEN RspPiggybacking(r) ELSE RspReturnAck(SendAck(r))

AckResponder(t) ==
    CASE t.ack_rsp_state = "INIT"             -> RspInit(t)
      [] t.ack_rsp_state = "RETURN_ACK"       -> RspReturnAck(t)
      [] t.ack_rsp_state = "PIGGYBACKING"     -> RspPiggybacking(t)
      [] t.ack_rsp_state = "RETURN_DUPLICATE" -> RspReturnDuplicate(t)

(***************************************************************************)
(* Acknowledge requestor (transaction_t::ack_requestor).                   *)
(***************************************************************************)

ReqFailure(t) == [t EXCEPT !.ack_req_state = "FAILURE", !.ack_requestor_status = "FAILURE"]

ReqSuccess(t) == [t EXCEPT !.ack_req_state = "SUCCESS", !.ack_requestor_status = "SUCCESS"]

\* The end of _req_wait_ack_lbl_, with retransmission_when # 0.
ReqCheckAck(t) == IF t.msg_in_avail /\ t.in.ackrsp THEN ReqSuccess(t) ELSE t

ReqWaitAckBegin(t) ==
    ReqCheckAck([t EXCEPT !.ack_req_state = "WAIT_ACK", !.retransmission_when = RtxWhen])

ReqInit(t) == ReqWaitAckBegin([t EXCEPT !.ack_requestor_status = "ONGOING", !.rtxctr = 0])

\* Mutant of ReqRetransmit: goes on at _req_wait_ack_lbl_, with the timer at 0.
ReqRetransmitTimeless(t) ==
    ReqCheckAck([t EXCEPT !.ack_req_state = "WAIT_ACK", !.sent = @ \cup {t.out}, !.rtxctr = @ + 1])

ReqRetransmit(t) == ReqWaitAckBegin([t EXCEPT !.sent = @ \cup {t.out}, !.rtxctr = @ + 1])

\* Mutant of ReqWaitAck: one retransmission too many.
ReqWaitAckOnceMore(t) ==
    IF t.retransmission_when # 0 THEN ReqCheckAck(t)
    ELSE IF t.rtxctr =< MaxRtx THEN ReqRetransmit(t) ELSE ReqFailure(t)

ReqWaitAck(t) ==
    IF t.retransmission_when # 0 THEN ReqCheckAck(t)
    ELSE IF t.rtxctr < MaxRtx THEN ReqRetransmit(t) ELSE ReqFailure(t)

AckRequestor(t) ==
    CASE t.ack_req_state = "INIT"       -> ReqInit(t)
      [] t.ack_req_state = "WAIT_ACK"   -> ReqWaitAck(t)
      [] t.ack_req_state = "RETRANSMIT" -> ReqRetransmit(t)
      [] t.ack_req_state = "SUCCESS"    -> ReqSuccess(t)
      [] t.ack_req_state = "FAILURE"    -> ReqFailure(t)

StartedAckRequestor(t) == IF t.start_ack_requestor THEN AckRequestor(t) ELSE t
StartedAckResponder(t) == IF t.start_ack_responder THEN AckResponder(t) ELSE t

(***************************************************************************)
(* process_message is sac_process_message: a message this MIHF multicast   *)
(* itself is discarded, and so is one its handler finds malformed          *)
(* (bad_tlv), as most handlers find a message without payload.             *)
(***************************************************************************)
Accepted(m, me) == m.source # me /\ (m.tlv \/ EmptyValid)

ProcessMessage(t, me) == IF Accepted(t.in, me) THEN [t EXCEPT !.handed = @ \cup {t.in}] ELSE t

-----------------------------------------------------------------------------
(***************************************************************************)
(* Source transaction (src_transaction_t::run): this MIHF sent a message.  *)
(***************************************************************************)

Finish(t, status) == [t EXCEPT !.state = status, !.transaction_status = status]

\* Mutant of SrcWaitAck: any end of the ack requestor is a success.
SrcWaitAckTrusting(t) ==
    IF t.ack_requestor_status = "ONGOING"
    THEN [t EXCEPT !.state = "WAIT_ACK"]
    ELSE Finish(t, "SUCCESS")

SrcWaitAck(t) ==
    IF t.ack_requestor_status = "ONGOING"
    THEN [t EXCEPT !.state = "WAIT_ACK"]
    ELSE Finish(t, t.ack_requestor_status)

\* A multicast request goes back to _wait_response_msg_lbl_, where nothing is
\* left to process and the time is not over.
SrcProcessMsg(t, me) ==
    LET r == StartedAckResponder([t EXCEPT !.start_ack_responder = t.in.ackreq,
                                           !.msg_out_avail = FALSE])
        p == [ProcessMessage(r, me) EXCEPT !.msg_in_avail = FALSE, !.response_received = TRUE]
    IN  IF t.is_multicast THEN [p EXCEPT !.state = "WAIT_RESPONSE_MSG"] ELSE Finish(p, "SUCCESS")

\* Mutants of SrcWaitResponseMsg: the message is looked at before the time, or
\* the time is forgotten.
SrcWaitResponseMsgMsgFirst(t, me) ==
    IF t.msg_in_avail THEN SrcProcessMsg(t, me)
    ELSE IF t.transaction_stop_when = 0
         THEN Finish(t, IF t.response_received THEN "SUCCESS" ELSE "FAILURE")
         ELSE [t EXCEPT !.state = "WAIT_RESPONSE_MSG"]

SrcWaitResponseMsgTimeless(t, me) ==
    IF t.msg_in_avail THEN SrcProcessMsg(t, me) ELSE [t EXCEPT !.state = "WAIT_RESPONSE_MSG"]

SrcWaitResponseMsg(t, me) ==
    IF t.transaction_stop_when = 0
    THEN Finish(t, IF t.response_received THEN "SUCCESS" ELSE "FAILURE")
    ELSE IF t.msg_in_avail
         THEN SrcProcessMsg(t, me)
         ELSE [t EXCEPT !.state = "WAIT_RESPONSE_MSG"]

SrcRun(t, me) ==
    CASE t.state = "WAIT_RESPONSE_MSG" -> SrcWaitResponseMsg(t, me)
      [] t.state = "WAIT_ACK"          -> SrcWaitAck(t)
      [] t.state = "PROCESS_MSG"       -> SrcProcessMsg(t, me)
      [] t.state = "FAILURE"           -> Finish(t, "FAILURE")
      [] t.state = "SUCCESS"           -> Finish(t, "SUCCESS")

\* transaction_t::transaction_t
NewTransaction ==
    [state |-> "INIT", opcode |-> "request", tid |-> 0, me |-> Multicast, peer |-> Multicast,
     in |-> NoMsg, msg_in_avail |-> FALSE, out |-> NoMsg, msg_out_avail |-> FALSE,
     transaction_status |-> "ONGOING", ack_requestor_status |-> "ONGOING",
     start_ack_requestor |-> FALSE, start_ack_responder |-> FALSE,
     is_multicast |-> FALSE, response_received |-> FALSE,
     ack_req_state |-> "INIT", ack_rsp_state |-> "INIT",
     dup |-> NoMsg, ack |-> NoMsg, rtxctr |-> 0,
     transaction_stop_when |-> 0, retransmission_when |-> 0,
     sent |-> {}, handed |-> {}, older |-> {}]

\* new_src_transaction up to the end of the first run(), for the message m.
NewSrcTransaction(m) ==
    LET t == [NewTransaction EXCEPT
                !.out = m, !.msg_out_avail = TRUE, !.opcode = m.opcode,
                !.transaction_stop_when = StopWhen,
                !.is_multicast = m.destination = Multicast,
                !.start_ack_requestor = m.ackreq /\ m.destination # Multicast,
                !.tid = m.tid, !.me = m.source, !.peer = m.destination,
                !.sent = {m}]
        s == StartedAckRequestor(t)
    IN  CASE m.opcode = "indication" /\ s.start_ack_requestor ->
                 SrcWaitAck([s EXCEPT !.ack_requestor_status = "ONGOING"])
          [] m.opcode = "indication" /\ ~s.start_ack_requestor -> Finish(s, "SUCCESS")
          [] m.opcode = "response" -> Finish(s, "SUCCESS")
          [] m.opcode = "request"  -> SrcWaitResponseMsg(s, m.source)

(***************************************************************************)
(* Destination transaction (dst_transaction_t::run): a peer sent a         *)
(* message to this MIHF.                                                   *)
(***************************************************************************)

DstSendResponse(t) ==
    LET s == [t EXCEPT !.state = "SEND_RESPONSE"]
    IN  CASE ~t.start_ack_requestor \/ t.ack_requestor_status = "SUCCESS" -> Finish(s, "SUCCESS")
          [] t.start_ack_requestor /\ t.ack_requestor_status = "FAILURE"  -> Finish(s, "FAILURE")
          [] t.start_ack_requestor /\ t.ack_requestor_status = "ONGOING"  -> s

DstSendResponseBegin(t) ==
    LET s == StartedAckRequestor([t EXCEPT !.start_ack_requestor = t.out.ackreq])
    IN  DstSendResponse([s EXCEPT !.ack_requestor_status = "ONGOING",
                                  !.sent = @ \cup {s.out}])

DstWaitResponsePrm(t) ==
    IF t.transaction_stop_when = 0 THEN Finish(t, "FAILURE")
    ELSE IF t.msg_out_avail /\ (~t.start_ack_responder \/ t.out.ackrsp)
         THEN DstSendResponseBegin(t)
         ELSE [t EXCEPT !.state = "WAIT_RESPONSE_PRM"]

DstRun(t) ==
    CASE t.state = "WAIT_RESPONSE_PRM" -> DstWaitResponsePrm(t)
      [] t.state = "SEND_RESPONSE"     -> DstSendResponse(t)
      [] t.state = "FAILURE"           -> Finish(t, "FAILURE")
      [] t.state = "SUCCESS"           -> Finish(t, "SUCCESS")

\* new_dst_transaction up to the end of the first run(), at the MIHF me, for
\* the message m; reply is what the handler of m put in out if it returned
\* true, and NoMsg if it returned false.
NewDstTransaction(m, me, reply) ==
    LET t == [NewTransaction EXCEPT
                !.in = m, !.opcode = m.opcode, !.tid = m.tid,
                !.transaction_stop_when = StopWhen,
                !.is_multicast = m.destination = Multicast,
                !.peer = m.source, !.me = m.destination,
                !.start_ack_responder = m.ackreq /\ m.destination # Multicast]
        p == StartedAckResponder([ProcessMessage(t, me) EXCEPT
                                    !.out = reply, !.msg_out_avail = reply # NoMsg])
    IN  IF m.opcode = "request" THEN DstWaitResponsePrm(p) ELSE Finish(p, "SUCCESS")

-----------------------------------------------------------------------------
(***************************************************************************)
(* What one iteration of transaction_pool::dec does to a transaction.      *)
(* Unsigned counters wrap; a wrapped counter does not come back to zero in *)
(* the life of a transaction (2^32 seconds).                               *)
(***************************************************************************)
Decrement(x) == IF x \in {0, Wrapped} THEN Wrapped ELSE x - 1

DecStop(t, Run(_)) ==
    LET s == [t EXCEPT !.transaction_stop_when = Decrement(@)]
    IN  IF s.transaction_stop_when = 0 THEN Run(s) ELSE s

DecRetransmission(t, Run(_)) ==
    LET s == [t EXCEPT !.retransmission_when = Decrement(@)]
    IN  IF t.ack_requestor_status # "ONGOING" THEN t
        ELSE IF s.retransmission_when = 0 THEN Run(AckRequestor(s)) ELSE s

SrcDec(t, me) == DecRetransmission(DecStop(t, LAMBDA s : SrcRun(s, me)), LAMBDA s : SrcRun(s, me))
DstDec(t)     == DecRetransmission(DecStop(t, DstRun), DstRun)

\* Mutant of DecDeletes: a transaction that is over is not deleted.
DecDeletesOngoing(t, d) ==
    d.transaction_status = "ONGOING" /\ Decrement(t.transaction_stop_when) = 0

\* dec puts t, which became d, in del_these.
DecDeletes(t, d) ==
    \/ d.transaction_status # "ONGOING"
    \/ Decrement(t.transaction_stop_when) = 0
-----------------------------------------------------------------------------
(***************************************************************************)
(* What holds of a transaction in a pool, between two handlers.            *)
(***************************************************************************)

\* The ack responder has what it sends.
RspSound(t) ==
    /\ t.ack_rsp_state # "INIT" => t.ack \in Message
    /\ t.ack_rsp_state \in {"PIGGYBACKING", "RETURN_DUPLICATE"} => t.dup \in Message /\ t.out \in Message

\* An ack requestor that waits has its timer running.
ReqSound(t) ==
    /\ t.ack_req_state # "RETRANSMIT"
    /\ t.ack_req_state = "INIT" => t.retransmission_when \in {0, Wrapped}
    /\ t.ack_req_state = "WAIT_ACK" => t.ack_requestor_status = "ONGOING" /\ t.retransmission_when # 0

\* An ack requestor that has come to its end has left its verdict.
ReqDecided(t) ==
    t.ack_req_state \in {"SUCCESS", "FAILURE"} => t.ack_requestor_status = t.ack_req_state

\* The time that is left is enough for the transmissions that are left.
TimeSound(t) ==
    /\ t.state = "WAIT_ACK" => t.ack_req_state # "INIT"
    /\ t.state = "WAIT_ACK" /\ t.ack_req_state = "WAIT_ACK" =>
           t.transaction_stop_when >= t.retransmission_when + RtxWhen * (MaxRtx - t.rtxctr)

\* A request that has a message to process is acknowledged.  Only the timer of
\* an unacknowledged message runs its state machine before the time is over.
NothingToProcess(t) ==
    t.state = "WAIT_RESPONSE_MSG" /\ t.msg_in_avail => t.ack_requestor_status # "ONGOING"

\* What a source transaction waits for: acknowledgements and responses.
Awaited(m) == m.ackrsp \/ m.opcode = "response"

SrcBase(t) ==
    /\ t.me \in Node /\ t.out \in Message
    /\ t.msg_in_avail \/ t.start_ack_responder => t.in \in Message
    /\ t.msg_in_avail => Awaited(t.in)
    /\ t.state \in {"WAIT_RESPONSE_MSG", "WAIT_ACK", "FAILURE", "SUCCESS"}
    /\ IF t.state \in {"FAILURE", "SUCCESS"}
       THEN t.transaction_status = t.state ELSE t.transaction_status = "ONGOING"
    /\ t.start_ack_requestor <=> t.ack_req_state # "INIT"
    /\ ~t.start_ack_requestor => t.peer = Multicast /\ ~t.msg_in_avail
    /\ RspSound(t) /\ ReqSound(t) /\ ReqDecided(t)

SrcSound(t) == SrcBase(t) /\ TimeSound(t) /\ NothingToProcess(t)

DstBase(t) ==
    /\ t.in \in Message
    /\ t.start_ack_responder => t.me \in Node
    /\ t.msg_out_avail \/ t.start_ack_requestor \/ t.ack_req_state # "INIT" => t.out \in Message
    /\ RspSound(t) /\ ReqSound(t)

DstSound(t) ==
    DstBase(t) /\ t.state \in {"WAIT_RESPONSE_PRM", "SEND_RESPONSE", "FAILURE", "SUCCESS"}
=============================================================================
