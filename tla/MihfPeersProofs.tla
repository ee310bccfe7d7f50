--------------------------- MODULE MihfPeersProofs ---------------------------
(***************************************************************************)
(* Proofs about module MihfPeers, for any MIHFs, traffic, timers and       *)
(* faults of the network.  The inductive invariant is TypeOK and           *)
(* PoolsSound.  The first half has the lemmas about the state machines of  *)
(* module Transaction, what each label does to a transaction: a result has *)
(* the type of a transaction, sends and hands over messages only, keeps    *)
(* the fields of the other machines and is sound.  The second half follows *)
(* every handler through the state machines by these lemmas.               *)
(***************************************************************************)
EXTENDS MihfExchange, TLAPS

-----------------------------------------------------------------------------
(***************************************************************************)
(* The ack responder.                                                      *)
(***************************************************************************)

\* The fields the ack responder leaves alone.
KeptByRsp(t, r) ==
    /\ r.state = t.state /\ r.tid = t.tid /\ r.me = t.me /\ r.peer = t.peer /\ r.in = t.in
    /\ r.msg_out_avail = t.msg_out_avail /\ r.handed = t.handed
    /\ r.transaction_status = t.transaction_status
    /\ r.ack_requestor_status = t.ack_requestor_status /\ r.ack_req_state = t.ack_req_state
    /\ r.start_ack_requestor = t.start_ack_requestor
    /\ r.start_ack_responder = t.start_ack_responder
    /\ r.transaction_stop_when = t.transaction_stop_when
    /\ r.retransmission_when = t.retransmission_when /\ r.rtxctr = t.rtxctr

RspResult(t, r) ==
    /\ r \in Transaction
    /\ KeptByRsp(t, r)
    /\ RspSound(r)
    /\ t.out \in Message => r.out \in Message
    /\ r.msg_in_avail => t.msg_in_avail
    /\ t.sent \subseteq Message => r.sent \subseteq Message

\* Every state name the machines assign is one of the states of their type.
LEMMA States ==
    /\ "INIT" \in AckRspState /\ "RETURN_ACK" \in AckRspState
    /\ "PIGGYBACKING" \in AckRspState /\ "RETURN_DUPLICATE" \in AckRspState
    /\ "INIT" \in AckReqState /\ "WAIT_ACK" \in AckReqState
    /\ "SUCCESS" \in AckReqState /\ "FAILURE" \in AckReqState
    /\ "ONGOING" \in Status /\ "SUCCESS" \in Status /\ "FAILURE" \in Status
    /\ \A s \in {"INIT", "WAIT_RESPONSE_MSG", "WAIT_ACK", "WAIT_RESPONSE_PRM",
                 "SEND_RESPONSE", "SUCCESS", "FAILURE"} : s \in SrcState \cup DstState
  BY Zenon DEF AckRspState, AckReqState, Status, SrcState, DstState

\* The acknowledgement built for a received message is a message.
LEMMA AckMessageType ==
    ASSUME NEW t \in Transaction, t.in \in Message, t.me \in Node
    PROVE  AckMessage(t) \in Message
  BY MsgAssumption, Zenon DEF AckMessage, Transaction, Message

\* Sending the stored answer again.
LEMMA ReturnDuplicateSound ==
    ASSUME NEW t \in Transaction, t.ack \in Message, t.dup \in Message, t.out \in Message
    PROVE  RspResult(t, RspReturnDuplicate(t))
<1> DEFINE s == IF t.msg_in_avail THEN t.sent \cup {t.dup} ELSE t.sent
           r == [t EXCEPT !.ack_rsp_state = "RETURN_DUPLICATE", !.sent = s, !.msg_in_avail = FALSE]
<1>1. s \in SUBSET MaybeMessage /\ (t.sent \subseteq Message => s \subseteq Message)
  BY Zenon DEF Transaction, MaybeMessage
<1>2. RspReturnDuplicate(t) = r
  BY Zenon DEF RspReturnDuplicate
<1> HIDE DEF s
<1>3. r \in Transaction
  BY <1>1, States, ZenonT(30) DEF Transaction
<1>4. KeptByRsp(t, r) /\ r.sent = s /\ r.out = t.out /\ r.dup = t.dup /\ r.ack = t.ack
      /\ r.msg_in_avail = FALSE /\ r.ack_rsp_state = "RETURN_DUPLICATE"
  BY Zenon DEF Transaction, KeptByRsp
<1> QED
  BY <1>1, <1>2, <1>3, <1>4, Zenon DEF RspResult, RspSound

\* Putting the acknowledgement in the answer that goes out.
LEMMA PiggybackingSound ==
    ASSUME NEW t \in Transaction, t.ack \in Message, t.out \in Message
    PROVE  RspResult(t, RspPiggybacking(t))
<1> DEFINE o == [t.out EXCEPT !.ackrsp = TRUE]
           p == [t EXCEPT !.ack_rsp_state = "PIGGYBACKING", !.out = o, !.dup = o]
<1>1. o \in Message
  BY Zenon DEF Message
<1>2. o \in MaybeMessage
  BY <1>1, Zenon DEF MaybeMessage
<1>3. RspPiggybacking(t) = IF t.msg_in_avail THEN RspReturnDuplicate(p) ELSE p
  BY Zenon DEF RspPiggybacking
<1> HIDE DEF o
<1>4. p \in Transaction
  BY <1>2, States, ZenonT(30) DEF Transaction
<1>5. KeptByRsp(t, p) /\ p.sent = t.sent /\ p.out = o /\ p.dup = o /\ p.ack = t.ack
      /\ p.msg_in_avail = t.msg_in_avail /\ p.ack_rsp_state = "PIGGYBACKING"
  BY Zenon DEF Transaction, KeptByRsp
<1> HIDE DEF p
<1>6. RspResult(p, RspReturnDuplicate(p))
  BY <1>1, <1>4, <1>5, ReturnDuplicateSound, Zenon
<1> QED
  BY <1>1, <1>3, <1>4, <1>5, <1>6 DEF RspResult, RspSound, KeptByRsp

\* Sending the acknowledgement.
LEMMA SendAckSound ==
    ASSUME NEW t \in Transaction, t.ack \in Message
    PROVE  LET r == SendAck(t)
           IN  /\ r \in Transaction /\ KeptByRsp(t, r)
               /\ r.sent = t.sent \cup {t.ack} /\ r.msg_in_avail = FALSE
               /\ r.out = t.out /\ r.dup = t.dup /\ r.ack = t.ack
               /\ r.ack_rsp_state = t.ack_rsp_state
<1> DEFINE s == t.sent \cup {t.ack}
           r == [t EXCEPT !.sent = s, !.msg_in_avail = FALSE]
<1>1. s \in SUBSET MaybeMessage
  BY Zenon DEF Transaction, MaybeMessage
<1>2. SendAck(t) = r
  BY Zenon DEF SendAck
<1> HIDE DEF s
<1>3. r \in Transaction
  BY <1>1, ZenonT(30) DEF Transaction
<1>4. KeptByRsp(t, r) /\ r.sent = s /\ r.msg_in_avail = FALSE
      /\ r.out = t.out /\ r.dup = t.dup /\ r.ack = t.ack /\ r.ack_rsp_state = t.ack_rsp_state
  BY Zenon DEF Transaction, KeptByRsp
<1> QED
  BY <1>2, <1>3, <1>4, Zenon DEF s

\* Acknowledging a copy, or an answer that became available.
LEMMA ReturnAckSound ==
    ASSUME NEW t \in Transaction, t.ack \in Message, t.msg_out_avail => t.out \in Message
    PROVE  RspResult(t, RspReturnAck(t))
<1> DEFINE r == [t EXCEPT !.ack_rsp_state = "RETURN_ACK"]
<1>1. r \in Transaction
  BY States, ZenonT(30) DEF Transaction
<1>2. KeptByRsp(t, r) /\ r.sent = t.sent /\ r.msg_in_avail = t.msg_in_avail
      /\ r.out = t.out /\ r.dup = t.dup /\ r.ack = t.ack /\ r.ack_rsp_state = "RETURN_ACK"
  BY Zenon DEF Transaction, KeptByRsp
<1>3. RspReturnAck(t) = IF t.msg_in_avail THEN SendAck(r)
                        ELSE IF t.msg_out_avail THEN RspPiggybacking(r) ELSE r
  BY Zenon DEF RspReturnAck
<1> HIDE DEF r
<1>4. CASE t.msg_in_avail
  <2> DEFINE a == SendAck(r)
  <2>1. a \in Transaction /\ KeptByRsp(r, a) /\ a.sent = r.sent \cup {t.ack} /\ a.msg_in_avail = FALSE
        /\ a.out = r.out /\ a.ack = t.ack /\ a.ack_rsp_state = "RETURN_ACK"
    BY <1>1, <1>2, SendAckSound, Zenon
  <2>2. RspReturnAck(t) = a
    BY <1>3, <1>4, Zenon
  <2> HIDE DEF a
  <2> QED
    BY <1>2, <2>1, <2>2 DEF RspResult, RspSound, KeptByRsp
<1>5. CASE ~t.msg_in_avail /\ t.msg_out_avail
  <2>1. RspResult(r, RspPiggybacking(r))
    BY <1>1, <1>2, <1>5, PiggybackingSound, Zenon
  <2> QED
    BY <1>2, <1>3, <1>5, <2>1, ZenonT(40) DEF RspResult, RspSound, KeptByRsp
<1>6. CASE ~t.msg_in_avail /\ ~t.msg_out_avail
  BY <1>1, <1>2, <1>3, <1>6, Zenon DEF RspResult, RspSound
<1> QED
  BY <1>4, <1>5, <1>6, Zenon

\* The first run of the ack responder.
LEMMA RspInitSound ==
    ASSUME NEW t \in Transaction, t.in \in Message, t.me \in Node, t.msg_out_avail => t.out \in Message
    PROVE  RspResult(t, RspInit(t))
<1> DEFINE c == AckMessage(t)
           r == [t EXCEPT !.ack = c]
<1>1. c \in Message
  BY AckMessageType, Zenon
<1>2. c \in MaybeMessage
  BY <1>1, Zenon DEF MaybeMessage
<1>3. RspInit(t) = IF t.msg_out_avail THEN RspPiggybacking(r) ELSE RspReturnAck(SendAck(r))
  BY Zenon DEF RspInit
<1> HIDE DEF c
<1>4. r \in Transaction
  BY <1>2, ZenonT(30) DEF Transaction
<1>5. KeptByRsp(t, r) /\ r.sent = t.sent /\ r.msg_in_avail = t.msg_in_avail
      /\ r.out = t.out /\ r.ack = c
  BY Zenon DEF Transaction, KeptByRsp
<1> HIDE DEF r
<1>6. CASE t.msg_out_avail
  <2>1. RspResult(r, RspPiggybacking(r))
    BY <1>1, <1>4, <1>5, <1>6, PiggybackingSound, Zenon
  <2> QED
    BY <1>3, <1>5, <1>6, <2>1, ZenonT(40) DEF RspResult, KeptByRsp
<1>7. CASE ~t.msg_out_avail
  <2> DEFINE a == SendAck(r)
  <2>1. a \in Transaction /\ KeptByRsp(r, a) /\ a.sent = r.sent \cup {c} /\ a.msg_in_avail = FALSE
        /\ a.out = r.out /\ a.ack = c
    BY <1>1, <1>4, <1>5, SendAckSound, Zenon
  <2> HIDE DEF a
  <2>2. RspResult(a, RspReturnAck(a))
    BY <1>1, <1>5, <1>7, <2>1, ReturnAckSound, Zenon DEF KeptByRsp
  <2>3. RspInit(t) = RspReturnAck(a)
    BY <1>3, <1>7, Zenon DEF a
  <2> QED
    BY <1>1, <1>5, <2>1, <2>2, <2>3 DEF RspResult, KeptByRsp
<1> QED
  BY <1>6, <1>7, Zenon

\* One call of ack_responder.
LEMMA AckResponderSound ==
    ASSUME NEW t \in Transaction, t.in \in Message, t.me \in Node,
           t.msg_out_avail => t.out \in Message, RspSound(t)
    PROVE  RspResult(t, AckResponder(t))
<1>1. CASE t.ack_rsp_state = "INIT"
  BY <1>1, RspInitSound, Zenon DEF AckResponder
<1>2. CASE t.ack_rsp_state = "RETURN_ACK"
  BY <1>2, ReturnAckSound, Zenon DEF AckResponder, RspSound
<1>3. CASE t.ack_rsp_state = "PIGGYBACKING"
  BY <1>3, PiggybackingSound, Zenon DEF AckResponder, RspSound
<1>4. CASE t.ack_rsp_state = "RETURN_DUPLICATE"
  BY <1>4, ReturnDuplicateSound, Zenon DEF AckResponder, RspSound
<1> QED
  BY <1>1, <1>2, <1>3, <1>4, Zenon DEF Transaction, AckRspState

-----------------------------------------------------------------------------
(***************************************************************************)
(* The ack requestor.                                                      *)
(***************************************************************************)

\* The fields the ack requestor leaves alone.
KeptByReq(t, r) ==
    /\ r.state = t.state /\ r.tid = t.tid /\ r.me = t.me /\ r.peer = t.peer
    /\ r.in = t.in /\ r.msg_in_avail = t.msg_in_avail
    /\ r.out = t.out /\ r.msg_out_avail = t.msg_out_avail /\ r.handed = t.handed
    /\ r.transaction_status = t.transaction_status
    /\ r.start_ack_requestor = t.start_ack_requestor
    /\ r.start_ack_responder = t.start_ack_responder
    /\ r.ack_rsp_state = t.ack_rsp_state /\ r.dup = t.dup /\ r.ack = t.ack
    /\ r.transaction_stop_when = t.transaction_stop_when

ReqResult(t, r) ==
    /\ r \in Transaction
    /\ KeptByReq(t, r)
    /\ ReqSound(r) /\ ReqDecided(r) /\ r.ack_req_state # "INIT"
    /\ t.out \in Message /\ t.sent \subseteq Message => r.sent \subseteq Message

\* The two ends of the ack requestor, which change nothing else.
LEMMA ReqEndSound ==
    ASSUME NEW t \in Transaction, NEW s \in {"SUCCESS", "FAILURE"}
    PROVE  LET r == [t EXCEPT !.ack_req_state = s, !.ack_requestor_status = s]
           IN  /\ ReqResult(t, r) /\ r.ack_req_state = s /\ r.sent = t.sent
               /\ r.retransmission_when = t.retransmission_when /\ r.rtxctr = t.rtxctr
<1> DEFINE r == [t EXCEPT !.ack_req_state = s, !.ack_requestor_status = s]
<1>1. s \in AckReqState /\ s \in Status
  BY Zenon DEF AckReqState, Status
<1>2. r \in Transaction
  BY <1>1, ZenonT(30) DEF Transaction
<1>3. KeptByReq(t, r) /\ r.ack_req_state = s /\ r.ack_requestor_status = s /\ r.sent = t.sent
      /\ r.retransmission_when = t.retransmission_when /\ r.rtxctr = t.rtxctr
  BY Zenon DEF Transaction, KeptByReq
<1> QED
  BY <1>2, <1>3, Zenon DEF ReqResult, ReqSound, ReqDecided

\* An acknowledgement at hand ends the wait; nothing else does here.
LEMMA ReqCheckAckSound ==
    ASSUME NEW t \in Transaction, t.msg_in_avail => t.in \in Message,
           t.ack_req_state = "WAIT_ACK", t.ack_requestor_status = "ONGOING",
           t.retransmission_when # 0
    PROVE  LET r == ReqCheckAck(t)
           IN  /\ ReqResult(t, r) /\ r.sent = t.sent
               /\ r.ack_req_state \in {"WAIT_ACK", "SUCCESS"}
               /\ r.ack_req_state = "SUCCESS" <=> t.msg_in_avail /\ t.in.ackrsp
               /\ r.retransmission_when = t.retransmission_when /\ r.rtxctr = t.rtxctr
<1>1. CASE t.msg_in_avail /\ t.in.ackrsp
  BY <1>1, ReqEndSound, Zenon DEF ReqCheckAck, ReqSuccess
<1>2. CASE ~(t.msg_in_avail /\ t.in.ackrsp)
  BY <1>2, Zenon DEF ReqCheckAck, ReqResult, KeptByReq, ReqSound, ReqDecided
<1> QED
  BY <1>1, <1>2, Zenon

\* Waiting starts with the timer at RtxWhen.
LEMMA ReqWaitAckBeginSound ==
    ASSUME NEW t \in Transaction, t.msg_in_avail => t.in \in Message,
           t.ack_requestor_status = "ONGOING"
    PROVE  LET r == ReqWaitAckBegin(t)
           IN  /\ ReqResult(t, r) /\ r.sent = t.sent
               /\ r.ack_req_state \in {"WAIT_ACK", "SUCCESS"}
               /\ r.ack_req_state = "SUCCESS" <=> t.msg_in_avail /\ t.in.ackrsp
               /\ r.retransmission_when = RtxWhen /\ r.rtxctr = t.rtxctr
<1> DEFINE w == [t EXCEPT !.ack_req_state = "WAIT_ACK", !.retransmission_when = RtxWhen]
<1>0. RtxWhen \in 0 .. Wrapped /\ RtxWhen # 0
  BY TimeAssumption
<1>1. w \in Transaction
  BY <1>0, States, ZenonT(30) DEF Transaction
<1>2. KeptByReq(t, w) /\ w.ack_req_state = "WAIT_ACK" /\ w.ack_requestor_status = "ONGOING"
      /\ w.sent = t.sent /\ w.retransmission_when = RtxWhen /\ w.rtxctr = t.rtxctr
  BY Zenon DEF Transaction, KeptByReq
<1>3. ReqWaitAckBegin(t) = ReqCheckAck(w)
  BY Zenon DEF ReqWaitAckBegin
<1> HIDE DEF w
<1> DEFINE r == ReqCheckAck(w)
<1>4. /\ ReqResult(w, r) /\ r.sent = w.sent
      /\ r.ack_req_state \in {"WAIT_ACK", "SUCCESS"}
      /\ r.ack_req_state = "SUCCESS" <=> w.msg_in_avail /\ w.in.ackrsp
      /\ r.retransmission_when = w.retransmission_when /\ r.rtxctr = w.rtxctr
  BY <1>0, <1>1, <1>2, ReqCheckAckSound, Zenon DEF KeptByReq
<1> HIDE DEF r
<1> QED
  BY <1>2, <1>3, <1>4 DEF ReqResult, KeptByReq, r

\* The first run of the ack requestor.
LEMMA ReqInitSound ==
    ASSUME NEW t \in Transaction, t.msg_in_avail => t.in \in Message
    PROVE  LET r == ReqInit(t)
           IN  /\ ReqResult(t, r) /\ r.sent = t.sent
               /\ r.ack_req_state \in {"WAIT_ACK", "SUCCESS"}
               /\ r.ack_req_state = "SUCCESS" <=> t.msg_in_avail /\ t.in.ackrsp
               /\ r.retransmission_when = RtxWhen /\ r.rtxctr = 0
<1> DEFINE w == [t EXCEPT !.ack_requestor_status = "ONGOING", !.rtxctr = 0]
           r == ReqWaitAckBegin(w)
<1>0. 0 \in 0 .. MaxRtx
  BY TimeAssumption
<1>1. w \in Transaction
  BY <1>0, States, ZenonT(30) DEF Transaction
<1>2. KeptByReq(t, w) /\ w.ack_requestor_status = "ONGOING" /\ w.sent = t.sent /\ w.rtxctr = 0
  BY Zenon DEF Transaction, KeptByReq
<1>3. ReqInit(t) = r
  BY Zenon DEF ReqInit
<1> HIDE DEF w
<1>4. /\ ReqResult(w, r) /\ r.sent = w.sent
      /\ r.ack_req_state \in {"WAIT_ACK", "SUCCESS"}
      /\ r.ack_req_state = "SUCCESS" <=> w.msg_in_avail /\ w.in.ackrsp
      /\ r.retransmission_when = RtxWhen /\ r.rtxctr = w.rtxctr
  BY <1>1, <1>2, ReqWaitAckBeginSound, Zenon DEF KeptByReq
<1> HIDE DEF r
<1> QED
  BY <1>2, <1>3, <1>4 DEF ReqResult, KeptByReq

\* A retransmission sends the message once more and restarts the timer.
LEMMA ReqRetransmitSound ==
    ASSUME NEW t \in Transaction, t.msg_in_avail => t.in \in Message, t.out \in Message,
           t.ack_requestor_status = "ONGOING", t.rtxctr < MaxRtx
    PROVE  LET r == ReqRetransmit(t)
           IN  /\ ReqResult(t, r)
               /\ r.ack_req_state \in {"WAIT_ACK", "SUCCESS"}
               /\ r.retransmission_when = RtxWhen /\ r.rtxctr = t.rtxctr + 1
<1> DEFINE s == t.sent \cup {t.out}
           c == t.rtxctr + 1
           w == [t EXCEPT !.sent = s, !.rtxctr = c]
           r == ReqWaitAckBegin(w)
<1>0. s \in SUBSET MaybeMessage /\ (t.sent \subseteq Message => s \subseteq Message)
  BY Zenon DEF Transaction, MaybeMessage
<1>1. c \in 0 .. MaxRtx
  BY TimeAssumption DEF Transaction
<1>2. ReqRetransmit(t) = r
  BY Zenon DEF ReqRetransmit
<1> HIDE DEF s, c
<1>3. w \in Transaction
  BY <1>0, <1>1, ZenonT(30) DEF Transaction
<1>4. KeptByReq(t, w) /\ w.ack_requestor_status = "ONGOING" /\ w.sent = s /\ w.rtxctr = c
  BY Zenon DEF Transaction, KeptByReq
<1> HIDE DEF w
<1>5. /\ ReqResult(w, r) /\ r.sent = w.sent
      /\ r.ack_req_state \in {"WAIT_ACK", "SUCCESS"}
      /\ r.retransmission_when = RtxWhen /\ r.rtxctr = w.rtxctr
  BY <1>3, <1>4, ReqWaitAckBeginSound, Zenon DEF KeptByReq
<1> HIDE DEF r
<1> QED
  BY <1>0, <1>2, <1>4, <1>5 DEF ReqResult, KeptByReq, c

\* What a message handler's call of ack_requestor does: an acknowledgement ends
\* the wait, nothing is sent and no timer moves.
LEMMA AckRequestorOnMessage ==
    ASSUME NEW t \in Transaction, t.msg_in_avail => t.in \in Message,
           ReqSound(t), t.ack_req_state # "INIT"
    PROVE  LET r == AckRequestor(t)
           IN  /\ ReqResult(t, r) /\ r.sent = t.sent
               /\ r.retransmission_when = t.retransmission_when /\ r.rtxctr = t.rtxctr
               /\ t.msg_in_avail /\ t.in.ackrsp => r.ack_requestor_status # "ONGOING"
               /\ r.ack_req_state = "WAIT_ACK" => t.ack_req_state = "WAIT_ACK"
<1>1. CASE t.ack_req_state = "WAIT_ACK"
  <2> DEFINE r == ReqCheckAck(t)
  <2>1. AckRequestor(t) = r
    BY <1>1, Zenon DEF AckRequestor, ReqWaitAck, ReqSound
  <2>2. /\ ReqResult(t, r) /\ r.sent = t.sent
        /\ r.ack_req_state = "SUCCESS" <=> t.msg_in_avail /\ t.in.ackrsp
        /\ r.retransmission_when = t.retransmission_when /\ r.rtxctr = t.rtxctr
    BY <1>1, ReqCheckAckSound, Zenon DEF ReqSound
  <2> HIDE DEF r
  <2> QED
    BY <1>1, <2>1, <2>2, Zenon DEF ReqResult, ReqDecided
<1>2. CASE t.ack_req_state \in {"SUCCESS", "FAILURE"}
  <2> DEFINE s == t.ack_req_state
             r == [t EXCEPT !.ack_req_state = s, !.ack_requestor_status = s]
  <2>1. AckRequestor(t) = r
    BY <1>2, Zenon DEF AckRequestor, ReqSuccess, ReqFailure
  <2>2. /\ ReqResult(t, r) /\ r.ack_req_state = s /\ r.sent = t.sent
        /\ r.retransmission_when = t.retransmission_when /\ r.rtxctr = t.rtxctr
    BY <1>2, ReqEndSound, Zenon
  <2> HIDE DEF r
  <2> QED
    BY <1>2, <2>1, <2>2, Zenon DEF ReqResult, ReqDecided
<1> QED
  BY <1>1, <1>2, Zenon DEF ReqSound, Transaction, AckReqState

\* What the timer's call of ack_requestor does: another transmission, or the
\* failure after the last one.
LEMMA AckRequestorOnTimer ==
    ASSUME NEW t \in Transaction, t.msg_in_avail => t.in \in Message, t.out \in Message,
           t.ack_req_state = "WAIT_ACK", t.ack_requestor_status = "ONGOING",
           t.retransmission_when = 0
    PROVE  LET r == AckRequestor(t)
           IN  /\ ReqResult(t, r)
               /\ t.rtxctr < MaxRtx => r.retransmission_when = RtxWhen /\ r.rtxctr = t.rtxctr + 1
               /\ t.rtxctr = MaxRtx => r.ack_req_state = "FAILURE"
<1>1. CASE t.rtxctr < MaxRtx
  <2> DEFINE r == ReqRetransmit(t)
  <2>1. AckRequestor(t) = r
    BY <1>1, Zenon DEF AckRequestor, ReqWaitAck
  <2>2. ReqResult(t, r) /\ r.retransmission_when = RtxWhen /\ r.rtxctr = t.rtxctr + 1
    BY <1>1, ReqRetransmitSound, Zenon
  <2> HIDE DEF r
  <2> QED
    BY <1>1, <2>1, <2>2, TimeAssumption DEF Transaction
<1>2. CASE ~(t.rtxctr < MaxRtx)
  <2> DEFINE r == [t EXCEPT !.ack_req_state = "FAILURE", !.ack_requestor_status = "FAILURE"]
  <2>1. AckRequestor(t) = r
    BY <1>2, Zenon DEF AckRequestor, ReqWaitAck, ReqFailure
  <2>2. ReqResult(t, r) /\ r.ack_req_state = "FAILURE"
    BY ReqEndSound, Zenon
  <2> HIDE DEF r
  <2> QED
    BY <1>2, <2>1, <2>2, Zenon
<1> QED
  BY <1>1, <1>2, Zenon

-----------------------------------------------------------------------------
(***************************************************************************)
(* The source transaction.                                                 *)
(***************************************************************************)

\* Only messages are sent and handed over.
Clean(t) == t.sent \subseteq Message /\ t.handed \subseteq Message

\* The same, and a source transaction hands over only what it waits for.
SrcClean(t) == t.sent \subseteq Message /\ \A h \in t.handed : h \in Message /\ Awaited(h)

\* r is t but for its state and its status.
SameButState(t, r) ==
    /\ r.tid = t.tid /\ r.me = t.me /\ r.peer = t.peer
    /\ r.in = t.in /\ r.msg_in_avail = t.msg_in_avail
    /\ r.out = t.out /\ r.msg_out_avail = t.msg_out_avail
    /\ r.sent = t.sent /\ r.handed = t.handed
    /\ r.ack_requestor_status = t.ack_requestor_status /\ r.ack_req_state = t.ack_req_state
    /\ r.start_ack_requestor = t.start_ack_requestor
    /\ r.start_ack_responder = t.start_ack_responder
    /\ r.ack_rsp_state = t.ack_rsp_state /\ r.dup = t.dup /\ r.ack = t.ack
    /\ r.transaction_stop_when = t.transaction_stop_when
    /\ r.retransmission_when = t.retransmission_when /\ r.rtxctr = t.rtxctr

\* Entering a state.
LEMMA StateSound ==
    ASSUME NEW t \in Transaction, NEW s \in SrcState \cup DstState
    PROVE  LET r == [t EXCEPT !.state = s]
           IN  /\ r \in Transaction /\ SameButState(t, r)
               /\ r.state = s /\ r.transaction_status = t.transaction_status
<1> DEFINE r == [t EXCEPT !.state = s]
<1>1. r \in Transaction
  BY ZenonT(30) DEF Transaction
<1>2. SameButState(t, r) /\ r.state = s /\ r.transaction_status = t.transaction_status
  BY Zenon DEF Transaction, SameButState
<1> QED
  BY <1>1, <1>2, Zenon

\* Ending a transaction.
LEMMA FinishSound ==
    ASSUME NEW t \in Transaction, NEW s \in {"SUCCESS", "FAILURE"}
    PROVE  LET r == Finish(t, s)
           IN  r \in Transaction /\ SameButState(t, r) /\ r.state = s /\ r.transaction_status = s
<1> DEFINE r == [t EXCEPT !.state = s, !.transaction_status = s]
<1>1. s \in SrcState \cup DstState /\ s \in Status
  BY Zenon DEF SrcState, DstState, Status
<1>2. r \in Transaction
  BY <1>1, ZenonT(30) DEF Transaction
<1>3. SameButState(t, r) /\ r.state = s /\ r.transaction_status = s
  BY Zenon DEF Transaction, SameButState
<1> QED
  BY <1>2, <1>3, Zenon DEF Finish

\* What a run of the source state machine makes of t.
SrcResult(t, r) ==
    /\ r \in Transaction
    /\ SrcBase(r) /\ NothingToProcess(r)
    /\ SrcClean(t) => SrcClean(r)
    /\ r.tid = t.tid /\ r.peer = t.peer
    /\ t.state = "WAIT_ACK" => r.state # "WAIT_RESPONSE_MSG"
    /\ r.state = "WAIT_ACK" => /\ t.state = "WAIT_ACK" /\ r.ack_requestor_status = "ONGOING"
                               /\ r.ack_req_state = t.ack_req_state /\ r.rtxctr = t.rtxctr
                               /\ r.transaction_stop_when = t.transaction_stop_when
                               /\ r.retransmission_when = t.retransmission_when

\* A source transaction that ends stays sound.
LEMMA SrcFinishSound ==
    ASSUME NEW t \in Transaction, SrcBase(t), NEW s \in {"SUCCESS", "FAILURE"}
    PROVE  /\ SrcResult(t, Finish(t, s)) /\ Finish(t, s).handed = t.handed
           /\ Finish(t, s).transaction_status = s
<1> DEFINE r == Finish(t, s)
<1>1. r \in Transaction /\ SameButState(t, r) /\ r.state = s /\ r.transaction_status = s
  BY FinishSound, Zenon
<1> HIDE DEF r
<1>2. SrcBase(r)
  BY <1>1 DEF SrcBase, SameButState, RspSound, ReqSound, ReqDecided
<1>3. NothingToProcess(r) /\ (SrcClean(t) => SrcClean(r)) /\ r.tid = t.tid /\ r.peer = t.peer
      /\ r.handed = t.handed /\ r.state # "WAIT_ACK"
  BY <1>1, Zenon DEF NothingToProcess, SrcClean, SameButState
<1>4. SrcResult(t, r) /\ r.handed = t.handed /\ r.transaction_status = s
  BY <1>1, <1>2, <1>3, Zenon DEF SrcResult
<1> QED
  BY <1>4, Zenon DEF r

\* Waiting for the acknowledgement of an indication.
LEMMA SrcWaitAckSound ==
    ASSUME NEW t \in Transaction, SrcBase(t), t.state = "WAIT_ACK"
    PROVE  /\ SrcResult(t, SrcWaitAck(t)) /\ SrcWaitAck(t).handed = t.handed
           /\ t.ack_requestor_status # "ONGOING" => SrcWaitAck(t).transaction_status # "ONGOING"
<1>1. CASE t.ack_requestor_status = "ONGOING"
  <2> DEFINE r == [t EXCEPT !.state = "WAIT_ACK"]
  <2>1. r \in Transaction /\ SameButState(t, r) /\ r.state = "WAIT_ACK"
        /\ r.transaction_status = t.transaction_status
    BY StateSound, States, Zenon
  <2>2. SrcWaitAck(t) = r
    BY <1>1, Zenon DEF SrcWaitAck
  <2> HIDE DEF r
  <2>3. SrcBase(r)
    BY <2>1 DEF SrcBase, SameButState, RspSound, ReqSound, ReqDecided
  <2> QED
    BY <1>1, <2>1, <2>2, <2>3, Zenon DEF SrcResult, NothingToProcess, SrcClean, SameButState
<1>2. CASE t.ack_requestor_status # "ONGOING"
  <2> DEFINE s == t.ack_requestor_status
  <2>1. s \in {"SUCCESS", "FAILURE"}
    BY <1>2, Zenon DEF Transaction, Status
  <2>2. SrcWaitAck(t) = Finish(t, s)
    BY <1>2, Zenon DEF SrcWaitAck
  <2> HIDE DEF s
  <2> QED
    BY <2>1, <2>2, SrcFinishSound, Zenon
<1> QED
  BY <1>1, <1>2, Zenon

\* The fields that processing a message leaves alone.
KeptByProcess(t, r) ==
    /\ r.state = t.state /\ r.transaction_status = t.transaction_status
    /\ r.tid = t.tid /\ r.me = t.me /\ r.peer = t.peer /\ r.in = t.in
    /\ r.out = t.out /\ r.msg_out_avail = t.msg_out_avail /\ r.sent = t.sent
    /\ r.ack_requestor_status = t.ack_requestor_status /\ r.ack_req_state = t.ack_req_state
    /\ r.start_ack_requestor = t.start_ack_requestor
    /\ r.start_ack_responder = t.start_ack_responder
    /\ r.ack_rsp_state = t.ack_rsp_state /\ r.dup = t.dup /\ r.ack = t.ack
    /\ r.transaction_stop_when = t.transaction_stop_when
    /\ r.retransmission_when = t.retransmission_when /\ r.rtxctr = t.rtxctr

\* process_message hands over the received message or discards it.
LEMMA ProcessMessageSound ==
    ASSUME NEW t \in Transaction, t.in \in Message, NEW me
    PROVE  LET r == ProcessMessage(t, me)
           IN  /\ r \in Transaction /\ KeptByProcess(t, r) /\ r.msg_in_avail = t.msg_in_avail
               /\ r.handed \subseteq t.handed \cup {t.in}
<1> DEFINE h == t.handed \cup {t.in}
           r == [t EXCEPT !.handed = h]
<1>1. h \in SUBSET MaybeMessage /\ t.handed \subseteq h /\ h \subseteq t.handed \cup {t.in}
  BY Zenon DEF Transaction, MaybeMessage
<1>2. ProcessMessage(t, me) = IF Accepted(t.in, me) THEN r ELSE t
  BY Zenon DEF ProcessMessage
<1> HIDE DEF h
<1>3. r \in Transaction
  BY <1>1, ZenonT(30) DEF Transaction
<1>4. r.handed = h /\ r.msg_in_avail = t.msg_in_avail /\ KeptByProcess(t, r)
  BY Zenon DEF Transaction, KeptByProcess
<1>5. KeptByProcess(t, t)
  BY Zenon DEF KeptByProcess
<1> HIDE DEF r
<1> QED
  BY <1>1, <1>2, <1>3, <1>4, <1>5, Zenon

\* A response is acknowledged if it asks for it, and processed.
LEMMA SrcProcessMsgSound ==
    ASSUME NEW t \in Transaction, SrcBase(t), t.state = "WAIT_RESPONSE_MSG", t.msg_in_avail, NEW me
    PROVE  SrcResult(t, SrcProcessMsg(t, me))
<1> DEFINE q == t.in.ackreq
           u == [t EXCEPT !.start_ack_responder = q, !.msg_out_avail = FALSE]
           v == StartedAckResponder(u)
           w == ProcessMessage(v, me)
           x == [w EXCEPT !.msg_in_avail = FALSE, !.response_received = TRUE]
<1>1. q \in BOOLEAN
  BY Zenon DEF SrcBase, Message
<1>2. SrcProcessMsg(t, me) = IF t.is_multicast THEN [x EXCEPT !.state = "WAIT_RESPONSE_MSG"]
                             ELSE Finish(x, "SUCCESS")
  BY Zenon DEF SrcProcessMsg
<1> HIDE DEF q
<1>3. u \in Transaction
  BY <1>1, ZenonT(30) DEF Transaction
<1>5. /\ u.state = t.state /\ u.transaction_status = t.transaction_status
      /\ u.tid = t.tid /\ u.me = t.me /\ u.peer = t.peer /\ u.in = t.in
      /\ u.out = t.out /\ u.msg_out_avail = FALSE /\ u.sent = t.sent /\ u.handed = t.handed
      /\ u.ack_requestor_status = t.ack_requestor_status /\ u.ack_req_state = t.ack_req_state
      /\ u.start_ack_requestor = t.start_ack_requestor
      /\ u.ack_rsp_state = t.ack_rsp_state /\ u.dup = t.dup /\ u.ack = t.ack
      /\ u.retransmission_when = t.retransmission_when
  BY Zenon DEF Transaction
<1> HIDE DEF u
<1>6. RspSound(u) /\ u.in \in Message /\ u.me \in Node /\ u.out \in Message
  BY <1>5, Zenon DEF SrcBase, RspSound
<1>7. /\ v \in Transaction /\ KeptByRsp(u, v) /\ RspSound(v) /\ v.out \in Message
      /\ u.sent \subseteq Message => v.sent \subseteq Message
  <2>1. CASE u.start_ack_responder
    <3>1. RspResult(u, AckResponder(u))
      BY <1>3, <1>6, AckResponderSound, Zenon
    <3> QED
      BY <1>6, <2>1, <3>1, Zenon DEF RspResult, StartedAckResponder
  <2>2. CASE ~u.start_ack_responder
    BY <1>3, <1>6, <2>2, Zenon DEF StartedAckResponder, KeptByRsp
  <2> QED
    BY <2>1, <2>2, Zenon
<1> HIDE DEF v
<1>8. v.in \in Message
  BY <1>6, <1>7, Zenon DEF KeptByRsp
<1>9. w \in Transaction /\ KeptByProcess(v, w) /\ w.handed \subseteq v.handed \cup {v.in}
  BY <1>7, <1>8, ProcessMessageSound, Zenon
<1> HIDE DEF w
<1>10. x \in Transaction
  BY <1>9, ZenonT(30) DEF Transaction
<1>11. KeptByProcess(w, x) /\ x.handed = w.handed /\ x.msg_in_avail = FALSE
  BY <1>9 DEF Transaction, KeptByProcess
<1> HIDE DEF x
<1>12. KeptByProcess(v, x)
  BY <1>9, <1>11 DEF KeptByProcess
<1>13. SrcBase(x)
  <2>1. x.me \in Node /\ x.out \in Message /\ x.in \in Message
    BY <1>6, <1>7, <1>8, <1>12, Zenon DEF KeptByProcess, KeptByRsp
  <2>2. x.state = "WAIT_RESPONSE_MSG" /\ x.transaction_status = "ONGOING"
    BY <1>5, <1>7, <1>12 DEF KeptByProcess, KeptByRsp, SrcBase
  <2>3. /\ x.start_ack_requestor = t.start_ack_requestor /\ x.ack_req_state = t.ack_req_state
        /\ x.peer = t.peer /\ x.ack_requestor_status = t.ack_requestor_status
        /\ x.retransmission_when = t.retransmission_when
    BY <1>5, <1>7, <1>12 DEF KeptByProcess, KeptByRsp
  <2>4. RspSound(x)
    BY <1>7, <1>12, Zenon DEF KeptByProcess, RspSound
  <2> QED
    BY <1>11, <2>1, <2>2, <2>3, <2>4, Zenon DEF SrcBase, ReqSound, ReqDecided
<1>14. (SrcClean(t) => SrcClean(x)) /\ x.tid = t.tid /\ x.peer = t.peer
  <2>1. x.handed \subseteq t.handed \cup {t.in} /\ t.in \in Message /\ Awaited(t.in)
    BY <1>5, <1>7, <1>9, <1>11 DEF KeptByRsp, SrcBase
  <2> QED
    BY <1>5, <1>7, <1>12, <2>1, Zenon DEF SrcClean, KeptByProcess, KeptByRsp
<1>15. CASE t.is_multicast
  <2> DEFINE r == [x EXCEPT !.state = "WAIT_RESPONSE_MSG"]
  <2>1. r \in Transaction /\ SameButState(x, r) /\ r.state = "WAIT_RESPONSE_MSG"
        /\ r.transaction_status = x.transaction_status
    BY <1>10, StateSound, States, Zenon
  <2> HIDE DEF r
  <2>2. x.state = "WAIT_RESPONSE_MSG"
    BY <1>5, <1>7, <1>12, Zenon DEF KeptByProcess, KeptByRsp
  <2>3. SrcBase(r)
    BY <1>13, <2>1, <2>2 DEF SrcBase, SameButState, RspSound, ReqSound, ReqDecided
  <2>4. SrcResult(t, r)
    BY <1>11, <1>14, <2>1, <2>3, Zenon DEF SrcResult, NothingToProcess, SrcClean, SameButState
  <2> QED
    BY <1>2, <1>15, <2>4, Zenon DEF r
<1>16. CASE ~t.is_multicast
  <2>1. SrcResult(x, Finish(x, "SUCCESS"))
    BY <1>10, <1>13, SrcFinishSound, Zenon
  <2>2. x.state # "WAIT_ACK"
    BY <1>5, <1>7, <1>12, Zenon DEF KeptByProcess, KeptByRsp
  <2> QED
    BY <1>2, <1>14, <1>16, <2>1, <2>2, Zenon DEF SrcResult
<1> QED
  BY <1>15, <1>16, Zenon

\* Waiting for the response to a request: process_message is reached only with
\* a message at hand and time left.
LEMMA SrcWaitResponseMsgSound ==
    ASSUME NEW t \in Transaction, SrcBase(t), t.state = "WAIT_RESPONSE_MSG", NEW me
    PROVE  LET r == SrcWaitResponseMsg(t, me)
           IN  /\ SrcResult(t, r)
               /\ t.transaction_stop_when = 0 \/ ~t.msg_in_avail => r.handed = t.handed
               /\ t.transaction_stop_when = 0 => r.transaction_status # "ONGOING"
<1>1. CASE t.transaction_stop_when = 0
  <2> DEFINE s == IF t.response_received THEN "SUCCESS" ELSE "FAILURE"
  <2>1. s \in {"SUCCESS", "FAILURE"} /\ s # "ONGOING"
    BY Zenon
  <2>2. SrcWaitResponseMsg(t, me) = Finish(t, s)
    BY <1>1, Zenon DEF SrcWaitResponseMsg
  <2> HIDE DEF s
  <2> QED
    BY <2>1, <2>2, SrcFinishSound, Zenon
<1>2. CASE t.transaction_stop_when # 0 /\ t.msg_in_avail
  BY <1>2, SrcProcessMsgSound, Zenon DEF SrcWaitResponseMsg
<1>3. CASE t.transaction_stop_when # 0 /\ ~t.msg_in_avail
  <2> DEFINE r == [t EXCEPT !.state = "WAIT_RESPONSE_MSG"]
  <2>1. r \in Transaction /\ SameButState(t, r) /\ r.state = "WAIT_RESPONSE_MSG"
        /\ r.transaction_status = t.transaction_status
    BY StateSound, States, Zenon
  <2>2. SrcWaitResponseMsg(t, me) = r
    BY <1>3, Zenon DEF SrcWaitResponseMsg
  <2> HIDE DEF r
  <2>3. SrcBase(r)
    BY <2>1 DEF SrcBase, SameButState, RspSound, ReqSound, ReqDecided
  <2> QED
    BY <1>3, <2>1, <2>2, <2>3, Zenon DEF SrcResult, NothingToProcess, SrcClean, SameButState
<1> QED
  BY <1>1, <1>2, <1>3, Zenon

\* One call of src_transaction_t::run on a transaction in a pool.
LEMMA SrcRunSound ==
    ASSUME NEW t \in Transaction, SrcBase(t), NEW me
    PROVE  LET r == SrcRun(t, me)
           IN  /\ SrcResult(t, r)
               /\ ~(/\ t.state = "WAIT_RESPONSE_MSG" /\ t.msg_in_avail
                    /\ t.transaction_stop_when # 0) => r.handed = t.handed
<1>1. CASE t.state = "WAIT_RESPONSE_MSG"
  BY <1>1, SrcWaitResponseMsgSound, Zenon DEF SrcRun
<1>2. CASE t.state = "WAIT_ACK"
  BY <1>2, SrcWaitAckSound, Zenon DEF SrcRun
<1>3. CASE t.state = "FAILURE"
  BY <1>3, SrcFinishSound, Zenon DEF SrcRun
<1>4. CASE t.state = "SUCCESS"
  BY <1>4, SrcFinishSound, Zenon DEF SrcRun
<1> QED
  BY <1>1, <1>2, <1>3, <1>4, Zenon DEF SrcBase

\* When a run of the source state machine ends the transaction.
LEMMA SrcRunDecides ==
    ASSUME NEW t \in Transaction, SrcBase(t), NEW me,
           \/ t.state \in {"FAILURE", "SUCCESS"}
           \/ t.state = "WAIT_RESPONSE_MSG" /\ t.transaction_stop_when = 0
           \/ t.state = "WAIT_ACK" /\ t.ack_requestor_status # "ONGOING"
    PROVE  SrcRun(t, me).transaction_status # "ONGOING"
<1>1. CASE t.state = "WAIT_RESPONSE_MSG"
  BY <1>1, SrcWaitResponseMsgSound, Zenon DEF SrcRun
<1>2. CASE t.state = "WAIT_ACK"
  BY <1>2, SrcWaitAckSound, Zenon DEF SrcRun
<1>3. CASE t.state = "FAILURE"
  BY <1>3, SrcFinishSound, Zenon DEF SrcRun
<1>4. CASE t.state = "SUCCESS"
  BY <1>4, SrcFinishSound, Zenon DEF SrcRun
<1> QED
  BY <1>1, <1>2, <1>3, <1>4, Zenon DEF SrcBase

-----------------------------------------------------------------------------
(***************************************************************************)
(* The tick.                                                               *)
(***************************************************************************)

\* A counter stays in its range, and becomes zero only from one.
LEMMA DecrementType ==
    ASSUME NEW x \in 0 .. Wrapped
    PROVE  /\ Decrement(x) \in 0 .. Wrapped
           /\ Decrement(x) = 0 <=> x = 1
           /\ x \in {0, Wrapped} => Decrement(x) = Wrapped
           /\ x \notin {0, Wrapped} => Decrement(x) = x - 1
  BY TimeAssumption DEF Decrement

\* Two counters that run down together keep their distance.
LEMMA DecrementOrder ==
    ASSUME NEW x \in 0 .. Wrapped, NEW y \in 0 .. Wrapped, NEW k \in Nat, x >= y + k, y # 0
    PROVE  Decrement(x) >= Decrement(y) + k
<1>1. x \in Nat /\ y \in Nat /\ Wrapped \in Nat /\ y <= Wrapped /\ x <= Wrapped /\ y > 0 /\ x > 0
  BY TimeAssumption
<1>2. CASE y = Wrapped
  <2>1. x = Wrapped /\ k = 0
    BY <1>1, <1>2
  <2>2. Decrement(x) = Wrapped /\ Decrement(y) = Wrapped
    BY <1>2, <2>1, DecrementType
  <2> QED
    BY <1>1, <2>1, <2>2
<1>3. CASE y # Wrapped
  <2>1. Decrement(y) = y - 1
    BY <1>3, DecrementType
  <2>2. Decrement(x) = x - 1 \/ Decrement(x) = x
    BY <1>1, DecrementType
  <2> QED
    BY <1>1, <2>1, <2>2
<1> QED
  BY <1>2, <1>3, Zenon

\* The time for the transmissions after one retransmission.
LEMMA OneTransmission ==
    ASSUME NEW c \in 0 .. MaxRtx, c < MaxRtx
    PROVE  /\ RtxWhen * (MaxRtx - c) = RtxWhen + RtxWhen * (MaxRtx - (c + 1))
           /\ RtxWhen + RtxWhen * (MaxRtx - (c + 1)) <= StopWhen
<1> DEFINE k == MaxRtx - (c + 1)
<1>1. k \in Nat /\ MaxRtx - c = k + 1 /\ k =< MaxRtx /\ RtxWhen \in Nat
  BY TimeAssumption
<1> HIDE DEF k
<1>2. RtxWhen * (k + 1) = RtxWhen + RtxWhen * k
  BY <1>1
<1>3. RtxWhen * k =< RtxWhen * MaxRtx
  BY <1>1, TimeAssumption
<1>4. RtxWhen * (MaxRtx + 1) = RtxWhen + RtxWhen * MaxRtx
  BY TimeAssumption
<1>5. RtxWhen * k \in Nat /\ RtxWhen * MaxRtx \in Nat
  BY <1>1, TimeAssumption
<1>6. RtxWhen + RtxWhen * k =< StopWhen
  BY <1>1, <1>3, <1>4, <1>5, TimeAssumption
<1> QED
  BY <1>1, <1>2, <1>6, Zenon DEF k

\* The time for the transmissions that are left is a number, and it is nothing
\* only after the last one.
LEMMA TransmissionTime ==
    ASSUME NEW c \in 0 .. MaxRtx
    PROVE  /\ RtxWhen * (MaxRtx - c) \in Nat
           /\ RtxWhen * (MaxRtx - c) = 0 => c = MaxRtx
<1>1. MaxRtx - c \in Nat /\ RtxWhen \in Nat \ {0}
  BY TimeAssumption
<1>2. \A j, k \in Nat : j * k \in Nat /\ (j * k = 0 => j = 0 \/ k = 0)
  OBVIOUS
<1> QED
  BY <1>1, <1>2, TimeAssumption

\* The fields dec's own assignments leave alone.
KeptByDec(t, r) ==
    /\ r.state = t.state /\ r.transaction_status = t.transaction_status
    /\ r.tid = t.tid /\ r.me = t.me /\ r.peer = t.peer
    /\ r.in = t.in /\ r.msg_in_avail = t.msg_in_avail
    /\ r.out = t.out /\ r.msg_out_avail = t.msg_out_avail
    /\ r.sent = t.sent /\ r.handed = t.handed
    /\ r.ack_requestor_status = t.ack_requestor_status /\ r.ack_req_state = t.ack_req_state
    /\ r.start_ack_requestor = t.start_ack_requestor
    /\ r.start_ack_responder = t.start_ack_responder
    /\ r.ack_rsp_state = t.ack_rsp_state /\ r.dup = t.dup /\ r.ack = t.ack
    /\ r.rtxctr = t.rtxctr

\* transaction_stop_when--
LEMMA SetStopSound ==
    ASSUME NEW t \in Transaction, NEW x \in 0 .. Wrapped
    PROVE  LET r == [t EXCEPT !.transaction_stop_when = x]
           IN  /\ r \in Transaction /\ KeptByDec(t, r) /\ r.transaction_stop_when = x
               /\ r.retransmission_when = t.retransmission_when
<1> DEFINE r == [t EXCEPT !.transaction_stop_when = x]
<1>1. r \in Transaction
  BY ZenonT(30) DEF Transaction
<1>2. KeptByDec(t, r) /\ r.transaction_stop_when = x /\ r.retransmission_when = t.retransmission_when
  BY Zenon DEF Transaction, KeptByDec
<1> QED
  BY <1>1, <1>2, Zenon

\* retransmission_when--
LEMMA SetRetransmissionSound ==
    ASSUME NEW t \in Transaction, NEW x \in 0 .. Wrapped
    PROVE  LET r == [t EXCEPT !.retransmission_when = x]
           IN  /\ r \in Transaction /\ KeptByDec(t, r) /\ r.retransmission_when = x
               /\ r.transaction_stop_when = t.transaction_stop_when
<1> DEFINE r == [t EXCEPT !.retransmission_when = x]
<1>1. r \in Transaction
  BY ZenonT(30) DEF Transaction
<1>2. KeptByDec(t, r) /\ r.retransmission_when = x /\ r.transaction_stop_when = t.transaction_stop_when
  BY Zenon DEF Transaction, KeptByDec
<1> QED
  BY <1>1, <1>2, Zenon

\* A source transaction after the first half of an iteration of dec: its life
\* time is over or it is still waiting, and its timer has still to move.
HalfTicked(t, u) ==
    /\ u \in Transaction /\ SrcBase(u) /\ NothingToProcess(u)
    /\ u.sent \subseteq Message /\ u.handed = {}
    /\ u.tid = t.tid /\ u.peer = t.peer
    /\ Decrement(t.transaction_stop_when) = 0 =>
           \/ u.transaction_status # "ONGOING"
           \/ u.state = "WAIT_ACK" /\ u.ack_requestor_status = "ONGOING"
    /\ u.state = "WAIT_ACK" =>
           /\ t.state = "WAIT_ACK" /\ u.ack_req_state = t.ack_req_state /\ u.rtxctr = t.rtxctr
           /\ u.retransmission_when = t.retransmission_when
           /\ u.transaction_stop_when = Decrement(t.transaction_stop_when)

\* The first half of an iteration of dec reaches no handler.
LEMMA SrcDecStopSound ==
    ASSUME NEW t \in Transaction, SrcSound(t), t.sent = {}, t.handed = {}, NEW me
    PROVE  LET s == [t EXCEPT !.transaction_stop_when = Decrement(@)]
           IN  HalfTicked(t, IF s.transaction_stop_when = 0 THEN SrcRun(s, me) ELSE s)
<1> DEFINE x == Decrement(t.transaction_stop_when)
           s == [t EXCEPT !.transaction_stop_when = x]
           u == IF s.transaction_stop_when = 0 THEN SrcRun(s, me) ELSE s
<1>1. SUFFICES HalfTicked(t, u)
  BY Zenon
<1>2. x \in 0 .. Wrapped
  BY DecrementType, Zenon DEF Transaction
<1> HIDE DEF x
<1>3. s \in Transaction /\ KeptByDec(t, s) /\ s.transaction_stop_when = x
      /\ s.retransmission_when = t.retransmission_when
  BY <1>2, SetStopSound, Zenon
<1> HIDE DEF s
<1>4. SrcBase(s)
  BY <1>3 DEF SrcSound, SrcBase, KeptByDec, RspSound, ReqSound, ReqDecided
<1>5. CASE x = 0
  <2> DEFINE r == SrcRun(s, me)
  <2>1. SrcResult(s, r) /\ r.handed = s.handed
    BY <1>3, <1>4, <1>5, SrcRunSound, Zenon
  <2>2. s.state # "WAIT_ACK" => r.transaction_status # "ONGOING"
    BY <1>3, <1>4, <1>5, SrcRunDecides, Zenon DEF SrcBase
  <2>3. u = r
    BY <1>3, <1>5, Zenon
  <2> HIDE DEF r
  <2>4. s.state = "WAIT_ACK" =>
            \/ r.transaction_status # "ONGOING"
            \/ r.state = "WAIT_ACK" /\ r.ack_requestor_status = "ONGOING"
    BY <2>1, Zenon DEF SrcResult, SrcBase
  <2> QED
    BY <1>1, <1>3, <2>1, <2>2, <2>3, <2>4 DEF HalfTicked, SrcResult, SrcClean, KeptByDec, x
<1>6. CASE x # 0
  <2>1. u = s
    BY <1>3, <1>6, Zenon
  <2>2. NothingToProcess(s)
    BY <1>3, Zenon DEF SrcSound, NothingToProcess, KeptByDec
  <2> QED
    BY <1>1, <1>3, <1>4, <1>6, <2>1, <2>2, Zenon DEF HalfTicked, KeptByDec, x
<1> QED
  BY <1>5, <1>6, Zenon

\* The timer of an ack requestor runs out only while it waits.
LEMMA TimerRunsOut ==
    ASSUME NEW u \in Transaction, ReqSound(u), ReqDecided(u), u.ack_requestor_status = "ONGOING",
           Decrement(u.retransmission_when) = 0
    PROVE  u.ack_req_state = "WAIT_ACK" /\ u.retransmission_when = 1
<1>1. u.retransmission_when = 1
  BY DecrementType, Zenon DEF Transaction
<1>2. 1 \notin {0, Wrapped}
  BY TimeAssumption
<1> QED
  BY <1>1, <1>2, Zenon DEF ReqSound, ReqDecided, Transaction, AckReqState

\* One iteration of dec on a source transaction: it stays sound, no message is
\* handed over, and it is dropped only after its end.
LEMMA SrcDecSound ==
    ASSUME NEW t \in Transaction, SrcSound(t), t.sent = {}, t.handed = {}, NEW me
    PROVE  LET d == SrcDec(t, me)
           IN  /\ d \in Transaction /\ SrcSound(d) /\ d.sent \subseteq Message /\ d.handed = {}
               /\ d.tid = t.tid /\ d.peer = t.peer
               /\ DecDeletes(t, d) => d.transaction_status # "ONGOING"
<1> DEFINE v == [t EXCEPT !.transaction_stop_when = Decrement(@)]
           u == IF v.transaction_stop_when = 0 THEN SrcRun(v, me) ELSE v
           x == Decrement(u.retransmission_when)
           w == [u EXCEPT !.retransmission_when = x]
           d == SrcDec(t, me)
<1>1. HalfTicked(t, u)
  BY SrcDecStopSound, Zenon
<1>2. d = IF u.ack_requestor_status # "ONGOING" THEN u
          ELSE IF w.retransmission_when = 0 THEN SrcRun(AckRequestor(w), me) ELSE w
  BY Zenon DEF SrcDec, DecStop, DecRetransmission
<1> SUFFICES /\ d \in Transaction /\ SrcBase(d) /\ NothingToProcess(d) /\ TimeSound(d)
             /\ d.sent \subseteq Message /\ d.handed = {} /\ d.tid = t.tid /\ d.peer = t.peer
             /\ Decrement(t.transaction_stop_when) = 0 => d.transaction_status # "ONGOING"
  BY Zenon DEF SrcSound, DecDeletes
<1> HIDE DEF u, d
<1>3. x \in 0 .. Wrapped
  BY <1>1, DecrementType, Zenon DEF HalfTicked, Transaction
<1> HIDE DEF x
<1>4. w \in Transaction /\ KeptByDec(u, w) /\ w.retransmission_when = x
      /\ w.transaction_stop_when = u.transaction_stop_when
  BY <1>1, <1>3, SetRetransmissionSound, Zenon DEF HalfTicked
<1> HIDE DEF w
<1>5. /\ t.transaction_stop_when \in 0 .. Wrapped /\ t.rtxctr \in 0 .. MaxRtx
      /\ u.retransmission_when \in 0 .. Wrapped
  BY <1>1, Zenon DEF Transaction, HalfTicked
<1> DEFINE left == RtxWhen * (MaxRtx - t.rtxctr)
<1>6. left \in Nat /\ (left = 0 => t.rtxctr = MaxRtx)
  BY <1>5, TransmissionTime, Zenon
<1>7. u.state = "WAIT_ACK" /\ u.ack_req_state = "WAIT_ACK" =>
          /\ t.transaction_stop_when >= u.retransmission_when + left
          /\ u.retransmission_when # 0
  BY <1>1, Zenon DEF HalfTicked, SrcSound, TimeSound, SrcBase, ReqSound
<1> HIDE DEF left
<1>8. CASE u.ack_requestor_status # "ONGOING"
  <2>1. TimeSound(u)
    BY <1>1, <1>8, Zenon DEF HalfTicked, TimeSound, SrcSound, SrcBase, ReqSound
  <2> QED
    BY <1>1, <1>2, <1>8, <2>1, Zenon DEF HalfTicked
<1>9. CASE u.ack_requestor_status = "ONGOING" /\ x # 0
  <2>1. d = w
    BY <1>2, <1>4, <1>9, Zenon
  <2>2. SrcBase(w)
    <3>1. ReqSound(w)
      BY <1>1, <1>3, <1>4, <1>5, <1>9, DecrementType
      DEF HalfTicked, SrcBase, ReqSound, KeptByDec, x
    <3> QED
      BY <1>1, <1>4, <3>1 DEF HalfTicked, SrcBase, KeptByDec, RspSound, ReqDecided
  <2>3. NothingToProcess(w)
    BY <1>1, <1>4, Zenon DEF HalfTicked, NothingToProcess, KeptByDec
  <2>4. TimeSound(w)
    <3>1. SUFFICES ASSUME w.state = "WAIT_ACK"
                   PROVE  /\ w.ack_req_state # "INIT"
                          /\ w.ack_req_state = "WAIT_ACK" =>
                                 w.transaction_stop_when >= w.retransmission_when + left
      BY <1>1, <1>4, Zenon DEF TimeSound, HalfTicked, KeptByDec, left
    <3>2. w.ack_req_state # "INIT"
      BY <1>1, <1>4, <3>1, Zenon DEF HalfTicked, KeptByDec, SrcSound, TimeSound
    <3>3. ASSUME w.ack_req_state = "WAIT_ACK"
          PROVE  Decrement(t.transaction_stop_when) >= x + left
      <4>1. t.transaction_stop_when >= u.retransmission_when + left /\ u.retransmission_when # 0
        BY <1>4, <1>7, <3>1, <3>3, Zenon DEF KeptByDec
      <4> QED
        BY <1>5, <1>6, <4>1, DecrementOrder, Zenon DEF x
    <3> QED
      BY <1>1, <1>4, <3>1, <3>2, <3>3, Zenon DEF HalfTicked, KeptByDec
  <2>5. Decrement(t.transaction_stop_when) = 0 => w.transaction_status # "ONGOING"
    <3> SUFFICES ASSUME Decrement(t.transaction_stop_when) = 0, w.transaction_status = "ONGOING"
                 PROVE  FALSE
      BY Zenon
    <3>1. u.state = "WAIT_ACK" /\ u.ack_req_state = "WAIT_ACK"
      BY <1>1, <1>4, <1>9 DEF HalfTicked, KeptByDec, SrcBase, ReqDecided, ReqSound,
         SrcSound, TimeSound, Transaction, AckReqState
    <3>2. t.transaction_stop_when = 1
      BY <1>5, DecrementType, Zenon
    <3>3. u.retransmission_when = 1
      BY <1>5, <1>6, <1>7, <3>1, <3>2
    <3> QED
      BY <1>9, <3>3, <1>5, DecrementType, Zenon DEF x
  <2> QED
    BY <1>1, <1>4, <2>1, <2>2, <2>3, <2>4, <2>5, Zenon DEF HalfTicked, KeptByDec
<1>10. CASE u.ack_requestor_status = "ONGOING" /\ x = 0
  <2> DEFINE y == AckRequestor(w)
  <2>1. u.ack_req_state = "WAIT_ACK" /\ u.retransmission_when = 1
    BY <1>1, <1>10, TimerRunsOut, Zenon DEF HalfTicked, SrcBase, x
  <2>2. /\ ReqResult(w, y)
        /\ w.rtxctr < MaxRtx => y.retransmission_when = RtxWhen /\ y.rtxctr = w.rtxctr + 1
        /\ w.rtxctr = MaxRtx => y.ack_req_state = "FAILURE"
    <3>1. w.out \in Message /\ (w.msg_in_avail => w.in \in Message)
      BY <1>1, <1>4, Zenon DEF HalfTicked, SrcBase, KeptByDec
    <3>2. w.ack_req_state = "WAIT_ACK" /\ w.ack_requestor_status = "ONGOING" /\ w.retransmission_when = 0
      BY <1>4, <1>10, <2>1, Zenon DEF KeptByDec
    <3> QED
      BY <1>4, <3>1, <3>2, AckRequestorOnTimer, Zenon
  <2>3. d = SrcRun(y, me)
    BY <1>2, <1>4, <1>10, Zenon
  <2> HIDE DEF y
  <2>4. SrcBase(y)
    BY <1>1, <1>4, <2>1, <2>2 DEF HalfTicked, SrcBase, KeptByDec, ReqResult, KeptByReq, RspSound
  <2>5. y.sent \subseteq Message /\ y.handed = {} /\ y.tid = t.tid /\ y.peer = t.peer
    BY <1>1, <1>4, <2>2 DEF HalfTicked, SrcBase, KeptByDec, ReqResult, KeptByReq
  <2>6. ~(y.state = "WAIT_RESPONSE_MSG" /\ y.msg_in_avail)
    BY <1>1, <1>4, <1>10, <2>2 DEF HalfTicked, NothingToProcess, KeptByDec, ReqResult, KeptByReq
  <2>7. SrcResult(y, d) /\ d.handed = y.handed
    BY <2>2, <2>3, <2>4, <2>6, SrcRunSound, Zenon DEF ReqResult
  <2>8. TimeSound(d)
    <3>1. SUFFICES ASSUME d.state = "WAIT_ACK"
                   PROVE  /\ d.ack_req_state # "INIT"
                          /\ d.ack_req_state = "WAIT_ACK" =>
                                 d.transaction_stop_when >= d.retransmission_when + RtxWhen * (MaxRtx - d.rtxctr)
      BY Zenon DEF TimeSound
    <3>2. /\ y.state = "WAIT_ACK" /\ d.ack_requestor_status = "ONGOING"
          /\ d.ack_req_state = y.ack_req_state /\ d.rtxctr = y.rtxctr
          /\ d.transaction_stop_when = y.transaction_stop_when
          /\ d.retransmission_when = y.retransmission_when
      BY <2>7, <3>1, Zenon DEF SrcResult
    <3>3. d.ack_req_state # "INIT"
      BY <2>2, <3>2, Zenon DEF ReqResult
    <3>4. u.state = "WAIT_ACK" /\ y.transaction_stop_when = Decrement(t.transaction_stop_when)
          /\ w.rtxctr = t.rtxctr
      BY <1>1, <1>4, <2>2, <3>2 DEF HalfTicked, KeptByDec, ReqResult, KeptByReq
    <3>5. ASSUME d.ack_req_state = "WAIT_ACK"
          PROVE  d.transaction_stop_when >= d.retransmission_when + RtxWhen * (MaxRtx - d.rtxctr)
      <4>1. w.rtxctr < MaxRtx
        BY <1>5, <2>2, <3>2, <3>4, <3>5, TimeAssumption
      <4>2. d.retransmission_when = RtxWhen /\ d.rtxctr = t.rtxctr + 1
        BY <2>2, <3>2, <3>4, <4>1, Zenon
      <4>3. left = RtxWhen + RtxWhen * (MaxRtx - (t.rtxctr + 1)) /\ left =< StopWhen
        BY <1>5, <3>4, <4>1, OneTransmission, Zenon DEF left
      <4>4. t.transaction_stop_when >= 1 + left
        BY <1>7, <2>1, <3>4, Zenon
      <4>5. Decrement(t.transaction_stop_when) >= left
        BY <1>5, <1>6, <4>3, <4>4, DecrementType, TimeAssumption
      <4> QED
        BY <3>2, <3>4, <4>2, <4>3, <4>5, Zenon
    <3> QED
      BY <3>3, <3>5, Zenon
  <2>9. Decrement(t.transaction_stop_when) = 0 => d.transaction_status # "ONGOING"
    <3> SUFFICES ASSUME Decrement(t.transaction_stop_when) = 0
                 PROVE  d.transaction_status # "ONGOING"
      BY Zenon
    <3>1. CASE u.transaction_status # "ONGOING"
      <4>1. y.state \in {"FAILURE", "SUCCESS"}
        BY <1>4, <2>2, <2>4, <3>1, Zenon DEF KeptByDec, ReqResult, KeptByReq, SrcBase
      <4> QED
        BY <2>2, <2>3, <2>4, <4>1, SrcRunDecides, Zenon DEF ReqResult
    <3>2. CASE u.state = "WAIT_ACK"
      <4>1. t.transaction_stop_when = 1
        BY <1>5, DecrementType, Zenon
      <4>2. left = 0
        BY <1>5, <1>6, <1>7, <2>1, <3>2, <4>1
      <4>3. w.rtxctr = MaxRtx
        BY <1>1, <1>4, <1>6, <3>2, <4>2, Zenon DEF HalfTicked, KeptByDec
      <4>4. y.state = "WAIT_ACK" /\ y.ack_requestor_status = "FAILURE"
        BY <1>4, <2>2, <3>2, <4>3, Zenon DEF KeptByDec, ReqResult, KeptByReq, ReqDecided
      <4> QED
        BY <2>2, <2>3, <2>4, <4>4, SrcRunDecides, Zenon DEF ReqResult
    <3> QED
      BY <1>1, <3>1, <3>2, Zenon DEF HalfTicked
  <2> QED
    BY <2>5, <2>7, <2>8, <2>9, Zenon DEF SrcResult, SrcClean
<1> QED
  BY <1>8, <1>9, <1>10, Zenon

-----------------------------------------------------------------------------
(***************************************************************************)
(* The first run of a source transaction.                                  *)
(***************************************************************************)

\* The constructor of a transaction.
LEMMA NewTransactionType ==
    NewTransaction \in Transaction
<1>1. Multicast \in Id /\ NoMsg \in MaybeMessage /\ "request" \in Opcode /\ 0 \in Tid
  BY TidAssumption DEF Id, MaybeMessage, Opcode, Tid
<1>2. 0 \in 0 .. MaxRtx /\ 0 \in 0 .. Wrapped
  BY TimeAssumption
<1>3. {} \in SUBSET MaybeMessage /\ {} \in SUBSET Key /\ "INIT" \in SrcState \cup DstState
  BY States, Zenon
<1> QED
  BY <1>1, <1>2, <1>3, States, ZenonT(30) DEF NewTransaction, Transaction

\* A transaction new_src_transaction puts in the pool is sound; it has sent its
\* message and handed nothing over.
LEMMA NewSrcTransactionSound ==
    ASSUME NEW m \in Message, m.ackreq
    PROVE  LET r == NewSrcTransaction(m)
           IN  /\ r \in Transaction /\ r.sent \subseteq Message /\ r.handed = {}
               /\ r.transaction_status = "ONGOING" => SrcSound(r)
<1> DEFINE b == m.destination = Multicast
           c == m.ackreq /\ m.destination # Multicast
           e == {m}
           p == m.destination
           t == [NewTransaction EXCEPT
                   !.out = m, !.msg_out_avail = TRUE, !.opcode = m.opcode,
                   !.transaction_stop_when = StopWhen, !.is_multicast = b,
                   !.start_ack_requestor = c, !.tid = m.tid, !.me = m.source, !.peer = p,
                   !.sent = e]
           s == StartedAckRequestor(t)
           o == [s EXCEPT !.ack_requestor_status = "ONGOING"]
           r == NewSrcTransaction(m)
<1>1. /\ m.opcode \in Opcode /\ m.tid \in Tid /\ m.source \in Node /\ p \in Id
      /\ m.source \in Id /\ m \in MaybeMessage
  BY Zenon DEF Message, Id, MaybeMessage
<1>2. b \in BOOLEAN /\ c \in BOOLEAN /\ (c \/ p = Multicast)
  BY Zenon
<1>3. e \in SUBSET MaybeMessage /\ e \subseteq Message
  BY Zenon DEF MaybeMessage
<1>4. StopWhen \in 0 .. Wrapped /\ StopWhen # 0
  BY TimeAssumption
<1>5. r = CASE m.opcode = "indication" /\ s.start_ack_requestor -> SrcWaitAck(o)
            [] m.opcode = "indication" /\ ~s.start_ack_requestor -> Finish(s, "SUCCESS")
            [] m.opcode = "response" -> Finish(s, "SUCCESS")
            [] m.opcode = "request"  -> SrcWaitResponseMsg(s, m.source)
  BY Zenon DEF NewSrcTransaction
<1> HIDE DEF b, c, e, p, r
<1>6. t \in Transaction
  BY <1>1, <1>2, <1>3, <1>4, NewTransactionType, ZenonT(60) DEF Transaction
<1>7. /\ t.state = "INIT" /\ t.out = m /\ t.transaction_stop_when = StopWhen
      /\ t.start_ack_requestor = c /\ t.start_ack_responder = FALSE /\ t.msg_in_avail = FALSE
      /\ t.me = m.source /\ t.peer = p /\ t.sent = e /\ t.handed = {}
      /\ t.ack_req_state = "INIT" /\ t.ack_rsp_state = "INIT" /\ t.retransmission_when = 0
      /\ t.transaction_status = "ONGOING" /\ t.ack_requestor_status = "ONGOING"
  BY DEF NewTransaction
<1> HIDE DEF t
<1>8. /\ s \in Transaction /\ KeptByReq(t, s) /\ ReqSound(s) /\ ReqDecided(s) /\ s.sent = e
      /\ s.ack_requestor_status = "ONGOING"
      /\ c <=> s.ack_req_state # "INIT"
      /\ c => s.ack_req_state = "WAIT_ACK" /\ s.retransmission_when = RtxWhen /\ s.rtxctr = 0
  <2>1. CASE c
    <3> DEFINE w == ReqInit(t)
    <3>1. /\ ReqResult(t, w) /\ w.sent = t.sent
          /\ w.ack_req_state \in {"WAIT_ACK", "SUCCESS"}
          /\ w.ack_req_state = "SUCCESS" <=> t.msg_in_avail /\ t.in.ackrsp
          /\ w.retransmission_when = RtxWhen /\ w.rtxctr = 0
      BY <1>6, <1>7, ReqInitSound, Zenon
    <3>2. s = w
      BY <1>7, <2>1, Zenon DEF StartedAckRequestor, AckRequestor
    <3> HIDE DEF w, s
    <3> QED
      BY <1>7, <2>1, <3>1, <3>2, Zenon DEF ReqResult, ReqSound
  <2>2. CASE ~c
    <3>1. s = t
      BY <1>7, <2>2, Zenon DEF StartedAckRequestor
    <3> QED
      BY <1>6, <1>7, <2>2, <3>1, Zenon DEF KeptByReq, ReqSound, ReqDecided
  <2> QED
    BY <2>1, <2>2, Zenon
<1> HIDE DEF s
\* The fields SrcSound reads, whatever the state.
<1>9. ASSUME NEW z \in Transaction, SameButState(s, z), z.transaction_status = "ONGOING",
             z.state = "WAIT_RESPONSE_MSG" \/ (z.state = "WAIT_ACK" /\ c)
      PROVE  SrcSound(z)
  <2>1. SrcBase(z)
    BY <1>1, <1>2, <1>7, <1>8, <1>9
    DEF SrcBase, RspSound, ReqSound, ReqDecided, SameButState, KeptByReq
  <2>2. TimeSound(z)
    <3>1. RtxWhen * (MaxRtx + 1) = RtxWhen + RtxWhen * MaxRtx
      BY TimeAssumption
    <3>2. z.state = "WAIT_ACK" => z.ack_req_state = "WAIT_ACK" /\ z.rtxctr = 0
              /\ z.retransmission_when = RtxWhen /\ z.transaction_stop_when = StopWhen
      BY <1>7, <1>8, <1>9 DEF SameButState, KeptByReq
    <3> QED
      BY <3>1, <3>2, TimeAssumption DEF TimeSound
  <2>3. NothingToProcess(z)
    BY <1>7, <1>8, <1>9, Zenon DEF NothingToProcess, SameButState, KeptByReq
  <2> QED
    BY <2>1, <2>2, <2>3, Zenon DEF SrcSound
<1>10. CASE m.opcode = "response" \/ (m.opcode = "indication" /\ ~s.start_ack_requestor)
  <2>1. r = Finish(s, "SUCCESS")
    BY <1>5, <1>10, Zenon
  <2>2. r \in Transaction /\ SameButState(s, r) /\ r.state = "SUCCESS" /\ r.transaction_status = "SUCCESS"
    BY <1>8, <2>1, FinishSound, Zenon
  <2> HIDE DEF r
  <2>3. r.sent = e /\ r.handed = {}
    BY <1>7, <1>8, <2>2 DEF SameButState, KeptByReq
  <2> QED
    BY <1>3, <2>2, <2>3, Zenon DEF r
<1>11. CASE m.opcode = "indication" /\ s.start_ack_requestor
  <2> DEFINE z == [s EXCEPT !.state = "WAIT_ACK"]
  <2>1. o = s
    BY <1>8, Zenon DEF Transaction
  <2>2. r = z
    <3>1. r = SrcWaitAck(o)
      BY <1>5, <1>11, Zenon
    <3> QED
      BY <1>8, <2>1, <3>1, Zenon DEF SrcWaitAck
  <2>3. z \in Transaction /\ SameButState(s, z) /\ z.state = "WAIT_ACK"
        /\ z.transaction_status = s.transaction_status
    BY <1>8, StateSound, States, Zenon
  <2> HIDE DEF z, o
  <2>4. SrcSound(z)
    BY <1>7, <1>8, <1>9, <1>11, <2>3 DEF KeptByReq
  <2> QED
    BY <1>3, <1>7, <1>8, <2>2, <2>3, <2>4 DEF r, SameButState, KeptByReq
<1>12. CASE m.opcode = "request"
  <2> DEFINE z == [s EXCEPT !.state = "WAIT_RESPONSE_MSG"]
  <2>1. r = z
    BY <1>4, <1>5, <1>7, <1>8, <1>12, Zenon DEF SrcWaitResponseMsg, KeptByReq
  <2>2. z \in Transaction /\ SameButState(s, z) /\ z.state = "WAIT_RESPONSE_MSG"
        /\ z.transaction_status = s.transaction_status
    BY <1>8, StateSound, States, Zenon
  <2> HIDE DEF z
  <2>3. SrcSound(z)
    BY <1>7, <1>8, <1>9, <2>2 DEF KeptByReq
  <2> QED
    BY <1>3, <1>7, <1>8, <2>1, <2>2, <2>3 DEF r, SameButState, KeptByReq
<1> QED
  BY <1>1, <1>10, <1>11, <1>12, Zenon DEF Opcode

-----------------------------------------------------------------------------
(***************************************************************************)
(* The destination state machine, laid out as the source state machine.    *)
(***************************************************************************)


\* What a run of the destination state machine makes of t.
DstResult(t, r) ==
    /\ r \in Transaction
    /\ DstSound(r)
    /\ t.sent \subseteq Message => r.sent \subseteq Message
    /\ r.handed = t.handed /\ r.tid = t.tid /\ r.peer = t.peer

\* One call of ack_requestor outside the timer sends nothing.
LEMMA AckRequestorSound ==
    ASSUME NEW t \in Transaction, t.msg_in_avail => t.in \in Message, ReqSound(t)
    PROVE  ReqResult(t, AckRequestor(t)) /\ AckRequestor(t).sent = t.sent
<1>1. CASE t.ack_req_state = "INIT"
  BY <1>1, ReqInitSound, Zenon DEF AckRequestor
<1>2. CASE t.ack_req_state # "INIT"
  BY <1>2, AckRequestorOnMessage, Zenon
<1> QED
  BY <1>1, <1>2, Zenon

\* A destination transaction that changes its state only stays sound.
LEMMA DstStateSound ==
    ASSUME NEW t \in Transaction, NEW r \in Transaction, DstBase(t), SameButState(t, r),
           r.state \in {"WAIT_RESPONSE_PRM", "SEND_RESPONSE", "FAILURE", "SUCCESS"}
    PROVE  DstResult(t, r)
  BY Zenon DEF DstResult, DstSound, DstBase, SameButState, RspSound, ReqSound

\* A destination transaction that ends stays sound.
LEMMA DstFinishSound ==
    ASSUME NEW t \in Transaction, DstBase(t), NEW s \in {"SUCCESS", "FAILURE"}
    PROVE  DstResult(t, Finish(t, s))
<1> DEFINE r == Finish(t, s)
<1>1. r \in Transaction /\ SameButState(t, r) /\ r.state = s
  BY FinishSound, Zenon
<1> HIDE DEF r
<1>2. DstResult(t, r)
  BY <1>1, DstStateSound, Zenon
<1> QED
  BY <1>2, Zenon DEF r

\* Waiting for the acknowledgement of a response.
LEMMA DstSendResponseSound ==
    ASSUME NEW t \in Transaction, DstBase(t)
    PROVE  DstResult(t, DstSendResponse(t))
<1> DEFINE s == [t EXCEPT !.state = "SEND_RESPONSE"]
<1>1. s \in Transaction /\ SameButState(t, s) /\ s.state = "SEND_RESPONSE"
  BY StateSound, States, Zenon
<1>2. \/ DstSendResponse(t) = s
      \/ DstSendResponse(t) = Finish(s, "SUCCESS")
      \/ DstSendResponse(t) = Finish(s, "FAILURE")
  BY Zenon DEF DstSendResponse, Transaction, Status
<1> HIDE DEF s
<1>3. DstResult(t, s)
  BY <1>1, DstStateSound, Zenon
<1>4. DstResult(s, Finish(s, "SUCCESS")) /\ DstResult(s, Finish(s, "FAILURE"))
  BY <1>1, <1>3, DstFinishSound, Zenon DEF DstResult, DstSound
<1> QED
  BY <1>2, <1>3, <1>4, Zenon DEF DstResult

\* Sending the response: the ack requestor starts if the response asks for it.
LEMMA DstSendResponseBeginSound ==
    ASSUME NEW t \in Transaction, DstBase(t), t.msg_out_avail
    PROVE  DstResult(t, DstSendResponseBegin(t))
<1> DEFINE q == t.out.ackreq
           u == [t EXCEPT !.start_ack_requestor = q]
           s == StartedAckRequestor(u)
           e == s.sent \cup {s.out}
           v == [s EXCEPT !.ack_requestor_status = "ONGOING", !.sent = e]
<1>1. q \in BOOLEAN /\ t.out \in Message
  BY Zenon DEF DstSound, DstBase, Message
<1>2. DstSendResponseBegin(t) = DstSendResponse(v)
  BY Zenon DEF DstSendResponseBegin
<1> HIDE DEF q
<1>3. u \in Transaction
  BY <1>1, ZenonT(30) DEF Transaction
<1>4. /\ u.state = t.state /\ u.tid = t.tid /\ u.me = t.me /\ u.peer = t.peer
      /\ u.in = t.in /\ u.msg_in_avail = t.msg_in_avail /\ u.out = t.out
      /\ u.msg_out_avail = t.msg_out_avail /\ u.handed = t.handed /\ u.sent = t.sent
      /\ u.start_ack_responder = t.start_ack_responder
      /\ u.ack_requestor_status = t.ack_requestor_status /\ u.ack_req_state = t.ack_req_state
      /\ u.ack_rsp_state = t.ack_rsp_state /\ u.dup = t.dup /\ u.ack = t.ack
      /\ u.retransmission_when = t.retransmission_when
  BY Zenon DEF Transaction
<1> HIDE DEF u
<1>5. s \in Transaction /\ KeptByReq(u, s) /\ ReqSound(s) /\ s.sent = t.sent
  <2>1. CASE u.start_ack_requestor
    <3>1. ReqResult(u, AckRequestor(u)) /\ AckRequestor(u).sent = u.sent
      BY <1>3, <1>4, AckRequestorSound, Zenon DEF DstBase, ReqSound
    <3> QED
      BY <1>4, <2>1, <3>1, Zenon DEF StartedAckRequestor, ReqResult
  <2>2. CASE ~u.start_ack_requestor
    <3>1. s = u
      BY <2>2, Zenon DEF StartedAckRequestor
    <3>2. ReqSound(u)
      BY <1>4, Zenon DEF DstBase, ReqSound
    <3>3. KeptByReq(u, u)
      BY Zenon DEF KeptByReq
    <3> QED
      BY <1>3, <1>4, <3>1, <3>2, <3>3, Zenon
  <2> QED
    BY <2>1, <2>2, Zenon
<1> HIDE DEF s
<1>6. e \in SUBSET MaybeMessage /\ (t.sent \subseteq Message => e \subseteq Message)
  BY <1>1, <1>4, <1>5 DEF KeptByReq, Transaction, MaybeMessage
<1> HIDE DEF e
<1>7. v \in Transaction
  BY <1>5, <1>6, States, ZenonT(30) DEF Transaction
<1>8. /\ KeptByReq(s, v) /\ v.sent = e /\ v.ack_requestor_status = "ONGOING"
      /\ v.ack_req_state = s.ack_req_state /\ v.retransmission_when = s.retransmission_when
  BY <1>5, Zenon DEF Transaction, KeptByReq
<1> HIDE DEF v
<1>9. DstBase(v)
  BY <1>1, <1>4, <1>5, <1>8 DEF DstBase, KeptByReq, RspSound, ReqSound
<1>10. DstResult(v, DstSendResponse(v))
  BY <1>7, <1>9, DstSendResponseSound, Zenon
<1> QED
  BY <1>2, <1>4, <1>5, <1>6, <1>8, <1>10 DEF DstResult, KeptByReq

\* Waiting for the response of the services.
LEMMA DstWaitResponsePrmSound ==
    ASSUME NEW t \in Transaction, DstBase(t)
    PROVE  DstResult(t, DstWaitResponsePrm(t))
<1>1. CASE t.transaction_stop_when = 0
  BY <1>1, DstFinishSound, Zenon DEF DstWaitResponsePrm
<1>2. CASE t.transaction_stop_when # 0 /\ t.msg_out_avail /\ (~t.start_ack_responder \/ t.out.ackrsp)
  BY <1>2, DstSendResponseBeginSound, Zenon DEF DstWaitResponsePrm
<1>3. CASE t.transaction_stop_when # 0 /\ ~(t.msg_out_avail /\ (~t.start_ack_responder \/ t.out.ackrsp))
  <2> DEFINE r == [t EXCEPT !.state = "WAIT_RESPONSE_PRM"]
  <2>1. r \in Transaction /\ SameButState(t, r) /\ r.state = "WAIT_RESPONSE_PRM"
    BY StateSound, States, Zenon
  <2>2. DstWaitResponsePrm(t) = r
    BY <1>3, Zenon DEF DstWaitResponsePrm
  <2> HIDE DEF r
  <2> QED
    BY <2>1, <2>2, DstStateSound, Zenon
<1> QED
  BY <1>1, <1>2, <1>3, Zenon

\* One call of dst_transaction_t::run on a transaction in a pool.
LEMMA DstRunSound ==
    ASSUME NEW t \in Transaction, DstSound(t)
    PROVE  DstResult(t, DstRun(t))
<1>1. CASE t.state = "WAIT_RESPONSE_PRM"
  BY <1>1, DstWaitResponsePrmSound, Zenon DEF DstRun, DstSound
<1>2. CASE t.state = "SEND_RESPONSE"
  BY <1>2, DstSendResponseSound, Zenon DEF DstRun, DstSound
<1>3. CASE t.state = "FAILURE"
  BY <1>3, DstFinishSound, Zenon DEF DstRun, DstSound
<1>4. CASE t.state = "SUCCESS"
  BY <1>4, DstFinishSound, Zenon DEF DstRun, DstSound
<1> QED
  BY <1>1, <1>2, <1>3, <1>4, Zenon DEF DstSound, DstBase

-----------------------------------------------------------------------------
(***************************************************************************)
(* The tick and the first run.                                             *)
(***************************************************************************)

\* The timer of the ack requestor of a response: another transmission, the
\* failure after the last one, or the verdict it came to before.
LEMMA DstTimerSound ==
    ASSUME NEW t \in Transaction, DstSound(t), t.ack_requestor_status = "ONGOING",
           Decrement(t.retransmission_when) = 0
    PROVE  LET s == [t EXCEPT !.retransmission_when = Decrement(@)]
           IN  DstResult(t, AckRequestor(s))
<1> DEFINE x == Decrement(t.retransmission_when)
           s == [t EXCEPT !.retransmission_when = x]
           r == AckRequestor(s)
<1>1. x = 0 /\ x \in 0 .. Wrapped /\ t.retransmission_when = 1 /\ 1 \notin {0, Wrapped}
  BY DecrementType, TimeAssumption DEF Transaction
<1> HIDE DEF x
<1>2. s \in Transaction /\ KeptByDec(t, s) /\ s.retransmission_when = x
  BY <1>1, SetRetransmissionSound, Zenon
<1> HIDE DEF s
<1>3. t.ack_req_state \in {"WAIT_ACK", "SUCCESS", "FAILURE"}
  BY <1>1, Zenon DEF DstSound, DstBase, ReqSound, Transaction, AckReqState
<1>4. s.in \in Message /\ s.out \in Message
  BY <1>2, <1>3, Zenon DEF DstSound, DstBase, KeptByDec
<1>5. ReqResult(s, r)
  <2>1. CASE t.ack_req_state = "WAIT_ACK"
    BY <1>1, <1>2, <1>4, <2>1, AckRequestorOnTimer, Zenon DEF KeptByDec
  <2>2. CASE t.ack_req_state = "SUCCESS"
    BY <1>2, <2>2, ReqEndSound, Zenon DEF KeptByDec, AckRequestor, ReqSuccess
  <2>3. CASE t.ack_req_state = "FAILURE"
    BY <1>2, <2>3, ReqEndSound, Zenon DEF KeptByDec, AckRequestor, ReqFailure
  <2> QED
    BY <1>3, <2>1, <2>2, <2>3, Zenon
<1> HIDE DEF r
<1>6. DstResult(t, r)
  BY <1>2, <1>3, <1>4, <1>5 DEF DstResult, DstSound, DstBase, ReqResult, KeptByReq, KeptByDec, RspSound
<1> QED
  BY <1>6, Zenon DEF r, s, x

\* One iteration of dec on a destination transaction.
LEMMA DstDecSound ==
    ASSUME NEW t \in Transaction, DstSound(t)
    PROVE  DstResult(t, DstDec(t))
<1> DEFINE x == Decrement(t.transaction_stop_when)
           s == [t EXCEPT !.transaction_stop_when = x]
           u == IF s.transaction_stop_when = 0 THEN DstRun(s) ELSE s
           y == Decrement(u.retransmission_when)
           w == [u EXCEPT !.retransmission_when = y]
<1>1. DstDec(t) = IF u.ack_requestor_status # "ONGOING" THEN u
                  ELSE IF w.retransmission_when = 0 THEN DstRun(AckRequestor(w)) ELSE w
  BY Zenon DEF DstDec, DecStop, DecRetransmission
<1>2. x \in 0 .. Wrapped
  BY DecrementType, Zenon DEF Transaction
<1> HIDE DEF x
<1>3. s \in Transaction /\ KeptByDec(t, s) /\ s.retransmission_when = t.retransmission_when
  BY <1>2, SetStopSound, Zenon
<1> HIDE DEF s
<1>4. DstResult(t, s)
  BY <1>3, Zenon DEF DstResult, DstSound, DstBase, KeptByDec, RspSound, ReqSound
<1>5. DstResult(t, u)
  <2>1. DstResult(s, DstRun(s))
    BY <1>4, DstRunSound, Zenon DEF DstResult
  <2> QED
    BY <1>4, <2>1, Zenon DEF DstResult
<1> HIDE DEF u
<1>6. CASE u.ack_requestor_status # "ONGOING"
  BY <1>1, <1>5, <1>6, Zenon
<1>7. u.retransmission_when \in 0 .. Wrapped
  BY <1>5, Zenon DEF DstResult, Transaction
<1>8. y \in 0 .. Wrapped
  BY <1>7, DecrementType, Zenon
<1>9. CASE u.ack_requestor_status = "ONGOING" /\ y = 0
  <2>1. DstResult(u, AckRequestor(w))
    BY <1>5, <1>9, DstTimerSound, Zenon DEF DstResult
  <2>2. DstResult(AckRequestor(w), DstRun(AckRequestor(w)))
    BY <2>1, DstRunSound, Zenon DEF DstResult
  <2>3. w.retransmission_when = 0
    BY <1>5, <1>8, <1>9, SetRetransmissionSound, Zenon DEF DstResult
  <2> HIDE DEF w
  <2> QED
    BY <1>1, <1>5, <1>9, <2>1, <2>2, <2>3, Zenon DEF DstResult
<1>10. CASE u.ack_requestor_status = "ONGOING" /\ y # 0
  <2>1. w \in Transaction /\ KeptByDec(u, w) /\ w.retransmission_when = y
    BY <1>5, <1>8, SetRetransmissionSound, Zenon DEF DstResult
  <2>2. u.retransmission_when \in {0, Wrapped} => y \in {0, Wrapped}
    BY <1>7, DecrementType, Zenon
  <2> HIDE DEF w, y
  <2>3. DstSound(w)
    BY <1>5, <1>10, <2>1, <2>2, Zenon DEF DstResult, DstSound, DstBase, KeptByDec, RspSound, ReqSound
  <2> QED
    BY <1>1, <1>5, <1>10, <2>1, <2>3, Zenon DEF DstResult, KeptByDec
<1> QED
  BY <1>6, <1>9, <1>10, Zenon

\* A transaction new_dst_transaction puts in the pool is sound, and hands over
\* its message only.
LEMMA NewDstTransactionSound ==
    ASSUME NEW m \in Message, NEW me, NEW reply \in MaybeMessage
    PROVE  LET r == NewDstTransaction(m, me, reply)
           IN  /\ r \in Transaction /\ Clean(r) /\ r.handed \subseteq {m}
               /\ r.transaction_status = "ONGOING" => DstSound(r)
<1> DEFINE b == m.destination = Multicast
           c == m.ackreq /\ m.destination # Multicast
           f == reply # NoMsg
           t == [NewTransaction EXCEPT
                   !.in = m, !.opcode = m.opcode, !.tid = m.tid,
                   !.transaction_stop_when = StopWhen, !.is_multicast = b,
                   !.peer = m.source, !.me = m.destination, !.start_ack_responder = c]
           h == ProcessMessage(t, me)
           u == [h EXCEPT !.out = reply, !.msg_out_avail = f]
           p == StartedAckResponder(u)
           r == NewDstTransaction(m, me, reply)
<1>1. /\ m.opcode \in Opcode /\ m.tid \in Tid /\ m.destination \in Id
      /\ m.source \in Id /\ m \in MaybeMessage
  BY Zenon DEF Message, Id, MaybeMessage
<1>2. b \in BOOLEAN /\ c \in BOOLEAN /\ f \in BOOLEAN /\ (f => reply \in Message)
      /\ (c => m.destination \in Node)
  BY <1>1, Zenon DEF MaybeMessage, Id
<1>3. StopWhen \in 0 .. Wrapped
  BY TimeAssumption
<1>4. r = IF m.opcode = "request" THEN DstWaitResponsePrm(p) ELSE Finish(p, "SUCCESS")
  BY Zenon DEF NewDstTransaction
<1> HIDE DEF b, c, f, r
<1>5. t \in Transaction
  BY <1>1, <1>2, <1>3, NewTransactionType, ZenonT(60) DEF Transaction
<1>6. /\ t.in = m /\ t.me = m.destination /\ t.start_ack_responder = c
      /\ t.sent = {} /\ t.handed = {} /\ t.start_ack_requestor = FALSE
      /\ t.ack_req_state = "INIT" /\ t.ack_rsp_state = "INIT" /\ t.retransmission_when = 0
  BY Zenon DEF NewTransaction
<1> HIDE DEF t
<1>7. h \in Transaction /\ KeptByProcess(t, h) /\ h.handed \subseteq {m}
  BY <1>5, <1>6, ProcessMessageSound, Zenon
<1> HIDE DEF h
<1>8. u \in Transaction
  BY <1>2, <1>7, ZenonT(30) DEF Transaction
<1>9. /\ u.in = h.in /\ u.me = h.me /\ u.out = reply /\ u.msg_out_avail = f
      /\ u.start_ack_responder = h.start_ack_responder
      /\ u.sent = h.sent /\ u.handed = h.handed /\ u.start_ack_requestor = h.start_ack_requestor
      /\ u.ack_req_state = h.ack_req_state /\ u.ack_rsp_state = h.ack_rsp_state
      /\ u.retransmission_when = h.retransmission_when
  BY <1>7, Zenon DEF Transaction
<1> HIDE DEF u
<1>10. /\ u.in = m /\ u.msg_out_avail = f /\ u.sent = {} /\ u.handed \subseteq {m}
       /\ u.start_ack_responder = c /\ u.me = m.destination /\ u.start_ack_requestor = FALSE
       /\ u.ack_req_state = "INIT" /\ u.ack_rsp_state = "INIT" /\ u.retransmission_when = 0
       /\ u.msg_out_avail => u.out \in Message
  BY <1>2, <1>6, <1>7, <1>9, Zenon DEF KeptByProcess
<1>11. /\ p \in Transaction /\ KeptByRsp(u, p) /\ RspSound(p)
       /\ u.out \in Message => p.out \in Message
       /\ p.sent \subseteq Message
  <2>1. CASE u.start_ack_responder
    <3>1. RspResult(u, AckResponder(u))
      BY <1>2, <1>8, <1>10, <2>1, AckResponderSound, Zenon DEF RspSound
    <3> QED
      BY <1>10, <2>1, <3>1, Zenon DEF RspResult, StartedAckResponder
  <2>2. CASE ~u.start_ack_responder
    BY <1>8, <1>10, <2>2, Zenon DEF StartedAckResponder, KeptByRsp, RspSound
  <2> QED
    BY <2>1, <2>2, Zenon
<1> HIDE DEF p
\* The fields DstSound reads, whatever the state.
<1>12. ASSUME NEW z \in Transaction, SameButState(p, z),
              z.state \in {"WAIT_RESPONSE_PRM", "SEND_RESPONSE", "FAILURE", "SUCCESS"}
       PROVE  DstSound(z) /\ Clean(z) /\ z.handed \subseteq {m}
  <2>1. DstSound(z)
    BY <1>2, <1>10, <1>11, <1>12 DEF DstSound, DstBase, SameButState, KeptByRsp, RspSound, ReqSound
  <2>2. Clean(z) /\ z.handed \subseteq {m}
    BY <1>10, <1>11, <1>12, Zenon DEF Clean, SameButState, KeptByRsp
  <2> QED
    BY <2>1, <2>2, Zenon
<1>13. CASE m.opcode # "request"
  <2> DEFINE z == Finish(p, "SUCCESS")
  <2>1. z \in Transaction /\ SameButState(p, z) /\ z.state = "SUCCESS"
    BY <1>11, FinishSound, Zenon
  <2>2. r = z
    BY <1>4, <1>13, Zenon
  <2> HIDE DEF z
  <2> QED
    BY <1>12, <2>1, <2>2, Zenon DEF r
<1>14. CASE m.opcode = "request"
  <2>1. DstBase(p) /\ Clean(p) /\ p.handed \subseteq {m}
    BY <1>2, <1>10, <1>11, Zenon DEF DstBase, KeptByRsp, ReqSound, Clean
  <2>2. DstResult(p, DstWaitResponsePrm(p))
    BY <1>11, <2>1, DstWaitResponsePrmSound, Zenon
  <2> QED
    BY <1>4, <1>14, <2>1, <2>2, Zenon DEF r, DstResult, Clean
<1> QED
  BY <1>13, <1>14, Zenon

-----------------------------------------------------------------------------
(***************************************************************************)
(* A handler that finds a source transaction.                              *)
(***************************************************************************)

\* The acknowledgement machines, called one after the other.
LEMMA SrcStarted ==
    ASSUME NEW u \in Transaction, SrcBase(u), TimeSound(u)
    PROVE  LET s == StartedAckResponder(StartedAckRequestor(u))
           IN  /\ s \in Transaction /\ SrcBase(s) /\ TimeSound(s)
               /\ s.tid = u.tid /\ s.peer = u.peer
               /\ SrcClean(u) => SrcClean(s)
               /\ u.start_ack_requestor /\ u.msg_in_avail /\ u.in.ackrsp
                      => s.ack_requestor_status # "ONGOING"
<1> DEFINE q == StartedAckRequestor(u)
           s == StartedAckResponder(q)
<1>1. /\ q \in Transaction /\ KeptByReq(u, q) /\ ReqSound(q) /\ ReqDecided(q) /\ q.sent = u.sent
      /\ q.retransmission_when = u.retransmission_when /\ q.rtxctr = u.rtxctr
      /\ u.ack_req_state # "INIT" <=> q.ack_req_state # "INIT"
      /\ q.ack_req_state = "WAIT_ACK" => u.ack_req_state = "WAIT_ACK"
      /\ u.start_ack_requestor /\ u.msg_in_avail /\ u.in.ackrsp => q.ack_requestor_status # "ONGOING"
  <2>1. CASE u.start_ack_requestor
    <3> DEFINE r == AckRequestor(u)
    <3>1. /\ ReqResult(u, r) /\ r.sent = u.sent
          /\ r.retransmission_when = u.retransmission_when /\ r.rtxctr = u.rtxctr
          /\ u.msg_in_avail /\ u.in.ackrsp => r.ack_requestor_status # "ONGOING"
          /\ r.ack_req_state = "WAIT_ACK" => u.ack_req_state = "WAIT_ACK"
      BY <2>1, AckRequestorOnMessage, Zenon DEF SrcBase
    <3>2. q = r
      BY <2>1, Zenon DEF StartedAckRequestor
    <3> HIDE DEF q, r
    <3> QED
      BY <2>1, <3>1, <3>2, Zenon DEF ReqResult, SrcBase
  <2>2. CASE ~u.start_ack_requestor
    BY <2>2, Zenon DEF StartedAckRequestor, KeptByReq, SrcBase
  <2> QED
    BY <2>1, <2>2, Zenon
<1> HIDE DEF q
<1>2. SrcBase(q)
  BY <1>1 DEF SrcBase, KeptByReq, RspSound
<1>3. /\ s \in Transaction /\ KeptByRsp(q, s) /\ RspSound(s) /\ s.out \in Message
      /\ s.msg_in_avail => q.msg_in_avail
      /\ q.sent \subseteq Message => s.sent \subseteq Message
  <2>1. CASE q.start_ack_responder
    <3>1. RspResult(q, AckResponder(q))
      BY <1>1, <1>2, <2>1, AckResponderSound, Zenon DEF SrcBase
    <3> QED
      BY <1>2, <2>1, <3>1, Zenon DEF RspResult, StartedAckResponder, SrcBase
  <2>2. CASE ~q.start_ack_responder
    BY <1>1, <1>2, <2>2, Zenon DEF StartedAckResponder, KeptByRsp, SrcBase
  <2> QED
    BY <2>1, <2>2, Zenon
<1> HIDE DEF s
<1>4. SrcBase(s)
  BY <1>2, <1>3 DEF SrcBase, KeptByRsp, ReqSound, ReqDecided
<1>5. TimeSound(s)
  BY <1>1, <1>3 DEF TimeSound, KeptByRsp, KeptByReq
<1>6. SrcClean(u) => SrcClean(s)
  BY <1>1, <1>3, Zenon DEF SrcClean, KeptByRsp, KeptByReq
<1> QED
  BY <1>1, <1>3, <1>4, <1>5, <1>6, Zenon DEF s, q, KeptByRsp, KeptByReq

\* The state machine, if the transaction goes on.
LEMMA SrcStep ==
    ASSUME NEW s \in Transaction, SrcBase(s), TimeSound(s), NEW me
    PROVE  LET r == SrcRun(s, me)
           IN  /\ r \in Transaction /\ SrcSound(r) /\ (SrcClean(s) => SrcClean(r))
               /\ r.tid = s.tid /\ r.peer = s.peer
<1> DEFINE r == SrcRun(s, me)
<1>1. SrcResult(s, r)
  BY SrcRunSound, Zenon
<1> HIDE DEF r
<1>2. TimeSound(r)
  BY <1>1, Zenon DEF SrcResult, TimeSound
<1>3. /\ r \in Transaction /\ SrcSound(r) /\ (SrcClean(s) => SrcClean(r))
      /\ r.tid = s.tid /\ r.peer = s.peer
  BY <1>1, <1>2, Zenon DEF SrcResult, SrcSound
<1> QED
  BY <1>3, Zenon DEF r

\* A transaction that is over has nothing to process.
LEMMA SrcOver ==
    ASSUME NEW s, SrcBase(s), TimeSound(s), s.transaction_status # "ONGOING"
    PROVE  SrcSound(s)
  BY Zenon DEF SrcSound, SrcBase, NothingToProcess

\* message_out on a source transaction.
LEMMA SrcOutSound ==
    ASSUME NEW t \in Transaction, SrcSound(t), t.sent = {}, t.handed = {}, NEW m \in Message, NEW me
    PROVE  LET s == StartedAckResponder(StartedAckRequestor(
                        [t EXCEPT !.out = m, !.msg_out_avail = TRUE]))
               r == IF s.transaction_status = "ONGOING" THEN SrcRun(s, me) ELSE s
           IN  r \in Transaction /\ SrcSound(r) /\ SrcClean(r) /\ r.tid = t.tid /\ r.peer = t.peer
<1> DEFINE u == [t EXCEPT !.out = m, !.msg_out_avail = TRUE]
           s == StartedAckResponder(StartedAckRequestor(u))
           r == IF s.transaction_status = "ONGOING" THEN SrcRun(s, me) ELSE s
<1> SUFFICES r \in Transaction /\ SrcSound(r) /\ SrcClean(r) /\ r.tid = t.tid /\ r.peer = t.peer
  BY Zenon
<1>1. m \in MaybeMessage
  BY Zenon DEF MaybeMessage
<1>2. u \in Transaction
  BY <1>1, ZenonT(30) DEF Transaction
<1>4. /\ u.state = t.state /\ u.tid = t.tid /\ u.me = t.me /\ u.peer = t.peer
      /\ u.in = t.in /\ u.msg_in_avail = t.msg_in_avail /\ u.out = m
      /\ u.sent = t.sent /\ u.handed = t.handed
      /\ u.transaction_status = t.transaction_status
      /\ u.ack_requestor_status = t.ack_requestor_status /\ u.ack_req_state = t.ack_req_state
      /\ u.start_ack_requestor = t.start_ack_requestor
      /\ u.start_ack_responder = t.start_ack_responder
      /\ u.ack_rsp_state = t.ack_rsp_state /\ u.dup = t.dup /\ u.ack = t.ack
      /\ u.transaction_stop_when = t.transaction_stop_when
      /\ u.retransmission_when = t.retransmission_when /\ u.rtxctr = t.rtxctr
  BY Zenon DEF Transaction
<1> HIDE DEF u
<1>5. SrcBase(u) /\ TimeSound(u) /\ SrcClean(u)
  BY <1>4 DEF SrcSound, SrcBase, TimeSound, RspSound, ReqSound, ReqDecided, SrcClean
<1>6. /\ s \in Transaction /\ SrcBase(s) /\ TimeSound(s)
      /\ s.tid = u.tid /\ s.peer = u.peer /\ SrcClean(s)
  BY <1>2, <1>5, SrcStarted, Zenon
<1> HIDE DEF s
<1>7. CASE s.transaction_status = "ONGOING"
  BY <1>4, <1>6, <1>7, SrcStep, Zenon
<1>8. CASE s.transaction_status # "ONGOING"
  BY <1>4, <1>6, <1>8, SrcOver, Zenon
<1> QED
  BY <1>7, <1>8, Zenon

\* message_in on a source transaction, which is never one of a multicast
\* message: a peer's message comes from the identifier of a MIHF.
LEMMA SrcInSound ==
    ASSUME NEW t \in Transaction, SrcSound(t), t.sent = {}, t.handed = {}, t.peer # Multicast,
           NEW m \in Message, Awaited(m), NEW me
    PROVE  LET r == InToSrc(t, m, me)
           IN  r \in Transaction /\ SrcSound(r) /\ SrcClean(r) /\ r.tid = t.tid /\ r.peer = t.peer
<1> DEFINE u == [t EXCEPT !.in = m, !.msg_in_avail = TRUE]
           s == StartedAckResponder(StartedAckRequestor(u))
           r == InToSrc(t, m, me)
<1> SUFFICES r \in Transaction /\ SrcSound(r) /\ SrcClean(r) /\ r.tid = t.tid /\ r.peer = t.peer
  BY Zenon
<1>1. m \in MaybeMessage
  BY Zenon DEF MaybeMessage
<1>2. u \in Transaction
  BY <1>1, ZenonT(30) DEF Transaction
<1>3. r = IF s.transaction_status = "ONGOING" /\ ~(m.ackrsp /\ m.opcode = "request")
          THEN SrcRun(s, me) ELSE s
  BY Zenon DEF InToSrc
<1> HIDE DEF r
<1>4. /\ u.state = t.state /\ u.tid = t.tid /\ u.me = t.me /\ u.peer = t.peer
      /\ u.in = m /\ u.msg_in_avail = TRUE /\ u.out = t.out
      /\ u.sent = t.sent /\ u.handed = t.handed
      /\ u.transaction_status = t.transaction_status
      /\ u.ack_requestor_status = t.ack_requestor_status /\ u.ack_req_state = t.ack_req_state
      /\ u.start_ack_requestor = t.start_ack_requestor
      /\ u.start_ack_responder = t.start_ack_responder
      /\ u.ack_rsp_state = t.ack_rsp_state /\ u.dup = t.dup /\ u.ack = t.ack
      /\ u.transaction_stop_when = t.transaction_stop_when
      /\ u.retransmission_when = t.retransmission_when /\ u.rtxctr = t.rtxctr
  BY Zenon DEF Transaction
<1> HIDE DEF u
<1>5. SrcBase(u) /\ TimeSound(u) /\ SrcClean(u) /\ u.start_ack_requestor
  BY <1>4 DEF SrcSound, SrcBase, TimeSound, RspSound, ReqSound, ReqDecided, SrcClean
<1>6. /\ s \in Transaction /\ SrcBase(s) /\ TimeSound(s)
      /\ s.tid = u.tid /\ s.peer = u.peer /\ SrcClean(s)
      /\ m.ackrsp => s.ack_requestor_status # "ONGOING"
  BY <1>2, <1>4, <1>5, SrcStarted, Zenon
<1> HIDE DEF s
<1>7. CASE s.transaction_status = "ONGOING" /\ ~(m.ackrsp /\ m.opcode = "request")
  BY <1>3, <1>4, <1>6, <1>7, SrcStep, Zenon
<1>8. CASE s.transaction_status = "ONGOING" /\ m.ackrsp /\ m.opcode = "request"
  BY <1>3, <1>4, <1>6, <1>8 DEF SrcSound, NothingToProcess
<1>9. CASE s.transaction_status # "ONGOING"
  BY <1>3, <1>4, <1>6, <1>9, SrcOver, Zenon
<1> QED
  BY <1>7, <1>8, <1>9, Zenon

-----------------------------------------------------------------------------
(***************************************************************************)
(* A handler that finds a destination transaction.                         *)
(***************************************************************************)

\* The acknowledgement machines, each by itself.
LEMMA DstStarted ==
    ASSUME NEW u \in Transaction, DstSound(u)
    PROVE  DstResult(u, StartedAckRequestor(u)) /\ DstResult(u, StartedAckResponder(u))
<1>1. DstResult(u, u)
  BY Zenon DEF DstResult
<1>2. ASSUME u.start_ack_requestor
      PROVE  DstResult(u, StartedAckRequestor(u))
  <2> DEFINE r == AckRequestor(u)
  <2>1. ReqResult(u, r) /\ r.sent = u.sent
    BY AckRequestorSound, Zenon DEF DstSound, DstBase
  <2> HIDE DEF r
  <2>2. DstResult(u, r)
    BY <1>2, <2>1, Zenon DEF DstResult, ReqResult, KeptByReq, DstSound, DstBase, RspSound
  <2> QED
    BY <1>2, <2>2, Zenon DEF r, StartedAckRequestor
<1>3. ASSUME u.start_ack_responder
      PROVE  DstResult(u, StartedAckResponder(u))
  <2> DEFINE r == AckResponder(u)
  <2>1. RspResult(u, r)
    BY <1>3, AckResponderSound, Zenon DEF DstSound, DstBase
  <2> HIDE DEF r
  <2>2. DstResult(u, r)
    BY <2>1, Zenon DEF DstResult, RspResult, KeptByRsp, DstSound, DstBase, ReqSound
  <2> QED
    BY <1>3, <2>2, Zenon DEF r, StartedAckResponder
<1>4. ~u.start_ack_requestor => StartedAckRequestor(u) = u
  BY Zenon DEF StartedAckRequestor
<1>5. ~u.start_ack_responder => StartedAckResponder(u) = u
  BY Zenon DEF StartedAckResponder
<1> QED
  BY <1>1, <1>2, <1>3, <1>4, <1>5, Zenon

\* message_out on a destination transaction.
LEMMA DstOutSound ==
    ASSUME NEW t \in Transaction, DstSound(t), t.sent = {}, t.handed = {}, NEW m \in Message
    PROVE  LET s == StartedAckResponder(StartedAckRequestor(
                        [t EXCEPT !.out = m, !.msg_out_avail = TRUE]))
               r == IF s.transaction_status = "ONGOING" THEN DstRun(s) ELSE s
           IN  r \in Transaction /\ DstSound(r) /\ Clean(r) /\ r.handed = {} /\ r.tid = t.tid /\ r.peer = t.peer
<1> DEFINE u == [t EXCEPT !.out = m, !.msg_out_avail = TRUE]
           q == StartedAckRequestor(u)
           s == StartedAckResponder(q)
           r == IF s.transaction_status = "ONGOING" THEN DstRun(s) ELSE s
<1> SUFFICES r \in Transaction /\ DstSound(r) /\ Clean(r) /\ r.handed = {} /\ r.tid = t.tid /\ r.peer = t.peer
  BY Zenon
<1>1. m \in MaybeMessage
  BY Zenon DEF MaybeMessage
<1>2. u \in Transaction
  BY <1>1, ZenonT(30) DEF Transaction
<1>3. /\ u.state = t.state /\ u.tid = t.tid /\ u.me = t.me /\ u.peer = t.peer
      /\ u.in = t.in /\ u.out = m /\ u.sent = t.sent /\ u.handed = t.handed
      /\ u.ack_requestor_status = t.ack_requestor_status /\ u.ack_req_state = t.ack_req_state
      /\ u.start_ack_requestor = t.start_ack_requestor
      /\ u.start_ack_responder = t.start_ack_responder
      /\ u.ack_rsp_state = t.ack_rsp_state /\ u.dup = t.dup /\ u.ack = t.ack
      /\ u.retransmission_when = t.retransmission_when
  BY Zenon DEF Transaction
<1> HIDE DEF u
<1>4. DstSound(u)
  BY <1>3, Zenon DEF DstSound, DstBase, RspSound, ReqSound
<1>5. DstResult(u, q)
  BY <1>2, <1>4, DstStarted, Zenon
<1> HIDE DEF q
<1>6. DstResult(q, s)
  BY <1>5, DstStarted, Zenon DEF DstResult
<1> HIDE DEF s
<1>7. DstResult(s, r)
  <2>1. DstResult(s, DstRun(s)) /\ DstResult(s, s)
    BY <1>6, DstRunSound, Zenon DEF DstResult
  <2> QED
    BY <2>1, Zenon
<1> HIDE DEF r
<1> QED
  BY <1>3, <1>5, <1>6, <1>7, Zenon DEF DstResult, Clean

\* message_in on a destination transaction: no handler is called.
LEMMA DstInSound ==
    ASSUME NEW t \in Transaction, DstSound(t), t.sent = {}, t.handed = {}, NEW m \in Message
    PROVE  LET r == InToDst(t, m)
           IN  r \in Transaction /\ DstSound(r) /\ Clean(r) /\ r.handed = {} /\ r.tid = t.tid /\ r.peer = t.peer
<1> DEFINE u == [t EXCEPT !.in = m, !.msg_in_avail = TRUE]
           s == StartedAckRequestor(u)
           q == IF s.transaction_status = "ONGOING" THEN DstRun(s) ELSE s
           r == InToDst(t, m)
<1> SUFFICES r \in Transaction /\ DstSound(r) /\ Clean(r) /\ r.handed = {} /\ r.tid = t.tid /\ r.peer = t.peer
  BY Zenon
<1>1. m \in MaybeMessage
  BY Zenon DEF MaybeMessage
<1>2. u \in Transaction
  BY <1>1, ZenonT(30) DEF Transaction
<1>3. r = IF q.transaction_status = "ONGOING" THEN StartedAckResponder(q) ELSE q
  BY Zenon DEF InToDst
<1>4. /\ u.state = t.state /\ u.tid = t.tid /\ u.me = t.me /\ u.peer = t.peer
      /\ u.in = m /\ u.out = t.out /\ u.msg_out_avail = t.msg_out_avail
      /\ u.sent = t.sent /\ u.handed = t.handed
      /\ u.ack_requestor_status = t.ack_requestor_status /\ u.ack_req_state = t.ack_req_state
      /\ u.start_ack_requestor = t.start_ack_requestor
      /\ u.start_ack_responder = t.start_ack_responder
      /\ u.ack_rsp_state = t.ack_rsp_state /\ u.dup = t.dup /\ u.ack = t.ack
      /\ u.retransmission_when = t.retransmission_when
  BY Zenon DEF Transaction
<1> HIDE DEF u, r
<1>5. DstSound(u)
  BY <1>4, Zenon DEF DstSound, DstBase, RspSound, ReqSound
<1>6. DstResult(u, s)
  BY <1>2, <1>5, DstStarted, Zenon
<1> HIDE DEF s
<1>7. DstResult(s, q)
  <2>1. DstResult(s, DstRun(s)) /\ DstResult(s, s)
    BY <1>6, DstRunSound, Zenon DEF DstResult
  <2> QED
    BY <2>1, Zenon
<1> HIDE DEF q
<1>8. DstResult(q, r)
  <2>1. DstResult(q, StartedAckResponder(q)) /\ DstResult(q, q)
    BY <1>7, DstStarted, Zenon DEF DstResult
  <2> QED
    BY <1>3, <2>1, Zenon
<1> QED
  BY <1>4, <1>6, <1>7, <1>8, Zenon DEF DstResult, Clean

-----------------------------------------------------------------------------
(***************************************************************************)
(* The pools.                                                              *)
(***************************************************************************)

\* A transaction of the pool that side names.
Sound(side, t) == IF side = "src" THEN SrcSound(t) ELSE DstSound(t)

InPool(side, k, t) ==
    t \in Transaction /\ KeyOf(t) = k /\ t.sent = {} /\ t.handed = {} /\ Sound(side, t)

GoodPool(side, pool) == IsPool(pool) /\ \A k \in DOMAIN pool : InPool(side, k, pool[k])

\* A transaction is stored without what it sent and handed over.
LEMMA StoredSound ==
    ASSUME NEW side, NEW t \in Transaction, Sound(side, t)
    PROVE  InPool(side, KeyOf(t), Stored(t))
<1> DEFINE s == [t EXCEPT !.sent = {}, !.handed = {}]
<1>1. {} \in SUBSET MaybeMessage
  BY Zenon
<1>2. s \in Transaction
  BY <1>1, ZenonT(30) DEF Transaction
<1>3. /\ s.state = t.state /\ s.tid = t.tid /\ s.me = t.me /\ s.peer = t.peer
      /\ s.in = t.in /\ s.msg_in_avail = t.msg_in_avail
      /\ s.out = t.out /\ s.msg_out_avail = t.msg_out_avail
      /\ s.sent = {} /\ s.handed = {}
      /\ s.transaction_status = t.transaction_status
      /\ s.ack_requestor_status = t.ack_requestor_status /\ s.ack_req_state = t.ack_req_state
      /\ s.start_ack_requestor = t.start_ack_requestor
      /\ s.start_ack_responder = t.start_ack_responder
      /\ s.ack_rsp_state = t.ack_rsp_state /\ s.dup = t.dup /\ s.ack = t.ack
      /\ s.transaction_stop_when = t.transaction_stop_when
      /\ s.retransmission_when = t.retransmission_when /\ s.rtxctr = t.rtxctr
  BY Zenon DEF Transaction
<1>4. Stored(t) = s
  BY Zenon DEF Stored
<1> HIDE DEF s
<1>5. InPool(side, KeyOf(t), s)
  BY <1>2, <1>3 DEF InPool, KeyOf, Sound, SrcSound, SrcBase, DstSound, DstBase, RspSound, ReqSound,
     ReqDecided, TimeSound, NothingToProcess
<1> QED
  BY <1>4, <1>5, Zenon

\* The keys that are older do not matter to it.
LEMMA OlderSound ==
    ASSUME NEW side, NEW k, NEW t, InPool(side, k, t), NEW K \in SUBSET Key
    PROVE  InPool(side, k, [t EXCEPT !.older = K])
<1> DEFINE s == [t EXCEPT !.older = K]
<1>1. t \in Transaction /\ t.sent = {} /\ t.handed = {} /\ Sound(side, t) /\ KeyOf(t) = k
  BY Zenon DEF InPool
<1>2. s \in Transaction
  BY <1>1, ZenonT(30) DEF Transaction
<1>3. /\ s.state = t.state /\ s.tid = t.tid /\ s.me = t.me /\ s.peer = t.peer
      /\ s.in = t.in /\ s.msg_in_avail = t.msg_in_avail
      /\ s.out = t.out /\ s.msg_out_avail = t.msg_out_avail
      /\ s.sent = {} /\ s.handed = {}
      /\ s.transaction_status = t.transaction_status
      /\ s.ack_requestor_status = t.ack_requestor_status /\ s.ack_req_state = t.ack_req_state
      /\ s.start_ack_requestor = t.start_ack_requestor
      /\ s.start_ack_responder = t.start_ack_responder
      /\ s.ack_rsp_state = t.ack_rsp_state /\ s.dup = t.dup /\ s.ack = t.ack
      /\ s.transaction_stop_when = t.transaction_stop_when
      /\ s.retransmission_when = t.retransmission_when /\ s.rtxctr = t.rtxctr
  BY <1>1, Zenon DEF Transaction
<1> HIDE DEF s
<1>4. InPool(side, k, s)
  BY <1>1, <1>2, <1>3 DEF InPool, KeyOf, Sound, SrcSound, SrcBase, DstSound, DstBase, RspSound,
     ReqSound, ReqDecided, TimeSound, NothingToProcess
<1> QED
  BY <1>4, Zenon DEF s

\* The key of a transaction is a key.
LEMMA KeyOfType ==
    ASSUME NEW t \in Transaction
    PROVE  KeyOf(t) \in Key
  BY Zenon DEF KeyOf, Key, Transaction

\* add
LEMMA InsertSound ==
    ASSUME NEW side, NEW pool, GoodPool(side, pool), NEW t \in Transaction, Sound(side, t)
    PROVE  GoodPool(side, Insert(pool, t))
<1> DEFINE D == DOMAIN pool
           e == [Stored(t) EXCEPT !.older = D]
           q == [k \in D \cup {KeyOf(t)} |-> IF k \in D THEN pool[k] ELSE e]
<1>1. InPool(side, KeyOf(t), e)
  BY StoredSound, OlderSound, Zenon DEF GoodPool, IsPool
<1>2. \A k \in D : InPool(side, k, pool[k])
  BY Zenon DEF GoodPool
<1>3. D \cup {KeyOf(t)} \subseteq Key
  BY KeyOfType, Zenon DEF GoodPool, IsPool
<1>4. Insert(pool, t) = q
  BY Zenon DEF Insert
<1> HIDE DEF D, e
<1>5. DOMAIN q = D \cup {KeyOf(t)} /\ \A k \in DOMAIN q : InPool(side, k, q[k])
  BY <1>1, <1>2, Zenon
<1>6. q \in [DOMAIN q -> Transaction]
  BY <1>5, Zenon DEF InPool
<1> QED
  BY <1>3, <1>4, <1>5, <1>6, Zenon DEF GoodPool, IsPool

\* The entry of a transaction after a handler.
LEMMA UpdateSound ==
    ASSUME NEW side, NEW pool, GoodPool(side, pool), NEW k \in DOMAIN pool,
           NEW t \in Transaction, Sound(side, t), KeyOf(t) = k
    PROVE  GoodPool(side, Update(pool, k, t)) /\ DOMAIN Update(pool, k, t) = DOMAIN pool
<1> DEFINE q == [pool EXCEPT ![k] = Stored(t)]
<1>1. InPool(side, k, Stored(t))
  BY StoredSound, Zenon
<1>2. DOMAIN q = DOMAIN pool /\ \A j \in DOMAIN q : InPool(side, j, q[j])
  BY <1>1, Zenon DEF GoodPool, IsPool
<1>3. q \in [DOMAIN q -> Transaction]
  BY <1>1, <1>2, Zenon DEF InPool, GoodPool, IsPool
<1> QED
  BY <1>2, <1>3, Zenon DEF Update, GoodPool, IsPool

\* del
LEMMA EraseSound ==
    ASSUME NEW side, NEW pool, GoodPool(side, pool), NEW del, NEW q \in Erase(pool, del)
    PROVE  GoodPool(side, q)
<1>1. PICK K \in SUBSET DOMAIN pool : q = Keep(pool, K)
  BY Zenon DEF Erase
<1>2. q = [k \in K |-> [pool[k] EXCEPT !.older = pool[k].older \cap K]]
  BY <1>1, Zenon DEF Keep
<1>3. ASSUME NEW k \in K
      PROVE  InPool(side, k, q[k])
  <2>1. InPool(side, k, pool[k])
    BY <1>1, Zenon DEF GoodPool
  <2>2. pool[k].older \cap K \in SUBSET Key
    BY <2>1, Zenon DEF InPool, Transaction
  <2> QED
    BY <1>2, <2>1, <2>2, OlderSound, Zenon
<1>4. DOMAIN q = K /\ K \subseteq Key
  BY <1>1, <1>2, Zenon DEF GoodPool, IsPool
<1>5. q \in [DOMAIN q -> Transaction]
  BY <1>2, <1>3, <1>4, Zenon DEF InPool
<1> QED
  BY <1>3, <1>4, <1>5, Zenon DEF GoodPool, IsPool

\* message_in and message_out store the transaction and erase it when it is over:
\* the pool stays good.
LEMMA EraseIfDoneSound ==
    ASSUME NEW side, NEW pool, GoodPool(side, pool), NEW k \in DOMAIN pool,
           NEW t \in Transaction, Sound(side, t), KeyOf(t) = k,
           NEW q \in EraseIfDone(pool, k, t)
    PROVE  GoodPool(side, q)
<1>1. GoodPool(side, Update(pool, k, t))
  BY UpdateSound, Zenon
<1> QED
  BY <1>1, EraseSound, Zenon DEF EraseIfDone

\* A new transaction enters the pool only while it is ongoing: the pool stays
\* good.
LEMMA AddIfOngoingSound ==
    ASSUME NEW side, NEW pool, GoodPool(side, pool), NEW t \in Transaction,
           t.transaction_status = "ONGOING" => Sound(side, t)
    PROVE  GoodPool(side, AddIfOngoing(pool, t))
  BY InsertSound, Zenon DEF AddIfOngoing

-----------------------------------------------------------------------------
(***************************************************************************)
(* The other variables.                                                    *)
(***************************************************************************)

\* What a transaction sends goes to MIHFs.
LEMMA TransmittedType ==
    ASSUME NEW t, t.sent \subseteq Message
    PROVE  Transmitted(t) \subseteq Packet
<1>1. \A m \in Message : Packets(m) \subseteq Packet
  BY Zenon DEF Packets, Packet, Message, Id
<1> QED
  BY <1>1, Zenon DEF Transmitted

\* The services get messages.
LEMMA HandOverType ==
    ASSUME TypeOK, NEW n \in Node, NEW ms \in SUBSET Message, NEW answered,
           HandOver(n, ms, answered)
    PROVE  /\ todo' \in [Node -> SUBSET Message]
           /\ handled' \in [Node -> SUBSET Message]
           /\ repeated' \in [Node -> SUBSET Message]
  BY Zenon DEF TypeOK, HandOver

\* A verdict is the status of a transaction.
LEMMA JudgeType ==
    ASSUME TypeOK, NEW n, NEW ts \in SUBSET Transaction, Judge(n, ts)
    PROVE  verdict' \in [Traffic -> Status]
<1> DEFINE ended(x) == {t \in ts : /\ t.transaction_status # "ONGOING"
                                   /\ x.from = n /\ t.out.body = x.body}
           new(x) == IF ended(x) = {} THEN verdict[x]
                     ELSE (CHOOSE t \in ended(x) : TRUE).transaction_status
<1>1. \A t \in ts : t.transaction_status \in Status
  BY Zenon DEF Transaction
<1>2. \A x \in Traffic : new(x) \in Status
  BY <1>1, Zenon DEF TypeOK
<1>3. verdict' = [x \in Traffic |-> new(x)]
  BY DEF Judge
<1> HIDE DEF new
<1> QED
  BY <1>2, <1>3, Zenon

\* The transaction identifier wraps around before it leaves its type.
LEMMA NextTidType ==
    ASSUME NEW i \in Tid
    PROVE  NextTid(i) \in Tid
  BY TidAssumption DEF NextTid, Tid

-----------------------------------------------------------------------------
(***************************************************************************)
(* The inductive invariant.                                                *)
(***************************************************************************)
PoolsGood == \A n \in Node : GoodPool("src", src[n]) /\ GoodPool("dst", dst[n])

Inv == TypeOK /\ PoolsGood

\* One pool of one MIHF changes.
LEMMA OnePool ==
    ASSUME NEW side, NEW f, f = [n \in Node |-> f[n]], \A n \in Node : GoodPool(side, f[n]),
           NEW n \in Node, NEW pool, GoodPool(side, pool), NEW g, g = [f EXCEPT ![n] = pool]
    PROVE  g = [m \in Node |-> g[m]] /\ \A m \in Node : GoodPool(side, g[m])
<1>1. DOMAIN f = Node
  BY Zenon
<1>2. g = [m \in Node |-> IF m = n THEN pool ELSE f[m]]
  BY <1>1, Zenon
<1> QED
  BY <1>2, Zenon

\* The services get again nothing but acknowledgements, responses, indications, and
\* requests that have no destination transaction.
NoRepeat ==
    \A n \in Node : \A m \in repeated'[n] \ repeated[n] :
        m.opcode = "request" /\ ~m.ackrsp => <<m.source, m.tid>> \notin DOMAIN dst[n]

\* The services of n get again only what they are given.
LEMMA Repeated ==
    ASSUME TypeOK, NEW n \in Node, NEW ms, NEW answered, HandOver(n, ms, answered)
    PROVE  \A x \in Node : \A m \in repeated'[x] \ repeated[x] : x = n /\ m \in ms
  BY Zenon DEF HandOver, TypeOK

\* The invariant at the start.
LEMMA InitInv ==
    ASSUME Init
    PROVE  Inv
<1>1. \A side : GoodPool(side, NoTransactions)
  BY Zenon DEF GoodPool, IsPool, NoTransactions
<1>2. \A n \in Node : src[n] = NoTransactions /\ dst[n] = NoTransactions
  BY Zenon DEF Init
<1>3. src = [n \in Node |-> src[n]] /\ dst = [n \in Node |-> dst[n]]
  BY Zenon DEF Init
<1>4. PoolsGood
  BY <1>1, <1>2, Zenon DEF PoolsGood
<1>5. /\ faults \in 0 .. MaxFaults /\ unsent \subseteq Traffic
      /\ todo \in [Node -> SUBSET Message] /\ handled \in [Node -> SUBSET Message]
      /\ repeated \in [Node -> SUBSET Message] /\ verdict \in [Traffic -> Status]
      /\ tid \in [Node -> Tid] /\ net \subseteq Packet
  BY StartAssumption, States, Zenon DEF Init
<1> QED
  BY <1>3, <1>4, <1>5, Zenon DEF Inv, TypeOK, PoolsGood, GoodPool

\* The part of the invariant about the pools, after a step.
PoolsInv ==
    /\ src = [n \in Node |-> src[n]] /\ dst = [n \in Node |-> dst[n]]
    /\ PoolsGood

\* message_out::new_src_transaction keeps the pools, the packets and the verdicts.
LEMMA NewSrcStep ==
    ASSUME Inv, NEW n \in Node, NEW m \in Message, m.ackreq, NewSrc(n, m)
    PROVE  /\ PoolsInv' /\ tid' \in [Node -> Tid] /\ net' \subseteq Packet
           /\ verdict' \in [Traffic -> Status]
<1> DEFINE i == NextTid(tid[n])
           x == [m EXCEPT !.tid = i]
           t == NewSrcTransaction(x)
<1>1. i \in Tid
  BY NextTidType, Zenon DEF Inv, TypeOK
<1>2. /\ tid' = [tid EXCEPT ![n] = i]
      /\ src' = [src EXCEPT ![n] = AddIfOngoing(@, t)]
      /\ net' = net \cup Transmitted(t)
      /\ Judge(n, {t}) /\ dst' = dst
  BY Zenon DEF NewSrc
<1> HIDE DEF i
<1>3. x \in Message
  BY <1>1, ZenonT(30) DEF Message
<1>4. x.ackreq
  BY Zenon DEF Message
<1> HIDE DEF x
<1>5. /\ t \in Transaction /\ t.sent \subseteq Message
      /\ t.transaction_status = "ONGOING" => SrcSound(t)
  BY <1>3, <1>4, NewSrcTransactionSound, Zenon
<1> HIDE DEF t
<1>6. GoodPool("src", AddIfOngoing(src[n], t))
  BY <1>5, AddIfOngoingSound, Zenon DEF Inv, PoolsGood, Sound
<1>7. PoolsInv'
  BY <1>2, <1>6, OnePool, Zenon DEF Inv, TypeOK, PoolsInv, PoolsGood
<1>8. net' \subseteq Packet
  BY <1>2, <1>5, TransmittedType, Zenon DEF Inv, TypeOK
<1>9. verdict' \in [Traffic -> Status]
  BY <1>2, <1>5, JudgeType, Zenon DEF Inv
<1>10. tid' \in [Node -> Tid]
  BY <1>1, <1>2, Zenon DEF Inv, TypeOK
<1> QED
  BY <1>7, <1>8, <1>9, <1>10, Zenon

\* The transaction t under the key k of a pool of n, after a handler.
LEMMA HandledSrc ==
    ASSUME Inv, NEW n \in Node, NEW k \in DOMAIN src[n], NEW t \in Transaction, SrcSound(t),
           KeyOf(t) = k, \E pool \in EraseIfDone(src[n], k, t) : src' = [src EXCEPT ![n] = pool],
           dst' = dst
    PROVE  PoolsInv'
<1>1. PICK pool \in EraseIfDone(src[n], k, t) : src' = [src EXCEPT ![n] = pool]
  BY Zenon
<1>2. GoodPool("src", pool)
  BY <1>1, EraseIfDoneSound, Zenon DEF Inv, PoolsGood, Sound
<1> QED
  BY <1>1, <1>2, OnePool, Zenon DEF Inv, TypeOK, PoolsInv, PoolsGood

\* The same for a destination transaction.
LEMMA HandledDst ==
    ASSUME Inv, NEW n \in Node, NEW k \in DOMAIN dst[n], NEW t \in Transaction, DstSound(t),
           KeyOf(t) = k, \E pool \in EraseIfDone(dst[n], k, t) : dst' = [dst EXCEPT ![n] = pool],
           src' = src
    PROVE  PoolsInv'
<1>1. PICK pool \in EraseIfDone(dst[n], k, t) : dst' = [dst EXCEPT ![n] = pool]
  BY Zenon
<1>2. GoodPool("dst", pool)
  BY <1>1, EraseIfDoneSound, Zenon DEF Inv, PoolsGood, Sound
<1> QED
  BY <1>1, <1>2, OnePool, Zenon DEF Inv, TypeOK, PoolsInv, PoolsGood

\* What the invariant says of an entry.
LEMMA EntrySound ==
    ASSUME Inv, NEW n \in Node
    PROVE  /\ \A k \in DOMAIN src[n] : InPool("src", k, src[n][k]) /\ SrcSound(src[n][k])
           /\ \A k \in DOMAIN dst[n] : InPool("dst", k, dst[n][k]) /\ DstSound(dst[n][k])
  BY Zenon DEF Inv, PoolsGood, GoodPool, InPool, Sound

\* message_out with a request or an indication preserves the invariant.
LEMMA SendMessageStep ==
    ASSUME Inv, NEW n \in Node, NEW x \in Traffic, NEW i \in LocalTid, SendMessage(n, x, i)
    PROVE  Inv' /\ NoRepeat
<1> DEFINE m == [opcode |-> x.opcode, ackreq |-> TRUE, ackrsp |-> FALSE, tlv |-> TRUE,
                 tid |-> i, source |-> n, destination |-> x.to, body |-> x.body]
           k == <<x.to, i>>
           u == [src[n][k] EXCEPT !.out = m, !.msg_out_avail = TRUE]
           s == StartedAckResponder(StartedAckRequestor(u))
           t == IF s.transaction_status = "ONGOING" THEN SrcRun(s, n) ELSE s
<1>1. m \in Message /\ m.ackreq
  <2>1. /\ x.opcode \in Opcode /\ i \in Tid /\ x.to \in Id /\ x.body \in Body \cup {NoBody}
    BY TrafficAssumption, LocalTidAssumption, Zenon DEF Opcode
  <2>2. m \in Message
    BY <2>1, ZenonT(30) DEF Message
  <2> QED
    BY <2>2, Zenon
<1>2. /\ unsent' = unsent \ {x} /\ faults' = faults
      /\ \/ NewSrc(n, m) /\ todo' = todo /\ handled' = handled /\ repeated' = repeated
         \/ /\ k \in DOMAIN src[n]
            /\ \E pool \in EraseIfDone(src[n], k, t) : src' = [src EXCEPT ![n] = pool]
            /\ net' = net \cup Transmitted(t)
            /\ HandOver(n, t.handed, FALSE)
            /\ Judge(n, IfOngoing(src[n][k], t))
            /\ dst' = dst /\ tid' = tid
  BY Zenon DEF SendMessage, OutTo
<1> HIDE DEF m
<1>3. unsent' \subseteq Traffic /\ faults' \in 0 .. MaxFaults
  BY <1>2, Zenon DEF Inv, TypeOK
<1>4. CASE NewSrc(n, m) /\ todo' = todo /\ handled' = handled /\ repeated' = repeated
  <2>1. /\ PoolsInv' /\ tid' \in [Node -> Tid] /\ net' \subseteq Packet
        /\ verdict' \in [Traffic -> Status]
    BY <1>1, <1>4, NewSrcStep, Zenon
  <2>2. NoRepeat
    BY <1>4, Zenon DEF NoRepeat
  <2> QED
    BY <1>3, <1>4, <2>1, <2>2, Zenon DEF Inv, TypeOK, PoolsInv, PoolsGood, GoodPool
<1>5. CASE /\ k \in DOMAIN src[n]
           /\ \E pool \in EraseIfDone(src[n], k, t) : src' = [src EXCEPT ![n] = pool]
           /\ net' = net \cup Transmitted(t)
           /\ HandOver(n, t.handed, FALSE)
           /\ Judge(n, IfOngoing(src[n][k], t))
           /\ dst' = dst /\ tid' = tid
  <2>1. InPool("src", k, src[n][k]) /\ SrcSound(src[n][k])
    BY <1>5, EntrySound, Zenon
  <2>2. /\ t \in Transaction /\ SrcSound(t) /\ SrcClean(t)
        /\ t.tid = src[n][k].tid /\ t.peer = src[n][k].peer
    <3>1. /\ src[n][k] \in Transaction /\ SrcSound(src[n][k])
          /\ src[n][k].sent = {} /\ src[n][k].handed = {}
      BY <2>1, Zenon DEF InPool
    <3> QED
      BY <1>1, <3>1, SrcOutSound, ZenonT(30)
  <2> HIDE DEF t
  <2>3. KeyOf(t) = k
    BY <2>1, <2>2, Zenon DEF InPool, KeyOf
  <2> HIDE DEF k
  <2>4. PoolsInv'
    BY <1>5, <2>2, <2>3, HandledSrc, Zenon
  <2>5. net' \subseteq Packet
    BY <1>5, <2>2, TransmittedType, Zenon DEF SrcClean, Inv, TypeOK
  <2>6. /\ todo' \in [Node -> SUBSET Message] /\ handled' \in [Node -> SUBSET Message]
        /\ repeated' \in [Node -> SUBSET Message]
    BY <1>5, <2>2, HandOverType, Zenon DEF SrcClean, Inv
  <2>7. verdict' \in [Traffic -> Status]
    BY <1>5, <2>2, JudgeType, Zenon DEF IfOngoing, Inv
  <2>8. NoRepeat
    <3>1. \A h \in t.handed : Awaited(h)
      BY <2>2, Zenon DEF SrcClean
    <3>2. TypeOK /\ HandOver(n, t.handed, FALSE)
      BY <1>5, Zenon DEF Inv
    <3>3. \A y \in Node : \A h \in repeated'[y] \ repeated[y] : h \in t.handed
      BY <3>2, Repeated, Zenon
    <3> QED
      BY <3>1, <3>3, Zenon DEF NoRepeat, Awaited
  <2> QED
    BY <1>3, <1>5, <2>4, <2>5, <2>6, <2>7, <2>8, Zenon DEF Inv, TypeOK, PoolsInv, PoolsGood, GoodPool
<1> QED
  BY <1>2, <1>4, <1>5, Zenon

\* message_out with a response preserves the invariant.
LEMMA SendResponseStep ==
    ASSUME Inv, NEW n \in Node, NEW m \in todo[n], SendResponse(n, m)
    PROVE  Inv' /\ NoRepeat
<1> DEFINE r == [Response(n, m) EXCEPT !.ackreq = TRUE]
           k == <<m.source, m.tid>>
           u == [dst[n][k] EXCEPT !.out = r, !.msg_out_avail = TRUE]
           s == StartedAckResponder(StartedAckRequestor(u))
           t == IF s.transaction_status = "ONGOING" THEN DstRun(s) ELSE s
<1>1. r \in Message /\ r.ackreq
  <2>1. m \in Message
    BY Zenon DEF Inv, TypeOK
  <2>2. m.tid \in Tid /\ m.source \in Id /\ m.body \in Body \cup {NoBody} /\ "response" \in Opcode
    BY <2>1, Zenon DEF Message, Id, Opcode
  <2>3. r \in Message
    BY <2>2, ZenonT(30) DEF Message, Response
  <2> QED
    BY <2>3, Zenon DEF Response
<1>2. /\ todo' = [todo EXCEPT ![n] = @ \ {m}]
      /\ faults' = faults /\ unsent' = unsent /\ handled' = handled /\ repeated' = repeated
      /\ \/ NewSrc(n, r)
         \/ /\ k \in DOMAIN dst[n]
            /\ \E pool \in EraseIfDone(dst[n], k, t) : dst' = [dst EXCEPT ![n] = pool]
            /\ net' = net \cup Transmitted(t)
            /\ src' = src /\ tid' = tid /\ verdict' = verdict
  BY Zenon DEF SendResponse, OutTo
<1> HIDE DEF r
<1>3. todo' \in [Node -> SUBSET Message] /\ NoRepeat
  BY <1>2, Zenon DEF Inv, TypeOK, NoRepeat
<1>4. CASE NewSrc(n, r)
  <2>1. /\ PoolsInv' /\ tid' \in [Node -> Tid] /\ net' \subseteq Packet
        /\ verdict' \in [Traffic -> Status]
    BY <1>1, <1>4, NewSrcStep, Zenon
  <2> QED
    BY <1>2, <1>3, <2>1, Zenon DEF Inv, TypeOK, PoolsInv, PoolsGood, GoodPool
<1>5. CASE /\ k \in DOMAIN dst[n]
           /\ \E pool \in EraseIfDone(dst[n], k, t) : dst' = [dst EXCEPT ![n] = pool]
           /\ net' = net \cup Transmitted(t)
           /\ src' = src /\ tid' = tid /\ verdict' = verdict
  <2>1. InPool("dst", k, dst[n][k]) /\ DstSound(dst[n][k])
    BY <1>5, EntrySound, Zenon
  <2>2. /\ t \in Transaction /\ DstSound(t) /\ Clean(t)
        /\ t.tid = dst[n][k].tid /\ t.peer = dst[n][k].peer
    BY <1>1, <2>1, DstOutSound, Zenon DEF InPool
  <2> HIDE DEF t
  <2>3. KeyOf(t) = k
    BY <2>1, <2>2, Zenon DEF InPool, KeyOf
  <2> HIDE DEF k
  <2>4. PoolsInv'
    BY <1>5, <2>2, <2>3, HandledDst, Zenon
  <2>5. net' \subseteq Packet
    BY <1>5, <2>2, TransmittedType, Zenon DEF Clean, Inv, TypeOK
  <2> QED
    BY <1>2, <1>3, <1>5, <2>4, <2>5, Zenon DEF Inv, TypeOK, PoolsInv, PoolsGood, GoodPool
<1> QED
  BY <1>2, <1>4, <1>5, Zenon

\* The three ways of message_in.
LEMMA MessageInStep ==
    ASSUME Inv, NEW n \in Node, NEW m \in Message, NEW rest, rest \subseteq Packet,
           MessageIn(n, m, rest)
    PROVE  /\ PoolsInv' /\ net' \subseteq Packet /\ verdict' \in [Traffic -> Status]
           /\ todo' \in [Node -> SUBSET Message] /\ handled' \in [Node -> SUBSET Message]
           /\ repeated' \in [Node -> SUBSET Message] /\ NoRepeat
<1> DEFINE k == <<m.source, m.tid>>
<1>1. m.source \in Node /\ m.source # Multicast
  BY IdAssumption, Zenon DEF Message
<1>2. TypeOK
  BY Zenon DEF Inv
<1>3. CASE ForSrc(m) /\ k \in DOMAIN src[n]
           /\ LET t == InToSrc(src[n][k], m, n)
              IN  /\ \E pool \in EraseIfDone(src[n], k, t) : src' = [src EXCEPT ![n] = pool]
                  /\ net' = rest \cup Transmitted(t)
                  /\ HandOver(n, t.handed, FALSE)
                  /\ Judge(n, IfOngoing(src[n][k], t))
           /\ dst' = dst
  <2> DEFINE t == InToSrc(src[n][k], m, n)
  <2>1. InPool("src", k, src[n][k]) /\ SrcSound(src[n][k])
    BY <1>3, EntrySound, Zenon
  <2>2. src[n][k].peer # Multicast
    BY <1>1, <2>1, Zenon DEF InPool, KeyOf
  <2>3. /\ t \in Transaction /\ SrcSound(t) /\ SrcClean(t)
        /\ t.tid = src[n][k].tid /\ t.peer = src[n][k].peer
    <3> DEFINE w == src[n][k]
    <3>1. /\ w \in Transaction /\ SrcSound(w) /\ w.sent = {} /\ w.handed = {} /\ w.peer # Multicast
      BY <2>1, <2>2, Zenon DEF InPool
    <3>2. t = InToSrc(w, m, n)
      BY Zenon
    <3> HIDE DEF t, w
    <3>3. Awaited(m)
      BY <1>3, Zenon DEF ForSrc, Awaited
    <3>4. t \in Transaction /\ SrcSound(t) /\ SrcClean(t) /\ t.tid = w.tid /\ t.peer = w.peer
      BY <3>1, <3>2, <3>3, SrcInSound, Zenon
    <3> QED
      BY <3>4, Zenon DEF w
  <2>4. /\ \E pool \in EraseIfDone(src[n], k, t) : src' = [src EXCEPT ![n] = pool]
        /\ net' = rest \cup Transmitted(t)
        /\ HandOver(n, t.handed, FALSE)
        /\ Judge(n, IfOngoing(src[n][k], t))
    BY <1>3, Zenon
  <2> HIDE DEF t
  <2>5. KeyOf(t) = k
    BY <2>1, <2>3, Zenon DEF InPool, KeyOf
  <2>6. PoolsInv'
    BY <1>3, <2>3, <2>4, <2>5, HandledSrc, Zenon
  <2>7. net' \subseteq Packet
    BY <2>3, <2>4, TransmittedType, Zenon DEF SrcClean
  <2>8. /\ todo' \in [Node -> SUBSET Message] /\ handled' \in [Node -> SUBSET Message]
        /\ repeated' \in [Node -> SUBSET Message]
    BY <1>2, <2>3, <2>4, HandOverType, Zenon DEF SrcClean
  <2>9. verdict' \in [Traffic -> Status]
    BY <1>2, <2>3, <2>4, JudgeType, Zenon DEF IfOngoing
  <2>10. NoRepeat
    <3>1. \A h \in t.handed : Awaited(h)
      BY <2>3, Zenon DEF SrcClean
    <3>2. \A x \in Node : \A h \in repeated'[x] \ repeated[x] : h \in t.handed
      BY <1>2, <2>4, Repeated, Zenon
    <3> QED
      BY <3>1, <3>2, Zenon DEF NoRepeat, Awaited
  <2> QED
    BY <2>6, <2>7, <2>8, <2>9, <2>10, Zenon
<1>4. CASE k \in DOMAIN dst[n]
           /\ LET t == InToDst(dst[n][k], m)
              IN  /\ \E pool \in EraseIfDone(dst[n], k, t) : dst' = [dst EXCEPT ![n] = pool]
                  /\ net' = rest \cup Transmitted(t)
                  /\ HandOver(n, t.handed, FALSE)
           /\ src' = src /\ verdict' = verdict
  <2> DEFINE t == InToDst(dst[n][k], m)
  <2>1. InPool("dst", k, dst[n][k]) /\ DstSound(dst[n][k])
    BY <1>4, EntrySound, Zenon
  <2>2. /\ t \in Transaction /\ DstSound(t) /\ Clean(t) /\ t.handed = {}
        /\ t.tid = dst[n][k].tid /\ t.peer = dst[n][k].peer
    BY <2>1, DstInSound, Zenon DEF InPool
  <2>3. /\ \E pool \in EraseIfDone(dst[n], k, t) : dst' = [dst EXCEPT ![n] = pool]
        /\ net' = rest \cup Transmitted(t)
        /\ HandOver(n, t.handed, FALSE)
    BY <1>4, Zenon
  <2> HIDE DEF t
  <2>4. KeyOf(t) = k
    BY <2>1, <2>2, Zenon DEF InPool, KeyOf
  <2>5. PoolsInv'
    BY <1>4, <2>2, <2>3, <2>4, HandledDst, Zenon
  <2>6. net' \subseteq Packet
    BY <2>2, <2>3, TransmittedType, Zenon DEF Clean
  <2>7. /\ todo' \in [Node -> SUBSET Message] /\ handled' \in [Node -> SUBSET Message]
        /\ repeated' \in [Node -> SUBSET Message]
    BY <1>2, <2>2, <2>3, HandOverType, Zenon DEF Clean
  <2>8. NoRepeat
    BY <1>2, <2>2, <2>3, Repeated, Zenon DEF NoRepeat
  <2> QED
    BY <1>2, <1>4, <2>5, <2>6, <2>7, <2>8, Zenon DEF TypeOK
<1>5. CASE k \notin DOMAIN (IF ForSrc(m) THEN src[n] ELSE dst[n])
           /\ (\E reply \in Reply(n, m) :
                LET t == NewDstTransaction(m, n, reply)
                IN  /\ dst' = [dst EXCEPT ![n] = AddIfOngoing(@, t)]
                    /\ net' = rest \cup Transmitted(t)
                    /\ HandOver(n, t.handed, reply # NoMsg))
           /\ src' = src /\ verdict' = verdict
  <2>1. PICK reply \in Reply(n, m) :
            LET t == NewDstTransaction(m, n, reply)
            IN  /\ dst' = [dst EXCEPT ![n] = AddIfOngoing(@, t)]
                /\ net' = rest \cup Transmitted(t)
                /\ HandOver(n, t.handed, reply # NoMsg)
    BY <1>5, Zenon
  <2> DEFINE t == NewDstTransaction(m, n, reply)
  <2>2. reply \in MaybeMessage
    <3>1. Response(n, m) \in Message
      <4>1. m.tid \in Tid /\ m.source \in Id /\ m.body \in Body \cup {NoBody} /\ "response" \in Opcode
        BY Zenon DEF Message, Id, Opcode
      <4> QED
        BY <4>1, ZenonT(30) DEF Message, Response
    <3> QED
      BY <3>1, Zenon DEF Reply, MaybeMessage
  <2>3. /\ t \in Transaction /\ Clean(t) /\ t.handed \subseteq {m}
        /\ t.transaction_status = "ONGOING" => DstSound(t)
    BY <2>2, NewDstTransactionSound, Zenon
  <2>4. /\ dst' = [dst EXCEPT ![n] = AddIfOngoing(@, t)]
        /\ net' = rest \cup Transmitted(t)
        /\ HandOver(n, t.handed, reply # NoMsg)
    BY <2>1, Zenon
  <2> HIDE DEF t
  <2>5. GoodPool("dst", AddIfOngoing(dst[n], t))
    BY <2>3, AddIfOngoingSound, Zenon DEF Inv, PoolsGood, Sound
  <2>6. PoolsInv'
    BY <1>5, <2>4, <2>5, OnePool, Zenon DEF Inv, TypeOK, PoolsInv, PoolsGood
  <2>7. net' \subseteq Packet
    BY <2>3, <2>4, TransmittedType, Zenon DEF Clean
  <2>8. /\ todo' \in [Node -> SUBSET Message] /\ handled' \in [Node -> SUBSET Message]
        /\ repeated' \in [Node -> SUBSET Message]
    BY <1>2, <2>3, <2>4, HandOverType, Zenon DEF Clean
  <2>9. NoRepeat
    <3>1. m.opcode = "request" /\ ~m.ackrsp => k \notin DOMAIN dst[n]
      BY <1>5, Zenon DEF ForSrc
    <3>2. \A x \in Node : \A h \in repeated'[x] \ repeated[x] : x = n /\ h = m
      BY <1>2, <2>3, <2>4, Repeated, Zenon
    <3> QED
      BY <3>1, <3>2, Zenon DEF NoRepeat
  <2> QED
    BY <1>2, <1>5, <2>6, <2>7, <2>8, <2>9, Zenon DEF TypeOK
<1> QED
  BY <1>3, <1>4, <1>5, Zenon DEF MessageIn

\* A packet that arrives, once or as a copy, preserves the invariant.
LEMMA ReceiveStep ==
    ASSUME Inv, NEW p \in net, Receive(p)
    PROVE  Inv' /\ NoRepeat
<1>1. p.to \in Node /\ p.msg \in Message /\ net \subseteq Packet /\ net \ {p} \subseteq Packet
  BY Zenon DEF Inv, TypeOK, Packet
<1>2. /\ PoolsInv' /\ net' \subseteq Packet /\ verdict' \in [Traffic -> Status]
      /\ todo' \in [Node -> SUBSET Message] /\ handled' \in [Node -> SUBSET Message]
      /\ repeated' \in [Node -> SUBSET Message] /\ NoRepeat
  BY <1>1, MessageInStep, Zenon DEF Receive
<1>3. faults' \in 0 .. MaxFaults
  BY NetAssumption DEF Receive, Inv, TypeOK
<1>4. tid' = tid /\ unsent' = unsent
  BY Zenon DEF Receive
<1> QED
  BY <1>2, <1>3, <1>4, Zenon DEF Inv, TypeOK, PoolsInv, PoolsGood, GoodPool

\* A lost packet preserves the invariant.
LEMMA LoseStep ==
    ASSUME Inv, NEW p \in net, Lose(p)
    PROVE  Inv' /\ NoRepeat
<1>1. faults' \in 0 .. MaxFaults
  BY NetAssumption DEF Lose, Inv, TypeOK
<1> QED
  BY <1>1, Zenon DEF Lose, Inv, TypeOK, PoolsGood, NoRepeat

\* A pool every entry of which was ticked.
LEMMA TickedPool ==
    ASSUME NEW side, NEW pool, GoodPool(side, pool), NEW s, DOMAIN s = DOMAIN pool,
           \A k \in DOMAIN s : s[k] \in Transaction /\ Sound(side, s[k]) /\ KeyOf(s[k]) = k
    PROVE  GoodPool(side, [k \in DOMAIN s |-> Stored(s[k])])
<1> DEFINE q == [k \in DOMAIN s |-> Stored(s[k])]
<1>1. DOMAIN q = DOMAIN pool
  BY Zenon
<1>2. \A k \in DOMAIN q : InPool(side, k, q[k])
  BY StoredSound, Zenon
<1>3. q \in [DOMAIN q -> Transaction]
  BY <1>2, Zenon DEF InPool
<1> HIDE DEF q
<1>4. GoodPool(side, q)
  BY <1>1, <1>2, <1>3, Zenon DEF GoodPool, IsPool
<1> QED
  BY <1>4, Zenon DEF q

\* transaction_pool::tick preserves the invariant.
LEMMA TickStep ==
    ASSUME Inv, NEW n \in Node, Tick(n)
    PROVE  Inv' /\ NoRepeat
<1> DEFINE s == [k \in DOMAIN src[n] |-> SrcDec(src[n][k], n)]
           d == [k \in DOMAIN dst[n] |-> DstDec(dst[n][k])]
           sDel == {k \in DOMAIN s : DecDeletes(src[n][k], s[k])}
           dDel == {k \in DOMAIN d : DecDeletes(dst[n][k], d[k])}
           all  == {s[k] : k \in DOMAIN s} \cup {d[k] : k \in DOMAIN d}
           ts   == UNION {IfOngoing(src[n][k], s[k]) : k \in DOMAIN s}
<1>1. PICK p \in Erase([k \in DOMAIN s |-> Stored(s[k])], sDel),
           q \in Erase([k \in DOMAIN d |-> Stored(d[k])], dDel) :
               src' = [src EXCEPT ![n] = p] /\ dst' = [dst EXCEPT ![n] = q]
  BY Zenon DEF Tick
<1>2. /\ net' = net \cup UNION {Transmitted(t) : t \in all}
      /\ HandOver(n, UNION {t.handed : t \in all}, FALSE)
      /\ Judge(n, ts)
      /\ tid' = tid /\ faults' = faults /\ unsent' = unsent
  BY Zenon DEF Tick
<1>3. DOMAIN s = DOMAIN src[n] /\ DOMAIN d = DOMAIN dst[n]
  BY Zenon
<1>4. ASSUME NEW k \in DOMAIN src[n]
      PROVE  /\ s[k] \in Transaction /\ SrcSound(s[k]) /\ KeyOf(s[k]) = k
             /\ s[k].sent \subseteq Message /\ s[k].handed = {}
  <2>1. InPool("src", k, src[n][k]) /\ SrcSound(src[n][k])
    BY EntrySound, Zenon
  <2>2. LET e == SrcDec(src[n][k], n)
        IN  /\ e \in Transaction /\ SrcSound(e) /\ e.sent \subseteq Message /\ e.handed = {}
            /\ e.tid = src[n][k].tid /\ e.peer = src[n][k].peer
    BY <2>1, SrcDecSound, Zenon DEF InPool
  <2> QED
    BY <2>1, <2>2, Zenon DEF InPool, KeyOf
<1>5. ASSUME NEW k \in DOMAIN dst[n]
      PROVE  /\ d[k] \in Transaction /\ DstSound(d[k]) /\ KeyOf(d[k]) = k
             /\ d[k].sent \subseteq Message /\ d[k].handed = {}
  <2>1. InPool("dst", k, dst[n][k]) /\ DstSound(dst[n][k])
    BY EntrySound, Zenon
  <2>2. DstResult(dst[n][k], DstDec(dst[n][k]))
    BY <2>1, DstDecSound, Zenon DEF InPool
  <2> QED
    BY <2>1, <2>2, Zenon DEF InPool, KeyOf, DstResult
<1> HIDE DEF s, d
<1>6. GoodPool("src", p)
  <2>1. GoodPool("src", [k \in DOMAIN s |-> Stored(s[k])])
    BY <1>3, <1>4, TickedPool DEF Inv, PoolsGood, Sound
  <2> QED
    BY <1>1, <2>1, EraseSound, Zenon
<1>7. GoodPool("dst", q)
  <2>1. GoodPool("dst", [k \in DOMAIN d |-> Stored(d[k])])
    BY <1>3, <1>5, TickedPool, Zenon DEF Inv, PoolsGood, Sound
  <2> QED
    BY <1>1, <2>1, EraseSound, Zenon
<1>8. PoolsInv'
  <2>1. src' = [m \in Node |-> src'[m]] /\ \A m \in Node : GoodPool("src", src'[m])
    BY <1>1, <1>6, OnePool, Zenon DEF Inv, TypeOK, PoolsGood
  <2>2. dst' = [m \in Node |-> dst'[m]] /\ \A m \in Node : GoodPool("dst", dst'[m])
    BY <1>1, <1>7, OnePool, Zenon DEF Inv, TypeOK, PoolsGood
  <2> QED
    BY <2>1, <2>2, Zenon DEF PoolsInv, PoolsGood
<1>9. \A t \in all : t.sent \subseteq Message /\ t.handed = {}
  BY <1>3, <1>4, <1>5, Zenon
<1>10. net' \subseteq Packet
  BY <1>2, <1>9, TransmittedType DEF Inv, TypeOK
<1>11. /\ todo' \in [Node -> SUBSET Message] /\ handled' \in [Node -> SUBSET Message]
       /\ repeated' \in [Node -> SUBSET Message]
  <2> DEFINE ms == UNION {t.handed : t \in all}
  <2>1. ms \in SUBSET Message
    BY <1>9
  <2>2. TypeOK /\ HandOver(n, ms, FALSE)
    BY <1>2, Zenon DEF Inv
  <2> HIDE DEF ms
  <2> QED
    BY <2>1, <2>2, HandOverType, Zenon
<1>12. verdict' \in [Traffic -> Status]
  <2>1. \A k \in DOMAIN s : IfOngoing(src[n][k], s[k]) \subseteq Transaction
    BY <1>3, <1>4, Zenon DEF IfOngoing
  <2>2. ts \subseteq Transaction
    BY <2>1, Zenon
  <2> QED
    BY <1>2, <2>2, JudgeType, Zenon DEF Inv
<1>13. NoRepeat
  <2> DEFINE ms == UNION {t.handed : t \in all}
  <2>1. ms = {}
    BY <1>9
  <2>2. TypeOK /\ HandOver(n, ms, FALSE)
    BY <1>2, Zenon DEF Inv
  <2> HIDE DEF ms
  <2>3. \A x \in Node : \A m \in repeated'[x] \ repeated[x] : m \in ms
    BY <2>2, Repeated, Zenon
  <2> QED
    BY <2>1, <2>3, Zenon DEF NoRepeat
<1> QED
  BY <1>2, <1>8, <1>10, <1>11, <1>12, <1>13, Zenon DEF Inv, TypeOK, PoolsInv, PoolsGood, GoodPool

\* Every handler, the network and the clock keep the invariant, and hand over no
\* request that a destination transaction is pending for.
LEMMA NextInv ==
    ASSUME Inv, [Next]_vars
    PROVE  Inv' /\ NoRepeat
<1>1. CASE \E n \in Node, x \in Traffic, i \in LocalTid : SendMessage(n, x, i)
  BY <1>1, SendMessageStep, Zenon
<1>2. CASE \E n \in Node : \E m \in todo[n] : SendResponse(n, m)
  BY <1>2, SendResponseStep, Zenon
<1>3. CASE \E p \in net : Receive(p)
  BY <1>3, ReceiveStep, Zenon
<1>4. CASE \E p \in net : Lose(p)
  BY <1>4, LoseStep, Zenon
<1>5. CASE \E n \in Node : Tick(n)
  BY <1>5, TickStep, Zenon
<1>6. CASE UNCHANGED vars
  BY <1>6, Zenon DEF vars, Inv, TypeOK, PoolsGood, NoRepeat
<1> QED
  BY <1>1, <1>2, <1>3, <1>4, <1>5, <1>6, Zenon DEF Next

\* The types and the soundness of the pools hold in every state.
THEOREM Invariance == Spec => []Inv
<1>1. Init => Inv
  BY InitInv, Zenon
<1>2. Inv /\ [Next]_vars => Inv'
  BY NextInv, Zenon
<1> QED
  BY <1>1, <1>2, PTL DEF Spec

-----------------------------------------------------------------------------
(***************************************************************************)
(* What follows from it.                                                   *)
(***************************************************************************)

\* Pools, packets and what the services get keep their types: the identifier
\* wraps in its range, a null message pointer is never sent or processed.
THEOREM TypeCorrect == Spec => []TypeOK
<1>1. Inv => TypeOK
  BY Zenon DEF Inv
<1> QED
  BY <1>1, Invariance, PTL

\* In every pool the state machine, the acknowledgements and the timers of a
\* transaction agree.
THEOREM PoolsAreSound == Spec => []PoolsSound
<1>1. Inv => PoolsSound
  BY Zenon DEF Inv, PoolsGood, GoodPool, InPool, Sound, PoolsSound
<1> QED
  BY <1>1, Invariance, PTL

\* transaction_pool::dec never runs a message handler while it holds the lock
\* that message_out takes.
THEOREM LockNotReentered == Spec => []NoHandlerUnderLock
<1>1. Inv => NoHandlerUnderLock
  <2> SUFFICES ASSUME Inv, NEW n \in Node, NEW k \in DOMAIN src[n]
               PROVE  SrcDec(src[n][k], n).handed = {}
    BY Zenon DEF NoHandlerUnderLock
  <2>1. InPool("src", k, src[n][k]) /\ SrcSound(src[n][k])
    BY EntrySound, Zenon
  <2> QED
    BY <2>1, SrcDecSound, Zenon DEF InPool
<1> QED
  BY <1>1, Invariance, PTL

\* transaction_pool::dec drops no source transaction that is still ongoing,
\* whenever the life time covers all the transmissions of a message.
THEOREM DroppedAfterVerdict == Spec => []DroppedIsDecided
<1>1. Inv => DroppedIsDecided
  <2> SUFFICES ASSUME Inv, NEW n \in Node, NEW k \in DOMAIN src[n],
                      DecDeletes(src[n][k], SrcDec(src[n][k], n))
               PROVE  SrcDec(src[n][k], n).transaction_status # "ONGOING"
    BY Zenon DEF DroppedIsDecided
  <2>1. InPool("src", k, src[n][k]) /\ SrcSound(src[n][k])
    BY EntrySound, Zenon
  <2> QED
    BY <2>1, SrcDecSound, Zenon DEF InPool
<1> QED
  BY <1>1, Invariance, PTL

\* message_in gives the services no copy of a request whose destination transaction is
\* in the pool, whatever the network copies and delays.
THEOREM CopiesDetected == Spec => NoRepeatWhilePending
<1>1. Inv /\ [Next]_vars => [NoRepeat]_vars
  BY NextInv, Zenon
<1> QED
  BY <1>1, Invariance, PTL DEF Spec, NoRepeatWhilePending, NoRepeat
=============================================================================
