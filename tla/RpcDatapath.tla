---------------------------- MODULE RpcDatapath ----------------------------
(***************************************************************************)
(* The datapath of one eRPC session: the client half (enqueue_request,     *)
(* kick_req_st, kick_rfr_st, process_resp_one_st, process_expl_cr_st, the  *)
(* credit stall queue, the timing wheel and packet-loss recovery) and the  *)
(* server half (process_small_req_st, process_large_req_one_st,            *)
(* process_rfr_st, enqueue_response) of class Rpc, joined by a network     *)
(* that may lose, delay, reorder and duplicate packets.                    *)
(*                                                                         *)
(* Every action is one handler invocation by a dispatch thread (or one     *)
(* packet leaving a NIC); handlers run to completion, so they are atomic.  *)
(* The event loops interleave handlers of the two endpoints in any order.  *)
(*                                                                         *)
(* Data is abstracted.  A message is the RPC it belongs to and its length  *)
(* in packets.  The wire request number of sslot s is                      *)
(* kSessionReqWindow * n + index(s); the model keeps the pair <<s, n>>, so *)
(* "cur_req_num_ += kSessionReqWindow" is n + 1 and "req_num_ %            *)
(* kSessionReqWindow" is s.  The payload of a packet is the chunk          *)
(* [rpc, idx] of the message it was cut from.                              *)
(***************************************************************************)
EXTENDS Integers, Sequences, FiniteSets, TLC

CONSTANTS
    Sslots,         \* the session's slots (kSessionReqWindow of them)
    Credits,        \* kSessionCredits
    NumRpcs,        \* bound: the RPCs issued by the application
    MaxReqPkts,     \* bound: packets in the largest request
    MaxRespPkts,    \* bound: packets in the largest response
    Pacing,         \* kCcPacing: requests may go through the timing wheel
    Duplicating,    \* TRUE: a packet, once sent, may arrive any number of
                    \* times (or never); FALSE: at most once, or is lost
    Foreground      \* the RPCs whose request type has a foreground handler

ASSUME SslotsAssumption == IsFiniteSet(Sslots)
ASSUME CreditsAssumption == Credits \in Nat \ {0}
ASSUME BoundsAssumption ==
    /\ NumRpcs \in Nat
    /\ MaxReqPkts \in Nat \ {0}
    /\ MaxRespPkts \in Nat \ {0}
ASSUME SwitchesAssumption == Pacing \in BOOLEAN /\ Duplicating \in BOOLEAN

Rpcs == 1..NumRpcs
ASSUME ForegroundAssumption == Foreground \subseteq Rpcs
Req == "Req"          \* PktType::kReq
RFR == "RFR"          \* PktType::kRFR, request for response
ExplCR == "ExplCR"    \* PktType::kExplCR, explicit credit return
Resp == "Resp"        \* PktType::kResp

\* A MsgBuffer in use: the RPC it belongs to and num_pkts_.  NoMsg is null.
NoMsg == [rpc |-> 0, pkts |-> 0]
Msg == [rpc : 0..NumRpcs, pkts : Nat]

\* The payload of one packet; NoData is memory that was never written.
NoData == [rpc |-> 0, idx |-> 0]
Chunk == [rpc : 0..NumRpcs, idx : Int]

\* The payload buffer of a request and of a response MsgBuffer.
ReqBuf == [0..(MaxReqPkts - 1) -> Chunk]
RespBuf == [0..(MaxRespPkts - 1) -> Chunk]

\* pkthdr_t: size stands for msg_size_ (its length in packets; 0 in headers).
Packet == [type : {Req, RFR, ExplCR, Resp}, sslot : Sslots, req_num : Nat,
           pkt_num : Nat, size : Nat, data : Chunk]

VARIABLES
    \* Client: Session::client_info_ and the Rpc's queues
    credits,        \* credits_
    sslot_free,     \* sslot_free_vec_ (its stack order is abstracted)
    backlog,        \* enq_req_backlog_, FIFO of messages waiting for an sslot
    stallq,         \* stallq_, FIFO of sslots waiting for a credit
    wheel,          \* wheel[s]: the packet numbers of s in the timing wheel
    tx_queue,       \* client packets in the TX batch or the NIC's DMA queue
    \* Client: SSlot::client_info_
    tx_msgbuf,      \* tx_msgbuf_: the active request, or NoMsg
    cur_req_num,    \* cur_req_num_
    num_tx,         \* num_tx_
    num_rx,         \* num_rx_
    resp_pkts,      \* resp_msgbuf_->num_pkts_
    resp_data,      \* contents of resp_msgbuf_
    \* Server: SSlot::server_info_
    s_tx_msgbuf,    \* tx_msgbuf_: the current response, or NoMsg
    s_cur_req_num,  \* cur_req_num_
    s_num_rx,       \* num_rx_
    req_pkts,       \* req_msgbuf_.num_pkts_, 0 iff req_msgbuf_ is buried
    req_data,       \* contents of req_msgbuf_
    req_type,       \* TRUE iff req_type_ is valid: enqueue_response() pending
    serving,        \* the RPC whose handler was invoked and has not answered, or 0
    sav_num_req_pkts, \* sav_num_req_pkts_
    s_tx_queue,     \* server packets in the TX batch or the NIC's DMA queue
    \* Network
    net,            \* packets in flight
    \* History of the RPCs, seen from the two applications
    issued,         \* RPCs passed to enqueue_request() so far
    runs,           \* runs[r]: request handler invocations for r
    answer,         \* answer[r]: length of the response the handler gave r
    result          \* result[r]: the response its continuation saw

clientVars == <<credits, sslot_free, backlog, stallq, wheel, tx_queue,
                tx_msgbuf, cur_req_num, num_tx, num_rx, resp_pkts, resp_data,
                issued, result>>
serverVars == <<s_tx_msgbuf, s_cur_req_num, s_num_rx, req_pkts, req_data,
                req_type, serving, sav_num_req_pkts, s_tx_queue, runs, answer>>
vars == <<credits, sslot_free, backlog, stallq, wheel, tx_queue, tx_msgbuf,
          cur_req_num, num_tx, num_rx, resp_pkts, resp_data, issued, result,
          s_tx_msgbuf, s_cur_req_num, s_num_rx, req_pkts, req_data, req_type,
          serving, sav_num_req_pkts, s_tx_queue, runs, answer, net>>

\* No response yet, as seen by the application.
NoResult == [pkts |-> 0, data |-> <<>>]

Init ==
    /\ credits = Credits
    /\ sslot_free = Sslots
    /\ backlog = <<>>
    /\ stallq = <<>>
    /\ wheel = [s \in Sslots |-> {}]
    /\ tx_queue = {}
    /\ tx_msgbuf = [s \in Sslots |-> NoMsg]
    /\ cur_req_num = [s \in Sslots |-> 0]
    /\ num_tx = [s \in Sslots |-> 0]
    /\ num_rx = [s \in Sslots |-> 0]
    /\ resp_pkts = [s \in Sslots |-> 0]
    /\ resp_data = [s \in Sslots |-> [i \in 0..(MaxRespPkts - 1) |-> NoData]]
    /\ s_tx_msgbuf = [s \in Sslots |-> NoMsg]
    /\ s_cur_req_num = [s \in Sslots |-> 0]
    /\ s_num_rx = [s \in Sslots |-> 0]
    /\ req_pkts = [s \in Sslots |-> 0]
    /\ req_data = [s \in Sslots |-> [i \in 0..(MaxReqPkts - 1) |-> NoData]]
    /\ req_type = [s \in Sslots |-> FALSE]
    /\ serving = [s \in Sslots |-> 0]
    /\ sav_num_req_pkts = [s \in Sslots |-> 0]
    /\ s_tx_queue = {}
    /\ net = {}
    /\ issued = 0
    /\ runs = [r \in Rpcs |-> 0]
    /\ answer = [r \in Rpcs |-> 0]
    /\ result = [r \in Rpcs |-> NoResult]

-----------------------------------------------------------------------------
(* Packets and the helpers of rpc.h *)

\* Packet k of request m, number n on sslot s
ReqPkt(s, n, m, k) ==
    [type |-> Req, sslot |-> s, req_num |-> n, pkt_num |-> k,
     size |-> m.pkts, data |-> [rpc |-> m.rpc, idx |-> k]]

\* enqueue_rfr_st
RfrPkt(s, n, k) ==
    [type |-> RFR, sslot |-> s, req_num |-> n, pkt_num |-> k,
     size |-> 0, data |-> NoData]

\* enqueue_cr_st: the CR copies the numbers of the request packet
CrPkt(p) ==
    [type |-> ExplCR, sslot |-> p.sslot, req_num |-> p.req_num,
     pkt_num |-> p.pkt_num, size |-> 0, data |-> NoData]

\* Faulty variant of RespPkt: numbers response packets from 0.
RespPkt_NoOffset(s, n, m, i, nreq) ==
    [type |-> Resp, sslot |-> s, req_num |-> n, pkt_num |-> i,
     size |-> m.pkts, data |-> [rpc |-> m.rpc, idx |-> i]]

\* Packet i of response m, for a request of nreq packets
RespPkt(s, n, m, i, nreq) ==
    [type |-> Resp, sslot |-> s, req_num |-> n, pkt_num |-> nreq - 1 + i,
     size |-> m.pkts, data |-> [rpc |-> m.rpc, idx |-> i]]

resp_ntoi(pkt_num, nreq) == pkt_num - (nreq - 1)

\* Faulty variant of wire_pkts: the first response packet, which answers the
\* last request packet, is counted twice.
wire_pkts_OffByOne(nreq, nresp) == nreq + nresp
wire_pkts(nreq, nresp) == nreq + nresp - 1
MinOf(a, b) == IF a < b THEN a ELSE b

\* in_wheel_[k % kSessionCredits]
InWheel(s, k) == \E e \in wheel[s] : e % Credits = k % Credits

\* Faulty variants of in_order_client: without the test of the request number,
\* and without the test of in_wheel_.
in_order_client_AnyRequest(p) ==
    p.pkt_num = num_rx[p.sslot] /\ p.pkt_num < num_tx[p.sslot]
in_order_client_IgnoresWheel(p) ==
    /\ p.req_num = cur_req_num[p.sslot]
    /\ p.pkt_num = num_rx[p.sslot]
    /\ p.pkt_num < num_tx[p.sslot]

in_order_client(p) ==
    LET s == p.sslot IN
    /\ p.req_num = cur_req_num[s]
    /\ p.pkt_num = num_rx[s]
    /\ p.pkt_num < num_tx[s]
    /\ ~(Pacing /\ InWheel(s, p.pkt_num))

\* The values can_bypass_wheel may return: congestion is not modelled.
can_bypass_wheel(s) ==
    IF ~Pacing THEN {TRUE} ELSE IF wheel[s] = {} THEN BOOLEAN ELSE {FALSE}

\* What is left of the network once the packets in ps were received.
Received(ps) == IF Duplicating THEN net ELSE net \ ps

\* The client puts packets of its request MsgBuffers in the TX batch
\* (enqueue_pkt_tx_burst_st) and sends headers (enqueue_hdr_tx_burst_st);
\* "drain" is drain_tx_batch_and_dma_queue().  A header is a copy in
\* ctrl_msgbufs_ and refers to no MsgBuffer, so the time it waits in the TX
\* batch is time spent in the network.
ClientTx(pkts, hdrs, drain, rcvd) ==
    IF drain
    THEN /\ net' = Received(rcvd) \cup tx_queue \cup pkts \cup hdrs
         /\ tx_queue' = {}
    ELSE /\ net' = Received(rcvd) \cup hdrs
         /\ tx_queue' = tx_queue \cup pkts

\* The same for the server, whose data packets are cut from responses.
ServerTx(pkts, hdrs, drain, rcvd) ==
    IF drain
    THEN /\ net' = Received(rcvd) \cup s_tx_queue \cup pkts \cup hdrs
         /\ s_tx_queue' = {}
    ELSE /\ net' = Received(rcvd) \cup hdrs
         /\ s_tx_queue' = s_tx_queue \cup pkts

-----------------------------------------------------------------------------
(* Client: sending *)

\* Faulty variant of kick_req: the credits do not limit what is sent.
kick_req_NoLimit(s, n, m, tx, cr, drain, rcvd) ==
    /\ num_tx' = [num_tx EXCEPT ![s] = m.pkts]
    /\ credits' = cr - (m.pkts - tx)
    /\ wheel' = wheel
    /\ ClientTx({ReqPkt(s, n, m, k) : k \in tx..(m.pkts - 1)}, {}, drain, rcvd)

\* kick_req_st for request m, number n, of sslot s: tx packets were sent
\* before, cr credits are available.
kick_req(s, n, m, tx, cr, drain, rcvd) ==
    LET sending == MinOf(cr, m.pkts - tx)
        ks == tx..(tx + sending - 1)
    IN  /\ num_tx' = [num_tx EXCEPT ![s] = tx + sending]
        /\ credits' = cr - sending
        /\ \E bypass \in can_bypass_wheel(s) :
             /\ wheel' = IF bypass THEN wheel
                         ELSE [wheel EXCEPT ![s] = @ \cup ks]
             /\ ClientTx(IF bypass THEN {ReqPkt(s, n, m, k) : k \in ks} ELSE {},
                         {}, drain, rcvd)

\* kick_rfr_st: the RPC takes wire packets in all.  RFRs are not paced.
kick_rfr(s, n, wire, tx, cr, drain, rcvd) ==
    LET sending == MinOf(cr, wire - tx)
    IN  /\ num_tx' = [num_tx EXCEPT ![s] = tx + sending]
        /\ credits' = cr - sending
        /\ wheel' = wheel
        /\ ClientTx({}, {RfrPkt(s, n, k) : k \in tx..(tx + sending - 1)},
                    drain, rcvd)

\* The part of enqueue_request after it has popped the free sslot s: make m
\* the active request, then kick it, or stall it if there is no credit.
start_request(s, m, cr, rcvd) ==
    LET n == cur_req_num[s] + 1 IN
    /\ tx_msgbuf' = [tx_msgbuf EXCEPT ![s] = m]
    /\ cur_req_num' = [cur_req_num EXCEPT ![s] = n]
    /\ num_rx' = [num_rx EXCEPT ![s] = 0]
    /\ resp_pkts' = [resp_pkts EXCEPT ![s] = 0]
    /\ resp_data' = [resp_data EXCEPT
                        ![s] = [i \in 0..(MaxRespPkts - 1) |-> NoData]]
    /\ \/ /\ cr > 0
          /\ kick_req(s, n, m, 0, cr, FALSE, rcvd)
          /\ UNCHANGED stallq
       \/ /\ cr = 0
          /\ num_tx' = [num_tx EXCEPT ![s] = 0]
          /\ stallq' = Append(stallq, s)
          /\ credits' = cr
          /\ wheel' = wheel
          /\ ClientTx({}, {}, FALSE, rcvd)

\* enqueue_request with no free sslot: save the request to the backlog.
EnqueueRequestBacklog(pkts) ==
    /\ issued < NumRpcs
    /\ sslot_free = {}
    /\ issued' = issued + 1
    /\ backlog' = Append(backlog, [rpc |-> issued + 1, pkts |-> pkts])
    /\ UNCHANGED <<credits, sslot_free, stallq, wheel, tx_queue, tx_msgbuf,
                   cur_req_num, num_tx, num_rx, resp_pkts, resp_data, result>>
    /\ UNCHANGED serverVars
    /\ UNCHANGED net

\* enqueue_request with a free sslot.
EnqueueRequest(s, pkts) ==
    /\ issued < NumRpcs
    /\ s \in sslot_free
    /\ issued' = issued + 1
    /\ sslot_free' = sslot_free \ {s}
    /\ start_request(s, [rpc |-> issued + 1, pkts |-> pkts], credits, {})
    /\ UNCHANGED <<backlog, result>>
    /\ UNCHANGED serverVars

\* Faulty variants of ProcessCreditStallQueue: without the test for credits, and
\* without the removal from the queue.
ProcessCreditStallQueue_NoCredit ==
    /\ stallq # <<>>
    /\ LET s == Head(stallq) IN
       kick_req(s, cur_req_num[s], tx_msgbuf[s], num_tx[s], credits, FALSE, {})
    /\ stallq' = Tail(stallq)
    /\ UNCHANGED <<sslot_free, backlog, tx_msgbuf, cur_req_num, num_rx,
                   resp_pkts, resp_data, issued, result>>
    /\ UNCHANGED serverVars
\* process_credit_stall_queue_st, one stalled sslot: with a credit, the head
\* of the queue is kicked and leaves it.  (A stalled sslot waits to send its
\* first request packet, so req_pkts_pending holds: see StalledSlotsIdle.)
ProcessCreditStallQueue ==
    /\ stallq # <<>>
    /\ credits > 0
    /\ LET s == Head(stallq) IN
       IF num_tx[s] < tx_msgbuf[s].pkts
       THEN kick_req(s, cur_req_num[s], tx_msgbuf[s], num_tx[s], credits,
                     FALSE, {})
       ELSE kick_rfr(s, cur_req_num[s],
                     wire_pkts(tx_msgbuf[s].pkts, resp_pkts[s]),
                     num_tx[s], credits, FALSE, {})
    /\ stallq' = Tail(stallq)
    /\ UNCHANGED <<sslot_free, backlog, tx_msgbuf, cur_req_num, num_rx,
                   resp_pkts, resp_data, issued, result>>
    /\ UNCHANGED serverVars

\* process_wheel_st, one ready entry: packet k of sslot s leaves the wheel
\* for the TX batch.
ProcessWheel(s, k) ==
    /\ k \in wheel[s]
    /\ wheel' = [wheel EXCEPT ![s] = @ \ {k}]
    /\ IF k < tx_msgbuf[s].pkts
       THEN ClientTx({ReqPkt(s, cur_req_num[s], tx_msgbuf[s], k)}, {}, FALSE, {})
       ELSE ClientTx({}, {RfrPkt(s, cur_req_num[s], num_tx[s])}, FALSE, {})
    /\ UNCHANGED <<credits, sslot_free, backlog, stallq, tx_msgbuf,
                   cur_req_num, num_tx, num_rx, resp_pkts, resp_data, issued,
                   result>>
    /\ UNCHANGED serverVars

\* Retransmission of request packets of sslot s, for the faulty variants of
\* PktLossScan: "reclaimed" credits are given back first.
RollBackReq(s, reclaimed, drain) ==
    /\ tx_msgbuf[s] # NoMsg
    /\ num_tx[s] # num_rx[s]
    /\ wheel[s] = {}
    /\ num_rx[s] < tx_msgbuf[s].pkts
    /\ kick_req(s, cur_req_num[s], tx_msgbuf[s], num_rx[s],
                credits + reclaimed, drain, {})
    /\ UNCHANGED <<sslot_free, backlog, stallq, tx_msgbuf, cur_req_num,
                   num_rx, resp_pkts, resp_data, issued, result>>
    /\ UNCHANGED serverVars

\* Faulty variants of PktLossScan: the credits of the lost packets are not
\* reclaimed; the TX batch and the DMA queue are not drained; nothing is sent
\* after the rollback.
PktLossScan_NoReclaim(s) == RollBackReq(s, 0, TRUE)
PktLossScan_NoDrain(s) == RollBackReq(s, num_tx[s] - num_rx[s], FALSE)
PktLossScan_NoKick(s) ==
    /\ tx_msgbuf[s] # NoMsg
    /\ num_tx[s] # num_rx[s]
    /\ wheel[s] = {}
    /\ num_tx' = [num_tx EXCEPT ![s] = num_rx[s]]
    /\ credits' = credits + (num_tx[s] - num_rx[s])
    /\ ClientTx({}, {}, TRUE, {})
    /\ UNCHANGED <<sslot_free, backlog, stallq, wheel, tx_msgbuf, cur_req_num,
                   num_rx, resp_pkts, resp_data, issued, result>>
    /\ UNCHANGED serverVars

\* pkt_loss_scan_st for one active sslot with packets outstanding whose RTO
\* expired (time is abstracted: it may always have), which runs
\* pkt_loss_retransmit_st and then drains the TX batch and the DMA queue.
\* An sslot that still has packets in the wheel is not rolled back.
PktLossScan(s) ==
    /\ tx_msgbuf[s] # NoMsg
    /\ num_tx[s] # num_rx[s]
    /\ IF wheel[s] # {}
       THEN /\ ClientTx({}, {}, TRUE, {})
            /\ UNCHANGED <<credits, num_tx, wheel>>
       ELSE LET cr == credits + (num_tx[s] - num_rx[s]) IN
            IF num_rx[s] < tx_msgbuf[s].pkts
            THEN kick_req(s, cur_req_num[s], tx_msgbuf[s], num_rx[s], cr,
                          TRUE, {})
            ELSE kick_rfr(s, cur_req_num[s],
                          wire_pkts(tx_msgbuf[s].pkts, resp_pkts[s]),
                          num_rx[s], cr, TRUE, {})
    /\ UNCHANGED <<sslot_free, backlog, stallq, tx_msgbuf, cur_req_num,
                   num_rx, resp_pkts, resp_data, issued, result>>
    /\ UNCHANGED serverVars

-----------------------------------------------------------------------------
(* Client: receiving *)

\* process_expl_cr_st
ProcessExplCR(p) ==
    /\ p \in net
    /\ p.type = ExplCR
    /\ LET s == p.sslot IN
       IF ~in_order_client(p)
       THEN /\ net' = Received({p})
            /\ UNCHANGED clientVars
       ELSE /\ num_rx' = [num_rx EXCEPT ![s] = @ + 1]
            /\ IF num_tx[s] < tx_msgbuf[s].pkts
               THEN kick_req(s, cur_req_num[s], tx_msgbuf[s], num_tx[s],
                             credits + 1, FALSE, {p})
               ELSE /\ credits' = credits + 1
                    /\ ClientTx({}, {}, FALSE, {p})
                    /\ UNCHANGED <<num_tx, wheel>>
            /\ UNCHANGED <<sslot_free, backlog, stallq, tx_msgbuf, cur_req_num,
                           resp_pkts, resp_data, issued, result>>
    /\ UNCHANGED serverVars

\* resp_msgbuf_->num_pkts_ once response packet p has been processed: the
\* first response packet sizes the buffer.
SizedBy(p) ==
    IF p.size = 1 \/ p.pkt_num = tx_msgbuf[p.sslot].pkts - 1
    THEN p.size ELSE resp_pkts[p.sslot]

\* Faulty variant of FilledBy: the packet number is taken for the index.
FilledBy_NoOffset(p) == [resp_data[p.sslot] EXCEPT ![p.pkt_num] = p.data]

\* The contents of resp_msgbuf_ once p has been copied into it.
FilledBy(p) ==
    LET i == IF p.size = 1 THEN 0
             ELSE resp_ntoi(p.pkt_num, tx_msgbuf[p.sslot].pkts)
    IN  [resp_data[p.sslot] EXCEPT ![i] = p.data]

\* Faulty variant of CompletedBy: complete one packet too early.
CompletedBy_Early(p) ==
    num_rx[p.sslot] + 2 >= wire_pkts(tx_msgbuf[p.sslot].pkts, SizedBy(p))

\* The in-order response packet p completes the response.
CompletedBy(p) ==
    \/ p.size = 1
    \/ num_rx[p.sslot] + 1 = wire_pkts(tx_msgbuf[p.sslot].pkts, SizedBy(p))

\* process_resp_one_st, out-of-order packet: drop it.
ProcessRespDrop(p) ==
    /\ p \in net
    /\ p.type = Resp
    /\ ~in_order_client(p)
    /\ net' = Received({p})
    /\ UNCHANGED clientVars
    /\ UNCHANGED serverVars

\* process_resp_one_st, in-order packet of an incomplete response: send the
\* RFRs that are still missing, as far as there are credits.
ProcessRespPartial(p) ==
    /\ p \in net
    /\ p.type = Resp
    /\ in_order_client(p)
    /\ ~CompletedBy(p)
    /\ LET s == p.sslot
           wire == wire_pkts(tx_msgbuf[s].pkts, SizedBy(p))
       IN  /\ num_rx' = [num_rx EXCEPT ![s] = @ + 1]
           /\ resp_pkts' = [resp_pkts EXCEPT ![s] = SizedBy(p)]
           /\ resp_data' = [resp_data EXCEPT ![s] = FilledBy(p)]
           /\ IF num_tx[s] # wire
              THEN kick_rfr(s, cur_req_num[s], wire, num_tx[s], credits + 1,
                            FALSE, {p})
              ELSE /\ credits' = credits + 1
                   /\ ClientTx({}, {}, FALSE, {p})
                   /\ UNCHANGED <<num_tx, wheel>>
    /\ UNCHANGED <<sslot_free, backlog, stallq, tx_msgbuf, cur_req_num, issued,
                   result>>
    /\ UNCHANGED serverVars

\* process_resp_one_st, last packet of the response: free the sslot, start one
\* request of the backlog on it (sslot_free_vec_ is a stack, so the sslot just
\* pushed is the one popped), and invoke the continuation.
ProcessRespComplete(p) ==
    /\ p \in net
    /\ p.type = Resp
    /\ in_order_client(p)
    /\ CompletedBy(p)
    /\ LET s == p.sslot IN
       /\ result' = [result EXCEPT ![tx_msgbuf[s].rpc] =
                        [pkts |-> SizedBy(p), data |-> FilledBy(p)]]
       /\ \/ /\ backlog = <<>>
             /\ tx_msgbuf' = [tx_msgbuf EXCEPT ![s] = NoMsg]
             /\ sslot_free' = sslot_free \cup {s}
             /\ num_rx' = [num_rx EXCEPT ![s] = @ + 1]
             /\ resp_pkts' = [resp_pkts EXCEPT ![s] = SizedBy(p)]
             /\ resp_data' = [resp_data EXCEPT ![s] = FilledBy(p)]
             /\ credits' = credits + 1
             /\ ClientTx({}, {}, FALSE, {p})
             /\ UNCHANGED <<backlog, stallq, cur_req_num, num_tx, wheel>>
          \/ /\ backlog # <<>>
             /\ start_request(s, Head(backlog), credits + 1, {p})
             /\ backlog' = Tail(backlog)
             /\ UNCHANGED sslot_free
    /\ UNCHANGED issued
    /\ UNCHANGED serverVars

-----------------------------------------------------------------------------
(* Server *)

\* A request is complete: req_type_ becomes valid and the request handler is
\* invoked or handed to a background thread.  It runs on the contents of the
\* buffer, whose first chunk tells which RPC it is.
InvokeHandler(s, buf) ==
    /\ req_type' = [req_type EXCEPT ![s] = TRUE]
    /\ serving' = [serving EXCEPT ![s] = buf[0].rpc]
    /\ runs' = [runs EXCEPT ![buf[0].rpc] = @ + 1]

\* The server re-sends packet i of its response, draining the TX queues.
ResendResp(s, i, rcvd) ==
    ServerTx({RespPkt(s, s_cur_req_num[s], s_tx_msgbuf[s], i,
                      sav_num_req_pkts[s])}, {}, TRUE, rcvd)

\* process_small_req_st, a request number that is not new: drop an old one, and
\* re-send the response to the current one if it is available.
ProcessSmallReqOld(p) ==
    /\ p \in net
    /\ p.type = Req /\ p.size = 1
    /\ LET s == p.sslot IN
       /\ p.req_num <= s_cur_req_num[s]
       /\ IF p.req_num = s_cur_req_num[s] /\ s_tx_msgbuf[s] # NoMsg
          THEN ResendResp(s, 0, {p})
          ELSE ServerTx({}, {}, FALSE, {p})
    /\ UNCHANGED <<s_tx_msgbuf, s_cur_req_num, s_num_rx, req_pkts, req_data,
                   req_type, serving, sav_num_req_pkts, runs, answer>>
    /\ UNCHANGED clientVars

\* process_small_req_st, the only packet of a new request.  A background handler
\* gets a copy.  A foreground handler gets, with kZeroCopyRX, a "fake" MsgBuffer
\* over the packet in the RX ring: it has the request for the duration of
\* req_func, that is of this action, and the ring takes the packet's memory back
\* after it, whether or not the handler has called enqueue_response().
ProcessSmallReqNew(p) ==
    /\ p \in net
    /\ p.type = Req /\ p.size = 1
    /\ LET s == p.sslot
           buf == [i \in 0..(MaxReqPkts - 1) |-> IF i = 0 THEN p.data ELSE NoData]
       IN  /\ p.req_num > s_cur_req_num[s]
           /\ s_tx_msgbuf' = [s_tx_msgbuf EXCEPT ![s] = NoMsg]
           /\ s_cur_req_num' = [s_cur_req_num EXCEPT ![s] = p.req_num]
           /\ s_num_rx' = [s_num_rx EXCEPT ![s] = 1]
           /\ req_pkts' = [req_pkts EXCEPT ![s] = 1]
           /\ req_data' = [req_data EXCEPT ![s] =
                  IF p.data.rpc \in Foreground
                  THEN [i \in 0..(MaxReqPkts - 1) |-> NoData] ELSE buf]
           /\ InvokeHandler(s, buf)
    /\ ServerTx({}, {}, FALSE, {p})
    /\ UNCHANGED <<sav_num_req_pkts, answer>>
    /\ UNCHANGED clientVars

\* Faulty variant of in_order_large_req: packets received before are in order.
in_order_large_req_Duplicates(p) ==
    \/ p.req_num = s_cur_req_num[p.sslot] /\ p.pkt_num <= s_num_rx[p.sslot]
    \/ p.req_num = s_cur_req_num[p.sslot] + 1 /\ p.pkt_num = 0

\* process_large_req_one_st: is p the next packet of the current request, or
\* the first of the next one?
in_order_large_req(p) ==
    LET s == p.sslot IN
    \/ p.req_num = s_cur_req_num[s] /\ p.pkt_num = s_num_rx[s]
    \/ p.req_num = s_cur_req_num[s] + 1 /\ p.pkt_num = 0

\* process_large_req_one_st, out of order: past packets of the current request
\* are answered again (a credit return, or the response for the last packet).
ProcessLargeReqOld(p) ==
    /\ p \in net
    /\ p.type = Req /\ p.size > 1
    /\ ~in_order_large_req(p)
    /\ LET s == p.sslot IN
       IF p.req_num # s_cur_req_num[s] \/ p.pkt_num > s_num_rx[s]
       THEN ServerTx({}, {}, FALSE, {p})
       ELSE IF p.pkt_num # p.size - 1
       THEN ServerTx({}, {CrPkt(p)}, FALSE, {p})
       ELSE IF s_tx_msgbuf[s] # NoMsg
       THEN ResendResp(s, 0, {p})
       ELSE ServerTx({}, {}, FALSE, {p})
    /\ UNCHANGED <<s_tx_msgbuf, s_cur_req_num, s_num_rx, req_pkts, req_data,
                   req_type, serving, sav_num_req_pkts, runs, answer>>
    /\ UNCHANGED clientVars

\* process_large_req_one_st, in order: the first packet buries the previous
\* response and allocates the buffer; every packet but the last is acknowledged
\* by a credit return; the packet that completes the request runs the handler.
ProcessLargeReqNext(p) ==
    /\ p \in net
    /\ p.type = Req /\ p.size > 1
    /\ in_order_large_req(p)
    /\ LET s == p.sslot
           first == p.pkt_num = 0
           rx == IF first THEN 1 ELSE s_num_rx[s] + 1
           npkts == IF first THEN p.size ELSE req_pkts[s]
           old == IF first THEN [i \in 0..(MaxReqPkts - 1) |-> NoData]
                  ELSE req_data[s]
           buf == [old EXCEPT ![p.pkt_num] = p.data]
       IN  /\ s_tx_msgbuf' = IF first THEN [s_tx_msgbuf EXCEPT ![s] = NoMsg]
                             ELSE s_tx_msgbuf
           /\ s_cur_req_num' = IF first
                               THEN [s_cur_req_num EXCEPT ![s] = p.req_num]
                               ELSE s_cur_req_num
           /\ s_num_rx' = [s_num_rx EXCEPT ![s] = rx]
           /\ req_pkts' = [req_pkts EXCEPT ![s] = npkts]
           /\ req_data' = [req_data EXCEPT ![s] = buf]
           /\ ServerTx({}, IF p.pkt_num # npkts - 1 THEN {CrPkt(p)} ELSE {},
                       FALSE, {p})
           /\ IF rx = npkts THEN InvokeHandler(s, buf)
              ELSE UNCHANGED <<req_type, serving, runs>>
    /\ UNCHANGED <<sav_num_req_pkts, answer>>
    /\ UNCHANGED clientVars

\* process_rfr_st, an RFR for an old request or a future packet: drop it.
ProcessRFRDrop(p) ==
    /\ p \in net
    /\ p.type = RFR
    /\ \/ p.req_num < s_cur_req_num[p.sslot]
       \/ p.pkt_num > s_num_rx[p.sslot]
    /\ ServerTx({}, {}, FALSE, {p})
    /\ UNCHANGED <<s_tx_msgbuf, s_cur_req_num, s_num_rx, req_pkts, req_data,
                   req_type, serving, sav_num_req_pkts, runs, answer>>
    /\ UNCHANGED clientVars

\* process_rfr_st, the next RFR of the current request, or a past one whose
\* response packet is sent again.
ProcessRFR(p) ==
    /\ p \in net
    /\ p.type = RFR
    /\ p.req_num >= s_cur_req_num[p.sslot]
    /\ p.pkt_num <= s_num_rx[p.sslot]
    /\ LET s == p.sslot
           i == resp_ntoi(p.pkt_num, sav_num_req_pkts[s])
           in_order == p.req_num = s_cur_req_num[s] /\ p.pkt_num = s_num_rx[s]
       IN  IF in_order
           THEN /\ s_num_rx' = [s_num_rx EXCEPT ![s] = @ + 1]
                /\ ServerTx({RespPkt(s, s_cur_req_num[s], s_tx_msgbuf[s], i,
                                     sav_num_req_pkts[s])}, {}, FALSE, {p})
           ELSE /\ s_num_rx' = s_num_rx
                /\ ResendResp(s, i, {p})
    /\ UNCHANGED <<s_tx_msgbuf, s_cur_req_num, req_pkts, req_data, req_type,
                   serving, sav_num_req_pkts, runs, answer>>
    /\ UNCHANGED clientVars

\* enqueue_response with a response of pkts packets, at any time after the
\* handler was invoked: inline, later, or from a background thread's queue.
EnqueueResponse(s, pkts) ==
    /\ req_type[s]
    /\ LET m == [rpc |-> serving[s], pkts |-> pkts] IN
       /\ s_tx_msgbuf' = [s_tx_msgbuf EXCEPT ![s] = m]
       /\ sav_num_req_pkts' = [sav_num_req_pkts EXCEPT ![s] = req_pkts[s]]
       /\ req_pkts' = [req_pkts EXCEPT ![s] = 0]
       /\ req_type' = [req_type EXCEPT ![s] = FALSE]
       /\ serving' = [serving EXCEPT ![s] = 0]
       /\ answer' = [answer EXCEPT ![m.rpc] = pkts]
       /\ ServerTx({RespPkt(s, s_cur_req_num[s], m, 0, req_pkts[s])}, {},
                   FALSE, {})
    /\ UNCHANGED <<s_cur_req_num, s_num_rx, req_data, runs>>
    /\ UNCHANGED clientVars

-----------------------------------------------------------------------------
(* NICs and network *)

\* The client's NIC reads packet p from memory and sends it.
ClientNicSend(p) ==
    /\ p \in tx_queue
    /\ tx_queue' = tx_queue \ {p}
    /\ net' = net \cup {p}
    /\ UNCHANGED <<credits, sslot_free, backlog, stallq, wheel, tx_msgbuf,
                   cur_req_num, num_tx, num_rx, resp_pkts, resp_data, issued,
                   result>>
    /\ UNCHANGED serverVars

\* The server's NIC reads packet p from memory and sends it.
ServerNicSend(p) ==
    /\ p \in s_tx_queue
    /\ s_tx_queue' = s_tx_queue \ {p}
    /\ net' = net \cup {p}
    /\ UNCHANGED <<s_tx_msgbuf, s_cur_req_num, s_num_rx, req_pkts, req_data,
                   req_type, serving, sav_num_req_pkts, runs, answer>>
    /\ UNCHANGED clientVars

\* A packet is lost.  (When Duplicating, a packet is lost by never arriving.)
LosePacket(p) ==
    /\ ~Duplicating
    /\ p \in net
    /\ net' = net \ {p}
    /\ UNCHANGED clientVars
    /\ UNCHANGED serverVars

\* process_comps_st: the handler of packet p, by its type.
ProcessPacket(p) ==
    \/ ProcessExplCR(p)
    \/ ProcessRespDrop(p)
    \/ ProcessRespPartial(p)
    \/ ProcessRespComplete(p)
    \/ ProcessSmallReqOld(p)
    \/ ProcessSmallReqNew(p)
    \/ ProcessLargeReqOld(p)
    \/ ProcessLargeReqNext(p)
    \/ ProcessRFRDrop(p)
    \/ ProcessRFR(p)

Next ==
    \/ \E pkts \in 1..MaxReqPkts : EnqueueRequestBacklog(pkts)
    \/ \E s \in Sslots, pkts \in 1..MaxReqPkts : EnqueueRequest(s, pkts)
    \/ ProcessCreditStallQueue
    \/ \E s \in Sslots : \E k \in wheel[s] : ProcessWheel(s, k)
    \/ \E s \in Sslots : PktLossScan(s)
    \/ \E p \in net : ProcessPacket(p)
    \/ \E s \in Sslots, pkts \in 1..MaxRespPkts : EnqueueResponse(s, pkts)
    \/ \E p \in tx_queue : ClientNicSend(p)
    \/ \E p \in s_tx_queue : ServerNicSend(p)
    \/ \E p \in net : LosePacket(p)

Spec == Init /\ [][Next]_vars

-----------------------------------------------------------------------------
(* Properties *)

\* Type invariant: every variable holds a value of its C++ type (packet
\* counters are naturals: no unsigned subtraction of the handlers wraps).
TypeOK ==
    /\ credits \in Nat
    /\ sslot_free \in SUBSET Sslots
    /\ backlog \in Seq(Msg)
    /\ stallq \in Seq(Sslots)
    /\ wheel \in [Sslots -> SUBSET Nat]
    /\ tx_queue \in SUBSET Packet
    /\ tx_msgbuf \in [Sslots -> Msg]
    /\ cur_req_num \in [Sslots -> Nat]
    /\ num_tx \in [Sslots -> Nat]
    /\ num_rx \in [Sslots -> Nat]
    /\ resp_pkts \in [Sslots -> Nat]
    /\ resp_data \in [Sslots -> RespBuf]
    /\ s_tx_msgbuf \in [Sslots -> Msg]
    /\ s_cur_req_num \in [Sslots -> Nat]
    /\ s_num_rx \in [Sslots -> Nat]
    /\ req_pkts \in [Sslots -> Nat]
    /\ req_data \in [Sslots -> ReqBuf]
    /\ req_type \in [Sslots -> BOOLEAN]
    /\ serving \in [Sslots -> 0..NumRpcs]
    /\ sav_num_req_pkts \in [Sslots -> Nat]
    /\ s_tx_queue \in SUBSET Packet
    /\ net \in SUBSET Packet
    /\ issued \in 0..NumRpcs
    /\ runs \in [Rpcs -> Nat]
    /\ answer \in [Rpcs -> Nat]

\* The client packets that were sent (or wait in the wheel) and not answered.
Outstanding ==
    UNION {{s} \X (num_rx[s]..(num_tx[s] - 1)) : s \in Sslots}

\* No credit is lost, forged or counted twice, whatever is lost, duplicated,
\* retransmitted or paced: the session's credits plus the packets outstanding
\* are always kSessionCredits.  It gives the assertions
\* "credits_ < kSessionCredits" of bump_credits and
\* "credits + delta <= kSessionCredits" of pkt_loss_retransmit_st.
CreditConservation == credits + Cardinality(Outstanding) = Credits

\* Client packet counters are consistent with the request: nothing is sent
\* beyond the request before the response is sized, nor beyond the RPC's
\* wire packets afterwards (the unsigned subtractions of kick_req_st and
\* kick_rfr_st, and kick_rfr_st's asserts).
CountersInRange ==
    \A s \in Sslots : tx_msgbuf[s] # NoMsg =>
        /\ num_rx[s] <= num_tx[s]
        /\ num_rx[s] < tx_msgbuf[s].pkts => num_tx[s] <= tx_msgbuf[s].pkts
        /\ num_rx[s] >= tx_msgbuf[s].pkts =>
             /\ resp_pkts[s] > 1
             /\ num_rx[s] < wire_pkts(tx_msgbuf[s].pkts, resp_pkts[s])
             /\ num_tx[s] <= wire_pkts(tx_msgbuf[s].pkts, resp_pkts[s])

\* A request packet never skips a request number, and when the first packet of
\* a new request arrives the server is done with the previous one: its request
\* MsgBuffer is buried and no enqueue_response() is pending (the asserts of
\* process_small_req_st and process_large_req_one_st).
NewRequestFindsServerIdle ==
    \A p \in net : p.type = Req =>
        /\ p.req_num <= s_cur_req_num[p.sslot] + 1
        /\ p.req_num = s_cur_req_num[p.sslot] + 1 =>
              req_pkts[p.sslot] = 0 /\ ~req_type[p.sslot]

\* An RFR that process_rfr_st does not drop finds the response: the server has
\* not buried it, knows the request's length, and the index is in the response.
RfrFindsResponse ==
    \A p \in net : p.type = RFR =>
        /\ p.req_num <= s_cur_req_num[p.sslot]
        /\ p.req_num = s_cur_req_num[p.sslot] =>
              /\ s_tx_msgbuf[p.sslot] # NoMsg
              /\ resp_ntoi(p.pkt_num, sav_num_req_pkts[p.sslot])
                    \in 1..(s_tx_msgbuf[p.sslot].pkts - 1)

\* The client never hears of a request it has not sent (the asserts of
\* process_resp_one_st and process_expl_cr_st), and an in-order credit return
\* is never taken for the last request packet's answer.
RepliesMatchRequests ==
    \A p \in net : p.type \in {ExplCR, Resp} =>
        /\ p.req_num <= cur_req_num[p.sslot]
        /\ p.req_num = cur_req_num[p.sslot] /\ tx_msgbuf[p.sslot] # NoMsg =>
              (p.type = Resp) = (p.pkt_num >= tx_msgbuf[p.sslot].pkts - 1)

\* A request of one packet with a foreground handler is only lent to it:
\* process_small_req_st "restricts ownership of the request msgbuf to the
\* duration of req_func".
Lent(s) == req_pkts[s] = 1 /\ serving[s] \in Foreground

\* While enqueue_response() is pending the response slot is empty and the
\* request that the handler was invoked for is still there, complete and
\* untouched by retransmissions and by packets of other requests.  The exception
\* is a lent request: once its handler has returned nothing of it is left, so a
\* foreground handler that answers later must have copied what it needs.
PendingRequestIntact ==
    \A s \in Sslots : req_type[s] =>
        /\ s_tx_msgbuf[s] = NoMsg
        /\ req_pkts[s] > 0
        /\ ~Lent(s) => \A i \in 0..(req_pkts[s] - 1) :
                          req_data[s][i] = [rpc |-> serving[s], idx |-> i]

\* A free sslot is inactive and nothing refers to it: it is not stalled and has
\* no packet in the wheel ("All references to sslot must have been removed
\* previously"); and requests are backlogged only while no sslot is free.
FreeSlotsUnreferenced ==
    /\ \A s \in Sslots : s \in sslot_free <=> tx_msgbuf[s] = NoMsg
    /\ \A s \in sslot_free : wheel[s] = {} /\ \A i \in DOMAIN stallq : stallq[i] # s
    /\ backlog # <<>> => sslot_free = {}

\* No packet waiting in a TX batch or a DMA queue refers to a MsgBuffer that
\* the sslot has given up: the client returned it to the application, or the
\* server buried it ("The TX batch or DMA queue cannot contain a reference
\* because we drain it after retransmission").
NoDanglingTx ==
    /\ \A p \in tx_queue : tx_msgbuf[p.sslot].rpc = p.data.rpc
    /\ \A p \in s_tx_queue : s_tx_msgbuf[p.sslot].rpc = p.data.rpc

\* An active request that has nothing outstanding is in the stall queue:
\* pkt_loss_scan_st skips it, so nothing else would ever send its packets.
NoStrandedSlot ==
    \A s \in Sslots :
        tx_msgbuf[s] # NoMsg /\ num_tx[s] = num_rx[s] =>
            \E i \in DOMAIN stallq : stallq[i] = s

\* A stalled sslot is active, has sent nothing and is stalled once ("We have
\* num_tx > num_rx, so stallq cannot contain sslot").
StalledSlotsIdle ==
    \A i \in DOMAIN stallq :
        /\ tx_msgbuf[stallq[i]] # NoMsg
        /\ num_tx[stallq[i]] = 0 /\ num_rx[stallq[i]] = 0
        /\ \A j \in DOMAIN stallq : i # j => stallq[i] # stallq[j]

\* When the user may destroy the session (all its sslots are free), the server
\* is done with every request and has sent every packet of its last responses:
\* the asserts of handle_disconnect_req_st, which then frees the server's
\* MsgBuffers.
DisconnectFindsServerIdle ==
    sslot_free = Sslots =>
        \A s \in Sslots :
            /\ req_pkts[s] = 0 /\ ~req_type[s]
            /\ s_tx_msgbuf[s] # NoMsg =>
                 s_num_rx[s] = wire_pkts(sav_num_req_pkts[s], s_tx_msgbuf[s].pkts)

\* in_wheel_ is indexed modulo kSessionCredits: packets of one sslot in the
\* wheel never share an index, and all of them are outstanding.
WheelIndexUnique ==
    \A s \in Sslots :
        /\ \A e \in wheel[s] : num_rx[s] <= e /\ e < num_tx[s]
        /\ \A e, f \in wheel[s] : e # f => e % Credits # f % Credits

\* What the continuation is given is the whole response its handler produced.
ResponseIntact ==
    \A r \in Rpcs : result[r] # NoResult =>
        /\ result[r].pkts = answer[r]
        /\ \A i \in 0..(answer[r] - 1) :
              result[r].data[i] = [rpc |-> r, idx |-> i]

\* Within one request the window only moves forward: a retransmission re-sends
\* at least what had been sent, so num_tx never ends a step lower.
WindowMovesForward ==
    [][\A s \in Sslots : cur_req_num'[s] = cur_req_num[s] =>
          num_tx'[s] >= num_tx[s] /\ num_rx'[s] >= num_rx[s]]_vars

\* The abstract service: every RPC is executed and answered exactly once.
Service == INSTANCE ExactlyOnceRpc
    WITH result <- [r \in Rpcs |-> result[r].pkts]
ServiceSpec == Service!Spec

-----------------------------------------------------------------------------
(* Liveness *)

\* The client packet the RPC on sslot s waits for the server to see, and the
\* reply it waits for.
NeededByServer(s, p) ==
    p.type \in {Req, RFR} /\ p.sslot = s /\ p.req_num = cur_req_num[s]
        /\ p.pkt_num = num_rx[s]
NeededByClient(s, p) ==
    p.type \in {ExplCR, Resp} /\ p.sslot = s /\ in_order_client(p)

\* The event loops run forever, so the queues, the wheel and the loss scan are
\* always served; NICs send what they were given; handlers answer.  The links
\* are fair-lossy: of a packet that is sent over and over, copies arrive.  It
\* is enough to ask this of the packets an RPC waits for.
Fairness ==
    /\ WF_vars(ProcessCreditStallQueue)
    /\ WF_vars(\E p \in tx_queue : ClientNicSend(p))
    /\ WF_vars(\E p \in s_tx_queue : ServerNicSend(p))
    /\ \A s \in Sslots :
         /\ WF_vars(PktLossScan(s))
         /\ WF_vars(\E k \in wheel[s] : ProcessWheel(s, k))
         /\ WF_vars(\E pkts \in 1..MaxRespPkts : EnqueueResponse(s, pkts))
         /\ SF_vars(\E p \in net : NeededByServer(s, p) /\ ProcessPacket(p))
         /\ SF_vars(\E p \in net : NeededByClient(s, p) /\ ProcessPacket(p))

FairSpec == Spec /\ Fairness

\* Every RPC the application issues is eventually answered, although packets
\* are lost: through the backlog, the stall queue and retransmission.  (Results
\* stay: that none is outstanding again and again says this of each.)
EveryRpcCompletes == []<>(\A r \in Rpcs : issued >= r => result[r] # NoResult)

-----------------------------------------------------------------------------
(* The inductive invariant, as a conjunction of named parts: what the      *)
(* client's sslots, the server's sslots, the packets in flight and the     *)
(* credits have to do with each other.                                     *)

Active(s) == tx_msgbuf[s] # NoMsg

\* The length of the server's current request on s: kept in the request
\* MsgBuffer until enqueue_response() buries it, saved in the sslot afterwards.
SrvReqPkts(s) == IF req_pkts[s] > 0 THEN req_pkts[s] ELSE sav_num_req_pkts[s]

\* The four stages of a server sslot.
SrvFresh(s) ==
    /\ s_cur_req_num[s] = 0 /\ s_num_rx[s] = 0 /\ req_pkts[s] = 0
    /\ sav_num_req_pkts[s] = 0 /\ ~req_type[s] /\ s_tx_msgbuf[s] = NoMsg
SrvReceiving(s) ==
    /\ s_cur_req_num[s] > 0 /\ ~req_type[s] /\ s_tx_msgbuf[s] = NoMsg
    /\ 1 <= s_num_rx[s] /\ s_num_rx[s] < req_pkts[s]
SrvPending(s) ==
    /\ s_cur_req_num[s] > 0 /\ req_type[s] /\ s_tx_msgbuf[s] = NoMsg
    /\ req_pkts[s] > 0 /\ s_num_rx[s] = req_pkts[s]
SrvDone(s) ==
    /\ s_cur_req_num[s] > 0 /\ ~req_type[s] /\ req_pkts[s] = 0
    /\ sav_num_req_pkts[s] > 0 /\ s_tx_msgbuf[s].pkts > 0
    /\ sav_num_req_pkts[s] <= s_num_rx[s]
    /\ s_num_rx[s] <= wire_pkts(sav_num_req_pkts[s], s_tx_msgbuf[s].pkts)

\* The server has sent every packet of its response.
SrvAllSent(s) ==
    s_num_rx[s] = wire_pkts(sav_num_req_pkts[s], s_tx_msgbuf[s].pkts)

SrvInv(s) == SrvFresh(s) \/ SrvReceiving(s) \/ SrvPending(s) \/ SrvDone(s)
ServerInv == \A s \in Sslots : SrvInv(s)

\* A client sslot: its counters, the stall queue and the wheel.
CliInv(s) ==
    /\ num_rx[s] <= num_tx[s]
    /\ Active(s) =>
         /\ s \notin sslot_free
         /\ tx_msgbuf[s].pkts > 0
         /\ num_rx[s] < tx_msgbuf[s].pkts => num_tx[s] <= tx_msgbuf[s].pkts
         /\ num_rx[s] >= tx_msgbuf[s].pkts =>
              /\ resp_pkts[s] > 1
              /\ num_rx[s] < wire_pkts(tx_msgbuf[s].pkts, resp_pkts[s])
              /\ num_tx[s] <= wire_pkts(tx_msgbuf[s].pkts, resp_pkts[s])
         /\ num_tx[s] = num_rx[s] => \E i \in 1..Len(stallq) : stallq[i] = s
    /\ ~Active(s) =>
         /\ s \in sslot_free
         /\ num_tx[s] = num_rx[s]
    /\ \A e \in wheel[s] :
         num_rx[s] <= e /\ e < num_tx[s] /\ e < tx_msgbuf[s].pkts
    /\ ~Pacing => wheel[s] = {}
ClientInv == \A s \in Sslots : CliInv(s)

\* The stall queue holds active sslots that have sent nothing, each once; the
\* backlog holds real requests, and is empty while an sslot is free.
StallqInv ==
    \A i \in 1..Len(stallq) :
        /\ Active(stallq[i])
        /\ num_tx[stallq[i]] = 0
        /\ \A j \in 1..Len(stallq) : i # j => stallq[i] # stallq[j]
BacklogInv ==
    /\ \A i \in 1..Len(backlog) : backlog[i].pkts > 0
    /\ backlog # <<>> => sslot_free = {}

\* How far apart the two ends of an sslot can be: the client is at most one
\* request ahead, and only once the server is done with the previous one; when
\* the client has the whole response, the server has sent all of it.
PairSlotInv(s) ==
    /\ s_cur_req_num[s] <= cur_req_num[s]
    /\ cur_req_num[s] <= s_cur_req_num[s] + 1
    /\ cur_req_num[s] = s_cur_req_num[s] + 1 =>
         /\ Active(s)
         /\ num_rx[s] = 0
         /\ SrvFresh(s) \/ SrvDone(s)
    /\ cur_req_num[s] = s_cur_req_num[s] /\ Active(s) =>
         /\ s_cur_req_num[s] > 0
         /\ tx_msgbuf[s].pkts = SrvReqPkts(s)
         /\ num_rx[s] <= s_num_rx[s]
         /\ s_num_rx[s] <= num_tx[s]
         /\ num_rx[s] >= tx_msgbuf[s].pkts =>
              SrvDone(s) /\ resp_pkts[s] = s_tx_msgbuf[s].pkts
    /\ cur_req_num[s] = s_cur_req_num[s] /\ ~Active(s) =>
         SrvFresh(s) \/ (SrvDone(s) /\ SrvAllSent(s))
PairInv == \A s \in Sslots : PairSlotInv(s)

\* A request packet that was sent: it is of a request the client has issued,
\* and agrees with both ends on that request's length.
ReqPktInv(p) ==
    LET s == p.sslot IN
    /\ 0 < p.req_num
    /\ p.req_num <= cur_req_num[s]
    /\ p.pkt_num < p.size
    /\ p.req_num = cur_req_num[s] /\ Active(s) =>
         p.size = tx_msgbuf[s].pkts /\ p.pkt_num < num_tx[s]
    /\ p.req_num = s_cur_req_num[s] => p.size = SrvReqPkts(s)

\* A request for response: the server has the response packet it asks for.
RfrPktInv(p) ==
    LET s == p.sslot IN
    /\ 0 < p.req_num
    /\ p.req_num <= s_cur_req_num[s]
    /\ p.req_num = s_cur_req_num[s] =>
         /\ SrvDone(s)
         /\ sav_num_req_pkts[s] <= p.pkt_num
         /\ p.pkt_num < wire_pkts(sav_num_req_pkts[s], s_tx_msgbuf[s].pkts)
         /\ cur_req_num[s] = s_cur_req_num[s] /\ Active(s) => p.pkt_num < num_tx[s]

\* A credit return: for a request packet the server received, not the last.
CrPktInv(p) ==
    LET s == p.sslot IN
    /\ 0 < p.req_num
    /\ p.req_num <= s_cur_req_num[s]
    /\ p.req_num = s_cur_req_num[s] =>
         p.pkt_num < s_num_rx[s] /\ p.pkt_num + 1 < SrvReqPkts(s)

\* A response packet: cut from the response the server still holds.
RespPktInv(p) ==
    LET s == p.sslot IN
    /\ 0 < p.req_num
    /\ p.req_num <= s_cur_req_num[s]
    /\ p.req_num = s_cur_req_num[s] =>
         /\ SrvDone(s)
         /\ p.size = s_tx_msgbuf[s].pkts
         /\ sav_num_req_pkts[s] - 1 <= p.pkt_num
         /\ p.pkt_num < s_num_rx[s]

PktInv(p) ==
    /\ p.type = Req => ReqPktInv(p)
    /\ p.type = RFR => RfrPktInv(p)
    /\ p.type = ExplCR => CrPktInv(p)
    /\ p.type = Resp => RespPktInv(p)
NetInv == \A p \in net \cup tx_queue \cup s_tx_queue : PktInv(p)

\* The TX queues hold packets of MsgBuffers only; headers are not kept there.
TxQueueInv ==
    /\ \A p \in tx_queue : p.type = Req
    /\ \A p \in s_tx_queue : p.type = Resp

CreditInv == IsFiniteSet(Outstanding) /\ CreditConservation

\* The inductive invariant.
IInv ==
    /\ TypeOK
    /\ ClientInv /\ StallqInv /\ BacklogInv /\ CreditInv
    /\ ServerInv /\ PairInv
    /\ NetInv /\ TxQueueInv

-----------------------------------------------------------------------------
(* The data the protocol carries: a second layer, on top of IInv *)

\* Nothing has happened to RPC r since it was issued.
Untouched(r) == runs[r] = 0 /\ answer[r] = 0 /\ result[r] = NoResult

\* The client's end of an RPC: nobody else holds it, it has not been completed,
\* and the response packets received so far are in their places.
CliData(s) ==
    Active(s) =>
        LET m == tx_msgbuf[s] IN
        /\ m.rpc \in 1..issued /\ m.pkts <= MaxReqPkts
        /\ result[m.rpc] = NoResult
        /\ \A t \in Sslots : Active(t) /\ tx_msgbuf[t].rpc = m.rpc => t = s
        /\ \A i \in 0..(num_rx[s] - m.pkts) :
             resp_data[s][i] = [rpc |-> m.rpc, idx |-> i]

\* The server's end: once it has seen a packet of the client's request, what it
\* has received, executed and answered is that request.
SrvData(s) ==
    LET r == tx_msgbuf[s].rpc IN
    /\ s_tx_msgbuf[s].pkts <= MaxRespPkts
    /\ Active(s) /\ cur_req_num[s] # s_cur_req_num[s] => runs[r] = 0 /\ answer[r] = 0
    /\ Active(s) /\ cur_req_num[s] = s_cur_req_num[s] =>
         /\ runs[r] = IF req_pkts[s] > 0 /\ ~req_type[s] THEN 0 ELSE 1
         /\ answer[r] = s_tx_msgbuf[s].pkts
         /\ req_pkts[s] = 0 => s_tx_msgbuf[s].rpc = r
         /\ req_type[s] => serving[s] = r
         /\ req_pkts[s] > 0 /\ ~(req_pkts[s] = 1 /\ r \in Foreground) =>
              \A i \in 0..(s_num_rx[s] - 1) : req_data[s][i] = [rpc |-> r, idx |-> i]

\* A backlogged RPC is held by the backlog only, once, and nothing has
\* happened to it.
BacklogData(i) ==
    LET m == backlog[i] IN
    /\ m.rpc \in 1..issued /\ m.pkts <= MaxReqPkts
    /\ Untouched(m.rpc)
    /\ \A s \in Sslots : Active(s) => tx_msgbuf[s].rpc # m.rpc
    /\ \A j \in 1..Len(backlog) : backlog[j].rpc = m.rpc => j = i

\* A packet carries the chunk of the message that its header says.
PktData(p) ==
    LET s == p.sslot IN
    /\ p.type = Req =>
         /\ p.data.idx = p.pkt_num
         /\ p.req_num = cur_req_num[s] /\ Active(s) => p.data.rpc = tx_msgbuf[s].rpc
    /\ p.type = Resp /\ p.req_num = s_cur_req_num[s] =>
         p.data = [rpc |-> s_tx_msgbuf[s].rpc,
                   idx |-> resp_ntoi(p.pkt_num, sav_num_req_pkts[s])]

\* What the continuations were given.
ResultType == result \in [Rpcs -> [pkts : Nat, data : RespBuf \cup {<<>>}]]

DataInv ==
    /\ ResultType
    /\ \A s \in Sslots : CliData(s) /\ SrvData(s)
    /\ \A i \in 1..Len(backlog) : BacklogData(i)
    /\ \A r \in Rpcs : r > issued => Untouched(r)
    /\ \A p \in net \cup tx_queue \cup s_tx_queue : PktData(p)
    /\ ResponseIntact

\* A packet in a TX queue was never sent before (retransmission drains the
\* queues), so its receiver still waits for it and its MsgBuffer is in use.
\* With pacing this fails at the client: a packet that is sent again waits in
\* the wheel and then in the TX batch, while the reply to its first copy may
\* arrive.
SrvQueued(p) ==
    LET s == p.sslot IN
    /\ p.req_num = s_cur_req_num[s] /\ s_cur_req_num[s] = cur_req_num[s] /\ Active(s)
    /\ num_rx[s] <= p.pkt_num
    /\ p \notin net
CliQueued(p) ==
    LET s == p.sslot IN
    /\ p.req_num = cur_req_num[s] /\ Active(s)
    /\ s_cur_req_num[s] = cur_req_num[s] => s_num_rx[s] <= p.pkt_num
    /\ p \notin net

ServerQueueInv == \A p \in s_tx_queue : SrvQueued(p)
ClientQueueInv == ~Pacing => \A p \in tx_queue : CliQueued(p)

\* When the client has gone on to its next request, the server has sent every
\* packet of the response to the previous one.
AheadInv ==
    \A s \in Sslots : cur_req_num[s] = s_cur_req_num[s] + 1 =>
        SrvFresh(s) \/ (SrvDone(s) /\ SrvAllSent(s))

QueueInv == ServerQueueInv /\ ClientQueueInv /\ AheadInv

\* The whole invariant: what the ends, the packets, the data and the queues
\* have to do with each other.
DInv == IInv /\ DataInv /\ QueueInv

\* The sslots of a session are interchangeable.
Symmetry == Permutations(Sslots)
=============================================================================
