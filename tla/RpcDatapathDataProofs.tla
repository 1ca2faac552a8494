----------------------- MODULE RpcDatapathDataProofs -----------------------
(***************************************************************************)
(* Proofs about the data the datapath carries, on top of the invariant of  *)
(* the protocol (RpcDatapathProofs): requests and responses arrive intact, *)
(* every RPC is executed and answered exactly once, and packets in the TX  *)
(* queues refer to MsgBuffers that are in use.                             *)
(*                                                                         *)
(* Most steps are quiet: they move packets and advance counters, and touch *)
(* no message (DataQuiet).  The others start a request (DataStart),        *)
(* complete one, or change one sslot of the server (DataServe).            *)
(***************************************************************************)
EXTENDS RpcDatapathProofs

AllPkts == net \cup tx_queue \cup s_tx_queue

USE SslotsAssumption, CreditsAssumption, BoundsAssumption, SwitchesAssumption

-----------------------------------------------------------------------------
(* Packets *)

\* The packets an end cuts from its current message carry what they say.
LEMMA ReqPktData ==
  ASSUME NEW s, NEW n, NEW m, NEW k, (n = cur_req_num'[s] => tx_msgbuf'[s].rpc = m.rpc)
  PROVE  PktData(ReqPkt(s, n, m, k))'
BY DEF PktData, ReqPkt, Req, Resp

LEMMA ReqPktDataNow ==
  ASSUME NEW s, NEW k
  PROVE  PktData(ReqPkt(s, cur_req_num[s], tx_msgbuf[s], k))
BY DEF PktData, ReqPkt, Req, Resp

LEMMA HdrData ==
  ASSUME NEW q, q.type \in {RFR, ExplCR}
  PROVE  PktData(q)
BY DEF PktData, Req, RFR, ExplCR, Resp

LEMMA RespPktData ==
  ASSUME TypeOK, NEW s \in Sslots, NEW i \in Int
  PROVE  PktData(RespPkt(s, s_cur_req_num[s], s_tx_msgbuf[s], i, sav_num_req_pkts[s]))
<1>1. sav_num_req_pkts[s] \in Nat
  BY SlotTypes
<1>2. resp_ntoi(sav_num_req_pkts[s] - 1 + i, sav_num_req_pkts[s]) = i
  BY <1>1 DEF resp_ntoi
<1> QED
  BY <1>2 DEF PktData, RespPkt, Req, Resp

\* The client sent packets that carry what they say.
DataSent == \E New : ClientSent(New) /\ \A p \in New : PktData(p)

\* The client sent packets of request m, number n, of sslot s.
ReqSent(s, n, m) ==
    \E New : ClientSent(New) /\ \A p \in New : \E k : p = ReqPkt(s, n, m, k)

\* What kick_req_st and kick_rfr_st send, whatever the credits allow.
LEMMA KickReqSent ==
  ASSUME NEW s, NEW n, NEW m, NEW tx \in Nat, NEW cr, NEW drain, NEW rcvd,
         kick_req(s, n, m, tx, cr, drain, rcvd)
  PROVE  ReqSent(s, n, m)
<1> DEFINE ks == tx..(tx + MinOf(cr, m.pkts - tx) - 1)
<1>1. PICK bypass \in can_bypass_wheel(s) :
        ClientTx(IF bypass THEN {ReqPkt(s, n, m, k) : k \in ks} ELSE {}, {}, drain, rcvd)
  BY DEF kick_req
<1> HIDE DEF ks
<1>2. PICK ps : ps = IF bypass THEN {ReqPkt(s, n, m, k) : k \in ks} ELSE {}
  OBVIOUS
<1>3. \A p \in ps : p.type = Req /\ \E k : p = ReqPkt(s, n, m, k)
  BY <1>2 DEF ReqPkt
<1>4. ClientSent(ps \cup {})
  BY <1>1, <1>2, <1>3, ClientTxSent
<1> QED
  BY <1>3, <1>4 DEF ReqSent

LEMMA KickReqData ==
  ASSUME NEW s, NEW n, NEW m, NEW tx \in Nat, NEW cr, NEW drain, NEW rcvd,
         n = cur_req_num[s], m = tx_msgbuf[s], kick_req(s, n, m, tx, cr, drain, rcvd)
  PROVE  DataSent
<1>1. ReqSent(s, n, m)
  BY KickReqSent
<1>n. PICK New : ClientSent(New) /\ \A p \in New : \E k : p = ReqPkt(s, n, m, k)
  BY <1>1 DEF ReqSent
<1>2. \A p \in New : PktData(p)
  BY <1>n, ReqPktDataNow
<1> QED
  BY <1>n, <1>2 DEF DataSent

LEMMA KickRfrData ==
  ASSUME NEW s, NEW n, NEW wire, NEW tx, NEW cr, NEW drain, NEW rcvd,
         kick_rfr(s, n, wire, tx, cr, drain, rcvd)
  PROVE  DataSent
<1>1. PICK hs : /\ hs = {RfrPkt(s, n, k) : k \in tx..(tx + MinOf(cr, wire - tx) - 1)}
                /\ ClientTx({}, hs, drain, rcvd)
  BY DEF kick_rfr
<1>2. \A p \in hs : PktData(p)
  BY <1>1, HdrData DEF RfrPkt
<1>3. ClientSent({} \cup hs)
  BY <1>1, ClientTxSent
<1> QED
  BY <1>2, <1>3 DEF DataSent

LEMMA NoneData ==
  ASSUME NEW drain, NEW rcvd, ClientTx({}, {}, drain, rcvd)
  PROVE  DataSent
BY ClientTxNone DEF DataSent

-----------------------------------------------------------------------------
(* Quiet steps *)

\* The messages of both ends and the history of the RPCs.
dataVars == <<tx_msgbuf, cur_req_num, backlog, issued, result, s_tx_msgbuf,
              s_cur_req_num, req_pkts, req_data, req_type, serving,
              sav_num_req_pkts, runs, answer>>

\* The response packets the client has received on s are in their places.
RespPrefix(s) ==
    Active(s) => \A i \in 0..(num_rx[s] - tx_msgbuf[s].pkts) :
                    resp_data[s][i] = [rpc |-> tx_msgbuf[s].rpc, idx |-> i]

\* A step that touches no message keeps the data invariant, if it sends valid
\* packets and does not overrun what was received.
LEMMA DataQuiet ==
  ASSUME DataInv, UNCHANGED dataVars, NEW New, \A p \in New : PktData(p),
         AllPkts' \subseteq AllPkts \cup New,
         \A s \in Sslots : RespPrefix(s)',
         \A s \in Sslots : req_pkts[s] > 0 => s_num_rx'[s] = s_num_rx[s]
  PROVE  DataInv'
<1> USE DEF dataVars
<1>1. ASSUME NEW s \in Sslots PROVE CliData(s)' /\ SrvData(s)'
  <2>1. CliData(s) /\ SrvData(s)
    BY DEF DataInv
  <2>2. CliData(s)'
    BY <2>1 DEF CliData, RespPrefix, Active
  <2>3. SrvData(s)'
    BY <2>1 DEF SrvData, Active
  <2> QED
    BY <2>2, <2>3
<1>2. ASSUME NEW i \in 1..Len(backlog') PROVE BacklogData(i)'
  BY <1>2 DEF DataInv, BacklogData, Untouched, Active
<1>3. \A r \in Rpcs : r > issued' => Untouched(r)'
  BY DEF DataInv, Untouched
<1>4. ASSUME NEW p \in AllPkts' PROVE PktData(p)'
  <2>1. PktData(p)
    BY <1>4 DEF DataInv, AllPkts
  <2> QED
    BY <2>1 DEF PktData, Active
<1>5. ResponseIntact' /\ ResultType'
  BY DEF DataInv, ResponseIntact, ResultType
<1> QED
  BY <1>1, <1>2, <1>3, <1>4, <1>5 DEF DataInv, AllPkts

\* A step that only moves packets.
LEMMA DataMove ==
  ASSUME DataInv, UNCHANGED dataVars, UNCHANGED <<num_rx, resp_data, s_num_rx>>,
         NEW New, \A p \in New : PktData(p), AllPkts' \subseteq AllPkts \cup New
  PROVE  DataInv'
<1>1. \A s \in Sslots : RespPrefix(s)'
  BY DEF DataInv, CliData, RespPrefix, Active, dataVars
<1> QED
  BY <1>1, DataQuiet

\* The client sends packets of its requests and headers; the server's queue is
\* as it was.
LEMMA DataClientSend ==
  ASSUME DataInv, UNCHANGED <<tx_msgbuf, cur_req_num, backlog, issued, result>>,
         UNCHANGED serverVars, \A s \in Sslots : RespPrefix(s)', DataSent
  PROVE  DataInv'
<1>1. PICK New : ClientSent(New) /\ \A p \in New : PktData(p)
  BY DEF DataSent
<1>2. AllPkts' \subseteq AllPkts \cup New
  BY <1>1 DEF ClientSent, AllPkts, serverVars
<1>3. UNCHANGED dataVars /\ s_num_rx' = s_num_rx
  BY DEF dataVars, serverVars
<1> QED
  BY <1>1, <1>2, <1>3, DataQuiet

\* Nothing was received: the responses are as they were.
LEMMA PrefixUnchanged ==
  ASSUME DataInv, UNCHANGED <<tx_msgbuf, num_rx, resp_data>>
  PROVE  \A s \in Sslots : RespPrefix(s)'
BY DEF DataInv, CliData, RespPrefix, Active

LEMMA DataProcessCreditStallQueue ==
  ASSUME IInv, DataInv, ProcessCreditStallQueue
  PROVE  DataInv'
<1>0. TypeOK /\ StallqInv
  BY DEF IInv
<1>1. PICK s \in Sslots : s = Head(stallq) /\ s = stallq[1] /\ 1 \in 1..Len(stallq)
  BY <1>0, HeadTail DEF ProcessCreditStallQueue, TypeOK
<1>2. num_tx[s] = 0 /\ tx_msgbuf[s].pkts > 0
  BY <1>0, <1>1 DEF StallqInv, IInv, ClientInv, CliInv
<1>n. PICK n : n = cur_req_num[s]
  OBVIOUS
<1>m. PICK m : m = tx_msgbuf[s]
  OBVIOUS
<1>t. PICK tx \in Nat : tx = num_tx[s]
  BY <1>2
<1>c. PICK cr : cr = credits
  OBVIOUS
<1>3. kick_req(s, n, m, tx, cr, FALSE, {})
  BY <1>1, <1>2, <1>n, <1>m, <1>c, <1>t DEF ProcessCreditStallQueue
<1>4. DataSent
  BY <1>3, <1>n, <1>m, KickReqData
<1>5. \A t \in Sslots : RespPrefix(t)'
  BY PrefixUnchanged DEF ProcessCreditStallQueue
<1> QED
  BY <1>4, <1>5, DataClientSend DEF ProcessCreditStallQueue

LEMMA DataProcessWheel ==
  ASSUME IInv, DataInv, NEW s \in Sslots, NEW k \in wheel[s], ProcessWheel(s, k)
  PROVE  DataInv'
<1>1. \A t \in Sslots : RespPrefix(t)'
  BY PrefixUnchanged DEF ProcessWheel
<1>2. DataSent
  <2>1. CASE k < tx_msgbuf[s].pkts
    <3>q. PICK q : q = ReqPkt(s, cur_req_num[s], tx_msgbuf[s], k)
      OBVIOUS
    <3>1. ClientTx({q}, {}, FALSE, {})
      BY <2>1, <3>q DEF ProcessWheel
    <3>2. q.type = Req
      BY <3>q DEF ReqPkt
    <3>3. PktData(q)
      BY <3>q, ReqPktDataNow
    <3>4. ClientSent({q} \cup {})
      BY <3>1, <3>2, ClientTxSent
    <3> QED
      BY <3>3, <3>4 DEF DataSent
  <2>2. CASE ~(k < tx_msgbuf[s].pkts)
    <3>q. PICK q : q = RfrPkt(s, cur_req_num[s], num_tx[s])
      OBVIOUS
    <3>1. ClientTx({}, {q}, FALSE, {})
      BY <2>2, <3>q DEF ProcessWheel
    <3>2. PktData(q)
      BY <3>q, HdrData DEF RfrPkt
    <3>3. ClientSent({} \cup {q})
      BY <3>1, ClientTxSent
    <3> QED
      BY <3>2, <3>3 DEF DataSent
  <2> QED
    BY <2>1, <2>2
<1> QED
  BY <1>1, <1>2, DataClientSend DEF ProcessWheel

LEMMA DataPktLossScan ==
  ASSUME IInv, DataInv, NEW s \in Sslots, PktLossScan(s)
  PROVE  DataInv'
<1>1. \A t \in Sslots : RespPrefix(t)'
  BY PrefixUnchanged DEF PktLossScan
<1>n. PICK n, m, cr, wire :
        /\ n = cur_req_num[s] /\ m = tx_msgbuf[s]
        /\ cr = credits + (num_tx[s] - num_rx[s])
        /\ wire = wire_pkts(tx_msgbuf[s].pkts, resp_pkts[s])
  OBVIOUS
<1>t. PICK tx \in Nat : tx = num_rx[s]
  BY SlotTypes DEF IInv
<1>2. DataSent
  <2>1. CASE wheel[s] # {}
    BY <2>1, NoneData DEF PktLossScan
  <2>2. CASE wheel[s] = {} /\ num_rx[s] < tx_msgbuf[s].pkts
    <3>1. kick_req(s, n, m, tx, cr, TRUE, {})
      BY <1>n, <1>t, <2>2 DEF PktLossScan
    <3> QED
      BY <1>n, <3>1, KickReqData
  <2>3. CASE wheel[s] = {} /\ ~(num_rx[s] < tx_msgbuf[s].pkts)
    <3>1. kick_rfr(s, n, wire, tx, cr, TRUE, {})
      BY <1>n, <1>t, <2>3 DEF PktLossScan
    <3> QED
      BY <3>1, KickRfrData
  <2> QED
    BY <2>1, <2>2, <2>3
<1> QED
  BY <1>1, <1>2, DataClientSend DEF PktLossScan

\* A packet that is received and changes nothing.
LEMMA DataDrop ==
  ASSUME DataInv, NEW p, net' = Received({p}), UNCHANGED clientVars, UNCHANGED serverVars
  PROVE  DataInv'
<1>1. AllPkts' \subseteq AllPkts \cup {}
  BY DEF Received, AllPkts, clientVars, serverVars
<1>2. UNCHANGED dataVars /\ UNCHANGED <<num_rx, resp_data, s_num_rx>>
  BY DEF dataVars, clientVars, serverVars
<1>n. PICK New : New = {}
  OBVIOUS
<1> QED
  BY <1>1, <1>2, <1>n, DataMove

LEMMA DataProcessExplCR ==
  ASSUME IInv, DataInv, NEW p \in net, ProcessExplCR(p)
  PROVE  DataInv'
<1>s. PICK s \in Sslots : s = p.sslot
  BY PacketFields DEF IInv
<1>1. CASE ~in_order_client(p)
  BY <1>1, DataDrop DEF ProcessExplCR
<1>2. CASE in_order_client(p)
  <2>0. TypeOK /\ PktInv(p) /\ p.type = ExplCR
    BY DEF IInv, NetInv, ProcessExplCR
  <2>n. PICK n, m, cr : n = cur_req_num[s] /\ m = tx_msgbuf[s] /\ cr = credits + 1
    OBVIOUS
  <2>t. PICK tx \in Nat : tx = num_tx[s]
    BY <2>0, SlotTypes
  <2>r. num_rx[s] \in Nat /\ tx_msgbuf[s].pkts \in Nat
    BY <2>0, SlotTypes
  <2>1. /\ num_rx' = [num_rx EXCEPT ![s] = @ + 1]
        /\ UNCHANGED <<backlog, tx_msgbuf, cur_req_num, resp_data, issued, result>>
        /\ UNCHANGED serverVars
    BY <1>2, <1>s DEF ProcessExplCR
  <2>2. num_rx'[s] = num_rx[s] + 1 /\ \A t \in Sslots \ {s} : num_rx'[t] = num_rx[t]
    BY <2>0, <2>1 DEF TypeOK
  <2>3. num_rx'[s] < tx_msgbuf[s].pkts
    <3>1. /\ tx_msgbuf[s].pkts = SrvReqPkts(s) /\ p.req_num = s_cur_req_num[s]
          /\ p.pkt_num = num_rx[s]
      BY <1>2, <1>s, <2>0, ReplyInOrder
    <3>2. p.pkt_num + 1 < SrvReqPkts(s)
      BY <1>s, <2>0, <3>1 DEF PktInv, CrPktInv
    <3> QED
      BY <2>2, <3>1, <3>2
  <2>4. ASSUME NEW t \in Sslots PROVE RespPrefix(t)'
    <3>1. CASE t = s
      <4>1. num_rx'[s] - tx_msgbuf'[s].pkts < 0 /\ num_rx'[s] - tx_msgbuf'[s].pkts \in Int
        BY <2>1, <2>2, <2>3, <2>r
      <4> QED
        BY <3>1, <4>1 DEF RespPrefix
    <3>2. CASE t # s
      <4>1. num_rx'[t] = num_rx[t]
        BY <2>2, <3>2
      <4> QED
        BY <2>1, <4>1 DEF DataInv, CliData, RespPrefix, Active
    <3> QED
      BY <3>1, <3>2
  <2>5. DataSent
    <3>1. CASE num_tx[s] < tx_msgbuf[s].pkts
      <4>1. kick_req(s, n, m, tx, cr, FALSE, {p})
        BY <1>2, <1>s, <2>n, <2>t, <3>1 DEF ProcessExplCR
      <4> QED
        BY <2>n, <4>1, KickReqData
    <3>2. CASE ~(num_tx[s] < tx_msgbuf[s].pkts)
      BY <1>2, <1>s, <3>2, NoneData DEF ProcessExplCR
    <3> QED
      BY <3>1, <3>2
  <2> QED
    BY <2>1, <2>4, <2>5, DataClientSend
<1> QED
  BY <1>1, <1>2

\* Copying an in-order response packet extends what was received by one place.
LEMMA FilledPrefix ==
  ASSUME IInv, DataInv, NEW p \in net, p.type = Resp, in_order_client(p),
         NEW s \in Sslots, s = p.sslot, p.size = 1 => num_rx[s] + 1 = tx_msgbuf[s].pkts
  PROVE  \A i \in 0..(num_rx[s] + 1 - tx_msgbuf[s].pkts) :
            FilledBy(p)[i] = [rpc |-> tx_msgbuf[s].rpc, idx |-> i]
<1>0. TypeOK /\ PktData(p) /\ CliData(s) /\ SrvData(s)
  BY DEF IInv, DataInv
<1>1. /\ Active(s) /\ p.req_num = s_cur_req_num[s] /\ p.pkt_num = num_rx[s]
      /\ cur_req_num[s] = s_cur_req_num[s] /\ tx_msgbuf[s].pkts > 0
  BY ReplyInOrder
<1>2. /\ SrvDone(s) /\ tx_msgbuf[s].pkts = sav_num_req_pkts[s]
      /\ SizedBy(p) = s_tx_msgbuf[s].pkts
      /\ num_rx[s] + 1 >= tx_msgbuf[s].pkts
      /\ num_rx[s] + 1 <= wire_pkts(tx_msgbuf[s].pkts, SizedBy(p))
  BY RespInOrder
<1>3. /\ num_rx[s] \in Nat /\ tx_msgbuf[s].pkts \in Nat /\ resp_data[s] \in RespBuf
      /\ s_tx_msgbuf[s].pkts \in Nat
  BY <1>0, SlotTypes
<1>k. PICK k \in Nat : k = num_rx[s] + 1 - tx_msgbuf[s].pkts
  BY <1>2, <1>3
<1>4. k \in 0..(MaxRespPkts - 1)
  <2>1. s_tx_msgbuf[s].pkts <= MaxRespPkts
    BY <1>0 DEF SrvData
  <2> QED
    BY <1>2, <1>3, <1>k, <2>1 DEF wire_pkts
<1>5. p.data = [rpc |-> tx_msgbuf[s].rpc, idx |-> k]
  <2>1. p.data = [rpc |-> s_tx_msgbuf[s].rpc, idx |-> resp_ntoi(p.pkt_num, sav_num_req_pkts[s])]
    BY <1>0, <1>1 DEF PktData
  <2>2. s_tx_msgbuf[s].rpc = tx_msgbuf[s].rpc
    BY <1>0, <1>1, <1>2 DEF SrvData, SrvDone
  <2>3. resp_ntoi(p.pkt_num, sav_num_req_pkts[s]) = k
    BY <1>1, <1>2, <1>3, <1>k DEF resp_ntoi
  <2> QED
    BY <2>1, <2>2, <2>3
<1>6. FilledBy(p) = [resp_data[s] EXCEPT ![k] = p.data]
  <2>1. CASE p.size = 1
    BY <1>3, <1>k, <2>1 DEF FilledBy
  <2>2. CASE p.size # 1
    <3>1. resp_ntoi(p.pkt_num, tx_msgbuf[s].pkts) = k
      BY <1>1, <1>3, <1>k DEF resp_ntoi
    <3> QED
      BY <2>2, <3>1 DEF FilledBy
  <2> QED
    BY <2>1, <2>2
<1> SUFFICES ASSUME NEW i \in 0..k PROVE FilledBy(p)[i] = [rpc |-> tx_msgbuf[s].rpc, idx |-> i]
  BY <1>k
<1>7. i \in 0..(MaxRespPkts - 1) /\ DOMAIN resp_data[s] = 0..(MaxRespPkts - 1)
  BY <1>3, <1>4 DEF RespBuf
<1>8. CASE i = k
  BY <1>5, <1>6, <1>7, <1>8
<1>9. CASE i # k
  <2>1. i \in 0..(num_rx[s] - tx_msgbuf[s].pkts)
    BY <1>3, <1>9, <1>k
  <2>2. resp_data[s][i] = [rpc |-> tx_msgbuf[s].rpc, idx |-> i]
    BY <1>0, <1>1, <2>1 DEF CliData
  <2> QED
    BY <1>6, <1>7, <1>9, <2>2
<1> QED
  BY <1>8, <1>9

LEMMA DataProcessRespPartial ==
  ASSUME IInv, DataInv, NEW p \in net, ProcessRespPartial(p)
  PROVE  DataInv'
<1>s. PICK s \in Sslots : s = p.sslot
  BY PacketFields DEF IInv
<1>0. TypeOK /\ p.type = Resp /\ in_order_client(p) /\ p.size # 1
  BY DEF IInv, ProcessRespPartial, CompletedBy
<1>1. /\ num_rx' = [num_rx EXCEPT ![s] = @ + 1]
      /\ resp_data' = [resp_data EXCEPT ![s] = FilledBy(p)]
      /\ UNCHANGED <<backlog, tx_msgbuf, cur_req_num, issued, result>>
      /\ UNCHANGED serverVars
  BY <1>s DEF ProcessRespPartial
<1>2. /\ num_rx'[s] = num_rx[s] + 1 /\ resp_data'[s] = FilledBy(p)
      /\ \A t \in Sslots \ {s} : num_rx'[t] = num_rx[t] /\ resp_data'[t] = resp_data[t]
  BY <1>0, <1>1 DEF TypeOK
<1>3. ASSUME NEW t \in Sslots PROVE RespPrefix(t)'
  <2>1. CASE t = s
    <3>1. \A i \in 0..(num_rx[s] + 1 - tx_msgbuf[s].pkts) :
            FilledBy(p)[i] = [rpc |-> tx_msgbuf[s].rpc, idx |-> i]
      BY <1>0, <1>s, FilledPrefix
    <3>k. PICK k : k = num_rx[s] + 1 - tx_msgbuf[s].pkts
      OBVIOUS
    <3>r. PICK r : r = tx_msgbuf[s].rpc
      OBVIOUS
    <3>b. PICK buf : buf = FilledBy(p)
      OBVIOUS
    <3>2. tx_msgbuf' = tx_msgbuf /\ num_rx[s] \in Nat /\ tx_msgbuf[s].pkts \in Nat
      BY <1>0, <1>1, SlotTypes
    <3>3. /\ num_rx'[s] - tx_msgbuf'[s].pkts = k /\ resp_data'[s] = buf
          /\ tx_msgbuf'[s].rpc = r
      BY <1>2, <3>2, <3>k, <3>r, <3>b
    <3>4. \A i \in 0..k : buf[i] = [rpc |-> r, idx |-> i]
      BY <3>1, <3>k, <3>r, <3>b
    <3> QED
      BY <2>1, <3>3, <3>4 DEF RespPrefix
  <2>2. CASE t # s
    <3>1. num_rx'[t] = num_rx[t] /\ resp_data'[t] = resp_data[t]
      BY <1>2, <2>2
    <3> QED
      BY <1>1, <3>1 DEF DataInv, CliData, RespPrefix, Active
  <2> QED
    BY <2>1, <2>2
<1>n. PICK n, cr, tx, wire :
        /\ n = cur_req_num[s] /\ cr = credits + 1 /\ tx = num_tx[s]
        /\ wire = wire_pkts(tx_msgbuf[s].pkts, SizedBy(p))
  OBVIOUS
<1>4. DataSent
  <2>1. CASE num_tx[s] # wire
    <3>1. kick_rfr(s, n, wire, tx, cr, FALSE, {p})
      BY <1>s, <1>n, <2>1 DEF ProcessRespPartial
    <3> QED
      BY <3>1, KickRfrData
  <2>2. CASE num_tx[s] = wire
    <3>1. ClientTx({}, {}, FALSE, {p})
      BY <1>s, <1>n, <2>2 DEF ProcessRespPartial
    <3> QED
      BY <3>1, NoneData
  <2> QED
    BY <2>1, <2>2
<1> QED
  BY <1>1, <1>3, <1>4, DataClientSend

\* The server sends one packet that carries what it says, or none, and changes
\* no message.
LEMMA DataServerSend ==
  ASSUME DataInv, UNCHANGED clientVars, UNCHANGED serverState, NEW New,
         ServerSent(New), \A q \in New : PktData(q)
  PROVE  DataInv'
<1>1. AllPkts' \subseteq AllPkts \cup New
  BY DEF AllPkts, ServerSent, clientVars
<1>2. UNCHANGED dataVars /\ UNCHANGED <<num_rx, resp_data, s_num_rx>>
  BY DEF dataVars, clientVars, serverState
<1> QED
  BY <1>1, <1>2, DataMove

LEMMA DataServerNone ==
  ASSUME DataInv, UNCHANGED clientVars, UNCHANGED serverState, NEW rcvd,
         ServerTx({}, {}, FALSE, rcvd)
  PROVE  DataInv'
<1>1. PICK New : New = {} /\ ServerSent(New)
  BY ServerTxNone
<1> QED
  BY <1>1, DataServerSend

LEMMA DataResend ==
  ASSUME TypeOK, DataInv, UNCHANGED clientVars, UNCHANGED serverState,
         NEW s \in Sslots, NEW i \in Int, NEW rcvd, ResendResp(s, i, rcvd)
  PROVE  DataInv'
<1>q. PICK q : q = RespPkt(s, s_cur_req_num[s], s_tx_msgbuf[s], i, sav_num_req_pkts[s])
  OBVIOUS
<1>1. ServerTx({q}, {}, TRUE, rcvd) /\ q.type = Resp
  BY <1>q DEF ResendResp, RespPkt
<1>2. PktData(q)
  BY <1>q, RespPktData
<1>3. PICK New : New = {q} /\ ServerSent(New)
  BY <1>1, ServerTxResp
<1> QED
  BY <1>2, <1>3, DataServerSend

LEMMA DataProcessSmallReqOld ==
  ASSUME IInv, DataInv, NEW p \in net, ProcessSmallReqOld(p)
  PROVE  DataInv'
<1>s. PICK s \in Sslots : s = p.sslot
  BY PacketFields DEF IInv
<1>1. TypeOK /\ UNCHANGED clientVars /\ UNCHANGED serverState
  BY DEF ProcessSmallReqOld, serverState, IInv
<1>2. CASE ResendResp(s, 0, {p})
  BY <1>1, <1>2, DataResend
<1>3. CASE ServerTx({}, {}, FALSE, {p})
  BY <1>1, <1>3, DataServerNone
<1> QED
  BY <1>s, <1>2, <1>3 DEF ProcessSmallReqOld

LEMMA DataProcessLargeReqOld ==
  ASSUME IInv, DataInv, NEW p \in net, ProcessLargeReqOld(p)
  PROVE  DataInv'
<1>s. PICK s \in Sslots : s = p.sslot
  BY PacketFields DEF IInv
<1>1. TypeOK /\ UNCHANGED clientVars /\ UNCHANGED serverState
  BY DEF ProcessLargeReqOld, serverState, IInv
<1>2. CASE ResendResp(s, 0, {p})
  BY <1>1, <1>2, DataResend
<1>3. CASE ServerTx({}, {}, FALSE, {p})
  BY <1>1, <1>3, DataServerNone
<1>4. CASE ServerTx({}, {CrPkt(p)}, FALSE, {p})
  <2>q. PICK q : q = CrPkt(p)
    OBVIOUS
  <2>1. PktData(q)
    BY <2>q, HdrData DEF CrPkt
  <2>2. PICK New : New = {q} /\ ServerSent(New)
    BY <1>4, <2>q, ServerTxHdr
  <2> QED
    BY <1>1, <2>1, <2>2, DataServerSend
<1> QED
  BY <1>s, <1>2, <1>3, <1>4 DEF ProcessLargeReqOld

LEMMA DataProcessRFRDrop ==
  ASSUME IInv, DataInv, NEW p \in net, ProcessRFRDrop(p)
  PROVE  DataInv'
BY DataServerNone DEF ProcessRFRDrop, serverState

LEMMA DataProcessRFR ==
  ASSUME IInv, DataInv, NEW p \in net, ProcessRFR(p)
  PROVE  DataInv'
<1>s. PICK s \in Sslots : s = p.sslot
  BY PacketFields DEF IInv
<1>0. TypeOK /\ PktInv(p) /\ p.type = RFR /\ p.req_num >= s_cur_req_num[s]
  BY <1>s DEF IInv, NetInv, ProcessRFR
<1>t. /\ p.req_num \in Nat /\ p.pkt_num \in Nat /\ s_cur_req_num[s] \in Nat
      /\ sav_num_req_pkts[s] \in Nat
  BY <1>0, PacketFields, SlotTypes
<1>1. SrvDone(s) /\ p.req_num = s_cur_req_num[s]
  BY <1>0, <1>s, <1>t DEF PktInv, RfrPktInv
<1>i. PICK i \in Int : i = resp_ntoi(p.pkt_num, sav_num_req_pkts[s])
  BY <1>t DEF resp_ntoi
<1>2. CASE p.pkt_num # s_num_rx[s]
  <2>1. UNCHANGED clientVars /\ UNCHANGED serverState /\ ResendResp(s, i, {p})
    BY <1>2, <1>s, <1>i DEF ProcessRFR, serverState
  <2> QED
    BY <1>0, <2>1, DataResend
<1>3. CASE p.pkt_num = s_num_rx[s]
  <2>q. PICK q : q = RespPkt(s, s_cur_req_num[s], s_tx_msgbuf[s], i, sav_num_req_pkts[s])
    OBVIOUS
  <2>1. /\ ServerTx({q}, {}, FALSE, {p}) /\ s_num_rx' = [s_num_rx EXCEPT ![s] = @ + 1]
        /\ UNCHANGED <<s_tx_msgbuf, s_cur_req_num, req_pkts, req_data, req_type,
                       serving, sav_num_req_pkts, runs, answer>>
        /\ UNCHANGED clientVars
    BY <1>1, <1>3, <1>s, <1>i, <2>q DEF ProcessRFR
  <2>2. q.type = Resp
    BY <2>q DEF RespPkt
  <2>3. PktData(q)
    BY <1>0, <2>q, RespPktData
  <2>4. PICK New : New = {q} /\ ServerSent(New)
    BY <2>1, <2>2, ServerTxResp
  <2>5. AllPkts' \subseteq AllPkts \cup New /\ \A r \in New : PktData(r)
    BY <2>1, <2>3, <2>4 DEF AllPkts, ServerSent, clientVars
  <2>6. UNCHANGED dataVars
    BY <2>1 DEF dataVars, clientVars
  <2>7. \A t \in Sslots : RespPrefix(t)'
    BY <2>1, PrefixUnchanged DEF clientVars
  <2>8. \A t \in Sslots : req_pkts[t] > 0 => s_num_rx'[t] = s_num_rx[t]
    BY <1>0, <1>1, <2>1 DEF TypeOK, SrvDone
  <2> QED
    BY <2>5, <2>6, <2>7, <2>8, DataQuiet
<1> QED
  BY <1>2, <1>3

\* The NICs and the network only move packets.
LEMMA DataNic ==
  ASSUME IInv, DataInv,
         \/ \E p \in tx_queue : ClientNicSend(p)
         \/ \E p \in s_tx_queue : ServerNicSend(p)
         \/ \E p \in net : LosePacket(p)
  PROVE  DataInv'
<1>1. PICK New : New = {}
  OBVIOUS
<1>2. AllPkts' \subseteq AllPkts \cup New
  BY DEF AllPkts, ClientNicSend, ServerNicSend, LosePacket, clientVars, serverVars
<1>3. UNCHANGED dataVars /\ UNCHANGED <<num_rx, resp_data, s_num_rx>>
  BY DEF dataVars, ClientNicSend, ServerNicSend, LosePacket, clientVars, serverVars
<1> QED
  BY <1>1, <1>2, <1>3, DataMove

-----------------------------------------------------------------------------
(* Steps that start or complete a request *)

\* Nobody but s is about to hold RPC r, and nothing has happened to it.
Startable(s, r) ==
    /\ r \in 1..issued' /\ Untouched(r)'
    /\ \A t \in Sslots \ {s} : Active(t) => tx_msgbuf[t].rpc # r

\* One client sslot takes a new request, or becomes free.
LEMMA DataSlotChange ==
  ASSUME IInv, DataInv, NEW s \in Sslots, NEW m, NEW n, UNCHANGED serverVars,
         tx_msgbuf' = [tx_msgbuf EXCEPT ![s] = m],
         \A t \in Sslots \ {s} :
            /\ cur_req_num'[t] = cur_req_num[t] /\ num_rx'[t] = num_rx[t]
            /\ resp_data'[t] = resp_data[t]
            /\ Active(t) => result'[tx_msgbuf[t].rpc] = NoResult,
         \/ m = NoMsg /\ cur_req_num'[s] = cur_req_num[s]
         \/ /\ Startable(s, m.rpc) /\ m.pkts \in 1..MaxReqPkts
            /\ cur_req_num'[s] = cur_req_num[s] + 1 /\ num_rx'[s] = 0,
         issued' \in Nat, issued' >= issued,
         \A i \in 1..Len(backlog') : BacklogData(i)',
         \A r \in Rpcs : r > issued' => Untouched(r)',
         ResponseIntact', ResultType', n = cur_req_num'[s], ReqSent(s, n, m)
  PROVE  DataInv'
<1>0. /\ TypeOK /\ PairSlotInv(s) /\ CliData(s) /\ SrvData(s)
      /\ cur_req_num[s] \in Nat /\ s_cur_req_num[s] \in Nat
  BY SlotTypes DEF IInv, PairInv, DataInv
<1>1. tx_msgbuf'[s] = m /\ \A t \in Sslots \ {s} : tx_msgbuf'[t] = tx_msgbuf[t]
  BY <1>0 DEF TypeOK
<1>2. ASSUME NEW t \in Sslots, t # s PROVE CliData(t)' /\ SrvData(t)'
  <2>1. CliData(t) /\ SrvData(t)
    BY DEF DataInv
  <2>2. /\ tx_msgbuf'[t] = tx_msgbuf[t] /\ cur_req_num'[t] = cur_req_num[t]
        /\ num_rx'[t] = num_rx[t] /\ resp_data'[t] = resp_data[t]
        /\ Active(t)' = Active(t)
        /\ Active(t) => result'[tx_msgbuf[t].rpc] = NoResult
    BY <1>1, <1>2 DEF Active
  <2>3. ASSUME Active(t) PROVE tx_msgbuf[t].rpc \in 1..issued'
    <3>1. tx_msgbuf[t].rpc \in 1..issued /\ issued \in Nat
      BY <1>0, <2>1, <2>3 DEF CliData, TypeOK
    <3> QED
      BY <3>1
  <2>4. ASSUME Active(t), NEW u \in Sslots, Active(u)', tx_msgbuf'[u].rpc = tx_msgbuf[t].rpc
        PROVE  u = t
    <3>1. CASE u = s
      <4>1. m # NoMsg /\ m.rpc = tx_msgbuf[t].rpc
        BY <1>1, <2>4, <3>1 DEF Active
      <4> QED
        BY <1>2, <2>4, <4>1 DEF Startable
    <3>2. CASE u # s
      <4>1. Active(u) /\ tx_msgbuf[u].rpc = tx_msgbuf[t].rpc
        BY <1>1, <2>4, <3>2 DEF Active
      <4> QED
        BY <2>1, <2>4, <4>1 DEF CliData
    <3> QED
      BY <3>1, <3>2
  <2>5. CliData(t)'
    BY <2>1, <2>2, <2>3, <2>4 DEF CliData
  <2>6. SrvData(t)'
    BY <2>1, <2>2 DEF SrvData, serverVars
  <2> QED
    BY <2>5, <2>6
<1>3. CliData(s)' /\ SrvData(s)'
  <2>1. CASE m = NoMsg
    <3>1. ~Active(s)'
      BY <1>1, <2>1 DEF Active
    <3>2. s_tx_msgbuf'[s].pkts <= MaxRespPkts
      BY <1>0 DEF SrvData, serverVars
    <3> QED
      BY <3>1, <3>2 DEF CliData, SrvData
  <2>2. CASE m # NoMsg
    <3>1. /\ Startable(s, m.rpc) /\ m.pkts \in Nat /\ m.pkts > 0 /\ m.pkts <= MaxReqPkts
          /\ cur_req_num'[s] = cur_req_num[s] + 1 /\ num_rx'[s] = 0
      BY <2>2
    <3>2. cur_req_num'[s] # s_cur_req_num'[s]
      BY <1>0, <3>1 DEF PairSlotInv, serverVars
    <3>3. ASSUME NEW u \in Sslots, Active(u)', tx_msgbuf'[u].rpc = m.rpc PROVE u = s
      BY <1>1, <3>1, <3>3 DEF Active, Startable
    <3>4. result'[m.rpc] = NoResult /\ runs'[m.rpc] = 0 /\ answer'[m.rpc] = 0
          /\ m.rpc \in 1..issued'
      BY <3>1 DEF Startable, Untouched
    <3>5. 0 - m.pkts < 0 /\ 0 - m.pkts \in Int
      BY <3>1
    <3>6. CliData(s)'
      BY <1>1, <3>1, <3>3, <3>4, <3>5 DEF CliData
    <3>7. SrvData(s)'
      BY <1>0, <1>1, <3>2, <3>4 DEF SrvData, serverVars
    <3> QED
      BY <3>6, <3>7
  <2> QED
    BY <2>1, <2>2
<1>n. PICK New : ClientSent(New) /\ \A p \in New : \E k : p = ReqPkt(s, n, m, k)
  BY DEF ReqSent
<1>4. ASSUME NEW p \in AllPkts PROVE PktData(p)'
  <2>1. PktData(p) /\ PktInv(p) /\ p.sslot \in Sslots /\ p.req_num \in Nat
    BY <1>0, PacketFields DEF DataInv, IInv, NetInv, AllPkts
  <2>2. CASE p.sslot # s
    BY <1>1, <2>1, <2>2 DEF PktData, Active, serverVars
  <2>3. CASE p.sslot = s /\ p.type = Req
    <3>1. p.req_num = cur_req_num'[s] => m = NoMsg
      BY <1>0, <2>1, <2>3 DEF PktInv, ReqPktInv
    <3>2. p.data.idx = p.pkt_num /\ p.type # Resp
      BY <2>1, <2>3 DEF PktData, Req, Resp
    <3> QED
      BY <1>1, <2>3, <3>1, <3>2 DEF PktData, Active
  <2>4. CASE p.sslot = s /\ p.type # Req
    BY <2>1, <2>4 DEF PktData, serverVars
  <2> QED
    BY <2>2, <2>3, <2>4
<1>5. ASSUME NEW p \in New PROVE PktData(p)'
  <2>1. PICK k : p = ReqPkt(s, n, m, k)
    BY <1>n
  <2> QED
    BY <1>1, <2>1, ReqPktData
<1>6. AllPkts' \subseteq AllPkts \cup New
  BY <1>n DEF ClientSent, AllPkts, serverVars
<1>7. \A p \in AllPkts' : PktData(p)'
  BY <1>4, <1>5, <1>6
<1> QED
  BY <1>2, <1>3, <1>7 DEF DataInv, AllPkts

\* What start_request does to the sslot, and what it sends.
LEMMA StartSent ==
  ASSUME TypeOK, NEW s \in Sslots, NEW m, NEW cr, NEW rcvd, start_request(s, m, cr, rcvd)
  PROVE  /\ tx_msgbuf' = [tx_msgbuf EXCEPT ![s] = m]
         /\ cur_req_num'[s] = cur_req_num[s] + 1 /\ num_rx'[s] = 0
         /\ \A t \in Sslots \ {s} :
              /\ cur_req_num'[t] = cur_req_num[t] /\ num_rx'[t] = num_rx[t]
              /\ resp_data'[t] = resp_data[t]
         /\ \E n : n = cur_req_num'[s] /\ ReqSent(s, n, m)
<1>n. PICK n : n = cur_req_num[s] + 1
  OBVIOUS
<1>1. /\ tx_msgbuf' = [tx_msgbuf EXCEPT ![s] = m]
      /\ cur_req_num' = [cur_req_num EXCEPT ![s] = n]
      /\ num_rx' = [num_rx EXCEPT ![s] = 0]
      /\ resp_data' = [resp_data EXCEPT ![s] = [i \in 0..(MaxRespPkts - 1) |-> NoData]]
      /\ kick_req(s, n, m, 0, cr, FALSE, rcvd) \/ ClientTx({}, {}, FALSE, rcvd)
  BY <1>n DEF start_request
<1>2. cur_req_num'[s] = n
  BY <1>1 DEF TypeOK
<1>3. ReqSent(s, n, m)
  <2>1. CASE kick_req(s, n, m, 0, cr, FALSE, rcvd)
    BY <2>1, KickReqSent
  <2>2. CASE ClientTx({}, {}, FALSE, rcvd)
    <3>1. PICK New : New = {} /\ ClientSent(New)
      BY <2>2, ClientTxNone
    <3> QED
      BY <3>1 DEF ReqSent
  <2> QED
    BY <1>1, <2>1, <2>2
<1>4. /\ num_rx'[s] = 0
      /\ \A t \in Sslots \ {s} :
           /\ cur_req_num'[t] = cur_req_num[t] /\ num_rx'[t] = num_rx[t]
           /\ resp_data'[t] = resp_data[t]
  BY <1>1 DEF TypeOK
<1> QED
  BY <1>1, <1>2, <1>3, <1>4, <1>n

LEMMA DataEnqueueRequest ==
  ASSUME IInv, DataInv, NEW s \in Sslots, NEW pkts \in 1..MaxReqPkts, EnqueueRequest(s, pkts)
  PROVE  DataInv'
<1>0. TypeOK /\ issued \in Nat /\ issued + 1 \in Rpcs
  <2>1. TypeOK
    BY DEF IInv
  <2>2. issued \in 0..NumRpcs
    BY <2>1 DEF TypeOK
  <2>3. issued < NumRpcs
    BY DEF EnqueueRequest
  <2> QED
    BY <2>1, <2>2, <2>3 DEF Rpcs
<1>m. PICK m : m = [rpc |-> issued + 1, pkts |-> pkts]
  OBVIOUS
<1>c. PICK cr : cr = credits
  OBVIOUS
<1>1. /\ start_request(s, m, cr, {}) /\ issued' = issued + 1
      /\ UNCHANGED <<backlog, result>> /\ UNCHANGED serverVars
  BY <1>m, <1>c DEF EnqueueRequest
<1>2. /\ tx_msgbuf' = [tx_msgbuf EXCEPT ![s] = m]
      /\ cur_req_num'[s] = cur_req_num[s] + 1 /\ num_rx'[s] = 0
      /\ \A t \in Sslots \ {s} :
           /\ cur_req_num'[t] = cur_req_num[t] /\ num_rx'[t] = num_rx[t]
           /\ resp_data'[t] = resp_data[t]
  BY <1>0, <1>1, StartSent
<1>3. PICK n : n = cur_req_num'[s] /\ ReqSent(s, n, m)
  BY <1>0, <1>1, StartSent
<1>4. \A r \in Rpcs : r > issued => Untouched(r) /\ Untouched(r)'
  BY <1>1 DEF DataInv, Untouched, serverVars
<1>5. Untouched(m.rpc)' /\ m.rpc = issued + 1 /\ m.pkts = pkts /\ m.rpc \in 1..issued'
  BY <1>0, <1>1, <1>4, <1>m
<1>6. \A t \in Sslots : Active(t) => /\ tx_msgbuf[t].rpc \in 1..issued
                                     /\ result'[tx_msgbuf[t].rpc] = NoResult
  BY <1>1 DEF DataInv, CliData
<1>7. Startable(s, m.rpc)
  BY <1>0, <1>5, <1>6 DEF Startable
<1>8. ASSUME NEW i \in 1..Len(backlog') PROVE BacklogData(i)'
  <2>1. i \in 1..Len(backlog) /\ BacklogData(i)
    BY <1>1, <1>8 DEF DataInv
  <2>2. backlog[i].rpc \in 1..issued /\ backlog[i].rpc # m.rpc /\ backlog[i].rpc \in 1..issued'
    BY <1>0, <1>1, <1>5, <2>1 DEF BacklogData
  <2>3. ASSUME NEW t \in Sslots, Active(t)' PROVE tx_msgbuf'[t].rpc # backlog[i].rpc
    <3>1. CASE t = s
      BY <1>0, <1>2, <2>2, <3>1 DEF TypeOK
    <3>2. CASE t # s
      <4>1. tx_msgbuf'[t] = tx_msgbuf[t]
        BY <1>0, <1>2, <3>2 DEF TypeOK
      <4> QED
        BY <2>1, <2>3, <4>1 DEF BacklogData, Active
    <3> QED
      BY <3>1, <3>2
  <2>4. Untouched(backlog[i].rpc)'
    BY <1>1, <2>1 DEF BacklogData, Untouched, serverVars
  <2> QED
    BY <1>1, <2>1, <2>2, <2>3, <2>4 DEF BacklogData
<1>9. ResponseIntact' /\ ResultType'
  BY <1>1 DEF DataInv, ResponseIntact, ResultType, serverVars
<1>10. \A r \in Rpcs : r > issued' => Untouched(r)'
  BY <1>0, <1>1, <1>4 DEF Rpcs
<1>11. issued' \in Nat /\ issued' >= issued
  BY <1>0, <1>1
<1>12. m.pkts \in 1..MaxReqPkts
  BY <1>5
<1> QED
  BY <1>1, <1>2, <1>3, <1>6, <1>7, <1>8, <1>9, <1>10, <1>11, <1>12, DataSlotChange

LEMMA DataEnqueueRequestBacklog ==
  ASSUME IInv, DataInv, NEW pkts \in 1..MaxReqPkts, EnqueueRequestBacklog(pkts)
  PROVE  DataInv'
<1>0. TypeOK /\ issued \in Nat /\ issued + 1 \in Rpcs /\ backlog \in Seq(Msg)
  <2>1. TypeOK
    BY DEF IInv
  <2>2. issued \in 0..NumRpcs /\ backlog \in Seq(Msg)
    BY <2>1 DEF TypeOK
  <2>3. issued < NumRpcs
    BY DEF EnqueueRequestBacklog
  <2> QED
    BY <2>1, <2>2, <2>3 DEF Rpcs
<1>m. PICK m \in Msg : m = [rpc |-> issued + 1, pkts |-> pkts]
  <2>1. issued + 1 \in 0..NumRpcs /\ pkts \in Nat
    BY <1>0 DEF Rpcs
  <2> QED
    BY <2>1 DEF Msg
<1>1. /\ backlog' = Append(backlog, m) /\ issued' = issued + 1
      /\ UNCHANGED <<tx_msgbuf, cur_req_num, num_rx, resp_data, result, tx_queue, net>>
      /\ UNCHANGED serverVars
  BY <1>m DEF EnqueueRequestBacklog
<1>2. /\ Len(backlog') = Len(backlog) + 1 /\ Len(backlog) \in Nat
      /\ backlog'[Len(backlog) + 1] = m
      /\ \A i \in 1..Len(backlog) : backlog'[i] = backlog[i]
  BY <1>0, <1>1
<1>3. ASSUME NEW s \in Sslots PROVE CliData(s)' /\ SrvData(s)'
  <2>1. CliData(s) /\ SrvData(s)
    BY DEF DataInv
  <2>2. Active(s) => tx_msgbuf[s].rpc \in 1..issued'
    BY <1>0, <1>1, <2>1 DEF CliData
  <2>3. CliData(s)'
    BY <1>1, <2>1, <2>2 DEF CliData, Active
  <2>4. SrvData(s)'
    BY <1>1, <2>1 DEF SrvData, Active, serverVars
  <2> QED
    BY <2>3, <2>4
<1>4. \A r \in Rpcs : r > issued => Untouched(r) /\ Untouched(r)'
  BY <1>1 DEF DataInv, Untouched, serverVars
<1>5. ASSUME NEW i \in 1..Len(backlog) PROVE backlog[i].rpc \in 1..issued /\ BacklogData(i)
  BY DEF DataInv, BacklogData
<1>6. ASSUME NEW i \in 1..Len(backlog') PROVE BacklogData(i)'
  <2>1. CASE i \in 1..Len(backlog)
    <3>1. BacklogData(i) /\ backlog'[i] = backlog[i]
      BY <1>2, <1>5, <2>1
    <3>2. backlog[i].rpc \in 1..issued /\ backlog[i].rpc \in 1..issued' /\ backlog[i].rpc # m.rpc
      BY <1>0, <1>1, <1>5, <1>m, <2>1
    <3>3. Untouched(backlog[i].rpc)'
      BY <1>1, <3>1 DEF BacklogData, Untouched, serverVars
    <3>4. ASSUME NEW j \in 1..Len(backlog'), backlog'[j].rpc = backlog[i].rpc PROVE j = i
      <4>1. j \in 1..Len(backlog) \/ j = Len(backlog) + 1
        BY <1>2
      <4> QED
        BY <1>2, <3>1, <3>2, <3>4, <4>1 DEF BacklogData
    <3> QED
      BY <1>1, <3>1, <3>2, <3>3, <3>4 DEF BacklogData, Active
  <2>2. CASE i = Len(backlog) + 1
    <3>1. backlog'[i] = m /\ m.rpc = issued + 1 /\ m.pkts = pkts
      BY <1>2, <1>m, <2>2
    <3>2. Untouched(m.rpc)' /\ m.rpc \in 1..issued'
      BY <1>0, <1>1, <1>4, <3>1
    <3>3. ASSUME NEW s \in Sslots, Active(s)' PROVE tx_msgbuf'[s].rpc # m.rpc
      BY <1>0, <1>1, <3>1, <3>3 DEF DataInv, CliData, Active
    <3>4. ASSUME NEW j \in 1..Len(backlog'), backlog'[j].rpc = m.rpc PROVE j = i
      <4>1. j \in 1..Len(backlog) \/ j = Len(backlog) + 1
        BY <1>2
      <4>2. CASE j \in 1..Len(backlog)
        BY <1>0, <1>2, <1>5, <3>1, <3>4, <4>2
      <4> QED
        BY <2>2, <4>1, <4>2
    <3> QED
      BY <1>1, <3>1, <3>2, <3>3, <3>4 DEF BacklogData, Active
  <2> QED
    BY <1>2, <2>1, <2>2
<1>7. ResponseIntact' /\ ResultType'
  BY <1>1 DEF DataInv, ResponseIntact, ResultType, serverVars
<1>8. \A r \in Rpcs : r > issued' => Untouched(r)'
  BY <1>0, <1>1, <1>4 DEF Rpcs
<1>9. \A p \in AllPkts' : PktData(p)'
  BY <1>1 DEF AllPkts, DataInv, PktData, Active, serverVars
<1> QED
  BY <1>3, <1>6, <1>7, <1>8, <1>9 DEF DataInv, AllPkts

\* The last response packet hands the continuation the whole response that the
\* handler gave, and it is the first to do so.
LEMMA Completes ==
  ASSUME IInv, DataInv, NEW p \in net, ProcessRespComplete(p), NEW s \in Sslots, s = p.sslot,
         NEW r, r = tx_msgbuf[s].rpc
  PROVE  /\ Active(s) /\ r \in 1..issued /\ r \in Rpcs /\ result[r] = NoResult
         /\ SizedBy(p) \in Nat /\ SizedBy(p) > 0 /\ answer[r] = SizedBy(p)
         /\ result' = [result EXCEPT ![r] = [pkts |-> SizedBy(p), data |-> FilledBy(p)]]
         /\ answer' = answer /\ ResponseIntact' /\ ResultType'
<1>0. TypeOK /\ CliData(s) /\ SrvData(s) /\ p.type = Resp /\ in_order_client(p) /\ CompletedBy(p)
  BY DEF IInv, DataInv, ProcessRespComplete
<1>1. Active(s) /\ cur_req_num[s] = s_cur_req_num[s]
  BY <1>0, ReplyInOrder
<1>2. /\ SrvDone(s) /\ SizedBy(p) = s_tx_msgbuf[s].pkts /\ SizedBy(p) \in Nat /\ SizedBy(p) > 0
      /\ num_rx[s] + 1 >= tx_msgbuf[s].pkts /\ p.size = SizedBy(p)
      /\ num_rx[s] + 1 <= wire_pkts(tx_msgbuf[s].pkts, SizedBy(p))
      /\ FilledBy(p) \in RespBuf
  BY <1>0, RespInOrder
<1>t. num_rx[s] \in Nat /\ tx_msgbuf[s].pkts \in Nat /\ issued \in 0..NumRpcs
  BY <1>0, SlotTypes DEF TypeOK
<1>3. num_rx[s] + 1 = wire_pkts(tx_msgbuf[s].pkts, SizedBy(p))
  BY <1>0, <1>2, <1>t DEF CompletedBy, wire_pkts
<1>z. PICK z \in Nat : z = SizedBy(p) /\ z > 0
  BY <1>2
<1>b. PICK buf \in RespBuf : buf = FilledBy(p)
  BY <1>2
<1>4. \A i \in 0..(z - 1) : buf[i] = [rpc |-> r, idx |-> i]
  <2>1. p.size = 1 => num_rx[s] + 1 = tx_msgbuf[s].pkts
    BY <1>2, <1>3, <1>t DEF wire_pkts
  <2>2. \A i \in 0..(num_rx[s] + 1 - tx_msgbuf[s].pkts) : FilledBy(p)[i] = [rpc |-> r, idx |-> i]
    BY <1>0, <2>1, FilledPrefix
  <2>3. num_rx[s] + 1 - tx_msgbuf[s].pkts = z - 1
    BY <1>3, <1>t, <1>z DEF wire_pkts
  <2> QED
    BY <1>b, <2>2, <2>3
<1>5. r \in 1..issued /\ r \in Rpcs /\ result[r] = NoResult
  BY <1>0, <1>1, <1>t DEF CliData, Rpcs
<1>6. answer[r] = z
  BY <1>0, <1>1, <1>2, <1>z DEF SrvData
<1>7. /\ result' = [result EXCEPT ![r] = [pkts |-> z, data |-> buf]] /\ answer' = answer
  BY <1>z, <1>b DEF ProcessRespComplete, serverVars
<1>8. /\ result'[r] = [pkts |-> z, data |-> buf]
      /\ \A q \in Rpcs \ {r} : result'[q] = result[q]
  BY <1>5, <1>7 DEF DataInv, ResultType
<1>9. ResponseIntact'
  <2> SUFFICES ASSUME NEW q \in Rpcs, result'[q] # NoResult
               PROVE  /\ result'[q].pkts = answer[q]
                      /\ \A i \in 0..(answer[q] - 1) :
                            result'[q].data[i] = [rpc |-> q, idx |-> i]
    BY <1>7 DEF ResponseIntact
  <2>1. CASE q = r
    BY <1>4, <1>6, <1>8, <2>1
  <2>2. CASE q # r
    BY <1>8, <2>2 DEF DataInv, ResponseIntact
  <2> QED
    BY <2>1, <2>2
<1>10. ResultType'
  <2>1. [pkts |-> z, data |-> buf] \in [pkts : Nat, data : RespBuf \cup {<<>>}]
    OBVIOUS
  <2> QED
    BY <1>5, <1>7, <2>1 DEF DataInv, ResultType
<1> QED
  BY <1>1, <1>2, <1>5, <1>6, <1>7, <1>9, <1>10, <1>z, <1>b

LEMMA DataProcessRespComplete ==
  ASSUME IInv, DataInv, NEW p \in net, ProcessRespComplete(p)
  PROVE  DataInv'
<1>s. PICK s \in Sslots : s = p.sslot
  BY PacketFields DEF IInv
<1>r. PICK r : r = tx_msgbuf[s].rpc
  OBVIOUS
<1>0. TypeOK /\ issued' = issued /\ UNCHANGED serverVars
  BY DEF IInv, ProcessRespComplete
<1>i. issued \in 0..NumRpcs /\ issued \in Nat
  BY <1>0 DEF TypeOK
<1>1. /\ Active(s) /\ r \in 1..issued /\ r \in Rpcs
      /\ result' = [result EXCEPT ![r] = [pkts |-> SizedBy(p), data |-> FilledBy(p)]]
      /\ ResponseIntact' /\ ResultType'
  BY <1>s, <1>r, Completes
<1>2. \A q \in Rpcs \ {r} : result'[q] = result[q]
  BY <1>1 DEF DataInv, ResultType
<1>3. ASSUME NEW q \in Rpcs, q # r, Untouched(q) PROVE Untouched(q)'
  BY <1>0, <1>2, <1>3 DEF Untouched, serverVars
<1>4. \A q \in Rpcs : q > issued' => Untouched(q)'
  <2>1. ASSUME NEW q \in Rpcs, q > issued PROVE q # r /\ Untouched(q)
    BY <1>i, <1>1, <2>1 DEF DataInv
  <2> QED
    BY <1>0, <1>3, <2>1
<1>5. \A t \in Sslots \ {s} : Active(t) => result'[tx_msgbuf[t].rpc] = NoResult
  <2> SUFFICES ASSUME NEW t \in Sslots, t # s, Active(t)
               PROVE  result'[tx_msgbuf[t].rpc] = NoResult
    OBVIOUS
  <2>1. CliData(t) /\ CliData(s)
    BY DEF DataInv
  <2>2. tx_msgbuf[t].rpc # r /\ tx_msgbuf[t].rpc \in 1..issued /\ result[tx_msgbuf[t].rpc] = NoResult
    BY <1>1, <1>r, <2>1 DEF CliData
  <2>3. tx_msgbuf[t].rpc \in Rpcs
    BY <1>i, <2>2 DEF Rpcs
  <2> QED
    BY <1>2, <2>2, <2>3
<1>6. ASSUME NEW i \in 1..Len(backlog), NEW b, b = backlog[i].rpc
      PROVE  BacklogData(i) /\ b \in 1..issued /\ b # r /\ Untouched(b)'
  <2>1. BacklogData(i)
    BY DEF DataInv
  <2>2. b \in 1..issued /\ Untouched(b) /\ b # r
    BY <1>1, <1>6, <1>r, <2>1 DEF BacklogData
  <2>3. b \in Rpcs
    BY <1>i, <2>2 DEF Rpcs
  <2> QED
    BY <1>3, <2>1, <2>2, <2>3
<1>7. CASE backlog # <<>>
  <2>1. backlog \in Seq(Msg) /\ backlog # <<>>
    BY <1>0, <1>7 DEF TypeOK
  <2>2. /\ Head(backlog) = backlog[1] /\ Len(backlog) \in Nat /\ 1 \in 1..Len(backlog)
        /\ Len(Tail(backlog)) = Len(backlog) - 1
        /\ \A i \in 1..Len(Tail(backlog)) : Tail(backlog)[i] = backlog[i + 1]
    BY <2>1, HeadTail
  <2>m. PICK m : m = Head(backlog)
    OBVIOUS
  <2>c. PICK cr : cr = credits + 1
    OBVIOUS
  <2>3. start_request(s, m, cr, {p}) /\ backlog' = Tail(backlog)
    BY <1>7, <1>s, <2>m, <2>c DEF ProcessRespComplete
  <2>4. /\ tx_msgbuf' = [tx_msgbuf EXCEPT ![s] = m]
        /\ cur_req_num'[s] = cur_req_num[s] + 1 /\ num_rx'[s] = 0
        /\ \A t \in Sslots \ {s} :
             /\ cur_req_num'[t] = cur_req_num[t] /\ num_rx'[t] = num_rx[t]
             /\ resp_data'[t] = resp_data[t]
    BY <1>0, <2>3, StartSent
  <2>5. PICK n : n = cur_req_num'[s] /\ ReqSent(s, n, m)
    BY <1>0, <2>3, StartSent
  <2>6. /\ m = backlog[1] /\ BacklogData(1) /\ m.rpc \in 1..issued' /\ Untouched(m.rpc)'
    <3>1. m = backlog[1]
      BY <2>2, <2>m
    <3>2. PICK b : b = m.rpc
      OBVIOUS
    <3>3. BacklogData(1) /\ b \in 1..issued /\ Untouched(b)'
      BY <1>6, <2>2, <3>1, <3>2
    <3> QED
      BY <1>0, <3>1, <3>2, <3>3
  <2>7. Startable(s, m.rpc)
    BY <2>6 DEF Startable, BacklogData
  <2>8. m.pkts \in 1..MaxReqPkts
    <3>1. m.pkts > 0 /\ m.pkts <= MaxReqPkts
      BY <2>2, <2>6 DEF BacklogData, IInv, BacklogInv
    <3>2. m \in Msg
      BY <2>1, <2>m, HeadTail
    <3>3. m.pkts \in Nat
      BY <3>2 DEF Msg
    <3> QED
      BY <3>1, <3>3
  <2>9. ASSUME NEW i \in 1..Len(backlog') PROVE BacklogData(i)'
    <3>1. /\ i + 1 \in 1..Len(backlog) /\ backlog'[i] = backlog[i + 1] /\ i + 1 # 1
      BY <2>2, <2>3
    <3>b. PICK b, k : b = backlog[i + 1].rpc /\ k = backlog[i + 1].pkts
      OBVIOUS
    <3>2. BacklogData(i + 1) /\ b # r /\ Untouched(b)' /\ b \in 1..issued /\ k <= MaxReqPkts
      BY <1>6, <3>1, <3>b DEF BacklogData
    <3>3. b # m.rpc
      BY <2>2, <2>6, <3>1, <3>2, <3>b DEF BacklogData
    <3>4. ASSUME NEW t \in Sslots, Active(t)' PROVE tx_msgbuf'[t].rpc # b
      <4>1. CASE t = s
        BY <1>0, <2>4, <3>3, <4>1 DEF TypeOK
      <4>2. CASE t # s
        <5>1. tx_msgbuf'[t] = tx_msgbuf[t]
          BY <1>0, <2>4, <4>2 DEF TypeOK
        <5> QED
          BY <3>2, <3>4, <3>b, <5>1 DEF BacklogData, Active
      <4> QED
        BY <4>1, <4>2
    <3>5. ASSUME NEW j \in 1..Len(backlog'), backlog'[j].rpc = b PROVE j = i
      <4>1. j + 1 \in 1..Len(backlog) /\ backlog'[j] = backlog[j + 1]
        BY <2>2, <2>3
      <4>2. j + 1 = i + 1
        BY <3>2, <3>5, <3>b, <4>1 DEF BacklogData
      <4> QED
        BY <2>2, <2>3, <4>2
    <3>6. backlog'[i].rpc = b /\ backlog'[i].pkts = k /\ b \in 1..issued'
      BY <1>0, <3>1, <3>2, <3>b
    <3> QED
      BY <3>2, <3>4, <3>5, <3>6 DEF BacklogData
  <2>10. issued' \in Nat /\ issued' >= issued
    BY <1>0, <1>i
  <2> QED
    BY <1>0, <1>1, <1>4, <1>5, <2>4, <2>5, <2>7, <2>8, <2>9, <2>10, DataSlotChange
<1>8. CASE backlog = <<>>
  <2>1. /\ tx_msgbuf' = [tx_msgbuf EXCEPT ![s] = NoMsg]
        /\ num_rx' = [num_rx EXCEPT ![s] = @ + 1]
        /\ resp_data' = [resp_data EXCEPT ![s] = FilledBy(p)]
        /\ ClientTx({}, {}, FALSE, {p})
        /\ UNCHANGED <<backlog, cur_req_num>>
    BY <1>8, <1>s DEF ProcessRespComplete
  <2>2. \A t \in Sslots \ {s} :
             /\ cur_req_num'[t] = cur_req_num[t] /\ num_rx'[t] = num_rx[t]
             /\ resp_data'[t] = resp_data[t]
    BY <1>0, <2>1 DEF TypeOK
  <2>m. PICK m : m = NoMsg
    OBVIOUS
  <2>n. PICK n : n = cur_req_num'[s]
    OBVIOUS
  <2>3. ReqSent(s, n, m)
    <3>1. PICK New : New = {} /\ ClientSent(New)
      BY <2>1, ClientTxNone
    <3> QED
      BY <3>1 DEF ReqSent
  <2>4. \A i \in 1..Len(backlog') : BacklogData(i)'
    BY <1>8, <2>1
  <2>5. issued' \in Nat /\ issued' >= issued
    BY <1>0, <1>i
  <2>6. tx_msgbuf' = [tx_msgbuf EXCEPT ![s] = m] /\ m = NoMsg /\ cur_req_num'[s] = cur_req_num[s]
    BY <2>1, <2>m
  <2> QED
    BY <1>0, <1>1, <1>4, <1>5, <2>2, <2>3, <2>4, <2>5, <2>6, <2>n, DataSlotChange
<1> QED
  BY <1>7, <1>8

-----------------------------------------------------------------------------
(* Steps of the server *)

\* A chunk is its two fields.
LEMMA ChunkFields ==
  ASSUME NEW c \in Chunk, NEW a, NEW b, c.rpc = a, c.idx = b
  PROVE  c = [rpc |-> a, idx |-> b]
BY DEF Chunk

\* The server works on the RPC r of one sslot: no other RPC is affected.
LEMMA DataServe ==
  ASSUME IInv, DataInv, UNCHANGED clientVars, NEW s \in Sslots, NEW r, Active(s),
         r = tx_msgbuf[s].rpc, ServerFrame(s),
         \A t \in Sslots \ {s} : req_data'[t] = req_data[t],
         \A q \in Rpcs \ {r} : runs'[q] = runs[q] /\ answer'[q] = answer[q],
         SrvData(s)', NEW New, ServerSent(New), \A p \in New : PktData(p)',
         \A p \in AllPkts : p.type = Resp /\ p.sslot = s => p.req_num # s_cur_req_num'[s]
  PROVE  DataInv'
<1>0. TypeOK /\ CliData(s) /\ issued \in 0..NumRpcs
  BY DEF IInv, DataInv, TypeOK
<1>1. r \in 1..issued /\ result[r] = NoResult
  BY <1>0 DEF CliData
<1>2. ASSUME NEW t \in Sslots PROVE CliData(t)'
  BY DEF DataInv, CliData, Active, clientVars
<1>3. ASSUME NEW t \in Sslots PROVE SrvData(t)'
  <2>1. CASE t = s
    BY <2>1
  <2>2. CASE t # s
    <3>1. SrvData(t) /\ CliData(t)
      BY DEF DataInv
    <3>q. PICK q : q = tx_msgbuf[t].rpc
      OBVIOUS
    <3>2. Active(t) => runs'[q] = runs[q] /\ answer'[q] = answer[q]
      <4> SUFFICES ASSUME Active(t) PROVE q \in Rpcs \ {r}
        OBVIOUS
      <4>1. q \in 1..issued /\ q # r
        BY <2>2, <3>1, <3>q DEF CliData
      <4> QED
        BY <1>0, <4>1 DEF Rpcs
    <3>3. /\ s_tx_msgbuf'[t] = s_tx_msgbuf[t] /\ s_cur_req_num'[t] = s_cur_req_num[t]
          /\ s_num_rx'[t] = s_num_rx[t] /\ req_pkts'[t] = req_pkts[t]
          /\ req_type'[t] = req_type[t] /\ req_data'[t] = req_data[t]
          /\ serving'[t] = serving[t]
          /\ tx_msgbuf' = tx_msgbuf /\ cur_req_num' = cur_req_num
      BY <2>2 DEF ServerFrame, clientVars
    <3> QED
      BY <3>1, <3>2, <3>3, <3>q DEF SrvData, Active
  <2> QED
    BY <2>1, <2>2
<1>4. ASSUME NEW q \in Rpcs, q # r, Untouched(q) PROVE Untouched(q)'
  BY <1>4 DEF Untouched, clientVars
<1>5. \A q \in Rpcs : q > issued' => Untouched(q)'
  <2>1. ASSUME NEW q \in Rpcs, q > issued PROVE q # r /\ Untouched(q)
    BY <1>0, <1>1, <2>1 DEF DataInv
  <2> QED
    BY <1>4, <2>1 DEF clientVars
<1>6. ASSUME NEW i \in 1..Len(backlog') PROVE BacklogData(i)'
  <2>1. i \in 1..Len(backlog) /\ BacklogData(i) /\ backlog' = backlog
    BY <1>6 DEF DataInv, clientVars
  <2>b. PICK b : b = backlog[i].rpc
    OBVIOUS
  <2>2. Untouched(b) /\ b \in Rpcs /\ b # r
    <3>1. Untouched(b) /\ b \in 1..issued /\ b # r
      BY <2>1, <2>b DEF BacklogData
    <3> QED
      BY <1>0, <3>1 DEF Rpcs
  <2>3. Untouched(b)'
    BY <1>4, <2>2
  <2>4. Untouched(backlog[i].rpc)'
    BY <2>1, <2>3, <2>b
  <2> QED
    BY <2>1, <2>4 DEF BacklogData, Active, clientVars
<1>7. ResponseIntact' /\ ResultType'
  <2>1. ResultType'
    BY DEF DataInv, ResultType, clientVars
  <2>2. ASSUME NEW q \in Rpcs, result'[q] # NoResult
        PROVE  /\ result'[q].pkts = answer'[q]
               /\ \A i \in 0..(answer'[q] - 1) : result'[q].data[i] = [rpc |-> q, idx |-> i]
    <3>1. result' = result /\ q # r /\ answer'[q] = answer[q]
      BY <1>1, <2>2 DEF clientVars
    <3> QED
      BY <2>2, <3>1 DEF DataInv, ResponseIntact
  <2> QED
    BY <2>1, <2>2 DEF ResponseIntact
<1>8. ASSUME NEW p \in AllPkts PROVE PktData(p)'
  <2>1. PktData(p) /\ p.sslot \in Sslots
    BY <1>0, PacketFields DEF DataInv, AllPkts
  <2>2. CASE p.sslot # s
    BY <2>1, <2>2 DEF PktData, Active, ServerFrame, clientVars
  <2>3. CASE p.sslot = s
    BY <2>1, <2>3 DEF PktData, Active, clientVars
  <2> QED
    BY <2>2, <2>3
<1>9. AllPkts' \subseteq AllPkts \cup New
  BY DEF ServerSent, AllPkts, clientVars
<1>10. \A p \in AllPkts' : PktData(p)'
  BY <1>8, <1>9
<1> QED
  BY <1>2, <1>3, <1>5, <1>6, <1>7, <1>10 DEF DataInv, AllPkts

\* The server holds no response, so no packet of one can be around.
LEMMA NoRespPkts ==
  ASSUME IInv, NEW s \in Sslots, NEW n, (n = s_cur_req_num[s] /\ ~SrvDone(s)) \/ n > s_cur_req_num[s]
  PROVE  \A p \in AllPkts : p.type = Resp /\ p.sslot = s => p.req_num # n
<1> SUFFICES ASSUME NEW p \in AllPkts, p.type = Resp, p.sslot = s, p.req_num = n PROVE FALSE
  OBVIOUS
<1>1. TypeOK /\ PktInv(p) /\ p.req_num \in Nat /\ s_cur_req_num[s] \in Nat
  BY PacketFields, SlotTypes DEF IInv, NetInv, AllPkts
<1> QED
  BY <1>1 DEF PktInv, RespPktInv

\* A request packet of the client's current request carries a chunk of it.
LEMMA ReqChunk ==
  ASSUME IInv, DataInv, NEW p \in net, p.type = Req, NEW s \in Sslots, s = p.sslot,
         p.req_num = cur_req_num[s], Active(s)
  PROVE  p.data = [rpc |-> tx_msgbuf[s].rpc, idx |-> p.pkt_num]
<1>1. p.data \in Chunk
  BY PacketFields DEF IInv
<1>2. p.data.rpc = tx_msgbuf[s].rpc /\ p.data.idx = p.pkt_num
  BY DEF DataInv, PktData
<1> QED
  BY <1>1, <1>2, ChunkFields

\* A handler is invoked for RPC r only.
LEMMA RunsOf ==
  ASSUME TypeOK, NEW r \in Rpcs, runs' = [runs EXCEPT ![r] = @ + 1]
  PROVE  runs'[r] = runs[r] + 1 /\ \A q \in Rpcs \ {r} : runs'[q] = runs[q]
BY DEF TypeOK

LEMMA DataProcessSmallReqNew ==
  ASSUME IInv, DataInv, NEW p \in net, ProcessSmallReqNew(p)
  PROVE  DataInv'
<1>s. PICK s \in Sslots : s = p.sslot
  BY PacketFields DEF IInv
<1>r. PICK r : r = tx_msgbuf[s].rpc
  OBVIOUS
<1>0. /\ TypeOK /\ CliData(s) /\ SrvData(s)
      /\ p.type = Req /\ p.size = 1 /\ p.req_num > s_cur_req_num[s]
  BY <1>s DEF IInv, DataInv, ProcessSmallReqNew
<1>1. /\ p.req_num = cur_req_num[s] /\ cur_req_num[s] = s_cur_req_num[s] + 1 /\ Active(s)
  BY <1>0, <1>s, NewRequest
<1>2. p.pkt_num = 0 /\ s_cur_req_num[s] \in Nat
  <2>1. PktInv(p) /\ p.pkt_num \in Nat /\ s_cur_req_num[s] \in Nat
    BY <1>0, PacketFields, SlotTypes DEF IInv, NetInv
  <2> QED
    BY <1>0, <2>1 DEF PktInv, ReqPktInv
<1>3. p.data = [rpc |-> r, idx |-> 0]
  BY <1>0, <1>1, <1>2, <1>r, <1>s, ReqChunk
<1>b. PICK buf : buf = [i \in 0..(MaxReqPkts - 1) |-> IF i = 0 THEN p.data ELSE NoData]
  OBVIOUS
<1>k. PICK kept : kept = IF p.data.rpc \in Foreground
                         THEN [i \in 0..(MaxReqPkts - 1) |-> NoData] ELSE buf
  OBVIOUS
<1>4. buf[0] = [rpc |-> r, idx |-> 0] /\ buf[0].rpc = r
  BY <1>3, <1>b
<1>5. /\ s_tx_msgbuf' = [s_tx_msgbuf EXCEPT ![s] = NoMsg]
      /\ s_cur_req_num' = [s_cur_req_num EXCEPT ![s] = p.req_num]
      /\ s_num_rx' = [s_num_rx EXCEPT ![s] = 1]
      /\ req_pkts' = [req_pkts EXCEPT ![s] = 1]
      /\ req_data' = [req_data EXCEPT ![s] = kept]
      /\ serving' = [serving EXCEPT ![s] = r]
      /\ req_type' = [req_type EXCEPT ![s] = TRUE]
      /\ runs' = [runs EXCEPT ![r] = @ + 1]
      /\ ServerTx({}, {}, FALSE, {p})
      /\ UNCHANGED <<sav_num_req_pkts, answer>> /\ UNCHANGED clientVars
  BY <1>s, <1>b, <1>k, <1>4 DEF ProcessSmallReqNew, InvokeHandler
<1>6. ServerFrame(s) /\ \A t \in Sslots \ {s} : req_data'[t] = req_data[t]
  BY <1>0, <1>5 DEF ServerFrame, TypeOK
<1>7. /\ s_tx_msgbuf'[s] = NoMsg /\ s_cur_req_num'[s] = p.req_num /\ s_num_rx'[s] = 1
      /\ req_pkts'[s] = 1 /\ req_data'[s] = kept /\ req_type'[s] = TRUE
      /\ serving'[s] = r
  BY <1>0, <1>5 DEF TypeOK
<1>8. r \in Rpcs /\ runs[r] = 0 /\ answer[r] = 0
  <2>1. r \in 1..issued /\ issued \in 0..NumRpcs
    BY <1>0, <1>1, <1>r DEF CliData, TypeOK
  <2>2. cur_req_num[s] # s_cur_req_num[s]
    BY <1>1, <1>2
  <2> QED
    BY <1>0, <1>1, <1>r, <2>1, <2>2 DEF SrvData, Rpcs
<1>9. runs'[r] = 1 /\ \A q \in Rpcs \ {r} : runs'[q] = runs[q]
  <2>1. runs' = [runs EXCEPT ![r] = @ + 1]
    BY <1>5
  <2>2. runs'[r] = runs[r] + 1 /\ \A q \in Rpcs \ {r} : runs'[q] = runs[q]
    BY <1>0, <1>8, <2>1, RunsOf
  <2> QED
    BY <1>8, <2>2
<1>10. SrvData(s)'
  <2>1. tx_msgbuf' = tx_msgbuf /\ cur_req_num'[s] = s_cur_req_num'[s] /\ answer'[r] = 0
    BY <1>1, <1>5, <1>7, <1>8 DEF clientVars
  <2>2. r \notin Foreground =>
          \A i \in 0..(s_num_rx'[s] - 1) : req_data'[s][i] = [rpc |-> r, idx |-> i]
    BY <1>3, <1>4, <1>7, <1>k
  <2>3. NoMsg.pkts = 0
    BY DEF NoMsg
  <2> QED
    BY <1>7, <1>9, <1>r, <2>1, <2>2, <2>3 DEF SrvData
<1>11. \A q \in AllPkts : q.type = Resp /\ q.sslot = s => q.req_num # s_cur_req_num'[s]
  <2>n. PICK n : n = p.req_num
    OBVIOUS
  <2> QED
    BY <1>0, <1>7, <2>n, NoRespPkts
<1>n. PICK New : New = {} /\ ServerSent(New)
  BY <1>5, ServerTxNone
<1>12. \A q \in Rpcs \ {r} : runs'[q] = runs[q] /\ answer'[q] = answer[q]
  BY <1>5, <1>9
<1>13. \A q \in New : PktData(q)'
  BY <1>n
<1>14. UNCHANGED clientVars
  BY <1>5
<1> QED
  BY <1>1, <1>6, <1>10, <1>11, <1>12, <1>13, <1>14, <1>n, <1>r, DataServe

LEMMA DataLargeReqFirst ==
  ASSUME IInv, DataInv, NEW p \in net, ProcessLargeReqNext(p), p.pkt_num = 0
  PROVE  DataInv'
<1>s. PICK s \in Sslots : s = p.sslot
  BY PacketFields DEF IInv
<1>r. PICK r : r = tx_msgbuf[s].rpc
  OBVIOUS
<1>0. /\ TypeOK /\ CliData(s) /\ SrvData(s) /\ SrvInv(s) /\ PktInv(p)
      /\ p.type = Req /\ p.size > 1 /\ in_order_large_req(p)
  BY <1>s DEF IInv, DataInv, ServerInv, NetInv, ProcessLargeReqNext
<1>3. /\ p.req_num \in Nat /\ p.size \in Nat /\ s_cur_req_num[s] \in Nat /\ p.req_num > 0
  BY <1>0, PacketFields, SlotTypes DEF PktInv, ReqPktInv
<1>a. p.req_num > s_cur_req_num[s]
  <2>1. CASE p.req_num = s_cur_req_num[s] /\ p.pkt_num = s_num_rx[s]
    <3>1. s_num_rx[s] = 0 /\ s_cur_req_num[s] > 0
      BY <1>3, <2>1
    <3>2. SrvDone(s) /\ FALSE
      BY <1>0, <3>1, SlotTypes DEF SrvInv, SrvFresh, SrvReceiving, SrvPending, SrvDone
    <3> QED
      BY <3>2
  <2> QED
    BY <1>0, <1>3, <1>s, <2>1 DEF in_order_large_req
<1>1. /\ p.req_num = cur_req_num[s] /\ cur_req_num[s] = s_cur_req_num[s] + 1 /\ Active(s)
      /\ SrvFresh(s) \/ SrvDone(s)
  BY <1>0, <1>a, <1>s, NewRequest
<1>2. ~req_type[s]
  BY <1>1 DEF SrvFresh, SrvDone
<1>4. p.data = [rpc |-> r, idx |-> 0]
  BY <1>0, <1>1, <1>r, <1>s, ReqChunk
<1>b. PICK buf : buf = [[i \in 0..(MaxReqPkts - 1) |-> NoData] EXCEPT ![p.pkt_num] = p.data]
  OBVIOUS
<1>5. buf[0] = [rpc |-> r, idx |-> 0]
  BY <1>4, <1>b
<1>q. PICK q : q = CrPkt(p)
  OBVIOUS
<1>6. /\ s_tx_msgbuf' = [s_tx_msgbuf EXCEPT ![s] = NoMsg]
      /\ s_cur_req_num' = [s_cur_req_num EXCEPT ![s] = p.req_num]
      /\ s_num_rx' = [s_num_rx EXCEPT ![s] = 1]
      /\ req_pkts' = [req_pkts EXCEPT ![s] = p.size]
      /\ req_data' = [req_data EXCEPT ![s] = buf]
      /\ UNCHANGED <<req_type, serving, runs>>
      /\ ServerTx({}, {q}, FALSE, {p})
      /\ UNCHANGED <<sav_num_req_pkts, answer>> /\ UNCHANGED clientVars
  <2>1. p.pkt_num # p.size - 1 /\ 1 # p.size
    BY <1>0, <1>3
  <2> QED
    BY <1>s, <1>b, <1>q, <2>1 DEF ProcessLargeReqNext
<1>7. ServerFrame(s) /\ \A t \in Sslots \ {s} : req_data'[t] = req_data[t]
  BY <1>0, <1>6 DEF ServerFrame, TypeOK
<1>8. /\ s_tx_msgbuf'[s] = NoMsg /\ s_cur_req_num'[s] = p.req_num /\ s_num_rx'[s] = 1
      /\ req_pkts'[s] = p.size /\ req_data'[s] = buf /\ ~req_type'[s]
  BY <1>0, <1>2, <1>6 DEF TypeOK
<1>9. runs[r] = 0 /\ answer[r] = 0
  <2>1. cur_req_num[s] # s_cur_req_num[s]
    BY <1>1, <1>3
  <2> QED
    BY <1>0, <1>1, <1>r, <2>1 DEF SrvData
<1>10. SrvData(s)'
  <2>1. /\ tx_msgbuf' = tx_msgbuf /\ cur_req_num'[s] = s_cur_req_num'[s]
        /\ runs'[r] = 0 /\ answer'[r] = 0
    BY <1>1, <1>6, <1>8, <1>9 DEF clientVars
  <2>2. \A i \in 0..(s_num_rx'[s] - 1) : req_data'[s][i] = [rpc |-> r, idx |-> i]
    BY <1>5, <1>8
  <2>3. NoMsg.pkts = 0
    BY DEF NoMsg
  <2>4. req_pkts'[s] > 0 /\ req_pkts'[s] # 0
    BY <1>0, <1>3, <1>8
  <2> QED
    BY <1>8, <1>r, <2>1, <2>2, <2>3, <2>4 DEF SrvData
<1>11. \A u \in AllPkts : u.type = Resp /\ u.sslot = s => u.req_num # s_cur_req_num'[s]
  <2>n. PICK n : n = p.req_num
    OBVIOUS
  <2> QED
    BY <1>a, <1>8, <2>n, NoRespPkts
<1>n. PICK New : New = {q} /\ ServerSent(New)
  BY <1>6, ServerTxHdr
<1>12. \A u \in Rpcs \ {r} : runs'[u] = runs[u] /\ answer'[u] = answer[u]
  BY <1>6
<1>13. \A u \in New : PktData(u)'
  <2>1. q.type # Req /\ q.type # Resp
    BY <1>q DEF CrPkt, ExplCR, Req, Resp
  <2> QED
    BY <1>n, <2>1 DEF PktData
<1>14. UNCHANGED clientVars
  BY <1>6
<1> QED
  BY <1>1, <1>7, <1>10, <1>11, <1>12, <1>13, <1>14, <1>n, <1>r, DataServe

LEMMA DataLargeReqNext ==
  ASSUME IInv, DataInv, NEW p \in net, ProcessLargeReqNext(p), p.pkt_num # 0
  PROVE  DataInv'
<1>s. PICK s \in Sslots : s = p.sslot
  BY PacketFields DEF IInv
<1>r. PICK r : r = tx_msgbuf[s].rpc
  OBVIOUS
<1>0. /\ TypeOK /\ p.type = Req /\ p.size > 1 /\ PktInv(p) /\ SrvInv(s) /\ PairSlotInv(s)
      /\ CliData(s) /\ SrvData(s) /\ p.req_num = s_cur_req_num[s] /\ p.pkt_num = s_num_rx[s]
  BY <1>s DEF IInv, DataInv, ServerInv, NetInv, PairInv, ProcessLargeReqNext, in_order_large_req
<1>1. /\ p.req_num \in Nat /\ p.pkt_num \in Nat /\ p.size \in Nat
      /\ p.pkt_num < p.size /\ p.size = SrvReqPkts(s)
  BY <1>0, <1>s, PacketFields DEF PktInv, ReqPktInv
<1>2. SrvReceiving(s) /\ req_pkts[s] = p.size
  BY <1>0, <1>1, SlotTypes
     DEF SrvInv, SrvFresh, SrvPending, SrvDone, SrvReceiving, SrvReqPkts
<1>3. ~SrvFresh(s) /\ ~SrvDone(s)
  BY <1>0, <1>2, SlotTypes DEF SrvFresh, SrvDone, SrvReceiving
<1>4. Active(s) /\ cur_req_num[s] = s_cur_req_num[s] /\ tx_msgbuf[s].pkts = p.size
  BY <1>0, <1>1, <1>3, SlotTypes DEF PairSlotInv
<1>k. PICK k \in Nat : k = p.pkt_num /\ k = s_num_rx[s] /\ k > 0 /\ k < p.size
  BY <1>0, <1>1
<1>5. p.data = [rpc |-> r, idx |-> k]
  BY <1>0, <1>4, <1>k, <1>r, <1>s, ReqChunk
<1>b. PICK buf : buf = [req_data[s] EXCEPT ![p.pkt_num] = p.data]
  OBVIOUS
<1>6. \A i \in 0..k : buf[i] = [rpc |-> r, idx |-> i]
  <2>1. req_data[s] \in [0..(MaxReqPkts - 1) -> Chunk] /\ p.size <= MaxReqPkts
    BY <1>0, <1>4, SlotTypes DEF ReqBuf, CliData
  <2>2. k \in 0..(MaxReqPkts - 1) /\ 0..k \subseteq 0..(MaxReqPkts - 1)
    BY <1>1, <1>k, <2>1
  <2>3. \A i \in 0..(k - 1) : req_data[s][i] = [rpc |-> r, idx |-> i]
    <3>1. req_pkts[s] > 0 /\ req_pkts[s] # 1
      BY <1>0, <1>1, <1>2
    <3> QED
      BY <1>0, <1>4, <1>k, <1>r, <3>1 DEF SrvData
  <2> SUFFICES ASSUME NEW i \in 0..k PROVE buf[i] = [rpc |-> r, idx |-> i]
    OBVIOUS
  <2>4. CASE i = k
    BY <1>5, <1>b, <1>k, <2>1, <2>2, <2>4
  <2>5. CASE i # k
    <3>1. i \in 0..(k - 1) /\ i \in 0..(MaxReqPkts - 1)
      BY <2>2, <2>5
    <3>2. buf[i] = req_data[s][i]
      BY <1>b, <1>k, <2>1, <2>5, <3>1
    <3> QED
      BY <2>3, <3>1, <3>2
  <2> QED
    BY <2>4, <2>5
<1>7. buf[0].rpc = r
  <2>1. 0 \in 0..k
    OBVIOUS
  <2>2. buf[0] = [rpc |-> r, idx |-> 0]
    BY <1>6, <2>1
  <2> QED
    BY <2>2
<1>8. /\ UNCHANGED <<s_tx_msgbuf, s_cur_req_num, sav_num_req_pkts, answer>>
      /\ s_num_rx' = [s_num_rx EXCEPT ![s] = k + 1]
      /\ req_pkts' = [req_pkts EXCEPT ![s] = req_pkts[s]]
      /\ req_data' = [req_data EXCEPT ![s] = buf]
      /\ IF k + 1 = req_pkts[s]
         THEN /\ req_type' = [req_type EXCEPT ![s] = TRUE]
              /\ serving' = [serving EXCEPT ![s] = r]
              /\ runs' = [runs EXCEPT ![r] = @ + 1]
         ELSE UNCHANGED <<req_type, serving, runs>>
      /\ ServerTx({}, IF p.pkt_num # req_pkts[s] - 1 THEN {CrPkt(p)} ELSE {}, FALSE, {p})
      /\ UNCHANGED clientVars
  BY <1>s, <1>b, <1>k, <1>7 DEF ProcessLargeReqNext, InvokeHandler
<1>9. /\ s_num_rx'[s] = k + 1 /\ req_pkts'[s] = req_pkts[s] /\ req_data'[s] = buf
      /\ \A t \in Sslots \ {s} : /\ s_num_rx'[t] = s_num_rx[t] /\ req_pkts'[t] = req_pkts[t]
                                 /\ req_data'[t] = req_data[t]
  BY <1>0, <1>8 DEF TypeOK
<1>10. /\ k + 1 = req_pkts[s] => req_type'[s]
       /\ k + 1 # req_pkts[s] => ~req_type'[s]
       /\ \A t \in Sslots \ {s} : req_type'[t] = req_type[t] /\ serving'[t] = serving[t]
       /\ req_type'[s] => serving'[s] = r
  BY <1>0, <1>2, <1>8 DEF TypeOK, SrvReceiving
<1>11. ServerFrame(s)
  BY <1>8, <1>9, <1>10 DEF ServerFrame
<1>12. r \in Rpcs /\ runs[r] = 0 /\ answer[r] = s_tx_msgbuf[s].pkts
  <2>1. r \in 1..issued /\ issued \in 0..NumRpcs
    BY <1>0, <1>4, <1>r DEF CliData, TypeOK
  <2>2. req_pkts[s] > 0 /\ ~req_type[s]
    BY <1>1, <1>2, <1>k DEF SrvReceiving
  <2> QED
    BY <1>0, <1>4, <1>r, <2>1, <2>2 DEF SrvData, Rpcs
<1>13. /\ runs'[r] = IF k + 1 = req_pkts[s] THEN 1 ELSE 0
       /\ \A q \in Rpcs \ {r} : runs'[q] = runs[q] /\ answer'[q] = answer[q]
  <2>1. CASE k + 1 = req_pkts[s]
    <3>1. runs' = [runs EXCEPT ![r] = @ + 1]
      BY <1>8, <2>1
    <3>2. runs'[r] = runs[r] + 1 /\ \A q \in Rpcs \ {r} : runs'[q] = runs[q]
      BY <1>0, <1>12, <3>1, RunsOf
    <3> QED
      BY <1>8, <1>12, <2>1, <3>2
  <2>2. CASE k + 1 # req_pkts[s]
    BY <1>8, <1>12, <2>2
  <2> QED
    BY <2>1, <2>2
<1>14. SrvData(s)'
  <2>1. /\ tx_msgbuf' = tx_msgbuf /\ cur_req_num'[s] = s_cur_req_num'[s]
        /\ answer'[r] = s_tx_msgbuf'[s].pkts /\ s_tx_msgbuf'[s].pkts <= MaxRespPkts
    BY <1>0, <1>4, <1>8, <1>12 DEF clientVars, SrvData
  <2>2. \A i \in 0..(s_num_rx'[s] - 1) : req_data'[s][i] = [rpc |-> r, idx |-> i]
    <3>1. (k + 1) - 1 = k
      OBVIOUS
    <3> QED
      BY <1>6, <1>9, <3>1
  <2>3. req_pkts'[s] > 0 /\ req_pkts'[s] # 0
    BY <1>1, <1>2, <1>9, <1>k
  <2> QED
    BY <1>9, <1>10, <1>13, <1>r, <2>1, <2>2, <2>3 DEF SrvData
<1>15. \A u \in AllPkts : u.type = Resp /\ u.sslot = s => u.req_num # s_cur_req_num'[s]
  <2>n. PICK n : n = s_cur_req_num[s]
    OBVIOUS
  <2> QED
    BY <1>3, <1>8, <2>n, NoRespPkts
<1>n. PICK New : ServerSent(New) /\ \A u \in New : PktData(u)'
  <2>1. CASE p.pkt_num = req_pkts[s] - 1
    <3>1. PICK New : New = {} /\ ServerSent(New)
      BY <1>8, <2>1, ServerTxNone
    <3>2. \A u \in New : PktData(u)'
      BY <3>1
    <3> QED
      BY <3>1, <3>2
  <2>2. CASE p.pkt_num # req_pkts[s] - 1
    <3>q. PICK q : q = CrPkt(p)
      OBVIOUS
    <3>1. q.type # Req /\ q.type # Resp
      BY <3>q DEF CrPkt, ExplCR, Req, Resp
    <3>2. PICK New : New = {q} /\ ServerSent(New)
      BY <1>8, <2>2, <3>q, ServerTxHdr
    <3>3. \A u \in New : PktData(u)'
      BY <3>1, <3>2 DEF PktData
    <3> QED
      BY <3>2, <3>3
  <2> QED
    BY <2>1, <2>2
<1>16. UNCHANGED clientVars
  BY <1>8
<1> QED
  BY <1>4, <1>9, <1>11, <1>13, <1>14, <1>15, <1>16, <1>n, <1>r, DataServe

\* enqueue_response answers the RPC whose request was executed.
LEMMA Answers ==
  ASSUME IInv, DataInv, NEW s \in Sslots, NEW pkts \in 1..MaxRespPkts,
         EnqueueResponse(s, pkts), NEW r, r = tx_msgbuf[s].rpc
  PROVE  /\ SrvPending(s) /\ Active(s) /\ cur_req_num[s] = s_cur_req_num[s]
         /\ r \in Rpcs /\ r \in 1..issued /\ serving[s] = r
         /\ runs[r] = 1 /\ answer[r] = 0 /\ result[r] = NoResult
         /\ answer' = [answer EXCEPT ![r] = pkts]
<1>0. TypeOK /\ SrvInv(s) /\ PairSlotInv(s) /\ req_type[s] /\ CliData(s) /\ SrvData(s)
  BY DEF IInv, DataInv, ServerInv, PairInv, EnqueueResponse
<1>1. SrvPending(s) /\ ~SrvFresh(s) /\ ~SrvDone(s)
  BY <1>0 DEF SrvInv, SrvFresh, SrvReceiving, SrvDone
<1>2. Active(s) /\ cur_req_num[s] = s_cur_req_num[s]
  BY <1>0, <1>1, SlotTypes DEF PairSlotInv
<1>3. req_pkts[s] \in Nat /\ req_pkts[s] > 0 /\ s_num_rx[s] = req_pkts[s] /\ s_tx_msgbuf[s] = NoMsg
  BY <1>0, <1>1, SlotTypes DEF SrvPending
<1>4. serving[s] = r
  BY <1>0, <1>2 DEF SrvData
<1>5. runs[r] = 1 /\ answer[r] = 0
  BY <1>0, <1>2, <1>3 DEF SrvData, NoMsg
<1>6. r \in 1..issued /\ r \in Rpcs /\ result[r] = NoResult
  BY <1>0, <1>2 DEF CliData, TypeOK, Rpcs
<1>7. answer' = [answer EXCEPT ![r] = pkts]
  BY <1>4 DEF EnqueueResponse
<1> QED
  BY <1>1, <1>2, <1>4, <1>5, <1>6, <1>7

LEMMA DataEnqueueResponse ==
  ASSUME IInv, DataInv, NEW s \in Sslots, NEW pkts \in 1..MaxRespPkts, EnqueueResponse(s, pkts)
  PROVE  DataInv'
<1>0. TypeOK
  BY DEF IInv
<1>r. PICK r : r = tx_msgbuf[s].rpc
  OBVIOUS
<1>1. /\ SrvPending(s) /\ Active(s) /\ cur_req_num[s] = s_cur_req_num[s]
      /\ r \in Rpcs /\ serving[s] = r /\ runs[r] = 1
      /\ answer' = [answer EXCEPT ![r] = pkts]
  BY <1>r, Answers
<1>m. PICK m : m = [rpc |-> r, pkts |-> pkts]
  OBVIOUS
<1>q. PICK q : q = RespPkt(s, s_cur_req_num[s], m, 0, req_pkts[s])
  OBVIOUS
<1>2. /\ s_tx_msgbuf' = [s_tx_msgbuf EXCEPT ![s] = m]
      /\ sav_num_req_pkts' = [sav_num_req_pkts EXCEPT ![s] = req_pkts[s]]
      /\ req_pkts' = [req_pkts EXCEPT ![s] = 0]
      /\ req_type' = [req_type EXCEPT ![s] = FALSE]
      /\ serving' = [serving EXCEPT ![s] = 0]
      /\ ServerTx({q}, {}, FALSE, {})
      /\ UNCHANGED <<s_cur_req_num, s_num_rx, req_data, runs>> /\ UNCHANGED clientVars
  BY <1>1, <1>m, <1>q DEF EnqueueResponse
<1>3. ServerFrame(s) /\ \A t \in Sslots \ {s} : req_data'[t] = req_data[t]
  BY <1>0, <1>2 DEF ServerFrame, TypeOK
<1>4. /\ s_tx_msgbuf'[s] = m /\ sav_num_req_pkts'[s] = req_pkts[s] /\ req_pkts'[s] = 0
      /\ ~req_type'[s] /\ s_cur_req_num'[s] = s_cur_req_num[s] /\ req_pkts[s] \in Nat
  BY <1>0, <1>2 DEF TypeOK
<1>5. answer'[r] = pkts /\ \A u \in Rpcs \ {r} : runs'[u] = runs[u] /\ answer'[u] = answer[u]
  BY <1>0, <1>1, <1>2 DEF TypeOK
<1>6. SrvData(s)'
  <2>1. /\ tx_msgbuf' = tx_msgbuf /\ cur_req_num'[s] = s_cur_req_num'[s] /\ runs'[r] = 1
        /\ s_tx_msgbuf'[s].pkts = pkts /\ s_tx_msgbuf'[s].rpc = r /\ pkts <= MaxRespPkts
    BY <1>1, <1>2, <1>4, <1>m DEF clientVars
  <2> QED
    BY <1>4, <1>5, <1>r, <2>1 DEF SrvData
<1>7. \A u \in AllPkts : u.type = Resp /\ u.sslot = s => u.req_num # s_cur_req_num'[s]
  <2>n. PICK n : n = s_cur_req_num[s]
    OBVIOUS
  <2>1. ~SrvDone(s)
    BY <1>1 DEF SrvPending, SrvDone
  <2> QED
    BY <1>4, <2>1, <2>n, NoRespPkts
<1>8. /\ q.type = Resp /\ q.sslot = s /\ q.pkt_num = req_pkts[s] - 1 + 0
      /\ q.data = [rpc |-> r, idx |-> 0]
  BY <1>m, <1>q DEF RespPkt
<1>n. PICK New : New = {q} /\ ServerSent(New)
  BY <1>2, <1>8, ServerTxResp
<1>9. \A u \in New : PktData(u)'
  <2>1. resp_ntoi(q.pkt_num, sav_num_req_pkts'[s]) = 0
    BY <1>4, <1>8 DEF resp_ntoi
  <2>2. q.type # Req
    BY <1>8 DEF Req, Resp
  <2>3. s_tx_msgbuf'[s].rpc = r
    BY <1>4, <1>m
  <2> QED
    BY <1>8, <1>n, <2>1, <2>2, <2>3 DEF PktData, resp_ntoi
<1>10. UNCHANGED clientVars
  BY <1>2
<1> QED
  BY <1>1, <1>3, <1>5, <1>6, <1>7, <1>9, <1>10, <1>n, <1>r, DataServe
-----------------------------------------------------------------------------
(* The data layer is inductive *)

LEMMA InitData ==
  ASSUME Init
  PROVE  DataInv
<1>1. \A s \in Sslots : tx_msgbuf[s] = NoMsg /\ s_tx_msgbuf[s] = NoMsg
  BY DEF Init
<1>2. \A s \in Sslots : CliData(s) /\ SrvData(s)
  BY <1>1, BoundsAssumption DEF CliData, SrvData, Active, NoMsg
<1>3. \A r \in Rpcs : Untouched(r) /\ result[r] = NoResult
  BY DEF Init, Untouched
<1>4. ResultType
  <2>1. NoResult \in [pkts : Nat, data : RespBuf \cup {<<>>}]
    BY DEF NoResult
  <2> QED
    BY <2>1 DEF Init, ResultType
<1>5. ResponseIntact
  BY <1>3 DEF ResponseIntact
<1>6. net \cup tx_queue \cup s_tx_queue = {} /\ Len(backlog) = 0
  BY DEF Init
<1> QED
  BY <1>2, <1>3, <1>4, <1>5, <1>6 DEF DataInv

LEMMA NextData ==
  ASSUME IInv, DataInv, [Next]_vars
  PROVE  DataInv'
<1>1. ASSUME NEW pkts \in 1..MaxReqPkts, EnqueueRequestBacklog(pkts) PROVE DataInv'
  BY <1>1, DataEnqueueRequestBacklog
<1>2. ASSUME NEW s \in Sslots, NEW pkts \in 1..MaxReqPkts, EnqueueRequest(s, pkts)
      PROVE  DataInv'
  BY <1>2, DataEnqueueRequest
<1>3. CASE ProcessCreditStallQueue
  BY <1>3, DataProcessCreditStallQueue
<1>4. ASSUME NEW s \in Sslots, NEW k \in wheel[s], ProcessWheel(s, k) PROVE DataInv'
  BY <1>4, DataProcessWheel
<1>5. ASSUME NEW s \in Sslots, PktLossScan(s) PROVE DataInv'
  BY <1>5, DataPktLossScan
<1>6. ASSUME NEW p \in net, ProcessPacket(p) PROVE DataInv'
  <2>1. CASE ProcessExplCR(p)
    BY <2>1, DataProcessExplCR
  <2>2. CASE ProcessRespDrop(p)
    BY <2>2, DataDrop DEF ProcessRespDrop
  <2>3. CASE ProcessRespPartial(p)
    BY <2>3, DataProcessRespPartial
  <2>4. CASE ProcessRespComplete(p)
    BY <2>4, DataProcessRespComplete
  <2>5. CASE ProcessSmallReqOld(p)
    BY <2>5, DataProcessSmallReqOld
  <2>6. CASE ProcessSmallReqNew(p)
    BY <2>6, DataProcessSmallReqNew
  <2>7. CASE ProcessLargeReqOld(p)
    BY <2>7, DataProcessLargeReqOld
  <2>8. CASE ProcessLargeReqNext(p)
    BY <2>8, DataLargeReqFirst, DataLargeReqNext
  <2>9. CASE ProcessRFRDrop(p)
    BY <2>9, DataProcessRFRDrop
  <2>10. CASE ProcessRFR(p)
    BY <2>10, DataProcessRFR
  <2> QED
    BY <1>6, <2>1, <2>2, <2>3, <2>4, <2>5, <2>6, <2>7, <2>8, <2>9, <2>10 DEF ProcessPacket
<1>7. ASSUME NEW s \in Sslots, NEW pkts \in 1..MaxRespPkts, EnqueueResponse(s, pkts)
      PROVE  DataInv'
  BY <1>7, DataEnqueueResponse
<1>8. CASE \/ \E p \in tx_queue : ClientNicSend(p)
           \/ \E p \in s_tx_queue : ServerNicSend(p)
           \/ \E p \in net : LosePacket(p)
  BY <1>8, DataNic
<1>9. CASE UNCHANGED vars
  <2>1. PICK New : New = {}
    OBVIOUS
  <2>2. /\ UNCHANGED dataVars /\ UNCHANGED <<num_rx, resp_data, s_num_rx>>
        /\ AllPkts' \subseteq AllPkts \cup New
    BY <1>9 DEF vars, dataVars, AllPkts
  <2> QED
    BY <2>1, <2>2, DataMove
<1> QED
  BY <1>1, <1>2, <1>3, <1>4, <1>5, <1>6, <1>7, <1>8, <1>9 DEF Next

\* Every packet carries the chunk its header names, both ends hold the parts
\* of the same request and response, and an RPC is held in one place only.
THEOREM DataInvariantHolds == Spec => []DataInv
<1>1. Init => DataInv
  BY InitData
<1>2. IInv /\ DataInv /\ [Next]_vars => DataInv'
  BY NextData
<1> QED
  BY <1>1, <1>2, InvariantHolds, PTL DEF Spec

\* The continuation of an RPC sees the whole response its handler enqueued,
\* every chunk in its place: process_resp_one_st under loss, reordering,
\* duplication, retransmission and reuse of the sslot.
THEOREM ResponsesIntact == Spec => []ResponseIntact
<1>1. DataInv => ResponseIntact
  BY DEF DataInv
<1> QED
  BY <1>1, DataInvariantHolds, PTL

\* Between the handler's invocation and enqueue_response the server keeps the
\* whole request that the handler was invoked for, untouched by retransmitted
\* packets, except a request of one packet with a foreground handler, which is
\* only lent from the RX ring while the handler runs (kZeroCopyRX).
THEOREM PendingRequestsIntact == Spec => []PendingRequestIntact
<1>1. ASSUME IInv, DataInv PROVE PendingRequestIntact
  <2> SUFFICES ASSUME NEW s \in Sslots, req_type[s]
               PROVE  /\ s_tx_msgbuf[s] = NoMsg
                      /\ req_pkts[s] > 0
                      /\ ~Lent(s) => \A i \in 0..(req_pkts[s] - 1) :
                           req_data[s][i] = [rpc |-> serving[s], idx |-> i]
    BY DEF PendingRequestIntact
  <2>0. TypeOK /\ SrvInv(s) /\ PairSlotInv(s) /\ SrvData(s)
    BY <1>1 DEF IInv, DataInv, ServerInv, PairInv
  <2>1. SrvPending(s) /\ ~SrvFresh(s) /\ ~SrvDone(s)
    BY <2>0 DEF SrvInv, SrvFresh, SrvReceiving, SrvDone
  <2>2. Active(s) /\ cur_req_num[s] = s_cur_req_num[s]
    BY <2>0, <2>1, SlotTypes DEF PairSlotInv
  <2>r. PICK r : r = tx_msgbuf[s].rpc
    OBVIOUS
  <2>3. /\ s_tx_msgbuf[s] = NoMsg /\ req_pkts[s] \in Nat /\ req_pkts[s] > 0
        /\ s_num_rx[s] = req_pkts[s]
    BY <2>0, <2>1, SlotTypes DEF SrvPending
  <2>4. serving[s] = r
    BY <2>0, <2>2, <2>r DEF SrvData
  <2>5. ASSUME ~Lent(s)
        PROVE  \A i \in 0..(req_pkts[s] - 1) : req_data[s][i] = [rpc |-> r, idx |-> i]
    <3>1. req_pkts[s] > 0 /\ ~(req_pkts[s] = 1 /\ r \in Foreground)
      BY <2>3, <2>4, <2>5 DEF Lent
    <3> QED
      BY <2>0, <2>2, <2>3, <2>r, <3>1 DEF SrvData
  <2> QED
    BY <2>3, <2>4, <2>5
<1> QED
  BY <1>1, InvariantHolds, DataInvariantHolds, PTL

-----------------------------------------------------------------------------
(* The datapath implements the abstract service *)

svcState == <<issued, runs, answer, result>>

\* Handlers that neither start, run, answer nor complete an RPC.
LEMMA ServiceStutters ==
  ASSUME UNCHANGED svcState
  PROVE  [Service!Next]_(Service!svcVars)
BY DEF svcState, Service!svcVars

\* enqueue_request
LEMMA ServiceIssues ==
  ASSUME issued < NumRpcs, issued' = issued + 1, UNCHANGED <<runs, answer, result>>
  PROVE  Service!Next
BY DEF Service!Next, Service!Issue

\* The request handler is invoked.
LEMMA ServiceExecutes ==
  ASSUME TypeOK, NEW r \in Rpcs, r \in 1..issued, runs[r] = 0,
         runs' = [runs EXCEPT ![r] = @ + 1], UNCHANGED <<issued, answer, result>>
  PROVE  Service!Next
<1>1. runs' = [runs EXCEPT ![r] = 1]
  BY DEF TypeOK
<1>2. r <= issued
  BY DEF TypeOK
<1>3. Service!Execute(r)
  BY <1>1, <1>2 DEF Service!Execute
<1> QED
  BY <1>3 DEF Service!Next, Service!AllRpcs, Rpcs

\* enqueue_response
LEMMA ServiceAnswers ==
  ASSUME NEW r \in Rpcs, NEW pkts \in 1..MaxRespPkts, runs[r] = 1, answer[r] = 0,
         answer' = [answer EXCEPT ![r] = pkts], UNCHANGED <<issued, runs, result>>
  PROVE  Service!Next
<1>1. Service!Answer(r, pkts)
  BY DEF Service!Answer
<1> QED
  BY <1>1 DEF Service!Next, Service!AllRpcs, Rpcs

\* The continuation is invoked.
LEMMA ServiceCompletes ==
  ASSUME ResultType, NEW r \in Rpcs, NEW n \in Nat, n > 0, NEW d,
         result[r] = NoResult, answer[r] = n,
         result' = [result EXCEPT ![r] = [pkts |-> n, data |-> d]],
         UNCHANGED <<issued, runs, answer>>
  PROVE  Service!Next
<1>1. result[r].pkts = 0
  BY DEF NoResult
<1>2. [q \in Rpcs |-> result'[q].pkts] = [[q \in Rpcs |-> result[q].pkts] EXCEPT ![r] = n]
  BY DEF ResultType
<1>3. Service!Complete(r)
  BY <1>1, <1>2 DEF Service!Complete
<1> QED
  BY <1>3 DEF Service!Next, Service!AllRpcs, Rpcs

\* The request of a small request packet is the client's, and has not run.
LEMMA SmallReqExecutes ==
  ASSUME IInv, DataInv, NEW p \in net, ProcessSmallReqNew(p)
  PROVE  Service!Next
<1>s. PICK s \in Sslots : s = p.sslot
  BY PacketFields DEF IInv
<1>r. PICK r : r = tx_msgbuf[s].rpc
  OBVIOUS
<1>0. /\ TypeOK /\ CliData(s) /\ SrvData(s)
      /\ p.type = Req /\ p.size = 1 /\ p.req_num > s_cur_req_num[s]
  BY <1>s DEF IInv, DataInv, ProcessSmallReqNew
<1>1. p.req_num = cur_req_num[s] /\ cur_req_num[s] # s_cur_req_num[s] /\ Active(s)
  <2>1. /\ p.req_num = cur_req_num[s] /\ cur_req_num[s] = s_cur_req_num[s] + 1 /\ Active(s)
        /\ s_cur_req_num[s] \in Nat
    BY <1>0, <1>s, NewRequest, SlotTypes
  <2> QED
    BY <2>1
<1>2. p.data.rpc = r
  <2>1. p.data = [rpc |-> r, idx |-> p.pkt_num]
    BY <1>0, <1>1, <1>r, <1>s, ReqChunk
  <2> QED
    BY <2>1
<1>b. PICK buf : buf = [i \in 0..(MaxReqPkts - 1) |-> IF i = 0 THEN p.data ELSE NoData]
  OBVIOUS
<1>3. buf[0].rpc = r
  <2>1. 0 \in 0..(MaxReqPkts - 1)
    BY BoundsAssumption
  <2> QED
    BY <1>2, <1>b, <2>1
<1>4. runs' = [runs EXCEPT ![r] = @ + 1] /\ UNCHANGED <<issued, answer, result>>
  BY <1>s, <1>b, <1>3 DEF ProcessSmallReqNew, InvokeHandler, clientVars
<1>5. r \in Rpcs /\ r \in 1..issued /\ runs[r] = 0
  <2>1. r \in 1..issued /\ issued \in 0..NumRpcs
    BY <1>0, <1>1, <1>r DEF CliData, TypeOK
  <2> QED
    BY <1>0, <1>1, <1>r, <2>1 DEF SrvData, Rpcs
<1> QED
  BY <1>0, <1>4, <1>5, ServiceExecutes

\* The packets of a large request run its handler when the last one is there.
LEMMA LargeReqExecutes ==
  ASSUME IInv, DataInv, NEW p \in net, ProcessLargeReqNext(p)
  PROVE  Service!Next \/ UNCHANGED svcState
<1>s. PICK s \in Sslots : s = p.sslot
  BY PacketFields DEF IInv
<1>r. PICK r : r = tx_msgbuf[s].rpc
  OBVIOUS
<1>0. /\ TypeOK /\ p.type = Req /\ p.size > 1 /\ PktInv(p) /\ SrvInv(s) /\ PairSlotInv(s)
      /\ CliData(s) /\ SrvData(s) /\ in_order_large_req(p)
      /\ UNCHANGED <<issued, answer, result>>
  BY <1>s DEF IInv, DataInv, ServerInv, NetInv, PairInv, ProcessLargeReqNext, clientVars
<1>1. p.req_num \in Nat /\ p.pkt_num \in Nat /\ p.size \in Nat
  BY <1>0, <1>s, PacketFields
<1>2. CASE p.pkt_num = 0
  <2>1. p.size # 1
    BY <1>0, <1>1
  <2>2. runs' = runs
    BY <1>2, <2>1 DEF ProcessLargeReqNext
  <2> QED
    BY <1>0, <2>2 DEF svcState
<1>3. CASE p.pkt_num # 0
  <2>0. p.req_num = s_cur_req_num[s] /\ p.pkt_num = s_num_rx[s] /\ p.pkt_num > 0
    BY <1>0, <1>1, <1>3, <1>s DEF in_order_large_req
  <2>1. p.pkt_num < p.size /\ p.size = SrvReqPkts(s)
    BY <1>0, <1>s, <2>0 DEF PktInv, ReqPktInv
  <2>2. SrvReceiving(s) /\ req_pkts[s] = p.size
    BY <1>0, <1>1, <2>0, <2>1, SlotTypes
       DEF SrvInv, SrvFresh, SrvPending, SrvDone, SrvReceiving, SrvReqPkts
  <2>3. ~SrvFresh(s) /\ ~SrvDone(s)
    BY <1>0, <2>2, SlotTypes DEF SrvFresh, SrvDone, SrvReceiving
  <2>4. Active(s) /\ cur_req_num[s] = s_cur_req_num[s]
    BY <1>0, <1>1, <2>3, SlotTypes DEF PairSlotInv
  <2>5. req_pkts[s] # 1 /\ req_pkts[s] > 0 /\ ~req_type[s] /\ 0 \in 0..(s_num_rx[s] - 1)
    BY <1>0, <1>1, <2>0, <2>1, <2>2 DEF SrvReceiving
  <2>6. req_data[s][0] = [rpc |-> r, idx |-> 0] /\ runs[r] = 0
    BY <1>0, <1>r, <2>4, <2>5 DEF SrvData
  <2>b. PICK buf : buf = [req_data[s] EXCEPT ![p.pkt_num] = p.data]
    OBVIOUS
  <2>7. buf[0].rpc = r
    <3>1. req_data[s] \in ReqBuf /\ 0 \in 0..(MaxReqPkts - 1)
      BY <1>0, SlotTypes, BoundsAssumption
    <3>2. buf[0] = req_data[s][0]
      BY <1>3, <2>b, <3>1 DEF ReqBuf
    <3> QED
      BY <2>6, <3>2
  <2>8. runs' = runs \/ runs' = [runs EXCEPT ![r] = @ + 1]
    BY <1>3, <1>s, <2>b, <2>7 DEF ProcessLargeReqNext, InvokeHandler
  <2>9. r \in Rpcs /\ r \in 1..issued
    <3>1. r \in 1..issued /\ issued \in 0..NumRpcs
      BY <1>0, <1>r, <2>4 DEF CliData, TypeOK
    <3> QED
      BY <3>1 DEF Rpcs
  <2>10. CASE runs' = runs
    BY <1>0, <2>10 DEF svcState
  <2>11. CASE runs' = [runs EXCEPT ![r] = @ + 1]
    BY <1>0, <2>6, <2>9, <2>11, ServiceExecutes
  <2> QED
    BY <2>8, <2>10, <2>11
<1> QED
  BY <1>2, <1>3

\* One step of the datapath is one step of the service, or none: one case per
\* action.
LEMMA ServiceStep ==
  ASSUME IInv, DataInv, [Next]_vars
  PROVE  [Service!Next]_(Service!svcVars)
<1>1. ASSUME NEW pkts \in 1..MaxReqPkts, EnqueueRequestBacklog(pkts) PROVE Service!Next
  BY <1>1, ServiceIssues DEF EnqueueRequestBacklog, serverVars
<1>2. ASSUME NEW s \in Sslots, NEW pkts \in 1..MaxReqPkts, EnqueueRequest(s, pkts)
      PROVE  Service!Next
  BY <1>2, ServiceIssues DEF EnqueueRequest, serverVars
<1>3. ASSUME \/ ProcessCreditStallQueue
             \/ \E s \in Sslots : \E k \in wheel[s] : ProcessWheel(s, k)
             \/ \E s \in Sslots : PktLossScan(s)
      PROVE  UNCHANGED svcState
  BY <1>3 DEF ProcessCreditStallQueue, ProcessWheel, PktLossScan, serverVars, svcState
<1>4. ASSUME NEW p \in net, ProcessPacket(p)
      PROVE  Service!Next \/ UNCHANGED svcState
  <2>1. CASE ProcessExplCR(p) \/ ProcessRespDrop(p) \/ ProcessRespPartial(p)
    BY <2>1 DEF ProcessExplCR, ProcessRespDrop, ProcessRespPartial, clientVars, serverVars,
                svcState
  <2>2. CASE ProcessRespComplete(p)
    <3>s. PICK s \in Sslots : s = p.sslot
      BY PacketFields DEF IInv
    <3>r. PICK r : r = tx_msgbuf[s].rpc
      OBVIOUS
    <3>n. PICK n : n = SizedBy(p)
      OBVIOUS
    <3>d. PICK d : d = FilledBy(p)
      OBVIOUS
    <3>1. /\ r \in Rpcs /\ result[r] = NoResult /\ n \in Nat /\ n > 0 /\ answer[r] = n
          /\ result' = [result EXCEPT ![r] = [pkts |-> n, data |-> d]]
      BY <2>2, <3>s, <3>r, <3>n, <3>d, Completes
    <3>2. UNCHANGED <<issued, runs, answer>> /\ ResultType
      BY <2>2 DEF ProcessRespComplete, serverVars, DataInv
    <3> QED
      BY <3>1, <3>2, ServiceCompletes
  <2>3. CASE ProcessSmallReqNew(p)
    BY <2>3, SmallReqExecutes
  <2>4. CASE ProcessLargeReqNext(p)
    BY <2>4, LargeReqExecutes
  <2>5. CASE ProcessSmallReqOld(p) \/ ProcessLargeReqOld(p) \/ ProcessRFRDrop(p) \/ ProcessRFR(p)
    BY <2>5 DEF ProcessSmallReqOld, ProcessLargeReqOld, ProcessRFRDrop, ProcessRFR, clientVars,
                svcState
  <2> QED
    BY <1>4, <2>1, <2>2, <2>3, <2>4, <2>5 DEF ProcessPacket
<1>5. ASSUME NEW s \in Sslots, NEW pkts \in 1..MaxRespPkts, EnqueueResponse(s, pkts)
      PROVE  Service!Next
  <2>r. PICK r : r = tx_msgbuf[s].rpc
    OBVIOUS
  <2>1. /\ r \in Rpcs /\ runs[r] = 1 /\ answer[r] = 0
        /\ answer' = [answer EXCEPT ![r] = pkts]
    BY <1>5, <2>r, Answers
  <2>2. UNCHANGED <<issued, runs, result>>
    BY <1>5 DEF EnqueueResponse, clientVars
  <2> QED
    BY <2>1, <2>2, ServiceAnswers
<1>6. ASSUME \/ \E p \in tx_queue : ClientNicSend(p)
             \/ \E p \in s_tx_queue : ServerNicSend(p)
             \/ \E p \in net : LosePacket(p)
             \/ UNCHANGED vars
      PROVE  UNCHANGED svcState
  BY <1>6 DEF ClientNicSend, ServerNicSend, LosePacket, clientVars, serverVars, svcState, vars
<1> QED
  BY <1>1, <1>2, <1>3, <1>4, <1>5, <1>6, ServiceStutters DEF Next

LEMMA ServiceInit ==
  ASSUME Init
  PROVE  Service!Init
<1>1. [r \in Rpcs |-> result[r].pkts] = [r \in Rpcs |-> 0]
  BY DEF Init, NoResult
<1> QED
  BY <1>1 DEF Init, Service!Init, Service!AllRpcs, Rpcs

\* The datapath implements the service of ExactlyOnceRpc, over a network that
\* loses, delays, reorders and duplicates packets: every RPC runs at most once,
\* only after it was issued, and its continuation sees that run's answer, once.
THEOREM ImplementsService == Spec => ServiceSpec
<1>1. Init => Service!Init
  BY ServiceInit
<1>2. IInv /\ DataInv /\ [Next]_vars => [Service!Next]_(Service!svcVars)
  BY ServiceStep
<1> QED
  BY <1>1, <1>2, InvariantHolds, DataInvariantHolds, PTL DEF Spec, ServiceSpec, Service!Spec

-----------------------------------------------------------------------------
(* The window of a request only moves forward *)

Forward(s) ==
    cur_req_num'[s] = cur_req_num[s] => num_tx'[s] >= num_tx[s] /\ num_rx'[s] >= num_rx[s]

LEMMA ForwardUnchanged ==
  ASSUME TypeOK, UNCHANGED <<num_tx, num_rx>>
  PROVE  \A s \in Sslots : Forward(s)
BY SlotTypes DEF Forward

\* num_tx[s] is set to tx and num_rx[s] is left alone or incremented.
LEMMA ForwardOne ==
  ASSUME TypeOK, NEW s \in Sslots, NEW tx \in Nat, tx >= num_tx[s],
         num_tx' = [num_tx EXCEPT ![s] = tx],
         num_rx' = num_rx \/ num_rx' = [num_rx EXCEPT ![s] = @ + 1]
  PROVE  \A t \in Sslots : Forward(t)
<1>1. num_tx \in [Sslots -> Nat] /\ num_rx \in [Sslots -> Nat]
  BY DEF TypeOK
<1> QED
  BY <1>1 DEF Forward

\* The same for a step that leaves num_tx alone.
LEMMA ForwardNone ==
  ASSUME TypeOK, NEW s \in Sslots, num_tx' = num_tx,
         num_rx' = [num_rx EXCEPT ![s] = @ + 1]
  PROVE  \A t \in Sslots : Forward(t)
<1>1. num_tx \in [Sslots -> Nat] /\ num_rx \in [Sslots -> Nat]
  BY DEF TypeOK
<1> QED
  BY <1>1 DEF Forward

LEMMA KickReqForward ==
  ASSUME TypeOK, NEW s \in Sslots, NEW n, NEW m, NEW tx \in Nat, NEW cr \in Nat,
         NEW drain, NEW rcvd, kick_req(s, n, m, tx, cr, drain, rcvd),
         m.pkts \in Nat, num_tx[s] <= m.pkts, num_tx[s] <= tx + cr, tx <= m.pkts,
         num_rx' = num_rx \/ num_rx' = [num_rx EXCEPT ![s] = @ + 1]
  PROVE  \A t \in Sslots : Forward(t)
<1>1. PICK tx2 : tx2 = tx + MinOf(cr, m.pkts - tx)
  OBVIOUS
<1>2. num_tx' = [num_tx EXCEPT ![s] = tx2]
  BY <1>1 DEF kick_req
<1>3. num_tx[s] \in Nat
  BY SlotTypes
<1>4. tx2 \in Nat /\ tx2 >= num_tx[s]
  BY <1>1, <1>3 DEF MinOf
<1> QED
  BY <1>2, <1>4, ForwardOne

LEMMA KickRfrForward ==
  ASSUME TypeOK, NEW s \in Sslots, NEW n, NEW wire \in Nat, NEW tx \in Nat, NEW cr \in Nat,
         NEW drain, NEW rcvd, kick_rfr(s, n, wire, tx, cr, drain, rcvd),
         num_tx[s] <= wire, num_tx[s] <= tx + cr, tx <= wire,
         num_rx' = num_rx \/ num_rx' = [num_rx EXCEPT ![s] = @ + 1]
  PROVE  \A t \in Sslots : Forward(t)
<1>1. PICK tx2 : tx2 = tx + MinOf(cr, wire - tx)
  OBVIOUS
<1>2. num_tx' = [num_tx EXCEPT ![s] = tx2]
  BY <1>1 DEF kick_rfr
<1>3. num_tx[s] \in Nat
  BY SlotTypes
<1>4. tx2 \in Nat /\ tx2 >= num_tx[s]
  BY <1>1, <1>3 DEF MinOf
<1> QED
  BY <1>2, <1>4, ForwardOne

\* A new request has a new number; the other sslots are left alone.
LEMMA StartForward ==
  ASSUME TypeOK, NEW s \in Sslots, NEW m, NEW cr, NEW rcvd, start_request(s, m, cr, rcvd)
  PROVE  \A t \in Sslots : Forward(t)
<1>1. /\ cur_req_num \in [Sslots -> Nat] /\ num_tx \in [Sslots -> Nat]
      /\ num_rx \in [Sslots -> Nat]
  BY DEF TypeOK
<1>2. /\ cur_req_num' = [cur_req_num EXCEPT ![s] = cur_req_num[s] + 1]
      /\ num_rx' = [num_rx EXCEPT ![s] = 0]
  BY DEF start_request
<1>3. PICK tx : num_tx' = [num_tx EXCEPT ![s] = tx]
  BY DEF start_request, kick_req
<1>4. cur_req_num'[s] # cur_req_num[s]
  BY <1>1, <1>2
<1>5. \A t \in Sslots \ {s} : num_tx'[t] = num_tx[t] /\ num_rx'[t] = num_rx[t]
  BY <1>1, <1>2, <1>3
<1> QED
  BY <1>1, <1>4, <1>5 DEF Forward

LEMMA StallQueueForward ==
  ASSUME IInv, ProcessCreditStallQueue
  PROVE  \A t \in Sslots : Forward(t)
<1>0. TypeOK /\ StallqInv
  BY DEF IInv
<1>1. PICK s \in Sslots : s = Head(stallq) /\ s = stallq[1] /\ 1 \in 1..Len(stallq)
  BY <1>0, HeadTail DEF ProcessCreditStallQueue, TypeOK
<1>2. num_tx[s] = 0 /\ tx_msgbuf[s].pkts > 0 /\ tx_msgbuf[s].pkts \in Nat
  BY <1>0, <1>1, SlotTypes DEF StallqInv, IInv, ClientInv, CliInv
<1>n. PICK n, m : n = cur_req_num[s] /\ m = tx_msgbuf[s]
  OBVIOUS
<1>t. PICK tx \in Nat : tx = num_tx[s]
  BY <1>2
<1>c. PICK cr \in Nat : cr = credits
  BY <1>0 DEF TypeOK
<1>3. kick_req(s, n, m, tx, cr, FALSE, {}) /\ num_rx' = num_rx
  BY <1>1, <1>2, <1>n, <1>t, <1>c DEF ProcessCreditStallQueue
<1>4. m.pkts \in Nat /\ num_tx[s] <= m.pkts /\ num_tx[s] <= tx + cr /\ tx <= m.pkts
  BY <1>2, <1>n, <1>t
<1> QED
  BY <1>0, <1>3, <1>4, KickReqForward

LEMMA LossScanForward ==
  ASSUME IInv, NEW s \in Sslots, PktLossScan(s)
  PROVE  \A t \in Sslots : Forward(t)
<1>0. TypeOK /\ CliInv(s) /\ Active(s) /\ num_rx' = num_rx
  BY DEF IInv, ClientInv, PktLossScan, Active
<1>n. PICK n, m : n = cur_req_num[s] /\ m = tx_msgbuf[s]
  OBVIOUS
<1>t. PICK tx \in Nat : tx = num_rx[s] /\ tx <= num_tx[s]
  BY <1>0, SlotTypes DEF CliInv
<1>1. m.pkts \in Nat /\ m.pkts > 0 /\ num_tx[s] \in Nat /\ resp_pkts[s] \in Nat
  BY <1>0, <1>n, SlotTypes DEF CliInv
<1>c. PICK cr \in Nat : cr = credits + (num_tx[s] - num_rx[s]) /\ num_tx[s] <= tx + cr
  <2>1. credits \in Nat
    BY <1>0 DEF TypeOK
  <2> QED
    BY <1>1, <1>t, <2>1
<1>w. PICK wire : wire = wire_pkts(tx_msgbuf[s].pkts, resp_pkts[s])
  OBVIOUS
<1>2. CASE wheel[s] # {}
  BY <1>0, <1>2, ForwardUnchanged DEF PktLossScan
<1>3. CASE wheel[s] = {} /\ num_rx[s] < tx_msgbuf[s].pkts
  <2>1. kick_req(s, n, m, tx, cr, TRUE, {})
    BY <1>3, <1>n, <1>t, <1>c DEF PktLossScan
  <2>2. num_tx[s] <= m.pkts /\ tx <= m.pkts
    BY <1>0, <1>1, <1>3, <1>n, <1>t DEF CliInv
  <2> QED
    BY <1>0, <1>1, <1>c, <2>1, <2>2, KickReqForward
<1>4. CASE wheel[s] = {} /\ ~(num_rx[s] < tx_msgbuf[s].pkts)
  <2>1. kick_rfr(s, n, wire, tx, cr, TRUE, {})
    BY <1>4, <1>n, <1>t, <1>c, <1>w DEF PktLossScan
  <2>2. num_rx[s] >= tx_msgbuf[s].pkts
    BY <1>1, <1>4, <1>n, <1>t
  <2>3. wire \in Nat /\ num_tx[s] <= wire /\ tx <= wire
    BY <1>0, <1>1, <1>n, <1>t, <1>w, <2>2 DEF CliInv, wire_pkts
  <2> QED
    BY <1>0, <1>c, <2>1, <2>3, KickRfrForward
<1> QED
  BY <1>2, <1>3, <1>4

LEMMA ExplCRForward ==
  ASSUME IInv, NEW p \in net, ProcessExplCR(p)
  PROVE  \A t \in Sslots : Forward(t)
<1>s. PICK s \in Sslots : s = p.sslot
  BY PacketFields DEF IInv
<1>0. TypeOK /\ CliInv(s) /\ p.type = ExplCR
  BY DEF IInv, ClientInv, ProcessExplCR
<1>1. CASE ~in_order_client(p)
  BY <1>0, <1>1, ForwardUnchanged DEF ProcessExplCR, clientVars
<1>2. CASE in_order_client(p) /\ num_tx[s] < tx_msgbuf[s].pkts
  <2>n. PICK n, m : n = cur_req_num[s] /\ m = tx_msgbuf[s]
    OBVIOUS
  <2>t. PICK tx \in Nat : tx = num_tx[s]
    BY <1>0, SlotTypes
  <2>c. PICK cr \in Nat : cr = credits + 1
    BY <1>0 DEF TypeOK
  <2>1. kick_req(s, n, m, tx, cr, FALSE, {p}) /\ num_rx' = [num_rx EXCEPT ![s] = @ + 1]
    BY <1>2, <1>s, <2>n, <2>t, <2>c DEF ProcessExplCR
  <2>2. m.pkts \in Nat /\ num_tx[s] <= m.pkts /\ num_tx[s] <= tx + cr /\ tx <= m.pkts
    BY <1>0, <1>2, <2>n, <2>t, SlotTypes
  <2> QED
    BY <1>0, <2>1, <2>2, KickReqForward
<1>3. CASE in_order_client(p) /\ ~(num_tx[s] < tx_msgbuf[s].pkts)
  <2>1. num_rx' = [num_rx EXCEPT ![s] = @ + 1] /\ num_tx' = num_tx
    BY <1>3, <1>s DEF ProcessExplCR
  <2> QED
    BY <1>0, <2>1, ForwardNone
<1> QED
  BY <1>1, <1>2, <1>3

LEMMA RespPartialForward ==
  ASSUME IInv, NEW p \in net, ProcessRespPartial(p)
  PROVE  \A t \in Sslots : Forward(t)
<1>s. PICK s \in Sslots : s = p.sslot
  BY PacketFields DEF IInv
<1>0. TypeOK /\ p.type = Resp /\ in_order_client(p)
  BY DEF IInv, ProcessRespPartial
<1>1. /\ SizedBy(p) \in Nat /\ SizedBy(p) > 0
      /\ num_tx[s] <= wire_pkts(tx_msgbuf[s].pkts, SizedBy(p))
  BY <1>0, <1>s, RespInOrder
<1>n. PICK n : n = cur_req_num[s]
  OBVIOUS
<1>w. PICK wire \in Nat : wire = wire_pkts(tx_msgbuf[s].pkts, SizedBy(p))
  BY <1>0, <1>1, SlotTypes DEF wire_pkts
<1>t. PICK tx \in Nat : tx = num_tx[s]
  BY <1>0, SlotTypes
<1>c. PICK cr \in Nat : cr = credits + 1
  BY <1>0 DEF TypeOK
<1>2. num_rx' = [num_rx EXCEPT ![s] = @ + 1]
  BY <1>s DEF ProcessRespPartial
<1>3. CASE num_tx[s] # wire
  <2>1. kick_rfr(s, n, wire, tx, cr, FALSE, {p})
    BY <1>3, <1>s, <1>n, <1>w, <1>t, <1>c DEF ProcessRespPartial
  <2>2. num_tx[s] <= wire /\ num_tx[s] <= tx + cr /\ tx <= wire
    BY <1>1, <1>w, <1>t
  <2> QED
    BY <1>0, <1>2, <2>1, <2>2, KickRfrForward
<1>4. CASE num_tx[s] = wire
  <2>1. num_tx' = num_tx
    BY <1>4, <1>s, <1>w DEF ProcessRespPartial
  <2> QED
    BY <1>0, <1>2, <2>1, ForwardNone
<1> QED
  BY <1>3, <1>4

LEMMA RespCompleteForward ==
  ASSUME IInv, NEW p \in net, ProcessRespComplete(p)
  PROVE  \A t \in Sslots : Forward(t)
<1>s. PICK s \in Sslots : s = p.sslot
  BY PacketFields DEF IInv
<1>0. TypeOK
  BY DEF IInv
<1>1. CASE num_rx' = [num_rx EXCEPT ![s] = @ + 1] /\ num_tx' = num_tx
  BY <1>0, <1>1, ForwardNone
<1>m. PICK m, cr, rcvd : m = Head(backlog) /\ cr = credits + 1 /\ rcvd = {p}
  OBVIOUS
<1>2. CASE start_request(s, m, cr, rcvd)
  BY <1>0, <1>2, StartForward
<1> QED
  BY <1>s, <1>m, <1>1, <1>2 DEF ProcessRespComplete

\* Within one request num_tx and num_rx never decrease: pkt_loss_retransmit_st
\* rolls num_tx back and sends again at least as much.
THEOREM WindowsMoveForward == Spec => WindowMovesForward
<1>1. ASSUME IInv, [Next]_vars PROVE \A s \in Sslots : Forward(s)
  <2>0. TypeOK
    BY <1>1 DEF IInv
  <2>1. ASSUME NEW s \in Sslots, NEW pkts \in 1..MaxReqPkts, EnqueueRequest(s, pkts)
        PROVE  \A t \in Sslots : Forward(t)
    <3>1. PICK m, cr : start_request(s, m, cr, {})
      BY <2>1 DEF EnqueueRequest
    <3> QED
      BY <2>0, <3>1, StartForward
  <2>2. CASE ProcessCreditStallQueue
    BY <1>1, <2>2, StallQueueForward
  <2>3. ASSUME NEW s \in Sslots, PktLossScan(s) PROVE \A t \in Sslots : Forward(t)
    BY <1>1, <2>3, LossScanForward
  <2>4. ASSUME NEW p \in net, ProcessPacket(p) PROVE \A t \in Sslots : Forward(t)
    <3>1. CASE ProcessExplCR(p)
      BY <1>1, <3>1, ExplCRForward
    <3>2. CASE ProcessRespPartial(p)
      BY <1>1, <3>2, RespPartialForward
    <3>3. CASE ProcessRespComplete(p)
      BY <1>1, <3>3, RespCompleteForward
    <3>4. CASE \/ ProcessRespDrop(p) \/ ProcessSmallReqOld(p) \/ ProcessSmallReqNew(p)
               \/ ProcessLargeReqOld(p) \/ ProcessLargeReqNext(p)
               \/ ProcessRFRDrop(p) \/ ProcessRFR(p)
      <4>1. UNCHANGED clientVars
        BY <3>4 DEF ProcessRespDrop, ProcessSmallReqOld, ProcessSmallReqNew,
                    ProcessLargeReqOld, ProcessLargeReqNext, ProcessRFRDrop, ProcessRFR
      <4> QED
        BY <2>0, <4>1, ForwardUnchanged DEF clientVars
    <3> QED
      BY <2>4, <3>1, <3>2, <3>3, <3>4 DEF ProcessPacket
  <2>5. ASSUME \/ \E pkts \in 1..MaxReqPkts : EnqueueRequestBacklog(pkts)
               \/ \E s \in Sslots : \E k \in wheel[s] : ProcessWheel(s, k)
               \/ \E s \in Sslots, pkts \in 1..MaxRespPkts : EnqueueResponse(s, pkts)
               \/ \E p \in tx_queue : ClientNicSend(p)
               \/ \E p \in s_tx_queue : ServerNicSend(p)
               \/ \E p \in net : LosePacket(p)
               \/ UNCHANGED vars
        PROVE  UNCHANGED <<num_tx, num_rx>>
    BY <2>5 DEF EnqueueRequestBacklog, ProcessWheel, EnqueueResponse, ClientNicSend,
                ServerNicSend, LosePacket, clientVars, vars
  <2> QED
    BY <1>1, <2>0, <2>1, <2>2, <2>3, <2>4, <2>5, ForwardUnchanged DEF Next
<1>2. IInv /\ [Next]_vars =>
        [\A s \in Sslots : cur_req_num'[s] = cur_req_num[s] =>
            num_tx'[s] >= num_tx[s] /\ num_rx'[s] >= num_rx[s]]_vars
  BY <1>1 DEF Forward
<1> QED
  BY <1>2, InvariantHolds, PTL DEF Spec, WindowMovesForward

-----------------------------------------------------------------------------
(* The TX queues: a queued packet was never sent before *)

\* Two packets of the same kind, request and number are the same packet.
LEMMA SamePacket ==
  ASSUME NEW p \in Packet, NEW q \in Packet, p.type = q.type, p.sslot = q.sslot,
         p.req_num = q.req_num, p.pkt_num = q.pkt_num, p.size = q.size, p.data = q.data
  PROVE  p = q
BY DEF Packet

LEMMA SameRespPkt ==
  ASSUME IInv, DataInv, NEW p \in AllPkts, NEW q \in AllPkts, NEW s \in Sslots,
         p.type = Resp, q.type = Resp, p.sslot = s, q.sslot = s,
         p.req_num = s_cur_req_num[s], q.req_num = s_cur_req_num[s], p.pkt_num = q.pkt_num
  PROVE  p = q
<1>1. p \in Packet /\ q \in Packet
  BY PacketFields DEF IInv, AllPkts
<1>2. PktInv(p) /\ PktInv(q) /\ PktData(p) /\ PktData(q)
  BY DEF IInv, NetInv, DataInv, AllPkts
<1>3. p.size = q.size
  BY <1>2 DEF PktInv, RespPktInv
<1>4. p.data = q.data
  BY <1>2 DEF PktData
<1> QED
  BY <1>1, <1>3, <1>4, SamePacket

LEMMA SameReqPkt ==
  ASSUME IInv, DataInv, NEW p \in AllPkts, NEW q \in AllPkts, NEW s \in Sslots,
         p.type = Req, q.type = Req, p.sslot = s, q.sslot = s, Active(s),
         p.req_num = cur_req_num[s], q.req_num = cur_req_num[s], p.pkt_num = q.pkt_num
  PROVE  p = q
<1>1. p \in Packet /\ q \in Packet /\ p.data \in Chunk /\ q.data \in Chunk
  BY PacketFields DEF IInv, AllPkts
<1>2. PktInv(p) /\ PktInv(q) /\ PktData(p) /\ PktData(q)
  BY DEF IInv, NetInv, DataInv, AllPkts
<1>3. p.size = q.size
  BY <1>2 DEF PktInv, ReqPktInv
<1>4. p.data.rpc = q.data.rpc /\ p.data.idx = q.data.idx
  BY <1>2 DEF PktData
<1>5. p.data = q.data
  BY <1>1, <1>4 DEF Chunk
<1> QED
  BY <1>1, <1>3, <1>5, SamePacket

\* No request packet, or no response packet, entered the network.
NoNewReq == \A p \in net' : p \in net \/ p.type # Req
NoNewResp == \A p \in net' : p \in net \/ p.type # Resp

\* The packets added to a TX queue: request number n of sslot s, from lo on.
QueuedReq(s, n, lo) ==
    \A q \in tx_queue' : q \in tx_queue \/
        (q.sslot = s /\ q.req_num = n /\ q.pkt_num \in Nat /\ q.pkt_num >= lo)

\* A queued response packet that is kept: its RPC is still the client's, and
\* the client still waits for the packet.
KeptByClient(q) ==
    /\ tx_msgbuf'[q.sslot] = tx_msgbuf[q.sslot]
    /\ cur_req_num'[q.sslot] = cur_req_num[q.sslot]
    /\ num_rx'[q.sslot] <= q.pkt_num

\* Steps of the client, and what they do to the server's queue.
LEMMA ServerQueueKept ==
  ASSUME ServerQueueInv, TxQueueInv, UNCHANGED serverVars, NoNewResp,
         \A q \in s_tx_queue : KeptByClient(q)
  PROVE  ServerQueueInv'
<1> SUFFICES ASSUME NEW q \in s_tx_queue' PROVE SrvQueued(q)'
  BY DEF ServerQueueInv
<1>1. q \in s_tx_queue /\ s_cur_req_num' = s_cur_req_num
  BY DEF serverVars
<1>2. SrvQueued(q) /\ q.type = Resp /\ KeptByClient(q)
  BY <1>1 DEF ServerQueueInv, TxQueueInv
<1>3. q \notin net'
  BY <1>2 DEF NoNewResp, SrvQueued
<1> QED
  BY <1>1, <1>2, <1>3 DEF SrvQueued, KeptByClient, Active

\* A step of the client that receives nothing and starts nothing.
LEMMA ServerQueueQuiet ==
  ASSUME ServerQueueInv, TxQueueInv, UNCHANGED serverVars, NoNewResp,
         UNCHANGED <<tx_msgbuf, cur_req_num, num_rx>>
  PROVE  ServerQueueInv'
<1>1. \A q \in s_tx_queue : KeptByClient(q)
  BY DEF ServerQueueInv, SrvQueued, KeptByClient
<1> QED
  BY <1>1, ServerQueueKept

\* The client adds packets that were not sent before to its queue.
LEMMA ClientQueueGrows ==
  ASSUME ~Pacing => \A q \in tx_queue : CliQueued(q),
         TxQueueInv', TxQueueInv, UNCHANGED serverVars, NoNewReq,
         NEW s \in Sslots, NEW n, NEW lo \in Nat, n = cur_req_num'[s], Active(s)',
         QueuedReq(s, n, lo),
         s_cur_req_num[s] = n => s_num_rx[s] \in Nat /\ s_num_rx[s] <= lo,
         \A p \in net : p.type = Req /\ p.sslot = s /\ p.req_num = n
                          => p.pkt_num \in Nat /\ p.pkt_num < lo,
         ~Pacing => \A q \in tx_queue :
            tx_msgbuf'[q.sslot] = tx_msgbuf[q.sslot] /\ cur_req_num'[q.sslot] = cur_req_num[q.sslot]
  PROVE  ClientQueueInv'
<1> SUFFICES ASSUME ~Pacing, NEW q \in tx_queue' PROVE CliQueued(q)'
  BY DEF ClientQueueInv
<1>0. q.type = Req /\ s_cur_req_num' = s_cur_req_num /\ s_num_rx' = s_num_rx
  BY DEF TxQueueInv, serverVars
<1>1. CASE q \in tx_queue
  <2>1. CliQueued(q)
    BY <1>1
  <2>2. q \notin net'
    BY <1>0, <2>1 DEF CliQueued, NoNewReq
  <2> QED
    BY <1>0, <1>1, <2>1, <2>2 DEF CliQueued, Active
<1>2. CASE q.sslot = s /\ q.req_num = n /\ q.pkt_num \in Nat /\ q.pkt_num >= lo
  <2>1. q \notin net
    BY <1>0, <1>2
  <2>2. q \notin net'
    BY <1>0, <2>1 DEF NoNewReq
  <2>3. s_cur_req_num[s] = n => s_num_rx[s] <= q.pkt_num
    BY <1>2
  <2> QED
    BY <1>0, <1>2, <2>2, <2>3 DEF CliQueued
<1> QED
  BY <1>1, <1>2 DEF QueuedReq

\* Nothing is added to the client's queue, and what is in it stays valid.
LEMMA ClientQueueShrinks ==
  ASSUME ClientQueueInv, TxQueueInv, UNCHANGED serverVars, NoNewReq,
         tx_queue' \subseteq tx_queue,
         ~Pacing => \A q \in tx_queue :
            tx_msgbuf'[q.sslot] = tx_msgbuf[q.sslot] /\ cur_req_num'[q.sslot] = cur_req_num[q.sslot]
  PROVE  ClientQueueInv'
<1> SUFFICES ASSUME ~Pacing, NEW q \in tx_queue' PROVE CliQueued(q)'
  BY DEF ClientQueueInv
<1>0. s_cur_req_num' = s_cur_req_num /\ s_num_rx' = s_num_rx
  BY DEF serverVars
<1>1. CliQueued(q) /\ q.type = Req
  BY DEF ClientQueueInv, TxQueueInv
<1>2. q \notin net'
  BY <1>1 DEF CliQueued, NoNewReq
<1> QED
  BY <1>0, <1>1, <1>2 DEF CliQueued, Active

\* A drained queue.
LEMMA ClientQueueDrained ==
  ASSUME tx_queue' = {}
  PROVE  ClientQueueInv'
BY DEF ClientQueueInv

\* What the client's transmissions do to the queue and the network.
LEMMA ClientTxQueued ==
  ASSUME TxQueueInv, NEW pkts, NEW hdrs, NEW rcvd, NEW drain,
         ClientTx(pkts, hdrs, drain, rcvd),
         \A p \in pkts : p.type = Req, \A p \in hdrs : p.type = RFR
  PROVE  /\ NoNewResp
         /\ drain => tx_queue' = {}
         /\ ~drain => NoNewReq /\ tx_queue' = tx_queue \cup pkts
<1>1. Received(rcvd) \subseteq net
  BY DEF Received
<1> QED
  BY <1>1 DEF ClientTx, NoNewResp, NoNewReq, TxQueueInv, Req, RFR, Resp

LEMMA KickReqQueued ==
  ASSUME TxQueueInv, NEW s, NEW n, NEW m, NEW tx \in Nat, NEW cr, NEW drain \in BOOLEAN, NEW rcvd,
         kick_req(s, n, m, tx, cr, drain, rcvd)
  PROVE  /\ NoNewResp
         /\ drain => tx_queue' = {}
         /\ ~drain => NoNewReq /\ QueuedReq(s, n, tx)
<1> DEFINE ks == tx..(tx + MinOf(cr, m.pkts - tx) - 1)
<1>1. PICK ps : /\ ps \subseteq {ReqPkt(s, n, m, k) : k \in ks}
                /\ ClientTx(ps, {}, drain, rcvd)
  <2>1. PICK bypass \in can_bypass_wheel(s) :
          ClientTx(IF bypass THEN {ReqPkt(s, n, m, k) : k \in ks} ELSE {}, {}, drain, rcvd)
    BY DEF kick_req
  <2>2. PICK ps : ps = IF bypass THEN {ReqPkt(s, n, m, k) : k \in ks} ELSE {}
    OBVIOUS
  <2> QED
    BY <2>1, <2>2
<1>2. \A k \in ks : k \in Nat /\ k >= tx
  OBVIOUS
<1>3. \A p \in ps : /\ p.type = Req /\ p.sslot = s /\ p.req_num = n
                    /\ p.pkt_num \in Nat /\ p.pkt_num >= tx
  <2> SUFFICES ASSUME NEW p \in ps
               PROVE  /\ p.type = Req /\ p.sslot = s /\ p.req_num = n
                      /\ p.pkt_num \in Nat /\ p.pkt_num >= tx
    OBVIOUS
  <2>1. PICK k \in ks : p = ReqPkt(s, n, m, k)
    BY <1>1
  <2>2. p.type = Req /\ p.sslot = s /\ p.req_num = n /\ p.pkt_num = k
    BY <2>1 DEF ReqPkt
  <2> QED
    BY <1>2, <2>1, <2>2
<1>4. /\ NoNewResp
      /\ drain => tx_queue' = {}
      /\ ~drain => NoNewReq /\ tx_queue' = tx_queue \cup ps
  BY <1>1, <1>3, ClientTxQueued
<1> QED
  BY <1>3, <1>4 DEF QueuedReq

LEMMA KickRfrQueued ==
  ASSUME TxQueueInv, NEW s, NEW n, NEW wire, NEW tx, NEW cr, NEW drain \in BOOLEAN, NEW rcvd,
         kick_rfr(s, n, wire, tx, cr, drain, rcvd)
  PROVE  /\ NoNewResp
         /\ drain => tx_queue' = {}
         /\ ~drain => NoNewReq /\ tx_queue' = tx_queue
<1>1. PICK hs : /\ hs = {RfrPkt(s, n, k) : k \in tx..(tx + MinOf(cr, wire - tx) - 1)}
                /\ ClientTx({}, hs, drain, rcvd)
  BY DEF kick_rfr
<1>2. \A p \in hs : p.type = RFR
  BY <1>1 DEF RfrPkt
<1>3. \A p \in {} : p.type = Req
  OBVIOUS
<1> QED
  BY <1>1, <1>2, <1>3, ClientTxQueued

LEMMA NoneQueued ==
  ASSUME TxQueueInv, NEW drain \in BOOLEAN, NEW rcvd, ClientTx({}, {}, drain, rcvd)
  PROVE  /\ NoNewResp
         /\ drain => tx_queue' = {}
         /\ ~drain => NoNewReq /\ tx_queue' = tx_queue
<1>1. (\A p \in {} : p.type = Req) /\ (\A p \in {} : p.type = RFR)
  OBVIOUS
<1> QED
  BY <1>1, ClientTxQueued

\* More packets of the active request: none of them was sent before.
LEMMA SendMore ==
  ASSUME IInv, IInv', ClientQueueInv, UNCHANGED serverVars, NoNewReq, NEW s \in Sslots, Active(s),
         UNCHANGED <<tx_msgbuf, cur_req_num>>, NEW n, n = cur_req_num[s],
         NEW tx \in Nat, tx = num_tx[s], QueuedReq(s, n, tx)
  PROVE  ClientQueueInv'
<1>0. TypeOK /\ TxQueueInv /\ TxQueueInv' /\ PairSlotInv(s)
  BY DEF IInv, PairInv
<1>1. n = cur_req_num'[s] /\ Active(s)'
  BY DEF Active
<1>2. s_cur_req_num[s] = n => s_num_rx[s] \in Nat /\ s_num_rx[s] <= tx
  BY <1>0, SlotTypes DEF PairSlotInv
<1>3. ASSUME NEW p \in net, p.type = Req, p.sslot = s, p.req_num = n
      PROVE  p.pkt_num \in Nat /\ p.pkt_num < tx
  <2>1. PktInv(p) /\ p.pkt_num \in Nat
    BY <1>0, PacketFields DEF IInv, NetInv
  <2> QED
    BY <1>3, <2>1 DEF PktInv, ReqPktInv
<1>4. ~Pacing => \A q \in tx_queue : CliQueued(q)
  BY DEF ClientQueueInv
<1>5. ~Pacing => \A q \in tx_queue :
        tx_msgbuf'[q.sslot] = tx_msgbuf[q.sslot] /\ cur_req_num'[q.sslot] = cur_req_num[q.sslot]
  OBVIOUS
<1> QED
  BY <1>0, <1>1, <1>2, <1>3, <1>4, <1>5, ClientQueueGrows

\* A new request: its number is new, so nothing of it was sent before.
LEMMA SendNew ==
  ASSUME IInv, IInv', ClientQueueInv, UNCHANGED serverVars, NEW s \in Sslots,
         NEW m \in Msg, m.pkts > 0, NEW cr, NEW rcvd, start_request(s, m, cr, rcvd),
         ~Pacing => \A q \in tx_queue : q.sslot # s
  PROVE  ClientQueueInv' /\ NoNewResp
<1>0. TypeOK /\ TxQueueInv /\ TxQueueInv' /\ PairSlotInv(s)
  BY DEF IInv, PairInv
<1>n. PICK n \in Nat : n = cur_req_num[s] + 1
  BY <1>0, SlotTypes
<1>1. n = cur_req_num'[s] /\ Active(s)'
  <2>1. /\ tx_msgbuf' = [tx_msgbuf EXCEPT ![s] = m]
        /\ cur_req_num' = [cur_req_num EXCEPT ![s] = n]
    BY <1>n DEF start_request
  <2>2. tx_msgbuf'[s] = m /\ cur_req_num'[s] = n
    BY <1>0, <2>1 DEF TypeOK
  <2>3. m # NoMsg
    BY DEF NoMsg
  <2> QED
    BY <2>2, <2>3 DEF Active
<1>2. NoNewResp /\ NoNewReq /\ QueuedReq(s, n, 0)
  <2>1. CASE kick_req(s, n, m, 0, cr, FALSE, rcvd)
    BY <1>0, <2>1, KickReqQueued
  <2>2. CASE ClientTx({}, {}, FALSE, rcvd)
    BY <1>0, <2>2, NoneQueued DEF QueuedReq
  <2> QED
    BY <1>n, <2>1, <2>2 DEF start_request
<1>3. s_cur_req_num[s] # n
  BY <1>0, <1>n, SlotTypes DEF PairSlotInv
<1>4. ASSUME NEW p \in net, p.type = Req, p.sslot = s, p.req_num = n
      PROVE  FALSE
  <2>1. PktInv(p) /\ cur_req_num[s] \in Nat
    BY <1>0, SlotTypes DEF IInv, NetInv
  <2> QED
    BY <1>4, <1>n, <2>1 DEF PktInv, ReqPktInv
<1>5. ~Pacing => \A q \in tx_queue : CliQueued(q)
  BY DEF ClientQueueInv
<1>6. ~Pacing => \A q \in tx_queue :
        tx_msgbuf'[q.sslot] = tx_msgbuf[q.sslot] /\ cur_req_num'[q.sslot] = cur_req_num[q.sslot]
  <2>1. ASSUME ~Pacing, NEW q \in tx_queue
        PROVE  tx_msgbuf'[q.sslot] = tx_msgbuf[q.sslot] /\ cur_req_num'[q.sslot] = cur_req_num[q.sslot]
    <3>1. q.sslot \in Sslots /\ q.sslot # s
      BY <1>0, <2>1, PacketFields
    <3> QED
      BY <1>0, <3>1 DEF start_request, TypeOK
  <2> QED
    BY <2>1
<1>7. ClientQueueInv'
  BY <1>0, <1>1, <1>2, <1>3, <1>4, <1>5, <1>6, ClientQueueGrows
<1> QED
  BY <1>2, <1>7

LEMMA AheadUnchanged ==
  ASSUME AheadInv, cur_req_num' = cur_req_num, UNCHANGED serverVars
  PROVE  AheadInv'
BY DEF AheadInv, serverVars, SrvFresh, SrvDone, SrvAllSent

LEMMA QueueEnqueueRequestBacklog ==
  ASSUME IInv, QueueInv, NEW pkts, EnqueueRequestBacklog(pkts)
  PROVE  QueueInv'
<1>1. /\ UNCHANGED <<tx_queue, tx_msgbuf, cur_req_num, num_rx, net>> /\ UNCHANGED serverVars
      /\ TxQueueInv /\ ServerQueueInv /\ ClientQueueInv /\ AheadInv
  BY DEF EnqueueRequestBacklog, IInv, QueueInv
<1>2. NoNewReq /\ NoNewResp
  BY <1>1 DEF NoNewReq, NoNewResp
<1>3. ClientQueueInv'
  BY <1>1, <1>2, ClientQueueShrinks
<1> QED
  BY <1>1, <1>2, <1>3, ServerQueueQuiet, AheadUnchanged DEF QueueInv

\* An sslot that is free, or whose response is complete, starts request m.
LEMMA QueueStart ==
  ASSUME IInv, IInv', QueueInv, UNCHANGED serverVars, NEW s \in Sslots,
         NEW m \in Msg, m.pkts > 0, NEW cr, NEW rcvd, start_request(s, m, cr, rcvd),
         ~Pacing => \A q \in tx_queue : q.sslot # s,
         \A q \in s_tx_queue : q.sslot # s,
         SrvFresh(s) \/ (SrvDone(s) /\ SrvAllSent(s))
  PROVE  QueueInv'
<1>0. TypeOK /\ TxQueueInv /\ ServerQueueInv /\ ClientQueueInv /\ AheadInv
  BY DEF IInv, QueueInv
<1>1. ClientQueueInv' /\ NoNewResp
  BY <1>0, SendNew
<1>2. \A t \in Sslots \ {s} : /\ tx_msgbuf'[t] = tx_msgbuf[t] /\ num_rx'[t] = num_rx[t]
                              /\ cur_req_num'[t] = cur_req_num[t]
  BY <1>0 DEF TypeOK, start_request
<1>3. ASSUME NEW q \in s_tx_queue PROVE KeptByClient(q)
  <2>1. q.sslot \in Sslots /\ q.sslot # s /\ SrvQueued(q)
    BY <1>0, PacketFields DEF ServerQueueInv
  <2> QED
    BY <1>2, <2>1 DEF KeptByClient, SrvQueued
<1>4. ServerQueueInv'
  BY <1>0, <1>1, <1>3, ServerQueueKept
<1>5. AheadInv'
  <2> SUFFICES ASSUME NEW t \in Sslots, cur_req_num'[t] = s_cur_req_num'[t] + 1
               PROVE  (SrvFresh(t) \/ (SrvDone(t) /\ SrvAllSent(t)))'
    BY DEF AheadInv
  <2>1. SrvFresh(t) \/ (SrvDone(t) /\ SrvAllSent(t))
    BY <1>0, <1>2 DEF AheadInv, serverVars
  <2> QED
    BY <2>1 DEF serverVars, SrvFresh, SrvDone, SrvAllSent
<1> QED
  BY <1>1, <1>4, <1>5 DEF QueueInv

LEMMA QueueEnqueueRequest ==
  ASSUME IInv, IInv', QueueInv, NEW s \in Sslots, NEW pkts \in 1..MaxReqPkts,
         EnqueueRequest(s, pkts)
  PROVE  QueueInv'
<1>0. TypeOK /\ CliInv(s) /\ PairSlotInv(s) /\ ServerQueueInv /\ ClientQueueInv
  BY DEF IInv, ClientInv, PairInv, QueueInv
<1>1. ~Active(s)
  BY <1>0 DEF EnqueueRequest, CliInv
<1>m. PICK m : m = [rpc |-> issued + 1, pkts |-> pkts]
  OBVIOUS
<1>2. m \in Msg /\ m.pkts > 0
  <2>1. issued \in 0..NumRpcs
    BY <1>0 DEF TypeOK
  <2>2. issued + 1 \in 0..NumRpcs
    BY <2>1 DEF EnqueueRequest
  <2> QED
    BY <1>m, <2>2 DEF Msg
<1>c. PICK cr, rcvd : cr = credits /\ rcvd = {}
  OBVIOUS
<1>3. start_request(s, m, cr, rcvd) /\ UNCHANGED serverVars
  BY <1>m, <1>c DEF EnqueueRequest
<1>4. ~Pacing => \A q \in tx_queue : q.sslot # s
  BY <1>0, <1>1 DEF ClientQueueInv, CliQueued
<1>5. \A q \in s_tx_queue : q.sslot # s
  BY <1>0, <1>1 DEF ServerQueueInv, SrvQueued
<1>6. SrvFresh(s) \/ (SrvDone(s) /\ SrvAllSent(s))
  BY <1>0, <1>1, SlotTypes DEF PairSlotInv
<1> QED
  BY <1>2, <1>3, <1>4, <1>5, <1>6, QueueStart

\* Steps of the client that receive nothing and start nothing.
LEMMA QueueQuiet ==
  ASSUME IInv, QueueInv, UNCHANGED serverVars, NoNewResp, ClientQueueInv',
         UNCHANGED <<tx_msgbuf, cur_req_num, num_rx>>
  PROVE  QueueInv'
<1>1. TxQueueInv /\ ServerQueueInv /\ AheadInv
  BY DEF IInv, QueueInv
<1> QED
  BY <1>1, ServerQueueQuiet, AheadUnchanged DEF QueueInv

LEMMA QueueProcessCreditStallQueue ==
  ASSUME IInv, IInv', QueueInv, ProcessCreditStallQueue
  PROVE  QueueInv'
<1>0. TypeOK /\ StallqInv /\ TxQueueInv /\ ClientQueueInv
  BY DEF IInv, QueueInv
<1>1. PICK s \in Sslots : s = Head(stallq) /\ s = stallq[1] /\ 1 \in 1..Len(stallq)
  BY <1>0, HeadTail DEF ProcessCreditStallQueue, TypeOK
<1>2. Active(s) /\ num_tx[s] = 0 /\ tx_msgbuf[s].pkts > 0
  BY <1>0, <1>1 DEF StallqInv, IInv, ClientInv, CliInv
<1>n. PICK n, m, cr : n = cur_req_num[s] /\ m = tx_msgbuf[s] /\ cr = credits
  OBVIOUS
<1>t. PICK tx \in Nat : tx = num_tx[s]
  BY <1>2
<1>3. kick_req(s, n, m, tx, cr, FALSE, {}) /\ UNCHANGED <<tx_msgbuf, cur_req_num, num_rx>>
      /\ UNCHANGED serverVars
  BY <1>1, <1>2, <1>n, <1>t DEF ProcessCreditStallQueue
<1>4. NoNewResp /\ NoNewReq /\ QueuedReq(s, n, tx)
  BY <1>0, <1>3, KickReqQueued
<1>5. ClientQueueInv'
  BY <1>0, <1>2, <1>3, <1>4, <1>n, <1>t, SendMore
<1> QED
  BY <1>3, <1>4, <1>5, QueueQuiet

LEMMA QueueProcessWheel ==
  ASSUME IInv, QueueInv, NEW s \in Sslots, NEW k \in wheel[s], ProcessWheel(s, k)
  PROVE  QueueInv'
<1>0. TxQueueInv /\ CliInv(s)
  BY DEF IInv, ClientInv
<1>1. Pacing
  BY <1>0 DEF CliInv
<1>2. NoNewResp
  <2>1. PICK q : q = ReqPkt(s, cur_req_num[s], tx_msgbuf[s], k)
    OBVIOUS
  <2>2. PICK h : h = RfrPkt(s, cur_req_num[s], num_tx[s])
    OBVIOUS
  <2>3. q.type = Req /\ h.type = RFR
    BY <2>1, <2>2 DEF ReqPkt, RfrPkt
  <2>4. ClientTx({q}, {}, FALSE, {}) \/ ClientTx({}, {h}, FALSE, {})
    BY <2>1, <2>2 DEF ProcessWheel
  <2> QED
    BY <2>3, <2>4 DEF ClientTx, Received, NoNewResp, Req, RFR, Resp
<1>3. ClientQueueInv'
  BY <1>1 DEF ClientQueueInv
<1>4. UNCHANGED serverVars /\ UNCHANGED <<tx_msgbuf, cur_req_num, num_rx>>
  BY DEF ProcessWheel
<1> QED
  BY <1>2, <1>3, <1>4, QueueQuiet

LEMMA QueuePktLossScan ==
  ASSUME IInv, QueueInv, NEW s \in Sslots, PktLossScan(s)
  PROVE  QueueInv'
<1>0. TypeOK /\ TxQueueInv
  BY DEF IInv
<1>n. PICK n, m, cr, wire :
        /\ n = cur_req_num[s] /\ m = tx_msgbuf[s]
        /\ cr = credits + (num_tx[s] - num_rx[s])
        /\ wire = wire_pkts(tx_msgbuf[s].pkts, resp_pkts[s])
  OBVIOUS
<1>t. PICK tx \in Nat : tx = num_rx[s]
  BY <1>0, SlotTypes
<1>1. NoNewResp /\ tx_queue' = {}
  <2>1. CASE ClientTx({}, {}, TRUE, {})
    BY <1>0, <2>1, NoneQueued
  <2>2. CASE kick_req(s, n, m, tx, cr, TRUE, {})
    BY <1>0, <2>2, KickReqQueued
  <2>3. CASE kick_rfr(s, n, wire, tx, cr, TRUE, {})
    BY <1>0, <2>3, KickRfrQueued
  <2> QED
    BY <1>n, <1>t, <2>1, <2>2, <2>3 DEF PktLossScan
<1>2. UNCHANGED serverVars /\ UNCHANGED <<tx_msgbuf, cur_req_num, num_rx>>
  BY DEF PktLossScan
<1> QED
  BY <1>1, <1>2, ClientQueueDrained, QueueQuiet

\* A received packet that changes nothing at the client.
LEMMA QueueDrop ==
  ASSUME IInv, QueueInv, NEW p, net' = Received({p}), UNCHANGED clientVars, UNCHANGED serverVars
  PROVE  QueueInv'
<1>1. TxQueueInv /\ ClientQueueInv /\ NoNewReq /\ NoNewResp
  BY DEF IInv, QueueInv, Received, NoNewReq, NoNewResp
<1>2. UNCHANGED <<tx_msgbuf, cur_req_num, num_rx, tx_queue>>
  BY DEF clientVars
<1>3. ClientQueueInv'
  BY <1>1, <1>2, ClientQueueShrinks
<1> QED
  BY <1>1, <1>2, <1>3, QueueQuiet

\* A reply is received on sslot s: the packets queued for other sslots are
\* untouched, and those for s are later ones.
LEMMA ServerQueueReply ==
  ASSUME IInv, QueueInv, UNCHANGED serverVars, NoNewResp, NEW s \in Sslots,
         UNCHANGED <<tx_msgbuf, cur_req_num>>, num_rx' = [num_rx EXCEPT ![s] = @ + 1],
         \A q \in s_tx_queue : q.sslot = s => num_rx[s] + 1 <= q.pkt_num
  PROVE  ServerQueueInv'
<1>0. TypeOK /\ TxQueueInv /\ ServerQueueInv
  BY DEF IInv, QueueInv
<1>1. ASSUME NEW q \in s_tx_queue PROVE KeptByClient(q)
  <2>1. q.sslot \in Sslots /\ SrvQueued(q)
    BY <1>0, PacketFields DEF ServerQueueInv
  <2>2. num_rx'[q.sslot] <= q.pkt_num
    BY <1>0, <2>1 DEF TypeOK, SrvQueued
  <2> QED
    BY <2>2 DEF KeptByClient
<1> QED
  BY <1>0, <1>1, ServerQueueKept

LEMMA QueueProcessExplCR ==
  ASSUME IInv, IInv', QueueInv, NEW p \in net, ProcessExplCR(p)
  PROVE  QueueInv'
<1>s. PICK s \in Sslots : s = p.sslot
  BY PacketFields DEF IInv
<1>0. TypeOK /\ TxQueueInv /\ ServerQueueInv /\ ClientQueueInv /\ AheadInv /\ p.type = ExplCR
      /\ PktInv(p)
  BY DEF IInv, QueueInv, NetInv, ProcessExplCR
<1>1. CASE ~in_order_client(p)
  BY <1>1, QueueDrop DEF ProcessExplCR
<1>2. CASE in_order_client(p)
  <2>1. /\ Active(s) /\ cur_req_num[s] = s_cur_req_num[s] /\ p.req_num = s_cur_req_num[s]
        /\ p.pkt_num = num_rx[s] /\ tx_msgbuf[s].pkts = SrvReqPkts(s)
    BY <1>0, <1>2, <1>s, ReplyInOrder
  <2>2. /\ num_rx' = [num_rx EXCEPT ![s] = @ + 1] /\ UNCHANGED <<tx_msgbuf, cur_req_num>>
        /\ UNCHANGED serverVars
    BY <1>2, <1>s DEF ProcessExplCR
  <2>n. PICK n, m, cr : n = cur_req_num[s] /\ m = tx_msgbuf[s] /\ cr = credits + 1
    OBVIOUS
  <2>t. PICK tx \in Nat : tx = num_tx[s]
    BY <1>0, SlotTypes
  <2>3. NoNewResp /\ ClientQueueInv'
    <3>1. CASE kick_req(s, n, m, tx, cr, FALSE, {p})
      <4>1. NoNewResp /\ NoNewReq /\ QueuedReq(s, n, tx)
        BY <1>0, <3>1, KickReqQueued
      <4> QED
        BY <1>0, <2>1, <2>2, <2>n, <2>t, <4>1, SendMore
    <3>2. CASE ClientTx({}, {}, FALSE, {p})
      <4>1. NoNewResp /\ NoNewReq /\ tx_queue' = tx_queue
        BY <1>0, <3>2, NoneQueued
      <4> QED
        BY <1>0, <2>2, <4>1, ClientQueueShrinks
    <3> QED
      BY <1>2, <1>s, <2>n, <2>t, <3>1, <3>2 DEF ProcessExplCR
  <2>4. ASSUME NEW q \in s_tx_queue, q.sslot = s PROVE num_rx[s] + 1 <= q.pkt_num
    <3>1. q.type = Resp /\ PktInv(q) /\ SrvQueued(q)
      BY <1>0 DEF TxQueueInv, ServerQueueInv, IInv, NetInv
    <3>2. SrvDone(s) /\ sav_num_req_pkts[s] - 1 <= q.pkt_num
      BY <2>4, <3>1 DEF PktInv, RespPktInv, SrvQueued
    <3>3. p.pkt_num + 1 < sav_num_req_pkts[s]
      BY <1>0, <1>s, <2>1, <3>2 DEF PktInv, CrPktInv, SrvReqPkts, SrvDone
    <3>4. num_rx[s] \in Nat /\ sav_num_req_pkts[s] \in Nat /\ q.pkt_num \in Nat
      BY <1>0, SlotTypes, PacketFields
    <3> QED
      BY <2>1, <3>2, <3>3, <3>4
  <2>5. ServerQueueInv'
    BY <2>2, <2>3, <2>4, ServerQueueReply
  <2>6. AheadInv'
    BY <1>0, <2>2, AheadUnchanged
  <2> QED
    BY <2>3, <2>5, <2>6 DEF QueueInv
<1> QED
  BY <1>1, <1>2

\* The packets still queued for s come after the one the client has received.
LEMMA LaterResponses ==
  ASSUME IInv, DataInv, QueueInv, NEW p \in net, p.type = Resp, in_order_client(p),
         NEW s \in Sslots, s = p.sslot, NEW q \in s_tx_queue, q.sslot = s
  PROVE  num_rx[s] + 1 <= q.pkt_num /\ q.pkt_num < s_num_rx[s]
<1>1. p.req_num = s_cur_req_num[s] /\ p.pkt_num = num_rx[s]
  BY ReplyInOrder
<1>2. q.type = Resp /\ PktInv(q) /\ SrvQueued(q)
  BY DEF TxQueueInv, QueueInv, ServerQueueInv, IInv, NetInv
<1>3. /\ q.req_num = s_cur_req_num[s] /\ num_rx[s] <= q.pkt_num /\ q \notin net
      /\ q.pkt_num < s_num_rx[s]
  BY <1>2 DEF SrvQueued, PktInv, RespPktInv
<1>4. p \in AllPkts /\ q \in AllPkts /\ q # p
  BY <1>3 DEF AllPkts
<1>5. q.pkt_num # p.pkt_num
  BY <1>1, <1>2, <1>3, <1>4, SameRespPkt
<1>6. num_rx[s] \in Nat /\ q.pkt_num \in Nat
  BY SlotTypes, PacketFields DEF IInv
<1> QED
  BY <1>1, <1>3, <1>5, <1>6

LEMMA QueueProcessRespPartial ==
  ASSUME IInv, DataInv, QueueInv, NEW p \in net, ProcessRespPartial(p)
  PROVE  QueueInv'
<1>s. PICK s \in Sslots : s = p.sslot
  BY PacketFields DEF IInv
<1>0. /\ TypeOK /\ TxQueueInv /\ ServerQueueInv /\ ClientQueueInv /\ AheadInv
      /\ p.type = Resp /\ in_order_client(p)
  BY DEF IInv, QueueInv, ProcessRespPartial
<1>1. /\ num_rx' = [num_rx EXCEPT ![s] = @ + 1] /\ UNCHANGED <<tx_msgbuf, cur_req_num>>
      /\ UNCHANGED serverVars
  BY <1>s DEF ProcessRespPartial
<1>n. PICK n, wire, tx, cr :
        /\ n = cur_req_num[s] /\ wire = wire_pkts(tx_msgbuf[s].pkts, SizedBy(p))
        /\ tx = num_tx[s] /\ cr = credits + 1
  OBVIOUS
<1>2. NoNewResp /\ NoNewReq /\ tx_queue' = tx_queue
  <2>1. CASE kick_rfr(s, n, wire, tx, cr, FALSE, {p})
    BY <1>0, <2>1, KickRfrQueued
  <2>2. CASE ClientTx({}, {}, FALSE, {p})
    BY <1>0, <2>2, NoneQueued
  <2> QED
    BY <1>s, <1>n, <2>1, <2>2 DEF ProcessRespPartial
<1>3. ClientQueueInv'
  BY <1>0, <1>1, <1>2, ClientQueueShrinks
<1>4. \A q \in s_tx_queue : q.sslot = s => num_rx[s] + 1 <= q.pkt_num
  BY <1>0, <1>s, LaterResponses
<1>5. ServerQueueInv'
  BY <1>1, <1>2, <1>4, ServerQueueReply
<1>6. AheadInv'
  BY <1>0, <1>1, AheadUnchanged
<1> QED
  BY <1>3, <1>5, <1>6 DEF QueueInv

\* When the response is complete, neither queue holds a packet of the sslot and
\* the server has sent everything: its NIC cannot be reading a MsgBuffer that
\* is about to be reused.
LEMMA CompleteUnreferenced ==
  ASSUME IInv, DataInv, QueueInv, NEW p \in net, ProcessRespComplete(p),
         NEW s \in Sslots, s = p.sslot
  PROVE  /\ \A q \in s_tx_queue : q.sslot # s
         /\ ~Pacing => \A q \in tx_queue : q.sslot # s
         /\ SrvDone(s) /\ SrvAllSent(s)
<1>0. /\ TypeOK /\ TxQueueInv /\ ServerQueueInv /\ ClientQueueInv
      /\ p.type = Resp /\ in_order_client(p) /\ CompletedBy(p)
  BY DEF IInv, QueueInv, ProcessRespComplete
<1>1. /\ Active(s) /\ cur_req_num[s] = s_cur_req_num[s] /\ num_rx[s] + 1 <= s_num_rx[s]
      /\ tx_msgbuf[s].pkts = SrvReqPkts(s)
  BY <1>0, ReplyInOrder
<1>2. /\ SrvDone(s) /\ tx_msgbuf[s].pkts = sav_num_req_pkts[s]
      /\ SizedBy(p) = s_tx_msgbuf[s].pkts /\ p.size = SizedBy(p)
      /\ num_rx[s] + 1 >= tx_msgbuf[s].pkts
      /\ num_rx[s] + 1 <= wire_pkts(tx_msgbuf[s].pkts, SizedBy(p))
  BY <1>0, RespInOrder
<1>3. /\ num_rx[s] \in Nat /\ s_num_rx[s] \in Nat /\ sav_num_req_pkts[s] \in Nat
      /\ s_tx_msgbuf[s].pkts \in Nat
  BY <1>0, SlotTypes
<1>w. PICK wire \in Int : wire = wire_pkts(sav_num_req_pkts[s], s_tx_msgbuf[s].pkts)
  BY <1>3 DEF wire_pkts
<1>4. num_rx[s] + 1 = wire
  <2>1. CASE p.size = 1
    BY <1>2, <1>3, <1>w, <2>1 DEF wire_pkts
  <2>2. CASE num_rx[s] + 1 = wire_pkts(tx_msgbuf[s].pkts, SizedBy(p))
    BY <1>2, <1>w, <2>2
  <2> QED
    BY <1>0, <2>1, <2>2 DEF CompletedBy
<1>5. s_num_rx[s] <= wire
  BY <1>2, <1>w DEF SrvDone
<1>6. s_num_rx[s] = wire
  BY <1>1, <1>3, <1>4, <1>5
<1>7. SrvAllSent(s)
  BY <1>6, <1>w DEF SrvAllSent
<1>8. ASSUME NEW q \in s_tx_queue, q.sslot = s PROVE FALSE
  <2>1. num_rx[s] + 1 <= q.pkt_num /\ q.pkt_num < s_num_rx[s] /\ q.pkt_num \in Nat
    BY <1>0, <1>8, LaterResponses, PacketFields
  <2> QED
    BY <1>3, <1>4, <1>6, <2>1
<1>9. ASSUME ~Pacing, NEW q \in tx_queue, q.sslot = s PROVE FALSE
  <2>1. CliQueued(q) /\ PktInv(q) /\ q.type = Req
    BY <1>0, <1>9 DEF ClientQueueInv, IInv, NetInv, TxQueueInv
  <2>2. s_num_rx[s] <= q.pkt_num /\ q.pkt_num < sav_num_req_pkts[s]
    BY <1>1, <1>2, <1>9, <2>1 DEF CliQueued, PktInv, ReqPktInv
  <2>3. q.pkt_num \in Nat /\ sav_num_req_pkts[s] <= s_num_rx[s]
    BY <1>0, <1>2, PacketFields DEF SrvDone
  <2> QED
    BY <1>3, <2>2, <2>3
<1> QED
  BY <1>2, <1>7, <1>8, <1>9

LEMMA QueueProcessRespComplete ==
  ASSUME IInv, IInv', DataInv, QueueInv, NEW p \in net, ProcessRespComplete(p)
  PROVE  QueueInv'
<1>s. PICK s \in Sslots : s = p.sslot
  BY PacketFields DEF IInv
<1>0. /\ TypeOK /\ TxQueueInv /\ ServerQueueInv /\ ClientQueueInv /\ AheadInv
      /\ UNCHANGED serverVars
  BY DEF IInv, QueueInv, ProcessRespComplete
<1>1. /\ \A q \in s_tx_queue : q.sslot # s
      /\ ~Pacing => \A q \in tx_queue : q.sslot # s
      /\ SrvDone(s) /\ SrvAllSent(s)
  BY <1>s, CompleteUnreferenced
<1>2. CASE backlog = <<>>
  <2>1. /\ tx_msgbuf' = [tx_msgbuf EXCEPT ![s] = NoMsg] /\ cur_req_num' = cur_req_num
        /\ num_rx' = [num_rx EXCEPT ![s] = @ + 1] /\ ClientTx({}, {}, FALSE, {p})
    BY <1>2, <1>s DEF ProcessRespComplete
  <2>2. NoNewResp /\ NoNewReq /\ tx_queue' = tx_queue
    BY <1>0, <2>1, NoneQueued
  <2>3. \A t \in Sslots \ {s} : tx_msgbuf'[t] = tx_msgbuf[t] /\ num_rx'[t] = num_rx[t]
    BY <1>0, <2>1 DEF TypeOK
  <2>4. ~Pacing => \A q \in tx_queue :
          tx_msgbuf'[q.sslot] = tx_msgbuf[q.sslot] /\ cur_req_num'[q.sslot] = cur_req_num[q.sslot]
    BY <1>0, <1>1, <2>1, <2>3, PacketFields
  <2>5. ClientQueueInv'
    BY <1>0, <2>2, <2>4, ClientQueueShrinks
  <2>6. ASSUME NEW q \in s_tx_queue PROVE KeptByClient(q)
    <3>1. q.sslot \in Sslots /\ q.sslot # s /\ SrvQueued(q)
      BY <1>0, <1>1, PacketFields DEF ServerQueueInv
    <3> QED
      BY <2>1, <2>3, <3>1 DEF KeptByClient, SrvQueued
  <2>7. ServerQueueInv'
    BY <1>0, <2>2, <2>6, ServerQueueKept
  <2>8. AheadInv'
    BY <1>0, <2>1, AheadUnchanged
  <2> QED
    BY <2>5, <2>7, <2>8 DEF QueueInv
<1>3. CASE backlog # <<>>
  <2>m. PICK m, cr, rcvd : m = Head(backlog) /\ cr = credits + 1 /\ rcvd = {p}
    OBVIOUS
  <2>1. start_request(s, m, cr, rcvd)
    BY <1>3, <1>s, <2>m DEF ProcessRespComplete
  <2>2. m \in Msg /\ m.pkts > 0
    <3>1. backlog \in Seq(Msg) /\ BacklogInv
      BY DEF IInv, TypeOK
    <3>2. m \in Msg /\ m = backlog[1] /\ 1 \in 1..Len(backlog)
      BY <1>3, <2>m, <3>1, HeadTail
    <3> QED
      BY <3>1, <3>2 DEF BacklogInv
  <2> QED
    BY <1>0, <1>1, <2>1, <2>2, QueueStart
<1> QED
  BY <1>2, <1>3

-----------------------------------------------------------------------------
(* The TX queues: steps of the server and of the NICs *)

\* The client's queue, under a step of the server: the packets in it are still
\* to be received.
LEMMA ClientQueueKept ==
  ASSUME ClientQueueInv, TxQueueInv, UNCHANGED clientVars, NoNewReq,
         ~Pacing => \A q \in tx_queue : s_cur_req_num'[q.sslot] = cur_req_num[q.sslot]
                                          => s_num_rx'[q.sslot] <= q.pkt_num
  PROVE  ClientQueueInv'
<1> SUFFICES ASSUME ~Pacing, NEW q \in tx_queue' PROVE CliQueued(q)'
  BY DEF ClientQueueInv
<1>1. q \in tx_queue /\ cur_req_num' = cur_req_num /\ tx_msgbuf' = tx_msgbuf
  BY DEF clientVars
<1>2. CliQueued(q) /\ q.type = Req
  BY <1>1 DEF ClientQueueInv, TxQueueInv
<1>3. q \notin net'
  BY <1>2 DEF CliQueued, NoNewReq
<1> QED
  BY <1>1, <1>2, <1>3 DEF CliQueued, Active

\* The server's queue, under a step of the server that adds the packets in New.
LEMMA ServerQueueGrows ==
  ASSUME ServerQueueInv, TxQueueInv, UNCHANGED clientVars, NoNewResp, NEW New,
         s_tx_queue' \subseteq s_tx_queue \cup New, \A q \in New : SrvQueued(q)',
         \A q \in s_tx_queue : s_cur_req_num'[q.sslot] = s_cur_req_num[q.sslot]
  PROVE  ServerQueueInv'
<1> SUFFICES ASSUME NEW q \in s_tx_queue' PROVE SrvQueued(q)'
  BY DEF ServerQueueInv
<1>1. CASE q \in New
  BY <1>1
<1>2. CASE q \in s_tx_queue
  <2>1. SrvQueued(q) /\ q.type = Resp /\ s_cur_req_num'[q.sslot] = s_cur_req_num[q.sslot]
    BY <1>2 DEF ServerQueueInv, TxQueueInv
  <2>2. q \notin net' /\ UNCHANGED <<tx_msgbuf, cur_req_num, num_rx>>
    BY <2>1 DEF SrvQueued, NoNewResp, clientVars
  <2> QED
    BY <2>1, <2>2 DEF SrvQueued, Active
<1> QED
  BY <1>1, <1>2

\* What the server's transmissions do to the queue and the network.
LEMMA ServerTxQueued ==
  ASSUME TxQueueInv, NEW pkts, NEW hdrs, NEW rcvd, NEW drain \in BOOLEAN,
         ServerTx(pkts, hdrs, drain, rcvd),
         \A p \in pkts : p.type = Resp, \A p \in hdrs : p.type = ExplCR
  PROVE  /\ NoNewReq
         /\ drain => s_tx_queue' = {}
         /\ ~drain => NoNewResp /\ s_tx_queue' = s_tx_queue \cup pkts
<1>1. Received(rcvd) \subseteq net
  BY DEF Received
<1> QED
  BY <1>1 DEF ServerTx, NoNewResp, NoNewReq, TxQueueInv, Req, ExplCR, Resp

\* A server step that only sends: headers, or a packet again after a drain.
LEMMA QueueServerQuiet ==
  ASSUME IInv, QueueInv, UNCHANGED clientVars, UNCHANGED serverState, NoNewReq,
         s_tx_queue' = {} \/ (NoNewResp /\ s_tx_queue' \subseteq s_tx_queue)
  PROVE  QueueInv'
<1>0. TxQueueInv /\ ServerQueueInv /\ ClientQueueInv /\ AheadInv
  BY DEF IInv, QueueInv
<1>1. UNCHANGED <<s_cur_req_num, s_num_rx>>
  BY DEF serverState
<1>2. ClientQueueInv'
  <2>1. ~Pacing => \A q \in tx_queue : s_cur_req_num'[q.sslot] = cur_req_num[q.sslot]
                                         => s_num_rx'[q.sslot] <= q.pkt_num
    BY <1>0, <1>1 DEF ClientQueueInv, CliQueued
  <2> QED
    BY <1>0, <2>1, ClientQueueKept
<1>3. ServerQueueInv'
  <2>1. CASE s_tx_queue' = {}
    BY <2>1 DEF ServerQueueInv
  <2>2. CASE NoNewResp /\ s_tx_queue' \subseteq s_tx_queue
    <3>n. PICK New : New = {}
      OBVIOUS
    <3> QED
      BY <1>0, <1>1, <2>2, <3>n, ServerQueueGrows
  <2> QED
    BY <2>1, <2>2
<1>4. AheadInv'
  BY <1>0 DEF AheadInv, serverState, clientVars, SrvFresh, SrvDone, SrvAllSent
<1> QED
  BY <1>2, <1>3, <1>4 DEF QueueInv

LEMMA ResendQueued ==
  ASSUME TxQueueInv, NEW s, NEW i, NEW rcvd, ResendResp(s, i, rcvd)
  PROVE  NoNewReq /\ s_tx_queue' = {}
<1>1. PICK q : q = RespPkt(s, s_cur_req_num[s], s_tx_msgbuf[s], i, sav_num_req_pkts[s])
  OBVIOUS
<1>2. q.type = Resp
  BY <1>1 DEF RespPkt
<1>3. PICK pkts, hdrs, drain : pkts = {q} /\ hdrs = {} /\ drain = TRUE
  OBVIOUS
<1>4. ServerTx(pkts, hdrs, drain, rcvd)
  BY <1>1, <1>3 DEF ResendResp
<1>5. drain \in BOOLEAN /\ (\A p \in pkts : p.type = Resp) /\ (\A p \in hdrs : p.type = ExplCR)
  BY <1>2, <1>3
<1>6. NoNewReq /\ (drain => s_tx_queue' = {})
  BY <1>4, <1>5, ServerTxQueued
<1> QED
  BY <1>3, <1>6

LEMMA ServerHdrQueued ==
  ASSUME TxQueueInv, NEW hdrs, NEW rcvd, ServerTx({}, hdrs, FALSE, rcvd),
         \A p \in hdrs : p.type = ExplCR
  PROVE  NoNewReq /\ NoNewResp /\ s_tx_queue' = s_tx_queue
<1>1. PICK pkts, drain : pkts = {} /\ drain = FALSE
  OBVIOUS
<1>2. /\ ServerTx(pkts, hdrs, drain, rcvd) /\ drain \in BOOLEAN
      /\ \A p \in pkts : p.type = Resp
  BY <1>1
<1>3. NoNewReq /\ (~drain => NoNewResp /\ s_tx_queue' = s_tx_queue \cup pkts)
  BY <1>2, ServerTxQueued
<1> QED
  BY <1>1, <1>3

LEMMA QueueServerOld ==
  ASSUME IInv, QueueInv, NEW p \in net,
         ProcessSmallReqOld(p) \/ ProcessLargeReqOld(p) \/ ProcessRFRDrop(p)
  PROVE  QueueInv'
<1>0. TxQueueInv
  BY DEF IInv
<1>1. UNCHANGED clientVars /\ UNCHANGED serverState
  BY DEF ProcessSmallReqOld, ProcessLargeReqOld, ProcessRFRDrop, serverState
<1>s. PICK s, c : s = p.sslot /\ c = CrPkt(p)
  OBVIOUS
<1>2. CASE ResendResp(s, 0, {p})
  BY <1>0, <1>1, <1>2, ResendQueued, QueueServerQuiet
<1>3. ASSUME NEW hdrs, ServerTx({}, hdrs, FALSE, {p}), \A h \in hdrs : h.type = ExplCR
      PROVE  QueueInv'
  <2>1. NoNewReq /\ NoNewResp /\ s_tx_queue' = s_tx_queue
    BY <1>0, <1>3, ServerHdrQueued
  <2>2. s_tx_queue' \subseteq s_tx_queue
    BY <2>1
  <2> QED
    BY <1>1, <2>1, <2>2, QueueServerQuiet
<1>4. CASE ServerTx({}, {}, FALSE, {p})
  <2>1. PICK hdrs : hdrs = {}
    OBVIOUS
  <2>2. ServerTx({}, hdrs, FALSE, {p}) /\ \A h \in hdrs : h.type = ExplCR
    BY <1>4, <2>1
  <2> QED
    BY <1>3, <2>2
<1>5. CASE ServerTx({}, {c}, FALSE, {p})
  <2>1. c.type = ExplCR
    BY <1>s DEF CrPkt
  <2>2. PICK hdrs : hdrs = {c}
    OBVIOUS
  <2>3. ServerTx({}, hdrs, FALSE, {p}) /\ \A h \in hdrs : h.type = ExplCR
    BY <1>5, <2>1, <2>2
  <2> QED
    BY <1>3, <2>3
<1> QED
  BY <1>s, <1>2, <1>4, <1>5 DEF ProcessSmallReqOld, ProcessLargeReqOld, ProcessRFRDrop

\* A server step at sslot s, at which the client waits for the server.
LEMMA AheadKept ==
  ASSUME AheadInv, UNCHANGED clientVars, NEW s \in Sslots, ServerFrame(s),
         cur_req_num[s] = s_cur_req_num'[s], s_cur_req_num'[s] \in Nat
  PROVE  AheadInv'
<1> SUFFICES ASSUME NEW t \in Sslots, cur_req_num'[t] = s_cur_req_num'[t] + 1
             PROVE  (SrvFresh(t) \/ (SrvDone(t) /\ SrvAllSent(t)))'
  BY DEF AheadInv
<1>1. t # s /\ cur_req_num' = cur_req_num
  BY DEF clientVars
<1>2. cur_req_num[t] = s_cur_req_num[t] + 1
  BY <1>1 DEF ServerFrame
<1>3. SrvFresh(t) \/ (SrvDone(t) /\ SrvAllSent(t))
  BY <1>2 DEF AheadInv
<1> QED
  BY <1>1, <1>3 DEF ServerFrame, SrvFresh, SrvDone, SrvAllSent

\* The packets of its request the client still has in its queue come after the
\* one the server has just received.
LEMMA LaterRequests ==
  ASSUME IInv, DataInv, ClientQueueInv, ~Pacing, NEW p \in net, p.type = Req,
         NEW s \in Sslots, s = p.sslot, p.req_num = cur_req_num[s], Active(s),
         NEW q \in tx_queue, q.sslot = s
  PROVE  q.pkt_num # p.pkt_num
<1>1. q.type = Req /\ CliQueued(q)
  BY DEF TxQueueInv, IInv, ClientQueueInv
<1>2. q.req_num = cur_req_num[s] /\ q # p /\ p \in AllPkts /\ q \in AllPkts
  BY <1>1 DEF CliQueued, AllPkts
<1> QED
  BY <1>1, <1>2, SameReqPkt

\* The first packet of a new request starts sslot s over.
LEMMA QueueNewRequest ==
  ASSUME IInv, DataInv, QueueInv, UNCHANGED clientVars, NEW p \in net, p.type = Req,
         NEW s \in Sslots, s = p.sslot, p.req_num > s_cur_req_num[s], p.pkt_num = 0,
         ServerFrame(s), s_cur_req_num'[s] = p.req_num, s_num_rx'[s] = 1,
         NoNewReq, NoNewResp, s_tx_queue' = s_tx_queue
  PROVE  QueueInv'
<1>0. TypeOK /\ TxQueueInv /\ ServerQueueInv /\ ClientQueueInv /\ AheadInv
  BY DEF IInv, QueueInv
<1>1. /\ p.req_num = cur_req_num[s] /\ cur_req_num[s] = s_cur_req_num[s] + 1 /\ Active(s)
      /\ s_cur_req_num[s] \in Nat /\ p.req_num \in Nat
  BY <1>0, NewRequest, SlotTypes, PacketFields
<1>2. cur_req_num[s] # s_cur_req_num[s]
  BY <1>1
<1>3. ClientQueueInv'
  <2>1. ASSUME ~Pacing, NEW q \in tx_queue, s_cur_req_num'[q.sslot] = cur_req_num[q.sslot]
        PROVE  s_num_rx'[q.sslot] <= q.pkt_num
    <3>0. q.sslot \in Sslots /\ q.pkt_num \in Nat /\ CliQueued(q)
      BY <1>0, <2>1, PacketFields DEF ClientQueueInv
    <3>1. CASE q.sslot = s
      <4>1. q.pkt_num # 0
        BY <1>0, <1>1, <2>1, <3>1, LaterRequests
      <4> QED
        BY <3>0, <3>1, <4>1
    <3>2. CASE q.sslot # s
      BY <2>1, <3>0, <3>2 DEF ServerFrame, CliQueued
    <3> QED
      BY <3>1, <3>2
  <2>2. ~Pacing => \A q \in tx_queue : s_cur_req_num'[q.sslot] = cur_req_num[q.sslot]
                                         => s_num_rx'[q.sslot] <= q.pkt_num
    BY <2>1
  <2> QED
    BY <1>0, <2>2, ClientQueueKept
<1>4. ServerQueueInv'
  <2>n. PICK New : New = {}
    OBVIOUS
  <2>1. ASSUME NEW q \in s_tx_queue PROVE s_cur_req_num'[q.sslot] = s_cur_req_num[q.sslot]
    <3>1. SrvQueued(q) /\ q.sslot \in Sslots
      BY <1>0, PacketFields DEF ServerQueueInv
    <3>2. q.sslot # s
      BY <1>2, <3>1 DEF SrvQueued
    <3> QED
      BY <3>1, <3>2 DEF ServerFrame
  <2>2. s_tx_queue' \subseteq s_tx_queue \cup New /\ \A q \in New : SrvQueued(q)'
    BY <2>n
  <2> QED
    BY <1>0, <2>1, <2>2, ServerQueueGrows
<1>5. AheadInv'
  BY <1>0, <1>1, AheadKept
<1> QED
  BY <1>3, <1>4, <1>5 DEF QueueInv

LEMMA QueueProcessSmallReqNew ==
  ASSUME IInv, DataInv, QueueInv, NEW p \in net, ProcessSmallReqNew(p)
  PROVE  QueueInv'
<1>s. PICK s \in Sslots : s = p.sslot
  BY PacketFields DEF IInv
<1>0. /\ TypeOK /\ TxQueueInv /\ PktInv(p) /\ UNCHANGED clientVars
      /\ p.type = Req /\ p.size = 1 /\ p.req_num > s_cur_req_num[s]
  BY <1>s DEF IInv, NetInv, ProcessSmallReqNew
<1>1. p.pkt_num = 0
  BY <1>0, PacketFields DEF PktInv, ReqPktInv
<1>2. /\ s_tx_msgbuf' = [s_tx_msgbuf EXCEPT ![s] = NoMsg]
      /\ s_cur_req_num' = [s_cur_req_num EXCEPT ![s] = p.req_num]
      /\ s_num_rx' = [s_num_rx EXCEPT ![s] = 1]
      /\ req_pkts' = [req_pkts EXCEPT ![s] = 1]
      /\ req_type' = [req_type EXCEPT ![s] = TRUE]
      /\ serving' = [serving EXCEPT ![s] = p.data.rpc]
      /\ sav_num_req_pkts' = sav_num_req_pkts
  <2>b. PICK buf : buf = [i \in 0..(MaxReqPkts - 1) |-> IF i = 0 THEN p.data ELSE NoData]
    OBVIOUS
  <2>1. buf[0] = p.data
    BY <2>b, BoundsAssumption
  <2> QED
    BY <1>s, <2>b, <2>1 DEF ProcessSmallReqNew, InvokeHandler
<1>3. ServerFrame(s) /\ s_cur_req_num'[s] = p.req_num /\ s_num_rx'[s] = 1
  BY <1>0, <1>2 DEF ServerFrame, TypeOK
<1>h. PICK hdrs, rcvd : hdrs = {} /\ rcvd = {p}
  OBVIOUS
<1>4. ServerTx({}, hdrs, FALSE, rcvd) /\ \A h \in hdrs : h.type = ExplCR
  BY <1>h DEF ProcessSmallReqNew
<1>5. NoNewReq /\ NoNewResp /\ s_tx_queue' = s_tx_queue
  BY <1>0, <1>4, ServerHdrQueued
<1> QED
  BY <1>0, <1>s, <1>1, <1>3, <1>5, QueueNewRequest

\* What a packet of a large request makes the server send.
LEMMA LargeReqSends ==
  ASSUME TxQueueInv, NEW p, ProcessLargeReqNext(p)
  PROVE  NoNewReq /\ NoNewResp /\ s_tx_queue' = s_tx_queue
<1>c. PICK c : c = CrPkt(p)
  OBVIOUS
<1>h. PICK hdrs, rcvd :
        /\ hdrs = {} \/ hdrs = {c}
        /\ rcvd = {p}
        /\ ServerTx({}, hdrs, FALSE, rcvd)
  BY <1>c DEF ProcessLargeReqNext
<1>1. \A h \in hdrs : h.type = ExplCR
  BY <1>c, <1>h DEF CrPkt
<1> QED
  BY <1>h, <1>1, ServerHdrQueued

LEMMA QueueLargeReqFirst ==
  ASSUME IInv, DataInv, QueueInv, NEW p \in net, ProcessLargeReqNext(p), p.pkt_num = 0
  PROVE  QueueInv'
<1>s. PICK s \in Sslots : s = p.sslot
  BY PacketFields DEF IInv
<1>0. /\ TypeOK /\ TxQueueInv /\ PktInv(p) /\ SrvInv(s) /\ UNCHANGED clientVars
      /\ p.type = Req /\ p.size > 1 /\ in_order_large_req(p)
  BY <1>s DEF IInv, NetInv, ServerInv, ProcessLargeReqNext
<1>1. /\ p.req_num \in Nat /\ p.size \in Nat /\ s_cur_req_num[s] \in Nat /\ p.req_num > 0
  BY <1>0, PacketFields, SlotTypes DEF PktInv, ReqPktInv
<1>2. p.req_num > s_cur_req_num[s]
  <2>1. CASE p.req_num = s_cur_req_num[s] /\ p.pkt_num = s_num_rx[s]
    <3>1. s_num_rx[s] = 0 /\ s_cur_req_num[s] > 0
      BY <1>1, <2>1
    <3>2. FALSE
      BY <1>0, <3>1, SlotTypes DEF SrvInv, SrvFresh, SrvReceiving, SrvPending, SrvDone
    <3> QED
      BY <3>2
  <2> QED
    BY <1>0, <1>1, <1>s, <2>1 DEF in_order_large_req
<1>3. /\ s_tx_msgbuf' = [s_tx_msgbuf EXCEPT ![s] = NoMsg]
      /\ s_cur_req_num' = [s_cur_req_num EXCEPT ![s] = p.req_num]
      /\ s_num_rx' = [s_num_rx EXCEPT ![s] = 1]
      /\ req_pkts' = [req_pkts EXCEPT ![s] = p.size]
      /\ req_type' = req_type /\ serving' = serving /\ sav_num_req_pkts' = sav_num_req_pkts
  <2>1. 1 # p.size
    BY <1>0, <1>1
  <2> QED
    BY <1>s, <2>1 DEF ProcessLargeReqNext
<1>4. ServerFrame(s) /\ s_cur_req_num'[s] = p.req_num /\ s_num_rx'[s] = 1
  BY <1>0, <1>3 DEF ServerFrame, TypeOK
<1>5. NoNewReq /\ NoNewResp /\ s_tx_queue' = s_tx_queue
  BY <1>0, LargeReqSends
<1> QED
  BY <1>0, <1>s, <1>2, <1>4, <1>5, QueueNewRequest

LEMMA QueueLargeReqNext ==
  ASSUME IInv, DataInv, QueueInv, NEW p \in net, ProcessLargeReqNext(p), p.pkt_num # 0
  PROVE  QueueInv'
<1>s. PICK s \in Sslots : s = p.sslot
  BY PacketFields DEF IInv
<1>0. /\ TypeOK /\ TxQueueInv /\ ServerQueueInv /\ ClientQueueInv /\ AheadInv
      /\ PktInv(p) /\ SrvInv(s) /\ PairSlotInv(s) /\ UNCHANGED clientVars
      /\ p.type = Req /\ p.size > 1 /\ p.req_num = s_cur_req_num[s] /\ p.pkt_num = s_num_rx[s]
  BY <1>s DEF IInv, QueueInv, NetInv, ServerInv, PairInv, ProcessLargeReqNext, in_order_large_req
<1>1. /\ p.req_num \in Nat /\ p.pkt_num \in Nat /\ p.size \in Nat
      /\ p.pkt_num < p.size /\ p.size = SrvReqPkts(s)
  BY <1>0, <1>s, PacketFields DEF PktInv, ReqPktInv
<1>2. SrvReceiving(s)
  BY <1>0, <1>1, SlotTypes
     DEF SrvInv, SrvFresh, SrvPending, SrvDone, SrvReceiving, SrvReqPkts
<1>3. ~SrvFresh(s) /\ ~SrvDone(s)
  BY <1>0, <1>2, SlotTypes DEF SrvFresh, SrvDone, SrvReceiving
<1>4. Active(s) /\ cur_req_num[s] = s_cur_req_num[s]
  BY <1>0, <1>1, <1>3, SlotTypes DEF PairSlotInv
<1>5. /\ s_tx_msgbuf' = s_tx_msgbuf /\ s_cur_req_num' = s_cur_req_num
      /\ s_num_rx' = [s_num_rx EXCEPT ![s] = s_num_rx[s] + 1]
      /\ req_pkts' = [req_pkts EXCEPT ![s] = req_pkts[s]]
      /\ (req_type' = req_type \/ req_type' = [req_type EXCEPT ![s] = TRUE])
      /\ (serving' = serving \/ \E v : serving' = [serving EXCEPT ![s] = v])
      /\ sav_num_req_pkts' = sav_num_req_pkts
  BY <1>s DEF ProcessLargeReqNext, InvokeHandler
<1>6. ServerFrame(s) /\ s_num_rx'[s] = s_num_rx[s] + 1
  BY <1>0, <1>5 DEF ServerFrame, TypeOK
<1>7. NoNewReq /\ NoNewResp /\ s_tx_queue' = s_tx_queue
  BY <1>0, LargeReqSends
<1>8. ClientQueueInv'
  <2>1. ASSUME ~Pacing, NEW q \in tx_queue, s_cur_req_num'[q.sslot] = cur_req_num[q.sslot]
        PROVE  s_num_rx'[q.sslot] <= q.pkt_num
    <3>0. q.sslot \in Sslots /\ q.pkt_num \in Nat /\ CliQueued(q)
      BY <1>0, <2>1, PacketFields DEF ClientQueueInv
    <3>1. CASE q.sslot = s
      <4>1. q.pkt_num # s_num_rx[s] /\ s_num_rx[s] <= q.pkt_num /\ s_num_rx[s] \in Nat
        BY <1>0, <1>4, <1>s, <2>1, <3>0, <3>1, LaterRequests, SlotTypes DEF CliQueued
      <4> QED
        BY <1>6, <3>0, <3>1, <4>1
    <3>2. CASE q.sslot # s
      BY <1>6, <2>1, <3>0, <3>2 DEF ServerFrame, CliQueued
    <3> QED
      BY <3>1, <3>2
  <2>2. ~Pacing => \A q \in tx_queue : s_cur_req_num'[q.sslot] = cur_req_num[q.sslot]
                                         => s_num_rx'[q.sslot] <= q.pkt_num
    BY <2>1
  <2> QED
    BY <1>0, <1>7, <2>2, ClientQueueKept
<1>9. ServerQueueInv'
  <2>n. PICK New : New = {}
    OBVIOUS
  <2> QED
    BY <1>0, <1>5, <1>7, <2>n, ServerQueueGrows
<1>10. AheadInv'
  <2>1. cur_req_num[s] = s_cur_req_num'[s] /\ s_cur_req_num'[s] \in Nat
    BY <1>0, <1>4, <1>5, SlotTypes
  <2> QED
    BY <1>0, <1>6, <2>1, AheadKept
<1> QED
  BY <1>8, <1>9, <1>10 DEF QueueInv

\* The server queues a response packet that it has never sent before.
LEMMA QueueNewResponse ==
  ASSUME IInv, QueueInv, UNCHANGED clientVars, NEW s \in Sslots, ServerFrame(s),
         Active(s), cur_req_num[s] = s_cur_req_num[s], s_cur_req_num' = s_cur_req_num,
         s_num_rx'[s] = s_num_rx[s] \/ SrvDone(s),
         NEW q, q.type = Resp, q.sslot = s, q.req_num = s_cur_req_num[s],
         num_rx[s] <= q.pkt_num, q \notin net,
         NEW rcvd, ServerTx({q}, {}, FALSE, rcvd)
  PROVE  QueueInv'
<1>0. /\ TypeOK /\ TxQueueInv /\ ServerQueueInv /\ ClientQueueInv /\ AheadInv /\ PairSlotInv(s)
  BY DEF IInv, QueueInv, PairInv
<1>1. NoNewReq /\ NoNewResp /\ s_tx_queue' = s_tx_queue \cup {q}
  <2>1. PICK pkts, hdrs, drain : pkts = {q} /\ hdrs = {} /\ drain = FALSE
    OBVIOUS
  <2>2. /\ ServerTx(pkts, hdrs, drain, rcvd) /\ drain \in BOOLEAN
        /\ (\A p \in pkts : p.type = Resp) /\ (\A p \in hdrs : p.type = ExplCR)
    BY <2>1
  <2>3. NoNewReq /\ (~drain => NoNewResp /\ s_tx_queue' = s_tx_queue \cup pkts)
    BY <1>0, <2>2, ServerTxQueued
  <2> QED
    BY <2>1, <2>3
<1>2. ServerQueueInv'
  <2>n. PICK New : New = {q}
    OBVIOUS
  <2>1. SrvQueued(q)'
    <3>1. q \notin net'
      BY <1>1 DEF NoNewResp
    <3> QED
      BY <3>1 DEF SrvQueued, Active, clientVars
  <2> QED
    BY <1>0, <1>1, <2>1, <2>n, ServerQueueGrows
<1>3. ClientQueueInv'
  <2>1. ASSUME ~Pacing, NEW c \in tx_queue, s_cur_req_num'[c.sslot] = cur_req_num[c.sslot]
        PROVE  s_num_rx'[c.sslot] <= c.pkt_num
    <3>0. c.sslot \in Sslots /\ c.pkt_num \in Nat /\ CliQueued(c) /\ c.type = Req /\ PktInv(c)
      BY <1>0, <2>1, PacketFields DEF ClientQueueInv, TxQueueInv, IInv, NetInv
    <3>1. s_num_rx[c.sslot] <= c.pkt_num
      BY <2>1, <3>0 DEF CliQueued
    <3>2. CASE c.sslot = s /\ SrvDone(s)
      <4>1. c.pkt_num < SrvReqPkts(s)
        BY <1>0, <3>0, <3>2 DEF PktInv, ReqPktInv, CliQueued, PairSlotInv
      <4>2. s_num_rx[s] \in Nat /\ sav_num_req_pkts[s] \in Nat
        BY <1>0, SlotTypes
      <4>3. c.pkt_num < sav_num_req_pkts[s] /\ sav_num_req_pkts[s] <= s_num_rx[s]
        BY <3>2, <4>1 DEF SrvReqPkts, SrvDone
      <4> QED
        BY <3>0, <3>1, <3>2, <4>2, <4>3
    <3>3. CASE c.sslot = s /\ s_num_rx'[s] = s_num_rx[s]
      BY <3>1, <3>3
    <3>4. CASE c.sslot # s
      BY <3>0, <3>1, <3>4 DEF ServerFrame
    <3> QED
      BY <3>2, <3>3, <3>4
  <2>2. ~Pacing => \A c \in tx_queue : s_cur_req_num'[c.sslot] = cur_req_num[c.sslot]
                                         => s_num_rx'[c.sslot] <= c.pkt_num
    BY <2>1
  <2> QED
    BY <1>0, <1>1, <2>2, ClientQueueKept
<1>4. AheadInv'
  <2>1. cur_req_num[s] = s_cur_req_num'[s] /\ s_cur_req_num'[s] \in Nat
    BY <1>0, SlotTypes
  <2> QED
    BY <1>0, <2>1, AheadKept
<1> QED
  BY <1>2, <1>3, <1>4 DEF QueueInv

LEMMA QueueProcessRFR ==
  ASSUME IInv, QueueInv, NEW p \in net, ProcessRFR(p)
  PROVE  QueueInv'
<1>s. PICK s \in Sslots : s = p.sslot
  BY PacketFields DEF IInv
<1>0. /\ TypeOK /\ TxQueueInv /\ AheadInv /\ PairSlotInv(s) /\ PktInv(p) /\ p.type = RFR
      /\ p.req_num >= s_cur_req_num[s] /\ UNCHANGED clientVars
  BY <1>s DEF IInv, QueueInv, PairInv, NetInv, ProcessRFR
<1>t. /\ p.req_num \in Nat /\ p.pkt_num \in Nat /\ s_cur_req_num[s] \in Nat
      /\ cur_req_num[s] \in Nat /\ sav_num_req_pkts[s] \in Nat /\ s_num_rx[s] \in Nat
      /\ s_tx_msgbuf[s].pkts \in Nat /\ num_rx[s] \in Nat
  BY <1>0, PacketFields, SlotTypes
<1>1. /\ SrvDone(s) /\ p.req_num = s_cur_req_num[s]
      /\ p.pkt_num < wire_pkts(sav_num_req_pkts[s], s_tx_msgbuf[s].pkts)
  BY <1>0, <1>s, <1>t DEF PktInv, RfrPktInv
<1>i. PICK i \in Int : i = resp_ntoi(p.pkt_num, sav_num_req_pkts[s])
  BY <1>t DEF resp_ntoi
<1>2. CASE p.pkt_num = s_num_rx[s]
  <2>q. PICK q : q = RespPkt(s, s_cur_req_num[s], s_tx_msgbuf[s], i, sav_num_req_pkts[s])
    OBVIOUS
  <2>1. /\ s_num_rx' = [s_num_rx EXCEPT ![s] = @ + 1] /\ ServerTx({q}, {}, FALSE, {p})
        /\ UNCHANGED <<s_tx_msgbuf, s_cur_req_num, req_pkts, req_type, serving,
                       sav_num_req_pkts>>
    BY <1>1, <1>2, <1>i, <1>s, <2>q DEF ProcessRFR
  <2>2. ServerFrame(s)
    BY <1>0, <2>1 DEF ServerFrame, TypeOK
  <2>3. ~SrvAllSent(s) /\ ~SrvFresh(s)
    BY <1>1, <1>2, <1>t DEF SrvAllSent, SrvFresh, SrvDone, wire_pkts
  <2>4. cur_req_num[s] = s_cur_req_num[s]
    BY <1>0, <1>t, <2>3 DEF AheadInv, PairSlotInv
  <2>5. Active(s) /\ num_rx[s] <= s_num_rx[s]
    BY <1>0, <2>3, <2>4 DEF PairSlotInv
  <2>6. /\ q.type = Resp /\ q.sslot = s /\ q.req_num = s_cur_req_num[s]
        /\ q.pkt_num = sav_num_req_pkts[s] - 1 + i
    BY <2>q DEF RespPkt
  <2>7. q.pkt_num = s_num_rx[s]
    BY <1>2, <1>i, <1>t, <2>6 DEF resp_ntoi
  <2>8. q \notin net
    <3> SUFFICES ASSUME q \in net PROVE FALSE
      OBVIOUS
    <3>1. PktInv(q)
      BY DEF IInv, NetInv
    <3> QED
      BY <1>t, <2>6, <2>7, <3>1 DEF PktInv, RespPktInv
  <2>r. PICK rcvd : rcvd = {p}
    OBVIOUS
  <2>9. ServerTx({q}, {}, FALSE, rcvd) /\ s_cur_req_num' = s_cur_req_num
    BY <2>1, <2>r
  <2> QED
    BY <1>0, <1>1, <2>2, <2>4, <2>5, <2>6, <2>7, <2>8, <2>9, QueueNewResponse
<1>3. CASE p.pkt_num # s_num_rx[s]
  <2>r. PICK rcvd : rcvd = {p}
    OBVIOUS
  <2>1. ResendResp(s, i, rcvd) /\ UNCHANGED serverState
    BY <1>3, <1>i, <1>s, <2>r DEF ProcessRFR, serverState
  <2>2. NoNewReq /\ s_tx_queue' = {}
    BY <1>0, <2>1, ResendQueued
  <2> QED
    BY <1>0, <2>1, <2>2, QueueServerQuiet
<1> QED
  BY <1>2, <1>3

LEMMA QueueEnqueueResponse ==
  ASSUME IInv, DataInv, QueueInv, NEW s \in Sslots, NEW pkts \in 1..MaxRespPkts,
         EnqueueResponse(s, pkts)
  PROVE  QueueInv'
<1>0. TypeOK /\ PairSlotInv(s) /\ UNCHANGED clientVars /\ s_num_rx' = s_num_rx
      /\ s_cur_req_num' = s_cur_req_num
  BY DEF IInv, PairInv, EnqueueResponse
<1>r. PICK r : r = tx_msgbuf[s].rpc
  OBVIOUS
<1>1. SrvPending(s) /\ Active(s) /\ cur_req_num[s] = s_cur_req_num[s]
  BY <1>r, Answers
<1>t. /\ req_pkts[s] \in Nat /\ req_pkts[s] > 0 /\ num_rx[s] \in Nat
      /\ tx_msgbuf[s].pkts \in Nat /\ s_cur_req_num[s] \in Nat
  BY <1>0, <1>1, SlotTypes DEF SrvPending
<1>2. ~SrvDone(s) /\ SrvReqPkts(s) = req_pkts[s]
  BY <1>1, <1>t DEF SrvPending, SrvDone, SrvReqPkts
<1>3. num_rx[s] < req_pkts[s]
  BY <1>0, <1>1, <1>2, <1>t DEF PairSlotInv
<1>m. PICK m : m = [rpc |-> serving[s], pkts |-> pkts]
  OBVIOUS
<1>q. PICK q : q = RespPkt(s, s_cur_req_num[s], m, 0, req_pkts[s])
  OBVIOUS
<1>4. /\ q.type = Resp /\ q.sslot = s /\ q.req_num = s_cur_req_num[s]
      /\ q.pkt_num = req_pkts[s] - 1 + 0
  BY <1>q DEF RespPkt
<1>5. num_rx[s] <= q.pkt_num
  BY <1>3, <1>4, <1>t
<1>6. q \notin net
  <2> SUFFICES ASSUME q \in net PROVE FALSE
    OBVIOUS
  <2>1. PktInv(q)
    BY DEF IInv, NetInv
  <2> QED
    BY <1>2, <1>4, <2>1 DEF PktInv, RespPktInv
<1>7. /\ s_tx_msgbuf' = [s_tx_msgbuf EXCEPT ![s] = m]
      /\ sav_num_req_pkts' = [sav_num_req_pkts EXCEPT ![s] = req_pkts[s]]
      /\ req_pkts' = [req_pkts EXCEPT ![s] = 0]
      /\ req_type' = [req_type EXCEPT ![s] = FALSE]
      /\ serving' = [serving EXCEPT ![s] = 0]
      /\ ServerTx({q}, {}, FALSE, {})
  BY <1>m, <1>q DEF EnqueueResponse
<1>8. ServerFrame(s)
  BY <1>0, <1>7 DEF ServerFrame, TypeOK
<1>9. PICK rcvd : rcvd = {} /\ ServerTx({q}, {}, FALSE, rcvd)
  BY <1>7
<1>10. s_num_rx'[s] = s_num_rx[s]
  BY <1>0
<1> QED
  BY <1>0, <1>1, <1>4, <1>5, <1>6, <1>8, <1>9, <1>10, QueueNewResponse

\* The NICs send what is queued, and packets are lost.
LEMMA QueueNic ==
  ASSUME IInv, QueueInv, NEW p, ClientNicSend(p) \/ ServerNicSend(p) \/ LosePacket(p)
  PROVE  QueueInv'
<1>0. TxQueueInv /\ ServerQueueInv /\ ClientQueueInv /\ AheadInv
  BY DEF IInv, QueueInv
<1>1. CASE ClientNicSend(p)
  <2>1. /\ p.type = Req /\ tx_queue' = tx_queue \ {p} /\ net' = net \cup {p}
        /\ UNCHANGED <<tx_msgbuf, cur_req_num, num_rx>> /\ UNCHANGED serverVars
    BY <1>0, <1>1 DEF ClientNicSend, TxQueueInv
  <2>2. NoNewResp
    BY <2>1 DEF NoNewResp, Req, Resp
  <2>3. ClientQueueInv'
    BY <1>0, <2>1 DEF ClientQueueInv, CliQueued, Active, serverVars
  <2> QED
    BY <2>1, <2>2, <2>3, QueueQuiet
<1>2. CASE ServerNicSend(p)
  <2>1. /\ p.type = Resp /\ s_tx_queue' = s_tx_queue \ {p} /\ net' = net \cup {p}
        /\ UNCHANGED <<s_cur_req_num, s_num_rx>> /\ UNCHANGED serverState
        /\ UNCHANGED clientVars
    BY <1>0, <1>2 DEF ServerNicSend, TxQueueInv, serverState
  <2>2. NoNewReq
    BY <2>1 DEF NoNewReq, Req, Resp
  <2>3. ServerQueueInv'
    BY <1>0, <2>1 DEF ServerQueueInv, SrvQueued, Active, clientVars
  <2>4. ~Pacing => \A q \in tx_queue : s_cur_req_num'[q.sslot] = cur_req_num[q.sslot]
                                         => s_num_rx'[q.sslot] <= q.pkt_num
    BY <1>0, <2>1 DEF ClientQueueInv, CliQueued
  <2>5. ClientQueueInv'
    BY <1>0, <2>1, <2>2, <2>4, ClientQueueKept
  <2>6. AheadInv'
    BY <1>0, <2>1 DEF AheadInv, serverState, clientVars, SrvFresh, SrvDone, SrvAllSent
  <2> QED
    BY <2>3, <2>5, <2>6 DEF QueueInv
<1>3. CASE LosePacket(p)
  <2>1. UNCHANGED clientVars /\ UNCHANGED serverVars /\ NoNewReq /\ NoNewResp
    BY <1>3 DEF LosePacket, NoNewReq, NoNewResp
  <2>2. UNCHANGED <<tx_msgbuf, cur_req_num, num_rx, tx_queue>>
    BY <2>1 DEF clientVars
  <2>3. ClientQueueInv'
    BY <1>0, <2>1, <2>2, ClientQueueShrinks
  <2> QED
    BY <2>1, <2>2, <2>3, QueueQuiet
<1> QED
  BY <1>1, <1>2, <1>3

LEMMA NextQueue ==
  ASSUME IInv, IInv', DataInv, QueueInv, [Next]_vars
  PROVE  QueueInv'
<1>1. ASSUME NEW pkts \in 1..MaxReqPkts, EnqueueRequestBacklog(pkts) PROVE QueueInv'
  BY <1>1, QueueEnqueueRequestBacklog
<1>2. ASSUME NEW s \in Sslots, NEW pkts \in 1..MaxReqPkts, EnqueueRequest(s, pkts)
      PROVE  QueueInv'
  BY <1>2, QueueEnqueueRequest
<1>3. CASE ProcessCreditStallQueue
  BY <1>3, QueueProcessCreditStallQueue
<1>4. ASSUME NEW s \in Sslots, NEW k \in wheel[s], ProcessWheel(s, k) PROVE QueueInv'
  BY <1>4, QueueProcessWheel
<1>5. ASSUME NEW s \in Sslots, PktLossScan(s) PROVE QueueInv'
  BY <1>5, QueuePktLossScan
<1>6. ASSUME NEW p \in net, ProcessPacket(p) PROVE QueueInv'
  <2>1. CASE ProcessExplCR(p)
    BY <2>1, QueueProcessExplCR
  <2>2. CASE ProcessRespDrop(p)
    BY <2>2, QueueDrop DEF ProcessRespDrop
  <2>3. CASE ProcessRespPartial(p)
    BY <2>3, QueueProcessRespPartial
  <2>4. CASE ProcessRespComplete(p)
    BY <2>4, QueueProcessRespComplete
  <2>5. CASE ProcessSmallReqOld(p) \/ ProcessLargeReqOld(p) \/ ProcessRFRDrop(p)
    BY <2>5, QueueServerOld
  <2>6. CASE ProcessSmallReqNew(p)
    BY <2>6, QueueProcessSmallReqNew
  <2>7. CASE ProcessLargeReqNext(p)
    BY <2>7, QueueLargeReqFirst, QueueLargeReqNext
  <2>8. CASE ProcessRFR(p)
    BY <2>8, QueueProcessRFR
  <2> QED
    BY <1>6, <2>1, <2>2, <2>3, <2>4, <2>5, <2>6, <2>7, <2>8 DEF ProcessPacket
<1>7. ASSUME NEW s \in Sslots, NEW pkts \in 1..MaxRespPkts, EnqueueResponse(s, pkts)
      PROVE  QueueInv'
  BY <1>7, QueueEnqueueResponse
<1>8. ASSUME NEW p, ClientNicSend(p) \/ ServerNicSend(p) \/ LosePacket(p) PROVE QueueInv'
  BY <1>8, QueueNic
<1>9. CASE UNCHANGED vars
  BY <1>9 DEF vars, QueueInv, ServerQueueInv, ClientQueueInv, AheadInv, SrvQueued, CliQueued,
              Active, SrvFresh, SrvDone, SrvAllSent
<1> QED
  BY <1>1, <1>2, <1>3, <1>4, <1>5, <1>6, <1>7, <1>8, <1>9 DEF Next

\* A packet in a TX batch or a DMA queue has never been sent and is still
\* awaited: at the server always, at the client without pacing.
THEOREM QueueInvariantHolds == Spec => []QueueInv
<1>1. Init => QueueInv
  BY DEF Init, QueueInv, ServerQueueInv, ClientQueueInv, AheadInv
<1>2. IInv /\ IInv' /\ DataInv /\ QueueInv /\ [Next]_vars => QueueInv'
  BY NextQueue
<1> QED
  BY <1>1, <1>2, InvariantHolds, DataInvariantHolds, PTL DEF Spec

\* The whole invariant holds.
THEOREM WholeInvariantHolds == Spec => []DInv
<1>1. IInv /\ DataInv /\ QueueInv => DInv
  BY DEF DInv
<1> QED
  BY <1>1, InvariantHolds, DataInvariantHolds, QueueInvariantHolds, PTL

\* "The TX batch or DMA queue cannot contain a reference": without pacing, no
\* queued packet refers to a MsgBuffer that its sslot has given up.
THEOREM NoTxDangles == ~Pacing /\ Spec => []NoDanglingTx
<1>1. ASSUME ~Pacing, DInv PROVE NoDanglingTx
  <2>0. IInv /\ DataInv /\ ServerQueueInv /\ ClientQueueInv /\ TxQueueInv
    BY <1>1 DEF DInv, QueueInv, IInv
  <2>1. ASSUME NEW p \in tx_queue PROVE tx_msgbuf[p.sslot].rpc = p.data.rpc
    <3>1. CliQueued(p) /\ p.type = Req /\ PktData(p)
      BY <1>1, <2>0 DEF ClientQueueInv, TxQueueInv, DataInv
    <3> QED
      BY <3>1 DEF CliQueued, PktData
  <2>2. ASSUME NEW p \in s_tx_queue PROVE s_tx_msgbuf[p.sslot].rpc = p.data.rpc
    <3>1. SrvQueued(p) /\ p.type = Resp /\ PktData(p)
      BY <2>0 DEF ServerQueueInv, TxQueueInv, DataInv
    <3> QED
      BY <3>1 DEF SrvQueued, PktData
  <2> QED
    BY <2>1, <2>2 DEF NoDanglingTx
<1>2. ~Pacing /\ [Next]_vars => (~Pacing)'
  OBVIOUS
<1> QED
  BY <1>1, <1>2, WholeInvariantHolds, PTL DEF Spec

=============================================================================
