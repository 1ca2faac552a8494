------------------------- MODULE RpcDatapathProofs -------------------------
(***************************************************************************)
(* Proofs about the datapath, for any number of sslots, credits, RPCs and  *)
(* packets per message, with or without pacing, over a network that loses, *)
(* reorders and (if Duplicating) duplicates packets.                       *)
(*                                                                         *)
(* IInv of RpcDatapath is inductive: InitIInv and NextIInv, which has      *)
(* one lemma per action.  The client's actions are instances of ClientStep *)
(* (one sslot changes; credits and outstanding packets change by opposite  *)
(* amounts) and the server's of ServerStep.  The theorems at the end of    *)
(* the module are consequences of IInv.                                    *)
(***************************************************************************)
EXTENDS RpcDatapath, FiniteSetTheorems, TLAPS

\* The number of packet numbers from a up to, not including, b.
LEMMA IntervalCardinality ==
  ASSUME NEW a \in Nat, NEW b \in Nat, a <= b
  PROVE  /\ IsFiniteSet(a..(b - 1))
         /\ Cardinality(a..(b - 1)) = b - a
<1>1. b - 1 \in Int
  OBVIOUS
<1>2. /\ IsFiniteSet(a..(b - 1))
      /\ Cardinality(a..(b - 1)) = IF a > b - 1 THEN 0 ELSE (b - 1) - a + 1
  BY <1>1, FS_Interval
<1> QED
  BY <1>2

\* Disjoint finite sets: the cardinality of the union is the sum.
LEMMA DisjointUnionCardinality ==
  ASSUME NEW S, NEW T, IsFiniteSet(S), IsFiniteSet(T), S \cap T = {}
  PROVE  /\ IsFiniteSet(S \cup T)
         /\ Cardinality(S \cup T) = Cardinality(S) + Cardinality(T)
         /\ Cardinality(S) \in Nat
         /\ Cardinality(T) \in Nat
<1>1. /\ IsFiniteSet(S \cup T)
      /\ Cardinality(S \cup T) =
           Cardinality(S) + Cardinality(T) - Cardinality(S \cap T)
  BY FS_Union
<1>2. Cardinality(S) \in Nat /\ Cardinality(T) \in Nat
  BY FS_CardinalityType
<1>3. Cardinality(S \cap T) = 0
  BY FS_EmptySet
<1> QED
  BY <1>1, <1>2, <1>3

\* Head and Tail of a non-empty queue.
LEMMA HeadTail ==
  ASSUME NEW S, NEW q \in Seq(S), q # <<>>
  PROVE  /\ Head(q) \in S /\ Head(q) = q[1] /\ Len(q) \in Nat /\ 1 \in 1..Len(q)
         /\ Tail(q) \in Seq(S) /\ Len(Tail(q)) = Len(q) - 1
         /\ \A i \in 1..Len(Tail(q)) : Tail(q)[i] = q[i + 1]
<1>1. Len(q) \in Nat /\ Len(q) > 0
  OBVIOUS
<1>2. Head(q) \in S /\ Head(q) = q[1] /\ 1 \in 1..Len(q)
  BY <1>1
<1>3. Tail(q) \in Seq(S) /\ Len(Tail(q)) = Len(q) - 1
  BY <1>1
<1>4. \A i \in 1..Len(Tail(q)) : Tail(q)[i] = q[i + 1]
  BY <1>1, <1>3
<1> QED
  BY <1>1, <1>2, <1>3, <1>4

USE SslotsAssumption, CreditsAssumption, BoundsAssumption, SwitchesAssumption

\* The initial state, in which nothing was sent, satisfies the invariant.
LEMMA InitIInv == Init => IInv
<1> SUFFICES ASSUME Init PROVE IInv
  OBVIOUS
<1>1. TypeOK
  BY DEF Init, TypeOK, NoMsg, Msg, NoData, Chunk, ReqBuf, RespBuf, Rpcs
<1>2. ClientInv /\ StallqInv /\ BacklogInv
  BY DEF Init, ClientInv, CliInv, StallqInv, BacklogInv, Active, NoMsg
<1>3. ServerInv /\ PairInv
  BY DEF Init, ServerInv, SrvInv, PairInv, PairSlotInv, Active, SrvFresh, SrvAllSent, NoMsg
<1>4. NetInv /\ TxQueueInv
  BY DEF Init, NetInv, TxQueueInv
<1>5. Outstanding = {}
  BY DEF Init, Outstanding
<1>6. CreditInv
  BY <1>5, FS_EmptySet DEF CreditInv, CreditConservation, Init
<1> QED
  BY <1>1, <1>2, <1>3, <1>4, <1>6 DEF IInv

\* Changing the counters of one sslot changes the number of outstanding packets
\* by as much as it changes that sslot's.
LEMMA OutstandingChange ==
  ASSUME num_rx \in [Sslots -> Nat], num_tx \in [Sslots -> Nat],
         num_rx' \in [Sslots -> Nat], num_tx' \in [Sslots -> Nat],
         NEW s \in Sslots,
         num_rx[s] <= num_tx[s], num_rx'[s] <= num_tx'[s],
         \A t \in Sslots \ {s} : num_rx'[t] = num_rx[t] /\ num_tx'[t] = num_tx[t],
         IsFiniteSet(Outstanding)
  PROVE  /\ IsFiniteSet(Outstanding')
         /\ Cardinality(Outstanding) \in Nat
         /\ Cardinality(Outstanding') \in Nat
         /\ Cardinality(Outstanding') - (num_tx'[s] - num_rx'[s]) =
              Cardinality(Outstanding) - (num_tx[s] - num_rx[s])
<1> DEFINE R == UNION {{t} \X (num_rx[t]..(num_tx[t] - 1)) : t \in Sslots \ {s}}
<1> DEFINE A1 == {s} \X (num_rx[s]..(num_tx[s] - 1))
<1> DEFINE A2 == {s} \X (num_rx'[s]..(num_tx'[s] - 1))
<1>1. Outstanding = R \cup A1 /\ R \cap A1 = {}
  <2>1. Outstanding = R \cup A1 BY DEF Outstanding
  <2>2. R \cap A1 = {} OBVIOUS
  <2> QED BY <2>1, <2>2
<1>2. Outstanding' = R \cup A2 /\ R \cap A2 = {}
  <2>1. Outstanding' = R \cup A2 BY DEF Outstanding
  <2>2. R \cap A2 = {} OBVIOUS
  <2> QED BY <2>1, <2>2
<1>3. IsFiniteSet(R)
  BY <1>1, FS_Subset
<1>4. IsFiniteSet(A1) /\ Cardinality(A1) = num_tx[s] - num_rx[s]
  <2>1. IsFiniteSet({s}) /\ Cardinality({s}) = 1
    BY FS_Singleton
  <2>2. /\ IsFiniteSet(num_rx[s]..(num_tx[s] - 1))
        /\ Cardinality(num_rx[s]..(num_tx[s] - 1)) = num_tx[s] - num_rx[s]
    BY IntervalCardinality
  <2>3. /\ IsFiniteSet(A1)
        /\ Cardinality(A1) = Cardinality({s}) * Cardinality(num_rx[s]..(num_tx[s] - 1))
    BY <2>1, <2>2, FS_Product
  <2> QED BY <2>1, <2>2, <2>3
<1>5. IsFiniteSet(A2) /\ Cardinality(A2) = num_tx'[s] - num_rx'[s]
  <2>1. IsFiniteSet({s}) /\ Cardinality({s}) = 1
    BY FS_Singleton
  <2>2. /\ IsFiniteSet(num_rx'[s]..(num_tx'[s] - 1))
        /\ Cardinality(num_rx'[s]..(num_tx'[s] - 1)) = num_tx'[s] - num_rx'[s]
    BY IntervalCardinality
  <2>3. /\ IsFiniteSet(A2)
        /\ Cardinality(A2) = Cardinality({s}) * Cardinality(num_rx'[s]..(num_tx'[s] - 1))
    BY <2>1, <2>2, FS_Product
  <2> QED BY <2>1, <2>2, <2>3
<1> HIDE DEF R, A1, A2
<1>7. Cardinality(Outstanding) = Cardinality(R) + Cardinality(A1)
  BY <1>1, <1>3, <1>4, DisjointUnionCardinality
<1>8. IsFiniteSet(Outstanding') /\ Cardinality(Outstanding') = Cardinality(R) + Cardinality(A2)
  BY <1>2, <1>3, <1>5, DisjointUnionCardinality
<1> QED
  BY <1>3, <1>4, <1>5, <1>7, <1>8, FS_CardinalityType

-----------------------------------------------------------------------------
\* The types of a packet's fields.
LEMMA PacketFields ==
  ASSUME TypeOK, NEW p \in net \cup tx_queue \cup s_tx_queue
  PROVE  /\ p \in Packet
         /\ p.type \in {Req, RFR, ExplCR, Resp} /\ p.sslot \in Sslots
         /\ p.req_num \in Nat /\ p.pkt_num \in Nat /\ p.size \in Nat
         /\ p.data \in Chunk
<1>1. p \in Packet
  BY DEF TypeOK
<1> QED
  BY <1>1 DEF Packet

-----------------------------------------------------------------------------
(* Steps of the server: the client's half of the invariant is untouched *)

\* A step that leaves the client's variables alone keeps its half.
LEMMA ClientHalfUnchanged ==
  ASSUME IInv, UNCHANGED clientVars
  PROVE  ClientInv' /\ StallqInv' /\ BacklogInv' /\ CreditInv'
<1>1. ClientInv' /\ StallqInv' /\ BacklogInv'
  BY DEF IInv, clientVars, ClientInv, CliInv, StallqInv, BacklogInv, Active
<1>2. Outstanding' = Outstanding
  BY DEF clientVars, Outstanding
<1>3. CreditInv'
  BY <1>2 DEF IInv, clientVars, CreditInv, CreditConservation
<1> QED
  BY <1>1, <1>3

\* A step that leaves the server's variables alone keeps its half.
LEMMA ServerHalfUnchanged ==
  ASSUME IInv, UNCHANGED serverVars
  PROVE  ServerInv'
BY DEF IInv, serverVars, ServerInv, SrvInv, SrvFresh, SrvReceiving, SrvPending, SrvDone

-----------------------------------------------------------------------------
(* Steps that only move packets *)

\* The state of the two ends without their TX queues.
clientState == <<credits, sslot_free, backlog, stallq, wheel, tx_msgbuf,
                 cur_req_num, num_tx, num_rx, resp_pkts, resp_data, issued>>
serverState == <<s_tx_msgbuf, s_cur_req_num, s_num_rx, req_pkts, req_data,
                 req_type, serving, sav_num_req_pkts, runs, answer>>

\* Moving packets between the queues and the network, and sending valid ones,
\* keeps the invariant.
LEMMA PacketStep ==
  ASSUME IInv, UNCHANGED clientState, UNCHANGED serverState, NEW New,
         \A p \in New : p \in Packet /\ PktInv(p),
         net' \subseteq net \cup tx_queue \cup s_tx_queue \cup New,
         tx_queue' \subseteq tx_queue,
         s_tx_queue' \subseteq s_tx_queue \cup {p \in New : p.type = Resp}
  PROVE  IInv'
<1>1. net' \subseteq Packet /\ tx_queue' \subseteq Packet /\ s_tx_queue' \subseteq Packet
  BY DEF IInv, TypeOK
<1>2. TypeOK'
  BY <1>1 DEF IInv, TypeOK, clientState, serverState
<1>3. ClientInv' /\ StallqInv' /\ BacklogInv'
  BY DEF IInv, clientState, ClientInv, CliInv, StallqInv, BacklogInv, Active
<1>4. CreditInv'
  <2>1. Outstanding' = Outstanding
    BY DEF clientState, Outstanding
  <2> QED
    BY <2>1 DEF IInv, clientState, CreditInv, CreditConservation
<1>5. ServerInv'
  BY DEF IInv, serverState, ServerInv, SrvInv, SrvFresh, SrvReceiving, SrvPending, SrvDone
<1>6. PairInv'
  BY DEF IInv, PairInv, PairSlotInv, clientState, serverState, Active, SrvFresh, SrvAllSent,
     SrvDone, SrvReqPkts
<1>7. \A q : PktInv(q) => PktInv(q)'
  BY DEF PktInv, ReqPktInv, RfrPktInv, CrPktInv, RespPktInv, clientState, serverState,
     Active, SrvDone, SrvReqPkts
<1>8. NetInv' /\ TxQueueInv'
  BY <1>7 DEF IInv, NetInv, TxQueueInv
<1> QED
  BY <1>2, <1>3, <1>4, <1>5, <1>6, <1>8 DEF IInv

\* Packets that move from a TX queue to the network, or vanish, keep the
\* invariant.
LEMMA MoveStep ==
  ASSUME IInv, UNCHANGED clientState, UNCHANGED serverState,
         net' \subseteq net \cup tx_queue \cup s_tx_queue,
         tx_queue' \subseteq tx_queue, s_tx_queue' \subseteq s_tx_queue
  PROVE  IInv'
<1>0. PICK New : New = {}
  OBVIOUS
<1>1. /\ \A p \in New : p \in Packet /\ PktInv(p)
      /\ net' \subseteq net \cup tx_queue \cup s_tx_queue \cup New
      /\ s_tx_queue' \subseteq s_tx_queue \cup {p \in New : p.type = Resp}
  BY <1>0
<1> QED
  BY <1>1, PacketStep

\* A packet that is dropped: at most, it leaves the network.
LEMMA DropStep ==
  ASSUME IInv, NEW p, net' = Received({p}), UNCHANGED clientVars, UNCHANGED serverVars
  PROVE  IInv'
<1>1. net' \subseteq net \cup tx_queue \cup s_tx_queue
  BY DEF Received
<1>2. /\ UNCHANGED clientState /\ UNCHANGED serverState
      /\ tx_queue' = tx_queue /\ s_tx_queue' = s_tx_queue
  BY DEF clientVars, serverVars, clientState, serverState
<1> QED
  BY <1>1, <1>2, MoveStep

\* The NICs and the network keep the invariant.
LEMMA ClientNicSendStep ==
  ASSUME IInv, NEW p \in tx_queue, ClientNicSend(p)
  PROVE  IInv'
<1>1. /\ UNCHANGED clientState /\ UNCHANGED serverState
      /\ tx_queue' \subseteq tx_queue /\ s_tx_queue' = s_tx_queue
      /\ net' \subseteq net \cup tx_queue \cup s_tx_queue
  BY DEF ClientNicSend, serverVars, clientState, serverState
<1> QED
  BY <1>1, MoveStep

\* A packet that leaves the server's NIC.
LEMMA ServerNicSendStep ==
  ASSUME IInv, NEW p \in s_tx_queue, ServerNicSend(p)
  PROVE  IInv'
<1>1. /\ UNCHANGED clientState /\ UNCHANGED serverState
      /\ s_tx_queue' \subseteq s_tx_queue /\ tx_queue' = tx_queue
      /\ net' \subseteq net \cup tx_queue \cup s_tx_queue
  BY DEF ServerNicSend, clientVars, clientState, serverState
<1> QED
  BY <1>1, MoveStep

\* A packet that is lost.
LEMMA LosePacketStep ==
  ASSUME IInv, NEW p \in net, LosePacket(p)
  PROVE  IInv'
<1>1. /\ UNCHANGED clientState /\ UNCHANGED serverState
      /\ s_tx_queue' = s_tx_queue /\ tx_queue' = tx_queue
      /\ net' \subseteq net \cup tx_queue \cup s_tx_queue
  BY DEF LosePacket, clientVars, serverVars, clientState, serverState
<1> QED
  BY <1>1, MoveStep

\* process_resp_one_st, out-of-order packet, keeps the invariant.
LEMMA ProcessRespDropStep ==
  ASSUME IInv, NEW p \in net, ProcessRespDrop(p)
  PROVE  IInv'
BY DropStep DEF ProcessRespDrop, clientVars, serverVars

-----------------------------------------------------------------------------
(* Steps of the client *)

\* What transmitting the packets in New does to the TX queue and the network.
ClientSent(New) ==
    /\ net' \subseteq net \cup tx_queue \cup New
    /\ tx_queue' \subseteq tx_queue \cup {p \in New : p.type = Req}

\* ClientTx sends request packets and headers, drained or not.
LEMMA ClientTxSent ==
  ASSUME NEW pkts, NEW hdrs, NEW drain, NEW rcvd,
         \A p \in pkts : p.type = Req,
         ClientTx(pkts, hdrs, drain, rcvd)
  PROVE  ClientSent(pkts \cup hdrs)
<1>1. Received(rcvd) \subseteq net
  BY DEF Received
<1> QED
  BY <1>1 DEF ClientTx, ClientSent

\* ClientTx with nothing to send, which may still drain the queue.
LEMMA ClientTxNone ==
  ASSUME NEW drain, NEW rcvd, ClientTx({}, {}, drain, rcvd)
  PROVE  ClientSent({})
<1>1. Received(rcvd) \subseteq net
  BY DEF Received
<1> QED
  BY <1>1 DEF ClientTx, ClientSent

\* kick_req_st in one formula: k request packets, limited by the credits and by
\* the request's length, and reaching one of the two limits.
KickedReq(s, n, m, tx, cr, k) ==
    /\ k <= cr /\ tx + k <= m.pkts
    /\ k = cr \/ tx + k = m.pkts
    /\ num_tx' = [num_tx EXCEPT ![s] = tx + k]
    /\ credits' = cr - k
    /\ \/ wheel' = wheel
       \/ Pacing /\ wheel' = [wheel EXCEPT ![s] = @ \cup tx..(tx + k - 1)]
    /\ ClientSent({ReqPkt(s, n, m, i) : i \in tx..(tx + k - 1)})

\* kick_req_st does what KickedReq says, for some number k of packets.
LEMMA KickReq ==
  ASSUME NEW s, NEW n, NEW m, NEW tx \in Nat, NEW cr \in Nat, NEW drain, NEW rcvd,
         m.pkts \in Nat, tx <= m.pkts,
         kick_req(s, n, m, tx, cr, drain, rcvd)
  PROVE  \E k \in Nat : KickedReq(s, n, m, tx, cr, k)
<1> DEFINE k == MinOf(cr, m.pkts - tx)
           ps == {ReqPkt(s, n, m, i) : i \in tx..(tx + k - 1)}
<1>1. k \in Nat /\ k <= cr /\ tx + k <= m.pkts /\ (k = cr \/ tx + k = m.pkts)
  BY DEF MinOf
<1>2. PICK bypass \in can_bypass_wheel(s) :
             /\ wheel' = IF bypass THEN wheel
                         ELSE [wheel EXCEPT ![s] = @ \cup tx..(tx + k - 1)]
             /\ ClientTx(IF bypass THEN ps ELSE {}, {}, drain, rcvd)
  BY DEF kick_req
<1>3. ~Pacing => bypass
  BY <1>2 DEF can_bypass_wheel
<1>4. ClientSent(IF bypass THEN ps ELSE {})
  <2>1. \A p \in ps : p.type = Req
    BY DEF ReqPkt
  <2> QED
    BY <2>1, <1>2, ClientTxSent
<1>5. ClientSent(ps)
  BY <1>4 DEF ClientSent
<1>6. num_tx' = [num_tx EXCEPT ![s] = tx + k] /\ credits' = cr - k
  BY DEF kick_req
<1>7. KickedReq(s, n, m, tx, cr, k)
  BY <1>1, <1>2, <1>3, <1>5, <1>6 DEF KickedReq
<1> QED
  BY <1>1, <1>7

\* kick_rfr_st in one formula.
KickedRfr(s, n, wire, tx, cr, k) ==
    /\ k <= cr /\ tx + k <= wire
    /\ k = cr \/ tx + k = wire
    /\ num_tx' = [num_tx EXCEPT ![s] = tx + k]
    /\ credits' = cr - k
    /\ wheel' = wheel
    /\ ClientSent({RfrPkt(s, n, i) : i \in tx..(tx + k - 1)})

\* kick_rfr_st does what KickedRfr says, for some number k of RFRs.
LEMMA KickRfr ==
  ASSUME NEW s, NEW n, NEW wire \in Nat, NEW tx \in Nat, NEW cr \in Nat,
         NEW drain, NEW rcvd, tx <= wire,
         kick_rfr(s, n, wire, tx, cr, drain, rcvd)
  PROVE  \E k \in Nat : KickedRfr(s, n, wire, tx, cr, k)
<1> DEFINE k == MinOf(cr, wire - tx)
           ps == {RfrPkt(s, n, i) : i \in tx..(tx + k - 1)}
<1>1. k \in Nat /\ k <= cr /\ tx + k <= wire /\ (k = cr \/ tx + k = wire)
  BY DEF MinOf
<1>2. ClientTx({}, ps, drain, rcvd)
  BY DEF kick_rfr
<1>3. ClientSent(ps)
  BY <1>2, ClientTxSent
<1>4. num_tx' = [num_tx EXCEPT ![s] = tx + k] /\ credits' = cr - k /\ wheel' = wheel
  BY DEF kick_rfr
<1>5. KickedRfr(s, n, wire, tx, cr, k)
  BY <1>1, <1>3, <1>4 DEF KickedRfr
<1> QED
  BY <1>1, <1>5

\* Updating the counter of one sslot.
LEMMA CounterUpdate ==
  ASSUME NEW f \in [Sslots -> Nat], NEW s \in Sslots, NEW v \in Nat,
         NEW g, g = [f EXCEPT ![s] = v]
  PROVE  /\ g \in [Sslots -> Nat] /\ g[s] = v
         /\ \A t \in Sslots \ {s} : g[t] = f[t]
OBVIOUS

\* A client step leaves the sslots other than s alone.
ClientFrame(s) ==
    \A t \in Sslots \ {s} :
        /\ tx_msgbuf'[t] = tx_msgbuf[t] /\ cur_req_num'[t] = cur_req_num[t]
        /\ num_tx'[t] = num_tx[t] /\ num_rx'[t] = num_rx[t]
        /\ resp_pkts'[t] = resp_pkts[t] /\ wheel'[t] = wheel[t]
        /\ t \in sslot_free' <=> t \in sslot_free
        /\ (\E i \in 1..Len(stallq) : stallq[i] = t) =>
              \E i \in 1..Len(stallq') : stallq'[i] = t

\* The packets sent before, and the packets in New, are valid after the step.
PacketsValid(s, New) ==
    /\ \A p \in New : PktInv(p)'
    /\ \A p \in net \cup tx_queue \cup s_tx_queue : p.sslot = s => PktInv(p)'

\* The general form of a client step that touches sslot s: what has to be
\* shown about s, the queues and the packets it sends.
LEMMA ClientStep ==
  ASSUME IInv, TypeOK', UNCHANGED serverVars, NEW s \in Sslots, NEW New,
         ClientFrame(s), CliInv(s)', StallqInv', BacklogInv', PairSlotInv(s)',
         credits' + (num_tx'[s] - num_rx'[s]) = credits + (num_tx[s] - num_rx[s]),
         ClientSent(New), PacketsValid(s, New)
  PROVE  IInv'
<1>1. ClientInv'
  <2> SUFFICES ASSUME NEW t \in Sslots, t # s PROVE CliInv(t)'
    BY DEF ClientInv
  <2>1. CliInv(t)
    BY DEF IInv, ClientInv
  <2> QED
    BY <2>1 DEF CliInv, Active, ClientFrame
<1>2. ServerInv'
  BY ServerHalfUnchanged
<1>3. PairInv'
  <2> SUFFICES ASSUME NEW t \in Sslots, t # s PROVE PairSlotInv(t)'
    BY DEF PairInv
  <2>1. PairSlotInv(t)
    BY DEF IInv, PairInv
  <2> QED
    BY <2>1 DEF ClientFrame, PairSlotInv, serverVars, Active, SrvFresh, SrvAllSent, SrvDone, SrvReqPkts
<1>4. NetInv'
  <2> SUFFICES ASSUME NEW p \in net \cup tx_queue \cup s_tx_queue, p.sslot # s
               PROVE  PktInv(p)'
    BY DEF NetInv, PacketsValid, ClientSent, serverVars
  <2>1. p.sslot \in Sslots /\ PktInv(p)
    BY PacketFields DEF IInv, NetInv
  <2> QED
    BY <2>1 DEF ClientFrame, PktInv, ReqPktInv, RfrPktInv, CrPktInv, RespPktInv, serverVars,
       Active, SrvDone, SrvReqPkts
<1>5. TxQueueInv'
  BY DEF IInv, TxQueueInv, ClientSent, serverVars
<1>6. CreditInv'
  <2>1. /\ num_rx \in [Sslots -> Nat] /\ num_tx \in [Sslots -> Nat]
        /\ num_rx' \in [Sslots -> Nat] /\ num_tx' \in [Sslots -> Nat]
        /\ credits \in Nat /\ credits' \in Nat
    BY DEF IInv, TypeOK
  <2>2. num_rx[s] <= num_tx[s] /\ num_rx'[s] <= num_tx'[s]
    BY DEF IInv, ClientInv, CliInv
  <2>3. IsFiniteSet(Outstanding)
    BY DEF IInv, CreditInv
  <2>4. /\ IsFiniteSet(Outstanding')
        /\ Cardinality(Outstanding) \in Nat
        /\ Cardinality(Outstanding') \in Nat
        /\ Cardinality(Outstanding') - (num_tx'[s] - num_rx'[s]) =
             Cardinality(Outstanding) - (num_tx[s] - num_rx[s])
    BY <2>1, <2>2, <2>3, OutstandingChange DEF ClientFrame
  <2>5. credits + Cardinality(Outstanding) = Credits
    BY DEF IInv, CreditInv, CreditConservation
  <2>6. num_rx[s] \in Nat /\ num_tx[s] \in Nat /\ num_rx'[s] \in Nat /\ num_tx'[s] \in Nat
    BY <2>1
  <2>7. credits' + Cardinality(Outstanding') = Credits
    BY <2>1, <2>4, <2>5, <2>6
  <2> QED
    BY <2>4, <2>7 DEF CreditInv, CreditConservation
<1> QED
  BY <1>1, <1>2, <1>3, <1>4, <1>5, <1>6 DEF IInv

\* enqueue_request without a free sslot keeps the invariant.
LEMMA EnqueueRequestBacklogStep ==
  ASSUME IInv, NEW pkts \in 1..MaxReqPkts, EnqueueRequestBacklog(pkts)
  PROVE  IInv'
<1> USE DEF EnqueueRequestBacklog
<1>1. TypeOK'
  <2>1. TypeOK
    BY DEF IInv
  <2>2. backlog' \in Seq(Msg)
    BY <2>1 DEF TypeOK, Msg
  <2>3. issued' \in 0..NumRpcs
    BY <2>1 DEF TypeOK
  <2> QED
    BY <2>1, <2>2, <2>3 DEF TypeOK, serverVars
<1>2. ClientInv' /\ StallqInv'
  BY DEF IInv, ClientInv, CliInv, StallqInv, Active
<1>3. BacklogInv'
  <2>1. /\ Len(backlog') = Len(backlog) + 1
        /\ backlog'[Len(backlog) + 1].pkts = pkts
        /\ \A i \in 1..Len(backlog) : backlog'[i] = backlog[i]
    BY DEF IInv, TypeOK
  <2>2. ASSUME NEW i \in 1..Len(backlog') PROVE backlog'[i].pkts > 0
    <3>1. Len(backlog) \in Nat
      BY DEF IInv, TypeOK
    <3>2. CASE i = Len(backlog) + 1
      BY <3>2, <2>1
    <3>3. CASE i \in 1..Len(backlog)
      BY <3>3, <2>1 DEF IInv, BacklogInv
    <3> QED
      BY <3>1, <3>2, <3>3, <2>1
  <2>3. sslot_free' = {}
    OBVIOUS
  <2> QED
    BY <2>2, <2>3 DEF BacklogInv
<1>4. CreditInv'
  <2>1. Outstanding' = Outstanding
    BY DEF Outstanding
  <2> QED
    BY <2>1 DEF IInv, CreditInv, CreditConservation
<1>5. ServerInv'
  BY ServerHalfUnchanged
<1>6. PairInv'
  BY DEF IInv, PairInv, PairSlotInv, serverVars, Active, SrvFresh, SrvAllSent, SrvDone, SrvReqPkts
<1>7. NetInv' /\ TxQueueInv'
  BY DEF IInv, NetInv, TxQueueInv, PktInv, ReqPktInv, RfrPktInv, CrPktInv, RespPktInv, serverVars, Active, SrvFresh, SrvDone, SrvReqPkts
<1> QED
  BY <1>1, <1>2, <1>3, <1>4, <1>5, <1>6, <1>7 DEF IInv

\* The types after a client step.
LEMMA ClientTypes ==
  ASSUME TypeOK, UNCHANGED serverVars, NEW New, New \subseteq Packet, ClientSent(New),
         credits' \in Nat, sslot_free' \in SUBSET Sslots, backlog' \in Seq(Msg),
         stallq' \in Seq(Sslots), wheel' \in [Sslots -> SUBSET Nat],
         tx_msgbuf' \in [Sslots -> Msg], cur_req_num' \in [Sslots -> Nat],
         num_tx' \in [Sslots -> Nat], num_rx' \in [Sslots -> Nat],
         resp_pkts' \in [Sslots -> Nat], resp_data' \in [Sslots -> RespBuf],
         issued' \in 0..NumRpcs
  PROVE  TypeOK'
<1>1. net' \in SUBSET Packet /\ tx_queue' \in SUBSET Packet
  BY DEF TypeOK, ClientSent
<1> QED
  BY <1>1 DEF TypeOK, serverVars

\* Packets already sent stay valid while their request is the current one and
\* num_tx does not decrease.
LEMMA PktInvKept ==
  ASSUME IInv, NEW s \in Sslots, UNCHANGED serverVars,
         cur_req_num'[s] = cur_req_num[s], tx_msgbuf'[s] = tx_msgbuf[s],
         num_tx'[s] \in Nat, num_tx'[s] >= num_tx[s],
         NEW p \in net \cup tx_queue \cup s_tx_queue, p.sslot = s
  PROVE  PktInv(p)'
<1>1. PktInv(p) /\ p.pkt_num \in Nat /\ num_tx[s] \in Nat
  BY PacketFields DEF IInv, NetInv, TypeOK
<1> QED
  BY <1>1 DEF PktInv, ReqPktInv, RfrPktInv, CrPktInv, RespPktInv, serverVars,
     Active, SrvDone, SrvReqPkts

\* A packet of the current request is valid.
LEMMA NewReqPkt ==
  ASSUME NEW s \in Sslots, NEW m \in Msg, NEW n \in Nat, NEW k \in Nat,
         PairSlotInv(s)', tx_msgbuf'[s] = m, m.pkts > 0, cur_req_num'[s] = n, n > 0,
         k < num_tx'[s], k < m.pkts
  PROVE  /\ ReqPkt(s, n, m, k) \in Packet
         /\ PktInv(ReqPkt(s, n, m, k))'
<1> DEFINE p == ReqPkt(s, n, m, k)
<1>1. /\ p.type = Req /\ p.sslot = s /\ p.req_num = n /\ p.pkt_num = k
      /\ p.size = m.pkts /\ p \in Packet
  BY DEF ReqPkt, Packet, Msg, Chunk
<1>2. p.type # RFR /\ p.type # ExplCR /\ p.type # Resp
  BY <1>1 DEF Req, RFR, ExplCR, Resp
<1>3. Active(s)'
  BY DEF Active, NoMsg
<1>4. n = s_cur_req_num'[s] => m.pkts = SrvReqPkts(s)'
  BY <1>3 DEF PairSlotInv
<1> HIDE DEF p
<1>5. ReqPktInv(p)'
  BY <1>1, <1>4 DEF ReqPktInv
<1>6. PktInv(p)'
  BY <1>1, <1>2, <1>5 DEF PktInv
<1> QED
  BY <1>1, <1>6 DEF p

\* An RFR for a packet of the response is valid.
LEMMA NewRfrPkt ==
  ASSUME TypeOK', NEW s \in Sslots, NEW n \in Nat, NEW k \in Nat,
         PairSlotInv(s)', Active(s)', tx_msgbuf'[s].pkts > 0,
         cur_req_num'[s] = n, n > 0, k < num_tx'[s],
         num_rx'[s] >= tx_msgbuf'[s].pkts, k >= num_rx'[s],
         k < wire_pkts(tx_msgbuf'[s].pkts, resp_pkts'[s])
  PROVE  PktInv(RfrPkt(s, n, k))'
<1> DEFINE p == RfrPkt(s, n, k)
<1>1. /\ p.type = RFR /\ p.sslot = s /\ p.req_num = n /\ p.pkt_num = k
  BY DEF RfrPkt
<1>2. p.type # Req /\ p.type # ExplCR /\ p.type # Resp
  BY <1>1 DEF Req, RFR, ExplCR, Resp
<1>3. /\ tx_msgbuf'[s].pkts \in Nat /\ num_rx'[s] \in Nat /\ s_cur_req_num'[s] \in Nat
      /\ cur_req_num'[s] \in Nat /\ sav_num_req_pkts'[s] \in Nat /\ req_pkts'[s] \in Nat
  BY DEF TypeOK, Msg
<1>4. n = s_cur_req_num'[s]
  BY <1>3 DEF PairSlotInv
<1>5. /\ SrvDone(s)' /\ resp_pkts'[s] = s_tx_msgbuf'[s].pkts
      /\ tx_msgbuf'[s].pkts = SrvReqPkts(s)'
  BY <1>3, <1>4 DEF PairSlotInv
<1>6. tx_msgbuf'[s].pkts = sav_num_req_pkts'[s]
  BY <1>3, <1>5 DEF SrvDone, SrvReqPkts
<1> HIDE DEF p
<1>7. RfrPktInv(p)'
  BY <1>1, <1>3, <1>4, <1>5, <1>6 DEF RfrPktInv
<1>8. PktInv(p)'
  BY <1>1, <1>2, <1>7 DEF PktInv
<1> QED
  BY <1>8 DEF p

\* The types of an sslot's fields, and of the stall queue.
LEMMA SlotTypes ==
  ASSUME TypeOK, NEW s \in Sslots
  PROVE  /\ tx_msgbuf[s] \in Msg /\ tx_msgbuf[s].pkts \in Nat /\ wheel[s] \subseteq Nat
         /\ cur_req_num[s] \in Nat /\ num_tx[s] \in Nat /\ num_rx[s] \in Nat
         /\ resp_pkts[s] \in Nat /\ resp_data[s] \in RespBuf
         /\ s_tx_msgbuf[s] \in Msg /\ s_tx_msgbuf[s].pkts \in Nat
         /\ s_cur_req_num[s] \in Nat /\ s_num_rx[s] \in Nat /\ req_pkts[s] \in Nat
         /\ req_data[s] \in ReqBuf /\ req_type[s] \in BOOLEAN
         /\ sav_num_req_pkts[s] \in Nat /\ serving[s] \in 0..NumRpcs
BY DEF TypeOK, Msg

\* The elements of the stall queue are sslots.
LEMMA StallqTypes ==
  ASSUME stallq \in Seq(Sslots)
  PROVE  Len(stallq) \in Nat /\ \A i \in 1..Len(stallq) : stallq[i] \in Sslots
OBVIOUS

\* An RFR is a packet.
LEMMA RfrPktType ==
  ASSUME NEW s \in Sslots, NEW n \in Nat, NEW k \in Nat
  PROVE  RfrPkt(s, n, k) \in Packet
BY DEF RfrPkt, Packet, NoData, Chunk

\* The stall queue keeps its invariant when only an unstalled sslot changes.
LEMMA StallqKept ==
  ASSUME IInv, NEW s \in Sslots, stallq' = stallq,
         \A i \in 1..Len(stallq) : stallq[i] # s,
         \A t \in Sslots \ {s} : tx_msgbuf'[t] = tx_msgbuf[t] /\ num_tx'[t] = num_tx[t]
  PROVE  StallqInv'
<1>1. StallqInv /\ \A i \in 1..Len(stallq) : stallq[i] \in Sslots
  BY StallqTypes DEF IInv, TypeOK
<1> QED
  BY <1>1 DEF StallqInv, Active

\* Starting a request m on the inactive sslot s, with cr credits.
LEMMA StartRequest ==
  ASSUME IInv, UNCHANGED serverVars, NEW s \in Sslots, NEW m \in Msg, NEW cr \in Nat,
         NEW rcvd, m.pkts > 0, start_request(s, m, cr, rcvd),
         cr = credits + (num_tx[s] - num_rx[s]),
         cur_req_num[s] = s_cur_req_num[s], SrvFresh(s) \/ SrvDone(s),
         wheel[s] = {}, \A i \in 1..Len(stallq) : stallq[i] # s,
         s \notin sslot_free', sslot_free' \in SUBSET Sslots,
         \A t \in Sslots \ {s} : t \in sslot_free' <=> t \in sslot_free,
         backlog' \in Seq(Msg), BacklogInv', issued' \in 0..NumRpcs
  PROVE  IInv'
<1>0. TypeOK /\ StallqInv /\ ClientInv
  BY DEF IInv
<1>n. PICK n \in Nat : n = cur_req_num[s] + 1 /\ n > 0
  BY <1>0, SlotTypes
<1>1. /\ tx_msgbuf' = [tx_msgbuf EXCEPT ![s] = m]
      /\ cur_req_num' = [cur_req_num EXCEPT ![s] = n]
      /\ num_rx' = [num_rx EXCEPT ![s] = 0]
      /\ resp_pkts' = [resp_pkts EXCEPT ![s] = 0]
      /\ resp_data' = [resp_data EXCEPT
                          ![s] = [i \in 0..(MaxRespPkts - 1) |-> NoData]]
  BY <1>n DEF start_request
<1>2. /\ tx_msgbuf' \in [Sslots -> Msg] /\ cur_req_num' \in [Sslots -> Nat]
      /\ num_rx' \in [Sslots -> Nat] /\ resp_pkts' \in [Sslots -> Nat]
      /\ resp_data' \in [Sslots -> RespBuf]
  <2>1. [i \in 0..(MaxRespPkts - 1) |-> NoData] \in RespBuf
    BY DEF NoData, Chunk, RespBuf
  <2>2. resp_data' \in [Sslots -> RespBuf]
    BY <1>0, <1>1, <2>1 DEF TypeOK
  <2> QED
    BY <1>0, <1>1, <2>2 DEF TypeOK
<1>3. /\ tx_msgbuf'[s] = m /\ cur_req_num'[s] = n /\ num_rx'[s] = 0
      /\ Active(s)'
      /\ \A t \in Sslots \ {s} :
            /\ tx_msgbuf'[t] = tx_msgbuf[t] /\ cur_req_num'[t] = cur_req_num[t]
            /\ num_rx'[t] = num_rx[t] /\ resp_pkts'[t] = resp_pkts[t]
  <2>1. /\ tx_msgbuf \in [Sslots -> Msg] /\ cur_req_num \in [Sslots -> Nat]
        /\ num_rx \in [Sslots -> Nat] /\ resp_pkts \in [Sslots -> Nat]
    BY <1>0 DEF TypeOK
  <2>2. tx_msgbuf'[s] = m /\ cur_req_num'[s] = n /\ num_rx'[s] = 0
    BY <1>1, <2>1
  <2>3. m # NoMsg
    BY DEF NoMsg
  <2>4. Active(s)'
    BY <2>2, <2>3 DEF Active
  <2>5. \A t \in Sslots \ {s} :
            /\ tx_msgbuf'[t] = tx_msgbuf[t] /\ cur_req_num'[t] = cur_req_num[t]
            /\ num_rx'[t] = num_rx[t] /\ resp_pkts'[t] = resp_pkts[t]
    BY <1>1, <2>1
  <2> QED
    BY <2>2, <2>4, <2>5
<1>4. PairSlotInv(s)'
  <2>1. s_cur_req_num'[s] = s_cur_req_num[s] /\ (SrvFresh(s) \/ SrvDone(s))'
    BY DEF serverVars, SrvFresh, SrvDone
  <2>2. cur_req_num'[s] = s_cur_req_num'[s] + 1 /\ s_cur_req_num'[s] \in Nat
    BY <1>0, <1>3, <1>n, <2>1, SlotTypes
  <2> QED
    BY <1>3, <2>1, <2>2 DEF PairSlotInv
<1>5. \A p \in net \cup tx_queue \cup s_tx_queue : p.sslot = s => PktInv(p)'
  <2> SUFFICES ASSUME NEW p \in net \cup tx_queue \cup s_tx_queue, p.sslot = s
               PROVE  PktInv(p)'
    OBVIOUS
  <2>1. PktInv(p) /\ p.req_num \in Nat /\ cur_req_num[s] \in Nat /\ s_cur_req_num[s] \in Nat
    BY PacketFields, <1>0 DEF IInv, NetInv, TypeOK
  <2>2. p.type \in {Req, RFR, ExplCR, Resp}
    BY PacketFields, <1>0
  <2>3. p.req_num <= cur_req_num[s]
    BY <2>1, <2>2 DEF PktInv, ReqPktInv, RfrPktInv, CrPktInv, RespPktInv
  <2>4. p.req_num # cur_req_num'[s] /\ p.req_num <= cur_req_num'[s]
        /\ cur_req_num'[s] # s_cur_req_num[s]
    BY <2>1, <2>3, <1>3, <1>n
  <2> QED
    BY <2>1, <2>4 DEF PktInv, ReqPktInv, RfrPktInv, CrPktInv, RespPktInv,
       serverVars, SrvDone, SrvReqPkts
<1>6. CASE cr > 0 /\ kick_req(s, n, m, 0, cr, FALSE, rcvd) /\ UNCHANGED stallq
  <2>1. m.pkts \in Nat /\ 0 \in Nat /\ 0 <= m.pkts
    BY DEF Msg
  <2>2. PICK k \in Nat : KickedReq(s, n, m, 0, cr, k)
    BY <1>6, <2>1, KickReq
  <2> DEFINE New == {ReqPkt(s, n, m, i) : i \in 0..(0 + k - 1)}
  <2>3. /\ num_tx'[s] = k /\ k > 0 /\ num_tx' \in [Sslots -> Nat] /\ credits' \in Nat
        /\ wheel' \in [Sslots -> SUBSET Nat]
        /\ \A e \in wheel'[s] : 0 <= e /\ e < k /\ e < m.pkts
        /\ \A t \in Sslots \ {s} : num_tx'[t] = num_tx[t] /\ wheel'[t] = wheel[t]
        /\ ~Pacing => wheel'[s] = {}
    <3>1. num_tx \in [Sslots -> Nat] /\ wheel \in [Sslots -> SUBSET Nat]
      BY <1>0 DEF TypeOK
    <3>2. /\ num_tx'[s] = k /\ k > 0 /\ num_tx' \in [Sslots -> Nat] /\ credits' \in Nat
          /\ \A t \in Sslots \ {s} : num_tx'[t] = num_tx[t]
      BY <1>6, <2>1, <2>2, <3>1 DEF KickedReq
    <3>3. CASE wheel' = wheel
      BY <3>1, <3>2, <3>3
    <3>4. CASE Pacing /\ wheel' = [wheel EXCEPT ![s] = @ \cup 0..(0 + k - 1)]
      <4>1. k <= m.pkts
        BY <2>1, <2>2 DEF KickedReq
      <4>2. \A e \in 0..(0 + k - 1) : e \in Nat /\ 0 <= e /\ e < k /\ e < m.pkts
        BY <2>1, <4>1
      <4> QED
        BY <3>1, <3>2, <3>4, <4>2
    <3> QED
      BY <2>2, <3>2, <3>3, <3>4 DEF KickedReq
  <2>4. \A q \in New : q \in Packet /\ PktInv(q)'
    <3> SUFFICES ASSUME NEW i \in 0..(0 + k - 1)
                 PROVE  ReqPkt(s, n, m, i) \in Packet /\ PktInv(ReqPkt(s, n, m, i))'
      OBVIOUS
    <3>1. i \in Nat /\ i < num_tx'[s] /\ i < m.pkts
      BY <2>1, <2>2, <2>3 DEF KickedReq
    <3> QED
      BY <1>n, <1>3, <1>4, <3>1, NewReqPkt
  <2>5. TypeOK'
    BY <1>0, <1>2, <1>6, <2>2, <2>3, <2>4, ClientTypes DEF TypeOK, KickedReq
  <2>6. CliInv(s)'
    BY <1>2, <1>3, <2>1, <2>2, <2>3 DEF CliInv, KickedReq
  <2>7. StallqInv'
    BY <1>3, <1>6, <2>3, StallqKept
  <2>8. credits' + (num_tx'[s] - num_rx'[s]) = credits + (num_tx[s] - num_rx[s])
    <3>1. credits' = cr - k /\ num_tx'[s] = k /\ num_rx'[s] = 0
      BY <1>3, <2>2, <2>3 DEF KickedReq
    <3> QED
      BY <3>1
  <2>9. ClientFrame(s)
    BY <1>3, <1>6, <2>3 DEF ClientFrame
  <2>10. ClientSent(New) /\ PacketsValid(s, New)
    BY <1>5, <2>2, <2>4 DEF KickedReq, PacketsValid
  <2> HIDE DEF New
  <2> QED
    BY <1>4, <2>5, <2>6, <2>7, <2>8, <2>9, <2>10, ClientStep
<1>7. CASE /\ cr = 0 /\ num_tx' = [num_tx EXCEPT ![s] = 0]
           /\ stallq' = Append(stallq, s) /\ credits' = cr /\ wheel' = wheel
           /\ ClientTx({}, {}, FALSE, rcvd)
  <2>1. ClientSent({})
    BY <1>7, ClientTxNone
  <2>2. /\ num_tx'[s] = 0 /\ num_tx' \in [Sslots -> Nat]
        /\ \A t \in Sslots \ {s} : num_tx'[t] = num_tx[t] /\ wheel'[t] = wheel[t]
    BY <1>0, <1>7 DEF TypeOK
  <2>3. /\ stallq' \in Seq(Sslots) /\ Len(stallq') = Len(stallq) + 1
        /\ stallq'[Len(stallq) + 1] = s /\ Len(stallq) \in Nat
        /\ \A i \in 1..Len(stallq) : stallq'[i] = stallq[i] /\ stallq[i] \in Sslots
    BY <1>0, <1>7 DEF TypeOK
  <2>4. TypeOK'
    BY <1>0, <1>2, <1>7, <2>1, <2>2, <2>3, ClientTypes DEF TypeOK
  <2>5. CliInv(s)'
    BY <1>2, <1>3, <1>7, <2>2, <2>3 DEF CliInv, Msg
  <2>6. StallqInv'
    <3> SUFFICES ASSUME NEW i \in 1..Len(stallq')
                 PROVE  /\ tx_msgbuf'[stallq'[i]] # NoMsg /\ num_tx'[stallq'[i]] = 0
                        /\ \A j \in 1..Len(stallq') : i # j => stallq'[i] # stallq'[j]
      BY DEF StallqInv, Active
    <3>1. i \in 1..Len(stallq) \/ i = Len(stallq) + 1
      BY <2>3
    <3>2. \A j \in 1..Len(stallq') : j \in 1..Len(stallq) \/ j = Len(stallq) + 1
      BY <2>3
    <3>3. CASE i = Len(stallq) + 1
      <4>1. stallq'[i] = s /\ \A j \in 1..Len(stallq) : stallq'[j] # s
        BY <2>3, <3>3
      <4>2. tx_msgbuf'[s] # NoMsg /\ num_tx'[s] = 0
        BY <1>3, <2>2 DEF Active
      <4> QED
        BY <3>2, <3>3, <4>1, <4>2
    <3>4. CASE i \in 1..Len(stallq)
      <4>1. stallq'[i] = stallq[i] /\ stallq[i] \in Sslots \ {s}
        BY <2>3, <3>4
      <4>2. tx_msgbuf'[stallq'[i]] # NoMsg /\ num_tx'[stallq'[i]] = 0
        BY <1>0, <1>3, <2>2, <3>4, <4>1 DEF StallqInv, Active
      <4>3. \A j \in 1..Len(stallq) : i # j => stallq[i] # stallq[j]
        BY <1>0, <3>4 DEF StallqInv
      <4> QED
        BY <2>3, <3>2, <4>1, <4>2, <4>3
    <3> QED
      BY <3>1, <3>3, <3>4
  <2>7. credits' + (num_tx'[s] - num_rx'[s]) = credits + (num_tx[s] - num_rx[s])
    BY <1>0, <1>3, <1>7, <2>2 DEF TypeOK
  <2>8. \A t \in Sslots : (\E i \in 1..Len(stallq) : stallq[i] = t) =>
                  \E i \in 1..Len(stallq') : stallq'[i] = t
    BY <2>3
  <2>9. ClientFrame(s)
    BY <1>3, <2>2, <2>8 DEF ClientFrame
  <2>10. PacketsValid(s, {})
    BY <1>5 DEF PacketsValid
  <2> QED
    BY <1>4, <2>1, <2>4, <2>5, <2>6, <2>7, <2>9, <2>10, ClientStep
<1> QED
  BY <1>6, <1>7, <1>n DEF start_request

\* enqueue_request keeps the invariant: the free sslot is idle at both ends.
LEMMA EnqueueRequestStep ==
  ASSUME IInv, NEW s \in Sslots, NEW pkts \in 1..MaxReqPkts, EnqueueRequest(s, pkts)
  PROVE  IInv'
<1>0. TypeOK /\ StallqInv /\ BacklogInv /\ CliInv(s) /\ PairSlotInv(s)
  BY DEF IInv, ClientInv, PairInv
<1>m. PICK m \in Msg : m = [rpc |-> issued + 1, pkts |-> pkts]
  <2>1. issued + 1 \in 0..NumRpcs /\ pkts \in Nat
    BY <1>0 DEF TypeOK, EnqueueRequest
  <2>2. [rpc |-> issued + 1, pkts |-> pkts] \in Msg
    BY <2>1 DEF Msg
  <2> QED
    BY <2>2
<1>c. PICK cr \in Nat : cr = credits
  BY <1>0 DEF TypeOK
<1>1. /\ start_request(s, m, cr, {}) /\ s \in sslot_free /\ issued' \in 0..NumRpcs
      /\ sslot_free' = sslot_free \ {s} /\ backlog' = backlog /\ UNCHANGED serverVars
  BY <1>0, <1>m, <1>c DEF EnqueueRequest, TypeOK
<1>2. ~Active(s) /\ num_tx[s] = num_rx[s] /\ wheel[s] = {}
  <2>1. ~Active(s) /\ num_tx[s] = num_rx[s]
    BY <1>0, <1>1 DEF CliInv
  <2>2. wheel[s] \subseteq Nat /\ \A e \in wheel[s] : num_rx[s] <= e /\ e < num_tx[s]
    BY <1>0, SlotTypes DEF CliInv
  <2> QED
    BY <1>0, <2>1, <2>2, SlotTypes
<1>3. cur_req_num[s] = s_cur_req_num[s] /\ (SrvFresh(s) \/ SrvDone(s))
  BY <1>0, <1>2, SlotTypes DEF PairSlotInv
<1>4. \A i \in 1..Len(stallq) : stallq[i] # s
  BY <1>0, <1>2 DEF StallqInv
<1>5. backlog' \in Seq(Msg) /\ BacklogInv' /\ sslot_free' \in SUBSET Sslots
  BY <1>0, <1>1 DEF TypeOK, BacklogInv
<1>6. cr = credits + (num_tx[s] - num_rx[s]) /\ m.pkts > 0
  BY <1>0, <1>2, <1>c, <1>m, SlotTypes DEF TypeOK
<1> QED
  BY <1>1, <1>2, <1>3, <1>4, <1>5, <1>6, StartRequest

\* A step of the active sslot s that keeps its request: what it leaves alone,
\* and what it may do to the window.
ActiveStep(s) ==
    /\ UNCHANGED serverVars
    /\ UNCHANGED <<sslot_free, backlog, tx_msgbuf, cur_req_num, issued>>
    /\ stallq' \in Seq(Sslots)
    /\ StallqInv'
    /\ \A t \in Sslots \ {s} :
          (\E i \in 1..Len(stallq) : stallq[i] = t) =>
              \E i \in 1..Len(stallq') : stallq'[i] = t
    /\ num_rx' \in [Sslots -> Nat]
    /\ resp_pkts' \in [Sslots -> Nat]
    /\ resp_data' \in [Sslots -> RespBuf]
    /\ \A t \in Sslots \ {s} : num_rx'[t] = num_rx[t] /\ resp_pkts'[t] = resp_pkts[t]
    /\ Active(s)
    /\ \A e \in wheel[s] : num_rx'[s] <= e

\* num_rx moves only to where the server is.
Acked(s) ==
    /\ num_rx[s] <= num_rx'[s]
    /\ cur_req_num[s] = s_cur_req_num[s] + 1 => num_rx'[s] = 0
    /\ cur_req_num[s] = s_cur_req_num[s] => num_rx'[s] <= s_num_rx[s]

\* An active sslot has a request number.
LEMMA ActiveReqNum ==
  ASSUME IInv, NEW s \in Sslots, Active(s)
  PROVE  cur_req_num[s] > 0
<1>1. PairSlotInv(s) /\ TypeOK
  BY DEF IInv, PairInv
<1> QED
  BY <1>1, SlotTypes DEF PairSlotInv

\* A step of an sslot that stays active, as ActiveStep describes it, keeps the
\* invariant if the credits follow the outstanding packets.
LEMMA ActiveStepInv ==
  ASSUME IInv, NEW s \in Sslots, NEW New, ActiveStep(s),
         New \subseteq Packet, ClientSent(New), \A p \in New : PktInv(p)',
         num_tx' \in [Sslots -> Nat], wheel' \in [Sslots -> SUBSET Nat], credits' \in Nat,
         \A t \in Sslots \ {s} : num_tx'[t] = num_tx[t] /\ wheel'[t] = wheel[t],
         num_tx'[s] >= num_tx[s], CliInv(s)', PairSlotInv(s)',
         credits' + (num_tx'[s] - num_rx'[s]) = credits + (num_tx[s] - num_rx[s])
  PROVE  IInv'
<1>1. TypeOK
  BY DEF IInv
<1>2. /\ UNCHANGED serverVars /\ stallq' \in Seq(Sslots) /\ num_rx' \in [Sslots -> Nat]
      /\ resp_pkts' \in [Sslots -> Nat] /\ resp_data' \in [Sslots -> RespBuf]
      /\ UNCHANGED <<sslot_free, backlog, tx_msgbuf, cur_req_num, issued>>
      /\ StallqInv'
  BY DEF ActiveStep
<1>3. TypeOK'
  <2>1. /\ sslot_free' \in SUBSET Sslots /\ backlog' \in Seq(Msg)
        /\ tx_msgbuf' \in [Sslots -> Msg] /\ cur_req_num' \in [Sslots -> Nat]
        /\ issued' \in 0..NumRpcs
    BY <1>1, <1>2 DEF TypeOK
  <2> QED
    BY <1>1, <1>2, <2>1, ClientTypes
<1>4. ClientFrame(s)
  BY <1>2 DEF ActiveStep, ClientFrame
<1>5. BacklogInv'
  BY <1>2 DEF IInv, BacklogInv
<1>6. num_tx'[s] \in Nat
  OBVIOUS
<1>7. PacketsValid(s, New)
  BY <1>2, <1>6, PktInvKept DEF PacketsValid
<1> QED
  BY <1>2, <1>3, <1>4, <1>5, <1>7, ClientStep

\* Such a step that ends by sending request packets from number tx on.
LEMMA KickReqStep ==
  ASSUME IInv, NEW s \in Sslots, ActiveStep(s), Acked(s),
         NEW n \in Nat, NEW m \in Msg, NEW tx \in Nat, NEW cr \in Nat, NEW k \in Nat,
         n = cur_req_num[s], m = tx_msgbuf[s], KickedReq(s, n, m, tx, cr, k),
         num_rx'[s] <= tx, tx < m.pkts, cr > 0, tx + k >= num_tx[s],
         cr + (tx - num_rx'[s]) = credits + (num_tx[s] - num_rx[s])
  PROVE  IInv'
<1> DEFINE New == {ReqPkt(s, n, m, i) : i \in tx..(tx + k - 1)}
<1>0. TypeOK /\ CliInv(s) /\ PairSlotInv(s) /\ Active(s) /\ n > 0
  BY ActiveReqNum DEF IInv, ClientInv, PairInv, ActiveStep
<1>1. /\ k > 0 /\ k <= cr /\ tx + k <= m.pkts /\ m.pkts \in Nat
      /\ num_tx' = [num_tx EXCEPT ![s] = tx + k] /\ credits' = cr - k
      /\ ClientSent(New)
  BY DEF KickedReq, Msg
<1>2. /\ num_rx'[s] \in Nat /\ num_rx'[s] < m.pkts /\ m.pkts > 0
      /\ tx_msgbuf'[s] = m /\ cur_req_num'[s] = n /\ Active(s)'
      /\ s \in sslot_free' <=> s \in sslot_free
  BY <1>0, <1>1 DEF ActiveStep, Active
<1>3. /\ num_tx' \in [Sslots -> Nat] /\ credits' \in Nat /\ num_tx'[s] = tx + k
      /\ \A t \in Sslots \ {s} : num_tx'[t] = num_tx[t]
  <2>1. num_tx \in [Sslots -> Nat]
    BY <1>0 DEF TypeOK
  <2>2. tx + k \in Nat
    OBVIOUS
  <2>3. credits' \in Nat
    BY <1>1
  <2> QED
    BY <1>1, <2>1, <2>2, <2>3, CounterUpdate
<1>4. /\ wheel' \in [Sslots -> SUBSET Nat]
      /\ \A t \in Sslots \ {s} : wheel'[t] = wheel[t]
      /\ \A e \in wheel'[s] : num_rx'[s] <= e /\ e < num_tx'[s] /\ e < m.pkts
      /\ ~Pacing => wheel'[s] = {}
  <2>1. wheel \in [Sslots -> SUBSET Nat] /\ num_tx[s] \in Nat
    BY <1>0 DEF TypeOK
  <2>2. \A e \in wheel[s] : e \in Nat /\ num_rx'[s] <= e /\ e < num_tx'[s] /\ e < m.pkts
    <3>1. \A e \in wheel[s] : e \in Nat /\ num_rx'[s] <= e
      BY <2>1 DEF ActiveStep
    <3>2. \A e \in wheel[s] : e < num_tx[s] /\ e < m.pkts
      BY <1>0 DEF CliInv
    <3>3. num_tx[s] <= num_tx'[s] /\ num_tx'[s] \in Nat
      BY <1>3
    <3> QED
      BY <2>1, <3>1, <3>2, <3>3
  <2>3. CASE wheel' = wheel
    BY <1>0, <2>1, <2>2, <2>3 DEF CliInv
  <2>4. CASE Pacing /\ wheel' = [wheel EXCEPT ![s] = @ \cup tx..(tx + k - 1)]
    <3>1. wheel'[s] = wheel[s] \cup tx..(tx + k - 1)
      BY <2>1, <2>4
    <3>2. \A e \in tx..(tx + k - 1) : e \in Nat /\ num_rx'[s] <= e /\ e < num_tx'[s] /\ e < m.pkts
      BY <1>1, <1>2, <1>3
    <3> QED
      BY <2>1, <2>2, <2>4, <3>1, <3>2
  <2> QED
    BY <2>3, <2>4 DEF KickedReq
<1>5. CliInv(s)'
  <2>1. num_rx'[s] < num_tx'[s] /\ num_tx'[s] <= m.pkts
    BY <1>1, <1>2, <1>3
  <2>2. s \notin sslot_free'
    BY <1>0, <1>2 DEF CliInv
  <2>3. /\ num_rx'[s] <= num_tx'[s] /\ num_tx'[s] # num_rx'[s]
        /\ ~(num_rx'[s] >= tx_msgbuf'[s].pkts) /\ tx_msgbuf'[s].pkts > 0
        /\ num_tx'[s] <= tx_msgbuf'[s].pkts
    BY <1>1, <1>2, <1>3, <2>1
  <2>4. /\ \A e \in wheel'[s] : num_rx'[s] <= e /\ e < num_tx'[s] /\ e < tx_msgbuf'[s].pkts
        /\ ~Pacing => wheel'[s] = {}
    BY <1>2, <1>4
  <2> QED
    BY <1>2, <2>2, <2>3, <2>4, Zenon DEF CliInv
<1>6. PairSlotInv(s)'
  <2>1. /\ UNCHANGED <<s_cur_req_num, s_num_rx>> /\ SrvFresh(s)' = SrvFresh(s)
        /\ SrvDone(s)' = SrvDone(s) /\ SrvReqPkts(s)' = SrvReqPkts(s)
    BY DEF ActiveStep, serverVars, SrvFresh, SrvDone, SrvReqPkts
  <2>2. s_num_rx[s] \in Nat /\ num_tx[s] \in Nat
    BY <1>0, SlotTypes
  <2> QED
    BY <1>0, <1>1, <1>2, <1>3, <2>1, <2>2 DEF PairSlotInv, Acked
<1>7. \A q \in New : q \in Packet /\ PktInv(q)'
  <2> SUFFICES ASSUME NEW i \in tx..(tx + k - 1)
               PROVE  ReqPkt(s, n, m, i) \in Packet /\ PktInv(ReqPkt(s, n, m, i))'
    OBVIOUS
  <2>1. i \in Nat /\ i < num_tx'[s] /\ i < m.pkts
    BY <1>1, <1>3
  <2> QED
    BY <1>0, <1>2, <1>6, <2>1, NewReqPkt
<1>8. credits' + (num_tx'[s] - num_rx'[s]) = credits + (num_tx[s] - num_rx[s])
  <2>1. credits \in Nat /\ num_tx[s] \in Nat /\ num_rx[s] \in Nat
    BY <1>0 DEF TypeOK
  <2> QED
    BY <1>1, <1>2, <1>3, <2>1
<1> HIDE DEF New
<1>9. New \subseteq Packet /\ \A p \in New : PktInv(p)'
  BY <1>7
<1> QED
  BY <1>1, <1>3, <1>4, <1>5, <1>6, <1>8, <1>9, ActiveStepInv

\* Such a step that ends by sending RFRs from number tx on.
LEMMA KickRfrStep ==
  ASSUME IInv, NEW s \in Sslots, ActiveStep(s), PairSlotInv(s)',
         NEW n \in Nat, NEW wire \in Nat, NEW tx \in Nat, NEW cr \in Nat, NEW k \in Nat,
         n = cur_req_num[s], wire = wire_pkts(tx_msgbuf[s].pkts, resp_pkts'[s]),
         resp_pkts'[s] > 1, KickedRfr(s, n, wire, tx, cr, k),
         num_rx'[s] <= tx, num_rx'[s] >= tx_msgbuf[s].pkts, tx <= wire, num_rx'[s] < wire,
         cr > 0, tx + k >= num_tx[s],
         cr + (tx - num_rx'[s]) = credits + (num_tx[s] - num_rx[s])
  PROVE  IInv'
<1> DEFINE New == {RfrPkt(s, n, i) : i \in tx..(tx + k - 1)}
<1>0. TypeOK /\ CliInv(s) /\ Active(s) /\ n > 0
  BY ActiveReqNum DEF IInv, ClientInv, ActiveStep
<1>1. /\ k <= cr /\ tx + k <= wire /\ (k = cr \/ tx + k = wire)
      /\ num_tx' = [num_tx EXCEPT ![s] = tx + k] /\ credits' = cr - k
      /\ wheel' = wheel /\ ClientSent(New)
  BY DEF KickedRfr
<1>2. /\ num_rx'[s] \in Nat /\ tx_msgbuf'[s] = tx_msgbuf[s] /\ tx_msgbuf[s].pkts \in Nat
      /\ tx_msgbuf[s].pkts > 0 /\ cur_req_num'[s] = n /\ Active(s)'
      /\ s \in sslot_free' <=> s \in sslot_free
  BY <1>0, SlotTypes DEF ActiveStep, Active, CliInv
<1>3. /\ num_tx' \in [Sslots -> Nat] /\ credits' \in Nat /\ num_tx'[s] = tx + k
      /\ \A t \in Sslots \ {s} : num_tx'[t] = num_tx[t]
  <2>1. num_tx \in [Sslots -> Nat]
    BY <1>0 DEF TypeOK
  <2>2. tx + k \in Nat
    OBVIOUS
  <2>3. credits' \in Nat
    BY <1>1
  <2> QED
    BY <1>1, <2>1, <2>2, <2>3, CounterUpdate
<1>4. /\ wheel' \in [Sslots -> SUBSET Nat]
      /\ \A t \in Sslots \ {s} : wheel'[t] = wheel[t]
      /\ \A e \in wheel'[s] : num_rx'[s] <= e /\ e < num_tx'[s] /\ e < tx_msgbuf[s].pkts
      /\ ~Pacing => wheel'[s] = {}
  <2>1. wheel \in [Sslots -> SUBSET Nat] /\ num_tx[s] \in Nat
    BY <1>0 DEF TypeOK
  <2> QED
    <3>1. \A e \in wheel[s] : e \in Nat /\ num_rx'[s] <= e
      BY <2>1 DEF ActiveStep
    <3>2. /\ \A e \in wheel[s] : e < num_tx[s] /\ e < tx_msgbuf[s].pkts
          /\ ~Pacing => wheel[s] = {}
      BY <1>0 DEF CliInv
    <3>3. num_tx[s] <= num_tx'[s] /\ num_tx'[s] \in Nat
      BY <1>3
    <3>4. \A e \in wheel[s] : e < num_tx'[s]
      BY <2>1, <3>1, <3>2, <3>3
    <3> QED
      BY <1>1, <2>1, <3>1, <3>2, <3>4
<1>5. CliInv(s)'
  BY <1>0, <1>1, <1>2, <1>3, <1>4 DEF CliInv
<1>6. TypeOK'
  <2>1. New \subseteq Packet
    <3>1. \A i \in tx..(tx + k - 1) : i \in Nat
      OBVIOUS
    <3> QED
      BY <3>1, RfrPktType
  <2>2. /\ sslot_free' \in SUBSET Sslots /\ backlog' \in Seq(Msg)
        /\ tx_msgbuf' \in [Sslots -> Msg] /\ cur_req_num' \in [Sslots -> Nat]
        /\ issued' \in 0..NumRpcs /\ stallq' \in Seq(Sslots) /\ num_rx' \in [Sslots -> Nat]
        /\ resp_pkts' \in [Sslots -> Nat] /\ resp_data' \in [Sslots -> RespBuf]
        /\ UNCHANGED serverVars
    BY <1>0 DEF TypeOK, ActiveStep
  <2> QED
    BY <1>0, <1>1, <1>3, <1>4, <2>1, <2>2, ClientTypes
<1>7. \A q \in New : q \in Packet /\ PktInv(q)'
  <2> SUFFICES ASSUME NEW i \in tx..(tx + k - 1)
               PROVE  RfrPkt(s, n, i) \in Packet /\ PktInv(RfrPkt(s, n, i))'
    OBVIOUS
  <2>1. i \in Nat /\ i < num_tx'[s] /\ i < wire /\ i >= num_rx'[s]
    BY <1>1, <1>2, <1>3
  <2> QED
    BY <1>0, <1>2, <1>6, <2>1, NewRfrPkt, RfrPktType
<1>8. credits' + (num_tx'[s] - num_rx'[s]) = credits + (num_tx[s] - num_rx[s])
  <2>1. credits \in Nat /\ num_tx[s] \in Nat /\ num_rx[s] \in Nat
    BY <1>0 DEF TypeOK
  <2> QED
    BY <1>1, <1>2, <1>3, <2>1
<1> HIDE DEF New
<1>9. New \subseteq Packet /\ \A p \in New : PktInv(p)'
  BY <1>7
<1>10. num_tx'[s] >= num_tx[s]
  BY <1>3
<1> QED
  BY <1>1, <1>3, <1>4, <1>5, <1>8, <1>9, <1>10, ActiveStepInv

\* Such a step that sends nothing.
LEMMA NoKickStep ==
  ASSUME IInv, NEW s \in Sslots, ActiveStep(s), ClientSent({}),
         UNCHANGED <<num_tx, wheel>>, credits' \in Nat, CliInv(s)', PairSlotInv(s)',
         credits' - num_rx'[s] = credits - num_rx[s]
  PROVE  IInv'
<1>0. TypeOK /\ CliInv(s)
  BY DEF IInv, ClientInv
<1>1. /\ num_tx' \in [Sslots -> Nat] /\ wheel' \in [Sslots -> SUBSET Nat]
      /\ num_tx'[s] >= num_tx[s]
      /\ \A t \in Sslots \ {s} : num_tx'[t] = num_tx[t] /\ wheel'[t] = wheel[t]
  BY <1>0 DEF TypeOK
<1>2. credits' + (num_tx'[s] - num_rx'[s]) = credits + (num_tx[s] - num_rx[s])
  <2>1. credits \in Nat /\ num_tx[s] \in Nat /\ num_rx[s] \in Nat /\ num_rx'[s] \in Nat
    BY <1>0 DEF TypeOK, ActiveStep
  <2> QED
    BY <2>1
<1> QED
  BY <1>1, <1>2, ActiveStepInv

\* An sslot with packets outstanding is not stalled.
LEMMA NotStalled ==
  ASSUME IInv, NEW s \in Sslots, num_tx[s] # num_rx[s]
  PROVE  \A i \in 1..Len(stallq) : stallq[i] # s
<1>1. TypeOK /\ CliInv(s) /\ StallqInv
  BY DEF IInv, ClientInv
<1>2. num_tx[s] # 0
  BY <1>1, SlotTypes DEF CliInv
<1> QED
  BY <1>1, <1>2 DEF StallqInv

\* process_credit_stall_queue_st keeps the invariant.
LEMMA ProcessCreditStallQueueStep ==
  ASSUME IInv, ProcessCreditStallQueue
  PROVE  IInv'
<1>0. TypeOK /\ StallqInv
  BY DEF IInv
<1>1. PICK s \in Sslots : s = Head(stallq) /\ s = stallq[1] /\ 1 \in 1..Len(stallq)
  BY <1>0, HeadTail DEF ProcessCreditStallQueue, TypeOK
<1>2. Active(s) /\ num_tx[s] = 0 /\ CliInv(s) /\ PairSlotInv(s)
  BY <1>0, <1>1 DEF StallqInv, IInv, ClientInv, PairInv
<1>n. PICK n \in Nat : n = cur_req_num[s]
  BY <1>0, SlotTypes
<1>m. PICK m \in Msg : m = tx_msgbuf[s] /\ m.pkts \in Nat
  BY <1>0, SlotTypes
<1>c. PICK cr \in Nat : cr = credits
  BY <1>0 DEF TypeOK
<1>t. PICK tx \in Nat : tx = num_tx[s]
  BY <1>0, SlotTypes
<1>3. num_rx[s] = 0 /\ m.pkts > 0 /\ cr > 0 /\ tx = 0
  BY <1>0, <1>2, <1>m, <1>c, <1>t, SlotTypes DEF CliInv, ProcessCreditStallQueue
<1>4. kick_req(s, n, m, tx, cr, FALSE, {})
  BY <1>1, <1>2, <1>n, <1>m, <1>c, <1>t, <1>3 DEF ProcessCreditStallQueue
<1>5. PICK k \in Nat : KickedReq(s, n, m, tx, cr, k)
  <2>1. tx <= m.pkts
    BY <1>3, <1>m
  <2> QED
    BY <1>4, <1>m, <2>1, KickReq
<1>6. /\ UNCHANGED <<sslot_free, backlog, tx_msgbuf, cur_req_num, num_rx,
                     resp_pkts, resp_data, issued>>
      /\ UNCHANGED serverVars /\ stallq' = Tail(stallq)
  BY DEF ProcessCreditStallQueue
<1>7. /\ stallq' \in Seq(Sslots) /\ Len(stallq') = Len(stallq) - 1 /\ Len(stallq) \in Nat
      /\ \A i \in 1..Len(stallq') : stallq'[i] = stallq[i + 1]
  <2>1. stallq \in Seq(Sslots) /\ stallq # <<>>
    BY <1>0 DEF TypeOK, ProcessCreditStallQueue
  <2> QED
    BY <1>6, <2>1, HeadTail
<1>8. \A i \in 1..Len(stallq') :
         i + 1 \in 1..Len(stallq) /\ stallq'[i] = stallq[i + 1] /\ stallq'[i] \in Sslots \ {s}
  <2> SUFFICES ASSUME NEW i \in 1..Len(stallq')
               PROVE  /\ i + 1 \in 1..Len(stallq) /\ stallq'[i] = stallq[i + 1]
                      /\ stallq'[i] \in Sslots \ {s}
    OBVIOUS
  <2>1. i + 1 \in 1..Len(stallq) /\ stallq'[i] = stallq[i + 1] /\ i + 1 # 1
    BY <1>7
  <2>2. stallq[i + 1] \in Sslots
    BY <1>0, <2>1, StallqTypes DEF TypeOK
  <2>3. stallq[i + 1] # stallq[1]
    BY <1>0, <1>1, <2>1 DEF StallqInv
  <2> QED
    BY <1>1, <2>1, <2>2, <2>3
<1>9. StallqInv'
  <2> SUFFICES ASSUME NEW i \in 1..Len(stallq')
               PROVE  /\ tx_msgbuf'[stallq'[i]] # NoMsg /\ num_tx'[stallq'[i]] = 0
                      /\ \A j \in 1..Len(stallq') : i # j => stallq'[i] # stallq'[j]
    BY DEF StallqInv, Active
  <2>1. /\ i + 1 \in 1..Len(stallq) /\ stallq'[i] = stallq[i + 1]
        /\ stallq[i + 1] \in Sslots \ {s}
    BY <1>8
  <2>2. num_tx'[stallq[i + 1]] = num_tx[stallq[i + 1]]
    BY <1>0, <1>5, <2>1 DEF KickedReq, TypeOK
  <2>3. tx_msgbuf'[stallq'[i]] # NoMsg /\ num_tx'[stallq'[i]] = 0
    BY <1>0, <1>6, <2>1, <2>2 DEF StallqInv, Active
  <2>4. ASSUME NEW j \in 1..Len(stallq'), i # j PROVE stallq'[i] # stallq'[j]
    <3>1. j + 1 \in 1..Len(stallq) /\ stallq'[j] = stallq[j + 1]
      BY <1>8
    <3>2. i + 1 # j + 1
      BY <2>4, <1>7
    <3> QED
      BY <1>0, <2>1, <3>1, <3>2 DEF StallqInv
  <2> QED
    BY <2>3, <2>4
<1>10. \A t \in Sslots \ {s} :
          (\E i \in 1..Len(stallq) : stallq[i] = t) =>
              \E i \in 1..Len(stallq') : stallq'[i] = t
  <2> SUFFICES ASSUME NEW t \in Sslots \ {s}, NEW i \in 1..Len(stallq), stallq[i] = t
               PROVE  \E j \in 1..Len(stallq') : stallq'[j] = t
    OBVIOUS
  <2>1. i # 1
    BY <1>1
  <2>2. i - 1 \in 1..Len(stallq') /\ (i - 1) + 1 = i
    BY <1>7, <2>1
  <2>3. stallq'[i - 1] = t
    BY <1>7, <2>2
  <2> QED
    BY <2>2, <2>3
<1>11. \A e \in wheel[s] : num_rx'[s] <= e
  BY <1>2, <1>6 DEF CliInv
<1>12. ActiveStep(s)
  BY <1>0, <1>2, <1>6, <1>7, <1>9, <1>10, <1>11 DEF ActiveStep, TypeOK
<1>13. Acked(s)
  BY <1>0, <1>2, <1>6, SlotTypes DEF Acked, PairSlotInv
<1>14. /\ num_rx'[s] <= tx /\ tx < m.pkts /\ tx + k >= num_tx[s]
       /\ cr + (tx - num_rx'[s]) = credits + (num_tx[s] - num_rx[s])
  BY <1>3, <1>6, <1>t, <1>c
<1> QED
  BY <1>3, <1>5, <1>12, <1>13, <1>14, <1>n, <1>m, KickReqStep

\* process_wheel_st keeps the invariant: only request packets are in the wheel.
LEMMA ProcessWheelStep ==
  ASSUME IInv, NEW s \in Sslots, NEW k \in wheel[s], ProcessWheel(s, k)
  PROVE  IInv'
<1>0. TypeOK /\ StallqInv /\ CliInv(s) /\ PairSlotInv(s)
  BY DEF IInv, ClientInv, PairInv
<1>1. /\ k \in Nat /\ num_rx[s] <= k /\ k < num_tx[s] /\ k < tx_msgbuf[s].pkts
      /\ num_tx[s] # num_rx[s] /\ Active(s)
  BY <1>0, SlotTypes DEF CliInv
<1>n. PICK n \in Nat : n = cur_req_num[s] /\ n > 0
  BY <1>0, <1>1, SlotTypes, ActiveReqNum
<1>m. PICK m \in Msg : m = tx_msgbuf[s] /\ m.pkts \in Nat /\ m.pkts > 0
  BY <1>0, <1>1, SlotTypes DEF CliInv
<1> DEFINE New == {ReqPkt(s, n, m, k)}
<1>2. /\ wheel' = [wheel EXCEPT ![s] = @ \ {k}]
      /\ ClientTx(New, {}, FALSE, {})
      /\ UNCHANGED <<credits, sslot_free, backlog, stallq, tx_msgbuf,
                     cur_req_num, num_tx, num_rx, resp_pkts, resp_data, issued>>
      /\ UNCHANGED serverVars
  BY <1>1, <1>n, <1>m DEF ProcessWheel
<1>3. ClientSent(New)
  <2>1. \A p \in New : p.type = Req
    BY DEF ReqPkt
  <2>2. ClientSent(New \cup {})
    BY <1>2, <2>1, ClientTxSent
  <2> QED
    BY <2>2
<1>4. /\ wheel' \in [Sslots -> SUBSET Nat] /\ wheel'[s] \subseteq wheel[s]
      /\ \A t \in Sslots \ {s} : wheel'[t] = wheel[t]
  BY <1>0, <1>2 DEF TypeOK
<1>5. StallqInv'
  BY <1>0, <1>2 DEF StallqInv, Active
<1>6. ActiveStep(s)
  BY <1>0, <1>1, <1>2, <1>5 DEF ActiveStep, TypeOK, CliInv
<1>7. CliInv(s)'
  BY <1>0, <1>2, <1>4 DEF CliInv, Active
<1>8. PairSlotInv(s)'
  BY <1>0, <1>2 DEF PairSlotInv, serverVars, Active, SrvFresh, SrvAllSent, SrvDone, SrvReqPkts
<1>9. ReqPkt(s, n, m, k) \in Packet /\ PktInv(ReqPkt(s, n, m, k))'
  <2>1. tx_msgbuf'[s] = m /\ cur_req_num'[s] = n /\ k < num_tx'[s] /\ k < m.pkts
    BY <1>1, <1>2, <1>n, <1>m
  <2> QED
    BY <1>1, <1>8, <1>n, <1>m, <2>1, NewReqPkt
<1>10. New \subseteq Packet /\ \A p \in New : PktInv(p)'
  BY <1>9
<1>11. /\ num_tx' \in [Sslots -> Nat] /\ credits' \in Nat /\ num_tx'[s] >= num_tx[s]
       /\ \A t \in Sslots \ {s} : num_tx'[t] = num_tx[t]
       /\ credits' + (num_tx'[s] - num_rx'[s]) = credits + (num_tx[s] - num_rx[s])
  BY <1>0, <1>2 DEF TypeOK
<1> HIDE DEF New
<1> QED
  BY <1>3, <1>4, <1>6, <1>7, <1>8, <1>10, <1>11, ActiveStepInv

\* pkt_loss_scan_st keeps the invariant: rolling back to num_rx returns the
\* credits of the packets outstanding, and at least those are sent again.
LEMMA PktLossScanStep ==
  ASSUME IInv, NEW s \in Sslots, PktLossScan(s)
  PROVE  IInv'
<1>0. TypeOK /\ StallqInv /\ CliInv(s) /\ PairSlotInv(s)
  BY DEF IInv, ClientInv, PairInv
<1>1. /\ Active(s) /\ num_tx[s] # num_rx[s]
      /\ UNCHANGED <<sslot_free, backlog, stallq, tx_msgbuf, cur_req_num,
                     num_rx, resp_pkts, resp_data, issued>>
      /\ UNCHANGED serverVars
  BY DEF PktLossScan, Active
<1>n. PICK n \in Nat : n = cur_req_num[s]
  BY <1>0, SlotTypes
<1>m. PICK m \in Msg : m = tx_msgbuf[s] /\ m.pkts \in Nat /\ m.pkts > 0
  BY <1>0, <1>1, SlotTypes DEF CliInv
<1>t. PICK tx \in Nat : tx = num_rx[s] /\ tx < num_tx[s] /\ num_tx[s] \in Nat
  BY <1>0, <1>1, SlotTypes DEF CliInv
<1>c. PICK cr \in Nat : /\ cr = credits + (num_tx[s] - num_rx[s]) /\ cr > 0
                        /\ cr >= num_tx[s] - num_rx[s]
  <2>1. credits \in Nat /\ num_tx[s] - num_rx[s] \in Nat /\ num_tx[s] - num_rx[s] > 0
    BY <1>0, <1>t DEF TypeOK
  <2> QED
    BY <2>1
<1>2. \A i \in 1..Len(stallq) : stallq[i] # s
  BY <1>1, NotStalled
<1>3. ASSUME \A t \in Sslots \ {s} : num_tx'[t] = num_tx[t] PROVE ActiveStep(s)
  <2>1. StallqInv'
    BY <1>1, <1>2, <1>3, StallqKept
  <2> QED
    BY <1>0, <1>1, <2>1 DEF ActiveStep, TypeOK, CliInv
<1>r. num_rx'[s] = tx /\ num_rx'[s] <= tx /\ tx - num_rx'[s] = 0
  BY <1>1, <1>t
<1>4. CASE wheel[s] # {}
  <2>1. ClientTx({}, {}, TRUE, {}) /\ UNCHANGED <<credits, num_tx, wheel>>
    BY <1>4 DEF PktLossScan
  <2>2. ClientSent({})
    BY <2>1, ClientTxNone
  <2>3. ActiveStep(s)
    BY <1>3, <2>1
  <2>4. CliInv(s)'
    BY <1>0, <1>1, <2>1 DEF CliInv, Active
  <2>5. PairSlotInv(s)'
    BY <1>0, <1>1, <2>1 DEF PairSlotInv, serverVars, Active, SrvFresh, SrvDone, SrvReqPkts
  <2>6. credits' \in Nat /\ credits' - num_rx'[s] = credits - num_rx[s]
    BY <1>0, <1>1, <2>1 DEF TypeOK
  <2> QED
    BY <2>1, <2>2, <2>3, <2>4, <2>5, <2>6, NoKickStep
<1>5. CASE wheel[s] = {} /\ num_rx[s] < tx_msgbuf[s].pkts
  <2>1. kick_req(s, n, m, tx, cr, TRUE, {})
    BY <1>5, <1>n, <1>m, <1>t, <1>c DEF PktLossScan
  <2>2. tx < m.pkts /\ tx <= m.pkts
    BY <1>5, <1>m, <1>t
  <2>3. PICK k \in Nat : KickedReq(s, n, m, tx, cr, k)
    BY <1>m, <2>1, <2>2, KickReq
  <2>4. \A t \in Sslots \ {s} : num_tx'[t] = num_tx[t]
    BY <1>0, <2>3 DEF KickedReq, TypeOK
  <2>5. ActiveStep(s)
    BY <1>3, <2>4
  <2>6. Acked(s)
    BY <1>0, <1>1, SlotTypes DEF Acked, PairSlotInv
  <2>7. tx + k >= num_tx[s]
    <3>1. num_tx[s] <= m.pkts
      BY <1>0, <1>1, <1>5, <1>m DEF CliInv
    <3>2. k = cr \/ tx + k = m.pkts
      BY <2>3 DEF KickedReq
    <3> QED
      BY <1>t, <1>c, <1>m, <3>1, <3>2
  <2>8. /\ num_rx'[s] <= tx
        /\ cr + (tx - num_rx'[s]) = credits + (num_tx[s] - num_rx[s])
    BY <1>r, <1>c
  <2> QED
    BY <1>n, <1>m, <1>c, <2>2, <2>3, <2>5, <2>6, <2>7, <2>8, KickReqStep
<1>6. CASE wheel[s] = {} /\ ~(num_rx[s] < tx_msgbuf[s].pkts)
  <2>0. PICK wire \in Nat : wire = wire_pkts(tx_msgbuf[s].pkts, resp_pkts[s])
    BY <1>0, <1>m, SlotTypes DEF wire_pkts
  <2>1. kick_rfr(s, n, wire, tx, cr, TRUE, {})
    BY <1>6, <1>n, <1>t, <1>c, <2>0 DEF PktLossScan
  <2>2. /\ num_rx[s] >= tx_msgbuf[s].pkts /\ resp_pkts[s] > 1 /\ tx < wire /\ tx <= wire
        /\ num_tx[s] <= wire
    BY <1>0, <1>1, <1>6, <1>m, <1>t, <2>0 DEF CliInv
  <2>3. PICK k \in Nat : KickedRfr(s, n, wire, tx, cr, k)
    BY <2>1, <2>2, KickRfr
  <2>4. \A t \in Sslots \ {s} : num_tx'[t] = num_tx[t]
    BY <1>0, <2>3 DEF KickedRfr, TypeOK
  <2>5. ActiveStep(s)
    BY <1>3, <2>4
  <2>6. tx + k >= num_tx[s]
    BY <1>t, <1>c, <2>2, <2>3 DEF KickedRfr
  <2>7. PairSlotInv(s)'
    <3>1. num_tx'[s] = tx + k
      BY <1>0, <2>3 DEF KickedRfr, TypeOK
    <3>2. s_num_rx[s] \in Nat
      BY <1>0, SlotTypes
    <3> QED
      BY <1>0, <1>1, <1>t, <2>6, <3>1, <3>2
         DEF PairSlotInv, serverVars, Active, SrvFresh, SrvDone, SrvReqPkts
  <2>8. /\ num_rx'[s] <= tx /\ num_rx'[s] >= tx_msgbuf[s].pkts /\ num_rx'[s] < wire
        /\ resp_pkts'[s] > 1 /\ wire = wire_pkts(tx_msgbuf[s].pkts, resp_pkts'[s])
        /\ cr + (tx - num_rx'[s]) = credits + (num_tx[s] - num_rx[s])
    <3>1. resp_pkts' = resp_pkts /\ num_rx' = num_rx
      BY <1>1
    <3>2. cr + (tx - num_rx'[s]) = credits + (num_tx[s] - num_rx[s])
      BY <1>r, <1>c
    <3> QED
      BY <1>r, <1>t, <2>0, <2>2, <3>1, <3>2
  <2> QED
    BY <1>n, <1>c, <2>2, <2>3, <2>5, <2>6, <2>7, <2>8, KickRfrStep
<1> QED
  BY <1>4, <1>5, <1>6

\* What an in-order reply tells the client: the sslot is active, the server is
\* at the same request, and the packet it answers is not in the wheel.
LEMMA ReplyInOrder ==
  ASSUME IInv, NEW p \in net, p.type \in {ExplCR, Resp}, in_order_client(p),
         NEW s \in Sslots, s = p.sslot
  PROVE  /\ Active(s) /\ tx_msgbuf[s].pkts > 0
         /\ cur_req_num[s] = s_cur_req_num[s] /\ p.req_num = s_cur_req_num[s]
         /\ p.pkt_num = num_rx[s] /\ num_rx[s] < num_tx[s]
         /\ num_rx[s] + 1 <= s_num_rx[s]
         /\ tx_msgbuf[s].pkts = SrvReqPkts(s)
         /\ \A e \in wheel[s] : num_rx[s] + 1 <= e
         /\ \A i \in 1..Len(stallq) : stallq[i] # s
<1>0. TypeOK /\ CliInv(s) /\ PairSlotInv(s) /\ PktInv(p)
  BY DEF IInv, ClientInv, PairInv, NetInv
<1>1. /\ p.req_num = cur_req_num[s] /\ p.pkt_num = num_rx[s] /\ num_rx[s] < num_tx[s]
      /\ Pacing => ~InWheel(s, num_rx[s])
  BY DEF in_order_client
<1>2. num_tx[s] # num_rx[s]
  BY <1>0, <1>1, SlotTypes
<1>3. Active(s) /\ tx_msgbuf[s].pkts > 0
  BY <1>0, <1>2 DEF CliInv
<1>4. p.req_num <= s_cur_req_num[s]
  BY <1>0 DEF PktInv, CrPktInv, RespPktInv
<1>5. cur_req_num[s] = s_cur_req_num[s] /\ p.req_num = s_cur_req_num[s]
  BY <1>0, <1>1, <1>4, SlotTypes DEF PairSlotInv
<1>6. p.pkt_num < s_num_rx[s]
  BY <1>0, <1>5 DEF PktInv, CrPktInv, RespPktInv
<1>7. num_rx[s] + 1 <= s_num_rx[s]
  BY <1>0, <1>1, <1>6, SlotTypes
<1>8. \A e \in wheel[s] : num_rx[s] + 1 <= e
  <2>1. \A e \in wheel[s] : Pacing /\ e \in Nat /\ num_rx[s] <= e
    BY <1>0, SlotTypes DEF CliInv
  <2>2. \A e \in wheel[s] : e # num_rx[s]
    BY <1>1, <2>1 DEF InWheel
  <2> QED
    BY <1>0, <2>1, <2>2, SlotTypes
<1>9. \A i \in 1..Len(stallq) : stallq[i] # s
  BY <1>2, NotStalled
<1> QED
  BY <1>0, <1>1, <1>3, <1>5, <1>7, <1>8, <1>9 DEF PairSlotInv

\* process_expl_cr_st keeps the invariant.
LEMMA ProcessExplCRStep ==
  ASSUME IInv, NEW p \in net, ProcessExplCR(p)
  PROVE  IInv'
<1>s. PICK s \in Sslots : s = p.sslot
  BY PacketFields DEF IInv
<1>0. TypeOK /\ StallqInv /\ CliInv(s) /\ PairSlotInv(s) /\ PktInv(p)
  BY DEF IInv, ClientInv, PairInv, NetInv
<1>1. CASE ~in_order_client(p)
  BY <1>1, DropStep DEF ProcessExplCR, clientVars, serverVars
<1>2. CASE in_order_client(p)
  <2>1. p.type = ExplCR
    BY DEF ProcessExplCR
  <2>2. /\ Active(s) /\ tx_msgbuf[s].pkts > 0
        /\ cur_req_num[s] = s_cur_req_num[s] /\ p.req_num = s_cur_req_num[s]
        /\ p.pkt_num = num_rx[s] /\ num_rx[s] < num_tx[s]
        /\ num_rx[s] + 1 <= s_num_rx[s]
        /\ tx_msgbuf[s].pkts = SrvReqPkts(s)
        /\ \A e \in wheel[s] : num_rx[s] + 1 <= e
        /\ \A i \in 1..Len(stallq) : stallq[i] # s
    BY <1>s, <1>2, <2>1, ReplyInOrder
  <2>n. PICK n \in Nat : n = cur_req_num[s]
    BY <1>0, SlotTypes
  <2>m. PICK m \in Msg : m = tx_msgbuf[s] /\ m.pkts \in Nat
    BY <1>0, SlotTypes
  <2>t. PICK tx \in Nat : tx = num_tx[s]
    BY <1>0, SlotTypes
  <2>c. PICK cr \in Nat : cr = credits + 1 /\ cr > 0
    <3>1. credits \in Nat
      BY <1>0 DEF TypeOK
    <3> QED
      BY <3>1
  <2>3. num_rx[s] + 1 < m.pkts /\ num_rx[s] \in Nat
    BY <1>0, <2>1, <2>2, <2>m, <1>s, SlotTypes DEF PktInv, CrPktInv
  <2>4. /\ num_rx' = [num_rx EXCEPT ![s] = @ + 1]
        /\ UNCHANGED <<sslot_free, backlog, stallq, tx_msgbuf, cur_req_num,
                       resp_pkts, resp_data, issued>>
        /\ UNCHANGED serverVars
    BY <1>2, <1>s DEF ProcessExplCR
  <2>5. /\ num_rx' \in [Sslots -> Nat] /\ num_rx'[s] = num_rx[s] + 1
        /\ \A t \in Sslots \ {s} : num_rx'[t] = num_rx[t]
    BY <1>0, <2>4 DEF TypeOK
  <2>6. ASSUME \A t \in Sslots \ {s} : num_tx'[t] = num_tx[t] PROVE ActiveStep(s)
    <3>1. StallqInv'
      BY <2>2, <2>4, <2>6, StallqKept
    <3> QED
      BY <1>0, <2>2, <2>4, <2>5, <3>1 DEF ActiveStep, TypeOK
  <2>7. Acked(s)
    BY <1>0, <2>2, <2>3, <2>5, SlotTypes DEF Acked
  <2>8. CASE num_tx[s] < tx_msgbuf[s].pkts
    <3>1. kick_req(s, n, m, tx, cr, FALSE, {p})
      BY <1>2, <1>s, <2>8, <2>n, <2>m, <2>t, <2>c DEF ProcessExplCR
    <3>2. tx < m.pkts /\ tx <= m.pkts
      BY <2>8, <2>m, <2>t
    <3>3. PICK k \in Nat : KickedReq(s, n, m, tx, cr, k)
      BY <2>m, <3>1, <3>2, KickReq
    <3>4. \A t \in Sslots \ {s} : num_tx'[t] = num_tx[t]
      BY <1>0, <3>3 DEF KickedReq, TypeOK
    <3>5. ActiveStep(s)
      BY <2>6, <3>4
    <3>6. /\ num_rx'[s] <= tx /\ tx + k >= num_tx[s]
          /\ cr + (tx - num_rx'[s]) = credits + (num_tx[s] - num_rx[s])
      <4>1. credits \in Nat
        BY <1>0 DEF TypeOK
      <4>2. num_rx'[s] = num_rx[s] + 1 /\ num_rx[s] \in Nat /\ num_rx[s] < tx
        BY <2>2, <2>3, <2>5, <2>t
      <4>3. cr + (tx - num_rx'[s]) = credits + (tx - num_rx[s])
        BY <2>c, <4>1, <4>2
      <4> QED
        BY <2>t, <4>2, <4>3
    <3> QED
      BY <2>7, <2>n, <2>m, <2>c, <3>2, <3>3, <3>5, <3>6, KickReqStep
  <2>9. CASE ~(num_tx[s] < tx_msgbuf[s].pkts)
    <3>1. ClientTx({}, {}, FALSE, {p}) /\ credits' = credits + 1 /\ UNCHANGED <<num_tx, wheel>>
      BY <1>2, <1>s, <2>9 DEF ProcessExplCR
    <3>2. ClientSent({})
      BY <3>1, ClientTxNone
    <3>3. ActiveStep(s)
      BY <2>6, <3>1
    <3>4. CliInv(s)'
      <4>1. num_tx[s] \in Nat /\ num_rx'[s] < num_tx[s] /\ num_rx'[s] < tx_msgbuf[s].pkts
        BY <1>0, <2>3, <2>5, <2>9, <2>m, SlotTypes
      <4> QED
        BY <1>0, <2>2, <2>3, <2>4, <2>5, <2>m, <3>1, <4>1 DEF CliInv, Active
    <3>5. PairSlotInv(s)'
      BY <1>0, <2>2, <2>3, <2>4, <2>5, <2>m, <3>1, SlotTypes
         DEF PairSlotInv, serverVars, Active, SrvFresh, SrvDone, SrvReqPkts
    <3>6. credits' \in Nat /\ credits' - num_rx'[s] = credits - num_rx[s]
      <4>1. credits \in Nat
        BY <1>0 DEF TypeOK
      <4> QED
        BY <2>3, <2>5, <3>1, <4>1
    <3> QED
      BY <3>1, <3>2, <3>3, <3>4, <3>5, <3>6, NoKickStep
  <2> QED
    BY <2>8, <2>9
<1> QED
  BY <1>1, <1>2

\* What an in-order response packet tells the client: it is of the response the
\* server holds, whose length SizedBy gives.
LEMMA RespInOrder ==
  ASSUME IInv, NEW p \in net, p.type = Resp, in_order_client(p),
         NEW s \in Sslots, s = p.sslot
  PROVE  /\ SrvDone(s) /\ tx_msgbuf[s].pkts = sav_num_req_pkts[s]
         /\ SizedBy(p) = s_tx_msgbuf[s].pkts /\ SizedBy(p) \in Nat /\ SizedBy(p) > 0
         /\ p.size = SizedBy(p)
         /\ num_rx[s] + 1 >= tx_msgbuf[s].pkts
         /\ num_rx[s] + 1 <= wire_pkts(tx_msgbuf[s].pkts, SizedBy(p))
         /\ num_tx[s] <= wire_pkts(tx_msgbuf[s].pkts, SizedBy(p))
         /\ FilledBy(p) \in RespBuf
<1>0. TypeOK /\ CliInv(s) /\ PairSlotInv(s) /\ PktInv(p)
  BY DEF IInv, ClientInv, PairInv, NetInv
<1>1. /\ Active(s) /\ tx_msgbuf[s].pkts > 0
      /\ cur_req_num[s] = s_cur_req_num[s] /\ p.req_num = s_cur_req_num[s]
      /\ p.pkt_num = num_rx[s] /\ num_rx[s] < num_tx[s]
      /\ num_rx[s] + 1 <= s_num_rx[s]
      /\ tx_msgbuf[s].pkts = SrvReqPkts(s)
  BY ReplyInOrder
<1>2. /\ SrvDone(s) /\ p.size = s_tx_msgbuf[s].pkts
      /\ sav_num_req_pkts[s] - 1 <= p.pkt_num
  BY <1>0, <1>1 DEF PktInv, RespPktInv
<1>3. tx_msgbuf[s].pkts = sav_num_req_pkts[s]
  BY <1>0, <1>1, <1>2, SlotTypes DEF SrvDone, SrvReqPkts
<1>4. num_rx[s] + 1 >= tx_msgbuf[s].pkts
  BY <1>0, <1>1, <1>2, <1>3, SlotTypes
<1>5. SizedBy(p) = s_tx_msgbuf[s].pkts
  <2>1. CASE p.size = 1 \/ p.pkt_num = tx_msgbuf[p.sslot].pkts - 1
    BY <1>2, <2>1 DEF SizedBy
  <2>2. CASE ~(p.size = 1 \/ p.pkt_num = tx_msgbuf[p.sslot].pkts - 1)
    <3>1. num_rx[s] >= tx_msgbuf[s].pkts
      BY <1>0, <1>1, <1>4, <2>2, SlotTypes
    <3>2. resp_pkts[s] = s_tx_msgbuf[s].pkts
      BY <1>0, <1>1, <3>1 DEF PairSlotInv
    <3> QED
      BY <2>2, <3>2 DEF SizedBy
  <2> QED
    BY <2>1, <2>2
<1>6. s_tx_msgbuf[s].pkts \in Nat /\ s_tx_msgbuf[s].pkts > 0
  BY <1>0, <1>2, SlotTypes DEF SrvDone
<1>7. num_rx[s] + 1 <= wire_pkts(tx_msgbuf[s].pkts, SizedBy(p))
  BY <1>0, <1>1, <1>2, <1>3, <1>5, SlotTypes DEF SrvDone, wire_pkts
<1>8. num_tx[s] <= wire_pkts(tx_msgbuf[s].pkts, SizedBy(p))
  <2>1. CASE num_rx[s] < tx_msgbuf[s].pkts
    BY <1>0, <1>1, <1>5, <1>6, <2>1, SlotTypes DEF CliInv, wire_pkts
  <2>2. CASE ~(num_rx[s] < tx_msgbuf[s].pkts)
    <3>1. num_rx[s] >= tx_msgbuf[s].pkts
      BY <1>0, <2>2, SlotTypes
    <3>2. resp_pkts[s] = s_tx_msgbuf[s].pkts
      BY <1>0, <1>1, <3>1 DEF PairSlotInv
    <3> QED
      BY <1>0, <1>1, <1>5, <3>1, <3>2 DEF CliInv
  <2> QED
    BY <2>1, <2>2
<1>9. FilledBy(p) \in RespBuf
  <2>1. resp_data[s] \in RespBuf /\ p.data \in Chunk
    BY <1>0, SlotTypes, PacketFields
  <2> QED
    BY <2>1 DEF FilledBy, RespBuf
<1> QED
  BY <1>2, <1>3, <1>4, <1>5, <1>6, <1>7, <1>8, <1>9

\* process_resp_one_st, incomplete response, keeps the invariant.
LEMMA ProcessRespPartialStep ==
  ASSUME IInv, NEW p \in net, ProcessRespPartial(p)
  PROVE  IInv'
<1>s. PICK s \in Sslots : s = p.sslot
  BY PacketFields DEF IInv
<1>0. TypeOK /\ StallqInv /\ CliInv(s) /\ PairSlotInv(s)
  BY DEF IInv, ClientInv, PairInv
<1>1. p.type = Resp /\ in_order_client(p) /\ ~CompletedBy(p)
  BY DEF ProcessRespPartial
<1>2. /\ Active(s) /\ tx_msgbuf[s].pkts > 0
      /\ cur_req_num[s] = s_cur_req_num[s]
      /\ num_rx[s] < num_tx[s]
      /\ num_rx[s] + 1 <= s_num_rx[s]
      /\ tx_msgbuf[s].pkts = SrvReqPkts(s)
      /\ \A e \in wheel[s] : num_rx[s] + 1 <= e
      /\ \A i \in 1..Len(stallq) : stallq[i] # s
  BY <1>s, <1>1, ReplyInOrder
<1>3. /\ SrvDone(s) /\ SizedBy(p) = s_tx_msgbuf[s].pkts /\ p.size = SizedBy(p)
      /\ SizedBy(p) \in Nat /\ SizedBy(p) > 0 /\ num_rx[s] + 1 >= tx_msgbuf[s].pkts
      /\ num_rx[s] + 1 <= wire_pkts(tx_msgbuf[s].pkts, SizedBy(p))
      /\ num_tx[s] <= wire_pkts(tx_msgbuf[s].pkts, SizedBy(p))
      /\ FilledBy(p) \in RespBuf
  BY <1>s, <1>1, RespInOrder
<1>n. PICK n \in Nat : n = cur_req_num[s]
  BY <1>0, SlotTypes
<1>t. PICK tx \in Nat : tx = num_tx[s]
  BY <1>0, SlotTypes
<1>z. PICK z \in Nat : z = SizedBy(p) /\ z > 1
  BY <1>1, <1>3 DEF CompletedBy
<1>w. PICK wire \in Nat : wire = wire_pkts(tx_msgbuf[s].pkts, z)
  BY <1>0, <1>2, SlotTypes DEF wire_pkts
<1>c. PICK cr \in Nat : cr = credits + 1 /\ cr > 0
  <2>1. credits \in Nat
    BY <1>0 DEF TypeOK
  <2> QED
    BY <2>1
<1>4. num_rx[s] + 1 < wire /\ tx <= wire /\ num_rx[s] \in Nat
  <2>1. num_rx[s] + 1 # wire
    BY <1>1, <1>s, <1>w, <1>z DEF CompletedBy
  <2> QED
    BY <1>0, <1>3, <1>t, <1>w, <1>z, <2>1, SlotTypes
<1>5. /\ num_rx' = [num_rx EXCEPT ![s] = @ + 1]
      /\ resp_pkts' = [resp_pkts EXCEPT ![s] = z]
      /\ resp_data' = [resp_data EXCEPT ![s] = FilledBy(p)]
      /\ UNCHANGED <<sslot_free, backlog, stallq, tx_msgbuf, cur_req_num, issued>>
      /\ UNCHANGED serverVars
  BY <1>s, <1>z DEF ProcessRespPartial
<1>6. /\ num_rx' \in [Sslots -> Nat] /\ num_rx'[s] = num_rx[s] + 1
      /\ resp_pkts' \in [Sslots -> Nat] /\ resp_pkts'[s] = z
      /\ \A t \in Sslots \ {s} : num_rx'[t] = num_rx[t] /\ resp_pkts'[t] = resp_pkts[t]
  BY <1>0, <1>5 DEF TypeOK
<1>7. resp_data' \in [Sslots -> RespBuf]
  BY <1>0, <1>3, <1>5 DEF TypeOK
<1>8. ASSUME \A t \in Sslots \ {s} : num_tx'[t] = num_tx[t] PROVE ActiveStep(s)
  <2>1. StallqInv'
    BY <1>2, <1>5, <1>8, StallqKept
  <2> QED
    BY <1>0, <1>2, <1>5, <1>6, <1>7, <2>1 DEF ActiveStep, TypeOK
<1>9. ASSUME num_tx'[s] \in Nat, num_tx'[s] >= num_tx[s] PROVE PairSlotInv(s)'
  <2>1. /\ UNCHANGED <<s_cur_req_num, s_num_rx, s_tx_msgbuf>>
        /\ SrvDone(s)' /\ SrvReqPkts(s)' = SrvReqPkts(s)
    BY <1>3, <1>5 DEF serverVars, SrvDone, SrvReqPkts
  <2>2. /\ s_num_rx[s] \in Nat /\ num_tx[s] \in Nat /\ s_cur_req_num[s] \in Nat
        /\ s_num_rx[s] <= num_tx[s] /\ s_cur_req_num[s] > 0
    BY <1>0, <1>2, SlotTypes DEF PairSlotInv
  <2>3. /\ Active(s)' /\ cur_req_num'[s] = s_cur_req_num'[s]
        /\ tx_msgbuf'[s] = tx_msgbuf[s] /\ resp_pkts'[s] = s_tx_msgbuf'[s].pkts
    BY <1>2, <1>3, <1>5, <1>6, <1>z, <2>1 DEF Active
  <2> QED
    BY <1>2, <1>4, <1>6, <1>9, <2>1, <2>2, <2>3 DEF PairSlotInv
<1>10. CASE num_tx[s] # wire
  <2>1. kick_rfr(s, n, wire, tx, cr, FALSE, {p})
    BY <1>10, <1>s, <1>n, <1>t, <1>c, <1>w, <1>z DEF ProcessRespPartial
  <2>2. PICK k \in Nat : KickedRfr(s, n, wire, tx, cr, k)
    BY <1>4, <2>1, KickRfr
  <2>3. \A t \in Sslots \ {s} : num_tx'[t] = num_tx[t]
    BY <1>0, <2>2 DEF KickedRfr, TypeOK
  <2>4. ActiveStep(s)
    BY <1>8, <2>3
  <2>5. num_tx'[s] = tx + k
    BY <1>0, <2>2 DEF KickedRfr, TypeOK
  <2>6. PairSlotInv(s)'
    BY <1>9, <1>t, <2>5
  <2>7. /\ num_rx'[s] <= tx /\ num_rx'[s] >= tx_msgbuf[s].pkts /\ num_rx'[s] < wire
        /\ resp_pkts'[s] > 1 /\ wire = wire_pkts(tx_msgbuf[s].pkts, resp_pkts'[s])
        /\ tx + k >= num_tx[s]
        /\ cr + (tx - num_rx'[s]) = credits + (num_tx[s] - num_rx[s])
    <3>1. credits \in Nat
      BY <1>0 DEF TypeOK
    <3>2. num_rx'[s] = num_rx[s] + 1 /\ num_rx[s] \in Nat /\ num_rx[s] < tx
      BY <1>2, <1>4, <1>6, <1>t
    <3>3. cr + (tx - num_rx'[s]) = credits + (tx - num_rx[s])
      BY <1>c, <3>1, <3>2
    <3>4. resp_pkts'[s] = z /\ num_rx'[s] >= tx_msgbuf[s].pkts /\ num_rx'[s] < wire
      BY <1>3, <1>4, <1>6
    <3> QED
      BY <1>t, <1>z, <1>w, <3>2, <3>3, <3>4
  <2> QED
    BY <1>4, <1>n, <1>c, <2>2, <2>4, <2>6, <2>7, KickRfrStep
<1>11. CASE num_tx[s] = wire
  <2>1. ClientTx({}, {}, FALSE, {p}) /\ credits' = credits + 1 /\ UNCHANGED <<num_tx, wheel>>
    BY <1>11, <1>s, <1>w, <1>z DEF ProcessRespPartial
  <2>2. ClientSent({})
    BY <2>1, ClientTxNone
  <2>3. ActiveStep(s)
    BY <1>8, <2>1
  <2>4. PairSlotInv(s)'
    BY <1>9, <1>t, <2>1
  <2>5. CliInv(s)'
    <3>1. /\ num_rx'[s] < num_tx'[s] /\ num_rx'[s] >= tx_msgbuf[s].pkts /\ num_tx'[s] = wire
          /\ num_rx'[s] < wire /\ resp_pkts'[s] > 1
          /\ wire = wire_pkts(tx_msgbuf'[s].pkts, resp_pkts'[s])
      BY <1>3, <1>4, <1>5, <1>6, <1>11, <1>w, <1>z, <2>1
    <3>2. tx_msgbuf[s].pkts \in Nat
      BY <1>0, SlotTypes
    <3> QED
      BY <1>0, <1>2, <1>4, <1>5, <1>6, <2>1, <3>1, <3>2 DEF CliInv, Active
  <2>6. credits' \in Nat /\ credits' - num_rx'[s] = credits - num_rx[s]
    <3>1. credits \in Nat
      BY <1>0 DEF TypeOK
    <3> QED
      BY <1>4, <1>6, <2>1, <3>1
  <2> QED
    BY <2>1, <2>2, <2>3, <2>4, <2>5, <2>6, NoKickStep
<1> QED
  BY <1>10, <1>11

\* process_resp_one_st, last packet, keeps the invariant: all that was sent has
\* been answered, so the sslot is idle and can take the next request.
LEMMA ProcessRespCompleteStep ==
  ASSUME IInv, NEW p \in net, ProcessRespComplete(p)
  PROVE  IInv'
<1>s. PICK s \in Sslots : s = p.sslot
  BY PacketFields DEF IInv
<1>0. TypeOK /\ StallqInv /\ BacklogInv /\ CliInv(s) /\ PairSlotInv(s)
  BY DEF IInv, ClientInv, PairInv
<1>1. p.type = Resp /\ in_order_client(p) /\ CompletedBy(p)
  BY DEF ProcessRespComplete
<1>2. /\ Active(s) /\ tx_msgbuf[s].pkts > 0
      /\ cur_req_num[s] = s_cur_req_num[s]
      /\ num_rx[s] < num_tx[s]
      /\ \A e \in wheel[s] : num_rx[s] + 1 <= e
      /\ \A i \in 1..Len(stallq) : stallq[i] # s
  BY <1>s, <1>1, ReplyInOrder
<1>3. /\ SrvDone(s) /\ p.size = SizedBy(p)
      /\ SizedBy(p) \in Nat /\ num_rx[s] + 1 >= tx_msgbuf[s].pkts
      /\ num_rx[s] + 1 <= wire_pkts(tx_msgbuf[s].pkts, SizedBy(p))
      /\ num_tx[s] <= wire_pkts(tx_msgbuf[s].pkts, SizedBy(p))
      /\ FilledBy(p) \in RespBuf
  BY <1>s, <1>1, RespInOrder
<1>4. /\ num_rx[s] + 1 = num_tx[s] /\ num_rx[s] \in Nat /\ num_tx[s] \in Nat
      /\ credits \in Nat /\ tx_msgbuf[s].pkts \in Nat
  <2>1. num_rx[s] + 1 = wire_pkts(tx_msgbuf[s].pkts, SizedBy(p))
    BY <1>0, <1>1, <1>3, <1>s, SlotTypes DEF CompletedBy, wire_pkts
  <2>2. num_rx[s] \in Nat /\ num_tx[s] \in Nat /\ credits \in Nat /\ tx_msgbuf[s].pkts \in Nat
    BY <1>0, SlotTypes DEF TypeOK
  <2> QED
    BY <1>2, <1>3, <2>1, <2>2
<1>5. wheel[s] = {}
  <2>1. \A e \in wheel[s] : e \in Nat /\ num_rx[s] + 1 <= e /\ e < num_tx[s]
    BY <1>0, <1>2, SlotTypes DEF CliInv
  <2> QED
    BY <1>4, <2>1
<1>6. s \notin sslot_free /\ issued' = issued /\ UNCHANGED serverVars
  BY <1>0, <1>2 DEF CliInv, ProcessRespComplete
<1>w. SrvAllSent(s)
  <2>1. /\ num_rx[s] + 1 <= s_num_rx[s] /\ tx_msgbuf[s].pkts = SrvReqPkts(s)
        /\ SizedBy(p) = s_tx_msgbuf[s].pkts
    BY <1>s, <1>1, ReplyInOrder, RespInOrder
  <2>2. /\ SrvReqPkts(s) = sav_num_req_pkts[s]
        /\ s_num_rx[s] <= wire_pkts(sav_num_req_pkts[s], s_tx_msgbuf[s].pkts)
    BY <1>3 DEF SrvDone, SrvReqPkts
  <2>3. num_rx[s] + 1 = wire_pkts(tx_msgbuf[s].pkts, SizedBy(p))
    BY <1>0, <1>1, <1>3, <1>s, SlotTypes DEF CompletedBy, wire_pkts
  <2>4. s_num_rx[s] \in Nat
    BY <1>0, SlotTypes
  <2> QED
    BY <1>4, <2>1, <2>2, <2>3, <2>4 DEF SrvAllSent
<1>7. CASE backlog # <<>>
  <2>1. backlog \in Seq(Msg) /\ backlog # <<>>
    BY <1>0, <1>7 DEF TypeOK
  <2>2. /\ Head(backlog) \in Msg /\ Head(backlog) = backlog[1] /\ Len(backlog) \in Nat
        /\ 1 \in 1..Len(backlog)
        /\ Tail(backlog) \in Seq(Msg) /\ Len(Tail(backlog)) = Len(backlog) - 1
        /\ \A i \in 1..Len(Tail(backlog)) : Tail(backlog)[i] = backlog[i + 1]
    BY <2>1, HeadTail
  <2>m. PICK m \in Msg : m = Head(backlog)
    BY <2>2
  <2>c. PICK cr \in Nat : cr = credits + 1
    BY <1>4
  <2>3. /\ start_request(s, m, cr, {p}) /\ backlog' = Tail(backlog)
        /\ sslot_free' = sslot_free
    BY <1>7, <1>s, <2>m, <2>c DEF ProcessRespComplete
  <2>4. m.pkts > 0
    BY <1>0, <2>2, <2>m DEF BacklogInv
  <2>5. backlog' \in Seq(Msg) /\ BacklogInv'
    <3>1. \A i \in 1..Len(backlog') : backlog'[i].pkts > 0
      <4> SUFFICES ASSUME NEW i \in 1..Len(backlog') PROVE backlog'[i].pkts > 0
        OBVIOUS
      <4>1. i + 1 \in 1..Len(backlog) /\ backlog'[i] = backlog[i + 1]
        BY <2>2, <2>3
      <4> QED
        BY <1>0, <4>1 DEF BacklogInv
    <3>2. sslot_free' = {}
      BY <1>0, <1>7, <2>3 DEF BacklogInv
    <3> QED
      BY <2>2, <2>3, <3>1, <3>2 DEF BacklogInv
  <2>6. /\ cr = credits + (num_tx[s] - num_rx[s])
        /\ s \notin sslot_free' /\ sslot_free' \in SUBSET Sslots
        /\ \A t \in Sslots \ {s} : t \in sslot_free' <=> t \in sslot_free
        /\ issued' \in 0..NumRpcs
    BY <1>0, <1>4, <1>6, <2>c, <2>3 DEF TypeOK
  <2> QED
    BY <1>2, <1>3, <1>5, <1>6, <2>3, <2>4, <2>5, <2>6, StartRequest
<1>8. CASE backlog = <<>>
  <2>1. /\ tx_msgbuf' = [tx_msgbuf EXCEPT ![s] = NoMsg]
        /\ sslot_free' = sslot_free \cup {s}
        /\ num_rx' = [num_rx EXCEPT ![s] = @ + 1]
        /\ resp_pkts' = [resp_pkts EXCEPT ![s] = SizedBy(p)]
        /\ resp_data' = [resp_data EXCEPT ![s] = FilledBy(p)]
        /\ credits' = credits + 1
        /\ ClientTx({}, {}, FALSE, {p})
        /\ UNCHANGED <<backlog, stallq, cur_req_num, num_tx, wheel>>
    BY <1>8, <1>s DEF ProcessRespComplete
  <2>2. ClientSent({})
    BY <2>1, ClientTxNone
  <2>3. /\ tx_msgbuf' \in [Sslots -> Msg] /\ sslot_free' \in SUBSET Sslots
        /\ num_rx' \in [Sslots -> Nat] /\ resp_pkts' \in [Sslots -> Nat]
        /\ credits' \in Nat
    <3>1. NoMsg \in Msg
      BY BoundsAssumption DEF NoMsg, Msg
    <3>2. tx_msgbuf' \in [Sslots -> Msg] /\ sslot_free' \in SUBSET Sslots
      BY <1>0, <2>1, <3>1 DEF TypeOK
    <3>3. num_rx' \in [Sslots -> Nat] /\ resp_pkts' \in [Sslots -> Nat]
      BY <1>0, <1>3, <2>1 DEF TypeOK
    <3>4. credits' \in Nat
      BY <1>0, <2>1 DEF TypeOK
    <3> QED
      BY <3>2, <3>3, <3>4
  <2>4. resp_data' \in [Sslots -> RespBuf]
    BY <1>0, <1>3, <2>1 DEF TypeOK
  <2>5. /\ backlog' \in Seq(Msg) /\ stallq' \in Seq(Sslots)
        /\ cur_req_num' \in [Sslots -> Nat] /\ num_tx' \in [Sslots -> Nat]
        /\ wheel' \in [Sslots -> SUBSET Nat] /\ issued' \in 0..NumRpcs
    BY <1>0, <1>6, <2>1 DEF TypeOK
  <2>6. TypeOK'
    BY <1>0, <1>6, <2>2, <2>3, <2>4, <2>5, ClientTypes
  <2>7. /\ ~Active(s)' /\ num_rx'[s] = num_rx[s] + 1 /\ num_tx'[s] = num_tx[s]
        /\ \A t \in Sslots \ {s} :
              /\ tx_msgbuf'[t] = tx_msgbuf[t] /\ num_rx'[t] = num_rx[t]
              /\ resp_pkts'[t] = resp_pkts[t] /\ num_tx'[t] = num_tx[t]
    BY <1>0, <2>1 DEF TypeOK, Active
  <2>8. ClientFrame(s)
    BY <2>1, <2>7 DEF ClientFrame
  <2>9. CliInv(s)'
    BY <1>4, <1>5, <2>1, <2>7 DEF CliInv
  <2>10. StallqInv'
    BY <1>2, <2>1, <2>7, StallqKept
  <2>11. BacklogInv'
    BY <1>8, <2>1 DEF BacklogInv
  <2>12. PairSlotInv(s)'
    <3>1. SrvDone(s)' /\ SrvAllSent(s)' /\ s_cur_req_num' = s_cur_req_num
      BY <1>3, <1>6, <1>w DEF serverVars, SrvDone, SrvAllSent
    <3>2. cur_req_num'[s] = s_cur_req_num'[s] /\ s_cur_req_num'[s] \in Nat
      BY <1>0, <1>2, <2>1, <3>1, SlotTypes
    <3> QED
      BY <2>7, <3>1, <3>2 DEF PairSlotInv
  <2>13. PacketsValid(s, {})
    <3> SUFFICES ASSUME NEW q \in net \cup tx_queue \cup s_tx_queue, q.sslot = s
                 PROVE  PktInv(q)'
      BY DEF PacketsValid
    <3>1. PktInv(q)
      BY DEF IInv, NetInv
    <3> QED
      BY <1>6, <2>1, <2>7, <3>1 DEF PktInv, ReqPktInv, RfrPktInv, CrPktInv, RespPktInv,
         serverVars, SrvDone, SrvReqPkts
  <2>14. credits' + (num_tx'[s] - num_rx'[s]) = credits + (num_tx[s] - num_rx[s])
    BY <1>4, <2>1, <2>7
  <2> QED
    BY <1>6, <2>2, <2>6, <2>8, <2>9, <2>10, <2>11, <2>12, <2>13, <2>14, ClientStep
<1> QED
  BY <1>7, <1>8

-----------------------------------------------------------------------------
(* Steps of the server *)

\* What transmitting the packets in New does to the TX queue and the network.
ServerSent(New) ==
    /\ net' \subseteq net \cup s_tx_queue \cup New
    /\ s_tx_queue' \subseteq s_tx_queue \cup {p \in New : p.type = Resp}

\* ServerTx with nothing to send.
LEMMA ServerTxNone ==
  ASSUME NEW drain, NEW rcvd, ServerTx({}, {}, drain, rcvd)
  PROVE  ServerSent({})
<1>1. Received(rcvd) \subseteq net
  BY DEF Received
<1> QED
  BY <1>1 DEF ServerTx, ServerSent

\* ServerTx with one response packet.
LEMMA ServerTxResp ==
  ASSUME NEW q, q.type = Resp, NEW drain, NEW rcvd, ServerTx({q}, {}, drain, rcvd)
  PROVE  ServerSent({q})
<1>1. Received(rcvd) \subseteq net
  BY DEF Received
<1> QED
  BY <1>1 DEF ServerTx, ServerSent

\* ServerTx with one header (a credit return).
LEMMA ServerTxHdr ==
  ASSUME NEW q, NEW drain, NEW rcvd, ServerTx({}, {q}, drain, rcvd)
  PROVE  ServerSent({q})
<1>1. Received(rcvd) \subseteq net
  BY DEF Received
<1> QED
  BY <1>1 DEF ServerTx, ServerSent

\* The server sends one valid packet, or none, and changes no other state.
LEMMA ServerSendOne ==
  ASSUME IInv, UNCHANGED clientVars, UNCHANGED serverState, NEW q,
         q \in Packet, PktInv(q), ServerSent({q})
  PROVE  IInv'
<1>0. PICK New : New = {q}
  OBVIOUS
<1>1. UNCHANGED clientState /\ tx_queue' \subseteq tx_queue
  BY DEF clientVars, clientState
<1>2. /\ \A p \in New : p \in Packet /\ PktInv(p)
      /\ net' \subseteq net \cup tx_queue \cup s_tx_queue \cup New
      /\ s_tx_queue' \subseteq s_tx_queue \cup {p \in New : p.type = Resp}
  BY <1>0 DEF ServerSent
<1> QED
  BY <1>1, <1>2, PacketStep

\* The server receives a packet it drops.
LEMMA ServerSendNone ==
  ASSUME IInv, UNCHANGED clientVars, UNCHANGED serverState, ServerSent({})
  PROVE  IInv'
<1>1. UNCHANGED clientState /\ tx_queue' \subseteq tx_queue
  BY DEF clientVars, clientState
<1>2. /\ net' \subseteq net \cup tx_queue \cup s_tx_queue
      /\ s_tx_queue' \subseteq s_tx_queue
  BY DEF ServerSent
<1> QED
  BY <1>1, <1>2, MoveStep

\* Packet i of the response the server holds is valid once it was asked for.
LEMMA OldRespPkt ==
  ASSUME TypeOK, NEW s \in Sslots, SrvDone(s), NEW i \in Nat,
         sav_num_req_pkts[s] - 1 + i < s_num_rx[s],
         NEW q, q = RespPkt(s, s_cur_req_num[s], s_tx_msgbuf[s], i, sav_num_req_pkts[s])
  PROVE  q \in Packet /\ PktInv(q) /\ q.type = Resp
<1>1. /\ sav_num_req_pkts[s] \in Nat /\ sav_num_req_pkts[s] > 0 /\ s_cur_req_num[s] \in Nat
      /\ s_cur_req_num[s] > 0 /\ s_tx_msgbuf[s] \in Msg /\ s_num_rx[s] \in Nat
  BY SlotTypes DEF SrvDone
<1>2. /\ q.type = Resp /\ q.sslot = s /\ q.req_num = s_cur_req_num[s]
      /\ q.pkt_num = sav_num_req_pkts[s] - 1 + i /\ q.size = s_tx_msgbuf[s].pkts
  BY DEF RespPkt
<1>3. q \in Packet
  <2>1. s_tx_msgbuf[s].rpc \in 0..NumRpcs /\ s_tx_msgbuf[s].pkts \in Nat
    BY <1>1 DEF Msg
  <2>2. sav_num_req_pkts[s] - 1 + i \in Nat /\ i \in Int
    BY <1>1
  <2>3. [rpc |-> s_tx_msgbuf[s].rpc, idx |-> i] \in Chunk
    BY <2>1, <2>2 DEF Chunk
  <2> QED
    BY <1>1, <2>1, <2>2, <2>3 DEF RespPkt, Packet
<1>4. q.type # Req /\ q.type # RFR /\ q.type # ExplCR
  BY <1>2 DEF Req, RFR, ExplCR, Resp
<1>5. RespPktInv(q)
  BY <1>1, <1>2 DEF RespPktInv
<1> QED
  BY <1>2, <1>3, <1>4, <1>5 DEF PktInv

\* A response is re-sent only if the server holds one.
LEMMA ResendStep ==
  ASSUME IInv, UNCHANGED clientVars, UNCHANGED serverState,
         NEW s \in Sslots, s_tx_msgbuf[s] # NoMsg, NEW rcvd, ResendResp(s, 0, rcvd)
  PROVE  IInv'
<1>0. TypeOK /\ SrvInv(s)
  BY DEF IInv, ServerInv
<1>1. SrvDone(s)
  BY <1>0 DEF SrvInv, SrvFresh, SrvReceiving, SrvPending
<1>q. PICK q : q = RespPkt(s, s_cur_req_num[s], s_tx_msgbuf[s], 0, sav_num_req_pkts[s])
  OBVIOUS
<1>2. sav_num_req_pkts[s] - 1 + 0 < s_num_rx[s] /\ 0 \in Nat
  BY <1>0, <1>1, SlotTypes DEF SrvDone
<1>3. q \in Packet /\ PktInv(q) /\ q.type = Resp
  BY <1>0, <1>1, <1>2, <1>q, OldRespPkt
<1>4. ServerSent({q})
  BY <1>3, <1>q, ServerTxResp DEF ResendResp
<1> QED
  BY <1>3, <1>4, ServerSendOne

\* process_small_req_st, old request, keeps the invariant.
LEMMA ProcessSmallReqOldStep ==
  ASSUME IInv, NEW p \in net, ProcessSmallReqOld(p)
  PROVE  IInv'
<1>s. PICK s \in Sslots : s = p.sslot
  BY PacketFields DEF IInv
<1>1. UNCHANGED clientVars /\ UNCHANGED serverState
  BY DEF ProcessSmallReqOld, serverState
<1>2. CASE p.req_num = s_cur_req_num[s] /\ s_tx_msgbuf[s] # NoMsg
  BY <1>1, <1>2, <1>s, ResendStep DEF ProcessSmallReqOld
<1>3. CASE ~(p.req_num = s_cur_req_num[s] /\ s_tx_msgbuf[s] # NoMsg)
  BY <1>1, <1>3, <1>s, ServerTxNone, ServerSendNone DEF ProcessSmallReqOld
<1> QED
  BY <1>2, <1>3

\* A credit return for a packet the server has received is valid.
LEMMA OldCrPkt ==
  ASSUME TypeOK, NEW p \in net, p.type = Req, PktInv(p), NEW s \in Sslots, s = p.sslot,
         p.req_num = s_cur_req_num[s], p.pkt_num < s_num_rx[s], p.pkt_num # p.size - 1,
         NEW q, q = CrPkt(p)
  PROVE  q \in Packet /\ PktInv(q)
<1>1. /\ p.req_num \in Nat /\ p.pkt_num \in Nat /\ p.size \in Nat
  BY PacketFields
<1>2. p.pkt_num < p.size /\ p.size = SrvReqPkts(s) /\ 0 < p.req_num
  BY DEF PktInv, ReqPktInv
<1>3. /\ q.type = ExplCR /\ q.sslot = s /\ q.req_num = p.req_num /\ q.pkt_num = p.pkt_num
  BY DEF CrPkt
<1>4. q \in Packet
  BY <1>1 DEF CrPkt, Packet, NoData, Chunk
<1>5. q.type # Req /\ q.type # RFR /\ q.type # Resp
  BY <1>3 DEF Req, RFR, ExplCR, Resp
<1>6. CrPktInv(q)
  BY <1>1, <1>2, <1>3, SlotTypes DEF CrPktInv
<1> QED
  BY <1>3, <1>4, <1>5, <1>6 DEF PktInv

\* process_large_req_one_st, out of order, keeps the invariant.
LEMMA ProcessLargeReqOldStep ==
  ASSUME IInv, NEW p \in net, ProcessLargeReqOld(p)
  PROVE  IInv'
<1>s. PICK s \in Sslots : s = p.sslot
  BY PacketFields DEF IInv
<1>0. TypeOK /\ PktInv(p)
  BY DEF IInv, NetInv
<1>1. UNCHANGED clientVars /\ UNCHANGED serverState /\ p.type = Req
  BY DEF ProcessLargeReqOld, serverState
<1>2. CASE ServerTx({}, {}, FALSE, {p})
  BY <1>1, <1>2, ServerTxNone, ServerSendNone
<1>3. CASE ResendResp(s, 0, {p}) /\ s_tx_msgbuf[s] # NoMsg
  BY <1>1, <1>3, ResendStep
<1>4. CASE /\ ServerTx({}, {CrPkt(p)}, FALSE, {p})
           /\ p.req_num = s_cur_req_num[s] /\ ~(p.pkt_num > s_num_rx[s])
           /\ p.pkt_num # p.size - 1
  <2>q. PICK q : q = CrPkt(p)
    OBVIOUS
  <2>1. ServerSent({q})
    BY <1>4, <2>q, ServerTxHdr
  <2>2. p.pkt_num < s_num_rx[s]
    BY <1>0, <1>4, <1>s, PacketFields, SlotTypes DEF ProcessLargeReqOld, in_order_large_req
  <2>3. q \in Packet /\ PktInv(q)
    BY <1>0, <1>1, <1>4, <1>s, <2>q, <2>2, OldCrPkt
  <2> QED
    BY <1>1, <2>1, <2>3, ServerSendOne
<1> QED
  BY <1>s, <1>2, <1>3, <1>4 DEF ProcessLargeReqOld

\* process_rfr_st, dropped RFR, keeps the invariant.
LEMMA ProcessRFRDropStep ==
  ASSUME IInv, NEW p \in net, ProcessRFRDrop(p)
  PROVE  IInv'
<1>1. UNCHANGED clientVars /\ UNCHANGED serverState /\ ServerTx({}, {}, FALSE, {p})
  BY DEF ProcessRFRDrop, serverState
<1> QED
  BY <1>1, ServerTxNone, ServerSendNone

\* A server step leaves the sslots other than s alone.
ServerFrame(s) ==
    \A t \in Sslots \ {s} :
        /\ s_tx_msgbuf'[t] = s_tx_msgbuf[t] /\ s_cur_req_num'[t] = s_cur_req_num[t]
        /\ s_num_rx'[t] = s_num_rx[t] /\ req_pkts'[t] = req_pkts[t]
        /\ req_type'[t] = req_type[t] /\ serving'[t] = serving[t]
        /\ sav_num_req_pkts'[t] = sav_num_req_pkts[t]

\* The types after a server step.
ServerTypes ==
    /\ s_tx_msgbuf' \in [Sslots -> Msg] /\ s_cur_req_num' \in [Sslots -> Nat]
    /\ s_num_rx' \in [Sslots -> Nat] /\ req_pkts' \in [Sslots -> Nat]
    /\ req_data' \in [Sslots -> ReqBuf] /\ req_type' \in [Sslots -> BOOLEAN]
    /\ serving' \in [Sslots -> 0..NumRpcs]
    /\ sav_num_req_pkts' \in [Sslots -> Nat] /\ runs' \in [Rpcs -> Nat]
    /\ answer' \in [Rpcs -> Nat]

\* The general form of a server step that changes sslot s.
LEMMA ServerStep ==
  ASSUME IInv, UNCHANGED clientVars, NEW s \in Sslots, NEW New, ServerTypes,
         ServerFrame(s), SrvInv(s)', PairSlotInv(s)', New \subseteq Packet,
         ServerSent(New), PacketsValid(s, New)
  PROVE  IInv'
<1>1. TypeOK'
  <2>1. net' \subseteq Packet /\ s_tx_queue' \subseteq Packet
    BY DEF IInv, TypeOK, ServerSent
  <2> QED
    BY <2>1 DEF IInv, TypeOK, clientVars, ServerTypes
<1>2. ClientInv' /\ StallqInv' /\ BacklogInv' /\ CreditInv'
  BY ClientHalfUnchanged
<1>3. ServerInv'
  <2> SUFFICES ASSUME NEW t \in Sslots, t # s PROVE SrvInv(t)'
    BY DEF ServerInv
  <2>1. SrvInv(t)
    BY DEF IInv, ServerInv
  <2> QED
    BY <2>1 DEF ServerFrame, SrvInv, SrvFresh, SrvReceiving, SrvPending, SrvDone
<1>4. PairInv'
  <2> SUFFICES ASSUME NEW t \in Sslots, t # s PROVE PairSlotInv(t)'
    BY DEF PairInv
  <2>1. PairSlotInv(t)
    BY DEF IInv, PairInv
  <2> QED
    BY <2>1 DEF ServerFrame, PairSlotInv, clientVars, Active, SrvFresh, SrvAllSent, SrvDone, SrvReqPkts
<1>5. NetInv'
  <2> SUFFICES ASSUME NEW p \in net \cup tx_queue \cup s_tx_queue, p.sslot # s
               PROVE  PktInv(p)'
    BY DEF NetInv, PacketsValid, ServerSent, clientVars
  <2>1. p.sslot \in Sslots /\ PktInv(p)
    BY PacketFields DEF IInv, NetInv
  <2> QED
    BY <2>1 DEF ServerFrame, PktInv, ReqPktInv, RfrPktInv, CrPktInv, RespPktInv,
       clientVars, Active, SrvDone, SrvReqPkts
<1>6. TxQueueInv'
  BY DEF IInv, TxQueueInv, ServerSent, clientVars
<1> QED
  BY <1>1, <1>2, <1>3, <1>4, <1>5, <1>6 DEF IInv

\* The first packet of a new request finds the client at that request and the
\* server done with the previous one.
LEMMA NewRequest ==
  ASSUME IInv, NEW p \in net, p.type = Req, NEW s \in Sslots, s = p.sslot,
         p.req_num > s_cur_req_num[s]
  PROVE  /\ p.req_num = cur_req_num[s] /\ cur_req_num[s] = s_cur_req_num[s] + 1
         /\ Active(s) /\ num_rx[s] = 0 /\ p.size = tx_msgbuf[s].pkts
         /\ p.pkt_num < num_tx[s] /\ p.size > 0
         /\ SrvFresh(s) \/ SrvDone(s)
<1>1. TypeOK /\ PairSlotInv(s) /\ PktInv(p)
  BY DEF IInv, PairInv, NetInv
<1>2. /\ p.req_num \in Nat /\ p.pkt_num \in Nat /\ p.size \in Nat
      /\ cur_req_num[s] \in Nat /\ s_cur_req_num[s] \in Nat
  BY <1>1, PacketFields, SlotTypes
<1>3. p.req_num <= cur_req_num[s] /\ p.pkt_num < p.size
  BY <1>1 DEF PktInv, ReqPktInv
<1>4. p.req_num = cur_req_num[s] /\ cur_req_num[s] = s_cur_req_num[s] + 1
  BY <1>1, <1>2, <1>3 DEF PairSlotInv
<1>5. Active(s) /\ num_rx[s] = 0 /\ (SrvFresh(s) \/ SrvDone(s))
  BY <1>1, <1>4 DEF PairSlotInv
<1>6. p.size = tx_msgbuf[s].pkts /\ p.pkt_num < num_tx[s]
  BY <1>1, <1>4, <1>5 DEF PktInv, ReqPktInv
<1> QED
  BY <1>2, <1>3, <1>4, <1>5, <1>6

\* When the server moves to the client's request, whose length it now knows,
\* the packets sent before are still valid: those of older requests are inert.
LEMMA PktInvNewRequest ==
  ASSUME IInv, UNCHANGED clientVars, NEW s \in Sslots,
         cur_req_num[s] = s_cur_req_num[s] + 1, Active(s),
         s_cur_req_num'[s] = cur_req_num[s], SrvReqPkts(s)' = tx_msgbuf[s].pkts
  PROVE  \A q \in net \cup tx_queue \cup s_tx_queue : q.sslot = s => PktInv(q)'
<1> SUFFICES ASSUME NEW q \in net \cup tx_queue \cup s_tx_queue, q.sslot = s
             PROVE  PktInv(q)'
  OBVIOUS
<1>1. TypeOK /\ PktInv(q)
  BY DEF IInv, NetInv
<1>2. q.req_num \in Nat /\ s_cur_req_num[s] \in Nat /\ cur_req_num[s] \in Nat
  BY <1>1, PacketFields, SlotTypes
<1>3. /\ cur_req_num'[s] = cur_req_num[s] /\ tx_msgbuf'[s] = tx_msgbuf[s]
      /\ num_tx'[s] = num_tx[s] /\ Active(s)'
  BY DEF clientVars, Active
<1>4. q.type = Req => ReqPktInv(q)'
  BY <1>1, <1>2, <1>3 DEF PktInv, ReqPktInv
<1>5. q.type = RFR => RfrPktInv(q)'
  BY <1>1, <1>2, <1>3 DEF PktInv, RfrPktInv
<1>6. q.type = ExplCR => CrPktInv(q)'
  BY <1>1, <1>2, <1>3 DEF PktInv, CrPktInv
<1>7. q.type = Resp => RespPktInv(q)'
  BY <1>1, <1>2, <1>3 DEF PktInv, RespPktInv
<1> QED
  BY <1>4, <1>5, <1>6, <1>7 DEF PktInv

\* The handler counts of a step that may invoke a handler stay naturals.
LEMMA RunsType ==
  ASSUME TypeOK, NEW r, runs' = [runs EXCEPT ![r] = @ + 1]
  PROVE  runs' \in [Rpcs -> Nat]
<1>1. runs \in [Rpcs -> Nat]
  BY DEF TypeOK
<1>2. CASE r \in Rpcs
  BY <1>1, <1>2
<1>3. CASE r \notin Rpcs
  BY <1>1, <1>3
<1> QED
  BY <1>2, <1>3

\* process_small_req_st, new request, keeps the invariant.
LEMMA ProcessSmallReqNewStep ==
  ASSUME IInv, NEW p \in net, ProcessSmallReqNew(p)
  PROVE  IInv'
<1>s. PICK s \in Sslots : s = p.sslot
  BY PacketFields DEF IInv
<1>0. TypeOK /\ p.type = Req /\ p.size = 1 /\ p.req_num > s_cur_req_num[s]
  BY <1>s DEF IInv, ProcessSmallReqNew
<1>b. PICK buf : buf = [i \in 0..(MaxReqPkts - 1) |-> IF i = 0 THEN p.data ELSE NoData]
  OBVIOUS
<1>k. PICK kept : kept = IF p.data.rpc \in Foreground
                         THEN [i \in 0..(MaxReqPkts - 1) |-> NoData] ELSE buf
  OBVIOUS
<1>1. /\ p.req_num = cur_req_num[s] /\ cur_req_num[s] = s_cur_req_num[s] + 1
      /\ Active(s) /\ num_rx[s] = 0 /\ p.size = tx_msgbuf[s].pkts
      /\ p.pkt_num < num_tx[s]
  BY <1>0, <1>s, NewRequest
<1>2. /\ s_tx_msgbuf' = [s_tx_msgbuf EXCEPT ![s] = NoMsg]
      /\ s_cur_req_num' = [s_cur_req_num EXCEPT ![s] = p.req_num]
      /\ s_num_rx' = [s_num_rx EXCEPT ![s] = 1]
      /\ req_pkts' = [req_pkts EXCEPT ![s] = 1]
      /\ req_data' = [req_data EXCEPT ![s] = kept]
      /\ req_type' = [req_type EXCEPT ![s] = TRUE]
      /\ serving' = [serving EXCEPT ![s] = buf[0].rpc]
      /\ runs' = [runs EXCEPT ![buf[0].rpc] = @ + 1]
      /\ ServerTx({}, {}, FALSE, {p})
      /\ UNCHANGED <<sav_num_req_pkts, answer>> /\ UNCHANGED clientVars
  BY <1>s, <1>b, <1>k DEF ProcessSmallReqNew, InvokeHandler
<1>3. p.req_num \in Nat /\ p.data \in Chunk /\ p.pkt_num \in Nat /\ num_tx[s] \in Nat
  BY <1>0, PacketFields, SlotTypes
<1>4. ServerTypes
  <2>1. buf \in ReqBuf
    BY <1>b, <1>3 DEF ReqBuf, NoData, Chunk
  <2>a. kept \in ReqBuf
    BY <1>k, <2>1 DEF ReqBuf, NoData, Chunk
  <2>2. req_data' \in [Sslots -> ReqBuf]
    BY <1>0, <1>2, <2>a DEF TypeOK
  <2>5. serving' \in [Sslots -> 0..NumRpcs]
    <3>1. 0 \in 0..(MaxReqPkts - 1)
      BY BoundsAssumption
    <3>2. buf[0].rpc \in 0..NumRpcs
      BY <2>1, <3>1 DEF ReqBuf, Chunk
    <3> QED
      BY <1>0, <1>2, <3>2 DEF TypeOK
  <2>3. s_tx_msgbuf' \in [Sslots -> Msg]
    BY <1>0, <1>2 DEF TypeOK, NoMsg, Msg
  <2>4. runs' \in [Rpcs -> Nat]
    BY <1>0, <1>2, RunsType
  <2> QED
    BY <1>0, <1>2, <1>3, <2>2, <2>3, <2>4, <2>5 DEF TypeOK, ServerTypes
<1>5. ServerFrame(s)
  BY <1>0, <1>2 DEF ServerFrame, TypeOK
<1>6. /\ s_tx_msgbuf'[s] = NoMsg /\ s_cur_req_num'[s] = cur_req_num[s]
      /\ s_num_rx'[s] = 1 /\ req_pkts'[s] = 1 /\ req_type'[s]
      /\ cur_req_num[s] \in Nat /\ cur_req_num[s] > 0
  BY <1>0, <1>1, <1>2, <1>3, ActiveReqNum DEF TypeOK
<1>7. SrvPending(s)' /\ SrvReqPkts(s)' = 1
  BY <1>6 DEF SrvPending, SrvReqPkts
<1>8. PairSlotInv(s)'
  <2>1. /\ cur_req_num'[s] = cur_req_num[s] /\ tx_msgbuf'[s] = tx_msgbuf[s]
        /\ num_tx'[s] = num_tx[s] /\ num_rx'[s] = 0 /\ Active(s)'
    BY <1>1, <1>2 DEF clientVars, Active
  <2> QED
    BY <1>0, <1>1, <1>3, <1>6, <1>7, <2>1 DEF PairSlotInv
<1>9. PacketsValid(s, {})
  BY <1>0, <1>1, <1>2, <1>6, <1>7, PktInvNewRequest DEF PacketsValid
<1>10. ServerSent({})
  BY <1>2, ServerTxNone
<1>11. SrvInv(s)'
  BY <1>7 DEF SrvInv
<1> QED
  BY <1>2, <1>4, <1>5, <1>8, <1>9, <1>10, <1>11, ServerStep

\* process_large_req_one_st, first packet of a request, keeps the invariant.
LEMMA LargeReqFirstStep ==
  ASSUME IInv, NEW p \in net, ProcessLargeReqNext(p), p.pkt_num = 0
  PROVE  IInv'
<1>s. PICK s \in Sslots : s = p.sslot
  BY PacketFields DEF IInv
<1>0. TypeOK /\ p.type = Req /\ p.size > 1 /\ in_order_large_req(p) /\ PktInv(p) /\ SrvInv(s)
  BY <1>s DEF IInv, ServerInv, NetInv, ProcessLargeReqNext
<1>3. /\ p.req_num \in Nat /\ p.data \in Chunk /\ p.pkt_num \in Nat /\ p.size \in Nat
      /\ num_tx[s] \in Nat /\ s_cur_req_num[s] \in Nat /\ p.req_num > 0
  BY <1>0, PacketFields, SlotTypes DEF PktInv, ReqPktInv
<1>a. p.req_num > s_cur_req_num[s]
  <2>1. CASE p.req_num = s_cur_req_num[s] /\ p.pkt_num = s_num_rx[s]
    <3>1. s_num_rx[s] = 0 /\ s_cur_req_num[s] > 0
      BY <1>3, <2>1
    <3>2. SrvDone(s) /\ FALSE
      BY <1>0, <3>1, SlotTypes DEF SrvInv, SrvFresh, SrvReceiving, SrvPending, SrvDone
    <3> QED
      BY <3>2
  <2> QED
    BY <1>0, <1>3, <1>s, <2>1 DEF in_order_large_req
<1>1. /\ p.req_num = cur_req_num[s] /\ cur_req_num[s] = s_cur_req_num[s] + 1
      /\ Active(s) /\ num_rx[s] = 0 /\ p.size = tx_msgbuf[s].pkts
      /\ p.pkt_num < num_tx[s]
  BY <1>0, <1>a, <1>s, NewRequest
<1>b. PICK buf : buf = [[i \in 0..(MaxReqPkts - 1) |-> NoData] EXCEPT ![p.pkt_num] = p.data]
  OBVIOUS
<1>q. PICK q : q = CrPkt(p)
  OBVIOUS
<1>2. /\ s_tx_msgbuf' = [s_tx_msgbuf EXCEPT ![s] = NoMsg]
      /\ s_cur_req_num' = [s_cur_req_num EXCEPT ![s] = p.req_num]
      /\ s_num_rx' = [s_num_rx EXCEPT ![s] = 1]
      /\ req_pkts' = [req_pkts EXCEPT ![s] = p.size]
      /\ req_data' = [req_data EXCEPT ![s] = buf]
      /\ UNCHANGED <<req_type, serving, runs>>
      /\ ServerTx({}, {q}, FALSE, {p})
      /\ UNCHANGED <<sav_num_req_pkts, answer>> /\ UNCHANGED clientVars
  <2>1. p.pkt_num # p.size - 1 /\ 1 # p.size
    BY <1>0, <1>3
  <2> QED
    BY <1>s, <1>b, <1>q, <2>1 DEF ProcessLargeReqNext
<1>4. ServerTypes
  <2>1. buf \in ReqBuf
    BY <1>b, <1>3 DEF ReqBuf, NoData, Chunk
  <2>2. req_data' \in [Sslots -> ReqBuf]
    BY <1>0, <1>2, <2>1 DEF TypeOK
  <2>3. s_tx_msgbuf' \in [Sslots -> Msg]
    BY <1>0, <1>2 DEF TypeOK, NoMsg, Msg
  <2> QED
    BY <1>0, <1>2, <1>3, <2>2, <2>3 DEF TypeOK, ServerTypes
<1>5. ServerFrame(s)
  BY <1>0, <1>2 DEF ServerFrame, TypeOK
<1>6. /\ s_tx_msgbuf'[s] = NoMsg /\ s_cur_req_num'[s] = cur_req_num[s]
      /\ s_num_rx'[s] = 1 /\ req_pkts'[s] = p.size /\ req_type'[s] = req_type[s]
      /\ cur_req_num[s] \in Nat /\ cur_req_num[s] > 0
  BY <1>0, <1>1, <1>2, <1>3, ActiveReqNum DEF TypeOK
<1>7. SrvReceiving(s)' /\ SrvReqPkts(s)' = p.size
  <2>1. ~req_type[s]
    BY <1>0, <1>s, <1>a, NewRequest DEF SrvFresh, SrvDone
  <2> QED
    BY <1>0, <1>3, <1>6, <2>1 DEF SrvReceiving, SrvReqPkts
<1>8. PairSlotInv(s)'
  <2>1. /\ cur_req_num'[s] = cur_req_num[s] /\ tx_msgbuf'[s] = tx_msgbuf[s]
        /\ num_tx'[s] = num_tx[s] /\ num_rx'[s] = 0 /\ Active(s)'
    BY <1>1, <1>2 DEF clientVars, Active
  <2> QED
    BY <1>0, <1>1, <1>3, <1>6, <1>7, <2>1 DEF PairSlotInv
<1>9. q \in Packet /\ PktInv(q)'
  <2>1. /\ q.type = ExplCR /\ q.sslot = s /\ q.req_num = p.req_num /\ q.pkt_num = 0
    BY <1>q, <1>s DEF CrPkt
  <2>2. q \in Packet
    BY <1>3, <1>q, <1>s DEF CrPkt, Packet, NoData, Chunk
  <2>3. q.type # Req /\ q.type # RFR /\ q.type # Resp
    BY <2>1 DEF Req, RFR, ExplCR, Resp
  <2>4. CrPktInv(q)'
    BY <1>0, <1>1, <1>3, <1>6, <1>7, <2>1 DEF CrPktInv
  <2> QED
    BY <2>1, <2>2, <2>3, <2>4 DEF PktInv
<1>10. ServerSent({q})
  BY <1>2, ServerTxHdr
<1>n. PICK New : New = {q}
  OBVIOUS
<1>11. PacketsValid(s, New) /\ New \subseteq Packet /\ ServerSent(New)
  BY <1>0, <1>1, <1>2, <1>6, <1>7, <1>9, <1>10, <1>n, PktInvNewRequest DEF PacketsValid
<1>12. SrvInv(s)'
  BY <1>7 DEF SrvInv
<1> QED
  BY <1>2, <1>4, <1>5, <1>8, <1>11, <1>12, ServerStep

\* While the server works on the client's current request, what it adds to
\* that request's state leaves the packets sent before valid.
LEMMA PktInvSameRequest ==
  ASSUME IInv, UNCHANGED clientVars, NEW s \in Sslots,
         s_cur_req_num'[s] = s_cur_req_num[s], SrvReqPkts(s)' = SrvReqPkts(s),
         s_num_rx'[s] \in Nat, s_num_rx'[s] >= s_num_rx[s],
         \/ ~SrvDone(s)
         \/ /\ SrvDone(s)' /\ s_tx_msgbuf'[s] = s_tx_msgbuf[s]
            /\ sav_num_req_pkts'[s] = sav_num_req_pkts[s]
  PROVE  \A q \in net \cup tx_queue \cup s_tx_queue : q.sslot = s => PktInv(q)'
<1> SUFFICES ASSUME NEW q \in net \cup tx_queue \cup s_tx_queue, q.sslot = s
             PROVE  PktInv(q)'
  OBVIOUS
<1>1. TypeOK /\ PktInv(q)
  BY DEF IInv, NetInv
<1>2. q.req_num \in Nat /\ q.pkt_num \in Nat /\ s_num_rx[s] \in Nat
  BY <1>1, PacketFields, SlotTypes
<1>3. /\ cur_req_num'[s] = cur_req_num[s] /\ tx_msgbuf'[s] = tx_msgbuf[s]
      /\ num_tx'[s] = num_tx[s] /\ Active(s)' = Active(s)
  BY DEF clientVars, Active
<1>4. q.type = Req => ReqPktInv(q)'
  BY <1>1, <1>2, <1>3 DEF PktInv, ReqPktInv
<1>5. q.type = RFR => RfrPktInv(q)'
  BY <1>1, <1>2, <1>3 DEF PktInv, RfrPktInv
<1>6. q.type = ExplCR => CrPktInv(q)'
  BY <1>1, <1>2, <1>3 DEF PktInv, CrPktInv
<1>7. q.type = Resp => RespPktInv(q)'
  BY <1>1, <1>2, <1>3 DEF PktInv, RespPktInv
<1> QED
  BY <1>4, <1>5, <1>6, <1>7 DEF PktInv

\* process_large_req_one_st, a later packet of a request, keeps the invariant.
LEMMA LargeReqNextStep ==
  ASSUME IInv, NEW p \in net, ProcessLargeReqNext(p), p.pkt_num # 0
  PROVE  IInv'
<1>s. PICK s \in Sslots : s = p.sslot
  BY PacketFields DEF IInv
<1>0. /\ TypeOK /\ p.type = Req /\ p.size > 1 /\ PktInv(p) /\ SrvInv(s) /\ PairSlotInv(s)
      /\ p.req_num = s_cur_req_num[s] /\ p.pkt_num = s_num_rx[s]
  BY <1>s DEF IInv, ServerInv, NetInv, PairInv, ProcessLargeReqNext, in_order_large_req
<1>1. /\ p.req_num \in Nat /\ p.data \in Chunk /\ p.pkt_num \in Nat /\ p.size \in Nat
      /\ p.req_num > 0 /\ p.pkt_num < p.size /\ p.size = SrvReqPkts(s)
  BY <1>0, <1>s, PacketFields DEF PktInv, ReqPktInv
<1>2. SrvReceiving(s) /\ req_pkts[s] = p.size
  BY <1>0, <1>1, SlotTypes
     DEF SrvInv, SrvFresh, SrvPending, SrvDone, SrvReceiving, SrvReqPkts
<1>3. ~SrvFresh(s) /\ ~SrvDone(s)
  BY <1>0, <1>2, SlotTypes DEF SrvFresh, SrvDone, SrvReceiving
<1>4. Active(s) /\ cur_req_num[s] = s_cur_req_num[s]
  BY <1>0, <1>3, SlotTypes DEF PairSlotInv
<1>5. p.pkt_num < num_tx[s] /\ num_tx[s] \in Nat /\ s_num_rx[s] \in Nat
  BY <1>0, <1>4, <1>s, SlotTypes DEF PktInv, ReqPktInv
<1>b. PICK buf : buf = [req_data[s] EXCEPT ![p.pkt_num] = p.data]
  OBVIOUS
<1>6. /\ UNCHANGED <<s_tx_msgbuf, s_cur_req_num, sav_num_req_pkts, answer>>
      /\ s_num_rx' = [s_num_rx EXCEPT ![s] = s_num_rx[s] + 1]
      /\ req_pkts' = [req_pkts EXCEPT ![s] = req_pkts[s]]
      /\ req_data' = [req_data EXCEPT ![s] = buf]
      /\ IF s_num_rx[s] + 1 = req_pkts[s]
         THEN /\ req_type' = [req_type EXCEPT ![s] = TRUE]
              /\ serving' = [serving EXCEPT ![s] = buf[0].rpc]
              /\ runs' = [runs EXCEPT ![buf[0].rpc] = @ + 1]
         ELSE UNCHANGED <<req_type, serving, runs>>
      /\ ServerTx({}, IF p.pkt_num # req_pkts[s] - 1 THEN {CrPkt(p)} ELSE {}, FALSE, {p})
      /\ UNCHANGED clientVars
  BY <1>s, <1>b DEF ProcessLargeReqNext, InvokeHandler
<1>7. ServerTypes
  <2>1. buf \in ReqBuf
    <3>1. req_data[s] \in ReqBuf
      BY <1>0, SlotTypes
    <3> QED
      BY <1>b, <1>1, <3>1 DEF ReqBuf
  <2>2. req_data' \in [Sslots -> ReqBuf]
    BY <1>0, <1>6, <2>1 DEF TypeOK
  <2>3. runs' \in [Rpcs -> Nat]
    <3>1. CASE s_num_rx[s] + 1 = req_pkts[s]
      BY <1>0, <1>6, <3>1, RunsType
    <3>2. CASE s_num_rx[s] + 1 # req_pkts[s]
      BY <1>0, <1>6, <3>2 DEF TypeOK
    <3> QED
      BY <3>1, <3>2
  <2>4. req_type' \in [Sslots -> BOOLEAN]
    BY <1>0, <1>6 DEF TypeOK
  <2>6. serving' \in [Sslots -> 0..NumRpcs]
    <3>1. 0 \in 0..(MaxReqPkts - 1)
      BY BoundsAssumption
    <3>2. buf[0].rpc \in 0..NumRpcs
      BY <2>1, <3>1 DEF ReqBuf, Chunk
    <3> QED
      BY <1>0, <1>6, <3>2 DEF TypeOK
  <2>5. s_num_rx' \in [Sslots -> Nat] /\ req_pkts' \in [Sslots -> Nat]
    BY <1>0, <1>5, <1>6 DEF TypeOK
  <2> QED
    BY <1>0, <1>6, <2>2, <2>3, <2>4, <2>5, <2>6 DEF TypeOK, ServerTypes
<1>8. ServerFrame(s)
  <2>1. \A t \in Sslots \ {s} : s_num_rx'[t] = s_num_rx[t] /\ req_pkts'[t] = req_pkts[t]
    BY <1>0, <1>6 DEF TypeOK
  <2>2. \A t \in Sslots \ {s} : req_type'[t] = req_type[t] /\ serving'[t] = serving[t]
    BY <1>0, <1>6 DEF TypeOK
  <2> QED
    BY <1>6, <2>1, <2>2 DEF ServerFrame
<1>9. /\ s_num_rx'[s] = s_num_rx[s] + 1 /\ req_pkts'[s] = req_pkts[s]
      /\ s_num_rx[s] + 1 = req_pkts[s] => req_type'[s]
      /\ s_num_rx[s] + 1 # req_pkts[s] => ~req_type'[s]
  BY <1>0, <1>2, <1>6 DEF TypeOK, SrvReceiving
<1>10. SrvReqPkts(s)' = p.size /\ SrvReqPkts(s) = p.size
  BY <1>1, <1>2, <1>9 DEF SrvReqPkts
<1>11. SrvInv(s)'
  <2>1. CASE s_num_rx[s] + 1 = req_pkts[s]
    <3>1. SrvPending(s)'
      BY <1>1, <1>2, <1>5, <1>6, <1>9, <2>1 DEF SrvReceiving, SrvPending
    <3> QED
      BY <3>1 DEF SrvInv
  <2>2. CASE s_num_rx[s] + 1 # req_pkts[s]
    <3>1. SrvReceiving(s)'
      BY <1>1, <1>2, <1>5, <1>6, <1>9, <2>2 DEF SrvReceiving
    <3> QED
      BY <3>1 DEF SrvInv
  <2> QED
    BY <2>1, <2>2
<1>12. PairSlotInv(s)'
  <2>1. /\ cur_req_num'[s] = cur_req_num[s] /\ tx_msgbuf'[s] = tx_msgbuf[s]
        /\ num_tx'[s] = num_tx[s] /\ num_rx'[s] = num_rx[s] /\ Active(s)'
        /\ s_cur_req_num'[s] = s_cur_req_num[s]
    BY <1>4, <1>6 DEF clientVars, Active
  <2>2. /\ num_rx[s] <= s_num_rx[s] /\ num_rx[s] < tx_msgbuf[s].pkts
        /\ tx_msgbuf[s].pkts = p.size /\ num_rx[s] \in Nat
    BY <1>0, <1>3, <1>4, <1>10, SlotTypes DEF PairSlotInv
  <2> QED
    BY <1>0, <1>1, <1>4, <1>5, <1>9, <1>10, <2>1, <2>2 DEF PairSlotInv
<1>13. \A q \in net \cup tx_queue \cup s_tx_queue : q.sslot = s => PktInv(q)'
  <2>1. /\ s_cur_req_num'[s] = s_cur_req_num[s] /\ SrvReqPkts(s)' = SrvReqPkts(s)
        /\ s_num_rx'[s] \in Nat /\ s_num_rx'[s] >= s_num_rx[s]
    BY <1>5, <1>6, <1>9, <1>10
  <2> QED
    BY <1>3, <1>6, <2>1, PktInvSameRequest
<1>14. CASE p.pkt_num = req_pkts[s] - 1
  <2>1. ServerSent({})
    BY <1>6, <1>14, ServerTxNone
  <2>2. PacketsValid(s, {})
    BY <1>13 DEF PacketsValid
  <2> QED
    BY <1>6, <1>7, <1>8, <1>11, <1>12, <2>1, <2>2, ServerStep
<1>15. CASE p.pkt_num # req_pkts[s] - 1
  <2>q. PICK q : q = CrPkt(p)
    OBVIOUS
  <2>n. PICK New : New = {q}
    OBVIOUS
  <2>1. ServerSent({q})
    BY <1>6, <1>15, <2>q, ServerTxHdr
  <2>2. /\ q.type = ExplCR /\ q.sslot = s /\ q.req_num = p.req_num /\ q.pkt_num = p.pkt_num
    BY <2>q, <1>s DEF CrPkt
  <2>3. q \in Packet
    BY <1>1, <2>q, <1>s DEF CrPkt, Packet, NoData, Chunk
  <2>4. q.type # Req /\ q.type # RFR /\ q.type # Resp
    BY <2>2 DEF Req, RFR, ExplCR, Resp
  <2>5. CrPktInv(q)'
    BY <1>0, <1>1, <1>2, <1>5, <1>6, <1>9, <1>10, <1>15, <2>2 DEF CrPktInv
  <2>6. PktInv(q)'
    BY <2>2, <2>4, <2>5 DEF PktInv
  <2>7. ServerSent(New) /\ PacketsValid(s, New) /\ New \subseteq Packet
    BY <1>13, <2>1, <2>3, <2>6, <2>n DEF PacketsValid
  <2> QED
    BY <1>6, <1>7, <1>8, <1>11, <1>12, <2>7, ServerStep
<1> QED
  BY <1>14, <1>15

\* enqueue_response keeps the invariant.
LEMMA EnqueueResponseStep ==
  ASSUME IInv, NEW s \in Sslots, NEW pkts \in 1..MaxRespPkts, EnqueueResponse(s, pkts)
  PROVE  IInv'
<1>0. TypeOK /\ SrvInv(s) /\ PairSlotInv(s) /\ req_type[s]
  BY DEF IInv, ServerInv, PairInv, EnqueueResponse
<1>1. SrvPending(s) /\ ~SrvFresh(s) /\ ~SrvDone(s)
  BY <1>0 DEF SrvInv, SrvFresh, SrvReceiving, SrvDone
<1>2. /\ Active(s) /\ cur_req_num[s] = s_cur_req_num[s]
      /\ num_rx[s] < tx_msgbuf[s].pkts /\ tx_msgbuf[s].pkts = req_pkts[s]
  BY <1>0, <1>1, SlotTypes DEF PairSlotInv, SrvReqPkts, SrvPending
<1>m. PICK m \in Msg : m = [rpc |-> serving[s], pkts |-> pkts] /\ m.pkts = pkts
  <2>1. serving[s] \in 0..NumRpcs /\ pkts \in Nat
    BY <1>0, SlotTypes
  <2>2. [rpc |-> serving[s], pkts |-> pkts] \in Msg
    BY <2>1 DEF Msg
  <2> QED
    BY <2>2
<1>q. PICK q : q = RespPkt(s, s_cur_req_num[s], m, 0, req_pkts[s])
  OBVIOUS
<1>n. PICK New : New = {q}
  OBVIOUS
<1>3. /\ s_tx_msgbuf' = [s_tx_msgbuf EXCEPT ![s] = m]
      /\ sav_num_req_pkts' = [sav_num_req_pkts EXCEPT ![s] = req_pkts[s]]
      /\ req_pkts' = [req_pkts EXCEPT ![s] = 0]
      /\ req_type' = [req_type EXCEPT ![s] = FALSE]
      /\ serving' = [serving EXCEPT ![s] = 0]
      /\ answer' = [answer EXCEPT ![m.rpc] = pkts]
      /\ ServerTx({q}, {}, FALSE, {})
      /\ UNCHANGED <<s_cur_req_num, s_num_rx, req_data, runs>> /\ UNCHANGED clientVars
  BY <1>m, <1>q DEF EnqueueResponse
<1>4. /\ s_num_rx[s] \in Nat /\ s_cur_req_num[s] \in Nat /\ req_pkts[s] \in Nat
      /\ req_pkts[s] > 0 /\ s_num_rx[s] = req_pkts[s] /\ s_cur_req_num[s] > 0
      /\ pkts \in Nat /\ pkts > 0
  BY <1>0, <1>1, SlotTypes DEF SrvPending
<1>5. ServerTypes
  <2>1. s_tx_msgbuf' \in [Sslots -> Msg] /\ sav_num_req_pkts' \in [Sslots -> Nat]
        /\ req_pkts' \in [Sslots -> Nat] /\ req_type' \in [Sslots -> BOOLEAN]
    BY <1>0, <1>3, <1>4 DEF TypeOK
  <2>3. serving' \in [Sslots -> 0..NumRpcs]
    BY <1>0, <1>3, BoundsAssumption DEF TypeOK
  <2>2. answer' \in [Rpcs -> Nat]
    BY <1>0, <1>3, <1>4 DEF TypeOK
  <2> QED
    BY <1>0, <1>3, <2>1, <2>2, <2>3 DEF TypeOK, ServerTypes
<1>6. ServerFrame(s)
  BY <1>0, <1>3 DEF ServerFrame, TypeOK
<1>7. /\ s_tx_msgbuf'[s] = m /\ sav_num_req_pkts'[s] = req_pkts[s] /\ req_pkts'[s] = 0
      /\ ~req_type'[s] /\ s_num_rx'[s] = s_num_rx[s] /\ s_cur_req_num'[s] = s_cur_req_num[s]
  BY <1>0, <1>3 DEF TypeOK
<1>8. /\ SrvDone(s)' /\ SrvReqPkts(s)' = req_pkts[s] /\ SrvReqPkts(s) = req_pkts[s]
  BY <1>4, <1>7, <1>m DEF SrvDone, SrvReqPkts, wire_pkts
<1>9. PairSlotInv(s)'
  <2>1. /\ cur_req_num'[s] = cur_req_num[s] /\ tx_msgbuf'[s] = tx_msgbuf[s]
        /\ num_tx'[s] = num_tx[s] /\ num_rx'[s] = num_rx[s] /\ Active(s)'
    BY <1>2, <1>3 DEF clientVars, Active
  <2>2. num_rx[s] \in Nat
    BY <1>0, SlotTypes
  <2> QED
    BY <1>0, <1>2, <1>4, <1>7, <1>8, <2>1, <2>2 DEF PairSlotInv
<1>10. \A r \in net \cup tx_queue \cup s_tx_queue : r.sslot = s => PktInv(r)'
  <2>1. /\ s_cur_req_num'[s] = s_cur_req_num[s] /\ SrvReqPkts(s)' = SrvReqPkts(s)
        /\ s_num_rx'[s] \in Nat /\ s_num_rx'[s] >= s_num_rx[s]
    BY <1>4, <1>7, <1>8
  <2> QED
    BY <1>1, <1>3, <2>1, PktInvSameRequest
<1>11. q \in Packet /\ PktInv(q)' /\ q.type = Resp
  <2>1. /\ q.type = Resp /\ q.sslot = s /\ q.req_num = s_cur_req_num[s]
        /\ q.pkt_num = req_pkts[s] - 1 + 0 /\ q.size = m.pkts
    BY <1>q DEF RespPkt
  <2>2. q \in Packet
    <3>1. m.rpc \in 0..NumRpcs /\ m.pkts \in Nat /\ req_pkts[s] - 1 + 0 \in Nat
      BY <1>4 DEF Msg
    <3>2. [rpc |-> m.rpc, idx |-> 0] \in Chunk
      BY <3>1 DEF Chunk
    <3> QED
      BY <1>4, <1>q, <3>1, <3>2 DEF RespPkt, Packet
  <2>3. q.type # Req /\ q.type # RFR /\ q.type # ExplCR
    BY <2>1 DEF Req, RFR, ExplCR, Resp
  <2>4. RespPktInv(q)'
    BY <1>4, <1>7, <1>8, <2>1 DEF RespPktInv
  <2> QED
    BY <2>1, <2>2, <2>3, <2>4 DEF PktInv
<1>12. ServerSent({q})
  BY <1>3, <1>11, ServerTxResp
<1>13. ServerSent(New) /\ PacketsValid(s, New) /\ New \subseteq Packet
  BY <1>10, <1>11, <1>12, <1>n DEF PacketsValid
<1>14. SrvInv(s)'
  BY <1>8 DEF SrvInv
<1> QED
  BY <1>3, <1>5, <1>6, <1>9, <1>13, <1>14, ServerStep

\* process_rfr_st keeps the invariant: an RFR of the current request is for a
\* packet of the response the server holds.
LEMMA ProcessRFRStep ==
  ASSUME IInv, NEW p \in net, ProcessRFR(p)
  PROVE  IInv'
<1>s. PICK s \in Sslots : s = p.sslot
  BY PacketFields DEF IInv
<1>0. /\ TypeOK /\ SrvInv(s) /\ PairSlotInv(s) /\ PktInv(p) /\ p.type = RFR
      /\ p.req_num >= s_cur_req_num[s] /\ p.pkt_num <= s_num_rx[s]
  BY <1>s DEF IInv, ServerInv, PairInv, NetInv, ProcessRFR
<1>1. /\ p.req_num \in Nat /\ p.pkt_num \in Nat /\ s_cur_req_num[s] \in Nat
      /\ s_num_rx[s] \in Nat /\ sav_num_req_pkts[s] \in Nat /\ s_tx_msgbuf[s].pkts \in Nat
      /\ num_tx[s] \in Nat /\ num_rx[s] \in Nat
  BY <1>0, PacketFields, SlotTypes
<1>2. p.req_num = s_cur_req_num[s]
  BY <1>0, <1>1, <1>s DEF PktInv, RfrPktInv
<1>3. /\ SrvDone(s) /\ sav_num_req_pkts[s] <= p.pkt_num
      /\ p.pkt_num < wire_pkts(sav_num_req_pkts[s], s_tx_msgbuf[s].pkts)
      /\ cur_req_num[s] = s_cur_req_num[s] /\ Active(s) => p.pkt_num < num_tx[s]
  BY <1>0, <1>2, <1>s DEF PktInv, RfrPktInv
<1>i. PICK i \in Nat : /\ i = resp_ntoi(p.pkt_num, sav_num_req_pkts[s])
                       /\ sav_num_req_pkts[s] - 1 + i = p.pkt_num
  <2>1. p.pkt_num - (sav_num_req_pkts[s] - 1) \in Nat
    BY <1>1, <1>3 DEF SrvDone
  <2> QED
    BY <1>1, <2>1 DEF resp_ntoi
<1>q. PICK q : q = RespPkt(s, s_cur_req_num[s], s_tx_msgbuf[s], i, sav_num_req_pkts[s])
  OBVIOUS
<1>4. UNCHANGED clientVars
  BY DEF ProcessRFR
<1>5. CASE p.pkt_num # s_num_rx[s]
  <2>1. UNCHANGED serverState /\ ResendResp(s, i, {p})
    BY <1>5, <1>s, <1>i DEF ProcessRFR, serverState
  <2>2. q \in Packet /\ PktInv(q) /\ q.type = Resp
    <3>1. sav_num_req_pkts[s] - 1 + i < s_num_rx[s]
      BY <1>0, <1>1, <1>5, <1>i
    <3> QED
      BY <1>0, <1>3, <1>q, <3>1, OldRespPkt
  <2>3. ServerSent({q})
    BY <1>q, <2>1, <2>2, ServerTxResp DEF ResendResp
  <2> QED
    BY <1>4, <2>1, <2>2, <2>3, ServerSendOne
<1>6. CASE p.pkt_num = s_num_rx[s]
  <2>1. /\ s_num_rx' = [s_num_rx EXCEPT ![s] = @ + 1]
        /\ ServerTx({q}, {}, FALSE, {p})
        /\ UNCHANGED <<s_tx_msgbuf, s_cur_req_num, req_pkts, req_data, req_type,
                       serving, sav_num_req_pkts, runs, answer>>
    BY <1>2, <1>6, <1>s, <1>i, <1>q DEF ProcessRFR
  <2>2. /\ s_num_rx' \in [Sslots -> Nat] /\ s_num_rx'[s] = s_num_rx[s] + 1
        /\ \A t \in Sslots \ {s} : s_num_rx'[t] = s_num_rx[t]
    BY <1>0, <2>1 DEF TypeOK
  <2>3. ServerTypes
    BY <1>0, <2>1, <2>2 DEF TypeOK, ServerTypes
  <2>4. ServerFrame(s)
    BY <2>1, <2>2 DEF ServerFrame
  <2>5. SrvDone(s)' /\ SrvReqPkts(s)' = SrvReqPkts(s)
    <3>1. s_num_rx[s] + 1 <= wire_pkts(sav_num_req_pkts[s], s_tx_msgbuf[s].pkts)
      BY <1>1, <1>3, <1>6 DEF wire_pkts
    <3> QED
      BY <1>1, <1>3, <2>1, <2>2, <3>1 DEF SrvDone, SrvReqPkts
  <2>6. PairSlotInv(s)'
    <3>1. /\ cur_req_num'[s] = cur_req_num[s] /\ tx_msgbuf'[s] = tx_msgbuf[s]
          /\ num_tx'[s] = num_tx[s] /\ num_rx'[s] = num_rx[s] /\ Active(s)' = Active(s)
          /\ resp_pkts'[s] = resp_pkts[s] /\ s_cur_req_num'[s] = s_cur_req_num[s]
      BY <1>4, <2>1 DEF clientVars, Active
    <3>2. Active(s)
      <4>1. ~SrvFresh(s) /\ ~SrvAllSent(s)
        BY <1>1, <1>3, <1>6 DEF SrvFresh, SrvDone, SrvAllSent
      <4>2. cur_req_num[s] \in Nat
        BY <1>0, SlotTypes
      <4> QED
        BY <1>0, <1>1, <4>1, <4>2 DEF PairSlotInv
    <3> QED
      BY <1>0, <1>1, <1>3, <1>6, <2>1, <2>2, <2>5, <3>1, <3>2 DEF PairSlotInv
  <2>7. \A r \in net \cup tx_queue \cup s_tx_queue : r.sslot = s => PktInv(r)'
    <3>1. /\ s_cur_req_num'[s] = s_cur_req_num[s] /\ s_num_rx'[s] \in Nat
          /\ s_num_rx'[s] >= s_num_rx[s] /\ s_tx_msgbuf'[s] = s_tx_msgbuf[s]
          /\ sav_num_req_pkts'[s] = sav_num_req_pkts[s]
      BY <1>1, <2>1, <2>2
    <3> QED
      BY <1>4, <2>5, <3>1, PktInvSameRequest
  <2>8. q \in Packet /\ PktInv(q)' /\ q.type = Resp
    <3>1. /\ s_tx_msgbuf[s] \in Msg /\ sav_num_req_pkts[s] > 0 /\ s_cur_req_num[s] > 0
      BY <1>0, <1>3, SlotTypes DEF SrvDone
    <3>2. /\ q.type = Resp /\ q.sslot = s /\ q.req_num = s_cur_req_num[s]
          /\ q.pkt_num = sav_num_req_pkts[s] - 1 + i /\ q.size = s_tx_msgbuf[s].pkts
      BY <1>q DEF RespPkt
    <3>3. q \in Packet
      <4>1. s_tx_msgbuf[s].rpc \in 0..NumRpcs /\ sav_num_req_pkts[s] - 1 + i \in Nat
        BY <1>1, <1>i, <3>1 DEF Msg
      <4>2. [rpc |-> s_tx_msgbuf[s].rpc, idx |-> i] \in Chunk
        BY <4>1 DEF Chunk
      <4> QED
        BY <1>1, <1>q, <4>1, <4>2 DEF RespPkt, Packet
    <3>4. q.type # Req /\ q.type # RFR /\ q.type # ExplCR
      BY <3>2 DEF Req, RFR, ExplCR, Resp
    <3>5. RespPktInv(q)'
      BY <1>1, <1>6, <1>i, <2>1, <2>2, <2>5, <3>1, <3>2 DEF RespPktInv
    <3> QED
      BY <3>2, <3>3, <3>4, <3>5 DEF PktInv
  <2>9. ServerSent({q})
    BY <2>1, <2>8, ServerTxResp
  <2>n. PICK New : New = {q}
    OBVIOUS
  <2>10. ServerSent(New) /\ PacketsValid(s, New) /\ New \subseteq Packet
    BY <2>7, <2>8, <2>9, <2>n DEF PacketsValid
  <2>11. SrvInv(s)'
    BY <2>5 DEF SrvInv
  <2> QED
    BY <1>4, <2>3, <2>4, <2>6, <2>10, <2>11, ServerStep
<1> QED
  BY <1>5, <1>6

-----------------------------------------------------------------------------
(* The theorems *)

\* A stuttering step keeps the invariant.
LEMMA StutterStep ==
  ASSUME IInv, UNCHANGED vars
  PROVE  IInv'
<1>1. /\ UNCHANGED clientState /\ UNCHANGED serverState
      /\ s_tx_queue' = s_tx_queue /\ tx_queue' = tx_queue /\ net' = net
  BY DEF vars, clientState, serverState
<1> QED
  BY <1>1, MoveStep

\* Every step of the specification keeps the invariant: one case per action.
LEMMA NextIInv ==
  ASSUME IInv, [Next]_vars
  PROVE  IInv'
<1>1. ASSUME NEW pkts \in 1..MaxReqPkts, EnqueueRequestBacklog(pkts) PROVE IInv'
  BY <1>1, EnqueueRequestBacklogStep
<1>2. ASSUME NEW s \in Sslots, NEW pkts \in 1..MaxReqPkts, EnqueueRequest(s, pkts)
      PROVE  IInv'
  BY <1>2, EnqueueRequestStep
<1>3. CASE ProcessCreditStallQueue
  BY <1>3, ProcessCreditStallQueueStep
<1>4. ASSUME NEW s \in Sslots, NEW k \in wheel[s], ProcessWheel(s, k) PROVE IInv'
  BY <1>4, ProcessWheelStep
<1>5. ASSUME NEW s \in Sslots, PktLossScan(s) PROVE IInv'
  BY <1>5, PktLossScanStep
<1>6. ASSUME NEW p \in net, ProcessPacket(p) PROVE IInv'
  <2>1. CASE ProcessExplCR(p) BY <2>1, ProcessExplCRStep
  <2>2. CASE ProcessRespDrop(p) BY <2>2, ProcessRespDropStep
  <2>3. CASE ProcessRespPartial(p) BY <2>3, ProcessRespPartialStep
  <2>4. CASE ProcessRespComplete(p) BY <2>4, ProcessRespCompleteStep
  <2>5. CASE ProcessSmallReqOld(p) BY <2>5, ProcessSmallReqOldStep
  <2>6. CASE ProcessSmallReqNew(p) BY <2>6, ProcessSmallReqNewStep
  <2>7. CASE ProcessLargeReqOld(p) BY <2>7, ProcessLargeReqOldStep
  <2>8. CASE ProcessLargeReqNext(p) BY <2>8, LargeReqFirstStep, LargeReqNextStep
  <2>9. CASE ProcessRFRDrop(p) BY <2>9, ProcessRFRDropStep
  <2>10. CASE ProcessRFR(p) BY <2>10, ProcessRFRStep
  <2> QED
    BY <1>6, <2>1, <2>2, <2>3, <2>4, <2>5, <2>6, <2>7, <2>8, <2>9, <2>10 DEF ProcessPacket
<1>7. ASSUME NEW s \in Sslots, NEW pkts \in 1..MaxRespPkts, EnqueueResponse(s, pkts)
      PROVE  IInv'
  BY <1>7, EnqueueResponseStep
<1>8. ASSUME NEW p \in tx_queue, ClientNicSend(p) PROVE IInv'
  BY <1>8, ClientNicSendStep
<1>9. ASSUME NEW p \in s_tx_queue, ServerNicSend(p) PROVE IInv'
  BY <1>9, ServerNicSendStep
<1>10. ASSUME NEW p \in net, LosePacket(p) PROVE IInv'
  BY <1>10, LosePacketStep
<1>11. CASE UNCHANGED vars
  BY <1>11, StutterStep
<1> QED
  BY <1>1, <1>2, <1>3, <1>4, <1>5, <1>6, <1>7, <1>8, <1>9, <1>10, <1>11 DEF Next

\* The inductive invariant holds in every reachable state, for any number of
\* sslots, credits, RPCs and packets, paced or not, whatever the network does.
THEOREM InvariantHolds == Spec => []IInv
<1>1. Init => IInv
  BY InitIInv
<1>2. IInv /\ [Next]_vars => IInv'
  BY NextIInv
<1> QED
  BY <1>1, <1>2, PTL DEF Spec

\* The counters and pointers of the datapath keep their types: no unsigned
\* subtraction of the handlers wraps below zero.
THEOREM TypesHold == Spec => []TypeOK
<1>1. IInv => TypeOK
  BY DEF IInv
<1> QED
  BY <1>1, InvariantHolds, PTL

\* bump_credits and pkt_loss_retransmit_st account for every credit: the
\* session's credits and the packets outstanding always add up.
THEOREM CreditsConserved == Spec => []CreditConservation
<1>1. IInv => CreditConservation
  BY DEF IInv, CreditInv
<1> QED
  BY <1>1, InvariantHolds, PTL

\* kick_req_st and kick_rfr_st never send beyond the request or the response.
THEOREM CountersStayInRange == Spec => []CountersInRange
<1>1. IInv => CountersInRange
  BY DEF IInv, ClientInv, CliInv, CountersInRange, Active
<1> QED
  BY <1>1, InvariantHolds, PTL

\* The asserts of process_small_req_st and process_large_req_one_st on a new
\* request: it does not skip a number and finds the previous request finished.
THEOREM NewRequestsFindServerIdle == Spec => []NewRequestFindsServerIdle
<1>1. IInv => NewRequestFindsServerIdle
  <2> SUFFICES ASSUME IInv, NEW p \in net, p.type = Req
               PROVE  /\ p.req_num <= s_cur_req_num[p.sslot] + 1
                      /\ p.req_num = s_cur_req_num[p.sslot] + 1 =>
                           req_pkts[p.sslot] = 0 /\ ~req_type[p.sslot]
    BY DEF NewRequestFindsServerIdle
  <2>s. PICK s \in Sslots : s = p.sslot
    BY PacketFields DEF IInv
  <2>1. TypeOK /\ PktInv(p) /\ PairSlotInv(s)
    BY DEF IInv, NetInv, PairInv
  <2>2. p.req_num \in Nat /\ s_cur_req_num[s] \in Nat /\ cur_req_num[s] \in Nat
    BY <2>1, PacketFields, SlotTypes
  <2>3. p.req_num <= s_cur_req_num[s] + 1
    BY <2>1, <2>2, <2>s DEF PktInv, ReqPktInv, PairSlotInv
  <2>4. ASSUME p.req_num = s_cur_req_num[s] + 1 PROVE req_pkts[s] = 0 /\ ~req_type[s]
    <3>1. p.req_num > s_cur_req_num[s]
      BY <2>2, <2>4
    <3> QED
      BY <2>s, <3>1, NewRequest DEF SrvFresh, SrvDone
  <2> QED
    BY <2>s, <2>3, <2>4
<1> QED
  BY <1>1, InvariantHolds, PTL

\* process_rfr_st always finds the response packet it is asked for.
THEOREM RfrsFindResponse == Spec => []RfrFindsResponse
<1>1. IInv => RfrFindsResponse
  <2> SUFFICES ASSUME IInv, NEW p \in net, p.type = RFR
               PROVE  /\ p.req_num <= s_cur_req_num[p.sslot]
                      /\ p.req_num = s_cur_req_num[p.sslot] =>
                           /\ s_tx_msgbuf[p.sslot] # NoMsg
                           /\ resp_ntoi(p.pkt_num, sav_num_req_pkts[p.sslot])
                                \in 1..(s_tx_msgbuf[p.sslot].pkts - 1)
    BY DEF RfrFindsResponse
  <2>s. PICK s \in Sslots : s = p.sslot
    BY PacketFields DEF IInv
  <2>1. TypeOK /\ RfrPktInv(p)
    BY DEF IInv, NetInv, PktInv
  <2>2. /\ p.pkt_num \in Nat /\ sav_num_req_pkts[s] \in Nat /\ s_tx_msgbuf[s].pkts \in Nat
    BY <2>1, PacketFields, SlotTypes
  <2>3. ASSUME p.req_num = s_cur_req_num[s]
        PROVE  /\ s_tx_msgbuf[s] # NoMsg
               /\ resp_ntoi(p.pkt_num, sav_num_req_pkts[s]) \in 1..(s_tx_msgbuf[s].pkts - 1)
    <3>1. /\ SrvDone(s) /\ sav_num_req_pkts[s] <= p.pkt_num
          /\ p.pkt_num < sav_num_req_pkts[s] + s_tx_msgbuf[s].pkts - 1
      BY <2>1, <2>3, <2>s DEF RfrPktInv, wire_pkts
    <3>2. s_tx_msgbuf[s] # NoMsg
      BY <3>1 DEF SrvDone, NoMsg
    <3> QED
      BY <2>2, <3>1, <3>2 DEF resp_ntoi
  <2> QED
    BY <2>s, <2>1, <2>3 DEF RfrPktInv
<1> QED
  BY <1>1, InvariantHolds, PTL

\* The client never hears of a request it has not sent, and never takes a
\* credit return for a response or the reverse.
THEOREM RepliesAlwaysMatch == Spec => []RepliesMatchRequests
<1>1. IInv => RepliesMatchRequests
  <2> SUFFICES ASSUME IInv, NEW p \in net, p.type \in {ExplCR, Resp}
               PROVE  /\ p.req_num <= cur_req_num[p.sslot]
                      /\ p.req_num = cur_req_num[p.sslot] /\ tx_msgbuf[p.sslot] # NoMsg =>
                           (p.type = Resp) = (p.pkt_num >= tx_msgbuf[p.sslot].pkts - 1)
    BY DEF RepliesMatchRequests
  <2>s. PICK s \in Sslots : s = p.sslot
    BY PacketFields DEF IInv
  <2>1. TypeOK /\ PktInv(p) /\ PairSlotInv(s)
    BY DEF IInv, NetInv, PairInv
  <2>2. /\ p.req_num \in Nat /\ p.pkt_num \in Nat /\ s_cur_req_num[s] \in Nat
        /\ cur_req_num[s] \in Nat /\ tx_msgbuf[s].pkts \in Nat
        /\ sav_num_req_pkts[s] \in Nat /\ req_pkts[s] \in Nat
    BY <2>1, PacketFields, SlotTypes
  <2>3. p.req_num <= s_cur_req_num[s]
    BY <2>1, <2>s DEF PktInv, CrPktInv, RespPktInv
  <2>4. p.req_num <= cur_req_num[s]
    BY <2>1, <2>2, <2>3 DEF PairSlotInv
  <2>5. ASSUME p.req_num = cur_req_num[s], tx_msgbuf[s] # NoMsg
        PROVE  (p.type = Resp) = (p.pkt_num >= tx_msgbuf[s].pkts - 1)
    <3>1. cur_req_num[s] = s_cur_req_num[s] /\ p.req_num = s_cur_req_num[s]
      BY <2>1, <2>2, <2>3, <2>5 DEF PairSlotInv
    <3>2. tx_msgbuf[s].pkts = SrvReqPkts(s)
      BY <2>1, <2>5, <3>1 DEF PairSlotInv, Active
    <3>3. CASE p.type = Resp
      <4>1. SrvDone(s) /\ sav_num_req_pkts[s] - 1 <= p.pkt_num
        BY <2>1, <2>s, <3>1, <3>3 DEF PktInv, RespPktInv
      <4>2. SrvReqPkts(s) = sav_num_req_pkts[s]
        BY <2>2, <4>1 DEF SrvDone, SrvReqPkts
      <4> QED
        BY <2>2, <3>2, <3>3, <4>1, <4>2
    <3>4. CASE p.type = ExplCR
      <4>1. p.pkt_num + 1 < tx_msgbuf[s].pkts
        BY <2>1, <2>s, <3>1, <3>2, <3>4 DEF PktInv, CrPktInv
      <4>2. ~(p.pkt_num >= tx_msgbuf[s].pkts - 1)
        BY <2>2, <4>1
      <4>3. p.type # Resp
        BY <3>4 DEF ExplCR, Resp
      <4> QED
        BY <4>2, <4>3
    <3> QED
      BY <3>3, <3>4
  <2> QED
    BY <2>s, <2>4, <2>5
<1> QED
  BY <1>1, InvariantHolds, PTL

\* An active request with nothing outstanding waits in the stall queue, from
\* where process_credit_stall_queue_st will send it.
THEOREM NoSlotIsStranded == Spec => []NoStrandedSlot
<1>1. IInv => NoStrandedSlot
  <2>1. IInv => DOMAIN stallq = 1..Len(stallq)
    BY DEF IInv, TypeOK
  <2> QED
    BY <2>1 DEF IInv, ClientInv, CliInv, NoStrandedSlot, Active
<1> QED
  BY <1>1, InvariantHolds, PTL

\* The stall queue holds active sslots that have sent nothing, each once.
THEOREM StalledSlotsAreIdle == Spec => []StalledSlotsIdle
<1>1. ASSUME IInv PROVE StalledSlotsIdle
  <2>1. /\ TypeOK /\ DOMAIN stallq = 1..Len(stallq)
        /\ \A i \in 1..Len(stallq) : stallq[i] \in Sslots
    BY <1>1, StallqTypes DEF IInv, TypeOK
  <2> SUFFICES ASSUME NEW i \in 1..Len(stallq)
               PROVE  /\ tx_msgbuf[stallq[i]] # NoMsg
                      /\ num_tx[stallq[i]] = 0 /\ num_rx[stallq[i]] = 0
                      /\ \A j \in 1..Len(stallq) : i # j => stallq[i] # stallq[j]
    BY <2>1 DEF StalledSlotsIdle
  <2>2. /\ tx_msgbuf[stallq[i]] # NoMsg /\ num_tx[stallq[i]] = 0
        /\ \A j \in 1..Len(stallq) : i # j => stallq[i] # stallq[j]
    BY <1>1 DEF IInv, StallqInv, Active
  <2>3. num_rx[stallq[i]] <= num_tx[stallq[i]] /\ num_rx[stallq[i]] \in Nat
    BY <1>1, <2>1, SlotTypes DEF IInv, ClientInv, CliInv
  <2> QED
    BY <2>2, <2>3
<1> QED
  BY <1>1, InvariantHolds, PTL

\* Once the continuation may run, nothing refers to the sslot any more, and
\* requests wait in the backlog only while every sslot is in use.
THEOREM FreeSlotsAreUnreferenced == Spec => []FreeSlotsUnreferenced
<1>1. ASSUME IInv PROVE FreeSlotsUnreferenced
  <2>1. TypeOK /\ DOMAIN stallq = 1..Len(stallq)
    BY <1>1 DEF IInv, TypeOK
  <2>2. \A s \in Sslots : s \in sslot_free <=> tx_msgbuf[s] = NoMsg
    BY <1>1 DEF IInv, ClientInv, CliInv, Active
  <2>3. ASSUME NEW s \in sslot_free
        PROVE  wheel[s] = {} /\ \A i \in 1..Len(stallq) : stallq[i] # s
    <3>1. s \in Sslots /\ CliInv(s) /\ ~Active(s)
      BY <1>1, <2>1, <2>2 DEF TypeOK, IInv, ClientInv, Active
    <3>2. num_tx[s] = num_rx[s] /\ num_tx[s] \in Nat /\ wheel[s] \subseteq Nat
      BY <2>1, <3>1, SlotTypes DEF CliInv
    <3>3. \A e \in wheel[s] : num_rx[s] <= e /\ e < num_tx[s]
      BY <3>1 DEF CliInv
    <3>4. wheel[s] = {}
      BY <3>2, <3>3
    <3>5. \A i \in 1..Len(stallq) : stallq[i] # s
      BY <1>1, <3>1 DEF IInv, StallqInv
    <3> QED
      BY <3>4, <3>5
  <2>4. backlog # <<>> => sslot_free = {}
    BY <1>1 DEF IInv, BacklogInv
  <2> QED
    BY <2>1, <2>2, <2>3, <2>4 DEF FreeSlotsUnreferenced
<1> QED
  BY <1>1, InvariantHolds, PTL
\* A session can be disconnected safely: when the client's sslots are all free,
\* the server holds no request, owes no response and has sent every packet of
\* those it still holds, as handle_disconnect_req_st asserts.
THEOREM DisconnectsFindServerIdle == Spec => []DisconnectFindsServerIdle
<1>1. IInv => DisconnectFindsServerIdle
  <2> SUFFICES ASSUME IInv, sslot_free = Sslots, NEW s \in Sslots
               PROVE  /\ req_pkts[s] = 0 /\ ~req_type[s]
                      /\ s_tx_msgbuf[s] # NoMsg => SrvAllSent(s)
    BY DEF DisconnectFindsServerIdle, SrvAllSent
  <2>1. TypeOK /\ CliInv(s) /\ PairSlotInv(s)
    BY DEF IInv, ClientInv, PairInv
  <2>2. ~Active(s)
    BY <2>1 DEF CliInv
  <2>3. cur_req_num[s] = s_cur_req_num[s]
    <3>1. cur_req_num[s] \in Nat /\ s_cur_req_num[s] \in Nat
      BY <2>1, SlotTypes
    <3> QED
      BY <2>1, <2>2, <3>1 DEF PairSlotInv
  <2>4. SrvFresh(s) \/ (SrvDone(s) /\ SrvAllSent(s))
    BY <2>1, <2>2, <2>3 DEF PairSlotInv
  <2> QED
    BY <2>4 DEF SrvFresh, SrvDone
<1> QED
  BY <1>1, InvariantHolds, PTL

\* An sslot never has more packets outstanding than the session has credits.
LEMMA WindowWithinCredits ==
  ASSUME IInv, NEW s \in Sslots
  PROVE  /\ num_tx[s] \in Nat /\ num_rx[s] \in Nat
         /\ num_tx[s] - num_rx[s] <= Credits
<1> DEFINE A == {s} \X (num_rx[s]..(num_tx[s] - 1))
<1>1. num_tx[s] \in Nat /\ num_rx[s] \in Nat /\ credits \in Nat /\ num_rx[s] <= num_tx[s]
  <2>1. TypeOK /\ CliInv(s)
    BY DEF IInv, ClientInv
  <2> QED
    BY <2>1 DEF TypeOK, CliInv
<1>2. IsFiniteSet(Outstanding) /\ credits + Cardinality(Outstanding) = Credits
  BY DEF IInv, CreditInv, CreditConservation
<1>3. Cardinality(A) = num_tx[s] - num_rx[s]
  <2>1. IsFiniteSet({s}) /\ Cardinality({s}) = 1
    BY FS_Singleton
  <2>2. /\ IsFiniteSet(num_rx[s]..(num_tx[s] - 1))
        /\ Cardinality(num_rx[s]..(num_tx[s] - 1)) = num_tx[s] - num_rx[s]
    BY <1>1, IntervalCardinality
  <2>3. Cardinality(A) = Cardinality({s}) * Cardinality(num_rx[s]..(num_tx[s] - 1))
    BY <2>1, <2>2, FS_Product
  <2> QED
    BY <1>1, <2>1, <2>2, <2>3
<1>4. A \in SUBSET Outstanding
  BY DEF Outstanding
<1> HIDE DEF A
<1>5. Cardinality(A) <= Cardinality(Outstanding) /\ Cardinality(Outstanding) \in Nat
  BY <1>2, <1>4, FS_Subset, FS_CardinalityType
<1> QED
  BY <1>1, <1>2, <1>3, <1>5, CreditsAssumption

\* Division with remainder.
LEMMA DivMod ==
  ASSUME NEW e \in Nat, NEW C \in Nat \ {0}
  PROVE  /\ e = C * (e \div C) + (e % C)
         /\ e \div C \in Int /\ e % C \in 0..(C - 1)
OBVIOUS

\* A positive multiple of C is at least C.
LEMMA MultipleAtLeast ==
  ASSUME NEW a \in Int, NEW C \in Nat \ {0}, a >= 1
  PROVE  C * a >= C
<1>1. PICK b \in Nat : a = b + 1
  <2>1. a - 1 \in Nat /\ a = (a - 1) + 1
    OBVIOUS
  <2> QED
    BY <2>1
<1>2. C * a = C * b + C
  BY <1>1
<1>3. C * b >= 0
  OBVIOUS
<1> QED
  BY <1>2, <1>3

\* Numbers less than C apart differ modulo C.
LEMMA ModDistinct ==
  ASSUME NEW e \in Nat, NEW f \in Nat, NEW C \in Nat \ {0}, e < f, f - e < C
  PROVE  e % C # f % C
<1> SUFFICES ASSUME e % C = f % C PROVE FALSE
  OBVIOUS
<1>1. PICK qe \in Int : e = C * qe + (e % C)
  BY DivMod
<1>2. PICK qf \in Int : f = C * qf + (f % C)
  BY DivMod
<1>3. f - e = C * qf - C * qe
  BY <1>1, <1>2, DivMod
<1>4. f - e = C * (qf - qe)
  BY <1>3
<1>5. CASE qf - qe >= 1
  BY <1>4, <1>5, MultipleAtLeast
<1>6. CASE qf - qe <= 0
  <2>1. C * (qe - qf) >= 0
    BY <1>6
  <2>2. C * (qf - qe) = 0 - C * (qe - qf)
    OBVIOUS
  <2> QED
    BY <1>4, <2>1, <2>2
<1> QED
  BY <1>5, <1>6

\* in_wheel_ is unambiguous: of the packets an sslot has in the wheel, no two
\* have the same index modulo kSessionCredits, and all are outstanding.
THEOREM WheelIndexesUnique == Spec => []WheelIndexUnique
<1>1. IInv => WheelIndexUnique
  <2> SUFFICES ASSUME IInv, NEW s \in Sslots
               PROVE  /\ \A e \in wheel[s] : num_rx[s] <= e /\ e < num_tx[s]
                      /\ \A e, f \in wheel[s] : e # f => e % Credits # f % Credits
    BY DEF WheelIndexUnique
  <2>1. \A e \in wheel[s] : e \in Nat /\ num_rx[s] <= e /\ e < num_tx[s]
    <3>1. TypeOK /\ CliInv(s)
      BY DEF IInv, ClientInv
    <3> QED
      BY <3>1 DEF TypeOK, CliInv
  <2>2. ASSUME NEW e \in wheel[s], NEW f \in wheel[s], e < f
        PROVE  e % Credits # f % Credits
    <3>1. e \in Nat /\ f \in Nat /\ num_rx[s] <= e /\ f < num_tx[s]
      BY <2>1
    <3>2. f - e < Credits
      BY <3>1, WindowWithinCredits, CreditsAssumption
    <3> QED
      BY <2>2, <3>1, <3>2, ModDistinct, CreditsAssumption
  <2>3. \A e, f \in wheel[s] : e # f => e < f \/ f < e
    BY <2>1
  <2> QED
    BY <2>1, <2>2, <2>3
<1> QED
  BY <1>1, InvariantHolds, PTL
=============================================================================
