---------------------------- MODULE TransportTx ----------------------------
(***************************************************************************)
(* The transmit half of a verbs transport (IBTransport, RawTransport) under *)
(* the Rpc's TX batch: selective signalling, tx_burst, tx_flush, and the    *)
(* ring of control MsgBuffers in which CRs and RFRs are built.              *)
(*                                                                         *)
(* sq holds the WQEs whose send queue slots the driver has not reclaimed;   *)
(* the NIC has executed the first `sent` of them.  Polling the completion   *)
(* of a signaled WQE reclaims it and every WQE before it.                   *)
(***************************************************************************)
EXTENDS Integers, Sequences

CONSTANTS
    kUnsigBatch,   \* one WQE of so many is signaled
    kSQDepth,      \* send queue depth
    kPostlist,     \* packets per tx_burst
    InlineCtrl,    \* control packets are copied into the WQE (kMaxInline)
    MaxPkts        \* bound on the packets enqueued in a behaviour

SizeAssumption ==
    /\ {kUnsigBatch, kSQDepth, kPostlist, MaxPkts} \subseteq Nat \ {0}
    /\ InlineCtrl \in BOOLEAN

(* static_asserts of the transports *)
QueueAssumption ==
    /\ kSQDepth >= 2 * kUnsigBatch
    /\ kPostlist <= kUnsigBatch

VARIABLES
    nb_tx,        \* packets sent since the last tx_flush
    sq, sent,     \* the send queue, and how many of its WQEs the NIC has executed
    send_cq,      \* completions not polled yet
    tx_burst_arr, \* the Rpc's TX batch
    send_wr,      \* the work requests built so far by the tx_burst in progress
    pc,           \* what the dispatch thread is doing
    ctrl_msgbufs, \* the message each control MsgBuffer holds
    ctrl_msgbuf_head,
    enqueued      \* packets enqueued so far (names the control messages too)

vars == <<nb_tx, sq, sent, send_cq, tx_burst_arr, send_wr, pc, ctrl_msgbufs,
          ctrl_msgbuf_head, enqueued>>

CtrlRing == 0 .. 2 * kUnsigBatch - 1
NoBuf == 2 * kUnsigBatch        \* a data packet: not a control MsgBuffer

Init ==
    /\ nb_tx = 0 /\ sq = <<>> /\ sent = 0 /\ send_cq = 0
    /\ tx_burst_arr = <<>> /\ send_wr = <<>> /\ pc = "idle"
    /\ ctrl_msgbufs = [i \in CtrlRing |-> 0] /\ ctrl_msgbuf_head = 0
    /\ enqueued = 0

(* The first signaled WQE in the send queue: the one the next completion is for *)
FirstSignaled == CHOOSE i \in 1 .. Len(sq) :
                     sq[i].sig /\ \A j \in 1 .. i - 1 : ~sq[j].sig

Drop(n) == SubSeq(sq, n + 1, Len(sq))

(* ibv_poll_cq returned a completion: the driver reclaims the slots up to it *)
poll_cq_one_helper(rest) ==
    /\ send_cq > 0
    /\ send_cq' = send_cq - 1
    /\ sq' = Drop(FirstSignaled) \o rest
    /\ sent' = sent - FirstSignaled

----------------------------------------------------------------------------
(* Rpc: filling the batch *)

AddToBatch(buf, msg) ==
    /\ enqueued < MaxPkts
    /\ enqueued' = enqueued + 1
    /\ tx_burst_arr' = Append(tx_burst_arr, [buf |-> buf, msg |-> msg])
    /\ pc' = IF Len(tx_burst_arr) + 1 = kPostlist THEN "burst" ELSE "idle"
    /\ UNCHANGED <<nb_tx, sq, sent, send_cq, send_wr>>

enqueue_pkt_tx_burst ==
    /\ pc = "idle"
    /\ AddToBatch(NoBuf, 0)
    /\ UNCHANGED <<ctrl_msgbufs, ctrl_msgbuf_head>>

NextCtrl(h) == IF h + 1 = 2 * kUnsigBatch THEN 0 ELSE h + 1

(* enqueue_cr_st, enqueue_rfr_st: the header is written into the next control   *)
(* MsgBuffer of the ring before the packet joins the batch                      *)
enqueue_hdr_tx_burst ==
    /\ pc = "idle"
    /\ ctrl_msgbufs' = [ctrl_msgbufs EXCEPT ![ctrl_msgbuf_head] = enqueued + 1]
    /\ ctrl_msgbuf_head' = NextCtrl(ctrl_msgbuf_head)
    /\ AddToBatch(ctrl_msgbuf_head, enqueued + 1)

(* The end of an event loop iteration sends what is left in the batch *)
do_tx_burst ==
    /\ pc = "idle" /\ tx_burst_arr # <<>>
    /\ pc' = "burst"
    /\ UNCHANGED <<nb_tx, sq, sent, send_cq, tx_burst_arr, send_wr, ctrl_msgbufs,
                   ctrl_msgbuf_head, enqueued>>

drain_tx_batch_and_dma_queue ==
    /\ pc = "idle"
    /\ pc' = IF tx_burst_arr # <<>> THEN "burst_flush" ELSE "flush"
    /\ UNCHANGED <<nb_tx, sq, sent, send_cq, tx_burst_arr, send_wr, ctrl_msgbufs,
                   ctrl_msgbuf_head, enqueued>>

----------------------------------------------------------------------------
(* Transport: tx_burst builds the work requests one by one, polling the send CQ  *)
(* when it starts a new signaling batch, and posts them all at the end           *)

Signaled(n) == n % kUnsigBatch = 0
(* a new signaling batch does not wait for the completion of the previous one *)
MustPoll_Never(n) == FALSE

MustPoll(n) == Signaled(n) /\ n # 0

(* May the NIC still read this packet from its MsgBuffer after the post? *)
UsesDma(item) == ~(InlineCtrl /\ item.buf # NoBuf)

(* get_signaled_flag and the WR of one packet *)
tx_burst_item ==
    /\ pc \in {"burst", "burst_flush"} /\ Len(send_wr) < Len(tx_burst_arr)
    /\ LET item == tx_burst_arr[Len(send_wr) + 1]
       IN  send_wr' = Append(send_wr, [item |-> item, dma |-> UsesDma(item),
                                       sig |-> Signaled(nb_tx)])
    /\ IF MustPoll(nb_tx) THEN poll_cq_one_helper(<<>>)
                          ELSE UNCHANGED <<sq, sent, send_cq>>
    /\ nb_tx' = nb_tx + 1
    /\ UNCHANGED <<tx_burst_arr, pc, ctrl_msgbufs, ctrl_msgbuf_head, enqueued>>

(* ibv_post_send of the chain; back in do_tx_burst_st the batch is empty again *)
tx_burst_post ==
    /\ pc \in {"burst", "burst_flush"} /\ Len(send_wr) = Len(tx_burst_arr)
    /\ sq' = sq \o send_wr
    /\ send_wr' = <<>> /\ tx_burst_arr' = <<>>
    /\ pc' = IF pc = "burst" THEN "idle" ELSE "flush"
    /\ UNCHANGED <<nb_tx, sent, send_cq, ctrl_msgbufs, ctrl_msgbuf_head, enqueued>>

FlushWqe == [item |-> [buf |-> NoBuf, msg |-> 0], dma |-> FALSE, sig |-> TRUE]

(* tx_flush: nothing was sent *)
tx_flush_none ==
    /\ pc = "flush" /\ nb_tx = 0
    /\ pc' = "idle"
    /\ UNCHANGED <<nb_tx, sq, sent, send_cq, tx_burst_arr, send_wr, ctrl_msgbufs,
                   ctrl_msgbuf_head, enqueued>>

(* tx_flush: poll the one signaled WQE, then post a signaled WQE behind the rest *)
tx_flush_post ==
    /\ pc = "flush" /\ nb_tx # 0
    /\ poll_cq_one_helper(<<FlushWqe>>)
    /\ pc' = "flush_wait"
    /\ UNCHANGED <<nb_tx, tx_burst_arr, send_wr, ctrl_msgbufs, ctrl_msgbuf_head,
                   enqueued>>

tx_flush_done ==
    /\ pc = "flush_wait"
    /\ poll_cq_one_helper(<<>>)
    /\ nb_tx' = 0
    /\ pc' = "idle"
    /\ UNCHANGED <<tx_burst_arr, send_wr, ctrl_msgbufs, ctrl_msgbuf_head, enqueued>>

----------------------------------------------------------------------------
(* The NIC executes the send queue in order and completes the signaled WQEs *)
NicSend ==
    /\ sent < Len(sq)
    /\ sent' = sent + 1
    /\ send_cq' = send_cq + (IF sq[sent + 1].sig THEN 1 ELSE 0)
    /\ UNCHANGED <<nb_tx, sq, tx_burst_arr, send_wr, pc, ctrl_msgbufs,
                   ctrl_msgbuf_head, enqueued>>

tx_burst == tx_burst_item \/ tx_burst_post
tx_flush == tx_flush_none \/ tx_flush_post \/ tx_flush_done

Next ==
    \/ enqueue_pkt_tx_burst
    \/ enqueue_hdr_tx_burst
    \/ do_tx_burst
    \/ drain_tx_batch_and_dma_queue
    \/ tx_burst_item
    \/ tx_burst_post
    \/ tx_flush_none
    \/ tx_flush_post
    \/ tx_flush_done
    \/ NicSend

Spec == Init /\ [][Next]_vars

----------------------------------------------------------------------------
(* ibv_post_send never finds the send queue full: WQEs are reclaimed only by a     *)
(* poll, and tx_burst polls once every kUnsigBatch packets.                        *)
SendQueueFits == Len(sq) <= kSQDepth

(* "exactly one signaled SEND work request": what tx_flush relies on when it polls *)
(* the send CQ before posting its own WQE.                                         *)
OneSignaled ==
    pc \in {"idle", "flush"} =>
        IF nb_tx = 0 THEN \A i \in 1 .. Len(sq) : ~sq[i].sig
                     ELSE \E p \in 1 .. Len(sq) : \A i \in 1 .. Len(sq) : sq[i].sig <=> i = p

(* After tx_flush the NIC references no MsgBuffer: "returning ownership of all TX  *)
(* buffers to eRPC", which retransmission and response reuse depend on.            *)
FlushReturnsBuffers == pc = "idle" /\ nb_tx = 0 => sq = <<>> /\ send_cq = 0

(* A control message is sent as it was written: no control MsgBuffer is rebuilt    *)
(* while its packet waits in the batch or may still be read by the NIC.            *)
CtrlIntact ==
    LET ok(item) == item.buf # NoBuf => ctrl_msgbufs[item.buf] = item.msg
    IN  /\ \A i \in 1 .. Len(tx_burst_arr) : ok(tx_burst_arr[i])
        /\ \A i \in sent + 1 .. Len(sq) : sq[i].dma => ok(sq[i].item)

----------------------------------------------------------------------------
(* Why it is so.  The WQEs not reclaimed, posted or about to be, oldest first:     *)
Flight == sq \o send_wr

Item == [buf : 0 .. NoBuf, msg : Nat]
Wqe == [item : Item, dma : BOOLEAN, sig : BOOLEAN]

TxTypes ==
    /\ nb_tx \in Nat /\ sq \in Seq(Wqe) /\ send_wr \in Seq(Wqe)
    /\ sent \in 0 .. Len(sq) /\ tx_burst_arr \in Seq(Item)
    /\ pc \in {"idle", "burst", "burst_flush", "flush", "flush_wait"}
    /\ ctrl_msgbufs \in [CtrlRing -> Nat] /\ ctrl_msgbuf_head \in CtrlRing
    /\ enqueued \in Nat

(* The batch is sent when it is full, and a flush finds it sent. *)
BatchInv ==
    /\ Len(tx_burst_arr) <= kPostlist
    /\ pc = "idle" => Len(tx_burst_arr) < kPostlist /\ send_wr = <<>>
    /\ pc \in {"flush", "flush_wait"} => tx_burst_arr = <<>> /\ send_wr = <<>>

SignaledAt(p) ==
    p \in 1 .. Len(Flight) /\ \A i \in 1 .. Len(Flight) : Flight[i].sig <=> i = p

(* One WQE in flight is signaled.  It is among the first kUnsigBatch, and followed *)
(* by the packets that tx_burst has added since it started the signaling batch.    *)
(* The send CQ holds its completion once the NIC has executed it.                  *)
SignalInv ==
    IF nb_tx = 0 THEN Flight = <<>> /\ send_cq = 0 /\ pc # "flush_wait"
    ELSE \E p \in 1 .. kUnsigBatch :
             /\ SignaledAt(p)
             /\ Len(Flight) = p + (IF pc = "flush_wait" THEN 0
                                                       ELSE (nb_tx - 1) % kUnsigBatch)
             /\ send_cq = IF p <= sent THEN 1 ELSE 0

(* The NIC reads MsgBuffers only of packets that are not inlined. *)
DmaInv == \A i \in 1 .. Len(Flight) : Flight[i].dma => UsesDma(Flight[i].item)

(* The control packets of the batch are in the last entries of the ring. *)
CtrlInv ==
    \A i \in 1 .. Len(tx_burst_arr) :
        tx_burst_arr[i].buf # NoBuf =>
            /\ ctrl_msgbufs[tx_burst_arr[i].buf] = tx_burst_arr[i].msg
            /\ \E d \in 1 .. Len(tx_burst_arr) :
                   tx_burst_arr[i].buf \in {ctrl_msgbuf_head - d,
                                           ctrl_msgbuf_head - d + 2 * kUnsigBatch}

TxInv == TxTypes /\ BatchInv /\ SignalInv /\ DmaInv /\ CtrlInv

(* tx_burst and tx_flush return: poll_cq_one_helper never spins on a completion    *)
(* that no posted WQE will produce.                                                *)
TxReturns == pc # "idle" ~> pc = "idle"
=============================================================================
