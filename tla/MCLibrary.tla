----------------------------- MODULE MCLibrary -----------------------------
(***************************************************************************)
(* The components of the library below and beside the RPC datapath, and    *)
(* two logs that applications keep in persistent memory, side by side: a   *)
(* behaviour is one of one component, which its initial state picks, and   *)
(* the others stay in their initial states.  The timing wheel and the      *)
(* allocator have the sizes given here, the other components any sizes.    *)
(***************************************************************************)
EXTENDS Integers, TLC

CONSTANTS
  kPostlist,                                       \* the verbs transports and DPDK
  kVerbsRQDepth, kRecvSlack, MaxPkts,              \* the receive ring
  kStridesPerWQE, NumWqeIds, kDumbRingEntries, kRecvCQDepth,   \* multi-packet receives
  kUnsigBatch, kSQDepth, InlineCtrl, MaxTxPkts,    \* the send queue
  Pids, Rpcs, PidOf, PortOf, Ports, NumQps, kNumRxRingEntries, kNumMbufs,
  kNumTxRingDesc, kRxBatchSize, MaxCrashes, None,  \* DPDK
  NumBg, Rpc, ReqType, MaxSmPkts, NoRpc,           \* the Nexus
  Request, D, ReqQ, RespQ, Free,                   \* the background threads
  Uri, FailTimeout, SendDelta, CheckDelta, MaxTime, MaxAdds,   \* the heartbeat manager
  LogEntries, Nodes, MaxTerm, MaxEntries,          \* the Raft log
  Slots, MinSize, MaxSize, FileSize, kNumBuffers, MaxAppends   \* the append log

VARIABLES
  component,  \* whose behaviour this is
  rq, ring, recv_cq, arrived, num_pkts, done, rx_ring_head, taken, recv_head,
  recvs_to_post,
  nic, posted, recv_cqe_arr, cqe_idx, prev_snapshot, dumb_pc, snap, unread, batch,
  dumb_rx_ring_head, dumb_recvs_to_post, mp_sge_idx,
  nb_tx, sq, sent, send_cq, tx_burst_arr, send_wr, tx_pc, ctrl_msgbufs,
  ctrl_msgbuf_head, enqueued,
  owner, avail, mutex, alive, g_dpdk_lock, st, qp, free, rx_queue, rx_ring, tx_desc, tx_mbufs,
  crashes,
  launched, cur_etid, etid, allowed, funcs, obj, table, hooks, nexus_lock, target,
  sm_rx, pkts, refused, nexus_kill,
  queue, size, lock, pc, left, where, issuer, ran, kill,
  now, last_rx, pqueue, serial, hb_alive, heard, adds, failed,
  plog_pc, v_num, p_num, p_term, p_voted, base, arg, raft, votes,
  alog_pc, alog_cur, alog_size, entry_size, cell, offset, use_rotating, v_value,
  buffer_idx, buf, appends, alog_last, prev_size, acked,
  wheel_now, wheel, wheel_cur, wheel_ready, wheel_pool, wheel_extent, wheel_delta,
  wheel_prev, wheel_credits, wheel_issued, wheel_last,
  bsr_zero, freelist, shm_list, alloc_prev, alloc_tot, alloc_live

rxVars == <<rq, ring, recv_cq, arrived, num_pkts, done, rx_ring_head, taken, recv_head,
            recvs_to_post>>
dumbVars == <<nic, posted, recv_cqe_arr, cqe_idx, prev_snapshot, dumb_pc, snap, unread,
              batch, dumb_rx_ring_head, dumb_recvs_to_post, mp_sge_idx>>
txVars == <<nb_tx, sq, sent, send_cq, tx_burst_arr, send_wr, tx_pc, ctrl_msgbufs,
            ctrl_msgbuf_head, enqueued>>
dpdkVars == <<owner, avail, mutex, alive, g_dpdk_lock, st, qp, free, rx_queue, rx_ring, tx_desc,
              tx_mbufs, crashes>>
nexusVars == <<launched, cur_etid, etid, allowed, funcs, obj, table, hooks, nexus_lock,
               target, sm_rx, pkts, refused, nexus_kill>>
bgVars == <<queue, size, lock, pc, left, where, issuer, ran, kill>>
hbVars == <<now, last_rx, pqueue, serial, hb_alive, heard, adds, failed>>
plogVars == <<plog_pc, v_num, p_num, p_term, p_voted, base, arg, raft, votes>>
alogVars == <<alog_pc, alog_cur, alog_size, entry_size, cell, offset, use_rotating,
              v_value, buffer_idx, buf, appends, alog_last, prev_size, acked>>
wheelVars == <<wheel_now, wheel, wheel_cur, wheel_ready, wheel_pool, wheel_extent,
               wheel_delta, wheel_prev, wheel_credits, wheel_issued, wheel_last>>
allocVars == <<bsr_zero, freelist, shm_list, alloc_prev, alloc_tot, alloc_live>>

Rx == INSTANCE RecvRing WITH kRQDepth <- kVerbsRQDepth

Dumb == INSTANCE DumbRecv WITH
  pc <- dumb_pc, rx_ring_head <- dumb_rx_ring_head, recvs_to_post <- dumb_recvs_to_post,
  kNumRxRingEntries <- kDumbRingEntries

Tx == INSTANCE TransportTx WITH pc <- tx_pc, MaxPkts <- MaxTxPkts

Dk == INSTANCE Dpdk WITH arrived <- rx_queue

Nex == INSTANCE Nexus WITH lock <- nexus_lock, kill <- nexus_kill

Bg == INSTANCE BgThreads

Hb == INSTANCE Heartbeat WITH alive <- hb_alive

Pl == INSTANCE PmemLog WITH pc <- plog_pc, Entries <- LogEntries

Al == INSTANCE AppendLog WITH
  pc <- alog_pc, cur <- alog_cur, size <- alog_size, last <- alog_last

Wheel == INSTANCE TimingWheel WITH
  now <- wheel_now, cur <- wheel_cur, ready <- wheel_ready, pool <- wheel_pool,
  extent <- wheel_extent, delta <- wheel_delta, prev <- wheel_prev,
  credits <- wheel_credits, issued <- wheel_issued, last <- wheel_last,
  Session <- {"s1"}, NumSSlots <- 2, Credits <- 3, Width <- 2, MaxDelta <- 3, BucketCap <- 2,
  MaxTime <- 6, MaxPkts <- 4

Alloc == INSTANCE HugeAlloc WITH
  prev <- alloc_prev, tot <- alloc_tot, live <- alloc_live,
  MinClassSize <- 4, NumClasses <- 3, PageSize <- 8, InitialSize <- 8, Hdr <- 2, Align <- 2,
  MaxDataPerPkt <- 3, BsrOfZero <- {0, 1}, MaxRegions <- 2, Sizes <- {2, 4, 5, 9}, MaxLive <- 2

ASSUME ConstantsOK ==
  /\ Rx!SizeAssumption /\ Rx!SlackAssumption /\ Dumb!SizeAssumption /\ Dumb!RingAssumption
  /\ Tx!SizeAssumption /\ Tx!QueueAssumption /\ Dk!TypeAssumption /\ Dk!PoolAssumption
  /\ Nex!NexusAssumption /\ Bg!BgAssumption /\ Hb!TimeAssumption
  /\ Pl!PmemLogAssumption /\ Al!AppendLogAssumption
  /\ Wheel!WheelAssumption /\ Alloc!AllocAssumption

Components == {"rx", "dumb", "tx", "dpdk", "nexus", "bg", "heartbeat", "raft_log",
               "append_log", "wheel", "alloc"}

Init ==
  /\ component \in Components
  /\ Rx!Init /\ Dumb!Init /\ Tx!Init /\ Dk!Init /\ Nex!Init /\ Bg!Init /\ Hb!Init
  /\ Pl!Init /\ Wheel!Init /\ Alloc!Init
  /\ component # "alloc" => bsr_zero = 0
  /\ Al!Init /\ (use_rotating \/ component = "append_log")

Next ==
  /\ UNCHANGED component
  /\ IF component = "rx"         THEN Rx!Next    ELSE UNCHANGED rxVars
  /\ IF component = "dumb"       THEN Dumb!Next  ELSE UNCHANGED dumbVars
  /\ IF component = "tx"         THEN Tx!Next    ELSE UNCHANGED txVars
  /\ IF component = "dpdk"       THEN Dk!Next    ELSE UNCHANGED dpdkVars
  /\ IF component = "nexus"      THEN Nex!Next   ELSE UNCHANGED nexusVars
  /\ IF component = "bg"         THEN Bg!Next    ELSE UNCHANGED bgVars
  /\ IF component = "heartbeat"  THEN Hb!Next    ELSE UNCHANGED hbVars
  /\ IF component = "raft_log"   THEN Pl!Next    ELSE UNCHANGED plogVars
  /\ IF component = "append_log" THEN Al!Next    ELSE UNCHANGED alogVars
  /\ IF component = "wheel"      THEN Wheel!Next ELSE UNCHANGED wheelVars
  /\ IF component = "alloc"      THEN Alloc!Next ELSE UNCHANGED allocVars

vars == <<component, rxVars, dumbVars, txVars, dpdkVars, nexusVars, bgVars, hbVars,
          plogVars, alogVars, wheelVars, allocVars>>

Spec == Init /\ [][Next]_vars

\* The event loop and the background threads run.  Strong fairness stands for a
\* thread that gets a lock it keeps asking for, and for an application that goes on
\* until its requests are answered.  The NIC sends what was posted.
Fairness ==
  /\ \A t \in Bg!Bg : WF_bgVars(component = "bg" /\ Bg!BgStep(t))
  /\ WF_bgVars(component = "bg" /\ Bg!DispatchStep)
  /\ SF_bgVars(component = "bg" /\ \E r \in Request, i \in Bg!Bg : Bg!submit_bg_req_st(r, i))
  /\ SF_bgVars(component = "bg" /\ \E r \in Request : Bg!submit_bg_resp_st(r))
  /\ SF_bgVars(component = "bg" /\ Bg!Kill)
  /\ WF_txVars(component = "tx" /\ (Tx!tx_burst \/ Tx!tx_flush))
  /\ WF_txVars(component = "tx" /\ Tx!NicSend)

FairSpec == Spec /\ Fairness

\* DPDK's processes in TLC's instance: the first has two Rpcs, the second one, all on one port
PidOfMC == [r \in Rpcs |-> IF r = 3 THEN 2 ELSE 1]
PortOfMC == [r \in Rpcs |-> 0]

-----------------------------------------------------------------------------
(* Properties: each collects what the components on its subject promise, and asks   *)
(* every component for its part while that component is the one that runs.          *)

\* What pacing and memory promise: the slots of the timing wheel follow each other
\* without a gap when it wraps, a packet leaves no earlier than its time and within the
\* horizon, the packets of one SSlot leave in the order in which they were inserted, and
\* every bucket is in use once or in its pool; the buffers of the hugepage allocator are
\* disjoint, none is lost by splits and reservations, a message fits its buffer and a
\* buffer its class: the smallest one only where msb_index(0) is 0.
PacingAndMemory ==
  /\ component = "wheel" => /\ Wheel!SlotsTileTime /\ Wheel!PacedToSlot
                            /\ Wheel!WithinHorizon /\ Wheel!SSlotOrder
                            /\ Wheel!BucketsConserved
  /\ component = "alloc" => /\ Alloc!BuffersDisjoint /\ Alloc!MemoryConserved
                            /\ Alloc!MessageInBuffer /\ Alloc!DoublesLast /\ Alloc!ClassIsRight

\* What the rings of the transports promise: at most the send queue's depth is posted
\* and one send in a batch is signaled, so that a flush has all buffers back, and no
\* inlined control packet's buffer is reused before it is sent; a packet that the
\* receive rings present is in the ring, none is skipped when the completion counter
\* wraps, and the receive queue is refilled, oldest first; and until a process crashes
\* the mbufs of a DPDK queue pair are all somewhere, so that an allocation for a send
\* succeeds.
Rings ==
  /\ component = "tx"   => /\ Tx!TxInv /\ Tx!SendQueueFits /\ Tx!OneSignaled
                           /\ Tx!FlushReturnsBuffers /\ InlineCtrl => Tx!CtrlIntact
  /\ component = "rx"   => Rx!RingInv /\ Rx!PacketsInRing /\ Rx!RqRefilled
  /\ component = "dumb" => /\ Dumb!DumbInv /\ Dumb!DeltaSound /\ Dumb!NoPacketMissed
                           /\ Dumb!RqNotStarved /\ Dumb!OldestReposted
  /\ component = "dpdk" /\ crashes = 0 => Dk!MbufsConserved /\ Dk!AllocSucceeds

\* What threads, processes and peers share: a pop of an MtQueue finds an item, a request
\* is served by one background thread and its continuation runs in the thread that issued
\* it; a background thread's ID is its index, and the session-management thread pushes to
\* hooks of living Rpc objects only; a DPDK queue pair belongs to one Rpc of one living
\* process, and with one port the daemon's count of free queue pairs is right, also after
\* a process crashed, unless it did with the memzone's mutex locked, which ends the
\* handing out of queue pairs; and while no event of a remote already given up blocks its queue,
\* the heartbeat manager reports a silent remote within the timeout and a check period,
\* and every session it tracks has its next send and check queued.
ThreadsAndPeers ==
  /\ component = "bg"    => /\ Bg!BgInv /\ Bg!NeverPopsEmpty /\ Bg!ServedOnce
                            /\ Bg!ContinuationAtIssuer
  /\ component = "nexus" => Nex!NexusInv /\ Nex!EtidIsIndex /\ Nex!HookIsAlive
  /\ component = "dpdk"  => /\ Dk!DpdkInv /\ Dk!QpExclusive
                            /\ (\E p \in Ports : Ports = {p}) => Dk!AvailMatchesOwners
  /\ component = "heartbeat" =>
       /\ Hb!HbInv
       /\ Hb!NothingBlocked => Hb!DetectedInTime /\ Hb!TrackedIsServed

\* What a power failure may take of the logs: afterwards the Raft log has every entry and
\* the vote that Raft was told is persistent, and the append log a count that covers what
\* was answered, at the newest of its rotating places, and only entries that were written.
LogsSurvive ==
  /\ component = "raft_log"   => Pl!PmemInv /\ Pl!LogSurvives /\ Pl!VoteSurvives
  /\ component = "append_log" => /\ Al!AppendInv /\ Al!CountSurvives /\ Al!KeepsNewest
                                 /\ Al!CountedIsWritten

\* Every request given to the background threads is answered, and all of them exit when
\* the Nexus is destroyed; tx_burst and tx_flush, which spin for a completion, return.
Progress ==
  /\ component = "bg" => Bg!AllAnswered /\ Bg!AllExit
  /\ component = "tx" => Tx!TxReturns
=============================================================================
