----------------------------- MODULE DumbRecv -----------------------------
(***************************************************************************)
(* RawTransport's "dumbpipe" receive path: multi-packet RECVs and a tiny    *)
(* overrunning completion queue.  The NIC keeps overwriting kRecvCQDepth     *)
(* CQEs; the CPU looks at one CQE at a time, takes a snapshot of it while    *)
(* the NIC may be writing it, and infers from the distance to the previous   *)
(* snapshot how many packets have arrived.                                   *)
(*                                                                         *)
(* A packet is known by its index in the CQE snapshot cycle: its WQE's       *)
(* 16-bit id and its stride in that WQE.                                     *)
(***************************************************************************)
EXTENDS Integers

CONSTANTS
    kStridesPerWQE,
    NumWqeIds,          \* WQE ids before the 16-bit id wraps (65536)
    kNumRxRingEntries,
    kRecvCQDepth

SizeAssumption ==
    {kStridesPerWQE, NumWqeIds, kNumRxRingEntries, kRecvCQDepth} \subseteq Nat \ {0}

kCQESnapshotCycle == NumWqeIds * kStridesPerWQE

(* the static_asserts and rt_asserts of the transport (the cycle and the depth     *)
(* are powers of two)                                                             *)
RingAssumption ==
    /\ kNumRxRingEntries % kStridesPerWQE = 0
    /\ kNumRxRingEntries % kRecvCQDepth = 0
    /\ kCQESnapshotCycle % kRecvCQDepth = 0
    /\ kRecvCQDepth >= 2 /\ kStridesPerWQE >= kRecvCQDepth
    /\ kCQESnapshotCycle >= 2 * kNumRxRingEntries

kRQDepth == kNumRxRingEntries \div kStridesPerWQE

VARIABLES
    nic,            \* cycle index of the next packet to arrive
    posted,         \* strides the NIC may still fill
    recv_cqe_arr,   \* the cycle index in each CQE
    cqe_idx, prev_snapshot,
    pc, snap,       \* where rx_burst is, and the fields it has read
    unread,         \* packets that arrived and were not processed
    batch,          \* packets returned by the last rx_burst, being processed
    rx_ring_head,   \* the next ring entry the Rpc reads
    recvs_to_post, mp_sge_idx

vars == <<nic, posted, recv_cqe_arr, cqe_idx, prev_snapshot, pc, snap, unread,
          batch, rx_ring_head, recvs_to_post, mp_sge_idx>>
cpuVars == <<cqe_idx, prev_snapshot, batch, rx_ring_head, recvs_to_post, mp_sge_idx>>
nicVars == <<nic, posted, recv_cqe_arr, unread>>

wqe_id(i) == i \div kStridesPerWQE
wqe_counter(i) == i % kStridesPerWQE

(* The CQEs look as if the last packets of the cycle had been received; all WQEs  *)
(* are posted.                                                                    *)
Init ==
    /\ nic = 0 /\ posted = kNumRxRingEntries /\ unread = 0
    /\ recv_cqe_arr = [i \in 0 .. kRecvCQDepth - 1 |->
                           kCQESnapshotCycle - (kRecvCQDepth - i)]
    /\ cqe_idx = 0 /\ prev_snapshot = kCQESnapshotCycle - 1
    /\ pc = "idle" /\ snap = [id |-> 0, counter |-> 0]
    /\ batch = 0 /\ rx_ring_head = 0 /\ recvs_to_post = 0 /\ mp_sge_idx = 0

(* The NIC writes a packet to the next stride and a CQE over the oldest one *)
NicRecv ==
    /\ posted > 0
    /\ posted' = posted - 1
    /\ unread' = unread + 1
    /\ recv_cqe_arr' = [recv_cqe_arr EXCEPT ![nic % kRecvCQDepth] = nic]
    /\ nic' = (nic + 1) % kCQESnapshotCycle
    /\ UNCHANGED <<cpuVars, pc, snap>>

Cqe == recv_cqe_arr[cqe_idx]

(* snapshot_cqe reads the id, the counter and the id again, the NIC in between *)
read_wqe_id ==
    /\ pc = "idle" /\ batch = 0
    /\ snap' = [id |-> wqe_id(Cqe), counter |-> 0]
    /\ pc' = "counter"
    /\ UNCHANGED <<nicVars, cpuVars>>

read_wqe_counter ==
    /\ pc = "counter"
    /\ snap' = [snap EXCEPT !.counter = wqe_counter(Cqe)]
    /\ pc' = "check"
    /\ UNCHANGED <<nicVars, cpuVars>>

Consistent == wqe_id(Cqe) = snap.id

snapshot_retry ==
    /\ pc = "check" /\ ~Consistent
    /\ pc' = "idle"
    /\ UNCHANGED <<nicVars, cpuVars, snap>>

get_cqe_cycle_delta(prev, cur) == (cur + kCQESnapshotCycle - prev) % kCQESnapshotCycle

Accepted(delta) == delta # 0 /\ delta < kNumRxRingEntries

NextCqe == (cqe_idx + 1) % kRecvCQDepth

(* rx_burst with a consistent snapshot *)
rx_burst ==
    /\ pc = "check" /\ Consistent
    /\ pc' = "idle"
    /\ LET cur == snap.id * kStridesPerWQE + snap.counter
           delta == get_cqe_cycle_delta(prev_snapshot, cur)
       IN  IF Accepted(delta)
           THEN batch' = delta /\ cqe_idx' = NextCqe /\ prev_snapshot' = cur
           ELSE UNCHANGED <<batch, cqe_idx, prev_snapshot>>
    /\ UNCHANGED <<nicVars, snap, rx_ring_head, recvs_to_post, mp_sge_idx>>

(* process_comps_st reads the packets and calls post_recvs, which posts at most   *)
(* one multi-packet WQE per call                                                  *)
post_recvs ==
    /\ pc = "idle" /\ batch > 0
    /\ batch' = 0
    /\ unread' = unread - batch
    /\ rx_ring_head' = (rx_ring_head + batch) % kNumRxRingEntries
    /\ IF recvs_to_post + batch < kStridesPerWQE
       THEN recvs_to_post' = recvs_to_post + batch /\ UNCHANGED <<posted, mp_sge_idx>>
       ELSE /\ recvs_to_post' = recvs_to_post + batch - kStridesPerWQE
            /\ posted' = posted + kStridesPerWQE
            /\ mp_sge_idx' = (mp_sge_idx + 1) % kRQDepth
    /\ UNCHANGED <<nic, recv_cqe_arr, cqe_idx, prev_snapshot, pc, snap>>

Next ==
    \/ NicRecv
    \/ read_wqe_id
    \/ read_wqe_counter
    \/ snapshot_retry
    \/ rx_burst
    \/ post_recvs

Spec == Init /\ [][Next]_vars

----------------------------------------------------------------------------
(* rx_burst never returns more packets than have arrived, in spite of the NIC     *)
(* overwriting the CQE while it is read and of CQEs that lag a full turn.         *)
DeltaSound == batch <= unread

(* No packet is missed: while some packet waits, the CQE at cqe_idx shows it, so  *)
(* that the next rx_burst returns packets.                                        *)
NoPacketMissed ==
    pc = "idle" /\ batch = 0 /\ unread > 0 =>
        Accepted(get_cqe_cycle_delta(prev_snapshot, Cqe))

(* The receive queue never runs dry for good: when all packets are processed the  *)
(* NIC has strides left, although post_recvs posts one WQE per call and is called *)
(* only when packets arrive.                                                      *)
RqNotStarved == unread = 0 => posted > 0

(* The WQE posted next covers the oldest processed ring entries, never one the    *)
(* Rpc has still to read.                                                         *)
OldestReposted ==
    /\ posted + unread + recvs_to_post = kNumRxRingEntries
    /\ mp_sge_idx * kStridesPerWQE = (rx_ring_head - recvs_to_post) % kNumRxRingEntries

----------------------------------------------------------------------------
(* The inductive invariant.  Packets are counted back from the next one to arrive: *)
(* the newest has age 1.                                                           *)

Index(age) == (nic - age) % kCQESnapshotCycle

(* Packets that arrived and that no rx_burst has returned *)
Lag == unread - batch

DumbTypes ==
    /\ nic \in 0 .. kCQESnapshotCycle - 1
    /\ posted \in Nat /\ unread \in Nat /\ batch \in Nat /\ recvs_to_post \in Nat
    /\ rx_ring_head \in Nat /\ mp_sge_idx \in 0 .. kRQDepth - 1
    /\ DOMAIN recv_cqe_arr = 0 .. kRecvCQDepth - 1
    /\ pc \in {"idle", "counter", "check"} /\ DOMAIN snap = {"id", "counter"}

(* The CQEs show the newest packets, and cqe_idx is where the oldest packet that   *)
(* rx_burst has still to return is or was shown.                                   *)
CqesInv ==
    /\ \A age \in 1 .. kRecvCQDepth :
           recv_cqe_arr[(nic - age) % kRecvCQDepth] = Index(age)
    /\ prev_snapshot = Index(Lag + 1)
    /\ cqe_idx = (nic - Lag) % kRecvCQDepth

(* A packet that the CQE at cqe_idx shows, or showed before the NIC wrote over it *)
Shown(age) ==
    age \in 1 .. Lag + kRecvCQDepth /\ age % kRecvCQDepth = Lag % kRecvCQDepth

(* The counter is not read of an older packet than the id. *)
SnapInv ==
    /\ pc # "idle" => batch = 0
    /\ pc = "counter" => \E a \in 1 .. Lag + kRecvCQDepth :
                             Shown(a) /\ snap.id = wqe_id(Index(a))
    /\ pc = "check" => \E a \in 1 .. Lag + kRecvCQDepth : \E b \in 1 .. a :
                           /\ Shown(a) /\ snap.id = wqe_id(Index(a))
                           /\ Shown(b) /\ snap.counter = wqe_counter(Index(b))

DumbInv == DumbTypes /\ CqesInv /\ SnapInv /\ DeltaSound /\ OldestReposted
              /\ recvs_to_post < kNumRxRingEntries
=============================================================================
