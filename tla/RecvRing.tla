----------------------------- MODULE RecvRing -----------------------------
(***************************************************************************)
(* The receive ring of a verbs transport (IBTransport; RawTransport without *)
(* the dumbpipe optimisation) under the Rpc's process_comps_st: RECVs are   *)
(* posted in batches of at least kRecvSlack, the NIC fills them in the order *)
(* they were posted, and the Rpc reads the ring with an index of its own.    *)
(***************************************************************************)
EXTENDS Integers, Sequences

CONSTANTS
    kRQDepth,      \* RECV queue depth = RX ring entries
    kRecvSlack,    \* RECVs batched before posting
    kPostlist,     \* completions per rx_burst
    MaxPkts        \* bound on the packets that arrive

SizeAssumption ==
    {kRQDepth, kRecvSlack, kPostlist, MaxPkts} \subseteq Nat \ {0}

SlackAssumption == kRecvSlack + kPostlist <= kRQDepth

VARIABLES
    rq,            \* ring entries posted, in the order the NIC fills them
    ring,          \* the packet each ring entry holds
    recv_cq,       \* completions not polled
    arrived,       \* packets received so far
    num_pkts,      \* what the last rx_burst returned
    done,          \* how many of those the Rpc has processed
    rx_ring_head, taken, \* the Rpc's ring index, the packets it processed in order
    recv_head, recvs_to_post

vars == <<rq, ring, recv_cq, arrived, num_pkts, done, rx_ring_head, taken, recv_head,
          recvs_to_post>>

Entry == 0 .. kRQDepth - 1

(* n ring entries from entry i on *)
Entries(i, n) == [k \in 1 .. n |-> (i + k - 1) % kRQDepth]

(* init_recvs: the whole ring is posted *)
Init ==
    /\ rq = Entries(0, kRQDepth) /\ ring = [i \in Entry |-> 0]
    /\ recv_cq = 0 /\ arrived = 0 /\ num_pkts = 0 /\ done = 0
    /\ rx_ring_head = 0 /\ taken = 0 /\ recv_head = 0 /\ recvs_to_post = 0

(* A packet arrives: with no RECV posted the NIC drops it *)
NicRecv ==
    /\ arrived < MaxPkts /\ rq # <<>>
    /\ arrived' = arrived + 1
    /\ ring' = [ring EXCEPT ![Head(rq)] = arrived + 1]
    /\ rq' = Tail(rq)
    /\ recv_cq' = recv_cq + 1
    /\ UNCHANGED <<num_pkts, done, rx_ring_head, taken, recv_head, recvs_to_post>>

rx_burst ==
    /\ num_pkts = 0 /\ recv_cq > 0
    /\ num_pkts' = IF recv_cq < kPostlist THEN recv_cq ELSE kPostlist
    /\ recv_cq' = recv_cq - num_pkts'
    /\ done' = 0
    /\ UNCHANGED <<rq, ring, arrived, rx_ring_head, taken, recv_head, recvs_to_post>>

(* process_comps_st handles one packet of the batch *)
process_pkt ==
    /\ done < num_pkts
    /\ done' = done + 1
    /\ taken' = ring[rx_ring_head]
    /\ rx_ring_head' = (rx_ring_head + 1) % kRQDepth
    /\ UNCHANGED <<rq, ring, recv_cq, arrived, num_pkts, recv_head, recvs_to_post>>

(* last_wr_i, the index of the last RECV of a batch of n *)
last_wr_i(n) ==
    LET i == recv_head + (n - 1) IN IF i >= kRQDepth THEN i - kRQDepth ELSE i

(* post_recvs(num_pkts) at the end of process_comps_st, by the standard verbs      *)
(* driver (use_fast_recv needs a modified one)                                    *)
post_recvs ==
    /\ num_pkts > 0 /\ done = num_pkts
    /\ num_pkts' = 0 /\ done' = 0
    /\ LET n == recvs_to_post + num_pkts
       IN  IF n < kRecvSlack
           THEN recvs_to_post' = n /\ UNCHANGED <<rq, recv_head>>
           ELSE /\ recvs_to_post' = 0
                /\ rq' = rq \o Entries(recv_head, n)
                /\ recv_head' = (last_wr_i(n) + 1) % kRQDepth
    /\ UNCHANGED <<ring, recv_cq, arrived, rx_ring_head, taken>>

Next ==
    \/ NicRecv
    \/ rx_burst
    \/ process_pkt
    \/ post_recvs

Spec == Init /\ [][Next]_vars

----------------------------------------------------------------------------
(* Every completed packet is still in the ring entry the Rpc will read it from:   *)
(* entries are reposted only after they were processed, and the Rpc's index, the  *)
(* RECV index and the NIC's order agree across the wrap of the ring.              *)
PacketsInRing ==
    \A k \in 0 .. recv_cq + (num_pkts - done) - 1 :
        ring[(rx_ring_head + k) % kRQDepth] = arrived - (recv_cq + num_pkts - done) + k + 1

(* The receive queue is refilled before it runs dry: with every completion         *)
(* processed at most kRecvSlack - 1 entries are withheld.                          *)
RqRefilled == recv_cq + num_pkts = 0 => Len(rq) > kRQDepth - kRecvSlack
----------------------------------------------------------------------------
(* Completions that the Rpc has not processed yet *)
Unread == recv_cq + (num_pkts - done)

(* The inductive invariant: every ring entry is posted, completed, or waits to be *)
(* reposted; and the three positions in the ring are those of the packets that    *)
(* were received so far, modulo the size of the ring.                             *)
RingTypes ==
    /\ rq \in Seq(Entry) /\ ring \in [Entry -> Nat]
    /\ recv_cq \in Nat /\ arrived \in Nat /\ num_pkts \in Nat /\ done \in Nat
    /\ taken \in Nat /\ recvs_to_post \in Nat
    /\ rx_ring_head \in Entry /\ recv_head \in Entry

RingInv ==
    /\ RingTypes
    /\ done <= num_pkts /\ recvs_to_post < kRecvSlack /\ Unread <= arrived
    /\ Len(rq) + recv_cq + num_pkts + recvs_to_post = kRQDepth
    /\ \A k \in 1 .. Len(rq) : rq[k] = (arrived + k - 1) % kRQDepth
    /\ rx_ring_head = (arrived - Unread) % kRQDepth
    /\ recv_head = (arrived + Len(rq)) % kRQDepth
    /\ \A j \in arrived - Unread .. arrived - 1 : ring[j % kRQDepth] = j + 1
=============================================================================
