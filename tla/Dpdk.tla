------------------------------- MODULE Dpdk -------------------------------
(***************************************************************************)
(* DpdkTransport: eRPC processes share a DPDK port through the daemon's      *)
(* memzone, which records the process that owns each queue pair; each queue  *)
(* pair has a mempool from which the NIC's RX descriptors, the Rpc's RX ring *)
(* and the packets being sent take their mbufs.                              *)
(*                                                                         *)
(* Processes create and destroy Rpcs (a DpdkTransport each), crash, and may  *)
(* come back with the same PID; the daemon reclaims the queue pairs of PIDs  *)
(* that are gone.                                                            *)
(***************************************************************************)
EXTENDS Integers, FiniteSets

CONSTANTS
    Pids,               \* process ids (a restarted process may reuse one)
    Rpcs,               \* Rpc objects
    PidOf,              \* the process an Rpc lives in
    PortOf,             \* the physical port an Rpc uses
    Ports, NumQps,      \* kMaxQueuesPerPort
    kNumRxRingEntries, kNumMbufs, kNumTxRingDesc, kPostlist, kRxBatchSize,
    MaxCrashes,         \* bound on process crashes
    None

TypeAssumption ==
    /\ PidOf \in [Rpcs -> Pids] /\ PortOf \in [Rpcs -> Ports]
    /\ {NumQps, kNumRxRingEntries, kNumMbufs, kNumTxRingDesc, kPostlist,
        kRxBatchSize} \subseteq Nat \ {0}
    /\ MaxCrashes \in Nat /\ None \notin Pids \cup Rpcs

(* the constants of dpdk_transport.h: the pool covers the RX descriptors, one RX  *)
(* batch, the TX descriptors and one TX batch                                     *)
PoolAssumption ==
    kNumRxRingEntries + kRxBatchSize + kNumTxRingDesc + kPostlist <= kNumMbufs

Qps == 0 .. NumQps - 1
QP == Ports \X Qps

VARIABLES
    owner,        \* memzone: the PID that owns each queue pair, or None
    avail,        \* memzone: num_qps_available_
    mutex,        \* memzone: None, or the PID that died with mutex_ locked, for ever
    alive,        \* the processes that run
    g_dpdk_lock,  \* per process: the Rpc whose constructor holds the lock, or None
    st,           \* per Rpc: none, wait, ctor (lock held, no QP yet), open, thrown
    qp,           \* per Rpc: its queue pair, or None
    free,         \* per queue pair: mbufs in the mempool
    arrived,      \*   packets in the RX queue
    rx_ring,      \*   mbufs in the Rpc's RX ring (rx_ring_head_ - rx_ring_tail_)
    tx_desc,      \*   mbufs in TX descriptors
    tx_mbufs,     \*   mbufs allocated by a tx_burst that has not handed them over
    crashes

memzone == <<owner, avail, mutex>>
pools == <<free, arrived, rx_ring, tx_desc, tx_mbufs>>
vars == <<memzone, alive, g_dpdk_lock, st, qp, pools, crashes>>

(* Daemon start: init of the memzone, setup_phy_port of the queues and mempools;   *)
(* every RX descriptor holds an mbuf                                               *)
Init ==
    /\ owner = [x \in QP |-> None] /\ avail = NumQps /\ mutex = None
    /\ alive = Pids /\ g_dpdk_lock = [p \in Pids |-> None]
    /\ st = [r \in Rpcs |-> "none"] /\ qp = [r \in Rpcs |-> None]
    /\ free = [x \in QP |-> kNumMbufs - kNumRxRingEntries]
    /\ arrived = [x \in QP |-> 0] /\ rx_ring = [x \in QP |-> 0]
    /\ tx_desc = [x \in QP |-> 0] /\ tx_mbufs = [x \in QP |-> 0]
    /\ crashes = 0

----------------------------------------------------------------------------
(* Queue pair ownership *)

(* A thread creates an Rpc (again, after an exception it caught)... *)
ctor_call(r) ==
    /\ PidOf[r] \in alive /\ st[r] \in {"none", "thrown"}
    /\ st' = [st EXCEPT ![r] = "wait"]
    /\ UNCHANGED <<memzone, alive, g_dpdk_lock, qp, pools, crashes>>

(* ...and waits in DpdkTransport's constructor for the process-wide DPDK lock *)
ctor_lock(r) ==
    /\ st[r] = "wait" /\ g_dpdk_lock[PidOf[r]] = None
    /\ g_dpdk_lock' = [g_dpdk_lock EXCEPT ![PidOf[r]] = r]
    /\ st' = [st EXCEPT ![r] = "ctor"]
    /\ UNCHANGED <<memzone, alive, qp, pools, crashes>>

FreeQps(port) == {i \in Qps : owner[<<port, i>>] = None}

LeastFree(port) == <<port, CHOOSE i \in FreeQps(port) : \A j \in FreeQps(port) : i <= j>>

(* The sanity check: a queue pair has this PID but another process random ID, as   *)
(* it is not one of the process's own Rpcs'                                       *)
SamePid(r) ==
    \E i \in Qps : /\ owner[<<PortOf[r], i>>] = PidOf[r]
                   /\ \A s \in Rpcs : ~(st[s] = "open" /\ qp[s] = <<PortOf[r], i>>)

(* get_qp succeeds.  A secondary process drains what a previous owner left in the  *)
(* RX queue, then releases the lock.                                               *)
get_qp(r) ==
    /\ st[r] = "ctor" /\ mutex = None
    /\ FreeQps(PortOf[r]) # {} /\ ~SamePid(r)
    /\ LET x == LeastFree(PortOf[r])
       IN  /\ owner' = [owner EXCEPT ![x] = PidOf[r]]
           /\ qp' = [qp EXCEPT ![r] = x]
           /\ arrived' = [arrived EXCEPT ![x] = 0]
    /\ avail' = avail - 1
    /\ st' = [st EXCEPT ![r] = "open"]
    /\ g_dpdk_lock' = [g_dpdk_lock EXCEPT ![PidOf[r]] = None]
    /\ UNCHANGED <<mutex, alive, free, rx_ring, tx_desc, tx_mbufs, crashes>>

(* get_qp fails: the constructor throws, and the lock is not released *)
get_qp_fails(r) ==
    /\ st[r] = "ctor" /\ mutex = None
    /\ FreeQps(PortOf[r]) = {} \/ SamePid(r)
    /\ st' = [st EXCEPT ![r] = "thrown"]
    /\ UNCHANGED <<memzone, alive, g_dpdk_lock, qp, pools, crashes>>

(* The caller owns the queue *)
free_qp(q) ==
    /\ owner' = [owner EXCEPT ![q] = None]
    /\ avail' = avail + 1

Quiet(r) == st[r] = "open" /\ rx_ring[qp[r]] = 0 /\ tx_mbufs[qp[r]] = 0

(* ~DpdkTransport: drain the RX queue, then free_qp *)
dtor(r) ==
    /\ Quiet(r) /\ mutex = None
    /\ arrived' = [arrived EXCEPT ![qp[r]] = 0]
    /\ free_qp(qp[r])
    /\ st' = [st EXCEPT ![r] = "none"]
    /\ qp' = [qp EXCEPT ![r] = None]
    /\ UNCHANGED <<mutex, alive, g_dpdk_lock, free, rx_ring, tx_desc, tx_mbufs, crashes>>

(* A process dies.  Its mbufs that the NIC does not hold are lost to the pool.    *)
Dies(p) ==
    /\ p \in alive /\ crashes < MaxCrashes
    /\ crashes' = crashes + 1
    /\ alive' = alive \ {p}
    /\ g_dpdk_lock' = [g_dpdk_lock EXCEPT ![p] = None]
    /\ LET mine == {r \in Rpcs : PidOf[r] = p}
           lost == {qp[r] : r \in {r \in mine : st[r] = "open"}}
       IN  /\ st' = [r \in Rpcs |-> IF r \in mine THEN "none" ELSE st[r]]
           /\ qp' = [r \in Rpcs |-> IF r \in mine THEN None ELSE qp[r]]
           /\ rx_ring' = [x \in QP |-> IF x \in lost THEN 0 ELSE rx_ring[x]]
           /\ tx_mbufs' = [x \in QP |-> IF x \in lost THEN 0 ELSE tx_mbufs[x]]
    /\ UNCHANGED <<free, arrived, tx_desc>>

Crash(p) == Dies(p) /\ UNCHANGED memzone

(* It dies in get_qp or free_qp, with the memzone's mutex locked, before or after   *)
(* each of the two writes                                                          *)
CrashLocked(r) ==
    /\ mutex = None /\ mutex' = PidOf[r]
    /\ Dies(PidOf[r])
    /\ \/ /\ st[r] = "ctor" \/ Quiet(r)
          /\ UNCHANGED <<owner, avail>>
       \/ /\ st[r] = "ctor" /\ FreeQps(PortOf[r]) # {} /\ ~SamePid(r)
          /\ owner' = [owner EXCEPT ![LeastFree(PortOf[r])] = PidOf[r]]
          /\ avail' \in {avail, avail - 1}
       \/ /\ Quiet(r)
          /\ avail' = avail + 1
          /\ owner' \in {owner, [owner EXCEPT ![qp[r]] = None]}

(* A process starts, with a PID that may be an old owner's *)
Restart(p) ==
    /\ p \notin alive
    /\ alive' = alive \cup {p}
    /\ UNCHANGED <<memzone, g_dpdk_lock, st, qp, pools, crashes>>

Dead(x) == owner[x] # None /\ owner[x] \notin alive

(* The daemon's loop: QPs whose owner's PID is gone *)
daemon_reclaim_qps_from_crashed(port) ==
    LET dead == {x \in QP : x[1] = port /\ Dead(x)}
    IN  /\ dead # {} /\ mutex = None
        /\ owner' = [x \in QP |-> IF x \in dead THEN None ELSE owner[x]]
        /\ avail' = avail + Cardinality(dead)
        /\ UNCHANGED <<mutex, alive, g_dpdk_lock, st, qp, pools, crashes>>

----------------------------------------------------------------------------
(* Datapath *)

(* A packet reaches the RX queue, if a descriptor is free *)
NicRecv(x) ==
    /\ arrived[x] < kNumRxRingEntries
    /\ arrived' = [arrived EXCEPT ![x] = @ + 1]
    /\ UNCHANGED <<memzone, alive, g_dpdk_lock, st, qp, free, rx_ring, tx_desc, tx_mbufs,
                   crashes>>

Min2(a, b) == IF a < b THEN a ELSE b

(* The driver replaces each mbuf it returns by one of the pool, and delivers no    *)
(* packet it cannot replace                                                        *)
RxCount(x) == Min2(Min2(arrived[x], kRxBatchSize), free[x])

rx_burst(r) ==
    /\ st[r] = "open" /\ rx_ring[qp[r]] = 0 /\ RxCount(qp[r]) > 0
    /\ LET x == qp[r]
           n == RxCount(x)
       IN  /\ arrived' = [arrived EXCEPT ![x] = @ - n]
           /\ rx_ring' = [rx_ring EXCEPT ![x] = n]
           /\ free' = [free EXCEPT ![x] = @ - n]
    /\ UNCHANGED <<memzone, alive, g_dpdk_lock, st, qp, tx_desc, tx_mbufs, crashes>>

(* post_recvs, after process_comps_st has handled the whole batch *)
post_recvs(r) ==
    /\ st[r] = "open" /\ rx_ring[qp[r]] > 0 /\ tx_mbufs[qp[r]] = 0
    /\ free' = [free EXCEPT ![qp[r]] = @ + rx_ring[qp[r]]]
    /\ rx_ring' = [rx_ring EXCEPT ![qp[r]] = 0]
    /\ UNCHANGED <<memzone, alive, g_dpdk_lock, st, qp, arrived, tx_desc, tx_mbufs, crashes>>

(* tx_burst of n packets copies each into an mbuf of the pool (before or during    *)
(* the processing of an RX batch)                                                  *)
tx_burst_alloc(r, n) ==
    /\ st[r] = "open" /\ tx_mbufs[qp[r]] = 0
    /\ tx_mbufs' = [tx_mbufs EXCEPT ![qp[r]] = n]
    /\ free' = [free EXCEPT ![qp[r]] = @ - n]
    /\ UNCHANGED <<memzone, alive, g_dpdk_lock, st, qp, arrived, rx_ring, tx_desc, crashes>>

(* rte_eth_tx_burst, retried until the TX ring has taken every packet *)
tx_burst_send(r) ==
    LET x == qp[r]
        n == Min2(tx_mbufs[x], kNumTxRingDesc - tx_desc[x])
    IN  /\ st[r] = "open" /\ tx_mbufs[x] > 0 /\ n > 0
        /\ tx_mbufs' = [tx_mbufs EXCEPT ![x] = @ - n]
        /\ tx_desc' = [tx_desc EXCEPT ![x] = @ + n]
        /\ UNCHANGED <<memzone, alive, g_dpdk_lock, st, qp, free, arrived, rx_ring, crashes>>

(* The NIC sends; the driver returns the mbuf to the pool *)
NicSend(x) ==
    /\ tx_desc[x] > 0
    /\ tx_desc' = [tx_desc EXCEPT ![x] = @ - 1]
    /\ free' = [free EXCEPT ![x] = @ + 1]
    /\ UNCHANGED <<memzone, alive, g_dpdk_lock, st, qp, arrived, rx_ring, tx_mbufs, crashes>>

Next ==
    \/ \E r \in Rpcs : ctor_call(r) \/ ctor_lock(r) \/ get_qp(r)
                       \/ get_qp_fails(r) \/ dtor(r) \/ CrashLocked(r)
    \/ \E p \in Pids : Crash(p) \/ Restart(p)
    \/ \E port \in Ports : daemon_reclaim_qps_from_crashed(port)
    \/ \E x \in QP : NicRecv(x) \/ NicSend(x)
    \/ \E r \in Rpcs : rx_burst(r) \/ post_recvs(r) \/ tx_burst_send(r)
    \/ \E r \in Rpcs, n \in 1 .. kPostlist : tx_burst_alloc(r, n)

Spec == Init /\ [][Next]_vars

----------------------------------------------------------------------------
(* An open Rpc owns its queue pair, alone: neither get_qp nor the daemon's reclaim *)
(* gives it away, whatever crashes and PID reuse happen.                           *)
QpExclusive ==
    /\ \A r \in Rpcs : st[r] = "open" => owner[qp[r]] = PidOf[r]
    /\ \A r, s \in Rpcs : r # s /\ st[r] = "open" /\ st[s] = "open" => qp[r] # qp[s]

(* num_qps_available_ is the number of QPs that get_qp could hand out, unless a    *)
(* process died between the two writes, with the mutex locked: nobody gets or      *)
(* returns a queue pair after that                                                 *)
AvailMatchesOwners == mutex = None => avail = Cardinality({x \in QP : owner[x] = None})

(* Every mbuf an Rpc takes out of the pool comes back *)
MbufsConserved ==
    \A x \in QP : free[x] + rx_ring[x] + tx_desc[x] + tx_mbufs[x]
                      = kNumMbufs - kNumRxRingEntries

(* rte_pktmbuf_alloc never fails in tx_burst (asserted there, not handled) *)
AllocSucceeds == \A x \in QP : free[x] >= 0

----------------------------------------------------------------------------
(* Why it is so *)

DpdkTypes ==
    /\ owner \in [QP -> Pids \cup {None}] /\ avail \in Int /\ mutex \in Pids \cup {None}
    /\ alive \subseteq Pids
    /\ st \in [Rpcs -> {"none", "wait", "ctor", "open", "thrown"}]
    /\ qp \in [Rpcs -> QP \cup {None}] /\ crashes \in Nat
    /\ free \in [QP -> Int] /\ arrived \in [QP -> 0 .. kNumRxRingEntries]
    /\ rx_ring \in [QP -> 0 .. kRxBatchSize] /\ tx_desc \in [QP -> 0 .. kNumTxRingDesc]
    /\ tx_mbufs \in [QP -> 0 .. kPostlist]

(* Only a running process has Rpcs, so the queue pairs of open ones are not dead. *)
OwnerInv ==
    /\ \A r \in Rpcs : st[r] # "none" => PidOf[r] \in alive
    /\ \A r \in Rpcs : st[r] = "open" => qp[r] \in QP /\ owner[qp[r]] = PidOf[r]
    /\ \A r, s \in Rpcs : r # s /\ st[r] = "open" /\ st[s] = "open" => qp[r] # qp[s]

Owned == {x \in QP : owner[x] # None}

(* num_qps_available_ counts down from one port's queue pairs, whatever the port. *)
AvailInv == IsFiniteSet(Owned) /\ (mutex = None => avail = NumQps - Cardinality(Owned))

(* Until a process crashes, no mbuf is lost. *)
PoolInv == crashes = 0 => MbufsConserved

DpdkInv == DpdkTypes /\ OwnerInv /\ AvailInv /\ PoolInv
=============================================================================
