# A TLA+ verification of eRPC

eRPC is a user-space RPC library: an application thread owns an `Rpc` object and
drives it by running its event loop. Two `Rpc` objects talk over *sessions*. The
transports below them give unreliable datagrams, and the library itself does
connection management, flow control with credits, loss recovery and pacing. The
repository also holds what runs on the library: a replicated key-value store with
its Raft library, persistent stores and logs, data structures, MICA's table and
configuration, and benchmark applications. This directory models them from the
code, checks the models with TLC on small instances, and proves the central ones
with TLAPS for instances of any size.

`PROJECT.json` is the index: components, runs, the map from every definition to
its source lines, the mutants that show each property can fail, the findings,
the hazards and the theorems.

## 1. Inventory of the system

The library (`src/src/`):

| Component | State it keeps | Operations | Correct when |
|---|---|---|---|
| **RPC datapath, client half** (`rpc_impl/rpc_req.cc`, `rpc_kick.cc`, `rpc_resp.cc`, `rpc_cr.cc`, `session.h`, `sslot.h`) | per session: `credits_`, `sslot_free_vec_`, `enq_req_backlog_`; per sslot: `tx_msgbuf_`, `cur_req_num_`, `num_tx_`, `num_rx_`, `resp_msgbuf_`, `in_wheel_` | `enqueue_request`, `kick_req_st`, `kick_rfr_st`, `process_resp_one_st`, `process_expl_cr_st` | credits are conserved; each continuation runs once with the whole response of its own request; nothing refers to a released sslot; every request completes |
| **RPC datapath, server half** (`rpc_req.cc`, `rpc_rfr.cc`, `rpc_resp.cc`, `rpc_cr.cc`) | per sslot: `cur_req_num_`, `num_rx_`, `req_msgbuf_`, `req_type_`, `sav_num_req_pkts_`, response `tx_msgbuf_` | `process_small_req_st`, `process_large_req_one_st`, `process_rfr_st`, `enqueue_response`, `enqueue_cr_st` | each handler runs once; old packets change nothing; the asserts about buried buffers hold |
| **Loss recovery** (`rpc_pkt_loss.cc`) | `progress_tsc_`, active-RPC list, `sm_pending_reqs_` | `pkt_loss_scan_st`, `pkt_loss_retransmit_st` | rollback reclaims exactly the credits outstanding, and re-sends |
| **Event loop and queues** (`rpc_ev_loop.cc`, `rpc_queues.cc`, `rpc_rx.cc`) | `stallq_`, the wheel, background queues, RX ring head | one pass: SM, RX, stall queue, wheel, background queues, loss scan | a stalled sslot is served, or stays queued |
| **Session management** (`rpc_sm_api.cc`, `rpc_sm_helpers.cc`, `rpc_connect_handlers.cc`, `rpc_disconnect_handlers.cc`, `sm_types.h`) | `session_vec_`, `Session::state_`, `sm_pending_reqs_`, `conn_req_token_map_`, `ring_entries_available_` | `create_session_st`, `destroy_session_st`, the four SM handlers | one server session per client session; ring entries balance; each life cycle is reported once, in order |
| **Nexus** (`nexus_impl/`) | hooks, request handlers, thread IDs, the SM thread | launch, handler and hook (un)registration, SM dispatch, refusal for an unregistered `Rpc` | IDs are indexes; a packet reaches a living `Rpc`, or its sender is told |
| **Background threads, MtQueue** (`nexus_bg_thread.cc`, `util/mt_queue.h`) | work queues with a lock and a size read without it | push, unlocked size check, pop, run | nothing lost or run twice, continuations run in the issuing thread |
| **Timing wheel, Timely** (`cc/`) | slots of chained buckets, ready queue, rates | insert, bypass, reap | nothing leaves the wheel early, late, or never |
| **MsgBuffers, HugeAlloc** (`msg_buffer.h`, `util/huge_alloc.h`) | free lists by class, SHM regions | alloc, free, resize, raw alloc | no overlap, no leak |
| **Transports** (`transport_impl/`) | send queue, receive ring, completion queues; DPDK: queue pairs shared by processes, mbufs | `tx_burst`, `tx_flush`, `rx_burst`, `post_recvs`; the daemon's grants and reclaims | no buffer is reused before the NIC is done; no packet is overwritten before it is read |
| **Heartbeat manager** (`heartbeat_mgr.h`) | tracking set, event queue | add, `receive_hb`, `do_one` | a silent remote is reported in time |
| Session reset, logging, timers | | | not modelled: dead code (`if (false)`), or no protocol state |

Around it: the Raft library and the replicated store (`apps/smr`), the persistent
key-value store (`apps/persistent_kv`), the logging application (`apps/log`) and
Raft's log in persistent memory, the benchmark applications (their start, their
traffic, DMA copies, queries, Masstree), `libpc` (B+ tree, list, hash table),
`benchmark` (the same structures on mapped regions, dumped and loaded), and MICA
(`mica`: fixed table, configuration with rapidjson, memory pool, histograms).
`components` in `PROJECT.json` lists each with what is modelled of it and what is not.

How they interact: the application calls into the `Rpc` from its dispatch thread
(or from a background thread through `bg_queues_`); the event loop calls the
handlers, which call back the application's request handlers, continuations and
SM callback; the two `Rpc`s exchange data packets through the transports and SM
packets over UDP through the Nexus SM threads; a session may be destroyed only
when its sslots are free, which ties session management to the datapath.

What is hard here: one sslot is reused by a sequence of requests, while packets
of any earlier request may still arrive; replies can arrive after the client
rolled back the counters they are compared with; go-back-n gives credits back
that replies will try to give back again; the wheel and the TX batch refer to
buffers that a late reply may release; SM requests are repeated over UDP
against a peer that may not exist yet or any more; sizes are read without their
locks; rings and 24-bit counters wrap; stores lose power between two writes; and
readers run against writers without locks. `hazards` in `PROJECT.json` lists each at
its line, with the properties aimed at it.

## 2. Modules

| Module | Contents |
|---|---|
| `ExactlyOnceRpc` | Abstract service: an RPC is issued, executed once, answered once with what its handler produced. |
| `RpcDatapath` | One session, both halves, the NIC queues and the network; its properties; the inductive invariants. |
| `RpcDatapathProofs`, `RpcDatapathDataProofs` | Proofs: the protocol; the data, the TX queues and the refinement. |
| `SessionMgmt`, `SessionMgmtProofs` | A client `Rpc`, a server `Rpc`, the Nexus SM thread, UDP; proofs. |
| `ReplicatedLog` | Abstract service of Raft: what is chosen only grows, every replica applies it in order, until one compacts its log. |
| `RaftServer`, `Smr` | The Raft library, its properties and the first invariants its proofs need; the replicated store around it. |
| `RaftProofs`, `RaftSafetyProofs` | Proofs about both: elections and logs; what is committed, what is acknowledged, the refinement. |
| `MCRaft` | Six clusters: conflicting logs, membership changes, a server left behind, compaction, the store, the store after its leader was deposed. |
| `Heartbeat`, `TimingWheel`, `HugeAlloc`, `Nexus`, `BgThreads`, `TransportTx`, `RecvRing`, `DumbRecv`, `Dpdk` | The other parts of the library. |
| `MCLibrary` | Those parts, `PmemLog` and `AppendLog` side by side, with the sizes as constants. |
| `LibraryProofs` | Proofs about `MCLibrary` and all of its components but the logs, `TimingWheel` and `HugeAlloc`. |
| `BPlusTree`, `LinkedList`, `HashTable`, `MindStore`, `MindTree`, `Pmica`, `PmemLog`, `AppendLog`, `FixedTable`, `JsonReader`, `JsonNumber`, `JsonPool`, `MicaConfig`, `Latency` | Data structures, persistent logs, parsers and utilities. |
| `StoreProofs` | Proofs about `PmemLog`, `AppendLog` and `Pmica`. |
| `MCStores` | TLC instances of those but the two logs. |
| `BenchCluster`, `BenchTraffic`, `PersistentKv`, `QueryApps`, `PmemBw`, `MasstreeApp` | The applications. |
| `MCApps` | TLC instances of those. |

`RpcDatapath` and `SessionMgmt` are the modules of their own runs.
`MCRaft`, `MCLibrary`, `MCStores` and `MCApps` put independent components side by side:
a variable `component` that `Init` chooses says whose behaviour it is, and the others
stay as they start. In `MCRaft`, which extends the store, all clusters share the servers'
variables and have the properties of `RaftServer` and `Smr` themselves. In the others each
property collects what the components promise on one subject, each while it is the one that
runs, so that a run asks one question. `MCLibrary` has constants of its own, to which the
cfg gives values; `LibraryProofs` and `StoreProofs` extend it and are about any values. The
assumption `ConstantsOK` has TLC evaluate the components' assumptions for the instances.

`RpcDatapath` starts with a connected session. `SessionMgmt` has no datapath. The
contract between them is `DisconnectFindsServerIdle`, checked and proved in the
datapath: once all sslots of the client are free (the guard of `destroy_session_st`),
the asserts of `handle_disconnect_req_st` hold at the server.

### RpcDatapath and the code

Variables carry the source's names; the server's have the prefix `s_` where both
halves have the field. A handler invocation is one action, including the packets
it transmits, the credits it returns and what it starts next:

* `enqueue_request`: `EnqueueRequest` (an sslot is free) and `EnqueueRequestBacklog`;
  both share `start_request` with the request that `process_resp_one_st` takes from the
  backlog. `kick_req` and `kick_rfr` give what `kick_req_st` and `kick_rfr_st` send.
* `process_resp_one_st`: `ProcessRespDrop`, `ProcessRespPartial`,
  `ProcessRespComplete`; `process_expl_cr_st`: `ProcessExplCR`.
* `process_small_req_st`, `process_large_req_one_st`, `process_rfr_st`: an action for each
  of the paths "old", "new or next" and "drop". The request handler is invoked within the
  action; its answer is `EnqueueResponse`, at any later time, as for a background or
  nested handler. `Foreground` are the RPCs whose handlers run in the dispatch thread: with
  `kZeroCopyRX`, the default of `tweakme.h`, a request of one packet stays in the RX ring
  and is lent to such a handler, so nothing of it is kept (`req_data`) when the handler
  returns; longer requests, and those of background handlers, are copied.
* `process_credit_stall_queue_st`, `process_wheel_st`, `pkt_loss_scan_st`: one action per
  loop iteration. That only adds interleavings to those of the code.
* `ClientNicSend`, `ServerNicSend`: a packet leaves the TX batch or the DMA queue.
  `drain_tx_batch_and_dma_queue` empties the queue at once.
* Control packets (RFR, CR) are built in `ctrl_msgbufs_` and go to the network
  directly here; the life of their buffers is in `TransportTx`.

Abstractions. A message is the RPC it belongs to and its length in packets; a
payload is the chunk `[rpc, idx]` it was cut from, copied into the receiver's
buffer where the code copies it, so that a chunk at a wrong place is seen. The request
number `kSessionReqWindow * n + index` is kept as the pair of sslot and `n`. Time
is abstracted: a retransmission timeout may expire whenever something is outstanding,
and a packet waits in the wheel for any time. Rates and round-trip times are left out.
With `Pacing`, a request packet goes to the wheel or bypasses it, as the rate
may say; RFRs are not paced, as in the code. `Duplicating` selects a network of
packets that arrive any number of times, or one in which each copy arrives at
most once. Both lose and reorder.

### SessionMgmt and the code

`state`, `srv_num`, `sm_pending_reqs`, `ring` are the client's; `s_session_vec`,
`s_ring` and `server` the server's. `TokenMap` is `conn_req_token_map_`: the code never
removes a token and `session_vec_` never shrinks, so it is read off `s_session_vec`. Each
handler is split by the paths it takes (for connect responses: ignored, retried,
refused, accepted but the client cannot resolve the server, accepted). `RejectRequest` is
the SM thread answering for an `Rpc` that is not registered. The waiting of a packet in
`sm_rx_queue_` is part of its travel time. API calls that return an error change
nothing and have no action. Session numbers are never reused, the random 64-bit
`uniq_token_` is taken to be unique, and ring entries are counted in sessions.
Failures whose causes lie outside (routing resolution, memory) are the set `Faults`.
`DestroyServer` assumes a user who waits until all sessions are gone: `~Rpc` deletes whatever
is left without a check (its comment has the check as a to-do), and a session deleted that
way would leave its client connected to nothing.

### The parts of the library

* `BgThreads`: a push or a pop of an `MtQueue` is two steps (take the lock and change the
  queue; count and unlock), because `size_` is read without the lock; every thread has a
  place `pc[t]`. Handlers answer, or first issue a request of their own.
* `Nexus`: launching, handler registration, the phases of `Rpc::Rpc` and `~Rpc`, and the SM
  thread, which holds the hook lock while it pushes.
* `RecvRing`, `DumbRecv`: the receive rings of the verbs transports and RawTransport's
  overrunning completion queue with its wrapping counter. `TransportTx`: selective
  signaling, `tx_flush` and the ring of control MsgBuffers.
* `Dpdk`: processes that take, lose and have their queue pairs reclaimed, and the mbufs of one. A
  process may die anywhere, also between the two writes of `get_qp` or `free_qp`, which leaves
  the memzone's mutex locked (it is not a robust one) and stops every later caller.
* `TimingWheel`, `HugeAlloc`, `Heartbeat`: slots and buckets, class free lists with splitting,
  the event queue of the heartbeats. Sizes and times are small numbers.

### Stores, parsers and applications

Structures are modelled at the level of their pointers and slots (a heap of nodes with
the values that splits and `malloc` leave behind), and compared with a map or a sequence
kept beside them. Persistent memory is two images, what the CPU sees and what has been
drained; a power failure keeps any subset of the undrained writes. `FixedTable` takes one
shared access per step. The JSON modules run over sequences of tokens, and `JsonNumber`
over digit strings with small widths of the integer types. The applications use the
library as its interface promises (external), and their own windows, batches, MsgBuffers and
threads are modelled.

## 3. Runs

| Run | Instance | What it shows |
|---|---|---|
| `datapath_window` | 2 sslots, 2 credits, 3 RPCs, one with a background handler, requests of 1-2 and responses of 1-3 packets, duplication | The whole invariant `DInv`, all asserts of the handlers, conservation of credits, intact data, the forward-only window, refinement of `ExactlyOnceRpc` |
| `datapath_paced` | the same with the wheel, responses of 1-2 packets | `IInv`, the wheel's index arithmetic, no reference to a free sslot |
| `datapath_live` | 1 sslot, 2 credits, 2 RPCs, 1-2 packets each way, packets are lost for good | every RPC completes |
| `datapath_dma_reference` | 1 sslot, pacing | violation, finding 2 |
| `sm_faults` | 2 sessions, client ring for 2, server ring for 1, all faults, server starts late and may be destroyed | `SmInv`; ring accounting, one server session per token, peers, callbacks, life cycle |
| `sm_live` | 2 sessions, server ring for 2, resolution may fail at the client, connects retried | every `create_session` is decided, and no server session outlives its client session |
| `sm_disconnect_stuck` | 1 session, fair-lossy network | violation, finding 1 |
| `raft` | clusters of 2 or 3 servers, up to 4 terms, 3 entries (2 where logs conflict), 2 messages in flight | election safety, log matching, leader completeness, state machine safety, the leader's bookkeeping, acknowledged PUTs, refinement of `ReplicatedLog` |
| `raft_snapshot` | 3 servers, 1 term, 3 entries, 2 messages, 1 snapshot | violation, finding 3 |
| `library` | eleven components, the append log with either kind of counter, the allocator with either value of `msb_index(0)` | pacing and buffers; the rings of the transports (with `TxInv`, `RingInv`, `DumbInv`); what threads, processes and peers share (with `BgInv`, `NexusInv`, `DpdkInv`, `HbInv`); the logs after a power failure (with `PmemInv`, `AppendInv`); threads and flushes end |
| `stores` | 21 instances | lookups agree with a map or a sequence, `pmica`'s also after a power failure (with `RedoLogInv`); links, memory and locks are sound; parsers and configuration compute what they should |
| `apps` | 28 instances | answers, use of slots, batches and sessions, progress |

Bounds. Two sslots sharing two credits are enough for a credit stall, for a
stall behind a retransmission and for credits moving between sslots; three RPCs on two
sslots make a backlog and the reuse of an sslot (what matters of an earlier
request's packets is whether they are of the current request or of an older one).
Requests of 2 packets have a first, a last and a credit return; responses of 3 need two
RFRs, so RFRs can be reordered. In `SessionMgmt`, two sessions compete for a server ring of
one, so a request is refused and succeeds later; a third session adds no new kind of
competition. Rings, wheels and counters are small and run past their wrap; pools are small
enough to run empty; structures get enough keys to split twice and to chain; two remotes let
an event of one stand before those of the other. The theorems cover what is beyond these
bounds for the properties they reach.

Conflicting logs need three terms before anything happens to them, more than TLC gets through
from the initial state. Three clusters of `raft` therefore start in the middle, in a state that
the comment on it reaches step by step: `Diverged` (two servers hold different entries of terms
1 and 2 at the same index, and the first leads term 3, as in the figure of the Raft paper on old
terms), `LeftBehind` (a majority has entries that a third server lacks when the leader
compacts) and `StoreTakenOver` (the leader that took the client's PUT has been deposed). From
`Diverged` an entry is refused, deleted and replaced, and an old entry is on a majority
without being committed: the mutant that drops the test of the entry's term (`Commit_OldTerm`)
loses `RaftSafety`. From `StoreTakenOver` new entries come on top of a conflict, in a third term.
A snapshot is loaded in `LeftBehind`'s cluster, with one message in flight at a time and one term;
`raft_snapshot` has two messages, and section 4 says what is then lost.

Symmetry is used where no liveness is checked (servers, sslots, sessions that start
alike; in `raft` also with `ImplementsReplicatedLog`, a safety property). The constraint
`StoreInUse` of `raft` leaves a store whose client has stopped, since its last step changes
nothing at the servers, and from the initial state has a second term only after the first PUT. Deadlock checking is off under fairness and in the runs of several
components: bounded histories end, and applications stop.

Fairness. The event loops run forever, so what a loop iteration does once enabled is
weakly fair: the stall queue, the wheel, the loss scan, NIC transmission, the
server's start. Handlers are assumed to answer (`EnqueueResponse`), which is the
contract of the request handler. The links are fair-lossy: strong fairness for the
reception of exactly those packets a waiting end needs, since they are sent again and
again; nothing is assumed about other packets, and losing one is never required. In
`library`, threads run and the NIC sends what was posted; strong fairness stands for a
thread that gets a lock it keeps asking for. In `apps`, event loops and threads run, the
library delivers, a DMA copy finishes, and no background thread is passed over for ever.

With pacing, `EveryRpcCompletes` does not hold in the untimed model: each timeout
may put the awaited packet back into the wheel just before its reply arrives, and the
reply is then discarded (`in_order_client`). The real protocol avoids this by an RTO that is
much longer than the wheel's horizon, which is a timing assumption outside the model.

## 4. Findings

Three disagreements have a run that shows them:

1. **A disconnect can hang** (`sm_disconnect_stuck`). `handle_sm_rx_st` erases the
   session from `sm_pending_reqs_` for any response, before the handler decides whether
   the response is of interest. A late duplicate connect response thus cancels the
   retransmission of a disconnect request.
2. **The drain does not cover the wheel** (`datapath_dma_reference`). A retransmission that
   goes through the wheel reaches the TX batch after the drain; the reply to the first
   transmission may then complete the RPC while the batch refers to its MsgBuffer. Without
   pacing the comment is right, and proved (`NoTxDangles`).
3. **Compacted entries come back** (`raft_snapshot`). An appendentries that is delivered after its
   receiver has loaded a snapshot carries entries that are no longer in the log;
   `raft_recv_appendentries` finds no entry at their index and appends them behind the snapshot
   (`raft_server.c:500`), so that two logs differ at an index with the same term.

The rest was met while modelling. The models follow the code; where a property would fail, it
has the exception in its formula, and here is what the exception is.

**Datapath.** A foreground handler owns a one-packet request only until it returns
(`rpc_req.cc:133`, `tweakme.h:34`): `PendingRequestIntact` does not speak of such a request
afterwards, so a handler that answers later must have copied what it needs. Three comments
are not what the code does: packets in the wheel are counted by `num_tx_` (`rpc.h:1040` says
they are not), the wheel's bypass looks at the sslot and not the session (`rpc.h:625`), and a
control MsgBuffer may still be queued after `2 * unsig_batch` calls (`rpc.h:1034`). The last is
harmless only where control packets are inlined: InfiniBand does (`kMaxInline` 60),
RawTransport does not (0), and with `InlineCtrl` FALSE TLC finds `CtrlIntact` violated.

**Session management.** The comment above `handle_disconnect_resp_st`
(`rpc_disconnect_handlers.cc:59`) says that the client frees its ring entries before it sends the
disconnect request; the code frees them in this handler (line 90), and `RingConservation` says
so. The assert "Disconnects don't fail" (line 66) can fail: a disconnect request that was sent
again and reaches the server's host after the server's `Rpc` was destroyed is answered
`kInvalidRemoteRpcId`; `DisconnectsMatch` allows this case and no other. A server session can be orphaned: the client
takes an error response for the server's last word ("The server didn't allocate session
resources, so we can just destroy", line 168 of `rpc_connect_handlers.cc`), but the server decides
on each copy of the request. When one copy is refused for want of ring entries and a copy sent
again is accepted, the client buries its session and the server keeps one, with its ring entries,
that nobody will disconnect. TLC finds this for two sessions and a server ring for one;
`NoOrphanServerSession` is checked and proved for servers that refuse none.

**Parts of the library.**

* A heartbeat does not renew its remote's time: `emplace` leaves an existing entry as it is
  (`heartbeat_mgr.h:99`), so a living remote is reported after the timeout; and an event of a
  remote that is no longer tracked blocks the queue for good (line 129).
* `msb_index(0)` is undefined (`math_utils.h:38`) and the allocator computes it for the
  smallest class. The model has 0 and 1 for it. If it is not 0,
  the smallest requests get a Buffer of the next class (`ClassIsRight` is then not claimed) and
  everything else still holds. That all calls of one build agree is an assumption: if they do
  not, a message can get a Buffer too small for it. Regions are also not by increasing
  size, as a comment has it (`huge_alloc.cc:142`).
* A request handler registered while an `Rpc` is being constructed is missing from it
  (`rpc.cc:27`).
* DPDK: `num_qps_available_` is one count for all ports (`dpdk_transport.h:123`); it is right
  with one port, and until a process dies with the memzone's mutex locked, after which nobody
  gets or returns a queue pair. An exception in the constructor leaves the process's lock held
  (`dpdk_transport.cc:110`). The mbufs of a crashed process are never returned, and
  `tx_burst` does not check its allocation (`dpdk_transport_datapath.cc:42`).

**Raft and the store.**

* A peer whose next index is exactly that of the snapshot is not sent it (`raft_server.c:901`),
  although its previous entry is compacted away.
* The commit index may move between the begin and the end of a snapshot, and
  `raft_end_snapshot` drops entries up to it, applied or not; the assert against it
  (`raft_server.c:1316`) is not compiled in. `ImplementsReplicatedLog` promises nothing once a
  snapshot has begun (`Compact`). A second begin during a blocking snapshot, which the library
  leaves to its caller, is beyond the bound of one snapshot.
* Loading a snapshot sets the term to the snapshot's (`raft_server.c:1383`), which may lower it
  and lets the server vote twice in a term. `raft` loads snapshots in a cluster of one term.
* `raft_add_node` leaves the addition of configured members uncommitted (`raft_node.c:49`). A
  snapshot's member list leaves such members out, and whoever loads it forgets them;
  `tests/virtraft2.py` marks them with a call of its own. The constant `CommitStatic` says
  whether the user does; the clusters with snapshots do.
* A client whose request was logged by a leader that is then deposed is never answered
  (`smr/server.h:246`).

**Stores.**

* B+ tree: `aggregate_time` tests a key after it has folded in its value, and tests the slot
  behind a leaf's last entry (`bplustree.h:347`), which was never written or holds what a split
  left. So the result may include one key past the range, or end early; `AggregateRun` says that
  it is some run of keys from the right start. Destroying a tree twice fails in `check`
  (line 919).
* Hash table: `rehash` leaves the next pointer of a bucket's last node as it was
  (`hashtable.h:143`), so the chain may run on into other buckets. `ChainsStartWithBucket` says that
  the bucket's own nodes come first, and only nodes of others after them.
* Mapped store: a process that loads the dumped regions finds nothing in the hash table, since its
  constructor clears the bucket array it has just loaded (`hashtable_mind.h:99`, with a comment
  that this may be a bug). `FindsNewest` is about the process that fills the table and
  `NothingLoaded` about the one that queries it.
* pmica: class `RedoLogEntry` calls an entry committed iff its number is at most
  `committed_seq_num` (`pmica.h:72`), but a batch stores there the number of the next entry
  (line 289). While the next batch is being written its first entry counts as committed and may
  be torn: `Ahead`, the one entry that `Durable` and `RedoLogInv` leave out. Without batched
  logging the rule is right.
* Append log: whether the next entry fits is tested with the size of the current one
  (`log.h:88`, `:99`). When the size grows the next entry may be written past the end of the
  mapped file. `CountedIsWritten` is about the cells of the file, and says which entries are whole.
* MICA table: `reset` puts all extra buckets on the free list and leaves the primary buckets
  linked to theirs (`fixedtable_impl/init.h:106`). After a reset of a table with extra buckets in
  use, two chains may share one: `OneCopy` and `ExtraBucketsOwned` hold until then.
* Configuration: adding a container moves the value and leaves the handle it came from null
  (`config.cc:306`, against `const`), and does not move its memory. Three uses go wrong: adding
  through a handle that an addition has left behind, adding a container of the same document
  (`document.h:1351` reads it after the reallocation), and dropping the last handle of a document
  whose pool holds a moved container. `misuse` records them; `OneOwner` and `PoolsLive` hold
  up to the first.
* JSON: `*` followed by `*/` does not end a comment (`reader.h:486`). Where no value can start the two
  parsers report different errors. The cap of a negative exponent leaves no room for the digits
  behind the point, so their sum (`reader.h:1012`) overflows for exponents next to the least
  int; `PowerInTable` excepts exactly that. `perc(1.0)` of a histogram, which its assert allows
  (`latency.h:104`), is 3968, behind the last bin, whatever was recorded.

**Applications.**

* `persistent_kv` keeps pointers into its requests until the batch is drained
  (`persistent_kv.cc:194-197`) and does not ask for a library without `kZeroCopyRX`: the answers of a
  batch are unknown with it, and right without (`AnswersRight`; `Init` chooses the build).
* `pmem_bw`: the start check (`pmem_bw.cc:349`) compares one client's window with the whole file,
  so with several clients or threads copies may overwrite each other before they are checked
  (`crowded`). All server threads use one DMA device (line 158): one may take another's completion
  and answer through its own `Rpc` (`misrouted`); and each sets the device up, of which only the
  first may succeed.
* `server_rate` allows responses as long as `kMTU` (`server_rate.cc:163`), but the preallocated
  MsgBuffer holds one packet's data, which is less (`NoAssertFails`, instance `RateLong`).
* Masstree: without background threads range queries run in the foreground, as `main` warns, where
  the handler's assert fails (`masstree_analytics.cc:73`; instance `MasstreeNoBg`). `sum_in_range`
  takes the address of the pointer to the key for the key (`mt_index_api.h:99`).
* Ctrl-C during the wait for sessions makes the connect functions return, and their callers send
  on sessions that are not connected (`large_rpc_tput/profile_incast.h:31` and its like):
  `RequestsOnConnected` excepts interrupted processes.
* `congestion`: a regular thread connects to the thread with its own ID in each process, not to every
  regular thread (`regular_impl.h:12`). `latency`: the first requests have the largest size and are
  reported under the smallest (`latency.cc:156`). `hashtable`: the query is read before the test that
  there is one (`hashtable.cc:230`).

## 5. Proofs

### The datapath: protocol

`RpcDatapathProofs` proves `Spec => []IInv` for every finite set of sslots, every positive
number of credits, every number of RPCs and packets per message, with and without
pacing and duplication. The assumptions are those `RpcDatapath` states of its
constants: `SslotsAssumption`, `CreditsAssumption`, `BoundsAssumption`,
`SwitchesAssumption`.

The asserts in the code are not inductive: each rests on what packets of which request can
still be in flight. `IInv` says it:

* `ServerInv`: a server sslot is fresh, receiving, waiting for its handler, or done.
* `ClientInv`, `StallqInv`, `BacklogInv`: the client's counters, where a stalled or
  paced sslot is, and that an active sslot with nothing outstanding is stalled.
* `PairInv`: the client is at most one request ahead of the server, and only when the server
  is done with the previous one; on the same request
  `num_rx <= s_num_rx <= num_tx`; and once the client has the whole response, the server
  has sent all of it.
* `NetInv`: for each kind of packet in flight or waiting to be sent, what it implies of the two
  ends, depending on whether it is of the current request.
* `CreditInv`: conservation, over the finite set of outstanding packets.

The argument: `ClientStep` reduces a client action to one sslot, its new packets and a
change of `num_tx - num_rx` that the credits mirror (`OutstandingChange` does the
counting); `ServerStep` does so for the server; `PacketStep` covers actions that only move
or drop packets. There is one lemma per action, `NextIInv` joins them, and the
theorems after `InvariantHolds` derive the asserts from `IInv`. `WheelIndexesUnique` also
needs that packet numbers less than `kSessionCredits` apart differ modulo it
(`ModDistinct`), and that conservation of credits keeps an sslot's window that small
(`WindowWithinCredits`).

### The datapath: data, queues, refinement

`RpcDatapathDataProofs` adds two layers, joined in `DInv == IInv /\ DataInv /\ QueueInv`
(`WholeInvariantHolds`):

* `DataInv`: a packet carries the chunk its header names; what an end has received is in
  its place; the server's request, run and answer are those of the client's RPC once it
  has seen a packet of it; and an RPC is held by one sslot or one place of the backlog.
  From it follow `ResponsesIntact` and `PendingRequestsIntact`; the latter says nothing of
  the contents of a request that was only lent to its handler (`Lent`).
* `QueueInv`: a packet in a TX batch or DMA queue was never sent, because retransmission
  drains the queues, so its receiver still waits for it and its MsgBuffer is in use. At the
  server this holds always, at the client only without pacing: the proof needs exactly the
  hypothesis whose absence finding 2 shows. `AheadInv` ties the server's queue to the client's
  next request. From it follows `NoTxDangles`, and with the window arithmetic
  `WindowsMoveForward`.

`ImplementsService` shows step by step that the datapath implements `ExactlyOnceRpc`: the
refinement mapping reads an RPC's state off the client's sslots, the backlog and the server's
runs; issuing, running the handler and completing are the abstract steps, all other actions
stutter, and that a completion does not happen twice, or with another run's answer, is
`DataInv`.

### Session management

`SmInv` consists of the types, ring conservation, one server session per token, the callbacks,
and three parts that make them inductive: `PeerKnown` (a session past connecting knows the
server session created for it), `BuriedOnRequest` (a server session is buried only on its
client's request, and all are buried when the server stops) and `PacketsMatch` (what a
response or a disconnect in flight implies of the two ends). It is proved for any set of
sessions, any rings, faults and switches; the five safety properties of `sm_faults` and the
action property `LifeCycle` follow. `DisconnectsAlwaysMatch` has every assert of the disconnect
handlers, the one on `err_type_` with the exception of section 4. `NoOrphans` needs more,
`OrphanInv`, and the hypothesis `RefusesNone`: the same transport, ring entries for all sessions,
no failing allocation, and retries; without it section 4 has a counterexample.

### The library

`LibraryProofs` extends `MCLibrary`, and its assumption on the constants is the one TLC
evaluates there, `ConstantsOK`: what each component assumes of its sizes. `RingsHold` and
`ThreadsAndPeersHold` are about the specification the run `library` checks: a behaviour of it is a
behaviour of each component, which takes its steps or stutters (`RxBehaves` to `HbBehaves`), so
what is proved of the components holds in it. Of each component:

* `RecvRing` (`SizeAssumption`): the posted, completed and withheld entries make up the ring, and
  the three indexes are positions of the packet count modulo its size (`RingInv`). The lemmas on
  remainders (`ModAdd`, `ModApart`) then give that an unread packet is where `rx_burst` says
  and that the receive queue is refilled in time.
* `Nexus` (`NexusAssumption`): IDs are handed out in launch order before any `Rpc` exists, hooks are
  registered exactly while an `Rpc` lives, and the SM thread holds the lock while it has one
  (`NexusInv`).
* `BgThreads` (`BgAssumption`): a lock is held by the thread that has changed the queue and not
  yet counted it, so that length and size differ by what the holder is about to add
  (`LockInv`); only the owner of a queue pops from it, so what it has seen stays there
  (`SeenInv`, `SizeIsSafe`); items fit their queues (`ItemsInv`) and every request being
  served is in one place (`PlaceInv`). `PopsFindItems`, `RequestsServedOnce` and
  `ContinuationsAtIssuer` follow.
* `TransportTx` (`SizeAssumption`, `QueueAssumption`): once a packet was posted, exactly one WQE in
  flight is signaled, it is among the first `kUnsigBatch`, and behind it are those that `tx_burst`
  has added since (`SignalInv`); the control packets of a batch are the last entries of their
  ring (`CtrlInv`), and the NIC reads only MsgBuffers that are not inlined (`DmaInv`). So the
  send queue has room for a burst (`SendQueueHasRoom`), and a flush, which
  adds a signaled WQE and polls twice, leaves no buffer with the NIC (`FlushGivesBuffersBack`).
  `CtrlPacketsIntact` has the hypothesis that control packets are inlined.
* `Dpdk` (`TypeAssumption`): only a running process has `Rpc`s, so the daemon never takes the queue
  pair of an open one (`OwnerInv`, `QpsAreExclusive`); the count of free queue pairs goes down
  from one port's number whatever the port (`AvailInv`), hence is right with one port
  (`AvailIsRight`) while nobody has died with the mutex locked; and until a process crashes no mbuf is lost (`PoolInv`), so the unchecked
  allocation in `tx_burst` succeeds (`MbufsSuffice`). These hypotheses are the conditions of
  section 4.
* `Heartbeat` (`TimeAssumption`): a tracked remote has a check queued that comes no later than the
  timeout and one check period after it was last heard of (`Watched`), because every check
  queues the next, and the manager runs all events that are due before time goes on. That
  holds while nothing blocks the queue (`NothingBlocked`): an event of a remote that
  was dropped stays in front of the queue and hides those behind it (`heartbeat_mgr.h:129`), so
  the theorem `SilenceIsReported` is about a manager that has reported no failure yet, or tracks
  one remote.
* `DumbRecv` (`SizeAssumption`, `RingAssumption`): packets are counted back from the newest, so that
  the wrap of the 16-bit counter disappears from the invariant: CQE `(nic - age) % kRecvCQDepth`
  shows the packet of that age, and `cqe_idx` is the one where the oldest packet not yet returned
  is or was shown (`CqesInv`). While a CQE is read, the NIC can only replace it by one
  `kRecvCQDepth` packets newer, so a snapshot mixes at most two such packets (`SnapInv`); equal
  ids then mean that the counter is that of a packet of the ring, and the distance to
  the previous snapshot is the number of packets that have arrived (`DumbReceives`). `RingAssumption`
  is what the transport asserts when it is compiled and initialised; it has powers of two for
  the cycle and the depth of the queue, of which the proof needs that one divides the other.

The invariants proved are also invariants of the runs, so TLC has checked each on the
instances above.

### Raft and the replicated store

All properties of the run `raft` are proved of the Raft library, alone and in the store: for
any number of servers, terms, entries and messages, over a network that loses, delays and
reorders messages without limit. Besides the assumptions on the constants (`ServerAssumption`,
`BoundAssumption`) the theorems have one hypothesis, `FixedMembers`, which is how `apps/smr`
uses the library: `init_raft` adds all servers before the first message, entries are `NORMAL`,
and no snapshot is taken. Servers outside the cluster are allowed and stay silent.

`RaftProofs` proves election safety and log matching (`RaftElectionSafety`, `RaftLogMatching`).
Neither property is inductive. What makes them so:

* `FixedTypes`: types of records and messages, a ring of the log that never overflows, and the
  consequences of `FixedMembers` (`base` stays 0, all members are voting).
* `VoteInv`: what is left of a vote (the voter's `voted_for`, a granting response on its way, the
  candidate's `voted_for_me`) names one candidate per term, and the voter knows of it while the
  term lasts. `raft_become_follower` keeps `voted_for_me` of an earlier term; the invariant
  counts it only for candidates and leaders of the term, and `raft_become_candidate` clears it.
* `LeaderInv`: a leader has a majority of such votes, and majorities meet (`MajoritiesMeet`).
  `OneLeader` follows.
* `Elected(s, t)`: s has won term t, or nobody else can any more. It stays true when the servers
  that voted move on, which the votes alone do not (`ElectedKept`).
* `LinksUnique`: an entry, its index and the term before it, in a log or in an `appendentries`
  message, is determined by index and term. `LinksElected`: every entry comes from an elected
  server, and a leader holds all entries of its term, so that what it appends is new.

`ServerStep` reduces a step to the record that a handler leaves and the messages it sends
(`HandlerOK`), and there is one lemma per handler. The loops of the library (`raft_apply_all`,
the appending and deleting of entries) are recursive functions; `NatInduct`, from the
well-foundedness of `<`, gives what they compute (`ApplyAll`, `AppendAll`, `DeleteFrom`).
`RecvEntriesOK` is the long one: the entries a follower keeps, deletes and appends in
`raft_recv_appendentries` form a chain of links that logs and messages had before
(`LinksOfChain`). Log matching follows from `LinksUnique` by induction from an index downwards
(`PrefixesAgree`). For the store, `ClientInv` says that the server the client takes for the leader is
one of the cluster, also after a redirection or a reset session (`StoreInvariant`).

`RaftSafetyProofs` goes on to what is committed. The present state does not say why an entry
stays: the majority that held it may have moved on to later terms, and the leader that
counted it may be gone. So the invariant speaks of the past. A history `h` has, for every term
that has had a leader, who it was, how long its log was when elected (`start`), that log as
it is or was last (`log`), and how much of it each server has ever confirmed in that term
(`ack`). `SafetyInv` says that some history explains the state (`RaftHistory`):

* `HistoryOK`: every entry of a leader's log came, with all before it, from the leader of its
  term (`Coherent`).
* `ServerOK`: a server's log is coherent; a leader's log is the history's, and `match_idx` of a
  peer is at most its `ack`; the commit index is covered by an entry that a majority has
  confirmed in its own leader's term (`CommitOK`); what is applied is a committed part of the log.
* `MessageOK`: an `appendentries` message is a slice of its leader's log; a successful
  response reports no more than `ack`; a vote request tells what the candidate's log is.
* `LeadersHave`, `ServersHave`, `CandidatesHave`: what may still be or become confirmed by a
  majority (`Choosable`) is in the log of every later leader, is kept by those that confirmed it,
  and makes a candidate that has their votes at least as up to date. Here
  `__should_grant_vote` compares the logs, and `raft_recv_appendentries_response` counts only
  entries of the own term: without either check the invariant is lost.

A step is shown to leave the history as it is, to extend one leader's log and one server's
`ack` (`RaisedHistory`), or to add a term (`WonHistory`); there is again one lemma per handler
(`... Proceeds`), and `MoveOK` carries the parts about all servers from one history to the next.
From `SafetyInv` follow `RaftIsSafe` (leader completeness: `SafeCompleteness`; state machine
safety: `SafeMachines`, since any two committed parts of logs agree, `CommitsAgree`),
`RaftBookkeeping` and `RaftNeverDown`: the two places where the library gives up with
`RAFT_ERR_SHUTDOWN` are never reached. For the store the history also explains the saved
request (its entry is in the log of the leader that took it) and every answer given (its
entry was committed in a term not later than the answer's): `StoreHistories`, and from it
`StoreAckedIsDurable`, and `StoreIsSafe` with the `rt_assert` of `client_req_handler`.

The refinement of `ReplicatedLog` (`RaftImplementsReplicatedLog`,
`StoreImplementsReplicatedLog`): what is chosen is what the server with the highest commit
index holds for committed. A step moves one server forward, either its commit index or its
state machine (`Forward`); what was committed under the history before is committed under the
one after (`CommitLater`), so what was chosen is a prefix of what is chosen (`ChosenGrows`), and
what a server has applied a prefix of that. The same theorems say that no snapshot is begun, so
the abstract log's release from its promise (`Compact`) is never used.

The invariant quantifies over histories, which TLC cannot enumerate; its consequences are
what the run checks.

### Persistent memory

`StoreProofs` proves what survives a power failure at any step, whatever part of the undrained
writes it keeps; for the two logs also as the run's property `LogsSurvive` (`LogsSurviveHolds`):

* `PmemLog`: what lies below the persistent tail is the log that Raft was told is persistent, and
  what `append` is storing lies behind it; term and vote are one eight-byte store (`PmemInv`,
  `RaftLogSurvives`).
* `AppendLog`, with one or with rotating counters (`use_rotating`, which `Init` chooses): the newest count is in one buffer only, and the
  place written next is another (`CountInv`; with two buffers or more), so a torn write never
  takes the newest; the count covers what was answered and at most the append in progress, whose data
  is drained before it is counted (`DataInv`, `AppendLogSurvives`). Cells are those of the mapped
  file: an entry larger than its predecessor may have an end outside of it, of which nothing is
  claimed (section 4).
* `Pmica`: an entry that is committed by the rule of `RedoLogEntry` (`Committed`: its number is at
  most the committed one) has no older version left that it could be mixed with, since it was
  drained before a number above its own was committed (`RedoLogInv`, `RedoLogIsIntact`). With
  batched logging the one entry with exactly the committed number is excepted (`Ahead`): section 4.

### Only model-checked

* Liveness (`EveryRpcCompletes`, `ConnectsResolve`, `Progress`, `AppsProgress`): fairness and
  `ENABLED` are out of the prover's reach.
* What recursive operators and folds compute for every input (the trees, the parsers):
  that needs induction over data.
* Of Raft: the same properties with membership changes and snapshots, within the bounds of `raft`;
  with snapshots the refinement holds only until one is begun (section 4).
* `TimingWheel` and `HugeAlloc`, whose loops are folds over slots and classes; what pmica's recovery
  rebuilds (`Durable`, `GetsLatest`: a walk along bucket chains); the other stores, whose
  operators are recursive; the applications.

## 6. Not modelled, and the plan

Not modelled: session reset (dead code), device set-up and packet formats of the transports
(I/O), Timely's floating-point rates, floating-point conversion in rapidjson and the parts of
it that MICA does not reach, hashing and memory copies, logging, statistics and flags.

Open: proofs for Raft with membership changes and with snapshots, and of the timing wheel; the
other stores need induction over data first.
