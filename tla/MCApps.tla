------------------------------- MODULE MCApps -------------------------------
(***************************************************************************)
(* The applications and benchmarks, and MICA's table under contention, side *)
(* by side: a behaviour is one of one component, which its initial state   *)
(* picks, and the others stay in their initial states.                     *)
(***************************************************************************)
EXTENDS Integers, Sequences, TLC

VARIABLES
  component,  \* whose behaviour this is
  st, created, connected, ring, ctrl_c, used,
  owner, req_msgbuf, wire, num_resps_rcvd, failed, req_size, double_req_size,
  seconds, done, answered, report,
  kZeroCopyRX, rejects, table, max_key, batch, new_reqs, held, phase, sm_resps,
  client_max, req, resp,
  inserted, session_num_vec, num_sm_resps, num_reqs, slot, read, answers,
  experiment_finished, ended,
  cur_req_size, bw_req, setup, device, cur_offset, dmas, file, mismatch, crowded, sent,
  pos, mt_table, etid, mt_slot, working, asserts,
  version, next, key_arr, val, list, w, r, fixed_table, ops, resets, stale_links

clusterVars == <<st, created, connected, ring, ctrl_c, used>>
trafficVars == <<owner, req_msgbuf, wire, num_resps_rcvd, failed, req_size,
                 double_req_size, seconds, done, answered, report>>
kvVars == <<kZeroCopyRX, rejects, table, max_key, batch, new_reqs, held, phase, sm_resps,
            client_max, req, resp>>
queryVars == <<inserted, session_num_vec, num_sm_resps, num_reqs, slot, read, answers,
               experiment_finished, ended>>
bwVars == <<cur_req_size, bw_req, setup, device, cur_offset, dmas, file, mismatch, crowded, sent>>
mtVars == <<pos, mt_table, etid, mt_slot, working, asserts>>
fixedVars == <<version, next, key_arr, val, list, w, r, fixed_table, ops, resets, stale_links>>

line(op, key, len) == [op |-> op, key |-> key, len |-> len]
Data == <<line("INSERT", 2, 0), line("UPDATE", 9, 0), line("INSERT", 5, 0),
          line("INSERT", 3, 0), line("INSERT", 7, 0)>>
Queries == <<line("READ", 5, 1), line("INSERT", 4, 0), line("SCAN", 2, 2), line("READ", 5, 1),
             line("AGGREGATE", 7, 1), line("SCAN", 3, 2), line("READ", 2, 1)>>

SmallCluster == INSTANCE BenchCluster WITH
  App <- "small", N <- 3, T0 <- 1, T <- 1, Incast <- 0, kSessionCredits <- 2,
  kNumRxRingEntries <- 16, kDPDK <- FALSE, MaxInterrupts <- 1

RateCluster == INSTANCE BenchCluster WITH
  App <- "rate", N <- 3, T0 <- 2, T <- 1, Incast <- 0, kSessionCredits <- 2,
  kNumRxRingEntries <- 16, kDPDK <- FALSE, MaxInterrupts <- 3

LatencyCluster == INSTANCE BenchCluster WITH
  App <- "latency", N <- 4, T0 <- 1, T <- 1, Incast <- 0, kSessionCredits <- 2,
  kNumRxRingEntries <- 16, kDPDK <- FALSE, MaxInterrupts <- 1

LogCluster == INSTANCE BenchCluster WITH
  App <- "log", N <- 3, T0 <- 3, T <- 2, Incast <- 0, kSessionCredits <- 2,
  kNumRxRingEntries <- 16, kDPDK <- FALSE, MaxInterrupts <- 0

IncastCluster == INSTANCE BenchCluster WITH
  App <- "incast", N <- 4, T0 <- 2, T <- 1, Incast <- 0, kSessionCredits <- 2,
  kNumRxRingEntries <- 16, kDPDK <- FALSE, MaxInterrupts <- 1

VictimCluster == INSTANCE BenchCluster WITH
  App <- "victim", N <- 4, T0 <- 1, T <- 2, Incast <- 0, kSessionCredits <- 2,
  kNumRxRingEntries <- 16, kDPDK <- FALSE, MaxInterrupts <- 0

Congestion == INSTANCE BenchCluster WITH
  App <- "congestion", N <- 3, T0 <- 1, T <- 2, Incast <- 1, kSessionCredits <- 2,
  kNumRxRingEntries <- 16, kDPDK <- FALSE, MaxInterrupts <- 0

SmallTraffic == INSTANCE BenchTraffic WITH
  App <- "small", Batches <- 2, BatchSize <- 2, ReqSize <- 2, RespSize <- 3, kMTU <- 4,
  kMaxDataPerPkt <- 3, kAppEndReqSize <- 4, MaxSeconds <- 4

SmallDyn == INSTANCE BenchTraffic WITH
  App <- "small_dyn", Batches <- 2, BatchSize <- 3, ReqSize <- 2, RespSize <- 5, kMTU <- 4,
  kMaxDataPerPkt <- 3, kAppEndReqSize <- 4, MaxSeconds <- 4

LargeTraffic == INSTANCE BenchTraffic WITH
  App <- "large", Batches <- 1, BatchSize <- 2, ReqSize <- 2, RespSize <- 5, kMTU <- 4,
  kMaxDataPerPkt <- 3, kAppEndReqSize <- 4, MaxSeconds <- 4

RateTraffic == INSTANCE BenchTraffic WITH
  App <- "rate", Batches <- 1, BatchSize <- 2, ReqSize <- 2, RespSize <- 3, kMTU <- 4,
  kMaxDataPerPkt <- 3, kAppEndReqSize <- 4, MaxSeconds <- 4

RateLong == INSTANCE BenchTraffic WITH
  App <- "rate", Batches <- 1, BatchSize <- 2, ReqSize <- 2, RespSize <- 4, kMTU <- 4,
  kMaxDataPerPkt <- 3, kAppEndReqSize <- 4, MaxSeconds <- 4

IncastTraffic == INSTANCE BenchTraffic WITH
  App <- "incast", Batches <- 1, BatchSize <- 1, ReqSize <- 2, RespSize <- 5, kMTU <- 4,
  kMaxDataPerPkt <- 3, kAppEndReqSize <- 4, MaxSeconds <- 4

RegularTraffic == INSTANCE BenchTraffic WITH
  App <- "regular", Batches <- 1, BatchSize <- 6, ReqSize <- 2, RespSize <- 5, kMTU <- 4,
  kMaxDataPerPkt <- 3, kAppEndReqSize <- 4, MaxSeconds <- 4

LatencyTraffic == INSTANCE BenchTraffic WITH
  App <- "latency", Batches <- 1, BatchSize <- 1, ReqSize <- 1, RespSize <- 2, kMTU <- 4,
  kMaxDataPerPkt <- 3, kAppEndReqSize <- 8, MaxSeconds <- 8

KvBatch == INSTANCE PersistentKv WITH
  Servers <- {"s1"}, Window <- 1 .. 2, kAppMaxServerBatch <- 2, kMaxBatchSize <- 2, KeyCap <- 3

KvDrain == INSTANCE PersistentKv WITH
  Servers <- {"s1", "s2"}, Window <- 1 .. 2, kAppMaxServerBatch <- 2, kMaxBatchSize <- 2, KeyCap <- 2

HashQueries == INSTANCE QueryApps WITH
  App <- "hashtable", DataFile <- Data, QueryFile <- Queries, num_keys <- 4, num_queries <- 6,
  num_server_processes <- 2, num_processes <- 3, Concurrency <- 3, Lengths <- {1}

ScanQueries == INSTANCE QueryApps WITH
  App <- "scan", DataFile <- Data, QueryFile <- Queries, num_keys <- 4, num_queries <- 6,
  num_server_processes <- 2, num_processes <- 3, Concurrency <- 2, Lengths <- {0, 3}

AggQueries == INSTANCE QueryApps WITH
  App <- "agg", DataFile <- Data, QueryFile <- Queries, num_keys <- 4, num_queries <- 6,
  num_server_processes <- 2, num_processes <- 3, Concurrency <- 4, Lengths <- {1}

Dma == INSTANCE PmemBw WITH
  req <- bw_req,
  Servers <- 1, Clients <- 1, Concurrency <- 2, MinReqSize <- 1, MaxReqSize <- 2, FileSize <- 8,
  UseIoat <- TRUE, MaxReqs <- 3

Shared == INSTANCE PmemBw WITH
  req <- bw_req,
  Servers <- 2, Clients <- 3, Concurrency <- 1, MinReqSize <- 2, MaxReqSize <- 2, FileSize <- 8,
  UseIoat <- TRUE, MaxReqs <- 2

Share == INSTANCE PmemBw WITH
  req <- bw_req,
  Servers <- 2, Clients <- 2, Concurrency <- 1, MinReqSize <- 1, MaxReqSize <- 2, FileSize <- 8,
  UseIoat <- FALSE, MaxReqs <- 4

Masstree == INSTANCE MasstreeApp WITH
  table <- mt_table, slot <- mt_slot,
  Fg <- 2, Bg <- 2, Populate <- 2, Cores <- 4, NumKeys <- 3, RangeSize <- 2, Clients <- 2, Window <- 1

MasstreeLive == INSTANCE MasstreeApp WITH
  table <- mt_table, slot <- mt_slot,
  Fg <- 2, Bg <- 1, Populate <- 2, Cores <- 4, NumKeys <- 1, RangeSize <- 2, Clients <- 2, Window <- 1

MasstreeNoBg == INSTANCE MasstreeApp WITH
  table <- mt_table, slot <- mt_slot,
  Fg <- 2, Bg <- 0, Populate <- 2, Cores <- 4, NumKeys <- 2, RangeSize <- 2, Clients <- 2, Window <- 1

FixedFull == INSTANCE FixedTable WITH
  table <- fixed_table,
  Writers <- {1, 2}, Readers <- {}, NumBuckets <- 1, NumExtraBuckets <- 0, kBucketCap <- 1,
  Hash <- <<1, 1>>, Values <- {1}, MaxOps <- 3, MaxResets <- 1

FixedGet == INSTANCE FixedTable WITH
  table <- fixed_table,
  Writers <- {1}, Readers <- {1}, NumBuckets <- 1, NumExtraBuckets <- 1, kBucketCap <- 1,
  Hash <- <<1, 1>>, Values <- {1}, MaxOps <- 2, MaxResets <- 1

ASSUME ConstantsOK ==
  /\ SmallCluster!BenchClusterAssumption /\ RateCluster!BenchClusterAssumption
  /\ LatencyCluster!BenchClusterAssumption /\ LogCluster!BenchClusterAssumption
  /\ IncastCluster!BenchClusterAssumption /\ VictimCluster!BenchClusterAssumption
  /\ Congestion!BenchClusterAssumption
  /\ SmallTraffic!BenchTrafficAssumption /\ SmallDyn!BenchTrafficAssumption
  /\ LargeTraffic!BenchTrafficAssumption /\ RateTraffic!BenchTrafficAssumption
  /\ RateLong!BenchTrafficAssumption
  /\ IncastTraffic!BenchTrafficAssumption /\ RegularTraffic!BenchTrafficAssumption
  /\ LatencyTraffic!BenchTrafficAssumption
  /\ KvBatch!PersistentKvAssumption /\ KvDrain!PersistentKvAssumption
  /\ HashQueries!QueryAppsAssumption /\ HashQueries!LoadedAssumption
  /\ ScanQueries!QueryAppsAssumption /\ ScanQueries!LoadedAssumption
  /\ AggQueries!QueryAppsAssumption /\ AggQueries!LoadedAssumption
  /\ Dma!PmemBwAssumption /\ Shared!PmemBwAssumption /\ Share!PmemBwAssumption
  /\ Masstree!MasstreeAppAssumption /\ MasstreeLive!MasstreeAppAssumption
  /\ MasstreeNoBg!MasstreeAppAssumption
  /\ FixedFull!FixedTableAssumption /\ FixedGet!FixedTableAssumption

Components ==
  {"SmallCluster", "RateCluster", "LatencyCluster", "LogCluster", "IncastCluster",
   "VictimCluster", "Congestion", "SmallTraffic", "SmallDyn", "LargeTraffic",
   "RateTraffic", "RateLong", "IncastTraffic", "RegularTraffic", "LatencyTraffic", "KvBatch",
   "KvDrain", "HashQueries", "ScanQueries", "AggQueries", "Dma", "Shared", "Share", "Masstree",
   "MasstreeLive", "MasstreeNoBg", "FixedFull", "FixedGet"}

Init ==
  /\ component \in Components
  /\ CASE component = "RateCluster"    -> RateCluster!Init
       [] component = "LatencyCluster" -> LatencyCluster!Init
       [] component = "LogCluster"     -> LogCluster!Init
       [] component = "IncastCluster"  -> IncastCluster!Init
       [] component = "VictimCluster"  -> VictimCluster!Init
       [] component = "Congestion"     -> Congestion!Init
       [] OTHER                        -> SmallCluster!Init
  /\ CASE component = "SmallDyn"       -> SmallDyn!Init
       [] component = "LargeTraffic"   -> LargeTraffic!Init
       [] component = "RateTraffic"    -> RateTraffic!Init
       [] component = "RateLong"       -> RateLong!Init
       [] component = "IncastTraffic"  -> IncastTraffic!Init
       [] component = "RegularTraffic" -> RegularTraffic!Init
       [] component = "LatencyTraffic" -> LatencyTraffic!Init
       [] OTHER                        -> SmallTraffic!Init
  /\ IF component = "KvBatch" THEN KvBatch!Init ELSE KvDrain!Init
  /\ component \notin {"KvBatch", "KvDrain"} => rejects = {} /\ ~kZeroCopyRX
  /\ CASE component = "ScanQueries" -> ScanQueries!Init
       [] component = "AggQueries"  -> AggQueries!Init
       [] OTHER                     -> HashQueries!Init
  /\ CASE component = "Share"  -> Share!Init
       [] component = "Shared" -> Shared!Init
       [] OTHER                -> Dma!Init
  /\ CASE component = "Masstree"     -> Masstree!Init
       [] component = "MasstreeNoBg" -> MasstreeNoBg!Init
       [] OTHER                      -> MasstreeLive!Init
  /\ IF component = "FixedGet" THEN FixedGet!Init ELSE FixedFull!Init

Next ==
  /\ UNCHANGED component
  /\ CASE component = "SmallCluster"   -> SmallCluster!Next
       [] component = "RateCluster"    -> RateCluster!Next
       [] component = "LatencyCluster" -> LatencyCluster!Next
       [] component = "LogCluster"     -> LogCluster!Next
       [] component = "IncastCluster"  -> IncastCluster!Next
       [] component = "VictimCluster"  -> VictimCluster!Next
       [] component = "Congestion"     -> Congestion!Next
       [] OTHER                        -> UNCHANGED clusterVars
  /\ CASE component = "SmallTraffic"   -> SmallTraffic!Next
       [] component = "SmallDyn"       -> SmallDyn!Next
       [] component = "LargeTraffic"   -> LargeTraffic!Next
       [] component = "RateTraffic"    -> RateTraffic!Next
       [] component = "RateLong"       -> RateLong!Next
       [] component = "IncastTraffic"  -> IncastTraffic!Next
       [] component = "RegularTraffic" -> RegularTraffic!Next
       [] component = "LatencyTraffic" -> LatencyTraffic!Next
       [] OTHER                        -> UNCHANGED trafficVars
  /\ CASE component = "KvBatch" -> KvBatch!Next
       [] component = "KvDrain" -> KvDrain!Next
       [] OTHER                 -> UNCHANGED kvVars
  /\ CASE component = "HashQueries" -> HashQueries!Next
       [] component = "ScanQueries" -> ScanQueries!Next
       [] component = "AggQueries"  -> AggQueries!Next
       [] OTHER                     -> UNCHANGED queryVars
  /\ CASE component = "Dma"    -> Dma!Next
       [] component = "Shared" -> Shared!Next
       [] component = "Share"  -> Share!Next
       [] OTHER                -> UNCHANGED bwVars
  /\ CASE component = "Masstree"     -> Masstree!Next
       [] component = "MasstreeLive" -> MasstreeLive!Next
       [] component = "MasstreeNoBg" -> MasstreeNoBg!Next
       [] OTHER                      -> UNCHANGED mtVars
  /\ CASE component = "FixedFull" -> FixedFull!Next
       [] component = "FixedGet"  -> FixedGet!Next
       [] OTHER                   -> UNCHANGED fixedVars

vars == <<component, clusterVars, trafficVars, kvVars, queryVars, bwVars, mtVars,
          fixedVars>>

Spec == Init /\ [][Next]_vars

\* The event loops and threads of an application run, the library delivers and calls
\* continuations, the DMA device finishes its copies, and no background thread is
\* passed over for ever
Fairness ==
  /\ \A t \in SmallCluster!Threads : WF_clusterVars(component = "SmallCluster" /\
        (\/ SmallCluster!thread_func(t) \/ SmallCluster!create_next(t)
         \/ SmallCluster!start_work(t)
         \/ \E s \in SmallCluster!Threads : SmallCluster!basic_sm_handler(t, s)))
  /\ \A s \in SmallTraffic!Slots : WF_trafficVars(component = "SmallTraffic" /\
        \E m \in wire : m.slot = s /\ (SmallTraffic!req_handler(m) \/ SmallTraffic!app_cont_func(m)))
  /\ \A s \in LargeTraffic!Slots : WF_trafficVars(component = "LargeTraffic" /\
        \E m \in wire : m.slot = s /\ (LargeTraffic!req_handler(m) \/ LargeTraffic!app_cont_func(m)))
  /\ \A x \in 1 .. 2 : /\ WF_kvVars(component = "KvDrain" /\ KvDrain!Handler(x))
                       /\ WF_kvVars(component = "KvDrain" /\ KvDrain!kv_cont_func(x))
  /\ \A s \in {"s1", "s2"} : /\ WF_kvVars(component = "KvDrain" /\ KvDrain!event_loop_once(s))
                             /\ WF_kvVars(component = "KvDrain" /\ KvDrain!create_session(s))
  /\ WF_kvVars(component = "KvDrain" /\ (KvDrain!max_key_send_req \/ KvDrain!max_key_cont_func))
  /\ WF_queryVars(component = "HashQueries" /\ (HashQueries!client_start \/ HashQueries!client_func))
  /\ WF_queryVars(component = "HashQueries" /\ (HashQueries!connect_sessions \/ HashQueries!basic_sm_handler))
  /\ \A p \in HashQueries!Servers : WF_queryVars(component = "HashQueries" /\ HashQueries!server_func(p))
  /\ \A s \in HashQueries!Slots : WF_queryVars(component = "HashQueries" /\
        (HashQueries!req_handler(s) \/ HashQueries!app_cont_func(s)))
  /\ \A s \in Dma!Slots : WF_bwVars(component = "Dma" /\ Dma!req_handler(s))
  /\ WF_bwVars(component = "Dma" /\ Dma!dma_done)
  /\ WF_bwVars(component = "Dma" /\ Dma!ServerStep(0))
  /\ \A t \in {0, 1} : WF_mtVars(component = "MasstreeLive" /\ MasstreeLive!masstree_populate_func(t))
  /\ \A t \in MasstreeLive!FgThreads \union MasstreeLive!BgThreads :
        WF_mtVars(component = "MasstreeLive" /\
          (\/ MasstreeLive!register(t)
           \/ \E s \in MasstreeLive!Slots : \/ MasstreeLive!point_req_handler(s, t)
                                            \/ MasstreeLive!range_req_handler(s, t)))
  /\ \A s \in MasstreeLive!Slots : SF_mtVars(component = "MasstreeLive" /\
        \E t \in MasstreeLive!FgThreads \union MasstreeLive!BgThreads : MasstreeLive!enter_handler(s, t))
  /\ \A t \in {1, 2} : WF_fixedVars(component = "FixedFull" /\ FixedFull!WriterStep(t))
  /\ WF_fixedVars(component = "FixedGet" /\ FixedGet!WriterStep(1))
  /\ WF_fixedVars(component = "FixedGet" /\ FixedGet!ReaderStep(1))

FairSpec == Spec /\ Fairness

-----------------------------------------------------------------------------
\* PROPERTIES: each collects what the components on its subject promise, and asks
\* every component for its part while that component is the one that runs

\* What a client is answered: the key-value store answers every SET and GET with the
\* result for its own key, in whatever batch and order it was served (kv_req_handler,
\* drain_batch), in a build without zero-copy RX, and in one with it unless the request
\* or an earlier SET was read after its handler had returned; a query is answered once,
\* for its own key, and no more than the window stay unanswered when the client stops
\* (send_req, req_handler); Masstree's point queries find the value that one of the
\* populating threads stored; and the check of a DMA copy finds the request's bytes
\* (server_func), always with one client and one server thread, and with more until a
\* thread has copies in flight for more than half of its share of the file.
Answers ==
  CASE component = "KvBatch"      -> KvBatch!AnswersRight
    [] component = "KvDrain"      -> KvDrain!AnswersRight
    [] component = "HashQueries"  -> HashQueries!AnswersRight /\ HashQueries!FewUnanswered
    [] component = "ScanQueries"  -> ScanQueries!AnswersRight
    [] component = "AggQueries"   -> AggQueries!AnswersRight /\ AggQueries!FewUnanswered
    [] component = "Masstree"     -> Masstree!ValueMatches
    [] component = "MasstreeLive" -> MasstreeLive!ValueMatches
    [] component = "MasstreeNoBg" -> MasstreeNoBg!ValueMatches
    [] component = "Dma"          -> Dma!CopyChecksOut
    [] component = "Shared"       -> Shared!CopyChecksOut
    [] OTHER                      -> TRUE

\* What the applications share between requests is used by one at a time: a benchmark's
\* slot has one request in the library, whose MsgBuffer nobody resizes, and no assertion
\* on a response fails, but that server_rate accepts a response size that its buffer
\* cannot hold; a request of the key-value store is in one batch that is shorter than
\* its arrays; no two threads at work use the same Masstree threadinfo and every handler
\* runs in the kind of thread it asserts, but for range queries without background
\* threads; DMA copies that are not checked yet do not overlap, each in its thread's
\* share of the file, as long as that is at most half in flight.  And the sessions: the
\* rings hold all of them, the first requests go to connected ones unless Ctrl-C cut the
\* wait short, the incast's servers serve equally many, and the victim profile's flows
\* are the ones it is to measure.
SlotsAndSessions ==
  CASE component = "SmallTraffic"   -> SmallTraffic!NoAssertFails /\ SmallTraffic!OneRequestPerSlot
    [] component = "SmallDyn"       -> SmallDyn!OneRequestPerSlot
    [] component = "RegularTraffic" -> RegularTraffic!NoAssertFails
    [] component = "RateTraffic"    -> RateTraffic!NoAssertFails
    [] component = "RateLong"       -> RateLong!NoAssertFails
    [] component = "IncastTraffic"  -> IncastTraffic!NoAssertFails
    [] component = "LatencyTraffic" -> LatencyTraffic!InFlightIntact
    [] component = "KvBatch"        -> KvBatch!BatchesSound
    [] component = "KvDrain"        -> KvDrain!BatchesSound
    [] component = "Masstree"       -> Masstree!OwnThreadinfo /\ Masstree!HandlersInPlace
    [] component = "MasstreeNoBg"   -> MasstreeNoBg!OwnThreadinfo /\ MasstreeNoBg!HandlersInPlace
    [] component = "Dma"            -> Dma!CopiesDisjoint
    [] component = "Shared"         -> Shared!CopiesDisjoint
    [] component = "Share"          -> Share!StaysInShare
    [] component = "SmallCluster"   -> SmallCluster!NoThreadDies /\ SmallCluster!RequestsOnConnected
    [] component = "RateCluster"    -> RateCluster!RequestsOnConnected
    [] component = "LatencyCluster" -> LatencyCluster!RequestsOnConnected
    [] component = "LogCluster"     -> LogCluster!IncastBalanced
    [] component = "IncastCluster"  -> IncastCluster!IncastBalanced
    [] component = "VictimCluster"  -> VictimCluster!VictimFlows
    [] OTHER                        -> TRUE

\* For the index s = <<i, j>> of a slot, thread or request: it is not waiting, or for a
\* slot of a benchmark, the parity of its answers is n
NotWaiting(s, n) ==
  CASE component = "SmallCluster" ->
         ctrl_c # {} \/ \A t \in SmallCluster!Threads : st[t] = "running"
    [] component \in {"SmallTraffic", "LargeTraffic"} -> s \in DOMAIN done => done[s] = n
    [] component = "KvDrain" -> req[s[1]].st \notin {"sent", "queued"}
    [] component = "HashQueries" -> ended
    [] component = "Dma" -> s \in DOMAIN bw_req => bw_req[s].state \notin {"sent", "copying", "copied"}
    [] component = "MasstreeLive" -> s \in DOMAIN mt_slot => mt_slot[s].state \notin {"sent", "handled"}
    [] component = "FixedFull" -> w[s[1]].pc = "idle"
    [] component = "FixedGet" -> (s[1] = 1 => w[1].pc = "idle") /\ (s[1] = 2 => r[1].pc \in {"idle", "done"})
    [] OTHER -> TRUE

\* What must happen in the end: every thread of small_rpc_tput's cluster gets its
\* sessions and works, although each waits for others that wait too, unless the user
\* interrupts a process; the slots of the benchmarks are answered again and again
\* (print_stats looks for batches that stagnate); no request waits for ever in a batch
\* that does not fill (the drain of an idle event loop); the client of the query
\* applications ends; a copy that the DMA device makes is answered; range queries do
\* not stop point queries; and an operation on MICA's table returns: its locks are
\* released on every path, in particular when no extra bucket is left, and when a reset
\* runs in between.
AppsProgress == \A s \in (1 .. 2) \X (1 .. 2), n \in {0, 1} : []<>NotWaiting(s, n)
=============================================================================
