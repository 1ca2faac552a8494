------------------------------ MODULE MCStores ------------------------------
(***************************************************************************)
(* The data structures, the persistent stores and the utilities of MICA,   *)
(* side by side: a behaviour is one of one component, which its initial    *)
(* state picks, and the others stay in their initial states.               *)
(***************************************************************************)
EXTENDS Integers, Sequences, TLC

CONSTANTS c1, c2, Handles,  \* configurations
          Blocks,           \* blocks of a memory pool
          Objects           \* latency histograms

VARIABLES
  component,  \* whose behaviour this is
  heap, root, nodes, malloc, status, kv, updates,
  next_, prev_, value_, copy, pushed,
  size, capacity, lists, real_lists, node,
  phase, mind_address, mind_address_next, next_idx, mem, bucket_ptr_list, file,
  mind_kv, blocks,
  tree_phase, store, tree_root, tree_file, tree_kv, tree_updates,
  opts, pc, ops, i, cur_seq, free_list, next_extra, slot, slotV, log, logV,
  committed, committedV, pmica_kv, durable, failedLogged,
  version, next, key_arr, val, list, w, r, table, fixed_ops, resets, stale_links,
  text, closed, refuse, pos, state, stack, err, events, doc, done,
  num_phase, minus, num_i, i64, use64bit, useDouble, d, significandDigit, expFrac,
  expMinus, exp, result, g,
  live, handle, config_mem, config_last, content, misuse,
  chunks, user, held,
  bin, seen

btreeVars == <<heap, root, nodes, malloc, status, kv, updates>>
listVars == <<next_, prev_, value_, copy, pushed>>
hashVars == <<size, capacity, lists, real_lists, node>>
mindVars == <<phase, mind_address, mind_address_next, next_idx, mem, bucket_ptr_list,
              file, mind_kv, blocks>>
treeVars == <<tree_phase, store, tree_root, tree_file, tree_kv, tree_updates>>
pmicaVars == <<opts, pc, ops, i, cur_seq, free_list, next_extra, slot, slotV, log, logV,
               committed, committedV, pmica_kv, durable, failedLogged>>
fixedVars == <<version, next, key_arr, val, list, w, r, table, fixed_ops, resets, stale_links>>
jsonVars == <<text, closed, refuse, pos, state, stack, err, events, doc, done>>
numVars == <<num_phase, minus, num_i, i64, use64bit, useDouble, d, significandDigit,
             expFrac, expMinus, exp, result, g>>
configVars == <<live, handle, config_mem, config_last, content, misuse>>
jpoolVars == <<chunks, user, held>>
latVars == <<bin, seen>>

TreeAny == INSTANCE BPlusTree WITH
  MIN_DEGREE <- 2, Keys <- 1 .. 6, Values <- [k \in 1 .. 6 |-> {k, k + 20}],
  After <- [k \in 1 .. 6 |-> {}], MallocOrders <- {[n \in 1 .. 24 |-> n]}, MaxUpdates <- 1

TreeDeep == INSTANCE BPlusTree WITH
  MIN_DEGREE <- 2, Keys <- 1 .. 14, Values <- [k \in 1 .. 14 |-> {k}],
  After <- [k \in 1 .. 14 |-> (1 .. 14) \cap {k - 2}], MallocOrders <- {[n \in 1 .. 24 |-> n]},
  MaxUpdates <- 0

List == INSTANCE LinkedList WITH
  Values <- {1, 2}, MaxNodes <- 4

Table == INSTANCE HashTable WITH
  Keys <- 0 .. 3, Values <- {1}, MaxNodes <- 7, InitialCapacity <- 1, RehashMultiple <- 2,
  MaxLoadFactor <- 2

MindSeq == INSTANCE MindStore WITH
  kv <- mind_kv,
  Keys <- 0 .. 2, Values <- {1, 2}, Capacity <- 2, RegionSize <- 4, NumRegions <- 2,
  Bases <- {10, 20}, RoundRobin <- FALSE

MindRR == INSTANCE MindStore WITH
  kv <- mind_kv,
  Keys <- 0 .. 2, Values <- {1, 2}, Capacity <- 2, RegionSize <- 4, NumRegions <- 2,
  Bases <- {10, 20}, RoundRobin <- TRUE

MindTreeAny == INSTANCE MindTree WITH
  phase <- tree_phase, root <- tree_root, file <- tree_file, kv <- tree_kv, updates <- tree_updates,
  MIN_DEGREE <- 2, Keys <- 1 .. 5, Values <- {1, 2}, RegionSize <- 7, NumRegions <- 2,
  Bases <- {10, 20}, MaxUpdates <- 1

MindTreeDeep == INSTANCE MindTree WITH
  phase <- tree_phase, root <- tree_root, file <- tree_file, kv <- tree_kv, updates <- tree_updates,
  MIN_DEGREE <- 2, Keys <- 1 .. 8, Values <- {1}, RegionSize <- 9, NumRegions <- 1,
  Bases <- {10}, MaxUpdates <- 0

PM == INSTANCE Pmica WITH
  kv <- pmica_kv,
  Keys <- 1 .. 3, Values <- {1}, kSlotsPerBucket <- 1, kNumRedoLogEntries <- 3,
  kMaxBatchSize <- 2, NumRegular <- 1, NumExtra <- 1, MaxSeq <- 4

FixedRead == INSTANCE FixedTable WITH
  ops <- fixed_ops,
  Writers <- {1}, Readers <- {1}, NumBuckets <- 1, NumExtraBuckets <- 1, kBucketCap <- 1,
  Hash <- <<1, 1>>, Values <- {1, 2}, MaxOps <- 3, MaxResets <- 1

FixedWrite == INSTANCE FixedTable WITH
  ops <- fixed_ops,
  Writers <- {1, 2}, Readers <- {}, NumBuckets <- 2, NumExtraBuckets <- 2, kBucketCap <- 1,
  Hash <- <<1, 1, 2, 2>>, Values <- {1}, MaxOps <- 4, MaxResets <- 1

JsonGrammar == INSTANCE JsonReader WITH
  Chars <- {"{", "}", "[", "]", ",", ":", "a", "b", "1"}, MaxLen <- 8, StopWhenDone <- FALSE,
  Comments <- FALSE, Refusals <- {0}

JsonRefuse == INSTANCE JsonReader WITH
  Chars <- {"{", "}", "[", "]", ",", ":", "a", "true", "a?", "t?", "*"}, MaxLen <- 7, StopWhenDone <- TRUE,
  Comments <- FALSE, Refusals <- 0 .. 5

JsonComments == INSTANCE JsonReader WITH
  Chars <- {"/", "*", "nl", "1", "[", "]"}, MaxLen <- 6, StopWhenDone <- FALSE,
  Comments <- TRUE, Refusals <- {0}

Integers_ == INSTANCE JsonNumber WITH
  phase <- num_phase, i <- num_i,
  Digits <- {0, 1, 2, 4, 7, 8, 9}, MaxInt <- 4, MaxFrac <- 0, MaxExp <- 0,
  W32 <- 5, W64 <- 11, WExp <- 12, Fast <- 63, SigMax <- 2, DblLimit <- 3000, MaxPow <- 10

Fractions == INSTANCE JsonNumber WITH
  phase <- num_phase, i <- num_i,
  Digits <- {0, 9}, MaxInt <- 4, MaxFrac <- 3, MaxExp <- 2,
  W32 <- 5, W64 <- 11, WExp <- 12, Fast <- 63, SigMax <- 2, DblLimit <- 3000, MaxPow <- 10

Exponents == INSTANCE JsonNumber WITH
  phase <- num_phase, i <- num_i,
  Digits <- {0, 5, 9}, MaxInt <- 1, MaxFrac <- 4, MaxExp <- 4,
  W32 <- 5, W64 <- 11, WExp <- 10, Fast <- 63, SigMax <- 2, DblLimit <- 3000, MaxPow <- 10

Nested == INSTANCE MicaConfig WITH
  mem <- config_mem, last <- config_last,
  Roots <- {c1, c2}, Keys <- {"k1"}, Scalars <- {"Bool"}, MaxContent <- 2,
  Cap0 <- 1, MaxBlocks <- 5

Getters == INSTANCE MicaConfig WITH
  mem <- config_mem, last <- config_last,
  Roots <- {c1}, Keys <- {"k1", "k2"}, Scalars <- {"Bool", "Int64"}, MaxContent <- 3,
  Cap0 <- 1, MaxBlocks <- 5

Pool == INSTANCE JsonPool WITH
  Sizes <- {1, 2, 5, 9}, ChunkCapacity <- 8, UserCapacity <- 4, Alignment <- 2,
  MaxChunks <- 3

Lat == INSTANCE Latency WITH
  Bins <- 2, Samples <- {0, 1, 2, 5, 6, 13, 29, 30, 61, 62, 90},
  Percentiles <- {<<0, 1>>, <<1, 4>>, <<1, 2>>, <<99, 100>>, <<1, 1>>}, MaxSamples <- 2

ASSUME ConstantsOK ==
  /\ TreeAny!BPlusTreeAssumption /\ TreeDeep!BPlusTreeAssumption
  /\ List!LinkedListAssumption /\ Table!HashTableAssumption
  /\ MindSeq!MindStoreAssumption /\ MindRR!MindStoreAssumption
  /\ MindTreeAny!MindTreeAssumption /\ MindTreeDeep!MindTreeAssumption
  /\ PM!PmicaAssumption /\ FixedRead!FixedTableAssumption /\ FixedWrite!FixedTableAssumption
  /\ JsonGrammar!ConstantsOK /\ JsonRefuse!ConstantsOK /\ JsonComments!ConstantsOK
  /\ Integers_!ConstantsOK /\ Fractions!ConstantsOK /\ Exponents!ConstantsOK
  /\ Nested!ConstantsOK /\ Getters!ConstantsOK /\ Pool!ConstantsOK /\ Lat!ConstantsOK

Components ==
  {"TreeAny", "TreeDeep", "List", "Hash", "MindSeq", "MindRR", "MindTreeAny", "MindTreeDeep",
   "Pmica", "FixedRead", "FixedWrite", "JsonGrammar", "JsonRefuse", "JsonComments",
   "Integers", "Fractions", "Exponents", "Nested", "Getters", "Pool", "Latency"}

Init ==
  /\ component \in Components
  /\ List!Init /\ Table!Init /\ Pool!Init /\ Lat!Init
  /\ PM!Init /\ (component # "Pmica" => opts.redo_batch /\ opts.async_drain)
  /\ IF component = "TreeDeep"     THEN TreeDeep!Init     ELSE TreeAny!Init
  /\ IF component = "MindRR"       THEN MindRR!Init       ELSE MindSeq!Init
  /\ IF component = "MindTreeDeep" THEN MindTreeDeep!Init ELSE MindTreeAny!Init
  /\ IF component = "FixedWrite"   THEN FixedWrite!Init   ELSE FixedRead!Init
  /\ CASE component = "JsonRefuse"   -> JsonRefuse!Init
       [] component = "JsonComments" -> JsonComments!Init
       [] OTHER                      -> JsonGrammar!Init
  /\ Integers_!Init
  /\ IF component = "Getters"      THEN Getters!Init      ELSE Nested!Init

Next ==
  /\ UNCHANGED component
  /\ CASE component = "TreeAny"  -> TreeAny!Next
       [] component = "TreeDeep" -> TreeDeep!Next
       [] OTHER                  -> UNCHANGED btreeVars
  /\ IF component = "List" THEN List!Next ELSE UNCHANGED listVars
  /\ IF component = "Hash" THEN Table!Next ELSE UNCHANGED hashVars
  /\ CASE component = "MindSeq" -> MindSeq!Next
       [] component = "MindRR"  -> MindRR!Next
       [] OTHER                 -> UNCHANGED mindVars
  /\ CASE component = "MindTreeAny"  -> MindTreeAny!Next
       [] component = "MindTreeDeep" -> MindTreeDeep!Next
       [] OTHER                      -> UNCHANGED treeVars
  /\ IF component = "Pmica" THEN PM!Next ELSE UNCHANGED pmicaVars
  /\ CASE component = "FixedRead"  -> FixedRead!Next
       [] component = "FixedWrite" -> FixedWrite!Next
       [] OTHER                    -> UNCHANGED fixedVars
  /\ CASE component = "JsonGrammar"  -> JsonGrammar!Next
       [] component = "JsonRefuse"   -> JsonRefuse!Next
       [] component = "JsonComments" -> JsonComments!Next
       [] OTHER                      -> UNCHANGED jsonVars
  /\ CASE component = "Integers"  -> Integers_!Next
       [] component = "Fractions" -> Fractions!Next
       [] component = "Exponents" -> Exponents!Next
       [] OTHER                   -> UNCHANGED numVars
  /\ CASE component = "Nested"  -> Nested!Next
       [] component = "Getters" -> Getters!Next
       [] OTHER                 -> UNCHANGED configVars
  /\ IF component = "Pool"    THEN Pool!Next ELSE UNCHANGED jpoolVars
  /\ IF component = "Latency" THEN Lat!Next  ELSE UNCHANGED latVars

vars == <<component, btreeVars, listVars, hashVars, mindVars, treeVars, pmicaVars, fixedVars,
          jsonVars, numVars, configVars, jpoolVars, latVars>>

Spec == Init /\ [][Next]_vars

-----------------------------------------------------------------------------
\* PROPERTIES: each collects what the components on its subject promise, and asks
\* every component for its part while that component is the one that runs


\* The links and the memory of the structures: the B+ tree is balanced, its leaves are
\* one chain in both directions and every node that was allocated is reachable until
\* the tree is freed; the list is one closed ring; a bucket's chain of the hash table
\* starts with the bucket's nodes and always ends, before the first rehash with them and
\* afterwards perhaps behind nodes of other buckets; MIND's blocks are disjoint and it
\* fails only when its regions are full; an extra bucket of pmica and of FixedTable
\* belongs to one bucket or to the free list and a key is in one slot of a FixedTable,
\* until FixedTable's reset meets extra buckets in use; a block of a MemoryPoolAllocator
\* is inside its chunk, apart from the others and never moved over another; an array of
\* a MICA configuration has one owner and lives in the pool of a document that exists,
\* until the caller misuses a handle or drops the document that a nested value came from.
Structures ==
  CASE component = "TreeAny"     -> TreeAny!Balanced /\ TreeAny!LeafChain /\ TreeAny!NoLeak
    [] component = "TreeDeep"    -> TreeDeep!TypeOK /\ TreeDeep!Balanced
                                    /\ TreeDeep!LeafChain /\ TreeDeep!NoLeak
    [] component = "List"        -> List!RingClosed
    [] component = "Hash"        -> Table!ChainsStartWithBucket /\ Table!NextIsNewer
                                    /\ Table!ChainsEndBeforeRehash
    [] component = "MindSeq"     -> MindSeq!BlocksDisjoint /\ MindSeq!CrashOnlyWhenFull
    [] component = "MindRR"      -> MindRR!BlocksDisjoint /\ MindRR!CrashOnlyWhenFull
    [] component = "Pmica"       -> PM!ExtraBucketsOwned
    [] component = "FixedWrite"  -> FixedWrite!OneCopy /\ FixedWrite!ExtraBucketsOwned
    [] component = "Pool"        -> Pool!BlocksIntact /\ Pool!TotalsRight
    [] component = "Nested"      -> Nested!OneOwner /\ Nested!PoolsLive
    [] OTHER                     -> TRUE

\* What the parsers and the utilities of MICA compute: the recursive and the iterative
\* parser of rapidjson accept the same texts with the same events and reject the others
\* with the same error, or another one where no value can start, and the document built
\* from the events is the text's (ParsersAgree, RoundTrips); a frame of the iterative
\* parser's stack stands for one open bracket; an integer keeps its value and the flags
\* of the types that hold it, a fraction loses only digits past the significand, a power
\* of ten is one of the table unless its int overflows; a configuration keeps what was
\* put into it and the first of two equal keys wins, until a handle is misused; the sums
\* and percentiles of a histogram, but not its perc(1.0), are within the width of a bin
\* of those of its samples.
Formats ==
  CASE component = "JsonGrammar"  -> JsonGrammar!TypeOK /\ JsonGrammar!ParsersAgree
                                     /\ JsonGrammar!FramesMatchNesting /\ JsonGrammar!RoundTrips
    [] component = "JsonRefuse"   -> JsonRefuse!TypeOK /\ JsonRefuse!ParsersAgree
                                     /\ JsonRefuse!FramesMatchNesting /\ JsonRefuse!RoundTrips
    [] component = "JsonComments" -> JsonComments!TypeOK /\ JsonComments!ParsersAgree
                                     /\ JsonComments!RoundTrips
    [] component = "Integers"     -> Integers_!TypeOK /\ Integers_!IntegersExact
                                     /\ Integers_!FlagsExact
    [] component = "Fractions"    -> Fractions!FractionTruncated /\ Fractions!PowerInTable
    [] component = "Exponents"    -> Exponents!FractionTruncated /\ Exponents!PowerInTable
    [] component = "Nested"       -> Nested!TypeOK /\ Nested!ContentsKept
    [] component = "Getters"      -> Getters!ContentsKept /\ Getters!FirstInsertWins
    [] component = "Latency"      -> Lat!SumWithinBins /\ Lat!RanksWithinBins
    [] OTHER                      -> TRUE
=============================================================================
