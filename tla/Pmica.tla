------------------------------- MODULE Pmica --------------------------------
(***************************************************************************)
(* The persistent hash table of apps/persistent_kv/pmica.h: a redo log and *)
(* bucket chains in persistent memory, changed by batches of operations.   *)
(*                                                                         *)
(* A store to persistent memory is visible at once and persistent only     *)
(* after the next drain.  Every location therefore has a value the program *)
(* sees and the set of versions a power failure may leave, which a drain   *)
(* reduces to that value.  Only eight bytes are written atomically: a      *)
(* failure can mix the fields of two versions of a log entry or of a slot. *)
(* A slot may span two cache lines, so that either field may be the older  *)
(* one; the fields of a log entry share a line and reach it in their order *)
(* (seq_num, key, value).                                                  *)
(***************************************************************************)
EXTENDS Integers, SequencesExt, FiniteSetsExt, TLC

CONSTANTS Keys, Values,
          kSlotsPerBucket,
          kNumRedoLogEntries,
          kMaxBatchSize,
          NumRegular,      \* num_regular_buckets
          NumExtra,        \* num_extra_buckets
          MaxSeq           \* bound on cur_sequence_number

PmicaAssumption ==
    /\ Keys \subseteq Nat \ {0} /\ Values \subseteq Nat \ {0}
    /\ {kSlotsPerBucket, kNumRedoLogEntries, kMaxBatchSize, NumRegular} \subseteq Nat \ {0}
    /\ NumExtra \in Nat /\ MaxSeq \in Nat

invalid_key == 0
Buckets == 0 .. NumRegular + NumExtra - 1
Slots == 1 .. kSlotsPerBucket
Places == Buckets \X Slots
LogIdx == 0 .. kNumRedoLogEntries - 1

VARIABLES
    opts,              \* [redo_batch, async_drain]
    pc,                \* where batch_op_drain_helper is; "idle" outside it
    ops,               \* the batch: a sequence of [is_set, key, value]
    i,                 \* the loops' index into the batch
    cur_seq,           \* cur_sequence_number
    free_list,         \* extra_bucket_free_list, a sequence
    next_extra,        \* bucket -> next_extra_bucket_idx, 0 when none
    slot, slotV,       \* place -> slot: the visible one, the possible ones
    log, logV,         \* index -> redo log entry, likewise
    committed, committedV,
    kv,                \* history: key -> value of its last successful SET, or 0
    durable,           \* history: kv at the end of the last batch
    failedLogged       \* history: keys of SETs that were logged and then failed

mem == <<next_extra, slot, slotV, log, logV, committed, committedV>>
history == <<kv, durable, failedLogged>>
vars == <<opts, pc, ops, i, cur_seq, free_list, mem, history>>

Slot(k, v) == [key |-> k, value |-> v]
RedoLogEntry(s, k, v) == [seq |-> s, key |-> k, value |-> v]

----------------------------------------------------------------------------
(* libpmem *)

pmem_drain ==
    /\ slotV' = [p \in Places |-> {slot[p]}]
    /\ logV' = [x \in LogIdx |-> {log[x]}]
    /\ committedV' = {committed}
    /\ UNCHANGED <<slot, log, committed>>

log_nodrain(x, e) ==
    /\ log' = [log EXCEPT ![x] = e]
    /\ logV' = [logV EXCEPT ![x] = @ \union {e}]
    /\ UNCHANGED <<slot, slotV, committed, committedV>>

slot_nodrain(p, s) ==
    /\ slot' = [slot EXCEPT ![p] = s]
    /\ slotV' = [slotV EXCEPT ![p] = @ \union {s}]
    /\ UNCHANGED <<log, logV, committed, committedV>>

\* The first half of pmem_memcpy_persist, before its drain
write_committed ==
    /\ committed' = cur_seq
    /\ committedV' = committedV \union {cur_seq}
    /\ UNCHANGED <<slot, slotV, log, logV>>

----------------------------------------------------------------------------
(* Construction: the log and the buckets are zeroed, the free list is full *)

Empty(o) ==
    [opts |-> o, free_list |-> [e \in 1 .. NumExtra |-> e],
     next_extra |-> [b \in Buckets |-> 0],
     slot |-> [p \in Places |-> Slot(invalid_key, 0)],
     log |-> [x \in LogIdx |-> RedoLogEntry(0, invalid_key, 0)]]

Init ==
    \E rb, ad \in BOOLEAN :
        LET h == Empty([redo_batch |-> rb, async_drain |-> ad]) IN
        /\ opts = h.opts /\ pc = "idle" /\ ops = <<>> /\ i = 1 /\ cur_seq = 1
        /\ free_list = h.free_list /\ next_extra = h.next_extra
        /\ slot = h.slot /\ slotV = [p \in Places |-> {h.slot[p]}]
        /\ log = h.log /\ logV = [x \in LogIdx |-> {h.log[x]}]
        /\ committed = 0 /\ committedV = {0}
        /\ kv = [k \in Keys |-> 0] /\ durable = kv /\ failedLogged = {}

----------------------------------------------------------------------------
(* Bucket chains *)

\* extra_buckets_[e]: one-based, laid out behind the last regular bucket
extra_bucket(e) == NumRegular - 1 + e

bucket_of(k) == k % NumRegular

\* The chain of a bucket, as next_extra_bucket_idx links it
chain[b \in Buckets] ==
    IF next_extra[b] = 0 THEN <<b>>
    ELSE <<b>> \o chain[extra_bucket(next_extra[b])]

\* The places of a key's chain, in the order they are searched
places(k) ==
    FlattenSeq([n \in DOMAIN chain[bucket_of(k)] |->
                   [s \in Slots |-> <<chain[bucket_of(k)][n], s>>]])

\* find_item_index: the first place that holds the key, in a sequence, or none
find_item_index(k) ==
    LET at == SelectInSeq(places(k), LAMBDA p : slot[p].key = k) IN
    IF at = 0 THEN <<>> ELSE places(k)[at]

get(k) == IF find_item_index(k) = <<>> THEN 0 ELSE slot[find_item_index(k)].value

alloc_extra_bucket(b) ==
    /\ next_extra' = [next_extra EXCEPT ![b] = Last(free_list)]
    /\ free_list' = Front(free_list)

empty_index(k) == SelectInSeq(places(k), LAMBDA p : slot[p].key = invalid_key)

----------------------------------------------------------------------------
(* batch_op_drain_helper *)

Batch == UNION {[1 .. n -> [is_set : BOOLEAN, key : Keys, value : Values]] :
                   n \in 1 .. kMaxBatchSize}

batch_op_drain ==
    /\ pc = "idle"
    /\ \E b \in Batch :
          /\ \A n \in DOMAIN b : ~b[n].is_set => b[n].value = Min(Values)
          /\ cur_seq + Cardinality({n \in DOMAIN b : b[n].is_set}) <= MaxSeq
          /\ ops' = b
    /\ pc' = "log" /\ i' = 1
    /\ UNCHANGED <<opts, cur_seq, free_list, mem, history>>

\* A GET is not logged
skip_get ==
    /\ pc = "log" /\ i <= Len(ops) /\ ~ops[i].is_set
    /\ i' = i + 1
    /\ UNCHANGED <<opts, pc, ops, cur_seq, free_list, mem, history>>

\* All pending writes to the table are drained when the log wraps
drain_on_wrap ==
    /\ pc = "log" /\ i <= Len(ops) /\ ops[i].is_set
    /\ cur_seq % kNumRedoLogEntries = 0
    /\ pc' = "entry"
    /\ pmem_drain
    /\ UNCHANGED <<opts, ops, i, cur_seq, free_list, next_extra, history>>

log_set ==
    /\ \/ pc = "entry"
       \/ pc = "log" /\ i <= Len(ops) /\ ops[i].is_set /\ cur_seq % kNumRedoLogEntries # 0
    /\ log_nodrain(cur_seq % kNumRedoLogEntries, RedoLogEntry(cur_seq, ops[i].key, ops[i].value))
    /\ IF opts.redo_batch
         THEN pc' = "log" /\ i' = i + 1 /\ cur_seq' = cur_seq + 1
         ELSE pc' = "drain" /\ UNCHANGED <<i, cur_seq>>
    /\ UNCHANGED <<opts, ops, free_list, next_extra, history>>

all_gets == \A n \in DOMAIN ops : ~ops[n].is_set

\* Behind the loop: only a batch with a SET drains and commits
end_of_log ==
    /\ pc = "log" /\ i > Len(ops)
    /\ IF opts.redo_batch /\ ~all_gets
         THEN pc' = "drain" /\ i' = i
         ELSE pc' = "apply" /\ i' = 1
    /\ UNCHANGED <<opts, ops, cur_seq, free_list, mem, history>>


drain_log ==
    /\ pc = "drain"
    /\ pmem_drain
    /\ pc' = "commit"
    /\ UNCHANGED <<opts, ops, i, cur_seq, free_list, next_extra, history>>

commit ==
    /\ pc = "commit"
    /\ write_committed
    /\ pc' = "committed"
    /\ UNCHANGED <<opts, ops, i, cur_seq, free_list, next_extra, history>>

\* The drain that ends pmem_memcpy_persist; without batching the loop goes on
commit_persists ==
    /\ pc = "committed"
    /\ pmem_drain
    /\ IF opts.redo_batch
         THEN pc' = "apply" /\ i' = 1 /\ cur_seq' = cur_seq
         ELSE pc' = "log" /\ i' = i + 1 /\ cur_seq' = cur_seq + 1
    /\ UNCHANGED <<opts, ops, free_list, next_extra, history>>

\* The next operation of the batch; persist drains before it
next_op == IF ops[i].is_set /\ ~opts.async_drain THEN "slot" ELSE "apply"

set_nodrain ==
    /\ pc = "apply" /\ i <= Len(ops) /\ ops[i].is_set
    /\ LET k == ops[i].key
           s == Slot(k, ops[i].value)
           put(p) == /\ slot_nodrain(p, s)
                     /\ kv' = [kv EXCEPT ![k] = s.value]
                     /\ UNCHANGED failedLogged
           last == Last(chain[bucket_of(k)])
       IN \/ /\ find_item_index(k) # <<>>
             /\ put(find_item_index(k))
             /\ UNCHANGED <<next_extra, free_list>>
          \/ /\ find_item_index(k) = <<>> /\ empty_index(k) # 0
             /\ put(places(k)[empty_index(k)])
             /\ UNCHANGED <<next_extra, free_list>>
          \/ /\ find_item_index(k) = <<>> /\ empty_index(k) = 0 /\ free_list # <<>>
             /\ alloc_extra_bucket(last)
             /\ put(<<extra_bucket(next_extra'[last]), 1>>)
          \/ /\ find_item_index(k) = <<>> /\ empty_index(k) = 0 /\ free_list = <<>>
             /\ failedLogged' = failedLogged \union {k}
             /\ UNCHANGED <<mem, kv, free_list>>
    /\ pc' = next_op
    /\ i' = IF pc' = "slot" THEN i ELSE i + 1
    /\ UNCHANGED <<opts, ops, cur_seq, durable>>

\* The drain that ends pmem_memcpy_persist of a slot
slot_persists ==
    /\ pc = "slot"
    /\ pmem_drain
    /\ pc' = "apply" /\ i' = i + 1
    /\ UNCHANGED <<opts, ops, cur_seq, free_list, next_extra, history>>

\* What it returns is get(ops[i].key)
get_op ==
    /\ pc = "apply" /\ i <= Len(ops) /\ ~ops[i].is_set
    /\ i' = i + 1
    /\ UNCHANGED <<opts, pc, ops, cur_seq, free_list, mem, history>>

return ==
    /\ pc = "apply" /\ i > Len(ops)
    /\ pc' = "idle" /\ ops' = <<>> /\ i' = 1
    /\ durable' = kv
    /\ UNCHANGED <<opts, cur_seq, free_list, mem, kv, failedLogged>>

----------------------------------------------------------------------------
(* Power failure and restart *)

\* What a failure can leave of a location with these versions
TornSlot(V) == {Slot(a.key, b.value) : a, b \in V}
TornEntry(V) ==
    {RedoLogEntry(t[1].seq, t[2].key, t[3].value) :
        t \in {u \in V \X V \X V : u[1].seq >= u[2].seq /\ u[2].seq >= u[3].seq}}

\* All ways to choose one content for every location
Images(choices) ==
    {f \in [DOMAIN choices -> UNION {choices[x] : x \in DOMAIN choices}] :
        \A x \in DOMAIN choices : f[x] \in choices[x]}

Crash ==
    /\ pc # "crashed"
    /\ pc' = "crashed"
    /\ slot' \in Images([p \in Places |-> TornSlot(slotV[p])])
    /\ log' \in Images([x \in LogIdx |-> TornEntry(logV[x])])
    /\ committed' \in committedV
    /\ slotV' = [p \in Places |-> {slot'[p]}]
    /\ logV' = [x \in LogIdx |-> {log'[x]}]
    /\ committedV' = {committed'}
    /\ UNCHANGED <<opts, ops, i, cur_seq, free_list, next_extra, history>>

Next ==
    \/ batch_op_drain \/ skip_get \/ drain_on_wrap \/ log_set \/ end_of_log
    \/ drain_log \/ commit \/ commit_persists
    \/ set_nodrain \/ slot_persists \/ get_op \/ return
    \/ Crash

Spec == Init /\ [][Next]_vars

----------------------------------------------------------------------------
(* Properties *)

\* SETs of the batch in progress
InFlight(k) == {ops[n].value : n \in {m \in DOMAIN ops : ops[m].is_set /\ ops[m].key = k}}

\* What replaying the log entries that satisfy P leaves for a key
Recovered(P(_), k) ==
    LET es == {log[x] : x \in {y \in LogIdx : P(log[y]) /\ log[y].key = k}} IN
    IF es # {} THEN (CHOOSE e \in es : \A f \in es : f.seq <= e.seq).value
    ELSE get(k)

\* The rule that class RedoLogEntry states
Committed(e) == e.seq # 0 /\ e.seq <= committed

\* With redo_batch the number stored is that of the next entry, one past the last of
\* the batch: the first entry of the next batch has it while it is being written
Ahead(e) == opts.redo_batch /\ e.seq = committed

Logged(e) == Committed(e) /\ ~Ahead(e)

\* A batch that returned is durable: after a power failure at any later point,
\* replaying the committed entries over the buckets, except one whose number is
\* ahead of the batch, yields for every key its value at the end of that batch, or
\* that of a SET of the batch in progress (batch_op_drain_helper: all SETs are
\* persistent in the log when it returns).  A replay by RedoLogEntry's rule as it
\* stands would take the entry ahead too, which may be torn; the repository has no
\* replay.  A SET that found no room is logged all the same, and its key is left out.
Durable ==
    pc = "crashed" =>
        \A k \in Keys \ failedLogged :
            Recovered(Logged, k) \in {durable[k]} \union InFlight(k)

\* No entry is committed torn but the one ahead: after a failure every committed entry
\* is at the place of its number, and has a key and a value that log_set wrote (the
\* drain between the entries and the committed sequence number) unless its number is
\* the committed one of redo_batch.
LoggedIntact ==
    pc = "crashed" =>
        \A x \in LogIdx : Committed(log[x]) =>
            /\ log[x].seq % kNumRedoLogEntries = x
            /\ (log[x].key # invalid_key /\ log[x].value # 0) \/ Ahead(log[x])

\* What get finds is the value of the last successful SET, in the middle of a
\* batch too, and a key that failed to be inserted is not found (find_item_index
\* and get_empty walk the same chain, through buckets just linked).
GetsLatest == pc # "crashed" => \A k \in Keys : get(k) = kv[k]

\* An extra bucket is on the free list or linked from exactly one bucket
\* (alloc_extra_bucket).
ExtraBucketsOwned ==
    \A e \in 1 .. NumExtra :
        Cardinality({b \in Buckets : next_extra[b] = e})
          = IF e \in Range(free_list) THEN 0 ELSE 1

----------------------------------------------------------------------------
(* The inductive invariant of the redo log *)

\* What log_set writes at place x of the log
Written(e, x) ==
    /\ e \in [seq : Nat \ {0}, key : Keys, value : Values]
    /\ e.seq % kNumRedoLogEntries = x

\* Entries with smaller numbers count as logged when c is the committed one
Bound(c) == c + (IF opts.redo_batch THEN 0 ELSE 1)

PmicaTypes ==
    /\ pc \in {"idle", "log", "entry", "drain", "commit", "committed", "apply", "slot", "crashed"}
    /\ opts \in [redo_batch : BOOLEAN, async_drain : BOOLEAN]
    /\ ops \in Seq([is_set : BOOLEAN, key : Keys, value : Values]) /\ i \in Nat \ {0}
    /\ cur_seq \in Nat \ {0} /\ committed \in Nat /\ committedV \subseteq Nat
    /\ DOMAIN logV = LogIdx /\ DOMAIN log = LogIdx
    /\ pc = "entry" => i <= Len(ops)

\* An entry that could count as logged after a failure has no older version that it
\* could be mixed with: it was drained before any number above its own was committed.
RedoLogInv ==
    /\ PmicaTypes
    /\ pc # "crashed" =>
         /\ \A x \in LogIdx : log[x] \in logV[x]
         /\ \A x \in LogIdx : \A e \in logV[x] :
              e = RedoLogEntry(0, invalid_key, 0) \/ Written(e, x)
         /\ \A x \in LogIdx : \A e, f \in logV[x], c \in committedV :
              e.seq < Bound(c) /\ f.seq <= e.seq => f = e
         /\ committed \in committedV /\ \A c \in committedV : c <= cur_seq
         /\ pc # "committed" => \A c \in committedV : Bound(c) <= cur_seq
         /\ pc \in {"commit", "committed"} => \A x \in LogIdx : logV[x] = {log[x]}
    /\ LoggedIntact
=============================================================================
