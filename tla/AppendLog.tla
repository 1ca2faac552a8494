----------------------------- MODULE AppendLog ------------------------------
(***************************************************************************)
(* The logging application of apps/log: a server that appends every        *)
(* request to a log in persistent memory (log.h) before it answers, and a  *)
(* client that keeps a number of requests outstanding and doubles their    *)
(* size from time to time (log.cc).  The log counts the bytes appended in  *)
(* one buffer, or in a ring of buffers that it writes in turn.             *)
(*                                                                         *)
(* The mapped file is a sequence of cells behind the counters; a cell      *)
(* holds the number of the append that wrote it.  The offset goes back to  *)
(* the start when another entry of the size just written would not fit, so *)
(* a larger one may run past the end of the mapping: what it writes there  *)
(* is in no cell, and the properties say what is left of it in the file.   *)
(***************************************************************************)
EXTENDS Integers, FiniteSetsExt

CONSTANTS Slots,          \* the client's MsgBuffers, 1 .. FLAGS_concurrency
          MinSize, MaxSize,
          FileSize,       \* cells behind the counters
          kNumBuffers,
          MaxAppends      \* bound on the appends

AppendLogAssumption ==
    /\ Slots \subseteq Nat /\ Slots # {}
    /\ {MinSize, MaxSize, FileSize} \subseteq Nat \ {0}
    /\ kNumBuffers \in Nat \ {0, 1}
    /\ MinSize <= MaxSize /\ MaxSize <= FileSize
    /\ MaxAppends \in Nat

Buffers == 0 .. kNumBuffers - 1
File == 0 .. FileSize - 1
NoReq == 0

VARIABLES
    pc,             \* server: "ready", "data" and "count" inside append, "crashed"
    cur,            \* the slot whose request is being appended
    size,           \* slot -> size of its request, NoReq while it is answered
    entry_size,     \* cur_log_entry_size
    cell,           \* offset -> number of the append that wrote it
    offset,         \* cur_write_offset
    use_rotating,   \* FLAGS_use_rotating
    v_value,        \* Counter::v_value
    buffer_idx,     \* Counter::buffer_idx
    buf,            \* buffer -> the persistent count
    appends,        \* history: number of appends begun
    last,           \* history: [n, at, size] of the last append whose count was stored
    prev_size,      \* history: the size of the append counted before it
    acked           \* history: bytes of the requests that were answered

counter == <<use_rotating, v_value, buffer_idx, buf>>
vars == <<pc, cur, size, entry_size, cell, offset, counter, appends, last, prev_size, acked>>

Init ==
    /\ pc = "ready" /\ cur = Min(Slots)
    /\ entry_size = MinSize /\ size = [s \in Slots |-> MinSize]
    /\ cell = [x \in File |-> 0] /\ offset = 0
    /\ use_rotating \in BOOLEAN
    /\ v_value = 0 /\ buffer_idx = 0 /\ buf = [b \in Buffers |-> 0]
    /\ appends = 0 /\ last = [n |-> 0, at |-> 0, size |-> 0] /\ prev_size = 0 /\ acked = 0

----------------------------------------------------------------------------
(* The log *)

\* The cells of n bytes written at offset `at' that are in the mapped file
Extent(at, n) == {x \in File : at <= x /\ x < at + n}

\* append: the data at the write offset
append_data(s) ==
    /\ pc = "ready" /\ size[s] # NoReq /\ appends < MaxAppends
    /\ cur' = s /\ appends' = appends + 1 /\ pc' = "data"
    /\ cell' = [x \in File |-> IF x \in Extent(offset, size[s]) THEN appends + 1 ELSE cell[x]]
    /\ UNCHANGED <<size, entry_size, offset, counter, last, prev_size, acked>>

increment_naive(n) ==
    /\ v_value' = v_value + n
    /\ buf' = [buf EXCEPT ![0] = v_value + n]
    /\ UNCHANGED buffer_idx

increment_rotate(n) ==
    /\ v_value' = v_value + n
    /\ buf' = [buf EXCEPT ![buffer_idx] = v_value + n]
    /\ buffer_idx' = (buffer_idx + 1) % kNumBuffers

\* The offset goes back to the start when another entry of this size would not fit
next_offset(n) == IF offset + 2 * n > FileSize THEN 0 ELSE offset + n

\* append: the count, then the volatile offset
append_count ==
    /\ pc = "data"
    /\ IF use_rotating THEN increment_rotate(size[cur]) ELSE increment_naive(size[cur])
    /\ last' = [n |-> appends, at |-> offset, size |-> size[cur]] /\ prev_size' = last.size
    /\ offset' = next_offset(size[cur])
    /\ pc' = "count"
    /\ UNCHANGED <<cur, size, entry_size, cell, use_rotating, appends, acked>>

\* Counter(pbuf, false): the largest count, and the buffer behind it
recovered == Max({buf[b] : b \in Buffers})

\* Mutation: the count goes on in the buffer that holds the newest
recovered_idx_Newest == Min({b \in Buffers : buf[b] = recovered})

recovered_idx == (Min({b \in Buffers : buf[b] = recovered}) + 1) % kNumBuffers

reopen ==
    /\ pc = "crashed"
    /\ v_value' = recovered
    /\ buffer_idx' = recovered_idx
    /\ UNCHANGED <<pc, cur, size, entry_size, cell, offset, use_rotating, buf, appends, last, prev_size, acked>>

----------------------------------------------------------------------------
(* Server and client *)

req_handler(s) == append_data(s)

enqueue_response ==
    /\ pc = "count" /\ pc' = "ready"
    /\ acked' = acked + size[cur]
    /\ size' = [size EXCEPT ![cur] = NoReq]
    /\ UNCHANGED <<cur, entry_size, cell, offset, counter, appends, last, prev_size>>

\* app_cont_func: the slot is used again, with the size of the day
app_cont_func(s) ==
    /\ size[s] = NoReq
    /\ size' = [size EXCEPT ![s] = entry_size]
    /\ UNCHANGED <<pc, cur, entry_size, cell, offset, counter, appends, last, prev_size, acked>>

switch_size ==
    /\ pc # "crashed"
    /\ entry_size' = IF entry_size * 2 > MaxSize THEN MinSize ELSE entry_size * 2
    /\ UNCHANGED <<pc, cur, size, cell, offset, counter, appends, last, prev_size, acked>>

Crash ==
    /\ pc # "crashed" /\ pc' = "crashed"
    /\ v_value' = 0 /\ buffer_idx' = 0
    /\ UNCHANGED <<cur, size, entry_size, cell, offset, use_rotating, buf, appends, last, prev_size, acked>>

Next ==
    \/ \E s \in Slots : req_handler(s) \/ app_cont_func(s)
    \/ append_count \/ enqueue_response \/ switch_size
    \/ Crash \/ reopen

Spec == Init /\ [][Next]_vars

----------------------------------------------------------------------------
(* Properties *)

\* The count found after a power failure covers every request that was
\* answered, and at most the one being answered besides; the ring of buffers
\* is read by its largest count (Counter, append).
CountSurvives ==
    pc = "crashed" => acked <= recovered /\ recovered <= acked + size[cur]

\* What was counted is in the file, as far as the file reaches: the cells of the
\* last counted append hold it, or the append that began after it overwrote them
\* from the start.  An append that starts the file or is no larger than the one
\* before it is there whole; a larger one may have been written past the end of
\* the mapping, since the size tested for room is its predecessor's (Log::append_*).
CountedIsWritten ==
    /\ \A x \in Extent(last.at, last.size) : cell[x] = last.n \/ cell[x] = appends
    /\ last.size <= prev_size \/ last.at = 0 => last.at + last.size <= FileSize

\* After a restart the ring goes on behind its newest count, so that the next
\* store does not destroy it.
KeepsNewest == (pc = "crashed" /\ use_rotating /\ v_value # 0) => buf[buffer_idx] < v_value

----------------------------------------------------------------------------
(* The inductive invariant *)

Sizes == MinSize .. MaxSize

AppendTypes ==
    /\ pc \in {"ready", "data", "count", "crashed"}
    /\ cur \in Slots /\ size \in [Slots -> Sizes \union {NoReq}] /\ entry_size \in Sizes
    /\ cell \in [File -> Nat] /\ offset \in 0 .. FileSize
    /\ v_value \in Nat /\ buf \in [Buffers -> Nat] /\ acked \in Nat /\ appends \in Nat
    /\ last \in [n : Nat, at : Nat, size : Nat] /\ prev_size \in Nat
    /\ pc # "crashed" => buffer_idx \in Buffers
    /\ pc \in {"data", "count"} => size[cur] # NoReq

\* t is the largest count, and in one buffer only
Newest(t) ==
    /\ \E b \in Buffers : buf[b] = t
    /\ \A b \in Buffers : buf[b] <= t
    /\ t # 0 => \A b, c \in Buffers : buf[b] = t /\ buf[c] = t => b = c

\* The count is that of the answered requests, until append counts the next one
CountInv ==
    /\ pc # "crashed" => Newest(v_value)
    /\ pc \in {"ready", "data"} => v_value = acked
    /\ pc = "count" => v_value = acked + size[cur]
    /\ pc = "crashed" =>
         /\ Newest(recovered) /\ CountSurvives
         /\ v_value # 0 => v_value = recovered /\ buf[buffer_idx] < v_value

\* The last counted append is the last one, or the one before the one in progress
DataInv ==
    /\ CountedIsWritten
    /\ offset # 0 /\ pc # "crashed" => offset + last.size <= FileSize
    /\ pc \in {"ready", "count"} =>
         /\ last.n = appends
         /\ \A x \in Extent(last.at, last.size) : cell[x] = appends
    /\ pc = "data" => \A x \in Extent(offset, size[cur]) : cell[x] = appends

AppendInv == AppendTypes /\ CountInv /\ DataInv
=============================================================================
