----------------------------- MODULE FixedTable -----------------------------
(***************************************************************************)
(* mica/table/fixedtable.h: a hash table of buckets with a fixed number of *)
(* slots and chains of extra buckets, written under a bucket's lock and    *)
(* read without one (concurrent_access_mode_ 1 with one writer, 2 with     *)
(* several).  The version of a primary bucket is odd while it is locked; a *)
(* reader tries again when the version has changed.                        *)
(*                                                                         *)
(* Steps are single accesses to what others may read at the same time: the *)
(* chain of a locked bucket is only written by the owner of the lock, so   *)
(* its own reads of it take no step.  The barriers of the code order these *)
(* accesses on x86, which the model takes for granted.                     *)
(***************************************************************************)
EXTENDS Integers, FiniteSets, FiniteSetsExt, Sequences, SequencesExt

CONSTANTS Writers, Readers,
          NumBuckets, NumExtraBuckets, kBucketCap,
          Hash,                \* key -> its primary bucket
          Values,
          MaxOps,              \* bound on sets and deletes
          MaxResets            \* bound on calls of reset() with the table in use

Keys == DOMAIN Hash
Primary == 1 .. NumBuckets
Extra == NumBuckets + 1 .. NumBuckets + NumExtraBuckets
Buckets == Primary \union Extra
Items == 1 .. kBucketCap

FixedTableAssumption ==
    /\ {NumBuckets, kBucketCap} \subseteq Nat \ {0}
    /\ {NumExtraBuckets, MaxOps, MaxResets} \subseteq Nat
    /\ \A k \in Keys : Hash[k] \in Primary
    /\ Keys \subseteq Nat \ {0} /\ Values \subseteq Nat \ {0}

VARIABLES
    version,       \* primary bucket -> version
    next,          \* bucket -> next_extra_bucket_index as a bucket, 0 if none
    key_arr,       \* bucket -> item -> key, 0 the invalid key
    val,           \* bucket -> item -> value, two words
    list,          \* extra_bucket_free_list_: head and lock
    w,             \* writer -> its operation
    r,             \* reader -> its operation
    table,         \* history: key -> value, 0 if absent
    ops, resets,
    stale_links    \* history: a reset found a primary bucket with extra buckets

vars == <<version, next, key_arr, val, list, w, r, table, ops, resets, stale_links>>

free == 0
no_op == [pc |-> "idle", op |-> "set", key |-> 0, value |-> 0, bkt |-> 0, item |-> 0,
          tmp |-> 0, then |-> "idle", result |-> "none"]
no_read == [pc |-> "idle", key |-> 0, ver |-> 0, bkt |-> 0, item |-> 0, word |-> 0,
            result |-> 0, seen |-> {}]

----------------------------------------------------------------------------
(* Chains *)

\* The bucket and the extra buckets after it
chain(b) ==
    LET walk[n \in 0 .. NumExtraBuckets] ==
          IF n = 0 THEN <<b>>
          ELSE LET c == walk[n - 1] IN IF next[Last(c)] = 0 THEN c ELSE Append(c, next[Last(c)])
    IN  walk[NumExtraBuckets]

places(b) == Range(chain(b)) \X Items

\* The first place in a chain that holds this key
find(b, k) ==
    LET c == chain(b)
        n == Min({j \in DOMAIN c : \E i \in Items : key_arr[c[j]][i] = k})
    IN  <<c[n], Min({i \in Items : key_arr[c[n]][i] = k})>>

found(b, k) == \E p \in places(b) : key_arr[p[1]][p[2]] = k

linked(buckets) == [b \in buckets |-> IF b + 1 \in buckets THEN b + 1 ELSE 0]

Init ==
    /\ version = [b \in Primary |-> 0]
    /\ next = [b \in Buckets |-> IF b \in Primary THEN 0 ELSE linked(Extra)[b]]
    /\ key_arr = [b \in Buckets |-> [i \in Items |-> 0]]
    /\ val = [b \in Buckets |-> [i \in Items |-> <<0, 0>>]]
    /\ list = [head |-> IF NumExtraBuckets = 0 THEN 0 ELSE NumBuckets + 1, lock |-> free]
    /\ w = [t \in Writers |-> no_op]
    /\ r = [t \in Readers |-> no_read]
    /\ table = [k \in Keys |-> 0]
    /\ ops = 0 /\ resets = 0 /\ stale_links = FALSE

\* The keys go, the list of free buckets is built anew, and the links of the
\* primary buckets stay
reset ==
    /\ resets < MaxResets
    /\ \A t \in Writers : w[t].pc = "idle"
    /\ \A t \in Readers : r[t].pc = "idle"
    /\ resets' = resets + 1
    /\ stale_links' = (stale_links \/ \E b \in Primary : next[b] # 0)
    /\ key_arr' = [b \in Buckets |-> [i \in Items |-> 0]]
    /\ next' = [b \in Buckets |-> IF b \in Primary THEN next[b] ELSE linked(Extra)[b]]
    /\ list' = [head |-> IF NumExtraBuckets = 0 THEN 0 ELSE NumBuckets + 1, lock |-> free]
    /\ table' = [k \in Keys |-> 0]
    /\ UNCHANGED <<version, val, w, r, ops>>

----------------------------------------------------------------------------
(* Writers *)

goto(t, pc) == w' = [w EXCEPT ![t].pc = pc]
primary(t) == Hash[w[t].key]

start(t) ==
    /\ w[t].pc = "idle" /\ ops < MaxOps
    /\ ops' = ops + 1
    /\ \E op \in {"set", "del"}, k \in Keys, v \in Values :
          w' = [w EXCEPT ![t] = [no_op EXCEPT !.pc = "lock", !.op = op, !.key = k,
                                              !.value = IF op = "set" THEN v ELSE 0]]
    /\ UNCHANGED <<version, next, key_arr, val, list, r, table, resets, stale_links>>

lock_bucket(t) ==
    /\ w[t].pc = "lock" /\ version[primary(t)] % 2 = 0
    /\ version' = [version EXCEPT ![primary(t)] = @ + 1]
    /\ goto(t, w[t].op)
    /\ UNCHANGED <<next, key_arr, val, list, r, table, ops, resets, stale_links>>

\* The slot of the key, an empty slot, or none: a new extra bucket is needed
set(t) ==
    LET b == primary(t)
        at(p, pc) == w' = [w EXCEPT ![t].bkt = p[1], ![t].item = p[2], ![t].pc = pc]
    IN  /\ w[t].pc = "set"
        /\ CASE found(b, w[t].key) -> at(find(b, w[t].key), "set_key")
             [] ~found(b, w[t].key) /\ found(b, 0) -> at(find(b, 0), "set_key")
             [] OTHER -> at(<<Last(chain(b)), 1>>, "alloc")
        /\ UNCHANGED <<version, next, key_arr, val, list, r, table, ops, resets, stale_links>>

lock_extra_bucket_free_list(t) ==
    /\ w[t].pc \in {"alloc", "push"} /\ list.lock = free
    /\ list' = [list EXCEPT !.lock = t]
    /\ w' = [w EXCEPT ![t].pc = IF @ = "alloc" THEN "take" ELSE "insert"]
    /\ UNCHANGED <<version, next, key_arr, val, r, table, ops, resets, stale_links>>

\* alloc_extra_bucket: the first free bucket is read, taken, and linked
alloc_read(t) ==
    /\ w[t].pc = "take"
    /\ IF list.head = 0
         THEN /\ list' = [list EXCEPT !.lock = free]
              /\ w' = [w EXCEPT ![t].pc = "unlock", ![t].result = "no space"]
         ELSE /\ w' = [w EXCEPT ![t].pc = "take_head", ![t].tmp = list.head]
              /\ UNCHANGED list
    /\ UNCHANGED <<version, next, key_arr, val, r, table, ops, resets, stale_links>>

alloc_take(t) ==
    /\ w[t].pc = "take_head"
    /\ list' = [list EXCEPT !.head = next[w[t].tmp]]
    /\ next' = [next EXCEPT ![w[t].tmp] = 0]
    /\ goto(t, "link")
    /\ UNCHANGED <<version, key_arr, val, r, table, ops, resets, stale_links>>

alloc_link(t) ==
    /\ w[t].pc = "link"
    /\ next' = [next EXCEPT ![w[t].bkt] = w[t].tmp]
    /\ list' = [list EXCEPT !.lock = free]
    /\ w' = [w EXCEPT ![t].pc = "set_key", ![t].bkt = w[t].tmp, ![t].item = 1]
    /\ UNCHANGED <<version, key_arr, val, r, table, ops, resets, stale_links>>

set_key(t) ==
    /\ w[t].pc = "set_key"
    /\ key_arr' = [key_arr EXCEPT ![w[t].bkt][w[t].item] = w[t].key]
    /\ goto(t, "set_word1")
    /\ UNCHANGED <<version, next, val, list, r, table, ops, resets, stale_links>>

set_value(t) ==
    \E n \in {1, 2} :
        /\ w[t].pc = <<"set_word1", "set_word2">>[n]
        /\ val' = [val EXCEPT ![w[t].bkt][w[t].item][n] = w[t].value]
        /\ w' = [w EXCEPT ![t].pc = <<"set_word2", "unlock">>[n],
                          ![t].result = IF n = 2 THEN "success" ELSE @]
        /\ UNCHANGED <<version, next, key_arr, list, r, table, ops, resets, stale_links>>

del(t) ==
    LET p == find(primary(t), w[t].key)
    IN  /\ w[t].pc = "del"
        /\ IF found(primary(t), w[t].key)
             THEN /\ key_arr' = [key_arr EXCEPT ![p[1]][p[2]] = 0]
                  /\ w' = [w EXCEPT ![t].pc = "hole", ![t].bkt = p[1], ![t].item = p[2],
                                    ![t].result = "success"]
             ELSE /\ w' = [w EXCEPT ![t].pc = "unlock", ![t].result = "not found"]
                  /\ UNCHANGED key_arr
        /\ UNCHANGED <<version, next, val, list, r, table, ops, resets, stale_links>>

occupied(b) == {i \in Items : key_arr[b][i] # 0}
tail(t) == Last(chain(w[t].bkt))

\* An item of the last extra bucket, if there is one, moves into the hole: its
\* key first; an empty last bucket is freed and the search starts over
fill_hole(t) ==
    /\ w[t].pc = "hole"
    /\ CASE next[w[t].bkt] = 0 -> goto(t, "unlock") /\ UNCHANGED key_arr
         [] next[w[t].bkt] # 0 /\ occupied(tail(t)) = {} ->
              /\ w' = [w EXCEPT ![t].pc = "free", ![t].then = "hole"]
              /\ UNCHANGED key_arr
         [] OTHER ->
              /\ key_arr' = [key_arr EXCEPT ![w[t].bkt][w[t].item] =
                               key_arr[tail(t)][Min(occupied(tail(t)))]]
              /\ goto(t, "move_word1")
    /\ UNCHANGED <<version, next, val, list, r, table, ops, resets, stale_links>>

move_value(t) ==
    \E n \in {1, 2} :
        /\ w[t].pc = <<"move_word1", "move_word2">>[n]
        /\ val' = [val EXCEPT ![w[t].bkt][w[t].item][n] = val[tail(t)][Min(occupied(tail(t)))][n]]
        /\ goto(t, <<"move_word2", "moved">>[n])
        /\ UNCHANGED <<version, next, key_arr, list, r, table, ops, resets, stale_links>>

\* The moved item's old slot is emptied, and its bucket freed with the last one
fill_hole_ends(t) ==
    /\ w[t].pc = "moved"
    /\ key_arr' = [key_arr EXCEPT ![tail(t)][Min(occupied(tail(t)))] = 0]
    /\ w' = [w EXCEPT ![t].pc = IF Cardinality(occupied(tail(t))) = 1 THEN "free" ELSE "unlock",
                      ![t].then = "unlock"]
    /\ UNCHANGED <<version, next, val, list, r, table, ops, resets, stale_links>>

\* free_extra_bucket: the last extra bucket is detached, then put on the list
free_detach(t) ==
    LET c == chain(w[t].bkt)
    IN  /\ w[t].pc = "free"
        /\ next' = [next EXCEPT ![c[Len(c) - 1]] = 0]
        /\ w' = [w EXCEPT ![t].pc = "push", ![t].tmp = Last(c)]
        /\ UNCHANGED <<version, key_arr, val, list, r, table, ops, resets, stale_links>>

free_next(t) ==
    /\ w[t].pc = "insert"
    /\ next' = [next EXCEPT ![w[t].tmp] = list.head]
    /\ goto(t, "set_head")
    /\ UNCHANGED <<version, key_arr, val, list, r, table, ops, resets, stale_links>>

free_head(t) ==
    /\ w[t].pc = "set_head"
    /\ list' = [head |-> w[t].tmp, lock |-> free]
    /\ goto(t, w[t].then)
    /\ UNCHANGED <<version, next, key_arr, val, r, table, ops, resets, stale_links>>

unlock_bucket(t) ==
    /\ w[t].pc = "unlock"
    /\ version' = [version EXCEPT ![primary(t)] = @ + 1]
    /\ table' = IF w[t].result = "success" THEN [table EXCEPT ![w[t].key] = w[t].value] ELSE table
    /\ r' = [x \in Readers |-> IF r[x].pc = "idle" THEN r[x]
                               ELSE [r[x] EXCEPT !.seen = @ \union {table'[r[x].key]}]]
    /\ w' = [w EXCEPT ![t] = no_op]
    /\ UNCHANGED <<next, key_arr, val, list, ops, resets, stale_links>>

----------------------------------------------------------------------------
(* Readers *)

reads(x, s) == r' = [r EXCEPT ![x] = s] /\ UNCHANGED <<version, next, key_arr, val, list, w, table, ops, resets, stale_links>>

get(x) ==
    /\ r[x].pc = "idle"
    /\ \E k \in Keys : reads(x, [no_read EXCEPT !.pc = "begin", !.key = k, !.seen = {table[k]}])

read_version_begin(x) ==
    /\ r[x].pc = "begin" /\ version[Hash[r[x].key]] % 2 = 0
    /\ reads(x, [r[x] EXCEPT !.pc = "scan", !.ver = version[Hash[r[x].key]],
                             !.bkt = Hash[r[x].key], !.item = 1])

\* One slot of the chain, as the reader finds it
find_item_index(x) ==
    LET b == r[x].bkt
        i == r[x].item
    IN  /\ r[x].pc = "scan"
        /\ CASE key_arr[b][i] = r[x].key -> reads(x, [r[x] EXCEPT !.pc = "word1"])
             [] key_arr[b][i] # r[x].key /\ i < kBucketCap -> reads(x, [r[x] EXCEPT !.item = i + 1])
             [] key_arr[b][i] # r[x].key /\ i = kBucketCap /\ next[b] # 0 ->
                  reads(x, [r[x] EXCEPT !.bkt = next[b], !.item = 1])
             [] OTHER -> reads(x, [r[x] EXCEPT !.pc = "end", !.result = 0])

read_value(x) ==
    LET v == val[r[x].bkt][r[x].item]
    IN  \/ /\ r[x].pc = "word1"
           /\ reads(x, [r[x] EXCEPT !.pc = "word2", !.word = v[1]])
        \/ /\ r[x].pc = "word2"
           \* Two words that do not fit are no value: -1
           /\ reads(x, [r[x] EXCEPT !.pc = "end", !.result = IF v[2] = r[x].word THEN v[2] ELSE -1])

read_version_end(x) ==
    /\ r[x].pc = "end"
    /\ reads(x, [r[x] EXCEPT !.pc = IF version[Hash[r[x].key]] = r[x].ver THEN "done" ELSE "begin"])

get_returns(x) == r[x].pc = "done" /\ reads(x, no_read)

----------------------------------------------------------------------------
WriterStep(t) ==
    \/ lock_bucket(t) \/ set(t) \/ lock_extra_bucket_free_list(t) \/ alloc_read(t) \/ alloc_take(t)
    \/ alloc_link(t) \/ set_key(t) \/ set_value(t) \/ del(t) \/ fill_hole(t) \/ move_value(t)
    \/ fill_hole_ends(t) \/ free_detach(t) \/ free_next(t) \/ free_head(t) \/ unlock_bucket(t)

ReaderStep(x) ==
    read_version_begin(x) \/ find_item_index(x) \/ read_value(x) \/ read_version_end(x)

Next ==
    \/ reset
    \/ \E t \in Writers : start(t) \/ WriterStep(t)
    \/ \E x \in Readers : get(x) \/ ReaderStep(x) \/ get_returns(x)

Spec == Init /\ [][Next]_vars

----------------------------------------------------------------------------
(* Properties *)

\* A GET without a lock returns a value, whole, or the absence of one, that the
\* key had at some moment of the call, whatever the writers move or free in the
\* meantime (get).
GetLinearizable == \A x \in Readers : r[x].pc = "done" => r[x].result \in r[x].seen

\* An unlocked bucket's chain holds each of its keys once, with its value, and
\* nothing else (set, del, fill_hole), unless a reset has met extra buckets in use.
OneCopy ==
    ~stale_links => \A b \in Primary : version[b] % 2 = 0 =>
        /\ \A k \in Keys : Hash[k] = b =>
              /\ table[k] = 0 => ~found(b, k)
              /\ table[k] # 0 =>
                    \E p \in places(b) : /\ {q \in places(b) : key_arr[q[1]][q[2]] = k} = {p}
                                         /\ val[p[1]][p[2]] = <<table[k], table[k]>>
        /\ \A p \in places(b) : key_arr[p[1]][p[2]] # 0 => Hash[key_arr[p[1]][p[2]]] = b

\* No extra bucket is in two chains, or in a chain and on the free list, and
\* none is lost (alloc_extra_bucket, free_extra_bucket), through any reset of a
\* table without extra buckets in use.  reset of a table with some puts all of
\* them on the free list and leaves the primary buckets linked to theirs.
ExtraBucketsOwned ==
    ~stale_links =>
    LET extras(b) == Range(chain(b)) \ {b}
        freed == IF list.head = 0 THEN {} ELSE Range(chain(list.head))
    IN  /\ \A a, b \in Primary : a # b => extras(a) \intersect extras(b) = {}
        /\ list.lock = free => \A b \in Primary : extras(b) \intersect freed = {}
        /\ (\A t \in Writers : w[t].pc = "idle") => UNION {extras(b) : b \in Primary} \union freed = Extra

=============================================================================
