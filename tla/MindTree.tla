------------------------------ MODULE MindTree ------------------------------
(***************************************************************************)
(* The B+ tree benchmarks on mapped memory (benchmark/src):                *)
(* bplustree_mind.h, whose nodes come from mind_malloc and are never       *)
(* freed, and the programs btree_scan_mind_benchmark and                   *)
(* btree_agg_mind_benchmark, built to fill a tree and dump the regions to  *)
(* a file (STORE_TO_FILE) and to query a tree they load from one           *)
(* (LOAD_FROM_FILE).  An address counts nodes; a slot of a node keeps what *)
(* was last written to it, and mapped memory starts as zeroes.             *)
(***************************************************************************)
EXTENDS Integers, FiniteSets, SequencesExt, TLC

CONSTANTS MIN_DEGREE,     \* BPLUSTREE_MIN_DEGREE
          Keys, Values,
          RegionSize,     \* TEST_MACRO_ALLOC_SIZE, in nodes
          NumRegions,     \* num_memory_regions
          Bases,          \* addresses that mmap may return
          MaxUpdates      \* bound on the overwriting of a key

MindTreeAssumption ==
    /\ MIN_DEGREE \in Nat \ {0, 1}
    /\ Keys \subseteq Nat \ {0} /\ Values \subseteq Nat \ {0}
    /\ {RegionSize, NumRegions} \subseteq Nat \ {0}
    /\ Bases \subseteq Nat \ {0}
    /\ \A a, b \in Bases : a < b => a + RegionSize <= b

MAX_KEYS == 2 * MIN_DEGREE - 1
MAX_CHILDREN == 2 * MIN_DEGREE
NULL == 0

VARIABLES
    phase,      \* where main() is
    store,      \* the regions: their addresses, what is handed out, the nodes
    root,
    file,       \* what dump_mem_layout wrote
    kv,         \* history: key -> the value of its last insert, or NULL
    updates

vars == <<phase, store, root, file, kv, updates>>

zeroes(n, x) == [i \in 1 .. n |-> x]
blank == [key |-> 0, value |-> NULL]
zero_node == [is_leaf |-> FALSE, nk |-> 0, entries |-> zeroes(MAX_KEYS, blank),
              children |-> zeroes(MAX_CHILDREN, NULL), next |-> NULL]

Cells(base) == base .. base + RegionSize - 1

----------------------------------------------------------------------------
(* Nodes *)

is_node_full(n) == n.nk = MAX_KEYS

\* How many entries are below, and not above, a key: entries are in order
below(n, key) == Cardinality({i \in 1 .. n.nk : n.entries[i].key < key})
not_above(n, key) == Cardinality({i \in 1 .. n.nk : n.entries[i].key <= key})

\* s with x at place p, the rest of its first n elements one place further
put(s, n, p, x) == SubSeq(s, 1, p - 1) \o <<x>> \o SubSeq(s, p, n) \o SubSeq(s, n + 2, Len(s))

\* A store t with one more node, the last region's successor when all are full;
\* its callers write through the NULL that mind_malloc returns then
create_node(t, is_leaf) ==
    LET i == IF t.next[t.idx] + 1 - t.address[t.idx] < RegionSize THEN t.idx ELSE t.idx + 1
    IN  IF i > Len(t.address) THEN [t EXCEPT !.ok = FALSE]
        ELSE [t EXCEPT !.idx = i, !.new = t.next[i], !.next[i] = @ + 1,
                       !.mem[t.next[i]] = [@ EXCEPT !.is_leaf = is_leaf, !.nk = 0, !.next = NULL]]

\* The upper half of the parent's child at place idx moves to a new sibling;
\* the first key of a leaf's sibling, or the middle entry of an inner node,
\* goes to the parent
split_node(t, p, idx) ==
    LET c == t.mem[p].children[idx]
        child == t.mem[c]
        n == create_node(t, child.is_leaf)
        s == n.new
        first == IF child.is_leaf THEN MIN_DEGREE ELSE MIN_DEGREE + 1
        entries == SubSeq(child.entries, first, MAX_KEYS)
        pointers == SubSeq(child.children, MIN_DEGREE + 1, MAX_CHILDREN)
        parent == t.mem[p]
    IN  IF ~n.ok THEN n
        ELSE [n EXCEPT
          !.mem[s].nk = Len(entries),
          !.mem[s].entries = entries \o SubSeq(@, Len(entries) + 1, MAX_KEYS),
          !.mem[s].children = IF child.is_leaf THEN @ ELSE pointers \o SubSeq(@, MIN_DEGREE + 1, MAX_CHILDREN),
          !.mem[s].next = IF child.is_leaf THEN child.next ELSE @,
          !.mem[c].nk = MIN_DEGREE - 1,
          !.mem[c].next = IF child.is_leaf THEN s ELSE @,
          !.mem[p].children = put(@, parent.nk + 1, idx + 1, s),
          !.mem[p].entries = put(@, parent.nk, idx,
                                 IF child.is_leaf THEN [parent.entries[idx] EXCEPT !.key = entries[1].key]
                                 ELSE child.entries[MIN_DEGREE]),
          !.mem[p].nk = @ + 1]

RECURSIVE insert_not_full(_, _, _, _)
insert_not_full(t, a, key, value) ==
    LET n == t.mem[a]
        j == not_above(n, key)
        s == split_node(t, a, j + 1)
    IN  CASE n.is_leaf ->
               [t EXCEPT !.mem[a].entries = put(@, n.nk, j + 1, [key |-> key, value |-> value]),
                         !.mem[a].nk = @ + 1]
          [] ~n.is_leaf /\ ~is_node_full(t.mem[n.children[j + 1]]) ->
               insert_not_full(t, n.children[j + 1], key, value)
          [] OTHER -> IF ~s.ok THEN s
                      ELSE insert_not_full(s, s.mem[a].children[
                               IF s.mem[a].entries[j + 1].key < key THEN j + 2 ELSE j + 1], key, value)

\* The leaf that search and update_if_found come to
RECURSIVE leaf_of(_, _, _)
leaf_of(m, a, key) ==
    IF m[a].is_leaf THEN a ELSE leaf_of(m, m[a].children[not_above(m[a], key) + 1], key)

at_leaf(m, a, key) == {i \in 1 .. m[a].nk : m[a].entries[i].key = key}

search(key) ==
    LET a == leaf_of(store.mem, root, key)
        at == at_leaf(store.mem, a, key)
    IN  IF at = {} THEN NULL ELSE store.mem[a].entries[CHOOSE i \in at : TRUE].value

update_if_found(t, key, value) ==
    LET a == leaf_of(t.mem, root, key)
    IN  [t EXCEPT !.mem[a].entries = [i \in 1 .. MAX_KEYS |->
                                        IF i \in at_leaf(t.mem, a, key) THEN [@[i] EXCEPT !.value = value] ELSE @[i]]]

found(key) == root # NULL /\ at_leaf(store.mem, leaf_of(store.mem, root, key), key) # {}

\* The store and the root after insert
inserted(key, value) ==
    LET first == create_node(store, TRUE)
        up == create_node(store, FALSE)
        linked == [up EXCEPT !.mem[up.new].children[1] = root]
        split == split_node(linked, up.new, 1)
        side == IF split.mem[up.new].entries[1].key < key THEN 2 ELSE 1
    IN  CASE root = NULL ->
               IF ~first.ok THEN <<first, NULL>>
               ELSE <<[first EXCEPT !.mem[first.new].entries[1] = [key |-> key, value |-> value],
                                    !.mem[first.new].nk = 1], first.new>>
          [] found(key) -> <<update_if_found(store, key, value), root>>
          [] root # NULL /\ ~found(key) /\ ~is_node_full(store.mem[root]) ->
               <<insert_not_full(store, root, key, value), root>>
          [] OTHER -> IF ~up.ok THEN <<up, root>>
                      ELSE IF ~split.ok THEN <<split, root>>
                      ELSE <<insert_not_full(split, split.mem[up.new].children[side], key, value), up.new>>

----------------------------------------------------------------------------
(* Range queries *)

\* The leaf a scan starts at: a key equal to a separator goes left of it
RECURSIVE scan_leaf(_, _)
scan_leaf(a, key) ==
    LET n == store.mem[a] IN IF n.is_leaf THEN a ELSE scan_leaf(n.children[below(n, key) + 1], key)

RECURSIVE chain(_)
chain(a) == IF a = NULL THEN <<>> ELSE <<a>> \o chain(store.mem[a].next)

keys_of(a, i) == [j \in 1 .. store.mem[a].nk - i + 1 |-> store.mem[a].entries[i + j - 1].key]

\* The keys from the leaf's place i on
keys_from(a, i) ==
    keys_of(a, i) \o FlattenSeq([j \in DOMAIN chain(store.mem[a].next) |->
                                   keys_of(chain(store.mem[a].next)[j], 1)])

\* A length of 0 is never met
scan(key, len) ==
    LET a == scan_leaf(root, key)
        all == keys_from(a, below(store.mem[a], key) + 1)
    IN  IF len \in DOMAIN all THEN SubSeq(all, 1, len) ELSE all

\* The keys that aggregate takes in: it ends after one that is above the limit,
\* or when the slot behind the last entry holds one; behind a full leaf's
\* entries is its first child pointer, zero
RECURSIVE aggregate_from(_, _, _)
aggregate_from(a, i, limit) ==
    LET n == store.mem[a]
        over == {j \in i .. n.nk : n.entries[j].key > limit}
        stale == n.nk < MAX_KEYS /\ n.entries[n.nk + 1].key > limit
    IN  CASE over # {} -> SubSeq(keys_of(a, i), 1, CHOOSE j \in 1 .. n.nk : i + j - 1 \in over /\ \A x \in over : i + j - 1 <= x)
          [] over = {} /\ (stale \/ n.next = NULL) -> keys_of(a, i)
          [] OTHER -> keys_of(a, i) \o aggregate_from(n.next, 1, limit)

aggregate(key, len) ==
    LET a == scan_leaf(root, key) IN aggregate_from(a, below(store.mem[a], key) + 1, key + len)

----------------------------------------------------------------------------
(* The two runs of the program *)

no_store == [address |-> <<>>, next |-> <<>>, idx |-> 1, mem |-> <<>>, new |-> NULL, ok |-> TRUE]

\* The constructor of the tree runs before any region is there
Init ==
    /\ phase = "setup" /\ store = no_store /\ root = NULL
    /\ file = [root |-> NULL, from |-> <<>>, regions |-> <<>>]
    /\ kv = [k \in Keys |-> NULL] /\ updates = 0

mind_malloc_add_mem ==
    /\ phase = "setup" /\ Len(store.address) < NumRegions
    /\ \E b \in Bases \ Range(store.address) :
          store' = [store EXCEPT !.address = Append(@, b), !.next = Append(@, b),
                                 !.mem = [a \in Cells(b) |-> zero_node] @@ @]
    /\ phase' = IF Len(store'.address) = NumRegions THEN "filling" ELSE "setup"
    /\ UNCHANGED <<root, file, kv, updates>>

insert(key, value) ==
    LET t == inserted(key, value)
    IN  /\ phase = "filling" /\ (found(key) => updates < MaxUpdates)
        /\ updates' = IF found(key) THEN updates + 1 ELSE updates
        /\ IF t[1].ok
             THEN store' = t[1] /\ root' = t[2] /\ kv' = [kv EXCEPT ![key] = value] /\ UNCHANGED phase
             ELSE phase' = "crashed" /\ UNCHANGED <<store, root, kv>>
        /\ UNCHANGED file

\* STORE_TO_FILE: the number of regions, the root and the regions' bytes are
\* written; "from" is history.  check() does not let an empty tree through.
dump_mem_layout ==
    /\ phase = "filling" /\ root # NULL
    /\ file' = [root |-> root, from |-> store.address,
                regions |-> [i \in DOMAIN store.address |->
                               [c \in 0 .. RegionSize - 1 |-> store.mem[store.address[i] + c]]]]
    /\ phase' = "dumped"
    /\ UNCHANGED <<store, root, kv, updates>>

\* mind_free_all; the second process starts with the file
mind_free_all ==
    /\ phase = "dumped"
    /\ phase' = "started" /\ store' = no_store /\ root' = NULL
    /\ UNCHANGED <<file, kv, updates>>

\* As many regions as were dumped, wherever mmap puts them, get the bytes, and
\* the tree gets the root
load_mem_layout ==
    /\ phase = "started"
    /\ \E bs \in {s \in [DOMAIN file.regions -> Bases] : IsInjective(s)} :
          store' = [store EXCEPT !.address = bs, !.next = bs,
                      !.mem = [a \in UNION {Cells(bs[i]) : i \in DOMAIN bs} |->
                                 LET i == CHOOSE j \in DOMAIN bs : a \in Cells(bs[j])
                                 IN  file.regions[i][a - bs[i]]]]
    /\ root' = file.root
    /\ phase' = "querying"
    /\ UNCHANGED <<file, kv, updates>>

Next ==
    \/ mind_malloc_add_mem
    \/ \E k \in Keys, v \in Values : insert(k, v)
    \/ dump_mem_layout
    \/ mind_free_all
    \/ load_mem_layout

Spec == Init /\ [][Next]_vars

----------------------------------------------------------------------------
(* Properties *)

\* A process that filled the tree, or has the dumped regions at their old
\* addresses, can query it
queryable == root # NULL /\ (phase = "filling" \/ (phase = "querying" /\ store.address = file.from))

ordered(S) == [i \in 1 .. Cardinality(S) |-> CHOOSE k \in S : Cardinality({x \in S : x < k}) = i - 1]
from(key) == {k \in Keys : kv[k] # NULL /\ k >= key}

\* Every key is found with the value inserted last, through splits, overwriting
\* and the file (insert, search, dump_mem_layout, load_mem_layout).
FindsNewest == queryable => \A k \in Keys : search(k) = kv[k]

\* A scan returns the keys from its start key on, in order and none missing
\* (scan; the chain of leaves that split_node threads).
ScanRight ==
    queryable => \A k \in Keys, len \in 0 .. 2 :
        LET all == ordered(from(k)) IN scan(k, len) = IF len \in DOMAIN all THEN SubSeq(all, 1, len) ELSE all

\* An aggregation takes in keys from its start key on, in order, none twice and
\* none left out in between, and at most one above the limit.  It is not the
\* aggregate of the range: a key is tested after its value is folded in, and the
\* slot behind the last entry of a leaf may end it early (aggregate).
AggregateRun ==
    queryable => \A k \in Keys, len \in 0 .. 2 :
        LET got == aggregate(k, len)
        IN  /\ got = SubSeq(ordered(from(k)), 1, Len(got))
            /\ Cardinality({i \in DOMAIN got : got[i] > k + len}) <= 1
=============================================================================
