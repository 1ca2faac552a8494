----------------------------- MODULE BPlusTree -----------------------------
(***************************************************************************)
(* The B+ tree that the btree-scan and btree-agg servers load and query    *)
(* (libpc/src/pc/datastructure/bplustree.h).  Nodes live at addresses of a *)
(* heap, and an array slot keeps what was last written to it: splitting a  *)
(* node only lowers nk, and malloc does not clear a node.  A thread loads  *)
(* the tree with insert and update; read, scan and aggregate_time change   *)
(* nothing, so they are operators that the invariants evaluate in every    *)
(* reachable state.                                                        *)
(***************************************************************************)
EXTENDS Integers, SequencesExt, TLC

CONSTANTS MIN_DEGREE,     \* BPLUSTREE_MIN_DEGREE
          Keys,           \* the keys of the workload, positive integers
          Values,         \* Values[k]: the values key k is given, natural numbers
          After,          \* After[k]: keys that are loaded before k is
          MallocOrders,   \* orders in which malloc may hand out addresses
          MaxUpdates      \* bound on the overwriting of a present key

BPlusTreeAssumption ==
    /\ MIN_DEGREE \in Nat \ {0, 1}
    /\ Keys \subseteq Nat \ {0}
    /\ Values \in [Keys -> SUBSET Nat]
    /\ After \in [Keys -> SUBSET Keys]
    /\ \A o \in MallocOrders : o \in Seq(Nat \ {0}) /\ IsInjective(o)

MAX_KEYS == 2 * MIN_DEGREE - 1
MAX_CHILDREN == 2 * MIN_DEGREE

NULL == 0       \* the null pointer
Junk == 0       \* the content of memory that was never written
Absent == -1    \* no value

VARIABLES
    heap,       \* address -> node, for the nodes that malloc returned
    root,
    nodes,      \* every node create_node made, in that order
    malloc,     \* the addresses malloc returns next
    status,     \* "live", then "gone" once the destructor has run
    kv,         \* history: key -> the value last inserted, or Absent
    updates     \* history: how many inserts overwrote a present key

vars == <<heap, root, nodes, malloc, status, kv, updates>>

Node == [is_leaf : BOOLEAN, nk : 0 .. MAX_KEYS,
         key : [0 .. MAX_KEYS - 1 -> Keys \cup {Junk}],
         value : [0 .. MAX_KEYS - 1 -> UNION Range(Values) \cup {Absent}],
         children : [0 .. MAX_CHILDREN - 1 -> Nat],
         next : Nat, previous : Nat]

----------------------------------------------------------------------------
(* The loops that look for a key in the entries of one node *)

\* while (i < nk && key > entries[i].key) i += 1
first_not_below(n, key) ==
    Min({i \in 0 .. n.nk : i = n.nk \/ key <= n.key[i]})

\* i = nk - 1; while (i >= 0 && entries[i].key > key) i -= 1
last_not_above(n, key) ==
    Max({i \in -1 .. n.nk - 1 : i = -1 \/ n.key[i] <= key})

holds(n, i, key) == i < n.nk /\ n.key[i] = key

is_node_full(n) == n.nk = MAX_KEYS

\* The leaf that search and update_if_found reach: right of an equal separator
RECURSIVE search_leaf(_, _, _)
search_leaf(h, a, key) ==
    LET n == h[a]
        i == first_not_below(n, key)
    IN IF n.is_leaf THEN a
       ELSE search_leaf(h, n.children[IF holds(n, i, key) THEN i + 1 ELSE i], key)

search(key) ==
    LET n == heap[search_leaf(heap, root, key)]
        i == first_not_below(n, key)
    IN IF holds(n, i, key) THEN n.value[i] ELSE Absent

\* The leaf that scan and aggregate_time reach: left of an equal separator
RECURSIVE scan_leaf(_, _)
scan_leaf(a, key) ==
    IF heap[a].is_leaf THEN a
    ELSE scan_leaf(heap[a].children[first_not_below(heap[a], key)], key)

----------------------------------------------------------------------------
(* Queries *)

\* The keys of entries i .. j of a node
keys_from(n, i, j) == [x \in 1 .. j - i + 1 |-> n.key[i + x - 1]]

\* The keys of a leaf and of the leaves that its next pointers lead to
RECURSIVE chain_keys(_)
chain_keys(a) ==
    IF a = NULL THEN <<>>
    ELSE keys_from(heap[a], 0, heap[a].nk - 1) \o chain_keys(heap[a].next)

\* scan pushes entries until it has len of them or the chain ends
scan(key, len) ==
    LET a == scan_leaf(root, key)
        n == heap[a]
        all == keys_from(n, first_not_below(n, key), n.nk - 1) \o chain_keys(n.next)
    IN SubSeq(all, 1, Min({len, Len(all)}))

(***************************************************************************)
(* The walk of aggregate_time: the keys whose values it folds into the     *)
(* result.  The value of an entry is folded in before its key is compared  *)
(* with key + len, and after the inner loop entries[i] is read with        *)
(* i = nk.  That slot holds a stale entry, was never written, or is past   *)
(* the end of the array, and in the last two cases both outcomes of the    *)
(* comparison are possible; hence a set of walks.                          *)
(***************************************************************************)
RECURSIVE aggregate_walks(_, _, _)
aggregate_walks(a, i, limit) ==
    IF a = NULL THEN {<<>>}
    ELSE LET n == heap[a]
             over == {j \in i .. n.nk - 1 : n.key[j] > limit}
             unwritten == n.nk = MAX_KEYS \/ n.key[n.nk] = Junk
             mayBreak == unwritten \/ n.key[n.nk] > limit
             mayGoOn == unwritten \/ n.key[n.nk] <= limit
         IN IF over # {} THEN {keys_from(n, i, Min(over))}
            ELSE {keys_from(n, i, n.nk - 1) \o rest :
                    rest \in (IF mayBreak THEN {<<>>} ELSE {})
                       \cup (IF mayGoOn THEN aggregate_walks(n.next, 0, limit) ELSE {})}

aggregate_time(key, len) ==
    LET a == scan_leaf(root, key)
    IN aggregate_walks(a, first_not_below(heap[a], key), key + len)

----------------------------------------------------------------------------
(* Insertion: operators on a record t of the heap, nodes and malloc *)

create_node(t, leaf) ==
    LET blank == [is_leaf |-> leaf, nk |-> 0,
                  key |-> [i \in 0 .. MAX_KEYS - 1 |-> Junk],
                  value |-> [i \in 0 .. MAX_KEYS - 1 |-> Absent],
                  children |-> [i \in 0 .. MAX_CHILDREN - 1 |-> NULL],
                  next |-> NULL, previous |-> NULL]
    IN [heap |-> t.heap @@ (Head(t.malloc) :> blank),
        nodes |-> Append(t.nodes, Head(t.malloc)), malloc |-> Tail(t.malloc)]

\* Room for slot i of an array f whose slots below n are in use, and x put there
shifted_in(f, i, n, x) ==
    [j \in DOMAIN f |-> CASE j = i -> x
                          [] j > i /\ j <= n -> f[j - 1]
                          [] OTHER -> f[j]]

\* The parent takes the sibling as child idx + 1, below the separator sep
adopt(p, idx, sep, sibling) ==
    [p EXCEPT !.children = shifted_in(@, idx + 1, p.nk + 1, sibling),
              !.key = shifted_in(@, idx, p.nk, sep.key),
              !.value = shifted_in(@, idx, p.nk, sep.value),
              !.nk = @ + 1]

(* Mutant: the leaf after the split one keeps its previous pointer *)
split_leaf_NoBack(t, idx, parent, child) ==
    LET s == Head(t.malloc)
        t1 == create_node(t, TRUE)
        c == t.heap[child]
        moved(f, g) == [i \in DOMAIN f |->
                          IF i < MIN_DEGREE THEN g[i + MIN_DEGREE - 1] ELSE f[i]]
        sibling == [t1.heap[s] EXCEPT !.nk = MIN_DEGREE,
                      !.key = moved(@, c.key), !.value = moved(@, c.value),
                      !.next = c.next, !.previous = child]
        sep == [key |-> sibling.key[0], value |-> t.heap[parent].value[idx]]
    IN [t1 EXCEPT !.heap = [t1.heap EXCEPT ![s] = sibling,
                ![child] = [c EXCEPT !.nk = MIN_DEGREE - 1, !.next = s],
                ![parent] = adopt(@, idx, sep, s)]]

\* A leaf is split: t with the last MIN_DEGREE entries moved to a sibling s
split_leaf(t, idx, parent, child) ==
    LET s == Head(t.malloc)
        t1 == create_node(t, TRUE)
        c == t.heap[child]
        moved(f, g) == [i \in DOMAIN f |->
                          IF i < MIN_DEGREE THEN g[i + MIN_DEGREE - 1] ELSE f[i]]
        sibling == [t1.heap[s] EXCEPT !.nk = MIN_DEGREE,
                      !.key = moved(@, c.key), !.value = moved(@, c.value),
                      !.next = c.next, !.previous = child]
        old == t.heap[parent].value
        \* only the key of the separator is written
        sep == [key |-> sibling.key[0], value |-> old[idx]]
        h == [t1.heap EXCEPT ![s] = sibling,
                ![child] = [c EXCEPT !.nk = MIN_DEGREE - 1, !.next = s],
                ![parent] = adopt(@, idx, sep, s)]
    IN [t1 EXCEPT !.heap = IF c.next = NULL THEN h
                           ELSE [h EXCEPT ![c.next].previous = s]]

\* An internal node is split around its middle entry, which moves up
split_internal(t, idx, parent, child) ==
    LET s == Head(t.malloc)
        t1 == create_node(t, FALSE)
        c == t.heap[child]
        moved(f, g, n) == [i \in DOMAIN f |->
                             IF i < n THEN g[i + MIN_DEGREE] ELSE f[i]]
        sibling == [t1.heap[s] EXCEPT !.nk = MIN_DEGREE - 1,
                      !.key = moved(@, c.key, MIN_DEGREE - 1),
                      !.value = moved(@, c.value, MIN_DEGREE - 1),
                      !.children = moved(@, c.children, MIN_DEGREE)]
        sep == [key |-> c.key[MIN_DEGREE - 1], value |-> c.value[MIN_DEGREE - 1]]
    IN [t1 EXCEPT !.heap = [t1.heap EXCEPT ![s] = sibling,
                              ![child].nk = MIN_DEGREE - 1,
                              ![parent] = adopt(@, idx, sep, s)]]

split_node(t, idx, parent, child) ==
    IF t.heap[child].is_leaf THEN split_leaf(t, idx, parent, child)
    ELSE split_internal(t, idx, parent, child)

\* A leaf with room takes the pair after its last entry that is not above key
insert_in_leaf(n, key, value) ==
    LET i == last_not_above(n, key)
    IN [n EXCEPT !.key = shifted_in(@, i + 1, n.nk, key),
                 !.value = shifted_in(@, i + 1, n.nk, value),
                 !.nk = @ + 1]

RECURSIVE insert_not_full(_, _, _, _)
insert_not_full(t, a, key, value) ==
    LET n == t.heap[a]
        i == last_not_above(n, key)
        full == is_node_full(t.heap[n.children[i + 1]])
        t1 == IF full THEN split_node(t, i + 1, a, n.children[i + 1]) ELSE t
        j == IF full /\ t1.heap[a].key[i + 1] < key THEN i + 2 ELSE i + 1
    IN IF n.is_leaf THEN [t EXCEPT !.heap[a] = insert_in_leaf(n, key, value)]
       ELSE insert_not_full(t1, t1.heap[a].children[j], key, value)

Tree == [heap |-> heap, nodes |-> nodes, malloc |-> malloc]

Become(t, r) == heap' = t.heap /\ nodes' = t.nodes /\ malloc' = t.malloc /\ root' = r

\* The first key makes a root that is a leaf
insert_root(key, value) ==
    LET t == create_node(Tree, TRUE)
    IN Become([t EXCEPT !.heap[Head(malloc)] = insert_in_leaf(@, key, value)],
              Head(malloc))

update_if_found(key, value) ==
    LET a == search_leaf(heap, root, key)
        i == first_not_below(heap[a], key)
    IN /\ holds(heap[a], i, key)
       /\ heap' = [heap EXCEPT ![a].value[i] = value]
       /\ UNCHANGED <<root, nodes, malloc>>

\* A new root above a full one, which is split
grow(key, value) ==
    LET r == Head(malloc)
        t1 == create_node(Tree, FALSE)
        t2 == split_node([t1 EXCEPT !.heap[r].children[0] = root], 0, r, root)
        idx == IF t2.heap[r].key[0] < key THEN 1 ELSE 0
    IN Become(insert_not_full(t2, t2.heap[r].children[idx], key, value), r)

not_found(key) ==
    LET n == heap[search_leaf(heap, root, key)]
    IN ~holds(n, first_not_below(n, key), key)

insert(key, value) ==
    \/ root = NULL /\ insert_root(key, value)
    \/ root # NULL /\ update_if_found(key, value)
    \/ /\ root # NULL
       /\ not_found(key)
       /\ IF is_node_full(heap[root]) THEN grow(key, value)
          ELSE Become(insert_not_full(Tree, root, key, value), root)

----------------------------------------------------------------------------
(* Destruction and print_layout *)

\* h without the nodes below a; a leaf leaves the chain before it is freed
RECURSIVE recursive_free(_, _)
recursive_free(h, a) ==
    LET n == h[a]
        h1 == IF n.next = NULL THEN h ELSE [h EXCEPT ![n.next].previous = n.previous]
        h2 == IF n.previous = NULL THEN h1 ELSE [h1 EXCEPT ![n.previous].next = n.next]
        Free(g, x) == [b \in DOMAIN g \ {x} |-> g[b]]
        Child(g, i) == recursive_free(g, n.children[i])
    IN IF n.is_leaf THEN Free(h2, a)
       ELSE Free(FoldLeft(Child, h, [i \in 1 .. n.nk + 1 |-> i - 1]), a)

----------------------------------------------------------------------------
Init ==
    /\ heap = <<>>
    /\ root = NULL
    /\ nodes = <<>>
    /\ malloc \in MallocOrders
    /\ status = "live"
    /\ kv = [k \in Keys |-> Absent]
    /\ updates = 0

Insert(key, value) ==
    /\ status = "live"
    /\ \A k \in After[key] : kv[k] # Absent
    /\ kv[key] # Absent => updates < MaxUpdates
    /\ insert(key, value)
    /\ kv' = [kv EXCEPT ![key] = value]
    /\ updates' = IF kv[key] = Absent THEN updates ELSE updates + 1
    /\ UNCHANGED status

\* update is insert once check() has seen a root
Update(key, value) == root # NULL /\ Insert(key, value)

\* ~BPlusTree calls destroy, whose check() asserts that there is a root
Destroy ==
    /\ status = "live"
    /\ status' = IF root = NULL THEN "aborted" ELSE "gone"
    /\ heap' = IF root = NULL THEN heap ELSE recursive_free(heap, root)
    /\ root' = NULL
    /\ UNCHANGED <<nodes, malloc, kv, updates>>

Next ==
    \/ \E k \in Keys : \E v \in Values[k] : Insert(k, v)
    \/ \E k \in Keys : \E v \in Values[k] : Update(k, v)
    \/ Destroy

Spec == Init /\ [][Next]_vars

----------------------------------------------------------------------------
(* Properties *)

Loaded == {k \in Keys : kv[k] # Absent}
LoadedFrom(k) == {x \in Loaded : x >= k}

\* w lists, in ascending order, the lowest elements of S
LowestOf(w, S) ==
    /\ \A i \in 1 .. Len(w) - 1 : w[i] < w[i + 1]
    /\ Range(w) \subseteq S
    /\ \A x \in S \ Range(w), y \in Range(w) : y < x

TypeOK ==
    /\ \A a \in DOMAIN heap : heap[a] \in Node
    /\ root = NULL \/ root \in DOMAIN heap
    /\ status \in {"live", "gone", "aborted"}

\* read finds, for every key, the value last inserted for it and nothing for
\* a key that never was, whatever splits the inserts before it caused.
ReadCorrect == root # NULL => \A k \in Keys : search(k) = kv[k]

\* scan returns the first len loaded keys that are not below its start, in
\* order, although its descent goes left of an equal separator where the one
\* of read goes right.
ScanCorrect ==
    root # NULL =>
        \A k \in Keys, len \in 1 .. Cardinality(Keys) :
            /\ LowestOf(scan(k, len), LoadedFrom(k))
            /\ Len(scan(k, len)) = Min({len, Cardinality(LoadedFrom(k))})

\* The leaves below a node, left to right, and its depth along every path
RECURSIVE leaves(_)
leaves(a) ==
    IF heap[a].is_leaf THEN <<a>>
    ELSE FlattenSeq([i \in 1 .. heap[a].nk + 1 |-> leaves(heap[a].children[i - 1])])

RECURSIVE depths(_)
depths(a) ==
    IF heap[a].is_leaf THEN {0}
    ELSE {d + 1 : d \in UNION {depths(heap[a].children[i]) : i \in 0 .. heap[a].nk}}

RECURSIVE below(_)
below(a) ==
    IF heap[a].is_leaf THEN <<a>>
    ELSE <<a>> \o FlattenSeq([i \in 1 .. heap[a].nk + 1 |->
                                  below(heap[a].children[i - 1])])

\* Every node but the root holds at least MIN_DEGREE - 1 keys, all leaves are
\* at one depth, and the key above a child separates it from its neighbour.
Balanced ==
    root # NULL =>
        /\ Cardinality(depths(root)) = 1
        /\ \A a \in DOMAIN heap \ {root} : heap[a].nk >= MIN_DEGREE - 1
        /\ \A a \in DOMAIN heap : ~heap[a].is_leaf =>
              \A i \in 0 .. heap[a].nk - 1 :
                 LET keysOf(c) == UNION {Range(keys_from(heap[b], 0, heap[b].nk - 1)) :
                                           b \in Range(leaves(c))}
                 IN /\ \A x \in keysOf(heap[a].children[i]) : x < heap[a].key[i]
                    /\ \A x \in keysOf(heap[a].children[i + 1]) : x >= heap[a].key[i]

\* The next and previous pointers string the leaves together in tree order,
\* both ways: a scan that leaves its subtree sees no leaf twice and skips none.
LeafChain ==
    root # NULL =>
        LET s == leaves(root)
        IN \A i \in 1 .. Len(s) :
              /\ heap[s[i]].next = IF i = Len(s) THEN NULL ELSE s[i + 1]
              /\ heap[s[i]].previous = IF i = 1 THEN NULL ELSE s[i - 1]

\* Every node malloc returned hangs in the tree exactly once, so the
\* destructor frees each of them, once, and nothing is left behind.
NoLeak ==
    /\ root # NULL => IsInjective(below(root)) /\ Range(below(root)) = DOMAIN heap
    /\ status = "gone" => heap = <<>>

\* Whatever the unwritten slots contain, aggregate_time folds in a run of the
\* loaded keys that starts at the first one not below key.  The run is not the
\* range: the loop tests a key after it has folded its value in, so that one of
\* the keys may be past the end, and tests the slot behind the last entry of a
\* leaf, so that what was never written there may end the run early.
AggregateRun ==
    root # NULL =>
        \A k \in Keys, len \in 0 .. Cardinality(Keys) : \A w \in aggregate_time(k, len) :
            /\ LowestOf(w, LoadedFrom(k))
            /\ Len(SelectSeq(w, LAMBDA x : x > k + len)) <= 1

=============================================================================
