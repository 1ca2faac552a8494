----------------------------- MODULE HashTable ------------------------------
(***************************************************************************)
(* The hash table of libpc (hashtable.h) that the hashtable server loads.  *)
(* Each bucket is kept twice: as a list of node pointers, which find and   *)
(* the iterators use, and as a HashTableList that threads the nodes        *)
(* through their own next pointers, which the layout files are written     *)
(* from.  insert rehashes when the load factor is exceeded and never looks *)
(* for an equal key.  The bucket lists are sequences here; LinkedList      *)
(* models their pointers.                                                  *)
(***************************************************************************)
EXTENDS Integers, SequencesExt

CONSTANTS Keys, Values, MaxNodes,
          InitialCapacity, RehashMultiple, MaxLoadFactor

HashTableAssumption ==
    /\ Keys \subseteq Nat
    /\ {InitialCapacity, MaxLoadFactor} \subseteq Nat \ {0}
    /\ RehashMultiple \in Nat \ {0, 1}

NULL == 0

VARIABLES
    size, capacity,
    lists,        \* bucket -> the nodes of its List
    real_lists,   \* bucket -> [start, cur] of its HashTableList
    node          \* the nodes, by the order they were made in

vars == <<size, capacity, lists, real_lists, node>>

Buckets(c) == 0 .. c - 1

hash(key, c) == key % c

----------------------------------------------------------------------------
(* find and the iterators *)

\* The first node of the bucket's list with the key, or NULL for end()
find(key) ==
    LET hits == SelectSeq(lists[hash(key, capacity)], LAMBDA n : node[n].key = key)
    IN IF hits = <<>> THEN NULL ELSE Head(hits)

\* The bucket that the do loop of ++ stops at: the next one that is not empty
next_bucket(b) ==
    Min({c \in b + 1 .. capacity : c = capacity \/ lists[c] # <<>>})

\* An iterator is <<bucket, place in its list>>; end() is <<capacity, 0>>
end == <<capacity, 0>>

begin ==
    IF size = 0 \/ next_bucket(-1) = capacity THEN end ELSE <<next_bucket(-1), 1>>

increment(it) ==
    IF it[2] < Len(lists[it[1]]) THEN <<it[1], it[2] + 1>>
    ELSE IF next_bucket(it[1]) = capacity THEN end ELSE <<next_bucket(it[1]), 1>>

RECURSIVE visited_from(_)
visited_from(it) ==
    IF it = end THEN <<>>
    ELSE <<lists[it[1]][it[2]]>> \o visited_from(increment(it))

----------------------------------------------------------------------------
(* insert *)

\* HashTableList::push_back on the lists r, the nodes being f
push_real(t, b, n) ==
    IF t.real[b].start = NULL
    THEN [t EXCEPT !.real[b] = [start |-> n, cur |-> n]]
    ELSE [t EXCEPT !.real[b].cur = n, !.node[t.real[b].cur].next = n]

\* Both lists of the bucket of node n get the node
push(t, n) ==
    LET b == hash(t.node[n].key, t.capacity)
    IN push_real([t EXCEPT !.lists[b] = Append(@, n)], b, n)

\* Every node, in the order of the old lists, goes to lists of the new
\* capacity; its next pointer keeps what the old HashTableList made of it
rehash(t) ==
    LET c == t.capacity * RehashMultiple
        fresh == [capacity |-> c, lists |-> [b \in Buckets(c) |-> <<>>],
                  real |-> [b \in Buckets(c) |-> [start |-> NULL, cur |-> NULL]],
                  node |-> t.node]
        order == FlattenSeq([i \in 1 .. t.capacity |-> t.lists[i - 1]])
    IN FoldLeft(push, fresh, order)

Init ==
    /\ size = 0
    /\ capacity = InitialCapacity
    /\ lists = [b \in Buckets(InitialCapacity) |-> <<>>]
    /\ real_lists = [b \in Buckets(InitialCapacity) |-> [start |-> NULL, cur |-> NULL]]
    /\ node = <<>>

insert(key, value) ==
    LET t == [capacity |-> capacity, lists |-> lists, real |-> real_lists, node |-> node]
        t1 == IF capacity * MaxLoadFactor < size THEN rehash(t) ELSE t
        new == [key |-> key, value |-> value, next |-> NULL]
        t2 == push([t1 EXCEPT !.node = Append(@, new)], size + 1)
    IN /\ size < MaxNodes
       /\ size' = size + 1
       /\ capacity' = t2.capacity
       /\ lists' = t2.lists
       /\ real_lists' = t2.real
       /\ node' = t2.node

Next == \E k \in Keys, v \in Values : insert(k, v)

Spec == Init /\ [][Next]_vars

----------------------------------------------------------------------------
(* Properties *)

\* find returns the value of the oldest insert of a key, through any number of
\* rehashes: a later insert of the key hides behind it.
FindsOldest ==
    \A k \in Keys :
        LET S == {n \in 1 .. size : node[n].key = k}
        IN find(k) = IF S = {} THEN NULL ELSE Min(S)

\* An iteration from begin() to end() visits every node exactly once.
IteratesAll ==
    LET s == visited_from(begin)
    IN IsInjective(s) /\ Range(s) = 1 .. size

\* The first n nodes along the next pointers from a
RECURSIVE chain(_, _)
chain(a, n) == IF n = 0 \/ a = NULL THEN <<>> ELSE <<a>> \o chain(node[a].next, n - 1)

\* Along its next pointers a HashTableList starts with the nodes of the
\* bucket's list, in their order, and cur is the last of these.  After a rehash
\* the chain need not end there, since rehash leaves cur's next pointer as it
\* was: it may run on, but only through nodes of other buckets, so that whoever
\* walks it for a key still meets the key's own nodes, each once and in order.
ChainsStartWithBucket ==
    \A b \in Buckets(capacity) :
        /\ chain(real_lists[b].start, Len(lists[b])) = lists[b]
        /\ lists[b] # <<>> => real_lists[b].cur = Last(lists[b])
        /\ SelectSeq(chain(real_lists[b].start, size),
                     LAMBDA n : hash(node[n].key, capacity) = b) = lists[b]

\* The next pointers lead to newer nodes, so that every chain ends.
NextIsNewer == \A n \in 1 .. size : node[n].next # NULL => node[n].next > n

\* Until the first rehash the chain of a bucket ends with the bucket.
ChainsEndBeforeRehash ==
    capacity = InitialCapacity =>
        \A b \in Buckets(capacity) : chain(real_lists[b].start, size) = lists[b]
=============================================================================
