----------------------------- MODULE MindStore ------------------------------
(***************************************************************************)
(* The benchmark store on mapped memory regions (benchmark/src): the       *)
(* allocator mind_malloc.cpp, which never frees, the hash table of         *)
(* hashtable_mind.h whose bucket array and nodes it hands out, and the     *)
(* benchmark program, built once to fill the table and dump the regions    *)
(* to a file and once more (LOAD_FROM_FILE) to query the loaded regions.   *)
(* An address is a number of cells; a node is one cell and the bucket      *)
(* array Capacity cells.                                                   *)
(***************************************************************************)
EXTENDS Integers, SequencesExt, FiniteSetsExt, TLC

CONSTANTS Keys, Values,
          Capacity,       \* buckets
          RegionSize,     \* TEST_MACRO_ALLOC_SIZE
          NumRegions,     \* num_memory_regions
          Bases,          \* addresses that mmap may return
          RoundRobin      \* MIND_MMAP_RR

MindStoreAssumption ==
    /\ Keys \subseteq Nat
    /\ {Capacity, RegionSize, NumRegions} \subseteq Nat \ {0}
    /\ Bases \subseteq Nat \ {0}
    /\ \A a, b \in Bases : a < b => a + RegionSize <= b
    /\ RoundRobin \in BOOLEAN

NULL == 0

VARIABLES
    phase,              \* where main() is
    mind_address,       \* the regions' addresses, in the order they were added
    mind_address_next,  \* the first address of each region not handed out
    next_idx,           \* mind_alloc_next_idx + 1
    mem,                \* address -> a bucket pointer or a node
    bucket_ptr_list,    \* the table's bucket array
    file,               \* what dump_mem_layout wrote
    kv,                 \* history: key -> the value of its last insert, or NULL
    blocks              \* history: <<address, size>> of what mind_malloc returned

vars == <<phase, mind_address, mind_address_next, next_idx, mem, bucket_ptr_list,
          file, kv, blocks>>

alloc == <<mind_address, mind_address_next, next_idx>>

Cells(base) == base .. base + RegionSize - 1
Node(k, v, n) == [key |-> k, value |-> v, next |-> n]

----------------------------------------------------------------------------
(* The allocator *)

fits(i, size) == mind_address_next[i] + size - mind_address[i] < RegionSize

\* The region a request comes from, and past the last one when none has room;
\* a region that is left is not returned to
sequential(size) == IF fits(next_idx, size) THEN next_idx ELSE next_idx + 1

\* The first region after the current one, in a circle, that has room
round_robin(size) ==
    LET n == Len(mind_address)
        turn(d) == ((next_idx - 1 + d) % n) + 1
        ok == {d \in 1 .. n : fits(turn(d), size)}
    IN IF ok = {} THEN n + 1 ELSE turn(Min(ok))

region_for(size) == IF RoundRobin THEN round_robin(size) ELSE sequential(size)

\* mind_malloc(size), which has room in region i
mind_malloc(i, size) ==
    /\ next_idx' = i
    /\ mind_address_next' = [mind_address_next EXCEPT ![i] = @ + size]
    /\ blocks' = blocks \cup {<<mind_address_next[i], size>>}
    /\ UNCHANGED mind_address

\* mind_malloc returns NULL, which its callers write through
exhausted ==
    /\ phase' = "crashed"
    /\ UNCHANGED <<alloc, mem, bucket_ptr_list, file, kv, blocks>>

mind_malloc_add_mem ==
    /\ phase = "setup"
    /\ Len(mind_address) < NumRegions
    /\ \E b \in Bases \ Range(mind_address) :
          /\ mind_address' = Append(mind_address, b)
          /\ mind_address_next' = Append(mind_address_next, b)
          /\ mem' = [a \in Cells(b) |-> NULL] @@ mem
    /\ UNCHANGED <<phase, next_idx, bucket_ptr_list, file, kv, blocks>>

----------------------------------------------------------------------------
(* The table *)

hash(key) == key % Capacity
bucket(key) == bucket_ptr_list + hash(key)

RECURSIVE chase(_, _)
chase(a, key) == IF a = NULL \/ mem[a].key = key THEN a ELSE chase(mem[a].next, key)

find(key) == chase(mem[bucket(key)], key)

\* The constructor takes a bucket array and clears it
HashTable ==
    /\ \/ phase = "setup" /\ Len(mind_address) = NumRegions
       \/ phase = "loaded"
    /\ LET i == region_for(Capacity)
           a == mind_address_next[i]
       IN IF i > Len(mind_address) THEN exhausted
          ELSE /\ mind_malloc(i, Capacity)
               /\ bucket_ptr_list' = a
               /\ mem' = [c \in a .. a + Capacity - 1 |-> NULL] @@ mem
               /\ phase' = IF phase = "setup" THEN "filling" ELSE "constructed"
               /\ UNCHANGED <<file, kv>>

set_root ==
    /\ phase = "constructed"
    /\ bucket_ptr_list' = file.root
    /\ phase' = "querying"
    /\ UNCHANGED <<alloc, mem, file, kv, blocks>>

\* Without allow_duplicated a node of the key is overwritten
update(key, value) ==
    /\ phase = "filling"
    /\ find(key) # NULL
    /\ mem' = [mem EXCEPT ![find(key)].value = value]
    /\ kv' = [kv EXCEPT ![key] = value]
    /\ UNCHANGED <<phase, alloc, bucket_ptr_list, file, blocks>>

\* A new node goes in front of its bucket's chain
insert_in_bucket(a, key, value) ==
    mem' = [mem EXCEPT ![a] = Node(key, value, mem[bucket(key)]), ![bucket(key)] = a]

insert(key, value, allow_duplicated) ==
    /\ phase = "filling"
    /\ allow_duplicated \/ find(key) = NULL
    /\ LET i == region_for(1)
       IN IF i > Len(mind_address) THEN exhausted
          ELSE /\ mind_malloc(i, 1)
               /\ insert_in_bucket(mind_address_next[i], key, value)
               /\ kv' = [kv EXCEPT ![key] = value]
               /\ UNCHANGED <<phase, bucket_ptr_list, file>>

----------------------------------------------------------------------------
(* The file, and the two runs of the program *)

\* The number of regions, the root pointer and the regions' bytes; "from" is
\* history, the addresses of the regions
dump_mem_layout ==
    /\ phase = "filling"
    /\ file' = [root |-> bucket_ptr_list, from |-> mind_address,
                regions |-> [i \in 1 .. Len(mind_address) |->
                               [c \in 0 .. RegionSize - 1 |-> mem[mind_address[i] + c]]]]
    /\ phase' = "dumped"
    /\ UNCHANGED <<alloc, mem, bucket_ptr_list, kv, blocks>>

\* mind_free_all; the second process starts with nothing but the file
mind_free_all ==
    /\ phase = "dumped"
    /\ phase' = "started"
    /\ mind_address' = <<>> /\ mind_address_next' = <<>> /\ next_idx' = 1
    /\ mem' = <<>> /\ bucket_ptr_list' = NULL /\ blocks' = {}
    /\ UNCHANGED <<file, kv>>

\* As many regions as were dumped, wherever mmap puts them, get the bytes; the
\* new regions count as empty
load_mem_layout ==
    /\ phase = "started"
    /\ \E bs \in {s \in [1 .. Len(file.regions) -> Bases] : IsInjective(s)} :
          /\ mind_address' = bs
          /\ mind_address_next' = bs
          /\ mem' = [a \in UNION {Cells(bs[i]) : i \in DOMAIN bs} |->
                       LET i == CHOOSE j \in DOMAIN bs : a \in Cells(bs[j])
                       IN file.regions[i][a - bs[i]]]
    /\ phase' = "loaded"
    /\ UNCHANGED <<next_idx, bucket_ptr_list, file, kv, blocks>>

Init ==
    /\ phase = "setup"
    /\ mind_address = <<>> /\ mind_address_next = <<>> /\ next_idx = 1
    /\ mem = <<>>
    /\ bucket_ptr_list = NULL
    /\ file = <<>>
    /\ kv = [k \in Keys |-> NULL]
    /\ blocks = {}

Next ==
    \/ mind_malloc_add_mem
    \/ HashTable
    \/ set_root
    \/ \E k \in Keys, v \in Values : update(k, v)
    \/ \E k \in Keys, v \in Values, d \in BOOLEAN : insert(k, v, d)
    \/ dump_mem_layout
    \/ mind_free_all
    \/ load_mem_layout

Spec == Init /\ [][Next]_vars

----------------------------------------------------------------------------
(* Properties *)

value_of(key) == IF find(key) = NULL THEN NULL ELSE mem[find(key)].value

\* Everything mind_malloc returned lies inside one region and no two blocks
\* overlap, whatever the sizes and however full the regions are.
BlocksDisjoint ==
    /\ \A b \in blocks : \E i \in DOMAIN mind_address :
          b[1] .. b[1] + b[2] - 1 \subseteq Cells(mind_address[i])
    /\ \A b, c \in blocks :
          b # c => (b[1] .. b[1] + b[2] - 1) \cap (c[1] .. c[1] + c[2] - 1) = {}

\* The process that fills the table finds the value last inserted for a key,
\* whether a node was overwritten or a newer one put in front of it.
FindsNewest == phase = "filling" => \A k \in Keys : value_of(k) = kv[k]

\* The process that queries it finds nothing, even with the dumped regions back at
\* their addresses: its constructor is given the memory the dumped bucket array is
\* in, as load_mem_layout leaves the regions empty, and clears it before set_root
\* turns to it (HashTable, under the comment that this could be a bug).
NothingLoaded ==
    phase = "querying" /\ mind_address = file.from => \A k \in Keys : value_of(k) = NULL

\* mind_malloc gives up only when no region has room for a node.
CrashOnlyWhenFull ==
    phase = "crashed" => \A i \in DOMAIN mind_address : ~fits(i, 1)

=============================================================================
