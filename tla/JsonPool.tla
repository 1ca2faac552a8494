----------------------------- MODULE JsonPool -----------------------------
(***************************************************************************)
(* MemoryPoolAllocator, the allocator of rapidjson's documents: memory is  *)
(* cut from the head of a list of chunks and given back only all at once.  *)
(* The caller fills what it gets; every byte is the name of the block that *)
(* wrote it last.                                                          *)
(***************************************************************************)
EXTENDS Integers, Sequences, Functions, FiniteSetsExt

CONSTANTS
    Blocks,          \* the blocks a caller may hold
    Sizes,           \* the sizes it asks for
    ChunkCapacity,   \* chunk_capacity_
    UserCapacity,    \* capacity of the user's buffer, 0 = none
    Alignment,       \* of RAPIDJSON_ALIGN
    MaxChunks        \* bound on the chunks

ConstantsOK ==
    /\ Sizes \subseteq Nat /\ UserCapacity \in Nat
    /\ {ChunkCapacity, Alignment, MaxChunks} \subseteq Nat \ {0}

VARIABLES
    chunks,   \* the list, its head last: capacity, size and bytes of each
    user,     \* the first chunk is the user's buffer
    held      \* ghost: chunk, offset and size of each block the caller holds
vars == <<chunks, user, held>>

NoBlock == [chunk |-> 0, off |-> 0, size |-> 0]
Free == "free"
Chunk(capacity) == [capacity |-> capacity, size |-> 0,
                    bytes |-> [n \in 0 .. capacity - 1 |-> Free]]

RAPIDJSON_ALIGN(n) == ((n + Alignment - 1) \div Alignment) * Alignment

chunkHead_(cs) == cs[Len(cs)]
NoRoom(cs, size) == cs = <<>> \/ chunkHead_(cs).size + size > chunkHead_(cs).capacity
AddChunk(cs, capacity) == Append(cs, Chunk(capacity))

\* Malloc: the list with the size taken, and the block
Malloc(cs, asked) ==
    LET size == RAPIDJSON_ALIGN(asked)
        with == IF NoRoom(cs, size) THEN AddChunk(cs, Max({ChunkCapacity, size})) ELSE cs
        n    == Len(with)
    IN  [chunks |-> [with EXCEPT ![n].size = @ + size],
         blk |-> [chunk |-> n, off |-> with[n].size, size |-> asked]]

LastAllocation(b) == b.chunk = Len(chunks) /\ b.off = chunkHead_(chunks).size - b.size
Increment(b, newSize) == RAPIDJSON_ALIGN(newSize - b.size)
InPlace(b, newSize) ==
    /\ LastAllocation(b)
    /\ chunkHead_(chunks).size + Increment(b, newSize) <= chunkHead_(chunks).capacity

\* memcpy of the old block
Copied(cs, from, to) ==
    [cs EXCEPT ![to.chunk].bytes =
        [n \in DOMAIN @ |-> IF n \in to.off .. to.off + from.size - 1
                            THEN cs[from.chunk].bytes[from.off + n - to.off] ELSE @[n]]]

\* Realloc of a block to a size that is not zero
Realloc(b, newSize) ==
    CASE b.size >= newSize -> [chunks |-> chunks, blk |-> [b EXCEPT !.size = newSize]]
      [] b.size < newSize /\ InPlace(b, newSize) ->
            [chunks |-> [chunks EXCEPT ![Len(chunks)].size = @ + Increment(b, newSize)],
             blk |-> [b EXCEPT !.size = newSize]]
      [] OTHER -> LET new == Malloc(chunks, newSize)
                  IN  [new EXCEPT !.chunks = Copied(@, b, new.blk)]

\* Ghost: the bytes with a name outside the block b become nobody's
Scrubbed(cs, name, b) ==
    [n \in DOMAIN cs |-> [cs[n] EXCEPT !.bytes = [k \in DOMAIN @ |->
        IF @[k] = name /\ ~(n = b.chunk /\ k \in b.off .. b.off + b.size - 1)
        THEN Free ELSE @[k]]]]

\* The caller writes its name to the bytes of a block from the n-th on;
\* a byte beyond the chunk is not there to write
Written(cs, name, b, n) ==
    [cs EXCEPT ![b.chunk].bytes =
        [k \in DOMAIN @ |-> IF k \in b.off + n .. b.off + b.size - 1 THEN name ELSE @[k]]]
-----------------------------------------------------------------------------
Init == /\ user = (UserCapacity > 0)
        /\ chunks = IF UserCapacity > 0 THEN <<Chunk(UserCapacity)>> ELSE <<>>
        /\ held = [x \in Blocks |-> NoBlock]

malloc(x, size) ==
    /\ held[x] = NoBlock /\ size > 0
    /\ LET r == Malloc(chunks, size)
       IN  /\ Len(r.chunks) <= MaxChunks
           /\ chunks' = Written(r.chunks, x, r.blk, 0)
           /\ held' = [held EXCEPT ![x] = r.blk]
    /\ UNCHANGED user

realloc(x, size) ==
    /\ held[x] # NoBlock /\ size > 0
    /\ LET r == Realloc(held[x], size)
       IN  /\ Len(r.chunks) <= MaxChunks
           /\ chunks' = Scrubbed(Written(r.chunks, x, r.blk, held[x].size), x, r.blk)
           /\ held' = [held EXCEPT ![x] = r.blk]
    /\ UNCHANGED user

\* Realloc to nothing, or Free: the memory stays taken
forget(x) ==
    /\ held[x] # NoBlock
    /\ held' = [held EXCEPT ![x] = NoBlock]
    /\ chunks' = Scrubbed(chunks, x, NoBlock)
    /\ UNCHANGED user

\* The chunks that remain: the user's buffer, with nothing taken
Cleared == IF user THEN <<[chunks[1] EXCEPT !.size = 0]>> ELSE <<>>
Clear ==
    /\ chunks' = Cleared
    /\ held' = [x \in Blocks |-> NoBlock]
    /\ UNCHANGED user

Next == \/ \E x \in Blocks : \/ forget(x)
                             \/ \E size \in Sizes : malloc(x, size) \/ realloc(x, size)
        \/ Clear

Spec == Init /\ [][Next]_vars
-----------------------------------------------------------------------------
Capacity == SumFunction([n \in DOMAIN chunks |-> chunks[n].capacity])
Size == SumFunction([n \in DOMAIN chunks |-> chunks[n].size])

\* Every block a caller holds lies inside its chunk and has the bytes the
\* caller wrote, whatever other callers got, gave up or enlarged since, and
\* wherever it was moved to (Malloc, Realloc).
BlocksIntact ==
    \A x \in Blocks : held[x] # NoBlock =>
        LET b == held[x]
        IN  /\ b.off + b.size <= chunks[b.chunk].size
            /\ \A n \in b.off .. b.off + b.size - 1 : chunks[b.chunk].bytes[n] = x

\* Offsets keep the alignment, so that the values placed in the blocks do,
\* and the two totals bound what callers hold: Size counts every byte in
\* use, and never more than there is (Size, Capacity).
TotalsRight ==
    /\ \A x \in Blocks : held[x].off % Alignment = 0
    /\ SumFunction([x \in Blocks |-> held[x].size]) <= Size
    /\ Size <= Capacity
=============================================================================
