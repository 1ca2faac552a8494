----------------------------- MODULE MicaConfig -----------------------------
(***************************************************************************)
(* The configuration tree MICA's tables are built from: Config, a handle   *)
(* on a value of a rapidjson document.  A handle shares the ownership of   *)
(* its document (root_) and points straight into the document's memory     *)
(* (current_).  Arrays and dictionaries are blocks of slots in the pool of *)
(* a document; adding to a full one reallocates the block; adding a        *)
(* container to another one moves the value (RawAssign) and leaves null    *)
(* behind; the pool is released with the last handle of its document.      *)
(*                                                                         *)
(* Scalars are their type.  A container has an identity, a ghost that      *)
(* travels with its value, and `content' records what was ever added to    *)
(* it, so that the properties can compare the memory with what the caller  *)
(* did.                                                                    *)
(*                                                                         *)
(* Nothing in Config stops three uses that its memory does not bear, and   *)
(* each is a step here: adding through a handle whose slot is no longer in *)
(* a tree (its container was reallocated or moved away: "stale"), adding a *)
(* container of the same document, whose slot the reallocation may leave   *)
(* behind ("own"), and dropping the last handle of a document whose pool   *)
(* holds a container that was moved to another one ("source").  `misuse'   *)
(* records them, and what happens afterwards is not followed.              *)
(***************************************************************************)
EXTENDS Integers, Sequences, FiniteSets, TLC

CONSTANTS
    Roots,        \* documents
    Handles,      \* Config objects
    Keys,         \* keys of dictionaries
    Scalars,      \* the scalar types in use, of the four the class has
    Cap0,         \* kDefaultArrayCapacity, kDefaultObjectCapacity
    MaxBlocks,    \* bound on the blocks allocated
    MaxContent    \* bound on the entries added to one container

ConstantsOK ==
    /\ Scalars \subseteq {"Bool", "Int64", "Uint64", "Double"}
    /\ {Cap0, MaxBlocks, MaxContent} \subseteq Nat \ {0}

VARIABLES
    live,     \* the documents that exist
    handle,   \* the Config objects: root_ and current_, or unused
    mem,      \* the blocks: the pool they are from, and their slots
    last,     \* the block at the end of a pool's head chunk, 0 = none
    content,  \* ghost: what was added to each container, in order
    misuse    \* ghost: the uses of Config that its code does not support

vars == <<live, handle, mem, last, content, misuse>>

NoKey  == "-"
Null   == [t |-> "Null", blk |-> 0, size |-> 0, cap |-> 0, id |-> 0]
Scalar(k) == [Null EXCEPT !.t = k]
Empty(kind, id) == [Null EXCEPT !.t = kind, !.id = id]
Slot(k, v) == [key |-> k, val |-> v]

NoPtr  == <<0, 0>>
Unused == [root |-> "none", ptr |-> NoPtr]

\* the value a pointer refers to
Deref(ptr) == mem[ptr[1]].slots[ptr[2]].val
Assign(m, ptr, v) == [m EXCEPT ![ptr[1]].slots[ptr[2]].val = v]

IsContainer(v) == v.t \in {"Array", "Dict"}
SlotsOf(v) == {<<v.blk, j>> : j \in 1 .. v.size}

\* the slots of the tree under a slot, itself included
RECURSIVE Tree(_)
Tree(ptr) == {ptr} \cup (IF IsContainer(Deref(ptr))
                         THEN UNION {Tree(q) : q \in SlotsOf(Deref(ptr))} ELSE {})

\* The block of the root value is the document object itself
RootPtr(r) == CHOOSE q \in (DOMAIN mem) \X {1} : mem[q[1]].doc /\ mem[q[1]].owner = r
Reachable == UNION {Tree(RootPtr(r)) : r \in live}
-----------------------------------------------------------------------------
(* Queries *)

exists(ptr) == ptr # NoPtr
is_type(ptr, t) == exists(ptr) /\ Deref(ptr).t = t
is_array(h) == is_type(handle[h].ptr, "Array")
is_dict(h)  == is_type(handle[h].ptr, "Dict")

\* get_bool(), get_int64(), get_uint64(), get_double(): the value, or the
\* zero the function returns when it reports the error
get_scalar(ptr, t) == IF is_type(ptr, t) THEN "value" ELSE "zero"
\* The variants with a default: it stands for a missing value, not for one
\* of another type
get_scalar_or(ptr, t) == IF exists(ptr) THEN get_scalar(ptr, t) ELSE "default"
\* FindMember: the first member with the key
FindMember(v, k) ==
    LET js == {j \in 1 .. v.size : mem[v.blk].slots[j].key = k}
    IN  IF js = {} THEN NoPtr ELSE <<v.blk, CHOOSE j \in js : \A l \in js : j <= l>>

\* Config::get(key): current_ of the handle it returns
get_key(h, k) == FindMember(Deref(handle[h].ptr), k)
\* Config::get(index), zero-based
get_index(h, n) == LET v == Deref(handle[h].ptr)
                   IN  IF n >= v.size THEN NoPtr ELSE <<v.blk, n + 1>>
-----------------------------------------------------------------------------
(* Memory *)

NewBlock == Cardinality(DOMAIN mem) + 1
WithBlock(m, owner, doc, slots) ==
    [b \in DOMAIN m \cup {NewBlock} |->
        IF b = NewBlock THEN [owner |-> owner, doc |-> doc, slots |-> slots] ELSE m[b]]

\* the slots of a block after it was enlarged to cap: the old ones, copied
Grown(old, cap) == [j \in 1 .. cap |-> IF j <= Len(old) THEN old[j] ELSE Slot(NoKey, Null)]

GrownCapacity(cap) == IF cap = 0 THEN Cap0 ELSE cap + (cap + 1) \div 2

\* Malloc or Realloc of the slots of v from the pool of r.  The pool keeps
\* the old block; it is extended in place only if it is the last allocation
\* of the head chunk and the chunk has room.
Reallocated(v, r) ==
    LET cap == GrownCapacity(v.cap)
        old == IF v.blk = 0 THEN <<>> ELSE mem[v.blk].slots
        moved == [mem |-> WithBlock(mem, r, FALSE, Grown(old, cap)), blk |-> NewBlock]
        inPlace == [mem |-> [mem EXCEPT ![v.blk].slots = Grown(old, cap)], blk |-> v.blk]
    IN  {moved} \cup (IF v.blk # 0 /\ v.blk = last[r] THEN {inPlace} ELSE {})

\* The block in which v has room for one more slot
Reserved(v, r) == IF v.size >= v.cap THEN Reallocated(v, r)
                  ELSE {[mem |-> mem, blk |-> v.blk]}

\* RawAssign leaves null in the slot it moved from (NoPtr: a temporary)
RawAssign(m, src) == IF src = NoPtr THEN m ELSE Assign(m, src, Null)

\* Ghost: the container id has left the container it was in
Entry(k, t, id) == [key |-> k, t |-> t, id |-> id]
Left(id) == [c \in DOMAIN content |-> [j \in DOMAIN content[c] |->
                IF id # 0 /\ content[c][j].id = id
                THEN Entry(content[c][j].key, "Null", 0) ELSE content[c][j]]]

\* PushBack and AddMember: through the handle h, append a slot with key k
\* and the value at src, or the scalar v if src is no slot; same says that src
\* is in the document of h
Append_(h, k, src, v, same) ==
    LET ptr == handle[h].ptr
        r   == handle[h].root
        c   == Deref(ptr)
    IN  \E new \in Reserved(c, r) :
          /\ NewBlock <= MaxBlocks
          /\ LET cap  == IF c.size >= c.cap THEN GrownCapacity(c.cap) ELSE c.cap
                 grew == [c EXCEPT !.blk = new.blk, !.size = @ + 1, !.cap = cap]
                 m1   == Assign(new.mem, ptr, grew)
                 item == IF src = NoPtr THEN v ELSE m1[src[1]].slots[src[2]].val
                 m2   == [m1 EXCEPT ![new.blk].slots[grew.size] = Slot(k, item)]
             IN  /\ mem' = RawAssign(m2, src)
                 /\ content' = [Left(item.id) EXCEPT
                                   ![c.id] = Append(@, Entry(k, item.t, item.id))]
          /\ last' = IF new.blk # c.blk THEN [last EXCEPT ![r] = new.blk] ELSE last
          /\ Len(content[c.id]) < MaxContent
          /\ misuse' = misuse \cup (IF ptr \in Reachable /\ (src = NoPtr \/ src \in Reachable)
                                    THEN {} ELSE {"stale"})
                              \cup (IF src # NoPtr /\ same THEN {"own"} ELSE {})
          /\ UNCHANGED <<live, handle>>
-----------------------------------------------------------------------------
(* Operations *)

Init == /\ live = {} /\ handle = [h \in Handles |-> Unused]
        /\ mem = << >> /\ last = [r \in Roots |-> 0] /\ content = << >> /\ misuse = {}

Usable(h) == exists(handle[h].ptr) /\ handle[h].root \in live

\* empty_array, empty_dict: a new document; load makes one whose root holds
\* what the text says
NewDocument(h, r, kind) ==
    /\ handle[h] = Unused /\ r \notin live
    /\ ~(\E b \in DOMAIN mem : mem[b].owner = r)
    /\ NewBlock <= MaxBlocks
    /\ live' = live \cup {r}
    /\ mem' = WithBlock(mem, r, TRUE, <<Slot(NoKey, Empty(kind, Len(content) + 1))>>)
    /\ handle' = [handle EXCEPT ![h] = [root |-> r, ptr |-> <<NewBlock, 1>>]]
    /\ content' = Append(content, <<>>)
    /\ UNCHANGED <<last, misuse>>

\* load of a text that is an array of one scalar: SetArrayRaw allocates
\* exactly what the parser counted
Load(h, r, k) ==
    /\ handle[h] = Unused /\ r \notin live
    /\ ~(\E b \in DOMAIN mem : mem[b].owner = r)
    /\ NewBlock + 1 <= MaxBlocks
    /\ live' = live \cup {r}
    /\ LET arr == [Empty("Array", Len(content) + 1) EXCEPT !.blk = NewBlock + 1,
                                                           !.size = 1, !.cap = 1]
       IN  mem' = mem @@ (NewBlock :> [owner |-> r, doc |-> TRUE,
                                       slots |-> <<Slot(NoKey, arr)>>])
                      @@ (NewBlock + 1 :> [owner |-> r, doc |-> FALSE,
                                           slots |-> <<Slot(NoKey, Scalar(k))>>])
    /\ last' = [last EXCEPT ![r] = NewBlock + 1]
    /\ handle' = [handle EXCEPT ![h] = [root |-> r, ptr |-> <<NewBlock, 1>>]]
    /\ content' = Append(content, <<Entry(NoKey, k, 0)>>)
    /\ UNCHANGED misuse

\* load of a text the parser rejects: neither a document nor a value
LoadError(h) ==
    /\ handle[h] = Unused
    /\ handle' = [handle EXCEPT ![h] = [root |-> "null", ptr |-> NoPtr]]
    /\ UNCHANGED <<live, mem, last, content, misuse>>

\* get: a handle g on a value inside the one h refers to
Get(h, g, ptr) ==
    /\ handle[g] = Unused
    /\ handle' = [handle EXCEPT ![g] = [root |-> handle[h].root, ptr |-> ptr]]
    /\ UNCHANGED <<live, mem, last, content, misuse>>
GetKey(h, g, k) == Usable(h) /\ is_dict(h) /\ Get(h, g, get_key(h, k))
GetIndex(h, g, n) == Usable(h) /\ is_array(h) /\ Get(h, g, get_index(h, n))

PushBackScalar(h, k) == Usable(h) /\ is_array(h) /\ Append_(h, NoKey, NoPtr, Scalar(k), FALSE)
InsertScalar(h, key, k) == Usable(h) /\ is_dict(h) /\ Append_(h, key, NoPtr, Scalar(k), FALSE)

\* push_back_array, push_back_dict, insert_array, insert_dict: the assertion
\* on v is the guard
PushBackContainer(h, v) ==
    /\ Usable(h) /\ is_array(h) /\ Usable(v) /\ IsContainer(Deref(handle[v].ptr))
    /\ Append_(h, NoKey, handle[v].ptr, Null, handle[v].root = handle[h].root)
InsertContainer(h, key, v) ==
    /\ Usable(h) /\ is_dict(h) /\ Usable(v) /\ IsContainer(Deref(handle[v].ptr))
    /\ Append_(h, key, handle[v].ptr, Null, handle[v].root = handle[h].root)

\* the blocks the tree of another document uses
Borrowed(r) == \E q \in UNION {Tree(RootPtr(s)) : s \in live \ {r}} : mem[q[1]].owner = r

\* ~Config: the document goes with its last handle, and its pool with it
Drop(h) ==
    /\ handle[h] # Unused
    /\ handle' = [handle EXCEPT ![h] = Unused]
    /\ LET r == handle[h].root
           lastOne == \A g \in Handles \ {h} : handle[g].root # r
       IN  /\ misuse' = IF lastOne /\ r \in live /\ Borrowed(r) THEN misuse \cup {"source"} ELSE misuse
           /\ live' = IF lastOne THEN live \ {r} ELSE live
    /\ UNCHANGED <<mem, last, content>>

Next == misuse = {} /\ \E h \in Handles :
          \/ Drop(h) \/ LoadError(h)
          \/ \E r \in Roots : \/ \E kind \in {"Array", "Dict"} : NewDocument(h, r, kind)
                              \/ \E k \in Scalars : Load(h, r, k)
          \/ \E g \in Handles : \/ \E k \in Keys : \/ GetKey(h, g, k)
                                                   \/ InsertContainer(h, k, g)
                                \/ \E n \in 0 .. MaxContent : GetIndex(h, g, n)
                                \/ PushBackContainer(h, g)
          \/ \E k \in Scalars : \/ PushBackScalar(h, k)
                                \/ \E key \in Keys : InsertScalar(h, key, k)

Spec == Init /\ [][Next]_vars
-----------------------------------------------------------------------------
(* Properties *)

TypeOK ==
    /\ live \subseteq Roots
    /\ \A b \in DOMAIN mem : mem[b].owner \in Roots /\ mem[b].doc \in BOOLEAN
    /\ \A b \in DOMAIN mem : \A j \in DOMAIN mem[b].slots :
          LET v == mem[b].slots[j].val
          IN  v.size <= v.cap /\ (v.blk # 0 => v.cap <= Len(mem[v.blk].slots))
    /\ \A h \in Handles : handle[h].ptr # NoPtr => handle[h].root \in live

\* A container in a document's tree holds exactly what was added to it, in
\* that order, under those keys, whatever was reallocated, moved into
\* another document or reached through which handle, up to the first misuse:
\* an addition through a stale handle, or of a container of the same document,
\* can lose an entry at once.
ContentsKept ==
    misuse = {} => \A q \in Reachable :
        LET v == Deref(q)
        IN  IsContainer(v) =>
              /\ v.size = Len(content[v.id])
              /\ \A j \in 1 .. v.size :
                    LET s == mem[v.blk].slots[j]
                        e == content[v.id][j]
                    IN  Entry(s.key, s.val.t, s.val.id) = e

\* A value has one owner: no two slots of the trees share a block of slots.
\* ("The ownership of value will be transferred to this array on
\* success", PushBack.)  Two owners would show each other's additions, or
\* not, depending on which one is reallocated first.  Up to the first misuse.
OneOwner ==
    misuse = {} => \A p, q \in Reachable :
        p # q /\ IsContainer(Deref(p)) /\ Deref(p).blk # 0 => Deref(p).blk # Deref(q).blk

\* No tree reaches into the pool of a document that is gone, until the document
\* whose pool holds a container moved to another one goes with its last handle:
\* PushBack moves the value and not its memory.
PoolsLive ==
    misuse = {} => \A q \in Reachable : mem[q[1]].owner \in live

\* get finds the first value added under a key, for as long as the
\* dictionary exists, however often the key is added again: the typed
\* getter answers it if it has that type, zero if it has another type, and
\* the caller's default only if the key was never added.
FirstInsertWins ==
    misuse = {} => \A h \in Handles : handle[h].ptr \in Reachable /\ is_dict(h) =>
        LET c == content[Deref(handle[h].ptr).id]
        IN  \A k \in Keys :
              LET js == {j \in DOMAIN c : c[j].key = k}
                  e  == c[CHOOSE j \in js : \A l \in js : j <= l]
              IN  \A t \in Scalars :
                    get_scalar_or(get_key(h, k), t) =
                        CASE js = {}  -> "default"
                          [] js # {} /\ e.t = t -> "value"
                          [] OTHER -> "zero"

=============================================================================
