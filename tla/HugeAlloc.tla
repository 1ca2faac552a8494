----------------------------- MODULE HugeAlloc -----------------------------
(***************************************************************************)
(* The hugepage allocator (util/huge_alloc.h, huge_alloc.cc) and the       *)
(* message buffers that Rpc makes from its Buffers (rpc.h, msg_buffer.h).  *)
(*                                                                         *)
(* Addresses are byte offsets: every SHM region is given the addresses     *)
(* after the regions before it.  Calls are atomic: Rpc holds               *)
(* huge_alloc_lock_ around each of them.                                   *)
(***************************************************************************)
EXTENDS Integers, Sequences, FiniteSets, SequencesExt, FiniteSetsExt

CONSTANTS MinClassSize,    \* k_min_class_size
          NumClasses,      \* k_num_classes
          PageSize,        \* kHugepageSize
          InitialSize,     \* kInitialHugeAllocSize
          Hdr,             \* sizeof(pkthdr_t)
          Align,           \* sizeof(size_t)
          MaxDataPerPkt,   \* TTr::kMaxDataPerPkt
          BsrOfZero,       \* values bsrl may leave in its destination when its source is 0
          Sizes,           \* the data sizes users ask for
          MaxRegions,      \* bound on SHM regions
          MaxLive          \* bound on message buffers the user holds

Class == 0..NumClasses - 1

AllocAssumption ==
  /\ {MinClassSize, NumClasses, PageSize, Hdr, Align, MaxDataPerPkt} \subseteq Nat \ {0}
  /\ Hdr % Align = 0 /\ MinClassSize % Align = 0
  /\ MinClassSize * 2^(NumClasses - 1) % PageSize = 0
  /\ BsrOfZero # {} /\ BsrOfZero \subseteq Class
  /\ Sizes \subseteq Nat \ {0}

VARIABLES
  bsr_zero,   \* what this build's calls of msb_index(0) return
  freelist,   \* freelist[c]: the free Buffers of class c
  shm_list,   \* the SHM regions in the order of their creation
  prev,       \* prev_allocation_size_
  tot,        \* stats_.user_alloc_tot_
  live        \* message buffers the user holds

vars == <<bsr_zero, freelist, shm_list, prev, tot, live>>

class_max_size(c) == MinClassSize * 2^c

MaxClassSize == class_max_size(NumClasses - 1)

round_up(x, n) == ((x + n - 1) \div n) * n

Buffer(addr, class_size) == [addr |-> addr, class_size |-> class_size]

Init ==
  /\ bsr_zero \in BsrOfZero
  /\ freelist = [c \in Class |-> <<>>]
  /\ shm_list = <<>>
  /\ prev = IF InitialSize < MaxClassSize THEN MaxClassSize ELSE InitialSize
  /\ tot = 0
  /\ live = {}

\* One more than the place of the highest bit.  For 0 bsrl leaves its destination register
\* as it is: 0 if the compiler gives it the register of the operand, anything otherwise.
\* Assumed: all calls in a build agree on it.
msb_index(x) == IF x = 0 THEN bsr_zero ELSE CHOOSE i \in 1..x : 2^(i - 1) <= x /\ x < 2^i

get_class(size) == msb_index((size - 1) \div MinClassSize)

get_class_slow(size) == CHOOSE c \in Class : /\ size <= class_max_size(c)
                                             /\ \A d \in Class : d < c => class_max_size(d) < size

Top == FoldLeft(LAMBDA n, r : n + r.size, 0, shm_list)

-----------------------------------------------------------------------------
(* Freelists.                                                              *)

split(free, c) ==
  LET b    == Last(free[c])
      half == b.class_size \div 2
  IN  [free EXCEPT ![c] = Front(@),
                   ![c - 1] = @ \o <<Buffer(b.addr, half), Buffer(b.addr + half, half)>>]

\* Splits Buffers from class next down to class c.
SplitDown(free, next, c) ==
  FoldLeft(split, free, [i \in 1..(next - c) |-> next - i + 1])

\* The smallest class from c on that has free Buffers, if there is one.
FirstFree(free, c) == {d \in Class : /\ d >= c /\ free[d] # <<>>
                                     /\ \A e \in c..d - 1 : free[e] = <<>>}

\* A new region, for the freelists or for a caller of alloc_raw.
alloc_raw(size, pooled) ==
  /\ Len(shm_list) < MaxRegions
  /\ shm_list' = Append(shm_list, [base |-> Top, size |-> round_up(size, PageSize), pooled |-> pooled])

\* The Buffers of the largest class that a new region is cut into.
reserve_hugepages(size) ==
  [freelist EXCEPT ![NumClasses - 1] =
     @ \o [i \in 1..(size \div MaxClassSize) |->
              Buffer(Top + (i - 1) * MaxClassSize, MaxClassSize)]]

-----------------------------------------------------------------------------
(* Message buffers.                                                        *)

data_size_to_num_pkts(d) ==
  IF d <= MaxDataPerPkt THEN 1 ELSE (d + MaxDataPerPkt - 1) \div MaxDataPerPkt

MsgSize(d) == d + data_size_to_num_pkts(d) * Hdr

DataSizes == {d \in Sizes : MsgSize(d) <= MaxClassSize}

MsgBuffer(b, d) ==
  [addr |-> b.addr, class_size |-> b.class_size, max |-> d, data |-> d,
   pkts |-> data_size_to_num_pkts(d)]

\* The first byte of the n-th packet header.
get_pkthdr_n(msg, n) ==
  IF n = 0 THEN msg.addr ELSE msg.addr + Hdr + round_up(msg.max, Align) + (n - 1) * Hdr

Give(free, c, d) ==
  /\ freelist' = [free EXCEPT ![c] = Front(@)]
  /\ live' = live \cup {MsgBuffer(Last(free[c]), d)}
  /\ tot' = tot + Last(free[c]).class_size

\* alloc_msg_buffer, when the class or a larger one has free Buffers.
alloc_msg_buffer(d, c) ==
  /\ Cardinality(live) < MaxLive
  /\ \E next \in FirstFree(freelist, c) : Give(SplitDown(freelist, next, c), c, d)
  /\ UNCHANGED <<bsr_zero, shm_list, prev>>

\* alloc_msg_buffer, when more hugepages are reserved first.
alloc_msg_buffer_reserve(d, c) ==
  /\ Cardinality(live) < MaxLive
  /\ FirstFree(freelist, c) = {}
  /\ alloc_raw(2 * prev, TRUE)
  /\ prev' = 2 * prev
  /\ Give(SplitDown(reserve_hugepages(2 * prev), NumClasses - 1, c), c, d)
  /\ UNCHANGED bsr_zero

\* alloc_msg_buffer, when there are no hugepages left: an invalid message buffer.
alloc_msg_buffer_fail(c) ==
  /\ FirstFree(freelist, c) = {}
  /\ UNCHANGED vars

resize_msg_buffer(msg, d) ==
  /\ d <= msg.max
  /\ live' = (live \ {msg}) \cup {[msg EXCEPT !.data = d, !.pkts = data_size_to_num_pkts(d)]}
  /\ UNCHANGED <<bsr_zero, freelist, shm_list, prev, tot>>

free_msg_buffer(msg, c) ==
  /\ freelist' = [freelist EXCEPT ![c] = Append(@, Buffer(msg.addr, msg.class_size))]
  /\ live' = live \ {msg}
  /\ tot' = tot - msg.class_size
  /\ UNCHANGED <<bsr_zero, shm_list, prev>>

\* The timing wheel, pools and transports take a region of their own.
take_region(size) ==
  /\ alloc_raw(size, FALSE)
  /\ UNCHANGED <<bsr_zero, freelist, prev, tot, live>>

Next ==
  \/ \E d \in DataSizes : alloc_msg_buffer(d, get_class(MsgSize(d)))
  \/ \E d \in DataSizes : alloc_msg_buffer_reserve(d, get_class(MsgSize(d)))
  \/ \E c \in Class : alloc_msg_buffer_fail(c)
  \/ \E msg \in live : \E d \in DataSizes : resize_msg_buffer(msg, d)
  \/ \E msg \in live : free_msg_buffer(msg, get_class(msg.class_size))
  \/ take_region(PageSize)

Spec == Init /\ [][Next]_vars

-----------------------------------------------------------------------------
(* Properties.                                                             *)

Buffers ==
  {Buffer(m.addr, m.class_size) : m \in live} \cup UNION {Range(freelist[c]) : c \in Class}

Bytes(b) == b.addr..(b.addr + b.class_size - 1)

\* Buffers, free or in use, never overlap, and lie in the regions that were
\* registered for them, however Buffers are split, freed and used again.
BuffersDisjoint ==
  /\ \A a, b \in Buffers : a # b => Bytes(a) \cap Bytes(b) = {}
  /\ \A b \in Buffers : \E r \in Range(shm_list) :
       r.pooled /\ Bytes(b) \subseteq r.base..(r.base + r.size - 1)

\* No memory is lost: the free Buffers and those in use make up the regions, each
\* Buffer is on one freelist at most, and the statistics count what is in use.
MemoryConserved ==
  /\ FoldFunction(LAMBDA l, n : n + Len(l), 0, freelist) + Cardinality(live)
       = Cardinality(Buffers)
  /\ MapThenSumSet(LAMBDA b : b.class_size, Buffers)
       = FoldLeft(LAMBDA n, r : IF r.pooled THEN n + (r.size \div MaxClassSize) * MaxClassSize
                                             ELSE n, 0, shm_list)
  /\ tot = MapThenSumSet(LAMBDA m : m.class_size, live)

\* The data and all packet headers of a message buffer lie in its Buffer and do
\* not overlap, for every size it may be resized to.
MessageInBuffer ==
  \A m \in live :
    /\ m.pkts <= data_size_to_num_pkts(m.max)
    /\ m.addr + Hdr + m.data <= m.addr + m.class_size
    /\ \A n \in 1..m.pkts - 1 :
         /\ m.addr + Hdr + m.data <= get_pkthdr_n(m, n)
         /\ get_pkthdr_n(m, n) + Hdr <= m.addr + m.class_size

\* The next reservation doubles the last one, also after reservations that failed.
DoublesLast ==
  LET pooled == SelectSeq(shm_list, LAMBDA r : r.pooled)
  IN  pooled # <<>> => round_up(prev, PageSize) = Last(pooled).size

\* get_class agrees with its reference get_class_slow where msb_index(0) is 0, as its
\* comment (math_utils.h:34) says; in other builds small messages get larger Buffers.
ClassIsRight ==
  bsr_zero = 0 => \A m \in live : m.class_size = class_max_size(get_class_slow(MsgSize(m.max)))

=============================================================================
