---------------------------- MODULE StoreProofs ----------------------------
(***************************************************************************)
(* Proofs about what persistent memory keeps through power failures, for   *)
(* every value of the constants: the log and vote of Raft's server, the    *)
(* count and the entries of the logging application, and the entries of    *)
(* pmica's redo log.                                                       *)
(***************************************************************************)
EXTENDS MCLibrary, Sequences, FiniteSets, WellFoundedInduction, TLAPS

CONSTANTS
  Keys, Values, kSlotsPerBucket, kNumRedoLogEntries, kMaxBatchSize, NumRegular, NumExtra,
  MaxSeq                                                           \* pmica

VARIABLES
  opts, pm_pc, ops, pm_i, cur_seq, free_list, next_extra, slot, slotV, log, logV,
  committed, committedV, kv, durable, failedLogged

Pm == INSTANCE Pmica WITH pc <- pm_pc, i <- pm_i

-----------------------------------------------------------------------------
(* The Raft log in persistent memory *)

LEMMA PmemInit == ASSUME Pl!PmemLogAssumption PROVE Pl!Init => Pl!PmemInv
<1> SUFFICES ASSUME Pl!Init PROVE Pl!PmemInv
  OBVIOUS
<1>1. votes = <<<<0, 0>>>> /\ votes \in Seq(Nat \X Nat) /\ Len(votes) = 1
  BY DEF Pl!Init
<1> QED
  BY <1>1 DEF Pl!Init, Pl!PmemInv, Pl!PmemTypes, Pl!PmemLogAssumption

\* A truncation drops the tail of the log that was asked for, and of the one stored.
LEMMA TruncateKeeps ==
  ASSUME Pl!PmemLogAssumption, Pl!PmemInv, plog_pc = "ready", NEW n \in 1 .. v_num, Pl!truncate(n)
  PROVE  Pl!PmemInv'
<1> DEFINE S == LogEntries \union {Pl!Torn, Pl!Garbage}
<1>1. raft \in Seq(S) /\ Len(raft) = v_num - 1 /\ v_num \in 1 .. MaxEntries + 1 /\ MaxEntries \in Nat
  BY DEF Pl!PmemInv, Pl!PmemTypes, Pl!PmemLogAssumption
<1> HIDE DEF S
<1>2. /\ SubSeq(raft, 1, n - 1) \in Seq(S)
      /\ Len(SubSeq(raft, 1, n - 1)) = n - 1
      /\ \A x \in 1 .. n - 1 : SubSeq(raft, 1, n - 1)[x] = raft[x]
  BY <1>1
<1>3. raft' \in Seq(S) /\ Len(raft') = n - 1 /\ \A x \in 1 .. n - 1 : raft'[x] = raft[x]
  BY <1>2 DEF Pl!truncate
<1>4. /\ v_num' = n /\ p_num' = n
      /\ UNCHANGED <<plog_pc, p_term, p_voted, base, arg, votes>>
  BY DEF Pl!truncate
<1>5. Pl!PmemTypes'
  BY <1>1, <1>3, <1>4 DEF Pl!PmemInv, Pl!PmemTypes, S
<1> QED
  BY <1>1, <1>3, <1>4, <1>5 DEF Pl!PmemInv

LEMMA AppendDataKeeps ==
  ASSUME Pl!PmemLogAssumption, Pl!PmemInv,
         (\E e \in LogEntries : Pl!append_data(e)) \/ Pl!append_data_ends
  PROVE  Pl!PmemInv'
<1>1. /\ v_num \in 1 .. MaxEntries /\ MaxEntries \in Nat
      /\ \E t \in LogEntries \union {Pl!Torn, Pl!Garbage} : base' = [base EXCEPT ![v_num] = t]
      /\ plog_pc' \in {"data", "tail"} /\ arg' \in LogEntries \union {Pl!Garbage}
      /\ UNCHANGED <<v_num, p_num, p_term, p_voted, raft, votes>>
  <2>1. /\ v_num \in 1 .. MaxEntries + 1 /\ MaxEntries \in Nat
        /\ arg \in LogEntries \union {Pl!Garbage}
        /\ plog_pc = "data" => v_num <= MaxEntries
    BY DEF Pl!PmemInv, Pl!PmemTypes, Pl!PmemLogAssumption
  <2>2. CASE \E e \in LogEntries : Pl!append_data(e)
    <3>1. PICK e \in LogEntries : Pl!append_data(e)
      BY <2>2
    <3>2. \E t \in LogEntries \union {Pl!Torn, Pl!Garbage} : base' = [base EXCEPT ![v_num] = t]
      <4>1. base' = [base EXCEPT ![v_num] = Pl!Torn]
        BY <3>1 DEF Pl!append_data
      <4>2. Pl!Torn \in LogEntries \union {Pl!Torn, Pl!Garbage}
        BY <2>1
      <4> QED
        BY <4>1, <4>2, Zenon
    <3>3. /\ v_num \in 1 .. MaxEntries /\ MaxEntries \in Nat
          /\ plog_pc' \in {"data", "tail"} /\ arg' \in LogEntries \union {Pl!Garbage}
          /\ UNCHANGED <<v_num, p_num, p_term, p_voted, raft, votes>>
      BY <2>1, <3>1 DEF Pl!append_data
    <3> QED
      BY <3>2, <3>3
  <2>3. CASE Pl!append_data_ends
    <3>1. \E t \in LogEntries \union {Pl!Torn, Pl!Garbage} : base' = [base EXCEPT ![v_num] = t]
      <4>1. base' = [base EXCEPT ![v_num] = arg]
        BY <2>3 DEF Pl!append_data_ends
      <4>2. arg \in LogEntries \union {Pl!Torn, Pl!Garbage}
        BY <2>1
      <4> QED
        BY <4>1, <4>2, Zenon
    <3>2. /\ v_num \in 1 .. MaxEntries /\ MaxEntries \in Nat
          /\ plog_pc' \in {"data", "tail"} /\ arg' \in LogEntries \union {Pl!Garbage}
          /\ UNCHANGED <<v_num, p_num, p_term, p_voted, raft, votes>>
      BY <2>1, <2>3 DEF Pl!append_data_ends
    <3> QED
      BY <3>1, <3>2
  <2> QED
    BY <2>2, <2>3
<1>2. plog_pc' = "tail" => base'[v_num] = arg'
  BY <1>1 DEF Pl!append_data, Pl!append_data_ends, Pl!PmemInv, Pl!PmemTypes
<1>3. Pl!PmemTypes'
  BY <1>1 DEF Pl!PmemInv, Pl!PmemTypes
<1> QED
  BY <1>1, <1>2, <1>3 DEF Pl!PmemInv, Pl!PmemTypes

LEMMA AppendTailKeeps ==
  ASSUME Pl!PmemLogAssumption, Pl!PmemInv, Pl!append_tail
  PROVE  Pl!PmemInv'
<1> DEFINE S == LogEntries \union {Pl!Torn, Pl!Garbage}
<1>1. /\ raft \in Seq(S) /\ Len(raft) = v_num - 1 /\ v_num \in 1 .. MaxEntries
      /\ MaxEntries \in Nat /\ arg \in S /\ base[v_num] = arg
  BY DEF Pl!PmemInv, Pl!PmemTypes, Pl!PmemLogAssumption, Pl!append_tail
<1> HIDE DEF S
<1>2. /\ Append(raft, arg) \in Seq(S)
      /\ Len(Append(raft, arg)) = v_num
      /\ \A x \in 1 .. v_num - 1 : Append(raft, arg)[x] = raft[x]
      /\ Append(raft, arg)[v_num] = arg
  BY <1>1
<1>3. raft' = Append(raft, arg) /\ v_num' = v_num + 1 /\ p_num' = v_num + 1 /\ plog_pc' = "ready"
      /\ UNCHANGED <<p_term, p_voted, base, arg, votes>>
  BY DEF Pl!append_tail
<1>4. Pl!PmemTypes'
  BY <1>1, <1>2, <1>3 DEF Pl!PmemInv, Pl!PmemTypes, S
<1>5. \A x \in 1 .. v_num' - 1 : raft'[x] = base'[x]
  BY <1>1, <1>2, <1>3 DEF Pl!PmemInv
<1> QED
  BY <1>1, <1>2, <1>3, <1>4, <1>5 DEF Pl!PmemInv

LEMMA VoteKeeps ==
  ASSUME Pl!PmemLogAssumption, Pl!PmemInv, NEW t \in Nat, NEW n \in Nat,
         p_term' = t, p_voted' = n, votes' = Append(votes, <<t, n>>),
         UNCHANGED <<plog_pc, v_num, p_num, base, arg, raft>>
  PROVE  Pl!PmemInv'
<1>1. votes \in Seq(Nat \X Nat) /\ <<t, n>> \in Nat \X Nat
  BY DEF Pl!PmemInv, Pl!PmemTypes
<1>2. /\ votes' \in Seq(Nat \X Nat) /\ Len(votes') = Len(votes) + 1
      /\ votes'[Len(votes')] = <<t, n>> /\ Len(votes) \in Nat
  BY <1>1
<1>3. Pl!PmemTypes'
  BY <1>2 DEF Pl!PmemInv, Pl!PmemTypes
<1> QED
  BY <1>2, <1>3 DEF Pl!PmemInv

LEMMA PmemInvariant == Pl!PmemLogAssumption => (Pl!Spec => []Pl!PmemInv)
<1> SUFFICES ASSUME Pl!PmemLogAssumption
             PROVE  Pl!Spec => []Pl!PmemInv
  OBVIOUS
<1>1. Pl!PmemInv /\ [Pl!Next]_(Pl!vars) => Pl!PmemInv'
  <2> SUFFICES ASSUME Pl!PmemInv, [Pl!Next]_(Pl!vars)
               PROVE  Pl!PmemInv'
    OBVIOUS
  <2>1. CASE Pl!Truncate \/ Pl!pop
    <3>1. v_num \in 1 .. MaxEntries + 1 /\ MaxEntries \in Nat
      BY DEF Pl!PmemInv, Pl!PmemTypes, Pl!PmemLogAssumption
    <3>2. plog_pc = "ready" /\ \E n \in 1 .. v_num : Pl!truncate(n)
      BY <2>1, <3>1 DEF Pl!Truncate, Pl!pop
    <3> QED
      BY <3>2, TruncateKeeps
  <2>2. CASE (\E e \in LogEntries : Pl!append_data(e)) \/ Pl!append_data_ends
    BY <2>2, AppendDataKeeps
  <2>3. CASE Pl!append_tail
    BY <2>3, AppendTailKeeps
  <2>4. ASSUME NEW n \in Nodes, Pl!persist_vote(n) PROVE Pl!PmemInv'
    <3>1. n \in Nat /\ p_term \in Nat
      BY DEF Pl!PmemInv, Pl!PmemTypes, Pl!PmemLogAssumption
    <3> QED
      BY <2>4, <3>1, VoteKeeps DEF Pl!persist_vote
  <2>5. ASSUME NEW t \in 1 .. MaxTerm, NEW n \in Nodes \union {0}, Pl!persist_term(t, n)
        PROVE  Pl!PmemInv'
    <3>1. n \in Nat /\ t \in Nat
      BY DEF Pl!PmemLogAssumption
    <3> QED
      BY <2>5, <3>1, VoteKeeps DEF Pl!persist_term
  <2>6. CASE Pl!Crash \/ UNCHANGED Pl!vars
    BY <2>6 DEF Pl!Crash, Pl!vars, Pl!mem, Pl!PmemInv, Pl!PmemTypes
  <2> QED
    BY <2>1, <2>2, <2>3, <2>4, <2>5, <2>6 DEF Pl!Next
<1> QED
  BY <1>1, PmemInit, PTL DEF Pl!Spec

\* After a power failure at any moment, inside an append too, the entries below the
\* persistent tail are the log that the Raft library had asked for, and term and vote
\* are the last pair it asked for, for any log length, terms and entries.
THEOREM RaftLogSurvives ==
  Pl!PmemLogAssumption => (Pl!Spec => [](Pl!LogSurvives /\ Pl!VoteSurvives))
<1> SUFFICES ASSUME Pl!PmemLogAssumption
             PROVE  Pl!Spec => [](Pl!LogSurvives /\ Pl!VoteSurvives)
  OBVIOUS
<1>1. Pl!PmemInv => Pl!LogSurvives /\ Pl!VoteSurvives
  <2> SUFFICES ASSUME Pl!PmemInv PROVE Pl!LogSurvives /\ Pl!VoteSurvives
    OBVIOUS
  <2> DEFINE S == LogEntries \union {Pl!Torn, Pl!Garbage}
             file == [x \in 1 .. MaxEntries |-> base[x]]
  <2>1. /\ raft \in Seq(S) /\ Len(raft) = v_num - 1 /\ v_num \in 1 .. MaxEntries + 1
        /\ MaxEntries \in Nat /\ p_num = v_num
        /\ base \in [0 .. MaxEntries -> S]
        /\ \A x \in 1 .. v_num - 1 : raft[x] = base[x]
    BY DEF Pl!PmemInv, Pl!PmemTypes, Pl!PmemLogAssumption
  <2> HIDE DEF S
  <2>2. file \in Seq(S) /\ Len(file) = MaxEntries /\ \A x \in 1 .. MaxEntries : file[x] = base[x]
    BY <2>1
  <2> HIDE DEF file
  <2>3. /\ SubSeq(file, 1, p_num - 1) \in Seq(S)
        /\ Len(SubSeq(file, 1, p_num - 1)) = p_num - 1
        /\ \A x \in 1 .. p_num - 1 : SubSeq(file, 1, p_num - 1)[x] = file[x]
    BY <2>1, <2>2
  <2>4. SubSeq(file, 1, p_num - 1) = raft
    <3> DEFINE q == SubSeq(file, 1, p_num - 1)
    <3>1. q \in Seq(S) /\ Len(q) = Len(raft) /\ \A x \in 1 .. Len(raft) : q[x] = raft[x]
      BY <2>1, <2>2, <2>3
    <3> HIDE DEF q
    <3>2. q = raft
      BY <3>1, <2>1
    <3> QED
      BY <3>2 DEF q
  <2>5. Pl!LogSurvives
    BY <2>4 DEF Pl!LogSurvives, file
  <2> QED
    BY <2>5 DEF Pl!VoteSurvives, Pl!PmemInv
<1> QED
  BY <1>1, PmemInvariant, PTL

-----------------------------------------------------------------------------
(* The append log *)

LEMMA AppendConstants ==
  ASSUME Al!AppendLogAssumption
  PROVE  /\ MinSize \in Nat \ {0} /\ MaxSize \in Nat \ {0} /\ FileSize \in Nat \ {0}
         /\ MinSize <= MaxSize /\ MaxSize <= FileSize
         /\ kNumBuffers \in Nat /\ kNumBuffers >= 2
         /\ Slots \subseteq Nat /\ Slots # {}
         /\ 0 \in Al!Buffers
<1>1. /\ MinSize \in Nat \ {0} /\ MaxSize \in Nat \ {0} /\ FileSize \in Nat \ {0}
      /\ MinSize <= MaxSize /\ MaxSize <= FileSize
      /\ kNumBuffers \in Nat /\ kNumBuffers >= 2
      /\ Slots \subseteq Nat /\ Slots # {}
  BY DEF Al!AppendLogAssumption
<1> QED
  BY <1>1 DEF Al!Buffers

\* The count a restart finds is the newest one.
LEMMA RecoveredIsNewest ==
  ASSUME NEW t \in Nat, buf \in [Al!Buffers -> Nat], Al!Newest(t)
  PROVE  Al!recovered = t
<1> DEFINE S == {buf[b] : b \in Al!Buffers}
<1>1. t \in S /\ \A y \in S : t >= y
  BY DEF Al!Newest
<1>2. S \subseteq Nat
  OBVIOUS
<1> HIDE DEF S
<1>3. \A x \in S : (\A y \in S : x >= y) => x = t
  BY <1>1, <1>2
<1>4. (CHOOSE x \in S : \A y \in S : x >= y) = t
  BY <1>1, <1>3
<1> QED
  BY <1>4 DEF Al!recovered, Al!Max, S

\* The buffer behind the newest count holds an older one.
LEMMA BehindIsOlder ==
  ASSUME Al!AppendLogAssumption, NEW t \in Nat \ {0}, buf \in [Al!Buffers -> Nat], Al!Newest(t)
  PROVE  Al!recovered_idx \in Al!Buffers /\ buf[Al!recovered_idx] < t
<1>1. PICK b \in Al!Buffers : buf[b] = t
  BY DEF Al!Newest
<1>2. {x \in Al!Buffers : buf[x] = t} = {b}
  BY <1>1 DEF Al!Newest
<1>3. b \in 0 .. kNumBuffers - 1 /\ kNumBuffers \in Nat /\ kNumBuffers >= 2
  BY AppendConstants DEF Al!Buffers
<1>4. (CHOOSE x \in {b} : \A y \in {b} : x =< y) = b
  BY <1>3
<1>5. Al!recovered_idx = (b + 1) % kNumBuffers
  <2>1. Al!recovered = t
    BY RecoveredIsNewest
  <2>2. {x \in Al!Buffers : buf[x] = Al!recovered} = {b}
    BY <1>2, <2>1
  <2> QED
    BY <1>4, <2>2 DEF Al!recovered_idx, Al!Min
<1>6. (b + 1) % kNumBuffers \in 0 .. kNumBuffers - 1 /\ (b + 1) % kNumBuffers # b
  <2>1. CASE b + 1 < kNumBuffers
    BY <1>3, <2>1
  <2>2. CASE b + 1 = kNumBuffers
    BY <1>3, <2>2
  <2> QED
    BY <1>3, <2>1, <2>2
<1>7. Al!recovered_idx \in Al!Buffers /\ Al!recovered_idx # b
  BY <1>5, <1>6 DEF Al!Buffers
<1>8. buf[Al!recovered_idx] <= t /\ buf[Al!recovered_idx] # t /\ buf[Al!recovered_idx] \in Nat
  BY <1>1, <1>7 DEF Al!Newest
<1> QED
  BY <1>7, <1>8

LEMMA AppendInit == ASSUME Al!AppendLogAssumption PROVE Al!Init => Al!AppendInv
<1> SUFFICES ASSUME Al!Init PROVE Al!AppendInv
  OBVIOUS
<1> USE AppendConstants
<1>1. Al!Min(Slots) \in Slots
  <2>1. \E s \in Slots : \A y \in Slots : ~(<<y, s>> \in OpToRel(<, Nat))
    BY NatLessThanWellFounded, WFMin, Zenon
  <2>2. \A s, y \in Slots : ~(<<y, s>> \in OpToRel(<, Nat)) => s =< y
    BY DEF OpToRel
  <2>3. \E s \in Slots : \A y \in Slots : s =< y
    BY <2>1, <2>2
  <2> QED
    BY <2>3 DEF Al!Min
<1>2. Al!AppendTypes
  BY <1>1 DEF Al!Init, Al!AppendTypes, Al!Sizes, Al!NoReq, Al!File
<1>3. Al!CountInv
  BY DEF Al!Init, Al!CountInv, Al!Newest
<1>4. Al!DataInv
  BY DEF Al!Init, Al!DataInv, Al!CountedIsWritten, Al!Extent
<1> QED
  BY <1>2, <1>3, <1>4 DEF Al!AppendInv

\* What CountInv says depends only on these.
LEMMA CountKept ==
  ASSUME Al!AppendLogAssumption, Al!CountInv, Al!AppendTypes, v_value' = v_value, buffer_idx' = buffer_idx, buf' = buf,
         acked' = acked, alog_pc' = alog_pc, alog_cur' = alog_cur,
         alog_size'[alog_cur] = alog_size[alog_cur] \/ (alog_size[alog_cur] = 0 /\ alog_size'[alog_cur] \in Nat)
  PROVE  Al!CountInv'
<1>1. \A t : Al!Newest(t)' <=> Al!Newest(t)
  BY DEF Al!Newest
<1>2. Al!recovered' = Al!recovered
  BY DEF Al!recovered
<1>3. alog_size[alog_cur] \in Nat /\ acked \in Nat
  BY AppendConstants DEF Al!AppendTypes, Al!NoReq, Al!Sizes
<1>4. alog_pc = "count" => alog_size'[alog_cur] = alog_size[alog_cur]
  BY DEF Al!AppendTypes, Al!NoReq
<1>5. alog_pc = "crashed" => Al!CountSurvives'
  <2> SUFFICES ASSUME alog_pc = "crashed" PROVE Al!CountSurvives'
    OBVIOUS
  <2>1. acked <= Al!recovered /\ Al!recovered <= acked + alog_size[alog_cur] /\ Al!recovered \in Nat
    <3>1. Al!Newest(Al!recovered) /\ Al!CountSurvives
      BY DEF Al!CountInv
    <3>2. PICK b \in Al!Buffers : buf[b] = Al!recovered
      BY <3>1 DEF Al!Newest
    <3> QED
      BY <3>1, <3>2 DEF Al!CountSurvives, Al!AppendTypes
  <2>2. Al!recovered <= acked + alog_size'[alog_cur]
    BY <1>3, <2>1
  <2> QED
    BY <1>2, <2>1, <2>2 DEF Al!CountSurvives
<1> QED
  BY <1>1, <1>2, <1>4, <1>5 DEF Al!CountInv

LEMMA ReqKeeps ==
  ASSUME Al!AppendLogAssumption, Al!AppendInv, NEW s \in Slots, Al!req_handler(s)
  PROVE  Al!AppendInv'
<1> USE AppendConstants
<1>1. /\ alog_pc = "ready" /\ alog_pc' = "data" /\ alog_cur' = s /\ appends' = appends + 1
      /\ alog_size[s] # Al!NoReq
      /\ cell' = [x \in Al!File |-> IF x \in Al!Extent(offset, alog_size[s]) THEN appends + 1
                                     ELSE cell[x]]
      /\ UNCHANGED <<alog_size, entry_size, offset, v_value, buffer_idx, buf, alog_last, prev_size, acked>>
  BY DEF Al!req_handler, Al!append_data, Al!counter
<1>2. /\ alog_size[s] \in Nat /\ alog_size[s] <= MaxSize /\ offset \in Nat /\ offset <= FileSize
      /\ appends \in Nat /\ cell \in [Al!File -> Nat]
      /\ alog_last.n = appends
      /\ \A x \in Al!Extent(alog_last.at, alog_last.size) : cell[x] = appends
  BY <1>1, SMTT(40) DEF Al!AppendInv, Al!AppendTypes, Al!DataInv, Al!Sizes, Al!NoReq
<1>3. Al!AppendTypes'
  BY <1>1, <1>2 DEF Al!AppendInv, Al!AppendTypes
<1>4. Al!CountInv'
  BY <1>1 DEF Al!AppendInv, Al!CountInv, Al!Newest
<1>5. Al!DataInv'
  <2>0. \A x \in Al!File :
          cell'[x] = IF x \in Al!Extent(offset, alog_size[s]) THEN appends + 1 ELSE cell[x]
    BY <1>1, <1>2
  <2>1. \A x \in Al!Extent(offset, alog_size[s]) : cell'[x] = appends + 1
    BY <2>0 DEF Al!Extent
  <2>2. \A x \in Al!Extent(alog_last.at, alog_last.size) : cell'[x] = alog_last.n \/ cell'[x] = appends + 1
    BY <1>2, <2>0 DEF Al!Extent
  <2>3. /\ alog_last.size <= prev_size \/ alog_last.at = 0 => alog_last.at + alog_last.size <= FileSize
        /\ offset # 0 => offset + alog_last.size <= FileSize
    BY <1>1 DEF Al!AppendInv, Al!DataInv, Al!CountedIsWritten
  <2> QED
    BY <1>1, <1>2, <2>1, <2>2, <2>3 DEF Al!DataInv, Al!CountedIsWritten, Al!Extent
<1> QED
  BY <1>3, <1>4, <1>5 DEF Al!AppendInv

\* A new count is larger than all others.
LEMMA AppendCountKeeps ==
  ASSUME Al!AppendLogAssumption, Al!AppendInv, Al!append_count
  PROVE  Al!AppendInv'
<1> USE AppendConstants
<1> DEFINE n == alog_size[alog_cur]
<1>1. /\ n \in Nat \ {0} /\ n <= MaxSize /\ offset \in Nat /\ offset <= FileSize
      /\ v_value \in Nat /\ buf \in [Al!Buffers -> Nat] /\ acked = v_value
      /\ buffer_idx \in Al!Buffers /\ alog_pc = "data"
      /\ \A b \in Al!Buffers : buf[b] <= v_value
  BY SMTT(40) DEF Al!append_count, Al!AppendInv, Al!AppendTypes, Al!CountInv, Al!Newest, Al!Sizes, Al!NoReq
<1>2. /\ alog_pc' = "count" /\ v_value' = v_value + n
      /\ alog_last' = [n |-> appends, at |-> offset, size |-> n]
      /\ prev_size' = alog_last.size
      /\ offset' = Al!next_offset(n)
      /\ UNCHANGED <<alog_cur, alog_size, entry_size, cell, appends, acked>>
  BY DEF Al!append_count, Al!increment_rotate, Al!increment_naive
<1>3. /\ \E b \in Al!Buffers : buf' = [buf EXCEPT ![b] = v_value + n]
      /\ buffer_idx' \in Al!Buffers
  <2>1. (buffer_idx + 1) % kNumBuffers \in Al!Buffers
    BY <1>1 DEF Al!Buffers
  <2>2. CASE use_rotating
    BY <1>1, <2>1, <2>2 DEF Al!append_count, Al!increment_rotate
  <2>3. CASE ~use_rotating
    BY <1>1, <2>3 DEF Al!append_count, Al!increment_naive
  <2> QED
    BY <2>2, <2>3
<1> HIDE DEF n
<1>4. PICK b \in Al!Buffers : buf' = [buf EXCEPT ![b] = v_value + n]
  BY <1>3
<1>5. /\ buf' \in [Al!Buffers -> Nat] /\ buf'[b] = v_value + n
      /\ \A c \in Al!Buffers : c # b => buf'[c] < v_value + n
  BY <1>1, <1>4
<1>6. offset' \in 0 .. FileSize
  BY <1>1, <1>2 DEF Al!next_offset
<1>7. Al!AppendTypes'
  BY <1>1, <1>2, <1>3, <1>5, <1>6, SMTT(40) DEF Al!AppendInv, Al!AppendTypes, n
<1>8. Al!CountInv'
  <2>1. Al!Newest(v_value)'
    BY <1>1, <1>2, <1>5 DEF Al!Newest
  <2> QED
    BY <1>1, <1>2, <2>1 DEF Al!CountInv, n
<1>9. Al!DataInv'
  <2>1. \A x \in Al!Extent(offset, n) : cell[x] = appends
    BY <1>1 DEF Al!AppendInv, Al!DataInv, n
  <2>2. alog_last'.at = offset /\ alog_last'.size = n /\ alog_last'.n = appends
    BY <1>2
  <2>3. /\ offset # 0 => offset + alog_last.size <= FileSize
        /\ alog_last.size \in Nat
    BY <1>1 DEF Al!AppendInv, Al!DataInv, Al!AppendTypes
  <2>4. n <= prev_size' \/ offset = 0 => offset + n <= FileSize
    BY <1>1, <1>2, <2>3
  <2>5. offset' # 0 => offset' + n <= FileSize
    BY <1>1, <1>2 DEF Al!next_offset
  <2>6. \A x \in Al!Extent(alog_last.at, alog_last.size)' : cell'[x] = appends
    BY <1>2, <2>1, <2>2 DEF Al!Extent
  <2> QED
    BY <1>2, <2>2, <2>4, <2>5, <2>6 DEF Al!DataInv, Al!CountedIsWritten
<1> QED
  BY <1>7, <1>8, <1>9 DEF Al!AppendInv

LEMMA RespondKeeps ==
  ASSUME Al!AppendLogAssumption, Al!AppendInv, Al!enqueue_response
  PROVE  Al!AppendInv'
<1> USE AppendConstants
<1>1. /\ alog_pc = "count" /\ alog_pc' = "ready" /\ acked' = acked + alog_size[alog_cur]
      /\ alog_size' = [alog_size EXCEPT ![alog_cur] = Al!NoReq]
      /\ UNCHANGED <<alog_cur, entry_size, cell, offset, v_value, buffer_idx, buf, appends, alog_last, prev_size>>
  BY DEF Al!enqueue_response, Al!counter
<1>2. Al!AppendTypes'
  BY <1>1, SMTT(40) DEF Al!AppendInv, Al!AppendTypes, Al!NoReq, Al!Sizes
<1>3. Al!CountInv'
  BY <1>1 DEF Al!AppendInv, Al!CountInv, Al!Newest
<1>4. Al!DataInv'
  BY <1>1, SMTT(40) DEF Al!AppendInv, Al!DataInv, Al!CountedIsWritten, Al!Extent
<1> QED
  BY <1>2, <1>3, <1>4 DEF Al!AppendInv

LEMMA ClientKeeps ==
  ASSUME Al!AppendLogAssumption, Al!AppendInv,
         (\E s \in Slots : Al!app_cont_func(s)) \/ Al!switch_size
  PROVE  Al!AppendInv'
<1> USE AppendConstants
<1>1. UNCHANGED <<alog_pc, alog_cur, cell, offset, v_value, buffer_idx, buf, appends, alog_last, prev_size, acked>>
  BY DEF Al!app_cont_func, Al!switch_size, Al!counter
<1>2. /\ alog_size' = alog_size \/ \E s \in Slots : alog_size[s] = 0 /\ alog_size' = [alog_size EXCEPT ![s] = entry_size]
      /\ entry_size' \in Al!Sizes
  BY SMTT(40) DEF Al!app_cont_func, Al!switch_size, Al!AppendInv, Al!AppendTypes, Al!Sizes, Al!NoReq
<1>3. Al!AppendTypes'
  BY <1>1, <1>2 DEF Al!AppendInv, Al!AppendTypes, Al!NoReq, Al!Sizes
<1>4. alog_size'[alog_cur] = alog_size[alog_cur] \/ (alog_size[alog_cur] = 0 /\ alog_size'[alog_cur] \in Nat)
  BY <1>2 DEF Al!AppendInv, Al!AppendTypes, Al!Sizes
<1>5. Al!CountInv'
  BY <1>1, <1>4, CountKept DEF Al!AppendInv
<1>6. alog_pc = "data" => alog_size'[alog_cur] = alog_size[alog_cur]
  BY <1>4 DEF Al!AppendInv, Al!AppendTypes, Al!NoReq
<1>7. Al!DataInv'
  BY <1>1, <1>6, SMTT(40) DEF Al!AppendInv, Al!DataInv, Al!CountedIsWritten, Al!Extent
<1> QED
  BY <1>3, <1>5, <1>7 DEF Al!AppendInv

\* A power failure forgets the volatile count, and a restart reads the ring.
LEMMA RestartKeeps ==
  ASSUME Al!AppendLogAssumption, Al!AppendInv, Al!Crash \/ Al!reopen
  PROVE  Al!AppendInv'
<1> USE AppendConstants
<1>1. /\ alog_pc' = "crashed"
      /\ UNCHANGED <<alog_cur, alog_size, entry_size, cell, offset, buf, appends, alog_last, prev_size, acked>>
  BY DEF Al!Crash, Al!reopen
<1>2. \A t : Al!Newest(t)' <=> Al!Newest(t)
  BY <1>1 DEF Al!Newest
<1>3. Al!recovered' = Al!recovered
  BY <1>1 DEF Al!recovered
<1>t. /\ buf \in [Al!Buffers -> Nat] /\ v_value \in Nat /\ acked \in Nat
      /\ alog_size[alog_cur] \in Nat
  BY DEF Al!AppendInv, Al!AppendTypes, Al!Sizes, Al!NoReq
<1>4. /\ Al!Newest(Al!recovered) /\ Al!recovered \in Nat
      /\ acked <= Al!recovered /\ Al!recovered <= acked + alog_size[alog_cur]
  <2>1. CASE Al!Crash
    <3>1. Al!Newest(v_value) /\ acked <= v_value /\ v_value <= acked + alog_size[alog_cur]
      BY <2>1, <1>t, SMTT(40) DEF Al!Crash, Al!AppendInv, Al!CountInv, Al!AppendTypes
    <3>2. Al!recovered = v_value
      BY <3>1, <1>t, RecoveredIsNewest
    <3> QED
      BY <3>1, <3>2, <1>t
  <2>2. CASE Al!reopen
    <3>1. Al!Newest(Al!recovered) /\ Al!CountSurvives /\ alog_pc = "crashed"
      BY <2>2 DEF Al!reopen, Al!AppendInv, Al!CountInv
    <3>2. PICK b \in Al!Buffers : buf[b] = Al!recovered
      BY <3>1 DEF Al!Newest
    <3> QED
      BY <3>1, <3>2, <1>t DEF Al!CountSurvives
  <2> QED
    BY <2>1, <2>2
<1>5. v_value' # 0 => v_value' = Al!recovered /\ buf[buffer_idx'] < v_value'
  <2>1. CASE Al!Crash
    BY <2>1 DEF Al!Crash
  <2>2. CASE Al!reopen
    <3>1. v_value' = Al!recovered /\ buffer_idx' = Al!recovered_idx
      BY <2>2 DEF Al!reopen
    <3> QED
      BY <3>1, <1>4, <1>t, BehindIsOlder
  <2> QED
    BY <2>1, <2>2
<1>6. v_value' \in Nat
  BY <1>4 DEF Al!Crash, Al!reopen
<1>7. Al!AppendTypes'
  BY <1>1, <1>6 DEF Al!AppendInv, Al!AppendTypes
<1>8. Al!CountInv'
  BY <1>1, <1>2, <1>3, <1>4, <1>5 DEF Al!CountInv, Al!CountSurvives
<1>9. Al!DataInv'
  BY <1>1 DEF Al!AppendInv, Al!DataInv, Al!CountedIsWritten, Al!Extent
<1> QED
  BY <1>7, <1>8, <1>9 DEF Al!AppendInv

LEMMA AppendInvariant == Al!AppendLogAssumption => (Al!Spec => []Al!AppendInv)
<1> SUFFICES ASSUME Al!AppendLogAssumption
             PROVE  Al!Spec => []Al!AppendInv
  OBVIOUS
<1>1. Al!AppendInv /\ [Al!Next]_(Al!vars) => Al!AppendInv'
  <2> SUFFICES ASSUME Al!AppendInv, [Al!Next]_(Al!vars)
               PROVE  Al!AppendInv'
    OBVIOUS
  <2>1. ASSUME NEW s \in Slots, Al!req_handler(s) PROVE Al!AppendInv'
    BY <2>1, ReqKeeps
  <2>2. CASE (\E s \in Slots : Al!app_cont_func(s)) \/ Al!switch_size
    BY <2>2, ClientKeeps
  <2>3. CASE Al!append_count
    BY <2>3, AppendCountKeeps
  <2>4. CASE Al!enqueue_response
    BY <2>4, RespondKeeps
  <2>5. CASE Al!Crash \/ Al!reopen
    BY <2>5, RestartKeeps
  <2>6. CASE UNCHANGED Al!vars
    <3>1. /\ alog_pc' = alog_pc /\ alog_cur' = alog_cur /\ alog_size' = alog_size /\ entry_size' = entry_size
          /\ cell' = cell /\ offset' = offset /\ v_value' = v_value /\ buffer_idx' = buffer_idx
          /\ buf' = buf /\ appends' = appends /\ alog_last' = alog_last /\ prev_size' = prev_size /\ acked' = acked
      BY <2>6 DEF Al!vars, Al!counter
    <3>2. Al!AppendTypes'
      BY <3>1, Zenon DEF Al!AppendInv, Al!AppendTypes
    <3>3. Al!CountInv'
      <4>1. Al!recovered' = Al!recovered
        BY <3>1, Zenon DEF Al!recovered
      <4>2. Al!Newest(v_value)' <=> Al!Newest(v_value)
        BY <3>1, Zenon DEF Al!Newest
      <4>3. Al!Newest(Al!recovered)' <=> Al!Newest(Al!recovered)
        BY <3>1, <4>1, Zenon DEF Al!Newest
      <4>4. Al!CountSurvives' <=> Al!CountSurvives
        BY <3>1, <4>1, Zenon DEF Al!CountSurvives
      <4> QED
        BY <3>1, <4>1, <4>2, <4>3, <4>4, Zenon DEF Al!AppendInv, Al!CountInv
    <3>4. Al!DataInv'
      <4>1. Al!CountedIsWritten' <=> Al!CountedIsWritten
        BY <3>1, Zenon DEF Al!CountedIsWritten, Al!Extent
      <4> QED
        BY <3>1, <4>1, Zenon DEF Al!AppendInv, Al!DataInv, Al!Extent
    <3> QED
      BY <3>2, <3>3, <3>4 DEF Al!AppendInv
  <2> QED
    BY <2>1, <2>2, <2>3, <2>4, <2>5, <2>6 DEF Al!Next
<1> QED
  BY <1>1, AppendInit, PTL DEF Al!Spec

\* After a power failure at any moment the count covers every request that was answered
\* and at most the one being answered, what it counts is in the file as far as the file
\* reaches (whole, unless it was larger than the append before it), and the ring goes on
\* behind its newest count, for any sizes, file, requests and number of buffers.
THEOREM AppendLogSurvives ==
  Al!AppendLogAssumption =>
    (Al!Spec => [](Al!CountSurvives /\ Al!CountedIsWritten /\ Al!KeepsNewest))
<1> SUFFICES ASSUME Al!AppendLogAssumption
             PROVE  Al!Spec => [](Al!CountSurvives /\ Al!CountedIsWritten /\ Al!KeepsNewest)
  OBVIOUS
<1>1. Al!AppendInv => Al!CountSurvives /\ Al!CountedIsWritten /\ Al!KeepsNewest
  BY DEF Al!AppendInv, Al!CountInv, Al!DataInv, Al!KeepsNewest, Al!CountSurvives
<1> QED
  BY <1>1, AppendInvariant, PTL

-----------------------------------------------------------------------------
(* The two logs as the run checks them, beside the components of the library *)

LEMMA PlBehaves == Spec => Pl!Spec
<1>1. Init => Pl!Init
  BY DEF Init
<1>2. [Next]_vars => [Pl!Next]_(Pl!vars)
  BY DEF Next, vars, plogVars, Pl!vars, Pl!mem
<1> QED
  BY <1>1, <1>2, PTL DEF Spec, Pl!Spec

LEMMA AlBehaves == Spec => Al!Spec
<1>1. Init => Al!Init
  BY DEF Init
<1>2. [Next]_vars => [Al!Next]_(Al!vars)
  BY DEF Next, vars, alogVars, Al!vars, Al!counter
<1> QED
  BY <1>1, <1>2, PTL DEF Spec, Al!Spec

\* Whenever the power fails, Raft's log and vote and the append log's count are found as
\* they were promised, and of the last counted append all that the file has room for, for
\* any entries, sizes, files and numbers of buffers.
THEOREM LogsSurviveHolds == Spec => []LogsSurvive
<1>1. Spec => [](Pl!PmemInv /\ Pl!LogSurvives /\ Pl!VoteSurvives)
  BY ConstantsOK, PlBehaves, PmemInvariant, RaftLogSurvives, PTL
<1>2. Spec => [](/\ Al!AppendInv /\ Al!CountSurvives /\ Al!KeepsNewest
                /\ Al!CountedIsWritten)
  BY ConstantsOK, AlBehaves, AppendInvariant, AppendLogSurvives, PTL
<1> QED
  BY <1>1, <1>2, PTL DEF LogsSurvive

-----------------------------------------------------------------------------
(* The redo log of pmica *)

LEMMA PmicaConstants ==
  ASSUME Pm!PmicaAssumption
  PROVE  /\ kNumRedoLogEntries \in Nat \ {0}
         /\ Keys \subseteq Nat \ {0} /\ Values \subseteq Nat \ {0}
  BY DEF Pm!PmicaAssumption

LEMMA RedoLogInit == Pm!Init => Pm!RedoLogInv
<1> SUFFICES ASSUME Pm!Init PROVE Pm!RedoLogInv
  OBVIOUS
<1>1. PICK rb \in BOOLEAN, ad \in BOOLEAN :
        /\ opts = [redo_batch |-> rb, async_drain |-> ad]
        /\ pm_pc = "idle" /\ ops = <<>> /\ pm_i = 1 /\ cur_seq = 1
        /\ log = [x \in Pm!LogIdx |-> Pm!RedoLogEntry(0, Pm!invalid_key, 0)]
        /\ logV = [x \in Pm!LogIdx |-> {log[x]}]
        /\ committed = 0 /\ committedV = {0}
  BY DEF Pm!Init, Pm!Empty
<1>2. Pm!PmicaTypes
  BY <1>1 DEF Pm!PmicaTypes
<1>3. \A x \in Pm!LogIdx : logV[x] = {Pm!RedoLogEntry(0, Pm!invalid_key, 0)} /\ log[x] \in logV[x]
  BY <1>1
<1>4. \A c \in committedV : c <= cur_seq /\ Pm!Bound(c) <= cur_seq
  BY <1>1 DEF Pm!Bound
<1> QED
  BY <1>1, <1>2, <1>3, <1>4 DEF Pm!RedoLogInv, Pm!LoggedIntact

\* A step that touches neither the log nor the committed number.
LEMMA LogUntouched ==
  ASSUME Pm!RedoLogInv, Pm!PmicaTypes', pm_pc \notin {"crashed", "committed"},
         pm_pc' \notin {"commit", "committed", "crashed"},
         UNCHANGED <<opts, log, logV, committed, committedV, cur_seq>>
  PROVE  Pm!RedoLogInv'
  BY DEF Pm!RedoLogInv, Pm!LoggedIntact, Pm!LogIdx, Pm!Bound

\* A drain leaves one version of every entry.
LEMMA DrainKeeps ==
  ASSUME Pm!RedoLogInv, Pm!PmicaTypes', Pm!pmem_drain, pm_pc # "crashed",
         pm_pc' \notin {"committed", "crashed"}, opts' = opts,
         cur_seq' \in Nat, \A c \in committedV : Pm!Bound(c) <= cur_seq', cur_seq <= cur_seq'
  PROVE  Pm!RedoLogInv'
<1>1. /\ log' = log /\ committed' = committed /\ committedV' = {committed}
      /\ logV' = [x \in Pm!LogIdx |-> {log[x]}]
  BY DEF Pm!pmem_drain
<1>2. \A x \in Pm!LogIdx :
        /\ logV'[x] = {log[x]}
        /\ log[x] = Pm!RedoLogEntry(0, Pm!invalid_key, 0) \/ Pm!Written(log[x], x)
  BY <1>1 DEF Pm!RedoLogInv
<1>3. committed \in committedV /\ committed <= cur_seq /\ committed \in Nat /\ cur_seq \in Nat
  BY DEF Pm!RedoLogInv, Pm!PmicaTypes
<1>4. \A c \in committedV' : c <= cur_seq' /\ Pm!Bound(c)' <= cur_seq'
  BY <1>1, <1>3 DEF Pm!Bound
<1> QED
  BY <1>1, <1>2, <1>3, <1>4 DEF Pm!RedoLogInv, Pm!LoggedIntact, Pm!Written, Pm!LogIdx

\* The new entry's number is not below a bound of what is committed.
LEMMA LogSetKeeps ==
  ASSUME Pm!PmicaAssumption, Pm!RedoLogInv, Pm!log_set
  PROVE  Pm!RedoLogInv'
<1> DEFINE y == cur_seq % kNumRedoLogEntries
           op == ops[pm_i]
           new == Pm!RedoLogEntry(cur_seq, op.key, op.value)
<1>1. /\ kNumRedoLogEntries \in Nat \ {0} /\ cur_seq \in Nat \ {0} /\ pm_i \in Nat \ {0}
      /\ ops \in Seq([is_set : BOOLEAN, key : Keys, value : Values])
      /\ pm_i <= Len(ops)
  BY PmicaConstants DEF Pm!RedoLogInv, Pm!PmicaTypes, Pm!log_set
<1>2. op \in [is_set : BOOLEAN, key : Keys, value : Values]
  <2> DEFINE R == [is_set : BOOLEAN, key : Keys, value : Values]
  <2>1. ops \in Seq(R) /\ pm_i \in 1 .. Len(ops)
    BY <1>1
  <2> HIDE DEF R
  <2>2. ops[pm_i] \in R
    BY <2>1
  <2> QED
    BY <2>2 DEF R
<1>3. /\ log' = [log EXCEPT ![y] = new] /\ logV' = [logV EXCEPT ![y] = @ \union {new}]
      /\ pm_pc \in {"entry", "log"} /\ pm_pc' \in {"log", "drain"}
      /\ UNCHANGED <<committed, committedV, opts, ops>>
      /\ cur_seq' \in {cur_seq, cur_seq + 1} /\ pm_i' \in {pm_i, pm_i + 1}
  BY DEF Pm!log_set, Pm!log_nodrain
<1>4. y \in Pm!LogIdx
  BY <1>1 DEF Pm!LogIdx
<1> HIDE DEF y, op
<1>5. Pm!Written(new, y) /\ new.seq = cur_seq
  BY <1>1, <1>2 DEF Pm!Written, Pm!RedoLogEntry, y
<1> HIDE DEF new
<1>6. DOMAIN log = Pm!LogIdx /\ DOMAIN logV = Pm!LogIdx
  BY DEF Pm!RedoLogInv, Pm!PmicaTypes
<1>7. /\ \A x \in Pm!LogIdx : logV'[x] = IF x = y THEN logV[x] \union {new} ELSE logV[x]
      /\ \A x \in Pm!LogIdx : log'[x] = IF x = y THEN new ELSE log[x]
      /\ DOMAIN log' = Pm!LogIdx /\ DOMAIN logV' = Pm!LogIdx
  BY <1>3, <1>6
<1>8. Pm!PmicaTypes'
  BY <1>1, <1>3, <1>7 DEF Pm!RedoLogInv, Pm!PmicaTypes, Pm!LogIdx
<1>9. /\ \A c \in committedV : c \in Nat /\ c <= cur_seq /\ Pm!Bound(c) <= cur_seq /\ Pm!Bound(c) \in Nat
      /\ committed \in committedV
  BY <1>3 DEF Pm!RedoLogInv, Pm!PmicaTypes, Pm!Bound
<1>10. \A x \in Pm!LogIdx : \A e \in logV[x] : e.seq \in Nat
  BY <1>3 DEF Pm!RedoLogInv, Pm!Written, Pm!RedoLogEntry
<1>11. /\ \A x \in Pm!LogIdx : log'[x] \in logV'[x]
       /\ \A x \in Pm!LogIdx : \A e \in logV'[x] :
            e = Pm!RedoLogEntry(0, Pm!invalid_key, 0) \/ Pm!Written(e, x)
  BY <1>3, <1>5, <1>7 DEF Pm!RedoLogInv
<1>12. ASSUME NEW x \in Pm!LogIdx, NEW e \in logV'[x], NEW f \in logV'[x], NEW c \in committedV,
              e.seq < Pm!Bound(c), f.seq <= e.seq
       PROVE  f = e
  <2>1. e # new /\ f # new
    <3>1. e # new
      BY <1>1, <1>5, <1>9, <1>12
    <3>2. e.seq \in Nat
      BY <1>7, <1>10, <3>1
    <3> QED
      BY <1>1, <1>5, <1>9, <1>12, <3>1, <3>2
  <2>2. e \in logV[x] /\ f \in logV[x]
    BY <1>7, <2>1
  <2> QED
    BY <1>3, <1>12, <2>2 DEF Pm!RedoLogInv
<1>13. \A c : Pm!Bound(c)' = Pm!Bound(c)
  BY <1>3 DEF Pm!Bound
<1>14. /\ pm_pc \notin {"crashed", "committed"} /\ pm_pc' \notin {"crashed", "committed", "commit"}
       /\ committedV' = committedV /\ committed' = committed
       /\ Pm!LogIdx' = Pm!LogIdx
  BY <1>3 DEF Pm!LogIdx
<1>15. \A c \in committedV : c <= cur_seq' /\ Pm!Bound(c) <= cur_seq'
  BY <1>1, <1>3, <1>9
<1>16. Pm!LoggedIntact'
  BY <1>14 DEF Pm!LoggedIntact
<1>17. \A x \in Pm!LogIdx : \A e, f \in logV'[x], c \in committedV :
         e.seq < Pm!Bound(c) /\ f.seq <= e.seq => f = e
  BY <1>12
<1> QED
  BY <1>8, <1>9, <1>11, <1>13, <1>14, <1>15, <1>16, <1>17 DEF Pm!RedoLogInv, Pm!Written

\* When a number is committed, every entry has been drained.
LEMMA CommitKeeps ==
  ASSUME Pm!RedoLogInv, Pm!commit
  PROVE  Pm!RedoLogInv'
<1>1. /\ pm_pc = "commit" /\ pm_pc' = "committed"
      /\ committed' = cur_seq /\ committedV' = committedV \union {cur_seq}
      /\ UNCHANGED <<log, logV, opts, ops, pm_i, cur_seq>>
  BY DEF Pm!commit, Pm!write_committed
<1>2. Pm!PmicaTypes'
  BY <1>1 DEF Pm!RedoLogInv, Pm!PmicaTypes, Pm!LogIdx
<1>3. \A x \in Pm!LogIdx : logV[x] = {log[x]}
  BY <1>1 DEF Pm!RedoLogInv
<1>4. cur_seq <= cur_seq
  BY DEF Pm!RedoLogInv, Pm!PmicaTypes
<1> QED
  BY <1>1, <1>2, <1>3, <1>4 DEF Pm!RedoLogInv, Pm!LoggedIntact, Pm!LogIdx, Pm!Written

\* What a failure leaves of an entry that counts as logged is that entry.
LEMMA CrashKeeps ==
  ASSUME Pm!PmicaAssumption, Pm!RedoLogInv, Pm!Crash
  PROVE  Pm!RedoLogInv'
<1>1. /\ pm_pc # "crashed" /\ pm_pc' = "crashed"
      /\ log' \in Pm!Images([x \in Pm!LogIdx |-> Pm!TornEntry(logV[x])])
      /\ committed' \in committedV /\ committedV' = {committed'}
      /\ logV' = [x \in Pm!LogIdx |-> {log'[x]}]
      /\ UNCHANGED <<opts, ops, pm_i, cur_seq>>
  BY DEF Pm!Crash
<1>2. DOMAIN log' = Pm!LogIdx /\ \A x \in Pm!LogIdx : log'[x] \in Pm!TornEntry(logV[x])
  BY <1>1 DEF Pm!Images
<1>3. Pm!PmicaTypes'
  BY <1>1, <1>2 DEF Pm!RedoLogInv, Pm!PmicaTypes, Pm!LogIdx
<1>4. ASSUME NEW x \in Pm!LogIdx, Pm!Committed(log[x])'
      PROVE  /\ log'[x].seq % kNumRedoLogEntries = x
             /\ (log'[x].key # Pm!invalid_key /\ log'[x].value # 0) \/ Pm!Ahead(log[x])'
  <2>1. PICK a \in logV[x], b \in logV[x], c \in logV[x] :
          /\ a.seq >= b.seq /\ b.seq >= c.seq
          /\ log'[x] = Pm!RedoLogEntry(a.seq, b.key, c.value)
    <3>1. PICK t \in {u \in logV[x] \X logV[x] \X logV[x] : u[1].seq >= u[2].seq /\ u[2].seq >= u[3].seq} :
            log'[x] = Pm!RedoLogEntry(t[1].seq, t[2].key, t[3].value)
      BY <1>2 DEF Pm!TornEntry
    <3> QED
      BY <3>1
  <2>2. log'[x].seq = a.seq /\ log'[x].key = b.key /\ log'[x].value = c.value
    BY <2>1 DEF Pm!RedoLogEntry
  <2>3. a.seq # 0 /\ a.seq <= committed' /\ committed' \in Nat
    BY <1>1, <1>4, <2>2 DEF Pm!Committed, Pm!RedoLogInv, Pm!PmicaTypes
  <2>4. a.seq \in Nat /\ b.seq \in Nat /\ c.seq \in Nat
    BY <1>1 DEF Pm!RedoLogInv, Pm!Written, Pm!RedoLogEntry
  <2>5. Pm!Written(a, x)
    BY <1>1, <2>3 DEF Pm!RedoLogInv, Pm!RedoLogEntry
  <2>6. CASE opts.redo_batch /\ a.seq = committed'
    BY <1>1, <2>2, <2>5, <2>6 DEF Pm!Written, Pm!Ahead
  <2>7. CASE ~(opts.redo_batch /\ a.seq = committed')
    <3>1. a.seq < Pm!Bound(committed')
      BY <2>3, <2>4, <2>7 DEF Pm!Bound
    <3>2. b = a /\ c = a
      BY <1>1, <2>1, <2>4, <3>1 DEF Pm!RedoLogInv
    <3> QED
      BY <2>2, <2>5, <3>2, PmicaConstants DEF Pm!Written, Pm!invalid_key
  <2> QED
    BY <2>6, <2>7
<1>5. Pm!LoggedIntact'
  BY <1>4 DEF Pm!LoggedIntact, Pm!LogIdx
<1> QED
  BY <1>1, <1>3, <1>5 DEF Pm!RedoLogInv

LEMMA RedoLogInvariant == Pm!PmicaAssumption => (Pm!Spec => []Pm!RedoLogInv)
<1> SUFFICES ASSUME Pm!PmicaAssumption
             PROVE  Pm!Spec => []Pm!RedoLogInv
  OBVIOUS
<1>1. Pm!RedoLogInv /\ [Pm!Next]_(Pm!vars) => Pm!RedoLogInv'
  <2> SUFFICES ASSUME Pm!RedoLogInv, [Pm!Next]_(Pm!vars)
               PROVE  Pm!RedoLogInv'
    OBVIOUS
  <2>t. Pm!PmicaTypes
    BY DEF Pm!RedoLogInv
  <2>1. CASE Pm!batch_op_drain
    <3>1. PICK b \in Pm!Batch : ops' = b
      BY <2>1 DEF Pm!batch_op_drain
    <3>2. ops' \in Seq([is_set : BOOLEAN, key : Keys, value : Values])
      <4> DEFINE R == [is_set : BOOLEAN, key : Keys, value : Values]
      <4>1. PICK n \in 1 .. kMaxBatchSize : b \in [1 .. n -> R]
        BY <3>1 DEF Pm!Batch
      <4>2. n \in Nat
        BY DEF Pm!PmicaAssumption
      <4> HIDE DEF R
      <4>3. ops' \in Seq(R)
        BY <3>1, <4>1, <4>2
      <4> QED
        BY <4>3 DEF R
    <3>3. Pm!PmicaTypes'
      BY <2>1, <2>t, <3>2 DEF Pm!batch_op_drain, Pm!PmicaTypes, Pm!mem, Pm!LogIdx
    <3> QED
      BY <2>1, <3>3, LogUntouched DEF Pm!batch_op_drain, Pm!mem
  <2>2. CASE Pm!skip_get \/ Pm!end_of_log \/ Pm!get_op \/ Pm!return
    <3>1. /\ pm_pc \in {"log", "apply"} /\ pm_pc' \in {"log", "drain", "apply", "idle"}
          /\ UNCHANGED <<opts, log, logV, committed, committedV, cur_seq>>
          /\ ops' \in {ops, <<>>} /\ pm_i' \in {pm_i, pm_i + 1, 1}
      BY <2>2 DEF Pm!skip_get, Pm!end_of_log, Pm!get_op, Pm!return, Pm!mem
    <3>2. Pm!PmicaTypes'
      <4> DEFINE R == [is_set : BOOLEAN, key : Keys, value : Values]
      <4>1. ops \in Seq(R) /\ pm_i \in Nat \ {0}
        BY <2>t DEF Pm!PmicaTypes
      <4> HIDE DEF R
      <4>2. ops' \in Seq(R) /\ pm_i' \in Nat \ {0}
        <5>1. <<>> \in Seq(R)
          OBVIOUS
        <5>2. ops' \in Seq(R)
          BY ONLY <3>1, <4>1, <5>1, Zenon
        <5>3. pm_i' \in Nat \ {0}
          BY <3>1, <4>1
        <5> QED
          BY <5>2, <5>3
      <4> QED
        BY <2>t, <3>1, <4>2 DEF Pm!PmicaTypes, Pm!LogIdx, R
    <3> QED
      BY <3>1, <3>2, LogUntouched
  <2>3. CASE Pm!set_nodrain
    <3>1. /\ pm_pc = "apply" /\ pm_pc' \in {"slot", "apply"}
          /\ UNCHANGED <<opts, log, logV, committed, committedV, cur_seq, ops>>
          /\ pm_i' \in {pm_i, pm_i + 1}
      BY <2>3 DEF Pm!set_nodrain, Pm!next_op, Pm!slot_nodrain, Pm!mem
    <3>2. Pm!PmicaTypes'
      BY <2>t, <3>1 DEF Pm!PmicaTypes, Pm!LogIdx
    <3> QED
      BY <3>1, <3>2, LogUntouched
  <2>4. CASE Pm!drain_on_wrap \/ Pm!drain_log \/ Pm!slot_persists
    <3>1. /\ Pm!pmem_drain /\ pm_pc \in {"log", "drain", "slot"}
          /\ pm_pc' \in {"entry", "commit", "apply"} /\ (pm_pc' = "entry" => pm_i <= Len(ops))
          /\ UNCHANGED <<opts, cur_seq, ops>> /\ pm_i' \in {pm_i, pm_i + 1}
          /\ pm_pc' = "entry" => pm_i' = pm_i
      BY <2>4 DEF Pm!drain_on_wrap, Pm!drain_log, Pm!slot_persists
    <3>2. Pm!PmicaTypes'
      BY <2>t, <3>1 DEF Pm!PmicaTypes, Pm!LogIdx, Pm!pmem_drain
    <3>3. cur_seq \in Nat /\ \A c \in committedV : Pm!Bound(c) <= cur_seq
      BY <2>t, <3>1 DEF Pm!RedoLogInv, Pm!PmicaTypes
    <3> QED
      BY <3>1, <3>2, <3>3, DrainKeeps
  <2>5. CASE Pm!commit_persists
    <3>1. /\ Pm!pmem_drain /\ pm_pc = "committed"
          /\ pm_pc' \in {"log", "apply"} /\ UNCHANGED <<opts, ops>> /\ pm_i' \in {1, pm_i + 1}
          /\ cur_seq' = IF opts.redo_batch THEN cur_seq ELSE cur_seq + 1
      BY <2>5 DEF Pm!commit_persists
    <3>2. Pm!PmicaTypes'
      BY <2>t, <3>1 DEF Pm!PmicaTypes, Pm!LogIdx, Pm!pmem_drain
    <3>3. /\ cur_seq' \in Nat /\ cur_seq <= cur_seq'
          /\ \A c \in committedV : Pm!Bound(c) <= cur_seq'
      BY <2>t, <3>1 DEF Pm!RedoLogInv, Pm!PmicaTypes, Pm!Bound
    <3> QED
      BY <3>1, <3>2, <3>3, DrainKeeps
  <2>6. CASE Pm!log_set
    BY <2>6, LogSetKeeps
  <2>7. CASE Pm!commit
    BY <2>7, CommitKeeps
  <2>8. CASE Pm!Crash
    BY <2>8, CrashKeeps
  <2>9. CASE UNCHANGED Pm!vars
    BY <2>9 DEF Pm!vars, Pm!mem, Pm!history, Pm!RedoLogInv, Pm!PmicaTypes, Pm!LogIdx, Pm!Bound,
                Pm!LoggedIntact, Pm!Committed, Pm!Ahead
  <2> QED
    BY <2>1, <2>2, <2>3, <2>4, <2>5, <2>6, <2>7, <2>8, <2>9 DEF Pm!Next
<1> QED
  BY <1>1, RedoLogInit, PTL DEF Pm!Spec

\* After a power failure at any moment, whatever mixture of old and new bytes it leaves
\* of what was not drained, an entry of the redo log that is committed by RedoLogEntry's
\* rule is not torn, except with redo_batch the one whose number is the committed one, for
\* any log length, batch size and number of operations.
THEOREM RedoLogIsIntact == Pm!PmicaAssumption => (Pm!Spec => []Pm!LoggedIntact)
<1>1. Pm!RedoLogInv => Pm!LoggedIntact
  BY DEF Pm!RedoLogInv
<1> QED
  BY <1>1, RedoLogInvariant, PTL
=============================================================================
