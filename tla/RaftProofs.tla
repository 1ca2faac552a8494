----------------------------- MODULE RaftProofs -----------------------------
(***************************************************************************)
(* Proofs about the Raft library and the replicated store, for any number  *)
(* of servers, terms, entries and messages, when members are fixed and no  *)
(* snapshot is taken (FixedMembers), as apps/smr uses the library.         *)
(*                                                                         *)
(* Inv is inductive.  A handler changes one server's record and sends      *)
(* messages; ServerStep shows that Inv is kept if HandlerOK holds of the   *)
(* two, and there is one lemma per handler that says so.  HandlerOK has a  *)
(* part about votes (VotesOK), from which no vote is ever taken back, and  *)
(* a part about entries (LogOK), from which the links of logs and messages *)
(* stay unique.                                                            *)
(***************************************************************************)
EXTENDS Smr, FiniteSetTheorems, SequenceTheorems, WellFoundedInduction, TLAPS

\* A set that has 0, and the successor of each number it has, has all numbers.
LEMMA NatInduct ==
  ASSUME NEW N, 0 \in N, \A n \in Nat : n \in N => n + 1 \in N
  PROVE  Nat \subseteq N
<1> DEFINE F == Nat \ N
<1> SUFFICES ASSUME F # {} PROVE FALSE
  OBVIOUS
<1>1. F \subseteq Nat /\ F # {}
  OBVIOUS
<1>2. \E i \in F : \A j \in F : <<j, i>> \notin OpToRel(<, Nat)
  <2> HIDE DEF F
  <2> QED
    BY <1>1, NatLessThanWellFounded, WFMin
<1>3. PICK i \in F : \A j \in F : <<j, i>> \notin OpToRel(<, Nat)
  BY <1>2
<1>4. i \in Nat \ {0}
  OBVIOUS
<1>5. i - 1 \in F
  BY <1>4
<1>6. <<i - 1, i>> \in OpToRel(<, Nat)
  BY <1>4 DEF OpToRel
<1> QED
  BY <1>3, <1>5, <1>6

-----------------------------------------------------------------------------
(* The loops.                                                              *)

LEMMA ApplyingDef ==
  ASSUME NEW s, NEW m, NEW etys, Len(etys) \in Nat
  PROVE  Applying(s, m, etys) =
           [k \in 0..Len(etys) |->
              IF k = 0 THEN m
              ELSE raft_apply_entry(s, Applying(s, m, etys)[k - 1], etys[k])]
<1> DEFINE Is(n, g) == g = [k \in 0..n |-> IF k = 0 THEN m
                                          ELSE raft_apply_entry(s, g[k - 1], etys[k])]
           N == {n \in Nat : \E g : Is(n, g)}
<1>1. 0 \in N
  <2>1. Is(0, [k \in 0..0 |-> m])
    OBVIOUS
  <2> QED
    BY <2>1
<1>2. ASSUME NEW n \in Nat, n \in N PROVE n + 1 \in N
  <2>1. PICK g : Is(n, g)
    BY <1>2
  <2> DEFINE h == [k \in 0..(n + 1) |-> IF k = 0 THEN m
                                        ELSE raft_apply_entry(s, g[k - 1], etys[k])]
  <2>a. \A k \in 0..n : g[k] = IF k = 0 THEN m ELSE raft_apply_entry(s, g[k - 1], etys[k])
    BY <2>1
  <2>b. \A k \in 0..(n + 1) : h[k] = IF k = 0 THEN m ELSE raft_apply_entry(s, g[k - 1], etys[k])
    OBVIOUS
  <2>2. \A k \in 0..n : h[k] = g[k]
    <3> HIDE DEF h
    <3> QED BY <2>a, <2>b
  <2>3. \A k \in 1..(n + 1) : h[k - 1] = g[k - 1]
    <3> HIDE DEF h
    <3> QED BY <2>2
  <2>4. Is(n + 1, h)
    <3> HIDE DEF h
    <3>1. h = [k \in 0..(n + 1) |-> IF k = 0 THEN m
                                    ELSE raft_apply_entry(s, g[k - 1], etys[k])]
      BY DEF h
    <3>2. \A k \in 0..(n + 1) :
             (IF k = 0 THEN m ELSE raft_apply_entry(s, g[k - 1], etys[k]))
               = (IF k = 0 THEN m ELSE raft_apply_entry(s, h[k - 1], etys[k]))
      BY <2>3
    <3>3. [k \in 0..(n + 1) |-> IF k = 0 THEN m ELSE raft_apply_entry(s, g[k - 1], etys[k])]
            = [k \in 0..(n + 1) |-> IF k = 0 THEN m ELSE raft_apply_entry(s, h[k - 1], etys[k])]
      BY <3>2
    <3> QED
      BY <3>1, <3>3
  <2>5. \E f : Is(n + 1, f)
    <3> HIDE DEF h, Is
    <3> QED
      BY <2>4
  <2> HIDE DEF Is
  <2> QED
    BY <2>5
<1>3. Len(etys) \in N
  <2> HIDE DEF N
  <2> QED
    BY <1>1, <1>2, NatInduct
<1> QED
  BY <1>3 DEF Applying

LEMMA AppendingDef ==
  ASSUME NEW s, NEW m, NEW etys, Len(etys) \in Nat
  PROVE  Appending(s, m, etys) =
           [k \in 0..Len(etys) |->
              IF k = 0 THEN m
              ELSE raft_append_entry(s, Appending(s, m, etys)[k - 1], etys[k])]
<1> DEFINE Is(n, g) == g = [k \in 0..n |-> IF k = 0 THEN m
                                          ELSE raft_append_entry(s, g[k - 1], etys[k])]
           N == {n \in Nat : \E g : Is(n, g)}
<1>1. 0 \in N
  <2>1. Is(0, [k \in 0..0 |-> m])
    OBVIOUS
  <2> QED
    BY <2>1
<1>2. ASSUME NEW n \in Nat, n \in N PROVE n + 1 \in N
  <2>1. PICK g : Is(n, g)
    BY <1>2
  <2> DEFINE h == [k \in 0..(n + 1) |-> IF k = 0 THEN m
                                        ELSE raft_append_entry(s, g[k - 1], etys[k])]
  <2>a. \A k \in 0..n : g[k] = IF k = 0 THEN m ELSE raft_append_entry(s, g[k - 1], etys[k])
    BY <2>1
  <2>b. \A k \in 0..(n + 1) : h[k] = IF k = 0 THEN m ELSE raft_append_entry(s, g[k - 1], etys[k])
    OBVIOUS
  <2>2. \A k \in 0..n : h[k] = g[k]
    <3> HIDE DEF h
    <3> QED BY <2>a, <2>b
  <2>3. \A k \in 1..(n + 1) : h[k - 1] = g[k - 1]
    <3> HIDE DEF h
    <3> QED BY <2>2
  <2>4. Is(n + 1, h)
    <3> HIDE DEF h
    <3>1. h = [k \in 0..(n + 1) |-> IF k = 0 THEN m
                                    ELSE raft_append_entry(s, g[k - 1], etys[k])]
      BY DEF h
    <3>2. \A k \in 0..(n + 1) :
             (IF k = 0 THEN m ELSE raft_append_entry(s, g[k - 1], etys[k]))
               = (IF k = 0 THEN m ELSE raft_append_entry(s, h[k - 1], etys[k]))
      BY <2>3
    <3>3. [k \in 0..(n + 1) |-> IF k = 0 THEN m ELSE raft_append_entry(s, g[k - 1], etys[k])]
            = [k \in 0..(n + 1) |-> IF k = 0 THEN m ELSE raft_append_entry(s, h[k - 1], etys[k])]
      BY <3>2
    <3> QED
      BY <3>1, <3>3
  <2>5. \E f : Is(n + 1, f)
    <3> HIDE DEF h, Is
    <3> QED
      BY <2>4
  <2> HIDE DEF Is
  <2> QED
    BY <2>5
<1>3. Len(etys) \in N
  <2> HIDE DEF N
  <2> QED
    BY <1>1, <1>2, NatInduct
<1> QED
  BY <1>3 DEF Appending

LEMMA PoppingDef ==
  ASSUME NEW m, NEW etys, Len(etys) \in Nat
  PROVE  Popping(m, etys) =
           [k \in 0..Len(etys) |->
              IF k = 0 THEN m
              ELSE raft_pop_log(Popping(m, etys)[k - 1], etys[Len(etys) + 1 - k])]
<1> DEFINE Is(n, g) == g = [k \in 0..n |-> IF k = 0 THEN m
                                          ELSE raft_pop_log(g[k - 1], etys[Len(etys) + 1 - k])]
           N == {n \in Nat : \E g : Is(n, g)}
<1>1. 0 \in N
  <2>1. Is(0, [k \in 0..0 |-> m])
    OBVIOUS
  <2> QED
    BY <2>1
<1>2. ASSUME NEW n \in Nat, n \in N PROVE n + 1 \in N
  <2>1. PICK g : Is(n, g)
    BY <1>2
  <2> DEFINE h == [k \in 0..(n + 1) |-> IF k = 0 THEN m
                                        ELSE raft_pop_log(g[k - 1], etys[Len(etys) + 1 - k])]
  <2>a. \A k \in 0..n : g[k] = IF k = 0 THEN m ELSE raft_pop_log(g[k - 1], etys[Len(etys) + 1 - k])
    BY <2>1
  <2>b. \A k \in 0..(n + 1) : h[k] = IF k = 0 THEN m ELSE raft_pop_log(g[k - 1], etys[Len(etys) + 1 - k])
    OBVIOUS
  <2>2. \A k \in 0..n : h[k] = g[k]
    <3> HIDE DEF h
    <3> QED BY <2>a, <2>b
  <2>3. \A k \in 1..(n + 1) : h[k - 1] = g[k - 1]
    <3> HIDE DEF h
    <3> QED BY <2>2
  <2>4. Is(n + 1, h)
    <3> HIDE DEF h
    <3>1. h = [k \in 0..(n + 1) |-> IF k = 0 THEN m
                                    ELSE raft_pop_log(g[k - 1], etys[Len(etys) + 1 - k])]
      BY DEF h
    <3>2. \A k \in 0..(n + 1) :
             (IF k = 0 THEN m ELSE raft_pop_log(g[k - 1], etys[Len(etys) + 1 - k]))
               = (IF k = 0 THEN m ELSE raft_pop_log(h[k - 1], etys[Len(etys) + 1 - k]))
      BY <2>3
    <3>3. [k \in 0..(n + 1) |-> IF k = 0 THEN m ELSE raft_pop_log(g[k - 1], etys[Len(etys) + 1 - k])]
            = [k \in 0..(n + 1) |-> IF k = 0 THEN m ELSE raft_pop_log(h[k - 1], etys[Len(etys) + 1 - k])]
      BY <3>2
    <3> QED
      BY <3>1, <3>3
  <2>5. \E f : Is(n + 1, f)
    <3> HIDE DEF h, Is
    <3> QED
      BY <2>4
  <2> HIDE DEF Is
  <2> QED
    BY <2>5
<1>3. Len(etys) \in N
  <2> HIDE DEF N
  <2> QED
    BY <1>1, <1>2, NatInduct
<1> QED
  BY <1>3 DEF Popping

\* m with one more entry applied
AppliedOne(m, e) == [m EXCEPT !.last_applied_idx = @ + 1, !.fsm = Append(@, e)]

LEMMA ApplyEntry ==
  ASSUME NEW s, NEW m \in FixedServer(s), m.state # "DOWN", NEW e \in NormalEntry
  PROVE  raft_apply_entry(s, m, e) = AppliedOne(m, e)
<1>1. m.last_applied_idx + 1 # m.voting_cfg_change_log_idx
  BY DEF FixedServer
<1>2. e.type = "NORMAL"
  BY DEF NormalEntry
<1>3. applylog([m EXCEPT !.last_applied_idx = @ + 1], e) = AppliedOne(m, e)
  BY DEF FixedServer, applylog, AppliedOne
<1> QED
  BY <1>1, <1>2, <1>3 DEF raft_apply_entry

\* m with entries applied
Applied(m, etys) ==
  [m EXCEPT !.last_applied_idx = @ + Len(etys), !.fsm = @ \o etys]

LEMMA SubSeqIn ==
  ASSUME NEW S, NEW q \in Seq(S), NEW a \in Nat \ {0}, NEW b \in Int, b <= Len(q)
  PROVE  /\ SubSeq(q, a, b) \in Seq(S)
         /\ Len(SubSeq(q, a, b)) = IF a <= b THEN b - a + 1 ELSE 0
         /\ \A i \in 1 .. b - a + 1 : SubSeq(q, a, b)[i] = q[a + i - 1]
<1>1. \A i \in a .. b : q[i] \in S
  OBVIOUS
<1> QED
  BY <1>1, SubSeqProperties

\* The first k + 1 elements are the first k and one more.
LEMMA SubSeqStep ==
  ASSUME NEW S, NEW q \in Seq(S), NEW k \in Nat, k + 1 <= Len(q)
  PROVE  /\ SubSeq(q, 1, k) \in Seq(S) /\ Len(SubSeq(q, 1, k)) = k
         /\ q[k + 1] \in S
         /\ SubSeq(q, 1, k + 1) = Append(SubSeq(q, 1, k), q[k + 1])
<1> DEFINE u == SubSeq(q, 1, k)
           v == SubSeq(q, 1, k + 1)
<1>1. u \in Seq(S) /\ Len(u) = k /\ \A i \in 1 .. k : u[i] = q[i]
  BY SubSeqIn
<1>2. v \in Seq(S) /\ Len(v) = k + 1 /\ \A i \in 1 .. k + 1 : v[i] = q[i]
  BY SubSeqIn
<1>3. q[k + 1] \in S
  OBVIOUS
<1> HIDE DEF u, v
<1>4. Append(u, q[k + 1]) \in Seq(S) /\ Len(Append(u, q[k + 1])) = k + 1
  BY <1>1, <1>3
<1>5. \A i \in 1 .. k + 1 : Append(u, q[k + 1])[i] = v[i]
  BY <1>1, <1>2
<1>6. v = Append(u, q[k + 1])
  BY <1>2, <1>4, <1>5, SeqEqual
<1> QED
  BY <1>1, <1>3, <1>6 DEF u, v

LEMMA ConcatAppend ==
  ASSUME NEW S, NEW q \in Seq(S), NEW u \in Seq(S), NEW e \in S
  PROVE  q \o Append(u, e) = Append(q \o u, e)
<1>1. Append(u, e) \in Seq(S) /\ q \o u \in Seq(S)
  BY ConcatProperties
<1>2. q \o Append(u, e) \in Seq(S) /\ Append(q \o u, e) \in Seq(S)
  BY <1>1, ConcatProperties
<1>3. Len(q \o Append(u, e)) = Len(q) + Len(u) + 1 /\ Len(Append(q \o u, e)) = Len(q) + Len(u) + 1
  BY <1>1, ConcatProperties
<1>4. ASSUME NEW i \in 1 .. Len(q) + Len(u) + 1
      PROVE  (q \o Append(u, e))[i] = Append(q \o u, e)[i]
  <2>1. (q \o Append(u, e))[i] = IF i <= Len(q) THEN q[i] ELSE Append(u, e)[i - Len(q)]
    BY <1>1, ConcatProperties
  <2>2. Len(q \o u) = Len(q) + Len(u)
    BY ConcatProperties
  <2>3. CASE i = Len(q) + Len(u) + 1
    <3>1. Append(q \o u, e)[i] = e /\ Append(u, e)[i - Len(q)] = e
      BY <2>2, <2>3, <1>1
    <3> QED
      BY <3>1, <2>1, <2>3
  <2>4. CASE i <= Len(q) + Len(u)
    <3>1. Append(q \o u, e)[i] = (q \o u)[i]
      BY <2>2, <2>4, <1>1
    <3>2. (q \o u)[i] = IF i <= Len(q) THEN q[i] ELSE u[i - Len(q)]
      BY <2>4, ConcatProperties
    <3>3. i > Len(q) => Append(u, e)[i - Len(q)] = u[i - Len(q)]
      BY <2>4
    <3> QED
      BY <3>1, <3>2, <3>3, <2>1
  <2> QED
    BY <2>3, <2>4
<1> QED
  BY <1>2, <1>3, <1>4, SeqEqual

LEMMA AppliedType ==
  ASSUME NEW s, NEW m \in FixedServer(s), NEW etys \in Seq(NormalEntry)
  PROVE  Applied(m, etys) \in FixedServer(s) /\ Applied(m, etys).state = m.state
<1>1. m.last_applied_idx + Len(etys) \in Nat /\ m.fsm \o etys \in Seq(NormalEntry)
  BY ConcatProperties DEF FixedServer
<1> QED
  BY <1>1 DEF Applied, FixedServer

\* Entries are applied one after the other.
LEMMA AppliedStep ==
  ASSUME NEW s, NEW m \in FixedServer(s), m.state # "DOWN", NEW etys \in Seq(NormalEntry),
         NEW e \in NormalEntry
  PROVE  raft_apply_entry(s, Applied(m, etys), e) = Applied(m, Append(etys, e))
<1>1. Applied(m, etys) \in FixedServer(s) /\ Applied(m, etys).state # "DOWN"
  BY AppliedType
<1>2. raft_apply_entry(s, Applied(m, etys), e) = AppliedOne(Applied(m, etys), e)
  BY <1>1, ApplyEntry
<1>3. m.last_applied_idx \in Nat
  BY DEF FixedServer
<1>4. m.fsm \o Append(etys, e) = Append(m.fsm \o etys, e)
  <2>1. PICK q \in Seq(NormalEntry) : q = m.fsm
    BY DEF FixedServer
  <2>2. q \o Append(etys, e) = Append(q \o etys, e)
    BY ConcatAppend
  <2> QED
    BY <2>1, <2>2
<1>5. (m.last_applied_idx + Len(etys)) + 1 = m.last_applied_idx + Len(Append(etys, e))
  <2>1. Len(Append(etys, e)) = Len(etys) + 1 /\ Len(etys) \in Nat
    BY AppendProperties
  <2> QED
    BY <1>3, <2>1
<1>6. AppliedOne(Applied(m, etys), e)
        = [m EXCEPT !.last_applied_idx = (m.last_applied_idx + Len(etys)) + 1,
                    !.fsm = Append(m.fsm \o etys, e)]
  BY DEF Applied, AppliedOne, FixedServer
<1> QED
  BY <1>2, <1>4, <1>5, <1>6 DEF Applied

LEMMA AppliedNone ==
  ASSUME NEW s, NEW m \in FixedServer(s)
  PROVE  Applied(m, << >>) = m
<1>1. m.fsm \in Seq(NormalEntry) /\ m.last_applied_idx \in Nat
  BY DEF FixedServer
<1>2. m.fsm \o << >> = m.fsm /\ m.last_applied_idx + Len(<< >>) = m.last_applied_idx
  BY <1>1, ConcatEmptySeq
<1> QED
  BY <1>2 DEF Applied, FixedServer

LEMMA UnappliedType ==
  ASSUME NEW s, NEW m \in FixedServer(s)
  PROVE  Unapplied(m) \in Seq(NormalEntry) /\ Len(Unapplied(m)) \in Nat
<1>1. /\ m.log \in Seq(NormalEntry) /\ m.last_applied_idx \in Nat /\ m.base = 0
      /\ m.commit_idx \in Nat /\ Len(m.log) \in Nat
  BY DEF FixedServer
<1> DEFINE a == m.last_applied_idx + 1
           b == min(m.commit_idx, Len(m.log))
<1>2. a \in Nat \ {0} /\ b \in Nat /\ b <= Len(m.log)
  BY <1>1 DEF min
<1>3. Unapplied(m) = SubSeq(m.log, a, b)
  <2>1. log_get_current_idx(m) = Len(m.log)
    BY <1>1 DEF log_get_current_idx
  <2>2. min(m.commit_idx, log_get_current_idx(m)) - m.base = b
    BY <1>1, <1>2, <2>1
  <2>3. m.last_applied_idx + 1 - m.base = a /\ ~(m.last_applied_idx < m.base)
    BY <1>1
  <2> HIDE DEF a, b
  <2> QED
    BY <2>2, <2>3 DEF Unapplied
<1> HIDE DEF a, b
<1>4. SubSeq(m.log, a, b) \in Seq(NormalEntry)
  BY <1>1, <1>2, SubSeqIn
<1> QED
  BY <1>3, <1>4

\* What a server's log holds of the committed entries is applied, in order.
LEMMA ApplyAll ==
  ASSUME NEW s, NEW m \in FixedServer(s)
  PROVE  raft_apply_all(s, m) = IF m.state = "DOWN" THEN m ELSE Applied(m, Unapplied(m))
<1> DEFINE etys == Unapplied(m)
           after == Applying(s, m, etys)
<1>1. etys \in Seq(NormalEntry) /\ Len(etys) \in Nat
  BY UnappliedType
<1>2. \A k \in 0..Len(etys) : after[k] = IF k = 0 THEN m
                                         ELSE raft_apply_entry(s, after[k - 1], etys[k])
  BY <1>1, ApplyingDef
<1>3. raft_apply_all(s, m) = after[Len(etys)]
  BY DEF raft_apply_all, raft_is_apply_allowed, FixedServer
<1>4. m.last_applied_idx \in Nat /\ m.fsm \in Seq(NormalEntry)
  BY DEF FixedServer
<1> HIDE DEF etys, after
<1>5. CASE m.state = "DOWN"
  <2> DEFINE N == {k \in Nat : k <= Len(etys) => after[k] = m}
  <2>1. 0 \in N
    BY <1>1, <1>2
  <2>2. ASSUME NEW k \in Nat, k \in N PROVE k + 1 \in N
    <3> SUFFICES ASSUME k + 1 <= Len(etys) PROVE after[k + 1] = m
      OBVIOUS
    <3>1. after[k] = m
      BY <2>2, <1>1
    <3>2. after[k + 1] = raft_apply_entry(s, after[k], etys[k + 1])
      BY <1>1, <1>2
    <3> QED
      BY <1>5, <3>1, <3>2 DEF raft_apply_entry
  <2>3. Len(etys) \in N
    <3> HIDE DEF N
    <3> QED
      BY <1>1, <2>1, <2>2, NatInduct
  <2> QED
    BY <2>3, <1>1, <1>3, <1>5
<1>6. CASE m.state # "DOWN"
  <2> DEFINE Up(k) == Applied(m, SubSeq(etys, 1, k))
             N == {k \in Nat : k <= Len(etys) => after[k] = Up(k)}
  <2>1. after[0] = Up(0)
    <3>1. SubSeq(etys, 1, 0) = << >>
      BY SubSeqEmpty
    <3>2. after[0] = m
      BY <1>1, <1>2
    <3> QED
      BY <3>1, <3>2, AppliedNone
  <2>2. ASSUME NEW k \in Nat, k + 1 <= Len(etys), after[k] = Up(k) PROVE after[k + 1] = Up(k + 1)
    <3>1. /\ SubSeq(etys, 1, k) \in Seq(NormalEntry) /\ etys[k + 1] \in NormalEntry
          /\ SubSeq(etys, 1, k + 1) = Append(SubSeq(etys, 1, k), etys[k + 1])
      BY <1>1, <2>2, SubSeqStep
    <3>2. after[k + 1] = raft_apply_entry(s, Up(k), etys[k + 1])
      BY <1>1, <1>2, <2>2
    <3>3. PICK pre \in Seq(NormalEntry), e \in NormalEntry :
             pre = SubSeq(etys, 1, k) /\ e = etys[k + 1]
      BY <3>1
    <3>4. raft_apply_entry(s, Applied(m, pre), e) = Applied(m, Append(pre, e))
      BY <1>6, AppliedStep
    <3> QED
      BY <3>1, <3>2, <3>3, <3>4
  <2> HIDE DEF Up
  <2>3. 0 \in N
    BY <2>1
  <2>4. ASSUME NEW k \in Nat, k \in N PROVE k + 1 \in N
    BY <1>1, <2>2, <2>4
  <2>5. Len(etys) \in N
    <3> HIDE DEF N
    <3> QED
      BY <1>1, <2>3, <2>4, NatInduct
  <2>6. after[Len(etys)] = Up(Len(etys))
    BY <1>1, <2>5
  <2>7. Up(Len(etys)) = Applied(m, etys)
    BY <1>1, SubSeqFull DEF Up
  <2> QED
    BY <2>6, <2>7, <1>3, <1>6 DEF etys
<1> QED
  BY <1>5, <1>6

-----------------------------------------------------------------------------
(* Entries enter and leave the log.                                        *)

\* m with another log in a ring of that size and front
WithLog(m, log, size, front) == [m EXCEPT !.log = log, !.size = size, !.front = front]

Ring(log, size, front) ==
  /\ log \in Seq(NormalEntry) /\ size \in Nat \ {0} /\ front \in Nat
  /\ front < size /\ Len(log) <= size

LEMMA WithLogType ==
  ASSUME NEW s, NEW m \in FixedServer(s), NEW log, NEW size, NEW front, Ring(log, size, front)
  PROVE  /\ WithLog(m, log, size, front) \in FixedServer(s)
         /\ RingOK(WithLog(m, log, size, front))
         /\ WithLog(m, log, size, front).log = log
         /\ WithLog(m, log, size, front).size = size
         /\ WithLog(m, log, size, front).front = front
<1>1. log \in Seq(NormalEntry) /\ size \in Nat \ {0} /\ front \in Nat
  BY DEF Ring
<1>2. WithLog(m, log, size, front) \in FixedServer(s)
  BY <1>1 DEF WithLog, FixedServer
<1>3. /\ WithLog(m, log, size, front).log = log
      /\ WithLog(m, log, size, front).size = size
      /\ WithLog(m, log, size, front).front = front
  BY DEF WithLog, FixedServer
<1> QED
  BY <1>2, <1>3 DEF Ring, RingOK

LEMMA WithLogTwice ==
  ASSUME NEW s, NEW m \in FixedServer(s), NEW l1, NEW z1, NEW f1, NEW l2, NEW z2, NEW f2
  PROVE  WithLog(WithLog(m, l1, z1, f1), l2, z2, f2) = WithLog(m, l2, z2, f2)
  BY DEF WithLog, FixedServer

LEMMA WithSameLog ==
  ASSUME NEW s, NEW m \in FixedServer(s)
  PROVE  WithLog(m, m.log, m.size, m.front) = m
  BY DEF WithLog, FixedServer

LEMMA RingOfServer ==
  ASSUME NEW s, NEW m \in FixedServer(s), RingOK(m)
  PROVE  Ring(m.log, m.size, m.front)
  BY DEF Ring, RingOK, FixedServer

LEMMA AppendEntry ==
  ASSUME NEW s, NEW m \in FixedServer(s), RingOK(m), NEW e \in NormalEntry
  PROVE  \E size, front : /\ Ring(Append(m.log, e), size, front)
                          /\ raft_append_entry(s, m, e) = WithLog(m, Append(m.log, e), size, front)
                          /\ front = 0 \/ front = m.front
<1>1. e.type = "NORMAL"
  BY DEF NormalEntry
<1>2. /\ m.log \in Seq(NormalEntry) /\ m.size \in Nat \ {0} /\ m.front \in Nat
      /\ m.front < m.size /\ Len(m.log) <= m.size
  BY DEF FixedServer, RingOK
<1> DEFINE c == __ensurecapacity(m)
           log == Append(m.log, e)
<1>3. raft_append_entry(s, m, e) = [c EXCEPT !.log = Append(c.log, e)]
  BY <1>1 DEF raft_append_entry, raft_entry_is_voting_cfg_change, log_append_entry, raft_offer_log
<1>4. log \in Seq(NormalEntry) /\ Len(log) = Len(m.log) + 1 /\ Len(m.log) \in Nat
  <2>1. PICK q \in Seq(NormalEntry) : q = m.log
    BY <1>2
  <2> QED
    BY <2>1, AppendProperties
<1>5. CASE Len(m.log) < m.size
  <2>1. c = m
    BY <1>5 DEF __ensurecapacity
  <2>2. Ring(log, m.size, m.front)
    BY <1>2, <1>4, <1>5 DEF Ring
  <2>3. [m EXCEPT !.log = log] = WithLog(m, log, m.size, m.front)
    BY DEF WithLog, FixedServer
  <2> QED
    BY <1>3, <2>1, <2>2, <2>3
<1>6. CASE ~(Len(m.log) < m.size)
  <2>1. c = [m EXCEPT !.size = 2 * m.size, !.front = 0]
    BY <1>6 DEF __ensurecapacity
  <2>2. Len(log) <= 2 * m.size /\ 2 * m.size \in Nat \ {0} /\ 0 < 2 * m.size
    BY <1>2, <1>4
  <2>3. Ring(log, 2 * m.size, 0)
    BY <1>4, <2>2 DEF Ring
  <2>4. [c EXCEPT !.log = Append(c.log, e)] = WithLog(m, log, 2 * m.size, 0)
    BY <2>1 DEF WithLog, FixedServer
  <2> QED
    BY <1>3, <2>3, <2>4
<1> QED
  BY <1>5, <1>6

LEMMA AppendAll ==
  ASSUME NEW s, NEW m \in FixedServer(s), RingOK(m), NEW etys \in Seq(NormalEntry)
  PROVE  \E size, front : /\ Ring(m.log \o etys, size, front)
                          /\ Appending(s, m, etys)[Len(etys)]
                               = WithLog(m, m.log \o etys, size, front)
                          /\ front = 0 \/ front = m.front
<1> DEFINE after == Appending(s, m, etys)
           Log(k) == m.log \o SubSeq(etys, 1, k)
           Up(k) == \E size, front : /\ Ring(Log(k), size, front)
                                     /\ after[k] = WithLog(m, Log(k), size, front)
                                     /\ front = 0 \/ front = m.front
           N == {k \in Nat : k <= Len(etys) => Up(k)}
<1>1. Len(etys) \in Nat
  OBVIOUS
<1>2. \A k \in 0..Len(etys) : after[k] = IF k = 0 THEN m
                                         ELSE raft_append_entry(s, after[k - 1], etys[k])
  BY <1>1, AppendingDef
<1>3. PICK q \in Seq(NormalEntry) : q = m.log
  BY DEF FixedServer
<1> HIDE DEF after
<1>4. Up(0)
  <2>1. SubSeq(etys, 1, 0) = << >>
    BY SubSeqEmpty
  <2>2. q \o << >> = q
    BY ConcatEmptySeq
  <2>3. Log(0) = m.log
    BY <1>3, <2>1, <2>2
  <2>4. after[0] = m
    BY <1>1, <1>2
  <2>5. Ring(Log(0), m.size, m.front) /\ after[0] = WithLog(m, Log(0), m.size, m.front)
    BY <2>3, <2>4, WithSameLog, RingOfServer
  <2> HIDE DEF Log
  <2> QED
    BY <2>5
<1>5. ASSUME NEW k \in Nat, k + 1 <= Len(etys), Up(k) PROVE Up(k + 1)
  <2>1. /\ SubSeq(etys, 1, k) \in Seq(NormalEntry) /\ etys[k + 1] \in NormalEntry
        /\ SubSeq(etys, 1, k + 1) = Append(SubSeq(etys, 1, k), etys[k + 1])
    BY <1>5, SubSeqStep
  <2>2. PICK pre \in Seq(NormalEntry), e \in NormalEntry :
           pre = SubSeq(etys, 1, k) /\ e = etys[k + 1]
    BY <2>1
  <2>3. q \o Append(pre, e) = Append(q \o pre, e)
    BY ConcatAppend
  <2>4. Log(k) = q \o pre /\ Log(k + 1) = Append(q \o pre, e)
    BY <1>3, <2>1, <2>2, <2>3
  <2>5. PICK log : log = q \o pre
    OBVIOUS
  <2>6. PICK size, front : /\ Ring(log, size, front) /\ after[k] = WithLog(m, log, size, front)
                           /\ front = 0 \/ front = m.front
    BY <1>5, <2>4, <2>5
  <2>7. after[k + 1] = raft_append_entry(s, after[k], e)
    BY <1>1, <1>2, <1>5, <2>2
  <2>8. PICK a : a = after[k]
    OBVIOUS
  <2>9. a \in FixedServer(s) /\ RingOK(a) /\ a.log = log /\ a.front = front
    BY <2>6, <2>8, WithLogType
  <2>10. PICK z, f : /\ Ring(Append(a.log, e), z, f)
                     /\ raft_append_entry(s, a, e) = WithLog(a, Append(a.log, e), z, f)
                     /\ f = 0 \/ f = a.front
    BY <2>9, AppendEntry
  <2>11. WithLog(a, Append(log, e), z, f) = WithLog(m, Append(log, e), z, f)
    BY <2>6, <2>8, WithLogTwice
  <2> QED
    BY <2>4, <2>5, <2>6, <2>7, <2>8, <2>9, <2>10, <2>11
<1> HIDE DEF Up
<1>6. 0 \in N
  BY <1>4
<1>7. ASSUME NEW k \in Nat, k \in N PROVE k + 1 \in N
  BY <1>1, <1>5, <1>7
<1>8. Len(etys) \in N
  <2> HIDE DEF N
  <2> QED
    BY <1>1, <1>6, <1>7, NatInduct
<1>9. Up(Len(etys))
  BY <1>1, <1>8
<1>10. SubSeq(etys, 1, Len(etys)) = etys
  BY SubSeqFull
<1> QED
  BY <1>9, <1>10 DEF Up, after

\* Deleting keeps the entries before an index.
LEMMA DeleteFrom ==
  ASSUME NEW s, NEW m \in FixedServer(s), RingOK(m), NEW idx \in 1..Len(m.log)
  PROVE  /\ raft_delete_entry_from_idx(m, idx)
              = WithLog(m, SubSeq(m.log, 1, idx - 1), m.size, m.front)
         /\ Ring(SubSeq(m.log, 1, idx - 1), m.size, m.front)
         /\ Len(SubSeq(m.log, 1, idx - 1)) = idx - 1
<1> DEFINE keep == idx - 1
           etys == SubSeq(m.log, keep + 1, Len(m.log))
           after == Popping(m, etys)
<1>1. /\ m.log \in Seq(NormalEntry) /\ m.base = 0 /\ m.voting_cfg_change_log_idx = -1
      /\ Len(m.log) \in Nat
  BY DEF FixedServer
<1>2. keep \in Nat /\ keep < Len(m.log) /\ keep + 1 = idx
  BY <1>1
<1>3. PICK q \in Seq(NormalEntry) : q = m.log
  BY <1>1
<1>4. etys \in Seq(NormalEntry) /\ Len(etys) \in Nat
  <2>1. SubSeq(q, keep + 1, Len(q)) \in Seq(NormalEntry)
    BY <1>2, <1>3, SubSeqIn
  <2> QED
    BY <1>3, <2>1
<1>5. raft_delete_entry_from_idx(m, idx) = [after[Len(etys)] EXCEPT !.log = SubSeq(@, 1, keep)]
  <2>1. raft_delete_entry_from_idx(m, idx) = log_delete(m, idx)
    BY <1>1 DEF raft_delete_entry_from_idx
  <2>2. ~(idx < m.base) /\ ~(idx <= m.base) /\ idx - 1 - m.base = keep
    BY <1>1
  <2> HIDE DEF keep
  <2> QED
    BY <2>1, <2>2 DEF log_delete
<1> HIDE DEF etys
<1>6. \A k \in 0..Len(etys) : after[k] = IF k = 0 THEN m
                                ELSE raft_pop_log(after[k - 1], etys[Len(etys) + 1 - k])
  BY <1>4, PoppingDef
<1> HIDE DEF after
<1>7. after[Len(etys)] = m
  <2> DEFINE N == {k \in Nat : k <= Len(etys) => after[k] = m}
  <2>1. 0 \in N
    BY <1>4, <1>6
  <2>2. ASSUME NEW k \in Nat, k \in N PROVE k + 1 \in N
    <3> SUFFICES ASSUME k + 1 <= Len(etys) PROVE after[k + 1] = m
      OBVIOUS
    <3>1. after[k] = m
      BY <2>2, <1>4
    <3>2. after[k + 1] = raft_pop_log(after[k], etys[Len(etys) + 1 - (k + 1)])
      BY <1>4, <1>6
    <3>3. etys[Len(etys) + 1 - (k + 1)] \in NormalEntry
      BY <1>4
    <3>4. etys[Len(etys) + 1 - (k + 1)].type = "NORMAL"
      BY <3>3 DEF NormalEntry
    <3> QED
      BY <3>1, <3>2, <3>4 DEF raft_pop_log
  <2>3. Len(etys) \in N
    <3> HIDE DEF N
    <3> QED
      BY <1>4, <2>1, <2>2, NatInduct
  <2> QED
    BY <1>4, <2>3
<1>8. [m EXCEPT !.log = SubSeq(@, 1, keep)] = WithLog(m, SubSeq(m.log, 1, keep), m.size, m.front)
  BY DEF WithLog, FixedServer
<1>9. SubSeq(q, 1, keep) \in Seq(NormalEntry) /\ Len(SubSeq(q, 1, keep)) = keep
  BY <1>2, <1>3, SubSeqIn
<1>10. Ring(SubSeq(m.log, 1, keep), m.size, m.front)
  BY <1>1, <1>2, <1>3, <1>9, RingOfServer DEF Ring
<1> QED
  BY <1>3, <1>5, <1>7, <1>8, <1>9, <1>10

-----------------------------------------------------------------------------
(* Votes.                                                                  *)

LEMMA MembersFinite ==
  ASSUME ServerAssumption
  PROVE  IsFiniteSet(InitialMembers) /\ Cardinality(InitialMembers) \in Nat
  BY FS_Subset, FS_CardinalityType DEF ServerAssumption

\* Two majorities have a member in common.
LEMMA MajoritiesMeet ==
  ASSUME ServerAssumption, NEW Q \in SUBSET InitialMembers, NEW R \in SUBSET InitialMembers,
         Majority(Q), Majority(R)
  PROVE  \E p \in Q : p \in R
<1> SUFFICES ASSUME Q \cap R = {} PROVE FALSE
  OBVIOUS
<1>1. IsFiniteSet(InitialMembers) /\ Cardinality(InitialMembers) \in Nat
  BY MembersFinite
<1>2. IsFiniteSet(Q) /\ IsFiniteSet(R) /\ IsFiniteSet(Q \cup R) /\ IsFiniteSet(Q \cap R)
  BY <1>1, FS_Subset
<1>3. Cardinality(Q \cup R) = Cardinality(Q) + Cardinality(R) - Cardinality(Q \cap R)
  BY <1>2, FS_Union
<1>4. Cardinality(Q \cap R) = 0
  BY FS_EmptySet
<1>5. Cardinality(Q \cup R) <= Cardinality(InitialMembers)
  BY <1>1, FS_Subset
<1>6. Cardinality(Q) \in Nat /\ Cardinality(R) \in Nat
  BY <1>2, FS_CardinalityType
<1>7. Cardinality(Q \cup R) = Cardinality(Q) + Cardinality(R)
  BY <1>3, <1>4, <1>6
<1> QED
  BY <1>1, <1>5, <1>6, <1>7 DEF Majority

\* A vote of p for c in term t that p is free to give.
FreshVote(p, c, t) ==
  /\ srv[p].current_term <= t
  /\ srv[p].current_term = t => srv[p].voted_for = NoNode
  /\ srv'[p].current_term = t /\ srv'[p].voted_for = c

\* What a step may do to the votes.
VoteStep ==
  \A p \in InitialMembers :
    /\ srv[p].current_term <= srv'[p].current_term
    /\ srv'[p].current_term = srv[p].current_term /\ srv[p].voted_for # NoNode
         => srv'[p].voted_for = srv[p].voted_for
    /\ \A c \in InitialMembers, t \in 0..MaxTerm :
         HasVoted(p, c, t)' => HasVoted(p, c, t) \/ FreshVote(p, c, t)
    /\ srv'[p].state = "CANDIDATE" =>
         \/ srv[p].state = "CANDIDATE" /\ srv'[p].current_term = srv[p].current_term
         \/ srv[p].current_term < srv'[p].current_term

LEMMA FixedFacts ==
  ASSUME ServerAssumption, BoundAssumption, NEW s \in InitialMembers
  PROVE  /\ s \in Server /\ s # NoNode /\ MembersOf(s) = InitialMembers
         /\ FixedTypes => srv[s] \in FixedServer(s) /\ RingOK(srv[s])
         /\ FixedTypes' => srv'[s] \in FixedServer(s) /\ RingOK(srv'[s])
         /\ \A m \in FixedServer(s) :
              /\ m.current_term \in Nat /\ m.current_term \in 0..MaxTerm
              /\ m.voted_for \in InitialMembers \cup {NoNode}
              /\ m.log \in Seq(NormalEntry) /\ Len(m.log) \in Nat /\ m.base = 0
              /\ m.nodes \in [InitialMembers -> MemberNode(s)]
<1>1. s \in Server /\ s # NoNode /\ MembersOf(s) = InitialMembers
  BY DEF ServerAssumption, MembersOf
<1>2. FixedTypes => srv[s] \in FixedServer(s) /\ RingOK(srv[s])
  BY <1>1 DEF FixedTypes
<1>3. FixedTypes' => srv'[s] \in FixedServer(s) /\ RingOK(srv'[s])
  BY <1>1 DEF FixedTypes, RingOK
<1>4. \A m \in FixedServer(s) :
        /\ m.current_term \in Nat /\ m.current_term \in 0..MaxTerm
        /\ m.voted_for \in InitialMembers \cup {NoNode}
        /\ m.log \in Seq(NormalEntry) /\ Len(m.log) \in Nat /\ m.base = 0
        /\ m.nodes \in [InitialMembers -> MemberNode(s)]
  BY <1>1 DEF FixedServer, BoundAssumption
<1> QED
  BY <1>1, <1>2, <1>3, <1>4

LEMMA VotesKept ==
  ASSUME ServerAssumption, BoundAssumption, FixedTypes, FixedTypes', VoteInv, VoteStep
  PROVE  VoteInv'
<1> SUFFICES ASSUME NEW p \in InitialMembers, NEW s \in InitialMembers, NEW t \in 0..MaxTerm,
                    HasVoted(p, s, t)'
             PROVE  /\ t <= srv'[p].current_term
                    /\ t = srv'[p].current_term => srv'[p].voted_for = s
                    /\ \A c \in InitialMembers : HasVoted(p, c, t)' => c = s
  BY DEF VoteInv
<1>0. /\ srv[p].current_term \in Nat /\ srv'[p].current_term \in Nat /\ t \in Nat
      /\ s # NoNode
  BY FixedFacts DEF BoundAssumption
<1>1. /\ srv[p].current_term <= srv'[p].current_term
      /\ srv'[p].current_term = srv[p].current_term /\ srv[p].voted_for # NoNode
           => srv'[p].voted_for = srv[p].voted_for
      /\ \A c \in InitialMembers :
           HasVoted(p, c, t)' => HasVoted(p, c, t) \/ FreshVote(p, c, t)
  BY DEF VoteStep
<1>2. \A c \in InitialMembers : HasVoted(p, c, t) =>
        /\ t <= srv[p].current_term
        /\ t = srv[p].current_term => srv[p].voted_for = c
        /\ \A d \in InitialMembers : HasVoted(p, d, t) => d = c
  BY DEF VoteInv
<1>3. \A c \in InitialMembers : c # NoNode
  BY DEF ServerAssumption
<1> HIDE DEF HasVoted
<1>4. CASE HasVoted(p, s, t)
  <2>1. /\ t <= srv'[p].current_term
        /\ t = srv'[p].current_term => srv'[p].voted_for = s
    BY <1>0, <1>1, <1>2, <1>4
  <2>2. ASSUME NEW c \in InitialMembers, HasVoted(p, c, t)' PROVE c = s
    <3>1. ~FreshVote(p, c, t)
      BY <1>0, <1>2, <1>4 DEF FreshVote
    <3> QED
      BY <1>1, <1>2, <1>4, <2>2, <3>1
  <2> QED
    BY <2>1, <2>2
<1>5. CASE FreshVote(p, s, t)
  <2>1. srv'[p].current_term = t /\ srv'[p].voted_for = s
    BY <1>5 DEF FreshVote
  <2>2. ASSUME NEW c \in InitialMembers, HasVoted(p, c, t)' PROVE c = s
    <3>1. ~HasVoted(p, c, t)
      BY <1>0, <1>2, <1>3, <1>5 DEF FreshVote
    <3>2. FreshVote(p, c, t)
      BY <1>1, <2>2, <3>1
    <3> QED
      BY <2>1, <3>2 DEF FreshVote
  <2> QED
    BY <1>0, <2>1, <2>2
<1> QED
  BY <1>1, <1>4, <1>5

\* Who has won an election stays its winner.
LEMMA ElectedKept ==
  ASSUME ServerAssumption, BoundAssumption, FixedTypes, FixedTypes', VoteInv, VoteStep,
         NEW s \in InitialMembers, NEW t \in 0..MaxTerm, Elected(s, t)
  PROVE  Elected(s, t)'
<1>0. t \in Nat /\ \A p \in InitialMembers : srv[p].current_term \in Nat /\ srv'[p].current_term \in Nat
  BY FixedFacts DEF BoundAssumption
<1>1. t <= srv'[s].current_term
  BY <1>0 DEF Elected, VoteStep
<1>2. t = srv'[s].current_term => srv'[s].state # "CANDIDATE"
  BY <1>0 DEF Elected, VoteStep
<1>3. CASE InitialMembers = {s}
  BY <1>1, <1>2, <1>3 DEF Elected
<1>4. CASE InitialMembers # {s}
  <2>1. PICK Q \in SUBSET InitialMembers :
          /\ Majority(Q)
          /\ \A p \in Q :
               /\ t <= srv[p].current_term
               /\ t = srv[p].current_term => srv[p].voted_for # NoNode
               /\ \A c \in InitialMembers : HasVoted(p, c, t) => c = s
    BY <1>4 DEF Elected
  <2>2. ASSUME NEW p \in Q
        PROVE  /\ t <= srv'[p].current_term
               /\ t = srv'[p].current_term => srv'[p].voted_for # NoNode
               /\ \A c \in InitialMembers : HasVoted(p, c, t)' => c = s
    <3>1. /\ t <= srv[p].current_term
          /\ t = srv[p].current_term => srv[p].voted_for # NoNode
          /\ \A c \in InitialMembers : HasVoted(p, c, t) => c = s
      BY <2>1
    <3>2. /\ srv[p].current_term <= srv'[p].current_term
          /\ srv'[p].current_term = srv[p].current_term /\ srv[p].voted_for # NoNode
               => srv'[p].voted_for = srv[p].voted_for
          /\ \A c \in InitialMembers :
               HasVoted(p, c, t)' => HasVoted(p, c, t) \/ FreshVote(p, c, t)
      BY DEF VoteStep
    <3>3. \A c \in InitialMembers : ~FreshVote(p, c, t)
      BY <1>0, <3>1 DEF FreshVote
    <3> HIDE DEF HasVoted
    <3> QED
      BY <1>0, <3>1, <3>2, <3>3
  <2>3. Majority(Q)'
    BY <2>1 DEF Majority
  <2> QED
    BY <1>1, <1>2, <2>2, <2>3 DEF Elected
<1> QED
  BY <1>3, <1>4

\* A leader is the winner of its term, and the only one.
LEMMA LeaderElected ==
  ASSUME ServerAssumption, BoundAssumption, ElectionInv, NEW s \in InitialMembers,
         srv[s].state = "LEADER"
  PROVE  /\ Elected(s, srv[s].current_term)
         /\ \A l \in InitialMembers : Elected(l, srv[s].current_term) => l = s
<1> DEFINE t == srv[s].current_term
<1>0. /\ t \in 0..MaxTerm /\ t \in Nat
      /\ \A p \in InitialMembers : srv[p].current_term \in Nat /\ p # NoNode
  BY FixedFacts DEF BoundAssumption, ElectionInv
<1>1. CASE InitialMembers = {s}
  BY <1>0, <1>1 DEF Elected
<1>2. CASE InitialMembers # {s}
  <2>1. srv[s].voted_for = s /\ Majority(Voters(s))
    BY <1>2 DEF ElectionInv, LeaderInv
  <2>2. \A p \in Voters(s) : p \in InitialMembers /\ HasVoted(p, s, t)
    BY <2>1 DEF Voters, HasVoted
  <2>3. \A p \in Voters(s) :
          /\ t <= srv[p].current_term
          /\ t = srv[p].current_term => srv[p].voted_for # NoNode
          /\ \A c \in InitialMembers : HasVoted(p, c, t) => c = s
    BY <1>0, <2>2 DEF ElectionInv, VoteInv
  <2>4. Elected(s, t)
    BY <1>0, <2>1, <2>2, <2>3 DEF Elected
  <2>5. ASSUME NEW l \in InitialMembers, Elected(l, t) PROVE l = s
    <3>1. CASE InitialMembers = {l}
      BY <3>1
    <3>2. CASE InitialMembers # {l}
      <4>1. PICK Q \in SUBSET InitialMembers :
              Majority(Q) /\ \A p \in Q : \A c \in InitialMembers : HasVoted(p, c, t) => c = l
        BY <2>5, <3>2 DEF Elected
      <4>2. PICK p \in Q : p \in Voters(s)
        BY <2>1, <2>2, <4>1, MajoritiesMeet
      <4> QED
        BY <2>2, <4>1, <4>2
    <3> QED
      BY <3>1, <3>2
  <2> QED
    BY <2>4, <2>5
<1> QED
  BY <1>1, <1>2

\* The servers of the state are those of the cluster.
LEMMA ServersAre ==
  ASSUME FixedTypes
  PROVE  Servers = Server
  BY DEF FixedTypes, Servers

LEMMA OneLeader ==
  ASSUME ServerAssumption, BoundAssumption, ElectionInv
  PROVE  ElectionSafety
<1>0. Servers = Server
  BY ServersAre DEF ElectionInv
<1> SUFFICES ASSUME NEW s \in Server, NEW t \in Server, s # t,
                    srv[s].state = "LEADER", srv[t].state = "LEADER",
                    srv[s].current_term = srv[t].current_term
             PROVE  FALSE
  BY <1>0 DEF ElectionSafety
<1>1. s \in InitialMembers /\ t \in InitialMembers
  BY DEF ElectionInv, FixedTypes
<1>2. Elected(t, srv[t].current_term)
  BY <1>1, LeaderElected
<1> QED
  BY <1>1, <1>2, LeaderElected

\* What a handler of s may leave in the server record, and send.
VotesOK(s, r, out) ==
  /\ srv[s].current_term <= r.current_term
  /\ r.current_term = srv[s].current_term =>
       r.voted_for = srv[s].voted_for \/ srv[s].voted_for = NoNode
  /\ \A x \in out : x.kind = "rvr" /\ x.vote_granted = 1 =>
       x.src = s /\ x.term = r.current_term /\ x.dst = r.voted_for
  /\ r.state \in {"CANDIDATE", "LEADER"} =>
       \A p \in InitialMembers \ {s} :
         r.nodes[p].voted_for_me => HasVoted(p, s, r.current_term)
  /\ r.state = "CANDIDATE" =>
       /\ r.voted_for = s
       /\ \/ srv[s].state = "CANDIDATE" /\ r.current_term = srv[s].current_term
          \/ srv[s].current_term < r.current_term
  /\ r.state = "LEADER" =>
       \/ InitialMembers = {s}
       \/ /\ r.voted_for = s
          /\ Majority({p \in InitialMembers : p = s \/ r.nodes[p].voted_for_me})

LEMMA VotesOfServer ==
  ASSUME ServerAssumption, BoundAssumption, ElectionInv, FixedTypes',
         NEW s \in InitialMembers, NEW r, NEW out,
         srv'[s] = r, \A p \in InitialMembers \ {s} : srv'[p] = srv[p],
         BagToSet(msgs)' \subseteq BagToSet(msgs) \cup out, VotesOK(s, r, out)
  PROVE  VoteStep /\ ElectionInv'
<1>0. /\ s \in Server /\ DOMAIN srv = Server /\ InitialMembers \subseteq Server
      /\ FixedTypes /\ VoteInv /\ LeaderInv
  BY DEF ServerAssumption, ElectionInv, FixedTypes
<1>1. srv'[s] = r /\ \A p \in InitialMembers \ {s} : srv'[p] = srv[p]
  BY <1>0
<1>2. /\ \A p \in InitialMembers : srv[p].current_term \in Nat /\ p # NoNode
      /\ r.current_term \in Nat
  <2>1. \A p \in InitialMembers : srv[p].current_term \in Nat /\ srv'[p].current_term \in Nat /\ p # NoNode
    BY <1>0, FixedFacts
  <2> QED
    BY <1>1, <2>1
<1>3. ASSUME NEW p \in InitialMembers, NEW c \in InitialMembers, NEW t \in 0..MaxTerm,
             HasVoted(p, c, t)'
      PROVE  HasVoted(p, c, t) \/ FreshVote(p, c, t)
  <2>0. /\ srv[s].current_term <= r.current_term
        /\ r.current_term = srv[s].current_term =>
             r.voted_for = srv[s].voted_for \/ srv[s].voted_for = NoNode
    BY DEF VotesOK
  <2>1. CASE srv'[p].current_term = t /\ srv'[p].voted_for = c
    <3>1. CASE p # s
      BY <1>1, <2>1, <3>1 DEF HasVoted
    <3>2. CASE p = s
      <4>1. CASE srv[s].current_term = t /\ srv[s].voted_for = c
        BY <3>2, <4>1 DEF HasVoted
      <4>2. CASE ~(srv[s].current_term = t /\ srv[s].voted_for = c)
        BY <1>1, <1>2, <2>0, <2>1, <3>2, <4>2 DEF FreshVote
      <4> QED
        BY <4>1, <4>2
    <3> QED
      BY <3>1, <3>2
  <2>2. CASE \E x \in BagToSet(msgs)' :
               /\ x.kind = "rvr" /\ x.src = p /\ x.dst = c /\ x.term = t
               /\ x.vote_granted = 1
    <3>1. PICK x \in BagToSet(msgs)' : /\ x.kind = "rvr" /\ x.src = p /\ x.dst = c /\ x.term = t
                                       /\ x.vote_granted = 1
      BY <2>2
    <3>2. CASE x \in BagToSet(msgs)
      BY <3>1, <3>2 DEF HasVoted
    <3>3. CASE x \in out
      <4>1. p = s /\ t = r.current_term /\ c = r.voted_for
        BY <3>1, <3>3 DEF VotesOK
      <4> QED
        BY <1>1, <2>1, <4>1
    <3> QED
      BY <3>2, <3>3
  <2>3. CASE /\ srv'[c].state \in {"CANDIDATE", "LEADER"} /\ srv'[c].current_term = t
             /\ p # c /\ srv'[c].nodes[p].voted_for_me
    <3>1. CASE c # s
      BY <1>1, <2>3, <3>1 DEF HasVoted
    <3>2. CASE c = s
      BY <1>1, <2>3, <3>2 DEF VotesOK
    <3> QED
      BY <3>1, <3>2
  <2> QED
    BY <1>3, <2>1, <2>2, <2>3 DEF HasVoted
<1>4. ASSUME NEW p \in InitialMembers
      PROVE  /\ srv[p].current_term <= srv'[p].current_term
             /\ srv'[p].current_term = srv[p].current_term /\ srv[p].voted_for # NoNode
                  => srv'[p].voted_for = srv[p].voted_for
             /\ srv'[p].state = "CANDIDATE" =>
                  \/ srv[p].state = "CANDIDATE" /\ srv'[p].current_term = srv[p].current_term
                  \/ srv[p].current_term < srv'[p].current_term
  BY <1>1, <1>2 DEF VotesOK
<1>5. VoteStep
  BY <1>3, <1>4 DEF VoteStep
<1>6. VoteInv'
  BY <1>0, <1>5, VotesKept
<1>7. LeaderInv'
  <2> SUFFICES ASSUME NEW p \in InitialMembers
               PROVE  /\ srv'[p].state = "CANDIDATE" => srv'[p].voted_for = p
                      /\ srv'[p].state = "LEADER" =>
                           \/ InitialMembers = {p}
                           \/ srv'[p].voted_for = p /\ Majority(Voters(p)')
    BY DEF LeaderInv, Majority
  <2>1. CASE p = s
    BY <1>1, <2>1 DEF VotesOK, Voters
  <2>2. CASE p # s
    <3>1. srv'[p] = srv[p] /\ Voters(p)' = Voters(p)
      BY <1>1, <2>2 DEF Voters
    <3> QED
      BY <1>0, <3>1 DEF LeaderInv
  <2> QED
    BY <2>1, <2>2
<1> QED
  BY <1>5, <1>6, <1>7 DEF ElectionInv

-----------------------------------------------------------------------------
(* Logs.                                                                   *)

LeadersWin ==
  \A s \in InitialMembers : srv[s].state = "LEADER" =>
    /\ Elected(s, srv[s].current_term)
    /\ \A l \in InitialMembers : Elected(l, srv[s].current_term) => l = s

LEMMA WinnersLead ==
  ServerAssumption /\ BoundAssumption /\ ElectionInv => LeadersWin
  BY LeaderElected DEF LeadersWin

LEMMA WinnersLeadNext ==
  ServerAssumption /\ BoundAssumption /\ ElectionInv' => LeadersWin'
<1>1. (ServerAssumption /\ BoundAssumption /\ ElectionInv => LeadersWin)'
  BY WinnersLead, PTL
<1> QED
  BY <1>1

\* What a handler of s may do to the log, and send of it.
LogOK(s, r, out) ==
  /\ r.state = "LEADER" =>
       \/ InitialMembers = {s}
       \/ /\ srv[s].state \in {"CANDIDATE", "LEADER"}
          /\ r.current_term = srv[s].current_term
  /\ \/ r.log = srv[s].log
     \/ r.state # "LEADER" /\ LogLinks(r.log) \subseteq Links
     \/ /\ srv[s].state = "LEADER" /\ r.state = "LEADER"
        /\ r.current_term = srv[s].current_term
        /\ \E e \in NormalEntry : e.term = r.current_term /\ r.log = Append(srv[s].log, e)
  /\ \A x \in out : x.kind = "ae" =>
       /\ r.state = "LEADER" /\ x.src = s /\ x.term = r.current_term
       /\ AeLinks(x) \subseteq LogLinks(r.log)
       /\ x.prev_log_idx = 0 => x.prev_log_term = 0

Link(i, e, t) == [idx |-> i, ety |-> e, prev |-> t]

LEMMA LogLinksDef ==
  ASSUME NEW log, NEW a
  PROVE  a \in LogLinks(log) <=> \E i \in 1..Len(log) : a = Link(i, log[i], PrevTerm(log, i))
  BY DEF LogLinks, Link

LEMMA LinkFields ==
  ASSUME NEW i, NEW e, NEW t
  PROVE  Link(i, e, t).idx = i /\ Link(i, e, t).ety = e /\ Link(i, e, t).prev = t
  BY DEF Link

\* Appending adds a link and keeps the others.
LEMMA LinksOfAppend ==
  ASSUME NEW log \in Seq(NormalEntry), NEW e \in NormalEntry
  PROVE  LogLinks(Append(log, e)) =
           LogLinks(log) \cup {Link(Len(log) + 1, e, PrevTerm(Append(log, e), Len(log) + 1))}
<1> DEFINE new == Append(log, e)
           n == Len(log)
<1>1. n \in Nat /\ Len(new) = n + 1 /\ new[n + 1] = e /\ \A i \in 1..n : new[i] = log[i]
  BY AppendProperties
<1> HIDE DEF new
<1>2. \A i \in 1..n : PrevTerm(new, i) = PrevTerm(log, i)
  BY <1>1 DEF PrevTerm
<1>3. \A a : a \in LogLinks(new) <=>
        a \in LogLinks(log) \/ a = Link(n + 1, e, PrevTerm(new, n + 1))
  <2>1. \A i : i \in 1..(n + 1) <=> i \in 1..n \/ i = n + 1
    BY <1>1
  <2> QED
    BY <1>1, <1>2, <2>1, LogLinksDef
<1> QED
  BY <1>3 DEF new

LEMMA LinkTypes ==
  ASSUME ServerAssumption, BoundAssumption, FixedTypes, NEW a \in Links
  PROVE  a.ety \in NormalEntry /\ a.ety.term \in 0..MaxTerm
<1>1. CASE \E s \in InitialMembers : a \in LogLinks(srv[s].log)
  <2>1. PICK s \in InitialMembers : a \in LogLinks(srv[s].log)
    BY <1>1
  <2>2. srv[s].log \in Seq(NormalEntry)
    BY FixedFacts
  <2>3. a.ety \in NormalEntry
    BY <2>1, <2>2 DEF LogLinks
  <2> QED
    BY <2>3 DEF NormalEntry
<1>2. CASE \E x \in BagToSet(msgs) : x.kind = "ae" /\ a \in AeLinks(x)
  <2>1. PICK x \in BagToSet(msgs) : x.kind = "ae" /\ a \in AeLinks(x)
    BY <1>2
  <2>2. x \in AeMsg
    BY <2>1 DEF FixedTypes, RvMsg, RvrMsg, AerMsg
  <2>3. x.entries \in Seq(NormalEntry)
    BY <2>2 DEF AeMsg
  <2>4. a.ety \in NormalEntry
    BY <2>1, <2>3 DEF AeLinks
  <2> QED
    BY <2>4 DEF NormalEntry
<1> QED
  BY <1>1, <1>2 DEF Links

LEMMA LinksDef ==
  /\ \A a : a \in Links <=> \/ \E p \in InitialMembers : a \in LogLinks(srv[p].log)
                            \/ \E x \in BagToSet(msgs) : x.kind = "ae" /\ a \in AeLinks(x)
  /\ \A a : a \in Links' <=> \/ \E p \in InitialMembers : a \in LogLinks(srv'[p].log)
                             \/ \E x \in BagToSet(msgs)' : x.kind = "ae" /\ a \in AeLinks(x)
  BY DEF Links

LEMMA LogsOfServer ==
  ASSUME ServerAssumption, BoundAssumption, ElectionInv, ElectionInv', VoteStep, LogInv,
         NEW s \in InitialMembers, NEW r, NEW out,
         srv'[s] = r, \A p \in InitialMembers \ {s} : srv'[p] = srv[p],
         BagToSet(msgs)' \subseteq BagToSet(msgs) \cup out, LogOK(s, r, out)
  PROVE  LogInv'
<1>0. /\ s \in Server /\ DOMAIN srv = Server /\ InitialMembers \subseteq Server
      /\ FixedTypes /\ FixedTypes' /\ VoteInv /\ LinksUnique /\ LinksElected
  BY DEF ServerAssumption, ElectionInv, FixedTypes, LogInv
<1>1. srv'[s] = r /\ \A p \in InitialMembers \ {s} : srv'[p] = srv[p]
  BY <1>0
<1> DEFINE old == LogLinks(srv[s].log)
           own == LogLinks(r.log)
<1>2. old \subseteq Links
  BY LinksDef
<1>3. Links' \subseteq Links \cup own /\ own \subseteq Links'
  <2>1. ASSUME NEW a \in Links' PROVE a \in Links \cup own
    <3>1. CASE \E p \in InitialMembers : a \in LogLinks(srv'[p].log)
      BY <1>1, <3>1, LinksDef
    <3>2. CASE \E x \in BagToSet(msgs)' : x.kind = "ae" /\ a \in AeLinks(x)
      <4>1. PICK x \in BagToSet(msgs)' : x.kind = "ae" /\ a \in AeLinks(x)
        BY <3>2
      <4>2. CASE x \in BagToSet(msgs)
        BY <4>1, <4>2, LinksDef
      <4>3. CASE x \in out
        BY <4>1, <4>3 DEF LogOK
      <4> QED
        BY <4>2, <4>3
    <3> QED
      BY <3>1, <3>2, LinksDef
  <2>2. own \subseteq Links'
    BY <1>1, LinksDef
  <2> QED
    BY <2>1, <2>2
<1>4. \A a \in Links : a.ety.term \in 0..MaxTerm
  BY <1>0, LinkTypes
<1>5. LeadersWin /\ LeadersWin'
  BY WinnersLead, WinnersLeadNext
<1>6. \A p \in InitialMembers, t \in 0..MaxTerm : Elected(p, t) => Elected(p, t)'
  BY <1>0, ElectedKept
<1>7. \A a \in Links : \E p \in InitialMembers : Elected(p, a.ety.term)'
  BY <1>0, <1>4, <1>6 DEF LinksElected
<1>8. \A x \in BagToSet(msgs)' : x.kind = "ae" =>
        Elected(x.src, x.term)' /\ (x.prev_log_idx = 0 => x.prev_log_term = 0)
  <2> SUFFICES ASSUME NEW x \in BagToSet(msgs)', x.kind = "ae"
               PROVE  Elected(x.src, x.term)' /\ (x.prev_log_idx = 0 => x.prev_log_term = 0)
    OBVIOUS
  <2>1. CASE x \in BagToSet(msgs)
    <3>1. x \in AeMsg
      BY <1>0, <2>1 DEF FixedTypes, RvMsg, RvrMsg, AerMsg
    <3>2. x.src \in InitialMembers /\ x.term \in 0..MaxTerm
      BY <3>1 DEF AeMsg
    <3>3. Elected(x.src, x.term) /\ (x.prev_log_idx = 0 => x.prev_log_term = 0)
      BY <1>0, <2>1 DEF LinksElected
    <3> QED
      BY <1>6, <3>2, <3>3
  <2>2. CASE x \in out
    <3>1. /\ r.state = "LEADER" /\ x.src = s /\ x.term = r.current_term
          /\ x.prev_log_idx = 0 => x.prev_log_term = 0
      BY <2>2 DEF LogOK
    <3>2. PICK t : t = srv'[s].current_term
      OBVIOUS
    <3>3. Elected(s, t)'
      BY <1>1, <1>5, <3>1, <3>2 DEF LeadersWin
    <3>4. x.src = s /\ x.term = t
      BY <1>1, <3>1, <3>2
    <3> QED
      BY <3>1, <3>3, <3>4
  <2> QED
    BY <2>1, <2>2
\* The leaders that are not s
<1>9. ASSUME NEW p \in InitialMembers \ {s}, srv'[p].state = "LEADER", NEW a \in Links,
             a.ety.term = srv'[p].current_term
      PROVE  a \in LogLinks(srv'[p].log)
  BY <1>0, <1>1, <1>9 DEF LinksElected
\* s itself
<1>10. ASSUME r.state = "LEADER", NEW a \in Links, a.ety.term = r.current_term,
              ~(r.state # "LEADER" /\ own \subseteq Links)
       PROVE  a \in old
  <2>1. CASE InitialMembers = {s}
    <3>1. \A x \in BagToSet(msgs) : x.kind # "ae"
      <4> SUFFICES ASSUME NEW x \in BagToSet(msgs), x.kind = "ae" PROVE FALSE
        OBVIOUS
      <4>1. x \in AeMsg /\ x.src # x.dst
        BY <1>0 DEF FixedTypes, RvMsg, RvrMsg, AerMsg
      <4> QED
        BY <2>1, <4>1 DEF AeMsg
    <3> QED
      BY <2>1, <3>1, LinksDef
  <2>2. CASE srv[s].state = "LEADER" /\ r.current_term = srv[s].current_term
    BY <1>0, <1>10, <2>2 DEF LinksElected
  <2>3. CASE InitialMembers # {s} /\ srv[s].state = "CANDIDATE" /\ r.current_term = srv[s].current_term
    <3>1. PICK l \in InitialMembers : Elected(l, a.ety.term)
      BY <1>0 DEF LinksElected
    <3>2. Elected(l, r.current_term)'
      BY <1>4, <1>6, <1>10, <3>1
    <3>3. l = s
      BY <1>1, <1>5, <1>10, <3>2 DEF LeadersWin
    <3> QED
      BY <1>10, <2>3, <3>1, <3>3 DEF Elected
  <2> QED
    BY <1>10, <2>1, <2>2, <2>3 DEF LogOK
<1>11. CASE own \subseteq Links /\ (r.log = srv[s].log \/ r.state # "LEADER")
  <2>1. Links' \subseteq Links
    BY <1>3, <1>11
  <2>2. LinksUnique'
    BY <1>0, <2>1 DEF LinksUnique
  <2>3. ASSUME NEW p \in InitialMembers, srv'[p].state = "LEADER", NEW a \in Links',
               a.ety.term = srv'[p].current_term
        PROVE  a \in LogLinks(srv'[p].log)
    <3>1. CASE p # s
      BY <1>9, <2>1, <2>3, <3>1
    <3>2. CASE p = s
      BY <1>1, <1>10, <1>11, <2>1, <2>3, <3>2
    <3> QED
      BY <3>1, <3>2
  <2> QED
    BY <1>7, <1>8, <2>1, <2>2, <2>3 DEF LogInv, LinksElected
<1>12. ASSUME srv[s].state = "LEADER", r.state = "LEADER", r.current_term = srv[s].current_term,
              NEW e \in NormalEntry, e.term = r.current_term, r.log = Append(srv[s].log, e)
       PROVE  LogInv'
  <2>0. srv[s].log \in Seq(NormalEntry) /\ Len(srv[s].log) \in Nat
    BY <1>0, FixedFacts
  <2>1. PICK log \in Seq(NormalEntry) : log = srv[s].log
    BY <2>0
  <2>2. PICK new : new = Link(Len(log) + 1, e, PrevTerm(Append(log, e), Len(log) + 1))
    OBVIOUS
  <2>3. own = old \cup {new}
    BY <1>12, <2>1, <2>2, LinksOfAppend
  <2>4. new.idx = Len(log) + 1 /\ new.ety = e
    BY <2>2, LinkFields
  <2>5. Links' \subseteq Links \cup {new} /\ new \in own /\ old \subseteq own
    BY <1>2, <1>3, <2>3
  <2>6. ASSUME NEW a \in Links, a.ety.term = e.term PROVE a \in old /\ a.idx # new.idx
    <3>1. a \in old
      BY <1>0, <1>12, <2>6 DEF LinksElected
    <3>2. PICK i \in 1..Len(log) : a = Link(i, log[i], PrevTerm(log, i))
      BY <2>1, <3>1, LogLinksDef
    <3> QED
      BY <2>0, <2>1, <2>4, <3>1, <3>2, LinkFields
  <2>7. LinksUnique'
    <3> SUFFICES ASSUME NEW a \in Links', NEW b \in Links', a.idx = b.idx,
                        a.ety.term = b.ety.term
                 PROVE  a = b
      BY DEF LinksUnique
    <3>1. CASE a \in Links /\ b \in Links
      BY <1>0, <3>1 DEF LinksUnique
    <3>2. CASE a = new \/ b = new
      BY <2>4, <2>5, <2>6, <3>2
    <3> QED
      BY <2>5, <3>1, <3>2
  <2>8. \E p \in InitialMembers : Elected(p, new.ety.term)'
    <3>1. Elected(s, srv[s].current_term) /\ srv[s].current_term \in 0..MaxTerm
      BY <1>0, <1>5, <1>12, FixedFacts DEF LeadersWin
    <3> QED
      BY <1>6, <1>12, <2>4, <3>1
  <2>9. ASSUME NEW p \in InitialMembers, srv'[p].state = "LEADER", NEW a \in Links',
               a.ety.term = srv'[p].current_term
        PROVE  a \in LogLinks(srv'[p].log)
    <3>1. CASE p # s
      <4>1. a # new
        <5> SUFFICES ASSUME a = new PROVE FALSE
          OBVIOUS
        <5>1. srv[p].state = "LEADER" /\ srv[p].current_term = srv[s].current_term
          BY <1>1, <1>12, <2>4, <2>9, <3>1
        <5> QED
          BY <1>5, <1>12, <3>1, <5>1 DEF LeadersWin
      <4> QED
        BY <1>9, <2>5, <2>9, <3>1, <4>1
    <3>2. CASE p = s
      BY <1>1, <1>10, <1>12, <2>5, <2>9, <3>2
    <3> QED
      BY <3>1, <3>2
  <2> QED
    BY <1>7, <1>8, <2>5, <2>7, <2>8, <2>9 DEF LogInv, LinksElected
<1>13. r.log = srv[s].log => own \subseteq Links
  BY <1>2
<1> QED
  BY <1>11, <1>12, <1>13 DEF LogOK

-----------------------------------------------------------------------------
(* Messages enter and leave the network.                                   *)

Message == RvMsg \cup RvrMsg \cup AeMsg \cup AerMsg

LEMMA BagMinus ==
  ASSUME NEW b, NEW x, IsABag(b)
  PROVE  /\ IsABag(b (-) SetToBag({x})) /\ DOMAIN (b (-) SetToBag({x})) \subseteq DOMAIN b
         /\ IsABag(b (-) EmptyBag) /\ DOMAIN (b (-) EmptyBag) \subseteq DOMAIN b
<1>1. b \in [DOMAIN b -> {n \in Nat : n > 0}]
  BY DEF IsABag
<1>2. \A y \in DOMAIN b : b[y] \in Nat /\ b[y] > 0
  BY <1>1
<1>3. /\ DOMAIN SetToBag({x}) = {x} /\ SetToBag({x})[x] = 1
      /\ DOMAIN EmptyBag = {}
  BY DEF SetToBag, EmptyBag
<1> DEFINE c == b (-) SetToBag({x})
           d == b (-) EmptyBag
<1>4. DOMAIN c \subseteq DOMAIN b /\ DOMAIN d \subseteq DOMAIN b
  BY DEF (-)
<1>5. \A y \in DOMAIN c : c[y] > 0 /\ c[y] = IF y = x THEN b[y] - 1 ELSE b[y]
  BY <1>3 DEF (-)
<1>6. \A y \in DOMAIN d : d[y] > 0 /\ d[y] = b[y]
  BY <1>3 DEF (-)
<1>7. c = [y \in DOMAIN c |-> c[y]] /\ d = [y \in DOMAIN d |-> d[y]]
  BY DEF (-)
<1> HIDE DEF c, d
<1>8. IsABag(c)
  <2>1. \A y \in DOMAIN c : c[y] \in Nat /\ c[y] > 0
    BY <1>2, <1>4, <1>5
  <2> QED
    BY <1>7, <2>1 DEF IsABag
<1>9. IsABag(d)
  <2>1. \A y \in DOMAIN d : d[y] \in Nat /\ d[y] > 0
    BY <1>2, <1>4, <1>6
  <2> QED
    BY <1>7, <2>1 DEF IsABag
<1> QED
  BY <1>4, <1>8, <1>9 DEF c, d

LEMMA BagPlus ==
  ASSUME NEW b, NEW out, IsABag(b)
  PROVE  IsABag(b (+) SetToBag(out)) /\ DOMAIN (b (+) SetToBag(out)) = DOMAIN b \cup out
<1>1. \A y \in DOMAIN b : b[y] \in Nat /\ b[y] > 0
  BY DEF IsABag
<1>2. DOMAIN SetToBag(out) = out /\ \A y \in out : SetToBag(out)[y] = 1
  BY DEF SetToBag
<1> DEFINE c == b (+) SetToBag(out)
<1>3. DOMAIN c = DOMAIN b \cup out /\ c = [y \in DOMAIN c |-> c[y]]
  BY <1>2 DEF (+)
<1>4. \A y \in DOMAIN b \cup out :
        c[y] = (IF y \in DOMAIN b THEN b[y] ELSE 0) + (IF y \in out THEN 1 ELSE 0)
  BY <1>2 DEF (+)
<1> HIDE DEF c
<1>5. \A y \in DOMAIN c : c[y] \in Nat /\ c[y] > 0
  BY <1>1, <1>3, <1>4
<1> QED
  BY <1>3, <1>5 DEF c, IsABag

\* A step that takes at most one message out of the network and puts out in it.
LEMMA ExchangeMsgs ==
  ASSUME IsABag(msgs), NEW out,
         \/ \E x : Exchange(SetToBag({x}), out)
         \/ Exchange(EmptyBag, out)
  PROVE  IsABag(msgs)' /\ BagToSet(msgs)' \subseteq BagToSet(msgs) \cup out
<1>1. PICK b : /\ IsABag(b) /\ DOMAIN b \subseteq DOMAIN msgs
               /\ msgs' = b (+) SetToBag(out)
  <2>1. CASE \E x : Exchange(SetToBag({x}), out)
    <3>1. PICK x : Exchange(SetToBag({x}), out)
      BY <2>1
    <3> QED
      BY <3>1, BagMinus DEF Exchange
  <2>2. CASE Exchange(EmptyBag, out)
    BY <2>2, BagMinus DEF Exchange
  <2> QED
    BY <2>1, <2>2
<1>2. IsABag(msgs') /\ DOMAIN msgs' = DOMAIN b \cup out
  BY <1>1, BagPlus
<1>3. IsABag(msgs)'
  BY <1>2 DEF IsABag
<1> QED
  BY <1>1, <1>2, <1>3 DEF BagToSet

\* What holds of the record a handler of s leaves and of the messages it sends.
HandlerOK(s, r, out) ==
  /\ r \in FixedServer(s) /\ RingOK(r)
  /\ \A x \in out : x \in Message /\ x.src # x.dst
  /\ VotesOK(s, r, out)
  /\ LogOK(s, r, out)

LEMMA ServerStep ==
  ASSUME ServerAssumption, BoundAssumption, ElectionInv, LogInv,
         NEW s \in InitialMembers, NEW r, NEW out, srv' = [srv EXCEPT ![s] = r],
         IsABag(msgs)', BagToSet(msgs)' \subseteq BagToSet(msgs) \cup out,
         entries' \in Nat, snapshots' = snapshots, HandlerOK(s, r, out)
  PROVE  ElectionInv' /\ LogInv' /\ VoteStep
<1>0. /\ s \in Server /\ DOMAIN srv = Server /\ InitialMembers \subseteq Server
      /\ FixedTypes
  BY DEF ServerAssumption, ElectionInv, FixedTypes
<1>1. /\ srv'[s] = r /\ \A p \in Server \ {s} : srv'[p] = srv[p]
      /\ DOMAIN srv' = Server
  BY <1>0
<1>2. \A x \in BagToSet(msgs)' : x \in Message /\ x.src # x.dst
  BY <1>0 DEF HandlerOK, FixedTypes, Message
<1>3. \A p \in Server : srv'[p] \in FixedServer(p) /\ RingOK(srv'[p])
  BY <1>0, <1>1 DEF HandlerOK, FixedTypes
<1>4. \A p \in Server \ InitialMembers : srv'[p].state = "FOLLOWER"
  BY <1>0, <1>1 DEF FixedTypes
<1>5. FixedTypes'
  BY <1>0, <1>1, <1>2, <1>3, <1>4 DEF FixedTypes, Message, RingOK
<1>6. VoteStep /\ ElectionInv'
  BY <1>0, <1>1, <1>5, VotesOfServer DEF HandlerOK
<1>7. LogInv'
  BY <1>0, <1>1, <1>6, LogsOfServer DEF HandlerOK
<1> QED
  BY <1>6, <1>7

-----------------------------------------------------------------------------
(* What most handlers leave as it is.                                      *)

\* s does not vote, and neither starts nor ends a term.
SameVotes(s, r) ==
  /\ r.current_term = srv[s].current_term /\ r.voted_for = srv[s].voted_for
  /\ r.state = srv[s].state
  /\ \A p \in InitialMembers : r.nodes[p].voted_for_me = srv[s].nodes[p].voted_for_me

LEMMA SameVotesOK ==
  ASSUME ServerAssumption, BoundAssumption, ElectionInv, NEW s \in InitialMembers,
         NEW r, NEW out, SameVotes(s, r), \A x \in out : x.kind = "rvr" => x.vote_granted # 1
  PROVE  VotesOK(s, r, out)
<1>1. srv[s].current_term \in Nat /\ LeaderInv
  BY FixedFacts DEF ElectionInv
<1>2. ASSUME r.state \in {"CANDIDATE", "LEADER"}, NEW p \in InitialMembers \ {s},
             r.nodes[p].voted_for_me
      PROVE  HasVoted(p, s, r.current_term)
  BY <1>2 DEF SameVotes, HasVoted
<1>3. r.state = "LEADER" =>
       \/ InitialMembers = {s}
       \/ /\ r.voted_for = s
          /\ Majority({p \in InitialMembers : p = s \/ r.nodes[p].voted_for_me})
  <2>1. {p \in InitialMembers : p = s \/ r.nodes[p].voted_for_me} = Voters(s)
    BY DEF SameVotes, Voters
  <2> QED
    BY <1>1, <2>1 DEF SameVotes, LeaderInv
<1>4. r.state = "CANDIDATE" => r.voted_for = s
  BY <1>1 DEF SameVotes, LeaderInv
<1>5. r.current_term = srv[s].current_term /\ r.voted_for = srv[s].voted_for /\ r.state = srv[s].state
  BY DEF SameVotes
<1> HIDE DEF HasVoted
<1> QED
  BY <1>1, <1>2, <1>3, <1>4, <1>5 DEF VotesOK

\* s goes to a later term, or stays where it is, as a follower or not at all.
StepsDown(s, r) ==
  /\ r.state \in {"FOLLOWER", "DOWN"} /\ srv[s].current_term <= r.current_term
  /\ r.current_term = srv[s].current_term => r.voted_for = srv[s].voted_for

LEMMA StepsDownOK ==
  ASSUME NEW s, NEW r, NEW out, StepsDown(s, r),
         \A x \in out : x.kind = "rvr" => x.vote_granted # 1
  PROVE  VotesOK(s, r, out)
  BY DEF VotesOK, StepsDown

LEMMA SameLogOK ==
  ASSUME NEW s, NEW r, NEW out, r.log = srv[s].log,
         r.state = "LEADER" => srv[s].state = "LEADER" /\ r.current_term = srv[s].current_term,
         \A x \in out : x.kind # "ae"
  PROVE  LogOK(s, r, out)
  BY DEF LogOK

\* Applying entries leaves alone what elections and the log are about.
LEMMA ApplyKeeps ==
  ASSUME NEW s, NEW m \in FixedServer(s), RingOK(m)
  PROVE  LET a == raft_apply_all(s, m) IN
         /\ a \in FixedServer(s) /\ RingOK(a) /\ a.log = m.log /\ a.state = m.state
         /\ a.current_term = m.current_term /\ a.voted_for = m.voted_for /\ a.nodes = m.nodes
<1> DEFINE a == raft_apply_all(s, m)
<1>1. Unapplied(m) \in Seq(NormalEntry)
  BY UnappliedType
<1>2. Applied(m, Unapplied(m)) \in FixedServer(s)
  BY <1>1, AppliedType
<1>3. \A q : LET b == Applied(m, q) IN
        /\ b.log = m.log /\ b.state = m.state /\ b.current_term = m.current_term
        /\ b.voted_for = m.voted_for /\ b.nodes = m.nodes /\ b.front = m.front /\ b.size = m.size
  BY DEF Applied, FixedServer
<1>4. a = IF m.state = "DOWN" THEN m ELSE Applied(m, Unapplied(m))
  BY ApplyAll
<1> HIDE DEF a
<1>5. a \in FixedServer(s) /\ RingOK(a) /\ a.log = m.log /\ a.state = m.state
      /\ a.current_term = m.current_term /\ a.voted_for = m.voted_for /\ a.nodes = m.nodes
  BY <1>2, <1>3, <1>4 DEF RingOK
<1> QED
  BY <1>5 DEF a

LEMMA ApplyOK ==
  ASSUME NEW s, NEW m, NEW out, HandlerOK(s, m, out)
  PROVE  HandlerOK(s, raft_apply_all(s, m), out)
<1> DEFINE a == raft_apply_all(s, m)
<1>1. m \in FixedServer(s) /\ RingOK(m) /\ VotesOK(s, m, out) /\ LogOK(s, m, out)
  BY DEF HandlerOK
<1>2. a \in FixedServer(s) /\ RingOK(a) /\ a.log = m.log /\ a.state = m.state
      /\ a.current_term = m.current_term /\ a.voted_for = m.voted_for /\ a.nodes = m.nodes
  BY <1>1, ApplyKeeps
<1> HIDE DEF a
<1>3. VotesOK(s, a, out)
  BY <1>1, <1>2 DEF VotesOK
<1>4. LogOK(s, a, out)
  BY <1>1, <1>2 DEF LogOK
<1>5. HandlerOK(s, a, out)
  BY <1>2, <1>3, <1>4 DEF HandlerOK
<1> QED
  BY <1>5 DEF a

\* A server keeps its record, or only applies entries.
LEMMA QuietOK ==
  ASSUME ServerAssumption, BoundAssumption, ElectionInv, NEW s \in InitialMembers
  PROVE  HandlerOK(s, srv[s], {}) /\ HandlerOK(s, raft_apply_all(s, srv[s]), {})
<1>1. srv[s] \in FixedServer(s) /\ RingOK(srv[s])
  BY FixedFacts DEF ElectionInv
<1>2. VotesOK(s, srv[s], {})
  BY SameVotesOK DEF SameVotes
<1>3. LogOK(s, srv[s], {})
  BY SameLogOK
<1>4. HandlerOK(s, srv[s], {})
  BY <1>1, <1>2, <1>3 DEF HandlerOK
<1> QED
  BY <1>4, ApplyOK

\* A server that is not a member does nothing but wait, and apply nothing.
LEMMA OutsiderStep ==
  ASSUME ServerAssumption, BoundAssumption, ElectionInv, LogInv,
         NEW s \in Server \ InitialMembers, NEW r, srv' = [srv EXCEPT ![s] = r],
         r \in FixedServer(s), RingOK(r), r.state = "FOLLOWER", r.log = << >>,
         IsABag(msgs)', BagToSet(msgs)' \subseteq BagToSet(msgs),
         UNCHANGED <<entries, snapshots>>
  PROVE  ElectionInv' /\ LogInv' /\ VoteStep
<1>0. DOMAIN srv = Server /\ InitialMembers \subseteq Server /\ FixedTypes
  BY DEF ServerAssumption, ElectionInv, FixedTypes
<1>1. srv'[s] = r /\ (\A p \in Server \ {s} : srv'[p] = srv[p]) /\ DOMAIN srv' = Server
  BY <1>0
<1>2. \A p \in Server : srv'[p] \in FixedServer(p) /\ RingOK(srv'[p])
  BY <1>0, <1>1 DEF FixedTypes
<1>3. \A p \in Server \ InitialMembers : srv'[p].state = "FOLLOWER" /\ srv'[p].log = << >>
  BY <1>0, <1>1 DEF FixedTypes
<1>4. FixedTypes'
  BY <1>0, <1>1, <1>2, <1>3 DEF FixedTypes, RingOK
<1>5. PICK p \in InitialMembers : TRUE
  BY DEF ServerAssumption
<1>6. HandlerOK(p, srv[p], {})
  BY QuietOK
<1>7. srv'[p] = srv[p] /\ \A q \in InitialMembers \ {p} : srv'[q] = srv[q]
  BY <1>0, <1>1
<1>8. BagToSet(msgs)' \subseteq BagToSet(msgs) \cup {}
  OBVIOUS
<1>9. VoteStep /\ ElectionInv'
  BY <1>4, <1>6, <1>7, <1>8, VotesOfServer DEF HandlerOK
<1>10. LogInv'
  BY <1>6, <1>7, <1>8, <1>9, LogsOfServer DEF HandlerOK
<1> QED
  BY <1>9, <1>10

-----------------------------------------------------------------------------
(* What raft_send_appendentries sends.                                     *)

\* x is an appendentries message of s that carries a part of m's log.
FromLog(s, m, x) ==
  /\ x \in AeMsg /\ x.src = s /\ x.dst # s /\ x.term = m.current_term
  /\ AeLinks(x) \subseteq LogLinks(m.log)
  /\ x.prev_log_idx = 0 => x.prev_log_term = 0

LEMMA SubSeqAt ==
  ASSUME NEW S, NEW q \in Seq(S), NEW a \in Nat \ {0}, NEW b \in Int, b <= Len(q)
  PROVE  \A k \in 1..Len(SubSeq(q, a, b)) :
           a + k - 1 \in 1..Len(q) /\ SubSeq(q, a, b)[k] = q[a + k - 1]
<1>1. CASE a <= b
  <2>1. Len(SubSeq(q, a, b)) = b - a + 1
    BY <1>1, SubSeqProperties
  <2>2. \A k \in 1..(b - a + 1) : SubSeq(q, a, b)[k] = q[a + k - 1]
    BY <1>1, SubSeqProperties
  <2> QED
    BY <1>1, <2>1, <2>2
<1>2. CASE b < a
  <2>1. SubSeq(q, a, b) = << >>
    BY <1>2, SubSeqProperties
  <2> QED
    BY <2>1
<1> QED
  BY <1>1, <1>2

\* The entries from next on, as far as the ring goes, are entries of the log.
LEMMA EntriesFrom ==
  ASSUME NEW s, NEW m \in FixedServer(s), RingOK(m), NEW next \in Nat \ {0}
  PROVE  /\ log_get_from_idx(m, next) \in Seq(NormalEntry)
         /\ \A k \in 1..Len(log_get_from_idx(m, next)) :
              /\ next + k - 1 \in 1..Len(m.log)
              /\ log_get_from_idx(m, next)[k] = m.log[next + k - 1]
<1>1. /\ m.log \in Seq(NormalEntry) /\ m.base = 0 /\ m.size \in Nat \ {0} /\ m.front \in Nat
      /\ Len(m.log) \in Nat
  BY DEF FixedServer
<1>2. PICK q \in Seq(NormalEntry) : q = m.log
  BY <1>1
<1>3. CASE ~HasEntry(m, next)
  <2>1. log_get_from_idx(m, next) = << >>
    BY <1>3 DEF log_get_from_idx
  <2> QED
    BY <2>1
<1>4. CASE HasEntry(m, next)
  <2> DEFINE first == (m.front + next - 1 - m.base) % m.size
             n == Len(m.log) - (next - 1 - m.base)
             last == next - m.base + min(n, m.size - first) - 1
  <2>1. next <= Len(m.log)
    BY <1>1, <1>4 DEF HasEntry, log_get_current_idx
  <2>2. m.front + next - 1 - m.base \in Nat
    BY <1>1
  <2>3. first \in Nat
    BY <1>1, <2>2
  <2>4. n \in Nat /\ n = Len(m.log) - (next - 1)
    BY <1>1, <2>1
  <2>5. min(n, m.size - first) \in Int /\ min(n, m.size - first) <= n
    <3> HIDE DEF n, first
    <3> QED
      BY <1>1, <2>3, <2>4 DEF min
  <2>6. last \in Int /\ last <= Len(m.log)
    <3> DEFINE k == min(n, m.size - first)
    <3> HIDE DEF k, n
    <3> QED
      BY <1>1, <2>4, <2>5 DEF k
  <2>7. log_get_from_idx(m, next) = SubSeq(q, next, last)
    <3>1. next - m.base = next
      BY <1>1
    <3> QED
      BY <1>2, <1>4, <3>1 DEF log_get_from_idx
  <2> HIDE DEF last
  <2>8. SubSeq(q, next, last) \in Seq(NormalEntry)
    BY <1>2, <2>6, SubSeqIn
  <2>9. \A k \in 1..Len(SubSeq(q, next, last)) :
          next + k - 1 \in 1..Len(q) /\ SubSeq(q, next, last)[k] = q[next + k - 1]
    BY <1>2, <2>6, SubSeqAt
  <2> QED
    BY <1>2, <2>7, <2>8, <2>9
<1> QED
  BY <1>3, <1>4

LEMMA SendEntries ==
  ASSUME ServerAssumption, BoundAssumption, NEW s \in InitialMembers,
         NEW m \in FixedServer(s), RingOK(m), NEW p \in InitialMembers \ {s},
         NEW x \in raft_send_appendentries(s, m, p)
  PROVE  FromLog(s, m, x)
<1> DEFINE next == m.nodes[p].next_idx
           prev == PrevEntry(m, next)
           es == log_get_from_idx(m, next)
<1>1. /\ m.log \in Seq(NormalEntry) /\ m.base = 0 /\ Len(m.log) \in Nat
      /\ m.current_term \in 0..MaxTerm /\ m.nodes \in [InitialMembers -> MemberNode(s)]
  BY FixedFacts
<1>2. m.commit_idx \in Nat /\ m.snapshot_last_idx = 0 /\ m.snapshot_last_term = 0
  BY DEF FixedServer
<1>3. next \in Nat \ {0}
  BY <1>1 DEF MemberNode
<1>4. x = [kind |-> "ae", src |-> s, dst |-> p, term |-> m.current_term,
           prev_log_idx |-> prev[1], prev_log_term |-> prev[2],
           leader_commit |-> m.commit_idx, entries |-> es]
  BY <1>2 DEF raft_send_appendentries, NeedsSnapshot
<1> HIDE DEF next
<1>5. /\ es \in Seq(NormalEntry)
      /\ \A k \in 1..Len(es) : next + k - 1 \in 1..Len(m.log) /\ es[k] = m.log[next + k - 1]
  BY <1>3, EntriesFrom
<1>6. \A i \in 1..Len(m.log) : m.log[i].term \in Nat
  <2>1. \A i \in 1..Len(m.log) : m.log[i] \in NormalEntry
    BY <1>1
  <2> QED
    BY <2>1 DEF NormalEntry, BoundAssumption
<1>7. /\ next = 1 => prev[1] = 0 /\ prev[2] = 0
      /\ next # 1 /\ next - 1 \in 1..Len(m.log) => prev[1] = next - 1 /\ prev[2] = m.log[next - 1].term
      /\ next # 1 /\ next - 1 \notin 1..Len(m.log) => prev[1] = 0 /\ prev[2] = 0
  <2>1. next <= 1 <=> next = 1
    BY <1>3
  <2>2. next # 1 => (HasEntry(m, next - 1) <=> next - 1 \in 1..Len(m.log)) /\ next - 1 - m.base = next - 1
    BY <1>1, <1>3 DEF HasEntry, log_get_current_idx
  <2> QED
    BY <1>2, <2>1, <2>2 DEF PrevEntry, log_get_at_idx
<1> HIDE DEF prev, es
<1>8. prev[1] \in Nat /\ prev[2] \in Nat /\ (prev[1] = 0 => prev[2] = 0)
  BY <1>3, <1>6, <1>7
<1>9. x \in AeMsg /\ x.src = s /\ x.dst # s /\ x.term = m.current_term
      /\ (x.prev_log_idx = 0 => x.prev_log_term = 0)
  BY <1>1, <1>2, <1>4, <1>5, <1>8 DEF AeMsg
<1>10. ASSUME NEW k \in 1..Len(es)
       PROVE  LET i == next + k - 1 IN
              /\ i \in 1..Len(m.log) /\ x.prev_log_idx + k = i /\ x.entries[k] = m.log[i]
              /\ (IF k = 1 THEN x.prev_log_term ELSE x.entries[k - 1].term) = PrevTerm(m.log, i)
  <2>1. next + k - 1 \in 1..Len(m.log) /\ es[k] = m.log[next + k - 1] /\ Len(es) \in Nat
    BY <1>5
  <2>2. next # 1 => next - 1 \in 1..Len(m.log)
    BY <1>1, <1>3, <2>1
  <2>3. prev[1] = next - 1
    BY <1>3, <1>7, <2>2
  <2>4. x.prev_log_idx = prev[1] /\ x.prev_log_term = prev[2] /\ x.entries = es
    BY <1>4
  <2>5. prev[1] + k = next + k - 1
    BY <1>3, <2>1, <2>3
  <2>6. (IF k = 1 THEN prev[2] ELSE es[k - 1].term) = PrevTerm(m.log, next + k - 1)
    <3>1. CASE k = 1
      <4>1. prev[2] = IF next = 1 THEN 0 ELSE m.log[next - 1].term
        BY <1>7, <2>2
      <4>2. next + k - 1 = next
        BY <1>3, <3>1
      <4> QED
        BY <3>1, <4>1, <4>2 DEF PrevTerm
    <3>2. CASE k # 1
      <4>1. k - 1 \in 1..Len(es) /\ next + (k - 1) - 1 = (next + k - 1) - 1 /\ next + k - 1 # 1
        BY <1>3, <2>1, <3>2
      <4>2. es[k - 1] = m.log[(next + k - 1) - 1]
        BY <1>5, <4>1
      <4> QED
        BY <3>2, <4>1, <4>2 DEF PrevTerm
    <3> QED
      BY <3>1, <3>2
  <2> QED
    BY <2>1, <2>4, <2>5, <2>6
<1>11. AeLinks(x) \subseteq LogLinks(m.log)
  <2>1. x.entries = es
    BY <1>4
  <2> SUFFICES ASSUME NEW a \in AeLinks(x) PROVE a \in LogLinks(m.log)
    OBVIOUS
  <2>2. PICK k \in 1..Len(es) :
          a = [idx |-> x.prev_log_idx + k, ety |-> x.entries[k],
               prev |-> IF k = 1 THEN x.prev_log_term ELSE x.entries[k - 1].term]
    BY <2>1 DEF AeLinks
  <2>3. PICK i : i = next + k - 1
    OBVIOUS
  <2>4. i \in 1..Len(m.log) /\ a = [idx |-> i, ety |-> m.log[i], prev |-> PrevTerm(m.log, i)]
    BY <1>10, <2>2, <2>3
  <2> QED
    BY <2>4 DEF LogLinks
<1> QED
  BY <1>9, <1>11 DEF FromLog

LEMMA MembersVote ==
  ASSUME ServerAssumption, BoundAssumption, NEW s \in InitialMembers, NEW m \in FixedServer(s)
  PROVE  /\ DOMAIN m.nodes = InitialMembers /\ VotingNodes(m) = InitialMembers
         /\ Peers(s, m) = InitialMembers \ {s} /\ AmVoting(s, m)
<1>1. m.nodes \in [InitialMembers -> MemberNode(s)]
  BY FixedFacts
<1>2. \A p \in InitialMembers : m.nodes[p].active /\ m.nodes[p].voting
  BY <1>1 DEF MemberNode, MembersVoting
<1> QED
  BY <1>1, <1>2 DEF VotingNodes, Peers, AmVoting

LEMMA SendToOK ==
  ASSUME ServerAssumption, BoundAssumption, NEW s \in InitialMembers,
         NEW m \in FixedServer(s), RingOK(m), NEW ps \in SUBSET (InitialMembers \ {s})
  PROVE  \A x \in SendTo(s, m, ps) : FromLog(s, m, x)
  BY SendEntries DEF SendTo

LEMMA SendAllOK ==
  ASSUME ServerAssumption, BoundAssumption, NEW s \in InitialMembers,
         NEW m \in FixedServer(s), RingOK(m), NEW out \in raft_send_appendentries_all(s, m)
  PROVE  \A x \in out : FromLog(s, m, x)
<1>1. \A p : ~NeedsSnapshot(m, p)
  BY DEF NeedsSnapshot, FixedServer
<1>2. out = SendTo(s, m, Peers(s, m))
  BY <1>1 DEF raft_send_appendentries_all
<1>3. Peers(s, m) \in SUBSET (InitialMembers \ {s})
  BY MembersVote
<1> QED
  BY <1>2, <1>3, SendToOK

\* A leader sends entries of its log.
LEMMA LeaderSends ==
  ASSUME NEW s, NEW r, NEW out, HandlerOK(s, r, {}), r.state = "LEADER",
         \A x \in out : FromLog(s, r, x)
  PROVE  HandlerOK(s, r, out)
<1>1. \A x \in out : /\ x \in AeMsg /\ x.kind = "ae" /\ x.src = s /\ x.dst # s
                     /\ x.term = r.current_term
                     /\ AeLinks(x) \subseteq LogLinks(r.log)
                     /\ x.prev_log_idx = 0 => x.prev_log_term = 0
  BY DEF FromLog, AeMsg
<1>2. VotesOK(s, r, out)
  BY <1>1 DEF HandlerOK, VotesOK
<1>3. LogOK(s, r, out)
  BY <1>1 DEF HandlerOK, LogOK
<1> QED
  BY <1>1, <1>2, <1>3 DEF HandlerOK, Message

-----------------------------------------------------------------------------
(* raft_recv_requestvote                                                   *)

LEMMA StepDownKeeps ==
  ASSUME ServerAssumption, BoundAssumption, NEW s \in InitialMembers, NEW m \in FixedServer(s),
         RingOK(m), NEW t \in 0..MaxTerm, m.current_term < t
  PROVE  LET r == StepDown(m, t) IN
         /\ r \in FixedServer(s) /\ RingOK(r) /\ r.log = m.log /\ r.state = "FOLLOWER"
         /\ r.current_term = t /\ r.voted_for = NoNode /\ r.nodes = m.nodes
         /\ r.snapshot_last_idx = m.snapshot_last_idx
<1>1. StepDown(m, t) = [m EXCEPT !.current_term = t, !.voted_for = NoNode, !.state = "FOLLOWER",
                                 !.timeout_elapsed = FALSE, !.current_leader = NoNode]
  BY DEF StepDown, raft_become_follower, raft_set_current_term, FixedServer
<1> QED
  BY <1>1, ZenonT(60) DEF FixedServer, RingOK

LEMMA RequestVoteOK ==
  ASSUME ServerAssumption, BoundAssumption, ElectionInv, NEW vr \in RvMsg, vr.src # vr.dst,
         srv[vr.dst].state # "DOWN"
  PROVE  LET s == vr.dst
             r == RecvRequestVote(srv[s], vr, s)
         IN  HandlerOK(s, r.me, {[kind |-> "rvr", src |-> s, dst |-> vr.src,
                                  term |-> r.me.current_term, vote_granted |-> r.granted]})
<1> DEFINE s == vr.dst
           m == srv[s]
           r == RecvRequestVote(m, vr, s)
           m1 == IF m.current_term < vr.term THEN StepDown(m, vr.term) ELSE m
           x == [kind |-> "rvr", src |-> s, dst |-> vr.src,
                 term |-> r.me.current_term, vote_granted |-> r.granted]
<1>0. s \in InitialMembers /\ vr.src \in InitialMembers \ {s} /\ vr.term \in 0..MaxTerm
  BY DEF RvMsg
<1>1. m \in FixedServer(s) /\ RingOK(m) /\ LeaderInv
  BY <1>0, FixedFacts DEF ElectionInv
<1>2. /\ m1 \in FixedServer(s) /\ RingOK(m1) /\ m1.log = m.log
      /\ m.current_term < vr.term =>
           m1.state = "FOLLOWER" /\ m1.current_term = vr.term /\ m1.voted_for = NoNode
      /\ ~(m.current_term < vr.term) => m1 = m
  BY <1>0, <1>1, StepDownKeeps
<1>t. m.current_term \in Nat /\ vr.term \in Nat /\ m.state # "DOWN"
  BY <1>0, <1>1, FixedFacts DEF BoundAssumption
<1> HIDE DEF m1
<1>3. \A out : (\A y \in out : y.kind # "ae") =>
        LogOK(s, m1, out) /\ LogOK(s, m, out)
  <2>1. m1.state = "LEADER" => m.state = "LEADER" /\ m1.current_term = m.current_term
    BY <1>2
  <2> QED
    BY <1>2, <2>1, SameLogOK
<1>4. \A out : (\A y \in out : y.kind = "rvr" => y.vote_granted # 1) =>
        VotesOK(s, m1, out) /\ VotesOK(s, m, out)
  <2> SUFFICES ASSUME NEW out, \A y \in out : y.kind = "rvr" => y.vote_granted # 1
               PROVE  VotesOK(s, m1, out) /\ VotesOK(s, m, out)
    OBVIOUS
  <2>1. VotesOK(s, m, out)
    BY <1>0, SameVotesOK DEF SameVotes
  <2>2. CASE m.current_term < vr.term
    <3>1. StepsDown(s, m1)
      BY <1>2, <1>t, <2>2 DEF StepsDown
    <3> QED
      BY <2>1, <3>1, StepsDownOK
  <2> QED
    BY <1>2, <2>1, <2>2
<1>5. x.kind = "rvr" /\ x.src = s /\ x.dst = vr.src /\ x.term = r.me.current_term
      /\ x.vote_granted = r.granted
  OBVIOUS
<1>6. CASE HasLiveLeader(m, vr)
  <2>1. r = [me |-> m, granted |-> 0]
    BY <1>6 DEF RecvRequestVote
  <2>2. r.me = m /\ r.granted = 0
    BY <2>1
  <2>3. x \in RvrMsg
    BY <1>0, <1>1, <2>2, FixedFacts DEF RvrMsg
  <2> HIDE DEF x, r
  <2>4. VotesOK(s, m, {x}) /\ LogOK(s, m, {x})
    BY <1>3, <1>4, <1>5, <2>2
  <2>5. HandlerOK(s, r.me, {x})
    BY <1>0, <1>1, <1>5, <2>2, <2>3, <2>4 DEF HandlerOK, Message
  <2> QED
    BY <2>5 DEF x, r
<1>7. CASE ~HasLiveLeader(m, vr) /\ ~__should_grant_vote(s, m1, vr)
  <2>1. r = [me |-> m1, granted |-> IF vr.src \in DOMAIN m1.nodes THEN 0 ELSE -1]
    BY <1>7 DEF RecvRequestVote, m1
  <2>2. r.me = m1 /\ r.granted \in {-1, 0}
    BY <2>1
  <2>3. x \in RvrMsg
    BY <1>0, <1>2, <2>2, FixedFacts DEF RvrMsg
  <2> HIDE DEF x, r
  <2>4. VotesOK(s, m1, {x}) /\ LogOK(s, m1, {x})
    BY <1>3, <1>4, <1>5, <2>2
  <2>5. HandlerOK(s, r.me, {x})
    BY <1>0, <1>2, <1>5, <2>2, <2>3, <2>4 DEF HandlerOK, Message
  <2> QED
    BY <2>5 DEF x, r
<1>8. CASE ~HasLiveLeader(m, vr) /\ __should_grant_vote(s, m1, vr)
  <2> DEFINE g == [m1 EXCEPT !.voted_for = vr.src, !.current_leader = NoNode,
                             !.timeout_elapsed = FALSE]
  <2>1. r = [me |-> g, granted |-> 1]
    BY <1>8 DEF RecvRequestVote, m1
  <2>2. r.me = g /\ r.granted = 1
    BY <2>1
  <2>3. m1.voted_for = NoNode
    BY <1>8 DEF __should_grant_vote
  <2>4. /\ g \in FixedServer(s) /\ RingOK(g) /\ g.log = m.log /\ g.state = m1.state
        /\ g.current_term = m1.current_term /\ g.voted_for = vr.src
    BY <1>0, <1>2 DEF FixedServer, RingOK
  <2>5. m1.state = "FOLLOWER"
    <3>1. CASE m.current_term < vr.term
      BY <1>2, <3>1
    <3>2. CASE ~(m.current_term < vr.term)
      <4>1. m.voted_for = NoNode /\ m1 = m /\ s # NoNode /\ InitialMembers # {s}
        BY <1>0, <1>2, <2>3, <3>2, FixedFacts
      <4>2. m.state \in {"FOLLOWER", "CANDIDATE", "LEADER", "DOWN"}
        BY <1>1 DEF FixedServer
      <4> QED
        BY <1>0, <1>1, <1>t, <4>1, <4>2 DEF LeaderInv
    <3> QED
      BY <3>1, <3>2
  <2>6. x \in RvrMsg
    BY <1>0, <2>2, <2>4, FixedFacts DEF RvrMsg
  <2> HIDE DEF x, r, g
  <2>7. VotesOK(s, g, {x})
    BY <1>2, <1>5, <1>t, <2>2, <2>3, <2>4, <2>5 DEF VotesOK
  <2>8. LogOK(s, g, {x})
    BY <1>5, <2>4, <2>5 DEF LogOK
  <2>9. HandlerOK(s, r.me, {x})
    BY <1>0, <1>5, <2>2, <2>4, <2>6, <2>7, <2>8 DEF HandlerOK, Message
  <2> QED
    BY <2>9 DEF x, r
<1> QED
  BY <1>6, <1>7, <1>8

-----------------------------------------------------------------------------
(* raft_recv_requestvote_response and raft_periodic                        *)

LEMMA VotesCounted ==
  ASSUME ServerAssumption, BoundAssumption, NEW s \in InitialMembers, NEW m \in FixedServer(s),
         m.voted_for = s,
         raft_votes_is_majority(Cardinality(VotingNodes(m)), raft_get_nvotes_for_me(s, m))
  PROVE  Majority({p \in InitialMembers : p = s \/ m.nodes[p].voted_for_me})
<1> DEFINE Q == {p \in InitialMembers \ {s} : m.nodes[p].voted_for_me}
           V == {p \in InitialMembers : p = s \/ m.nodes[p].voted_for_me}
           n == Cardinality(InitialMembers)
<1>1. VotingNodes(m) = InitialMembers
  BY MembersVote
<1>2. raft_get_nvotes_for_me(s, m) = Cardinality(Q) + 1
  BY <1>1 DEF raft_get_nvotes_for_me
<1>3. IsFiniteSet(InitialMembers) /\ n \in Nat
  BY MembersFinite
<1>4. IsFiniteSet(Q)
  BY <1>3, FS_Subset
<1>5. V = Q \cup {s} /\ s \notin Q
  OBVIOUS
<1> HIDE DEF Q, V
<1>6. Cardinality(V) = Cardinality(Q) + 1 /\ Cardinality(Q) \in Nat
  BY <1>4, <1>5, FS_AddElement, FS_CardinalityType
<1>7. n \div 2 + 1 <= Cardinality(V)
  BY <1>1, <1>2, <1>6 DEF raft_votes_is_majority
<1>8. n < 2 * Cardinality(V)
  <2> HIDE DEF n
  <2> QED
    BY <1>3, <1>6, <1>7
<1> QED
  BY <1>8 DEF Majority, V

LEMMA HeardKeeps ==
  ASSUME ServerAssumption, BoundAssumption, NEW s \in InitialMembers, NEW m \in FixedServer(s),
         RingOK(m), NEW p \in InitialMembers
  PROVE  LET h == UpdateNode(m, p, "voted_for_me", TRUE) IN
         /\ h \in FixedServer(s) /\ RingOK(h) /\ h.log = m.log /\ h.state = m.state
         /\ h.current_term = m.current_term /\ h.voted_for = m.voted_for
         /\ \A q \in InitialMembers :
              h.nodes[q].voted_for_me <=> q = p \/ m.nodes[q].voted_for_me
<1>1. m.nodes \in [InitialMembers -> MemberNode(s)] /\ MembersOf(s) = InitialMembers
  BY FixedFacts
<1> DEFINE nd == [m.nodes EXCEPT ![p]["voted_for_me"] = TRUE]
           h == [m EXCEPT !.nodes = nd]
<1>2. UpdateNode(m, p, "voted_for_me", TRUE) = h
  BY <1>1 DEF UpdateNode, FixedServer
<1>3. [m.nodes[p] EXCEPT !["voted_for_me"] = TRUE] \in MemberNode(s)
  BY <1>1 DEF MemberNode
<1>4. nd \in [InitialMembers -> MemberNode(s)]
  BY <1>1, <1>3
<1>5. \A q \in InitialMembers : nd[q].voted_for_me <=> q = p \/ m.nodes[q].voted_for_me
  BY <1>1 DEF MemberNode
<1> HIDE DEF nd
<1>6. /\ h \in FixedServer(s) /\ RingOK(h) /\ h.log = m.log /\ h.state = m.state
      /\ h.current_term = m.current_term /\ h.voted_for = m.voted_for /\ h.nodes = nd
  BY <1>1, <1>4 DEF FixedServer, RingOK
<1> QED
  BY <1>2, <1>5, <1>6

LEMMA LeadKeeps ==
  ASSUME ServerAssumption, BoundAssumption, NEW s \in InitialMembers, NEW m \in FixedServer(s),
         RingOK(m)
  PROVE  LET l == raft_become_leader(s, m) IN
         /\ l \in FixedServer(s) /\ RingOK(l) /\ l.log = m.log /\ l.state = "LEADER"
         /\ l.current_term = m.current_term /\ l.voted_for = m.voted_for
         /\ \A q \in InitialMembers : l.nodes[q].voted_for_me = m.nodes[q].voted_for_me
<1>1. /\ m.nodes \in [InitialMembers -> MemberNode(s)] /\ MembersOf(s) = InitialMembers
      /\ s \in Server /\ Len(m.log) \in Nat /\ m.base = 0
  BY FixedFacts
<1> DEFINE next == log_get_current_idx(m) + 1
           nd == [p \in InitialMembers |->
                    IF p \in Peers(s, m)
                    THEN [m.nodes[p] EXCEPT !.next_idx = next, !.match_idx = 0]
                    ELSE m.nodes[p]]
           l == [m EXCEPT !.state = "LEADER", !.current_leader = s, !.timeout_elapsed = FALSE,
                          !.nodes = nd]
<1>2. raft_become_leader(s, m) = l
  BY <1>1 DEF raft_become_leader, FixedServer
<1>3. next \in Nat \ {0}
  BY <1>1 DEF log_get_current_idx
<1> HIDE DEF next
<1>4. \A p \in InitialMembers : /\ nd[p] \in MemberNode(s)
                                /\ nd[p].voted_for_me = m.nodes[p].voted_for_me
  BY <1>1, <1>3, ZenonT(60) DEF MemberNode
<1>5. nd \in [InitialMembers -> MemberNode(s)]
  BY <1>4
<1> HIDE DEF nd
<1>6. /\ l.log = m.log /\ l.state = "LEADER" /\ l.front = m.front /\ l.size = m.size
      /\ l.current_term = m.current_term /\ l.voted_for = m.voted_for /\ l.nodes = nd
  BY DEF FixedServer
<1>7. l \in FixedServer(s)
  <2>1. s \in Server \cup {NoNode} /\ nd \in [MembersOf(s) -> MemberNode(s)]
    BY <1>1, <1>5
  <2> QED
    BY <2>1 DEF FixedServer
<1> HIDE DEF l
<1>8. RingOK(l)
  BY <1>6 DEF RingOK
<1> QED
  BY <1>2, <1>4, <1>6, <1>7, <1>8

LEMMA VoteResponseOK ==
  ASSUME ServerAssumption, BoundAssumption, ElectionInv,
         NEW x \in RvrMsg, x \in BagToSet(msgs), x.src # x.dst,
         raft_recv_requestvote_response(x)
  PROVE  \E r, out : /\ srv' = [srv EXCEPT ![x.dst] = r] /\ Exchange(SetToBag({x}), out)
                     /\ HandlerOK(x.dst, r, out)
<1> DEFINE s == x.dst
           m == srv[s]
           heard == UpdateNode(m, x.src, "voted_for_me", TRUE)
           lead == raft_become_leader(s, heard)
           Done(r, out) == srv' = [srv EXCEPT ![s] = r] /\ Exchange(SetToBag({x}), out)
<1>0. s \in InitialMembers /\ x.src \in InitialMembers \ {s} /\ x.term \in 0..MaxTerm
  BY DEF RvrMsg
<1>1. m \in FixedServer(s) /\ RingOK(m) /\ LeaderInv
  BY <1>0, FixedFacts DEF ElectionInv
<1>2. m.current_term \in Nat /\ x.term \in Nat
  BY <1>0, <1>1, FixedFacts DEF BoundAssumption
<1>3. \/ Done(m, {})
      \/ m.current_term < x.term /\ Done(StepDown(m, x.term), {})
      \/ /\ m.state = "CANDIDATE" /\ x.term = m.current_term /\ x.vote_granted = 1
         /\ Done(heard, {})
      \/ /\ m.state = "CANDIDATE" /\ x.term = m.current_term /\ x.vote_granted = 1
         /\ raft_votes_is_majority(Cardinality(VotingNodes(heard)),
                                   raft_get_nvotes_for_me(s, heard))
         /\ Done(lead, SendTo(s, lead, Peers(s, lead)))
  <2>1. \/ m.state # "CANDIDATE"
        \/ m.state = "CANDIDATE" /\ m.current_term < x.term
        \/ m.state = "CANDIDATE" /\ x.term < m.current_term
        \/ m.state = "CANDIDATE" /\ x.term = m.current_term
    BY <1>2
  <2> HIDE DEF heard, lead, m
  <2> QED
    BY <1>2, <2>1 DEF raft_recv_requestvote_response, heard, lead, m
<1>4. HandlerOK(s, m, {})
  BY <1>0, QuietOK
<1>5. m.current_term < x.term => HandlerOK(s, StepDown(m, x.term), {})
  <2> SUFFICES ASSUME m.current_term < x.term PROVE HandlerOK(s, StepDown(m, x.term), {})
    OBVIOUS
  <2> DEFINE d == StepDown(m, x.term)
  <2>1. /\ d \in FixedServer(s) /\ RingOK(d) /\ d.log = m.log /\ d.state = "FOLLOWER"
        /\ d.current_term = x.term
    BY <1>0, <1>1, StepDownKeeps
  <2> HIDE DEF d
  <2>2. VotesOK(s, d, {}) /\ LogOK(s, d, {})
    BY <1>2, <2>1, StepsDownOK, SameLogOK DEF StepsDown
  <2>3. HandlerOK(s, d, {})
    BY <2>1, <2>2 DEF HandlerOK
  <2> QED
    BY <2>3 DEF d
<1>6. ASSUME m.state = "CANDIDATE", x.term = m.current_term, x.vote_granted = 1
      PROVE  /\ HandlerOK(s, heard, {})
             /\ raft_votes_is_majority(Cardinality(VotingNodes(heard)),
                                       raft_get_nvotes_for_me(s, heard))
                  => HandlerOK(s, lead, SendTo(s, lead, Peers(s, lead)))
  <2>1. /\ heard \in FixedServer(s) /\ RingOK(heard) /\ heard.log = m.log
        /\ heard.state = m.state /\ heard.current_term = m.current_term
        /\ heard.voted_for = m.voted_for
        /\ \A q \in InitialMembers :
             heard.nodes[q].voted_for_me <=> q = x.src \/ m.nodes[q].voted_for_me
    <3>1. PICK p \in InitialMembers : p = x.src
      BY <1>0
    <3> HIDE DEF m
    <3> QED
      BY <1>0, <1>1, <3>1, HeardKeeps, ZenonT(60)
  <2> HIDE DEF heard
  <2>2. /\ lead \in FixedServer(s) /\ RingOK(lead) /\ lead.log = m.log
        /\ lead.state = "LEADER" /\ lead.current_term = m.current_term
        /\ lead.voted_for = m.voted_for
        /\ \A q \in InitialMembers :
             lead.nodes[q].voted_for_me = heard.nodes[q].voted_for_me
    BY <1>0, <2>1, LeadKeeps
  <2> HIDE DEF lead
  <2>3. m.voted_for = s
    BY <1>0, <1>1, <1>6 DEF LeaderInv
  <2>4. \A p \in InitialMembers \ {s} :
          p = x.src \/ m.nodes[p].voted_for_me => HasVoted(p, s, m.current_term)
    <3>1. HasVoted(x.src, s, m.current_term)
      BY <1>6 DEF HasVoted, RvrMsg
    <3>2. \A p \in InitialMembers \ {s} :
            m.nodes[p].voted_for_me => HasVoted(p, s, m.current_term)
      BY <1>6 DEF HasVoted
    <3> QED
      BY <3>1, <3>2
  <2> HIDE DEF m
  <2>5. VotesOK(s, heard, {}) /\ LogOK(s, heard, {})
    <3>1. VotesOK(s, heard, {})
      BY <1>2, <1>6, <2>1, <2>3, <2>4 DEF VotesOK, m
    <3> QED
      BY <1>6, <2>1, <3>1 DEF LogOK, m
  <2>6. HandlerOK(s, heard, {})
    BY <2>1, <2>5 DEF HandlerOK
  <2>7. ASSUME raft_votes_is_majority(Cardinality(VotingNodes(heard)),
                                      raft_get_nvotes_for_me(s, heard))
        PROVE  HandlerOK(s, lead, SendTo(s, lead, Peers(s, lead)))
    <3>1. Majority({p \in InitialMembers : p = s \/ heard.nodes[p].voted_for_me})
      BY <1>0, <2>1, <2>3, <2>7, VotesCounted
    <3>2. {p \in InitialMembers : p = s \/ heard.nodes[p].voted_for_me}
            = {p \in InitialMembers : p = s \/ lead.nodes[p].voted_for_me}
      BY <2>2
    <3>3. VotesOK(s, lead, {})
      <4>1. \A p \in InitialMembers \ {s} :
              lead.nodes[p].voted_for_me => HasVoted(p, s, lead.current_term)
        BY <2>1, <2>2, <2>4
      <4>2. Majority({p \in InitialMembers : p = s \/ lead.nodes[p].voted_for_me})
        BY <3>1, <3>2
      <4> QED
        BY <1>2, <2>2, <2>3, <4>1, <4>2 DEF VotesOK, m
    <3>4. LogOK(s, lead, {})
      BY <1>6, <2>2 DEF LogOK, m
    <3>5. HandlerOK(s, lead, {})
      BY <2>2, <3>3, <3>4 DEF HandlerOK
    <3>6. \A y \in SendTo(s, lead, Peers(s, lead)) : FromLog(s, lead, y)
      <4>1. Peers(s, lead) \in SUBSET (InitialMembers \ {s})
        BY <1>0, <2>2, MembersVote
      <4> QED
        BY <1>0, <2>2, <4>1, SendToOK
    <3> QED
      BY <2>2, <3>5, <3>6, LeaderSends
  <2> QED
    BY <2>6, <2>7
<1> HIDE DEF heard, lead, m
<1> QED
  BY <1>3, <1>4, <1>5, <1>6

\* A step of s: it leaves r, takes at most one message and sends out.
Stepped(s) ==
  \E r, out : /\ srv' = [srv EXCEPT ![s] = r]
              /\ \/ msgs' = msgs /\ out = {}
                 \/ Exchange(EmptyBag, out)
                 \/ \E x : Exchange(SetToBag({x}), out)
              /\ HandlerOK(s, r, out)

LEMMA SteppedOK ==
  ASSUME ServerAssumption, BoundAssumption, ElectionInv, LogInv, NEW s \in InitialMembers,
         Stepped(s), entries' \in Nat, snapshots' = snapshots
  PROVE  ElectionInv' /\ LogInv' /\ VoteStep
<1>1. PICK r, out : /\ srv' = [srv EXCEPT ![s] = r]
                    /\ \/ msgs' = msgs /\ out = {}
                       \/ Exchange(EmptyBag, out)
                       \/ \E x : Exchange(SetToBag({x}), out)
                    /\ HandlerOK(s, r, out)
  BY DEF Stepped
<1>2. IsABag(msgs)
  BY DEF ElectionInv, FixedTypes
<1>3. IsABag(msgs)' /\ BagToSet(msgs)' \subseteq BagToSet(msgs) \cup out
  <2>1. CASE msgs' = msgs
    BY <1>2, <2>1 DEF IsABag, BagToSet
  <2>2. CASE Exchange(EmptyBag, out) \/ \E x : Exchange(SetToBag({x}), out)
    BY <1>2, <2>2, ExchangeMsgs
  <2> QED
    BY <1>1, <2>1, <2>2
<1> QED
  BY <1>1, <1>3, ServerStep

LEMMA ElapseOK ==
  ASSUME ServerAssumption, BoundAssumption, ElectionInv, NEW s \in InitialMembers, Elapse(s)
  PROVE  Stepped(s)
<1> DEFINE m == srv[s]
           r == [m EXCEPT !.timeout_elapsed = TRUE]
<1>1. m \in FixedServer(s) /\ RingOK(m)
  BY FixedFacts DEF ElectionInv
<1>2. srv' = [srv EXCEPT ![s] = r] /\ msgs' = msgs
  BY DEF Elapse
<1>3. r \in FixedServer(s) /\ RingOK(r) /\ r.log = m.log /\ r.state = m.state
      /\ r.current_term = m.current_term /\ r.voted_for = m.voted_for /\ r.nodes = m.nodes
  BY <1>1 DEF FixedServer, RingOK
<1> HIDE DEF r
<1>4. VotesOK(s, r, {})
  BY <1>3, SameVotesOK DEF SameVotes
<1>5. LogOK(s, r, {})
  BY <1>3, SameLogOK
<1>6. HandlerOK(s, r, {})
  BY <1>3, <1>4, <1>5 DEF HandlerOK
<1> QED
  BY <1>2, <1>6 DEF Stepped

\* raft_periodic ends with applying entries.
LEMMA EndPeriodicOK ==
  ASSUME NEW s, NEW r, NEW out, EndPeriodic(s, r, out), HandlerOK(s, r, out)
  PROVE  Stepped(s)
<1>1. HandlerOK(s, raft_apply_all(s, r), out)
  BY ApplyOK
<1> QED
  BY <1>1 DEF EndPeriodic, Stepped

LEMMA SoleVoterOK ==
  ASSUME ServerAssumption, BoundAssumption, ElectionInv, NEW s \in InitialMembers,
         PeriodicSoleVoter(s)
  PROVE  Stepped(s)
<1> DEFINE m == srv[s]
           lead == raft_become_leader(s, m)
<1>1. m \in FixedServer(s) /\ RingOK(m)
  BY FixedFacts DEF ElectionInv
<1>2. /\ lead \in FixedServer(s) /\ RingOK(lead) /\ lead.log = m.log
      /\ lead.state = "LEADER" /\ lead.current_term = m.current_term
      /\ lead.voted_for = m.voted_for
  BY <1>1, LeadKeeps
<1>3. InitialMembers = {s} /\ EndPeriodic(s, lead, SendTo(s, lead, Peers(s, lead)))
  BY <1>1, MembersVote DEF PeriodicSoleVoter, SoleVoter
<1>4. m.current_term \in Nat
  BY <1>1, FixedFacts
<1> HIDE DEF lead
<1>5. VotesOK(s, lead, {}) /\ LogOK(s, lead, {})
  BY <1>2, <1>3, <1>4 DEF VotesOK, LogOK
<1>6. HandlerOK(s, lead, {})
  BY <1>2, <1>5 DEF HandlerOK
<1>7. \A y \in SendTo(s, lead, Peers(s, lead)) : FromLog(s, lead, y)
  <2>1. Peers(s, lead) \in SUBSET (InitialMembers \ {s})
    BY <1>2, MembersVote
  <2> QED
    BY <1>2, <2>1, SendToOK
<1>8. HandlerOK(s, lead, SendTo(s, lead, Peers(s, lead)))
  BY <1>2, <1>6, <1>7, LeaderSends
<1> QED
  BY <1>3, <1>8, EndPeriodicOK

LEMMA HeartbeatOK ==
  ASSUME ServerAssumption, BoundAssumption, ElectionInv, NEW s \in InitialMembers,
         PeriodicHeartbeat(s)
  PROVE  Stepped(s)
<1>1. srv[s] \in FixedServer(s) /\ RingOK(srv[s])
  BY FixedFacts DEF ElectionInv
<1>2. PICK out \in raft_send_appendentries_all(s, srv[s]) : EndPeriodic(s, srv[s], out)
  BY DEF PeriodicHeartbeat
<1>3. srv[s].state = "LEADER"
  BY DEF PeriodicHeartbeat
<1>4. \A x \in out : FromLog(s, srv[s], x)
  BY <1>1, <1>2, SendAllOK
<1>5. HandlerOK(s, srv[s], {})
  BY QuietOK
<1>6. HandlerOK(s, srv[s], out)
  BY <1>3, <1>4, <1>5, LeaderSends
<1> QED
  BY <1>2, <1>6, EndPeriodicOK

LEMMA ApplyStepOK ==
  ASSUME ServerAssumption, BoundAssumption, ElectionInv, NEW s \in InitialMembers,
         PeriodicApply(s)
  PROVE  Stepped(s)
<1>1. HandlerOK(s, srv[s], {}) /\ EndPeriodic(s, srv[s], {})
  BY QuietOK DEF PeriodicApply
<1> QED
  BY <1>1, EndPeriodicOK

LEMMA CandidateKeeps ==
  ASSUME ServerAssumption, BoundAssumption, NEW s \in InitialMembers, NEW m \in FixedServer(s),
         RingOK(m), m.current_term < MaxTerm
  PROVE  LET c == raft_become_candidate(s, m) IN
         /\ c \in FixedServer(s) /\ RingOK(c) /\ c.log = m.log /\ c.state = "CANDIDATE"
         /\ c.current_term = m.current_term + 1 /\ c.voted_for = s
         /\ \A q \in InitialMembers : ~c.nodes[q].voted_for_me
<1>1. /\ m.nodes \in [InitialMembers -> MemberNode(s)] /\ MembersOf(s) = InitialMembers
      /\ s \in Server /\ m.current_term \in Nat
  BY FixedFacts
<1> DEFINE nd == [p \in InitialMembers |-> [m.nodes[p] EXCEPT !.voted_for_me = FALSE]]
           t == m.current_term + 1
           c == [m EXCEPT !.current_term = t, !.voted_for = s, !.current_leader = NoNode,
                          !.state = "CANDIDATE", !.timeout_elapsed = FALSE, !.nodes = nd]
<1>2. m.current_term < t /\ t \in 0..MaxTerm
  BY <1>1 DEF BoundAssumption
<1>3. raft_become_candidate(s, m) = c
  <2>1. raft_set_current_term(m, t) = [m EXCEPT !.current_term = t, !.voted_for = NoNode]
    BY <1>2 DEF raft_set_current_term
  <2> DEFINE m1 == [m EXCEPT !.current_term = t, !.voted_for = NoNode]
  <2>2. raft_become_candidate(s, m)
          = [m1 EXCEPT !.voted_for = s, !.current_leader = NoNode, !.state = "CANDIDATE",
                       !.timeout_elapsed = FALSE,
                       !.nodes = [p \in DOMAIN m1.nodes |->
                                    [m1.nodes[p] EXCEPT !.voted_for_me = FALSE]]]
    BY <2>1 DEF raft_become_candidate
  <2> HIDE DEF t
  <2>3. m1.nodes = m.nodes /\ DOMAIN m1.nodes = InitialMembers
    BY <1>1 DEF FixedServer
  <2>4. [p \in DOMAIN m1.nodes |-> [m1.nodes[p] EXCEPT !.voted_for_me = FALSE]] = nd
    BY <2>3
  <2> HIDE DEF nd
  <2> QED
    BY <2>2, <2>4 DEF FixedServer
<1>4. \A p \in InitialMembers : nd[p] \in MemberNode(s) /\ ~nd[p].voted_for_me
  BY <1>1 DEF MemberNode
<1>5. nd \in [MembersOf(s) -> MemberNode(s)]
  BY <1>1, <1>4
<1> HIDE DEF nd, t
<1>6. /\ c.log = m.log /\ c.state = "CANDIDATE" /\ c.front = m.front /\ c.size = m.size
      /\ c.current_term = t /\ c.voted_for = s /\ c.nodes = nd
  BY DEF FixedServer
<1>7. c \in FixedServer(s)
  BY <1>1, <1>2, <1>5 DEF FixedServer
<1> HIDE DEF c
<1>8. RingOK(c)
  BY <1>6 DEF RingOK
<1> QED
  BY <1>3, <1>4, <1>6, <1>7, <1>8 DEF t

LEMMA ElectionOK ==
  ASSUME ServerAssumption, BoundAssumption, ElectionInv, NEW s \in InitialMembers,
         PeriodicElection(s)
  PROVE  Stepped(s)
<1> DEFINE m == srv[s]
           c == raft_become_candidate(s, m)
           out == {msg_requestvote_t(s, p, c) : p \in VotingNodes(m) \ {s}}
<1>1. m \in FixedServer(s) /\ RingOK(m)
  BY FixedFacts DEF ElectionInv
<1>2. m.current_term < MaxTerm /\ EndPeriodic(s, c, out)
  BY DEF PeriodicElection
<1>3. /\ c \in FixedServer(s) /\ RingOK(c) /\ c.log = m.log /\ c.state = "CANDIDATE"
      /\ c.current_term = m.current_term + 1 /\ c.voted_for = s
      /\ \A q \in InitialMembers : ~c.nodes[q].voted_for_me
  BY <1>1, <1>2, CandidateKeeps
<1>4. VotingNodes(m) = InitialMembers /\ m.current_term \in Nat
  BY <1>1, MembersVote, FixedFacts
<1> HIDE DEF c
<1>5. log_get_current_idx(c) \in Nat /\ raft_get_last_log_term(c) \in Nat
  <2>1. c.log \in Seq(NormalEntry) /\ c.base = 0 /\ Len(c.log) \in Nat
    BY <1>3, FixedFacts
  <2>2. \A i \in 1..Len(c.log) : c.log[i] \in NormalEntry
    BY <2>1
  <2>3. \A i \in 1..Len(c.log) : c.log[i].term \in Nat
    BY <2>2 DEF NormalEntry, BoundAssumption
  <2>4. log_get_current_idx(c) = Len(c.log)
    BY <2>1 DEF log_get_current_idx
  <2>5. HasEntry(c, Len(c.log)) => Len(c.log) \in 1..Len(c.log) /\ Len(c.log) - c.base = Len(c.log)
    BY <2>1, <2>4 DEF HasEntry
  <2> QED
    BY <2>1, <2>3, <2>4, <2>5 DEF raft_get_last_log_term, log_get_at_idx
<1>6. ASSUME NEW x \in out PROVE x \in RvMsg /\ x.kind = "rv" /\ x.src # x.dst
  <2>1. PICK p \in InitialMembers \ {s} : x = msg_requestvote_t(s, p, c)
    BY <1>4
  <2>2. c.current_term \in 0..MaxTerm
    BY <1>3, FixedFacts
  <2> QED
    BY <1>5, <2>1, <2>2 DEF msg_requestvote_t, RvMsg
<1> HIDE DEF out
<1>7. VotesOK(s, c, out)
  BY <1>3, <1>4, <1>6 DEF VotesOK
<1>8. LogOK(s, c, out)
  BY <1>3, <1>6 DEF LogOK
<1>9. HandlerOK(s, c, out)
  BY <1>3, <1>6, <1>7, <1>8 DEF HandlerOK, Message
<1> QED
  BY <1>2, <1>9, EndPeriodicOK

-----------------------------------------------------------------------------
(* raft_recv_appendentries_response and raft_recv_entry                    *)

\* m is s's record, but for a node's indexes and the commit index.
SameButIndexes(s, m) ==
  /\ m \in FixedServer(s) /\ RingOK(m) /\ m.log = srv[s].log /\ SameVotes(s, m)

LEMMA SameIndexesOK ==
  ASSUME ServerAssumption, BoundAssumption, ElectionInv, NEW s \in InitialMembers,
         srv[s].state = "LEADER", NEW m, SameButIndexes(s, m), NEW out,
         \A x \in out : FromLog(s, m, x)
  PROVE  HandlerOK(s, m, out)
<1>1. VotesOK(s, m, {})
  BY SameVotesOK DEF SameButIndexes
<1>2. LogOK(s, m, {})
  BY SameLogOK DEF SameButIndexes, SameVotes
<1>3. HandlerOK(s, m, {})
  BY <1>1, <1>2 DEF HandlerOK, SameButIndexes
<1>4. m.state = "LEADER"
  BY DEF SameButIndexes, SameVotes
<1> QED
  BY <1>3, <1>4, LeaderSends

LEMMA NodeKeeps ==
  ASSUME ServerAssumption, BoundAssumption, NEW s \in InitialMembers, NEW m,
         SameButIndexes(s, m), NEW p \in InitialMembers, NEW n \in MemberNode(s),
         n.voted_for_me = m.nodes[p].voted_for_me
  PROVE  SameButIndexes(s, [m EXCEPT !.nodes[p] = n])
<1>1. m \in FixedServer(s) /\ RingOK(m) /\ m.log = srv[s].log /\ SameVotes(s, m)
  BY DEF SameButIndexes
<1>2. m.nodes \in [InitialMembers -> MemberNode(s)] /\ MembersOf(s) = InitialMembers
  BY <1>1, FixedFacts
<1> DEFINE nd == [m.nodes EXCEPT ![p] = n]
           r == [m EXCEPT !.nodes = nd]
<1>3. nd \in [MembersOf(s) -> MemberNode(s)]
  BY <1>2
<1>4. \A q \in InitialMembers : nd[q].voted_for_me = m.nodes[q].voted_for_me
  BY <1>2
<1> HIDE DEF nd
<1>5. /\ r \in FixedServer(s) /\ r.log = m.log /\ r.state = m.state /\ r.nodes = nd
      /\ r.current_term = m.current_term /\ r.voted_for = m.voted_for
      /\ r.size = m.size /\ r.front = m.front
  BY <1>1, <1>3 DEF FixedServer
<1>6. [m EXCEPT !.nodes[p] = n] = r
  BY DEF nd
<1> HIDE DEF r
<1>7. RingOK(r) /\ SameVotes(s, r)
  BY <1>1, <1>4, <1>5 DEF RingOK, SameVotes
<1> QED
  BY <1>1, <1>5, <1>6, <1>7 DEF SameButIndexes

LEMMA CommitKeeps ==
  ASSUME NEW s, NEW m, SameButIndexes(s, m), NEW i \in Nat
  PROVE  SameButIndexes(s, Commit(s, m, i))
<1>1. m \in FixedServer(s) /\ RingOK(m) /\ m.log = srv[s].log /\ SameVotes(s, m)
  BY DEF SameButIndexes
<1> DEFINE r == [m EXCEPT !.commit_idx = i]
<1>2. /\ r \in FixedServer(s) /\ r.log = m.log /\ r.state = m.state /\ r.nodes = m.nodes
      /\ r.current_term = m.current_term /\ r.voted_for = m.voted_for
      /\ r.size = m.size /\ r.front = m.front
  BY <1>1 DEF FixedServer
<1>3. Commit(s, m, i) = r \/ Commit(s, m, i) = m
  BY DEF Commit
<1> HIDE DEF r
<1>4. SameButIndexes(s, r)
  BY <1>1, <1>2 DEF RingOK, SameVotes, SameButIndexes
<1> QED
  BY <1>3, <1>4

LEMMA NextIdxType ==
  ASSUME NEW s, NEW n \in MemberNode(s), NEW i \in Int, NEW j \in Nat
  PROVE  /\ raft_node_set_next_idx(n, i) \in MemberNode(s)
         /\ raft_node_set_next_idx(n, i).voted_for_me = n.voted_for_me
         /\ [n EXCEPT !.match_idx = j] \in MemberNode(s)
         /\ [n EXCEPT !.match_idx = j].voted_for_me = n.voted_for_me
<1>1. (IF i < 1 THEN 1 ELSE i) \in Nat \ {0}
  OBVIOUS
<1> QED
  BY <1>1 DEF raft_node_set_next_idx, MemberNode

LEMMA EntriesResponseOK ==
  ASSUME ServerAssumption, BoundAssumption, ElectionInv,
         NEW x \in AerMsg, x.src # x.dst, raft_recv_appendentries_response(x)
  PROVE  Stepped(x.dst)
<1>0. PICK s \in InitialMembers, p \in InitialMembers, i \in Nat :
        s = x.dst /\ p = x.src /\ p # s /\ i = x.current_idx
  BY DEF AerMsg
<1> DEFINE m == srv[s]
<1>1. m \in FixedServer(s) /\ RingOK(m)
  BY FixedFacts DEF ElectionInv
<1>2. m.current_term \in Nat /\ x.term \in Nat /\ x.term \in 0..MaxTerm
  BY <1>1, FixedFacts DEF BoundAssumption, AerMsg
<1>3. m.nodes[p] \in MemberNode(s) /\ DOMAIN m.nodes = InitialMembers
  BY <1>1, FixedFacts
<1>4. SameButIndexes(s, m)
  BY <1>1 DEF SameButIndexes, SameVotes
<1>5. \E r, out : /\ srv' = [srv EXCEPT ![s] = r] /\ Exchange(SetToBag({x}), out)
                  /\ \/ r = m /\ out = {}
                     \/ /\ m.current_term < x.term
                        /\ r = StepDown(m, x.term) /\ out = {}
                     \/ /\ m.state = "LEADER"
                        /\ \/ r = RecvSuccess(s, m, x).me /\ out = RecvSuccess(s, m, x).out
                           \/ r = RecvFailure(s, m, x).me /\ out = RecvFailure(s, m, x).out
  <2> DEFINE res == CASE \/ m.state # "LEADER"
                         \/ x.src \notin DOMAIN m.nodes
                         \/ x.term < m.current_term -> [me |-> m, out |-> {}]
                      [] m.state = "LEADER" /\ m.current_term < x.term ->
                           [me |-> StepDown(m, x.term), out |-> {}]
                      [] OTHER -> IF x.success THEN RecvSuccess(s, m, x)
                                  ELSE RecvFailure(s, m, x)
  <2>1. srv' = [srv EXCEPT ![s] = res.me] /\ Exchange(SetToBag({x}), res.out)
    BY <1>0 DEF raft_recv_appendentries_response
  <2>2. CASE m.state # "LEADER" \/ x.src \notin DOMAIN m.nodes \/ x.term < m.current_term
    <3>1. res = [me |-> m, out |-> {}]
      <4>1. ~(m.state = "LEADER" /\ m.current_term < x.term)
        BY <1>0, <1>2, <1>3, <2>2
      <4> HIDE DEF m
      <4> QED
        BY <2>2, <4>1
    <3>2. res.me = m /\ res.out = {}
      BY <3>1
    <3> HIDE DEF res
    <3> QED
      BY <2>1, <3>2
  <2>3. CASE ~(m.state # "LEADER" \/ x.src \notin DOMAIN m.nodes \/ x.term < m.current_term)
    <3> HIDE DEF m
    <3>1. CASE m.current_term < x.term
      <4>1. res = [me |-> StepDown(m, x.term), out |-> {}]
        BY <2>3, <3>1
      <4>2. res.me = StepDown(m, x.term) /\ res.out = {}
        BY <4>1
      <4> HIDE DEF res
      <4> QED
        BY <2>1, <3>1, <4>2
    <3>2. CASE ~(m.current_term < x.term)
      <4>1. res = IF x.success THEN RecvSuccess(s, m, x) ELSE RecvFailure(s, m, x)
        BY <2>3, <3>2
      <4> HIDE DEF res
      <4> QED
        BY <2>1, <2>3, <4>1
    <3> QED
      BY <3>1, <3>2
  <2> QED
    BY <2>2, <2>3
<1>6. PICK r, out :
        /\ srv' = [srv EXCEPT ![s] = r] /\ Exchange(SetToBag({x}), out)
        /\ \/ r = m /\ out = {}
           \/ /\ m.current_term < x.term
              /\ r = StepDown(m, x.term) /\ out = {}
           \/ /\ m.state = "LEADER"
              /\ \/ r = RecvSuccess(s, m, x).me /\ out = RecvSuccess(s, m, x).out
                 \/ r = RecvFailure(s, m, x).me /\ out = RecvFailure(s, m, x).out
  BY <1>5
<1>7. CASE r = m /\ out = {}
  <2>1. HandlerOK(s, r, out)
    BY <1>7, QuietOK
  <2> QED
    BY <1>0, <1>6, <2>1 DEF Stepped
<1>8. CASE m.current_term < x.term /\ r = StepDown(m, x.term) /\ out = {}
  <2>1. /\ r \in FixedServer(s) /\ RingOK(r) /\ r.log = m.log /\ r.state = "FOLLOWER"
        /\ r.current_term = x.term
    BY <1>1, <1>2, <1>8, StepDownKeeps
  <2>2. VotesOK(s, r, {}) /\ LogOK(s, r, {})
    BY <1>2, <1>8, <2>1, StepsDownOK, SameLogOK DEF StepsDown
  <2>3. HandlerOK(s, r, out)
    BY <1>8, <2>1, <2>2 DEF HandlerOK
  <2> QED
    BY <1>0, <1>6, <2>3 DEF Stepped
<1>9. CASE /\ m.state = "LEADER"
           /\ r = RecvSuccess(s, m, x).me /\ out = RecvSuccess(s, m, x).out
  <2> DEFINE m1 == NotifySufficient(m, x)
             n1 == [m1.nodes[p] EXCEPT !.match_idx = i]
             n2 == raft_node_set_next_idx(n1, i + 1)
             m2 == [m1 EXCEPT !.nodes[p] = n2]
             m3 == Commit(s, m2, i)
  <2>1. m1 = m
    BY <1>0, <1>3 DEF NotifySufficient, MemberNode, MembersVoting
  <2>2. n2 \in MemberNode(s) /\ n2.voted_for_me = m.nodes[p].voted_for_me
    <3>1. n1 \in MemberNode(s) /\ n1.voted_for_me = m.nodes[p].voted_for_me
      BY <1>3, <2>1, NextIdxType
    <3> HIDE DEF n1
    <3>2. i + 1 \in Int
      OBVIOUS
    <3> QED
      BY <3>1, <3>2, NextIdxType
  <2>4. \/ r = m1 /\ out = {}
        \/ r = m3 /\ out \subseteq raft_send_appendentries(s, m3, p)
    BY <1>0, <1>9 DEF RecvSuccess
  <2>5. SameButIndexes(s, m2)
    <3> HIDE DEF n2, m
    <3> QED
      BY <1>4, <2>1, <2>2, NodeKeeps
  <2> HIDE DEF m2
  <2>6. SameButIndexes(s, m3)
    BY <2>5, CommitKeeps
  <2> HIDE DEF m3
  <2>7. SameButIndexes(s, r) /\ \A y \in out : FromLog(s, r, y)
    <3>1. \A y \in raft_send_appendentries(s, m3, p) : FromLog(s, m3, y)
      BY <1>0, <2>6, SendEntries DEF SameButIndexes
    <3> QED
      BY <1>4, <2>1, <2>4, <2>6, <3>1
  <2>8. HandlerOK(s, r, out)
    BY <1>9, <2>7, SameIndexesOK
  <2> QED
    BY <1>0, <1>6, <2>8 DEF Stepped
<1>10. CASE /\ m.state = "LEADER"
            /\ r = RecvFailure(s, m, x).me /\ out = RecvFailure(s, m, x).out
  <2> DEFINE next == m.nodes[p].next_idx
             back == IF i < next - 1 THEN min(i + 1, log_get_current_idx(m)) ELSE next - 1
             n1 == raft_node_set_next_idx(m.nodes[p], back)
             m1 == [m EXCEPT !.nodes[p] = n1]
  <2>1. back \in Int
    <3>1. Len(m.log) \in Nat /\ m.base = 0 /\ next \in Nat
      BY <1>1, <1>3, FixedFacts DEF MemberNode
    <3> QED
      BY <3>1 DEF min, log_get_current_idx
  <2> HIDE DEF back
  <2>2. n1 \in MemberNode(s) /\ n1.voted_for_me = m.nodes[p].voted_for_me
    BY <1>3, <2>1, NextIdxType
  <2>3. \/ r = m /\ out = {}
        \/ r = m1 /\ out = raft_send_appendentries(s, m1, p)
    BY <1>0, <1>10 DEF RecvFailure, back
  <2>4. SameButIndexes(s, m1)
    <3> HIDE DEF n1, m
    <3> QED
      BY <1>4, <2>2, NodeKeeps
  <2> HIDE DEF m1
  <2>5. SameButIndexes(s, r) /\ \A y \in out : FromLog(s, r, y)
    <3>1. \A y \in raft_send_appendentries(s, m1, p) : FromLog(s, m1, y)
      BY <1>0, <2>4, SendEntries DEF SameButIndexes
    <3> QED
      BY <1>4, <2>3, <2>4, <3>1
  <2>6. HandlerOK(s, r, out)
    BY <1>10, <2>5, SameIndexesOK
  <2> QED
    BY <1>0, <1>6, <2>6 DEF Stepped
<1> QED
  BY <1>6, <1>7, <1>8, <1>9, <1>10

LEMMA WithLogKeeps ==
  ASSUME NEW s, NEW m \in FixedServer(s), NEW log, NEW size, NEW front
  PROVE  LET r == WithLog(m, log, size, front) IN
         /\ r.state = m.state /\ r.current_term = m.current_term
         /\ r.voted_for = m.voted_for /\ r.nodes = m.nodes /\ r.base = 0
  BY DEF WithLog, FixedServer

LEMMA ReceiveEntryOK ==
  ASSUME ServerAssumption, BoundAssumption, FixedMembers, ElectionInv, NEW s \in InitialMembers,
         NEW type \in EntryTypes, NEW p \in Server \cup {NoNode}, raft_recv_entry(s, type, p)
  PROVE  Stepped(s)
<1> DEFINE m == srv[s]
           e == [term |-> m.current_term, type |-> type, node |-> p, id |-> entries + 1]
           m1 == raft_append_entry(s, m, e)
           cur == log_get_current_idx(m1)
           r == IF Cardinality(VotingNodes(m1)) = 1 THEN [m1 EXCEPT !.commit_idx = cur] ELSE m1
           ready == {q \in VotingNodes(m1) \ {s} : m1.nodes[q].next_idx = cur}
           out == SendTo(s, m1, ready)
<1>1. m \in FixedServer(s) /\ RingOK(m) /\ entries \in Nat
  BY FixedFacts DEF ElectionInv, FixedTypes
<1>2. type = "NORMAL" /\ p = NoNode /\ m.state = "LEADER"
  BY DEF FixedMembers, raft_recv_entry, MaySubmit
<1>3. e \in NormalEntry /\ e.term = m.current_term /\ e.type = "NORMAL"
  <2>1. m.current_term \in 0..MaxTerm
    BY <1>1, FixedFacts
  <2> QED
    BY <1>1, <1>2, <2>1 DEF NormalEntry
<1>4. srv' = [srv EXCEPT ![s] = r] /\ Exchange(EmptyBag, out)
  <2>1. ReceiveEntry(s, m, e) = [me |-> r, out |-> out]
    <3> HIDE DEF e, m1
    <3> QED
      BY <1>3 DEF ReceiveEntry, raft_entry_is_voting_cfg_change, m1
  <2>2. /\ srv' = [srv EXCEPT ![s] = ReceiveEntry(s, m, e).me]
        /\ Exchange(EmptyBag, ReceiveEntry(s, m, e).out)
    BY DEF raft_recv_entry
  <2>3. ReceiveEntry(s, m, e).me = r /\ ReceiveEntry(s, m, e).out = out
    <3> HIDE DEF r, out
    <3> QED
      BY <2>1
  <2> HIDE DEF r, out, m, e
  <2> QED
    BY <2>2, <2>3 DEF m
<1> HIDE DEF e
<1>5. PICK size, front : /\ Ring(Append(m.log, e), size, front)
                         /\ m1 = WithLog(m, Append(m.log, e), size, front)
  BY <1>1, <1>3, AppendEntry
<1>6. /\ m1 \in FixedServer(s) /\ RingOK(m1) /\ m1.log = Append(m.log, e)
      /\ m1.state = m.state /\ m1.current_term = m.current_term
      /\ m1.voted_for = m.voted_for /\ m1.nodes = m.nodes
  <2>1. PICK log : log = Append(m.log, e)
    OBVIOUS
  <2> HIDE DEF m, m1
  <2>2. Ring(log, size, front) /\ m1 = WithLog(m, log, size, front)
    BY <1>5, <2>1
  <2>3. m1 \in FixedServer(s) /\ RingOK(m1) /\ m1.log = log
    BY <1>1, <2>2, WithLogType
  <2>4. /\ m1.state = m.state /\ m1.current_term = m.current_term
        /\ m1.voted_for = m.voted_for /\ m1.nodes = m.nodes
    BY <1>1, <2>2, WithLogKeeps
  <2> QED
    BY <2>1, <2>3, <2>4
<1> HIDE DEF m1
<1>7. cur \in Nat
  BY <1>6, FixedFacts DEF log_get_current_idx
<1> HIDE DEF cur
<1>8. /\ r \in FixedServer(s) /\ RingOK(r) /\ r.log = m1.log
      /\ r.state = m1.state /\ r.current_term = m1.current_term
      /\ r.voted_for = m1.voted_for /\ r.nodes = m1.nodes
  BY <1>6, <1>7 DEF FixedServer, RingOK
<1> HIDE DEF r
<1>9. \A x \in out : FromLog(s, r, x)
  <2>1. ready \in SUBSET (InitialMembers \ {s})
    BY <1>6, MembersVote
  <2>2. \A x \in out : FromLog(s, m1, x)
    <3> HIDE DEF ready
    <3> QED
      BY <1>6, <2>1, SendToOK
  <2> HIDE DEF out
  <2> QED
    BY <1>8, <2>2 DEF FromLog
<1> HIDE DEF out
<1>10. VotesOK(s, r, {})
  BY <1>6, <1>8, SameVotesOK DEF SameVotes
<1>11. LogOK(s, r, {})
  BY <1>2, <1>3, <1>6, <1>8 DEF LogOK
<1>12. HandlerOK(s, r, {})
  BY <1>8, <1>10, <1>11 DEF HandlerOK
<1>13. HandlerOK(s, r, out)
  BY <1>2, <1>6, <1>8, <1>9, <1>12, LeaderSends
<1> QED
  BY <1>4, <1>13 DEF Stepped

-----------------------------------------------------------------------------
(* raft_recv_appendentries                                                 *)

LEMMA MaxIn ==
  ASSUME NEW n \in Nat, NEW S \in SUBSET (0..n), S # {}
  PROVE  Max(S) \in S /\ \A k \in S : Max(S) >= k
<1> DEFINE D == {d \in 0..n : n - d \in S}
<1>1. D \subseteq Nat /\ D # {}
  <2>1. PICK k \in S : TRUE
    OBVIOUS
  <2>2. k \in 0..n /\ n - k \in 0..n /\ n - (n - k) = k
    BY <2>1
  <2>3. n - k \in D
    BY <2>1, <2>2
  <2>4. D \subseteq Nat
    OBVIOUS
  <2> HIDE DEF D
  <2> QED
    BY <2>3, <2>4
<1> HIDE DEF D
<1>2. PICK d \in D : \A e \in D : <<e, d>> \notin OpToRel(<, Nat)
  BY <1>1, NatLessThanWellFounded, WFMin
<1>3. \A e \in D : ~(e < d)
  BY <1>1, <1>2 DEF OpToRel
<1>4. n - d \in S /\ \A k \in S : n - d >= k
  <2>1. n - d \in S /\ d \in 0..n
    BY DEF D
  <2>2. ASSUME NEW k \in S PROVE n - d >= k
    <3>1. n - k \in D /\ k \in 0..n
      BY <2>2 DEF D
    <3>2. ~(n - k < d)
      BY <1>3, <3>1
    <3> QED
      BY <2>1, <3>1, <3>2
  <2> QED
    BY <2>1, <2>2
<1> QED
  BY <1>4 DEF Max

\* w is q followed by u.
Joins(w, q, u) ==
  /\ Len(w) = Len(q) + Len(u)
  /\ \A i \in 1..Len(q) : w[i] = q[i]
  /\ \A j \in 1..Len(u) : w[Len(q) + j] = u[j]

LEMMA ConcatAt ==
  ASSUME NEW S, NEW q \in Seq(S), NEW u \in Seq(S)
  PROVE  Joins(q \o u, q, u)
  BY ConcatProperties DEF Joins

LEMMA LinksOfPrefix ==
  ASSUME NEW log \in Seq(NormalEntry), NEW b \in Seq(NormalEntry), Len(b) <= Len(log),
         \A i \in 1..Len(b) : b[i] = log[i]
  PROVE  LogLinks(b) \subseteq LogLinks(log)
<1> SUFFICES ASSUME NEW a \in LogLinks(b) PROVE a \in LogLinks(log)
  OBVIOUS
<1>1. PICK i \in 1..Len(b) : a = Link(i, b[i], PrevTerm(b, i))
  BY LogLinksDef
<1>2. i \in 1..Len(log) /\ b[i] = log[i] /\ (i # 1 => b[i - 1] = log[i - 1])
  OBVIOUS
<1>3. a = Link(i, log[i], PrevTerm(log, i))
  BY <1>1, <1>2 DEF PrevTerm
<1> QED
  BY <1>2, <1>3, LogLinksDef

\* The links that entries es after an entry of term pt at index prev make
ChainLinks(prev, pt, es) ==
  {Link(prev + l, es[l], IF l = 1 THEN pt ELSE es[l - 1].term) : l \in 1..Len(es)}

\* b, of length n, is the beginning of log up to the k-th of the entries es, which fit
\* there, and etys are the other o entries.
ChainFits(log, b, es, etys, prev, pt, k, n, o) ==
  /\ n = Len(b) /\ o = Len(etys) /\ n = prev + k /\ n <= Len(log)
  /\ \A i \in 1..n : b[i] = log[i]
  /\ k # 0 => log[n].term = es[k].term
  /\ IF prev = 0 THEN pt = 0 ELSE log[prev].term = pt
  /\ \A j \in 1..o : k + j \in 1..Len(es) /\ etys[j] = es[k + j]

\* A log whose end is replaced by entries that fit what is before them.
LEMMA LinksOfChain ==
  ASSUME NEW log \in Seq(NormalEntry), NEW b \in Seq(NormalEntry), NEW es \in Seq(NormalEntry),
         NEW etys \in Seq(NormalEntry), NEW prev \in Nat, NEW pt \in Nat, NEW k \in Nat,
         NEW n \in Nat, NEW o \in Nat, ChainFits(log, b, es, etys, prev, pt, k, n, o)
  PROVE  LogLinks(b \o etys) \subseteq LogLinks(log) \cup ChainLinks(prev, pt, es)
<1> USE DEF ChainFits
<1> DEFINE L == b \o etys
<1>0. /\ Len(L) = Len(b) + Len(etys)
      /\ \A i \in 1..Len(b) : L[i] = b[i]
      /\ \A j \in 1..Len(etys) : L[Len(b) + j] = etys[j]
  <2>1. Joins(L, b, etys)
    BY ConcatAt
  <2> HIDE DEF L
  <2> QED
    BY <2>1, Zenon DEF Joins
<1>1. Len(L) = n + o
  BY <1>0, Zenon
<1>4. /\ \A i \in 1..n : L[i] = log[i]
      /\ \A j \in 1..o : L[n + j] = es[k + j]
  <2> HIDE DEF L
  <2> QED
    BY <1>0, Zenon
<1> HIDE DEF L
<1> SUFFICES ASSUME NEW a \in LogLinks(L) PROVE a \in LogLinks(log) \cup ChainLinks(prev, pt, es)
  BY DEF L
<1>5. PICK i \in 1..(n + o) : a = Link(i, L[i], PrevTerm(L, i))
  BY <1>1, LogLinksDef
<1>6. CASE i <= n
  <2>1. i \in 1..n /\ (i # 1 => i - 1 \in 1..n)
    BY <1>6
  <2>2. i \in 1..Len(log)
    BY <2>1
  <2>3. L[i] = log[i] /\ (i # 1 => L[i - 1] = log[i - 1])
    BY <1>4, <2>1
  <2>4. a = Link(i, log[i], PrevTerm(log, i))
    BY <1>5, <2>3 DEF PrevTerm
  <2> QED
    BY <2>2, <2>4, LogLinksDef
<1>7. CASE i > n
  <2>1. PICK j \in 1..o : i = n + j
    <3>1. i - n \in 1..o /\ i = n + (i - n)
      BY <1>7
    <3> QED
      BY <3>1
  <2>2. L[i] = es[k + j] /\ k + j \in 1..Len(es)
    BY <1>4, <2>1
  <2>3. PrevTerm(L, i) = IF k + j = 1 THEN pt ELSE es[k + j - 1].term
    <3>1. CASE j # 1
      <4>1. j - 1 \in 1..o /\ i - 1 = n + (j - 1)
        BY <2>1, <3>1
      <4>2. k + (j - 1) = k + j - 1 /\ k + j # 1 /\ i # 1
        BY <2>1, <3>1
      <4>3. L[n + (j - 1)] = es[k + (j - 1)]
        BY <1>4, <4>1
      <4> QED
        BY <4>1, <4>2, <4>3 DEF PrevTerm
    <3>2. CASE j = 1 /\ k # 0
      <4>1. n \in 1..n
        BY <3>2
      <4>2. k + j - 1 = k /\ k + j # 1
        BY <3>2
      <4>3. i - 1 = n /\ i # 1
        BY <2>1, <3>2, <4>1
      <4>4. L[n] = log[n]
        BY <1>4, <4>1
      <4>5. PrevTerm(L, i) = es[k].term
        BY <3>2, <4>3, <4>4 DEF PrevTerm
      <4> QED
        BY <4>2, <4>5
    <3>3. CASE j = 1 /\ k = 0 /\ prev # 0
      <4>1. i - 1 = prev /\ prev \in 1..n /\ k + j = 1 /\ i # 1
        BY <2>1, <3>3
      <4>2. L[prev] = log[prev]
        BY <1>4, <4>1
      <4> QED
        BY <3>3, <4>1, <4>2 DEF PrevTerm
    <3>4. CASE j = 1 /\ k = 0 /\ prev = 0
      <4>1. i = 1 /\ k + j = 1
        BY <2>1, <3>4
      <4> QED
        BY <3>4, <4>1 DEF PrevTerm
    <3> QED
      BY <3>1, <3>2, <3>3, <3>4
  <2>4. PICK l \in 1..Len(es) : l = k + j
    BY <2>2
  <2>5. prev + l = i
    BY <2>1, <2>4
  <2>6. a = Link(prev + l, es[l], IF l = 1 THEN pt ELSE es[l - 1].term)
    <3>1. L[i] = es[l]
      BY <2>2, <2>4
    <3>2. PrevTerm(L, i) = IF l = 1 THEN pt ELSE es[l - 1].term
      BY <2>3, <2>4
    <3> QED
      BY <1>5, <2>5, <3>1, <3>2, Zenon
  <2> QED
    BY <2>6 DEF ChainLinks
<1> QED
  BY <1>6, <1>7

LEMMA AeLinksDef ==
  ASSUME NEW x
  PROVE  AeLinks(x) = ChainLinks(x.prev_log_idx, x.prev_log_term, x.entries)
  BY DEF AeLinks, ChainLinks, Link

\* What PrevCheck and Matching find out about m's log.
LEMMA PrevMatches ==
  ASSUME NEW s, NEW m \in FixedServer(s), NEW x \in AeMsg, PrevCheck(m, x) = "ok",
         x.prev_log_idx = 0 => x.prev_log_term = 0
  PROVE  /\ x.prev_log_idx <= Len(m.log)
         /\ IF x.prev_log_idx = 0 THEN x.prev_log_term = 0
            ELSE m.log[x.prev_log_idx].term = x.prev_log_term
<1>1. m.base = 0 /\ m.snapshot_last_idx = 0 /\ Len(m.log) \in Nat /\ x.prev_log_idx \in Nat
  BY DEF FixedServer, AeMsg
<1>2. CASE x.prev_log_idx = 0
  BY <1>1, <1>2
<1>3. CASE x.prev_log_idx # 0
  <2>1. HasEntry(m, x.prev_log_idx)
    BY <1>1, <1>3 DEF PrevCheck
  <2>2. log_get_at_idx(m, x.prev_log_idx).term = x.prev_log_term
    BY <1>1, <1>3, <2>1 DEF PrevCheck
  <2>3. x.prev_log_idx - m.base = x.prev_log_idx
    BY <1>1
  <2> QED
    BY <1>1, <1>3, <2>1, <2>2, <2>3 DEF HasEntry, log_get_at_idx, log_get_current_idx
<1> QED
  BY <1>2, <1>3

LEMMA MatchingIs ==
  ASSUME NEW s, NEW m \in FixedServer(s), NEW x \in AeMsg,
         x.prev_log_idx <= Len(m.log)
  PROVE  LET k == Matching(m, x) IN
         /\ k \in 0..Len(x.entries) /\ x.prev_log_idx + k <= Len(m.log)
         /\ k # 0 => m.log[x.prev_log_idx + k].term = x.entries[k].term
         /\ k < Len(x.entries) /\ HasEntry(m, x.prev_log_idx + k + 1) =>
              m.log[x.prev_log_idx + k + 1].term # x.entries[k + 1].term
<1> DEFINE Same(k) == /\ HasEntry(m, x.prev_log_idx + k)
                      /\ log_get_at_idx(m, x.prev_log_idx + k).term = x.entries[k].term
           n == Len(x.entries)
           S == {k \in 0..n : \A j \in 1..k : Same(j)}
           k == Matching(m, x)
<1>1. /\ m.base = 0 /\ Len(m.log) \in Nat /\ x.prev_log_idx \in Nat /\ n \in Nat
  BY DEF FixedServer, AeMsg
<1>2. k = Max(S)
  BY DEF Matching
<1>3. 0 \in S
  <2> HIDE DEF Same, n
  <2> QED
    BY <1>1
<1>4. S \in SUBSET (0..n)
  OBVIOUS
<1>5. k \in S /\ \A j \in S : k >= j
  <2> HIDE DEF S, k, n
  <2> QED
    BY <1>1, <1>2, <1>3, <1>4, MaxIn
<1>6. k \in 0..n /\ \A j \in 1..k : Same(j)
  BY <1>5
<1> HIDE DEF k
<1>9. ASSUME k < n, HasEntry(m, x.prev_log_idx + k + 1)
      PROVE  m.log[x.prev_log_idx + k + 1].term # x.entries[k + 1].term
  <2>0. k \in Nat /\ x.prev_log_idx \in Nat
    BY <1>1, <1>6
  <2> HIDE DEF n
  <2>1. PICK i \in Nat, l \in Nat : i = x.prev_log_idx + k + 1 /\ l = k + 1 /\ i = x.prev_log_idx + l
    <3>1. /\ x.prev_log_idx + k + 1 \in Nat /\ k + 1 \in Nat
          /\ x.prev_log_idx + k + 1 = x.prev_log_idx + (k + 1)
      BY <2>0
    <3> QED
      BY <3>1
  <2>2. l \notin S /\ l \in 0..n
    <3>1. ~(k >= l) /\ l \in 0..n
      BY <1>1, <1>9, <2>0, <2>1
    <3> HIDE DEF S
    <3> QED
      BY <1>5, <3>1
  <2>3. ~(\A j \in 1..l : Same(j))
    <3> HIDE DEF Same
    <3> QED
      BY <2>2
  <2>4. \A j \in 1..l : j # l => j \in 1..k
    BY <1>6, <2>1
  <2>5. ~Same(l)
    <3> HIDE DEF Same
    <3> QED
      BY <1>6, <2>3, <2>4
  <2>6. log_get_at_idx(m, i).term # x.entries[l].term
    BY <1>9, <2>1, <2>5
  <2>7. log_get_at_idx(m, i) = m.log[i]
    <3>1. i - m.base = i
      BY <1>1
    <3> QED
      BY <3>1, Zenon DEF log_get_at_idx
  <2> QED
    BY <2>1, <2>6, <2>7
<1>7. CASE k = 0
  BY <1>1, <1>6, <1>7, <1>9 DEF k
<1>8. CASE k # 0
  <2>1. k \in 1..k /\ k \in Nat
    BY <1>1, <1>6, <1>8
  <2>2. Same(k)
    BY <1>6, <2>1
  <2>4. x.prev_log_idx + k <= Len(m.log)
    <3>1. x.prev_log_idx + k <= m.base + Len(m.log)
      BY <2>2 DEF HasEntry, log_get_current_idx
    <3>2. m.base + Len(m.log) = Len(m.log)
      BY <1>1
    <3> QED
      BY <3>1, <3>2
  <2>5. m.log[x.prev_log_idx + k].term = x.entries[k].term
    <3>1. PICK i \in Nat : i = x.prev_log_idx + k
      BY <1>1, <2>1
    <3>2. log_get_at_idx(m, i) = m.log[i]
      <4>1. i - m.base = i
        BY <1>1
      <4> QED
        BY <4>1, Zenon DEF log_get_at_idx
    <3>3. log_get_at_idx(m, i).term = x.entries[k].term
      BY <2>2, <3>1
    <3> QED
      BY <3>1, <3>2, <3>3
  <2> QED
    BY <1>6, <1>9, <2>4, <2>5 DEF k
<1> QED
  BY <1>7, <1>8

\* Log c is a with the entries es put after its first prev: the first n of es are
\* there already; when there are more, b is what a keeps.
Merged(a, es, prev, n, b, c) ==
  /\ b \in Seq(NormalEntry) /\ c \in Seq(NormalEntry)
  /\ Len(b) <= Len(a) /\ \A i \in 1..Len(b) : b[i] = a[i]
  /\ n < Len(es) => Len(b) = prev + n
  /\ ~(n < Len(es)) => b = a
  /\ c = b \o SubSeq(es, n + 1, Len(es))

\* g is m with another log.
Relogged(m, g, c) ==
  /\ g.log = c /\ (g.front = 0 \/ g.front = m.front)
  /\ g.state = m.state /\ g.current_term = m.current_term /\ g.voted_for = m.voted_for
  /\ g.nodes = m.nodes /\ g.commit_idx = m.commit_idx /\ g.fsm = m.fsm
  /\ g.last_applied_idx = m.last_applied_idx /\ g.current_leader = m.current_leader

LEMMA WithLogRelogs ==
  ASSUME NEW s, NEW m \in FixedServer(s), NEW c, NEW size, NEW front,
         front = 0 \/ front = m.front
  PROVE  Relogged(m, WithLog(m, c, size, front), c)
  BY DEF Relogged, WithLog, FixedServer

\* What AcceptEntries makes of m, when it finds n of the entries in m's log
Halted(m)        == [m EXCEPT !.state = "DOWN"]
WithCommit(m, i) == [m EXCEPT !.commit_idx = i]

Accepted(m, x, n, g, r) ==
  \/ /\ r = Halted(m) /\ n < Len(x.entries)
     /\ HasEntry(m, x.prev_log_idx + n + 1) /\ x.prev_log_idx + n + 1 <= m.commit_idx
  \/ r = WithCommit(g, min(max(log_get_current_idx(g), 1), x.leader_commit))
     /\ g.commit_idx < x.leader_commit
  \/ r = g /\ ~(g.commit_idx < x.leader_commit)

LEMMA AcceptIs ==
  ASSUME ServerAssumption, BoundAssumption, NEW s \in InitialMembers, NEW m \in FixedServer(s),
         RingOK(m), NEW x \in AeMsg, x.prev_log_idx <= Len(m.log)
  PROVE  \E b, c, g : /\ g \in FixedServer(s) /\ RingOK(g) /\ Relogged(m, g, c)
                      /\ Merged(m.log, x.entries, x.prev_log_idx, Matching(m, x), b, c)
                      /\ Accepted(m, x, Matching(m, x), g, AcceptEntries(s, m, x))
<1> DEFINE k    == Matching(m, x)
           next == x.prev_log_idx + k + 1
           clash == k < Len(x.entries) /\ HasEntry(m, next)
           m1   == IF clash THEN raft_delete_entry_from_idx(m, next) ELSE m
           etys == SubSeq(x.entries, k + 1, Len(x.entries))
           m2   == Appending(s, m1, etys)[Len(etys)]
           last == max(log_get_current_idx(m2), 1)
           r    == AcceptEntries(s, m, x)
<1>0. Accepted(m, x, k, m2, r)
  BY DEF AcceptEntries, Accepted, Halted, WithCommit
<1> HIDE DEF r
<1>2. PICK es \in Seq(NormalEntry), prev \in Nat, pt \in Nat, lc \in Nat :
        /\ es = x.entries /\ prev = x.prev_log_idx /\ pt = x.prev_log_term
        /\ lc = x.leader_commit
  BY DEF AeMsg
<1>3. PICK log \in Seq(NormalEntry) : log = m.log
  BY FixedFacts
<1>4. Len(es) \in Nat /\ Len(log) \in Nat /\ m.base = 0
  BY FixedFacts
<1>5. prev <= Len(log)
  BY <1>2, <1>3
<1>6. /\ k \in 0..Len(es) /\ prev + k <= Len(log)
      /\ k # 0 => log[prev + k].term = es[k].term
  BY <1>2, <1>3, <1>5, MatchingIs
<1>7. k \in Nat /\ next = prev + k + 1 /\ next \in Nat
  <2> HIDE DEF k
  <2> QED
    BY <1>2, <1>4, <1>6
<1> HIDE DEF k
<1>8. PICK b \in Seq(NormalEntry) :
        /\ m1 = WithLog(m, b, m.size, m.front) /\ Ring(b, m.size, m.front)
        /\ Len(b) <= Len(log) /\ \A i \in 1..Len(b) : b[i] = log[i]
        /\ k < Len(es) => Len(b) = prev + k
        /\ ~(k < Len(es)) => b = log
  <2>1. CASE clash
    <3>1. next \in 1..Len(m.log)
      BY <1>3, <1>4, <1>7, <2>1 DEF HasEntry, log_get_current_idx
    <3> DEFINE c == SubSeq(m.log, 1, next - 1)
    <3> HIDE DEF next
    <3>2. /\ raft_delete_entry_from_idx(m, next) = WithLog(m, c, m.size, m.front)
          /\ Ring(c, m.size, m.front) /\ Len(c) = next - 1
      BY <3>1, DeleteFrom
    <3>3. next - 1 = prev + k /\ prev + k \in Nat
      BY <1>4, <1>7 DEF next
    <3>4. c \in Seq(NormalEntry)
      BY <3>2 DEF Ring
    <3>5. \A i \in 1..Len(c) : c[i] = log[i]
      <4>1. \A i \in 1..Len(SubSeq(log, 1, next - 1)) :
              SubSeq(log, 1, next - 1)[i] = log[1 + i - 1]
        <5>1. next - 1 \in Int /\ next - 1 <= Len(log)
          BY <1>6, <3>3
        <5> QED
          BY <5>1, SubSeqAt
      <4>2. \A i \in 1..Len(c) : c[i] = log[1 + i - 1]
        BY <1>3, <4>1
      <4> HIDE DEF c
      <4>3. \A i \in 1..Len(c) : 1 + i - 1 = i
        BY <3>4
      <4> QED
        BY <4>2, <4>3
    <3> HIDE DEF c
    <3>6. k < Len(es)
      BY <1>2, <2>1
    <3> QED
      BY <1>6, <2>1, <3>2, <3>3, <3>4, <3>5, <3>6
  <2>2. CASE ~clash
    <3>1. m1 = WithLog(m, log, m.size, m.front) /\ Ring(log, m.size, m.front)
      BY <1>3, <2>2, WithSameLog, RingOfServer
    <3>2. k < Len(es) => Len(log) = prev + k
      <4> SUFFICES ASSUME k < Len(es) PROVE Len(log) = prev + k
        OBVIOUS
      <4>1. ~HasEntry(m, next)
        BY <1>2, <2>2
      <4> QED
        BY <1>3, <1>4, <1>6, <1>7, <4>1 DEF HasEntry, log_get_current_idx
    <3> HIDE DEF m1
    <3> QED
      BY <3>1, <3>2
  <2> QED
    BY <2>1, <2>2
<1> HIDE DEF m1
<1>9. m1 \in FixedServer(s) /\ RingOK(m1) /\ m1.log = b /\ m1.front = m.front
  BY <1>8, WithLogType
<1>10. etys \in Seq(NormalEntry)
  <2>1. k + 1 \in Nat \ {0} /\ Len(es) \in Int /\ Len(es) <= Len(es)
    BY <1>4, <1>7
  <2>2. SubSeq(es, k + 1, Len(es)) \in Seq(NormalEntry)
    BY <2>1, SubSeqIn
  <2> QED
    BY <1>2, <2>2
<1> HIDE DEF etys
<1>12. PICK size, front : /\ Ring(m1.log \o etys, size, front)
                          /\ m2 = WithLog(m1, m1.log \o etys, size, front)
                          /\ front = 0 \/ front = m1.front
  <2>1. PICK g \in FixedServer(s), e \in Seq(NormalEntry) : g = m1 /\ e = etys /\ RingOK(g)
    BY <1>9, <1>10
  <2>2. \E size, front : /\ Ring(g.log \o e, size, front)
                         /\ Appending(s, g, e)[Len(e)] = WithLog(g, g.log \o e, size, front)
                         /\ front = 0 \/ front = g.front
    BY <2>1, AppendAll
  <2> QED
    BY <2>1, <2>2
<1>13. PICK c : c = m1.log \o etys
  OBVIOUS
<1> HIDE DEF m2
<1>14. Ring(c, size, front) /\ m2 = WithLog(m1, c, size, front)
  BY <1>12, <1>13
<1>15. m2 = WithLog(m, c, size, front) /\ (front = 0 \/ front = m.front)
  BY <1>8, <1>9, <1>12, <1>14, WithLogTwice
<1>16. m2 \in FixedServer(s) /\ RingOK(m2) /\ Relogged(m, m2, c)
  BY <1>14, <1>15, WithLogType, WithLogRelogs
<1>17. c = b \o SubSeq(x.entries, k + 1, Len(x.entries)) /\ c \in Seq(NormalEntry)
  BY <1>9, <1>13, <1>14 DEF etys, Ring
<1>18. Merged(m.log, x.entries, x.prev_log_idx, k, b, c)
  BY <1>2, <1>3, <1>8, <1>17 DEF Merged
<1> QED
  BY <1>0, <1>16, <1>18 DEF k, r

LEMMA AcceptKeeps ==
  ASSUME ServerAssumption, BoundAssumption, NEW s \in InitialMembers, NEW m \in FixedServer(s),
         RingOK(m), NEW x \in AeMsg, PrevCheck(m, x) = "ok",
         x.prev_log_idx = 0 => x.prev_log_term = 0
  PROVE  LET r == AcceptEntries(s, m, x) IN
         /\ r \in FixedServer(s) /\ RingOK(r) /\ r.state \in {m.state, "DOWN"}
         /\ r.current_term = m.current_term /\ r.voted_for = m.voted_for
         /\ LogLinks(r.log) \subseteq LogLinks(m.log) \cup AeLinks(x)
<1> DEFINE k == Matching(m, x)
           r == AcceptEntries(s, m, x)
<1>1. x.prev_log_idx <= Len(m.log)
  BY PrevMatches
<1>2. PICK es \in Seq(NormalEntry), prev \in Nat, pt \in Nat, lc \in Nat :
        /\ es = x.entries /\ prev = x.prev_log_idx /\ pt = x.prev_log_term
        /\ lc = x.leader_commit
  BY DEF AeMsg
<1>3. PICK log \in Seq(NormalEntry) : log = m.log
  BY FixedFacts
<1>4. Len(es) \in Nat /\ Len(log) \in Nat /\ m.base = 0
  BY FixedFacts
<1>5. prev <= Len(log) /\ IF prev = 0 THEN pt = 0 ELSE log[prev].term = pt
  BY <1>2, <1>3, PrevMatches
<1>6. /\ k \in 0..Len(es) /\ prev + k <= Len(log)
      /\ k # 0 => log[prev + k].term = es[k].term
  BY <1>2, <1>3, <1>5, MatchingIs
<1>7. k \in Nat
  <2> HIDE DEF k
  <2> QED
    BY <1>2, <1>4, <1>6
<1> HIDE DEF k
<1>8. PICK b, new, m2 : /\ m2 \in FixedServer(s) /\ RingOK(m2) /\ Relogged(m, m2, new)
                        /\ Merged(m.log, x.entries, x.prev_log_idx, k, b, new)
                        /\ Accepted(m, x, k, m2, r)
  BY <1>1, AcceptIs DEF k, r
<1> HIDE DEF r
<1> DEFINE etys == SubSeq(es, k + 1, Len(es))
<1>9. /\ b \in Seq(NormalEntry) /\ Len(b) <= Len(log) /\ \A i \in 1..Len(b) : b[i] = log[i]
      /\ k < Len(es) => Len(b) = prev + k
      /\ ~(k < Len(es)) => b = log
      /\ new = b \o etys
  BY <1>2, <1>3, <1>8 DEF Merged
<1>10. etys \in Seq(NormalEntry)
  <2>1. k + 1 \in Nat \ {0} /\ Len(es) \in Int /\ Len(es) <= Len(es)
    BY <1>4, <1>7
  <2>2. SubSeq(es, k + 1, Len(es)) \in Seq(NormalEntry)
    BY <2>1, SubSeqIn
  <2> QED
    BY <2>2
<1>11. \A j \in 1..Len(etys) : k + j \in 1..Len(es) /\ etys[j] = es[k + j]
  <2>1. \A j \in 1..Len(etys) : k + 1 + j - 1 \in 1..Len(es) /\ etys[j] = es[k + 1 + j - 1]
    <3>1. k + 1 \in Nat \ {0} /\ Len(es) \in Int /\ Len(es) <= Len(es)
      BY <1>4, <1>7
    <3> QED
      BY <1>2, <3>1, SubSeqAt, SMTT(30)
  <2> HIDE DEF etys
  <2>2. \A j \in 1..Len(etys) : k + 1 + j - 1 = k + j
    BY <1>7, <1>10
  <2> QED
    BY <2>1, <2>2
<1> HIDE DEF etys
<1>15. LogLinks(new) \subseteq LogLinks(m.log) \cup AeLinks(x)
  <2>1. CASE k < Len(es)
    <3>1. PICK n \in Nat, o \in Nat : n = Len(b) /\ o = Len(etys) /\ n = prev + k /\ n <= Len(log)
      BY <1>9, <1>10, <2>1
    <3>2. LogLinks(b \o etys) \subseteq LogLinks(log) \cup ChainLinks(prev, pt, es)
      <4>1. (\A i \in 1..n : b[i] = log[i]) /\ (k # 0 => log[n].term = es[k].term)
        BY <1>6, <1>9, <3>1
      <4>2. \A j \in 1..o : k + j \in 1..Len(es) /\ etys[j] = es[k + j]
        BY <1>11, <3>1
      <4>3. ChainFits(log, b, es, etys, prev, pt, k, n, o)
        BY <1>5, <3>1, <4>1, <4>2 DEF ChainFits
      <4> QED
        BY <1>7, <1>9, <1>10, <4>3, LinksOfChain
    <3> QED
      BY <1>2, <1>3, <1>9, <3>2, AeLinksDef
  <2>2. CASE ~(k < Len(es))
    <3>1. k = Len(es)
      BY <1>4, <1>6, <2>2
    <3>2. etys = << >>
      <4>1. \A j \in 1..Len(etys) : FALSE
        BY <1>4, <1>11, <3>1
      <4>2. Len(etys) = 0
        BY <1>10, <4>1
      <4> QED
        BY <1>10, <4>2
    <3>3. new = log
      BY <1>9, <2>2, <3>2, ConcatEmptySeq
    <3> QED
      BY <1>3, <3>3
  <2> QED
    BY <2>1, <2>2
<1>14. /\ m2.log = new /\ m2.state = m.state /\ m2.current_term = m.current_term
       /\ m2.voted_for = m.voted_for
  BY <1>8 DEF Relogged
<1>16. CASE r = Halted(m)
  <2>1. /\ r \in FixedServer(s) /\ r.log = m.log /\ r.state = "DOWN" /\ r.size = m.size
        /\ r.front = m.front /\ r.current_term = m.current_term /\ r.voted_for = m.voted_for
    BY <1>16 DEF Halted, FixedServer
  <2>2. RingOK(r)
    BY <2>1 DEF RingOK
  <2> QED
    BY <2>1, <2>2 DEF r
<1> DEFINE i == min(max(log_get_current_idx(m2), 1), x.leader_commit)
<1>17. CASE r = WithCommit(m2, i) \/ r = m2
  <2>1. min(max(log_get_current_idx(m2), 1), lc) \in Nat
    <3>1. log_get_current_idx(m2) \in Nat
      BY <1>8, FixedFacts DEF log_get_current_idx
    <3> QED
      BY <3>1 DEF min, max
  <2>2. i \in Nat
    BY <1>2, <2>1
  <2> HIDE DEF i
  <2>3. /\ r \in FixedServer(s) /\ r.log = m2.log /\ r.state = m2.state /\ r.size = m2.size
        /\ r.front = m2.front /\ r.current_term = m2.current_term /\ r.voted_for = m2.voted_for
    BY <1>8, <1>17, <2>2, ZenonT(60) DEF WithCommit, FixedServer
  <2>4. RingOK(r)
    BY <1>8, <2>3 DEF RingOK
  <2> QED
    BY <1>14, <1>15, <2>3, <2>4 DEF r
<1> QED
  BY <1>8, <1>16, <1>17 DEF Accepted

LEMMA FollowKeeps ==
  ASSUME NEW s, NEW m \in FixedServer(s), RingOK(m)
  PROVE  LET f == raft_become_follower(m)
         IN  /\ f \in FixedServer(s) /\ RingOK(f) /\ f.log = m.log /\ f.state = "FOLLOWER"
             /\ f.current_term = m.current_term /\ f.voted_for = m.voted_for
  BY DEF raft_become_follower, FixedServer, RingOK

LEMMA SetTermKeeps ==
  ASSUME NEW s, NEW m \in FixedServer(s), RingOK(m), NEW t \in 0..MaxTerm, m.current_term < t
  PROVE  LET g == raft_set_current_term(m, t)
         IN  g \in FixedServer(s) /\ RingOK(g) /\ g.log = m.log /\ g.current_term = t
  BY DEF raft_set_current_term, FixedServer, RingOK

\* raft_recv_appendentries before it looks at the entries
Heard(m, x) ==
  LET m1 == CASE m.state = "CANDIDATE" /\ m.current_term = x.term ->
                   raft_become_follower(m)
              [] m.current_term < x.term ->
                   raft_become_follower(raft_set_current_term(m, x.term))
              [] OTHER -> m
  IN  [m1 EXCEPT !.timeout_elapsed = FALSE,
                 !.current_leader = IF x.src \in DOMAIN m1.nodes THEN x.src ELSE NoNode]

LEMMA RecvEntriesIs ==
  ASSUME NEW s, NEW m, NEW x, m.current_term \in Nat, x.term \in Nat
  PROVE  LET h == Heard(m, x) IN
         \/ /\ x.term < m.current_term
            /\ RecvAppendEntries(s, m, x) = [me |-> m, success |-> FALSE]
         \/ /\ m.current_term <= x.term
            /\ \/ /\ PrevCheck(h, x) = "ok"
                  /\ RecvAppendEntries(s, m, x) = [me |-> AcceptEntries(s, h, x), success |-> TRUE]
               \/ /\ PrevCheck(h, x) = "missing"
                  /\ RecvAppendEntries(s, m, x) = [me |-> h, success |-> FALSE]
               \/ /\ PrevCheck(h, x) = "conflict"
                  /\ RecvAppendEntries(s, m, x)
                       = [me |-> raft_delete_entry_from_idx(h, x.prev_log_idx), success |-> FALSE]
               \/ /\ PrevCheck(h, x) = "shutdown"
                  /\ RecvAppendEntries(s, m, x)
                       = [me |-> [h EXCEPT !.state = "DOWN"], success |-> FALSE]
<1>1. PICK h : h = Heard(m, x)
  OBVIOUS
<1>2. PICK c : c = PrevCheck(h, x)
  OBVIOUS
<1>3. RecvAppendEntries(s, m, x) =
        CASE x.term < m.current_term -> [me |-> m, success |-> FALSE]
          [] ~(x.term < m.current_term) /\ c = "ok" ->
               [me |-> AcceptEntries(s, h, x), success |-> TRUE]
          [] ~(x.term < m.current_term) /\ c = "missing" -> [me |-> h, success |-> FALSE]
          [] ~(x.term < m.current_term) /\ c = "conflict" ->
               [me |-> raft_delete_entry_from_idx(h, x.prev_log_idx), success |-> FALSE]
          [] ~(x.term < m.current_term) /\ c = "shutdown" ->
               [me |-> [h EXCEPT !.state = "DOWN"], success |-> FALSE]
  BY <1>1, <1>2 DEF RecvAppendEntries, Heard
<1>4. c \in {"ok", "missing", "conflict", "shutdown"}
  BY <1>2 DEF PrevCheck
<1>5. CASE x.term < m.current_term
  BY <1>3, <1>5
<1>6. CASE ~(x.term < m.current_term)
  <2>1. m.current_term <= x.term
    BY <1>6
  <2> QED
    BY <1>1, <1>2, <1>3, <1>4, <1>6, <2>1
<1> QED
  BY <1>5, <1>6

\* A server that takes entries follows their sender.
LEMMA FollowsSender ==
  ASSUME ServerAssumption, BoundAssumption, ElectionInv, LogInv,
         NEW x \in AeMsg, x \in BagToSet(msgs), x.src # x.dst,
         srv[x.dst].state # "DOWN", srv[x.dst].current_term <= x.term
  PROVE  LET s == x.dst
             m == srv[s]
             h == Heard(m, x)
         IN  /\ h \in FixedServer(s) /\ RingOK(h) /\ h.log = m.log /\ h.state = "FOLLOWER"
             /\ h.current_term = x.term /\ (x.term = m.current_term => h.voted_for = m.voted_for)
<1>0. PICK s \in InitialMembers, l \in InitialMembers, t \in 0..MaxTerm :
        s = x.dst /\ l = x.src /\ t = x.term /\ l # s
  BY DEF AeMsg
<1>1. PICK m \in FixedServer(s) : m = srv[s] /\ RingOK(m)
  BY FixedFacts DEF ElectionInv
<1>2. m.current_term \in Nat /\ t \in Nat /\ m.state # "DOWN" /\ m.current_term <= t
  BY <1>0, <1>1, FixedFacts DEF BoundAssumption
<1>3. m.state = "LEADER" => m.current_term # t
  <2> SUFFICES ASSUME m.state = "LEADER", m.current_term = t PROVE FALSE
    OBVIOUS
  <2>1. Elected(l, t)
    BY <1>0 DEF LogInv, LinksElected, AeMsg
  <2>2. \A c \in InitialMembers : Elected(c, srv[s].current_term) => c = s
    BY <1>1, LeaderElected
  <2> QED
    BY <1>0, <1>1, <2>1, <2>2
<1> DEFINE m1 == CASE m.state = "CANDIDATE" /\ m.current_term = t -> raft_become_follower(m)
                   [] m.current_term < t -> raft_become_follower(raft_set_current_term(m, t))
                   [] OTHER -> m
           Good(f) == /\ f \in FixedServer(s) /\ RingOK(f) /\ f.log = m.log
                      /\ f.state = "FOLLOWER" /\ f.current_term = t
                      /\ t = m.current_term => f.voted_for = m.voted_for
<1>4. Good(m1)
  <2>1. CASE m.current_term < t
    <3>1. m1 = raft_become_follower(raft_set_current_term(m, t))
      BY <1>2, <2>1
    <3>2. PICK g : g = raft_set_current_term(m, t)
      OBVIOUS
    <3>3. g \in FixedServer(s) /\ RingOK(g) /\ g.log = m.log /\ g.current_term = t
      BY <1>1, <2>1, <3>2, SetTermKeeps
    <3> HIDE DEF m1
    <3>4. /\ m1 \in FixedServer(s) /\ RingOK(m1) /\ m1.log = g.log /\ m1.state = "FOLLOWER"
          /\ m1.current_term = g.current_term
      BY <3>1, <3>2, <3>3, FollowKeeps
    <3>5. t # m.current_term
      BY <1>2, <2>1
    <3> QED
      BY <3>3, <3>4, <3>5
  <2>2. CASE m.state = "CANDIDATE" /\ m.current_term = t
    <3>1. m1 = raft_become_follower(m)
      BY <1>2, <2>2
    <3> HIDE DEF m1
    <3>2. /\ m1 \in FixedServer(s) /\ RingOK(m1) /\ m1.log = m.log /\ m1.state = "FOLLOWER"
          /\ m1.current_term = m.current_term /\ m1.voted_for = m.voted_for
      BY <1>1, <3>1, FollowKeeps
    <3> QED
      BY <2>2, <3>2
  <2>3. CASE m.state # "CANDIDATE" /\ m.current_term = t
    <3>1. m1 = m
      BY <1>2, <2>3
    <3>2. m.state = "FOLLOWER"
      BY <1>2, <1>3, <2>3 DEF FixedServer
    <3> HIDE DEF m1
    <3> QED
      BY <1>1, <2>3, <3>1, <3>2
  <2> QED
    BY <1>2, <2>1, <2>2, <2>3
<1>5. Heard(m, x) = [m1 EXCEPT !.timeout_elapsed = FALSE,
                               !.current_leader = IF l \in DOMAIN m1.nodes THEN l ELSE NoNode]
  BY <1>0 DEF Heard
<1> HIDE DEF m1
<1>6. l \in Server
  BY DEF ServerAssumption
<1>7. Good(Heard(m, x))
  BY <1>4, <1>5, <1>6, ZenonT(60) DEF FixedServer, RingOK
<1> QED
  BY <1>0, <1>1, <1>7

LEMMA DropsConflict ==
  ASSUME NEW s, NEW m \in FixedServer(s), RingOK(m), NEW x \in AeMsg,
         PrevCheck(m, x) = "conflict"
  PROVE  LET r == raft_delete_entry_from_idx(m, x.prev_log_idx) IN
         /\ r \in FixedServer(s) /\ RingOK(r) /\ r.state = m.state
         /\ r.current_term = m.current_term /\ r.voted_for = m.voted_for
         /\ LogLinks(r.log) \subseteq LogLinks(m.log)
<1>1. PICK log \in Seq(NormalEntry) : log = m.log /\ Len(log) \in Nat
  BY DEF FixedServer
<1>2. PICK i \in Nat : i = x.prev_log_idx
  BY DEF AeMsg
<1>3. i # 0 /\ HasEntry(m, i) /\ m.base = 0
  BY <1>2 DEF PrevCheck, FixedServer
<1>4. i \in 1..Len(m.log)
  BY <1>1, <1>3 DEF HasEntry, log_get_current_idx
<1> DEFINE c == SubSeq(m.log, 1, i - 1)
           r == raft_delete_entry_from_idx(m, i)
<1>5. r = WithLog(m, c, m.size, m.front) /\ Ring(c, m.size, m.front) /\ Len(c) = i - 1
  BY <1>4, DeleteFrom
<1>6. \A j \in 1..Len(c) : c[j] = log[j]
  <2>1. i - 1 \in Int /\ i - 1 <= Len(log)
    BY <1>1, <1>4
  <2>2. \A j \in 1..Len(SubSeq(log, 1, i - 1)) : SubSeq(log, 1, i - 1)[j] = log[1 + j - 1]
    BY <2>1, SubSeqAt
  <2>3. \A j \in 1..Len(c) : c[j] = log[1 + j - 1]
    BY <1>1, <2>2
  <2> HIDE DEF c
  <2>4. \A j \in 1..Len(c) : 1 + j - 1 = j
    BY <1>5
  <2> QED
    BY <2>3, <2>4
<1> HIDE DEF c, r
<1>7. LogLinks(c) \subseteq LogLinks(log)
  <2>1. c \in Seq(NormalEntry) /\ Len(c) <= Len(log)
    BY <1>1, <1>4, <1>5 DEF Ring
  <2> QED
    BY <1>6, <2>1, LinksOfPrefix
<1>8. r \in FixedServer(s) /\ RingOK(r) /\ r.log = c
  BY <1>5, WithLogType
<1>9. r.state = m.state /\ r.current_term = m.current_term /\ r.voted_for = m.voted_for
  BY <1>5, WithLogKeeps
<1> QED
  BY <1>1, <1>2, <1>7, <1>8, <1>9 DEF r

LEMMA RecvEntriesOK ==
  ASSUME ServerAssumption, BoundAssumption, ElectionInv, LogInv,
         NEW x \in AeMsg, x \in BagToSet(msgs), x.src # x.dst, raft_recv_appendentries(x)
  PROVE  Stepped(x.dst)
<1>0. PICK s \in InitialMembers, l \in InitialMembers :
        s = x.dst /\ l = x.src /\ l # s
  BY DEF AeMsg
<1>1. PICK m \in FixedServer(s) : m = srv[s] /\ RingOK(m) /\ m.state # "DOWN"
  BY <1>0, FixedFacts DEF ElectionInv, raft_recv_appendentries
<1>2. m.current_term \in Nat /\ x.term \in Nat
  BY FixedFacts DEF BoundAssumption, AeMsg
<1> DEFINE res == RecvAppendEntries(s, m, x)
           resp == [kind |-> "aer", src |-> s, dst |-> l, term |-> res.me.current_term,
                    success |-> res.success,
                    current_idx |-> IF res.success THEN x.prev_log_idx + Len(x.entries)
                                    ELSE log_get_current_idx(res.me)]
           out == IF res.me.state = "DOWN" THEN {} ELSE {resp}
<1>3. srv' = [srv EXCEPT ![s] = res.me] /\ Exchange(SetToBag({x}), out)
  BY <1>0, <1>1 DEF raft_recv_appendentries
<1>4. LogLinks(m.log) \subseteq Links /\ AeLinks(x) \subseteq Links
  <2>1. x.kind = "ae"
    BY DEF AeMsg
  <2> QED
    BY <1>1, <2>1, LinksDef
<1> DEFINE Good == /\ res.me \in FixedServer(s) /\ RingOK(res.me) /\ res.success \in BOOLEAN
                   /\ \/ res.me = m
                      \/ StepsDown(s, res.me) /\ LogLinks(res.me.log) \subseteq Links
<1>5. Good
  <2>1. CASE res = [me |-> m, success |-> FALSE]
    <3>1. res.me = m /\ res.success = FALSE
      BY <2>1
    <3> HIDE DEF res
    <3> QED
      BY <1>1, <3>1
  <2>2. CASE m.current_term <= x.term
    <3>1. PICK h : h = Heard(m, x)
      OBVIOUS
    <3>2. /\ h \in FixedServer(s) /\ RingOK(h) /\ h.log = m.log /\ h.state = "FOLLOWER"
          /\ h.current_term = x.term /\ (x.term = m.current_term => h.voted_for = m.voted_for)
      BY <1>0, <1>1, <2>2, <3>1, FollowsSender
    <3>3. ASSUME NEW r, NEW b, res = [me |-> r, success |-> b], b \in BOOLEAN,
                 r \in FixedServer(s), RingOK(r), r.state \in {h.state, "DOWN"},
                 r.current_term = h.current_term, r.voted_for = h.voted_for,
                 LogLinks(r.log) \subseteq LogLinks(h.log) \cup AeLinks(x)
          PROVE  Good
      <4>1. res.me = r /\ res.success = b
        BY <3>3
      <4> HIDE DEF res
      <4>2. StepsDown(s, r)
        BY <1>1, <1>2, <2>2, <3>2, <3>3 DEF StepsDown
      <4> QED
        BY <1>4, <3>2, <3>3, <4>1, <4>2
    <3> HIDE DEF Good
    <3>4. CASE PrevCheck(h, x) = "ok" /\ res = [me |-> AcceptEntries(s, h, x), success |-> TRUE]
      <4>1. PICK r : r = AcceptEntries(s, h, x)
        OBVIOUS
      <4>2. x.prev_log_idx = 0 => x.prev_log_term = 0
        BY DEF LogInv, LinksElected, AeMsg
      <4>3. /\ r \in FixedServer(s) /\ RingOK(r) /\ r.state \in {h.state, "DOWN"}
            /\ r.current_term = h.current_term /\ r.voted_for = h.voted_for
            /\ LogLinks(r.log) \subseteq LogLinks(h.log) \cup AeLinks(x)
        BY <3>2, <3>4, <4>1, <4>2, AcceptKeeps
      <4>4. res = [me |-> r, success |-> TRUE]
        BY <3>4, <4>1
      <4> HIDE DEF res
      <4> QED
        BY <3>3, <4>3, <4>4
    <3>5. CASE PrevCheck(h, x) = "missing" /\ res = [me |-> h, success |-> FALSE]
      BY <3>2, <3>3, <3>5
    <3>6. CASE /\ PrevCheck(h, x) = "conflict"
               /\ res = [me |-> raft_delete_entry_from_idx(h, x.prev_log_idx), success |-> FALSE]
      <4>1. PICK r : r = raft_delete_entry_from_idx(h, x.prev_log_idx)
        OBVIOUS
      <4>2. /\ r \in FixedServer(s) /\ RingOK(r) /\ r.state = h.state
            /\ r.current_term = h.current_term /\ r.voted_for = h.voted_for
            /\ LogLinks(r.log) \subseteq LogLinks(h.log)
        BY <3>2, <3>6, <4>1, DropsConflict
      <4>3. res = [me |-> r, success |-> FALSE]
        BY <3>6, <4>1
      <4> HIDE DEF res
      <4> QED
        BY <3>3, <4>2, <4>3
    <3>7. CASE /\ PrevCheck(h, x) = "shutdown"
               /\ res = [me |-> [h EXCEPT !.state = "DOWN"], success |-> FALSE]
      <4>1. PICK r : r = [h EXCEPT !.state = "DOWN"]
        OBVIOUS
      <4>2. /\ r \in FixedServer(s) /\ r.state = "DOWN" /\ r.log = h.log
            /\ r.size = h.size /\ r.front = h.front
            /\ r.current_term = h.current_term /\ r.voted_for = h.voted_for
        BY <3>2, <4>1 DEF FixedServer
      <4>3. RingOK(r)
        BY <3>2, <4>2 DEF RingOK
      <4>4. res = [me |-> r, success |-> FALSE]
        BY <3>7, <4>1
      <4> HIDE DEF res
      <4> QED
        BY <3>3, <4>2, <4>3, <4>4
    <3> QED
      BY <1>2, <2>1, <2>2, <3>1, <3>4, <3>5, <3>6, <3>7, RecvEntriesIs
  <2> QED
    BY <1>2, <2>1, <2>2, RecvEntriesIs
<1>6. PICK r : r = res.me
  OBVIOUS
<1>7. resp \in AerMsg /\ resp.kind = "aer" /\ resp.src # resp.dst
  <2>1. log_get_current_idx(r) \in Nat /\ r.current_term \in 0..MaxTerm
    BY <1>5, <1>6, FixedFacts DEF log_get_current_idx
  <2>2. x.prev_log_idx + Len(x.entries) \in Nat
    BY DEF AeMsg
  <2> HIDE DEF res
  <2> QED
    BY <1>0, <1>5, <1>6, <2>1, <2>2 DEF AerMsg
<1> HIDE DEF res, resp
<1>8. \A y \in out : y \in AerMsg /\ y.kind = "aer" /\ y.src # y.dst
  BY <1>7
<1> HIDE DEF out
<1>9. VotesOK(s, r, out)
  <2>1. CASE r = m
    BY <1>1, <1>8, <2>1, SameVotesOK DEF SameVotes
  <2>2. CASE StepsDown(s, r)
    BY <1>8, <2>2, StepsDownOK
  <2> QED
    BY <1>5, <1>6, <2>1, <2>2
<1>10. LogOK(s, r, out)
  <2>1. CASE r = m
    BY <1>1, <1>8, <2>1, SameLogOK
  <2>2. CASE StepsDown(s, r) /\ LogLinks(r.log) \subseteq Links
    BY <1>8, <2>2 DEF LogOK, StepsDown
  <2> QED
    BY <1>5, <1>6, <2>1, <2>2
<1>11. HandlerOK(s, r, out)
  BY <1>5, <1>6, <1>8, <1>9, <1>10 DEF HandlerOK, Message
<1> QED
  BY <1>0, <1>3, <1>6, <1>11 DEF Stepped

-----------------------------------------------------------------------------
(* Every step keeps the invariants.                                        *)

Inv == ElectionInv /\ LogInv

LEMMA NewServer ==
  ASSUME ServerAssumption, BoundAssumption, NEW s \in Server
  PROVE  /\ raft_new(s) \in FixedServer(s) /\ RingOK(raft_new(s))
         /\ raft_new(s).log = << >> /\ raft_new(s).state = "FOLLOWER"
         /\ raft_new(s).current_term = 0 /\ raft_new(s).voted_for = NoNode
         /\ Len(raft_new(s).log) = 0
<1> DEFINE m == raft_new(s)
<1>1. m.nodes \in [MembersOf(s) -> MemberNode(s)]
  <2>1. CASE s \in InitialMembers
    <3>0. PICK c \in BOOLEAN : c = CommitStatic
      BY DEF ServerAssumption
    <3>1. raft_node_new(TRUE, c) \in MemberNode(s)
      BY <2>1 DEF raft_node_new, MemberNode, MembersVoting
    <3> QED
      BY <2>1, <3>0, <3>1 DEF raft_new, MembersOf
  <2>2. CASE s \notin InitialMembers
    <3>1. raft_node_new(FALSE, FALSE) \in MemberNode(s)
      BY <2>2 DEF raft_node_new, MemberNode, MembersVoting
    <3> QED
      BY <2>2, <3>1 DEF raft_new, MembersOf
  <2> QED
    BY <2>1, <2>2
<1>2. << >> \in Seq(NormalEntry) /\ Len(<< >>) = 0
  OBVIOUS
<1>3. m \in FixedServer(s)
  <2>1. PICK n \in [MembersOf(s) -> MemberNode(s)] : n = m.nodes
    BY <1>1
  <2>2. m = [current_term |-> 0, voted_for |-> NoNode, log |-> << >>, base |-> 0,
             front |-> 0, size |-> LogCapacity, commit_idx |-> 0, last_applied_idx |-> 0,
             state |-> "FOLLOWER", timeout_elapsed |-> FALSE, current_leader |-> NoNode,
             nodes |-> n, voting_cfg_change_log_idx |-> -1,
             snapshot_in_progress |-> FALSE, snapshot_nonblocking |-> FALSE,
             snapshot_last_idx |-> 0, snapshot_last_term |-> 0,
             saved_snapshot_last_idx |-> 0, saved_snapshot_last_term |-> 0,
             fsm |-> << >>, image |-> {}, pending |-> {}]
    BY <2>1 DEF raft_new
  <2> HIDE DEF m
  <2> QED
    BY <2>2 DEF FixedServer, BoundAssumption
<1>4. m.front = 0 /\ m.size = LogCapacity /\ m.log = << >>
  BY DEF raft_new
<1>5. RingOK(m)
  BY <1>2, <1>4 DEF RingOK, BoundAssumption
<1> QED
  BY <1>2, <1>3, <1>5 DEF raft_new

LEMMA InitOK ==
  ASSUME ServerAssumption, BoundAssumption, FixedMembers, Init
  PROVE  Inv
<1>1. DOMAIN srv = Server /\ \A s \in Server : srv[s] = raft_new(s)
  BY DEF Init, FixedMembers
<1>2. IsABag(msgs) /\ BagToSet(msgs) = {}
  <2>1. msgs = EmptyBag
    BY DEF Init
  <2> QED
    BY <2>1 DEF EmptyBag, SetToBag, IsABag, BagToSet
<1>3. FixedTypes
  BY <1>1, <1>2, NewServer DEF FixedTypes, Init
<1>4. \A s \in InitialMembers :
        /\ srv[s].state = "FOLLOWER" /\ srv[s].voted_for = NoNode
        /\ LogLinks(srv[s].log) = {}
  <2>1. \A s \in InitialMembers : s \in Server
    BY DEF ServerAssumption
  <2>2. \A s \in InitialMembers :
          /\ srv[s].state = "FOLLOWER" /\ srv[s].voted_for = NoNode /\ Len(srv[s].log) = 0
    BY <1>1, <2>1, NewServer
  <2> QED
    BY <2>2, LogLinksDef
<1>5. ElectionInv
  BY <1>2, <1>3, <1>4 DEF ElectionInv, VoteInv, LeaderInv, HasVoted, ServerAssumption
<1>6. \A a : a \notin Links
  BY <1>2, <1>4, LinksDef
<1>7. LogInv
  BY <1>2, <1>6 DEF LogInv, LinksUnique, LinksElected
<1> QED
  BY <1>5, <1>7 DEF Inv

LEMMA OutsiderFacts ==
  ASSUME ServerAssumption, BoundAssumption, FixedTypes, NEW s \in Server \ InitialMembers
  PROVE  /\ srv[s] \in FixedServer(s) /\ RingOK(srv[s])
         /\ srv[s].state = "FOLLOWER" /\ srv[s].log = << >>
         /\ VotingNodes(srv[s]) = {} /\ ~AmVoting(s, srv[s])
<1>1. srv[s] \in FixedServer(s) /\ RingOK(srv[s]) /\ srv[s].state = "FOLLOWER"
      /\ srv[s].log = << >>
  BY DEF FixedTypes
<1>2. srv[s].nodes \in [{s} -> MemberNode(s)]
  BY <1>1 DEF FixedServer, MembersOf
<1>3. \A p \in {s} : ~srv[s].nodes[p].voting
  BY <1>2 DEF MemberNode, MembersVoting
<1> QED
  BY <1>1, <1>2, <1>3 DEF VotingNodes, AmVoting

LEMMA OutsiderPeriodic ==
  ASSUME ServerAssumption, BoundAssumption, Inv, NEW s \in Server \ InitialMembers, Periodic(s)
  PROVE  Inv' /\ VoteStep
<1>0. ElectionInv /\ LogInv /\ FixedTypes /\ IsABag(msgs)
  BY DEF Inv, ElectionInv, FixedTypes
<1> DEFINE m == srv[s]
<1>1. /\ m \in FixedServer(s) /\ RingOK(m) /\ m.state = "FOLLOWER" /\ m.log = << >>
      /\ VotingNodes(m) = {} /\ ~AmVoting(s, m)
  BY <1>0, OutsiderFacts
<1>2. CASE Elapse(s)
  <2> DEFINE r == [m EXCEPT !.timeout_elapsed = TRUE]
  <2>1. srv' = [srv EXCEPT ![s] = r] /\ msgs' = msgs /\ UNCHANGED <<entries, snapshots>>
    BY <1>2 DEF Elapse
  <2>2. r \in FixedServer(s) /\ RingOK(r) /\ r.state = "FOLLOWER" /\ r.log = << >>
    BY <1>1 DEF FixedServer, RingOK
  <2>3. IsABag(msgs)' /\ BagToSet(msgs)' \subseteq BagToSet(msgs)
    BY <1>0, <2>1 DEF IsABag, BagToSet
  <2> HIDE DEF r
  <2> QED
    BY <1>0, <2>1, <2>2, <2>3, OutsiderStep DEF Inv
<1>3. CASE PeriodicApply(s)
  <2>1. EndPeriodic(s, m, {})
    BY <1>3 DEF PeriodicApply
  <2>2. PICK r : r = raft_apply_all(s, m)
    OBVIOUS
  <2>3. r \in FixedServer(s) /\ RingOK(r) /\ r.state = "FOLLOWER" /\ r.log = << >>
    BY <1>1, <2>2, ApplyKeeps
  <2>4. /\ srv' = [srv EXCEPT ![s] = r] /\ Exchange(EmptyBag, {})
        /\ UNCHANGED <<entries, snapshots>>
    BY <2>1, <2>2 DEF EndPeriodic
  <2>5. IsABag(msgs)' /\ BagToSet(msgs)' \subseteq BagToSet(msgs)
    BY <1>0, <2>4, ExchangeMsgs
  <2> QED
    BY <1>0, <2>3, <2>4, <2>5, OutsiderStep DEF Inv
<1>4. ~PeriodicSoleVoter(s) /\ ~PeriodicHeartbeat(s) /\ ~PeriodicElection(s)
  BY <1>1 DEF PeriodicSoleVoter, SoleVoter, PeriodicHeartbeat, PeriodicElection
<1> QED
  BY <1>2, <1>3, <1>4 DEF Periodic

LEMMA PeriodicOK ==
  ASSUME ServerAssumption, BoundAssumption, Inv, NEW s \in Server, Periodic(s)
  PROVE  Inv' /\ VoteStep
<1>0. ElectionInv /\ LogInv /\ FixedTypes
  BY DEF Inv, ElectionInv
<1>1. CASE s \in InitialMembers
  <2>1. Stepped(s)
    BY <1>0, <1>1, ElapseOK, SoleVoterOK, HeartbeatOK, ElectionOK, ApplyStepOK DEF Periodic
  <2>2. entries' = entries /\ snapshots' = snapshots
    BY DEF Periodic, Elapse, PeriodicSoleVoter, PeriodicHeartbeat, PeriodicElection,
           PeriodicApply, EndPeriodic
  <2>3. entries' \in Nat
    BY <1>0, <2>2 DEF FixedTypes
  <2> QED
    BY <1>0, <1>1, <2>1, <2>2, <2>3, SteppedOK DEF Inv
<1> QED
  BY <1>1, OutsiderPeriodic

\* A message is lost, or nothing happens.
LEMMA LossOK ==
  ASSUME ServerAssumption, BoundAssumption, Inv, UNCHANGED <<srv, entries, snapshots>>,
         \/ msgs' = msgs
         \/ \E x : msgs' = msgs (-) SetToBag({x})
  PROVE  Inv' /\ VoteStep
<1>0. ElectionInv /\ LogInv /\ FixedTypes /\ IsABag(msgs) /\ entries' \in Nat
  BY DEF Inv, ElectionInv, FixedTypes
<1>1. IsABag(msgs)' /\ BagToSet(msgs)' \subseteq BagToSet(msgs) \cup {}
  <2>1. IsABag(msgs') /\ DOMAIN msgs' \subseteq DOMAIN msgs
    BY <1>0, BagMinus
  <2> QED
    BY <2>1 DEF IsABag, BagToSet
<1>2. PICK s \in InitialMembers : s \in Server
  BY DEF ServerAssumption
<1>3. srv' = srv
  OBVIOUS
<1>4. FixedTypes'
  BY <1>0, <1>1, <1>3 DEF FixedTypes, RingOK
<1>5. HandlerOK(s, srv[s], {})
  BY <1>0, QuietOK
<1>6. srv'[s] = srv[s] /\ \A q \in InitialMembers \ {s} : srv'[q] = srv[q]
  BY <1>3
<1>7. VoteStep /\ ElectionInv'
  BY <1>0, <1>1, <1>4, <1>5, <1>6, VotesOfServer DEF HandlerOK
<1>8. LogInv'
  BY <1>0, <1>1, <1>5, <1>6, <1>7, LogsOfServer DEF HandlerOK
<1> QED
  BY <1>7, <1>8 DEF Inv

LEMMA MessageKind ==
  ASSUME NEW x \in Message
  PROVE  /\ x.kind = "rv" => x \in RvMsg
         /\ x.kind = "rvr" => x \in RvrMsg
         /\ x.kind = "ae" => x \in AeMsg
         /\ x.kind = "aer" => x \in AerMsg
         /\ x.kind # "snap"
         /\ x.dst \in InitialMembers
  BY DEF Message, RvMsg, RvrMsg, AeMsg, AerMsg

LEMMA DeliverOK ==
  ASSUME ServerAssumption, BoundAssumption, Inv, NEW x \in BagToSet(msgs), Deliver(x)
  PROVE  Inv' /\ VoteStep
<1>0. ElectionInv /\ LogInv /\ FixedTypes
  BY DEF Inv, ElectionInv
<1>1. x \in Message /\ x.src # x.dst
  BY <1>0 DEF FixedTypes, Message
<1>2. PICK s \in InitialMembers : s = x.dst
  BY <1>1, MessageKind
<1>3. CASE FailRpc(x)
  BY <1>3, LossOK DEF FailRpc
<1>4. ~raft_load_snapshot(x)
  BY <1>1, MessageKind DEF raft_load_snapshot
<1>5. CASE \/ raft_recv_requestvote(x) \/ raft_recv_requestvote_response(x)
           \/ raft_recv_appendentries(x) \/ raft_recv_appendentries_response(x)
  <2>1. entries' = entries /\ snapshots' = snapshots
    BY <1>5 DEF raft_recv_requestvote, raft_recv_requestvote_response,
                raft_recv_appendentries, raft_recv_appendentries_response
  <2>2. entries' \in Nat
    BY <1>0, <2>1 DEF FixedTypes
  <2>3. Stepped(s)
    <3>1. CASE raft_recv_requestvote(x)
      <4> DEFINE r == RecvRequestVote(srv[s], x, s)
                 out == {[kind |-> "rvr", src |-> s, dst |-> x.src,
                          term |-> r.me.current_term, vote_granted |-> r.granted]}
      <4>1. x \in RvMsg /\ srv[s].state # "DOWN"
        BY <1>1, <1>2, <3>1, MessageKind DEF raft_recv_requestvote
      <4>2. HandlerOK(s, r.me, out)
        BY <1>0, <1>1, <1>2, <4>1, RequestVoteOK
      <4>3. srv' = [srv EXCEPT ![s] = r.me] /\ Exchange(SetToBag({x}), out)
        BY <1>2, <3>1 DEF raft_recv_requestvote
      <4> HIDE DEF r, out
      <4> QED
        BY <4>2, <4>3 DEF Stepped
    <3>2. CASE raft_recv_requestvote_response(x)
      <4>1. x \in RvrMsg
        BY <1>1, <3>2, MessageKind DEF raft_recv_requestvote_response
      <4>2. \E r, out : /\ srv' = [srv EXCEPT ![x.dst] = r] /\ Exchange(SetToBag({x}), out)
                        /\ HandlerOK(x.dst, r, out)
        BY <1>0, <1>1, <3>2, <4>1, VoteResponseOK
      <4> QED
        BY <1>2, <4>2 DEF Stepped
    <3>3. CASE raft_recv_appendentries(x)
      <4>1. x \in AeMsg
        BY <1>1, <3>3, MessageKind DEF raft_recv_appendentries
      <4> QED
        BY <1>0, <1>1, <1>2, <3>3, <4>1, RecvEntriesOK
    <3>4. CASE raft_recv_appendentries_response(x)
      <4>1. x \in AerMsg
        BY <1>1, <3>4, MessageKind DEF raft_recv_appendentries_response
      <4> QED
        BY <1>0, <1>1, <1>2, <3>4, <4>1, EntriesResponseOK
    <3> QED
      BY <1>5, <3>1, <3>2, <3>3, <3>4
  <2> QED
    BY <1>0, <2>1, <2>2, <2>3, SteppedOK DEF Inv
<1> QED
  BY <1>3, <1>4, <1>5 DEF Deliver

LEMMA SubmitOK ==
  ASSUME ServerAssumption, BoundAssumption, FixedMembers, Inv, NEW s \in Server,
         NEW type \in EntryTypes, NEW p \in Server \cup {NoNode}, raft_recv_entry(s, type, p)
  PROVE  Inv' /\ VoteStep
<1>0. ElectionInv /\ LogInv /\ FixedTypes
  BY DEF Inv, ElectionInv
<1>1. entries' = entries + 1 /\ snapshots' = snapshots /\ srv[s].state = "LEADER"
  BY DEF raft_recv_entry
<1>2. s \in InitialMembers
  BY <1>0, <1>1 DEF FixedTypes
<1>3. entries' \in Nat
  BY <1>0, <1>1 DEF FixedTypes
<1>4. Stepped(s)
  BY <1>0, <1>2, ReceiveEntryOK
<1> QED
  BY <1>0, <1>1, <1>2, <1>3, <1>4, SteppedOK DEF Inv

LEMMA NoSnapshots ==
  ASSUME ServerAssumption, BoundAssumption, FixedMembers, FixedTypes, NEW s \in Server
  PROVE  /\ \A b \in BOOLEAN : ~raft_begin_snapshot(s, b)
         /\ ~raft_cancel_snapshot(s) /\ ~raft_end_snapshot(s)
<1>1. ~(snapshots < MaxSnapshots)
  BY DEF FixedMembers, FixedTypes
<1>2. ~srv[s].snapshot_in_progress
  BY DEF FixedTypes, FixedServer
<1> QED
  BY <1>1, <1>2 DEF raft_begin_snapshot, BeginSnapshot, raft_cancel_snapshot, raft_end_snapshot

LEMMA NextOK ==
  ASSUME ServerAssumption, BoundAssumption, FixedMembers, Inv, [Next]_vars
  PROVE  Inv' /\ VoteStep
<1>0. FixedTypes
  BY DEF Inv, ElectionInv
<1>1. CASE \E s \in Server : Periodic(s)
  BY <1>1, PeriodicOK
<1>2. ASSUME NEW s \in Server, UserCall(s)
      PROVE  Inv' /\ VoteStep
  <2>1. PICK type \in EntryTypes, p \in Server \cup {NoNode} : raft_recv_entry(s, type, p)
    BY <1>0, <1>2, NoSnapshots DEF UserCall
  <2> QED
    BY <2>1, SubmitOK
<1>3. CASE \E x \in BagToSet(msgs) : Deliver(x)
  BY <1>3, DeliverOK
<1>4. CASE UNCHANGED vars
  BY <1>4, LossOK DEF vars
<1> QED
  BY <1>1, <1>2, <1>3, <1>4 DEF Next

LEMMA TypesOK ==
  ASSUME ServerAssumption, BoundAssumption, Inv
  PROVE  TypeOK
<1>1. FixedTypes
  BY DEF Inv, ElectionInv
<1> SUFFICES ASSUME NEW s \in Server
             PROVE  /\ srv[s].current_term \in Nat
                    /\ srv[s].voted_for \in Server \cup {NoNode}
                    /\ srv[s].state \in {"FOLLOWER", "CANDIDATE", "LEADER", "DOWN"}
                    /\ DOMAIN srv[s].nodes \subseteq Server
                    /\ \A p \in DOMAIN srv[s].nodes : srv[s].nodes[p].next_idx \in Nat \ {0}
                    /\ srv[s].front \in 0..(srv[s].size - 1)
                    /\ Len(srv[s].log) <= srv[s].size
  BY <1>1, ServersAre DEF TypeOK, FixedTypes
<1>2. PICK m \in FixedServer(s) : m = srv[s] /\ RingOK(m)
  BY <1>1 DEF FixedTypes
<1>3. MembersOf(s) \subseteq Server /\ InitialMembers \subseteq Server
  BY DEF MembersOf, ServerAssumption
<1>4. m.nodes \in [MembersOf(s) -> MemberNode(s)]
  BY DEF FixedServer
<1>5. \A n \in MemberNode(s) : n.next_idx \in Nat \ {0}
  BY DEF MemberNode
<1>6. /\ m.current_term \in 0..MaxTerm /\ m.voted_for \in InitialMembers \cup {NoNode}
      /\ m.state \in {"FOLLOWER", "CANDIDATE", "LEADER", "DOWN"}
      /\ m.front \in Nat /\ m.size \in Nat
  BY DEF FixedServer
<1>7. m.front \in 0..(m.size - 1) /\ Len(m.log) <= m.size
  BY <1>2, <1>6 DEF RingOK
<1>8. DOMAIN m.nodes = MembersOf(s) /\ \A p \in MembersOf(s) : m.nodes[p].next_idx \in Nat \ {0}
  BY <1>4, <1>5
<1> QED
  BY <1>2, <1>3, <1>6, <1>7, <1>8

\* Two logs whose links agree are the same up to an entry of the same term.
LEMMA PrefixesAgree ==
  ASSUME NEW q \in Seq(NormalEntry), NEW u \in Seq(NormalEntry),
         \A j \in Nat : j \in 1..Len(q) /\ j \in 1..Len(u) /\ q[j].term = u[j].term =>
           q[j] = u[j] /\ PrevTerm(q, j) = PrevTerm(u, j),
         NEW i \in Nat, i \in 1..Len(q), i \in 1..Len(u), q[i].term = u[i].term
  PROVE  \A j \in 1..i : q[j] = u[j]
<1>0. Len(q) \in Nat /\ Len(u) \in Nat
  OBVIOUS
<1> DEFINE N == {n \in Nat : n < i => q[i - n].term = u[i - n].term}
<1>1. 0 \in N
  OBVIOUS
<1>2. ASSUME NEW n \in Nat, n \in N
      PROVE  n + 1 \in N
  <2> SUFFICES ASSUME n + 1 < i
               PROVE  q[i - (n + 1)].term = u[i - (n + 1)].term
    OBVIOUS
  <2>1. PICK j \in Nat : j = i - n /\ j > 1 /\ j - 1 = i - (n + 1)
    BY <1>0
  <2>2. j \in 1..Len(q) /\ j \in 1..Len(u)
    BY <1>0, <2>1
  <2>3. q[j].term = u[j].term
    BY <1>2, <2>1
  <2>4. PrevTerm(q, j) = PrevTerm(u, j)
    BY <2>2, <2>3
  <2> QED
    BY <2>1, <2>4 DEF PrevTerm
<1>3. Nat \subseteq N
  <2> HIDE DEF N
  <2> QED
    BY <1>1, <1>2, NatInduct
<1>4. TAKE j \in 1..i
<1>5. i - j \in Nat /\ i - j < i /\ i - (i - j) = j /\ j \in Nat
  OBVIOUS
<1>6. q[j].term = u[j].term
  BY <1>3, <1>5
<1>7. j \in 1..Len(q) /\ j \in 1..Len(u)
  BY <1>0
<1> QED
  BY <1>5, <1>6, <1>7

LEMMA LogsMatch ==
  ASSUME ServerAssumption, BoundAssumption, Inv
  PROVE  LogMatching
<1>0. FixedTypes /\ LinksUnique
  BY DEF Inv, ElectionInv, LogInv
<1> SUFFICES ASSUME NEW s \in Server, NEW t \in Server,
                    NEW i \in 1..log_get_current_idx(srv[s]),
                    HasEntry(srv[s], i), HasEntry(srv[t], i),
                    log_get_at_idx(srv[s], i).term = log_get_at_idx(srv[t], i).term,
                    NEW j \in 1..i, HasEntry(srv[s], j), HasEntry(srv[t], j)
             PROVE  log_get_at_idx(srv[s], j) = log_get_at_idx(srv[t], j)
  BY <1>0, ServersAre DEF LogMatching
<1>1. PICK q \in Seq(NormalEntry), u \in Seq(NormalEntry) :
        q = srv[s].log /\ u = srv[t].log /\ srv[s].base = 0 /\ srv[t].base = 0
  BY <1>0 DEF FixedTypes, FixedServer
<1>2. Len(q) \in Nat /\ Len(u) \in Nat /\ i \in Nat /\ j \in Nat
  BY DEF BoundAssumption
<1>3. i \in 1..Len(q) /\ i \in 1..Len(u) /\ q[i].term = u[i].term
  BY <1>1, <1>2 DEF HasEntry, log_get_at_idx, log_get_current_idx
<1>4. s \in InitialMembers /\ t \in InitialMembers
  <2>1. q # << >> /\ u # << >>
    BY <1>3
  <2> QED
    BY <1>0, <1>1, <2>1 DEF FixedTypes
<1>5. ASSUME NEW k \in Nat, k \in 1..Len(q), k \in 1..Len(u), q[k].term = u[k].term
      PROVE  q[k] = u[k] /\ PrevTerm(q, k) = PrevTerm(u, k)
  <2>1. PICK a : a = Link(k, q[k], PrevTerm(q, k))
    OBVIOUS
  <2>2. PICK b : b = Link(k, u[k], PrevTerm(u, k))
    OBVIOUS
  <2>3. a \in LogLinks(q) /\ b \in LogLinks(u)
    BY <1>5, <2>1, <2>2, LogLinksDef
  <2>4. a \in Links /\ b \in Links
    BY <1>1, <1>4, <2>3, LinksDef
  <2>5. /\ a.idx = k /\ a.ety = q[k] /\ a.prev = PrevTerm(q, k)
        /\ b.idx = k /\ b.ety = u[k] /\ b.prev = PrevTerm(u, k)
    BY <2>1, <2>2, LinkFields
  <2>6. a = b
    BY <1>0, <1>5, <2>4, <2>5 DEF LinksUnique
  <2> QED
    BY <2>5, <2>6
<1>6. q[j] = u[j]
  BY <1>2, <1>3, <1>5, PrefixesAgree
<1> QED
  BY <1>1, <1>2, <1>6 DEF log_get_at_idx

-----------------------------------------------------------------------------
(* The theorems about the Raft library.                                    *)

\* How apps/smr uses the library: all servers are added to all of them before the
\* first message, the entries are plain ones, and no snapshot is taken.
FixedCluster == ServerAssumption /\ BoundAssumption /\ FixedMembers

\* The election and the log invariant hold in every state of a cluster with fixed
\* members: the handlers of raft_server.c keep them, whatever messages are lost and
\* delayed and whoever starts an election when.
THEOREM RaftInvariant == FixedCluster => (Spec => [](ElectionInv /\ LogInv))
<1> SUFFICES ASSUME FixedCluster
             PROVE  Spec => [](ElectionInv /\ LogInv)
  OBVIOUS
<1>1. Init => Inv
  BY InitOK DEF FixedCluster
<1>2. Inv /\ [Next]_vars => Inv'
  BY NextOK DEF FixedCluster
<1>3. Inv => ElectionInv /\ LogInv
  BY DEF Inv
<1> QED
  BY <1>1, <1>2, <1>3, PTL DEF Spec

\* The ring of the log stays within its allocation, and next_idx
\* above 0 (raft_node_set_next_idx): the type invariant of a cluster.
THEOREM RaftTypeCorrect == FixedCluster => (Spec => []TypeOK)
<1> SUFFICES ASSUME FixedCluster
             PROVE  Spec => []TypeOK
  OBVIOUS
<1>1. ElectionInv /\ LogInv => TypeOK
  BY TypesOK DEF FixedCluster, Inv
<1> QED
  BY <1>1, RaftInvariant, PTL

\* Two servers never lead the same term (raft_become_leader), though votes and
\* responses of several elections are on their way at once.
THEOREM RaftElectionSafety == FixedCluster => (Spec => []ElectionSafety)
<1> SUFFICES ASSUME FixedCluster
             PROVE  Spec => []ElectionSafety
  OBVIOUS
<1>1. ElectionInv => ElectionSafety
  BY OneLeader DEF FixedCluster
<1> QED
  BY <1>1, RaftInvariant, PTL

\* Logs that hold an entry of the same term at an index agree on all entries up to it:
\* what raft_recv_appendentries appends and deletes keeps followers on their leaders'
\* logs.
THEOREM RaftLogMatching == FixedCluster => (Spec => []LogMatching)
<1> SUFFICES ASSUME FixedCluster
             PROVE  Spec => []LogMatching
  OBVIOUS
<1>1. ElectionInv /\ LogInv => LogMatching
  BY LogsMatch DEF FixedCluster, Inv
<1> QED
  BY <1>1, RaftInvariant, PTL

-----------------------------------------------------------------------------
(* The replicated store: its client and its main loop around the library.  *)

Response == [type : {"kNone", "kSuccess", "kFailTryAgain", "kFailRedirect"},
             leader : Server \cup {NoNode}]
Client == [leader_idx : Server, req : Nat, st : {"idle", "sent", "answered", "exited"},
           resp : Response, disconnected : SUBSET Server]

\* The client knows a server, and a redirection names one.
ClientInv ==
  /\ client \in Client
  /\ client.resp.type = "kFailRedirect" => client.resp.leader \in Server

LEMMA RespondOK ==
  ASSUME ClientInv, NEW s, NEW req,
         NEW type \in {"kSuccess", "kFailTryAgain", "kFailRedirect"},
         NEW l \in Server \cup {NoNode}, type = "kFailRedirect" => l \in Server,
         client' = Respond(client, s, req, type, l)
  PROVE  ClientInv'
<1>1. PICK r \in Response : r.type = type /\ r.leader = l /\ r = [type |-> type, leader |-> l]
  BY DEF Response
<1>2. CASE client' = client
  BY <1>2 DEF ClientInv
<1>3. CASE client' = [client EXCEPT !.st = "answered", !.resp = r]
  BY <1>1, <1>3 DEF ClientInv, Client
<1> QED
  BY <1>1, <1>2, <1>3 DEF Respond

LEMMA ClientStepOK ==
  ASSUME ServerAssumption, BoundAssumption, FixedTypes, ClientInv, SmrNext
  PROVE  ClientInv'
<1>0. /\ client \in Client /\ client.resp \in Response /\ client.leader_idx \in Server
      /\ NoResp \in Response /\ NoResp.type = "kNone"
  BY DEF ClientInv, Client, NoResp, Response
<1>1. CASE SendReqOne
  <2>0. client.req + 1 \in Nat
    BY <1>0 DEF Client
  <2>1. PICK n \in Nat : client' = [client EXCEPT !.st = "sent", !.req = n]
    BY <1>1, <2>0 DEF SendReqOne
  <2>2. client' \in Client /\ client'.resp = client.resp
    BY <1>0, <2>1 DEF Client
  <2> QED
    BY <2>2 DEF ClientInv
<1>2. CASE ClientReqTryAgain
  BY <1>0, <1>2, RespondOK DEF ClientReqTryAgain
<1>3. CASE ClientReqRedirect
  <2>1. PICK s \in Server, l \in Server :
          client' = Respond(client, s, client.req, "kFailRedirect", l)
    <3>1. PICK s \in Server : s = client.leader_idx
      BY <1>0
    <3>2. srv[s].current_leader \in Server \cup {NoNode}
      BY DEF FixedTypes, FixedServer
    <3> QED
      BY <1>3, <3>1, <3>2 DEF ClientReqRedirect
  <2> QED
    BY <2>1, RespondOK
<1>4. CASE ClientReqAccept
  BY <1>4 DEF ClientReqAccept, ClientInv
<1>5. CASE ClientCont
  <2>1. PICK cl : cl = [client EXCEPT !.st = "idle", !.resp = NoResp]
    OBVIOUS
  <2>2. cl \in Client /\ cl.resp = NoResp
    BY <1>0, <2>1 DEF Client
  <2>3. \/ client' = cl
        \/ client.resp.leader \in Server /\ client' = [cl EXCEPT !.leader_idx = client.resp.leader]
    BY <1>5, <2>1 DEF ClientCont, change_leader_to_node, ClientInv
  <2>4. client' \in Client /\ client'.resp = NoResp
    BY <2>2, <2>3 DEF Client
  <2> QED
    BY <1>0, <2>4 DEF ClientInv
<1>6. CASE ClientContFailure
  <2>1. PICK cl : cl = [client EXCEPT !.st = "idle", !.resp = NoResp]
    OBVIOUS
  <2>2. cl \in Client /\ cl.resp = NoResp
    BY <1>0, <2>1 DEF Client
  <2>3. PICK d \in change_leader_to_any(cl) :
          client' = [d EXCEPT !.disconnected = @ \cup {client.leader_idx}]
    BY <1>6, <2>1 DEF ClientContFailure
  <2>5. \/ d = [cl EXCEPT !.st = "exited"]
        \/ \E s \in Server : d = [cl EXCEPT !.leader_idx = s]
    BY <2>3 DEF change_leader_to_any
  <2>6. d \in Client /\ d.resp = NoResp
    BY <2>2, <2>5 DEF Client
  <2>7. d.disconnected \cup {client.leader_idx} \in SUBSET Server
    BY <1>0, <2>6 DEF Client
  <2>4. client' \in Client /\ client'.resp = NoResp
    BY <2>3, <2>6, <2>7 DEF Client
  <2> QED
    BY <1>0, <2>4 DEF ClientInv
<1>7. CASE UNCHANGED smrVars
  BY <1>7 DEF smrVars, ClientInv
<1>8. CASE \E s \in Server : CheckCommit(s)
  BY <1>8, RespondOK DEF CheckCommit
<1> QED
  BY <1>1, <1>2, <1>3, <1>4, <1>5, <1>6, <1>7, <1>8 DEF SmrNext, ClientNext, ServerNext

\* The main loop answers the client and applies what is committed.
LEMMA CheckCommitOK ==
  ASSUME ServerAssumption, BoundAssumption, Inv, NEW s \in Server, CheckCommit(s)
  PROVE  Inv' /\ VoteStep
<1>0. ElectionInv /\ LogInv /\ FixedTypes /\ IsABag(msgs) /\ entries \in Nat
  BY DEF Inv, ElectionInv, FixedTypes
<1>1. PICK r : r = raft_apply_all(s, srv[s])
  OBVIOUS
<1>2. srv' = [srv EXCEPT ![s] = r] /\ msgs' = msgs /\ UNCHANGED <<entries, snapshots>>
  BY <1>1 DEF CheckCommit
<1>3. IsABag(msgs)' /\ BagToSet(msgs)' \subseteq BagToSet(msgs)
  BY <1>0, <1>2 DEF IsABag, BagToSet
<1>4. CASE s \in InitialMembers
  <2>1. HandlerOK(s, r, {})
    BY <1>0, <1>1, <1>4, QuietOK
  <2>2. Stepped(s)
    BY <1>2, <2>1 DEF Stepped
  <2> QED
    BY <1>0, <1>2, <1>4, <2>2, SteppedOK DEF Inv
<1>5. CASE s \notin InitialMembers
  <2>1. /\ srv[s] \in FixedServer(s) /\ RingOK(srv[s]) /\ srv[s].state = "FOLLOWER"
        /\ srv[s].log = << >>
    BY <1>0, <1>5, OutsiderFacts
  <2>2. r \in FixedServer(s) /\ RingOK(r) /\ r.state = "FOLLOWER" /\ r.log = << >>
    BY <1>1, <2>1, ApplyKeeps
  <2> QED
    BY <1>0, <1>2, <1>3, <1>5, <2>2, OutsiderStep DEF Inv
<1> QED
  BY <1>4, <1>5

LEMMA StoreStepOK ==
  ASSUME FixedCluster, Inv, ClientInv, SmrNext
  PROVE  Inv' /\ VoteStep
<1>0. ServerAssumption /\ BoundAssumption /\ FixedMembers
  BY DEF FixedCluster
<1>1. CASE UNCHANGED vars
  BY <1>0, <1>1, LossOK DEF vars
<1>2. CASE ClientReqAccept
  <2>1. PICK s \in Server : s = client.leader_idx
    BY DEF ClientInv, Client
  <2>2. raft_recv_entry(s, "NORMAL", NoNode)
    BY <1>2, <2>1 DEF ClientReqAccept
  <2>3. "NORMAL" \in EntryTypes
    BY <1>0 DEF FixedMembers
  <2> QED
    BY <1>0, <2>2, <2>3, SubmitOK
<1>3. CASE ServerNext
  BY <1>0, <1>3, PeriodicOK, DeliverOK, CheckCommitOK DEF ServerNext
<1> QED
  BY <1>1, <1>2, <1>3 DEF SmrNext, ClientNext, SendReqOne, ClientReqTryAgain,
       ClientReqRedirect, ClientCont, ClientContFailure

\* The invariants of the library hold in the replicated store too, where the client's
\* requests become entries (client_req_handler) and the main loop applies entries
\* before it answers; and the client names one of the servers as the leader.
THEOREM StoreInvariant ==
  FixedCluster => (SmrSpec => [](ElectionInv /\ LogInv /\ ClientInv))
<1> SUFFICES ASSUME FixedCluster
             PROVE  SmrSpec => [](ElectionInv /\ LogInv /\ ClientInv)
  OBVIOUS
<1>1. SmrInit => Inv /\ ClientInv
  <2> SUFFICES ASSUME SmrInit
               PROVE  Inv /\ ClientInv
    OBVIOUS
  <2>1. Inv
    BY InitOK DEF FixedCluster, SmrInit
  <2>2. client \in Client /\ client.resp = NoResp
    BY DEF SmrInit, Client, NoResp, Response
  <2>3. ClientInv
    BY <2>2 DEF ClientInv, NoResp
  <2> QED
    BY <2>1, <2>3
<1>2. Inv /\ ClientInv /\ [SmrNext]_<<vars, smrVars>> => Inv' /\ ClientInv'
  <2> SUFFICES ASSUME Inv, ClientInv, [SmrNext]_<<vars, smrVars>>
               PROVE  Inv' /\ ClientInv'
    OBVIOUS
  <2>1. CASE SmrNext
    BY <2>1, ClientStepOK, StoreStepOK DEF FixedCluster, Inv, ElectionInv
  <2>2. CASE UNCHANGED <<vars, smrVars>>
    <3>1. Inv'
      BY <2>2, LossOK DEF FixedCluster, vars
    <3>2. ClientInv'
      BY <2>2 DEF smrVars, ClientInv
    <3> QED
      BY <3>1, <3>2
  <2> QED
    BY <2>1, <2>2
<1>3. Inv => ElectionInv /\ LogInv
  BY DEF Inv
<1> QED
  BY <1>1, <1>2, <1>3, PTL DEF SmrSpec

=============================================================================
