-------------------------- MODULE RaftSafetyProofs --------------------------
(***************************************************************************)
(* Why what is committed stays: leader completeness, state machine safety, *)
(* the store's promise to its client and the refinement of a replicated    *)
(* log, for any number of servers, terms, entries and messages, when       *)
(* members are fixed and no snapshot is taken.                             *)
(*                                                                         *)
(* The argument is about the past of the cluster: what each elected leader *)
(* had in its log, and how much of it each server ever confirmed.  A       *)
(* history h records that, and the invariant says that some history        *)
(* explains the state.  S is the servers' records and M the set of         *)
(* messages in flight, before or after a step.                             *)
(***************************************************************************)
EXTENDS RaftProofs

\* The terms that have had a leader, h.who[u].  Its log was h.start[u] entries long
\* when it was elected and is, or was last, h.log[u].  Server q has confirmed the
\* first h.ack[u][q] entries of it while it was in term u.
Terms(h) == DOMAIN h.log

\* The first n entries of two logs are the same.
Holds(log, q, n) == n <= Len(log) /\ n <= Len(q) /\ \A i \in 1..n : log[i] = q[i]

\* Every entry came with all before it from the leader of its term.
Coherent(h, log) ==
  \A i \in 1..Len(log) : log[i].term \in Terms(h) /\ Holds(h.log[log[i].term], log, i)

LastTerm(log) == IF Len(log) = 0 THEN 0 ELSE log[Len(log)].term

\* Entries of a log are not newer than term t.
Within(log, t) == \A i \in 1..Len(log) : log[i].term <= t

HistoryType(h) ==
  /\ Terms(h) \subseteq 0..MaxTerm
  /\ h.log \in [Terms(h) -> Seq(NormalEntry)]
  /\ h.start \in [Terms(h) -> Nat]
  /\ h.who \in [Terms(h) -> InitialMembers]
  /\ h.ack \in [Terms(h) -> [InitialMembers -> Nat]]

\* A leader's log is its log at the election, and then entries of its term.
HistoryOK(h) ==
  /\ HistoryType(h)
  /\ \A u \in Terms(h) :
       /\ Coherent(h, h.log[u]) /\ Within(h.log[u], u)
       /\ h.start[u] <= Len(h.log[u])
       /\ \A i \in 1..Len(h.log[u]) : h.start[u] < i <=> h.log[u][i].term = u
       /\ \A q \in InitialMembers : h.ack[u][q] <= Len(h.log[u])

\* A majority has confirmed the first n entries of the leader of term v: they are
\* committed.  A majority may still do so: they are choosable.
Confirmed(h, v, n) ==
  \E Q \in SUBSET InitialMembers : Majority(Q) /\ \A q \in Q : n <= h.ack[v][q]
Choosable(h, S, v, n) ==
  \E Q \in SUBSET InitialMembers :
    Majority(Q) /\ \A q \in Q : S[q].current_term <= v \/ n <= h.ack[v][q]

\* The first c entries of log are committed, by a leader of term t or before.
CommitOK(h, t, log, c) ==
  \/ c = 0
  \/ \E v \in Terms(h), n \in Nat :
       /\ v <= t /\ h.start[v] < n /\ n <= Len(h.log[v]) /\ c <= n
       /\ Confirmed(h, v, n) /\ Holds(log, h.log[v], c)

\* What a leader q knows.
LeaderOK(h, q, m) ==
  LET u == m.current_term IN
  /\ u \in Terms(h) /\ h.who[u] = q /\ h.log[u] = m.log /\ h.ack[u][q] = Len(m.log)
  /\ \A p \in InitialMembers \ {q} : /\ m.nodes[p].next_idx <= Len(m.log) + 1
                                     /\ m.nodes[p].match_idx <= h.ack[u][p]

\* How the record of a server and its part in the history agree.
PastOK(h, q, m) ==
  \A v \in Terms(h) :
    /\ m.current_term < v => h.ack[v][q] = 0
    /\ m.current_term = v => Holds(m.log, h.log[v], h.ack[v][q])
    /\ h.who[v] = q => v <= m.current_term /\ (v = m.current_term => m.state = "LEADER")

\* What has been applied is a committed part of the log.
FsmOK(m) ==
  /\ m.last_applied_idx = Len(m.fsm) /\ Len(m.fsm) <= m.commit_idx
  /\ Holds(m.fsm, m.log, Len(m.fsm))

ServerOK(h, q, m) ==
  /\ m.front = 0 /\ m.state # "DOWN"
  /\ Coherent(h, m.log) /\ Within(m.log, m.current_term)
  /\ m.state = "LEADER" => LeaderOK(h, q, m)
  /\ PastOK(h, q, m)
  /\ CommitOK(h, m.current_term, m.log, m.commit_idx)
  /\ FsmOK(m)
  /\ m.current_leader = q <=> m.state = "LEADER"

\* An appendentries message is a part of its leader's log, up to where that is
\* committed or further.
SliceOf(x, log) ==
  /\ x.prev_log_idx + Len(x.entries) <= Len(log)
  /\ \A k \in 1..Len(x.entries) : x.entries[k] = log[x.prev_log_idx + k]
  /\ x.prev_log_idx # 0 => x.prev_log_term = log[x.prev_log_idx].term
  /\ x.leader_commit <= x.prev_log_idx + Len(x.entries)

AeOK(h, x) ==
  /\ x.term \in Terms(h) /\ h.who[x.term] = x.src
  /\ SliceOf(x, h.log[x.term])
  /\ CommitOK(h, x.term, h.log[x.term], x.leader_commit)

\* What a candidate says of its log is so while it is one.
RvOK(S, x) ==
  /\ x.term <= S[x.src].current_term
  /\ S[x.src].state = "CANDIDATE" /\ S[x.src].current_term = x.term =>
       x.last_log_idx = Len(S[x.src].log) /\ x.last_log_term = LastTerm(S[x.src].log)

MessageOK(h, S, x) ==
  /\ x.kind = "ae" => AeOK(h, x)
  /\ x.kind = "aer" /\ x.success => x.term \in Terms(h) /\ x.current_idx <= h.ack[x.term][x.src]
  /\ x.kind = "rv" => RvOK(S, x)
  /\ x.kind = "rvr" /\ x.vote_granted = 1 => x.term <= S[x.dst].current_term

\* HasVoted, of given servers and messages
Voted(S, M, p, s, t) ==
  \/ S[p].current_term = t /\ S[p].voted_for = s
  \/ \E x \in M : /\ x.kind = "rvr" /\ x.src = p /\ x.dst = s /\ x.term = t
                  /\ x.vote_granted = 1
  \/ /\ S[s].state \in {"CANDIDATE", "LEADER"} /\ S[s].current_term = t
     /\ p # s /\ S[s].nodes[p].voted_for_me

\* log is at least as up to date as one that ends with an entry of term v at n.
UpToDate(log, v, n) == v < LastTerm(log) \/ (v = LastTerm(log) /\ n <= Len(log))

\* A majority has reached the term of every leader.
ReachedOK(h, S) ==
  \A u \in Terms(h) :
    \E Q \in SUBSET InitialMembers : Majority(Q) /\ \A q \in Q : u <= S[q].current_term

\* Later leaders have what may have been committed.
LeadersHave(h, S) ==
  \A u, v \in Terms(h) : \A n \in Nat :
    v < u /\ h.start[v] < n /\ n <= Len(h.log[v]) /\ Choosable(h, S, v, n)
      => n <= h.start[u] /\ Holds(h.log[u], h.log[v], n)

\* A server keeps what it has confirmed and may have been committed.
ServersHave(h, S) ==
  \A q \in InitialMembers, v \in Terms(h), n \in Nat :
    h.start[v] < n /\ n <= h.ack[v][q] /\ Choosable(h, S, v, n)
      => Holds(S[q].log, h.log[v], n)

\* A candidate is as up to date as what its voters have confirmed and may have been
\* committed.
CandidatesHave(h, S, M) ==
  \A p, q \in InitialMembers, v \in Terms(h), n \in Nat :
    (/\ S[p].state = "CANDIDATE" /\ Voted(S, M, q, p, S[p].current_term)
     /\ v < S[p].current_term /\ h.start[v] < n /\ n <= h.ack[v][q] /\ Choosable(h, S, v, n))
      => UpToDate(S[p].log, v, n)

\* A server votes for one that has reached the term.
VotedReached(S) ==
  \A p, q \in InitialMembers : S[q].voted_for = p => S[q].current_term <= S[p].current_term

Explains(h, S, M) ==
  /\ HistoryOK(h)
  /\ \A q \in InitialMembers : ServerOK(h, q, S[q])
  /\ \A x \in M : MessageOK(h, S, x)
  /\ ReachedOK(h, S) /\ LeadersHave(h, S) /\ ServersHave(h, S)
  /\ CandidatesHave(h, S, M) /\ VotedReached(S)

-----------------------------------------------------------------------------
(* Logs and histories.                                                     *)

LEMMA HoldsTrans ==
  ASSUME NEW a \in Seq(NormalEntry), NEW b \in Seq(NormalEntry), NEW c \in Seq(NormalEntry),
         NEW n \in Nat, NEW i \in Nat, Holds(a, b, n), Holds(b, c, i), i <= n
  PROVE  Holds(a, c, i)
<1>1. Len(a) \in Nat /\ Len(b) \in Nat /\ Len(c) \in Nat
  OBVIOUS
<1> QED
  BY <1>1 DEF Holds

LEMMA HoldsLess ==
  ASSUME NEW a \in Seq(NormalEntry), NEW b \in Seq(NormalEntry),
         NEW n \in Nat, NEW i \in Nat, Holds(a, b, n), i <= n
  PROVE  Holds(a, b, i) /\ Holds(b, a, i)
<1>1. Len(a) \in Nat /\ Len(b) \in Nat
  OBVIOUS
<1> QED
  BY <1>1 DEF Holds

LEMMA EntryTerm ==
  ASSUME BoundAssumption, NEW a \in Seq(NormalEntry), NEW i \in 1..Len(a)
  PROVE  a[i] \in NormalEntry /\ a[i].term \in 0..MaxTerm /\ a[i].term \in Nat
<1>1. a[i] \in NormalEntry
  OBVIOUS
<1> QED
  BY <1>1 DEF NormalEntry, BoundAssumption

\* Types of a history.
LEMMA HistoryFacts ==
  ASSUME BoundAssumption, NEW h, HistoryType(h), NEW u \in Terms(h)
  PROVE  /\ h.log[u] \in Seq(NormalEntry) /\ Len(h.log[u]) \in Nat /\ h.start[u] \in Nat
         /\ h.who[u] \in InitialMembers /\ u \in Nat /\ u \in 0..MaxTerm
         /\ \A q \in InitialMembers : h.ack[u][q] \in Nat
<1>1. h.log[u] \in Seq(NormalEntry) /\ u \in 0..MaxTerm
  BY DEF HistoryType
<1>2. h.start[u] \in Nat /\ h.who[u] \in InitialMembers /\ h.ack[u] \in [InitialMembers -> Nat]
  BY DEF HistoryType
<1> QED
  BY <1>1, <1>2 DEF BoundAssumption

\* Logs with an entry of the same term at an index are the same up to it.
LEMMA SameTerm ==
  ASSUME BoundAssumption, NEW h, HistoryType(h),
         NEW a \in Seq(NormalEntry), NEW b \in Seq(NormalEntry), Coherent(h, a), Coherent(h, b),
         NEW i \in Nat \ {0}, i <= Len(a), i <= Len(b), a[i].term = b[i].term
  PROVE  Holds(a, b, i)
<1>1. Len(a) \in Nat /\ Len(b) \in Nat
  OBVIOUS
<1>2. /\ a[i].term \in Terms(h) /\ Holds(h.log[a[i].term], a, i)
      /\ Holds(h.log[b[i].term], b, i)
  BY <1>1 DEF Coherent
<1>3. PICK c \in Seq(NormalEntry) : c = h.log[a[i].term]
  BY <1>2, HistoryFacts
<1>4. Holds(a, c, i) /\ Holds(c, b, i)
  BY <1>2, <1>3, HoldsLess
<1> QED
  BY <1>4, HoldsTrans

\* Terms do not decrease along a log.
LEMMA TermsGrow ==
  ASSUME BoundAssumption, NEW h, HistoryOK(h), NEW a \in Seq(NormalEntry), Coherent(h, a),
         NEW i \in 1..Len(a), NEW j \in 1..Len(a), i <= j
  PROVE  a[i].term <= a[j].term
<1>1. Len(a) \in Nat /\ i \in Nat /\ j \in Nat
  OBVIOUS
<1>2. a[j].term \in Terms(h) /\ Holds(h.log[a[j].term], a, j)
  BY DEF Coherent
<1>3. i <= Len(h.log[a[j].term]) /\ h.log[a[j].term][i] = a[i]
  BY <1>1, <1>2 DEF Holds
<1>4. Within(h.log[a[j].term], a[j].term) /\ Len(h.log[a[j].term]) \in Nat
  BY <1>2, HistoryFacts DEF HistoryOK
<1> QED
  BY <1>1, <1>3, <1>4 DEF Within

\* A log that holds the n first entries of a leader's log, the last of them the
\* leader's own, is as up to date as they are.
LEMMA HoldsUpToDate ==
  ASSUME BoundAssumption, NEW h, HistoryOK(h), NEW a \in Seq(NormalEntry), Coherent(h, a),
         NEW v \in Terms(h), NEW n \in Nat, h.start[v] < n, Holds(a, h.log[v], n)
  PROVE  /\ n <= Len(a) /\ 0 < Len(a) /\ a[n].term = v /\ v <= a[Len(a)].term
         /\ UpToDate(a, v, n)
<1>1. HistoryType(h)
  BY DEF HistoryOK
<1>2. /\ Len(a) \in Nat /\ h.log[v] \in Seq(NormalEntry) /\ Len(h.log[v]) \in Nat
      /\ h.start[v] \in Nat /\ v \in Nat
  BY <1>1, HistoryFacts
<1>3. n \in 1..Len(a) /\ n \in 1..Len(h.log[v]) /\ a[n] = h.log[v][n] /\ Len(a) \in 1..Len(a)
  BY <1>2 DEF Holds
<1>4. h.log[v][n].term = v
  BY <1>3 DEF HistoryOK
<1>5. v <= a[Len(a)].term
  BY <1>3, <1>4, TermsGrow
<1>6. a[Len(a)].term \in Nat
  BY <1>3, EntryTerm
<1> QED
  BY <1>2, <1>3, <1>4, <1>5, <1>6 DEF UpToDate, LastTerm

-----------------------------------------------------------------------------
(* A history grows.                                                        *)

\* k is h some time later.
Later(h, k) ==
  /\ Terms(h) \subseteq Terms(k)
  /\ \A v \in Terms(h) :
       /\ k.start[v] = h.start[v] /\ k.who[v] = h.who[v]
       /\ Holds(k.log[v], h.log[v], Len(h.log[v]))
       /\ \A q \in InitialMembers : h.ack[v][q] <= k.ack[v][q]

LEMMA CoherentLater ==
  ASSUME BoundAssumption, NEW h, NEW k, HistoryType(h), HistoryType(k), Later(h, k),
         NEW a \in Seq(NormalEntry), Coherent(h, a)
  PROVE  Coherent(k, a)
<1> SUFFICES ASSUME NEW i \in 1..Len(a)
             PROVE  a[i].term \in Terms(k) /\ Holds(k.log[a[i].term], a, i)
  BY DEF Coherent
<1> DEFINE t == a[i].term
<1>1. t \in Terms(h) /\ Holds(h.log[t], a, i) /\ i \in Nat
  BY DEF Coherent
<1>2. t \in Terms(k) /\ Holds(k.log[t], h.log[t], Len(h.log[t]))
  BY <1>1 DEF Later
<1>3. PICK b \in Seq(NormalEntry), c \in Seq(NormalEntry) : b = h.log[t] /\ c = k.log[t]
  BY <1>1, <1>2, HistoryFacts
<1>4. Len(b) \in Nat /\ i <= Len(b)
  BY <1>1, <1>3 DEF Holds
<1>5. Holds(c, a, i)
  BY <1>1, <1>2, <1>3, <1>4, HoldsTrans
<1> QED
  BY <1>2, <1>3, <1>5

LEMMA ConfirmedLater ==
  ASSUME BoundAssumption, NEW h, NEW k, HistoryType(h), HistoryType(k), Later(h, k),
         NEW v \in Terms(h), NEW n \in Nat, Confirmed(h, v, n)
  PROVE  Confirmed(k, v, n)
<1>1. v \in Terms(k) /\ \A q \in InitialMembers : h.ack[v][q] \in Nat /\ k.ack[v][q] \in Nat
  BY HistoryFacts DEF Later
<1>2. \A q \in InitialMembers : n <= h.ack[v][q] => n <= k.ack[v][q]
  BY <1>1 DEF Later
<1>3. PICK Q \in SUBSET InitialMembers : Majority(Q) /\ \A q \in Q : n <= h.ack[v][q]
  BY DEF Confirmed
<1> QED
  BY <1>2, <1>3 DEF Confirmed

\* What is committed stays so, also when the log is extended.
LEMMA CommitLater ==
  ASSUME BoundAssumption, NEW h, NEW k, HistoryType(h), HistoryType(k), Later(h, k),
         NEW t \in Nat, NEW w \in Nat, t <= w,
         NEW a \in Seq(NormalEntry), NEW b \in Seq(NormalEntry),
         NEW c \in Nat, Holds(b, a, c), CommitOK(h, t, a, c)
  PROVE  CommitOK(k, w, b, c)
<1>1. CASE c = 0
  BY <1>1 DEF CommitOK
<1>2. CASE c # 0
  <2>1. PICK v \in Terms(h), n \in Nat :
          /\ v <= t /\ h.start[v] < n /\ n <= Len(h.log[v]) /\ c <= n
          /\ Confirmed(h, v, n) /\ Holds(a, h.log[v], c)
    BY <1>2 DEF CommitOK
  <2>2. /\ v \in Terms(k) /\ k.start[v] = h.start[v] /\ v \in Nat
        /\ Holds(k.log[v], h.log[v], Len(h.log[v]))
    BY HistoryFacts DEF Later
  <2>3. Confirmed(k, v, n)
    BY <2>1, ConfirmedLater
  <2>4. PICK d \in Seq(NormalEntry), e \in Seq(NormalEntry) : d = h.log[v] /\ e = k.log[v]
    BY <2>2, HistoryFacts
  <2>5. Len(d) \in Nat /\ Len(e) \in Nat /\ Len(d) <= Len(e) /\ c <= Len(d)
    BY <2>1, <2>2, <2>4 DEF Holds
  <2>6. Holds(d, e, c)
    BY <2>2, <2>4, <2>5, HoldsLess
  <2>7. Holds(b, d, c)
    BY <2>1, <2>4, HoldsTrans
  <2>8. Holds(b, e, c)
    BY <2>6, <2>7, HoldsTrans
  <2>9. v <= w /\ k.start[v] < n /\ n <= Len(k.log[v]) /\ c <= n
    BY <2>1, <2>2, <2>4, <2>5
  <2>10. Holds(b, k.log[v], c)
    BY <2>4, <2>8
  <2> QED
    BY <2>2, <2>3, <2>9, <2>10 DEF CommitOK
<1> QED
  BY <1>1, <1>2

-----------------------------------------------------------------------------
(* What a step of server s, to record r with messages out, must be like.   *)

\* The history changes with what s does: it confirms entries of the leader of its
\* term, it adds entries as a leader, or it becomes the leader of a new term.
Grows(h, k, s, m, r) ==
  /\ Later(h, k)
  /\ \A v \in Terms(h) :
       /\ k.log[v] # h.log[v] => h.who[v] = s /\ Terms(k) = Terms(h)
       /\ \A q \in InitialMembers :
            k.ack[v][q] # h.ack[v][q] => q = s /\ r.current_term = v /\ m.current_term <= v
  /\ \A v \in Terms(k) \ Terms(h) :
       /\ r.state = "LEADER" /\ r.current_term = v
       /\ k.who[v] = s /\ k.start[v] = Len(k.log[v])
       /\ \A q \in InitialMembers \ {s} : k.ack[v][q] = 0

\* A vote of p for c in term t that p is free to give
FreshIn(S, T, p, c, t) ==
  /\ S[p].current_term <= t
  /\ S[p].current_term = t => S[p].voted_for = NoNode
  /\ T[p].current_term = t /\ T[p].voted_for = c

\* One server, s, takes a step, which respects votes.
Steps(S, T, M, N, s, r) ==
  /\ s \in InitialMembers
  /\ \A q \in InitialMembers : S[q] \in FixedServer(q) /\ T[q] \in FixedServer(q)
  /\ T[s] = r /\ \A q \in InitialMembers \ {s} : T[q] = S[q]
  /\ S[s].current_term <= r.current_term
  /\ \A p, c \in InitialMembers, t \in 0..MaxTerm :
       /\ Voted(S, M, p, c, t) => t <= S[p].current_term
       /\ Voted(T, N, p, c, t) => Voted(S, M, p, c, t) \/ FreshIn(S, T, p, c, t)
  /\ r.state = "CANDIDATE" =>
       \/ S[s].state = "CANDIDATE" /\ r.current_term = S[s].current_term
       \/ S[s].current_term < r.current_term

\* Log a is at least as up to date as log b.
AtLeast(a, b) ==
  LastTerm(b) < LastTerm(a) \/ (LastTerm(b) = LastTerm(a) /\ Len(b) <= Len(a))

\* s keeps what it has confirmed and may have been committed.
KeepsHeld(h, S, s, r) ==
  \A v \in Terms(h), n \in Nat :
    h.start[v] < n /\ n <= h.ack[v][s] /\ Choosable(h, S, v, n) => Holds(r.log, h.log[v], n)

\* s votes for a server that has reached the term, with a log at least as up to date.
VoteOK(S, T, s, r) ==
  \A p \in InitialMembers :
    r.voted_for = p /\ (S[s].current_term < r.current_term \/ S[s].voted_for = NoNode) =>
      /\ r.current_term <= T[p].current_term
      /\ T[p].state = "CANDIDATE" /\ T[p].current_term = r.current_term =>
           AtLeast(T[p].log, S[s].log)

\* A new leader has the votes of a majority, and what may have been committed.
NewLeaderOK(h, k, S) ==
  \A u \in Terms(k) \ Terms(h) :
    /\ \E Q \in SUBSET InitialMembers : Majority(Q) /\ \A q \in Q : u <= S[q].current_term
    /\ \A v \in Terms(h), n \in Nat :
         v < u /\ h.start[v] < n /\ n <= Len(h.log[v]) /\ Choosable(h, S, v, n)
           => n <= k.start[u] /\ Holds(k.log[u], h.log[v], n)

\* s takes back nothing, and does not both commit and apply.
Forward(m, r) ==
  /\ m.commit_idx <= r.commit_idx /\ Len(m.fsm) <= Len(r.fsm)
  /\ r.fsm = m.fsm \/ r.commit_idx = m.commit_idx

StepOK(h, k, S, T, s, r, out) ==
  /\ Grows(h, k, s, S[s], r) /\ HistoryOK(k) /\ ServerOK(k, s, r) /\ Forward(S[s], r)
  /\ \A x \in out : MessageOK(k, T, x)
  /\ KeepsHeld(h, S, s, r) /\ VoteOK(S, T, s, r) /\ NewLeaderOK(h, k, S)
  /\ r.state = "CANDIDATE" => r.log = S[s].log

LEMMA StepTypes ==
  ASSUME ServerAssumption, BoundAssumption, NEW S, NEW T, NEW M, NEW N, NEW s, NEW r,
         Steps(S, T, M, N, s, r), NEW q \in InitialMembers
  PROVE  /\ S[q].current_term \in Nat /\ T[q].current_term \in Nat
         /\ S[q].current_term <= T[q].current_term
         /\ S[q].current_term \in 0..MaxTerm /\ T[q].current_term \in 0..MaxTerm
         /\ S[q].log \in Seq(NormalEntry) /\ T[q].log \in Seq(NormalEntry)
         /\ S[q].commit_idx \in Nat /\ T[q].commit_idx \in Nat /\ q # NoNode
<1>1. S[q] \in FixedServer(q) /\ T[q] \in FixedServer(q)
  BY DEF Steps
<1>2. /\ S[q].current_term \in Nat /\ T[q].current_term \in Nat
      /\ S[q].current_term \in 0..MaxTerm /\ T[q].current_term \in 0..MaxTerm
      /\ S[q].log \in Seq(NormalEntry) /\ T[q].log \in Seq(NormalEntry) /\ q # NoNode
  BY <1>1, FixedFacts
<1>3. S[q].commit_idx \in Nat /\ T[q].commit_idx \in Nat
  BY <1>1 DEF FixedServer
<1>4. S[q].current_term <= T[q].current_term
  <2>1. CASE q = s
    BY <2>1 DEF Steps
  <2>2. CASE q # s
    BY <1>2, <2>2 DEF Steps
  <2> QED
    BY <2>1, <2>2
<1> QED
  BY <1>2, <1>3, <1>4

\* Nothing becomes choosable.
LEMMA ChoosableBefore ==
  ASSUME ServerAssumption, BoundAssumption, NEW S, NEW T, NEW M, NEW N, NEW s, NEW r,
         Steps(S, T, M, N, s, r), NEW h, NEW k, HistoryType(h), HistoryType(k),
         Grows(h, k, s, S[s], r), NEW v \in Terms(h), NEW n \in Nat, Choosable(k, T, v, n)
  PROVE  Choosable(h, S, v, n)
<1>1. PICK Q \in SUBSET InitialMembers :
        Majority(Q) /\ \A q \in Q : T[q].current_term <= v \/ n <= k.ack[v][q]
  BY DEF Choosable
<1>2. v \in Nat
  BY HistoryFacts
<1>3. ASSUME NEW q \in Q PROVE S[q].current_term <= v \/ n <= h.ack[v][q]
  <2>1. CASE T[q].current_term <= v
    BY <1>2, <2>1, StepTypes
  <2>2. CASE n <= k.ack[v][q] /\ k.ack[v][q] = h.ack[v][q]
    BY <2>2
  <2>3. CASE k.ack[v][q] # h.ack[v][q]
    BY <2>3 DEF Grows
  <2> QED
    BY <1>1, <2>1, <2>2, <2>3
<1> QED
  BY <1>1, <1>3 DEF Choosable

LEMMA ReachedKept ==
  ASSUME ServerAssumption, BoundAssumption, NEW S, NEW T, NEW M, NEW N, NEW s, NEW r,
         Steps(S, T, M, N, s, r), NEW h, NEW k, HistoryType(h), HistoryType(k),
         ReachedOK(h, S), NewLeaderOK(h, k, S)
  PROVE  ReachedOK(k, T)
<1> SUFFICES ASSUME NEW u \in Terms(k)
             PROVE  \E Q \in SUBSET InitialMembers :
                      Majority(Q) /\ \A q \in Q : u <= T[q].current_term
  BY DEF ReachedOK
<1>1. PICK Q \in SUBSET InitialMembers : Majority(Q) /\ \A q \in Q : u <= S[q].current_term
  BY DEF ReachedOK, NewLeaderOK
<1>2. u \in Nat
  BY HistoryFacts
<1>3. \A q \in Q : u <= T[q].current_term
  BY <1>1, <1>2, StepTypes
<1> QED
  BY <1>1, <1>3

LEMMA LeadersHaveKept ==
  ASSUME ServerAssumption, BoundAssumption, NEW S, NEW T, NEW M, NEW N, NEW s, NEW r,
         Steps(S, T, M, N, s, r), NEW h, NEW k, HistoryOK(h), HistoryOK(k),
         Grows(h, k, s, S[s], r), ReachedOK(h, S), LeadersHave(h, S), NewLeaderOK(h, k, S)
  PROVE  LeadersHave(k, T)
<1> SUFFICES ASSUME NEW u \in Terms(k), NEW v \in Terms(k), NEW n \in Nat,
                    v < u, k.start[v] < n, n <= Len(k.log[v]), Choosable(k, T, v, n)
             PROVE  n <= k.start[u] /\ Holds(k.log[u], k.log[v], n)
  BY DEF LeadersHave
<1>1. HistoryType(h) /\ HistoryType(k)
  BY DEF HistoryOK
<1>2. /\ u \in Nat /\ v \in Nat /\ k.start[v] \in Nat /\ k.start[u] \in Nat
      /\ k.log[u] \in Seq(NormalEntry) /\ k.log[v] \in Seq(NormalEntry)
      /\ Len(k.log[u]) \in Nat /\ Len(k.log[v]) \in Nat
  BY <1>1, HistoryFacts
<1>3. v \in Terms(h)
  BY <1>2 DEF Grows
<1>4. /\ k.start[v] = h.start[v] /\ Holds(k.log[v], h.log[v], Len(h.log[v]))
      /\ h.log[v] \in Seq(NormalEntry) /\ Len(h.log[v]) \in Nat
  BY <1>1, <1>3, HistoryFacts DEF Grows, Later
<1>5. Choosable(h, S, v, n)
  BY <1>1, <1>3, ChoosableBefore
<1>6. CASE u \in Terms(h) /\ n <= Len(h.log[v])
  <2>1. n <= h.start[u] /\ Holds(h.log[u], h.log[v], n)
    BY <1>3, <1>4, <1>5, <1>6 DEF LeadersHave
  <2>2. /\ k.start[u] = h.start[u] /\ Holds(k.log[u], h.log[u], Len(h.log[u]))
        /\ h.log[u] \in Seq(NormalEntry) /\ Len(h.log[u]) \in Nat
    BY <1>1, <1>6, HistoryFacts DEF Grows, Later
  <2>3. n <= Len(h.log[u])
    BY <2>1 DEF Holds
  <2>4. Holds(k.log[u], h.log[v], n)
    BY <1>2, <1>4, <2>1, <2>2, <2>3, HoldsTrans
  <2>5. Holds(h.log[v], k.log[v], n)
    BY <1>2, <1>4, <1>6, HoldsLess
  <2>6. Holds(k.log[u], k.log[v], n)
    BY <1>2, <1>4, <2>4, <2>5, HoldsTrans
  <2> QED
    BY <2>1, <2>2, <2>6
<1>7. CASE u \in Terms(h) /\ Len(h.log[v]) < n
  <2>1. PICK Q \in SUBSET InitialMembers : Majority(Q) /\ \A q \in Q : u <= S[q].current_term
    BY <1>7 DEF ReachedOK
  <2>2. PICK R \in SUBSET InitialMembers :
          Majority(R) /\ \A q \in R : S[q].current_term <= v \/ n <= h.ack[v][q]
    BY <1>5 DEF Choosable
  <2>3. PICK q \in Q : q \in R
    BY <2>1, <2>2, MajoritiesMeet
  <2>4. S[q].current_term \in Nat /\ h.ack[v][q] \in Nat /\ h.ack[v][q] <= Len(h.log[v])
    BY <1>1, <1>3, StepTypes, HistoryFacts DEF HistoryOK
  <2> QED
    BY <1>2, <1>4, <1>7, <2>1, <2>2, <2>3, <2>4
<1>8. CASE u \notin Terms(h)
  <2>1. k.log[v] = h.log[v]
    BY <1>3, <1>8 DEF Grows
  <2> QED
    BY <1>3, <1>4, <1>5, <1>8, <2>1 DEF NewLeaderOK
<1> QED
  BY <1>2, <1>4, <1>6, <1>7, <1>8

LEMMA ServersHaveKept ==
  ASSUME ServerAssumption, BoundAssumption, NEW S, NEW T, NEW M, NEW N, NEW s, NEW r,
         Steps(S, T, M, N, s, r), NEW h, NEW k, HistoryOK(h), HistoryOK(k),
         Grows(h, k, s, S[s], r), ServersHave(h, S), ServerOK(k, s, r), KeepsHeld(h, S, s, r)
  PROVE  ServersHave(k, T)
<1> SUFFICES ASSUME NEW q \in InitialMembers, NEW v \in Terms(k), NEW n \in Nat,
                    k.start[v] < n, n <= k.ack[v][q], Choosable(k, T, v, n)
             PROVE  Holds(T[q].log, k.log[v], n)
  BY DEF ServersHave
<1>1. HistoryType(h) /\ HistoryType(k)
  BY DEF HistoryOK
<1>2. /\ v \in Nat /\ k.start[v] \in Nat /\ k.log[v] \in Seq(NormalEntry) /\ Len(k.log[v]) \in Nat
      /\ k.ack[v][q] \in Nat /\ k.ack[v][q] <= Len(k.log[v])
      /\ T[q].log \in Seq(NormalEntry) /\ S[q].log \in Seq(NormalEntry)
  BY <1>1, HistoryFacts, StepTypes DEF HistoryOK
<1>3. v \in Terms(h)
  BY <1>2 DEF Grows
<1>4. /\ k.start[v] = h.start[v] /\ Holds(k.log[v], h.log[v], Len(h.log[v]))
      /\ h.log[v] \in Seq(NormalEntry) /\ Len(h.log[v]) \in Nat
      /\ h.ack[v][q] \in Nat /\ h.ack[v][q] <= Len(h.log[v])
  BY <1>1, <1>3, HistoryFacts DEF Grows, Later, HistoryOK
<1>5. Choosable(h, S, v, n)
  BY <1>1, <1>3, ChoosableBefore
<1>6. CASE k.ack[v][q] # h.ack[v][q]
  <2>1. q = s /\ r.current_term = v /\ T[s] = r
    BY <1>3, <1>6 DEF Grows, Steps
  <2>2. Holds(r.log, k.log[v], k.ack[v][s])
    BY <2>1 DEF ServerOK, PastOK
  <2> QED
    BY <1>2, <2>1, <2>2, HoldsLess
<1>7. CASE k.ack[v][q] = h.ack[v][q]
  <2>1. Holds(T[q].log, h.log[v], n)
    <3>1. CASE q = s
      BY <1>3, <1>4, <1>5, <1>7, <3>1 DEF KeepsHeld, Steps
    <3>2. CASE q # s
      BY <1>3, <1>4, <1>5, <1>7, <3>2 DEF ServersHave, Steps
    <3> QED
      BY <3>1, <3>2
  <2>2. n <= Len(h.log[v])
    BY <2>1 DEF Holds
  <2>3. Holds(h.log[v], k.log[v], n)
    BY <1>2, <1>4, <2>2, HoldsLess
  <2> QED
    BY <1>2, <1>4, <2>1, <2>3, HoldsTrans
<1> QED
  BY <1>6, <1>7

\* A vote is for a server that has reached the term.
LEMMA VotesReach ==
  ASSUME ServerAssumption, BoundAssumption, NEW h, NEW S, NEW M,
         \A x \in M : MessageOK(h, S, x), VotedReached(S),
         \A q \in InitialMembers : S[q] \in FixedServer(q),
         NEW p \in InitialMembers, NEW q \in InitialMembers, NEW t \in 0..MaxTerm,
         Voted(S, M, q, p, t)
  PROVE  t <= S[p].current_term
<1>1. S[p].current_term \in Nat /\ t \in Nat
  BY FixedFacts DEF BoundAssumption
<1>2. CASE S[q].current_term = t /\ S[q].voted_for = p
  BY <1>2 DEF VotedReached
<1>3. CASE \E x \in M : /\ x.kind = "rvr" /\ x.src = q /\ x.dst = p /\ x.term = t
                        /\ x.vote_granted = 1
  BY <1>3 DEF MessageOK
<1>4. CASE S[p].current_term = t
  BY <1>1, <1>4
<1> QED
  BY <1>2, <1>3, <1>4 DEF Voted

LEMMA LastTermType ==
  ASSUME BoundAssumption, NEW a \in Seq(NormalEntry)
  PROVE  LastTerm(a) \in Nat /\ Len(a) \in Nat
<1>1. Len(a) \in Nat
  OBVIOUS
<1>2. CASE Len(a) = 0
  BY <1>1, <1>2 DEF LastTerm
<1>3. CASE Len(a) # 0
  <2>1. a[Len(a)].term \in Nat
    BY <1>1, <1>3, EntryTerm
  <2> QED
    BY <1>1, <1>3, <2>1 DEF LastTerm
<1> QED
  BY <1>2, <1>3

LEMMA AtLeastUpToDate ==
  ASSUME BoundAssumption, NEW a \in Seq(NormalEntry), NEW b \in Seq(NormalEntry),
         NEW v \in Nat, NEW n \in Nat, AtLeast(a, b), UpToDate(b, v, n)
  PROVE  UpToDate(a, v, n)
<1>1. LastTerm(a) \in Nat /\ LastTerm(b) \in Nat /\ Len(a) \in Nat /\ Len(b) \in Nat
  BY LastTermType
<1> QED
  BY <1>1 DEF AtLeast, UpToDate

LEMMA CandidatesHaveKept ==
  ASSUME ServerAssumption, BoundAssumption, NEW S, NEW T, NEW M, NEW N, NEW s, NEW r,
         Steps(S, T, M, N, s, r), NEW h, NEW k, NEW out, Explains(h, S, M),
         StepOK(h, k, S, T, s, r, out)
  PROVE  CandidatesHave(k, T, N)
<1> SUFFICES ASSUME NEW p \in InitialMembers, NEW q \in InitialMembers, NEW v \in Terms(k),
                    NEW n \in Nat, T[p].state = "CANDIDATE",
                    Voted(T, N, q, p, T[p].current_term), v < T[p].current_term,
                    k.start[v] < n, n <= k.ack[v][q], Choosable(k, T, v, n)
             PROVE  UpToDate(T[p].log, v, n)
  BY DEF CandidatesHave
<1>1. PICK u \in 0..MaxTerm : u = T[p].current_term
  BY StepTypes
<1>2. /\ HistoryType(h) /\ HistoryType(k) /\ HistoryOK(h) /\ HistoryOK(k)
      /\ Grows(h, k, s, S[s], r) /\ s \in InitialMembers
  BY DEF StepOK, HistoryOK, Explains, Steps
<1>3. /\ u \in Nat /\ v \in Nat /\ k.start[v] \in Nat /\ Len(k.log[v]) \in Nat
      /\ k.ack[v][q] \in Nat /\ k.ack[v][q] <= Len(k.log[v])
      /\ S[q].current_term \in Nat /\ S[p].current_term \in Nat /\ S[s].current_term \in Nat
      /\ S[s].log \in Seq(NormalEntry) /\ T[p].log \in Seq(NormalEntry)
      /\ S[p].current_term <= u
  BY <1>1, <1>2, HistoryFacts, StepTypes DEF HistoryOK
<1>4. v \in Terms(h)
  BY <1>2, <1>3 DEF Grows
<1>5. k.start[v] = h.start[v]
  BY <1>2, <1>4 DEF Grows, Later
<1>6. Choosable(h, S, v, n)
  BY <1>2, <1>4, ChoosableBefore
<1>7. u <= S[q].current_term => k.ack[v][q] = h.ack[v][q]
  BY <1>1, <1>2, <1>3, <1>4 DEF Grows
<1>8. CASE Voted(S, M, q, p, u)
  <2>1. u <= S[q].current_term
    BY <1>8 DEF Steps
  <2>2. u <= S[p].current_term
    <3>1. /\ \A x \in M : MessageOK(h, S, x)
          /\ VotedReached(S)
          /\ \A c \in InitialMembers : S[c] \in FixedServer(c)
      BY DEF Explains, Steps
    <3> QED
      BY <1>8, <3>1, VotesReach
  <2>3. S[p].current_term = u /\ S[p].state = "CANDIDATE" /\ T[p].log = S[p].log
    <3>1. CASE p = s
      BY <1>1, <1>3, <2>2, <3>1 DEF Steps, StepOK
    <3>2. CASE p # s
      BY <1>1, <1>3, <2>2, <3>2 DEF Steps
    <3> QED
      BY <3>1, <3>2
  <2>4. CandidatesHave(h, S, M)
    BY DEF Explains
  <2> QED
    BY <1>1, <1>4, <1>5, <1>6, <1>7, <1>8, <2>1, <2>3, <2>4 DEF CandidatesHave
<1>9. CASE FreshIn(S, T, q, p, u)
  <2>1. q = s
    <3> SUFFICES ASSUME q # s PROVE FALSE
      OBVIOUS
    <3>1. T[q] = S[q]
      BY DEF Steps
    <3> QED
      BY <1>9, <3>1, StepTypes DEF FreshIn
  <2>2. T[s] = r /\ r.current_term = u /\ r.voted_for = p
    BY <1>9, <2>1 DEF FreshIn, Steps
  <2>3. S[s].current_term < r.current_term \/ S[s].voted_for = NoNode
    BY <1>3, <1>9, <2>1, <2>2 DEF FreshIn
  <2>4. AtLeast(T[p].log, S[s].log)
    BY <1>1, <2>2, <2>3 DEF StepOK, VoteOK
  <2>5. n <= h.ack[v][s]
    <3>1. k.ack[v][s] = h.ack[v][s]
      BY <1>1, <1>2, <1>3, <1>4, <2>2 DEF Grows
    <3> QED
      BY <2>1, <3>1
  <2>6. Holds(S[s].log, h.log[v], n)
    BY <1>2, <1>4, <1>5, <1>6, <2>5 DEF Explains, ServersHave
  <2>7. Coherent(h, S[s].log)
    BY <1>2 DEF Explains, ServerOK
  <2>8. UpToDate(S[s].log, v, n)
    BY <1>2, <1>3, <1>4, <1>5, <2>6, <2>7, HoldsUpToDate
  <2> QED
    BY <1>3, <2>4, <2>8, AtLeastUpToDate
<1>10. Voted(S, M, q, p, u) \/ FreshIn(S, T, q, p, u)
  BY <1>1 DEF Steps
<1> QED
  BY <1>8, <1>9, <1>10

LEMMA VotedReachedKept ==
  ASSUME ServerAssumption, BoundAssumption, NEW S, NEW T, NEW M, NEW N, NEW s, NEW r,
         Steps(S, T, M, N, s, r), VotedReached(S), VoteOK(S, T, s, r),
         r.current_term = S[s].current_term /\ S[s].voted_for # NoNode
           => r.voted_for = S[s].voted_for
  PROVE  VotedReached(T)
<1> SUFFICES ASSUME NEW p \in InitialMembers, NEW q \in InitialMembers, T[q].voted_for = p
             PROVE  T[q].current_term <= T[p].current_term
  BY DEF VotedReached
<1>1. /\ S[p].current_term \in Nat /\ T[p].current_term \in Nat
      /\ S[q].current_term \in Nat /\ T[q].current_term \in Nat
      /\ S[p].current_term <= T[p].current_term /\ S[q].current_term <= T[q].current_term
  BY StepTypes
<1>2. CASE q # s
  <2>1. S[q].current_term <= S[p].current_term /\ T[q] = S[q]
    BY <1>2 DEF VotedReached, Steps
  <2> QED
    BY <1>1, <2>1
<1>3. CASE q = s
  <2>1. T[s] = r
    BY DEF Steps
  <2>2. CASE S[s].current_term < r.current_term \/ S[s].voted_for = NoNode
    BY <1>3, <2>1, <2>2 DEF VoteOK
  <2>3. CASE r.current_term = S[s].current_term /\ S[s].voted_for # NoNode
    <3>1. S[q].voted_for = p
      BY <1>3, <2>1, <2>3
    <3>2. S[q].current_term <= S[p].current_term
      BY <3>1 DEF VotedReached
    <3> QED
      BY <1>1, <1>3, <2>1, <2>3, <3>2
  <2> QED
    BY <1>1, <1>3, <2>1, <2>2, <2>3
<1> QED
  BY <1>2, <1>3

\* The records of other servers agree with the new history.
LEMMA OthersKept ==
  ASSUME ServerAssumption, BoundAssumption, NEW S, NEW T, NEW M, NEW N, NEW s, NEW r,
         Steps(S, T, M, N, s, r), NEW h, NEW k, HistoryOK(h), HistoryOK(k),
         Grows(h, k, s, S[s], r), NEW q \in InitialMembers \ {s}, ServerOK(h, q, S[q])
  PROVE  ServerOK(k, q, S[q])
<1> DEFINE m == S[q]
           t == m.current_term
<1>1. HistoryType(h) /\ HistoryType(k) /\ Later(h, k)
  BY DEF HistoryOK, Grows
<1>2. /\ m.log \in Seq(NormalEntry) /\ Len(m.log) \in Nat /\ t \in Nat /\ m.commit_idx \in Nat
      /\ m \in FixedServer(q)
  <2>1. m \in FixedServer(q) /\ q \in InitialMembers
    BY DEF Steps
  <2>2. m.log \in Seq(NormalEntry) /\ t \in Nat /\ m.commit_idx \in Nat
    BY <2>1, StepTypes
  <2> QED
    BY <2>1, <2>2
<1>3. Coherent(k, m.log)
  BY <1>1, <1>2, CoherentLater DEF ServerOK
<1>4. CommitOK(k, t, m.log, m.commit_idx)
  <2>1. CommitOK(h, t, m.log, m.commit_idx)
    BY DEF ServerOK
  <2>2. CASE m.commit_idx = 0
    BY <2>2 DEF CommitOK
  <2>3. CASE m.commit_idx # 0
    <3>1. m.commit_idx <= Len(m.log)
      BY <2>1, <2>3 DEF CommitOK, Holds
    <3>2. Holds(m.log, m.log, m.commit_idx)
      BY <1>2, <3>1 DEF Holds
    <3> QED
      BY <1>1, <1>2, <2>1, <3>2, CommitLater
  <2> QED
    BY <2>2, <2>3
<1>5. ASSUME m.state = "LEADER" PROVE LeaderOK(k, q, m)
  <2>1. LeaderOK(h, q, m)
    BY <1>5 DEF ServerOK
  <2>2. /\ t \in Terms(h) /\ h.who[t] = q /\ h.log[t] = m.log /\ h.ack[t][q] = Len(m.log)
        /\ \A p \in InitialMembers \ {q} : /\ m.nodes[p].next_idx <= Len(m.log) + 1
                                           /\ m.nodes[p].match_idx <= h.ack[t][p]
    BY <2>1 DEF LeaderOK
  <2>3. /\ t \in Terms(k) /\ k.who[t] = q /\ k.log[t] = h.log[t] /\ k.ack[t][q] = h.ack[t][q]
    BY <2>2 DEF Grows, Later
  <2>4. ASSUME NEW p \in InitialMembers \ {q} PROVE m.nodes[p].match_idx <= k.ack[t][p]
    <3>1. m.nodes[p].match_idx \in Nat
      <4>1. m.nodes \in [InitialMembers -> MemberNode(q)]
        BY <1>2, FixedFacts
      <4>2. m.nodes[p] \in MemberNode(q)
        BY <4>1
      <4> QED
        BY <4>2 DEF MemberNode
    <3>2. h.ack[t][p] \in Nat /\ k.ack[t][p] \in Nat
      BY <1>1, <2>2, <2>3, HistoryFacts
    <3>3. h.ack[t][p] <= k.ack[t][p] /\ m.nodes[p].match_idx <= h.ack[t][p]
      BY <1>1, <2>2 DEF Later
    <3> QED
      BY <3>1, <3>2, <3>3
  <2> QED
    BY <2>2, <2>3, <2>4 DEF LeaderOK
<1>6. ASSUME NEW v \in Terms(k)
      PROVE  /\ t < v => k.ack[v][q] = 0
             /\ t = v => Holds(m.log, k.log[v], k.ack[v][q])
             /\ k.who[v] = q => v <= t /\ (v = t => m.state = "LEADER")
  <2>1. CASE v \in Terms(h)
    <3>1. k.ack[v][q] = h.ack[v][q] /\ k.who[v] = h.who[v]
      BY <2>1 DEF Grows, Later
    <3>2. /\ t < v => h.ack[v][q] = 0
          /\ t = v => Holds(m.log, h.log[v], h.ack[v][q])
          /\ h.who[v] = q => v <= t /\ (v = t => m.state = "LEADER")
      BY <2>1 DEF ServerOK, PastOK
    <3>3. ASSUME t = v PROVE Holds(m.log, k.log[v], h.ack[v][q])
      <4>1. PICK a \in Seq(NormalEntry), b \in Seq(NormalEntry), n \in Nat :
              a = h.log[v] /\ b = k.log[v] /\ n = h.ack[v][q]
        BY <1>1, <2>1, HistoryFacts
      <4>2. Holds(b, a, Len(a)) /\ Holds(m.log, a, n) /\ Len(a) \in Nat
        BY <1>1, <2>1, <3>2, <3>3, <4>1 DEF Later
      <4>3. n <= Len(a)
        BY <4>2 DEF Holds
      <4>4. Holds(a, b, n)
        BY <4>2, <4>3, HoldsLess
      <4>5. Holds(m.log, b, n)
        BY <1>2, <4>2, <4>4, HoldsTrans
      <4> QED
        BY <4>1, <4>5
    <3> QED
      BY <3>1, <3>2, <3>3
  <2>2. CASE v \notin Terms(h)
    <3>1. k.ack[v][q] = 0 /\ k.who[v] = s
      BY <2>2 DEF Grows
    <3>2. Len(k.log[v]) \in Nat
      BY <1>1, HistoryFacts
    <3>3. Holds(m.log, k.log[v], 0)
      BY <1>2, <3>2 DEF Holds
    <3> QED
      BY <3>1, <3>3
  <2> QED
    BY <2>1, <2>2
<1>7. PastOK(k, q, m)
  BY <1>6 DEF PastOK
<1> QED
  BY <1>3, <1>4, <1>5, <1>7 DEF ServerOK

LEMMA SliceLonger ==
  ASSUME BoundAssumption, NEW a \in Seq(NormalEntry), NEW b \in Seq(NormalEntry),
         Holds(b, a, Len(a)), NEW x \in AeMsg, SliceOf(x, a)
  PROVE  SliceOf(x, b)
<1>1. /\ Len(a) \in Nat /\ Len(b) \in Nat /\ Len(x.entries) \in Nat /\ x.prev_log_idx \in Nat
      /\ x.leader_commit \in Nat
  BY DEF AeMsg
<1>2. \A i \in 1..Len(a) : b[i] = a[i]
  BY DEF Holds
<1>3. Len(a) <= Len(b)
  BY DEF Holds
<1>4. /\ x.prev_log_idx + Len(x.entries) <= Len(a)
      /\ \A k \in 1..Len(x.entries) : x.entries[k] = a[x.prev_log_idx + k]
      /\ x.prev_log_idx # 0 => x.prev_log_term = a[x.prev_log_idx].term
      /\ x.leader_commit <= x.prev_log_idx + Len(x.entries)
  BY DEF SliceOf
<1>5. ASSUME NEW k \in 1..Len(x.entries) PROVE x.entries[k] = b[x.prev_log_idx + k]
  <2>1. PICK i : i = x.prev_log_idx + k
    OBVIOUS
  <2>2. i \in 1..Len(a)
    BY <1>1, <1>4, <2>1
  <2> QED
    BY <1>2, <1>4, <2>1, <2>2
<1>6. x.prev_log_idx # 0 => x.prev_log_term = b[x.prev_log_idx].term
  <2>1. x.prev_log_idx # 0 => x.prev_log_idx \in 1..Len(a)
    BY <1>1, <1>4
  <2> QED
    BY <1>2, <1>4, <2>1
<1>7. x.prev_log_idx + Len(x.entries) <= Len(b)
  BY <1>1, <1>3, <1>4
<1> QED
  BY <1>4, <1>5, <1>6, <1>7 DEF SliceOf

\* A log is its own first entries.
LEMMA HoldsSelf ==
  ASSUME NEW a \in Seq(NormalEntry), NEW c \in Nat, c <= Len(a)
  PROVE  Holds(a, a, c)
  BY DEF Holds

LEMMA CommitInLog ==
  ASSUME NEW h, NEW t, NEW a \in Seq(NormalEntry), NEW c \in Nat, CommitOK(h, t, a, c)
  PROVE  c <= Len(a) /\ Holds(a, a, c)
<1>1. Len(a) \in Nat
  OBVIOUS
<1>2. c <= Len(a)
  BY <1>1 DEF CommitOK, Holds
<1> QED
  BY <1>2, HoldsSelf

LEMMA AeKept ==
  ASSUME BoundAssumption, NEW h, NEW k, HistoryType(h), HistoryType(k), Later(h, k),
         NEW x \in AeMsg, AeOK(h, x)
  PROVE  AeOK(k, x)
<1>1. /\ x.term \in Terms(h) /\ h.who[x.term] = x.src /\ SliceOf(x, h.log[x.term])
      /\ CommitOK(h, x.term, h.log[x.term], x.leader_commit)
  BY DEF AeOK
<1>2. /\ x.term \in Terms(k) /\ k.who[x.term] = x.src
      /\ Holds(k.log[x.term], h.log[x.term], Len(h.log[x.term]))
  BY <1>1 DEF Later
<1>3. PICK a \in Seq(NormalEntry), b \in Seq(NormalEntry), c \in Nat, t \in Nat :
        a = h.log[x.term] /\ b = k.log[x.term] /\ c = x.leader_commit /\ t = x.term
  <2>1. h.log[x.term] \in Seq(NormalEntry) /\ k.log[x.term] \in Seq(NormalEntry) /\ x.term \in Nat
    BY <1>1, <1>2, HistoryFacts
  <2>2. x.leader_commit \in Nat
    BY DEF AeMsg
  <2> QED
    BY <2>1, <2>2
<1>4. SliceOf(x, b)
  BY <1>1, <1>2, <1>3, SliceLonger
<1>5. c <= Len(a)
  BY <1>1, <1>3, CommitInLog
<1>6. Holds(b, a, c)
  BY <1>2, <1>3, <1>5, HoldsLess
<1>7. CommitOK(k, t, b, c)
  BY <1>1, <1>3, <1>6, CommitLater
<1> QED
  BY <1>2, <1>3, <1>4, <1>7 DEF AeOK

LEMMA MessageKept ==
  ASSUME ServerAssumption, BoundAssumption, NEW S, NEW T, NEW M, NEW N, NEW s, NEW r,
         Steps(S, T, M, N, s, r), NEW h, NEW k, HistoryOK(h), HistoryOK(k), Later(h, k),
         r.state = "CANDIDATE" => r.log = S[s].log, NEW x \in Message, MessageOK(h, S, x)
  PROVE  MessageOK(k, T, x)
<1>1. HistoryType(h) /\ HistoryType(k)
  BY DEF HistoryOK
<1>2. x.src \in InitialMembers /\ x.dst \in InitialMembers /\ x.term \in Nat
  BY DEF Message, RvMsg, RvrMsg, AeMsg, AerMsg, BoundAssumption
<1>3. ASSUME x.kind = "ae" PROVE AeOK(k, x)
  <2>1. x \in AeMsg
    BY <1>3 DEF Message, RvMsg, RvrMsg, AeMsg, AerMsg
  <2>2. AeOK(h, x)
    BY <1>3 DEF MessageOK
  <2> QED
    BY <1>1, <2>1, <2>2, AeKept
<1>4. ASSUME x.kind = "aer", x.success
      PROVE  x.term \in Terms(k) /\ x.current_idx <= k.ack[x.term][x.src]
  <2>1. x \in AerMsg
    BY <1>4 DEF Message, RvMsg, RvrMsg, AeMsg, AerMsg
  <2>2. x.current_idx \in Nat
    BY <2>1 DEF AerMsg
  <2>3. x.term \in Terms(h) /\ x.current_idx <= h.ack[x.term][x.src]
    BY <1>4 DEF MessageOK
  <2>4. x.term \in Terms(k) /\ h.ack[x.term][x.src] <= k.ack[x.term][x.src]
    BY <1>2, <2>3 DEF Later
  <2>5. h.ack[x.term][x.src] \in Nat /\ k.ack[x.term][x.src] \in Nat
    BY <1>1, <1>2, <2>3, <2>4, HistoryFacts
  <2> QED
    BY <2>2, <2>3, <2>4, <2>5
<1>5. ASSUME x.kind = "rv" PROVE RvOK(T, x)
  <2>1. RvOK(S, x)
    BY <1>5 DEF MessageOK
  <2>2. /\ S[x.src].current_term \in Nat /\ T[x.src].current_term \in Nat
        /\ S[x.src].current_term <= T[x.src].current_term
    BY <1>2, StepTypes
  <2>3. x.term <= T[x.src].current_term
    BY <1>2, <2>1, <2>2 DEF RvOK
  <2>4. ASSUME T[x.src].state = "CANDIDATE", T[x.src].current_term = x.term
        PROVE  x.last_log_idx = Len(T[x.src].log) /\ x.last_log_term = LastTerm(T[x.src].log)
    <3>1. CASE x.src # s
      BY <1>2, <2>1, <2>4, <3>1 DEF RvOK, Steps
    <3>2. CASE x.src = s
      <4>1. x.term <= S[s].current_term
        BY <2>1, <3>2 DEF RvOK
      <4>2. S[s].state = "CANDIDATE" /\ S[s].current_term = x.term /\ T[s].log = S[s].log
        BY <1>2, <2>2, <2>4, <3>2, <4>1 DEF Steps
      <4> QED
        BY <2>1, <3>2, <4>2 DEF RvOK
    <3> QED
      BY <3>1, <3>2
  <2> QED
    BY <2>3, <2>4 DEF RvOK
<1>6. ASSUME x.kind = "rvr", x.vote_granted = 1 PROVE x.term <= T[x.dst].current_term
  <2>1. x.term <= S[x.dst].current_term
    BY <1>6 DEF MessageOK
  <2> QED
    BY <1>2, <2>1, StepTypes
<1> QED
  BY <1>3, <1>4, <1>5, <1>6 DEF MessageOK

\* The new history explains the new state.
LEMMA StepExplained ==
  ASSUME ServerAssumption, BoundAssumption, NEW S, NEW T, NEW M, NEW N, NEW s, NEW r,
         Steps(S, T, M, N, s, r), NEW h, NEW k, NEW out, Explains(h, S, M),
         StepOK(h, k, S, T, s, r, out), N \subseteq M \cup out, M \subseteq Message,
         r.current_term = S[s].current_term /\ S[s].voted_for # NoNode
           => r.voted_for = S[s].voted_for
  PROVE  Explains(k, T, N)
<1>1. /\ HistoryOK(h) /\ HistoryOK(k) /\ HistoryType(h) /\ HistoryType(k)
      /\ Grows(h, k, s, S[s], r) /\ Later(h, k) /\ s \in InitialMembers
  BY DEF StepOK, HistoryOK, Explains, Grows, Steps
<1>2. \A q \in InitialMembers : ServerOK(k, q, T[q])
  <2>1. ASSUME NEW q \in InitialMembers \ {s} PROVE ServerOK(k, q, T[q])
    <3>1. ServerOK(h, q, S[q])
      BY DEF Explains
    <3>2. ServerOK(k, q, S[q])
      BY <1>1, <3>1, OthersKept
    <3> QED
      BY <3>2 DEF Steps
  <2>2. ServerOK(k, s, T[s])
    BY DEF StepOK, Steps
  <2> QED
    BY <2>1, <2>2
<1>3. ASSUME NEW x \in N PROVE MessageOK(k, T, x)
  <2>1. CASE x \in out
    BY <2>1 DEF StepOK
  <2>2. CASE x \in M
    <3>1. x \in Message /\ MessageOK(h, S, x) /\ (r.state = "CANDIDATE" => r.log = S[s].log)
      BY <2>2 DEF Explains, StepOK
    <3> QED
      BY <1>1, <3>1, MessageKept
  <2> QED
    BY <2>1, <2>2
<1>4. ReachedOK(k, T)
  BY <1>1, ReachedKept DEF Explains, StepOK
<1>5. LeadersHave(k, T)
  BY <1>1, LeadersHaveKept DEF Explains, StepOK
<1>6. ServersHave(k, T)
  BY <1>1, ServersHaveKept DEF Explains, StepOK
<1>7. CandidatesHave(k, T, N)
  BY CandidatesHaveKept
<1>8. VotedReached(T)
  BY VotedReachedKept DEF Explains, StepOK
<1> QED
  BY <1>1, <1>2, <1>3, <1>4, <1>5, <1>6, <1>7, <1>8 DEF Explains

-----------------------------------------------------------------------------
(* Steps that leave the history as it is.                                  *)

\* r is m but for term, vote, state, leader, timer and notes about nodes.
Steady(m, r) ==
  /\ r.log = m.log /\ r.front = m.front /\ r.commit_idx = m.commit_idx
  /\ r.last_applied_idx = m.last_applied_idx /\ r.fsm = m.fsm

LEMMA SteadyForward ==
  ASSUME NEW s, NEW m \in FixedServer(s), NEW r, Steady(m, r)
  PROVE  Forward(m, r)
<1>1. m.commit_idx \in Nat /\ Len(m.fsm) \in Nat
  BY DEF FixedServer
<1> QED
  BY <1>1 DEF Steady, Forward

\* s does not become a leader, and stays one while the term lasts.
Calm(s, m, r) ==
  /\ Steady(m, r) /\ m.current_term <= r.current_term /\ r.state # "DOWN"
  /\ r.state = "LEADER" => /\ m.state = "LEADER" /\ r.current_term = m.current_term
                           /\ r.nodes = m.nodes
  /\ m.state = "LEADER" /\ r.current_term = m.current_term => r.state = "LEADER"
  /\ r.current_leader = s <=> r.state = "LEADER"

LEMMA PastLater ==
  ASSUME BoundAssumption, NEW h, HistoryOK(h), NEW s \in InitialMembers, NEW m, NEW r,
         m.log \in Seq(NormalEntry), m.current_term \in Nat, r.current_term \in Nat,
         r.log = m.log, m.current_term <= r.current_term,
         m.state = "LEADER" /\ r.current_term = m.current_term => r.state = "LEADER",
         PastOK(h, s, m)
  PROVE  PastOK(h, s, r)
<1>1. HistoryType(h)
  BY DEF HistoryOK
<1> SUFFICES ASSUME NEW v \in Terms(h)
             PROVE  /\ r.current_term < v => h.ack[v][s] = 0
                    /\ r.current_term = v => Holds(r.log, h.log[v], h.ack[v][s])
                    /\ h.who[v] = s =>
                         v <= r.current_term /\ (v = r.current_term => r.state = "LEADER")
  BY DEF PastOK
<1>2. v \in Nat /\ Len(h.log[v]) \in Nat /\ Len(m.log) \in Nat
  BY <1>1, HistoryFacts
<1>3. /\ m.current_term < v => h.ack[v][s] = 0
      /\ m.current_term = v => Holds(m.log, h.log[v], h.ack[v][s])
      /\ h.who[v] = s => v <= m.current_term /\ (v = m.current_term => m.state = "LEADER")
  BY DEF PastOK
<1>4. Holds(m.log, h.log[v], 0)
  BY <1>2 DEF Holds
<1> QED
  BY <1>2, <1>3, <1>4

LEMMA LaterSelf ==
  ASSUME BoundAssumption, NEW h, HistoryType(h)
  PROVE  Later(h, h)
<1>1. ASSUME NEW v \in Terms(h)
      PROVE  /\ Holds(h.log[v], h.log[v], Len(h.log[v]))
             /\ \A q \in InitialMembers : h.ack[v][q] <= h.ack[v][q]
  BY HistoryFacts, HoldsSelf
<1> QED
  BY <1>1 DEF Later

LEMMA CalmOK ==
  ASSUME ServerAssumption, BoundAssumption, NEW h, HistoryOK(h), NEW s \in InitialMembers,
         NEW m \in FixedServer(s), NEW r \in FixedServer(s), ServerOK(h, s, m), Calm(s, m, r)
  PROVE  ServerOK(h, s, r)
<1>1. HistoryType(h) /\ Later(h, h)
  BY LaterSelf DEF HistoryOK
<1>2. /\ m.log \in Seq(NormalEntry) /\ m.current_term \in Nat /\ r.current_term \in Nat
      /\ r.log \in Seq(NormalEntry) /\ m.commit_idx \in Nat
  <2>1. m.commit_idx \in Nat
    BY DEF FixedServer
  <2> QED
    BY <2>1, FixedFacts
<1>3. PastOK(h, s, r)
  BY <1>2, PastLater DEF ServerOK, Calm, Steady
<1>4. CommitOK(h, r.current_term, r.log, r.commit_idx)
  <2>1. CommitOK(h, m.current_term, m.log, m.commit_idx)
    BY DEF ServerOK
  <2>2. Holds(m.log, m.log, m.commit_idx)
    BY <1>2, <2>1, CommitInLog
  <2>3. m.current_term <= r.current_term
    BY DEF Calm
  <2>4. CommitOK(h, r.current_term, m.log, m.commit_idx)
    BY <1>1, <1>2, <2>1, <2>2, <2>3, CommitLater
  <2> QED
    BY <2>4 DEF Calm, Steady
<1>5. Within(r.log, r.current_term)
  <2>1. \A i \in 1..Len(m.log) : m.log[i].term <= m.current_term /\ m.log[i].term \in Nat
    BY <1>2, EntryTerm DEF ServerOK, Within
  <2> QED
    BY <1>2, <2>1 DEF Within, Calm, Steady
<1>6. ASSUME r.state = "LEADER" PROVE LeaderOK(h, s, r)
  BY <1>6 DEF LeaderOK, ServerOK, Calm, Steady
<1>7. FsmOK(r)
  BY DEF FsmOK, ServerOK, Calm, Steady
<1> QED
  BY <1>3, <1>4, <1>5, <1>6, <1>7 DEF ServerOK, Calm, Steady

\* The history stays, and s keeps its log.
LEMMA SameHistoryOK ==
  ASSUME ServerAssumption, BoundAssumption, NEW h, NEW S, NEW M, Explains(h, S, M), NEW T,
         NEW s \in InitialMembers, NEW r, NEW out,
         r.log = S[s].log, ServerOK(h, s, r), \A x \in out : MessageOK(h, T, x),
         VoteOK(S, T, s, r), Forward(S[s], r)
  PROVE  StepOK(h, h, S, T, s, r, out)
<1>1. HistoryOK(h) /\ HistoryType(h) /\ ServersHave(h, S)
  BY DEF Explains, HistoryOK
<1>2. Grows(h, h, s, S[s], r)
  BY <1>1, LaterSelf DEF Grows
<1>3. KeepsHeld(h, S, s, r)
  BY <1>1 DEF KeepsHeld, ServersHave
<1>4. NewLeaderOK(h, h, S)
  BY DEF NewLeaderOK
<1> QED
  BY <1>1, <1>2, <1>3, <1>4 DEF StepOK

\* s gives no vote.
NoVote(m, r) ==
  r.voted_for = NoNode \/ (r.voted_for = m.voted_for /\ r.current_term = m.current_term)

LEMMA NoVoteOK ==
  ASSUME ServerAssumption, BoundAssumption, NEW S, NEW T, NEW s \in InitialMembers, NEW r,
         S[s].current_term \in Nat, NoVote(S[s], r)
  PROVE  VoteOK(S, T, s, r)
<1>1. NoNode \notin InitialMembers
  BY DEF ServerAssumption
<1> QED
  BY <1>1 DEF VoteOK, NoVote

LEMMA CalmStepOK ==
  ASSUME ServerAssumption, BoundAssumption, NEW h, NEW S, NEW M, Explains(h, S, M), NEW T,
         NEW s \in InitialMembers, S[s] \in FixedServer(s), NEW r \in FixedServer(s), NEW out,
         Calm(s, S[s], r), \A x \in out : MessageOK(h, T, x), VoteOK(S, T, s, r)
  PROVE  StepOK(h, h, S, T, s, r, out)
<1>1. HistoryOK(h) /\ ServerOK(h, s, S[s])
  BY DEF Explains
<1>2. ServerOK(h, s, r)
  BY <1>1, CalmOK
<1>3. Forward(S[s], r)
  BY SteadyForward DEF Calm
<1> QED
  BY <1>2, <1>3, SameHistoryOK DEF Calm, Steady

\* A step of s that some history k after h explains.
Proceeds(h, s) ==
  \E k, r, out : /\ srv' = [srv EXCEPT ![s] = r]
                 /\ \/ msgs' = msgs /\ out = {}
                    \/ Exchange(EmptyBag, out)
                    \/ \E x : Exchange(SetToBag({x}), out)
                 /\ StepOK(h, k, srv, srv', s, r, out)

Msgs == BagToSet(msgs)

\* h explains the state, and its leaders have won their elections.
History(h) ==
  /\ Explains(h, srv, Msgs)
  /\ \A l \in InitialMembers, u \in Terms(h) : h.who[u] = l => Elected(l, u)

LEMMA MemberFacts ==
  ASSUME ServerAssumption, BoundAssumption, ElectionInv, NEW h, Explains(h, srv, Msgs),
         NEW s \in InitialMembers
  PROVE  /\ srv[s] \in FixedServer(s) /\ RingOK(srv[s]) /\ ServerOK(h, s, srv[s])
         /\ srv[s].current_term \in Nat /\ srv[s].log \in Seq(NormalEntry)
         /\ Len(srv[s].log) \in Nat /\ srv[s].commit_idx \in Nat
         /\ s \in Server /\ DOMAIN srv = Server /\ s # NoNode
<1>1. srv[s] \in FixedServer(s) /\ RingOK(srv[s]) /\ s \in Server /\ s # NoNode
  BY FixedFacts DEF ElectionInv
<1>2. srv[s].current_term \in Nat /\ srv[s].log \in Seq(NormalEntry) /\ Len(srv[s].log) \in Nat
  BY <1>1, FixedFacts
<1>3. srv[s].commit_idx \in Nat
  BY <1>1 DEF FixedServer
<1>4. ServerOK(h, s, srv[s])
  BY DEF Explains
<1>5. DOMAIN srv = Server
  BY DEF ElectionInv, FixedTypes
<1> QED
  BY <1>1, <1>2, <1>3, <1>4, <1>5

LEMMA ElapseProceeds ==
  ASSUME ServerAssumption, BoundAssumption, ElectionInv, NEW h, History(h),
         NEW s \in InitialMembers, Elapse(s)
  PROVE  Proceeds(h, s)
<1> DEFINE m == srv[s]
<1>1. m \in FixedServer(s) /\ m.current_term \in Nat /\ Explains(h, srv, Msgs) /\ ServerOK(h, s, m)
  BY MemberFacts DEF History
<1>2. PICK r : r = [m EXCEPT !.timeout_elapsed = TRUE]
  OBVIOUS
<1>3. srv' = [srv EXCEPT ![s] = r] /\ msgs' = msgs
  BY <1>2 DEF Elapse
<1>4. r \in FixedServer(s) /\ Steady(m, r) /\ r.state = m.state
      /\ r.current_term = m.current_term /\ r.voted_for = m.voted_for /\ r.nodes = m.nodes
      /\ r.current_leader = m.current_leader
  BY <1>1, <1>2 DEF FixedServer, Steady
<1>5. Calm(s, m, r)
  BY <1>1, <1>4 DEF Calm, ServerOK
<1>6. VoteOK(srv, srv', s, r)
  BY <1>1, <1>4, NoVoteOK DEF NoVote
<1>7. StepOK(h, h, srv, srv', s, r, {})
  BY <1>1, <1>4, <1>5, <1>6, CalmStepOK
<1> QED
  BY <1>3, <1>7 DEF Proceeds

LEMMA StepDownSteady ==
  ASSUME ServerAssumption, BoundAssumption, NEW s \in InitialMembers, NEW m \in FixedServer(s),
         RingOK(m), NEW t \in 0..MaxTerm, m.current_term < t
  PROVE  LET r == StepDown(m, t) IN
         /\ r \in FixedServer(s) /\ Steady(m, r) /\ r.current_leader = NoNode /\ Calm(s, m, r)
         /\ r.current_term = t /\ r.voted_for = NoNode /\ r.state = "FOLLOWER"
<1> DEFINE r == StepDown(m, t)
<1>1. /\ r \in FixedServer(s) /\ r.log = m.log /\ r.state = "FOLLOWER"
      /\ r.current_term = t /\ r.voted_for = NoNode
  BY StepDownKeeps
<1>2. Steady(m, r) /\ r.current_leader = NoNode
  BY DEF StepDown, raft_become_follower, raft_set_current_term, FixedServer, Steady
<1>3. s # NoNode /\ m.current_term \in Nat /\ t \in Nat
  BY FixedFacts DEF BoundAssumption
<1> HIDE DEF r
<1>4. Calm(s, m, r)
  BY <1>1, <1>2, <1>3 DEF Calm
<1> QED
  BY <1>1, <1>2, <1>4 DEF r

\* A message that is taken and leaves the server as it is.
LEMMA IgnoreProceeds ==
  ASSUME ServerAssumption, BoundAssumption, ElectionInv, NEW h, History(h),
         NEW s \in InitialMembers, srv' = [srv EXCEPT ![s] = srv[s]],
         \E x : Exchange(SetToBag({x}), {})
  PROVE  Proceeds(h, s)
<1> DEFINE m == srv[s]
<1>1. m \in FixedServer(s) /\ m.current_term \in Nat /\ Explains(h, srv, Msgs) /\ ServerOK(h, s, m)
  BY MemberFacts DEF History
<1>2. Calm(s, m, m)
  BY <1>1 DEF Calm, Steady, ServerOK
<1>3. VoteOK(srv, srv', s, m)
  BY <1>1, NoVoteOK DEF NoVote
<1>4. StepOK(h, h, srv, srv', s, m, {})
  BY <1>1, <1>2, <1>3, CalmStepOK
<1> QED
  BY <1>4 DEF Proceeds

LEMMA StepDownProceeds ==
  ASSUME ServerAssumption, BoundAssumption, ElectionInv, NEW h, History(h),
         NEW s \in InitialMembers, NEW t \in 0..MaxTerm, srv[s].current_term < t,
         srv' = [srv EXCEPT ![s] = StepDown(srv[s], t)],
         \E x : Exchange(SetToBag({x}), {})
  PROVE  Proceeds(h, s)
<1> DEFINE m == srv[s]
<1>1. /\ m \in FixedServer(s) /\ RingOK(m) /\ m.current_term \in Nat /\ Explains(h, srv, Msgs)
      /\ ServerOK(h, s, m)
  BY MemberFacts DEF History
<1>2. PICK r : r = StepDown(m, t)
  OBVIOUS
<1>3. r \in FixedServer(s) /\ Calm(s, m, r) /\ r.voted_for = NoNode
  BY <1>1, <1>2, StepDownSteady
<1>4. VoteOK(srv, srv', s, r)
  BY <1>1, <1>3, NoVoteOK DEF NoVote
<1>5. StepOK(h, h, srv, srv', s, r, {})
  BY <1>1, <1>3, <1>4, CalmStepOK
<1> QED
  BY <1>2, <1>5 DEF Proceeds

LEMMA RequestVoteProceeds ==
  ASSUME ServerAssumption, BoundAssumption, ElectionInv, NEW h, History(h),
         NEW vr \in RvMsg, vr \in Msgs, vr.src # vr.dst, raft_recv_requestvote(vr)
  PROVE  Proceeds(h, vr.dst)
<1> DEFINE s == vr.dst
           m == srv[s]
           res == RecvRequestVote(m, vr, s)
           m1 == IF m.current_term < vr.term THEN StepDown(m, vr.term) ELSE m
<1>0. /\ s \in InitialMembers /\ vr.src \in InitialMembers \ {s} /\ vr.term \in 0..MaxTerm
      /\ vr.last_log_idx \in Nat /\ vr.last_log_term \in Nat /\ vr.term \in Nat
  BY DEF RvMsg, BoundAssumption
<1>1. /\ m \in FixedServer(s) /\ RingOK(m) /\ m.current_term \in Nat /\ Explains(h, srv, Msgs)
      /\ ServerOK(h, s, m) /\ m.log \in Seq(NormalEntry) /\ Len(m.log) \in Nat
      /\ s \in DOMAIN srv /\ s # NoNode
  BY <1>0, MemberFacts DEF History
<1>2. PICK r, g : r = res.me /\ g = res.granted
  OBVIOUS
<1>3. PICK x : x = [kind |-> "rvr", src |-> s, dst |-> vr.src,
                    term |-> r.current_term, vote_granted |-> g]
  OBVIOUS
<1>4. srv' = [srv EXCEPT ![s] = r] /\ Exchange(SetToBag({vr}), {x})
  BY <1>2, <1>3 DEF raft_recv_requestvote
<1>5. /\ m1 \in FixedServer(s) /\ Calm(s, m, m1) /\ NoVote(m, m1) /\ Steady(m, m1)
      /\ m.current_term <= vr.term => m1.current_term = vr.term
      /\ ~(m.current_term < vr.term) => m1 = m
      /\ m.current_term < vr.term => m1.voted_for = NoNode /\ m1.state = "FOLLOWER"
  <2>1. Calm(s, m, m) /\ NoVote(m, m) /\ Steady(m, m)
    BY <1>1 DEF Calm, Steady, ServerOK, NoVote
  <2>2. CASE m.current_term < vr.term
    BY <1>0, <1>1, <2>2, StepDownSteady DEF NoVote
  <2>3. CASE ~(m.current_term < vr.term)
    BY <1>0, <1>1, <2>1, <2>3
  <2> QED
    BY <2>2, <2>3
<1>6. /\ x.kind = "rvr" /\ x.dst = vr.src /\ x.term = r.current_term
      /\ x.vote_granted = g
  BY <1>3
<1> HIDE DEF m1
<1>7. CASE r \in {m, m1} /\ g # 1
  <2>1. r \in FixedServer(s) /\ Calm(s, m, r) /\ NoVote(m, r)
    BY <1>1, <1>5, <1>7 DEF Calm, Steady, ServerOK, NoVote
  <2>2. VoteOK(srv, srv', s, r)
    BY <1>0, <1>1, <2>1, NoVoteOK
  <2>3. \A y \in {x} : MessageOK(h, srv', y)
    BY <1>6, <1>7 DEF MessageOK
  <2>4. StepOK(h, h, srv, srv', s, r, {x})
    BY <1>0, <1>1, <2>1, <2>2, <2>3, CalmStepOK
  <2> QED
    BY <1>4, <2>4 DEF Proceeds
<1>8. CASE /\ __should_grant_vote(s, m1, vr) /\ g = 1
           /\ r = [m1 EXCEPT !.voted_for = vr.src, !.current_leader = NoNode,
                             !.timeout_elapsed = FALSE]
  <2>1. m1.voted_for = NoNode /\ m1.current_term <= vr.term
    BY <1>8 DEF __should_grant_vote
  <2>2. /\ r \in FixedServer(s) /\ Steady(m1, r) /\ r.state = m1.state
        /\ r.current_term = m1.current_term /\ r.voted_for = vr.src /\ r.current_leader = NoNode
    BY <1>0, <1>5, <1>8 DEF FixedServer, Steady
  <2>3. m1.state # "LEADER" /\ (m.state = "LEADER" => m.current_term < r.current_term)
        /\ r.current_term = vr.term /\ m.current_term <= vr.term
    <3>1. CASE m.current_term < vr.term
      BY <1>0, <1>1, <1>5, <2>2, <3>1
    <3>2. CASE ~(m.current_term < vr.term)
      <4>1. m.voted_for = NoNode /\ m1 = m /\ InitialMembers # {s}
        BY <1>0, <1>5, <2>1, <3>2
      <4>2. m.state # "LEADER"
        BY <1>0, <1>1, <4>1 DEF ElectionInv, LeaderInv
      <4> QED
        BY <1>0, <1>1, <1>5, <2>1, <2>2, <3>2, <4>1, <4>2
    <3> QED
      BY <3>1, <3>2
  <2>4. Calm(s, m, r)
    BY <1>0, <1>1, <1>5, <2>2, <2>3 DEF Calm, Steady
  <2>5. RvOK(srv, vr)
    BY <1>1 DEF Explains, MessageOK, raft_recv_requestvote
  <2>6. vr.src \in InitialMembers /\ srv'[vr.src] = srv[vr.src]
    BY <1>0, <1>4
  <2>7. vr.term <= srv'[vr.src].current_term
    BY <2>5, <2>6 DEF RvOK
  <2>8. MessageOK(h, srv', x)
    BY <1>6, <2>2, <2>3, <2>7 DEF MessageOK
  <2>9. Len(m.log) = 0 \/ LastTerm(m.log) < vr.last_log_term
        \/ (LastTerm(m.log) = vr.last_log_term /\ Len(m.log) <= vr.last_log_idx)
    <3>1. m1.log = m.log /\ m1.base = 0
      BY <1>0, <1>5, FixedFacts DEF Steady
    <3>2. log_get_current_idx(m1) = Len(m.log)
      BY <1>1, <3>1 DEF log_get_current_idx
    <3>3. Len(m.log) # 0 => /\ HasEntry(m1, Len(m.log))
                            /\ log_get_at_idx(m1, Len(m.log)).term = LastTerm(m.log)
      BY <1>1, <3>1, <3>2 DEF HasEntry, log_get_at_idx, LastTerm
    <3> QED
      BY <1>8, <3>2, <3>3 DEF __should_grant_vote
  <2>10. ASSUME srv[vr.src].state = "CANDIDATE", srv[vr.src].current_term = vr.term
         PROVE  AtLeast(srv[vr.src].log, m.log)
    <3>1. vr.last_log_idx = Len(srv[vr.src].log) /\ vr.last_log_term = LastTerm(srv[vr.src].log)
      BY <2>5, <2>10 DEF RvOK
    <3>2. PICK a \in Seq(NormalEntry), b \in Seq(NormalEntry) :
            a = srv[vr.src].log /\ b = m.log
      BY <1>0, <1>1, MemberFacts
    <3>3. LastTerm(a) \in Nat /\ LastTerm(b) \in Nat /\ Len(a) \in Nat /\ Len(b) \in Nat
      BY LastTermType
    <3>4. Len(b) = 0 => LastTerm(b) = 0
      BY DEF LastTerm
    <3>5. AtLeast(a, b)
      BY <2>9, <3>1, <3>2, <3>3, <3>4 DEF AtLeast
    <3> QED
      BY <3>2, <3>5
  <2>11. VoteOK(srv, srv', s, r)
    BY <2>2, <2>3, <2>6, <2>7, <2>10 DEF VoteOK
  <2>12. StepOK(h, h, srv, srv', s, r, {x})
    BY <1>0, <1>1, <2>2, <2>4, <2>8, <2>11, CalmStepOK
  <2> QED
    BY <1>4, <2>12 DEF Proceeds
<1>9. \/ r \in {m, m1} /\ g # 1
      \/ /\ __should_grant_vote(s, m1, vr) /\ g = 1
         /\ r = [m1 EXCEPT !.voted_for = vr.src, !.current_leader = NoNode,
                           !.timeout_elapsed = FALSE]
  BY <1>2 DEF RecvRequestVote, m1
<1> QED
  BY <1>7, <1>8, <1>9

-----------------------------------------------------------------------------
(* What a leader sends.                                                    *)

LEMMA ModSmall ==
  ASSUME NEW a \in Nat, NEW b \in Nat \ {0}, a < b
  PROVE  a % b = a
  OBVIOUS

\* While the ring starts at 0, all entries from next on are sent.
LEMMA AllEntriesFrom ==
  ASSUME NEW s, NEW m \in FixedServer(s), RingOK(m), m.front = 0,
         NEW next \in Nat \ {0}, next <= Len(m.log) + 1
  PROVE  /\ log_get_from_idx(m, next) \in Seq(NormalEntry)
         /\ next - 1 + Len(log_get_from_idx(m, next)) = Len(m.log)
         /\ \A k \in 1..Len(log_get_from_idx(m, next)) :
              /\ next + k - 1 \in 1..Len(m.log)
              /\ log_get_from_idx(m, next)[k] = m.log[next + k - 1]
<1> DEFINE es == log_get_from_idx(m, next)
<1>1. /\ m.log \in Seq(NormalEntry) /\ m.base = 0 /\ m.size \in Nat \ {0}
      /\ Len(m.log) \in Nat /\ Len(m.log) <= m.size
  BY DEF FixedServer, RingOK
<1>2. /\ es \in Seq(NormalEntry)
      /\ \A k \in 1..Len(es) : next + k - 1 \in 1..Len(m.log) /\ es[k] = m.log[next + k - 1]
  BY EntriesFrom
<1>3. next - 1 + Len(es) = Len(m.log)
  <2>1. CASE ~HasEntry(m, next)
    <3>1. es = << >> /\ Len(es) = 0
      BY <2>1 DEF log_get_from_idx
    <3>2. next = Len(m.log) + 1
      BY <1>1, <2>1 DEF HasEntry, log_get_current_idx
    <3> HIDE DEF es
    <3> QED
      BY <1>1, <3>1, <3>2
  <2>2. CASE HasEntry(m, next)
    <3>1. next <= Len(m.log)
      BY <1>1, <2>2 DEF HasEntry, log_get_current_idx
    <3>2. m.front + next - 1 - m.base = next - 1 /\ next - 1 \in Nat /\ next - 1 < m.size
      BY <1>1, <3>1
    <3>3. (m.front + next - 1 - m.base) % m.size = next - 1
      BY <1>1, <3>2, ModSmall
    <3>9. next - 1 - m.base = next - 1 /\ Len(m.log) - (next - 1) \in Nat
      BY <1>1, <3>1
    <3>4. PICK n \in Nat : n = Len(m.log) - (next - 1 - m.base) /\ n = Len(m.log) - (next - 1)
      BY ONLY <3>9, Zenon
    <3>5. min(n, m.size - (next - 1)) = n
      BY <1>1, <3>1, <3>4 DEF min
    <3>6. next - m.base = next /\ next - m.base + n - 1 = Len(m.log)
      BY <1>1, <3>4
    <3>7. es = SubSeq(m.log, next, Len(m.log))
      BY <2>2, <3>3, <3>4, <3>5, <3>6 DEF log_get_from_idx
    <3>8. Len(SubSeq(m.log, next, Len(m.log))) = Len(m.log) - next + 1
      BY <1>1, <3>1, SubSeqProperties
    <3> HIDE DEF es
    <3> QED
      BY <1>1, <3>7, <3>8
  <2> QED
    BY <2>1, <2>2
<1> QED
  BY <1>2, <1>3

\* m sends what h knows of its leader's log.
SendsFrom(h, s, m) ==
  /\ m \in FixedServer(s) /\ RingOK(m) /\ m.front = 0
  /\ LeaderOK(h, s, m) /\ CommitOK(h, m.current_term, m.log, m.commit_idx)

LEMMA SendsOK ==
  ASSUME ServerAssumption, BoundAssumption, NEW h, HistoryOK(h), NEW s \in InitialMembers,
         NEW m, SendsFrom(h, s, m), NEW p \in InitialMembers \ {s},
         NEW x \in raft_send_appendentries(s, m, p)
  PROVE  \A S : MessageOK(h, S, x)
<1> DEFINE next == m.nodes[p].next_idx
           prev == PrevEntry(m, next)
           es == log_get_from_idx(m, next)
<1>0. /\ m \in FixedServer(s) /\ RingOK(m) /\ m.front = 0
      /\ LeaderOK(h, s, m) /\ CommitOK(h, m.current_term, m.log, m.commit_idx)
  BY DEF SendsFrom
<1>1. /\ m.log \in Seq(NormalEntry) /\ m.base = 0 /\ Len(m.log) \in Nat
      /\ m.current_term \in 0..MaxTerm /\ m.nodes \in [InitialMembers -> MemberNode(s)]
  BY <1>0, FixedFacts
<1>2. m.commit_idx \in Nat /\ m.snapshot_last_idx = 0 /\ m.snapshot_last_term = 0
  BY <1>0 DEF FixedServer
<1>3. next \in Nat \ {0} /\ next <= Len(m.log) + 1
  BY <1>0, <1>1 DEF MemberNode, LeaderOK
<1>4. x = [kind |-> "ae", src |-> s, dst |-> p, term |-> m.current_term,
           prev_log_idx |-> prev[1], prev_log_term |-> prev[2],
           leader_commit |-> m.commit_idx, entries |-> es]
  BY <1>2 DEF raft_send_appendentries, NeedsSnapshot
<1> HIDE DEF next
<1>5. /\ es \in Seq(NormalEntry) /\ next - 1 + Len(es) = Len(m.log)
      /\ \A k \in 1..Len(es) : next + k - 1 \in 1..Len(m.log) /\ es[k] = m.log[next + k - 1]
  <2>1. PICK nx \in Nat \ {0} : nx = next /\ nx <= Len(m.log) + 1
    BY <1>3
  <2>2. /\ log_get_from_idx(m, nx) \in Seq(NormalEntry)
        /\ nx - 1 + Len(log_get_from_idx(m, nx)) = Len(m.log)
        /\ \A k \in 1..Len(log_get_from_idx(m, nx)) :
             /\ nx + k - 1 \in 1..Len(m.log)
             /\ log_get_from_idx(m, nx)[k] = m.log[nx + k - 1]
    BY <1>0, <2>1, AllEntriesFrom
  <2> QED
    BY <2>1, <2>2
<1>7. prev[1] = next - 1 /\ (next # 1 => prev[2] = m.log[next - 1].term)
  <2>1. next <= 1 <=> next = 1
    BY <1>3
  <2>2. next # 1 => HasEntry(m, next - 1) /\ next - 1 - m.base = next - 1
    BY <1>1, <1>3 DEF HasEntry, log_get_current_idx
  <2> QED
    BY <1>2, <1>3, <2>1, <2>2 DEF PrevEntry, log_get_at_idx
<1>8. /\ x.kind = "ae" /\ x.src = s /\ x.term = m.current_term /\ x.leader_commit = m.commit_idx
      /\ x.prev_log_idx = prev[1] /\ x.prev_log_term = prev[2] /\ x.entries = es
  BY <1>4
<1> HIDE DEF prev, es
<1>9. h.log[m.current_term] = m.log /\ m.current_term \in Terms(h) /\ h.who[m.current_term] = s
  BY <1>0 DEF LeaderOK
<1>10. m.commit_idx <= Len(m.log)
  <2>1. HistoryType(h)
    BY DEF HistoryOK
  <2>2. Holds(m.log, m.log, m.commit_idx)
    BY <1>0, <1>1, <1>2, <2>1, CommitInLog
  <2> QED
    BY <2>2 DEF Holds
<1>11. SliceOf(x, m.log)
  <2>1. x.prev_log_idx + Len(x.entries) = Len(m.log)
    BY <1>3, <1>5, <1>7, <1>8
  <2>2. ASSUME NEW k \in 1..Len(es) PROVE es[k] = m.log[x.prev_log_idx + k]
    <3>1. x.prev_log_idx + k = next + k - 1
      BY <1>3, <1>7, <1>8
    <3> QED
      BY <1>5, <3>1
  <2>3. x.prev_log_idx # 0 => x.prev_log_term = m.log[x.prev_log_idx].term
    BY <1>3, <1>7, <1>8
  <2>4. x.leader_commit <= Len(m.log) /\ Len(m.log) <= Len(m.log)
    BY <1>1, <1>8, <1>10
  <2> QED
    BY <1>8, <2>1, <2>2, <2>3, <2>4 DEF SliceOf
<1>12. AeOK(h, x)
  BY <1>0, <1>8, <1>9, <1>11 DEF AeOK
<1> QED
  BY <1>8, <1>12 DEF MessageOK

LEMMA SendToMessages ==
  ASSUME ServerAssumption, BoundAssumption, NEW h, HistoryOK(h), NEW s \in InitialMembers,
         NEW m, SendsFrom(h, s, m), NEW ps \in SUBSET (InitialMembers \ {s})
  PROVE  \A x \in SendTo(s, m, ps) : \A S : MessageOK(h, S, x)
  BY SendsOK DEF SendTo

LEMMA SendAllMessages ==
  ASSUME ServerAssumption, BoundAssumption, NEW h, HistoryOK(h), NEW s \in InitialMembers,
         NEW m, SendsFrom(h, s, m), NEW out \in raft_send_appendentries_all(s, m)
  PROVE  \A x \in out : \A S : MessageOK(h, S, x)
<1>1. m \in FixedServer(s) /\ m.snapshot_last_idx = 0
  BY DEF SendsFrom, FixedServer
<1>2. Peers(s, m) = InitialMembers \ {s} /\ \A p : ~NeedsSnapshot(m, p)
  BY <1>1, MembersVote DEF NeedsSnapshot
<1>3. out = SendTo(s, m, InitialMembers \ {s})
  BY <1>2 DEF raft_send_appendentries_all
<1> QED
  BY <1>3, SendToMessages
-----------------------------------------------------------------------------
(* Entries are applied.                                                    *)

\* What has been applied, and what is applied next, are committed.
LEMMA ApplyFsm ==
  ASSUME NEW s, NEW m \in FixedServer(s), FsmOK(m), m.commit_idx <= Len(m.log)
  PROVE  FsmOK(Applied(m, Unapplied(m)))
<1>1. /\ m.log \in Seq(NormalEntry) /\ m.fsm \in Seq(NormalEntry) /\ m.base = 0
      /\ m.commit_idx \in Nat /\ m.last_applied_idx \in Nat
      /\ Len(m.log) \in Nat /\ Len(m.fsm) \in Nat
  BY DEF FixedServer
<1>2. /\ m.last_applied_idx = Len(m.fsm) /\ Len(m.fsm) <= m.commit_idx
      /\ \A i \in 1..Len(m.fsm) : m.fsm[i] = m.log[i]
  BY DEF FsmOK, Holds
<1>3. PICK q \in Seq(NormalEntry), l \in Seq(NormalEntry), c \in Nat, a \in Nat \ {0} :
        q = m.fsm /\ l = m.log /\ c = m.commit_idx /\ a = Len(m.fsm) + 1
  BY <1>1
<1>4. PICK u : u = SubSeq(l, a, c)
  OBVIOUS
<1>5. Unapplied(m) = u
  <2>1. min(m.commit_idx, log_get_current_idx(m)) - m.base = c
    BY <1>1, <1>3 DEF min, log_get_current_idx
  <2>2. m.last_applied_idx + 1 - m.base = a /\ ~(m.last_applied_idx < m.base)
    BY <1>1, <1>2, <1>3
  <2> QED
    BY <1>3, <1>4, <2>1, <2>2 DEF Unapplied
<1>51. Len(q) \in Nat /\ a = Len(q) + 1 /\ Len(q) <= c /\ c <= Len(l) /\ c \in Int
  BY <1>1, <1>2, <1>3
<1>6. u \in Seq(NormalEntry) /\ Len(u) = c - Len(q) /\ \A i \in 1..(c - a + 1) : u[i] = l[a + i - 1]
  <2>1. /\ u \in Seq(NormalEntry) /\ Len(u) = IF a <= c THEN c - a + 1 ELSE 0
        /\ \A i \in 1 .. c - a + 1 : u[i] = l[a + i - 1]
    BY <1>4, <1>51, SubSeqIn
  <2> QED
    BY <1>51, <2>1
<1>7. /\ q \o u \in Seq(NormalEntry) /\ Len(q \o u) = Len(q) + Len(u)
      /\ \A i \in 1..(Len(q) + Len(u)) :
           (q \o u)[i] = IF i <= Len(q) THEN q[i] ELSE u[i - Len(q)]
  BY <1>6, ConcatProperties
<1>8. PICK f \in Seq(NormalEntry) : f = q \o u
  BY <1>7
<1>9. Len(f) = c
  BY <1>1, <1>2, <1>3, <1>6, <1>7, <1>8
<1>10. ASSUME NEW i \in 1..c PROVE f[i] = l[i]
  <2>1. f[i] = IF i <= Len(q) THEN q[i] ELSE u[i - Len(q)]
    BY <1>7, <1>8, <1>9
  <2>2. CASE i <= Len(q)
    BY <1>1, <1>2, <1>3, <2>1, <2>2
  <2>3. CASE Len(q) < i
    <3>1. i - Len(q) \in 1..(c - a + 1) /\ a + (i - Len(q)) - 1 = i
      BY <1>51, <2>3
    <3>2. u[i - Len(q)] = l[i]
      BY <1>6, <3>1
    <3> QED
      BY <1>1, <1>3, <2>1, <2>3, <3>2
  <2> QED
    BY <1>1, <1>3, <2>2, <2>3
<1>11. PICK r : r = Applied(m, Unapplied(m))
  OBVIOUS
<1>12. /\ r.last_applied_idx = m.last_applied_idx + Len(u) /\ r.fsm = f /\ r.log = l
       /\ r.commit_idx = c
  BY <1>3, <1>5, <1>8, <1>11 DEF Applied, FixedServer
<1>13. r.last_applied_idx = c
  BY <1>1, <1>2, <1>3, <1>6, <1>12
<1>14. Holds(f, l, c)
  BY <1>1, <1>3, <1>9, <1>10 DEF Holds
<1>15. FsmOK(r)
  BY <1>9, <1>12, <1>13, <1>14 DEF FsmOK
<1> QED
  BY <1>11, <1>15

\* Applying entries changes nothing a history is about.
LEMMA ApplyServerOK ==
  ASSUME ServerAssumption, BoundAssumption, NEW h, HistoryOK(h), NEW s \in InitialMembers,
         NEW m \in FixedServer(s), RingOK(m), ServerOK(h, s, m)
  PROVE  LET a == raft_apply_all(s, m) IN
         /\ ServerOK(h, s, a) /\ a.log = m.log /\ a.state = m.state
         /\ a.current_term = m.current_term /\ a.voted_for = m.voted_for
         /\ a.commit_idx = m.commit_idx /\ Len(m.fsm) <= Len(a.fsm)
<1>1. PICK a : a = raft_apply_all(s, m)
  OBVIOUS
<1>2. a = Applied(m, Unapplied(m))
  BY <1>1, ApplyAll DEF ServerOK
<1>3. /\ a.log = m.log /\ a.front = m.front /\ a.commit_idx = m.commit_idx /\ a.state = m.state
      /\ a.current_term = m.current_term /\ a.nodes = m.nodes
      /\ a.current_leader = m.current_leader /\ a.voted_for = m.voted_for
  BY <1>2 DEF Applied, FixedServer
<1>4. m.log \in Seq(NormalEntry) /\ m.commit_idx \in Nat
  BY DEF FixedServer
<1>5. m.commit_idx <= Len(m.log)
  BY <1>4, CommitInLog DEF ServerOK
<1>6. FsmOK(a)
  BY <1>2, <1>5, ApplyFsm DEF ServerOK
<1>7. PastOK(h, s, a)
  BY <1>3 DEF ServerOK, PastOK
<1>8. a.state = "LEADER" => LeaderOK(h, s, a)
  BY <1>3 DEF ServerOK, LeaderOK
<1>9. ServerOK(h, s, a)
  BY <1>3, <1>6, <1>7, <1>8 DEF ServerOK
<1>10. Len(m.fsm) <= Len(a.fsm)
  <2>1. PICK f \in Seq(NormalEntry), u \in Seq(NormalEntry) : f = m.fsm /\ u = Unapplied(m)
    BY UnappliedType DEF FixedServer
  <2>2. a.fsm = f \o u
    BY <1>2, <2>1 DEF Applied, FixedServer
  <2>3. Len(f \o u) = Len(f) + Len(u) /\ Len(f) \in Nat /\ Len(u) \in Nat
    BY ConcatProperties
  <2> QED
    BY <2>1, <2>2, <2>3
<1> QED
  BY <1>1, <1>3, <1>9, <1>10

\* A step that ends by applying entries: T as the handler leaves it, U afterwards.
LEMMA ApplyStep ==
  ASSUME ServerAssumption, BoundAssumption, NEW h, NEW k, NEW S, NEW T, NEW U,
         NEW s \in InitialMembers, NEW r \in FixedServer(s), RingOK(r), NEW out,
         \A x \in out : x.src \in InitialMembers,
         T = [S EXCEPT ![s] = r], U = [S EXCEPT ![s] = raft_apply_all(s, r)],
         InitialMembers \subseteq DOMAIN S,
         \A x \in out : x.kind = "rvr" => x.dst \in InitialMembers,
         r.commit_idx = S[s].commit_idx, S[s].fsm \in Seq(NormalEntry),
         StepOK(h, k, S, T, s, r, out)
  PROVE  StepOK(h, k, S, U, s, raft_apply_all(s, r), out)
<1>1. PICK a : a = raft_apply_all(s, r)
  OBVIOUS
<1>2. HistoryOK(k) /\ ServerOK(k, s, r)
  BY DEF StepOK
<1>3. /\ ServerOK(k, s, a) /\ a.log = r.log /\ a.state = r.state
      /\ a.current_term = r.current_term /\ a.voted_for = r.voted_for
      /\ a.commit_idx = r.commit_idx /\ Len(r.fsm) <= Len(a.fsm)
  BY <1>1, <1>2, ApplyServerOK
<1>4. \A q \in InitialMembers : /\ U[q].current_term = T[q].current_term
                                /\ U[q].state = T[q].state /\ U[q].log = T[q].log
  BY <1>1, <1>3
<1>5. Grows(h, k, s, S[s], a)
  BY <1>3 DEF StepOK, Grows
<1>6. ASSUME NEW x \in out PROVE MessageOK(k, U, x)
  <2>1. MessageOK(k, T, x)
    BY DEF StepOK
  <2>2. x.src \in InitialMembers
    OBVIOUS
  <2>3. x.kind = "rv" => RvOK(U, x)
    BY <1>4, <2>1, <2>2 DEF MessageOK, RvOK
  <2> QED
    BY <1>4, <2>1, <2>3 DEF MessageOK
<1>7. KeepsHeld(h, S, s, a)
  BY <1>3 DEF StepOK, KeepsHeld
<1>8. VoteOK(S, U, s, a)
  BY <1>3, <1>4 DEF StepOK, VoteOK
<1>9. Forward(S[s], a)
  <2>1. PICK f \in Seq(NormalEntry), g \in Seq(NormalEntry), e \in Seq(NormalEntry) :
          f = S[s].fsm /\ g = r.fsm /\ e = a.fsm
    BY <1>1, ApplyKeeps DEF FixedServer
  <2>2. Len(f) <= Len(g) /\ Len(g) <= Len(e)
    BY <1>3, <2>1 DEF StepOK, Forward
  <2>3. Len(f) \in Nat /\ Len(g) \in Nat /\ Len(e) \in Nat
    OBVIOUS
  <2>4. Len(S[s].fsm) <= Len(a.fsm) /\ S[s].commit_idx <= a.commit_idx
        /\ a.commit_idx = S[s].commit_idx
    BY <1>3, <2>1, <2>2, <2>3 DEF StepOK, Forward
  <2> QED
    BY <2>4 DEF Forward
<1>10. StepOK(h, k, S, U, s, a, out)
  BY <1>2, <1>3, <1>5, <1>6, <1>7, <1>8, <1>9 DEF StepOK
<1> QED
  BY <1>1, <1>10

LEMMA EndPeriodicProceeds ==
  ASSUME ServerAssumption, BoundAssumption, ElectionInv, NEW h, NEW k, NEW s \in InitialMembers,
         NEW r \in FixedServer(s), RingOK(r), NEW out, EndPeriodic(s, r, out),
         \A x \in out : x.src \in InitialMembers /\ x.kind # "rvr",
         r.commit_idx = srv[s].commit_idx,
         NEW T, T = [srv EXCEPT ![s] = r], StepOK(h, k, srv, T, s, r, out)
  PROVE  Proceeds(h, s)
<1>1. srv' = [srv EXCEPT ![s] = raft_apply_all(s, r)] /\ Exchange(EmptyBag, out)
  BY DEF EndPeriodic
<1>2. InitialMembers \subseteq DOMAIN srv /\ srv[s].fsm \in Seq(NormalEntry)
  BY DEF ElectionInv, FixedTypes, FixedServer, ServerAssumption
<1>3. StepOK(h, k, srv, srv', s, raft_apply_all(s, r), out)
  BY <1>1, <1>2, ApplyStep
<1> QED
  BY <1>1, <1>3 DEF Proceeds

\* s, as it is, in state T
LEMMA QuietStepOK ==
  ASSUME ServerAssumption, BoundAssumption, ElectionInv, NEW h, History(h),
         NEW s \in InitialMembers, NEW T, NEW out, \A x \in out : MessageOK(h, T, x)
  PROVE  StepOK(h, h, srv, T, s, srv[s], out)
<1> DEFINE m == srv[s]
<1>1. m \in FixedServer(s) /\ m.current_term \in Nat /\ Explains(h, srv, Msgs) /\ ServerOK(h, s, m)
  BY MemberFacts DEF History
<1>2. Calm(s, m, m)
  BY <1>1 DEF Calm, Steady, ServerOK
<1>3. VoteOK(srv, T, s, m)
  BY <1>1, NoVoteOK DEF NoVote
<1> QED
  BY <1>1, <1>2, <1>3, CalmStepOK

\* A leader sends from what it knows.
LEMMA LeaderSendsFrom ==
  ASSUME ServerAssumption, BoundAssumption, ElectionInv, NEW h, History(h),
         NEW s \in InitialMembers, srv[s].state = "LEADER"
  PROVE  SendsFrom(h, s, srv[s])
<1>1. srv[s] \in FixedServer(s) /\ RingOK(srv[s]) /\ ServerOK(h, s, srv[s])
  BY MemberFacts DEF History
<1> QED
  BY <1>1 DEF SendsFrom, ServerOK

LEMMA FromLogFields ==
  ASSUME NEW s \in InitialMembers, NEW m, NEW x, FromLog(s, m, x)
  PROVE  x.src \in InitialMembers /\ x.kind # "rvr"
  BY DEF FromLog, AeMsg

LEMMA HeartbeatProceeds ==
  ASSUME ServerAssumption, BoundAssumption, ElectionInv, NEW h, History(h),
         NEW s \in InitialMembers, PeriodicHeartbeat(s)
  PROVE  Proceeds(h, s)
<1>1. PICK out \in raft_send_appendentries_all(s, srv[s]) : EndPeriodic(s, srv[s], out)
  BY DEF PeriodicHeartbeat
<1>2. SendsFrom(h, s, srv[s]) /\ HistoryOK(h)
  BY LeaderSendsFrom DEF PeriodicHeartbeat, History, Explains
<1>3. srv[s] \in FixedServer(s) /\ RingOK(srv[s])
  BY <1>2 DEF SendsFrom
<1>4. \A x \in out : x.src \in InitialMembers /\ x.kind # "rvr"
  BY <1>1, <1>3, SendAllOK, FromLogFields
<1>5. PICK T : T = [srv EXCEPT ![s] = srv[s]]
  OBVIOUS
<1>6. \A x \in out : MessageOK(h, T, x)
  BY <1>1, <1>2, SendAllMessages
<1>7. StepOK(h, h, srv, T, s, srv[s], out)
  BY <1>6, QuietStepOK
<1> QED
  BY <1>1, <1>3, <1>4, <1>5, <1>7, EndPeriodicProceeds

LEMMA ApplyProceeds ==
  ASSUME ServerAssumption, BoundAssumption, ElectionInv, NEW h, History(h),
         NEW s \in InitialMembers, PeriodicApply(s)
  PROVE  Proceeds(h, s)
<1>1. EndPeriodic(s, srv[s], {})
  BY DEF PeriodicApply
<1>2. srv[s] \in FixedServer(s) /\ RingOK(srv[s])
  BY MemberFacts DEF History
<1>3. PICK T : T = [srv EXCEPT ![s] = srv[s]]
  OBVIOUS
<1>4. StepOK(h, h, srv, T, s, srv[s], {})
  BY QuietStepOK
<1> QED
  BY <1>1, <1>2, <1>3, <1>4, EndPeriodicProceeds

LEMMA ElectionProceeds ==
  ASSUME ServerAssumption, BoundAssumption, ElectionInv, NEW h, History(h),
         NEW s \in InitialMembers, PeriodicElection(s)
  PROVE  Proceeds(h, s)
<1> DEFINE m == srv[s]
           cand == raft_become_candidate(s, m)
           out == {msg_requestvote_t(s, p, cand) : p \in VotingNodes(m) \ {s}}
<1>1. /\ m \in FixedServer(s) /\ RingOK(m) /\ m.current_term \in Nat
      /\ Explains(h, srv, Msgs) /\ ServerOK(h, s, m) /\ s \in DOMAIN srv
  BY MemberFacts DEF History
<1>2. m.current_term < MaxTerm /\ EndPeriodic(s, cand, out) /\ m.state # "LEADER"
  BY DEF PeriodicElection
<1>3. /\ cand \in FixedServer(s) /\ RingOK(cand) /\ cand.log = m.log /\ cand.state = "CANDIDATE"
      /\ cand.current_term = m.current_term + 1 /\ cand.voted_for = s
  BY <1>1, <1>2, CandidateKeeps
<1>4. Steady(m, cand) /\ cand.current_leader = NoNode
  BY <1>1 DEF raft_become_candidate, raft_set_current_term, FixedServer, Steady
<1>5. PICK c, ms : c = cand /\ ms = out
  OBVIOUS
<1> HIDE DEF cand
<1>6. PICK T : T = [srv EXCEPT ![s] = c]
  OBVIOUS
<1>7. T[s] = c
  BY <1>1, <1>6
<1>8. c.log \in Seq(NormalEntry) /\ Len(c.log) \in Nat /\ c.base = 0 /\ s # NoNode
  BY <1>3, <1>5, FixedFacts
<1>9. log_get_current_idx(c) = Len(c.log) /\ raft_get_last_log_term(c) = LastTerm(c.log)
  <2>1. log_get_current_idx(c) = Len(c.log)
    BY <1>8 DEF log_get_current_idx
  <2>2. HasEntry(c, Len(c.log)) <=> Len(c.log) # 0
    BY <1>8, <2>1 DEF HasEntry
  <2>3. Len(c.log) - c.base = Len(c.log)
    BY <1>8
  <2> QED
    BY <2>1, <2>2, <2>3 DEF raft_get_last_log_term, log_get_at_idx, LastTerm
<1>10. ASSUME NEW x \in ms
       PROVE  /\ x.src \in InitialMembers /\ x.kind # "rvr" /\ MessageOK(h, T, x)
  <2>1. PICK p : x = msg_requestvote_t(s, p, c)
    BY <1>5
  <2>2. /\ x.kind = "rv" /\ x.src = s /\ x.term = c.current_term
        /\ x.last_log_idx = Len(c.log) /\ x.last_log_term = LastTerm(c.log)
    BY <1>9, <2>1 DEF msg_requestvote_t
  <2>3. c.current_term <= c.current_term
    BY <1>1, <1>3, <1>5
  <2>4. RvOK(T, x)
    BY <1>7, <2>2, <2>3 DEF RvOK
  <2> QED
    BY <2>2, <2>4 DEF MessageOK
<1>11. Calm(s, m, c)
  BY <1>1, <1>2, <1>3, <1>4, <1>5, <1>8 DEF Calm
<1>12. VoteOK(srv, T, s, c)
  <2>1. AtLeast(c.log, m.log)
    <3>1. PICK a \in Seq(NormalEntry) : a = c.log
      BY <1>8
    <3>2. LastTerm(a) \in Nat /\ Len(a) \in Nat
      BY LastTermType
    <3>3. AtLeast(a, a)
      BY <3>2 DEF AtLeast
    <3> QED
      BY <1>3, <1>5, <3>1, <3>3
  <2>2. c.voted_for = s /\ c.current_term <= c.current_term
    BY <1>1, <1>3, <1>5
  <2> QED
    BY <1>7, <2>1, <2>2 DEF VoteOK
<1>13. c \in FixedServer(s) /\ RingOK(c) /\ EndPeriodic(s, c, ms)
  BY <1>2, <1>3, <1>5
<1>14. StepOK(h, h, srv, T, s, c, ms)
  BY <1>1, <1>10, <1>11, <1>12, <1>13, CalmStepOK
<1>15. c.commit_idx = m.commit_idx
  BY <1>11 DEF Calm, Steady
<1> QED
  BY <1>6, <1>10, <1>13, <1>14, <1>15, EndPeriodicProceeds
-----------------------------------------------------------------------------
(* A server wins its election.                                             *)

\* The history after s, whose log is log, has become the leader of term u
WonHistory(h, s, u, log) ==
  LET D == Terms(h) \cup {u} IN
  [log   |-> [v \in D |-> IF v = u THEN log ELSE h.log[v]],
   start |-> [v \in D |-> IF v = u THEN Len(log) ELSE h.start[v]],
   who   |-> [v \in D |-> IF v = u THEN s ELSE h.who[v]],
   ack   |-> [v \in D |-> IF v = u THEN [q \in InitialMembers |-> IF q = s THEN Len(log) ELSE 0]
                          ELSE h.ack[v]]]

LEMMA WonIs ==
  ASSUME BoundAssumption, NEW h, HistoryOK(h), NEW s \in InitialMembers,
         NEW u \in 0..MaxTerm, u \notin Terms(h),
         NEW log \in Seq(NormalEntry), Coherent(h, log), Within(log, u)
  PROVE  LET k == WonHistory(h, s, u, log) IN
         /\ Terms(k) = Terms(h) \cup {u} /\ HistoryOK(k) /\ Later(h, k) /\ HistoryType(k)
         /\ k.log[u] = log /\ k.start[u] = Len(log) /\ k.who[u] = s
         /\ k.ack[u][s] = Len(log) /\ \A q \in InitialMembers \ {s} : k.ack[u][q] = 0
         /\ \A v \in Terms(h) : /\ k.log[v] = h.log[v] /\ k.start[v] = h.start[v]
                                /\ k.who[v] = h.who[v] /\ k.ack[v] = h.ack[v]
<1>0. HistoryType(h) /\ Len(log) \in Nat
  BY DEF HistoryOK
<1>1. PICK k : k = WonHistory(h, s, u, log)
  OBVIOUS
<1>2. PICK ca \in [InitialMembers -> Nat] :
        ca = [q \in InitialMembers |-> IF q = s THEN Len(log) ELSE 0]
  BY <1>0
<1>3. /\ k.log = [v \in Terms(h) \cup {u} |-> IF v = u THEN log ELSE h.log[v]]
      /\ k.start = [v \in Terms(h) \cup {u} |-> IF v = u THEN Len(log) ELSE h.start[v]]
      /\ k.who = [v \in Terms(h) \cup {u} |-> IF v = u THEN s ELSE h.who[v]]
      /\ k.ack = [v \in Terms(h) \cup {u} |-> IF v = u THEN ca ELSE h.ack[v]]
  BY <1>1, <1>2 DEF WonHistory
<1>4. Terms(k) = Terms(h) \cup {u}
  BY <1>3 DEF Terms
<1>5. /\ k.log[u] = log /\ k.start[u] = Len(log) /\ k.who[u] = s /\ k.ack[u] = ca
      /\ \A v \in Terms(h) : /\ k.log[v] = h.log[v] /\ k.start[v] = h.start[v]
                             /\ k.who[v] = h.who[v] /\ k.ack[v] = h.ack[v]
  BY <1>3
<1>6. ca[s] = Len(log) /\ \A q \in InitialMembers \ {s} : ca[q] = 0
  BY <1>2
<1>7. HistoryType(k)
  <2>1. h.log \in [Terms(h) -> Seq(NormalEntry)] /\ h.start \in [Terms(h) -> Nat]
    BY <1>0 DEF HistoryType
  <2>2. h.who \in [Terms(h) -> InitialMembers] /\ h.ack \in [Terms(h) -> [InitialMembers -> Nat]]
    BY <1>0 DEF HistoryType
  <2>3. k.log \in [Terms(k) -> Seq(NormalEntry)]
    BY <1>3, <1>4, <2>1
  <2>4. k.start \in [Terms(k) -> Nat]
    BY <1>0, <1>3, <1>4, <2>1
  <2>5. k.who \in [Terms(k) -> InitialMembers]
    BY <1>3, <1>4, <2>2
  <2>6. k.ack \in [Terms(k) -> [InitialMembers -> Nat]]
    BY <1>3, <1>4, <2>2
  <2>7. Terms(k) \subseteq 0..MaxTerm
    BY <1>0, <1>4 DEF HistoryType
  <2> QED
    BY <2>3, <2>4, <2>5, <2>6, <2>7 DEF HistoryType
<1>8. Later(h, k)
  <2>1. Later(h, h)
    BY <1>0, LaterSelf
  <2> QED
    BY <1>4, <1>5, <2>1 DEF Later
<1>9. ASSUME NEW v \in Terms(k)
      PROVE  /\ Coherent(k, k.log[v]) /\ Within(k.log[v], v) /\ k.start[v] <= Len(k.log[v])
             /\ \A i \in 1..Len(k.log[v]) : k.start[v] < i <=> k.log[v][i].term = v
             /\ \A q \in InitialMembers : k.ack[v][q] <= Len(k.log[v])
  <2>1. CASE v = u
    <3>1. Coherent(k, log)
      BY <1>0, <1>7, <1>8, CoherentLater
    <3>2. \A i \in 1..Len(log) : log[i].term \in Terms(h) /\ ~(Len(log) < i)
      BY <1>0 DEF Coherent
    <3>3. \A q \in InitialMembers : ca[q] <= Len(log)
      BY <1>0, <1>6
    <3> QED
      BY <1>0, <1>5, <2>1, <3>1, <3>2, <3>3
  <2>2. CASE v \in Terms(h)
    <3>1. PICK b \in Seq(NormalEntry) : b = h.log[v]
      BY <1>0, <2>2, HistoryFacts
    <3>2. Coherent(h, b)
      BY <2>2, <3>1 DEF HistoryOK
    <3>3. Coherent(k, b)
      BY <1>0, <1>7, <1>8, <3>2, CoherentLater
    <3>4. k.log[v] = h.log[v] /\ k.start[v] = h.start[v] /\ k.ack[v] = h.ack[v]
      BY <1>5, <2>2
    <3> QED
      BY <2>2, <3>1, <3>3, <3>4 DEF HistoryOK
  <2> QED
    BY <1>4, <2>1, <2>2
<1>10. HistoryOK(k)
  BY <1>7, <1>9 DEF HistoryOK
<1> QED
  BY <1>1, <1>4, <1>5, <1>6, <1>7, <1>8, <1>10

\* r is m, become a leader.
Leads(s, m, r) ==
  /\ Steady(m, r) /\ r.state = "LEADER" /\ r.current_leader = s
  /\ r.current_term = m.current_term /\ r.voted_for = m.voted_for
  /\ \A p \in InitialMembers \ {s} :
       r.nodes[p].next_idx = Len(m.log) + 1 /\ r.nodes[p].match_idx = 0

LEMMA LeadLeads ==
  ASSUME ServerAssumption, BoundAssumption, NEW s \in InitialMembers, NEW m \in FixedServer(s)
  PROVE  Leads(s, m, raft_become_leader(s, m))
<1>1. m.nodes \in [InitialMembers -> MemberNode(s)] /\ Len(m.log) \in Nat /\ m.base = 0
  BY FixedFacts
<1>2. Peers(s, m) = InitialMembers \ {s}
  BY MembersVote
<1>3. log_get_current_idx(m) + 1 = Len(m.log) + 1
  BY <1>1 DEF log_get_current_idx
<1>4. PICK nd : nd = [p \in InitialMembers |->
                        IF p \in Peers(s, m)
                        THEN [m.nodes[p] EXCEPT !.next_idx = log_get_current_idx(m) + 1,
                                                !.match_idx = 0]
                        ELSE m.nodes[p]]
  OBVIOUS
<1>5. PICK r : r = raft_become_leader(s, m)
  OBVIOUS
<1>6. r = [m EXCEPT !.state = "LEADER", !.current_leader = s, !.timeout_elapsed = FALSE,
                    !.nodes = nd]
  BY <1>1, <1>4, <1>5 DEF raft_become_leader, FixedServer
<1>7. \A p \in InitialMembers \ {s} :
        nd[p].next_idx = Len(m.log) + 1 /\ nd[p].match_idx = 0
  BY <1>1, <1>2, <1>3, <1>4 DEF MemberNode
<1>8. /\ Steady(m, r) /\ r.state = "LEADER" /\ r.current_leader = s
      /\ r.current_term = m.current_term /\ r.voted_for = m.voted_for /\ r.nodes = nd
  BY <1>6 DEF FixedServer, Steady
<1> QED
  BY <1>5, <1>7, <1>8 DEF Leads

\* The log of s has what may have been committed before term u.
HasCommitted(h, S, log, u) ==
  \A v \in Terms(h), n \in Nat :
    v < u /\ h.start[v] < n /\ n <= Len(h.log[v]) /\ Choosable(h, S, v, n)
      => n <= Len(log) /\ Holds(log, h.log[v], n)

LEMMA WinOK ==
  ASSUME ServerAssumption, BoundAssumption, NEW h, NEW S, NEW M, Explains(h, S, M), NEW T,
         NEW s \in InitialMembers, NEW m \in FixedServer(s), m = S[s],
         NEW r \in FixedServer(s), RingOK(r), Leads(s, m, r),
         m.current_term \notin Terms(h), HasCommitted(h, S, m.log, m.current_term),
         NEW Q \in SUBSET InitialMembers, Majority(Q),
         \A q \in Q : m.current_term <= S[q].current_term
  PROVE  \E k : StepOK(h, k, S, T, s, r, SendTo(s, r, Peers(s, r)))
<1>1. PICK u : u = m.current_term
  OBVIOUS
<1>2. PICK log \in Seq(NormalEntry) : log = m.log
  BY FixedFacts
<1>3. u \in 0..MaxTerm /\ u \in Nat /\ u \notin Terms(h) /\ Len(log) \in Nat /\ m.commit_idx \in Nat
  <2>1. m.commit_idx \in Nat
    BY DEF FixedServer
  <2> QED
    BY <1>1, <1>2, <2>1, FixedFacts
<1>4. HistoryOK(h) /\ HistoryType(h) /\ ServerOK(h, s, m) /\ ServersHave(h, S)
  BY DEF Explains, HistoryOK
<1>5. Coherent(h, log) /\ Within(log, u)
  BY <1>1, <1>2, <1>4 DEF ServerOK
<1>6. PICK k : k = WonHistory(h, s, u, log)
  OBVIOUS
<1>7. /\ Terms(k) = Terms(h) \cup {u} /\ HistoryOK(k) /\ Later(h, k) /\ HistoryType(k)
      /\ k.log[u] = log /\ k.start[u] = Len(log) /\ k.who[u] = s
      /\ k.ack[u][s] = Len(log) /\ \A q \in InitialMembers \ {s} : k.ack[u][q] = 0
      /\ \A v \in Terms(h) : /\ k.log[v] = h.log[v] /\ k.start[v] = h.start[v]
                             /\ k.who[v] = h.who[v] /\ k.ack[v] = h.ack[v]
  BY <1>3, <1>4, <1>5, <1>6, WonIs
<1>8. /\ r.log = log /\ r.front = m.front /\ r.commit_idx = m.commit_idx
      /\ r.last_applied_idx = m.last_applied_idx /\ r.fsm = m.fsm
      /\ r.state = "LEADER" /\ r.current_leader = s /\ r.current_term = u
      /\ r.voted_for = m.voted_for
      /\ \A p \in InitialMembers \ {s} :
           r.nodes[p].next_idx = Len(log) + 1 /\ r.nodes[p].match_idx = 0
  BY <1>1, <1>2 DEF Leads, Steady
<1>9. Grows(h, k, s, S[s], r)
  BY <1>7, <1>8 DEF Grows
<1>10. ServerOK(k, s, r)
  <2>1. LeaderOK(k, s, r)
    <3>1. \A p \in InitialMembers \ {s} : /\ r.nodes[p].next_idx <= Len(log) + 1
                                          /\ r.nodes[p].match_idx <= k.ack[u][p]
      BY <1>3, <1>7, <1>8
    <3> QED
      BY <1>7, <1>8, <3>1 DEF LeaderOK
  <2>2. PastOK(k, s, r)
    <3> SUFFICES ASSUME NEW v \in Terms(k)
                 PROVE  /\ u < v => k.ack[v][s] = 0
                        /\ u = v => Holds(log, k.log[v], k.ack[v][s])
                        /\ k.who[v] = s => v <= u
      BY <1>8 DEF PastOK
    <3>1. CASE v = u
      <4>1. Holds(log, log, Len(log))
        BY <1>3, HoldsSelf
      <4> QED
        BY <1>3, <1>7, <3>1, <4>1
    <3>2. CASE v \in Terms(h)
      BY <1>1, <1>3, <1>4, <1>7, <3>2 DEF ServerOK, PastOK
    <3> QED
      BY <1>7, <3>1, <3>2
  <2>3. CommitOK(k, u, log, m.commit_idx)
    <3>1. CommitOK(h, u, log, m.commit_idx)
      BY <1>1, <1>2, <1>4 DEF ServerOK
    <3>2. Holds(log, log, m.commit_idx)
      BY <1>3, <3>1, CommitInLog
    <3> QED
      BY <1>3, <1>4, <1>7, <3>1, <3>2, CommitLater
  <2>4. Coherent(k, log)
    BY <1>4, <1>5, <1>7, CoherentLater
  <2>5. FsmOK(r)
    BY <1>2, <1>4, <1>8 DEF ServerOK, FsmOK
  <2> QED
    BY <1>4, <1>5, <1>8, <2>1, <2>2, <2>3, <2>4, <2>5 DEF ServerOK
<1>11. \A x \in SendTo(s, r, Peers(s, r)) : MessageOK(k, T, x)
  <2>1. SendsFrom(k, s, r)
    BY <1>8, <1>10 DEF SendsFrom, ServerOK
  <2>2. Peers(s, r) \in SUBSET (InitialMembers \ {s})
    BY MembersVote
  <2> QED
    BY <1>7, <2>1, <2>2, SendToMessages
<1>12. KeepsHeld(h, S, s, r)
  BY <1>2, <1>4, <1>8 DEF KeepsHeld, ServersHave
<1>13. VoteOK(S, T, s, r)
  BY <1>1, <1>3, <1>8, NoVoteOK DEF NoVote
<1>14. NewLeaderOK(h, k, S)
  BY <1>1, <1>2, <1>7 DEF NewLeaderOK, HasCommitted
<1>15. Forward(S[s], r)
  BY SteadyForward DEF Leads
<1>16. StepOK(h, k, S, T, s, r, SendTo(s, r, Peers(s, r)))
  BY <1>7, <1>8, <1>9, <1>10, <1>11, <1>12, <1>13, <1>14, <1>15 DEF StepOK
<1> QED
  BY <1>16

\* No term before has a leader that is still to come: s has not led its term, and
\* nobody else has.
LEMMA NewTerm ==
  ASSUME ServerAssumption, BoundAssumption, ElectionInv, NEW h, History(h),
         NEW s \in InitialMembers, srv[s].state # "LEADER",
         \/ InitialMembers = {s}
         \/ \E Q \in SUBSET InitialMembers :
              Majority(Q) /\ \A q \in Q : HasVoted(q, s, srv[s].current_term)
  PROVE  srv[s].current_term \notin Terms(h)
<1> DEFINE u == srv[s].current_term
<1> SUFFICES ASSUME u \in Terms(h) PROVE FALSE
  OBVIOUS
<1>1. ServerOK(h, s, srv[s]) /\ HistoryType(h)
  BY MemberFacts DEF History, Explains, HistoryOK
<1>2. PICK l \in InitialMembers : l = h.who[u]
  BY <1>1, HistoryFacts
<1>3. Elected(l, u)
  BY <1>2 DEF History
<1>4. l # s
  BY <1>1, <1>2 DEF ServerOK, PastOK
<1>5. PICK Q \in SUBSET InitialMembers : Majority(Q) /\ \A q \in Q : HasVoted(q, s, u)
  BY <1>4
<1>6. PICK R \in SUBSET InitialMembers :
        Majority(R) /\ \A p \in R : \A c \in InitialMembers : HasVoted(p, c, u) => c = l
  BY <1>3, <1>4 DEF Elected
<1>7. PICK p \in Q : p \in R
  BY <1>5, <1>6, MajoritiesMeet
<1> QED
  BY <1>4, <1>5, <1>6, <1>7

\* A candidate with the votes of a majority has what may have been committed: with
\* one of its voters, the last leader its log knows of, or both.
LEMMA CandidateHasCommitted ==
  ASSUME ServerAssumption, BoundAssumption, NEW h, NEW S, NEW M, Explains(h, S, M),
         \A q \in InitialMembers : S[q] \in FixedServer(q),
         NEW s \in InitialMembers, S[s].state = "CANDIDATE", S[s].current_term \notin Terms(h),
         NEW Q \in SUBSET InitialMembers, Majority(Q),
         \A q \in Q : Voted(S, M, q, s, S[s].current_term) /\ S[s].current_term <= S[q].current_term
  PROVE  HasCommitted(h, S, S[s].log, S[s].current_term)
<1> DEFINE u == S[s].current_term
<1>1. HistoryOK(h) /\ HistoryType(h) /\ ServerOK(h, s, S[s]) /\ CandidatesHave(h, S, M) /\ LeadersHave(h, S)
  BY DEF Explains, HistoryOK
<1>2. PICK a \in Seq(NormalEntry) : a = S[s].log
  BY FixedFacts
<1>3. /\ u \in Nat /\ Len(a) \in Nat /\ Coherent(h, a) /\ Within(a, u)
      /\ \A q \in InitialMembers : S[q].current_term \in Nat
  BY <1>1, <1>2, FixedFacts DEF ServerOK
<1> SUFFICES ASSUME NEW v \in Terms(h), NEW n \in Nat, v < u, h.start[v] < n,
                    n <= Len(h.log[v]), Choosable(h, S, v, n)
             PROVE  n <= Len(a) /\ Holds(a, h.log[v], n)
  BY <1>2 DEF HasCommitted
<1>4. /\ v \in Nat /\ h.start[v] \in Nat /\ Len(h.log[v]) \in Nat
      /\ \A q \in InitialMembers : h.ack[v][q] \in Nat
  BY <1>1, HistoryFacts
<1>5. PICK b \in Seq(NormalEntry) : b = h.log[v]
  BY <1>1, HistoryFacts
<1>6. PICK R \in SUBSET InitialMembers :
        Majority(R) /\ \A q \in R : S[q].current_term <= v \/ n <= h.ack[v][q]
  BY DEF Choosable
<1>7. PICK q \in Q : q \in R
  BY <1>6, MajoritiesMeet
<1>8. n <= h.ack[v][q]
  <2>1. q \in InitialMembers /\ u <= S[q].current_term
    BY <1>7
  <2> QED
    BY <1>3, <1>4, <1>6, <1>7, <2>1
<1>9. UpToDate(a, v, n)
  <2>1. q \in InitialMembers /\ Voted(S, M, q, s, u)
    BY <1>7
  <2> QED
    BY <1>1, <1>2, <1>8, <2>1 DEF CandidatesHave
<1>10. LastTerm(a) \in Nat
  BY LastTermType
<1>11. Len(a) # 0
  <2>1. Len(a) = 0 => LastTerm(a) = 0
    BY DEF LastTerm
  <2> QED
    BY <1>3, <1>4, <1>9, <1>10, <2>1 DEF UpToDate
<1>12. PICK w : w = a[Len(a)].term
  OBVIOUS
<1>13. Len(a) \in 1..Len(a) /\ w = LastTerm(a)
  BY <1>3, <1>11, <1>12 DEF LastTerm
<1>14. w \in Terms(h) /\ Holds(h.log[w], a, Len(a)) /\ w <= u /\ w # u
  BY <1>3, <1>12, <1>13 DEF Coherent, Within
<1>15. PICK d \in Seq(NormalEntry) : d = h.log[w]
  BY <1>1, <1>14, HistoryFacts
<1>16. Holds(a, d, Len(a)) /\ Holds(d, a, Len(a))
  BY <1>3, <1>14, <1>15, HoldsLess
<1>17. CASE v = w
  <2>1. n <= Len(a)
    BY <1>9, <1>10, <1>13, <1>17, <1>4 DEF UpToDate
  <2>2. Holds(a, d, n)
    BY <1>3, <1>16, <2>1, HoldsLess
  <2> QED
    BY <1>15, <1>17, <2>1, <2>2
<1>18. CASE v < w
  <2>1. n <= h.start[w] /\ Holds(d, b, n)
    BY <1>1, <1>5, <1>14, <1>15, <1>18 DEF LeadersHave
  <2>2. h.start[w] \in Nat /\ Len(d) \in Nat
    BY <1>1, <1>14, HistoryFacts
  <2>3. d[Len(a)] = a[Len(a)] /\ Len(a) \in 1..Len(d)
    BY <1>3, <1>13, <1>16, <2>2 DEF Holds
  <2>4. h.start[w] < Len(a)
    BY <1>1, <1>12, <1>14, <1>15, <2>3 DEF HistoryOK
  <2>5. n <= Len(a)
    BY <1>3, <2>1, <2>2, <2>4
  <2>6. Holds(a, d, n)
    BY <1>3, <1>16, <2>5, HoldsLess
  <2>7. n <= n
    OBVIOUS
  <2>8. Holds(a, b, n)
    BY <2>1, <2>6, <2>7, HoldsTrans
  <2> QED
    BY <1>5, <2>5, <2>8
<1>19. v = w \/ v < w
  BY <1>4, <1>9, <1>10, <1>13 DEF UpToDate
<1> QED
  BY <1>17, <1>18, <1>19

LEMMA SoleVoterProceeds ==
  ASSUME ServerAssumption, BoundAssumption, ElectionInv, NEW h, History(h),
         NEW s \in InitialMembers, PeriodicSoleVoter(s)
  PROVE  Proceeds(h, s)
<1> DEFINE m == srv[s]
<1>1. /\ m \in FixedServer(s) /\ RingOK(m) /\ m.current_term \in Nat /\ Explains(h, srv, Msgs)
      /\ Len(m.log) \in Nat /\ m.log \in Seq(NormalEntry)
  BY MemberFacts DEF History
<1>2. PICK lead, out : lead = raft_become_leader(s, m) /\ out = SendTo(s, lead, Peers(s, lead))
  OBVIOUS
<1>3. lead \in FixedServer(s) /\ RingOK(lead) /\ Leads(s, m, lead)
  BY <1>1, <1>2, LeadKeeps, LeadLeads
<1>4. InitialMembers = {s} /\ EndPeriodic(s, lead, out) /\ m.state # "LEADER"
  BY <1>1, <1>2, MembersVote DEF PeriodicSoleVoter, SoleVoter
<1>5. m.current_term \notin Terms(h)
  BY <1>4, NewTerm
<1>6. HasCommitted(h, srv, m.log, m.current_term)
  <2> SUFFICES ASSUME NEW v \in Terms(h), NEW n \in Nat, v < m.current_term, h.start[v] < n,
                      Choosable(h, srv, v, n)
               PROVE  n <= Len(m.log) /\ Holds(m.log, h.log[v], n)
    BY DEF HasCommitted
  <2>1. PICK R \in SUBSET InitialMembers :
          Majority(R) /\ \A q \in R : srv[q].current_term <= v \/ n <= h.ack[v][q]
    BY DEF Choosable
  <2>2. R # {}
    <3>1. Cardinality({}) = 0 /\ Cardinality(InitialMembers) \in Nat
      BY FS_EmptySet, MembersFinite
    <3> QED
      BY <2>1, <3>1 DEF Majority
  <2>3. s \in R
    BY <1>4, <2>2
  <2>4. v \in Nat
    BY <1>1, HistoryFacts DEF Explains, HistoryOK
  <2>5. n <= h.ack[v][s]
    BY <1>1, <2>1, <2>3, <2>4
  <2>6. Holds(m.log, h.log[v], n)
    BY <1>1, <2>5 DEF Explains, ServersHave
  <2> QED
    BY <2>6 DEF Holds
<1>7. Majority(InitialMembers) /\ \A q \in InitialMembers : m.current_term <= srv[q].current_term
  <2>1. Cardinality({s}) = 1
    BY FS_Singleton
  <2> QED
    BY <1>1, <1>4, <2>1 DEF Majority
<1>8. PICK T : T = [srv EXCEPT ![s] = lead]
  OBVIOUS
<1>9. PICK k : StepOK(h, k, srv, T, s, lead, out)
  BY <1>1, <1>2, <1>3, <1>5, <1>6, <1>7, WinOK
<1>10. \A x \in out : x.src \in InitialMembers /\ x.kind # "rvr"
  <2>1. Peers(s, lead) \in SUBSET (InitialMembers \ {s})
    BY <1>3, MembersVote
  <2>2. \A x \in out : FromLog(s, lead, x)
    BY <1>2, <1>3, <2>1, SendToOK
  <2> QED
    BY <2>2, FromLogFields
<1>11. lead.commit_idx = m.commit_idx
  BY <1>3 DEF Leads, Steady
<1> QED
  BY <1>3, <1>4, <1>8, <1>9, <1>10, <1>11, EndPeriodicProceeds

LEMMA HeardSteady ==
  ASSUME ServerAssumption, BoundAssumption, NEW s \in InitialMembers, NEW m \in FixedServer(s),
         NEW p \in InitialMembers
  PROVE  LET r == UpdateNode(m, p, "voted_for_me", TRUE) IN
         Steady(m, r) /\ r.current_leader = m.current_leader
  BY DEF UpdateNode, Steady, FixedServer

LEMMA VoteResponseProceeds ==
  ASSUME ServerAssumption, BoundAssumption, ElectionInv, NEW h, History(h),
         NEW x \in RvrMsg, x \in Msgs, x.src # x.dst, raft_recv_requestvote_response(x)
  PROVE  Proceeds(h, x.dst)
<1> DEFINE s == x.dst
           m == srv[s]
           heard == UpdateNode(m, x.src, "voted_for_me", TRUE)
           lead == raft_become_leader(s, heard)
           Done(r, out) == srv' = [srv EXCEPT ![s] = r] /\ Exchange(SetToBag({x}), out)
<1>0. s \in InitialMembers /\ x.src \in InitialMembers \ {s} /\ x.term \in 0..MaxTerm
  BY DEF RvrMsg
<1>1. /\ m \in FixedServer(s) /\ RingOK(m) /\ LeaderInv /\ m.current_term \in Nat
      /\ x.term \in Nat /\ Explains(h, srv, Msgs) /\ ServerOK(h, s, m)
  BY <1>0, MemberFacts DEF ElectionInv, History, BoundAssumption
<1>3. \/ Done(m, {})
      \/ m.current_term < x.term /\ Done(StepDown(m, x.term), {})
      \/ /\ m.state = "CANDIDATE" /\ x.term = m.current_term /\ x.vote_granted = 1
         /\ Done(heard, {})
      \/ /\ m.state = "CANDIDATE" /\ x.term = m.current_term /\ x.vote_granted = 1
         /\ raft_votes_is_majority(Cardinality(VotingNodes(heard)),
                                   raft_get_nvotes_for_me(s, heard))
         /\ Done(lead, SendTo(s, lead, Peers(s, lead)))
  <2>1. \/ m.state # "CANDIDATE"
        \/ m.state = "CANDIDATE" /\ m.current_term < x.term
        \/ m.state = "CANDIDATE" /\ x.term < m.current_term
        \/ m.state = "CANDIDATE" /\ x.term = m.current_term
    BY <1>1
  <2> HIDE DEF heard, lead, m
  <2> QED
    BY <1>1, <2>1 DEF raft_recv_requestvote_response, heard, lead, m
<1>4. CASE Done(m, {})
  BY <1>0, <1>4, IgnoreProceeds
<1>5. CASE m.current_term < x.term /\ Done(StepDown(m, x.term), {})
  BY <1>0, <1>5, StepDownProceeds
<1>6. PICK e : e = heard
  OBVIOUS
<1>7. /\ e \in FixedServer(s) /\ RingOK(e) /\ e.log = m.log
      /\ e.state = m.state /\ e.current_term = m.current_term
      /\ e.voted_for = m.voted_for
      /\ \A q \in InitialMembers :
           e.nodes[q].voted_for_me <=> q = x.src \/ m.nodes[q].voted_for_me
      /\ Steady(m, e) /\ e.current_leader = m.current_leader
  <2>1. PICK p \in InitialMembers : p = x.src
    BY <1>0
  <2> HIDE DEF m
  <2>2. e = UpdateNode(m, p, "voted_for_me", TRUE)
    BY <1>6, <2>1
  <2>3. Steady(m, e) /\ e.current_leader = m.current_leader
    BY <1>0, <1>1, <2>2, HeardSteady
  <2>4. /\ heard \in FixedServer(s) /\ RingOK(heard) /\ heard.log = m.log
        /\ heard.state = m.state /\ heard.current_term = m.current_term
        /\ heard.voted_for = m.voted_for
        /\ \A q \in InitialMembers :
             heard.nodes[q].voted_for_me <=> q = x.src \/ m.nodes[q].voted_for_me
    BY <1>0, <1>1, <2>1, HeardKeeps, ZenonT(60)
  <2> HIDE DEF heard
  <2> QED
    BY <1>6, <2>3, <2>4
<1>8. CASE m.state = "CANDIDATE" /\ Done(e, {})
  <2>1. Calm(s, m, e) /\ NoVote(m, e)
    BY <1>1, <1>7, <1>8 DEF Calm, NoVote, ServerOK
  <2>2. VoteOK(srv, srv', s, e)
    BY <1>0, <1>1, <2>1, NoVoteOK
  <2>3. StepOK(h, h, srv, srv', s, e, {})
    BY <1>0, <1>1, <1>7, <2>1, <2>2, CalmStepOK
  <2> QED
    BY <1>8, <2>3 DEF Proceeds
<1>9. CASE /\ m.state = "CANDIDATE" /\ x.term = m.current_term /\ x.vote_granted = 1
           /\ raft_votes_is_majority(Cardinality(VotingNodes(e)), raft_get_nvotes_for_me(s, e))
           /\ Done(raft_become_leader(s, e),
                   SendTo(s, raft_become_leader(s, e), Peers(s, raft_become_leader(s, e))))
  <2>1. PICK r, out : r = raft_become_leader(s, e) /\ out = SendTo(s, r, Peers(s, r))
    OBVIOUS
  <2>2. r \in FixedServer(s) /\ RingOK(r) /\ Leads(s, e, r)
    BY <1>0, <1>7, <2>1, LeadKeeps, LeadLeads
  <2>3. Leads(s, m, r)
    BY <1>7, <2>2 DEF Leads, Steady
  <2>4. m.voted_for = s
    BY <1>0, <1>1, <1>9 DEF LeaderInv
  <2>5. PICK Q \in SUBSET InitialMembers : Q = {p \in InitialMembers : p = s \/ e.nodes[p].voted_for_me}
    OBVIOUS
  <2>6. Majority(Q)
    BY <1>0, <1>7, <1>9, <2>4, <2>5, VotesCounted
  <2>7. ASSUME NEW q \in Q PROVE HasVoted(q, s, m.current_term)
    <3>1. CASE q = s
      BY <2>4, <3>1 DEF HasVoted
    <3>2. CASE q = x.src
      BY <1>9, <3>2 DEF HasVoted, RvrMsg, Msgs
    <3>3. CASE q # s /\ m.nodes[q].voted_for_me
      BY <1>9, <3>3 DEF HasVoted
    <3> QED
      BY <1>7, <2>5, <3>1, <3>2, <3>3
  <2>8. ASSUME NEW q \in Q PROVE Voted(srv, Msgs, q, s, m.current_term)
    <3>1. HasVoted(q, s, m.current_term)
      BY <2>7
    <3> QED
      BY <3>1 DEF HasVoted, Voted, Msgs
  <2>9. \A q \in Q : m.current_term <= srv[q].current_term
    <3>1. m.current_term \in 0..MaxTerm
      BY <1>0, <1>1, FixedFacts
    <3> QED
      BY <1>0, <2>7, <3>1 DEF ElectionInv, VoteInv
  <2>10. m.current_term \notin Terms(h)
    BY <1>0, <1>9, <2>6, <2>7, NewTerm
  <2>11. HasCommitted(h, srv, m.log, m.current_term)
    <3>1. \A q \in InitialMembers : srv[q] \in FixedServer(q)
      BY <1>1, MemberFacts
    <3> QED
      BY <1>0, <1>1, <1>9, <2>6, <2>8, <2>9, <2>10, <3>1, CandidateHasCommitted
  <2>12. PICK k : StepOK(h, k, srv, srv', s, r, out)
    BY <1>0, <1>1, <2>1, <2>2, <2>3, <2>6, <2>9, <2>10, <2>11, WinOK
  <2> QED
    BY <1>9, <2>1, <2>12 DEF Proceeds
<1> HIDE DEF m
<1> QED
  BY <1>3, <1>4, <1>5, <1>6, <1>8, <1>9
-----------------------------------------------------------------------------
(* A leader hears of what its followers hold.                              *)

\* r is m but for indexes of nodes and the commit index.
Books(s, m, r) ==
  /\ r \in FixedServer(s) /\ RingOK(r) /\ r.log = m.log /\ r.front = m.front /\ r.fsm = m.fsm
  /\ r.last_applied_idx = m.last_applied_idx /\ r.state = m.state
  /\ r.current_term = m.current_term /\ r.voted_for = m.voted_for
  /\ r.current_leader = m.current_leader

LEMMA BooksOK ==
  ASSUME NEW h, NEW s \in InitialMembers, NEW m \in FixedServer(s), ServerOK(h, s, m),
         m.state = "LEADER", NEW r, Books(s, m, r), LeaderOK(h, s, r),
         CommitOK(h, r.current_term, r.log, r.commit_idx), m.commit_idx <= r.commit_idx
  PROVE  ServerOK(h, s, r) /\ SendsFrom(h, s, r) /\ NoVote(m, r)
<1>1. /\ r \in FixedServer(s) /\ RingOK(r) /\ r.log = m.log /\ r.front = m.front
      /\ r.fsm = m.fsm /\ r.last_applied_idx = m.last_applied_idx /\ r.state = m.state
      /\ r.current_term = m.current_term /\ r.voted_for = m.voted_for
      /\ r.current_leader = m.current_leader
  BY DEF Books
<1>2. FsmOK(r)
  <2>1. m.commit_idx \in Nat /\ r.commit_idx \in Nat /\ Len(m.fsm) \in Nat
    BY <1>1 DEF FixedServer
  <2>2. FsmOK(m)
    BY DEF ServerOK
  <2> QED
    BY <1>1, <2>1, <2>2 DEF FsmOK
<1>3. PastOK(h, s, r)
  BY <1>1 DEF ServerOK, PastOK
<1>4. ServerOK(h, s, r)
  BY <1>1, <1>2, <1>3 DEF ServerOK
<1> QED
  BY <1>1, <1>4 DEF ServerOK, SendsFrom, NoVote

\* m with node n for p
WithNode(m, p, n) == [m EXCEPT !.nodes[p] = n]

LEMMA NodeBooks ==
  ASSUME ServerAssumption, BoundAssumption, NEW h, NEW s \in InitialMembers,
         NEW m \in FixedServer(s), RingOK(m), LeaderOK(h, s, m),
         NEW p \in InitialMembers \ {s}, NEW n \in MemberNode(s),
         n.next_idx <= Len(m.log) + 1, n.match_idx <= h.ack[m.current_term][p]
  PROVE  LET r == WithNode(m, p, n) IN
         Books(s, m, r) /\ LeaderOK(h, s, r) /\ r.commit_idx = m.commit_idx
<1>1. m.nodes \in [InitialMembers -> MemberNode(s)] /\ MembersOf(s) = InitialMembers
  BY FixedFacts
<1>2. PICK nd : nd = [m.nodes EXCEPT ![p] = n]
  OBVIOUS
<1>3. /\ nd \in [MembersOf(s) -> MemberNode(s)] /\ nd[p] = n
      /\ \A q \in InitialMembers \ {p} : nd[q] = m.nodes[q]
  BY <1>1, <1>2
<1>4. PICK r : r = WithNode(m, p, n)
  OBVIOUS
<1>5. r = [m EXCEPT !.nodes = nd]
  BY <1>2, <1>4 DEF WithNode
<1>6. /\ r \in FixedServer(s) /\ r.log = m.log /\ r.front = m.front /\ r.fsm = m.fsm
      /\ r.last_applied_idx = m.last_applied_idx /\ r.state = m.state
      /\ r.current_term = m.current_term /\ r.voted_for = m.voted_for /\ r.size = m.size
      /\ r.current_leader = m.current_leader /\ r.nodes = nd /\ r.commit_idx = m.commit_idx
  BY <1>3, <1>5 DEF FixedServer
<1>7. Books(s, m, r)
  BY <1>6 DEF Books, RingOK
<1>8. LeaderOK(h, s, r)
  BY <1>3, <1>6 DEF LeaderOK
<1> QED
  BY <1>4, <1>6, <1>7, <1>8

\* What a leader counts as committed is confirmed by a majority.
LEMMA CommitBooks ==
  ASSUME ServerAssumption, BoundAssumption, NEW h, HistoryOK(h), NEW s \in InitialMembers,
         NEW m \in FixedServer(s), RingOK(m), LeaderOK(h, s, m),
         CommitOK(h, m.current_term, m.log, m.commit_idx), NEW i \in Nat
  PROVE  LET r == Commit(s, m, i) IN
         /\ Books(s, m, r) /\ LeaderOK(h, s, r) /\ m.commit_idx <= r.commit_idx
         /\ CommitOK(h, r.current_term, r.log, r.commit_idx)
<1> DEFINE u == m.current_term
           P == {p \in VotingNodes(m) \ {s} : i <= m.nodes[p].match_idx}
<1>0. /\ HistoryType(h) /\ m.commit_idx \in Nat /\ Len(m.log) \in Nat /\ m.base = 0
      /\ m.log \in Seq(NormalEntry) /\ m.nodes \in [InitialMembers -> MemberNode(s)]
      /\ VotingNodes(m) = InitialMembers
  <2>1. m.commit_idx \in Nat
    BY DEF FixedServer
  <2> QED
    BY <2>1, FixedFacts, MembersVote DEF HistoryOK
<1>1. PICK r : r = Commit(s, m, i)
  OBVIOUS
<1>2. CASE r = m
  <2>1. Books(s, m, m) /\ m.commit_idx <= m.commit_idx
    BY <1>0 DEF Books
  <2> QED
    BY <1>1, <1>2, <2>1
<1>3. CASE /\ r = [m EXCEPT !.commit_idx = i] /\ m.commit_idx < i /\ HasEntry(m, i)
           /\ log_get_at_idx(m, i).term = u
           /\ Cardinality(VotingNodes(m)) \div 2 < 1 + Cardinality(P)
  <2>1. /\ r \in FixedServer(s) /\ r.log = m.log /\ r.front = m.front /\ r.fsm = m.fsm
        /\ r.last_applied_idx = m.last_applied_idx /\ r.state = m.state
        /\ r.current_term = m.current_term /\ r.voted_for = m.voted_for /\ r.size = m.size
        /\ r.current_leader = m.current_leader /\ r.nodes = m.nodes /\ r.commit_idx = i
    BY <1>3 DEF FixedServer
  <2>2. Books(s, m, r) /\ LeaderOK(h, s, r)
    BY <2>1 DEF Books, RingOK, LeaderOK
  <2>3. i \in 1..Len(m.log) /\ m.log[i].term = u
    <3>1. i - m.base = i /\ i \in 1..Len(m.log)
      BY <1>0, <1>3 DEF HasEntry, log_get_current_idx
    <3> QED
      BY <1>3, <3>1 DEF log_get_at_idx
  <2>4. u \in Terms(h) /\ h.log[u] = m.log /\ h.ack[u][s] = Len(m.log)
    BY DEF LeaderOK
  <2>5. h.start[u] < i
    BY <2>3, <2>4 DEF HistoryOK
  <2>6. PICK Q \in SUBSET InitialMembers : Q = P \cup {s}
    BY <1>0
  <2>7. Majority(Q)
    <3>1. IsFiniteSet(InitialMembers) /\ Cardinality(InitialMembers) \in Nat
      BY MembersFinite
    <3>2. IsFiniteSet(P) /\ s \notin P
      BY <1>0, <3>1, FS_Subset
    <3> HIDE DEF P
    <3>3. Cardinality(Q) = Cardinality(P) + 1 /\ Cardinality(P) \in Nat
      BY <2>6, <3>2, FS_AddElement, FS_CardinalityType
    <3>4. PICK a \in Nat, b \in Nat : a = Cardinality(InitialMembers) /\ b = Cardinality(P)
      BY <3>1, <3>3
    <3>5. a \div 2 < 1 + b => a < 2 * (b + 1)
      OBVIOUS
    <3> QED
      BY <1>0, <1>3, <3>3, <3>4, <3>5 DEF Majority
  <2>8. ASSUME NEW q \in Q PROVE i <= h.ack[u][q]
    <3>1. CASE q = s
      BY <2>3, <2>4, <3>1
    <3>2. CASE q \in P /\ q # s
      <4>1. q \in InitialMembers \ {s} /\ i <= m.nodes[q].match_idx
        BY <1>0, <3>2
      <4>2. m.nodes[q].match_idx <= h.ack[u][q] /\ h.ack[u][q] \in Nat /\ m.nodes[q].match_idx \in Nat
        BY <1>0, <2>4, <4>1, HistoryFacts DEF LeaderOK, MemberNode
      <4> QED
        BY <4>1, <4>2
    <3> QED
      BY <2>6, <3>1, <3>2
  <2>9. Confirmed(h, u, i)
    BY <2>7, <2>8 DEF Confirmed
  <2>10. Holds(m.log, m.log, i) /\ u <= u
    BY <1>0, <2>3, HoldsSelf, FixedFacts
  <2>11. CommitOK(h, u, m.log, i)
    <3>1. i <= Len(h.log[u]) /\ i <= i
      BY <2>3, <2>4
    <3> QED
      BY <2>4, <2>5, <2>9, <2>10, <3>1 DEF CommitOK
  <2>12. m.commit_idx <= r.commit_idx
    BY <1>0, <1>3, <2>1
  <2> QED
    BY <1>1, <2>1, <2>2, <2>11, <2>12
<1>4. r = m \/ (/\ r = [m EXCEPT !.commit_idx = i] /\ m.commit_idx < i /\ HasEntry(m, i)
                /\ log_get_at_idx(m, i).term = u
                /\ Cardinality(VotingNodes(m)) \div 2 < 1 + Cardinality(P))
  BY <1>1 DEF Commit
<1> QED
  BY <1>2, <1>3, <1>4
LEMMA ResponseIs ==
  ASSUME ServerAssumption, BoundAssumption, ElectionInv,
         NEW x \in AerMsg, x.src # x.dst, raft_recv_appendentries_response(x)
  PROVE  LET s == x.dst
             m == srv[s]
         IN  \E r, out : /\ srv' = [srv EXCEPT ![s] = r] /\ Exchange(SetToBag({x}), out)
                  /\ \/ r = m /\ out = {}
                     \/ /\ m.current_term < x.term
                        /\ r = StepDown(m, x.term) /\ out = {}
                     \/ /\ m.state = "LEADER" /\ x.term = m.current_term
                        /\ \/ /\ x.success
                              /\ r = RecvSuccess(s, m, x).me /\ out = RecvSuccess(s, m, x).out
                           \/ r = RecvFailure(s, m, x).me /\ out = RecvFailure(s, m, x).out
<1>0. PICK s \in InitialMembers, p \in InitialMembers : s = x.dst /\ p = x.src /\ p # s
  BY DEF AerMsg
<1> DEFINE m == srv[s]
<1>1. m \in FixedServer(s) /\ RingOK(m)
  BY FixedFacts DEF ElectionInv
<1>2. m.current_term \in Nat /\ x.term \in Nat /\ DOMAIN m.nodes = InitialMembers
  BY <1>1, FixedFacts DEF BoundAssumption, AerMsg
<1> DEFINE res == CASE \/ m.state # "LEADER"
                       \/ x.src \notin DOMAIN m.nodes
                       \/ x.term < m.current_term -> [me |-> m, out |-> {}]
                    [] m.state = "LEADER" /\ m.current_term < x.term ->
                         [me |-> StepDown(m, x.term), out |-> {}]
                    [] OTHER -> IF x.success THEN RecvSuccess(s, m, x)
                                ELSE RecvFailure(s, m, x)
<1>3. srv' = [srv EXCEPT ![s] = res.me] /\ Exchange(SetToBag({x}), res.out)
  BY <1>0 DEF raft_recv_appendentries_response
<1>4. CASE m.state # "LEADER" \/ x.src \notin DOMAIN m.nodes \/ x.term < m.current_term
  <2>1. res = [me |-> m, out |-> {}]
    <3>1. ~(m.state = "LEADER" /\ m.current_term < x.term)
      BY <1>0, <1>2, <1>4
    <3> HIDE DEF m
    <3> QED
      BY <1>4, <3>1
  <2>2. res.me = m /\ res.out = {}
    BY <2>1
  <2> HIDE DEF res
  <2> QED
    BY <1>0, <1>3, <2>2
<1>5. CASE ~(m.state # "LEADER" \/ x.src \notin DOMAIN m.nodes \/ x.term < m.current_term)
  <2> HIDE DEF m
  <2>1. CASE m.current_term < x.term
    <3>1. res = [me |-> StepDown(m, x.term), out |-> {}]
      BY <1>5, <2>1
    <3>2. res.me = StepDown(m, x.term) /\ res.out = {}
      BY <3>1
    <3> HIDE DEF res
    <3> QED
      BY <1>0, <1>3, <2>1, <3>2 DEF m
  <2>2. CASE ~(m.current_term < x.term)
    <3>1. res = IF x.success THEN RecvSuccess(s, m, x) ELSE RecvFailure(s, m, x)
      BY <1>5, <2>2
    <3>2. x.term = m.current_term /\ m.state = "LEADER"
      BY <1>2, <1>5, <2>2
    <3> HIDE DEF res
    <3> QED
      BY <1>0, <1>3, <3>1, <3>2 DEF m
  <2> QED
    BY <2>1, <2>2
<1> QED
  BY <1>4, <1>5

LEMMA EntriesResponseProceeds ==
  ASSUME ServerAssumption, BoundAssumption, ElectionInv, NEW h, History(h),
         NEW x \in AerMsg, x \in Msgs, x.src # x.dst, raft_recv_appendentries_response(x)
  PROVE  Proceeds(h, x.dst)
<1>0. PICK s \in InitialMembers, p \in InitialMembers, i \in Nat :
        s = x.dst /\ p = x.src /\ p # s /\ i = x.current_idx
  BY DEF AerMsg
<1> DEFINE m == srv[s]
           u == m.current_term
<1>1. /\ m \in FixedServer(s) /\ RingOK(m) /\ Explains(h, srv, Msgs) /\ ServerOK(h, s, m)
      /\ u \in Nat /\ m.log \in Seq(NormalEntry) /\ Len(m.log) \in Nat
      /\ HistoryOK(h) /\ m.commit_idx \in Nat
  BY MemberFacts DEF History, Explains
<1>2. x.term \in 0..MaxTerm
  BY DEF AerMsg
<1>3. m.nodes[p] \in MemberNode(s) /\ DOMAIN m.nodes = InitialMembers /\ m.base = 0
  BY <1>1, FixedFacts
<1>4. m.nodes[p].match_idx \in Nat /\ m.nodes[p].next_idx \in Nat \ {0} /\ m.nodes[p].voting
  BY <1>3 DEF MemberNode, MembersVoting
<1>5. PICK r, out :
        /\ srv' = [srv EXCEPT ![s] = r] /\ Exchange(SetToBag({x}), out)
        /\ \/ r = m /\ out = {}
           \/ /\ u < x.term
              /\ r = StepDown(m, x.term) /\ out = {}
           \/ /\ m.state = "LEADER" /\ x.term = u
              /\ \/ /\ x.success
                    /\ r = RecvSuccess(s, m, x).me /\ out = RecvSuccess(s, m, x).out
                 \/ r = RecvFailure(s, m, x).me /\ out = RecvFailure(s, m, x).out
  BY <1>0, ResponseIs
<1>6. CASE r = m /\ out = {}
  BY <1>0, <1>5, <1>6, IgnoreProceeds
<1>7. CASE u < x.term /\ r = StepDown(m, x.term) /\ out = {}
  BY <1>0, <1>2, <1>5, <1>7, StepDownProceeds
\* The record changes in its books only.
<1>8. ASSUME m.state = "LEADER", Books(s, m, r), LeaderOK(h, s, r), m.commit_idx <= r.commit_idx,
             CommitOK(h, r.current_term, r.log, r.commit_idx),
             out \subseteq raft_send_appendentries(s, r, p)
      PROVE  Proceeds(h, s)
  <2>1. ServerOK(h, s, r) /\ SendsFrom(h, s, r) /\ NoVote(m, r)
    BY <1>1, <1>8, BooksOK
  <2>2. p \in InitialMembers \ {s}
    BY <1>0
  <2>3. \A y \in out : MessageOK(h, srv', y)
    BY <1>1, <1>8, <2>1, <2>2, SendsOK
  <2>4. VoteOK(srv, srv', s, r)
    BY <1>1, <2>1, NoVoteOK
  <2>5. r.log = srv[s].log
    BY <1>8 DEF Books
  <2>51. Forward(m, r)
    <3>1. r.fsm = m.fsm /\ Len(m.fsm) \in Nat
      BY <1>1, <1>8 DEF Books, FixedServer
    <3> QED
      BY <1>8, <3>1 DEF Forward
  <2>6. StepOK(h, h, srv, srv', s, r, out)
    BY <1>1, <2>1, <2>3, <2>4, <2>5, <2>51, SameHistoryOK
  <2> QED
    BY <1>5, <2>6 DEF Proceeds
<1>9. CASE /\ m.state = "LEADER" /\ x.term = u /\ x.success
           /\ r = RecvSuccess(s, m, x).me /\ out = RecvSuccess(s, m, x).out
  <2>1. LeaderOK(h, s, m) /\ CommitOK(h, u, m.log, m.commit_idx)
    BY <1>1, <1>9 DEF ServerOK
  <2>2. u \in Terms(h) /\ i <= h.ack[u][p]
    BY <1>0, <1>1, <1>9 DEF Explains, MessageOK, raft_recv_appendentries_response
  <2>3. h.ack[u][p] \in Nat /\ h.ack[u][p] <= Len(m.log)
    BY <1>1, <2>1, <2>2, HistoryFacts DEF HistoryOK, LeaderOK
  <2>4. NotifySufficient(m, x) = m
    BY <1>0, <1>4 DEF NotifySufficient
  <2>5. PICK n1 : n1 = [m.nodes[p] EXCEPT !.match_idx = i]
    OBVIOUS
  <2>6. n1 \in MemberNode(s) /\ n1.match_idx = i
    BY <1>3, <2>5 DEF MemberNode
  <2>7. PICK n : n = raft_node_set_next_idx(n1, i + 1)
    OBVIOUS
  <2>8. n \in MemberNode(s) /\ n.match_idx = i /\ n.next_idx = i + 1
    <3>1. ~(i + 1 < 1) /\ i + 1 \in Nat \ {0}
      BY <1>0
    <3> QED
      BY <2>6, <2>7, <3>1 DEF raft_node_set_next_idx, MemberNode
  <2>9. n.next_idx <= Len(m.log) + 1 /\ n.match_idx <= h.ack[u][p]
    BY <1>0, <1>1, <2>2, <2>3, <2>8
  <2>10. PICK m2 : m2 = WithNode(m, p, n)
    OBVIOUS
  <2>11. p \in InitialMembers \ {s}
    BY <1>0
  <2>12. Books(s, m, m2) /\ LeaderOK(h, s, m2) /\ m2.commit_idx = m.commit_idx
    <3> HIDE DEF m
    <3> QED
      BY <1>1, <2>1, <2>8, <2>9, <2>10, <2>11, NodeBooks
  <2>13. /\ m2 \in FixedServer(s) /\ RingOK(m2)
         /\ CommitOK(h, m2.current_term, m2.log, m2.commit_idx)
    BY <2>1, <2>12 DEF Books
  <2>14. PICK m3 : m3 = Commit(s, m2, i)
    OBVIOUS
  <2>15. /\ Books(s, m2, m3) /\ LeaderOK(h, s, m3) /\ m2.commit_idx <= m3.commit_idx
         /\ CommitOK(h, m3.current_term, m3.log, m3.commit_idx)
    BY <1>1, <2>12, <2>13, <2>14, CommitBooks
  <2>16. Books(s, m, m3) /\ m.commit_idx <= m3.commit_idx
    BY <2>12, <2>15 DEF Books
  <2>17. \/ r = m /\ out = {}
         \/ r = m3 /\ out \subseteq raft_send_appendentries(s, m3, p)
    BY <1>0, <1>9, <2>4, <2>5, <2>7, <2>10, <2>14 DEF RecvSuccess, WithNode
  <2> QED
    BY <1>0, <1>6, <1>8, <1>9, <2>15, <2>16, <2>17
<1>10. CASE /\ m.state = "LEADER" /\ x.term = u
            /\ r = RecvFailure(s, m, x).me /\ out = RecvFailure(s, m, x).out
  <2>1. LeaderOK(h, s, m) /\ CommitOK(h, u, m.log, m.commit_idx)
    BY <1>1, <1>10 DEF ServerOK
  <2>2. PICK next : next = m.nodes[p].next_idx
    OBVIOUS
  <2>3. PICK back : back = IF i < next - 1 THEN min(i + 1, log_get_current_idx(m)) ELSE next - 1
    OBVIOUS
  <2>4. next \in Nat \ {0} /\ next <= Len(m.log) + 1 /\ m.nodes[p].match_idx <= h.ack[u][p]
    BY <1>0, <1>4, <2>1, <2>2 DEF LeaderOK
  <2>5. back \in Int /\ back <= Len(m.log) + 1
    <3>1. log_get_current_idx(m) = Len(m.log)
      BY <1>1, <1>3 DEF log_get_current_idx
    <3> QED
      BY <1>0, <1>1, <2>3, <2>4, <3>1 DEF min
  <2>6. PICK n : n = raft_node_set_next_idx(m.nodes[p], back)
    OBVIOUS
  <2>7. n \in MemberNode(s) /\ n.match_idx = m.nodes[p].match_idx /\ n.next_idx <= Len(m.log) + 1
    <3>1. PICK b \in Nat \ {0} : b = (IF back < 1 THEN 1 ELSE back) /\ b <= Len(m.log) + 1
      BY <1>1, <2>5
    <3> QED
      BY <1>3, <2>6, <3>1 DEF raft_node_set_next_idx, MemberNode
  <2>8. PICK m1 : m1 = WithNode(m, p, n)
    OBVIOUS
  <2>9. p \in InitialMembers \ {s} /\ n.match_idx <= h.ack[u][p]
    BY <1>0, <2>4, <2>7
  <2>10. Books(s, m, m1) /\ LeaderOK(h, s, m1) /\ m1.commit_idx = m.commit_idx
    <3> HIDE DEF m
    <3> QED
      BY <1>1, <2>1, <2>7, <2>8, <2>9, NodeBooks
  <2>11. CommitOK(h, m1.current_term, m1.log, m1.commit_idx) /\ m.commit_idx <= m1.commit_idx
    BY <1>1, <2>1, <2>10 DEF Books
  <2>12. \/ r = m /\ out = {}
         \/ r = m1 /\ out = raft_send_appendentries(s, m1, p)
    <3>1. m1 = [m EXCEPT !.nodes[p] = raft_node_set_next_idx(@, back)]
      BY <2>6, <2>8 DEF WithNode
    <3> QED
      BY <1>0, <1>10, <2>2, <2>3, <3>1 DEF RecvFailure
  <2> QED
    BY <1>0, <1>6, <1>8, <1>10, <2>10, <2>11, <2>12
<1> QED
  BY <1>5, <1>6, <1>7, <1>9, <1>10
-----------------------------------------------------------------------------
(* A leader adds an entry; a follower confirms entries.                    *)

\* The history after the leader of u has log, and s has confirmed n entries of it
RaisedHistory(h, u, s, log, n) ==
  [log   |-> [v \in Terms(h) |-> IF v = u THEN log ELSE h.log[v]],
   start |-> h.start,
   who   |-> h.who,
   ack   |-> [v \in Terms(h) |->
                [q \in InitialMembers |-> IF v = u /\ q = s THEN n ELSE h.ack[v][q]]]]

\* k is h, but for the log of u and what s has confirmed of it.
Raised(h, k, u, s, log, n) ==
  /\ Terms(k) = Terms(h) /\ HistoryOK(k) /\ Later(h, k) /\ HistoryType(k)
  /\ k.log[u] = log /\ k.ack[u][s] = n
  /\ k.start = h.start /\ k.who = h.who
  /\ \A v \in Terms(h) : /\ v # u => k.log[v] = h.log[v]
                         /\ \A q \in InitialMembers :
                              ~(v = u /\ q = s) => k.ack[v][q] = h.ack[v][q]

LEMMA RaisedIs ==
  ASSUME BoundAssumption, NEW h, HistoryOK(h), NEW u \in Terms(h), NEW s \in InitialMembers,
         NEW log \in Seq(NormalEntry), Holds(log, h.log[u], Len(h.log[u])),
         \A i \in 1..Len(log) : Len(h.log[u]) < i => log[i].term = u,
         NEW n \in Nat, h.ack[u][s] <= n, n <= Len(log)
  PROVE  Raised(h, RaisedHistory(h, u, s, log, n), u, s, log, n)
<1>0. HistoryType(h) /\ Len(log) \in Nat /\ u \in Nat
  BY HistoryFacts DEF HistoryOK
<1>1. PICK k : k = RaisedHistory(h, u, s, log, n)
  OBVIOUS
<1>2. /\ k.log = [v \in Terms(h) |-> IF v = u THEN log ELSE h.log[v]]
      /\ k.start = h.start /\ k.who = h.who
      /\ k.ack = [v \in Terms(h) |->
                    [q \in InitialMembers |-> IF v = u /\ q = s THEN n ELSE h.ack[v][q]]]
  BY <1>1 DEF RaisedHistory
<1>3. Terms(k) = Terms(h)
  BY <1>2 DEF Terms
<1>4. /\ k.log[u] = log /\ k.ack[u][s] = n
      /\ \A v \in Terms(h) : /\ v # u => k.log[v] = h.log[v]
                             /\ \A q \in InitialMembers :
                                  ~(v = u /\ q = s) => k.ack[v][q] = h.ack[v][q]
  BY <1>2
<1>5. HistoryType(k)
  <2>1. /\ h.log \in [Terms(h) -> Seq(NormalEntry)]
        /\ \A v \in Terms(h), q \in InitialMembers : h.ack[v][q] \in Nat
    BY <1>0, HistoryFacts DEF HistoryType
  <2>2. k.log \in [Terms(k) -> Seq(NormalEntry)]
    BY <1>2, <1>3, <2>1
  <2>3. k.ack \in [Terms(k) -> [InitialMembers -> Nat]]
    <3>1. ASSUME NEW v \in Terms(h)
          PROVE  [q \in InitialMembers |-> IF v = u /\ q = s THEN n ELSE h.ack[v][q]]
                   \in [InitialMembers -> Nat]
      BY <2>1
    <3> QED
      BY <1>2, <1>3, <3>1
  <2> QED
    BY <1>0, <1>2, <1>3, <2>2, <2>3 DEF HistoryType
<1>6. Later(h, k)
  <2> SUFFICES ASSUME NEW v \in Terms(h)
               PROVE  /\ Holds(k.log[v], h.log[v], Len(h.log[v]))
                      /\ \A q \in InitialMembers : h.ack[v][q] <= k.ack[v][q]
    BY <1>2, <1>3 DEF Later
  <2>1. h.log[v] \in Seq(NormalEntry) /\ Len(h.log[v]) \in Nat /\ \A q \in InitialMembers : h.ack[v][q] \in Nat
    BY <1>0, HistoryFacts
  <2>2. Holds(h.log[v], h.log[v], Len(h.log[v]))
    BY <2>1, HoldsSelf
  <2>3. ASSUME NEW q \in InitialMembers PROVE h.ack[v][q] <= k.ack[v][q]
    BY <1>4, <2>1
  <2> QED
    BY <1>4, <2>2, <2>3
<1>7. PICK b \in Seq(NormalEntry) : b = h.log[u]
  BY <1>0, HistoryFacts
<1>8. /\ Len(b) \in Nat /\ Len(b) <= Len(log) /\ Holds(log, b, Len(b)) /\ Coherent(h, b)
      /\ Within(b, u) /\ h.start[u] \in Nat /\ h.start[u] <= Len(b)
      /\ \A i \in 1..Len(b) : h.start[u] < i <=> b[i].term = u
  BY <1>0, <1>7, HistoryFacts DEF Holds, HistoryOK
<1>9. Coherent(k, b)
  BY <1>0, <1>5, <1>6, <1>8, CoherentLater
<1>10. Coherent(k, log)
  <2> SUFFICES ASSUME NEW i \in 1..Len(log)
               PROVE  log[i].term \in Terms(k) /\ Holds(k.log[log[i].term], log, i)
    BY DEF Coherent
  <2>1. CASE i <= Len(b)
    <3>1. i \in 1..Len(b) /\ log[i] = b[i] /\ i \in Nat
      BY <1>8, <2>1 DEF Holds
    <3>2. b[i].term \in Terms(k) /\ Holds(k.log[b[i].term], b, i)
      BY <1>9, <3>1 DEF Coherent
    <3>3. PICK c \in Seq(NormalEntry) : c = k.log[b[i].term]
      BY <1>5, <3>2, HistoryFacts
    <3>4. Holds(b, log, i)
      BY <1>8, <2>1, <3>1, HoldsLess
    <3>5. i <= i
      OBVIOUS
    <3>6. Holds(c, log, i)
      BY <3>1, <3>2, <3>3, <3>4, <3>5, HoldsTrans
    <3> QED
      BY <3>1, <3>2, <3>3, <3>6
  <2>2. CASE Len(b) < i
    <3>1. log[i].term = u
      BY <1>7, <2>2
    <3>2. Holds(log, log, i)
      BY <1>0, HoldsSelf
    <3> QED
      BY <1>3, <1>4, <3>1, <3>2
  <2> QED
    BY <1>8, <2>1, <2>2
<1>11. ASSUME NEW i \in 1..Len(log)
       PROVE  log[i].term <= u /\ (h.start[u] < i <=> log[i].term = u)
  <2>1. CASE i <= Len(b)
    <3>1. i \in 1..Len(b) /\ log[i] = b[i]
      BY <1>8, <2>1 DEF Holds
    <3> QED
      BY <1>8, <3>1 DEF Within
  <2>2. CASE Len(b) < i
    <3>1. log[i].term = u
      BY <1>7, <2>2
    <3> QED
      BY <1>0, <1>8, <2>2, <3>1
  <2> QED
    BY <1>8, <2>1, <2>2
<1>12. ASSUME NEW v \in Terms(k)
       PROVE  /\ Coherent(k, k.log[v]) /\ Within(k.log[v], v) /\ k.start[v] <= Len(k.log[v])
              /\ \A i \in 1..Len(k.log[v]) : k.start[v] < i <=> k.log[v][i].term = v
              /\ \A q \in InitialMembers : k.ack[v][q] <= Len(k.log[v])
  <2>1. CASE v = u
    <3>1. Within(log, u) /\ h.start[u] <= Len(log)
      BY <1>0, <1>8, <1>11 DEF Within
    <3>2. ASSUME NEW q \in InitialMembers PROVE k.ack[u][q] <= Len(log)
      <4>1. h.ack[u][q] \in Nat /\ h.ack[u][q] <= Len(b)
        BY <1>0, <1>7, HistoryFacts DEF HistoryOK
      <4>2. Len(b) \in Nat /\ Len(log) \in Nat
        BY <1>0, <1>8
      <4> QED
        BY <1>0, <1>4, <1>8, <4>1, <4>2, SMTT(30)
    <3> QED
      BY <1>2, <1>4, <1>10, <1>11, <2>1, <3>1, <3>2
  <2>2. CASE v # u
    <3>1. v \in Terms(h) /\ k.log[v] = h.log[v] /\ \A q \in InitialMembers : k.ack[v][q] = h.ack[v][q]
      BY <1>3, <1>4, <2>2
    <3>2. PICK c \in Seq(NormalEntry) : c = h.log[v]
      BY <1>0, <3>1, HistoryFacts
    <3>3. Coherent(h, c)
      BY <3>1, <3>2 DEF HistoryOK
    <3>4. Coherent(k, c)
      BY <1>0, <1>5, <1>6, <3>3, CoherentLater
    <3> QED
      BY <1>2, <3>1, <3>2, <3>4 DEF HistoryOK
  <2> QED
    BY <2>1, <2>2
<1>13. HistoryOK(k)
  BY <1>5, <1>12 DEF HistoryOK
<1>14. Raised(h, k, u, s, log, n)
  BY <1>2, <1>3, <1>4, <1>5, <1>6, <1>13 DEF Raised
<1> QED
  BY <1>1, <1>14

LEMMA RaisedGrows ==
  ASSUME NEW h, NEW k, NEW u \in Terms(h), NEW s \in InitialMembers, NEW log, NEW n,
         Raised(h, k, u, s, log, n), NEW m, NEW r, r.current_term = u, m.current_term <= u,
         log # h.log[u] => h.who[u] = s, NEW S
  PROVE  Grows(h, k, s, m, r) /\ NewLeaderOK(h, k, S)
<1>1. Terms(k) = Terms(h) /\ Later(h, k)
  BY DEF Raised
<1>2. ASSUME NEW v \in Terms(h)
      PROVE  /\ k.log[v] # h.log[v] => h.who[v] = s
             /\ \A q \in InitialMembers : k.ack[v][q] # h.ack[v][q] => q = s /\ u = v
  BY DEF Raised
<1>3. Grows(h, k, s, m, r)
  BY <1>1, <1>2 DEF Grows
<1> QED
  BY <1>1, <1>3 DEF NewLeaderOK
\* What s has, it has in a longer log too.
LEMMA KeepsLonger ==
  ASSUME BoundAssumption, NEW h, NEW S, ServersHave(h, S), HistoryOK(h), NEW s \in InitialMembers,
         NEW a \in Seq(NormalEntry), a = S[s].log, NEW r, r.log \in Seq(NormalEntry),
         Holds(r.log, a, Len(a))
  PROVE  KeepsHeld(h, S, s, r)
<1> SUFFICES ASSUME NEW v \in Terms(h), NEW n \in Nat, h.start[v] < n, n <= h.ack[v][s],
                    Choosable(h, S, v, n)
             PROVE  Holds(r.log, h.log[v], n)
  BY DEF KeepsHeld
<1>1. Holds(a, h.log[v], n)
  BY DEF ServersHave
<1>2. PICK b \in Seq(NormalEntry), c \in Seq(NormalEntry) : b = h.log[v] /\ c = r.log
  BY HistoryFacts DEF HistoryOK
<1>3. n <= Len(a) /\ Len(a) \in Nat
  BY <1>1 DEF Holds
<1>4. Holds(c, b, n)
  BY <1>1, <1>2, <1>3, HoldsTrans
<1> QED
  BY <1>2, <1>4

LEMMA AppendHolds ==
  ASSUME NEW a \in Seq(NormalEntry), NEW e \in NormalEntry
  PROVE  /\ Append(a, e) \in Seq(NormalEntry) /\ Len(Append(a, e)) = Len(a) + 1
         /\ Holds(Append(a, e), a, Len(a)) /\ Append(a, e)[Len(a) + 1] = e
<1>1. /\ Append(a, e) \in Seq(NormalEntry) /\ Len(Append(a, e)) = Len(a) + 1 /\ Len(a) \in Nat
      /\ \A i \in 1..Len(a) : Append(a, e)[i] = a[i]
      /\ Append(a, e)[Len(a) + 1] = e
  BY AppendProperties
<1> QED
  BY <1>1 DEF Holds

\* The leader m of the last term of h, and m1 with one entry more
LEMMA AppendServerOK ==
  ASSUME ServerAssumption, BoundAssumption, NEW h, NEW k, HistoryOK(h), NEW s \in InitialMembers,
         NEW m \in FixedServer(s), ServerOK(h, s, m), m.state = "LEADER",
         NEW e \in NormalEntry, e.term = m.current_term,
         NEW log \in Seq(NormalEntry), log = Append(m.log, e),
         Raised(h, k, m.current_term, s, log, Len(log)),
         NEW m1 \in FixedServer(s), m1.log = log, m1.front = 0, m1.state = m.state,
         m1.current_term = m.current_term, m1.nodes = m.nodes, m1.commit_idx = m.commit_idx,
         m1.last_applied_idx = m.last_applied_idx, m1.fsm = m.fsm,
         m1.current_leader = m.current_leader
  PROVE  ServerOK(k, s, m1)
<1> DEFINE u == m.current_term
<1>1. PICK a \in Seq(NormalEntry) : a = m.log
  BY FixedFacts
<1>2. /\ u \in Nat /\ m.commit_idx \in Nat /\ Len(a) \in Nat /\ m.fsm \in Seq(NormalEntry)
      /\ Len(m.fsm) \in Nat /\ m.nodes \in [InitialMembers -> MemberNode(s)]
  <2>1. m.commit_idx \in Nat /\ m.fsm \in Seq(NormalEntry) /\ Len(m.fsm) \in Nat
    BY DEF FixedServer
  <2> QED
    BY <1>1, <2>1, FixedFacts
<1>3. /\ Len(log) = Len(a) + 1 /\ Holds(log, a, Len(a)) /\ log[Len(a) + 1] = e
  BY <1>1, AppendHolds
<1>4. /\ Terms(k) = Terms(h) /\ HistoryOK(k) /\ Later(h, k) /\ HistoryType(k)
      /\ k.log[u] = log /\ k.ack[u][s] = Len(log) /\ k.who = h.who
      /\ \A v \in Terms(h) : /\ v # u => k.log[v] = h.log[v]
                             /\ \A q \in InitialMembers :
                                  ~(v = u /\ q = s) => k.ack[v][q] = h.ack[v][q]
  BY DEF Raised
<1>5. HistoryType(h) /\ LeaderOK(h, s, m) /\ u \in Terms(h)
  BY DEF HistoryOK, ServerOK, LeaderOK
<1>6. Coherent(k, log) /\ Within(log, u)
  <2>1. PICK w \in Terms(k) : w = u /\ k.log[w] = log
    BY <1>4, <1>5
  <2>2. Coherent(k, k.log[w]) /\ Within(k.log[w], w)
    BY <1>4, <2>1 DEF HistoryOK
  <2> QED
    BY <2>1, <2>2
<1>7. LeaderOK(k, s, m1)
  <2>1. \A p \in InitialMembers \ {s} : /\ m.nodes[p].next_idx <= Len(log) + 1
                                        /\ m.nodes[p].match_idx <= k.ack[u][p]
    <3> SUFFICES ASSUME NEW p \in InitialMembers \ {s}
                 PROVE  /\ m.nodes[p].next_idx <= Len(log) + 1
                        /\ m.nodes[p].match_idx <= k.ack[u][p]
      OBVIOUS
    <3>1. m.nodes[p].next_idx <= Len(a) + 1 /\ m.nodes[p].match_idx <= h.ack[u][p]
      BY <1>1, <1>5 DEF LeaderOK
    <3>2. m.nodes[p].next_idx \in Nat /\ k.ack[u][p] = h.ack[u][p]
      BY <1>2, <1>4, <1>5 DEF MemberNode
    <3> QED
      BY <1>2, <1>3, <3>1, <3>2
  <2> QED
    BY <1>4, <1>5, <2>1 DEF LeaderOK
<1>8. PastOK(k, s, m1)
  <2> SUFFICES ASSUME NEW v \in Terms(h)
               PROVE  /\ u < v => k.ack[v][s] = 0
                      /\ u = v => Holds(log, k.log[v], k.ack[v][s])
                      /\ k.who[v] = s => v <= u
    BY <1>4 DEF PastOK
  <2>1. CASE v = u
    <3>1. PICK n \in Nat : n = Len(log)
      BY <1>2, <1>3
    <3>2. Holds(log, log, n)
      <4>1. n <= Len(log)
        BY <3>1
      <4> QED
        BY <4>1, HoldsSelf
    <3>3. k.log[v] = log /\ k.ack[v][s] = n
      BY <1>4, <2>1, <3>1
    <3>4. Holds(log, k.log[v], k.ack[v][s])
      BY <3>2, <3>3
    <3>5. ~(u < v) /\ v <= u
      BY <1>2, <2>1
    <3> QED
      BY <3>4, <3>5
  <2>2. CASE v # u
    BY <1>4, <2>2 DEF ServerOK, PastOK
  <2> QED
    BY <2>1, <2>2
<1>9. m.commit_idx <= Len(a) /\ CommitOK(h, u, a, m.commit_idx)
  BY <1>1, <1>2, CommitInLog DEF ServerOK
<1>10. CommitOK(k, u, log, m.commit_idx)
  <2>1. PICK c \in Nat, w \in Nat : c = m.commit_idx /\ w = u
    BY <1>2
  <2>2. Holds(log, a, c)
    BY <1>2, <1>3, <1>9, <2>1, HoldsLess
  <2>3. CommitOK(h, w, a, c) /\ w <= w
    BY <1>9, <2>1
  <2>4. CommitOK(k, w, log, c)
    BY <1>4, <1>5, <2>2, <2>3, CommitLater
  <2> QED
    BY <2>1, <2>4
<1>11. FsmOK(m1)
  <2>1. Len(m.fsm) <= Len(a) /\ Holds(m.fsm, a, Len(m.fsm))
    BY <1>1, <1>2 DEF ServerOK, FsmOK, Holds
  <2>2. Holds(a, log, Len(m.fsm))
    BY <1>2, <1>3, <2>1, HoldsLess
  <2>3. Len(m.fsm) <= Len(m.fsm)
    BY <1>2
  <2>4. PICK f \in Seq(NormalEntry), n \in Nat : f = m.fsm /\ n = Len(m.fsm)
    BY <1>2
  <2>6. Holds(f, a, n) /\ Holds(a, log, n) /\ n <= n
    BY <2>1, <2>2, <2>4
  <2>5. Holds(f, log, n)
    BY ONLY <1>2, <2>4, <2>6, HoldsTrans, a \in Seq(NormalEntry), log \in Seq(NormalEntry)
  <2> QED
    BY <2>4, <2>5 DEF ServerOK, FsmOK
<1> QED
  BY <1>6, <1>7, <1>8, <1>10, <1>11 DEF ServerOK

LEMMA ReceiveEntryIs ==
  ASSUME ServerAssumption, BoundAssumption, FixedMembers, ElectionInv, NEW s \in InitialMembers,
         NEW type \in EntryTypes, NEW p \in Server \cup {NoNode}, raft_recv_entry(s, type, p)
  PROVE  LET m == srv[s] IN
         \E e, m1, r, ps :
           /\ e \in NormalEntry /\ m1 \in FixedServer(s)
           /\ m.state = "LEADER" /\ e.term = m.current_term /\ e.id = entries + 1
           /\ RingOK(m1) /\ m1.log = Append(m.log, e) /\ (m1.front = 0 \/ m1.front = m.front)
           /\ m1.state = m.state /\ m1.current_term = m.current_term
           /\ m1.voted_for = m.voted_for /\ m1.nodes = m.nodes
           /\ m1.commit_idx = m.commit_idx /\ m1.last_applied_idx = m.last_applied_idx
           /\ m1.fsm = m.fsm /\ m1.current_leader = m.current_leader
           /\ ps \in SUBSET (InitialMembers \ {s})
           /\ \/ r = m1
              \/ InitialMembers = {s} /\ r = [m1 EXCEPT !.commit_idx = Len(m1.log)]
           /\ srv' = [srv EXCEPT ![s] = r] /\ Exchange(EmptyBag, SendTo(s, m1, ps))
<1> DEFINE m == srv[s]
<1>0. PICK e : e = [term |-> m.current_term, type |-> type, node |-> p, id |-> entries + 1]
  OBVIOUS
<1>1. m \in FixedServer(s) /\ RingOK(m) /\ entries \in Nat
  BY FixedFacts DEF ElectionInv, FixedTypes
<1>2. type = "NORMAL" /\ p = NoNode /\ m.state = "LEADER"
  BY DEF FixedMembers, raft_recv_entry, MaySubmit
<1>3. e \in NormalEntry /\ e.term = m.current_term /\ e.type = "NORMAL" /\ e.id = entries + 1
  <2>1. m.current_term \in 0..MaxTerm
    BY <1>1, FixedFacts
  <2> QED
    BY <1>0, <1>1, <1>2, <2>1 DEF NormalEntry
<1>4. PICK m1 : m1 = raft_append_entry(s, m, e)
  OBVIOUS
<1> DEFINE cur == log_get_current_idx(m1)
           ready == {q \in VotingNodes(m1) \ {s} : m1.nodes[q].next_idx = cur}
<1>5. PICK r : r = IF Cardinality(VotingNodes(m1)) = 1 THEN [m1 EXCEPT !.commit_idx = cur] ELSE m1
  OBVIOUS
<1>6. srv' = [srv EXCEPT ![s] = r] /\ Exchange(EmptyBag, SendTo(s, m1, ready))
  <2>1. PICK out : out = SendTo(s, m1, ready)
    OBVIOUS
  <2>2. ReceiveEntry(s, m, e) = [me |-> r, out |-> out]
    BY <1>3, <1>4, <1>5, <2>1 DEF ReceiveEntry, raft_entry_is_voting_cfg_change
  <2>3. /\ srv' = [srv EXCEPT ![s] = ReceiveEntry(s, m, e).me]
        /\ Exchange(EmptyBag, ReceiveEntry(s, m, e).out)
    BY <1>0 DEF raft_recv_entry
  <2>4. ReceiveEntry(s, m, e).me = r /\ ReceiveEntry(s, m, e).out = out
    BY <2>2
  <2> QED
    BY <2>1, <2>3, <2>4
<1>7. PICK size, front : /\ Ring(Append(m.log, e), size, front)
                         /\ m1 = WithLog(m, Append(m.log, e), size, front)
                         /\ front = 0 \/ front = m.front
  BY <1>1, <1>3, <1>4, AppendEntry
<1>8. PICK log : log = Append(m.log, e)
  OBVIOUS
<1>9. /\ m1 \in FixedServer(s) /\ RingOK(m1) /\ m1.log = log /\ (m1.front = 0 \/ m1.front = m.front)
  <2> HIDE DEF m
  <2>1. Ring(log, size, front) /\ m1 = WithLog(m, log, size, front)
    BY <1>7, <1>8
  <2> QED
    BY <1>1, <1>7, <2>1, WithLogType
<1>10. /\ m1.state = m.state /\ m1.current_term = m.current_term
       /\ m1.voted_for = m.voted_for /\ m1.nodes = m.nodes
       /\ m1.commit_idx = m.commit_idx /\ m1.last_applied_idx = m.last_applied_idx
       /\ m1.fsm = m.fsm /\ m1.current_leader = m.current_leader
  BY <1>1, <1>7 DEF WithLog, FixedServer
<1>11. VotingNodes(m1) = InitialMembers /\ cur = Len(m1.log)
  <2>1. m1.base = 0 /\ Len(m1.log) \in Nat
    BY <1>9, FixedFacts
  <2> QED
    BY <1>9, <2>1, MembersVote DEF log_get_current_idx
<1>12. PICK ps \in SUBSET (InitialMembers \ {s}) : ps = ready
  BY <1>11
<1>13. r = m1 \/ (InitialMembers = {s} /\ r = [m1 EXCEPT !.commit_idx = Len(m1.log)])
  <2>1. CASE Cardinality(InitialMembers) = 1
    <3>1. IsFiniteSet(InitialMembers)
      BY MembersFinite
    <3>2. PICK q : InitialMembers = {q}
      BY <2>1, <3>1, FS_Singleton
    <3>3. InitialMembers = {s}
      BY <3>2
    <3> QED
      BY <1>5, <1>11, <2>1, <3>3
  <2>2. CASE Cardinality(InitialMembers) # 1
    BY <1>5, <1>11, <2>2
  <2> QED
    BY <2>1, <2>2
<1>14. Exchange(EmptyBag, SendTo(s, m1, ps))
  BY <1>6, <1>12
<1> HIDE DEF m
<1>15. m1.log = Append(m.log, e)
  BY <1>8, <1>9
<1> QED
  BY <1>2, <1>3, <1>6, <1>9, <1>10, <1>13, <1>14, <1>15 DEF m

LEMMA ReceiveEntryProceeds ==
  ASSUME ServerAssumption, BoundAssumption, FixedMembers, ElectionInv, NEW h, History(h),
         NEW s \in InitialMembers, NEW type \in EntryTypes, NEW p \in Server \cup {NoNode},
         raft_recv_entry(s, type, p)
  PROVE  Proceeds(h, s)
<1> DEFINE m == srv[s]
           u == m.current_term
<1>1. /\ m \in FixedServer(s) /\ RingOK(m) /\ Explains(h, srv, Msgs) /\ ServerOK(h, s, m)
      /\ u \in Nat /\ HistoryOK(h) /\ m.commit_idx \in Nat /\ ServersHave(h, srv)
  BY MemberFacts DEF History, Explains
<1>2. PICK e, m1, r, ps :
           /\ e \in NormalEntry /\ m1 \in FixedServer(s)
           /\ m.state = "LEADER" /\ e.term = m.current_term /\ e.id = entries + 1
           /\ RingOK(m1) /\ m1.log = Append(m.log, e) /\ (m1.front = 0 \/ m1.front = m.front)
           /\ m1.state = m.state /\ m1.current_term = m.current_term
           /\ m1.voted_for = m.voted_for /\ m1.nodes = m.nodes
           /\ m1.commit_idx = m.commit_idx /\ m1.last_applied_idx = m.last_applied_idx
           /\ m1.fsm = m.fsm /\ m1.current_leader = m.current_leader
           /\ ps \in SUBSET (InitialMembers \ {s})
           /\ \/ r = m1
              \/ InitialMembers = {s} /\ r = [m1 EXCEPT !.commit_idx = Len(m1.log)]
           /\ srv' = [srv EXCEPT ![s] = r] /\ Exchange(EmptyBag, SendTo(s, m1, ps))
  BY ReceiveEntryIs
<1>3. PICK a, log : a \in Seq(NormalEntry) /\ a = m.log /\ log = Append(a, e)
  BY <1>1, FixedFacts
<1>4. /\ log \in Seq(NormalEntry) /\ Len(log) = Len(a) + 1 /\ Holds(log, a, Len(a))
      /\ log[Len(a) + 1] = e /\ Len(a) \in Nat /\ m1.log = log
  BY <1>2, <1>3, AppendHolds
<1>5. /\ u \in Terms(h) /\ h.log[u] = a /\ h.ack[u][s] = Len(a) /\ h.who[u] = s /\ m1.front = 0
      /\ LeaderOK(h, s, m)
  BY <1>1, <1>2, <1>3 DEF ServerOK, LeaderOK
<1>6. PICK n \in Nat : n = Len(log)
  BY <1>4
<1>7. PICK k : k = RaisedHistory(h, u, s, log, n)
  OBVIOUS
<1>8. Raised(h, k, u, s, log, n)
  <2>1. \A i \in 1..Len(log) : Len(a) < i => log[i].term = u
    <3> SUFFICES ASSUME NEW i \in 1..Len(log), Len(a) < i PROVE log[i].term = u
      OBVIOUS
    <3>1. i = Len(a) + 1
      BY <1>4
    <3> QED
      BY <1>2, <1>4, <3>1
  <2>2. h.ack[u][s] <= n /\ n <= Len(log)
    BY <1>4, <1>5, <1>6
  <2> HIDE DEF u
  <2> QED
    BY <1>1, <1>4, <1>5, <1>6, <1>7, <2>1, <2>2, RaisedIs
<1>9. HistoryOK(k) /\ HistoryType(k) /\ k.log[u] = log /\ k.ack[u][s] = n /\ Terms(k) = Terms(h)
  BY <1>8 DEF Raised
<1>10. ServerOK(k, s, m1)
  <2>1. Raised(h, k, m.current_term, s, log, Len(log))
    BY <1>6, <1>8
  <2>2. log = Append(m.log, e)
    BY <1>3
  <2> HIDE DEF m
  <2> QED
    BY <1>1, <1>2, <1>4, <1>5, <2>1, <2>2, AppendServerOK, ZenonT(60)
<1>11. SendsFrom(k, s, m1)
  BY <1>2, <1>10 DEF SendsFrom, ServerOK
<1>12. PICK out : out = SendTo(s, m1, ps)
  OBVIOUS
<1>13. \A x \in out : MessageOK(k, srv', x)
  BY <1>2, <1>9, <1>11, <1>12, SendToMessages
<1>14. ServerOK(k, s, r) /\ r.log = log /\ r.current_term = u /\ r.voted_for = m.voted_for
       /\ r.state = "LEADER" /\ m.commit_idx <= r.commit_idx /\ r.fsm = m.fsm
  <2>1. CASE r = m1
    BY <1>1, <1>2, <1>4, <1>10, <2>1
  <2>2. CASE InitialMembers = {s} /\ r = [m1 EXCEPT !.commit_idx = Len(m1.log)]
    <3>1. r = [m1 EXCEPT !.commit_idx = n]
      BY <1>4, <1>6, <2>2
    <3>2. /\ r \in FixedServer(s) /\ r.log = m1.log /\ r.front = m1.front /\ r.fsm = m1.fsm
          /\ r.last_applied_idx = m1.last_applied_idx /\ r.state = m1.state
          /\ r.current_term = m1.current_term /\ r.voted_for = m1.voted_for /\ r.size = m1.size
          /\ r.current_leader = m1.current_leader /\ r.nodes = m1.nodes /\ r.commit_idx = n
      BY <1>2, <3>1 DEF FixedServer
    <3>3. Books(s, m1, r)
      BY <1>2, <3>2 DEF Books, RingOK
    <3>4. LeaderOK(k, s, r)
      BY <1>11, <3>2 DEF SendsFrom, LeaderOK
    <3>5. Confirmed(k, u, n)
      <4>1. Cardinality({s}) = 1
        BY FS_Singleton
      <4>2. Majority(InitialMembers) /\ \A q \in InitialMembers : n <= k.ack[u][q]
        BY <1>9, <2>2, <4>1 DEF Majority
      <4> QED
        BY <4>2 DEF Confirmed
    <3>6. k.start[u] < n
      <4>1. n \in 1..Len(log) /\ log[n].term = u
        BY <1>2, <1>4, <1>6
      <4> QED
        BY <1>5, <1>9, <4>1 DEF HistoryOK
    <3>7. Holds(log, log, n) /\ n <= Len(log) /\ u <= u /\ n <= n
      BY <1>1, <1>4, <1>6, HoldsSelf
    <3>8. CommitOK(k, u, log, n)
      BY <1>5, <1>9, <3>5, <3>6, <3>7 DEF CommitOK
    <3>9. m1.commit_idx <= r.commit_idx
      <4>1. m1.commit_idx \in Nat /\ m1.commit_idx <= Len(log)
        BY <1>1, <1>2, <1>4, <1>10, CommitInLog DEF ServerOK
      <4> QED
        BY <1>6, <3>2, <4>1
    <3>10. CommitOK(k, r.current_term, r.log, r.commit_idx)
      BY <1>2, <1>4, <3>2, <3>8
    <3>11. ServerOK(k, s, r)
      BY <1>2, <1>10, <3>3, <3>4, <3>9, <3>10, BooksOK
    <3> QED
      BY <1>2, <1>4, <3>2, <3>9, <3>11
  <2> QED
    BY <1>2, <2>1, <2>2
<1>15. KeepsHeld(h, srv, s, r)
  BY <1>1, <1>3, <1>4, <1>14, KeepsLonger
<1>16. VoteOK(srv, srv', s, r)
  BY <1>1, <1>14, NoVoteOK DEF NoVote
<1>17. Grows(h, k, s, srv[s], r) /\ NewLeaderOK(h, k, srv)
  <2>1. m.current_term <= u
    BY <1>1
  <2> QED
    BY <1>5, <1>8, <1>14, <2>1, RaisedGrows
<1>171. Forward(srv[s], r)
  <2>1. Len(m.fsm) \in Nat
    BY <1>1 DEF FixedServer
  <2> QED
    BY <1>14, <2>1 DEF Forward
<1>18. StepOK(h, k, srv, srv', s, r, out)
  BY <1>9, <1>13, <1>14, <1>15, <1>16, <1>17, <1>171 DEF StepOK
<1> QED
  BY <1>2, <1>12, <1>18 DEF Proceeds

-----------------------------------------------------------------------------
(* raft_recv_appendentries: a follower takes over its leader's log.        *)

\* What follows from being committed: the leader of a later term has it.
LEMMA CommitInLeader ==
  ASSUME BoundAssumption, NEW h, NEW S, HistoryOK(h), LeadersHave(h, S), NEW u \in Terms(h),
         NEW a \in Seq(NormalEntry), NEW b \in Seq(NormalEntry), b = h.log[u], NEW c \in Nat,
         CommitOK(h, u, a, c)
  PROVE  Holds(a, b, c)
<1>0. HistoryType(h) /\ u \in Nat
  BY HistoryFacts DEF HistoryOK
<1>1. CASE c = 0
  BY <1>1 DEF Holds
<1>2. CASE c # 0
  <2>1. PICK v \in Terms(h), n \in Nat :
          /\ v <= u /\ h.start[v] < n /\ n <= Len(h.log[v]) /\ c <= n
          /\ Confirmed(h, v, n) /\ Holds(a, h.log[v], c)
    BY <1>2 DEF CommitOK
  <2>2. CASE v = u
    BY <2>1, <2>2
  <2>3. CASE v # u
    <3>1. v < u
      BY <1>0, <2>1, <2>3, HistoryFacts
    <3>2. Choosable(h, S, v, n)
      BY <2>1 DEF Confirmed, Choosable
    <3>3. Holds(b, h.log[v], n)
      BY <2>1, <3>1, <3>2 DEF LeadersHave
    <3>4. PICK d \in Seq(NormalEntry) : d = h.log[v]
      BY <1>0, HistoryFacts
    <3>5. Holds(d, b, c)
      BY <2>1, <3>3, <3>4, HoldsLess
    <3>6. c <= c
      OBVIOUS
    <3>7. Holds(a, d, c)
      BY <2>1, <3>4
    <3> QED
      BY <3>5, <3>6, <3>7, HoldsTrans
  <2> QED
    BY <2>2, <2>3
<1> QED
  BY <1>1, <1>2

\* The first entries of a log
LEMMA PrefixOK ==
  ASSUME BoundAssumption, NEW h, HistoryType(h), NEW b \in Seq(NormalEntry), Coherent(h, b),
         NEW t \in Nat, Within(b, t), NEW c \in Seq(NormalEntry), Holds(c, b, Len(c))
  PROVE  Coherent(h, c) /\ Within(c, t)
<1>1. \A i \in 1..Len(c) : i \in 1..Len(b) /\ c[i] = b[i] /\ i \in Nat /\ i <= Len(c)
  BY DEF Holds
<1>2. ASSUME NEW i \in 1..Len(c)
      PROVE  c[i].term \in Terms(h) /\ Holds(h.log[c[i].term], c, i)
  <2>1. b[i].term \in Terms(h) /\ Holds(h.log[b[i].term], b, i)
    BY <1>1 DEF Coherent
  <2>2. PICK d \in Seq(NormalEntry) : d = h.log[b[i].term]
    BY <2>1, HistoryFacts
  <2>3. Len(c) \in Nat /\ i <= Len(c) /\ i \in Nat /\ i <= i
    BY <1>1
  <2>4. Holds(b, c, i)
    BY <2>3, HoldsLess
  <2>5. Holds(d, c, i)
    BY <2>1, <2>2, <2>3, <2>4, HoldsTrans
  <2> QED
    BY <1>1, <2>1, <2>2, <2>5
<1> QED
  BY <1>1, <1>2 DEF Coherent, Within

\* A follower with log a comes to have log c, where its leader has b: it loses
\* nothing that it has in common with the leader, and has e entries of it.
Follows(a, b, c, e) ==
  /\ \A i \in Nat : Holds(a, b, i) => Holds(c, b, i)
  /\ Holds(c, b, e)
  /\ Holds(c, a, Len(c)) \/ Holds(c, b, Len(c))

\* The follower's record f becomes r.
Takes(f, r) ==
  /\ r.front = f.front /\ r.state = f.state /\ r.current_term = f.current_term
  /\ r.fsm = f.fsm /\ r.last_applied_idx = f.last_applied_idx
  /\ r.current_leader = f.current_leader

LEMMA TakesServerOK ==
  ASSUME ServerAssumption, BoundAssumption, NEW h, NEW S, HistoryOK(h), LeadersHave(h, S),
         NEW s \in InitialMembers, NEW f \in FixedServer(s), ServerOK(h, s, f),
         f.state = "FOLLOWER", NEW u \in Terms(h), u = f.current_term,
         NEW r \in FixedServer(s), Takes(f, r),
         NEW a \in Seq(NormalEntry), NEW b \in Seq(NormalEntry), NEW c \in Seq(NormalEntry),
         a = f.log, b = h.log[u], c = r.log, NEW e \in Nat, Follows(a, b, c, e),
         f.commit_idx <= r.commit_idx,
         r.commit_idx = f.commit_idx \/ CommitOK(h, u, c, r.commit_idx),
         NEW k, NEW n \in Nat, Raised(h, k, u, s, b, n), Holds(c, b, n)
  PROVE  ServerOK(k, s, r)
<1>1. /\ HistoryType(h) /\ HistoryType(k) /\ HistoryOK(k) /\ Later(h, k) /\ Terms(k) = Terms(h)
      /\ k.log[u] = b /\ k.ack[u][s] = n /\ k.who = h.who
      /\ \A v \in Terms(h) : v # u => k.ack[v][s] = h.ack[v][s]
  BY DEF Raised, HistoryOK
<1>2. PICK ci \in Nat, cr \in Nat : ci = f.commit_idx /\ cr = r.commit_idx /\ ci <= cr
  BY DEF FixedServer
<1>3. /\ u \in Nat /\ u <= u /\ ci <= ci /\ Len(a) \in Nat /\ Len(b) \in Nat /\ Len(c) \in Nat
  BY <1>1, HistoryFacts
<1>4. CommitOK(h, u, a, ci) /\ Holds(a, b, ci)
  <2>1. CommitOK(h, u, a, ci)
    BY <1>2 DEF ServerOK
  <2> QED
    BY <2>1, CommitInLeader
<1>5. Holds(c, b, ci) /\ Holds(c, a, ci)
  <2>1. Holds(c, b, ci) /\ Holds(b, a, ci)
    BY <1>3, <1>4, HoldsLess DEF Follows
  <2> QED
    BY <1>3, <2>1, HoldsTrans
<1>6. CommitOK(k, u, c, cr)
  <2>1. CommitOK(h, u, c, cr)
    <3>1. CASE cr = ci
      <4>1. Later(h, h)
        BY <1>1, LaterSelf
      <4>2. CommitOK(h, u, c, ci)
        BY <1>1, <1>3, <1>4, <1>5, <4>1, CommitLater
      <4> QED
        BY <3>1, <4>2
    <3>2. CASE cr # ci
      BY <1>2, <3>2
    <3> QED
      BY <3>1, <3>2
  <2>2. Holds(c, c, cr)
    BY <2>1, CommitInLog
  <2> QED
    BY <1>1, <1>3, <2>1, <2>2, CommitLater
<1>7. Coherent(k, c) /\ Within(c, u)
  <2>1. Coherent(h, a) /\ Within(a, u) /\ Coherent(h, b) /\ Within(b, u)
    BY DEF ServerOK, HistoryOK
  <2>2. Coherent(h, c) /\ Within(c, u)
    <3>1. CASE Holds(c, a, Len(c))
      BY <1>1, <1>3, <2>1, <3>1, PrefixOK
    <3>2. CASE Holds(c, b, Len(c))
      BY <1>1, <1>3, <2>1, <3>2, PrefixOK
    <3> QED
      BY <3>1, <3>2 DEF Follows
  <2> QED
    BY <1>1, <2>2, CoherentLater
<1>8. PastOK(k, s, r)
  <2> SUFFICES ASSUME NEW v \in Terms(h)
               PROVE  /\ u < v => k.ack[v][s] = 0
                      /\ u = v => Holds(c, k.log[v], k.ack[v][s])
                      /\ k.who[v] = s => v <= u /\ (v = u => r.state = "LEADER")
    BY <1>1 DEF PastOK, Takes
  <2>1. k.who[v] = s => v <= u /\ (v = u => r.state = "LEADER")
    BY <1>1 DEF ServerOK, PastOK, Takes
  <2>2. CASE v = u
    BY <1>1, <1>3, <2>1, <2>2
  <2>3. CASE v # u
    BY <1>1, <2>1, <2>3 DEF ServerOK, PastOK
  <2> QED
    BY <2>2, <2>3
<1>9. FsmOK(r)
  <2>1. PICK z \in Seq(NormalEntry), l \in Nat : z = f.fsm /\ l = Len(z) /\ l <= l
    BY DEF FixedServer
  <2>2. l <= ci /\ Holds(z, a, l) /\ f.last_applied_idx = l
    BY <1>2, <2>1 DEF ServerOK, FsmOK
  <2>3. Holds(a, c, l)
    BY <1>5, <2>2, HoldsLess
  <2>4. Holds(z, c, l)
    BY <2>1, <2>2, <2>3, HoldsTrans
  <2>5. l <= cr
    BY <1>2, <2>2
  <2> QED
    BY <1>2, <2>1, <2>2, <2>4, <2>5 DEF FsmOK, Takes
<1>10. /\ r.front = 0 /\ r.state # "DOWN" /\ r.state # "LEADER" /\ r.current_leader # s
       /\ r.current_term = u
  BY DEF ServerOK, Takes
<1> QED
  BY <1>2, <1>6, <1>7, <1>8, <1>9, <1>10 DEF ServerOK

LEMMA TakesKeeps ==
  ASSUME ServerAssumption, BoundAssumption, NEW h, NEW S, HistoryOK(h), LeadersHave(h, S),
         ServersHave(h, S), NEW s \in InitialMembers, NEW f \in FixedServer(s),
         ServerOK(h, s, f), NEW u \in Terms(h), u = f.current_term, NEW r,
         NEW a \in Seq(NormalEntry), NEW b \in Seq(NormalEntry), NEW c \in Seq(NormalEntry),
         a = f.log, a = S[s].log, b = h.log[u], c = r.log, NEW e, Follows(a, b, c, e)
  PROVE  KeepsHeld(h, S, s, r)
<1> SUFFICES ASSUME NEW v \in Terms(h), NEW n \in Nat, h.start[v] < n, n <= h.ack[v][s],
                    Choosable(h, S, v, n)
             PROVE  Holds(c, h.log[v], n)
  BY DEF KeepsHeld
<1>0. HistoryType(h)
  BY DEF HistoryOK
<1>1. PICK d \in Seq(NormalEntry) : d = h.log[v]
  BY <1>0, HistoryFacts
<1>2. Holds(a, d, n)
  BY <1>1 DEF ServersHave
<1>3. /\ v \in Nat /\ u \in Nat /\ h.start[v] \in Nat /\ h.ack[v][s] \in Nat /\ n <= n
      /\ n <= Len(h.log[v])
  BY <1>0, <1>1, <1>2, HistoryFacts DEF Holds
<1>4. ~(u < v)
  <2> SUFFICES ASSUME u < v PROVE FALSE
    OBVIOUS
  <2>1. h.ack[v][s] = 0
    BY DEF ServerOK, PastOK
  <2> QED
    BY <1>3, <2>1
<1>5. CASE v = u
  BY <1>1, <1>2, <1>5 DEF Follows
<1>6. CASE v < u
  <2>1. Holds(b, d, n)
    BY <1>1, <1>3, <1>6 DEF LeadersHave
  <2>2. Holds(d, b, n)
    BY <1>3, <2>1, HoldsLess
  <2>3. Holds(a, b, n)
    BY <1>2, <1>3, <2>2, HoldsTrans
  <2>4. Holds(c, b, n)
    BY <2>3 DEF Follows
  <2>5. Holds(c, d, n)
    BY <1>3, <2>1, <2>4, HoldsTrans
  <2> QED
    BY <1>1, <2>5
<1> QED
  BY <1>3, <1>4, <1>5, <1>6

\* Answers of s in term u that confirm no more than e entries
Answers(out, s, u, e) ==
  \A x \in out : /\ x.kind = "aer" /\ x.src = s /\ x.term = u
                 /\ x.success => x.current_idx \in Nat /\ x.current_idx <= e

LEMMA TakesStepOK ==
  ASSUME ServerAssumption, BoundAssumption, NEW h, NEW S, NEW M, Explains(h, S, M), NEW T,
         NEW s \in InitialMembers, S[s] \in FixedServer(s),
         NEW f \in FixedServer(s), Calm(s, S[s], f), f.state = "FOLLOWER",
         NEW u \in Terms(h), u = f.current_term,
         NEW r \in FixedServer(s), Takes(f, r), NoVote(S[s], r),
         NEW a \in Seq(NormalEntry), NEW b \in Seq(NormalEntry), NEW c \in Seq(NormalEntry),
         a = f.log, b = h.log[u], c = r.log, NEW e \in Nat, Follows(a, b, c, e),
         f.commit_idx <= r.commit_idx,
         r.commit_idx = f.commit_idx \/ CommitOK(h, u, c, r.commit_idx),
         NEW out, Answers(out, s, u, e)
  PROVE  \E k : StepOK(h, k, S, T, s, r, out)
<1>1. /\ HistoryOK(h) /\ HistoryType(h) /\ LeadersHave(h, S) /\ ServersHave(h, S)
      /\ ServerOK(h, s, S[s]) /\ S[s].current_term \in Nat
  BY FixedFacts DEF Explains, HistoryOK
<1>2. ServerOK(h, s, f)
  BY <1>1, CalmOK
<1>3. PICK old \in Nat : old = h.ack[u][s]
  BY <1>1, HistoryFacts
<1>4. Holds(a, b, old)
  BY <1>2, <1>3 DEF ServerOK, PastOK
<1>5. Holds(c, b, old) /\ Holds(c, b, e)
  BY <1>4 DEF Follows
<1>6. PICK n \in Nat : old <= n /\ e <= n /\ Holds(c, b, n)
  BY <1>5
<1>7. PICK k : k = RaisedHistory(h, u, s, b, n)
  OBVIOUS
<1>8. Raised(h, k, u, s, b, n)
  <2>1. Len(b) \in Nat /\ n <= Len(b) /\ h.ack[u][s] <= n
    BY <1>3, <1>6 DEF Holds
  <2>2. PICK l \in Nat : l = Len(b) /\ l <= Len(b)
    BY <2>1
  <2>3. Holds(b, b, l)
    BY <2>2, HoldsSelf
  <2>4. Holds(b, h.log[u], Len(h.log[u]))
    BY <2>2, <2>3
  <2>5. \A i \in 1..Len(b) : Len(h.log[u]) < i => b[i].term = u
    BY <2>1
  <2> QED
    BY <1>1, <1>7, <2>1, <2>4, <2>5, RaisedIs
<1>9. ServerOK(k, s, r)
  BY <1>1, <1>2, <1>6, <1>8, TakesServerOK
<1>10. KeepsHeld(h, S, s, r)
  BY <1>1, <1>2, TakesKeeps DEF Calm, Steady
<1>11. VoteOK(S, T, s, r)
  BY <1>1, NoVoteOK
<1>12. Grows(h, k, s, S[s], r) /\ NewLeaderOK(h, k, S)
  <2>1. S[s].current_term <= u /\ r.current_term = u
    BY DEF Calm, Takes
  <2> QED
    BY <1>8, <2>1, RaisedGrows
<1>13. ASSUME NEW x \in out PROVE MessageOK(k, T, x)
  <2>1. /\ x.kind = "aer" /\ x.src = s /\ x.term = u
        /\ x.success => x.current_idx \in Nat /\ x.current_idx <= e
    BY DEF Answers
  <2>2. u \in Terms(k) /\ k.ack[u][s] = n
    BY <1>8 DEF Raised
  <2>3. x.success => x.current_idx <= n
    BY <1>6, <2>1
  <2> QED
    BY <2>1, <2>2, <2>3 DEF MessageOK
<1>14. r.state # "CANDIDATE" /\ HistoryOK(k)
  BY <1>8 DEF Takes, Raised
<1>15. Forward(S[s], r)
  <2>4. PICK m \in FixedServer(s) : m = S[s]
    OBVIOUS
  <2>5. m.fsm \in Seq(NormalEntry)
    BY ONLY <2>4 DEF FixedServer
  <2>1. Len(S[s].fsm) \in Nat
    BY ONLY <2>4, <2>5
  <2>2. f.commit_idx = S[s].commit_idx /\ f.fsm = S[s].fsm
    BY DEF Calm, Steady
  <2>3. r.fsm = f.fsm /\ f.commit_idx <= r.commit_idx
    BY DEF Takes
  <2> QED
    BY <2>1, <2>2, <2>3 DEF Forward
<1>16. StepOK(h, k, S, T, s, r, out)
  BY <1>9, <1>10, <1>11, <1>12, <1>13, <1>14, <1>15 DEF StepOK
<1> QED
  BY <1>16

\* es are entries of b after the first prev, and log a has n of them.
Overlap(a, b, es, prev, n) ==
  /\ prev + Len(es) <= Len(b) /\ \A i \in 1..Len(es) : es[i] = b[prev + i]
  /\ prev # 0 => a[prev].term = b[prev].term
  /\ prev + n <= Len(a) /\ (n # 0 => a[prev + n].term = es[n].term)
  /\ n < Len(es) /\ prev + n + 1 <= Len(a) => a[prev + n + 1].term # es[n + 1].term

LEMMA MergeFollows ==
  ASSUME BoundAssumption, NEW h, HistoryType(h),
         NEW a \in Seq(NormalEntry), NEW b \in Seq(NormalEntry), Coherent(h, a), Coherent(h, b),
         NEW es \in Seq(NormalEntry), NEW prev \in Nat, NEW n \in 0..Len(es),
         Overlap(a, b, es, prev, n), NEW z, NEW c, Merged(a, es, prev, n, z, c)
  PROVE  Follows(a, b, c, prev + Len(es))
<1> USE DEF Overlap
<1>1. /\ Len(a) \in Nat /\ Len(b) \in Nat /\ Len(es) \in Nat /\ n \in Nat
      /\ z \in Seq(NormalEntry) /\ c \in Seq(NormalEntry) /\ Len(z) \in Nat /\ Len(c) \in Nat
  <2>1. z \in Seq(NormalEntry) /\ c \in Seq(NormalEntry)
    BY Zenon DEF Merged
  <2>2. Len(a) \in Nat /\ Len(b) \in Nat /\ Len(es) \in Nat /\ Len(z) \in Nat /\ Len(c) \in Nat
    BY <2>1, LenProperties, Zenon
  <2>3. n \in Nat
    BY <2>2
  <2> QED
    BY <2>1, <2>2, <2>3
<1>2. PICK p \in Nat, l \in Nat : p = prev + n /\ l = prev + Len(es) /\ p <= l
  <2>1. prev + n \in Nat /\ prev + Len(es) \in Nat /\ prev + n <= prev + Len(es)
    BY <1>1
  <2> QED
    BY <2>1
<1>3. Holds(a, b, p)
  <2>1. CASE p = 0
    BY <1>1, <2>1 DEF Holds
  <2>2. CASE p # 0
    <3>1. a[p].term = b[p].term
      <4>1. CASE n = 0
        BY <1>2, <2>2, <4>1
      <4>2. CASE n # 0
        <5>1. n \in 1..Len(es)
          BY <4>2
        <5> QED
          BY <1>2, <4>2, <5>1
      <4> QED
        BY <4>1, <4>2
    <3>2. p \in Nat \ {0} /\ p <= Len(a) /\ p <= Len(b)
      BY <1>1, <1>2, <2>2
    <3> QED
      BY <3>1, <3>2, SameTerm
  <2> QED
    BY <2>1, <2>2
<1>4. CASE n < Len(es)
  <2>1. PICK q \in Seq(NormalEntry) : q = SubSeq(es, n + 1, Len(es))
    <3>1. n + 1 \in Nat \ {0} /\ Len(es) \in Int /\ Len(es) <= Len(es)
      BY <1>1
    <3> QED
      BY <3>1, SubSeqIn
  <2>2. Len(q) = Len(es) - n /\ \A j \in 1..Len(q) : q[j] = es[n + j]
    <3>1. n + 1 \in Nat \ {0} /\ Len(es) \in Int /\ Len(es) <= Len(es) /\ n + 1 <= Len(es)
      BY <1>1, <1>4
    <3>2. Len(SubSeq(es, n + 1, Len(es))) = Len(es) - (n + 1) + 1
      BY <3>1, SubSeqIn
    <3>3. \A i \in 1 .. Len(es) - (n + 1) + 1 : SubSeq(es, n + 1, Len(es))[i] = es[n + 1 + i - 1]
      BY <3>1, SubSeqIn
    <3>4. Len(es) - (n + 1) + 1 = Len(es) - n
      BY <1>1
    <3>5. \A i \in 1..Len(q) : q[i] = es[n + 1 + i - 1]
      BY <2>1, <3>2, <3>3
    <3>6. \A i \in 1..Len(q) : n + 1 + i - 1 = n + i
      BY <1>1
    <3> QED
      BY <2>1, <3>2, <3>4, <3>5, <3>6
  <2>3. c = z \o q /\ Len(z) = p /\ \A i \in 1..p : z[i] = a[i]
    BY <1>2, <1>4, <2>1 DEF Merged
  <2>4. Joins(c, z, q)
    BY <1>1, <2>3, ConcatAt
  <2>5. Len(c) = l
    BY <1>1, <1>2, <2>2, <2>3, <2>4 DEF Joins
  <2>6. ASSUME NEW i \in 1..l PROVE c[i] = b[i]
    <3>1. CASE i <= p
      <4>1. i \in 1..p
        BY <1>2, <3>1
      <4> QED
        BY <1>3, <2>3, <2>4, <4>1 DEF Joins, Holds
    <3>2. CASE p < i
      <4>1. PICK j \in 1..Len(q) : i = p + j
        <5>1. i - p \in 1..Len(q) /\ i = p + (i - p)
          BY <1>1, <1>2, <2>2, <3>2
        <5> QED
          BY <5>1
      <4>2. c[i] = q[j]
        BY <2>3, <2>4, <4>1 DEF Joins
      <4>3. n + j \in 1..Len(es) /\ prev + (n + j) = i
        BY <1>1, <1>2, <2>2, <4>1
      <4> QED
        BY <2>2, <4>2, <4>3
    <3> QED
      BY <1>2, <3>1, <3>2
  <2>7. Holds(c, b, l)
    BY <1>1, <1>2, <2>5, <2>6 DEF Holds
  <2>8. ASSUME NEW i \in Nat, Holds(a, b, i) PROVE Holds(c, b, i)
    <3>1. i <= p
      <4> SUFFICES ASSUME p < i PROVE FALSE
        BY <1>2
      <4>1. p + 1 <= Len(a) /\ p + 1 \in 1..i
        BY <1>1, <1>2, <2>8 DEF Holds
      <4>2. a[p + 1] = b[p + 1]
        BY <2>8, <4>1 DEF Holds
      <4>3. n + 1 \in 1..Len(es) /\ prev + (n + 1) = p + 1 /\ p + 1 = prev + n + 1
        BY <1>1, <1>2, <1>4
      <4>4. es[n + 1] = b[p + 1]
        BY <4>3
      <4>5. a[p + 1].term # es[n + 1].term
        BY <1>4, <4>1, <4>3
      <4> QED
        BY <4>2, <4>4, <4>5
    <3>2. i <= l
      BY <1>2, <3>1
    <3> QED
      BY <1>1, <2>7, <3>2, HoldsLess
  <2> QED
    BY <1>2, <2>5, <2>7, <2>8 DEF Follows
<1>5. CASE ~(n < Len(es))
  <2>1. n = Len(es) /\ p = l
    BY <1>1, <1>2, <1>5
  <2>2. SubSeq(es, n + 1, Len(es)) = << >>
    <3>1. n + 1 \in Int /\ Len(es) \in Int /\ Len(es) < n + 1
      BY <1>1, <2>1
    <3> QED
      BY <3>1, SubSeqProperties
  <2>3. c = a
    BY <1>5, <2>2, ConcatEmptySeq DEF Merged
  <2>4. Holds(a, a, Len(a))
    BY <1>1 DEF Holds
  <2> QED
    BY <1>2, <1>3, <2>1, <2>3, <2>4 DEF Follows
<1> QED
  BY <1>4, <1>5

LEMMA DropFollows ==
  ASSUME NEW a \in Seq(NormalEntry), NEW b \in Seq(NormalEntry), NEW i \in 1..Len(a),
         i <= Len(b), a[i].term # b[i].term
  PROVE  LET c == SubSeq(a, 1, i - 1) IN c \in Seq(NormalEntry) /\ Follows(a, b, c, 0)
<1>1. PICK j \in Nat : j = i - 1 /\ j <= Len(a) /\ j \in Int /\ j < i
  OBVIOUS
<1>2. PICK c : c = SubSeq(a, 1, j)
  OBVIOUS
<1>3. c \in Seq(NormalEntry) /\ Len(c) = j /\ \A n \in 1..j : c[n] = a[n]
  <2>1. /\ SubSeq(a, 1, j) \in Seq(NormalEntry)
        /\ Len(SubSeq(a, 1, j)) = IF 1 <= j THEN j - 1 + 1 ELSE 0
        /\ \A n \in 1 .. j - 1 + 1 : SubSeq(a, 1, j)[n] = a[1 + n - 1]
    BY <1>1, SubSeqIn
  <2>2. j - 1 + 1 = j /\ (~(1 <= j) => j = 0) /\ \A n \in 1..j : 1 + n - 1 = n
    BY <1>1
  <2> QED
    BY <1>2, <2>1, <2>2
<1>4. Holds(c, a, j) /\ Len(a) \in Nat /\ Len(b) \in Nat
  BY <1>1, <1>3 DEF Holds
<1>5. ASSUME NEW n \in Nat, Holds(a, b, n) PROVE Holds(c, b, n)
  <2>1. n <= j
    <3> SUFFICES ASSUME i <= n PROVE FALSE
      BY <1>1
    <3>1. i \in 1..n
      OBVIOUS
    <3> QED
      BY <1>5, <3>1 DEF Holds
  <2>2. n <= n /\ Holds(c, a, n)
    BY <1>3, <1>4, <2>1, HoldsLess
  <2> QED
    BY <1>3, <1>5, <2>2, HoldsTrans
<1>6. Holds(c, b, 0)
  BY <1>3, <1>4 DEF Holds
<1> QED
  BY <1>1, <1>2, <1>3, <1>4, <1>5, <1>6 DEF Follows

\* A server that hears from the leader of its term follows it.
LEMMA HeardCalm ==
  ASSUME ServerAssumption, BoundAssumption, ElectionInv, LogInv, NEW h, History(h),
         NEW x \in AeMsg, x \in Msgs, x.src # x.dst,
         srv[x.dst].state # "DOWN", srv[x.dst].current_term <= x.term
  PROVE  LET s == x.dst
             m == srv[s]
             f == Heard(m, x)
         IN  /\ f \in FixedServer(s) /\ RingOK(f) /\ f.state = "FOLLOWER"
             /\ f.current_term = x.term /\ Calm(s, m, f) /\ NoVote(m, f)
<1>0. PICK s \in InitialMembers, l \in InitialMembers, t \in 0..MaxTerm :
        s = x.dst /\ l = x.src /\ t = x.term /\ l # s
  BY DEF AeMsg
<1>1. PICK m \in FixedServer(s) : m = srv[s] /\ RingOK(m)
  BY FixedFacts DEF ElectionInv
<1>2. m.current_term \in Nat /\ t \in Nat /\ m.current_term <= t /\ ServerOK(h, s, m)
  BY <1>0, <1>1, MemberFacts DEF BoundAssumption, History
<1>3. PICK f : f = Heard(m, x)
  OBVIOUS
<1>4. /\ f \in FixedServer(s) /\ RingOK(f) /\ f.log = m.log /\ f.state = "FOLLOWER"
      /\ f.current_term = t /\ (t = m.current_term => f.voted_for = m.voted_for)
  BY <1>0, <1>1, <1>3, FollowsSender DEF Msgs
<1>5. Steady(m, f) /\ f.current_leader # s /\ (m.current_term < t => f.voted_for = NoNode)
  <2>1. PICK g \in FixedServer(s) :
          /\ g = CASE m.state = "CANDIDATE" /\ m.current_term = t -> raft_become_follower(m)
                   [] m.current_term < t -> raft_become_follower(raft_set_current_term(m, t))
                   [] OTHER -> m
          /\ Steady(m, g) /\ (m.current_term < t => g.voted_for = NoNode)
    <3>1. CASE m.current_term < t
      <4>1. PICK g : g = raft_become_follower(raft_set_current_term(m, t))
        OBVIOUS
      <4>2. g \in FixedServer(s) /\ Steady(m, g) /\ g.voted_for = NoNode
        BY <3>1, <4>1 DEF raft_become_follower, raft_set_current_term, FixedServer, Steady
      <4> QED
        BY <1>2, <3>1, <4>1, <4>2
    <3>2. CASE m.state = "CANDIDATE" /\ m.current_term = t
      <4>1. PICK g : g = raft_become_follower(m)
        OBVIOUS
      <4>2. g \in FixedServer(s) /\ Steady(m, g)
        BY <4>1 DEF raft_become_follower, FixedServer, Steady
      <4> QED
        BY <1>2, <3>2, <4>1, <4>2
    <3>3. CASE m.state # "CANDIDATE" /\ m.current_term = t
      BY <1>2, <3>3 DEF Steady
    <3> QED
      BY <1>2, <3>1, <3>2, <3>3
  <2>2. f = [g EXCEPT !.timeout_elapsed = FALSE,
                      !.current_leader = IF l \in DOMAIN g.nodes THEN l ELSE NoNode]
    BY <1>0, <1>3, <2>1 DEF Heard
  <2>3. s # NoNode
    BY FixedFacts
  <2> QED
    BY <1>0, <2>1, <2>2, <2>3 DEF Steady, FixedServer
<1>6. ~(m.state = "LEADER" /\ m.current_term = t)
  <2> SUFFICES ASSUME m.state = "LEADER", m.current_term = t PROVE FALSE
    OBVIOUS
  <2>1. x.kind = "ae" /\ MessageOK(h, srv, x)
    BY DEF AeMsg, History, Explains
  <2>2. h.who[t] = l
    BY <1>0, <2>1 DEF MessageOK, AeOK
  <2>3. h.who[t] = s
    BY <1>2 DEF ServerOK, LeaderOK
  <2> QED
    BY <1>0, <2>2, <2>3
<1>7. Calm(s, m, f)
  BY <1>2, <1>4, <1>5, <1>6 DEF Calm
<1>8. NoVote(m, f)
  <2>1. m.current_term < t \/ m.current_term = t
    BY <1>2
  <2> QED
    BY <1>4, <1>5, <2>1 DEF NoVote
<1> QED
  BY <1>0, <1>1, <1>3, <1>4, <1>7, <1>8

\* A record r that raft_recv_appendentries may leave of f, when a leader with log b
\* sent x.
Took(h, f, r, x, b, success) ==
  \E c \in Seq(NormalEntry), e \in Nat :
    /\ c = r.log /\ Follows(f.log, b, c, e) /\ Takes(f, r) /\ r.voted_for = f.voted_for
    /\ f.commit_idx <= r.commit_idx
    /\ r.commit_idx = f.commit_idx \/ CommitOK(h, x.term, c, r.commit_idx)
    /\ success => x.prev_log_idx + Len(x.entries) <= e

\* The entry before the new ones does not conflict with a committed one.
LEMMA PrevChecked ==
  ASSUME ServerAssumption, BoundAssumption, NEW s \in InitialMembers, NEW f \in FixedServer(s),
         NEW x \in AeMsg, NEW b \in Seq(NormalEntry), SliceOf(x, b),
         Holds(f.log, b, f.commit_idx)
  PROVE  /\ PrevCheck(f, x) # "shutdown"
         /\ PrevCheck(f, x) = "conflict" =>
              /\ x.prev_log_idx \in 1..Len(f.log) /\ x.prev_log_idx <= Len(b)
              /\ f.log[x.prev_log_idx].term # b[x.prev_log_idx].term
<1>1. PICK i \in Nat, es \in Seq(NormalEntry), a \in Seq(NormalEntry), ci \in Nat :
        i = x.prev_log_idx /\ es = x.entries /\ a = f.log /\ ci = f.commit_idx
  BY DEF AeMsg, FixedServer
<1>2. /\ f.base = 0 /\ f.snapshot_last_idx = 0 /\ Len(a) \in Nat /\ Len(b) \in Nat
      /\ Len(es) \in Nat
  BY DEF FixedServer
<1>3. i <= Len(b) /\ (i # 0 => x.prev_log_term = b[i].term)
  BY <1>1, <1>2 DEF SliceOf
<1>4. ASSUME i # 0, HasEntry(f, i) PROVE i \in 1..Len(a) /\ log_get_at_idx(f, i) = a[i]
  <2>1. i - f.base = i
    BY <1>2
  <2>2. log_get_at_idx(f, i) = a[i]
    BY <1>1, <2>1, Zenon DEF log_get_at_idx
  <2> QED
    BY <1>1, <1>2, <1>4, <2>2 DEF HasEntry, log_get_current_idx
<1>5. PrevCheck(f, x) \in {"shutdown", "conflict"} =>
        /\ i # 0 /\ HasEntry(f, i) /\ log_get_at_idx(f, i).term # x.prev_log_term
        /\ PrevCheck(f, x) = "shutdown" => i <= ci
  BY <1>1, <1>2 DEF PrevCheck
<1>6. PrevCheck(f, x) \in {"shutdown", "conflict"} =>
        i \in 1..Len(a) /\ a[i].term # b[i].term
  BY <1>3, <1>4, <1>5
<1>7. PrevCheck(f, x) # "shutdown"
  <2> SUFFICES ASSUME PrevCheck(f, x) = "shutdown" PROVE FALSE
    OBVIOUS
  <2>1. i <= ci /\ i \in 1..Len(a) /\ a[i].term # b[i].term
    BY <1>5, <1>6
  <2>2. a[i] = b[i]
    BY <1>1, <2>1 DEF Holds
  <2> QED
    BY <2>1, <2>2
<1> QED
  BY <1>1, <1>3, <1>6, <1>7

LEMMA ConflictTook ==
  ASSUME ServerAssumption, BoundAssumption, NEW h, NEW s \in InitialMembers,
         NEW f \in FixedServer(s), RingOK(f), NEW x \in AeMsg, NEW b \in Seq(NormalEntry),
         x.prev_log_idx \in 1..Len(f.log), x.prev_log_idx <= Len(b),
         f.log[x.prev_log_idx].term # b[x.prev_log_idx].term
  PROVE  LET r == raft_delete_entry_from_idx(f, x.prev_log_idx)
         IN  r \in FixedServer(s) /\ Took(h, f, r, x, b, FALSE)
<1>0. PICK a \in Seq(NormalEntry) : a = f.log
  BY FixedFacts
<1>1. PICK i \in 1..Len(a) : i = x.prev_log_idx /\ i <= Len(b) /\ a[i].term # b[i].term
  BY <1>0
<1>2. PICK r, c : r = raft_delete_entry_from_idx(f, i) /\ c = SubSeq(a, 1, i - 1)
  OBVIOUS
<1>3. r = WithLog(f, c, f.size, f.front) /\ Ring(c, f.size, f.front)
  <2>1. i \in 1..Len(f.log)
    BY <1>0, <1>1
  <2>2. /\ raft_delete_entry_from_idx(f, i) = WithLog(f, SubSeq(f.log, 1, i - 1), f.size, f.front)
        /\ Ring(SubSeq(f.log, 1, i - 1), f.size, f.front)
    BY <2>1, DeleteFrom
  <2> QED
    BY <1>0, <1>1, <1>2, <2>2
<1>4. r \in FixedServer(s) /\ Relogged(f, r, c)
  BY <1>3, WithLogType, WithLogRelogs
<1>5. c \in Seq(NormalEntry) /\ Follows(a, b, c, 0)
  BY <1>1, <1>2, DropFollows
<1>6. f.commit_idx \in Nat /\ r.front = f.front
  <2>1. f.commit_idx \in Nat
    BY DEF FixedServer
  <2> QED
    BY <1>3, <2>1, WithLogType
<1>7. f.commit_idx <= r.commit_idx /\ r.commit_idx = f.commit_idx
  BY <1>4, <1>6 DEF Relogged
<1>8. Takes(f, r) /\ r.voted_for = f.voted_for /\ c = r.log
  BY <1>4, <1>6 DEF Takes, Relogged
<1>9. Took(h, f, r, x, b, FALSE)
  BY <1>0, <1>5, <1>7, <1>8 DEF Took
<1> QED
  BY <1>1, <1>2, <1>4, <1>9

LEMMA WithCommitKeeps ==
  ASSUME NEW s, NEW g \in FixedServer(s), NEW i \in Nat
  PROVE  LET r == WithCommit(g, i) IN
         /\ r \in FixedServer(s) /\ r.log = g.log /\ r.front = g.front /\ r.state = g.state
         /\ r.current_term = g.current_term /\ r.voted_for = g.voted_for /\ r.fsm = g.fsm
         /\ r.last_applied_idx = g.last_applied_idx /\ r.current_leader = g.current_leader
         /\ r.commit_idx = i
  BY DEF WithCommit, FixedServer

LEMMA AcceptTook ==
  ASSUME ServerAssumption, BoundAssumption, NEW h, HistoryType(h), NEW s \in InitialMembers,
         NEW f \in FixedServer(s), RingOK(f), f.front = 0,
         NEW x \in AeMsg, NEW b \in Seq(NormalEntry),
         SliceOf(x, b), Coherent(h, b), Coherent(h, f.log), Holds(f.log, b, f.commit_idx),
         CommitOK(h, x.term, b, x.leader_commit), x.term \in Nat,
         PrevCheck(f, x) = "ok", x.prev_log_idx = 0 => x.prev_log_term = 0
  PROVE  LET r == AcceptEntries(s, f, x)
         IN  r \in FixedServer(s) /\ Took(h, f, r, x, b, TRUE)
<1>1. PICK prev \in Nat, es \in Seq(NormalEntry), a \in Seq(NormalEntry), ci \in Nat, lc \in Nat :
        /\ prev = x.prev_log_idx /\ es = x.entries /\ a = f.log /\ ci = f.commit_idx
        /\ lc = x.leader_commit
  BY DEF AeMsg, FixedServer
<1>2. Len(a) \in Nat /\ Len(b) \in Nat /\ Len(es) \in Nat /\ f.base = 0
  BY DEF FixedServer
<1>3. /\ prev + Len(es) <= Len(b) /\ \A i \in 1..Len(es) : es[i] = b[prev + i]
      /\ prev # 0 => x.prev_log_term = b[prev].term
      /\ lc <= prev + Len(es)
  BY <1>1 DEF SliceOf
<1>4. prev <= Len(a) /\ (prev # 0 => a[prev].term = b[prev].term)
  <2>1. /\ x.prev_log_idx <= Len(f.log)
        /\ IF x.prev_log_idx = 0 THEN x.prev_log_term = 0
           ELSE f.log[x.prev_log_idx].term = x.prev_log_term
    BY PrevMatches
  <2> QED
    BY <1>1, <1>3, <2>1
<1>5. PICK n : n = Matching(f, x)
  OBVIOUS
<1>6. /\ n \in 0..Len(es) /\ prev + n <= Len(a)
      /\ n # 0 => a[prev + n].term = es[n].term
      /\ n < Len(es) /\ HasEntry(f, prev + n + 1) => a[prev + n + 1].term # es[n + 1].term
  BY <1>1, <1>4, <1>5, MatchingIs
<1>7. \A i \in Nat \ {0} : HasEntry(f, i) <=> i <= Len(a)
  BY <1>1, <1>2 DEF HasEntry, log_get_current_idx
<1>8. n \in Nat /\ prev + n + 1 \in Nat \ {0}
  BY <1>2, <1>6
<1>9. n < Len(es) /\ prev + n + 1 <= Len(a) => a[prev + n + 1].term # es[n + 1].term
  BY <1>6, <1>7, <1>8
<1>10. PICK r : r = AcceptEntries(s, f, x)
  OBVIOUS
<1>11. PICK z, c, g : /\ g \in FixedServer(s) /\ RingOK(g) /\ Relogged(f, g, c)
                      /\ Merged(a, es, prev, n, z, c) /\ Accepted(f, x, n, g, r)
  BY <1>1, <1>4, <1>5, <1>10, AcceptIs
<1>12. Follows(a, b, c, prev + Len(es)) /\ c \in Seq(NormalEntry) /\ Len(c) \in Nat
  <2>1. c \in Seq(NormalEntry)
    BY <1>11 DEF Merged
  <2>2. Coherent(h, a) /\ n \in 0..Len(es)
    BY <1>1, <1>6
  <2>3. Overlap(a, b, es, prev, n)
    BY <1>3, <1>4, <1>6, <1>9 DEF Overlap
  <2>4. Follows(a, b, c, prev + Len(es))
    BY <1>11, <2>2, <2>3, MergeFollows
  <2> QED
    BY <2>1, <2>4
<1>13. PICK e \in Nat : e = prev + Len(es)
  BY <1>2
<1>14. Holds(c, b, e) /\ e <= Len(c) /\ Follows(a, b, c, e)
  BY <1>12, <1>13 DEF Follows, Holds
<1>15. r # Halted(f) \/ ~(n < Len(es) /\ HasEntry(f, prev + n + 1) /\ prev + n + 1 <= ci)
  <2> SUFFICES ASSUME n < Len(es), HasEntry(f, prev + n + 1), prev + n + 1 <= ci PROVE FALSE
    OBVIOUS
  <2>1. PICK i \in Nat \ {0}, j \in 1..Len(es) : i = prev + n + 1 /\ j = n + 1 /\ i = prev + j
    <3>1. n + 1 \in 1..Len(es) /\ prev + n + 1 = prev + (n + 1)
      BY <1>2, <1>8
    <3> QED
      BY <1>8, <3>1
  <2>2. i \in 1..ci
    BY <1>8, <2>1
  <2>3. a[i] = b[i] /\ es[j] = b[i]
    BY <1>1, <1>3, <2>1, <2>2 DEF Holds
  <2>4. a[i].term # es[j].term
    BY <1>6, <2>1
  <2> QED
    BY <2>3, <2>4
<1>16. /\ g.log = c /\ g.front = f.front /\ Takes(f, g) /\ g.voted_for = f.voted_for
       /\ g.commit_idx = ci /\ g.base = 0
  BY <1>1, <1>11 DEF Relogged, Takes, FixedServer
<1>17. log_get_current_idx(g) = Len(c)
  BY <1>12, <1>16 DEF log_get_current_idx
<1>18. PICK i : i = min(max(Len(c), 1), lc)
  OBVIOUS
<1>19. \/ r = g /\ ~(ci < lc)
       \/ r = WithCommit(g, i) /\ ci < lc
  BY <1>1, <1>11, <1>15, <1>16, <1>17, <1>18 DEF Accepted
<1>20. CASE r = g
  <2>1. r \in FixedServer(s) /\ f.commit_idx <= r.commit_idx /\ r.commit_idx = f.commit_idx
    BY <1>1, <1>11, <1>16, <1>20
  <2>2. prev + Len(es) <= e
    BY <1>13
  <2>3. Took(h, f, r, x, b, TRUE)
    BY <1>1, <1>12, <1>14, <1>16, <1>20, <2>1, <2>2 DEF Took
  <2> QED
    BY <1>10, <2>1, <2>3
<1>21. CASE r = WithCommit(g, i) /\ ci < lc
  <2>1. i = lc /\ lc <= e
    BY <1>2, <1>3, <1>12, <1>13, <1>14, <1>18, <1>21 DEF min, max
  <2>2. /\ r \in FixedServer(s) /\ r.log = g.log /\ r.front = g.front /\ r.state = g.state
        /\ r.current_term = g.current_term /\ r.voted_for = g.voted_for /\ r.fsm = g.fsm
        /\ r.last_applied_idx = g.last_applied_idx /\ r.current_leader = g.current_leader
        /\ r.commit_idx = lc
    <3>1. r = WithCommit(g, lc) /\ g \in FixedServer(s)
      BY <1>11, <1>21, <2>1
    <3>2. lc \in Nat
      BY <1>1
    <3>3. PICK w : w = WithCommit(g, lc)
      OBVIOUS
    <3>4. /\ w \in FixedServer(s) /\ w.log = g.log /\ w.front = g.front /\ w.state = g.state
          /\ w.current_term = g.current_term /\ w.voted_for = g.voted_for /\ w.fsm = g.fsm
          /\ w.last_applied_idx = g.last_applied_idx /\ w.current_leader = g.current_leader
          /\ w.commit_idx = lc
      BY ONLY <3>1, <3>2, <3>3, WithCommitKeeps, ZenonT(40)
    <3> QED
      BY <3>1, <3>3, <3>4
  <2>3. Takes(f, r)
    BY <1>16, <2>2 DEF Takes
  <2>4. Holds(c, b, lc)
    BY <1>12, <1>14, <2>1, HoldsLess
  <2>5. CommitOK(h, x.term, c, lc)
    <3>1. Later(h, h)
      BY LaterSelf
    <3>2. PICK t \in Nat : t = x.term /\ t <= t
      OBVIOUS
    <3>3. CommitOK(h, t, b, lc)
      BY <1>1, <3>2
    <3>4. CommitOK(h, t, c, lc)
      BY <1>12, <2>4, <3>1, <3>2, <3>3, CommitLater
    <3> QED
      BY <3>2, <3>4
  <2>6. f.commit_idx <= r.commit_idx /\ prev + Len(es) <= e
    BY <1>1, <1>13, <1>21, <2>2
  <2>7. Took(h, f, r, x, b, TRUE)
    BY <1>1, <1>12, <1>14, <1>16, <2>2, <2>3, <2>5, <2>6 DEF Took
  <2> QED
    BY <1>10, <2>2, <2>7
<1> QED
  BY <1>19, <1>20, <1>21

LEMMA EntriesProceeds ==
  ASSUME ServerAssumption, BoundAssumption, ElectionInv, LogInv, NEW h, History(h),
         NEW x \in AeMsg, x \in Msgs, x.src # x.dst, raft_recv_appendentries(x)
  PROVE  Proceeds(h, x.dst)
<1>0. PICK s \in InitialMembers, u \in Nat : s = x.dst /\ u = x.term /\ x.src \in InitialMembers
  BY DEF AeMsg, BoundAssumption
<1>1. PICK m \in FixedServer(s) :
        /\ m = srv[s] /\ RingOK(m) /\ m.state # "DOWN" /\ m.current_term \in Nat
        /\ ServerOK(h, s, m) /\ Explains(h, srv, Msgs)
  BY <1>0, MemberFacts DEF History, raft_recv_appendentries
<1> DEFINE res == RecvAppendEntries(s, m, x)
           resp == [kind |-> "aer", src |-> s, dst |-> x.src, term |-> res.me.current_term,
                    success |-> res.success,
                    current_idx |-> IF res.success THEN x.prev_log_idx + Len(x.entries)
                                    ELSE log_get_current_idx(res.me)]
<1>2. PICK r, y, out : /\ r = res.me /\ y = resp
                       /\ out = IF res.me.state = "DOWN" THEN {} ELSE {y}
  OBVIOUS
<1>3. srv' = [srv EXCEPT ![s] = r] /\ Exchange(SetToBag({x}), out)
  BY <1>0, <1>1, <1>2 DEF raft_recv_appendentries
<1>4. /\ \A q \in out : q = y
      /\ y.kind = "aer" /\ y.src = s /\ y.term = r.current_term /\ y.success = res.success
      /\ y.success => y.current_idx = x.prev_log_idx + Len(x.entries)
  BY <1>2
<1>5. CASE res = [me |-> m, success |-> FALSE]
  <2>1. r = m /\ res.success = FALSE
    BY <1>2, <1>5
  <2> HIDE DEF res
  <2>2. \A q \in out : MessageOK(h, srv', q)
    BY <1>4, <2>1 DEF MessageOK
  <2>3. Calm(s, m, m)
    BY <1>1 DEF Calm, Steady, ServerOK
  <2>4. VoteOK(srv, srv', s, m)
    BY <1>1, NoVoteOK DEF NoVote
  <2>5. StepOK(h, h, srv, srv', s, r, out)
    BY <1>1, <2>1, <2>2, <2>3, <2>4, CalmStepOK
  <2> QED
    BY <1>0, <1>3, <2>5 DEF Proceeds
<1>6. CASE m.current_term <= u
  <2>1. PICK f : f = Heard(m, x)
    OBVIOUS
  <2>2. /\ f \in FixedServer(s) /\ RingOK(f) /\ f.state = "FOLLOWER"
        /\ f.current_term = u /\ Calm(s, m, f) /\ NoVote(m, f)
    BY <1>0, <1>1, <1>6, <2>1, HeardCalm
  <2>3. HistoryOK(h) /\ HistoryType(h) /\ LeadersHave(h, srv) /\ AeOK(h, x)
    <3>1. x.kind = "ae" /\ MessageOK(h, srv, x)
      BY <1>1 DEF AeMsg, Explains
    <3> QED
      BY <1>1, <3>1 DEF MessageOK, Explains, HistoryOK
  <2>4. /\ u \in Terms(h) /\ SliceOf(x, h.log[u])
        /\ CommitOK(h, u, h.log[u], x.leader_commit)
    BY <1>0, <2>3 DEF AeOK
  <2>5. PICK b \in Seq(NormalEntry) : b = h.log[u] /\ Coherent(h, b) /\ SliceOf(x, b)
    BY <2>3, <2>4, HistoryFacts DEF HistoryOK
  <2>6. ServerOK(h, s, f)
    BY <1>1, <2>2, <2>3, CalmOK
  <2>7. PICK a \in Seq(NormalEntry), ci \in Nat : a = f.log /\ ci = f.commit_idx
    BY <2>2 DEF FixedServer
  <2>8. Holds(a, b, ci)
    <3>1. CommitOK(h, u, a, ci)
      BY <2>2, <2>6, <2>7 DEF ServerOK
    <3> QED
      BY <2>3, <2>4, <2>5, <3>1, CommitInLeader
  <2>9. Holds(f.log, b, f.commit_idx)
    BY <2>7, <2>8
  \* r is what f takes over from b.
  <2>10. ASSUME r \in FixedServer(s), Took(h, f, r, x, b, y.success)
         PROVE  Proceeds(h, s)
    <3>1. PICK c \in Seq(NormalEntry), e \in Nat :
            /\ c = r.log /\ Follows(a, b, c, e) /\ Takes(f, r) /\ r.voted_for = f.voted_for
            /\ f.commit_idx <= r.commit_idx
            /\ r.commit_idx = f.commit_idx \/ CommitOK(h, u, c, r.commit_idx)
            /\ y.success => x.prev_log_idx + Len(x.entries) <= e
      BY <1>0, <2>7, <2>10 DEF Took
    <3>2. NoVote(m, r) /\ r.current_term = u
      BY <2>2, <3>1 DEF NoVote, Takes
    <3>3. Answers(out, s, u, e)
      <4>1. x.prev_log_idx + Len(x.entries) \in Nat
        BY DEF AeMsg
      <4> QED
        BY <1>4, <3>1, <3>2, <4>1 DEF Answers
    <3>4. \E k : StepOK(h, k, srv, srv', s, r, out)
      BY <1>1, <2>2, <2>4, <2>5, <2>7, <2>10, <3>1, <3>2, <3>3, TakesStepOK
    <3> QED
      BY <1>0, <1>3, <3>4 DEF Proceeds
  <2>11. CASE PrevCheck(f, x) = "ok" /\ res = [me |-> AcceptEntries(s, f, x), success |-> TRUE]
    <3>1. r = AcceptEntries(s, f, x) /\ res.success = TRUE
      BY <1>2, <2>11
    <3> HIDE DEF res
    <3>2. y.success = TRUE
      BY <1>4, <3>1
    <3>3. x.prev_log_idx = 0 => x.prev_log_term = 0
      BY DEF LogInv, LinksElected, AeMsg, Msgs
    <3>4. f.front = 0 /\ Coherent(h, f.log)
      BY <2>6 DEF ServerOK
    <3>5. CommitOK(h, x.term, b, x.leader_commit) /\ x.term \in Nat
      BY <1>0, <2>4, <2>5
    <3>6. r \in FixedServer(s) /\ Took(h, f, r, x, b, TRUE)
      BY <2>2, <2>3, <2>5, <2>9, <2>11, <3>1, <3>3, <3>4, <3>5, AcceptTook
    <3> QED
      BY <1>0, <2>10, <3>2, <3>6
  <2>12. CASE PrevCheck(f, x) = "missing" /\ res = [me |-> f, success |-> FALSE]
    <3>1. r = f /\ res.success = FALSE
      BY <1>2, <2>12
    <3> HIDE DEF res
    <3>2. \A q \in out : MessageOK(h, srv', q)
      BY <1>4, <3>1 DEF MessageOK
    <3>3. VoteOK(srv, srv', s, f)
      BY <1>1, <2>2, NoVoteOK
    <3>4. StepOK(h, h, srv, srv', s, r, out)
      BY <1>1, <2>2, <3>1, <3>2, <3>3, CalmStepOK
    <3> QED
      BY <1>0, <1>3, <3>4 DEF Proceeds
  <2>13. CASE /\ PrevCheck(f, x) = "conflict"
              /\ res = [me |-> raft_delete_entry_from_idx(f, x.prev_log_idx), success |-> FALSE]
    <3>1. r = raft_delete_entry_from_idx(f, x.prev_log_idx) /\ res.success = FALSE
      BY <1>2, <2>13
    <3> HIDE DEF res
    <3>2. y.success = FALSE
      BY <1>4, <3>1
    <3>3. /\ x.prev_log_idx \in 1..Len(f.log) /\ x.prev_log_idx <= Len(b)
          /\ f.log[x.prev_log_idx].term # b[x.prev_log_idx].term
      BY <2>2, <2>5, <2>9, <2>13, PrevChecked
    <3>4. r \in FixedServer(s) /\ Took(h, f, r, x, b, FALSE)
      BY <2>2, <3>1, <3>3, ConflictTook
    <3> QED
      BY <1>0, <2>10, <3>2, <3>4
  <2>14. PrevCheck(f, x) # "shutdown"
    BY <2>2, <2>5, <2>9, PrevChecked
  <2> QED
    BY <1>0, <1>1, <1>5, <1>6, <2>1, <2>11, <2>12, <2>13, <2>14, RecvEntriesIs
<1> QED
  BY <1>0, <1>1, <1>5, <1>6, RecvEntriesIs

-----------------------------------------------------------------------------
(* Every step has a history.                                               *)

\* A step of s to record r, with messages out.
LEMMA MoveOK ==
  ASSUME ServerAssumption, BoundAssumption, Inv, Inv', VoteStep, NEW h, NEW k, History(h),
         NEW s \in InitialMembers, NEW r, NEW out, srv'[s] = r,
         \A q \in InitialMembers \ {s} : srv'[q] = srv[q],
         Msgs' \subseteq Msgs \cup out, StepOK(h, k, srv, srv', s, r, out)
  PROVE  Later(h, k) /\ History(k)'
<1>0. /\ ElectionInv /\ FixedTypes /\ VoteInv /\ Explains(h, srv, Msgs) /\ ElectionInv'
      /\ FixedTypes'
  BY DEF Inv, ElectionInv, History
<1>1. \A q \in InitialMembers : srv[q] \in FixedServer(q) /\ srv'[q] \in FixedServer(q)
  BY <1>0, FixedFacts
<1>2. ASSUME NEW p \in InitialMembers, NEW c \in InitialMembers, NEW t \in 0..MaxTerm
      PROVE  /\ Voted(srv, Msgs, p, c, t) => t <= srv[p].current_term
             /\ Voted(srv', Msgs', p, c, t)
                  => Voted(srv, Msgs, p, c, t) \/ FreshIn(srv, srv', p, c, t)
  <2>1. HasVoted(p, c, t) <=> Voted(srv, Msgs, p, c, t)
    BY DEF HasVoted, Voted, Msgs
  <2>2. HasVoted(p, c, t)' <=> Voted(srv', Msgs', p, c, t)
    BY DEF HasVoted, Voted, Msgs
  <2>3. FreshVote(p, c, t) => FreshIn(srv, srv', p, c, t)
    BY DEF FreshVote, FreshIn
  <2>4. HasVoted(p, c, t) => t <= srv[p].current_term
    BY <1>0 DEF VoteInv
  <2>5. HasVoted(p, c, t)' => HasVoted(p, c, t) \/ FreshVote(p, c, t)
    BY DEF VoteStep
  <2> HIDE DEF HasVoted
  <2> QED
    BY <2>1, <2>2, <2>3, <2>4, <2>5
<1>3. /\ srv[s].current_term <= r.current_term
      /\ r.current_term = srv[s].current_term /\ srv[s].voted_for # NoNode
           => r.voted_for = srv[s].voted_for
      /\ r.state = "CANDIDATE" =>
           \/ srv[s].state = "CANDIDATE" /\ r.current_term = srv[s].current_term
           \/ srv[s].current_term < r.current_term
  BY DEF VoteStep
<1>4. Steps(srv, srv', Msgs, Msgs', s, r)
  BY <1>1, <1>2, <1>3 DEF Steps
<1>5. Msgs \subseteq Message
  BY <1>0 DEF FixedTypes, Msgs, Message
<1>6. Explains(k, srv', Msgs')
  BY <1>0, <1>3, <1>4, <1>5, StepExplained
<1>7. Explains(k, srv, Msgs)'
  BY <1>6
<1>8. Grows(h, k, s, srv[s], r) /\ Later(h, k) /\ HistoryType(k)
  BY DEF StepOK, Grows, HistoryOK
<1>9. ASSUME NEW l \in InitialMembers, NEW u \in Terms(k), k.who[u] = l
      PROVE  Elected(l, u)'
  <2>0. u \in 0..MaxTerm
    BY <1>8, HistoryFacts
  <2>1. CASE u \in Terms(h)
    <3>1. Elected(l, u)
      BY <1>8, <1>9, <2>1 DEF History, Later
    <3> QED
      BY <1>0, <2>0, <3>1, ElectedKept
  <2>2. CASE u \notin Terms(h)
    <3>1. r.state = "LEADER" /\ r.current_term = u /\ l = s
      BY <1>8, <1>9, <2>2 DEF Grows
    <3>2. LeadersWin'
      BY <1>0, WinnersLeadNext
    <3>3. Elected(s, srv[s].current_term)'
      BY <3>1, <3>2 DEF LeadersWin
    <3>4. srv'[s].current_term = u
      BY <3>1
    <3> QED
      BY <3>1, <3>3, <3>4
  <2> QED
    BY <2>1, <2>2
<1>10. History(k)'
  BY <1>7, <1>9 DEF History
<1> QED
  BY <1>8, <1>10

LEMMA ProceedsOK ==
  ASSUME ServerAssumption, BoundAssumption, Inv, Inv', VoteStep, NEW h, History(h),
         NEW s \in InitialMembers, Proceeds(h, s)
  PROVE  \E k : Later(h, k) /\ History(k)'
<1>1. PICK k, r, out :
        /\ srv' = [srv EXCEPT ![s] = r]
        /\ \/ msgs' = msgs /\ out = {}
           \/ Exchange(EmptyBag, out)
           \/ \E x : Exchange(SetToBag({x}), out)
        /\ StepOK(h, k, srv, srv', s, r, out)
  BY DEF Proceeds
<1>2. DOMAIN srv = Server /\ InitialMembers \subseteq Server /\ IsABag(msgs)
  BY DEF Inv, ElectionInv, FixedTypes, ServerAssumption
<1>3. srv'[s] = r /\ \A q \in InitialMembers \ {s} : srv'[q] = srv[q]
  BY <1>1, <1>2
<1>4. Msgs' \subseteq Msgs \cup out
  <2>1. CASE msgs' = msgs
    BY <2>1 DEF Msgs, BagToSet
  <2>2. CASE Exchange(EmptyBag, out) \/ \E x : Exchange(SetToBag({x}), out)
    BY <1>2, <2>2, ExchangeMsgs DEF Msgs
  <2> QED
    BY <1>1, <2>1, <2>2
<1>5. Later(h, k) /\ History(k)'
  BY <1>1, <1>3, <1>4, MoveOK
<1> QED
  BY <1>5

\* No member does anything, and no message is new.
LEMMA IdleOK ==
  ASSUME ServerAssumption, BoundAssumption, Inv, Inv', VoteStep, NEW h, History(h),
         \A q \in InitialMembers : srv'[q] = srv[q], Msgs' \subseteq Msgs
  PROVE  Later(h, h) /\ History(h)'
<1>1. PICK s \in InitialMembers : TRUE
  BY DEF ServerAssumption
<1>2. ElectionInv
  BY DEF Inv
<1>3. StepOK(h, h, srv, srv', s, srv[s], {})
  BY <1>2, QuietStepOK
<1>4. Msgs' \subseteq Msgs \cup {}
  OBVIOUS
<1> QED
  BY <1>3, <1>4, MoveOK

\* A server that is not a member knows of nothing.
OutsidersIdle ==
  \A s \in Server \ InitialMembers :
    /\ srv[s].commit_idx = 0 /\ srv[s].current_leader = NoNode
    /\ srv[s].fsm = << >> /\ srv[s].last_applied_idx = 0

LEMMA OutsiderApplies ==
  ASSUME ServerAssumption, BoundAssumption, FixedTypes, OutsidersIdle,
         NEW s \in Server \ InitialMembers
  PROVE  raft_apply_all(s, srv[s]) = srv[s]
<1> DEFINE m == srv[s]
<1>1. /\ m \in FixedServer(s) /\ m.state = "FOLLOWER" /\ m.log = << >>
  BY OutsiderFacts
<1>2. m.commit_idx = 0 /\ m.last_applied_idx = 0 /\ m.base = 0
  BY <1>1 DEF OutsidersIdle, FixedServer
<1>3. log_get_current_idx(m) = 0
  BY <1>1, <1>2 DEF log_get_current_idx
<1>4. Unapplied(m) = << >>
  <2>1. Unapplied(m) = SubSeq(m.log, 1, 0)
    BY <1>2, <1>3 DEF Unapplied, min
  <2> QED
    BY <1>1, <2>1
<1>5. raft_apply_all(s, m) = Applied(m, << >>)
  BY <1>1, <1>4, ApplyAll
<1> QED
  BY <1>1, <1>5, AppliedNone

\* What a step leaves to the servers that are not members.
LEMMA MemberStepIdle ==
  ASSUME ServerAssumption, FixedTypes, OutsidersIdle, NEW s \in InitialMembers, NEW r,
         srv' = [srv EXCEPT ![s] = r]
  PROVE  OutsidersIdle'
<1>1. DOMAIN srv = Server
  BY DEF FixedTypes
<1>2. \A q \in Server \ InitialMembers : srv'[q] = srv[q]
  BY <1>1
<1> QED
  BY <1>2 DEF OutsidersIdle

\* One server moves forward.
OneMoves ==
  \E s \in Server : /\ \A q \in Server \ {s} : srv'[q] = srv[q]
                    /\ Forward(srv[s], srv'[s])

\* A history explains the state, and it is the one before, some time later.
Continues(h) == OutsidersIdle' /\ OneMoves /\ \E k : Later(h, k) /\ History(k)'

LEMMA MemberContinues ==
  ASSUME ServerAssumption, BoundAssumption, Inv, Inv', VoteStep, OutsidersIdle,
         NEW h, History(h), NEW s \in InitialMembers, Proceeds(h, s)
  PROVE  Continues(h)
<1>1. \E k : Later(h, k) /\ History(k)'
  BY ProceedsOK
<1>2. OutsidersIdle'
  BY MemberStepIdle DEF Proceeds, Inv, ElectionInv
<1>3. OneMoves
  <2>1. PICK k, r, out :
          /\ srv' = [srv EXCEPT ![s] = r]
          /\ \/ msgs' = msgs /\ out = {}
             \/ Exchange(EmptyBag, out)
             \/ \E x : Exchange(SetToBag({x}), out)
          /\ StepOK(h, k, srv, srv', s, r, out)
    BY DEF Proceeds
  <2>2. DOMAIN srv = Server /\ s \in Server
    BY DEF Inv, ElectionInv, FixedTypes, ServerAssumption
  <2>3. srv'[s] = r /\ \A q \in Server \ {s} : srv'[q] = srv[q]
    BY <2>1, <2>2
  <2>4. Forward(srv[s], r)
    BY <2>1 DEF StepOK
  <2> QED
    BY <2>2, <2>3, <2>4 DEF OneMoves
<1> QED
  BY <1>1, <1>2, <1>3 DEF Continues

LEMMA LossContinues ==
  ASSUME ServerAssumption, BoundAssumption, Inv, OutsidersIdle, NEW h, History(h),
         UNCHANGED <<srv, entries, snapshots>>,
         \/ msgs' = msgs
         \/ \E x : msgs' = msgs (-) SetToBag({x})
  PROVE  Continues(h)
<1>1. Inv' /\ VoteStep
  BY LossOK
<1>2. Msgs' \subseteq Msgs
  <2>1. IsABag(msgs)
    BY DEF Inv, ElectionInv, FixedTypes
  <2>2. DOMAIN msgs' \subseteq DOMAIN msgs
    BY <2>1, BagMinus
  <2> QED
    BY <2>2 DEF Msgs, BagToSet
<1>3. Later(h, h) /\ History(h)'
  BY <1>1, <1>2, IdleOK
<1>4. OutsidersIdle'
  BY DEF OutsidersIdle
<1>5. OneMoves
  <2>1. PICK s \in InitialMembers : s \in Server
    BY DEF ServerAssumption
  <2>2. srv[s].commit_idx \in Nat /\ Len(srv[s].fsm) \in Nat
    <3>1. PICK m \in FixedServer(s) : m = srv[s]
      BY <2>1 DEF Inv, ElectionInv, FixedTypes
    <3>2. m.commit_idx \in Nat /\ Len(m.fsm) \in Nat
      BY DEF FixedServer
    <3> QED
      BY <3>1, <3>2
  <2>3. Forward(srv[s], srv'[s])
    BY <2>2 DEF Forward
  <2> QED
    BY <2>1, <2>3 DEF OneMoves
<1> QED
  BY <1>3, <1>4, <1>5 DEF Continues

LEMMA OutsiderContinues ==
  ASSUME ServerAssumption, BoundAssumption, Inv, Inv', VoteStep, OutsidersIdle,
         NEW h, History(h), NEW s \in Server \ InitialMembers,
         \/ srv' = [srv EXCEPT ![s].timeout_elapsed = TRUE]
         \/ srv' = [srv EXCEPT ![s] = raft_apply_all(s, srv[s])],
         \/ msgs' = msgs
         \/ Exchange(EmptyBag, {})
  PROVE  Continues(h)
<1>0. FixedTypes /\ DOMAIN srv = Server /\ IsABag(msgs) /\ InitialMembers \subseteq Server
      /\ srv[s] \in FixedServer(s)
  BY DEF Inv, ElectionInv, FixedTypes, ServerAssumption
<1>1. \A q \in Server \ {s} : srv'[q] = srv[q]
  BY <1>0
<1>2. /\ srv'[s].commit_idx = srv[s].commit_idx
      /\ srv'[s].current_leader = srv[s].current_leader
      /\ srv'[s].fsm = srv[s].fsm /\ srv'[s].last_applied_idx = srv[s].last_applied_idx
  <2>1. CASE srv' = [srv EXCEPT ![s].timeout_elapsed = TRUE]
    BY <1>0, <2>1 DEF FixedServer
  <2>2. CASE srv' = [srv EXCEPT ![s] = raft_apply_all(s, srv[s])]
    BY <1>0, <2>2, OutsiderApplies
  <2> QED
    BY <2>1, <2>2
<1>3. OutsidersIdle'
  BY <1>1, <1>2 DEF OutsidersIdle
<1>4. Msgs' \subseteq Msgs
  <2>1. CASE msgs' = msgs
    BY <2>1 DEF Msgs, BagToSet
  <2>2. CASE Exchange(EmptyBag, {})
    BY <1>0, <2>2, ExchangeMsgs DEF Msgs
  <2> QED
    BY <2>1, <2>2
<1>5. \A q \in InitialMembers : srv'[q] = srv[q]
  BY <1>0, <1>1
<1>6. Later(h, h) /\ History(h)'
  BY <1>4, <1>5, IdleOK
<1>7. OneMoves
  <2>1. srv[s].commit_idx \in Nat /\ Len(srv[s].fsm) \in Nat
    BY <1>0 DEF FixedServer
  <2>2. Forward(srv[s], srv'[s])
    BY <1>2, <2>1 DEF Forward
  <2> QED
    BY <1>1, <2>2 DEF OneMoves
<1> QED
  BY <1>3, <1>6, <1>7 DEF Continues

LEMMA PeriodicContinues ==
  ASSUME ServerAssumption, BoundAssumption, Inv, OutsidersIdle, NEW h, History(h),
         NEW s \in Server, Periodic(s)
  PROVE  Continues(h)
<1>0. ElectionInv /\ FixedTypes
  BY DEF Inv, ElectionInv
<1>1. Inv' /\ VoteStep
  BY PeriodicOK
<1>2. CASE s \in InitialMembers
  <2>1. Proceeds(h, s)
    BY <1>0, <1>2, ElapseProceeds, SoleVoterProceeds, HeartbeatProceeds, ElectionProceeds,
       ApplyProceeds DEF Periodic
  <2> QED
    BY <1>1, <1>2, <2>1, MemberContinues
<1>3. CASE s \notin InitialMembers
  <2>1. srv[s].state = "FOLLOWER" /\ VotingNodes(srv[s]) = {} /\ ~AmVoting(s, srv[s])
    BY <1>0, <1>3, OutsiderFacts
  <2>2. ~PeriodicSoleVoter(s) /\ ~PeriodicHeartbeat(s) /\ ~PeriodicElection(s)
    BY <2>1 DEF PeriodicSoleVoter, SoleVoter, PeriodicHeartbeat, PeriodicElection
  <2>3. CASE Elapse(s)
    BY <1>1, <1>3, <2>3, OutsiderContinues DEF Elapse
  <2>4. CASE PeriodicApply(s)
    BY <1>1, <1>3, <2>4, OutsiderContinues DEF PeriodicApply, EndPeriodic
  <2> QED
    BY <2>2, <2>3, <2>4 DEF Periodic
<1> QED
  BY <1>2, <1>3

LEMMA DeliverContinues ==
  ASSUME ServerAssumption, BoundAssumption, Inv, OutsidersIdle, NEW h, History(h),
         NEW x \in BagToSet(msgs), Deliver(x)
  PROVE  Continues(h)
<1>0. ElectionInv /\ LogInv /\ FixedTypes /\ x \in Msgs
  BY DEF Inv, ElectionInv, Msgs
<1>1. x \in Message /\ x.src # x.dst
  BY <1>0 DEF FixedTypes, Message
<1>2. Inv' /\ VoteStep /\ x.dst \in InitialMembers
  BY <1>1, MessageKind, DeliverOK
<1>3. CASE FailRpc(x)
  BY <1>3, LossContinues DEF FailRpc
<1>4. ~raft_load_snapshot(x)
  BY <1>1, MessageKind DEF raft_load_snapshot
<1>5. CASE raft_recv_requestvote(x)
  <2>1. x \in RvMsg
    BY <1>1, <1>5, MessageKind DEF raft_recv_requestvote
  <2> QED
    BY <1>0, <1>1, <1>2, <1>5, <2>1, RequestVoteProceeds, MemberContinues
<1>6. CASE raft_recv_requestvote_response(x)
  <2>1. x \in RvrMsg
    BY <1>1, <1>6, MessageKind DEF raft_recv_requestvote_response
  <2> QED
    BY <1>0, <1>1, <1>2, <1>6, <2>1, VoteResponseProceeds, MemberContinues
<1>7. CASE raft_recv_appendentries(x)
  <2>1. x \in AeMsg
    BY <1>1, <1>7, MessageKind DEF raft_recv_appendentries
  <2> QED
    BY <1>0, <1>1, <1>2, <1>7, <2>1, EntriesProceeds, MemberContinues
<1>8. CASE raft_recv_appendentries_response(x)
  <2>1. x \in AerMsg
    BY <1>1, <1>8, MessageKind DEF raft_recv_appendentries_response
  <2> QED
    BY <1>0, <1>1, <1>2, <1>8, <2>1, EntriesResponseProceeds, MemberContinues
<1> QED
  BY <1>3, <1>4, <1>5, <1>6, <1>7, <1>8 DEF Deliver

LEMMA SubmitContinues ==
  ASSUME ServerAssumption, BoundAssumption, FixedMembers, Inv, OutsidersIdle, NEW h, History(h),
         NEW s \in Server, NEW type \in EntryTypes, NEW p \in Server \cup {NoNode},
         raft_recv_entry(s, type, p)
  PROVE  Continues(h)
<1>0. ElectionInv /\ FixedTypes /\ srv[s].state = "LEADER"
  BY DEF Inv, ElectionInv, raft_recv_entry
<1>1. Inv' /\ VoteStep
  BY SubmitOK
<1>2. s \in InitialMembers
  BY <1>0 DEF FixedTypes
<1>3. Proceeds(h, s)
  BY <1>0, <1>2, ReceiveEntryProceeds
<1> QED
  BY <1>1, <1>2, <1>3, MemberContinues

LEMMA NextContinues ==
  ASSUME FixedCluster, Inv, OutsidersIdle, NEW h, History(h), [Next]_vars
  PROVE  Continues(h)
<1>0. ServerAssumption /\ BoundAssumption /\ FixedMembers /\ FixedTypes
  BY DEF FixedCluster, Inv, ElectionInv
<1>1. CASE \E s \in Server : Periodic(s)
  BY <1>0, <1>1, PeriodicContinues
<1>2. ASSUME NEW s \in Server, UserCall(s)
      PROVE  Continues(h)
  <2>1. PICK type \in EntryTypes, p \in Server \cup {NoNode} : raft_recv_entry(s, type, p)
    BY <1>0, <1>2, NoSnapshots DEF UserCall
  <2> QED
    BY <1>0, <2>1, SubmitContinues
<1>3. CASE \E x \in BagToSet(msgs) : Deliver(x)
  BY <1>0, <1>3, DeliverContinues
<1>4. CASE UNCHANGED vars
  BY <1>0, <1>4, LossContinues DEF vars
<1> QED
  BY <1>1, <1>2, <1>3, <1>4 DEF Next

\* Before the first election
NoHistory ==
  [log |-> [u \in {} |-> << >>], start |-> [u \in {} |-> 0], who |-> [u \in {} |-> NoNode],
   ack |-> [u \in {} |-> << >>]]

\* Some history explains the state.
SafetyInv == OutsidersIdle /\ \E h : History(h)

LEMMA InitHistory ==
  ASSUME FixedCluster, Init
  PROVE  OutsidersIdle /\ History(NoHistory)
<1>0. ServerAssumption /\ BoundAssumption /\ FixedMembers
  BY DEF FixedCluster
<1> DEFINE h == NoHistory
<1>1. DOMAIN srv = Server /\ (\A s \in Server : srv[s] = raft_new(s)) /\ InitialMembers \subseteq Server
  BY <1>0 DEF Init, FixedMembers, ServerAssumption
<1>2. Msgs = {}
  BY DEF Init, Msgs, BagToSet, EmptyBag, SetToBag
<1>3. Terms(h) = {} /\ HistoryType(h)
  BY DEF Terms, NoHistory, HistoryType
<1>4. HistoryOK(h)
  BY <1>3 DEF HistoryOK
<1>5. \A s \in Server :
        /\ srv[s].front = 0 /\ srv[s].state = "FOLLOWER" /\ srv[s].log = << >>
        /\ srv[s].commit_idx = 0 /\ srv[s].fsm = << >> /\ srv[s].last_applied_idx = 0
        /\ srv[s].current_leader = NoNode /\ srv[s].voted_for = NoNode
  <2>1. ASSUME NEW s \in Server, NEW m, m = raft_new(s)
        PROVE  /\ m.front = 0 /\ m.state = "FOLLOWER" /\ m.log = << >>
               /\ m.commit_idx = 0 /\ m.fsm = << >> /\ m.last_applied_idx = 0
               /\ m.current_leader = NoNode /\ m.voted_for = NoNode
    BY <2>1 DEF raft_new
  <2> QED
    BY <1>1, <2>1
<1>6. OutsidersIdle
  BY <1>5 DEF OutsidersIdle
<1>7. Len(<< >>) = 0 /\ 1..0 = {}
  OBVIOUS
<1> HIDE DEF h
<1>8. ASSUME NEW q \in InitialMembers PROVE ServerOK(h, q, srv[q])
  <2>1. q # NoNode /\ q \in Server
    BY <1>0, <1>1 DEF ServerAssumption
  <2>2. PICK m : m = srv[q]
    OBVIOUS
  <2>3. /\ m.front = 0 /\ m.state = "FOLLOWER" /\ m.log = << >>
        /\ m.commit_idx = 0 /\ m.fsm = << >> /\ m.last_applied_idx = 0
        /\ m.current_leader # q
    BY <1>5, <2>1, <2>2
  <2>4. Coherent(h, m.log) /\ Within(m.log, m.current_term)
    BY <1>7, <2>3 DEF Coherent, Within
  <2>5. CommitOK(h, m.current_term, m.log, m.commit_idx)
    BY <2>3 DEF CommitOK
  <2>6. FsmOK(m)
    BY <1>7, <2>3 DEF FsmOK, Holds
  <2>7. PastOK(h, q, m)
    BY <1>3 DEF PastOK
  <2> QED
    BY <2>2, <2>3, <2>4, <2>5, <2>6, <2>7 DEF ServerOK
<1>9. ReachedOK(h, srv) /\ LeadersHave(h, srv) /\ ServersHave(h, srv)
      /\ CandidatesHave(h, srv, Msgs)
  BY <1>3 DEF ReachedOK, LeadersHave, ServersHave, CandidatesHave
<1>10. VotedReached(srv)
  BY <1>0, <1>1, <1>5 DEF VotedReached, ServerAssumption
<1>11. Explains(h, srv, Msgs)
  BY <1>2, <1>4, <1>8, <1>9, <1>10 DEF Explains
<1>12. History(h)
  BY <1>3, <1>11 DEF History
<1> QED
  BY <1>6, <1>12 DEF h

LEMMA NextSafe ==
  ASSUME FixedCluster, Inv, SafetyInv, [Next]_vars
  PROVE  SafetyInv'
<1>1. PICK h : History(h)
  BY DEF SafetyInv
<1>2. Continues(h)
  BY <1>1, NextContinues DEF SafetyInv
<1> QED
  BY <1>2 DEF Continues, SafetyInv

-----------------------------------------------------------------------------
(* What a history says about the servers.                                  *)

\* Two committed parts of logs agree.
LEMMA CommitsAgree ==
  ASSUME BoundAssumption, NEW h, NEW S, HistoryOK(h), LeadersHave(h, S),
         NEW a \in Seq(NormalEntry), NEW b \in Seq(NormalEntry), NEW c \in Nat, NEW d \in Nat,
         NEW t, NEW u, CommitOK(h, t, a, c), CommitOK(h, u, b, d), c <= d
  PROVE  Holds(a, b, c)
<1>0. HistoryType(h)
  BY DEF HistoryOK
<1>1. CASE c = 0
  BY <1>1 DEF Holds
<1>2. CASE c # 0
  <2>1. PICK v \in Terms(h), n \in Nat :
          /\ h.start[v] < n /\ n <= Len(h.log[v]) /\ c <= n
          /\ Confirmed(h, v, n) /\ Holds(a, h.log[v], c)
    BY <1>2 DEF CommitOK
  <2>2. PICK w \in Terms(h), i \in Nat :
          /\ h.start[w] < i /\ i <= Len(h.log[w]) /\ d <= i
          /\ Confirmed(h, w, i) /\ Holds(b, h.log[w], d)
    BY <1>2 DEF CommitOK
  <2>3. v \in Nat /\ w \in Nat
    BY <1>0, HistoryFacts
  <2>4. PICK x \in Terms(h) : v <= x /\ w <= x
    <3>1. CASE v <= w
      BY <2>3, <3>1
    <3>2. CASE w <= v
      BY <2>3, <3>2
    <3> QED
      BY <2>3, <3>1, <3>2
  <2>5. CommitOK(h, x, a, c) /\ CommitOK(h, x, b, d)
    BY <2>1, <2>2, <2>4 DEF CommitOK
  <2>6. PICK l \in Seq(NormalEntry) : l = h.log[x]
    BY <1>0, HistoryFacts
  <2>7. Holds(a, l, c) /\ Holds(b, l, d)
    BY <2>5, <2>6, CommitInLeader
  <2>8. Holds(l, b, c)
    BY <2>7, HoldsLess
  <2> QED
    BY <2>7, <2>8, HoldsTrans
<1> QED
  BY <1>1, <1>2

\* The state a safe state is in, for one server
LEMMA SafeMember ==
  ASSUME ServerAssumption, BoundAssumption, Inv, NEW h, History(h), NEW s \in InitialMembers
  PROVE  /\ ServerOK(h, s, srv[s]) /\ HistoryOK(h) /\ LeadersHave(h, srv)
         /\ srv[s].log \in Seq(NormalEntry) /\ Len(srv[s].log) \in Nat /\ srv[s].base = 0
         /\ srv[s].fsm \in Seq(NormalEntry) /\ Len(srv[s].fsm) \in Nat
         /\ srv[s].commit_idx \in Nat /\ srv[s].commit_idx <= Len(srv[s].log)
         /\ srv[s].current_term \in Nat
<1>1. ElectionInv /\ Explains(h, srv, Msgs)
  BY DEF Inv, History
<1>2. /\ srv[s] \in FixedServer(s) /\ ServerOK(h, s, srv[s]) /\ HistoryOK(h)
      /\ LeadersHave(h, srv) /\ srv[s].log \in Seq(NormalEntry) /\ Len(srv[s].log) \in Nat
      /\ srv[s].commit_idx \in Nat /\ srv[s].current_term \in Nat
  BY <1>1, MemberFacts DEF Explains
<1>3. srv[s].fsm \in Seq(NormalEntry) /\ srv[s].base = 0
  BY <1>2 DEF FixedServer
<1>4. Len(srv[s].fsm) \in Nat
  BY <1>3
<1>5. CommitOK(h, srv[s].current_term, srv[s].log, srv[s].commit_idx)
  BY <1>2 DEF ServerOK
<1>6. srv[s].commit_idx <= Len(srv[s].log)
  BY <1>2, <1>5, CommitInLog
<1> QED
  BY <1>2, <1>3, <1>4, <1>6

\* What a member takes for committed is the committed part of its log.
LEMMA CommittedIs ==
  ASSUME ServerAssumption, BoundAssumption, Inv, NEW h, History(h), NEW s \in InitialMembers
  PROVE  /\ Committed(srv[s]) = [i \in 1..srv[s].commit_idx |-> srv[s].log[i]]
         /\ \A i \in 1..srv[s].commit_idx : Committed(srv[s])[i] = srv[s].log[i]
<1> DEFINE m == srv[s]
<1>1. /\ m.log \in Seq(NormalEntry) /\ m.base = 0 /\ Len(m.log) \in Nat /\ Len(m.fsm) \in Nat
      /\ m.commit_idx \in Nat /\ m.commit_idx <= Len(m.log) /\ ServerOK(h, s, m)
  BY SafeMember
<1>2. Len(m.fsm) <= m.commit_idx /\ \A i \in 1..Len(m.fsm) : m.fsm[i] = m.log[i]
  BY <1>1 DEF ServerOK, FsmOK, Holds
<1>3. \A i \in 1..m.commit_idx :
        (IF i <= Len(m.fsm) THEN m.fsm[i] ELSE log_get_at_idx(m, i)) = m.log[i]
  BY <1>1, <1>2 DEF log_get_at_idx
<1> QED
  BY <1>3 DEF Committed

LEMMA KnownServers ==
  ASSUME Inv
  PROVE  Servers = Server
  BY ServersAre DEF Inv, ElectionInv

LEMMA SafeShutdown ==
  ASSUME ServerAssumption, BoundAssumption, Inv, SafetyInv
  PROVE  \A s \in Server : srv[s].state # "DOWN"
<1>1. PICK h : History(h)
  BY DEF SafetyInv
<1>2. \A s \in Server \ InitialMembers : srv[s].state # "DOWN"
  BY DEF Inv, ElectionInv, FixedTypes
<1>3. \A s \in InitialMembers : srv[s].state # "DOWN"
  BY <1>1, SafeMember DEF ServerOK
<1> QED
  BY <1>2, <1>3

LEMMA SafeLeader ==
  ASSUME ServerAssumption, BoundAssumption, Inv, SafetyInv
  PROVE  LeaderKnowsItself
<1>1. PICK h : History(h)
  BY DEF SafetyInv
<1>2. \A s \in Server \ InitialMembers : srv[s].state = "FOLLOWER" /\ srv[s].current_leader # s
  BY DEF Inv, ElectionInv, FixedTypes, SafetyInv, OutsidersIdle, ServerAssumption
<1>3. \A s \in InitialMembers : srv[s].current_leader = s <=> srv[s].state = "LEADER"
  BY <1>1, SafeMember DEF ServerOK
<1> QED
  BY <1>2, <1>3, KnownServers DEF LeaderKnowsItself

LEMMA SafeMatch ==
  ASSUME ServerAssumption, BoundAssumption, Inv, SafetyInv
  PROVE  MatchIdxSound
<1> SUFFICES ASSUME NEW l \in Server, NEW p \in DOMAIN srv[l].nodes \ {l},
                    srv[l].state = "LEADER", srv[p].current_term = srv[l].current_term,
                    NEW i \in 1..srv[l].nodes[p].match_idx
             PROVE  /\ i <= log_get_current_idx(srv[p])
                    /\ (HasEntry(srv[l], i) /\ HasEntry(srv[p], i))
                         => log_get_at_idx(srv[l], i) = log_get_at_idx(srv[p], i)
  BY KnownServers DEF MatchIdxSound
<1>1. PICK h : History(h)
  BY DEF SafetyInv
<1>2. l \in InitialMembers
  BY DEF Inv, ElectionInv, FixedTypes
<1>3. p \in InitialMembers /\ srv[l].nodes[p].match_idx \in Nat
  <2>1. srv[l].nodes \in [InitialMembers -> MemberNode(l)]
    BY <1>2, FixedFacts DEF Inv, ElectionInv
  <2> QED
    BY <2>1 DEF MemberNode
<1>4. /\ ServerOK(h, l, srv[l]) /\ ServerOK(h, p, srv[p]) /\ HistoryOK(h)
      /\ srv[l].log \in Seq(NormalEntry) /\ srv[l].base = 0 /\ Len(srv[l].log) \in Nat
      /\ srv[p].log \in Seq(NormalEntry) /\ srv[p].base = 0 /\ Len(srv[p].log) \in Nat
  BY <1>1, <1>2, <1>3, SafeMember
<1>5. PICK u \in Terms(h) :
        /\ u = srv[l].current_term /\ h.log[u] = srv[l].log
        /\ srv[l].nodes[p].match_idx <= h.ack[u][p]
  BY <1>3, <1>4 DEF ServerOK, LeaderOK
<1>6. Holds(srv[p].log, srv[l].log, h.ack[u][p]) /\ h.ack[u][p] \in Nat
  BY <1>3, <1>4, <1>5, HistoryFacts DEF ServerOK, PastOK, HistoryOK
<1>7. i \in 1..h.ack[u][p]
  BY <1>3, <1>5, <1>6
<1>8. i <= Len(srv[p].log) /\ srv[p].log[i] = srv[l].log[i] /\ i \in Nat
  BY <1>4, <1>6, <1>7 DEF Holds
<1> QED
  BY <1>4, <1>8 DEF log_get_current_idx, log_get_at_idx

LEMMA SafeCompleteness ==
  ASSUME ServerAssumption, BoundAssumption, Inv, SafetyInv
  PROVE  LeaderCompleteness
<1> SUFFICES ASSUME NEW s \in Server, NEW l \in Server, srv[l].state = "LEADER",
                    srv[s].current_term <= srv[l].current_term,
                    NEW i \in 1..srv[s].commit_idx
             PROVE  /\ i <= log_get_current_idx(srv[l])
                    /\ HasEntry(srv[l], i) => log_get_at_idx(srv[l], i) = Committed(srv[s])[i]
  BY KnownServers DEF LeaderCompleteness
<1>1. PICK h : History(h)
  BY DEF SafetyInv
<1>2. l \in InitialMembers /\ s \in InitialMembers
  BY DEF Inv, ElectionInv, FixedTypes, SafetyInv, OutsidersIdle
<1>3. /\ ServerOK(h, l, srv[l]) /\ ServerOK(h, s, srv[s]) /\ HistoryOK(h)
      /\ srv[l].log \in Seq(NormalEntry) /\ srv[l].base = 0 /\ Len(srv[l].log) \in Nat
      /\ srv[s].log \in Seq(NormalEntry) /\ srv[s].commit_idx \in Nat /\ LeadersHave(h, srv)
      /\ srv[s].current_term \in Nat /\ srv[l].current_term \in Nat
  BY <1>1, <1>2, SafeMember
<1>4. PICK u \in Terms(h) : u = srv[l].current_term /\ h.log[u] = srv[l].log
  BY <1>3 DEF ServerOK, LeaderOK
<1>5. CommitOK(h, srv[s].current_term, srv[s].log, srv[s].commit_idx)
  BY <1>3 DEF ServerOK
<1>6. CommitOK(h, u, srv[s].log, srv[s].commit_idx)
  <2>1. \A v \in Terms(h) : v \in Nat
    BY <1>3, HistoryFacts DEF HistoryOK
  <2> QED
    BY <1>3, <1>4, <1>5, <2>1 DEF CommitOK
<1>7. Holds(srv[s].log, srv[l].log, srv[s].commit_idx)
  BY <1>3, <1>4, <1>6, CommitInLeader
<1>8. i <= Len(srv[l].log) /\ srv[l].log[i] = srv[s].log[i] /\ i \in Nat
  BY <1>3, <1>7 DEF Holds
<1>9. Committed(srv[s])[i] = srv[s].log[i]
  BY <1>1, <1>2, CommittedIs
<1> QED
  BY <1>3, <1>8, <1>9 DEF log_get_current_idx, log_get_at_idx

\* Sequences of which one holds the other are prefixes.
LEMMA HoldsPrefix ==
  ASSUME NEW a \in Seq(NormalEntry), NEW b \in Seq(NormalEntry), Holds(a, b, Len(a))
  PROVE  IsPrefix(a, b)
<1>1. Len(a) \in Nat /\ Len(b) \in Nat /\ Len(a) <= Len(b) /\ \A i \in 1..Len(a) : a[i] = b[i]
  BY DEF Holds
<1>2. SubSeq(a, 1, Len(a)) = [i \in 1..Len(a) |-> a[i]]
  BY <1>1
<1>3. SubSeq(b, 1, Len(a)) = [i \in 1..Len(a) |-> b[i]]
  BY <1>1
<1> QED
  BY <1>1, <1>2, <1>3 DEF IsPrefix

LEMMA SafeMachines ==
  ASSUME ServerAssumption, BoundAssumption, Inv, SafetyInv
  PROVE  StateMachineSafety
<1>1. PICK h : History(h)
  BY DEF SafetyInv
<1>2. ASSUME NEW s \in InitialMembers, NEW t \in InitialMembers,
             srv[s].commit_idx <= srv[t].commit_idx
      PROVE  IsPrefix(srv[s].fsm, srv[t].fsm) \/ IsPrefix(srv[t].fsm, srv[s].fsm)
  <2>1. PICK a \in Seq(NormalEntry), b \in Seq(NormalEntry), f \in Seq(NormalEntry),
             g \in Seq(NormalEntry), c \in Nat, d \in Nat :
          /\ a = srv[s].log /\ b = srv[t].log /\ f = srv[s].fsm /\ g = srv[t].fsm
          /\ c = srv[s].commit_idx /\ d = srv[t].commit_idx
    BY <1>1, SafeMember
  <2>2. /\ ServerOK(h, s, srv[s]) /\ ServerOK(h, t, srv[t]) /\ HistoryOK(h)
        /\ LeadersHave(h, srv) /\ Len(f) \in Nat /\ Len(g) \in Nat
    BY <1>1, SafeMember
  <2>3. Holds(a, b, c)
    <3>1. CommitOK(h, srv[s].current_term, a, c) /\ CommitOK(h, srv[t].current_term, b, d)
      BY <2>1, <2>2 DEF ServerOK
    <3> QED
      BY <1>2, <2>1, <2>2, <3>1, CommitsAgree
  <2>4. Holds(f, a, Len(f)) /\ Len(f) <= c /\ Holds(g, b, Len(g))
    BY <2>1, <2>2 DEF ServerOK, FsmOK
  <2>5. Holds(a, b, Len(f))
    BY <2>2, <2>3, <2>4, HoldsLess
  <2>6. Holds(f, b, Len(f))
    BY <2>2, <2>4, <2>5, HoldsTrans
  <2>7. Holds(f, g, Len(f)) \/ Holds(g, f, Len(g))
    BY <2>2, <2>4, <2>6 DEF Holds
  <2> QED
    BY <2>1, <2>7, HoldsPrefix
<1>3. ASSUME NEW s \in Server PROVE srv[s].last_applied_idx = Len(srv[s].fsm)
  <2>1. CASE s \in InitialMembers
    BY <1>1, <2>1, SafeMember DEF ServerOK, FsmOK
  <2>2. CASE s \notin InitialMembers
    <3>1. Len(<< >>) = 0
      OBVIOUS
    <3> QED
      BY <2>2, <3>1 DEF SafetyInv, OutsidersIdle
  <2> QED
    BY <2>1, <2>2
<1>4. ASSUME NEW s \in Server, NEW t \in Server
      PROVE  IsPrefix(srv[s].fsm, srv[t].fsm) \/ IsPrefix(srv[t].fsm, srv[s].fsm)
  <2>1. CASE s \in InitialMembers /\ t \in InitialMembers
    <3>1. srv[s].commit_idx \in Nat /\ srv[t].commit_idx \in Nat
      BY <1>1, <2>1, SafeMember
    <3>2. srv[s].commit_idx <= srv[t].commit_idx \/ srv[t].commit_idx <= srv[s].commit_idx
      BY <3>1
    <3> QED
      BY <1>2, <2>1, <3>2
  <2>2. ASSUME NEW q \in Server \ InitialMembers, NEW p \in Server
        PROVE  IsPrefix(srv[q].fsm, srv[p].fsm)
    <3>1. srv[q].fsm = << >>
      BY DEF SafetyInv, OutsidersIdle
    <3>2. PICK f \in Seq(NormalEntry) : f = srv[p].fsm
      BY DEF Inv, ElectionInv, FixedTypes, FixedServer
    <3>3. << >> \in Seq(NormalEntry) /\ Len(<< >>) = 0 /\ Len(f) \in Nat
      OBVIOUS
    <3>4. Holds(<< >>, f, Len(<< >>))
      BY <3>3 DEF Holds
    <3> QED
      BY <3>1, <3>2, <3>3, <3>4, HoldsPrefix
  <2> QED
    BY <2>1, <2>2
<1> QED
  BY <1>3, <1>4, KnownServers DEF StateMachineSafety

LEMMA SafeState ==
  ASSUME FixedCluster, Inv, SafetyInv
  PROVE  RaftSafety
<1>1. TypeOK /\ ElectionSafety /\ LogMatching
  BY TypesOK, OneLeader, LogsMatch DEF FixedCluster, Inv
<1>2. LeaderCompleteness /\ StateMachineSafety
  BY SafeCompleteness, SafeMachines DEF FixedCluster
<1> QED
  BY <1>1, <1>2 DEF RaftSafety

LEMMA SafeBookkeeping ==
  ASSUME FixedCluster, Inv, SafetyInv
  PROVE  LeaderBookkeeping /\ \A s \in Server : srv[s].state # "DOWN"
<1>1. \A s \in Server : srv[s].state # "DOWN"
  BY SafeShutdown DEF FixedCluster
<1>2. NeverShutdown
  BY <1>1, KnownServers DEF NeverShutdown
<1>3. MatchIdxSound /\ LeaderKnowsItself
  BY SafeMatch, SafeLeader DEF FixedCluster
<1> QED
  BY <1>1, <1>2, <1>3 DEF LeaderBookkeeping

\* In every state of a cluster with fixed members some history explains what the
\* servers hold and what is on its way: what each elected leader had in its log, and
\* what each server has confirmed of it (raft_recv_appendentries and its response).
THEOREM RaftHistory == FixedCluster => (Spec => []SafetyInv)
<1> SUFFICES ASSUME FixedCluster
             PROVE  Spec => []SafetyInv
  OBVIOUS
<1>1. Init => Inv /\ SafetyInv
  BY InitOK, InitHistory DEF FixedCluster, SafetyInv
<1>2. Inv /\ SafetyInv /\ [Next]_vars => Inv' /\ SafetyInv'
  BY NextOK, NextSafe DEF FixedCluster
<1> QED
  BY <1>1, <1>2, PTL DEF Spec

\* What Raft promises, in the library's own steps and for any cluster: no two leaders of
\* a term; logs that agree on an entry agree on all before it; a leader has every entry
\* that a server of its term or an older one holds for committed, because
\* raft_become_leader is only reached with a log as up to date as those of a majority
\* (__should_grant_vote) and only entries of the own term are committed by counting
\* (raft_recv_appendentries_response); and no two servers apply different entries at an
\* index (raft_apply_entry).
THEOREM RaftIsSafe == FixedCluster => (Spec => []RaftSafety)
<1> SUFFICES ASSUME FixedCluster
             PROVE  Spec => []RaftSafety
  OBVIOUS
<1>1. ElectionInv /\ LogInv /\ SafetyInv => RaftSafety
  BY SafeState DEF Inv
<1> QED
  BY <1>1, RaftInvariant, RaftHistory, PTL

\* The match_idx a leader keeps of a peer (raft_recv_appendentries_response) never
\* exceeds what that peer shares with the leader, however late or reordered the
\* responses are; a server takes itself for the leader exactly while it is; and no
\* server meets what the library takes for impossible.
THEOREM RaftBookkeeping == FixedCluster => (Spec => []LeaderBookkeeping)
<1> SUFFICES ASSUME FixedCluster
             PROVE  Spec => []LeaderBookkeeping
  OBVIOUS
<1>1. ElectionInv /\ LogInv /\ SafetyInv => LeaderBookkeeping
  BY SafeBookkeeping DEF Inv
<1> QED
  BY <1>1, RaftInvariant, RaftHistory, PTL

\* With fixed members no server ever stops: the RAFT_ERR_SHUTDOWN returns of
\* raft_recv_appendentries, for a conflict at or below the commit index, and of
\* raft_apply_entry are never reached.
THEOREM RaftNeverDown ==
  FixedCluster => (Spec => [](\A s \in Server : srv[s].state # "DOWN"))
<1> SUFFICES ASSUME FixedCluster
             PROVE  Spec => [](\A s \in Server : srv[s].state # "DOWN")
  OBVIOUS
<1>1. ElectionInv /\ LogInv /\ SafetyInv => \A s \in Server : srv[s].state # "DOWN"
  BY SafeBookkeeping DEF Inv
<1> QED
  BY <1>1, RaftInvariant, RaftHistory, PTL

-----------------------------------------------------------------------------
(* The replicated store.                                                   *)

\* The entry a saved request stands for is in the log of the leader that took it.
SavedOK(h, r) ==
  r.in_use => /\ r.term \in Terms(h) /\ r.idx \in 1..Len(h.log[r.term])
              /\ h.log[r.term][r.idx].id = r.id

\* An acknowledged entry is committed, by a leader of the term of the answer or before.
AckOK(h, a) ==
  /\ a.term \in Nat
  /\ \E v \in Terms(h), n \in Nat :
       /\ v <= a.term /\ h.start[v] < n /\ n <= Len(h.log[v]) /\ Confirmed(h, v, n)
       /\ a.idx \in 1..n /\ h.log[v][a.idx].id = a.id

Answered(h) ==
  /\ DOMAIN sav = Server /\ \A s \in Server : SavedOK(h, sav[s])
  /\ \A a \in acked : AckOK(h, a)

\* The history explains the servers, and what the store has promised.
StoreHistory(h) == History(h) /\ Answered(h)
StoreSafetyInv == OutsidersIdle /\ \E h : StoreHistory(h)

LEMMA SavedLater ==
  ASSUME BoundAssumption, NEW h, NEW k, HistoryType(h), HistoryType(k), Later(h, k),
         NEW r, SavedOK(h, r)
  PROVE  SavedOK(k, r)
<1> SUFFICES ASSUME r.in_use
             PROVE  /\ r.term \in Terms(k) /\ r.idx \in 1..Len(k.log[r.term])
                    /\ k.log[r.term][r.idx].id = r.id
  BY DEF SavedOK
<1>1. /\ r.term \in Terms(h) /\ r.idx \in 1..Len(h.log[r.term])
      /\ h.log[r.term][r.idx].id = r.id
  BY DEF SavedOK
<1>2. r.term \in Terms(k) /\ Holds(k.log[r.term], h.log[r.term], Len(h.log[r.term]))
  BY <1>1 DEF Later
<1>3. PICK a \in Seq(NormalEntry), b \in Seq(NormalEntry) : a = h.log[r.term] /\ b = k.log[r.term]
  BY <1>1, <1>2, HistoryFacts
<1>4. Len(a) \in Nat /\ Len(b) \in Nat
  BY <1>3
<1>5. PICK i \in 1..Len(a) : i = r.idx /\ a[i].id = r.id
  BY <1>1, <1>3
<1>6. i \in 1..Len(b) /\ b[i] = a[i]
  BY <1>2, <1>3, <1>4, <1>5 DEF Holds
<1> QED
  BY <1>2, <1>3, <1>5, <1>6

LEMMA AckLater ==
  ASSUME BoundAssumption, NEW h, NEW k, HistoryType(h), HistoryType(k), Later(h, k),
         NEW a, AckOK(h, a)
  PROVE  AckOK(k, a)
<1>1. PICK v \in Terms(h), n \in Nat :
        /\ v <= a.term /\ h.start[v] < n /\ n <= Len(h.log[v]) /\ Confirmed(h, v, n)
        /\ a.idx \in 1..n /\ h.log[v][a.idx].id = a.id
  BY DEF AckOK
<1>2. /\ v \in Terms(k) /\ k.start[v] = h.start[v]
      /\ Holds(k.log[v], h.log[v], Len(h.log[v]))
  BY DEF Later
<1>3. Len(k.log[v]) \in Nat /\ Len(h.log[v]) \in Nat
  BY <1>2, HistoryFacts
<1>4. PICK i \in Nat : i = a.idx /\ i \in 1..Len(h.log[v])
  BY <1>1, <1>3
<1>5. Len(h.log[v]) <= Len(k.log[v]) /\ k.log[v][i] = h.log[v][i]
  BY <1>2, <1>4 DEF Holds
<1>6. n <= Len(k.log[v]) /\ k.log[v][a.idx].id = a.id
  BY <1>1, <1>3, <1>4, <1>5
<1>7. Confirmed(k, v, n)
  BY <1>1, ConfirmedLater
<1> QED
  BY <1>1, <1>2, <1>6, <1>7 DEF AckOK

LEMMA HistoryTypes ==
  ASSUME NEW h
  PROVE  /\ History(h) => HistoryType(h) /\ HistoryOK(h)
         /\ History(h)' => HistoryType(h) /\ HistoryOK(h)
  BY DEF History, Explains, HistoryOK

\* The store promises nothing new.
LEMMA PromisesKept ==
  ASSUME BoundAssumption, NEW h, StoreHistory(h), Continues(h), UNCHANGED <<sav, acked>>
  PROVE  StoreSafetyInv'
<1>1. PICK k : Later(h, k) /\ History(k)'
  BY DEF Continues
<1>2. HistoryType(h) /\ HistoryType(k)
  BY <1>1, HistoryTypes DEF StoreHistory
<1>3. \A s \in Server : SavedOK(k, sav'[s])
  BY <1>1, <1>2, SavedLater DEF StoreHistory, Answered
<1>4. \A a \in acked' : AckOK(k, a)
  BY <1>1, <1>2, AckLater DEF StoreHistory, Answered
<1>5. DOMAIN sav' = Server
  BY DEF StoreHistory, Answered
<1>6. StoreHistory(k)'
  BY <1>1, <1>3, <1>4, <1>5 DEF StoreHistory, Answered
<1> QED
  BY <1>6 DEF Continues, StoreSafetyInv

\* What raft_recv_entry leaves at the leader
LEMMA SubmittedIs ==
  ASSUME ServerAssumption, BoundAssumption, FixedMembers, ElectionInv, NEW s \in InitialMembers,
         NEW type \in EntryTypes, NEW p \in Server \cup {NoNode}, raft_recv_entry(s, type, p)
  PROVE  \E e \in NormalEntry :
           /\ e.id = entries + 1 /\ srv'[s].log = Append(srv[s].log, e)
           /\ srv'[s].state = "LEADER" /\ srv'[s].current_term = srv[s].current_term
           /\ srv'[s].base = 0
<1> DEFINE m == srv[s]
<1>1. PICK e, m1, r, ps :
           /\ e \in NormalEntry /\ m1 \in FixedServer(s)
           /\ m.state = "LEADER" /\ e.term = m.current_term /\ e.id = entries + 1
           /\ RingOK(m1) /\ m1.log = Append(m.log, e) /\ (m1.front = 0 \/ m1.front = m.front)
           /\ m1.state = m.state /\ m1.current_term = m.current_term
           /\ m1.voted_for = m.voted_for /\ m1.nodes = m.nodes
           /\ m1.commit_idx = m.commit_idx /\ m1.last_applied_idx = m.last_applied_idx
           /\ m1.fsm = m.fsm /\ m1.current_leader = m.current_leader
           /\ ps \in SUBSET (InitialMembers \ {s})
           /\ \/ r = m1
              \/ InitialMembers = {s} /\ r = [m1 EXCEPT !.commit_idx = Len(m1.log)]
           /\ srv' = [srv EXCEPT ![s] = r] /\ Exchange(EmptyBag, SendTo(s, m1, ps))
  BY ReceiveEntryIs
<1>2. r.log = m1.log /\ r.state = m1.state /\ r.current_term = m1.current_term /\ r.base = 0
  BY <1>1 DEF FixedServer
<1>3. s \in DOMAIN srv
  BY DEF ElectionInv, FixedTypes, ServerAssumption
<1>4. srv'[s] = r
  BY <1>1, <1>3
<1> QED
  BY <1>1, <1>2, <1>4

\* The server that takes a request saves where its entry is.
LEMMA AcceptPromises ==
  ASSUME FixedCluster, Inv, ClientInv, OutsidersIdle, NEW h, StoreHistory(h), ClientReqAccept
  PROVE  Continues(h) /\ StoreSafetyInv'
<1>0. /\ ServerAssumption /\ BoundAssumption /\ FixedMembers /\ ElectionInv /\ History(h)
      /\ FixedTypes
  BY DEF FixedCluster, Inv, ElectionInv, StoreHistory
<1>1. PICK s \in Server : s = client.leader_idx
  BY DEF ClientInv, Client
<1>2. /\ raft_recv_entry(s, "NORMAL", NoNode) /\ acked' = acked /\ entries' = entries + 1
      /\ sav' = [sav EXCEPT ![s] = [in_use |-> TRUE, req |-> client.req, id |-> entries',
                                    idx |-> log_get_current_idx(srv'[s]),
                                    term |-> srv[s].current_term]]
  BY <1>1 DEF ClientReqAccept, raft_recv_entry
<1>3. "NORMAL" \in EntryTypes
  BY <1>0 DEF FixedMembers
<1>4. s \in InitialMembers
  <2>1. srv[s].state = "LEADER"
    BY <1>2 DEF raft_recv_entry
  <2> QED
    BY <1>0, <2>1 DEF FixedTypes
<1>5. Continues(h)
  BY <1>0, <1>2, <1>3, SubmitContinues
<1>6. PICK k : Later(h, k) /\ History(k)'
  BY <1>5 DEF Continues
<1>7. HistoryType(h) /\ HistoryType(k)
  BY <1>0, <1>6, HistoryTypes
<1>8. PICK e, r :
        /\ e \in NormalEntry
        /\ e.id = entries + 1 /\ r = srv'[s] /\ r.log = Append(srv[s].log, e)
        /\ r.state = "LEADER" /\ r.current_term = srv[s].current_term /\ r.base = 0
  <2>1. NoNode \in Server \cup {NoNode}
    OBVIOUS
  <2> QED
    BY <1>0, <1>2, <1>3, <1>4, <2>1, SubmittedIs
<1>9. r.state = "LEADER" /\ r.current_term = srv[s].current_term /\ r.base = 0
  BY <1>8
<1>10. srv'[s] = r
  BY <1>8
<1>11. /\ srv[s].log \in Seq(NormalEntry) /\ Len(srv[s].log) \in Nat
  BY <1>0, <1>4, FixedFacts
<1>12. PICK i \in Nat : i = Len(srv[s].log) + 1
  BY <1>11
<1>13. Len(r.log) = i /\ i \in 1..i /\ r.log[i] = e
  BY <1>8, <1>9, <1>11, <1>12
<1>14. ServerOK(k, s, r)
  BY <1>4, <1>6, <1>10 DEF History, Explains
<1>15. r.current_term \in Terms(k) /\ k.log[r.current_term] = r.log
  BY <1>9, <1>14 DEF ServerOK, LeaderOK
<1>16. PICK w : /\ w = [in_use |-> TRUE, req |-> client.req, id |-> entries',
                        idx |-> log_get_current_idx(srv'[s]), term |-> srv[s].current_term]
                /\ sav' = [sav EXCEPT ![s] = w]
  BY <1>2
<1>17. log_get_current_idx(srv'[s]) = i
  BY <1>9, <1>10, <1>12, <1>13 DEF log_get_current_idx
<1>18. w.term = r.current_term /\ w.idx = i /\ w.id = entries + 1
  BY <1>2, <1>9, <1>16, <1>17
<1>19. SavedOK(k, w)
  BY <1>8, <1>13, <1>15, <1>18 DEF SavedOK
<1>20. DOMAIN sav = Server
  BY DEF StoreHistory, Answered
<1>21. ASSUME NEW q \in Server PROVE SavedOK(k, sav'[q])
  <2>1. CASE q = s
    BY <1>16, <1>19, <1>20, <2>1
  <2>2. CASE q # s
    <3>1. sav'[q] = sav[q] /\ SavedOK(h, sav[q])
      BY <1>16, <1>20, <2>2 DEF StoreHistory, Answered
    <3>2. SavedOK(k, sav[q])
      BY <1>0, <1>6, <1>7, <3>1, SavedLater
    <3> QED
      BY <3>1, <3>2
  <2> QED
    BY <2>1, <2>2
<1>22. \A a \in acked' : AckOK(k, a)
  BY <1>0, <1>2, <1>6, <1>7, AckLater DEF StoreHistory, Answered
<1>23. DOMAIN sav' = Server
  BY <1>16, <1>20
<1>24. StoreHistory(k)'
  BY <1>6, <1>21, <1>22, <1>23 DEF StoreHistory, Answered
<1> QED
  BY <1>5, <1>24 DEF Continues, StoreSafetyInv

\* The server answers: the entry it has saved is the one that is committed.
LEMMA CheckCommitPromises ==
  ASSUME FixedCluster, Inv, OutsidersIdle, NEW h, StoreHistory(h), NEW s \in Server, CheckCommit(s)
  PROVE  Continues(h) /\ StoreSafetyInv'
<1>0. /\ ServerAssumption /\ BoundAssumption /\ FixedMembers /\ ElectionInv /\ History(h)
      /\ FixedTypes /\ DOMAIN srv = Server /\ InitialMembers \subseteq Server
  BY DEF FixedCluster, Inv, ElectionInv, StoreHistory, FixedTypes, ServerAssumption
<1>1. Inv' /\ VoteStep
  BY <1>0, CheckCommitOK
<1> DEFINE m == srv[s]
           i == sav[s].idx
           t == sav[s].term
<1>2. /\ sav[s].in_use /\ HasEntry(m, i) /\ log_get_at_idx(m, i).term = t /\ i <= m.commit_idx
  BY DEF CheckCommit, raft_msg_entry_response_committed
<1>3. /\ t \in Terms(h) /\ i \in 1..Len(h.log[t]) /\ h.log[t][i].id = sav[s].id
  BY <1>2 DEF StoreHistory, Answered, SavedOK
<1>4. HistoryType(h) /\ HistoryOK(h) /\ Len(h.log[t]) \in Nat
  BY <1>0, <1>3, HistoryTypes, HistoryFacts
<1>5. s \in InitialMembers
  <2>1. i \in Nat \ {0}
    BY <1>3, <1>4
  <2>2. m.commit_idx # 0
    BY <1>2, <2>1
  <2> QED
    BY <2>2 DEF OutsidersIdle
<1>6. /\ ServerOK(h, s, m) /\ m.log \in Seq(NormalEntry) /\ Len(m.log) \in Nat /\ m.base = 0
      /\ m.commit_idx \in Nat /\ m.commit_idx <= Len(m.log) /\ m.current_term \in Nat
  BY <1>0, <1>5, SafeMember
<1>7. i \in 1..Len(m.log) /\ m.log[i].term = t /\ i \in Nat
  BY <1>2, <1>3, <1>4, <1>6 DEF HasEntry, log_get_at_idx, log_get_current_idx
<1>8. m.log[i].id = sav[s].id
  <2>1. Holds(h.log[t], m.log, i)
    BY <1>6, <1>7 DEF ServerOK, Coherent
  <2> HIDE DEF m, i, t
  <2>2. i \in 1..i
    BY <1>7
  <2>3. h.log[t][i] = m.log[i]
    BY <2>1, <2>2 DEF Holds
  <2> QED
    BY <1>3, <2>3
<1>9. PICK a : a = [id |-> sav[s].id, idx |-> sav[s].idx, term |-> srv[s].current_term]
  OBVIOUS
<1>10. AckOK(h, a)
  <2>1. PICK v \in Terms(h), n \in Nat :
          /\ v <= m.current_term /\ h.start[v] < n /\ n <= Len(h.log[v]) /\ m.commit_idx <= n
          /\ Confirmed(h, v, n) /\ Holds(m.log, h.log[v], m.commit_idx)
    BY <1>2, <1>3, <1>4, <1>6 DEF ServerOK, CommitOK
  <2>2. i \in 1..m.commit_idx /\ i \in 1..n
    BY <1>2, <1>6, <1>7, <2>1
  <2>3. h.log[v][i] = m.log[i]
    BY <2>1, <2>2 DEF Holds
  <2> HIDE DEF m, i, t
  <2>4. a.term = m.current_term /\ a.idx = i /\ a.id = sav[s].id
    BY <1>9 DEF m, i
  <2> QED
    BY <1>6, <1>8, <2>1, <2>2, <2>3, <2>4 DEF AckOK
<1>11. Proceeds(h, s)
  <2>1. PICK T, r : T = [srv EXCEPT ![s] = srv[s]] /\ r = raft_apply_all(s, srv[s])
    OBVIOUS
  <2>2. StepOK(h, h, srv, T, s, srv[s], {})
    BY <1>0, <1>5, QuietStepOK
  <2>3. srv[s] \in FixedServer(s) /\ RingOK(srv[s]) /\ srv[s].fsm \in Seq(NormalEntry)
    BY <1>0, <1>5, FixedFacts DEF FixedServer
  <2>4. srv' = [srv EXCEPT ![s] = r] /\ msgs' = msgs
    BY <2>1 DEF CheckCommit
  <2>5. StepOK(h, h, srv, srv', s, r, {})
    BY <1>0, <1>5, <2>1, <2>2, <2>3, <2>4, ApplyStep
  <2> QED
    BY <2>4, <2>5 DEF Proceeds
<1>12. Continues(h)
  BY <1>0, <1>1, <1>5, <1>11, MemberContinues
<1>13. PICK k : Later(h, k) /\ History(k)'
  BY <1>12 DEF Continues
<1>14. HistoryType(k)
  BY <1>13, HistoryTypes
<1>15. \A b \in acked' : AckOK(k, b)
  <2>1. acked' = acked \cup {a}
    BY <1>9 DEF CheckCommit
  <2>2. \A b \in acked' : AckOK(h, b)
    BY <1>10, <2>1 DEF StoreHistory, Answered
  <2> QED
    BY <1>0, <1>4, <1>13, <1>14, <2>2, AckLater
<1>16. DOMAIN sav = Server /\ sav' = [sav EXCEPT ![s].in_use = FALSE]
  BY DEF StoreHistory, Answered, CheckCommit
<1>17. ASSUME NEW q \in Server PROVE SavedOK(k, sav'[q])
  <2>1. CASE q = s
    <3>1. PICK w : w = [sav[s] EXCEPT !.in_use = FALSE]
      OBVIOUS
    <3>2. sav'[q] = w
      BY <1>16, <2>1, <3>1
    <3>3. ~w.in_use \/ w.in_use = sav[s].in_use
      BY <3>1
    <3> QED
      BY <3>1, <3>2, <3>3 DEF SavedOK
  <2>2. CASE q # s
    <3>1. sav'[q] = sav[q] /\ SavedOK(h, sav[q])
      BY <1>16, <2>2 DEF StoreHistory, Answered
    <3>2. SavedOK(k, sav[q])
      BY <1>0, <1>4, <1>13, <1>14, <3>1, SavedLater
    <3> QED
      BY <3>1, <3>2
  <2> QED
    BY <2>1, <2>2
<1>18. DOMAIN sav' = Server
  BY <1>16
<1>19. StoreHistory(k)'
  BY <1>13, <1>15, <1>17, <1>18 DEF StoreHistory, Answered
<1> QED
  BY <1>12, <1>19 DEF Continues, StoreSafetyInv

LEMMA StoreNextSafe ==
  ASSUME FixedCluster, Inv, ClientInv, StoreSafetyInv, [SmrNext]_<<vars, smrVars>>
  PROVE  StoreSafetyInv' /\ \E h : History(h) /\ Continues(h)
<1>0. ServerAssumption /\ BoundAssumption /\ FixedMembers
  BY DEF FixedCluster
<1>1. PICK h : StoreHistory(h)
  BY DEF StoreSafetyInv
<1>2. History(h) /\ OutsidersIdle
  BY <1>1 DEF StoreHistory, StoreSafetyInv
<1> SUFFICES Continues(h) /\ StoreSafetyInv'
  BY <1>2
<1>3. CASE UNCHANGED <<vars, sav, acked>>
  <2>1. Continues(h)
    BY <1>0, <1>2, <1>3, LossContinues DEF vars
  <2> QED
    BY <1>0, <1>1, <1>3, <2>1, PromisesKept
<1>4. CASE ClientReqAccept
  BY <1>1, <1>2, <1>4, AcceptPromises
<1>5. CASE \E s \in Server : Periodic(s) /\ UNCHANGED smrVars
  <2>1. Continues(h)
    BY <1>0, <1>2, <1>5, PeriodicContinues
  <2> QED
    BY <1>0, <1>1, <1>5, <2>1, PromisesKept DEF smrVars
<1>6. CASE \E x \in BagToSet(msgs) : Deliver(x) /\ UNCHANGED smrVars
  <2>1. Continues(h)
    BY <1>0, <1>2, <1>6, DeliverContinues
  <2> QED
    BY <1>0, <1>1, <1>6, <2>1, PromisesKept DEF smrVars
<1>7. CASE \E s \in Server : CheckCommit(s)
  BY <1>1, <1>2, <1>7, CheckCommitPromises
<1> QED
  BY <1>3, <1>4, <1>5, <1>6, <1>7 DEF SmrNext, ClientNext, ServerNext, SendReqOne,
     ClientReqTryAgain, ClientReqRedirect, ClientCont, ClientContFailure, smrVars

\* A leader of the term of an answer, or of a later one, has the entry.
LEMMA SafeAcks ==
  ASSUME FixedCluster, Inv, StoreSafetyInv
  PROVE  AckedIsDurable
<1>0. ServerAssumption /\ BoundAssumption
  BY DEF FixedCluster
<1> SUFFICES ASSUME NEW a \in acked, NEW l \in Server, srv[l].state = "LEADER",
                    a.term <= srv[l].current_term
             PROVE  HasEntry(srv[l], a.idx) /\ log_get_at_idx(srv[l], a.idx).id = a.id
  BY KnownServers DEF AckedIsDurable
<1>1. PICK h : StoreHistory(h)
  BY DEF StoreSafetyInv
<1>2. History(h) /\ AckOK(h, a)
  BY <1>1 DEF StoreHistory, Answered
<1>3. l \in InitialMembers
  BY DEF Inv, ElectionInv, FixedTypes
<1>4. /\ ServerOK(h, l, srv[l]) /\ HistoryOK(h) /\ LeadersHave(h, srv)
      /\ srv[l].log \in Seq(NormalEntry) /\ Len(srv[l].log) \in Nat /\ srv[l].base = 0
      /\ srv[l].current_term \in Nat
  BY <1>0, <1>2, <1>3, SafeMember
<1>5. PICK u \in Terms(h) : u = srv[l].current_term /\ h.log[u] = srv[l].log
  BY <1>4 DEF ServerOK, LeaderOK
<1>6. PICK v \in Terms(h), n \in Nat :
        /\ v <= a.term /\ h.start[v] < n /\ n <= Len(h.log[v]) /\ Confirmed(h, v, n)
        /\ a.idx \in 1..n /\ h.log[v][a.idx].id = a.id
  BY <1>2 DEF AckOK
<1>7. /\ h.log[v] \in Seq(NormalEntry) /\ Len(h.log[v]) \in Nat /\ v \in Nat /\ a.term \in Nat
  BY <1>0, <1>2, <1>4, HistoryFacts DEF HistoryOK, AckOK
<1>8. PICK b \in Seq(NormalEntry) : b = h.log[v]
  BY <1>7
<1>9. CommitOK(h, u, b, n)
  <2>1. Holds(b, h.log[v], n) /\ v <= u
    BY <1>4, <1>5, <1>6, <1>7, <1>8, HoldsSelf
  <2> QED
    BY <1>6, <2>1 DEF CommitOK
<1>10. Holds(b, srv[l].log, n)
  BY <1>0, <1>4, <1>5, <1>9, CommitInLeader
<1>11. PICK i \in Nat : i = a.idx /\ i \in 1..n
  BY <1>6
<1>12. i <= Len(srv[l].log) /\ srv[l].log[i] = b[i]
  BY <1>4, <1>10, <1>11 DEF Holds
<1>13. HasEntry(srv[l], i) /\ log_get_at_idx(srv[l], i) = b[i]
  BY <1>4, <1>11, <1>12 DEF HasEntry, log_get_at_idx, log_get_current_idx
<1> QED
  BY <1>6, <1>8, <1>11, <1>13

LEMMA StoreInitSafe ==
  ASSUME FixedCluster, SmrInit
  PROVE  StoreSafetyInv
<1>1. OutsidersIdle /\ History(NoHistory)
  BY InitHistory DEF SmrInit
<1>2. DOMAIN sav = Server /\ acked = {} /\ \A s \in Server : sav[s] = leader_saveinfo_t
  BY DEF SmrInit
<1>3. Answered(NoHistory)
  BY <1>2 DEF Answered, SavedOK, leader_saveinfo_t
<1> QED
  BY <1>1, <1>3 DEF StoreSafetyInv, StoreHistory

\* Some history explains the servers of the store, the requests they have saved
\* (leader_saveinfo) and the answers they have given.
THEOREM StoreHistories == FixedCluster => (SmrSpec => []StoreSafetyInv)
<1> SUFFICES ASSUME FixedCluster
             PROVE  SmrSpec => []StoreSafetyInv
  OBVIOUS
<1>1. SmrInit => StoreSafetyInv
  BY StoreInitSafe
<1>2. ElectionInv /\ LogInv /\ ClientInv /\ StoreSafetyInv /\ [SmrNext]_<<vars, smrVars>>
        => StoreSafetyInv'
  BY StoreNextSafe DEF Inv
<1> QED
  BY <1>1, <1>2, StoreInvariant, PTL DEF SmrSpec

\* A PUT answered with kSuccess (server_func, after raft_msg_entry_response_committed)
\* is in the log of every leader of that term or a later one: elections, lost RPCs and
\* overwritten entries of other servers cannot undo it.
THEOREM StoreAckedIsDurable == FixedCluster => (SmrSpec => []AckedIsDurable)
<1> SUFFICES ASSUME FixedCluster
             PROVE  SmrSpec => []AckedIsDurable
  OBVIOUS
<1>1. ElectionInv /\ LogInv /\ StoreSafetyInv => AckedIsDurable
  BY SafeAcks DEF Inv
<1> QED
  BY <1>1, StoreInvariant, StoreHistories, PTL

\* The servers of the store, whose main loop calls the library between requests and
\* polls, keep Raft's guarantees; and client_req_handler's rt_assert holds: a server that
\* takes itself for the leader is the leader.
THEOREM StoreIsSafe == FixedCluster => (SmrSpec => [](RaftSafety /\ LeaderBookkeeping))
<1> SUFFICES ASSUME FixedCluster
             PROVE  SmrSpec => [](RaftSafety /\ LeaderBookkeeping)
  OBVIOUS
<1>1. ElectionInv /\ LogInv /\ StoreSafetyInv => RaftSafety /\ LeaderBookkeeping
  <2>1. StoreSafetyInv => SafetyInv
    BY DEF StoreSafetyInv, SafetyInv, StoreHistory
  <2> QED
    BY <2>1, SafeState, SafeBookkeeping DEF Inv
<1> QED
  BY <1>1, StoreInvariant, StoreHistories, PTL

-----------------------------------------------------------------------------
(* The cluster is one replicated log.                                      *)

\* No server holds more for committed than s does.
Top(s) == \A t \in Server : srv[t].commit_idx <= srv[s].commit_idx
TopKnown == \E s \in Server : Top(s)

LEMMA ServerCommits ==
  ASSUME ServerAssumption, BoundAssumption, Inv, NEW s \in Server
  PROVE  srv[s].commit_idx \in Nat /\ srv[s].fsm \in Seq(NormalEntry)
<1>1. PICK m \in FixedServer(s) : m = srv[s]
  BY DEF Inv, ElectionInv, FixedTypes
<1>2. m.commit_idx \in Nat /\ m.fsm \in Seq(NormalEntry)
  BY <1>1 DEF FixedServer
<1> QED
  BY <1>1, <1>2

LEMMA ChosenIs ==
  ASSUME ServerAssumption, Inv, TopKnown
  PROVE  \E s \in Server : Top(s) /\ Chosen = Committed(srv[s])
<1>1. DOMAIN srv = Server
  BY KnownServers DEF Servers
<1>2. PICK s \in Server :
        s = CHOOSE p \in Servers : \A t \in Servers : srv[t].commit_idx <= srv[p].commit_idx
  BY <1>1 DEF TopKnown, Top, Servers
<1>3. Top(s)
  BY <1>1, <1>2 DEF TopKnown, Top, Servers
<1>4. Chosen = Committed(srv[s])
  BY <1>2 DEF Chosen
<1> QED
  BY <1>3, <1>4

\* What a server has for committed is so, and begins with what it has applied.
Knows(h, m, a, f) ==
  /\ a = Committed(m) /\ f = m.fsm /\ Len(a) = m.commit_idx
  /\ \E t \in Nat : CommitOK(h, t, a, Len(a))
  /\ Len(f) \in Nat /\ Len(f) <= Len(a) /\ Holds(f, a, Len(f))

LEMMA ServerKnows ==
  ASSUME ServerAssumption, BoundAssumption, Inv, OutsidersIdle, NEW h, History(h),
         NEW s \in Server
  PROVE  \E a \in Seq(NormalEntry), f \in Seq(NormalEntry) : Knows(h, srv[s], a, f)
<1>1. CASE s \in InitialMembers
  <2>1. PICK b \in Seq(NormalEntry), f \in Seq(NormalEntry), c \in Nat, t \in Nat :
          b = srv[s].log /\ f = srv[s].fsm /\ c = srv[s].commit_idx /\ t = srv[s].current_term
    BY <1>1, SafeMember
  <2>2. ServerOK(h, s, srv[s]) /\ HistoryOK(h) /\ c <= Len(b) /\ Len(b) \in Nat /\ Len(f) \in Nat
    BY <1>1, <2>1, SafeMember
  <2>3. PICK a : a = Committed(srv[s])
    OBVIOUS
  <2>4. a = [i \in 1..c |-> b[i]]
    BY <1>1, <2>1, <2>3, CommittedIs
  <2>5. a \in Seq(NormalEntry) /\ Len(a) = c /\ \A i \in 1..c : a[i] = b[i]
    BY <2>2, <2>4
  <2>6. CommitOK(h, t, b, c) /\ Holds(f, b, Len(f)) /\ Len(f) <= c
    BY <2>1, <2>2 DEF ServerOK, FsmOK
  <2>7. Holds(a, b, c) /\ c <= c /\ t <= t
    BY <2>2, <2>5 DEF Holds
  <2>8. HistoryType(h) /\ Later(h, h)
    BY <2>2, LaterSelf DEF HistoryOK
  <2>9. CommitOK(h, t, a, c)
    BY <2>5, <2>6, <2>7, <2>8, CommitLater
  <2>10. Holds(f, a, Len(f))
    BY <2>2, <2>5, <2>6 DEF Holds
  <2> QED
    BY <2>1, <2>2, <2>3, <2>5, <2>6, <2>9, <2>10 DEF Knows
<1>2. CASE s \notin InitialMembers
  <2>1. srv[s].commit_idx = 0 /\ srv[s].fsm = << >>
    BY <1>2 DEF OutsidersIdle
  <2>6. << >> \in Seq(NormalEntry) /\ Len(<< >>) = 0
    OBVIOUS
  <2>2. PICK z \in Seq(NormalEntry) : z = << >> /\ Len(z) = 0
    BY <2>6
  <2>3. z = Committed(srv[s])
    BY <2>1, <2>2 DEF Committed
  <2>4. CommitOK(h, 0, z, Len(z)) /\ Holds(z, z, Len(z)) /\ 0 \in Nat /\ 0 <= 0
    BY <2>2 DEF CommitOK, Holds
  <2>5. Knows(h, srv[s], z, z)
    BY <2>1, <2>2, <2>3, <2>4 DEF Knows
  <2> QED
    BY <2>5
<1> QED
  BY <1>1, <1>2

\* The same after a step
LEMMA CommitsAfter ==
  ASSUME ServerAssumption, BoundAssumption, NEW s \in Server
  PROVE  Inv' => srv'[s].commit_idx \in Nat /\ srv'[s].fsm \in Seq(NormalEntry)
<1>1. Inv => srv[s].commit_idx \in Nat /\ srv[s].fsm \in Seq(NormalEntry)
  BY ServerCommits
<1>2. (Inv => srv[s].commit_idx \in Nat /\ srv[s].fsm \in Seq(NormalEntry))'
  BY <1>1, PTL
<1> QED
  BY <1>2

LEMMA ChosenAfter ==
  ASSUME ServerAssumption
  PROVE  Inv' /\ TopKnown' => \E s \in Server : Top(s)' /\ Chosen' = Committed(srv'[s])
<1>1. Inv /\ TopKnown => \E s \in Server : Top(s) /\ Chosen = Committed(srv[s])
  BY ChosenIs
<1>2. (Inv /\ TopKnown => \E s \in Server : Top(s) /\ Chosen = Committed(srv[s]))'
  BY <1>1, PTL
<1> QED
  BY <1>2

LEMMA KnowsAfter ==
  ASSUME ServerAssumption, BoundAssumption, NEW h, NEW s \in Server
  PROVE  Inv' /\ OutsidersIdle' /\ History(h)'
           => \E a \in Seq(NormalEntry), f \in Seq(NormalEntry) : Knows(h, srv'[s], a, f)
<1>1. Inv /\ OutsidersIdle /\ History(h)
        => \E a \in Seq(NormalEntry), f \in Seq(NormalEntry) : Knows(h, srv[s], a, f)
  BY ServerKnows
<1>2. (Inv /\ OutsidersIdle /\ History(h)
        => \E a \in Seq(NormalEntry), f \in Seq(NormalEntry) : Knows(h, srv[s], a, f))'
  BY <1>1, PTL
<1> QED
  BY <1>2

LEMMA TopStays ==
  ASSUME ServerAssumption, BoundAssumption, Inv, Inv', TopKnown, OneMoves
  PROVE  TopKnown'
<1>1. PICK s \in Server : (\A q \in Server \ {s} : srv'[q] = srv[q]) /\ Forward(srv[s], srv'[s])
  BY DEF OneMoves
<1>2. PICK p \in Server : \A t \in Server : srv[t].commit_idx <= srv[p].commit_idx
  BY DEF TopKnown, Top
<1>3. \A q \in Server : srv[q].commit_idx \in Nat
  BY ServerCommits
<1>4. \A q \in Server : srv'[q].commit_idx \in Nat
  BY CommitsAfter
<1>5. srv[s].commit_idx <= srv'[s].commit_idx
  BY <1>1 DEF Forward
<1>6. CASE srv'[s].commit_idx <= srv'[p].commit_idx
  <2>1. ASSUME NEW t \in Server PROVE srv'[t].commit_idx <= srv'[p].commit_idx
    <3>1. srv[p].commit_idx <= srv'[p].commit_idx
      BY <1>1, <1>3, <1>5
    <3> QED
      BY <1>1, <1>2, <1>3, <1>4, <1>6, <3>1
  <2> QED
    BY <2>1 DEF TopKnown, Top
<1>7. CASE srv'[p].commit_idx <= srv'[s].commit_idx
  <2>1. ASSUME NEW t \in Server PROVE srv'[t].commit_idx <= srv'[s].commit_idx
    <3>1. srv[p].commit_idx <= srv'[p].commit_idx
      BY <1>1, <1>3, <1>5
    <3>2. CASE t = s
      BY <1>4, <3>2
    <3>3. CASE t # s
      BY <1>1, <1>2, <1>3, <1>4, <1>7, <3>1, <3>3
    <3> QED
      BY <3>2, <3>3
  <2> QED
    BY <2>1 DEF TopKnown, Top
<1> QED
  BY <1>4, <1>6, <1>7

LEMMA KnowsLater ==
  ASSUME BoundAssumption, NEW h, NEW k, HistoryType(h), HistoryType(k), Later(h, k),
         NEW a \in Seq(NormalEntry), NEW t \in Nat, CommitOK(h, t, a, Len(a))
  PROVE  CommitOK(k, t, a, Len(a))
<1>1. PICK c \in Nat : c = Len(a) /\ c <= Len(a) /\ t <= t
  OBVIOUS
<1>2. Holds(a, a, c) /\ CommitOK(h, t, a, c)
  BY <1>1, HoldsSelf
<1>3. CommitOK(k, t, a, c)
  BY <1>1, <1>2, CommitLater
<1> QED
  BY <1>1, <1>3

\* Of two committed sequences the shorter is a part of the longer.
LEMMA CommittedHolds ==
  ASSUME BoundAssumption, NEW h, NEW S, HistoryOK(h), LeadersHave(h, S),
         NEW a \in Seq(NormalEntry), NEW b \in Seq(NormalEntry), NEW t \in Nat, NEW u \in Nat,
         CommitOK(h, t, a, Len(a)), CommitOK(h, u, b, Len(b)), Len(a) <= Len(b)
  PROVE  Holds(a, b, Len(a))
<1>1. PICK c \in Nat, d \in Nat : c = Len(a) /\ d = Len(b) /\ c <= d
  OBVIOUS
<1>2. CommitOK(h, t, a, c) /\ CommitOK(h, u, b, d)
  BY <1>1
<1>3. Holds(a, b, c)
  BY <1>1, <1>2, CommitsAgree
<1> QED
  BY <1>1, <1>3

LEMMA SamePrefix ==
  ASSUME NEW a \in Seq(NormalEntry), NEW b \in Seq(NormalEntry), Holds(a, b, Len(a)),
         Len(b) <= Len(a)
  PROVE  a = b
<1>1. Len(a) \in Nat /\ Len(b) \in Nat
  OBVIOUS
<1>2. Len(a) = Len(b) /\ \A i \in 1..Len(a) : a[i] = b[i]
  BY <1>1 DEF Holds
<1>3. a = [i \in 1..Len(a) |-> a[i]] /\ b = [i \in 1..Len(b) |-> b[i]]
  OBVIOUS
<1> QED
  BY <1>2, <1>3

LEMMA PartsAgree ==
  ASSUME NEW f \in Seq(NormalEntry), NEW g \in Seq(NormalEntry), NEW b \in Seq(NormalEntry),
         IsPrefix(f, b), IsPrefix(g, b), Len(f) <= Len(g)
  PROVE  IsPrefix(f, g)
<1>1. Len(f) \in Nat /\ Len(g) \in Nat /\ Len(b) \in Nat
  OBVIOUS
<1>2. /\ Len(f) <= Len(b) /\ SubSeq(f, 1, Len(f)) = SubSeq(b, 1, Len(f))
      /\ Len(g) <= Len(b) /\ SubSeq(g, 1, Len(g)) = SubSeq(b, 1, Len(g))
  BY DEF IsPrefix
<1>3. /\ SubSeq(f, 1, Len(f)) = [i \in 1..Len(f) |-> f[i]]
      /\ SubSeq(b, 1, Len(f)) = [i \in 1..Len(f) |-> b[i]]
      /\ SubSeq(g, 1, Len(g)) = [i \in 1..Len(g) |-> g[i]]
      /\ SubSeq(b, 1, Len(g)) = [i \in 1..Len(g) |-> b[i]]
  BY <1>1, <1>2
<1>4. (\A i \in 1..Len(f) : f[i] = b[i]) /\ (\A i \in 1..Len(g) : g[i] = b[i])
  BY <1>2, <1>3
<1>5. Holds(f, g, Len(f))
  BY <1>1, <1>4 DEF Holds
<1> QED
  BY <1>5, HoldsPrefix

\* Every server has applied a part of what is chosen.
LEMMA AppliedIsChosen ==
  ASSUME ServerAssumption, BoundAssumption, Inv, OutsidersIdle, TopKnown, NEW h, History(h),
         NEW s \in Server
  PROVE  IsPrefix(srv[s].fsm, Chosen)
<1>1. PICK p \in Server : Top(p) /\ Chosen = Committed(srv[p])
  BY ChosenIs
<1>2. PICK a \in Seq(NormalEntry), f \in Seq(NormalEntry) : Knows(h, srv[s], a, f)
  BY ServerKnows
<1>3. PICK b \in Seq(NormalEntry), g \in Seq(NormalEntry) : Knows(h, srv[p], b, g)
  BY ServerKnows
<1>4. /\ f = srv[s].fsm /\ b = Chosen /\ Len(a) <= Len(b)
      /\ Len(f) \in Nat /\ Len(f) <= Len(a) /\ Holds(f, a, Len(f))
  BY <1>1, <1>2, <1>3 DEF Knows, Top
<1>5. PICK t \in Nat, u \in Nat : CommitOK(h, t, a, Len(a)) /\ CommitOK(h, u, b, Len(b))
  BY <1>2, <1>3 DEF Knows
<1>6. HistoryOK(h) /\ LeadersHave(h, srv)
  BY DEF History, Explains
<1>7. Holds(a, b, Len(a))
  BY <1>4, <1>5, <1>6, CommittedHolds
<1>8. Holds(f, b, Len(f))
  <2>1. Len(a) \in Nat /\ Len(b) \in Nat
    OBVIOUS
  <2> QED
    BY <1>4, <1>7, <2>1 DEF Holds
<1> QED
  BY <1>4, <1>8, HoldsPrefix

LEMMA AppliedAfter ==
  ASSUME ServerAssumption, BoundAssumption, NEW h, NEW s \in Server
  PROVE  Inv' /\ OutsidersIdle' /\ TopKnown' /\ History(h)' => IsPrefix(srv'[s].fsm, Chosen')
<1>1. Inv /\ OutsidersIdle /\ TopKnown /\ History(h) => IsPrefix(srv[s].fsm, Chosen)
  BY AppliedIsChosen
<1>2. (Inv /\ OutsidersIdle /\ TopKnown /\ History(h) => IsPrefix(srv[s].fsm, Chosen))'
  BY <1>1, PTL
<1> QED
  BY <1>2

\* What is chosen before a step that continues the history h is part of what is chosen
\* after it, and the same unless a commit index has grown.
LEMMA ChosenGrows ==
  ASSUME ServerAssumption, BoundAssumption, Inv, Inv', OutsidersIdle, OutsidersIdle',
         TopKnown, TopKnown', OneMoves, NEW h, History(h), NEW k, Later(h, k), History(k)'
  PROVE  \E a \in Seq(NormalEntry), b \in Seq(NormalEntry) :
           /\ a = Chosen /\ b = Chosen' /\ Holds(a, b, Len(a))
           /\ (\A q \in Server : srv'[q].commit_idx = srv[q].commit_idx) => a = b
<1>1. PICK p \in Server : Top(p) /\ Chosen = Committed(srv[p])
  BY ChosenIs
<1>2. PICK q \in Server : Top(q)' /\ Chosen' = Committed(srv'[q])
  BY ChosenAfter
<1>3. PICK a \in Seq(NormalEntry), f \in Seq(NormalEntry) : Knows(h, srv[p], a, f)
  BY ServerKnows
<1>4. PICK b \in Seq(NormalEntry), g \in Seq(NormalEntry) : Knows(k, srv'[q], b, g)
  BY KnowsAfter
<1>5. /\ a = Chosen /\ Len(a) = srv[p].commit_idx /\ Len(a) \in Nat
      /\ b = Chosen' /\ Len(b) = srv'[q].commit_idx /\ Len(b) \in Nat
  BY <1>1, <1>2, <1>3, <1>4 DEF Knows
<1>6. PICK t \in Nat, u \in Nat : CommitOK(h, t, a, Len(a)) /\ CommitOK(k, u, b, Len(b))
  BY <1>3, <1>4 DEF Knows
<1>7. HistoryType(h) /\ HistoryOK(k) /\ HistoryType(k) /\ LeadersHave(k, srv')
  BY DEF History, Explains, HistoryOK
<1>8. CommitOK(k, t, a, Len(a))
  BY <1>6, <1>7, KnowsLater
<1>9. srv[p].commit_idx <= srv'[p].commit_idx
  <2>1. srv[p].commit_idx \in Nat
    BY ServerCommits
  <2> QED
    BY <2>1 DEF OneMoves, Forward
<1>10. srv'[p].commit_idx \in Nat /\ srv'[p].commit_idx <= srv'[q].commit_idx
  BY <1>2, CommitsAfter DEF Top
<1>11. Len(a) <= Len(b)
  BY <1>5, <1>9, <1>10
<1>12. Holds(a, b, Len(a))
  BY <1>6, <1>7, <1>8, <1>11, CommittedHolds
<1>13. ASSUME \A r \in Server : srv'[r].commit_idx = srv[r].commit_idx
       PROVE  a = b
  <2>1. srv[q].commit_idx <= srv[p].commit_idx
    BY <1>1 DEF Top
  <2>2. Len(b) <= Len(a)
    BY <1>5, <1>13, <2>1
  <2> QED
    BY <1>12, <2>2, SamePrefix
<1> QED
  BY <1>5, <1>12, <1>13

LEMMA SamePrefixes ==
  ASSUME NEW a, NEW b, IsPrefix(a, b)
  PROVE  OneLog!IsPrefix(a, b)
BY DEF IsPrefix, OneLog!IsPrefix

\* Such a step chooses more, or one server applies more of what is chosen, or neither
\* changes.
LEMMA StepRefines ==
  ASSUME ServerAssumption, BoundAssumption, Inv, Inv', OutsidersIdle, TopKnown,
         NEW h, History(h), Continues(h)
  PROVE  TopKnown' /\ [OneLog!Next]_<<Chosen, Machines, Whole>>
<1>1. OutsidersIdle' /\ OneMoves
  BY DEF Continues
<1>2. PICK k : Later(h, k) /\ History(k)'
  BY DEF Continues
<1>3. TopKnown'
  BY <1>1, TopStays
<1>4. PICK a \in Seq(NormalEntry), b \in Seq(NormalEntry) :
        /\ a = Chosen /\ b = Chosen' /\ Holds(a, b, Len(a))
        /\ (\A q \in Server : srv'[q].commit_idx = srv[q].commit_idx) => a = b
  BY <1>1, <1>2, <1>3, ChosenGrows
<1>5. PICK s \in Server : (\A q \in Server \ {s} : srv'[q] = srv[q]) /\ Forward(srv[s], srv'[s])
  BY <1>1 DEF OneMoves
<1>6. /\ Machines = [q \in Server |-> srv[q].fsm] /\ Machines' = [q \in Server |-> srv'[q].fsm]
      /\ Whole' = Whole
  BY DEF Machines, Servers, Whole, Inv, ElectionInv, FixedTypes
<1>7. IsPrefix(a, b)
  BY <1>4, HoldsPrefix
<1>10. OneLog!IsPrefix(a, b)
  BY <1>7, SamePrefixes
<1>8. CASE srv'[s].fsm = srv[s].fsm
  <2>1. \A q \in Server : srv'[q].fsm = srv[q].fsm
    BY <1>5, <1>8
  <2>2. Machines' = Machines
    BY <1>6, <2>1
  <2>3. CASE a = b
    BY <1>3, <1>4, <1>6, <2>2, <2>3
  <2>4. CASE a # b
    <3>1. OneLog!Choose
      BY <1>4, <1>6, <1>10, <2>2, <2>4 DEF OneLog!Choose, OneLog!IsStrictPrefix
    <3> QED
      BY <1>3, <3>1 DEF OneLog!Next
  <2> QED
    BY <2>3, <2>4
<1>9. CASE srv'[s].fsm # srv[s].fsm
  <2>1. \A q \in Server : srv'[q].commit_idx = srv[q].commit_idx
    BY <1>5, <1>9 DEF Forward
  <2>2. a = b
    BY <1>4, <2>1
  <2>3. PICK f \in Seq(NormalEntry), g \in Seq(NormalEntry) : f = srv[s].fsm /\ g = srv'[s].fsm
    BY ServerCommits, CommitsAfter
  <2>4. IsPrefix(f, a) /\ IsPrefix(g, a) /\ Len(f) <= Len(g)
    BY <1>1, <1>2, <1>3, <1>4, <1>5, <2>2, <2>3, AppliedIsChosen, AppliedAfter DEF Forward
  <2>5. IsPrefix(f, g)
    BY <2>4, PartsAgree
  <2>6. Machines[s] = f /\ Machines'[s] = g /\ f # g
    BY <1>6, <1>9, <2>3
  <2>7. /\ \A q \in DOMAIN Machines \ {s} : Machines'[q] = Machines[q]
        /\ DOMAIN Machines' = DOMAIN Machines /\ s \in DOMAIN Machines
    BY <1>5, <1>6
  <2>8. OneLog!Apply(s)
    <3>1. OneLog!IsPrefix(f, g) /\ OneLog!IsPrefix(g, a)
      BY <2>4, <2>5, SamePrefixes
    <3>2. OneLog!IsStrictPrefix(Machines[s], Machines'[s]) /\ OneLog!IsPrefix(Machines'[s], Chosen)
      BY <1>4, <2>6, <3>1 DEF OneLog!IsStrictPrefix
    <3>3. Chosen' = Chosen
      BY <1>4, <2>2
    <3> QED
      BY <1>6, <2>7, <3>2, <3>3 DEF OneLog!Apply, OneLog!Replica
  <2> QED
    BY <1>3, <2>7, <2>8 DEF OneLog!Next, OneLog!Replica
<1> QED
  BY <1>8, <1>9

LEMMA InitRefines ==
  ASSUME FixedCluster, Init
  PROVE  TopKnown /\ OneLog!Init
<1>0. ServerAssumption /\ BoundAssumption /\ FixedMembers /\ Inv
  BY InitOK DEF FixedCluster
<1>1. \A s \in Server : srv[s].commit_idx = 0
  <2>1. \A s \in Server : srv[s] = raft_new(s)
    BY <1>0 DEF Init, FixedMembers
  <2>2. ASSUME NEW s \in Server, NEW m, m = raft_new(s) PROVE m.commit_idx = 0
    BY <2>2 DEF raft_new
  <2> QED
    BY <2>1, <2>2
<1>2. PICK s : s \in Server
  BY <1>0 DEF ServerAssumption
<1>3. TopKnown
  BY <1>1, <1>2 DEF TopKnown, Top
<1>4. OutsidersIdle /\ History(NoHistory)
  BY InitHistory
<1>5. ASSUME NEW q \in Server PROVE OneLog!IsPrefix(srv[q].fsm, Chosen)
  <2>1. IsPrefix(srv[q].fsm, Chosen)
    BY <1>0, <1>3, <1>4, AppliedIsChosen
  <2> QED
    BY <2>1, SamePrefixes
<1>6. DOMAIN Machines = Server /\ \A q \in Server : Machines[q] = srv[q].fsm
  BY <1>0 DEF Machines, Servers, Inv, ElectionInv, FixedTypes
<1>7. Whole = TRUE
  BY <1>0 DEF Whole, Inv, ElectionInv, FixedTypes
<1> QED
  BY <1>3, <1>5, <1>6, <1>7 DEF OneLog!Init, OneLog!Replica

LEMMA NextRefines ==
  ASSUME FixedCluster, Inv, SafetyInv, TopKnown, [Next]_vars
  PROVE  TopKnown' /\ [OneLog!Next]_<<Chosen, Machines, Whole>>
<1>1. PICK h : History(h)
  BY DEF SafetyInv
<1>2. Continues(h) /\ Inv'
  BY <1>1, NextContinues, NextOK DEF SafetyInv, FixedCluster
<1> QED
  BY <1>1, <1>2, StepRefines DEF SafetyInv, FixedCluster

\* The servers of raft_server.c are one replicated log: what is chosen, the longest
\* committed sequence any server knows, only grows (raft_set_commit_idx never moves
\* back, and no conflict deletes a committed entry), and raft_apply_entry applies it
\* everywhere in order; and no snapshot releases that promise.
THEOREM RaftImplementsReplicatedLog ==
  FixedCluster => (Spec => ImplementsReplicatedLog /\ []Whole)
<1> SUFFICES ASSUME FixedCluster
             PROVE  Spec => ImplementsReplicatedLog /\ []Whole
  OBVIOUS
<1>1. Init => TopKnown /\ OneLog!Init
  BY InitRefines
<1>2. ElectionInv /\ LogInv /\ SafetyInv /\ TopKnown /\ [Next]_vars
        => TopKnown' /\ [OneLog!Next]_<<Chosen, Machines, Whole>>
  BY NextRefines DEF Inv
<1>3. ElectionInv => Whole
  BY DEF ElectionInv, FixedTypes, Whole
<1> QED
  BY <1>1, <1>2, <1>3, RaftInvariant, RaftHistory, PTL
     DEF Spec, ImplementsReplicatedLog, OneLog!Spec

LEMMA StoreNextRefines ==
  ASSUME FixedCluster, Inv, ClientInv, StoreSafetyInv, TopKnown, Inv',
         [SmrNext]_<<vars, smrVars>>
  PROVE  TopKnown' /\ [OneLog!Next]_<<Chosen, Machines, Whole>>
<1>1. PICK h : History(h) /\ Continues(h)
  BY StoreNextSafe
<1> QED
  BY <1>1, StepRefines DEF StoreSafetyInv, FixedCluster

\* So is the replicated store: the main loop of smr.cc, its clients and the saved
\* requests change nothing about the promise.
THEOREM StoreImplementsReplicatedLog ==
  FixedCluster => (SmrSpec => ImplementsReplicatedLog /\ []Whole)
<1> SUFFICES ASSUME FixedCluster
             PROVE  SmrSpec => ImplementsReplicatedLog /\ []Whole
  OBVIOUS
<1>1. SmrInit => TopKnown /\ OneLog!Init
  BY InitRefines DEF SmrInit
<1>2. /\ ElectionInv /\ LogInv /\ ClientInv /\ StoreSafetyInv /\ TopKnown
      /\ ElectionInv' /\ LogInv' /\ [SmrNext]_<<vars, smrVars>>
      => TopKnown' /\ [OneLog!Next]_<<Chosen, Machines, Whole>>
  <2> SUFFICES ASSUME ElectionInv, LogInv, ClientInv, StoreSafetyInv, TopKnown,
                      ElectionInv', LogInv', [SmrNext]_<<vars, smrVars>>
               PROVE  TopKnown' /\ [OneLog!Next]_<<Chosen, Machines, Whole>>
    OBVIOUS
  <2>1. Inv /\ Inv'
    BY DEF Inv
  <2> QED
    BY <2>1, StoreNextRefines
<1>3. ElectionInv => Whole
  BY DEF ElectionInv, FixedTypes, Whole
<1> QED
  BY <1>1, <1>2, <1>3, StoreInvariant, StoreHistories, PTL
     DEF SmrSpec, ImplementsReplicatedLog, OneLog!Spec
=============================================================================
