------------------------------ MODULE PmemLog -------------------------------
(***************************************************************************)
(* The Raft log in persistent memory of apps/smr/pmem_log.h: a record of   *)
(* term and vote, the number of entries, and the entries.  Every store is  *)
(* persistent when its pmem_memcpy_persist returns, so that a power        *)
(* failure leaves the state between two stores.  Only eight bytes are      *)
(* atomic: a failure inside the store of an entry leaves a torn one.       *)
(***************************************************************************)
EXTENDS Integers, Sequences

CONSTANTS Entries,        \* what may be appended
          Nodes,          \* node identifiers
          MaxTerm,        \* bound on the term
          MaxEntries      \* bound on the number of entries

PmemLogAssumption ==
    /\ MaxTerm \in Nat /\ MaxEntries \in Nat \ {0}
    /\ Nodes \subseteq Nat

Torn == "torn"
Garbage == "garbage"      \* T(): the entry at index 0, and what a fresh file holds

VARIABLES
    pc,                   \* "ready", or between the two stores of append
    v_num,                \* v.num_entries
    p_num,                \* p.num_entries
    p_term, p_voted,      \* p.term, p.voted_for
    base,                 \* index -> entry at log_entries_base
    arg,                  \* the entry that append is storing
    raft,                 \* history: the log as the Raft library asked for it
    votes                 \* history: <<term, vote>> that were asked for, in order

mem == <<p_num, p_term, p_voted, base>>
vars == <<pc, v_num, mem, arg, raft, votes>>

\* The constructor zeroes the records and appends the garbage entry
Init ==
    /\ pc = "ready" /\ v_num = 1 /\ p_num = 1
    /\ p_term = 0 /\ p_voted = 0
    /\ base = [x \in 0 .. MaxEntries |-> Garbage]
    /\ arg = Garbage /\ raft = <<>> /\ votes = <<<<0, 0>>>>

----------------------------------------------------------------------------
truncate(n) ==
    /\ v_num' = n
    /\ p_num' = n
    /\ raft' = SubSeq(raft, 1, n - 1)
    /\ UNCHANGED <<pc, p_term, p_voted, base, arg, votes>>

Truncate == pc = "ready" /\ \E n \in 1 .. v_num : truncate(n)

pop == pc = "ready" /\ v_num > 1 /\ truncate(v_num - 1)

\* append, first: the entry.  A failure meanwhile tears it
append_data(e) ==
    /\ pc = "ready" /\ v_num <= MaxEntries
    /\ base' = [base EXCEPT ![v_num] = Torn]
    /\ arg' = e
    /\ pc' = "data"
    /\ UNCHANGED <<v_num, p_num, p_term, p_voted, raft, votes>>

append_data_ends ==
    /\ pc = "data"
    /\ base' = [base EXCEPT ![v_num] = arg]
    /\ pc' = "tail"
    /\ UNCHANGED <<v_num, p_num, p_term, p_voted, arg, raft, votes>>

\* Second: the tail
append_tail ==
    /\ pc = "tail"
    /\ v_num' = v_num + 1
    /\ p_num' = v_num + 1
    /\ raft' = Append(raft, arg)
    /\ pc' = "ready"
    /\ UNCHANGED <<p_term, p_voted, base, arg, votes>>

persist_vote(n) ==
    /\ pc = "ready"
    /\ p_voted' = n
    /\ votes' = Append(votes, <<p_term, n>>)
    /\ UNCHANGED <<pc, v_num, p_num, p_term, base, arg, raft>>

\* One eight-byte store of both
persist_term(t, n) ==
    /\ pc = "ready"
    /\ p_term' = t /\ p_voted' = n
    /\ votes' = Append(votes, <<t, n>>)
    /\ UNCHANGED <<pc, v_num, p_num, base, arg, raft>>

Crash ==
    /\ pc # "crashed" /\ pc' = "crashed"
    /\ UNCHANGED <<v_num, mem, arg, raft, votes>>

Next ==
    \/ Truncate \/ pop
    \/ \E e \in Entries : append_data(e)
    \/ append_data_ends \/ append_tail
    \/ \E n \in Nodes : Len(votes) <= MaxTerm /\ p_voted = 0 /\ persist_vote(n)
    \/ \E t \in 1 .. MaxTerm, n \in Nodes \union {0} : t > p_term /\ Len(votes) <= MaxTerm /\ persist_term(t, n)
    \/ Crash

Spec == Init /\ [][Next]_vars

----------------------------------------------------------------------------
(* Properties *)

\* After a power failure the entries below the persistent tail are those of
\* the log the Raft library had asked for, whole and in order, also where an
\* append overwrites what a truncation gave up (append: first data, then tail).
LogSurvives ==
    pc = "crashed" => SubSeq([x \in 1 .. MaxEntries |-> base[x]], 1, p_num - 1) = raft

\* After a power failure term and vote belong together: they are the last pair
\* that was asked for (persist_term's eight-byte store).
VoteSurvives == pc = "crashed" => <<p_term, p_voted>> = votes[Len(votes)]

----------------------------------------------------------------------------
(* The inductive invariant *)

PmemTypes ==
    /\ pc \in {"ready", "data", "tail", "crashed"}
    /\ v_num \in 1 .. MaxEntries + 1
    /\ p_term \in Nat /\ p_voted \in Nat
    /\ base \in [0 .. MaxEntries -> Entries \union {Torn, Garbage}]
    /\ arg \in Entries \union {Garbage}
    /\ raft \in Seq(Entries \union {Torn, Garbage})
    /\ votes \in Seq(Nat \X Nat)

\* The two tails are the same, and what is stored below them is the log that was
\* asked for; what append has stored or is storing is behind them.
PmemInv ==
    /\ PmemTypes
    /\ p_num = v_num
    /\ Len(raft) = v_num - 1
    /\ \A x \in 1 .. v_num - 1 : raft[x] = base[x]
    /\ pc \in {"data", "tail"} => v_num <= MaxEntries
    /\ pc = "tail" => base[v_num] = arg
    /\ Len(votes) > 0 /\ votes[Len(votes)] = <<p_term, p_voted>>
=============================================================================
