----------------------------- MODULE RaftServer -----------------------------
(***************************************************************************)
(* The Raft library of the replicated key-value store                      *)
(* (apps/smr/willemt_raft): elections, log replication, commitment, lazy   *)
(* application, membership changes and snapshots, one server record per    *)
(* process.  A handler of the library is an operator from the record it    *)
(* finds to the record it leaves and the messages it sends; the actions    *)
(* deliver a message, run raft_periodic or call the user-facing functions. *)
(*                                                                         *)
(* Time is abstract: timeout_elapsed is TRUE when it has reached           *)
(* election_timeout, and whether the randomized timeout or the request     *)
(* timeout has passed too is a choice of raft_periodic.  Messages travel   *)
(* as RPCs of eRPC: they may be delayed, overtake each other or fail.      *)
(*                                                                         *)
(* Assertions of the library are not guards: the build that ships has      *)
(* them compiled out, and the properties state them where it matters.      *)
(***************************************************************************)
EXTENDS Integers, FiniteSets, Sequences, SequencesExt, Bags

CONSTANTS Server,          \* node ids
          InitialMembers,  \* the servers every initial member is configured with
          CommitStatic,    \* the user marks the members it configures as committed
          SelfBootstrap,   \* the only initial member has logged its own addition
          NoNode,          \* -1 or NULL
          EntryTypes,      \* the kinds of entry the user submits
          MaxTerm,         \* bound on elections
          MaxEntries,      \* bound on entries submitted by the user
          MaxMsgs,         \* bound on messages in flight
          MaxSnapshots,    \* bound on snapshots begun
          FollowersCompact,\* whether followers take snapshots too
          LogCapacity      \* INITIAL_CAPACITY of the entry ring

ServerAssumption ==
  /\ IsFiniteSet(Server)
  /\ InitialMembers \subseteq Server
  /\ InitialMembers # {}
  /\ SelfBootstrap \in BOOLEAN /\ CommitStatic \in BOOLEAN
  /\ SelfBootstrap => Cardinality(InitialMembers) = 1
  /\ NoNode \notin Server

BoundAssumption ==
  /\ EntryTypes \subseteq {"NORMAL", "ADD_NONVOTING", "ADD", "DEMOTE", "REMOVE"}
  /\ MaxTerm \in Nat
  /\ MaxEntries \in Nat
  /\ MaxMsgs \in Nat
  /\ MaxSnapshots \in Nat
  /\ FollowersCompact \in BOOLEAN
  /\ LogCapacity \in Nat \ {0}

VARIABLES
  srv,       \* srv[s]: the raft_server_private_t of s and its user's state
  msgs,      \* the bag of RPC messages in flight
  entries,   \* how many entries the user has submitted
  snapshots  \* how many snapshots have been begun

vars == <<srv, msgs, entries, snapshots>>

min(a, b) == IF a < b THEN a ELSE b
max(a, b) == IF a < b THEN b ELSE a

-----------------------------------------------------------------------------
(* Nodes (raft_node.c).                                                    *)

raft_node_new(voting, committed) ==
  [next_idx |-> 1, match_idx |-> 0, voted_for_me |-> FALSE, voting |-> voting,
   active |-> TRUE, voting_committed |-> committed,
   addition_committed |-> committed, has_sufficient_logs |-> FALSE]

raft_node_set_next_idx(n, i) == [n EXCEPT !.next_idx = IF i < 1 THEN 1 ELSE i]

\* raft_get_num_voting_nodes counts these
VotingNodes(m) == {p \in DOMAIN m.nodes : m.nodes[p].active /\ m.nodes[p].voting}

Peers(s, m) == {p \in DOMAIN m.nodes : p # s /\ m.nodes[p].active}

AmVoting(s, m) == s \in DOMAIN m.nodes /\ m.nodes[s].voting

UpdateNode(m, p, field, b) ==
  IF p \in DOMAIN m.nodes THEN [m EXCEPT !.nodes[p][field] = b] ELSE m

raft_remove_node(m, p) ==
  [m EXCEPT !.nodes = [q \in DOMAIN m.nodes \ {p} |-> m.nodes[q]]]

\* A node that exists becomes a voting node; a new one is added as one.
raft_add_node_internal(m, p) ==
  IF p \in DOMAIN m.nodes
  THEN [m EXCEPT !.nodes[p].voting = TRUE]
  ELSE [m EXCEPT !.nodes = (p :> raft_node_new(TRUE, FALSE)) @@ @]

raft_add_non_voting_node_internal(m, p) ==
  [m EXCEPT !.nodes = (p :> raft_node_new(FALSE, FALSE)) @@ @]

-----------------------------------------------------------------------------
(* The log (raft_log.c): the entries after base, kept in a ring that       *)
(* starts at front and doubles when it is full.                            *)

log_get_current_idx(m) == m.base + Len(m.log)

HasEntry(m, i) == m.base < i /\ i <= log_get_current_idx(m)

log_get_at_idx(m, i) == m.log[i - m.base]

raft_get_last_log_term(m) ==
  IF HasEntry(m, log_get_current_idx(m))
  THEN log_get_at_idx(m, log_get_current_idx(m)).term
  ELSE 0

\* The entries from idx on, but none beyond the end of the ring.
log_get_from_idx(m, i) ==
  IF ~HasEntry(m, i)
  THEN << >>
  ELSE LET first == (m.front + i - 1 - m.base) % m.size
           n     == Len(m.log) - (i - 1 - m.base)
       IN  SubSeq(m.log, i - m.base, i - m.base + min(n, m.size - first) - 1)

__ensurecapacity(m) ==
  IF Len(m.log) < m.size THEN m
  ELSE [m EXCEPT !.size = 2 * @, !.front = 0]

\* n times
log_poll(m, n) ==
  [m EXCEPT !.front = (@ + n) % m.size, !.log = SubSeq(@, n + 1, Len(@)), !.base = @ + n]

log_load_from_snapshot(m, idx) ==
  [m EXCEPT !.log = << >>, !.front = 0, !.base = idx]

-----------------------------------------------------------------------------
(* Membership entries take effect when they enter and leave the log.       *)

raft_entry_is_voting_cfg_change(ety) == ety.type \in {"ADD", "DEMOTE"}

raft_offer_log(s, m, ety) ==
  LET p == ety.node IN
  CASE ety.type = "ADD_NONVOTING" ->
         IF p = s THEN m
         ELSE IF p \in DOMAIN m.nodes
              THEN [m EXCEPT !.nodes[p].active = TRUE]
              ELSE raft_add_non_voting_node_internal(m, p)
    [] ety.type = "ADD"    -> raft_add_node_internal(m, p)
    [] ety.type = "DEMOTE" -> UpdateNode(m, p, "voting", FALSE)
    [] ety.type = "REMOVE" -> UpdateNode(m, p, "active", FALSE)
    [] OTHER -> m

raft_pop_log(m, ety) ==
  LET p == ety.node IN
  CASE ety.type = "DEMOTE" -> UpdateNode(m, p, "voting", TRUE)
    [] ety.type = "REMOVE" -> UpdateNode(m, p, "active", TRUE)
    [] ety.type = "ADD_NONVOTING" -> raft_remove_node(m, p)
    [] ety.type = "ADD"    -> UpdateNode(m, p, "voting", FALSE)
    [] OTHER -> m

log_append_entry(s, m, ety) ==
  [raft_offer_log(s, __ensurecapacity(m), ety) EXCEPT !.log = Append(@, ety)]

\* The index noted for a voting change is the one before the entry is appended.
raft_append_entry(s, m, ety) ==
  LET m1 == IF raft_entry_is_voting_cfg_change(ety)
            THEN [m EXCEPT !.voting_cfg_change_log_idx = log_get_current_idx(m)]
            ELSE m
  IN  log_append_entry(s, m1, ety)

\* m after each of the entries, one after the other
Appending(s, m, etys) ==
  LET after[k \in 0..Len(etys)] ==
        IF k = 0 THEN m ELSE raft_append_entry(s, after[k - 1], etys[k])
  IN  after

\* m after each of the entries, last one first
Popping(m, etys) ==
  LET after[k \in 0..Len(etys)] ==
        IF k = 0 THEN m ELSE raft_pop_log(after[k - 1], etys[Len(etys) + 1 - k])
  IN  after

\* Pop entries from the back, down to the one at idx.
log_delete(m, idx) ==
  LET first == IF idx < m.base THEN m.base ELSE idx
      keep  == IF first <= m.base THEN 0 ELSE first - 1 - m.base
      etys  == SubSeq(m.log, keep + 1, Len(m.log))
  IN  [Popping(m, etys)[Len(etys)] EXCEPT !.log = SubSeq(@, 1, keep)]

raft_delete_entry_from_idx(m, idx) ==
  log_delete(IF idx <= m.voting_cfg_change_log_idx
             THEN [m EXCEPT !.voting_cfg_change_log_idx = -1] ELSE m, idx)

-----------------------------------------------------------------------------
(* Application.  The user's applylog appends to its state machine, and     *)
(* asks for a shutdown when it applies its own demotion or removal, as     *)
(* tests/virtraft2.py does.                                                *)

raft_is_apply_allowed(m) == ~m.snapshot_in_progress \/ m.snapshot_nonblocking

\* The state machine is the sequence of entries it was given.
applylog(m, ety) == [m EXCEPT !.fsm = Append(@, ety)]

raft_apply_entry(s, m, ety) ==
  LET idx == m.last_applied_idx + 1
      p   == ety.node
      m1  == applylog([m EXCEPT !.last_applied_idx = idx], ety)
      m2  == IF idx = m.voting_cfg_change_log_idx
             THEN [m1 EXCEPT !.voting_cfg_change_log_idx = -1] ELSE m1
  IN  IF m.state = "DOWN" THEN m ELSE
      CASE ety.type \in {"DEMOTE", "REMOVE"} /\ p = s -> [m1 EXCEPT !.state = "DOWN"]
        [] ety.type = "REMOVE" /\ p # s -> raft_remove_node(m2, p)
        [] ety.type = "ADD" ->
             UpdateNode(UpdateNode(UpdateNode(m2, p, "addition_committed", TRUE),
                                   p, "voting_committed", TRUE),
                        p, "has_sufficient_logs", TRUE)
        [] ety.type = "ADD_NONVOTING" ->
             UpdateNode(m2, p, "addition_committed", TRUE)
        [] ety.type = "DEMOTE" /\ p # s ->
             UpdateNode(m2, p, "voting_committed", FALSE)
        [] OTHER -> m2

\* Mutation: everything the log holds is applied.
Unapplied_Uncommitted(m) ==
  SubSeq(m.log, m.last_applied_idx + 1 - m.base, Len(m.log))

\* The entries between last_applied_idx and commit_idx that the log holds.
Unapplied(m) ==
  IF m.last_applied_idx < m.base THEN << >>
  ELSE SubSeq(m.log, m.last_applied_idx + 1 - m.base,
              min(m.commit_idx, log_get_current_idx(m)) - m.base)

\* m after each of the entries, one after the other
Applying(s, m, etys) ==
  LET after[k \in 0..Len(etys)] ==
        IF k = 0 THEN m ELSE raft_apply_entry(s, after[k - 1], etys[k])
  IN  after

raft_apply_all(s, m) ==
  IF ~raft_is_apply_allowed(m) THEN m
  ELSE Applying(s, m, Unapplied(m))[Len(Unapplied(m))]

-----------------------------------------------------------------------------
(* Messages and the functions that send them.                              *)

msg_requestvote_t(s, p, m) ==
  [kind |-> "rv", src |-> s, dst |-> p, term |-> m.current_term,
   last_log_idx |-> log_get_current_idx(m),
   last_log_term |-> raft_get_last_log_term(m)]

NeedsSnapshot(m, p) ==
  0 < m.snapshot_last_idx /\ m.nodes[p].next_idx < m.snapshot_last_idx

\* Index and term of the entry before the ones that are sent.
PrevEntry(m, next) ==
  IF next <= 1 THEN <<0, 0>>
  ELSE IF HasEntry(m, next - 1)
       THEN <<next - 1, log_get_at_idx(m, next - 1).term>>
       ELSE <<m.snapshot_last_idx, m.snapshot_last_term>>

\* What raft_send_appendentries puts on the wire: an appendentries message, or
\* the user's last complete snapshot when the peer is too far behind.
raft_send_appendentries(s, m, p) ==
  LET next == m.nodes[p].next_idx
      prev == PrevEntry(m, next)
  IN  IF NeedsSnapshot(m, p)
      THEN {[kind |-> "snap", src |-> s, dst |-> p, image |-> i] : i \in m.image}
      ELSE {[kind |-> "ae", src |-> s, dst |-> p, term |-> m.current_term,
             prev_log_idx |-> prev[1], prev_log_term |-> prev[2],
             leader_commit |-> m.commit_idx,
             entries |-> log_get_from_idx(m, next)]}

SendTo(s, m, ps) == UNION {raft_send_appendentries(s, m, p) : p \in ps}

\* raft_send_appendentries_all stops at the first peer whose send reports an
\* error, which is what a peer in need of a snapshot does: the peers after it in
\* the nodes array get nothing.
raft_send_appendentries_all(s, m) ==
  LET ps     == Peers(s, m)
      behind == {p \in ps : NeedsSnapshot(m, p)}
  IN  IF behind = {} THEN {SendTo(s, m, ps)}
      ELSE {SendTo(s, m, before \cup {p}) : before \in SUBSET (ps \ behind), p \in behind}

\* Replace the messages of bag in by those of set out, within the bound.
Exchange(in, out) ==
  LET b == (msgs (-) in) (+) SetToBag(out)
  IN  /\ BagCardinality(b) <= MaxMsgs
      /\ msgs' = b

-----------------------------------------------------------------------------
(* State changes (raft_server.c).                                          *)

raft_set_current_term(m, t) ==
  IF m.current_term < t
  THEN [m EXCEPT !.current_term = t, !.voted_for = NoNode]
  ELSE m

raft_become_follower(m) ==
  [m EXCEPT !.state = "FOLLOWER", !.timeout_elapsed = FALSE]

StepDown(m, t) ==
  [raft_become_follower(raft_set_current_term(m, t)) EXCEPT !.current_leader = NoNode]

raft_become_candidate(s, m) ==
  LET m1 == raft_set_current_term(m, m.current_term + 1)
  IN  [m1 EXCEPT !.voted_for = s, !.current_leader = NoNode, !.state = "CANDIDATE",
                 !.timeout_elapsed = FALSE,
                 !.nodes = [p \in DOMAIN @ |-> [@[p] EXCEPT !.voted_for_me = FALSE]]]

raft_become_leader(s, m) ==
  [m EXCEPT !.state = "LEADER", !.current_leader = s, !.timeout_elapsed = FALSE,
            !.nodes = [p \in DOMAIN @ |->
                         IF p \in Peers(s, m)
                         THEN [@[p] EXCEPT !.next_idx = log_get_current_idx(m) + 1,
                                           !.match_idx = 0]
                         ELSE @[p]]]

raft_get_nvotes_for_me(s, m) ==
  Cardinality({p \in VotingNodes(m) \ {s} : m.nodes[p].voted_for_me})
    + (IF m.voted_for = s THEN 1 ELSE 0)

raft_votes_is_majority(n, votes) == votes <= n /\ n \div 2 + 1 <= votes

-----------------------------------------------------------------------------
(* raft_recv_requestvote                                                   *)

\* Mutation: a server votes again in a term it has voted in.
__should_grant_vote_Again(s, m, vr) == AmVoting(s, m) /\ m.current_term <= vr.term

__should_grant_vote(s, m, vr) ==
  LET cur  == log_get_current_idx(m)
      term == IF HasEntry(m, cur) THEN log_get_at_idx(m, cur).term
              ELSE m.snapshot_last_term
  IN  /\ AmVoting(s, m)
      /\ m.current_term <= vr.term
      /\ m.voted_for = NoNode
      /\ \/ cur = 0
         \/ /\ HasEntry(m, cur) \/ m.snapshot_last_idx = cur
            /\ \/ term < vr.last_log_term
               \/ term = vr.last_log_term /\ cur <= vr.last_log_idx

\* A server that has heard from its leader lately answers no without looking.
HasLiveLeader(m, vr) ==
  m.current_leader \notin {NoNode, vr.src} /\ ~m.timeout_elapsed

RecvRequestVote(m, vr, s) ==
  LET m1 == IF m.current_term < vr.term THEN StepDown(m, vr.term) ELSE m
  IN  IF HasLiveLeader(m, vr)
      THEN [me |-> m, granted |-> 0]
      ELSE IF __should_grant_vote(s, m1, vr)
           THEN [me |-> [m1 EXCEPT !.voted_for = vr.src, !.current_leader = NoNode,
                                   !.timeout_elapsed = FALSE],
                 granted |-> 1]
           ELSE [me |-> m1, granted |-> IF vr.src \in DOMAIN m1.nodes THEN 0 ELSE -1]

\* requestvote_handler
raft_recv_requestvote(vr) ==
  LET s == vr.dst
      r == RecvRequestVote(srv[s], vr, s)
  IN  /\ vr.kind = "rv"
      /\ srv[s].state # "DOWN"
      /\ srv' = [srv EXCEPT ![s] = r.me]
      /\ Exchange(SetToBag({vr}),
                  {[kind |-> "rvr", src |-> s, dst |-> vr.src,
                    term |-> r.me.current_term, vote_granted |-> r.granted]})
      /\ UNCHANGED <<entries, snapshots>>

\* requestvote_cont.  A node that does not know us (-1) changes nothing: no
\* server is ever RAFT_NODE_STATUS_DISCONNECTING.
raft_recv_requestvote_response(r) ==
  LET s     == r.dst
      m     == srv[s]
      heard == UpdateNode(m, r.src, "voted_for_me", TRUE)
      won   == raft_votes_is_majority(Cardinality(VotingNodes(heard)),
                                      raft_get_nvotes_for_me(s, heard))
      lead  == raft_become_leader(s, heard)
      Done(me, out) == srv' = [srv EXCEPT ![s] = me] /\ Exchange(SetToBag({r}), out)
  IN  /\ r.kind = "rvr"
      /\ m.state # "DOWN"
      /\ CASE m.state # "CANDIDATE"     -> Done(m, {})
           [] m.state = "CANDIDATE" /\ m.current_term < r.term
                                        -> Done(StepDown(m, r.term), {})
           [] m.state = "CANDIDATE" /\ r.term < m.current_term
                                        -> Done(m, {})
           [] m.state = "CANDIDATE" /\ r.term = m.current_term ->
                IF r.vote_granted # 1 THEN Done(m, {})
                ELSE IF ~won THEN Done(heard, {})
                ELSE Done(lead, SendTo(s, lead, Peers(s, lead)))
      /\ UNCHANGED <<entries, snapshots>>

-----------------------------------------------------------------------------
(* raft_recv_appendentries                                                 *)

\* Mutation: a missing entry is taken for a match.
PrevCheck_Missing(m, ae) == "ok"

\* How the entry before the new ones compares with what the log holds.
PrevCheck(m, ae) ==
  LET i == ae.prev_log_idx IN
  CASE i = 0 -> "ok"
    [] i # 0 /\ i = m.snapshot_last_idx ->
         IF m.snapshot_last_term = ae.prev_log_term THEN "ok" ELSE "shutdown"
    [] i # 0 /\ i # m.snapshot_last_idx /\ ~HasEntry(m, i) -> "missing"
    [] OTHER ->
         IF log_get_at_idx(m, i).term = ae.prev_log_term THEN "ok"
         ELSE IF i <= m.commit_idx THEN "shutdown" ELSE "conflict"

\* How many of the new entries the log holds already.
Matching(m, ae) ==
  LET Same(k) == /\ HasEntry(m, ae.prev_log_idx + k)
                 /\ log_get_at_idx(m, ae.prev_log_idx + k).term = ae.entries[k].term
  IN  Max({k \in 0..Len(ae.entries) : \A j \in 1..k : Same(j)})

\* Steps 3 and 4: drop what conflicts, append the rest, follow the commit index
\* as far as the own log reaches.
AcceptEntries(s, m, ae) ==
  LET k    == Matching(m, ae)
      next == ae.prev_log_idx + k + 1
      clash == k < Len(ae.entries) /\ HasEntry(m, next)
      m1   == IF clash THEN raft_delete_entry_from_idx(m, next) ELSE m
      etys == SubSeq(ae.entries, k + 1, Len(ae.entries))
      m2   == Appending(s, m1, etys)[Len(etys)]
      last == max(log_get_current_idx(m2), 1)
  IN  IF clash /\ next <= m.commit_idx
      THEN [m EXCEPT !.state = "DOWN"]
      ELSE IF m2.commit_idx < ae.leader_commit
           THEN [m2 EXCEPT !.commit_idx = min(last, ae.leader_commit)]
           ELSE m2

RecvAppendEntries(s, m, ae) ==
  LET stale == ae.term < m.current_term
      m1 == CASE m.state = "CANDIDATE" /\ m.current_term = ae.term ->
                   raft_become_follower(m)
              [] m.current_term < ae.term ->
                   raft_become_follower(raft_set_current_term(m, ae.term))
              [] OTHER -> m
      m2 == [m1 EXCEPT !.timeout_elapsed = FALSE,
                       !.current_leader = IF ae.src \in DOMAIN m1.nodes THEN ae.src
                                          ELSE NoNode]
      prev == PrevCheck(m2, ae)
  IN  CASE stale -> [me |-> m, success |-> FALSE]
        [] ~stale /\ prev = "ok"       -> [me |-> AcceptEntries(s, m2, ae), success |-> TRUE]
        [] ~stale /\ prev = "missing"  -> [me |-> m2, success |-> FALSE]
        [] ~stale /\ prev = "conflict" ->
             [me |-> raft_delete_entry_from_idx(m2, ae.prev_log_idx), success |-> FALSE]
        [] ~stale /\ prev = "shutdown" ->
             [me |-> [m2 EXCEPT !.state = "DOWN"], success |-> FALSE]

\* appendentries_handler: an error of the library ends the process.
raft_recv_appendentries(ae) ==
  LET s == ae.dst
      r == RecvAppendEntries(s, srv[s], ae)
      resp == [kind |-> "aer", src |-> s, dst |-> ae.src, term |-> r.me.current_term,
               success |-> r.success,
               current_idx |-> IF r.success THEN ae.prev_log_idx + Len(ae.entries)
                               ELSE log_get_current_idx(r.me)]
  IN  /\ ae.kind = "ae"
      /\ srv[s].state # "DOWN"
      /\ srv' = [srv EXCEPT ![s] = r.me]
      /\ Exchange(SetToBag({ae}), IF r.me.state = "DOWN" THEN {} ELSE {resp})
      /\ UNCHANGED <<entries, snapshots>>

-----------------------------------------------------------------------------
(* raft_recv_appendentries_response                                        *)

\* Mutation: an entry of an older term is committed by counting its copies.
Commit_OldTerm(s, m, point) ==
  LET votes == 1 + Cardinality({p \in VotingNodes(m) \ {s} : point <= m.nodes[p].match_idx})
  IN  IF /\ m.commit_idx < point
         /\ HasEntry(m, point)
         /\ Cardinality(VotingNodes(m)) \div 2 < votes
      THEN [m EXCEPT !.commit_idx = point]
      ELSE m

\* The commit index after peer p reported point: the leader counts itself.
Commit(s, m, point) ==
  LET votes == 1 + Cardinality({p \in VotingNodes(m) \ {s} : point <= m.nodes[p].match_idx})
  IN  IF /\ m.commit_idx < point
         /\ HasEntry(m, point)
         /\ log_get_at_idx(m, point).term = m.current_term
         /\ Cardinality(VotingNodes(m)) \div 2 < votes
      THEN [m EXCEPT !.commit_idx = point]
      ELSE m

\* A peer that is not voting yet and has nearly all entries is reported to the
\* user, who may make it a voting node.
NotifySufficient(m, r) ==
  IF /\ ~m.nodes[r.src].voting
     /\ m.voting_cfg_change_log_idx = -1
     /\ log_get_current_idx(m) <= r.current_idx + 1
     /\ ~m.nodes[r.src].voting_committed
  THEN [m EXCEPT !.nodes[r.src].has_sufficient_logs = TRUE]
  ELSE m

RecvSuccess(s, m, r) ==
  LET m1 == NotifySufficient(m, r)
      n  == raft_node_set_next_idx([m1.nodes[r.src] EXCEPT !.match_idx = r.current_idx],
                                   r.current_idx + 1)
      m2 == [m1 EXCEPT !.nodes[r.src] = n]
      m3 == Commit(s, m2, r.current_idx)
  IN  IF r.current_idx <= m.nodes[r.src].match_idx
      THEN [me |-> m1, out |-> {}]
      ELSE [me |-> m3, out |-> IF HasEntry(m3, r.current_idx + 1)
                               THEN raft_send_appendentries(s, m3, r.src) ELSE {}]

RecvFailure(s, m, r) ==
  LET next == m.nodes[r.src].next_idx
      back == IF r.current_idx < next - 1
              THEN min(r.current_idx + 1, log_get_current_idx(m))
              ELSE next - 1
      m1   == [m EXCEPT !.nodes[r.src] = raft_node_set_next_idx(@, back)]
  IN  IF r.current_idx < m.nodes[r.src].match_idx
      THEN [me |-> m, out |-> {}]
      ELSE [me |-> m1, out |-> raft_send_appendentries(s, m1, r.src)]

\* appendentries_cont
raft_recv_appendentries_response(r) ==
  LET s   == r.dst
      m   == srv[s]
      res == CASE \/ m.state # "LEADER"
                  \/ r.src \notin DOMAIN m.nodes
                  \/ r.term < m.current_term -> [me |-> m, out |-> {}]
               [] m.state = "LEADER" /\ m.current_term < r.term ->
                    [me |-> StepDown(m, r.term), out |-> {}]
               [] OTHER -> IF r.success THEN RecvSuccess(s, m, r) ELSE RecvFailure(s, m, r)
  IN  /\ r.kind = "aer"
      /\ m.state # "DOWN"
      /\ srv' = [srv EXCEPT ![s] = res.me]
      /\ Exchange(SetToBag({r}), res.out)
      /\ UNCHANGED <<entries, snapshots>>

-----------------------------------------------------------------------------
(* raft_periodic                                                           *)

\* timeout_elapsed reaches election_timeout.  A leader resets it far earlier.
Elapse(s) ==
  /\ srv[s].state \in {"FOLLOWER", "CANDIDATE"}
  /\ ~srv[s].timeout_elapsed
  /\ srv' = [srv EXCEPT ![s].timeout_elapsed = TRUE]
  /\ UNCHANGED <<msgs, entries, snapshots>>

\* Every call ends by applying what is committed.
EndPeriodic(s, me, out) ==
  /\ srv' = [srv EXCEPT ![s] = raft_apply_all(s, me)]
  /\ Exchange(EmptyBag, out)
  /\ UNCHANGED <<entries, snapshots>>

SoleVoter(s, m) == VotingNodes(m) = {s} /\ m.state \in {"FOLLOWER", "CANDIDATE"}

PeriodicSoleVoter(s) ==
  LET lead == raft_become_leader(s, srv[s]) IN
  /\ SoleVoter(s, srv[s])
  /\ EndPeriodic(s, lead, SendTo(s, lead, Peers(s, lead)))

PeriodicHeartbeat(s) ==
  /\ srv[s].state = "LEADER"
  /\ \E out \in raft_send_appendentries_all(s, srv[s]) : EndPeriodic(s, srv[s], out)

\* The randomized timeout has passed: start an election.
PeriodicElection(s) ==
  LET m    == srv[s]
      cand == raft_become_candidate(s, m)
  IN  /\ m.state \in {"FOLLOWER", "CANDIDATE"}
      /\ m.timeout_elapsed
      /\ ~m.snapshot_in_progress
      /\ Cardinality(VotingNodes(m)) > 1
      /\ AmVoting(s, m)
      /\ m.current_term < MaxTerm
      /\ EndPeriodic(s, cand, {msg_requestvote_t(s, p, cand) : p \in VotingNodes(m) \ {s}})

\* No timeout has passed.
PeriodicApply(s) ==
  /\ srv[s].state # "DOWN"
  /\ ~SoleVoter(s, srv[s])
  /\ raft_apply_all(s, srv[s]) # srv[s]
  /\ EndPeriodic(s, srv[s], {})

-----------------------------------------------------------------------------
(* raft_recv_entry: the user submits an entry at the leader.  It asks for  *)
(* the membership changes raft.h describes, in the way tests/virtraft2.py  *)
(* does: a new server is added without a vote, promoted when it has enough *)
(* entries, demoted when its vote is committed, then removed; the leader   *)
(* itself is not.                                                          *)

IsNewServer(p) == p \notin InitialMembers /\ srv[p].log = << >> /\ srv[p].base = 0

MaySubmit(s, m, type, p) ==
  CASE type = "NORMAL"        -> p = NoNode
    [] type = "ADD_NONVOTING" -> p \in Server \ DOMAIN m.nodes /\ IsNewServer(p)
    [] type = "ADD"           -> /\ p \in Peers(s, m)
                                 /\ ~m.nodes[p].voting
                                 /\ ~m.nodes[p].voting_committed
                                 /\ m.nodes[p].has_sufficient_logs
                                 /\ \A e \in Range(m.fsm) : e.type = "DEMOTE" => e.node # p
    [] type = "DEMOTE"        -> /\ p \in VotingNodes(m) \ {s}
                                 /\ m.nodes[p].voting_committed
    [] type = "REMOVE"        -> /\ p \in Peers(s, m)
                                 /\ ~m.nodes[p].voting
                                 /\ ~m.nodes[p].voting_committed

ReceiveEntry(s, m, ety) ==
  LET m1  == raft_append_entry(s, m, ety)
      cur == log_get_current_idx(m1)
      m2  == IF Cardinality(VotingNodes(m1)) = 1 THEN [m1 EXCEPT !.commit_idx = cur] ELSE m1
      m3  == IF raft_entry_is_voting_cfg_change(ety)
             THEN [m2 EXCEPT !.voting_cfg_change_log_idx = cur] ELSE m2
      ready == {p \in VotingNodes(m1) \ {s} : m1.nodes[p].next_idx = cur}
  IN  [me |-> m3, out |-> SendTo(s, m1, ready)]

raft_recv_entry(s, type, p) ==
  LET m   == srv[s]
      ety == [term |-> m.current_term, type |-> type, node |-> p, id |-> entries + 1]
      r   == ReceiveEntry(s, m, ety)
  IN  /\ entries < MaxEntries
      /\ m.state = "LEADER"
      /\ MaySubmit(s, m, type, p)
      /\ raft_entry_is_voting_cfg_change(ety) =>
            m.voting_cfg_change_log_idx = -1 /\ raft_is_apply_allowed(m)
      /\ srv' = [srv EXCEPT ![s] = r.me]
      /\ Exchange(EmptyBag, r.out)
      /\ entries' = entries + 1
      /\ UNCHANGED snapshots

-----------------------------------------------------------------------------
(* Snapshots.  The user writes its state machine and the committed         *)
(* membership out between begin and end.                                   *)

raft_get_num_snapshottable_logs(m) ==
  IF Len(m.log) <= 1 THEN 0 ELSE m.commit_idx - m.base

Image(m) ==
  [idx |-> m.commit_idx, term |-> log_get_at_idx(m, m.commit_idx).term, fsm |-> m.fsm,
   members |-> [p \in {q \in DOMAIN m.nodes : m.nodes[q].addition_committed} |->
                  m.nodes[p].voting_committed]]

BeginSnapshot(s, m1, nonblocking) ==
  LET im == Image(m1)
  IN  /\ snapshots < MaxSnapshots
      /\ srv[s].state # "DOWN"
      /\ FollowersCompact \/ srv[s].state = "LEADER"
      /\ raft_get_num_snapshottable_logs(srv[s]) # 0
      /\ HasEntry(srv[s], srv[s].commit_idx)
      /\ m1.state # "DOWN"
      /\ srv' = [srv EXCEPT ![s] =
                  [m1 EXCEPT !.saved_snapshot_last_idx = m1.snapshot_last_idx,
                             !.saved_snapshot_last_term = m1.snapshot_last_term,
                             !.snapshot_last_idx = im.idx,
                             !.snapshot_last_term = im.term,
                             !.snapshot_in_progress = TRUE,
                             !.snapshot_nonblocking = nonblocking,
                             !.pending = {im}]]
      /\ snapshots' = snapshots + 1
      /\ UNCHANGED <<msgs, entries>>

raft_begin_snapshot(s, nonblocking) ==
  BeginSnapshot(s, raft_apply_all(s, srv[s]), nonblocking)

raft_cancel_snapshot(s) ==
  /\ srv[s].state # "DOWN"
  /\ srv[s].snapshot_in_progress
  /\ srv' = [srv EXCEPT ![s].snapshot_last_idx = srv[s].saved_snapshot_last_idx,
                        ![s].snapshot_last_term = srv[s].saved_snapshot_last_term,
                        ![s].snapshot_in_progress = FALSE,
                        ![s].pending = {}]
  /\ UNCHANGED <<msgs, entries, snapshots>>

raft_end_snapshot(s) ==
  LET m  == srv[s]
      m1 == log_poll(m, raft_get_num_snapshottable_logs(m))
      m2 == [m1 EXCEPT !.snapshot_in_progress = FALSE, !.image = m.pending, !.pending = {}]
      behind == IF m.state = "LEADER"
                THEN {p \in Peers(s, m2) : NeedsSnapshot(m2, p)} ELSE {}
  IN  /\ m.state # "DOWN"
      /\ m.snapshot_in_progress
      /\ m.snapshot_last_idx # 0
      /\ srv' = [srv EXCEPT ![s] = m2]
      /\ Exchange(EmptyBag, SendTo(s, m2, behind))
      /\ UNCHANGED <<entries, snapshots>>

MayLoad(m, i) ==
  /\ i.idx # 0 /\ i.term # 0
  /\ m.last_applied_idx <= i.idx
  /\ log_get_current_idx(m) <= i.idx
  /\ <<i.term, i.idx>> # <<m.snapshot_last_term, m.snapshot_last_idx>>

\* raft_begin_load_snapshot, the user's restoring of state machine and members,
\* and raft_end_load_snapshot.
LoadSnapshot(s, m, i) ==
  LET m1 == log_load_from_snapshot(m, i.idx)
      Member(p) == [(IF p \in DOMAIN m.nodes /\ p = s THEN m.nodes[p]
                     ELSE raft_node_new(TRUE, FALSE))
                    EXCEPT !.active = TRUE, !.voting = i.members[p],
                           !.voting_committed = i.members[p],
                           !.addition_committed = TRUE,
                           !.has_sufficient_logs = @ \/ i.members[p]]
      Self == [m.nodes[s] EXCEPT !.voting_committed = m.nodes[s].voting,
                                 !.addition_committed = TRUE,
                                 !.has_sufficient_logs = @ \/ m.nodes[s].voting]
  IN  [m1 EXCEPT !.current_term = i.term, !.voted_for = NoNode, !.state = "FOLLOWER",
                 !.current_leader = NoNode,
                 !.commit_idx = max(@, i.idx), !.last_applied_idx = i.idx,
                 !.saved_snapshot_last_idx = m.snapshot_last_idx,
                 !.saved_snapshot_last_term = m.snapshot_last_term,
                 !.snapshot_last_idx = i.idx, !.snapshot_last_term = i.term,
                 !.fsm = i.fsm, !.image = {i},
                 !.nodes = [p \in DOMAIN i.members \cup {s} |->
                              IF p \in DOMAIN i.members THEN Member(p) ELSE Self]]

raft_load_snapshot(sn) ==
  LET s == sn.dst
      m == LoadSnapshot(s, srv[s], sn.image)
  IN  /\ sn.kind = "snap"
      /\ srv[s].state # "DOWN"
      /\ IF MayLoad(srv[s], sn.image)
         THEN /\ srv' = [srv EXCEPT ![s] = m]
              /\ Exchange(SetToBag({sn}),
                          {[kind |-> "aer", src |-> s, dst |-> sn.src,
                            term |-> m.current_term, success |-> TRUE,
                            current_idx |-> sn.image.idx]})
         ELSE /\ Exchange(SetToBag({sn}), {})
              /\ UNCHANGED srv
      /\ UNCHANGED <<entries, snapshots>>

-----------------------------------------------------------------------------
(* The system.                                                             *)

\* raft_new and the raft_add_node calls of init_raft, which leave the members' addition
\* uncommitted; tests/virtraft2.py goes on and marks them (commit_static_configuration).
raft_new(s) ==
  [current_term |-> 0, voted_for |-> NoNode, log |-> << >>, base |-> 0,
   front |-> 0, size |-> LogCapacity, commit_idx |-> 0, last_applied_idx |-> 0,
   state |-> "FOLLOWER", timeout_elapsed |-> FALSE, current_leader |-> NoNode,
   nodes |-> IF s \in InitialMembers
             THEN [p \in InitialMembers |-> raft_node_new(TRUE, CommitStatic)]
             ELSE [p \in {s} |-> raft_node_new(FALSE, FALSE)],
   voting_cfg_change_log_idx |-> -1,
   snapshot_in_progress |-> FALSE, snapshot_nonblocking |-> FALSE,
   snapshot_last_idx |-> 0, snapshot_last_term |-> 0,
   saved_snapshot_last_idx |-> 0, saved_snapshot_last_term |-> 0,
   fsm |-> << >>, image |-> {}, pending |-> {}]

\* A cluster that grows from one server starts with a leader of term 0 whose
\* first entry, committed and applied, adds the server itself.
Bootstrapped(s) ==
  LET ety  == [term |-> 0, type |-> "ADD", node |-> s, id |-> 0]
  IN  raft_apply_all(s, ReceiveEntry(s, raft_become_leader(s, raft_new(s)), ety).me)

Init ==
  /\ srv = [s \in Server |-> IF SelfBootstrap /\ s \in InitialMembers
                             THEN Bootstrapped(s) ELSE raft_new(s)]
  /\ msgs = EmptyBag
  /\ entries = 0
  /\ snapshots = 0

\* An RPC fails: its continuation sees an empty response and does nothing.
FailRpc(x) ==
  /\ msgs' = msgs (-) SetToBag({x})
  /\ UNCHANGED <<srv, entries, snapshots>>

Periodic(s) ==
  \/ Elapse(s)
  \/ PeriodicSoleVoter(s)
  \/ PeriodicHeartbeat(s)
  \/ PeriodicElection(s)
  \/ PeriodicApply(s)

Deliver(x) ==
  \/ raft_recv_requestvote(x)
  \/ raft_recv_requestvote_response(x)
  \/ raft_recv_appendentries(x)
  \/ raft_recv_appendentries_response(x)
  \/ raft_load_snapshot(x)
  \/ FailRpc(x)

UserCall(s) ==
  \/ \E type \in EntryTypes, p \in Server \cup {NoNode} : raft_recv_entry(s, type, p)
  \/ \E nonblocking \in BOOLEAN : raft_begin_snapshot(s, nonblocking)
  \/ raft_cancel_snapshot(s)
  \/ raft_end_snapshot(s)

Next ==
  \/ \E s \in Server : Periodic(s) \/ UserCall(s)
  \/ \E x \in BagToSet(msgs) : Deliver(x)

Spec == Init /\ [][Next]_vars

-----------------------------------------------------------------------------
(* Properties.                                                             *)

\* The committed entries a server knows of: what it has applied, then its log.
Committed(m) ==
  [i \in 1..m.commit_idx |->
     IF i <= Len(m.fsm) THEN m.fsm[i] ELSE log_get_at_idx(m, i)]

\* Servers is Server, as the state has it.
Servers == DOMAIN srv

TypeOK ==
  /\ IsABag(msgs)
  /\ \A s \in Servers :
       /\ srv[s].current_term \in Nat
       /\ srv[s].voted_for \in Servers \cup {NoNode}
       /\ srv[s].state \in {"FOLLOWER", "CANDIDATE", "LEADER", "DOWN"}
       /\ DOMAIN srv[s].nodes \subseteq Servers
       /\ \A p \in DOMAIN srv[s].nodes : srv[s].nodes[p].next_idx \in Nat \ {0}
       /\ srv[s].front \in 0..(srv[s].size - 1)
       /\ Len(srv[s].log) <= srv[s].size

\* Two servers never lead the same term, whatever votes and responses overlap.
ElectionSafety ==
  \A s, t \in Servers :
    (s # t /\ srv[s].state = "LEADER" /\ srv[t].state = "LEADER")
      => srv[s].current_term # srv[t].current_term

\* Logs that hold an entry of the same term at the same index agree on it and on
\* everything before it.
LogMatching ==
  \A s, t \in Servers : \A i \in 1..log_get_current_idx(srv[s]) :
    (/\ HasEntry(srv[s], i) /\ HasEntry(srv[t], i)
     /\ log_get_at_idx(srv[s], i).term = log_get_at_idx(srv[t], i).term)
      => \A j \in 1..i : (HasEntry(srv[s], j) /\ HasEntry(srv[t], j))
                           => log_get_at_idx(srv[s], j) = log_get_at_idx(srv[t], j)

\* Every entry a server holds for committed is in the log of every leader whose
\* term is not older than that server's.
LeaderCompleteness ==
  \A s, l \in Servers :
    (srv[l].state = "LEADER" /\ srv[s].current_term <= srv[l].current_term)
      => \A i \in 1..srv[s].commit_idx :
           /\ i <= log_get_current_idx(srv[l])
           /\ HasEntry(srv[l], i) => log_get_at_idx(srv[l], i) = Committed(srv[s])[i]

\* No server applies an entry where another has applied a different one, and its
\* state machine is as far as last_applied_idx says.
StateMachineSafety ==
  \A s, t \in Servers :
    /\ srv[s].last_applied_idx = Len(srv[s].fsm)
    /\ \/ IsPrefix(srv[s].fsm, srv[t].fsm)
       \/ IsPrefix(srv[t].fsm, srv[s].fsm)

\* The errors the library reports as "should never happen" never end a server: one that
\* is down has applied its own demotion or removal.
NeverShutdown ==
  \A s \in Servers : srv[s].state = "DOWN" =>
    \E e \in Range(srv[s].fsm) : e.type \in {"DEMOTE", "REMOVE"} /\ e.node = s

\* What a leader believes a peer of its term to hold, the peer holds.
MatchIdxSound ==
  \A l \in Servers : \A p \in DOMAIN srv[l].nodes \ {l} :
    (srv[l].state = "LEADER" /\ srv[p].current_term = srv[l].current_term)
      => \A i \in 1..srv[l].nodes[p].match_idx :
           /\ i <= log_get_current_idx(srv[p])
           /\ (HasEntry(srv[l], i) /\ HasEntry(srv[p], i))
                => log_get_at_idx(srv[l], i) = log_get_at_idx(srv[p], i)

\* client_req_handler's rt_assert on raft_recv_entry: a server that takes itself for the
\* leader is the leader.
LeaderKnowsItself ==
  \A s \in Servers : srv[s].state # "DOWN" =>
    (srv[s].current_leader = s <=> srv[s].state = "LEADER")

\* Raft's guarantees: no two leaders of a term; logs that agree on an entry agree on all
\* before it; a leader has every entry that a server of its term or an older one holds
\* for committed; and no two servers apply different entries at an index.  This is so
\* without snapshots, and with them as long as no appendentries message is on its way to
\* a server that loads one: the entries of such a message, which the snapshot contains,
\* are appended again when it arrives (raft_server.c:500), and LogMatching fails.
RaftSafety ==
  /\ TypeOK /\ ElectionSafety /\ LogMatching /\ LeaderCompleteness /\ StateMachineSafety

\* What a leader believes of its peers is so: a peer of its term holds what match_idx
\* says, whatever responses are late or lost; only a leader takes itself for one; and
\* the library never meets what it takes for impossible and shuts a server down
\* (RAFT_ERR_SHUTDOWN).
LeaderBookkeeping == MatchIdxSound /\ LeaderKnowsItself /\ NeverShutdown

\* The cluster as one replicated log: the longest committed sequence any server knows is
\* the chosen one.
Chosen ==
  LET s == CHOOSE s \in Servers : \A t \in Servers : srv[t].commit_idx <= srv[s].commit_idx
  IN  Committed(srv[s])
Whole == snapshots = 0
Machines == [s \in Servers |-> srv[s].fsm]
OneLog == INSTANCE ReplicatedLog WITH
  chosen <- Chosen, applied <- Machines, whole <- Whole

\* Until a server begins a snapshot, what is chosen only grows, one or more entries at a
\* time, and every server applies it in order, each entry once.
ImplementsReplicatedLog == OneLog!Spec

-----------------------------------------------------------------------------
(* Why there is one leader per term, and why logs match, while the members *)
(* are fixed and there are no snapshots, as in apps/smr.                   *)

FixedMembers == EntryTypes = {"NORMAL"} /\ MaxSnapshots = 0 /\ ~SelfBootstrap

NormalEntry == [term : 0..MaxTerm, type : {"NORMAL"}, node : {NoNode}, id : Nat]

MembersVoting(s) == IF s \in InitialMembers THEN {TRUE} ELSE {FALSE}

MemberNode(s) ==
  [next_idx : Nat \ {0}, match_idx : Nat, voted_for_me : BOOLEAN,
   voting : MembersVoting(s), active : {TRUE},
   voting_committed : BOOLEAN, addition_committed : BOOLEAN,
   has_sufficient_logs : BOOLEAN]

MembersOf(s) == IF s \in InitialMembers THEN InitialMembers ELSE {s}

FixedServer(s) ==
  [current_term : 0..MaxTerm, voted_for : InitialMembers \cup {NoNode},
   log : Seq(NormalEntry), base : {0}, front : Nat, size : Nat \ {0},
   commit_idx : Nat, last_applied_idx : Nat,
   state : {"FOLLOWER", "CANDIDATE", "LEADER", "DOWN"}, timeout_elapsed : BOOLEAN,
   current_leader : Server \cup {NoNode}, nodes : [MembersOf(s) -> MemberNode(s)],
   voting_cfg_change_log_idx : {-1},
   snapshot_in_progress : {FALSE}, snapshot_nonblocking : {FALSE},
   snapshot_last_idx : {0}, snapshot_last_term : {0},
   saved_snapshot_last_idx : {0}, saved_snapshot_last_term : {0},
   fsm : Seq(NormalEntry), image : {{}}, pending : {{}}]

RingOK(m) == m.front < m.size /\ Len(m.log) <= m.size

RvMsg == [kind : {"rv"}, src : InitialMembers, dst : InitialMembers, term : 0..MaxTerm,
          last_log_idx : Nat, last_log_term : Nat]
RvrMsg == [kind : {"rvr"}, src : InitialMembers, dst : InitialMembers, term : 0..MaxTerm,
           vote_granted : {-1, 0, 1}]
AeMsg == [kind : {"ae"}, src : InitialMembers, dst : InitialMembers, term : 0..MaxTerm,
          prev_log_idx : Nat, prev_log_term : Nat, leader_commit : Nat,
          entries : Seq(NormalEntry)]
AerMsg == [kind : {"aer"}, src : InitialMembers, dst : InitialMembers, term : 0..MaxTerm,
           success : BOOLEAN, current_idx : Nat]

FixedTypes ==
  /\ DOMAIN srv = Server /\ entries \in Nat /\ snapshots = 0
  /\ \A s \in Server : srv[s] \in FixedServer(s) /\ RingOK(srv[s])
  /\ \A s \in Server \ InitialMembers : srv[s].state = "FOLLOWER" /\ srv[s].log = << >>
  /\ IsABag(msgs)
  /\ \A x \in BagToSet(msgs) :
       x \in RvMsg \cup RvrMsg \cup AeMsg \cup AerMsg /\ x.src # x.dst

\* What is left of a vote of p for s in term t: p's voted_for, its answer on the
\* way, or s's note of it.
HasVoted(p, s, t) ==
  \/ srv[p].current_term = t /\ srv[p].voted_for = s
  \/ \E x \in BagToSet(msgs) :
       /\ x.kind = "rvr" /\ x.src = p /\ x.dst = s /\ x.term = t
       /\ x.vote_granted = 1
  \/ /\ srv[s].state \in {"CANDIDATE", "LEADER"} /\ srv[s].current_term = t
     /\ p # s /\ srv[s].nodes[p].voted_for_me

\* A server votes once in a term, and knows of it while the term lasts.
VoteInv ==
  \A p, s \in InitialMembers : \A t \in 0..MaxTerm :
    HasVoted(p, s, t) =>
      /\ t <= srv[p].current_term
      /\ t = srv[p].current_term => srv[p].voted_for = s
      /\ \A c \in InitialMembers : HasVoted(p, c, t) => c = s

Majority(Q) == Cardinality(InitialMembers) < 2 * Cardinality(Q)

Voters(s) == {p \in InitialMembers : p = s \/ srv[s].nodes[p].voted_for_me}

\* A candidate has voted for itself, and a leader has the votes of a majority.  A
\* server that is alone needs none.
LeaderInv ==
  \A s \in InitialMembers :
    /\ srv[s].state = "CANDIDATE" => srv[s].voted_for = s
    /\ srv[s].state = "LEADER" => \/ InitialMembers = {s}
                                  \/ srv[s].voted_for = s /\ Majority(Voters(s))

ElectionInv == FixedTypes /\ VoteInv /\ LeaderInv

\* s has won the election of term t, or nobody else ever will.
Elected(s, t) ==
  /\ t <= srv[s].current_term
  /\ t = srv[s].current_term => srv[s].state # "CANDIDATE"
  /\ \/ InitialMembers = {s}
     \/ \E Q \in SUBSET InitialMembers :
          /\ Majority(Q)
          /\ \A p \in Q :
               /\ t <= srv[p].current_term
               /\ t = srv[p].current_term => srv[p].voted_for # NoNode
               /\ \A c \in InitialMembers : HasVoted(p, c, t) => c = s

\* An entry, its index and the term of the entry before it: in a log, and in a
\* message.
PrevTerm(log, i) == IF i = 1 THEN 0 ELSE log[i - 1].term
LogLinks(log) == {[idx |-> i, ety |-> log[i], prev |-> PrevTerm(log, i)] : i \in 1..Len(log)}
AeLinks(x) ==
  {[idx |-> x.prev_log_idx + k, ety |-> x.entries[k],
    prev |-> IF k = 1 THEN x.prev_log_term ELSE x.entries[k - 1].term] :
     k \in 1..Len(x.entries)}
Links ==
  (UNION {LogLinks(srv[s].log) : s \in InitialMembers})
    \cup (UNION {AeLinks(x) : x \in {y \in BagToSet(msgs) : y.kind = "ae"}})

\* An index and a term determine the entry and the term before it.
LinksUnique ==
  \A a, b \in Links : a.idx = b.idx /\ a.ety.term = b.ety.term => a = b

\* Entries and appendentries messages come from an elected leader, which holds all
\* entries of its term.
LinksElected ==
  /\ \A a \in Links : \E s \in InitialMembers : Elected(s, a.ety.term)
  /\ \A s \in InitialMembers : srv[s].state = "LEADER" =>
       \A a \in Links : a.ety.term = srv[s].current_term => a \in LogLinks(srv[s].log)
  /\ \A x \in BagToSet(msgs) : x.kind = "ae" =>
       /\ Elected(x.src, x.term)
       /\ x.prev_log_idx = 0 => x.prev_log_term = 0

LogInv == LinksUnique /\ LinksElected

=============================================================================
