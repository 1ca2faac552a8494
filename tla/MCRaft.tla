------------------------------- MODULE MCRaft -------------------------------
(***************************************************************************)
(* Raft clusters and the replicated store on small instances, side by      *)
(* side: a behaviour is one of one instance, which its initial state       *)
(* picks.  The module extends the replicated store, three servers with     *)
(* competing elections; the other clusters are instances of RaftServer.    *)
(* Three of them start in the middle of a behaviour, in a state that the   *)
(* comment on it reaches from Init.                                        *)
(***************************************************************************)
EXTENDS Smr

CONSTANTS t1, t2,      \* two servers
          u1, u2       \* a server that starts alone, and one to be added

VARIABLE component     \* whose behaviour this is

mcVars == <<component, vars, smrVars>>

\* Three servers with logs that conflict: the old entries are replicated, deleted and
\* replaced, and either of their leaders may lead again.  (New entries on top of a
\* conflict: TakenOver.)
Conflicts == INSTANCE RaftServer WITH MaxTerm <- 4, MaxEntries <- 2

\* A server that starts alone and adds, demotes and removes another
Members == INSTANCE RaftServer WITH
  Server <- {u1, u2}, InitialMembers <- {u1}, SelfBootstrap <- TRUE,
  EntryTypes <- {"ADD_NONVOTING", "ADD", "DEMOTE", "REMOVE"},
  MaxTerm <- 2, MaxEntries <- 3

\* A leader that compacts its log: with a follower behind, which loads the snapshot,
\* and while entries come
Behind == INSTANCE RaftServer WITH
  CommitStatic <- TRUE, MaxTerm <- 1, MaxEntries <- 3, MaxMsgs <- 1, MaxSnapshots <- 1
Compaction == INSTANCE RaftServer WITH
  Server <- {t1, t2}, InitialMembers <- {t1, t2}, CommitStatic <- TRUE,
  MaxTerm <- 1, MaxEntries <- 3, MaxSnapshots <- 1

ASSUME ConstantsOK ==
  /\ Conflicts!ServerAssumption /\ Conflicts!BoundAssumption
  /\ Members!ServerAssumption /\ Members!BoundAssumption
  /\ Behind!ServerAssumption /\ Behind!BoundAssumption
  /\ Compaction!ServerAssumption /\ Compaction!BoundAssumption
  /\ ServerAssumption /\ BoundAssumption /\ RequestAssumption /\ FixedMembers

Entry(t, i) == [term |-> t, type |-> "NORMAL", node |-> NoNode, id |-> i]

\* s, in term t with etys in its log, is elected with the vote of p.
Leading(s, t, p, etys, new) ==
  raft_become_leader(s, [new EXCEPT !.current_term = t, !.voted_for = s, !.log = etys,
                                    !.nodes[p].voted_for_me = TRUE])

\* a, then c, each elected with the vote of b, logged an entry in terms 1 and 2 that no
\* other server received; a heard of term 2 and was elected for term 3, of which c has
\* heard, again with the vote of b.
Diverged(a, b, c) ==
  [s \in Server |->
     CASE s = a -> Leading(a, 3, b, <<Entry(1, 1)>>, raft_new(a))
       [] s = b -> [raft_new(b) EXCEPT !.current_term = 3, !.voted_for = a]
       [] s = c -> [raft_new(c) EXCEPT !.current_term = 3, !.log = <<Entry(2, 2)>>,
                                       !.nodes[b].voted_for_me = TRUE]]

\* a was elected for term 1 with the vote of b, which has received a's two entries and
\* acknowledged them; a has applied them, and c has heard nothing of it.
LeftBehind(a, b, c) ==
  LET etys == <<Entry(1, 1), Entry(1, 2)>>
  IN  [s \in Server |->
         CASE s = a -> [Leading(a, 1, b, << >>, Behind!raft_new(a)) EXCEPT
                          !.log = etys, !.commit_idx = 2, !.last_applied_idx = 2,
                          !.fsm = etys, !.nodes[b].next_idx = 3, !.nodes[b].match_idx = 2]
           [] s = b -> [Behind!raft_new(b) EXCEPT !.current_term = 1, !.voted_for = a,
                          !.current_leader = a, !.log = etys]
           [] s = c -> Behind!raft_new(c)]

\* The client's PUT was logged by a, elected for term 1 with the vote of b, and went no
\* further; c was elected for term 2, with the vote of b too, and the client's session to
\* a was reset: it turns to another server.
TakenOver(a, b, c) ==
  [s \in Server |->
     CASE s = a -> [Leading(a, 1, b, << >>, raft_new(a)) EXCEPT !.log = <<Entry(1, 1)>>]
       [] s = b -> [raft_new(b) EXCEPT !.current_term = 2, !.voted_for = c]
       [] s = c -> Leading(c, 2, b, << >>, raft_new(c))]

StoreTakenOver ==
  \E a, b, c \in Server :
    /\ {a, b, c} = Server /\ srv = TakenOver(a, b, c)
    /\ msgs = EmptyBag /\ entries = 1 /\ snapshots = 0 /\ acked = {}
    /\ sav = [s \in Server |-> IF s # a THEN leader_saveinfo_t
                 ELSE [in_use |-> TRUE, req |-> 1, id |-> 1, idx |-> 1, term |-> 1]]
    /\ client \in [leader_idx : {b, c}, req : {1}, st : {"idle"}, resp : {NoResp},
                    disconnected : {{a}}]

\* The state in the middle, whichever servers play the parts
Midway(State(_, _, _)) ==
  /\ \E a, b, c \in Server : {a, b, c} = Server /\ srv = State(a, b, c)
  /\ msgs = EmptyBag /\ entries = 2 /\ snapshots = 0

Stores == {"Store", "TakenOver"}
Components == {"Conflicts", "Members", "Behind", "Compaction"} \cup Stores

MCInit ==
  /\ component \in Components
  /\ CASE component = "Conflicts"  -> Midway(Diverged)
       [] component = "Members"    -> Members!Init
       [] component = "Behind"     -> Midway(LeftBehind)
       [] component = "Compaction" -> Compaction!Init
       [] component = "Store"      -> SmrInit
       [] component = "TakenOver"  -> StoreTakenOver
  /\ component \notin Stores => sav = << >> /\ client = << >> /\ acked = {}

MCNext ==
  /\ UNCHANGED component
  /\ CASE component = "Conflicts"  -> Conflicts!Next /\ UNCHANGED smrVars
       [] component = "Members"    -> Members!Next /\ UNCHANGED smrVars
       [] component = "Behind"     -> Behind!Next /\ UNCHANGED smrVars
       [] component = "Compaction" -> Compaction!Next /\ UNCHANGED smrVars
       [] component \in Stores     -> SmrNext

MCSpec == MCInit /\ [][MCNext]_mcVars

\* Bound: a store is left when its client has had its say, of one request and two terms
\* from the start, the second term after its PUT, and of two requests and three terms from
\* the middle.  The client's last step changes nothing at the servers, which go on in the
\* same way while it still waits.
StoreInUse ==
  /\ component \in Stores =>
       \/ client.st \notin {"idle", "exited"}
       \/ client.req < IF component = "Store" THEN 1 ELSE MaxRequests
  /\ component = "Store" => \A s \in Server : srv[s].current_term <= IF entries = 0 THEN 1 ELSE 2

\* Where all servers start alike
Symmetry == Permutations(Server) \cup Permutations({t1, t2})

=============================================================================
