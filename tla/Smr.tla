-------------------------------- MODULE Smr --------------------------------
(***************************************************************************)
(* The replicated key-value store of apps/smr: its one client, and the     *)
(* servers' main loop around the Raft library of RaftServer.  A PUT goes   *)
(* to the server the client takes for the leader; that server saves the    *)
(* request in its only leader_saveinfo, submits it to Raft and, once per   *)
(* turn of the main loop, asks the library whether the entry has been      *)
(* committed.                                                              *)
(*                                                                         *)
(* Membership is fixed and there are no snapshots, as in the application   *)
(* (EntryTypes = {"NORMAL"}, MaxSnapshots = 0).                            *)
(***************************************************************************)
EXTENDS RaftServer

CONSTANT MaxRequests   \* bound on requests the client sends

RequestAssumption == MaxRequests \in Nat

VARIABLES
  sav,     \* sav[s]: leader_saveinfo, with idx and term of msg_entry_response
  client,  \* leader_idx, the number and state of the only outstanding RPC, and the
           \* servers whose session is disconnected
  acked    \* the entries answered with kSuccess, and the server's term then

smrVars == <<sav, client, acked>>

\* leader_saveinfo_t, before the first request
leader_saveinfo_t == [in_use |-> FALSE, req |-> 0, id |-> 0, idx |-> 0, term |-> 0]

\* A server's response to request req; a response to a request that the client
\* has given up is dropped by eRPC.
Respond(cl, s, req, type, leader) ==
  IF cl.req = req /\ cl.st = "sent" /\ cl.leader_idx = s
  THEN [cl EXCEPT !.st = "answered", !.resp = [type |-> type, leader |-> leader]]
  ELSE cl

NoResp == [type |-> "kNone", leader |-> NoNode]

\* init_raft and client_func: the client starts with some server.
SmrInit ==
  /\ Init
  /\ sav = [s \in Server |-> leader_saveinfo_t]
  /\ client \in [leader_idx : Server, req : {0}, st : {"idle"}, resp : {NoResp},
                 disconnected : {{}}]
  /\ acked = {}

\* send_req_one
SendReqOne ==
  /\ client.st = "idle"
  /\ client.req < MaxRequests
  /\ client' = [client EXCEPT !.st = "sent", !.req = @ + 1]
  /\ UNCHANGED <<vars, sav, acked>>

\* Whether a server's handler has taken the request already: eRPC runs it once.
Handled(req) == client.st = "answered" \/ \E s \in Server : sav[s].req = req

\* client_req_handler at the server the request was sent to, one action for each
\* of its three ends
ClientReqTryAgain ==
  LET s == client.leader_idx IN
  /\ client.st = "sent" /\ ~Handled(client.req)
  /\ srv[s].state # "DOWN"
  /\ srv[s].current_leader = NoNode
  /\ client' = Respond(client, s, client.req, "kFailTryAgain", NoNode)
  /\ UNCHANGED <<vars, sav, acked>>

ClientReqRedirect ==
  LET s == client.leader_idx IN
  /\ client.st = "sent" /\ ~Handled(client.req)
  /\ srv[s].state # "DOWN"
  /\ srv[s].current_leader \notin {NoNode, s}
  /\ client' = Respond(client, s, client.req, "kFailRedirect", srv[s].current_leader)
  /\ UNCHANGED <<vars, sav, acked>>

ClientReqAccept ==
  LET s == client.leader_idx IN
  /\ client.st = "sent" /\ ~Handled(client.req)
  /\ srv[s].current_leader = s
  /\ raft_recv_entry(s, "NORMAL", NoNode)
  /\ sav' = [sav EXCEPT ![s] = [in_use |-> TRUE, req |-> client.req, id |-> entries',
                                idx |-> log_get_current_idx(srv'[s]),
                                term |-> srv[s].current_term]]
  /\ UNCHANGED <<client, acked>>

raft_msg_entry_response_committed(m, r) ==
  IF ~HasEntry(m, r.idx) THEN 0
  ELSE IF log_get_at_idx(m, r.idx).term # r.term THEN -1
  ELSE IF r.idx <= m.commit_idx THEN 1 ELSE 0

\* Mutation: the response is sent as soon as the entry is in the log.
CheckCommit_InLog(s) ==
  /\ sav[s].in_use
  /\ HasEntry(srv[s], sav[s].idx)
  /\ sav' = [sav EXCEPT ![s].in_use = FALSE]
  /\ client' = Respond(client, s, sav[s].req, "kSuccess", NoNode)
  /\ acked' = acked \cup {[id |-> sav[s].id, idx |-> sav[s].idx,
                         term |-> srv[s].current_term]}
  /\ UNCHANGED vars

\* The end of a turn of server_func's loop.  The other verdicts change nothing.
CheckCommit(s) ==
  /\ srv[s].state # "DOWN"
  /\ sav[s].in_use
  /\ raft_msg_entry_response_committed(srv[s], sav[s]) = 1
  /\ srv' = [srv EXCEPT ![s] = raft_apply_all(s, @)]
  /\ sav' = [sav EXCEPT ![s].in_use = FALSE]
  /\ client' = Respond(client, s, sav[s].req, "kSuccess", NoNode)
  /\ acked' = acked \cup {[id |-> sav[s].id, idx |-> sav[s].idx,
                         term |-> srv[s].current_term]}
  /\ UNCHANGED <<msgs, entries, snapshots>>

\* A redirection to a server whose session is disconnected is ignored.
change_leader_to_node(cl, s) ==
  IF s \in cl.disconnected THEN cl ELSE [cl EXCEPT !.leader_idx = s]

\* The next server whose session is not disconnected; without one the client exits.
change_leader_to_any(cl) ==
  LET up == Server \ (cl.disconnected \cup {cl.leader_idx})
  IN  IF up = {} THEN {[cl EXCEPT !.st = "exited"]}
      ELSE {[cl EXCEPT !.leader_idx = s] : s \in up}

\* client_cont with a response
ClientCont ==
  LET cl == [client EXCEPT !.st = "idle", !.resp = NoResp] IN
  /\ client.st = "answered"
  /\ client' = IF client.resp.type = "kFailRedirect"
               THEN change_leader_to_node(cl, client.resp.leader) ELSE cl
  /\ UNCHANGED <<vars, sav, acked>>

\* The client's session to leader_idx is reset: client_cont with a failure, then the
\* sm_handler's note that the session is disconnected.
ClientContFailure ==
  /\ client.st \in {"sent", "answered"}
  /\ \E cl \in change_leader_to_any([client EXCEPT !.st = "idle", !.resp = NoResp]) :
       client' = [cl EXCEPT !.disconnected = @ \cup {client.leader_idx}]
  /\ UNCHANGED <<vars, sav, acked>>

ClientNext ==
  \/ SendReqOne
  \/ ClientReqTryAgain
  \/ ClientReqRedirect
  \/ ClientReqAccept
  \/ ClientCont
  \/ ClientContFailure

ServerNext ==
  \/ \E s \in Server : Periodic(s) /\ UNCHANGED smrVars
  \/ \E x \in BagToSet(msgs) : Deliver(x) /\ UNCHANGED smrVars
  \/ \E s \in Server : CheckCommit(s)

SmrNext == ClientNext \/ ServerNext

SmrSpec == SmrInit /\ [][SmrNext]_<<vars, smrVars>>

-----------------------------------------------------------------------------
(* Properties.                                                             *)

\* A PUT answered with kSuccess survives: every leader of that term or a later
\* one has its entry in its place.
AckedIsDurable ==
  \A a \in acked : \A l \in Servers :
    (srv[l].state = "LEADER" /\ a.term <= srv[l].current_term)
      => HasEntry(srv[l], a.idx) /\ log_get_at_idx(srv[l], a.idx).id = a.id

=============================================================================
