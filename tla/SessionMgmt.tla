---------------------------- MODULE SessionMgmt ----------------------------
(***************************************************************************)
(* Session management between a client Rpc and a server Rpc: the sessions  *)
(* that the client creates and destroys (create_session_st,                *)
(* destroy_session_st), the connect and disconnect handlers of both ends,  *)
(* the table of pending requests with its retransmission                   *)
(* (pkt_loss_scan_st), and the Nexus SM thread, which answers for an Rpc   *)
(* that is not registered.  Packets travel over UDP: they may be lost,     *)
(* duplicated and reordered.                                               *)
(*                                                                         *)
(* A handler runs to completion in the event loop, so it is one action.    *)
(* The SM thread puts a packet in the target's sm_rx_queue_, from where    *)
(* handle_sm_rx_st pops it: the time it waits there is time spent in the   *)
(* network, and ~Rpc drops the queue as the network might.                 *)
(*                                                                         *)
(* A client session number is a member of Sessions: numbers are indices in *)
(* session_vec_, which only grows, so none is used twice.  The session's   *)
(* 64-bit random uniq_token_ is taken to be unique and is represented by   *)
(* the session itself.                                                     *)
(***************************************************************************)
EXTENDS Integers, Sequences, FiniteSets, TLC

CONSTANTS
    Sessions,       \* bound: the sessions the client may create
    ClientRing,     \* sessions for which the client has RX ring entries
    ServerRing,     \* the same for the server (kNumRxRingEntries /
                    \* kSessionCredits)
    SameTransport,  \* both Rpcs use the same transport_type_
    Faults,         \* what may fail: see AllFaults
    Retry,          \* retry_connect_on_invalid_rpc_id_
    ServerStops,    \* the server Rpc may be destroyed once it has no session
    Duplicating     \* TRUE: a packet, once sent, may arrive any number of
                    \* times (or never); FALSE: at most once, or is lost

kNoError == "kNoError"
kInvalidTransport == "kInvalidTransport"
kRingExhausted == "kRingExhausted"
kRoutingResolutionFailure == "kRoutingResolutionFailure"
kOutOfMemory == "kOutOfMemory"
kInvalidRemoteRpcId == "kInvalidRemoteRpcId"

\* Steps that fail or succeed for reasons outside this model: the server's
\* resolution of the client's routing info and its allocation of the
\* preallocated response MsgBuffers; the client's resolution of the server's.
kClientResolve == "kClientResolve"
ServerFaults == {kRoutingResolutionFailure, kOutOfMemory}
AllFaults == ServerFaults \cup {kClientResolve}

ASSUME SessionsAssumption == IsFiniteSet(Sessions)
ASSUME RingAssumption == ClientRing \in Nat /\ ServerRing \in Nat
ASSUME FaultsAssumption == Faults \subseteq AllFaults
ASSUME SmSwitchesAssumption ==
    {SameTransport, Retry, ServerStops, Duplicating} \subseteq BOOLEAN

kConnectReq == "kConnectReq"
kConnectResp == "kConnectResp"
kDisconnectReq == "kDisconnectReq"
kDisconnectResp == "kDisconnectResp"

\* SessionState; Unborn: the number is beyond session_vec_; Buried: the entry
\* of session_vec_ is null.
Unborn == "Unborn"
kConnectInProgress == "kConnectInProgress"
kConnected == "kConnected"
kDisconnectInProgress == "kDisconnectInProgress"
Buried == "Buried"

\* SmPkt: session is client_.session_num_ (and the token), srv is
\* server_.session_num_, 0 while it is kInvalidSessionNum.
SmPkt == [type : {kConnectReq, kConnectResp, kDisconnectReq, kDisconnectResp},
          err : {kNoError, kInvalidTransport, kRingExhausted,
                 kRoutingResolutionFailure, kOutOfMemory, kInvalidRemoteRpcId},
          session : Sessions, srv : Nat]

\* SmEventType: what the user's SM callback is told.
SmEventType ==
    {"kConnected", "kConnectFailed", "kDisconnected", "kDisconnectFailed"}

VARIABLES
    \* Client Rpc
    state,          \* state[s]: state_ of the client session s
    srv_num,        \* srv_num[s]: its server_.session_num_, or 0
    sm_pending_reqs,\* sm_pending_reqs_
    ring,           \* ring_entries_available_, in sessions
    events,         \* events[s]: the SM callbacks invoked for s, in order
    \* Server Rpc
    server,         \* "absent", "running" or "destroyed"
    s_session_vec,  \* session_vec_: the client session of each server session,
                    \* and whether it is kConnected or Buried
    s_ring,         \* ring_entries_available_, in sessions
    \* Network
    net             \* SM packets in flight

cliVars == <<state, srv_num, sm_pending_reqs, ring, events>>
srvVars == <<server, s_session_vec, s_ring>>
vars == <<state, srv_num, sm_pending_reqs, ring, events,
          server, s_session_vec, s_ring, net>>

Init ==
    /\ state = [s \in Sessions |-> Unborn]
    /\ srv_num = [s \in Sessions |-> 0]
    /\ sm_pending_reqs = {}
    /\ ring = ClientRing
    /\ events = [s \in Sessions |-> <<>>]
    /\ server = "absent"
    /\ s_session_vec = <<>>
    /\ s_ring = ServerRing
    /\ net = {}

-----------------------------------------------------------------------------

\* send_sm_req_st: the request of session s
SmReq(s, type, srv) ==
    [type |-> type, err |-> kNoError, session |-> s, srv |-> srv]

\* sm_construct_resp: the response to request p
SmResp(p, err) ==
    [p EXCEPT !.type = IF p.type = kConnectReq THEN kConnectResp
                       ELSE kDisconnectResp,
              !.err = err]

\* sm_pkt_udp_tx_st of the packets in sent, after those in rcvd were received.
Udp(sent, rcvd) ==
    net' = (IF Duplicating THEN net ELSE net \ rcvd) \cup sent

-----------------------------------------------------------------------------
(* Client: the user's calls and retransmission *)

\* create_session_st, with ring entries available.
CreateSession(s) ==
    /\ state[s] = Unborn
    /\ ring > 0
    /\ state' = [state EXCEPT ![s] = kConnectInProgress]
    /\ ring' = ring - 1
    /\ sm_pending_reqs' = sm_pending_reqs \cup {s}
    /\ Udp({SmReq(s, kConnectReq, 0)}, {})
    /\ UNCHANGED <<srv_num, events>>
    /\ UNCHANGED srvVars

\* destroy_session_st of a connected session whose sslots are all free; in the
\* other states it changes nothing and returns an error code.
DestroySession(s) ==
    /\ state[s] = kConnected
    /\ state' = [state EXCEPT ![s] = kDisconnectInProgress]
    /\ sm_pending_reqs' = sm_pending_reqs \cup {s}
    /\ Udp({SmReq(s, kDisconnectReq, srv_num[s])}, {})
    /\ UNCHANGED <<srv_num, ring, events>>
    /\ UNCHANGED srvVars

\* Faulty variant of PktLossScan: connect requests are not re-sent.
PktLossScan_DisconnectsOnly(s) ==
    /\ s \in sm_pending_reqs
    /\ state[s] = kDisconnectInProgress
    /\ Udp({SmReq(s, kDisconnectReq, srv_num[s])}, {})
    /\ UNCHANGED cliVars
    /\ UNCHANGED srvVars

\* pkt_loss_scan_st, management part, for one pending session whose request
\* was sent more than kSMTimeoutMs ago (time is abstracted).
PktLossScan(s) ==
    /\ s \in sm_pending_reqs
    /\ \/ /\ state[s] = kConnectInProgress
          /\ Udp({SmReq(s, kConnectReq, 0)}, {})
       \/ /\ state[s] = kDisconnectInProgress
          /\ Udp({SmReq(s, kDisconnectReq, srv_num[s])}, {})
    /\ UNCHANGED cliVars
    /\ UNCHANGED srvVars

-----------------------------------------------------------------------------
(* Client: responses.  handle_sm_rx_st removes the session from            *)
(* sm_pending_reqs_ before it calls the handler.                           *)

\* handle_connect_resp_st for a session that is not connecting any more.
HandleConnectRespIgnore(p) ==
    /\ p.type = kConnectResp
    /\ state[p.session] # kConnectInProgress
    /\ sm_pending_reqs' = sm_pending_reqs \ {p.session}
    /\ Udp({}, {p})
    /\ UNCHANGED <<state, srv_num, ring, events>>
    /\ UNCHANGED srvVars

\* handle_connect_resp_st, the server Rpc does not exist yet: the request stays
\* pending, so that pkt_loss_scan_st sends it again.
HandleConnectRespRetry(p) ==
    /\ p.type = kConnectResp
    /\ state[p.session] = kConnectInProgress
    /\ p.err = kInvalidRemoteRpcId /\ Retry
    /\ sm_pending_reqs' = sm_pending_reqs \cup {p.session}
    /\ Udp({}, {p})
    /\ UNCHANGED <<state, srv_num, ring, events>>
    /\ UNCHANGED srvVars

\* What the two faulty variants of HandleConnectRespError do.
BuryUnconnected(p) ==
    /\ p.type = kConnectResp
    /\ p.err # kNoError
    /\ sm_pending_reqs' = sm_pending_reqs \ {p.session}
    /\ ring' = ring + 1
    /\ events' = [events EXCEPT ![p.session] = Append(@, "kConnectFailed")]
    /\ state' = [state EXCEPT ![p.session] = Buried]
    /\ Udp({}, {p})
    /\ UNCHANGED srv_num
    /\ UNCHANGED srvVars

\* Faulty variant of HandleConnectRespError: a late error response is applied
\* to a session that is not connecting any more.
HandleConnectRespError_Late(p) ==
    state[p.session] \notin {Unborn, Buried} /\ BuryUnconnected(p)

\* Faulty variant of HandleConnectRespError: a missing server Rpc is an error
\* like any other.
HandleConnectRespError_NoRetry(p) ==
    state[p.session] = kConnectInProgress /\ BuryUnconnected(p)

\* handle_connect_resp_st, any other error: free the ring entries, tell the
\* user, bury the session.
HandleConnectRespError(p) ==
    /\ p.type = kConnectResp
    /\ state[p.session] = kConnectInProgress
    /\ p.err # kNoError
    /\ ~(p.err = kInvalidRemoteRpcId /\ Retry)
    /\ sm_pending_reqs' = sm_pending_reqs \ {p.session}
    /\ ring' = ring + 1
    /\ events' = [events EXCEPT ![p.session] = Append(@, "kConnectFailed")]
    /\ state' = [state EXCEPT ![p.session] = Buried]
    /\ Udp({}, {p})
    /\ UNCHANGED srv_num
    /\ UNCHANGED srvVars

\* Faulty variant of HandleConnectRespUnresolved: the server endpoint is not
\* saved before the disconnect request is sent.
HandleConnectRespUnresolved_NotSaved(p) ==
    /\ kClientResolve \in Faults
    /\ p.type = kConnectResp
    /\ state[p.session] = kConnectInProgress
    /\ p.err = kNoError
    /\ state' = [state EXCEPT ![p.session] = kDisconnectInProgress]
    /\ sm_pending_reqs' = sm_pending_reqs \cup {p.session}
    /\ Udp({SmReq(p.session, kDisconnectReq, srv_num[p.session])}, {p})
    /\ UNCHANGED <<srv_num, ring, events>>
    /\ UNCHANGED srvVars

\* handle_connect_resp_st, the server's routing info cannot be resolved:
\* disconnect at once, without a callback.
HandleConnectRespUnresolved(p) ==
    /\ kClientResolve \in Faults
    /\ p.type = kConnectResp
    /\ state[p.session] = kConnectInProgress
    /\ p.err = kNoError
    /\ srv_num' = [srv_num EXCEPT ![p.session] = p.srv]
    /\ state' = [state EXCEPT ![p.session] = kDisconnectInProgress]
    /\ sm_pending_reqs' = sm_pending_reqs \cup {p.session}
    /\ Udp({SmReq(p.session, kDisconnectReq, p.srv)}, {p})
    /\ UNCHANGED <<ring, events>>
    /\ UNCHANGED srvVars

\* Faulty variant of HandleConnectRespOk: a duplicate response is applied to a
\* session that is not connecting any more.
HandleConnectRespOk_Duplicate(p) ==
    /\ p.type = kConnectResp
    /\ state[p.session] \notin {Unborn, Buried}
    /\ p.err = kNoError
    /\ srv_num' = [srv_num EXCEPT ![p.session] = p.srv]
    /\ state' = [state EXCEPT ![p.session] = kConnected]
    /\ events' = [events EXCEPT ![p.session] = Append(@, "kConnected")]
    /\ sm_pending_reqs' = sm_pending_reqs \ {p.session}
    /\ Udp({}, {p})
    /\ UNCHANGED ring
    /\ UNCHANGED srvVars

\* handle_connect_resp_st, success.
HandleConnectRespOk(p) ==
    /\ p.type = kConnectResp
    /\ state[p.session] = kConnectInProgress
    /\ p.err = kNoError
    /\ srv_num' = [srv_num EXCEPT ![p.session] = p.srv]
    /\ state' = [state EXCEPT ![p.session] = kConnected]
    /\ events' = [events EXCEPT ![p.session] = Append(@, "kConnected")]
    /\ sm_pending_reqs' = sm_pending_reqs \ {p.session}
    /\ Udp({}, {p})
    /\ UNCHANGED ring
    /\ UNCHANGED srvVars

\* Faulty variant of HandleDisconnectResp: no test for a buried session.
HandleDisconnectResp_Twice(p) ==
    /\ p.type = kDisconnectResp
    /\ sm_pending_reqs' = sm_pending_reqs \ {p.session}
    /\ ring' = ring + 1
    /\ events' = [events EXCEPT ![p.session] = Append(@, "kDisconnected")]
    /\ state' = [state EXCEPT ![p.session] = Buried]
    /\ Udp({}, {p})
    /\ UNCHANGED srv_num
    /\ UNCHANGED srvVars

\* handle_disconnect_resp_st: nothing for a session already buried; otherwise
\* free the ring entries, tell the user, bury the session.
HandleDisconnectResp(p) ==
    /\ p.type = kDisconnectResp
    /\ sm_pending_reqs' = sm_pending_reqs \ {p.session}
    /\ IF state[p.session] = Buried
       THEN UNCHANGED <<ring, events, state>>
       ELSE /\ ring' = ring + 1
            /\ events' = [events EXCEPT ![p.session] = Append(@, "kDisconnected")]
            /\ state' = [state EXCEPT ![p.session] = Buried]
    /\ Udp({}, {p})
    /\ UNCHANGED srv_num
    /\ UNCHANGED srvVars

-----------------------------------------------------------------------------
(* Server *)

\* Faulty variant of TokenMap: burying a session forgets its token.
TokenMap_Forgets(s) ==
    {i \in DOMAIN s_session_vec :
        s_session_vec[i] = [token |-> s, state |-> kConnected]}

\* conn_req_token_map_: the server sessions created for the token of s.
TokenMap(s) == {i \in DOMAIN s_session_vec : s_session_vec[i].token = s}

\* Faulty variant of HandleConnectReqDuplicate: the response lacks the server
\* endpoint.
HandleConnectReqDuplicate_NoEndpoint(p) ==
    /\ server = "running"
    /\ p.type = kConnectReq
    /\ TokenMap(p.session) # {}
    /\ \E i \in TokenMap(p.session) :
         Udp(IF s_session_vec[i].state = kConnected
             THEN {SmResp(p, kNoError)} ELSE {}, {p})
    /\ UNCHANGED cliVars
    /\ UNCHANGED srvVars

\* handle_connect_req_st, a token seen before: re-send the response, unless
\* the session is gone.
HandleConnectReqDuplicate(p) ==
    /\ server = "running"
    /\ p.type = kConnectReq
    /\ TokenMap(p.session) # {}
    /\ \E i \in TokenMap(p.session) :
         Udp(IF s_session_vec[i].state = kConnected
             THEN {[SmResp(p, kNoError) EXCEPT !.srv = i]} ELSE {}, {p})
    /\ UNCHANGED cliVars
    /\ UNCHANGED srvVars

\* The errors handle_connect_req_st may find, in the order it looks for them.
ConnectErrors ==
    IF ~SameTransport THEN {kInvalidTransport}
    ELSE IF s_ring = 0 THEN {kRingExhausted}
    ELSE Faults \cap ServerFaults

\* handle_connect_req_st, an error: nothing is allocated or remembered.
HandleConnectReqError(p, err) ==
    /\ server = "running"
    /\ p.type = kConnectReq
    /\ TokenMap(p.session) = {}
    /\ err \in ConnectErrors
    /\ Udp({SmResp(p, err)}, {p})
    /\ UNCHANGED cliVars
    /\ UNCHANGED srvVars

\* handle_connect_req_st, success: create the server's end of the session.
HandleConnectReqOk(p) ==
    /\ server = "running"
    /\ p.type = kConnectReq
    /\ TokenMap(p.session) = {}
    /\ SameTransport
    /\ s_ring > 0
    /\ s_session_vec' =
         Append(s_session_vec, [token |-> p.session, state |-> kConnected])
    /\ s_ring' = s_ring - 1
    /\ Udp({[SmResp(p, kNoError) EXCEPT !.srv = Len(s_session_vec) + 1]}, {p})
    /\ UNCHANGED server
    /\ UNCHANGED cliVars

\* Faulty variant of HandleDisconnectReq: no test for a buried session.
HandleDisconnectReq_Twice(p) ==
    /\ server = "running"
    /\ p.type = kDisconnectReq
    /\ s_ring' = s_ring + 1
    /\ s_session_vec' = [s_session_vec EXCEPT ![p.srv].state = Buried]
    /\ Udp({SmResp(p, kNoError)}, {p})
    /\ UNCHANGED server
    /\ UNCHANGED cliVars

\* handle_disconnect_req_st: free and bury the session, unless it already is;
\* respond in both cases.
HandleDisconnectReq(p) ==
    /\ server = "running"
    /\ p.type = kDisconnectReq
    /\ IF s_session_vec[p.srv].state = Buried
       THEN UNCHANGED <<s_session_vec, s_ring>>
       ELSE /\ s_ring' = s_ring + 1
            /\ s_session_vec' = [s_session_vec EXCEPT ![p.srv].state = Buried]
    /\ Udp({SmResp(p, kNoError)}, {p})
    /\ UNCHANGED server
    /\ UNCHANGED cliVars

\* sm_thread_func: a request for an Rpc that is not registered.
RejectRequest(p) ==
    /\ server # "running"
    /\ p.type \in {kConnectReq, kDisconnectReq}
    /\ Udp({SmResp(p, kInvalidRemoteRpcId)}, {p})
    /\ UNCHANGED cliVars
    /\ UNCHANGED srvVars

\* The constructor of the server's Rpc registers its hook.
StartServer ==
    /\ server = "absent"
    /\ server' = "running"
    /\ UNCHANGED <<s_session_vec, s_ring, net>>
    /\ UNCHANGED cliVars

\* ~Rpc.  The test that every session was disconnected is an assumption about
\* the user, who waits until num_active_sessions() is zero: ~Rpc itself deletes
\* whatever sessions are left ("XXX: Check if all sessions are disconnected").
DestroyServer ==
    /\ ServerStops
    /\ server = "running"
    /\ \A i \in DOMAIN s_session_vec : s_session_vec[i].state = Buried
    /\ server' = "destroyed"
    /\ UNCHANGED <<s_session_vec, s_ring, net>>
    /\ UNCHANGED cliVars

\* UDP loses a packet.  (When Duplicating, a packet is lost by never arriving.)
LosePacket(p) ==
    /\ ~Duplicating
    /\ Udp({}, {p})
    /\ UNCHANGED cliVars
    /\ UNCHANGED srvVars

\* The handling of packet p, by the SM thread or by handle_sm_rx_st.
HandleSmPkt(p) ==
    \/ HandleConnectRespIgnore(p)
    \/ HandleConnectRespRetry(p)
    \/ HandleConnectRespError(p)
    \/ HandleConnectRespUnresolved(p)
    \/ HandleConnectRespOk(p)
    \/ HandleDisconnectResp(p)
    \/ HandleConnectReqDuplicate(p)
    \/ \E err \in ConnectErrors : HandleConnectReqError(p, err)
    \/ HandleConnectReqOk(p)
    \/ HandleDisconnectReq(p)
    \/ RejectRequest(p)

Next ==
    \/ \E s \in Sessions : CreateSession(s)
    \/ \E s \in Sessions : DestroySession(s)
    \/ \E s \in sm_pending_reqs : PktLossScan(s)
    \/ \E p \in net : HandleSmPkt(p)
    \/ \E p \in net : LosePacket(p)
    \/ StartServer
    \/ DestroyServer

Spec == Init /\ [][Next]_vars

-----------------------------------------------------------------------------
(* Properties *)

\* Type invariant.
TypeOK ==
    /\ state \in [Sessions -> {Unborn, kConnectInProgress, kConnected,
                               kDisconnectInProgress, Buried}]
    /\ srv_num \in [Sessions -> Nat]
    /\ sm_pending_reqs \in SUBSET Sessions
    /\ ring \in 0..ClientRing
    /\ events \in [Sessions -> Seq(SmEventType)]
    /\ server \in {"absent", "running", "destroyed"}
    /\ s_session_vec \in Seq([token : Sessions, state : {kConnected, Buried}])
    /\ s_ring \in 0..ServerRing
    /\ net \in SUBSET SmPkt

\* Ring entries are neither leaked nor freed twice, at either end, however
\* connects and disconnects are duplicated, retried or refused: they are held by
\* exactly the sessions in session_vec_ (the assert of free_ring_entries).  The
\* client gives its entries back when the disconnect response arrives.  (The
\* comment above handle_disconnect_resp_st says otherwise: "We free the
\* session's ring bufs before sending the disconnect request, so not here".
\* The code does free them there, and does not before.)
RingConservation ==
    /\ ring + Cardinality({s \in Sessions : state[s] \notin {Unborn, Buried}})
         = ClientRing
    /\ s_ring + Cardinality({i \in DOMAIN s_session_vec :
                                s_session_vec[i].state = kConnected}) = ServerRing

\* A client session gets at most one server session in its life, even when its
\* connect request arrives after the session was disconnected.
OneServerSession ==
    \A i, j \in DOMAIN s_session_vec :
        s_session_vec[i].token = s_session_vec[j].token => i = j

\* A connected client session has a live peer, which belongs to it: data
\* packets it sends are never dropped as packets "for buried session".
ConnectedHasPeer ==
    \A s \in Sessions : state[s] = kConnected =>
        /\ server = "running"
        /\ srv_num[s] \in DOMAIN s_session_vec
        /\ s_session_vec[srv_num[s]] = [token |-> s, state |-> kConnected]

\* The asserts of handle_disconnect_req_st and handle_disconnect_resp_st: a
\* disconnect request names the sender's own server session, and when a
\* response arrives the client is disconnecting or done, its peer is buried.
\* The assert err_type_ == kNoError ("Disconnects don't fail") holds with one
\* exception, in which it fails: a disconnect request that was sent again
\* reaches the server's host after the server's Rpc was destroyed, and its SM
\* thread answers kInvalidRemoteRpcId.
DisconnectsMatch ==
    \A p \in net :
        /\ p.type = kDisconnectReq =>
             /\ p.srv \in DOMAIN s_session_vec
             /\ s_session_vec[p.srv].token = p.session
             /\ state[p.session] \in {kDisconnectInProgress, Buried}
        /\ p.type = kDisconnectResp =>
             /\ state[p.session] \in {kDisconnectInProgress, Buried}
             /\ p.srv = srv_num[p.session]
             /\ s_session_vec[p.srv].state = Buried
             /\ \/ p.err = kNoError
                \/ p.err = kInvalidRemoteRpcId /\ server = "destroyed"

\* The user's callbacks: at most one of kConnected and kConnectFailed, then
\* kDisconnected once, and exactly one final event before a session is buried.
CallbacksMatchState ==
    \A s \in Sessions :
        CASE state[s] \in {Unborn, kConnectInProgress} -> events[s] = <<>>
          [] state[s] = kConnected -> events[s] = <<"kConnected">>
          [] state[s] = kDisconnectInProgress ->
               events[s] \in {<<>>, <<"kConnected">>}
          [] state[s] = Buried ->
               events[s] \in {<<"kConnectFailed">>, <<"kDisconnected">>,
                              <<"kConnected", "kDisconnected">>}

\* Sessions are never revived: a step only moves a session on in its life, and
\* a server session that was buried stays buried under its number.
LifeCycle ==
    [][/\ \A s \in Sessions : state'[s] # state[s] =>
            \/ state[s] = Unborn /\ state'[s] = kConnectInProgress
            \/ state[s] = kConnectInProgress /\ state'[s] # Unborn
            \/ state[s] = kConnected /\ state'[s] = kDisconnectInProgress
            \/ state[s] = kDisconnectInProgress /\ state'[s] = Buried
       /\ \A i \in DOMAIN s_session_vec :
            /\ i \in DOMAIN s_session_vec'
            /\ s_session_vec'[i].token = s_session_vec[i].token
            /\ s_session_vec[i].state = Buried =>
                 s_session_vec'[i].state = Buried]_vars

\* A server session is not orphaned: while it is connected, its client session
\* exists and has not been buried (handle_connect_resp_st, of a response with an
\* error: "The server didn't allocate session resources, so we can just
\* destroy").  It holds of a server that refuses no session (RefusesNone).
\* Otherwise one copy of a connect request may be refused and a later copy be
\* accepted; the client then buries the session when the first answer arrives,
\* and ignores the second.
NoOrphanServerSession ==
    \A i \in DOMAIN s_session_vec : s_session_vec[i].state = kConnected =>
        state[s_session_vec[i].token] # Buried

-----------------------------------------------------------------------------
(* The inductive invariant *)

\* A session that is connected or disconnecting knows the server session that
\* was created for it.
PeerKnown ==
    \A s \in Sessions : state[s] \in {kConnected, kDisconnectInProgress} =>
        /\ srv_num[s] \in DOMAIN s_session_vec
        /\ s_session_vec[srv_num[s]].token = s

\* A server session is buried only when its client has asked for it, and they
\* are all buried unless the server runs; there is none before it starts.
BuriedOnRequest ==
    \A i \in DOMAIN s_session_vec :
        /\ s_session_vec[i].state = Buried =>
             state[s_session_vec[i].token] \in {kDisconnectInProgress, Buried}
        /\ s_session_vec[i].state = kConnected => server = "running"
        /\ server # "absent"

\* A positive connect response names the server session of its client session;
\* so do disconnect requests and responses, and the client knows it.
PktMatches(p) ==
    /\ p.type = kConnectResp /\ p.err = kNoError =>
         /\ p.srv \in DOMAIN s_session_vec
         /\ s_session_vec[p.srv].token = p.session
    /\ p.type \in {kDisconnectReq, kDisconnectResp} =>
         /\ p.srv \in DOMAIN s_session_vec
         /\ s_session_vec[p.srv].token = p.session
         /\ p.srv = srv_num[p.session]
         /\ state[p.session] \in {kDisconnectInProgress, Buried}
    /\ p.type = kDisconnectResp =>
         /\ s_session_vec[p.srv].state = Buried
         /\ \/ p.err = kNoError
            \/ p.err = kInvalidRemoteRpcId /\ server = "destroyed"

PacketsMatch == \A p \in net : PktMatches(p)

\* The inductive invariant of session management: the properties above that
\* relate the two ends follow from it.
SmInv ==
    /\ TypeOK /\ RingConservation /\ OneServerSession
    /\ PeerKnown /\ BuriedOnRequest /\ PacketsMatch /\ CallbacksMatchState

\* The server refuses no session: it uses the client's transport, has ring
\* entries for every session, its allocations succeed, and a connect request
\* that it is too early to accept is repeated.
RefusesNone ==
    /\ Retry /\ SameTransport
    /\ Faults \cap ServerFaults = {}
    /\ Cardinality(Sessions) <= ServerRing

\* If it refuses none, then no connect response carries a server's error and a
\* session is buried only after it had a server session.
OrphanInv ==
    /\ NoOrphanServerSession
    /\ \A p \in net : p.type = kConnectResp =>
         p.err \in {kNoError, kInvalidRemoteRpcId}
    /\ \A s \in Sessions : state[s] = Buried => TokenMap(s) # {}

-----------------------------------------------------------------------------
(* Liveness *)

\* The event loops run, so pending requests are re-sent; the server's Rpc is
\* created eventually; UDP is fair-lossy: of a packet of one type and session
\* that is sent over and over, copies arrive.
Fairness ==
    /\ WF_vars(StartServer)
    /\ \A s \in Sessions :
         /\ WF_vars(PktLossScan(s))
         /\ \A t \in {kConnectReq, kConnectResp, kDisconnectReq,
                      kDisconnectResp} :
              SF_vars(\E p \in net : p.type = t /\ p.session = s /\ HandleSmPkt(p))

FairSpec == Spec /\ Fairness

\* Every create_session() is decided: the session is connected, or the user is
\* told that it failed (or it is being disconnected), although packets are lost
\* and the server may start late.
ConnectsResolve ==
    \A s \in Sessions : state[s] = kConnectInProgress ~>
        state[s] # kConnectInProgress

\* Every destroy_session() completes although packets are lost
\* (pkt_loss_scan_st "handles both datapath and management packet loss").
DisconnectsComplete ==
    \A s \in Sessions : state[s] = kDisconnectInProgress ~> state[s] = Buried

\* Client sessions are interchangeable.
Symmetry == Permutations(Sessions)
=============================================================================
