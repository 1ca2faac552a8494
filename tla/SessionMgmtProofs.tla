------------------------- MODULE SessionMgmtProofs -------------------------
(***************************************************************************)
(* Proofs about session management, for any number of sessions and ring    *)
(* entries, any faults, and a network that loses, reorders and (if         *)
(* Duplicating) duplicates packets: SmInv is inductive, the safety         *)
(* properties follow from it, sessions keep to their life cycle, and no    *)
(* server session is orphaned as long as the server refuses none.          *)
(***************************************************************************)
EXTENDS SessionMgmt, FiniteSetTheorems, SequenceTheorems, TLAPS

SessionState ==
    {Unborn, kConnectInProgress, kConnected, kDisconnectInProgress, Buried}

SrvSession == [token : Sessions, state : {kConnected, Buried}]

\* The sessions that hold ring entries of the client, those that hold the
\* server's.
CliHeld == {s \in Sessions : state[s] \notin {Unborn, Buried}}
SrvHeld == {i \in DOMAIN s_session_vec : s_session_vec[i].state = kConnected}

USE SessionsAssumption, RingAssumption, FaultsAssumption, SmSwitchesAssumption
    DEF Unborn, kConnectInProgress, kConnected, kDisconnectInProgress, Buried

\* Packets: the requests and responses that are sent are SM packets.
LEMMA SmReqType ==
  ASSUME NEW s \in Sessions, NEW t \in {kConnectReq, kDisconnectReq}, NEW n \in Nat
  PROVE  /\ SmReq(s, t, n) \in SmPkt
         /\ SmReq(s, t, n).type = t
         /\ SmReq(s, t, n).session = s
         /\ SmReq(s, t, n).srv = n
  BY DEF SmReq, SmPkt, kConnectReq, kDisconnectReq, kConnectResp, kDisconnectResp,
         kNoError

LEMMA SmRespType ==
  ASSUME NEW p \in SmPkt,
         NEW err \in {kNoError, kInvalidTransport, kRingExhausted,
                      kRoutingResolutionFailure, kOutOfMemory, kInvalidRemoteRpcId}
  PROVE  /\ SmResp(p, err) \in SmPkt
         /\ SmResp(p, err).type =
              IF p.type = kConnectReq THEN kConnectResp ELSE kDisconnectResp
         /\ SmResp(p, err).err = err
         /\ SmResp(p, err).session = p.session
         /\ SmResp(p, err).srv = p.srv
  BY DEF SmResp, SmPkt

LEMMA SmPktWithSrv ==
  ASSUME NEW p \in SmPkt, NEW n \in Nat
  PROVE  /\ [p EXCEPT !.srv = n] \in SmPkt
         /\ [p EXCEPT !.srv = n].type = p.type
         /\ [p EXCEPT !.srv = n].err = p.err
         /\ [p EXCEPT !.srv = n].session = p.session
         /\ [p EXCEPT !.srv = n].srv = n
  BY DEF SmPkt

\* Sending and receiving adds at most the packets sent.
LEMMA UdpNet ==
  ASSUME NEW sent, NEW rcvd, Udp(sent, rcvd)
  PROVE  net' \subseteq net \cup sent
  BY DEF Udp

\* The short sequences of callbacks.
LEMMA AppendShort ==
  ASSUME NEW a, NEW e
  PROVE  Append(<<>>, e) = <<e>> /\ Append(<<a>>, e) = <<a, e>>
<1>1. <<a>> \in Seq({a, e}) /\ <<a, e>> \in Seq({a, e})
  OBVIOUS
<1>2. /\ Append(<<a>>, e) \in Seq({a, e}) /\ Len(Append(<<a>>, e)) = Len(<<a, e>>)
      /\ \A i \in 1..Len(Append(<<a>>, e)) : Append(<<a>>, e)[i] = <<a, e>>[i]
  OBVIOUS
<1>3. Append(<<a>>, e) = <<a, e>>
  BY <1>1, <1>2, SeqEqual
<1>4. Append(<<>>, e) = <<e>>
  OBVIOUS
<1> QED
  BY <1>3, <1>4

\* The entries of the server's session_vec_.
LEMMA VecType ==
  ASSUME TypeOK
  PROVE  /\ s_session_vec \in Seq(SrvSession)
         /\ Len(s_session_vec) \in Nat
         /\ DOMAIN s_session_vec = 1..Len(s_session_vec)
         /\ \A i \in DOMAIN s_session_vec :
              /\ s_session_vec[i] \in SrvSession
              /\ s_session_vec[i].token \in Sessions
              /\ s_session_vec[i].state \in {kConnected, Buried}
<1>1. s_session_vec \in Seq(SrvSession)
  BY DEF TypeOK, SrvSession
<1>2. \A i \in DOMAIN s_session_vec : s_session_vec[i] \in SrvSession
  BY <1>1
<1> QED
  BY <1>1, <1>2 DEF SrvSession

\* The sets of sessions that hold ring entries are finite.
LEMMA HeldFinite ==
  ASSUME TypeOK
  PROVE  /\ IsFiniteSet(CliHeld) /\ Cardinality(CliHeld) \in Nat
         /\ IsFiniteSet(SrvHeld) /\ Cardinality(SrvHeld) \in Nat
<1>1. IsFiniteSet(CliHeld)
  BY FS_Subset DEF CliHeld
<1>2. Len(s_session_vec) \in Nat /\ DOMAIN s_session_vec = 1..Len(s_session_vec)
  BY DEF TypeOK
<1>3. IsFiniteSet(1..Len(s_session_vec))
  <2>1. 1 \in Int /\ Len(s_session_vec) \in Int
    BY <1>2
  <2> QED BY <2>1, FS_Interval
<1>4. IsFiniteSet(SrvHeld)
  BY <1>2, <1>3, FS_Subset DEF SrvHeld
<1> QED
  BY <1>1, <1>4, FS_CardinalityType

\* A session takes a ring entry at the client when it is born, and returns it
\* when it is buried; between these it keeps it.
LEMMA CliHeldChange ==
  ASSUME TypeOK, NEW s \in Sessions, NEW x \in SessionState,
         state' = [state EXCEPT ![s] = x]
  PROVE  /\ state[s] \in {Unborn, Buried} /\ x \notin {Unborn, Buried} =>
              Cardinality(CliHeld') = Cardinality(CliHeld) + 1
         /\ state[s] \notin {Unborn, Buried} /\ x \in {Unborn, Buried} =>
              /\ Cardinality(CliHeld') = Cardinality(CliHeld) - 1
              /\ Cardinality(CliHeld) > 0
         /\ state[s] \notin {Unborn, Buried} /\ x \notin {Unborn, Buried} =>
              Cardinality(CliHeld') = Cardinality(CliHeld)
<1>1. IsFiniteSet(CliHeld) /\ Cardinality(CliHeld) \in Nat
  BY HeldFinite
<1>2. ASSUME state[s] \in {Unborn, Buried}, x \notin {Unborn, Buried}
      PROVE  Cardinality(CliHeld') = Cardinality(CliHeld) + 1
  <2>1. CliHeld' = CliHeld \cup {s} /\ s \notin CliHeld
    BY <1>2 DEF CliHeld, TypeOK
  <2> QED BY <1>1, <2>1, FS_AddElement
<1>3. ASSUME state[s] \notin {Unborn, Buried}, x \in {Unborn, Buried}
      PROVE  /\ Cardinality(CliHeld') = Cardinality(CliHeld) - 1
             /\ Cardinality(CliHeld) > 0
  <2>1. CliHeld' = CliHeld \ {s} /\ s \in CliHeld
    BY <1>3 DEF CliHeld, TypeOK
  <2>2. CliHeld # {}
    BY <2>1
  <2> QED BY <1>1, <2>1, <2>2, FS_RemoveElement, FS_EmptySet
<1>4. ASSUME state[s] \notin {Unborn, Buried}, x \notin {Unborn, Buried}
      PROVE  Cardinality(CliHeld') = Cardinality(CliHeld)
  <2>1. CliHeld' = CliHeld
    BY <1>4 DEF CliHeld, TypeOK
  <2> QED BY <2>1
<1> QED
  BY <1>2, <1>3, <1>4

\* Creating a server session takes a ring entry of the server's.
LEMMA SrvHeldCreate ==
  ASSUME TypeOK, NEW s \in Sessions,
         s_session_vec' = Append(s_session_vec, [token |-> s, state |-> kConnected])
  PROVE  Cardinality(SrvHeld') = Cardinality(SrvHeld) + 1
<1>1. IsFiniteSet(SrvHeld) /\ Cardinality(SrvHeld) \in Nat
  BY HeldFinite
<1> DEFINE n == Len(s_session_vec) + 1
<1>2. /\ DOMAIN s_session_vec = 1..(n - 1) /\ DOMAIN s_session_vec' = 1..n /\ n \in Nat
      /\ s_session_vec'[n].state = kConnected
      /\ \A i \in 1..(n - 1) : s_session_vec'[i] = s_session_vec[i]
  BY DEF TypeOK
<1>3. SrvHeld' = SrvHeld \cup {n} /\ n \notin SrvHeld
  <2> HIDE DEF n
  <2> QED BY <1>2 DEF SrvHeld
<1> QED
  BY <1>1, <1>3, FS_AddElement

\* Burying a server session returns its ring entry.
LEMMA SrvHeldBury ==
  ASSUME TypeOK, NEW i \in DOMAIN s_session_vec, s_session_vec[i].state # Buried,
         s_session_vec' = [s_session_vec EXCEPT ![i].state = Buried]
  PROVE  /\ Cardinality(SrvHeld') = Cardinality(SrvHeld) - 1
         /\ Cardinality(SrvHeld) > 0
<1>1. IsFiniteSet(SrvHeld) /\ Cardinality(SrvHeld) \in Nat
  BY HeldFinite
<1>2. \A j \in DOMAIN s_session_vec : s_session_vec[j] \in SrvSession
  BY VecType
<1>3. /\ DOMAIN s_session_vec' = DOMAIN s_session_vec
      /\ s_session_vec'[i].state = Buried
      /\ \A j \in DOMAIN s_session_vec \ {i} : s_session_vec'[j] = s_session_vec[j]
  BY <1>2 DEF SrvSession
<1>4. SrvHeld' = SrvHeld \ {i} /\ i \in SrvHeld
  BY <1>2, <1>3 DEF SrvHeld, SrvSession
<1>5. SrvHeld # {}
  BY <1>4
<1> QED
  BY <1>1, <1>4, <1>5, FS_RemoveElement, FS_EmptySet

\* The conservation of ring entries, in terms of the two sets.
LEMMA RingConservationHeld ==
  RingConservation <=> /\ ring + Cardinality(CliHeld) = ClientRing
                       /\ s_ring + Cardinality(SrvHeld) = ServerRing
  BY DEF RingConservation, CliHeld, SrvHeld

LEMMA InitSmInv == Init => SmInv
<1> SUFFICES ASSUME Init PROVE SmInv
  OBVIOUS
<1>1. TypeOK
  BY DEF Init, TypeOK
<1>2. CliHeld = {} /\ SrvHeld = {}
  BY DEF Init, CliHeld, SrvHeld
<1>3. RingConservation
  BY <1>2, FS_EmptySet, RingConservationHeld DEF Init
<1>4. OneServerSession /\ PeerKnown /\ BuriedOnRequest /\ PacketsMatch
  BY DEF Init, OneServerSession, PeerKnown, BuriedOnRequest, PacketsMatch
<1>5. CallbacksMatchState
  BY DEF Init, CallbacksMatchState
<1> QED
  BY <1>1, <1>3, <1>4, <1>5 DEF SmInv

\* The server's sessions keep their numbers and tokens, and stay buried, and a
\* server that was destroyed stays so; a session that disconnects goes on doing so, with the same peer.
ServerKeeps ==
    /\ server = "destroyed" => server' = "destroyed"
    /\ \A i \in DOMAIN s_session_vec :
         /\ i \in DOMAIN s_session_vec'
         /\ s_session_vec'[i].token = s_session_vec[i].token
         /\ s_session_vec[i].state = Buried => s_session_vec'[i].state = Buried
ClientKeeps ==
    \A s \in Sessions : state[s] \in {kDisconnectInProgress, Buried} =>
        /\ state'[s] \in {kDisconnectInProgress, Buried}
        /\ srv_num'[s] = srv_num[s]

\* A step that keeps these keeps what the packets in flight say; so only the
\* packets it sends matter.
LEMMA PacketsStep ==
  ASSUME TypeOK, PacketsMatch, ServerKeeps, ClientKeeps,
         NEW sent, NEW rcvd, Udp(sent, rcvd),
         \A p \in sent : p \in SmPkt /\ PktMatches(p)'
  PROVE  PacketsMatch' /\ net' \in SUBSET SmPkt
<1> SUFFICES ASSUME NEW p \in net' PROVE PktMatches(p)' /\ p \in SmPkt
  BY DEF PacketsMatch
<1>1. CASE p \in sent
  BY <1>1
<1>2. CASE p \in net
  <2>1. p \in SmPkt /\ p.session \in Sessions
    BY <1>2 DEF TypeOK, SmPkt
  <2>2. PktMatches(p)
    BY <1>2 DEF PacketsMatch
  <2> QED
    BY <2>1, <2>2 DEF PktMatches, ServerKeeps, ClientKeeps
<1> QED
  BY <1>1, <1>2, UdpNet

\* A step that only sends and receives packets.
LEMMA PacketsOnly ==
  ASSUME SmInv, UNCHANGED cliVars, UNCHANGED srvVars,
         NEW sent, NEW rcvd, Udp(sent, rcvd),
         \A p \in sent : p \in SmPkt /\ PktMatches(p)
  PROVE  SmInv'
<1> USE DEF cliVars, srvVars
<1>1. ServerKeeps /\ ClientKeeps
  BY DEF ServerKeeps, ClientKeeps
<1>2. \A p \in sent : PktMatches(p)'
  BY DEF PktMatches
<1>3. PacketsMatch' /\ net' \in SUBSET SmPkt
  BY <1>1, <1>2, PacketsStep DEF SmInv
<1> QED
  BY <1>3 DEF SmInv, TypeOK, RingConservation, OneServerSession, PeerKnown,
              BuriedOnRequest, CallbacksMatchState

LEMMA CreateSessionInv ==
  ASSUME SmInv, NEW s \in Sessions, CreateSession(s)
  PROVE  SmInv'
<1> USE DEF SmInv, CreateSession, srvVars
<1>1. RingConservation'
  <2>1. /\ Cardinality(CliHeld') = Cardinality(CliHeld) + 1
        /\ Cardinality(CliHeld) \in Nat
    BY CliHeldChange, HeldFinite DEF SessionState
  <2>2. SrvHeld' = SrvHeld
    BY DEF SrvHeld
  <2> QED
    BY <2>1, <2>2, RingConservationHeld DEF TypeOK, RingConservation, CliHeld, SrvHeld
<1>2. ServerKeeps /\ ClientKeeps
  BY DEF ServerKeeps, ClientKeeps, TypeOK
<1>3. PktMatches(SmReq(s, kConnectReq, 0))'
  BY SmReqType DEF PktMatches, kConnectReq, kConnectResp, kDisconnectReq,
                   kDisconnectResp
<1>4. PacketsMatch' /\ net' \in SUBSET SmPkt
  BY <1>2, <1>3, SmReqType, PacketsStep
<1>5. TypeOK'
  BY <1>4 DEF TypeOK
<1>6. OneServerSession' /\ PeerKnown' /\ BuriedOnRequest'
  BY VecType DEF TypeOK, OneServerSession, PeerKnown, BuriedOnRequest
<1>7. CallbacksMatchState'
  BY DEF CallbacksMatchState, TypeOK
<1> QED
  BY <1>1, <1>4, <1>5, <1>6, <1>7

LEMMA DestroySessionInv ==
  ASSUME SmInv, NEW s \in Sessions, DestroySession(s)
  PROVE  SmInv'
<1> USE DEF SmInv, DestroySession, srvVars
<1>1. RingConservation'
  <2>1. Cardinality(CliHeld') = Cardinality(CliHeld)
    BY CliHeldChange DEF SessionState
  <2>2. SrvHeld' = SrvHeld
    BY DEF SrvHeld
  <2> QED
    BY <2>1, <2>2 DEF RingConservation, CliHeld, SrvHeld
<1>2. ServerKeeps /\ ClientKeeps
  BY DEF ServerKeeps, ClientKeeps, TypeOK
<1>3. srv_num[s] \in Nat /\ PktMatches(SmReq(s, kDisconnectReq, srv_num[s]))'
  BY SmReqType DEF TypeOK, PeerKnown, PktMatches, kConnectReq, kConnectResp,
                   kDisconnectReq, kDisconnectResp
<1>4. PacketsMatch' /\ net' \in SUBSET SmPkt
  BY <1>2, <1>3, SmReqType, PacketsStep
<1>5. TypeOK'
  BY <1>4 DEF TypeOK
<1>6. OneServerSession' /\ PeerKnown' /\ BuriedOnRequest'
  BY VecType DEF TypeOK, OneServerSession, PeerKnown, BuriedOnRequest
<1>7. CallbacksMatchState'
  BY DEF CallbacksMatchState, TypeOK
<1> QED
  BY <1>1, <1>4, <1>5, <1>6, <1>7

LEMMA PktLossScanInv ==
  ASSUME SmInv, NEW s \in sm_pending_reqs, PktLossScan(s)
  PROVE  SmInv'
<1>1. s \in Sessions /\ srv_num[s] \in Nat
  BY DEF SmInv, TypeOK
<1>2. CASE state[s] = kConnectInProgress /\ Udp({SmReq(s, kConnectReq, 0)}, {})
  <2>1. SmReq(s, kConnectReq, 0) \in SmPkt /\ PktMatches(SmReq(s, kConnectReq, 0))
    BY <1>1, SmReqType DEF PktMatches, kConnectReq, kConnectResp,
                           kDisconnectReq, kDisconnectResp
  <2> QED
    BY <1>2, <2>1, PacketsOnly DEF PktLossScan
<1>3. CASE /\ state[s] = kDisconnectInProgress
           /\ Udp({SmReq(s, kDisconnectReq, srv_num[s])}, {})
  <2>1. /\ SmReq(s, kDisconnectReq, srv_num[s]) \in SmPkt
        /\ PktMatches(SmReq(s, kDisconnectReq, srv_num[s]))
    BY <1>1, <1>3, SmReqType DEF SmInv, PeerKnown, PktMatches, kConnectReq,
                                 kConnectResp, kDisconnectReq, kDisconnectResp
  <2> QED
    BY <1>3, <2>1, PacketsOnly DEF PktLossScan
<1> QED
  BY <1>2, <1>3 DEF PktLossScan

\* handle_connect_resp_st, when it only touches the table of pending requests.
LEMMA PendingOnlyInv ==
  ASSUME SmInv, NEW p \in net, Udp({}, {p}),
         sm_pending_reqs' \in SUBSET Sessions,
         UNCHANGED <<state, srv_num, ring, events>>, UNCHANGED srvVars
  PROVE  SmInv'
<1> USE DEF srvVars
<1>1. ServerKeeps /\ ClientKeeps
  BY DEF ServerKeeps, ClientKeeps
<1>2. PacketsMatch' /\ net' \in SUBSET SmPkt
  BY <1>1, PacketsStep DEF SmInv
<1> QED
  BY <1>2 DEF SmInv, TypeOK, RingConservation, OneServerSession, PeerKnown,
              BuriedOnRequest, CallbacksMatchState

\* The client buries session s and tells the user, with event e.
LEMMA BuryInv ==
  ASSUME SmInv, NEW s \in Sessions, NEW e \in SmEventType, NEW p \in net, Udp({}, {p}),
         \/ state[s] = kConnectInProgress /\ e = "kConnectFailed"
         \/ state[s] = kDisconnectInProgress /\ e = "kDisconnected",
         state' = [state EXCEPT ![s] = Buried],
         ring' = ring + 1,
         events' = [events EXCEPT ![s] = Append(@, e)],
         sm_pending_reqs' = sm_pending_reqs \ {s},
         UNCHANGED srv_num, UNCHANGED srvVars
  PROVE  SmInv'
<1> USE DEF SmInv, srvVars
<1>1. /\ Cardinality(CliHeld') = Cardinality(CliHeld) - 1
      /\ Cardinality(CliHeld) > 0
      /\ Cardinality(CliHeld) \in Nat
  BY CliHeldChange, HeldFinite DEF SessionState
<1>2. ring' + Cardinality(CliHeld') = ClientRing /\ ring' \in 0..ClientRing
  BY <1>1, RingConservationHeld DEF TypeOK
<1>3. RingConservation'
  BY <1>2, RingConservationHeld DEF RingConservation, CliHeld
<1>4. ServerKeeps /\ ClientKeeps
  BY DEF ServerKeeps, ClientKeeps, TypeOK
<1>5. PacketsMatch' /\ net' \in SUBSET SmPkt
  BY <1>4, PacketsStep
<1>6. TypeOK'
  BY <1>2, <1>5 DEF TypeOK
<1>7. OneServerSession' /\ PeerKnown' /\ BuriedOnRequest'
  BY VecType DEF TypeOK, OneServerSession, PeerKnown, BuriedOnRequest
<1>8. CallbacksMatchState'
  <2>1. events[s] \in {<<>>, <<"kConnected">>}
        /\ (state[s] = kConnectInProgress => events[s] = <<>>)
    BY DEF CallbacksMatchState
  <2>2. events'[s] \in {<<"kConnectFailed">>, <<"kDisconnected">>,
                        <<"kConnected", "kDisconnected">>}
    BY <2>1, AppendShort DEF TypeOK
  <2> QED
    BY <2>2 DEF CallbacksMatchState, TypeOK
<1> QED
  BY <1>3, <1>5, <1>6, <1>7, <1>8

LEMMA HandleConnectRespErrorInv ==
  ASSUME SmInv, NEW p \in net, HandleConnectRespError(p)
  PROVE  SmInv'
<1>1. p.session \in Sessions
  BY DEF SmInv, TypeOK, SmPkt
<1> QED
  BY <1>1, BuryInv DEF HandleConnectRespError, SmEventType

LEMMA HandleDisconnectRespInv ==
  ASSUME SmInv, NEW p \in net, HandleDisconnectResp(p)
  PROVE  SmInv'
<1>1. p.session \in Sessions
  BY DEF SmInv, TypeOK, SmPkt
<1>2. CASE state[p.session] = Buried
  BY <1>2, PendingOnlyInv DEF HandleDisconnectResp, SmInv, TypeOK
<1>3. CASE state[p.session] # Buried
  <2>1. state[p.session] = kDisconnectInProgress
    BY <1>3 DEF SmInv, PacketsMatch, PktMatches, HandleDisconnectResp
  <2> QED
    BY <1>1, <1>3, <2>1, BuryInv DEF HandleDisconnectResp, SmEventType
<1> QED
  BY <1>2, <1>3

\* A positive connect response: what the client saves is its own server session.
LEMMA ConnectRespPeer ==
  ASSUME SmInv, NEW p \in net, p.type = kConnectResp, p.err = kNoError
  PROVE  /\ p.session \in Sessions /\ p.srv \in Nat
         /\ p.srv \in DOMAIN s_session_vec
         /\ s_session_vec[p.srv].token = p.session
  BY DEF SmInv, TypeOK, SmPkt, PacketsMatch, PktMatches

LEMMA HandleConnectRespOkInv ==
  ASSUME SmInv, NEW p \in net, HandleConnectRespOk(p)
  PROVE  SmInv'
<1> USE DEF SmInv, HandleConnectRespOk, srvVars
<1>1. /\ p.session \in Sessions /\ p.srv \in Nat
      /\ p.srv \in DOMAIN s_session_vec
      /\ s_session_vec[p.srv].token = p.session
  BY ConnectRespPeer
<1>2. RingConservation'
  <2>1. Cardinality(CliHeld') = Cardinality(CliHeld)
    BY <1>1, CliHeldChange DEF SessionState
  <2> QED
    BY <2>1 DEF RingConservation, CliHeld
<1>3. ServerKeeps /\ ClientKeeps
  BY <1>1 DEF ServerKeeps, ClientKeeps, TypeOK
<1>4. PacketsMatch' /\ net' \in SUBSET SmPkt
  BY <1>3, PacketsStep
<1>5. /\ events[p.session] = <<>>
      /\ events' = [events EXCEPT ![p.session] = <<"kConnected">>]
  BY <1>1, AppendShort DEF CallbacksMatchState, TypeOK
<1>6. TypeOK'
  <2>1. <<"kConnected">> \in Seq(SmEventType)
    BY DEF SmEventType
  <2> QED BY <1>1, <1>4, <1>5, <2>1 DEF TypeOK
<1>7. OneServerSession' /\ PeerKnown'
  BY <1>1 DEF TypeOK, OneServerSession, PeerKnown
<1>8. BuriedOnRequest'
  BY <1>1, VecType DEF TypeOK, BuriedOnRequest
<1>9. CallbacksMatchState'
  BY <1>1, <1>5 DEF CallbacksMatchState, TypeOK
<1> QED
  BY <1>2, <1>4, <1>6, <1>7, <1>8, <1>9

LEMMA HandleConnectRespUnresolvedInv ==
  ASSUME SmInv, NEW p \in net, HandleConnectRespUnresolved(p)
  PROVE  SmInv'
<1> USE DEF SmInv, HandleConnectRespUnresolved, srvVars
<1>1. /\ p.session \in Sessions /\ p.srv \in Nat
      /\ p.srv \in DOMAIN s_session_vec
      /\ s_session_vec[p.srv].token = p.session
  BY ConnectRespPeer
<1>2. RingConservation'
  <2>1. Cardinality(CliHeld') = Cardinality(CliHeld)
    BY <1>1, CliHeldChange DEF SessionState
  <2> QED
    BY <2>1 DEF RingConservation, CliHeld
<1>3. ServerKeeps /\ ClientKeeps
  BY <1>1 DEF ServerKeeps, ClientKeeps, TypeOK
<1>4. /\ SmReq(p.session, kDisconnectReq, p.srv) \in SmPkt
      /\ PktMatches(SmReq(p.session, kDisconnectReq, p.srv))'
  BY <1>1, SmReqType DEF TypeOK, PktMatches, kConnectReq, kConnectResp,
                         kDisconnectReq, kDisconnectResp
<1>5. PacketsMatch' /\ net' \in SUBSET SmPkt
  BY <1>3, <1>4, PacketsStep
<1>6. TypeOK'
  BY <1>1, <1>5 DEF TypeOK
<1>7. OneServerSession' /\ PeerKnown'
  BY <1>1 DEF TypeOK, OneServerSession, PeerKnown
<1>8. BuriedOnRequest'
  BY <1>1, VecType DEF TypeOK, BuriedOnRequest
<1>9. CallbacksMatchState'
  BY <1>1 DEF CallbacksMatchState, TypeOK
<1> QED
  BY <1>2, <1>5, <1>6, <1>7, <1>8, <1>9

LEMMA HandleConnectReqDuplicateInv ==
  ASSUME SmInv, NEW p \in net, HandleConnectReqDuplicate(p)
  PROVE  SmInv'
<1>1. p \in SmPkt /\ p.session \in Sessions /\ p.type = kConnectReq
  BY DEF SmInv, TypeOK, SmPkt, HandleConnectReqDuplicate
<1>2. PICK i \in TokenMap(p.session) :
        Udp(IF s_session_vec[i].state = kConnected
            THEN {[SmResp(p, kNoError) EXCEPT !.srv = i]} ELSE {}, {p})
  BY DEF HandleConnectReqDuplicate
<1>3. /\ i \in DOMAIN s_session_vec /\ i \in Nat
      /\ s_session_vec[i].token = p.session
  BY VecType DEF TokenMap, SmInv
<1> DEFINE r == [SmResp(p, kNoError) EXCEPT !.srv = i]
<1>4. r \in SmPkt /\ PktMatches(r)
  <2>1. /\ r \in SmPkt /\ r.type = kConnectResp
        /\ r.session = p.session /\ r.srv = i
    BY <1>1, <1>3, SmRespType, SmPktWithSrv
  <2> HIDE DEF r
  <2> QED
    BY <1>3, <2>1 DEF PktMatches, kConnectResp, kDisconnectReq, kDisconnectResp
<1> HIDE DEF r
<1>5. \A q \in IF s_session_vec[i].state = kConnected THEN {r} ELSE {} :
        q \in SmPkt /\ PktMatches(q)
  BY <1>4
<1>6. UNCHANGED cliVars /\ UNCHANGED srvVars
  BY DEF HandleConnectReqDuplicate
<1> QED
  BY <1>2, <1>5, <1>6, PacketsOnly DEF r

LEMMA HandleConnectReqErrorInv ==
  ASSUME SmInv, NEW p \in net, NEW err \in ConnectErrors, HandleConnectReqError(p, err)
  PROVE  SmInv'
<1>1. p \in SmPkt /\ p.type = kConnectReq
  BY DEF SmInv, TypeOK, HandleConnectReqError
<1>2. err \in {kInvalidTransport, kRingExhausted, kRoutingResolutionFailure,
               kOutOfMemory}
  BY DEF ConnectErrors, ServerFaults
<1>3. /\ SmResp(p, err) \in SmPkt
      /\ SmResp(p, err).type = kConnectResp /\ SmResp(p, err).err = err
  BY <1>1, <1>2, SmRespType
<1>4. PktMatches(SmResp(p, err))
  BY <1>2, <1>3
     DEF PktMatches, kConnectResp, kDisconnectReq, kDisconnectResp, kNoError,
         kInvalidTransport, kRingExhausted, kRoutingResolutionFailure, kOutOfMemory
<1> QED
  BY <1>3, <1>4, PacketsOnly DEF HandleConnectReqError

LEMMA RejectRequestInv ==
  ASSUME SmInv, NEW p \in net, RejectRequest(p)
  PROVE  SmInv'
<1>1. p \in SmPkt /\ PktMatches(p)
  BY DEF SmInv, TypeOK, PacketsMatch
<1> DEFINE r == SmResp(p, kInvalidRemoteRpcId)
<1>2. /\ r \in SmPkt
      /\ r.type = IF p.type = kConnectReq THEN kConnectResp ELSE kDisconnectResp
      /\ r.err = kInvalidRemoteRpcId /\ r.session = p.session /\ r.srv = p.srv
  BY <1>1, SmRespType
<1> HIDE DEF r
<1>3. PktMatches(r)
  <2>1. CASE p.type = kConnectReq
    BY <1>2, <2>1
       DEF PktMatches, kConnectResp, kDisconnectReq, kDisconnectResp, kNoError,
           kInvalidRemoteRpcId
  <2>2. CASE p.type = kDisconnectReq
    <3>1. p.srv \in DOMAIN s_session_vec /\ s_session_vec[p.srv].state = Buried
      BY <1>1, <2>2, VecType DEF RejectRequest, SmInv, BuriedOnRequest, PktMatches
    <3>2. server = "destroyed"
      BY <3>1 DEF RejectRequest, SmInv, BuriedOnRequest, TypeOK
    <3> QED
      BY <1>1, <1>2, <2>2, <3>1, <3>2
         DEF PktMatches, kConnectReq, kConnectResp, kDisconnectReq, kDisconnectResp
  <2> QED
    BY <2>1, <2>2 DEF RejectRequest
<1> QED
  BY <1>2, <1>3, PacketsOnly DEF RejectRequest, r

LEMMA HandleConnectReqOkInv ==
  ASSUME SmInv, NEW p \in net, HandleConnectReqOk(p)
  PROVE  SmInv'
<1> USE DEF cliVars
<1> DEFINE e == [token |-> p.session, state |-> kConnected]
<1>1. p \in SmPkt /\ p.session \in Sessions /\ p.type = kConnectReq
  BY DEF SmInv, TypeOK, SmPkt, HandleConnectReqOk
<1> PICK n \in Nat : n = Len(s_session_vec) + 1
  BY VecType DEF SmInv
<1> DEFINE r == [SmResp(p, kNoError) EXCEPT !.srv = n]
<1>2. /\ s_session_vec \in Seq(SrvSession)
      /\ Len(s_session_vec) \in Nat
      /\ DOMAIN s_session_vec = 1..(n - 1)
      /\ \A i \in 1..(n - 1) : s_session_vec[i].token # p.session
  BY VecType DEF SmInv, HandleConnectReqOk, TokenMap
<1>3. /\ e \in SrvSession
      /\ s_session_vec' = Append(s_session_vec, e)
  BY <1>1 DEF SrvSession, HandleConnectReqOk
<1>4. /\ s_session_vec' \in Seq(SrvSession)
      /\ DOMAIN s_session_vec' = 1..n /\ n \in Nat /\ n \in 1..n
      /\ s_session_vec'[n] = e
      /\ \A i \in 1..(n - 1) : s_session_vec'[i] = s_session_vec[i]
  <2> HIDE DEF e
  <2> QED BY <1>2, <1>3
<1>5. RingConservation' /\ s_ring' \in 0..ServerRing
  <2>1. /\ Cardinality(SrvHeld') = Cardinality(SrvHeld) + 1
        /\ Cardinality(SrvHeld) \in Nat
    BY <1>1, SrvHeldCreate, HeldFinite DEF SmInv, HandleConnectReqOk
  <2>2. CliHeld' = CliHeld
    BY DEF CliHeld, HandleConnectReqOk
  <2>3. s_ring' + Cardinality(SrvHeld') = ServerRing /\ s_ring' \in 0..ServerRing
    BY <2>1, RingConservationHeld DEF SmInv, TypeOK, HandleConnectReqOk
  <2>4. ring' + Cardinality(CliHeld') = ClientRing
    BY <2>2, RingConservationHeld DEF SmInv, HandleConnectReqOk
  <2> QED
    BY <2>3, <2>4 DEF RingConservation, CliHeld, SrvHeld
<1>6. ServerKeeps /\ ClientKeeps
  BY <1>2, <1>4 DEF ServerKeeps, ClientKeeps, HandleConnectReqOk
<1>7. r \in SmPkt /\ PktMatches(r)'
  <2>1. n \in DOMAIN s_session_vec' /\ s_session_vec'[n].token = p.session
    BY <1>4
  <2>2. /\ r \in SmPkt /\ r.type = kConnectResp
        /\ r.session = p.session /\ r.srv = n
    <3>1. SmResp(p, kNoError) \in SmPkt
          /\ SmResp(p, kNoError).type = kConnectResp
          /\ SmResp(p, kNoError).session = p.session
      BY <1>1, SmRespType
    <3> QED BY <3>1, SmPktWithSrv
  <2> HIDE DEF r
  <2> QED
    BY <2>1, <2>2 DEF PktMatches, kConnectResp, kDisconnectReq, kDisconnectResp
<1> HIDE DEF r
<1>8. PacketsMatch' /\ net' \in SUBSET SmPkt
  <2>1. Udp({r}, {p})
    BY DEF r, HandleConnectReqOk
  <2> QED
    <3>1. \A q \in {r} : q \in SmPkt /\ PktMatches(q)'
      BY <1>7
    <3> QED
      BY <1>6, <2>1, <3>1, PacketsStep DEF SmInv
<1>9. TypeOK'
  BY <1>4, <1>5, <1>8 DEF SmInv, TypeOK, SrvSession, HandleConnectReqOk
<1>10. OneServerSession'
  BY <1>2, <1>4 DEF SmInv, OneServerSession
<1>11. PeerKnown' /\ CallbacksMatchState'
  <2>1. PeerKnown'
    BY <1>2, <1>4 DEF SmInv, PeerKnown, HandleConnectReqOk
  <2>2. CallbacksMatchState'
    BY DEF SmInv, CallbacksMatchState, HandleConnectReqOk
  <2> QED BY <2>1, <2>2
<1>12. BuriedOnRequest'
  <2>1. s_session_vec'[n].state = kConnected
    BY <1>4
  <2> QED
    BY <1>2, <1>4, <2>1 DEF SmInv, BuriedOnRequest, HandleConnectReqOk
<1> QED
  BY <1>5, <1>8, <1>9, <1>10, <1>11, <1>12 DEF SmInv

LEMMA HandleDisconnectReqInv ==
  ASSUME SmInv, NEW p \in net, HandleDisconnectReq(p)
  PROVE  SmInv'
<1> USE DEF cliVars
<1>1. p \in SmPkt /\ p.session \in Sessions /\ p.type = kDisconnectReq
  BY DEF SmInv, TypeOK, SmPkt, HandleDisconnectReq
<1>2. /\ p.srv \in DOMAIN s_session_vec
      /\ s_session_vec[p.srv].token = p.session
      /\ p.srv = srv_num[p.session]
      /\ state[p.session] \in {kDisconnectInProgress, Buried}
  BY <1>1 DEF SmInv, PacketsMatch, PktMatches
<1> DEFINE r == SmResp(p, kNoError)
<1>3. /\ r \in SmPkt /\ r.type = kDisconnectResp
      /\ r.session = p.session /\ r.srv = p.srv /\ r.err = kNoError
  BY <1>1, SmRespType DEF kConnectReq, kDisconnectReq
<1> HIDE DEF r
<1>4. Udp({r}, {p})
  BY DEF r, HandleDisconnectReq
<1>5. CASE s_session_vec[p.srv].state = Buried
  <2>1. PktMatches(r)
    BY <1>2, <1>3, <1>5 DEF PktMatches, kConnectResp, kDisconnectReq, kDisconnectResp
  <2> QED
    BY <1>3, <1>4, <1>5, <2>1, PacketsOnly DEF HandleDisconnectReq, srvVars
<1>6. CASE s_session_vec[p.srv].state # Buried
  <2>1. /\ s_ring' = s_ring + 1
        /\ s_session_vec' = [s_session_vec EXCEPT ![p.srv].state = Buried]
        /\ UNCHANGED server
        /\ UNCHANGED cliVars
    BY <1>6 DEF HandleDisconnectReq
  <2>2. /\ s_session_vec \in Seq(SrvSession)
        /\ Len(s_session_vec) \in Nat
        /\ DOMAIN s_session_vec = 1..Len(s_session_vec)
        /\ \A i \in DOMAIN s_session_vec : s_session_vec[i] \in SrvSession
    BY VecType DEF SmInv
  <2>3. /\ s_session_vec' \in Seq(SrvSession)
        /\ DOMAIN s_session_vec' = DOMAIN s_session_vec
        /\ s_session_vec'[p.srv].token = p.session
        /\ s_session_vec'[p.srv].state = Buried
        /\ \A i \in DOMAIN s_session_vec \ {p.srv} : s_session_vec'[i] = s_session_vec[i]
    <3>1. [s_session_vec[p.srv] EXCEPT !.state = Buried] \in SrvSession
      BY <1>2, <2>2 DEF SrvSession
    <3>2. s_session_vec' \in Seq(SrvSession)
      BY <1>2, <2>1, <2>2, <3>1
    <3> QED
      BY <1>2, <2>1, <2>2, <3>2 DEF SrvSession
  <2>4. RingConservation' /\ s_ring' \in 0..ServerRing
    <3>1. /\ Cardinality(SrvHeld') = Cardinality(SrvHeld) - 1
          /\ Cardinality(SrvHeld) > 0
          /\ Cardinality(SrvHeld) \in Nat
      BY <1>2, <1>6, <2>1, SrvHeldBury, HeldFinite DEF SmInv
    <3>2. CliHeld' = CliHeld
      BY <2>1 DEF CliHeld
    <3> QED
      BY <2>1, <3>1, <3>2, RingConservationHeld
         DEF SmInv, TypeOK, RingConservation, CliHeld, SrvHeld
  <2>5. ServerKeeps /\ ClientKeeps
    BY <1>2, <2>1, <2>3 DEF ServerKeeps, ClientKeeps
  <2>6. PktMatches(r)'
    BY <1>2, <1>3, <2>1, <2>3
       DEF PktMatches, kConnectResp, kDisconnectReq, kDisconnectResp
  <2>7. PacketsMatch' /\ net' \in SUBSET SmPkt
    BY <1>3, <1>4, <2>5, <2>6, PacketsStep DEF SmInv
  <2>8. TypeOK'
    BY <2>1, <2>3, <2>4, <2>7 DEF SmInv, TypeOK, SrvSession
  <2>9. OneServerSession' /\ PeerKnown' /\ CallbacksMatchState'
    <3>1. \A i \in DOMAIN s_session_vec : s_session_vec'[i].token = s_session_vec[i].token
      BY <1>2, <2>3
    <3>2. OneServerSession'
      BY <2>3, <3>1 DEF SmInv, OneServerSession
    <3>3. PeerKnown'
      BY <2>1, <2>3, <3>1 DEF SmInv, PeerKnown
    <3>4. CallbacksMatchState'
      BY <2>1 DEF SmInv, CallbacksMatchState
    <3> QED BY <3>2, <3>3, <3>4
  <2>10. BuriedOnRequest'
    BY <1>2, <2>1, <2>3 DEF SmInv, BuriedOnRequest
  <2> QED
    BY <2>4, <2>7, <2>8, <2>9, <2>10 DEF SmInv
<1> QED
  BY <1>5, <1>6

LEMMA ServerLifeInv ==
  ASSUME SmInv, StartServer \/ DestroyServer
  PROVE  SmInv'
<1>1. /\ server' \in {"running", "destroyed"}
      /\ UNCHANGED <<s_session_vec, s_ring, net>> /\ UNCHANGED cliVars
  BY DEF StartServer, DestroyServer
<1>2. TypeOK' /\ RingConservation' /\ OneServerSession' /\ PeerKnown' /\ CallbacksMatchState'
  BY <1>1 DEF SmInv, cliVars, TypeOK, RingConservation, OneServerSession, PeerKnown,
              CallbacksMatchState
<1>3. PacketsMatch'
  <2>1. server = "destroyed" => server' = "destroyed"
    BY DEF StartServer, DestroyServer
  <2> QED
    BY <1>1, <2>1 DEF SmInv, cliVars, PacketsMatch, PktMatches
<1>4. BuriedOnRequest'
  BY <1>1 DEF SmInv, cliVars, BuriedOnRequest, StartServer, DestroyServer
<1> QED
  BY <1>2, <1>3, <1>4 DEF SmInv

\* Every step preserves the invariant.
LEMMA NextSmInv == SmInv /\ [Next]_vars => SmInv'
<1> SUFFICES ASSUME SmInv, [Next]_vars PROVE SmInv'
  OBVIOUS
<1>1. CASE \E s \in Sessions : CreateSession(s)
  BY <1>1, CreateSessionInv
<1>2. CASE \E s \in Sessions : DestroySession(s)
  BY <1>2, DestroySessionInv
<1>3. CASE \E s \in sm_pending_reqs : PktLossScan(s)
  BY <1>3, PktLossScanInv
<1>4. CASE \E p \in net : HandleSmPkt(p)
  <2> PICK p \in net : HandleSmPkt(p)
    BY <1>4
  <2>1. p.session \in Sessions
    BY DEF SmInv, TypeOK, SmPkt
  <2>2. CASE HandleConnectRespIgnore(p)
    BY <2>2, PendingOnlyInv DEF HandleConnectRespIgnore, SmInv, TypeOK
  <2>3. CASE HandleConnectRespRetry(p)
    BY <2>1, <2>3, PendingOnlyInv DEF HandleConnectRespRetry, SmInv, TypeOK
  <2>4. CASE HandleConnectRespError(p)
    BY <2>4, HandleConnectRespErrorInv
  <2>5. CASE HandleConnectRespUnresolved(p)
    BY <2>5, HandleConnectRespUnresolvedInv
  <2>6. CASE HandleConnectRespOk(p)
    BY <2>6, HandleConnectRespOkInv
  <2>7. CASE HandleDisconnectResp(p)
    BY <2>7, HandleDisconnectRespInv
  <2>8. CASE HandleConnectReqDuplicate(p)
    BY <2>8, HandleConnectReqDuplicateInv
  <2>9. CASE \E err \in ConnectErrors : HandleConnectReqError(p, err)
    BY <2>9, HandleConnectReqErrorInv
  <2>10. CASE HandleConnectReqOk(p)
    BY <2>10, HandleConnectReqOkInv
  <2>11. CASE HandleDisconnectReq(p)
    BY <2>11, HandleDisconnectReqInv
  <2>12. CASE RejectRequest(p)
    BY <2>12, RejectRequestInv
  <2> QED
    BY <2>2, <2>3, <2>4, <2>5, <2>6, <2>7, <2>8, <2>9, <2>10, <2>11, <2>12
       DEF HandleSmPkt
<1>5. CASE \E p \in net : LosePacket(p)
  BY <1>5, PacketsOnly DEF LosePacket
<1>6. CASE StartServer \/ DestroyServer
  BY <1>6, ServerLifeInv
<1>7. CASE UNCHANGED vars
  BY <1>7 DEF vars, SmInv, TypeOK, RingConservation, OneServerSession, PeerKnown,
              BuriedOnRequest, PacketsMatch, PktMatches, CallbacksMatchState
<1> QED
  BY <1>1, <1>2, <1>3, <1>4, <1>5, <1>6, <1>7 DEF Next

-----------------------------------------------------------------------------
(* The theorems *)

\* SmInv holds however requests and responses are lost, repeated and
\* reordered, whatever fails, and whenever the server starts and stops.
THEOREM SmInvariantHolds == Spec => []SmInv
<1>1. Init => SmInv
  BY InitSmInv
<1>2. SmInv /\ [Next]_vars => SmInv'
  BY NextSmInv
<1> QED
  BY <1>1, <1>2, PTL DEF Spec

\* alloc_ring_entries and free_ring_entries balance at both ends: the free ring
\* entries and those held by sessions in session_vec_ add up to the whole ring.
THEOREM RingEntriesConserved == Spec => []RingConservation
<1>1. SmInv => RingConservation
  BY DEF SmInv
<1> QED
  BY <1>1, SmInvariantHolds, PTL

\* conn_req_token_map_ makes handle_connect_req_st idempotent: a client session
\* never gets a second server session.
THEOREM ServerSessionsUnique == Spec => []OneServerSession
<1>1. SmInv => OneServerSession
  BY DEF SmInv
<1> QED
  BY <1>1, SmInvariantHolds, PTL

\* A session that handle_connect_resp_st has connected has a live server
\* session of its own until destroy_session is called.
THEOREM ConnectedSessionsHavePeer == Spec => []ConnectedHasPeer
<1>1. ASSUME SmInv PROVE ConnectedHasPeer
  <2> SUFFICES ASSUME NEW s \in Sessions, state[s] = kConnected
               PROVE  /\ server = "running"
                      /\ srv_num[s] \in DOMAIN s_session_vec
                      /\ s_session_vec[srv_num[s]] = [token |-> s, state |-> kConnected]
    BY DEF ConnectedHasPeer
  <2>1. srv_num[s] \in DOMAIN s_session_vec /\ s_session_vec[srv_num[s]].token = s
    BY <1>1 DEF SmInv, PeerKnown
  <2>2. /\ s_session_vec[srv_num[s]] \in SrvSession
        /\ s_session_vec[srv_num[s]].state \in {kConnected, Buried}
    BY <1>1, <2>1, VecType DEF SmInv
  <2>3. s_session_vec[srv_num[s]].state = kConnected /\ server = "running"
    BY <1>1, <2>1, <2>2 DEF SmInv, BuriedOnRequest
  <2> QED
    BY <2>1, <2>2, <2>3 DEF SrvSession
<1> QED
  BY <1>1, SmInvariantHolds, PTL

\* The asserts of handle_disconnect_req_st and handle_disconnect_resp_st hold
\* for every disconnect packet that can arrive, however late; only "Disconnects
\* don't fail" does not, and the one response it fails for is the answer to a
\* disconnect request that was sent again and found the server's Rpc destroyed.
THEOREM DisconnectsAlwaysMatch == Spec => []DisconnectsMatch
<1>1. SmInv => DisconnectsMatch
  BY DEF SmInv, PacketsMatch, PktMatches, DisconnectsMatch
<1> QED
  BY <1>1, SmInvariantHolds, PTL

\* The user's SM callbacks follow the state of the session: one connect event,
\* one final event.
THEOREM CallbacksAlwaysMatch == Spec => []CallbacksMatchState
<1>1. SmInv => CallbacksMatchState
  BY DEF SmInv
<1> QED
  BY <1>1, SmInvariantHolds, PTL

\* No step revives a session, at either end, or changes what a server session
\* number stands for.
THEOREM SessionsKeepLifeCycle == Spec => LifeCycle
<1> DEFINE CliMove(s) == state'[s] # state[s] =>
             \/ state[s] = Unborn /\ state'[s] = kConnectInProgress
             \/ state[s] = kConnectInProgress /\ state'[s] # Unborn
             \/ state[s] = kConnected /\ state'[s] = kDisconnectInProgress
             \/ state[s] = kDisconnectInProgress /\ state'[s] = Buried
<1> DEFINE SrvMove == \A i \in DOMAIN s_session_vec :
             /\ i \in DOMAIN s_session_vec'
             /\ s_session_vec'[i].token = s_session_vec[i].token
             /\ s_session_vec[i].state = Buried => s_session_vec'[i].state = Buried
<1>1. ASSUME SmInv, Next PROVE (\A s \in Sessions : CliMove(s)) /\ ServerKeeps
  <2>1. state \in [Sessions -> SessionState]
    BY <1>1 DEF SmInv, TypeOK, SessionState
  <2>2. CASE /\ UNCHANGED <<state, s_session_vec>>
             /\ server = "destroyed" => server' = "destroyed"
    BY <2>2 DEF ServerKeeps
  <2>3. CASE \E s \in Sessions : CreateSession(s) \/ DestroySession(s)
    BY <2>1, <2>3 DEF CreateSession, DestroySession, srvVars, ServerKeeps, SessionState
  <2>4. CASE \E p \in net : HandleConnectRespError(p) \/ HandleConnectRespOk(p)
                              \/ HandleConnectRespUnresolved(p)
    BY <2>1, <2>4 DEF HandleConnectRespError, HandleConnectRespOk, srvVars,
                      HandleConnectRespUnresolved, ServerKeeps, SessionState
  <2>5. CASE \E p \in net : HandleDisconnectResp(p)
    <3>1. PICK p \in net : HandleDisconnectResp(p)
      BY <2>5
    <3>2. state[p.session] \in {kDisconnectInProgress, Buried}
      BY <1>1, <3>1 DEF SmInv, PacketsMatch, PktMatches, HandleDisconnectResp
    <3> QED
      BY <2>1, <3>1, <3>2 DEF HandleDisconnectResp, srvVars, ServerKeeps, SessionState
  <2>6. CASE \E p \in net : HandleConnectReqOk(p)
    <3>1. /\ Len(s_session_vec) \in Nat
          /\ DOMAIN s_session_vec = 1..Len(s_session_vec)
          /\ s_session_vec \in Seq(SrvSession)
      BY <1>1, VecType DEF SmInv
    <3>2. PICK e : s_session_vec' = Append(s_session_vec, e)
      BY <2>6 DEF HandleConnectReqOk
    <3>3. /\ DOMAIN s_session_vec \subseteq DOMAIN s_session_vec'
          /\ \A i \in DOMAIN s_session_vec : s_session_vec'[i] = s_session_vec[i]
      BY <3>1, <3>2
    <3> QED
      BY <2>6, <3>3 DEF HandleConnectReqOk, cliVars, ServerKeeps
  <2>7. CASE \E p \in net : HandleDisconnectReq(p)
    <3>1. PICK p \in net : HandleDisconnectReq(p)
      BY <2>7
    <3>2. p.srv \in DOMAIN s_session_vec
      BY <1>1, <3>1 DEF SmInv, PacketsMatch, PktMatches, HandleDisconnectReq
    <3>3. \A i \in DOMAIN s_session_vec : s_session_vec[i] \in SrvSession
      BY <1>1, VecType DEF SmInv
    <3> QED
      BY <3>1, <3>2, <3>3 DEF HandleDisconnectReq, cliVars, ServerKeeps, SrvSession
  <2> QED
    BY <1>1, <2>2, <2>3, <2>4, <2>5, <2>6, <2>7
       DEF Next, HandleSmPkt, cliVars, srvVars, PktLossScan, LosePacket, StartServer,
           DestroyServer, HandleConnectRespIgnore, HandleConnectRespRetry,
           HandleConnectReqDuplicate, HandleConnectReqError, RejectRequest
<1>2. SmInv /\ [Next]_vars =>
        [(\A s \in Sessions : CliMove(s)) /\ SrvMove]_vars
  BY <1>1 DEF ServerKeeps
<1> QED
  BY <1>2, SmInvariantHolds, PTL DEF Spec, LifeCycle

-----------------------------------------------------------------------------
(* Orphans *)

\* A server that refuses none has a ring entry left for every session that has
\* no server session yet: the connected ones have different tokens.
LEMMA RingEntryLeft ==
  ASSUME SmInv, RefusesNone, NEW s \in Sessions, TokenMap(s) = {}
  PROVE  s_ring > 0
<1> DEFINE T == Sessions \ {s}
           f == [i \in SrvHeld |-> s_session_vec[i].token]
<1>1. IsFiniteSet(T) /\ Cardinality(T) = Cardinality(Sessions) - 1
  BY FS_RemoveElement
<1>2. f \in Injection(SrvHeld, T)
  <2>1. \A i \in SrvHeld : s_session_vec[i].token \in T
    BY VecType DEF SrvHeld, TokenMap, SmInv
  <2>2. \A i, j \in SrvHeld : s_session_vec[i].token = s_session_vec[j].token => i = j
    BY DEF SrvHeld, SmInv, OneServerSession
  <2> QED
    BY <2>1, <2>2 DEF Injection, IsInjective
<1>3. Cardinality(SrvHeld) <= Cardinality(T)
  BY <1>1, <1>2, FS_Injection
<1>4. Cardinality(SrvHeld) \in Nat /\ Cardinality(Sessions) \in Nat
  BY HeldFinite, FS_CardinalityType DEF SmInv
<1>5. s_ring + Cardinality(SrvHeld) = ServerRing /\ s_ring \in Nat
  BY RingConservationHeld DEF SmInv, TypeOK
<1> QED
  BY <1>1, <1>3, <1>4, <1>5 DEF RefusesNone

\* A step that keeps the server's sessions and buries none at the client.
LEMMA OrphanStep ==
  ASSUME SmInv, OrphanInv, NEW sent, NEW rcvd, Udp(sent, rcvd),
         \A p \in sent : p.type = kConnectResp =>
                           p.err \in {kNoError, kInvalidRemoteRpcId},
         \A s \in Sessions : state'[s] = Buried => state[s] = Buried,
         UNCHANGED s_session_vec
  PROVE  OrphanInv'
<1>1. \A p \in net' : p.type = kConnectResp => p.err \in {kNoError, kInvalidRemoteRpcId}
  BY UdpNet DEF OrphanInv
<1>2. NoOrphanServerSession'
  BY VecType DEF SmInv, OrphanInv, NoOrphanServerSession
<1>3. \A s \in Sessions : state'[s] = Buried => (TokenMap(s) # {})'
  BY DEF OrphanInv, TokenMap
<1> QED
  BY <1>1, <1>2, <1>3 DEF OrphanInv

LEMMA NextOrphanInv ==
  ASSUME SmInv, RefusesNone, OrphanInv, Next
  PROVE  OrphanInv'
<1>t. /\ state \in [Sessions -> SessionState]
      /\ \A p \in net : p \in SmPkt /\ p.session \in Sessions
  BY DEF SmInv, TypeOK, SessionState, SmPkt
<1>1. ASSUME NEW s \in Sessions, CreateSession(s) \/ DestroySession(s) PROVE OrphanInv'
  <2> DEFINE r == IF state[s] = Unborn THEN SmReq(s, kConnectReq, 0)
                  ELSE SmReq(s, kDisconnectReq, srv_num[s])
  <2>1. r.type # kConnectResp
    BY DEF SmReq, kConnectReq, kConnectResp, kDisconnectReq
  <2>2. Udp({r}, {})
    BY <1>1 DEF CreateSession, DestroySession
  <2> HIDE DEF r
  <2>3. (\A t \in Sessions : state'[t] = Buried => state[t] = Buried) /\ UNCHANGED s_session_vec
    BY <1>1, <1>t DEF CreateSession, DestroySession, srvVars
  <2> QED
    BY <2>1, <2>2, <2>3, OrphanStep
<1>2. ASSUME NEW s \in sm_pending_reqs, PktLossScan(s) PROVE OrphanInv'
  <2>1. PICK r : r.type # kConnectResp /\ Udp({r}, {})
    BY <1>2 DEF PktLossScan, SmReq, kConnectReq, kConnectResp, kDisconnectReq
  <2> QED
    BY <1>2, <2>1, OrphanStep DEF PktLossScan, cliVars, srvVars
<1>3. ASSUME NEW p \in net,
             HandleConnectRespIgnore(p) \/ HandleConnectRespRetry(p)
               \/ HandleConnectRespOk(p) \/ LosePacket(p)
      PROVE  OrphanInv'
  <2>1. Udp({}, {p}) /\ UNCHANGED s_session_vec
    BY <1>3 DEF HandleConnectRespIgnore, HandleConnectRespRetry, HandleConnectRespOk,
                LosePacket, srvVars
  <2>2. \A t \in Sessions : state'[t] = Buried => state[t] = Buried
    BY <1>3, <1>t DEF HandleConnectRespIgnore, HandleConnectRespRetry,
                      HandleConnectRespOk, LosePacket, cliVars
  <2> QED
    BY <2>1, <2>2, OrphanStep
<1>4. ASSUME NEW p \in net, HandleConnectRespError(p) PROVE OrphanInv'
  BY <1>4 DEF HandleConnectRespError, OrphanInv, RefusesNone
<1>5. ASSUME NEW p \in net, HandleConnectRespUnresolved(p) PROVE OrphanInv'
  <2>1. SmReq(p.session, kDisconnectReq, p.srv).type # kConnectResp
    BY DEF SmReq, kConnectResp, kDisconnectReq
  <2>2. (\A t \in Sessions : state'[t] = Buried => state[t] = Buried) /\ UNCHANGED s_session_vec
    BY <1>5, <1>t DEF HandleConnectRespUnresolved, srvVars
  <2>3. Udp({SmReq(p.session, kDisconnectReq, p.srv)}, {p})
    BY <1>5 DEF HandleConnectRespUnresolved
  <2> QED
    BY <2>1, <2>2, <2>3, OrphanStep
<1>6. ASSUME NEW p \in net, HandleDisconnectResp(p) PROVE OrphanInv'
  <2>1. /\ Udp({}, {p}) /\ UNCHANGED s_session_vec
        /\ p.type = kDisconnectResp
    BY <1>6 DEF HandleDisconnectResp, srvVars
  <2>2. /\ p.srv \in DOMAIN s_session_vec
        /\ s_session_vec[p.srv].token = p.session
        /\ s_session_vec[p.srv].state = Buried
    BY <2>1 DEF SmInv, PacketsMatch, PktMatches
  <2>3. \A t \in Sessions \ {p.session} : state'[t] = Buried => state[t] = Buried
    BY <1>6, <1>t DEF HandleDisconnectResp
  <2>4. \A q \in net' : q.type = kConnectResp => q.err \in {kNoError, kInvalidRemoteRpcId}
    BY <2>1, UdpNet DEF OrphanInv
  <2>5. NoOrphanServerSession'
    <3> SUFFICES ASSUME NEW i \in DOMAIN s_session_vec, s_session_vec[i].state = kConnected
                 PROVE  state'[s_session_vec[i].token] # Buried
      BY <2>1 DEF NoOrphanServerSession
    <3>1. s_session_vec[i].token # p.session
      BY <2>2 DEF SmInv, OneServerSession
    <3>2. s_session_vec[i].token \in Sessions
      BY VecType DEF SmInv
    <3> QED
      BY <2>3, <3>1, <3>2 DEF OrphanInv, NoOrphanServerSession
  <2>6. \A s \in Sessions : state'[s] = Buried => (TokenMap(s) # {})'
    BY <2>1, <2>2, <2>3 DEF OrphanInv, TokenMap
  <2> QED
    BY <2>4, <2>5, <2>6 DEF OrphanInv
<1>7. ASSUME NEW p \in net, HandleConnectReqDuplicate(p) PROVE OrphanInv'
  <2>1. PICK i \in TokenMap(p.session) :
          Udp(IF s_session_vec[i].state = kConnected
              THEN {[SmResp(p, kNoError) EXCEPT !.srv = i]} ELSE {}, {p})
    BY <1>7 DEF HandleConnectReqDuplicate
  <2>2. [SmResp(p, kNoError) EXCEPT !.srv = i].err = kNoError
    BY <1>t DEF SmResp, SmPkt
  <2>3. \A q \in IF s_session_vec[i].state = kConnected
                 THEN {[SmResp(p, kNoError) EXCEPT !.srv = i]} ELSE {} :
          q.err \in {kNoError, kInvalidRemoteRpcId}
    BY <2>2
  <2>4. UNCHANGED <<state, s_session_vec>>
    BY <1>7 DEF HandleConnectReqDuplicate, cliVars, srvVars
  <2> QED
    BY <2>1, <2>3, <2>4, OrphanStep
<1>8. ASSUME NEW p \in net, NEW err \in ConnectErrors, HandleConnectReqError(p, err)
      PROVE  OrphanInv'
  <2>1. s_ring # 0
    BY <1>8, <1>t, RingEntryLeft DEF HandleConnectReqError
  <2>2. ConnectErrors = {}
    BY <2>1 DEF ConnectErrors, RefusesNone
  <2> QED
    BY <2>2
<1>9. ASSUME NEW p \in net, HandleConnectReqOk(p) PROVE OrphanInv'
  <2>1. /\ s_session_vec \in Seq(SrvSession) /\ Len(s_session_vec) \in Nat
        /\ DOMAIN s_session_vec = 1..Len(s_session_vec)
        /\ \A i \in DOMAIN s_session_vec : s_session_vec[i].token \in Sessions
    BY VecType DEF SmInv
  <2> PICK n \in Nat : n = Len(s_session_vec) + 1
    BY <2>1
  <2> DEFINE e == [token |-> p.session, state |-> kConnected]
             r == [SmResp(p, kNoError) EXCEPT !.srv = n]
  <2>2. /\ s_session_vec' = Append(s_session_vec, e) /\ e.token = p.session
        /\ Udp({r}, {p})
        /\ UNCHANGED state
        /\ TokenMap(p.session) = {}
    BY <1>9 DEF HandleConnectReqOk, cliVars
  <2>3. r.err = kNoError
    BY <1>t DEF SmResp, SmPkt
  <2> HIDE DEF e, r
  <2>4. /\ DOMAIN s_session_vec' = 1..n /\ s_session_vec'[n] = e
        /\ \A i \in DOMAIN s_session_vec :
             i \in DOMAIN s_session_vec' /\ s_session_vec'[i] = s_session_vec[i]
        /\ \A i \in DOMAIN s_session_vec' : i = n \/ i \in DOMAIN s_session_vec
    BY <2>1, <2>2
  <2>5. \A q \in net' : q.type = kConnectResp => q.err \in {kNoError, kInvalidRemoteRpcId}
    BY <2>2, <2>3, UdpNet DEF OrphanInv
  <2>6. state[p.session] # Buried
    BY <1>t, <2>2 DEF OrphanInv
  <2>7. NoOrphanServerSession'
    BY <2>2, <2>4, <2>6 DEF OrphanInv, NoOrphanServerSession
  <2>8. \A s \in Sessions : state'[s] = Buried => (TokenMap(s) # {})'
    BY <2>2, <2>4 DEF OrphanInv, TokenMap
  <2> QED
    BY <2>5, <2>7, <2>8 DEF OrphanInv
<1>10. ASSUME NEW p \in net, HandleDisconnectReq(p) PROVE OrphanInv'
  <2>1. /\ p.srv \in DOMAIN s_session_vec
        /\ p.type = kDisconnectReq /\ Udp({SmResp(p, kNoError)}, {p}) /\ UNCHANGED state
    BY <1>10 DEF HandleDisconnectReq, SmInv, PacketsMatch, PktMatches, cliVars
  <2>2. SmResp(p, kNoError).type # kConnectResp
    BY <1>t, <2>1 DEF SmResp, SmPkt, kConnectReq, kConnectResp, kDisconnectReq,
                      kDisconnectResp
  <2>3. \A q \in net' : q.type = kConnectResp => q.err \in {kNoError, kInvalidRemoteRpcId}
    BY <2>1, <2>2, UdpNet DEF OrphanInv
  <2>4. \A i \in DOMAIN s_session_vec : s_session_vec[i] \in SrvSession
    BY VecType DEF SmInv
  <2>5. /\ DOMAIN s_session_vec' = DOMAIN s_session_vec
        /\ \A i \in DOMAIN s_session_vec :
             /\ s_session_vec'[i].token = s_session_vec[i].token
             /\ s_session_vec'[i].state = kConnected =>
                  s_session_vec[i].state = kConnected
    BY <1>10, <2>1, <2>4 DEF HandleDisconnectReq, SrvSession
  <2>6. NoOrphanServerSession'
    BY <2>1, <2>5 DEF OrphanInv, NoOrphanServerSession
  <2>7. \A s \in Sessions : state'[s] = Buried => (TokenMap(s) # {})'
    BY <2>1, <2>5 DEF OrphanInv, TokenMap
  <2> QED
    BY <2>3, <2>6, <2>7 DEF OrphanInv
<1>11. ASSUME NEW p \in net, RejectRequest(p) PROVE OrphanInv'
  <2>1. SmResp(p, kInvalidRemoteRpcId).err = kInvalidRemoteRpcId
    BY <1>t DEF SmResp, SmPkt
  <2>2. /\ UNCHANGED <<state, s_session_vec>>
        /\ Udp({SmResp(p, kInvalidRemoteRpcId)}, {p})
    BY <1>11 DEF RejectRequest, cliVars, srvVars
  <2> QED
    BY <2>1, <2>2, OrphanStep
<1>12. ASSUME StartServer \/ DestroyServer PROVE OrphanInv'
  BY <1>12 DEF StartServer, DestroyServer, cliVars, OrphanInv, NoOrphanServerSession,
               TokenMap
<1> QED
  BY <1>1, <1>2, <1>3, <1>4, <1>5, <1>6, <1>7, <1>8, <1>9, <1>10, <1>11, <1>12
     DEF Next, HandleSmPkt

\* "The server didn't allocate session resources, so we can just destroy": when
\* the server refuses no session, no client session is buried while its server
\* session is connected, although the client may fail to resolve, requests are
\* repeated and error responses of the SM thread arrive late.
THEOREM NoOrphans == RefusesNone => (Spec => []NoOrphanServerSession)
<1> SUFFICES ASSUME RefusesNone PROVE Spec => []NoOrphanServerSession
  OBVIOUS
<1>1. Init => OrphanInv
  BY DEF Init, OrphanInv, NoOrphanServerSession, TokenMap
<1>2. SmInv /\ OrphanInv /\ [Next]_vars => OrphanInv'
  <2>1. ASSUME SmInv, OrphanInv, Next PROVE OrphanInv'
    BY <2>1, NextOrphanInv
  <2>2. ASSUME OrphanInv, UNCHANGED vars PROVE OrphanInv'
    BY <2>2 DEF OrphanInv, vars, NoOrphanServerSession, TokenMap
  <2> QED
    BY <2>1, <2>2
<1>3. OrphanInv => NoOrphanServerSession
  BY DEF OrphanInv
<1> QED
  BY <1>1, <1>2, <1>3, SmInvariantHolds, PTL DEF Spec
=============================================================================
