---------------------------- MODULE BenchTraffic ----------------------------
(***************************************************************************)
(* The request phase of the benchmark applications: a client thread keeps  *)
(* a fixed number of requests outstanding, each in its own pair of         *)
(* MsgBuffers, and a continuation sends the next request with the pair it  *)
(* got back.  small_rpc_tput waits for a whole batch first; latency has    *)
(* one request, whose size the main loop asks to double every second.      *)
(*                                                                         *)
(* The library (module RpcDatapath) is an unordered set of requests and    *)
(* responses here: requests of one client finish in any order.             *)
(***************************************************************************)
EXTENDS Integers, FiniteSets

CONSTANTS App,
          Batches,          \* FLAGS_concurrency batches of small_rpc_tput, or 1
          BatchSize,        \* FLAGS_batch_size, or the window of the others
          ReqSize, RespSize,
          kMTU,
          kMaxDataPerPkt,   \* kMTU less the packet header
          kAppEndReqSize,   \* latency: ReqSize is kAppStartReqSize
          MaxSeconds        \* bound on the client's main loop

Apps == {"small", "small_dyn", "large", "rate", "latency", "incast", "regular"}

BenchTrafficAssumption ==
    /\ App \in Apps
    /\ {Batches, BatchSize, ReqSize, RespSize, kMTU, kMaxDataPerPkt, kAppEndReqSize}
          \subseteq Nat \ {0}
    /\ MaxSeconds \in Nat
    /\ ReqSize <= kAppEndReqSize
    /\ kMaxDataPerPkt < kMTU
    /\ App \notin {"small", "small_dyn"} => Batches = 1
    /\ App \in {"latency", "incast"} => BatchSize = 1
    \* The start checks of server_rate
    /\ App = "rate" => RespSize <= kMTU

Slots == (1 .. Batches) \X (1 .. BatchSize)

VARIABLES
    owner,             \* slot -> who may touch its MsgBuffers: "app" or "erpc"
    req_msgbuf,        \* slot -> data size of the request MsgBuffer
    wire,              \* requests and responses the library has
    num_resps_rcvd,    \* small_rpc_tput: batch -> responses of this round
    failed,            \* an assertion of the application or of resize_msg_buffer
    req_size,          \* latency: the size the client reports
    double_req_size,
    seconds,           \* rounds of the client's main loop
    done,              \* history: slot -> its requests answered, modulo 2
    answered,          \* history: sizes of the requests answered since a report
    report             \* latency: the last size printed, with what it was about

vars == <<owner, req_msgbuf, wire, num_resps_rcvd, failed, req_size, double_req_size,
          seconds, done, answered, report>>

----------------------------------------------------------------------------
(* The client sends *)

request(s, size) == [kind |-> "req", slot |-> s, size |-> size]

\* All applications allocate for the request size; latency for its largest
alloc_msg_buffers == [s \in Slots |-> IF App = "latency" THEN kAppEndReqSize ELSE ReqSize]

Init ==
    /\ owner = [s \in Slots |-> "erpc"]
    /\ req_msgbuf = alloc_msg_buffers
    /\ wire = {request(s, alloc_msg_buffers[s]) : s \in Slots}
    /\ num_resps_rcvd = [b \in 1 .. Batches |-> 0]
    /\ failed = "no"
    /\ req_size = ReqSize
    /\ double_req_size = FALSE
    /\ seconds = 0
    /\ done = [s \in Slots |-> 0]
    /\ answered = {}
    /\ report = [size |-> 0, of |-> {0}]

----------------------------------------------------------------------------
(* The server answers *)

dyn_resp == [buf |-> "dyn", max |-> RespSize]
\* The preallocated response MsgBuffer is one packet, unless the application
\* said otherwise (set_pre_resp_msgbuf_size of latency)
pre_resp == [buf |-> "pre", max |-> IF App = "latency" THEN RespSize ELSE kMaxDataPerPkt]

req_handler_small == pre_resp
req_handler_small_dyn == dyn_resp
req_handler_large == dyn_resp
req_handler_rate == pre_resp
req_handler_latency == pre_resp
req_handler_incast == dyn_resp
req_handler_regular == IF RespSize <= kMaxDataPerPkt THEN pre_resp ELSE dyn_resp

resp_msgbuf ==
    CASE App = "small" -> req_handler_small
      [] App = "small_dyn" -> req_handler_small_dyn
      [] App = "large" -> req_handler_large
      [] App = "rate" -> req_handler_rate
      [] App = "latency" -> req_handler_latency
      [] App = "incast" -> req_handler_incast
      [] App = "regular" -> req_handler_regular

\* resize_msg_buffer asserts that the response fits
req_handler(m) ==
    /\ m \in wire /\ m.kind = "req" /\ failed = "no"
    /\ IF RespSize > resp_msgbuf.max
         THEN failed' = "resize" /\ UNCHANGED wire
         ELSE /\ wire' = (wire \ {m}) \union
                           {[kind |-> "resp", slot |-> m.slot, size |-> RespSize]}
              /\ UNCHANGED failed
    /\ UNCHANGED <<owner, req_msgbuf, num_resps_rcvd, req_size, double_req_size, seconds, done, answered, report>>

----------------------------------------------------------------------------
(* The client goes on: what a continuation sends when slot s is answered *)

batch_of(s) == {u \in Slots : u[1] = s[1]}
full(s) == num_resps_rcvd[s[1]] + 1 = BatchSize

\* small_rpc_tput sends a whole batch when the last of it is answered
sends_small(s) == IF full(s) THEN batch_of(s) ELSE {}
sends_large(s) == {s}
sends_rate(s) == {s}
sends_latency(s) == {s}
sends_incast(s) == {s}
sends_regular(s) == {s}

sends(s) ==
    CASE App \in {"small", "small_dyn"} -> sends_small(s)
      [] App = "large" -> sends_large(s)
      [] App = "rate" -> sends_rate(s)
      [] App = "latency" -> sends_latency(s)
      [] App = "incast" -> sends_incast(s)
      [] App = "regular" -> sends_regular(s)

\* latency doubles the size of its next request when asked to, and starts over
next_req_size ==
    IF ~double_req_size THEN req_size
    ELSE IF 2 * req_size > kAppEndReqSize THEN ReqSize ELSE 2 * req_size

\* Before the first doubling the MsgBuffer keeps the size it was allocated with
resized(s) == IF double_req_size THEN next_req_size ELSE req_msgbuf[s]

app_cont_func(m) ==
    LET s == m.slot
        again == sends(s)
        free == [owner EXCEPT ![s] = "app"]
    IN  /\ m \in wire /\ m.kind = "resp" /\ failed = "no"
        /\ num_resps_rcvd' = [num_resps_rcvd EXCEPT ![s[1]] =
                                IF App \in {"small", "small_dyn"} /\ ~full(s) THEN @ + 1 ELSE 0]
        /\ owner' = [u \in Slots |-> IF u \in again THEN "erpc" ELSE free[u]]
        /\ failed' = IF \E u \in again : free[u] = "erpc" THEN "reused" ELSE failed
        /\ req_msgbuf' = [u \in Slots |-> IF u \in again THEN resized(u) ELSE req_msgbuf[u]]
        /\ wire' = (wire \ {m}) \union {request(u, resized(u)) : u \in again}
        /\ req_size' = next_req_size
        /\ double_req_size' = FALSE
        /\ done' = [done EXCEPT ![s] = 1 - @]
        /\ answered' = IF App = "latency" THEN answered \union {req_msgbuf[s]} ELSE {}
        /\ UNCHANGED <<seconds, report>>

\* A second of latency's main loop has passed: it prints, unless there were no
\* responses, and asks for the next size
client_func ==
    /\ App = "latency" /\ failed = "no" /\ seconds < MaxSeconds
    /\ seconds' = seconds + 1
    /\ double_req_size' = TRUE
    /\ report' = IF answered = {} THEN report ELSE [size |-> req_size, of |-> answered]
    /\ answered' = {}
    /\ UNCHANGED <<owner, req_msgbuf, wire, num_resps_rcvd, failed, req_size, done>>

Next ==
    \/ \E m \in wire : req_handler(m) \/ app_cont_func(m)
    \/ client_func

Spec == Init /\ [][Next]_vars

----------------------------------------------------------------------------
(* Properties *)

\* No continuation sends with a MsgBuffer pair the library still owns, and no
\* assertion on a response fails (send_reqs and the send_req functions).  The
\* exception: server_rate lets a response be as long as kMTU (server_rate.cc:163), but
\* the preallocated MsgBuffer it resizes holds one packet's data, which is less.
NoAssertFails ==
    failed = "no" \/ (failed = "resize" /\ App = "rate" /\ RespSize > kMaxDataPerPkt)

\* A MsgBuffer belongs to the library exactly while its request or response is
\* on its way, once; in a batch the others are waiting for the batch to fill.
OneRequestPerSlot ==
    failed = "no" =>
      /\ \A s \in Slots : Cardinality({m \in wire : m.slot = s}) =
            IF owner[s] = "erpc" THEN 1 ELSE 0
      /\ \A b \in 1 .. Batches :
            num_resps_rcvd[b] = Cardinality({s \in Slots : s[1] = b /\ owner[s] = "app"})

\* What is sent is what the MsgBuffer holds until the request is answered: the
\* main loop's wish for another size waits for the next request (latency.cc).
InFlightIntact == \A m \in wire : m.kind = "req" => m.size = req_msgbuf[m.slot]

=============================================================================
