---------------------------- MODULE BenchCluster ----------------------------
(***************************************************************************)
(* The start of the benchmark applications under apps/: every thread of    *)
(* every process creates an Rpc object, creates its sessions, runs its     *)
(* event loop until they are connected, and sends its first requests.      *)
(* Which threads connect to which is the application's connectivity        *)
(* (small_rpc_tput, server_rate, latency, log, large_rpc_tput with its two *)
(* profiles, congestion).                                                  *)
(*                                                                         *)
(* Session management is one step here (module SessionMgmt has its detail):*)
(* a connect request is answered by a thread that has its Rpc object and   *)
(* runs an event loop; without the object the client retries.              *)
(***************************************************************************)
EXTENDS Integers, FiniteSets

CONSTANTS App,
          N,                  \* FLAGS_num_processes
          T0, T,              \* threads of process 0 and of the others
          Incast,             \* congestion: FLAGS_incast_threads_other
          kSessionCredits,
          kNumRxRingEntries,
          kDPDK,              \* is the transport DPDK, which has no loopback?
          MaxInterrupts       \* bound on the processes that get a Ctrl-C

Apps == {"small", "rate", "latency", "log", "incast", "victim", "congestion"}

BenchClusterAssumption ==
    /\ App \in Apps
    /\ {N, T0, T, kSessionCredits, kNumRxRingEntries} \subseteq Nat \ {0}
    /\ Incast \in 0 .. T
    /\ kDPDK \in BOOLEAN /\ MaxInterrupts \in Nat
    /\ App \in {"victim", "congestion"} => N >= 3
    /\ App = "small" => T0 = T

Procs == 0 .. N - 1
Threads == {t \in Procs \X (0 .. T0 + T) : t[2] < IF t[1] = 0 THEN T0 ELSE T}

VARIABLES
    st,            \* thread -> "none", "connecting", "running", "stopped", "dead"
    created,       \* thread -> the remote threads it created sessions to
    connected,     \* thread -> those whose session is connected
    ring,          \* thread -> ring_entries_available_
    ctrl_c,        \* processes whose ctrl_c_pressed is set
    used           \* history: thread -> sessions it sent its first requests on

vars == <<st, created, connected, ring, ctrl_c, used>>

----------------------------------------------------------------------------
(* Connectivity: the remote threads that a thread creates sessions to *)

\* small_rpc_tput: everybody but itself, or with DPDK but its process
targets_small(t) == {s \in Threads : IF kDPDK THEN s[1] # t[1] ELSE s # t}

\* server_rate: the clients to all threads of process 0
targets_rate(t) == IF t[1] = 0 THEN {} ELSE {s \in Threads : s[1] = 0}

\* latency: the last process to thread 0 of the others, which are the servers
targets_latency(t) == IF t = <<N - 1, 0>> THEN {<<p, 0>> : p \in 0 .. N - 2} ELSE {}

\* The threads of process 0 in turn, by a client thread's global number
rem_tid(t) == (t[1] * T + t[2]) % T0

targets_log(t) == IF t[1] = 0 THEN {} ELSE {<<0, rem_tid(t)>>}

\* large_rpc_tput, profile incast
targets_incast(t) == IF t[1] = 0 THEN {} ELSE {<<0, rem_tid(t)>>}

\* large_rpc_tput, profile victim
targets_victim(t) ==
    CASE t[1] \in {0, N - 1} -> {}
      [] t[1] = N - 2 /\ t[2] = T - 1 -> {<<N - 1, 0>>}
      [] OTHER -> {<<0, rem_tid(t)>>}

\* congestion: an incast thread to process 0, a regular thread to the threads
\* of its own number at the other processes
targets_congestion_incast(t) == {<<0, (t[1] * Incast + t[2]) % T0>>}
targets_regular(t) == {<<p, t[2]>> : p \in 1 .. N - 1} \ {t}
targets_congestion(t) ==
    CASE t[1] = 0 -> {}
      [] t[2] < Incast -> targets_congestion_incast(t)
      [] OTHER -> targets_regular(t)

targets(t) ==
    CASE App = "small" -> targets_small(t)
      [] App = "rate" -> targets_rate(t)
      [] App = "latency" -> targets_latency(t)
      [] App = "log" -> targets_log(t)
      [] App = "incast" -> targets_incast(t)
      [] App = "victim" -> targets_victim(t)
      [] App = "congestion" -> targets_congestion(t)

----------------------------------------------------------------------------
(* Threads *)

Init ==
    /\ st = [t \in Threads |-> "none"]
    /\ created = [t \in Threads |-> {}]
    /\ connected = [t \in Threads |-> {}]
    /\ ring = [t \in Threads |-> kNumRxRingEntries]
    /\ ctrl_c = {}
    /\ used = [t \in Threads |-> {}]

\* latency creates a session when the previous one is connected, the others
\* create all of them before they run the event loop
to_create(t) ==
    IF App = "latency" THEN IF targets(t) = {} THEN {} ELSE {CHOOSE s \in targets(t) : TRUE}
    ELSE targets(t)

\* create_session takes ring entries, refuses the thread itself, and the
\* application gives up when it fails
create_sessions(t, new) ==
    IF t \in new \/ ring[t] < kSessionCredits * Cardinality(new)
      THEN /\ st' = [st EXCEPT ![t] = "dead"]
           /\ UNCHANGED <<created, ring>>
      ELSE /\ st' = [st EXCEPT ![t] = "connecting"]
           /\ created' = [created EXCEPT ![t] = @ \union new]
           /\ ring' = [ring EXCEPT ![t] = @ - kSessionCredits * Cardinality(new)]

thread_func(t) ==
    /\ st[t] = "none"
    /\ create_sessions(t, to_create(t))
    /\ UNCHANGED <<connected, ctrl_c, used>>

create_next(t) ==
    /\ App = "latency" /\ st[t] = "connecting"
    /\ t[1] \notin ctrl_c
    /\ connected[t] = created[t] /\ created[t] # targets(t)
    /\ \E s \in targets(t) \ created[t] : create_sessions(t, {s})
    /\ UNCHANGED <<connected, ctrl_c, used>>

\* The server answers from its event loop, or refuses when its ring is too
\* short; basic_sm_handler at the client expects success
basic_sm_handler(t, s) ==
    /\ st[t] \in {"connecting", "running"} /\ s \in created[t] \ connected[t]
    /\ st[s] \in {"connecting", "running"}
    /\ IF ring[s] < kSessionCredits
         THEN /\ st' = [st EXCEPT ![t] = "dead"]
              /\ UNCHANGED <<connected, ring>>
         ELSE /\ connected' = [connected EXCEPT ![t] = @ \union {s}]
              /\ ring' = [ring EXCEPT ![s] = @ - kSessionCredits]
              /\ UNCHANGED st
    /\ UNCHANGED <<created, ctrl_c, used>>

\* The first requests go to sessions drawn at random, or to the only one;
\* latency draws among all servers, also those it has no session to
first_sessions(t) ==
    CASE targets(t) = {} -> {{}}
      [] App \in {"log", "incast", "victim"} -> {created[t]}
      [] App = "latency" -> {{s} : s \in targets(t)}
      [] OTHER -> SUBSET created[t] \ {{}}

\* The wait for the sessions ends when all are connected, or with Ctrl-C
\* (except in log), and either way the thread goes on to send
start_work(t) ==
    /\ st[t] = "connecting"
    /\ connected[t] = targets(t) \/ (App # "log" /\ t[1] \in ctrl_c)
    /\ st' = [st EXCEPT ![t] = "running"]
    /\ \E u \in first_sessions(t) : used' = [used EXCEPT ![t] = u]
    /\ UNCHANGED <<created, connected, ring, ctrl_c>>

\* The event loops of an interrupted process end, and its Rpc objects with them
stop(t) ==
    /\ st[t] = "running" /\ t[1] \in ctrl_c
    /\ st' = [st EXCEPT ![t] = "stopped"]
    /\ UNCHANGED <<created, connected, ring, ctrl_c, used>>

ctrl_c_handler(p) ==
    /\ p \notin ctrl_c /\ Cardinality(ctrl_c) < MaxInterrupts
    /\ ctrl_c' = ctrl_c \union {p}
    /\ UNCHANGED <<st, created, connected, ring, used>>

Next ==
    \/ \E t \in Threads :
          \/ thread_func(t) \/ create_next(t) \/ start_work(t) \/ stop(t)
          \/ \E s \in Threads : basic_sm_handler(t, s)
    \/ \E p \in Procs : ctrl_c_handler(p)

Spec == Init /\ [][Next]_vars

----------------------------------------------------------------------------
(* Properties *)

\* The receive rings are long enough for all sessions of both directions: no
\* create_session and no connect request fails (small_rpc_tput's check of
\* 2 * num_processes * num_threads sessions against the ring).
NoThreadDies == \A t \in Threads : st[t] # "dead"

\* Among connected clients, the threads of process 0 serve equally many
\* sessions, to within one (rem_tid).
Served(s) == Cardinality({t \in Threads : s \in connected[t]})
IncastBalanced ==
    (\A t \in Threads : connected[t] = targets(t)) =>
        \A a, b \in {s \in Threads : s[1] = 0} : Served(a) <= Served(b) + 1

\* large_rpc_tput.cc, profile victim: processes 0 and N - 1 send no requests,
\* the last thread of process N - 2 alone sends to process N - 1, and all other
\* threads in between send to process 0.
VictimFlows ==
    \A t \in Threads : st[t] = "running" =>
        /\ t[1] \in {0, N - 1} => used[t] = {}
        /\ t[1] \notin {0, N - 1} =>
              {s[1] : s \in used[t]} = IF t = <<N - 2, T - 1>> THEN {N - 1} ELSE {0}

\* rpc_req.cc asserts in enqueue_request that the session is connected: a
\* thread's first requests use connected sessions only.  The exception: Ctrl-C during
\* the wait for the sessions makes the connect functions return (profile_incast.h:31 and
\* its like), and their callers send all the same.
RequestsOnConnected ==
    \A t \in Threads : used[t] \subseteq connected[t] \/ t[1] \in ctrl_c

=============================================================================
