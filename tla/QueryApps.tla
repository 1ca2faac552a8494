------------------------------ MODULE QueryApps ------------------------------
(***************************************************************************)
(* The remote data structure applications apps/hashtable, apps/btree-scan  *)
(* and apps/btree-agg: a server loads the keys of a workload file into a   *)
(* data structure (modules HashTable and BPlusTree), a client reads a file *)
(* of queries, connects to the servers one after the other and keeps a     *)
(* fixed number of queries outstanding until a slot finds no more.  The    *)
(* user neither interrupts it nor gives it too short a time.  The servers  *)
(* load the same file, each at its own pace.                               *)
(***************************************************************************)
EXTENDS Integers, FiniteSets, Sequences

CONSTANTS App,
          DataFile, QueryFile,      \* sequences of lines: operation and key
          num_server_processes, num_processes,
          num_keys, num_queries,    \* the flags
          Concurrency,
          Lengths                   \* what the unset length of a request may be

Apps == {"hashtable", "scan", "agg"}

----------------------------------------------------------------------------
(* The workload files (RpcParse)                                          *)

\* All INSERT lines; the number of keys asked for does not end the reading
all_keys == SelectSeq(DataFile, LAMBDA l : l.op = "INSERT")
all_query == SelectSeq(QueryFile, LAMBDA l : l.op \in {"READ", "SCAN", "AGGREGATE"})

QueryAppsAssumption ==
    /\ App \in Apps
    /\ {num_keys, num_queries, Concurrency, num_server_processes} \subseteq Nat \ {0}
    /\ num_processes > num_server_processes
    /\ Lengths \subseteq Nat /\ Lengths # {}
    \* The files hold as many lines as the flags say
    /\ num_keys <= Len(all_keys) /\ num_queries = Len(all_query)

\* The first num_keys keys are inserted
loaded == {all_keys[i].key : i \in 1 .. num_keys}

\* The queries ask for keys that are there
LoadedAssumption == \A i \in DOMAIN all_query : all_query[i].key \in loaded

----------------------------------------------------------------------------
(* State *)

\* main: the first processes are servers, the one client follows them
role(process_id) == IF process_id < num_server_processes THEN "server_func" ELSE "client_func"
Servers == {p \in 0 .. num_processes - 1 : role(p) = "server_func"}

Slots == 1 .. Concurrency

VARIABLES
    inserted,         \* server -> number of keys inserted
    session_num_vec,  \* client: number of sessions created
    num_sm_resps,     \* client: number of them that are connected
    num_reqs,         \* requests sent
    slot,             \* slot -> its request or response, or none
    read,             \* history: positions of all_query that were read
    answers,          \* history: set of answered query positions with results
    experiment_finished,
    ended             \* client_func has left its main loop

connecting == <<inserted, session_num_vec, num_sm_resps>>
vars == <<connecting, num_reqs, slot, read, answers, experiment_finished, ended>>

none == [state |-> "none", server |-> 0, query |-> 0, key |-> 0, len |-> 0]

----------------------------------------------------------------------------
(* Server *)

\* The Rpc is there from the start, its event loop runs once all keys are inserted
server_func(p) ==
    /\ inserted[p] < num_keys
    /\ inserted' = [inserted EXCEPT ![p] = @ + 1]
    /\ UNCHANGED <<session_num_vec, num_sm_resps, num_reqs, slot, read, answers,
                   experiment_finished, ended>>

serving(p) == inserted[p] = num_keys

stored(p) == {all_keys[i].key : i \in 1 .. inserted[p]}
from(keys, key) == {k \in keys : k >= key}

\* The value of the key, which here is the key; 0 for what is not there
req_handler_hashtable(r) == IF r.key \in stored(r.server) THEN r.key ELSE 0
\* The scan passes the entries from the key on, as many as the request says; a
\* length of 0 does not end it.  The response has the number of leaves left
\* behind, with one entry in each.
req_handler_scan(r) ==
    LET n == Cardinality(from(stored(r.server), r.key))
    IN  IF r.len \in 1 .. n THEN r.len - 1 ELSE n
\* aggregate_time returns 1, its result is not sent
req_handler_agg(r) == 1

result(r) ==
    CASE App = "hashtable" -> req_handler_hashtable(r)
      [] App = "scan" -> req_handler_scan(r)
      [] App = "agg" -> req_handler_agg(r)

req_handler(s) ==
    /\ slot[s].state = "sent" /\ serving(slot[s].server)
    /\ slot' = [slot EXCEPT ![s] = [@ EXCEPT !.state = "answered", !.len = result(slot[s])]]
    /\ UNCHANGED <<connecting, num_reqs, read, answers, experiment_finished, ended>>

----------------------------------------------------------------------------
(* Client *)

\* A session to each server in turn; the next one is created when this one is
\* connected, which takes the server's event loop
connect_sessions ==
    /\ session_num_vec < num_server_processes /\ num_sm_resps = session_num_vec
    /\ session_num_vec' = session_num_vec + 1
    /\ UNCHANGED <<inserted, num_sm_resps, num_reqs, slot, read, answers,
                   experiment_finished, ended>>

basic_sm_handler ==
    /\ num_sm_resps < session_num_vec /\ serving(session_num_vec - 1)
    /\ num_sm_resps' = num_sm_resps + 1
    /\ UNCHANGED <<inserted, session_num_vec, num_reqs, slot, read, answers,
                   experiment_finished, ended>>

connected == num_sm_resps = num_server_processes

\* Is there a query after n of them were sent?
more(n) == n < num_queries

\* send_req reads the next query first, and then looks whether there is one;
\* the request has the key only and goes to a server drawn at random
send_req(s, n) ==
    /\ read' = read \union {n + 1}
    /\ IF more(n)
         THEN /\ \E len \in Lengths, p \in Servers :
                    slot' = [slot EXCEPT ![s] = [state |-> "sent", server |-> p, query |-> n + 1,
                                                 key |-> all_query[n + 1].key, len |-> len]]
              /\ num_reqs' = n + 1
              /\ UNCHANGED experiment_finished
         ELSE /\ experiment_finished' = TRUE
              /\ slot' = [slot EXCEPT ![s] = none]
              /\ UNCHANGED num_reqs

Init ==
    /\ inserted = [p \in Servers |-> 0]
    /\ session_num_vec = 0 /\ num_sm_resps = 0
    /\ num_reqs = 0
    /\ slot = [s \in Slots |-> none]
    /\ read = {} /\ answers = {}
    /\ experiment_finished = FALSE /\ ended = FALSE

\* The client sends with all slots before its first event loop
starting == num_reqs < Concurrency /\ ~experiment_finished /\ answers = {}

client_start ==
    /\ ~ended /\ starting /\ connected
    /\ send_req(num_reqs + 1, num_reqs)
    /\ UNCHANGED <<connecting, answers, ended>>

app_cont_func(s) ==
    /\ ~ended /\ ~starting /\ slot[s].state = "answered"
    /\ answers' = answers \union {[query |-> slot[s].query, result |-> slot[s].len]}
    /\ send_req(s, num_reqs)
    /\ UNCHANGED <<connecting, ended>>

\* A round of the main loop ends
client_func ==
    /\ experiment_finished /\ ~ended
    /\ ended' = TRUE
    /\ UNCHANGED <<connecting, num_reqs, slot, read, answers, experiment_finished>>

Next ==
    \/ \E p \in Servers : server_func(p)
    \/ connect_sessions \/ basic_sm_handler
    \/ client_start \/ client_func
    \/ \E s \in Slots : req_handler(s) \/ app_cont_func(s)

Spec == Init /\ [][Next]_vars

----------------------------------------------------------------------------
(* Properties *)

\* No query is answered twice, each one by the result for its own key among
\* all that are loaded: none is answered before that (req_handler, send_req's
\* counter shared by all slots, server_func's event loop after the loading).
AnswersRight ==
    /\ \A a, b \in answers : a.query = b.query => a = b
    /\ \A a \in answers :
          CASE App = "hashtable" -> a.result = all_query[a.query].key
            [] App = "scan" -> a.result \in 0 .. Cardinality(from(loaded, all_query[a.query].key))
            [] App = "agg" -> a.result = 1

\* The client leaves its loop when one slot found no more queries: the other
\* slots' queries may stay unanswered, and no more than these (send_req).
FewUnanswered == ended => num_queries - Cardinality(answers) < Concurrency

=============================================================================
