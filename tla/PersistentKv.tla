---------------------------- MODULE PersistentKv ----------------------------
(***************************************************************************)
(* The key-value application of apps/persistent_kv/persistent_kv.cc: server *)
(* threads that each own a partition and collect requests into batches,    *)
(* and a client thread that keeps a window of requests outstanding.        *)
(*                                                                         *)
(* The hash table (module Pmica) is a map that refuses a fixed set of keys, *)
(* those whose bucket chain is full.  The RPC library delivers each request *)
(* and each response once, in any order across window slots.               *)
(***************************************************************************)
EXTENDS Integers, Sequences, FiniteSets

CONSTANTS Servers,            \* server threads
          Window,             \* the client's window slots, 1 .. FLAGS_window_size
          kAppMaxServerBatch,
          kMaxBatchSize,      \* keys that populate inserts at a time
          KeyCap              \* key_cap_per_partition

PersistentKvAssumption ==
    /\ {kAppMaxServerBatch, kMaxBatchSize, KeyCap} \subseteq Nat \ {0}
    /\ Servers # {} /\ Window \subseteq Nat \ {0} /\ 1 \in Window

\* round_up<kMaxBatchSize>(key_cap_per_partition)
num_keys_to_insert == ((KeyCap + kMaxBatchSize - 1) \div kMaxBatchSize) * kMaxBatchSize
Keys == 1 .. num_keys_to_insert

Unknown == num_keys_to_insert + 1   \* a value or answer that may be any

Ops == {"get", "set"}
NoResp == [size |-> 0, body |-> 0]

VARIABLES
    kZeroCopyRX,  \* how the library was built (tweakme.h)
    rejects,      \* the keys whose SET fails in every partition
    table,        \* server -> [Keys -> 0 .. Unknown]: value, or 0 when absent
    max_key,      \* server -> largest key that populate vouches for
    batch,        \* server -> the requests it collected: operation, pointer to the request
    new_reqs,     \* server -> has this event loop iteration called the handler?
    held,         \* window slots whose request MsgBuffer the server may still read
    phase,        \* client: "connect", "max_key", "run"
    sm_resps,     \* client: servers whose session is connected
    client_max,   \* client: max_key
    req,          \* slot -> [st, server, op, key]
    resp          \* slot -> the response MsgBuffer

server == <<kZeroCopyRX, rejects, table, max_key>>
client == <<phase, sm_resps, client_max>>
vars == <<server, batch, new_reqs, held, client, req, resp>>

\* sizeof(Key) + sizeof(Value), sizeof(Value) and sizeof(Result) are told apart
SizeValue == 2
SizeResult == 1
kGetFail == 1
kSetSuccess == 2
kSetFail == 3

----------------------------------------------------------------------------
(* Server *)

(* Mutant: all keys that were stored are counted, behind the first failure too *)
populate_CountsAll(rej) ==
    LET first == CHOOSE k \in rej : \A l \in rej : k <= l
        upto == IF rej = {} THEN num_keys_to_insert
                ELSE ((first - 1) \div kMaxBatchSize + 1) * kMaxBatchSize
    IN [table |-> [k \in Keys |-> IF k <= upto /\ k \notin rej THEN k ELSE 0],
        max_key |-> IF rej = {} THEN num_keys_to_insert ELSE upto]

\* populate: batch after batch until some key of a batch is refused; the other
\* keys of that batch are in the table, but only those before it are counted
populate(rej) ==
    LET first == CHOOSE k \in rej : \A l \in rej : k <= l
        upto == IF rej = {} THEN num_keys_to_insert
                ELSE ((first - 1) \div kMaxBatchSize + 1) * kMaxBatchSize
    IN [table |-> [k \in Keys |-> IF k <= upto /\ k \notin rej THEN k ELSE 0],
        max_key |-> IF rej = {} THEN num_keys_to_insert ELSE first - 1]

\* hashmap operations of the batch, in order.  A SET of a request that the server still
\* owns stores the value, which the client makes equal to the key; one that it gave up
\* stores whatever key and value the RX ring holds there now
after_ops(t, b) ==
    LET given_up == {n \in DOMAIN b : b[n].op = "set" /\ b[n].slot \notin held}
        stores(k) == {n \in DOMAIN b : /\ b[n].op = "set" /\ b[n].slot \in held
                                       /\ req[b[n].slot].key = k}
    IN [k \in Keys |-> IF k \notin rejects /\ \E n \in stores(k) : \A m \in given_up : m < n THEN k
                       ELSE IF given_up # {} THEN Unknown
                       ELSE t[k]]

\* What the handler and drain_batch leave in pre_resp_msgbuf for a request of the batch
response(t, r) ==
    LET key == req[r.slot].key
    IN CASE r.slot \notin held -> [size |-> SizeResult, body |-> Unknown]
         [] r.slot \in held /\ r.op = "set" ->
              [size |-> SizeResult, body |-> IF key \in rejects THEN kSetFail ELSE kSetSuccess]
         [] r.slot \in held /\ r.op = "get" ->
              IF t[key] # 0 THEN [size |-> SizeValue, body |-> t[key]]
              ELSE [size |-> SizeResult, body |-> kGetFail]

\* drain_batch: do the operations of batch b and answer all its requests
drain_batch(s, b) ==
    LET slots == {b[n].slot : n \in DOMAIN b}
        of(w) == CHOOSE n \in DOMAIN b : b[n].slot = w
    IN /\ table' = [table EXCEPT ![s] = after_ops(table[s], b)]
       /\ resp' = [w \in Window |->
                      IF w \in slots
                        THEN response(after_ops(table[s], SubSeq(b, 1, of(w))), b[of(w)])
                        ELSE resp[w]]
       /\ req' = [w \in Window |-> IF w \in slots THEN [req[w] EXCEPT !.st = "answered"]
                                   ELSE req[w]]
       /\ batch' = [batch EXCEPT ![s] = <<>>]
       /\ held' = held \ slots

\* The transport may reuse what it delivered once the handler has returned
release(slots) == IF kZeroCopyRX THEN slots ELSE {}

(* Mutant: the batch is not reset when it was full *)
kv_req_handler_NoReset(s, w) ==
    /\ req[w].st = "sent" /\ req[w].server = s /\ req[w].op \in Ops
    /\ LET b == Append(batch[s], [slot |-> w, op |-> req[w].op])
       IN /\ batch' = [batch EXCEPT ![s] = b]
          /\ req' = [req EXCEPT ![w].st = "queued"]
          /\ held' = held \ release({w})
          /\ UNCHANGED <<table, resp>>
    /\ new_reqs' = [new_reqs EXCEPT ![s] = TRUE]
    /\ UNCHANGED <<kZeroCopyRX, rejects, max_key, client>>

\* kv_req_handler: a pointer to the request joins the batch
kv_req_handler(s, w) ==
    /\ req[w].st = "sent" /\ req[w].server = s /\ req[w].op \in Ops
    /\ LET b == Append(batch[s], [slot |-> w, op |-> req[w].op])
       IN IF Len(b) = kAppMaxServerBatch
            THEN /\ drain_batch(s, b)
            ELSE /\ batch' = [batch EXCEPT ![s] = b]
                 /\ req' = [req EXCEPT ![w].st = "queued"]
                 /\ held' = held \ release({w})
                 /\ UNCHANGED <<table, resp>>
    /\ new_reqs' = [new_reqs EXCEPT ![s] = TRUE]
    /\ UNCHANGED <<kZeroCopyRX, rejects, max_key, client>>

max_key_req_handler(s, w) ==
    /\ req[w].st = "sent" /\ req[w].server = s /\ req[w].op = "max_key"
    /\ resp' = [resp EXCEPT ![w] = [size |-> SizeResult, body |-> max_key[s]]]
    /\ req' = [req EXCEPT ![w].st = "answered"]
    /\ held' = held \ {w}
    /\ UNCHANGED <<server, batch, new_reqs, client>>

(* Mutant: a batch is drained only when it is full *)
event_loop_once_NoIdle(s) ==
    /\ new_reqs' = [new_reqs EXCEPT ![s] = FALSE]
    /\ UNCHANGED <<server, batch, held, client, req, resp>>

\* server_func: the end of an event loop iteration, which drains when it
\* brought no request
event_loop_once(s) ==
    /\ IF ~new_reqs[s] /\ batch[s] # <<>>
         THEN drain_batch(s, batch[s])
         ELSE UNCHANGED <<table, resp, req, batch, held>>
    /\ new_reqs' = [new_reqs EXCEPT ![s] = FALSE]
    /\ UNCHANGED <<kZeroCopyRX, rejects, max_key, client>>

----------------------------------------------------------------------------
(* Client *)

\* fastrange64(rand, n): any number below n, and 0 when n is 0
fastrange64(n) == IF n = 0 THEN {0} ELSE 0 .. n - 1

\* kv_send_req: an operation of the workload on a key below the largest one, to
\* any server
kv_reqs(n) == [st : {"sent"}, server : Servers, op : Ops, key : {1 + x : x \in fastrange64(n - 1)}]

create_session(s) ==
    /\ phase = "connect" /\ s \notin sm_resps
    /\ sm_resps' = sm_resps \union {s}
    /\ UNCHANGED <<server, batch, new_reqs, held, phase, client_max, req, resp>>

\* The client waits for all its sessions, then sends through window slot 1
max_key_send_req ==
    /\ phase = "connect" /\ sm_resps = Servers
    /\ phase' = "max_key"
    /\ \E s \in Servers :
          req' = [req EXCEPT ![1] = [st |-> "sent", server |-> s, op |-> "max_key", key |-> 0]]
    /\ held' = held \union {1}
    /\ UNCHANGED <<server, batch, new_reqs, sm_resps, client_max, resp>>

max_key_cont_func ==
    /\ phase = "max_key" /\ req[1].st = "answered"
    /\ client_max' = resp[1].body
    /\ phase' = "run"
    /\ req' \in [Window -> kv_reqs(client_max')]
    /\ held' = Window
    /\ UNCHANGED <<server, batch, new_reqs, sm_resps, resp>>

kv_cont_func(w) ==
    /\ phase = "run" /\ req[w].st = "answered"
    /\ \E r \in kv_reqs(client_max) : req' = [req EXCEPT ![w] = r]
    /\ held' = held \union {w}
    /\ UNCHANGED <<server, batch, new_reqs, client, resp>>

----------------------------------------------------------------------------
Init ==
    /\ kZeroCopyRX \in BOOLEAN
    /\ rejects \in SUBSET (Keys \ {1, 2})
    /\ table = [s \in Servers |-> populate(rejects).table]
    /\ max_key = [s \in Servers |-> populate(rejects).max_key]
    /\ batch = [s \in Servers |-> <<>>]
    /\ new_reqs = [s \in Servers |-> FALSE]
    /\ held = {}
    /\ phase = "connect" /\ sm_resps = {} /\ client_max = 0
    /\ req = [w \in Window |-> [st |-> "idle", server |-> CHOOSE s \in Servers : TRUE,
                                op |-> "get", key |-> 0]]
    /\ resp = [w \in Window |-> NoResp]

Handler(w) == \E s \in Servers : kv_req_handler(s, w) \/ max_key_req_handler(s, w)

Next ==
    \/ \E w \in Window : Handler(w)
    \/ \E s \in Servers : event_loop_once(s) \/ create_session(s)
    \/ max_key_send_req \/ max_key_cont_func
    \/ \E w \in Window : kv_cont_func(w)

Spec == Init /\ [][Next]_vars

----------------------------------------------------------------------------
(* Properties *)

\* What kv_cont_func asserts of an answer: a SET is answered with a result, a
\* GET with a value equal to its key; and since populate vouched for every key
\* the client draws, no operation fails.  The exception: where the library is built with
\* zero-copy RX, as tweakme.h:38 has it, a handler may read its request only while it
\* runs.  A request that waits in a batch is read later, when nothing is known of its
\* answer, nor after a SET of that kind of what the partition holds.
AnswersRight ==
    \A w \in Window : (req[w].st = "answered" /\ phase = "run") =>
        \/ resp[w] = IF req[w].op = "set" THEN [size |-> SizeResult, body |-> kSetSuccess]
                     ELSE [size |-> SizeValue, body |-> req[w].key]
        \/ kZeroCopyRX /\ kAppMaxServerBatch > 1 /\ resp[w].body = Unknown

\* A request whose handler ran is in exactly one batch, once, until it is
\* answered, and a batch never outgrows its arrays (drain_batch must reset
\* num_reqs_in_batch, or a handle would be answered twice).
BatchesSound ==
    /\ \A s \in Servers : Len(batch[s]) < kAppMaxServerBatch
    /\ \A w \in Window :
          Cardinality({x \in Servers \X (1 .. kAppMaxServerBatch) :
                          x[2] <= Len(batch[x[1]]) /\ batch[x[1]][x[2]].slot = w})
            = IF req[w].st = "queued" THEN 1 ELSE 0
=============================================================================
