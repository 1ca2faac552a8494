----------------------------- MODULE MasstreeApp -----------------------------
(***************************************************************************)
(* apps/masstree_analytics: a server fills a Masstree index from several   *)
(* threads and then answers point queries in its foreground threads and    *)
(* range queries in background threads, all on the one index.  Masstree    *)
(* wants a threadinfo of its own for every thread at work; the server      *)
(* finds it with the eRPC thread ID.  Masstree itself is external: a map   *)
(* from keys to values.                                                    *)
(***************************************************************************)
EXTENDS Integers, FiniteSets, FiniteSetsExt

CONSTANTS Fg, Bg,          \* server foreground and background threads
          Populate,        \* FLAGS_num_population_threads
          Cores,           \* size of ti_arr
          NumKeys,
          RangeSize,           \* FLAGS_range_size
          Clients, Window

MasstreeAppAssumption ==
    /\ {Fg, Populate, Cores, NumKeys, RangeSize, Clients, Window} \subseteq Nat \ {0}
    /\ Bg \in Nat
    /\ Populate <= Cores /\ Fg + Bg <= Cores

Keys == 0 .. NumKeys - 1
Slots == (1 .. Clients) \X (1 .. Window)
FgThreads == {<<"fg", i>> : i \in 0 .. Fg - 1}
BgThreads == {<<"bg", i>> : i \in 0 .. Bg - 1}

VARIABLES
    pos,            \* population thread -> position in the key order
    table,          \* the index: key -> value, 0 if absent
    etid,           \* server thread -> eRPC thread ID, -1 before it registers
    slot,           \* client slot -> its request or response
    working,        \* server thread -> slot whose handler it is in, or none
    asserts         \* the types whose handler found its assertion false

vars == <<pos, table, etid, slot, working, asserts>>

none == <<0, 0>>
idle == [state |-> "idle", type |-> "point", key |-> 0, value |-> 0]

----------------------------------------------------------------------------
(* Population *)

get_value32_for_seed(seed) == seed + 1

\* Is position i of the key order this thread's job?
mine(t, i) == i % Populate = t

Init ==
    /\ pos = [t \in 0 .. Populate - 1 |-> 0]
    /\ table = [k \in Keys |-> 0]
    /\ etid = [t \in FgThreads \union BgThreads |-> -1]
    /\ slot = [s \in Slots |-> idle]
    /\ working = [t \in FgThreads \union BgThreads |-> none]
    /\ asserts = {}

\* One round of the loop.  The shuffle of the keys only permutes them: the
\* order here is the identity.
masstree_populate_func(t) ==
    /\ pos[t] < NumKeys
    /\ pos' = [pos EXCEPT ![t] = @ + 1]
    /\ table' = IF mine(t, pos[t]) THEN [table EXCEPT ![pos[t]] = get_value32_for_seed(pos[t])]
                ELSE table
    /\ UNCHANGED <<etid, slot, working, asserts>>

populated == \A t \in 0 .. Populate - 1 : pos[t] = NumKeys

----------------------------------------------------------------------------
(* Threads register: the Nexus waits for its background threads *)

registered == {t \in DOMAIN etid : etid[t] >= 0}

register(t) ==
    /\ populated /\ etid[t] = -1
    /\ t \in FgThreads => BgThreads \subseteq registered
    /\ etid' = [etid EXCEPT ![t] = Cardinality(registered)]
    /\ UNCHANGED <<pos, table, slot, working, asserts>>
\* The threadinfo a handler uses is ti_arr[etid]
ti(t) == etid[t]

----------------------------------------------------------------------------
(* Client *)

\* A client has one session, to a foreground thread
server_tid(s) == s[1] % Fg

send_req(s) ==
    /\ slot[s].state = "idle"
    /\ etid[<<"fg", server_tid(s)>>] >= 0
    /\ \E k \in Keys, type \in {"point", "range"} :
          slot' = [slot EXCEPT ![s] = [state |-> "sent", type |-> type, key |-> k, value |-> 0]]
    /\ UNCHANGED <<pos, table, etid, working, asserts>>

\* The continuation checks the value of a point query and sends the next
app_cont_func(s) ==
    /\ slot[s].state = "answered"
    /\ slot' = [slot EXCEPT ![s] = idle]
    /\ UNCHANGED <<pos, table, etid, working, asserts>>

----------------------------------------------------------------------------
(* Server: a handler is entered and left, others run in between *)

\* Range requests go to any background thread, if there are some
handled_by(s) ==
    IF slot[s].type = "range" /\ Bg > 0 THEN BgThreads ELSE {<<"fg", server_tid(s)>>}

\* The assertions at the start of the handlers
in_place(t, type) ==
    IF type = "range" THEN etid[t] < Bg ELSE etid[t] >= Bg /\ etid[t] < Bg + Fg

enter_handler(s, t) ==
    /\ slot[s].state = "sent" /\ t \in handled_by(s) /\ working[t] = none
    /\ slot' = [slot EXCEPT ![s].state = "handled"]
    /\ working' = [working EXCEPT ![t] = s]
    /\ asserts' = IF in_place(t, slot[s].type) THEN asserts ELSE asserts \union {slot[s].type}
    /\ UNCHANGED <<pos, table, etid>>

point_req_handler(s, t) ==
    /\ working[t] = s /\ slot[s].type = "point"
    /\ slot' = [slot EXCEPT ![s].state = "answered", ![s].value = table[slot[s].key]]
    /\ working' = [working EXCEPT ![t] = none]
    /\ UNCHANGED <<pos, table, etid, asserts>>

\* The sum of the values of RangeSize keys from the given one on
sum_from(k) == MapThenSumSet(LAMBDA j : table[j], {j \in Keys : j >= k /\ j < k + RangeSize})

\* sum_in_range takes the bytes of the pointer to the key for the key: the scan
\* may start anywhere
range_req_handler(s, t) ==
    /\ working[t] = s /\ slot[s].type = "range"
    /\ \E start \in Keys \union {NumKeys} :
          slot' = [slot EXCEPT ![s].state = "answered", ![s].value = sum_from(start)]
    /\ working' = [working EXCEPT ![t] = none]
    /\ UNCHANGED <<pos, table, etid, asserts>>

Next ==
    \/ \E t \in 0 .. Populate - 1 : masstree_populate_func(t)
    \/ \E t \in FgThreads \union BgThreads : register(t)
    \/ \E s \in Slots :
          \/ send_req(s) \/ app_cont_func(s)
          \/ \E t \in FgThreads \union BgThreads :
                enter_handler(s, t) \/ point_req_handler(s, t) \/ range_req_handler(s, t)

Spec == Init /\ [][Next]_vars

----------------------------------------------------------------------------
(* Properties *)

\* Masstree's rule: no two threads at work use the same threadinfo, and the
\* array has one for every thread (ti_arr[etid] in the handlers).
OwnThreadinfo ==
    /\ \A t, u \in {x \in DOMAIN working : working[x] # none} : t # u => ti(t) # ti(u)
    /\ \A t \in registered : ti(t) < Cores

\* A point query finds the value for its key: the threads that fill the index
\* together insert every key (the check in app_cont_func).
ValueMatches ==
    \A s \in Slots : slot[s].state = "answered" /\ slot[s].type = "point" =>
        slot[s].value = get_value32_for_seed(slot[s].key)

\* The handlers run where their assertions say: point queries in foreground
\* threads and range queries in background threads.  The exception: without background
\* threads, of which main only warns (masstree_analytics.cc:349), range queries run in
\* the foreground and the assertion of range_req_handler (:73) is false of every one.
HandlersInPlace == asserts \subseteq (IF Bg = 0 THEN {"range"} ELSE {})

=============================================================================
