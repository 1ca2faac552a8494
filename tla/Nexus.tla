------------------------------- MODULE Nexus -------------------------------
(***************************************************************************)
(* The Nexus of a process (nexus.h, nexus_impl/): it launches background   *)
(* threads, which take eRPC thread IDs; the application registers request  *)
(* handlers; threads construct Rpc objects, which copy the handler table   *)
(* and register a hook; and the session management thread passes packets   *)
(* to the hooks.                                                           *)
(*                                                                         *)
(* Each Rpc object has a thread and a unique ID of its own, as the API     *)
(* demands.  A step is what a thread does between two accesses that others *)
(* can observe.                                                            *)
(***************************************************************************)
EXTENDS Integers, FiniteSets

CONSTANTS NumBg,     \* num_bg_threads
          Rpc,       \* Rpc objects
          ReqType,   \* request types that the application registers
          MaxSmPkts, \* bound on the packets the session management thread receives
          NoRpc      \* not an Rpc: nullptr

Bg == 0..NumBg - 1

Thread == Bg \cup Rpc

NoId == -1

NexusAssumption ==
  NumBg \in Nat /\ MaxSmPkts \in Nat /\ NoRpc \notin Rpc /\ Rpc \cap Bg = {}

VARIABLES
  launched,   \* background threads launched by the constructor
  cur_etid,   \* tls_registry_.cur_etid_
  etid,       \* etid[t]: the eRPC thread ID of thread t
  allowed,    \* req_func_registration_allowed_
  funcs,      \* req_func_arr_: the registered request types
  obj,        \* obj[r]: the state of the Rpc object r
  table,      \* table[r]: the copy of req_func_arr_ of r
  hooks,      \* hooks[r]: whether reg_hooks_arr_ holds the hook of r
  lock,       \* reg_hooks_lock_: who holds it, or NoRpc
  target,     \* the hook that the session management thread uses
  sm_rx,      \* sm_rx[r]: packets passed to r
  pkts,       \* packets received so far
  refused,    \* packets for an Rpc that has no hook
  kill        \* kill_switch_

vars == <<launched, cur_etid, etid, allowed, funcs, obj, table, hooks, lock, target,
          sm_rx, pkts, refused, kill>>

threadVars == <<launched, cur_etid, etid>>

smVars == <<target, sm_rx, pkts, refused>>

Init ==
  /\ launched = 0
  /\ cur_etid = 0
  /\ etid = [t \in Thread |-> NoId]
  /\ allowed = TRUE
  /\ funcs = {}
  /\ obj = [r \in Rpc |-> "none"]
  /\ table = [r \in Rpc |-> {}]
  /\ hooks = [r \in Rpc |-> FALSE]
  /\ lock = NoRpc
  /\ target = NoRpc
  /\ sm_rx = [r \in Rpc |-> 0]
  /\ pkts = 0
  /\ refused = 0
  /\ kill = FALSE

-----------------------------------------------------------------------------
(* The constructor of the Nexus.                                           *)

\* The next background thread is launched when the last one has its ID.
LaunchBg ==
  /\ launched < NumBg
  /\ cur_etid = launched
  /\ launched' = launched + 1
  /\ UNCHANGED <<cur_etid, etid, allowed, funcs, obj, table, hooks, lock, kill>>
  /\ UNCHANGED smVars

Constructed == launched = NumBg /\ cur_etid >= NumBg

tls_registry_init(t) ==
  /\ etid[t] = NoId
  /\ etid' = [etid EXCEPT ![t] = cur_etid]
  /\ cur_etid' = cur_etid + 1

\* A background thread starts.
bg_thread_init(i) ==
  /\ i < launched
  /\ tls_registry_init(i)
  /\ UNCHANGED <<launched, allowed, funcs, obj, table, hooks, lock, kill>>
  /\ UNCHANGED smVars

-----------------------------------------------------------------------------
(* The application.                                                        *)

register_req_func(type) ==
  /\ Constructed
  /\ allowed
  /\ type \notin funcs
  /\ funcs' = funcs \cup {type}
  /\ UNCHANGED <<allowed, obj, table, hooks, lock, kill>>
  /\ UNCHANGED threadVars
  /\ UNCHANGED smVars

\* Rpc::Rpc, its initializers.
rpc_construct(r) ==
  /\ Constructed
  /\ ~kill
  /\ obj[r] = "none"
  /\ obj' = [obj EXCEPT ![r] = "copied"]
  /\ table' = [table EXCEPT ![r] = funcs]
  /\ UNCHANGED <<allowed, funcs, hooks, lock, kill>>
  /\ UNCHANGED threadVars
  /\ UNCHANGED smVars

\* Rpc::Rpc: its ID is not taken, and its thread gets a thread ID.
rpc_init(r) ==
  /\ obj[r] = "copied"
  /\ lock = NoRpc
  /\ ~hooks[r]
  /\ obj' = [obj EXCEPT ![r] = "init"]
  /\ tls_registry_init(r)
  /\ UNCHANGED <<launched, allowed, funcs, table, hooks, lock, kill>>
  /\ UNCHANGED smVars

register_hook(r) ==
  /\ obj[r] = "init"
  /\ lock = NoRpc
  /\ allowed' = FALSE
  /\ hooks' = [hooks EXCEPT ![r] = TRUE]
  /\ obj' = [obj EXCEPT ![r] = "live"]
  /\ UNCHANGED <<funcs, table, lock, kill>>
  /\ UNCHANGED threadVars
  /\ UNCHANGED smVars

\* Rpc::~Rpc begins: sessions, allocator and transport are deleted.
rpc_destroy(r) ==
  /\ obj[r] = "live"
  /\ obj' = [obj EXCEPT ![r] = "closing"]
  /\ UNCHANGED <<allowed, funcs, table, hooks, lock, kill>>
  /\ UNCHANGED threadVars
  /\ UNCHANGED smVars

\* Mutation: the hook is removed without taking the lock.
unregister_hook_NoLock(r) ==
  /\ obj[r] = "closing"
  /\ hooks' = [hooks EXCEPT ![r] = FALSE]
  /\ obj' = [obj EXCEPT ![r] = "dead"]
  /\ UNCHANGED <<allowed, funcs, table, lock, kill>>
  /\ UNCHANGED threadVars
  /\ UNCHANGED smVars

\* Rpc::~Rpc ends; the hook, a member of the Rpc, is gone.
unregister_hook(r) ==
  /\ obj[r] = "closing"
  /\ lock = NoRpc
  /\ hooks' = [hooks EXCEPT ![r] = FALSE]
  /\ obj' = [obj EXCEPT ![r] = "dead"]
  /\ UNCHANGED <<allowed, funcs, table, lock, kill>>
  /\ UNCHANGED threadVars
  /\ UNCHANGED smVars

\* Nexus::~Nexus, when no Rpc depends on the Nexus.
DestroyNexus ==
  /\ Constructed
  /\ ~kill
  /\ \A r \in Rpc : obj[r] \in {"none", "dead"}
  /\ kill' = TRUE
  /\ UNCHANGED <<allowed, funcs, obj, table, hooks, lock>>
  /\ UNCHANGED threadVars
  /\ UNCHANGED smVars

-----------------------------------------------------------------------------
(* The session management thread.                                          *)

\* A packet for r, and r has a hook.
sm_thread_lookup(r) ==
  /\ Constructed
  /\ ~kill
  /\ pkts < MaxSmPkts
  /\ lock = NoRpc
  /\ hooks[r]
  /\ lock' = r
  /\ target' = r
  /\ pkts' = pkts + 1
  /\ UNCHANGED <<sm_rx, refused, allowed, funcs, obj, table, hooks, kill>>
  /\ UNCHANGED threadVars

sm_thread_push ==
  /\ target # NoRpc
  /\ sm_rx' = [sm_rx EXCEPT ![target] = @ + 1]
  /\ lock' = NoRpc
  /\ target' = NoRpc
  /\ UNCHANGED <<pkts, refused, allowed, funcs, obj, table, hooks, kill>>
  /\ UNCHANGED threadVars

\* A packet for r, which has no hook: an error response, or nothing.
sm_thread_refuse(r) ==
  /\ Constructed
  /\ ~kill
  /\ pkts < MaxSmPkts
  /\ lock = NoRpc
  /\ ~hooks[r]
  /\ pkts' = pkts + 1
  /\ refused' = refused + 1
  /\ UNCHANGED <<sm_rx, target, allowed, funcs, obj, table, hooks, lock, kill>>
  /\ UNCHANGED threadVars

Next ==
  \/ LaunchBg
  \/ \E i \in Bg : bg_thread_init(i)
  \/ \E type \in ReqType : register_req_func(type)
  \/ \E r \in Rpc : rpc_construct(r)
  \/ \E r \in Rpc : rpc_init(r)
  \/ \E r \in Rpc : register_hook(r)
  \/ \E r \in Rpc : rpc_destroy(r)
  \/ \E r \in Rpc : unregister_hook(r)
  \/ DestroyNexus
  \/ \E r \in Rpc : sm_thread_lookup(r)
  \/ sm_thread_push
  \/ \E r \in Rpc : sm_thread_refuse(r)

Spec == Init /\ [][Next]_vars

-----------------------------------------------------------------------------
(* Properties.                                                             *)

\* Thread IDs are unique, and the ID of a background thread is its index, which
\* is how queues of work items are found (bg_req_queue_arr_[bg_etid]).
EtidIsIndex ==
  /\ \A i \in Bg : etid[i] \in {NoId, i}
  /\ \A t, u \in Thread : etid[t] = etid[u] /\ etid[t] # NoId => t = u

\* The session management thread never uses the hook of an Rpc that is gone.
HookIsAlive ==
  /\ target # NoRpc => obj[target] \in {"live", "closing"}
  /\ \A r \in Rpc : hooks[r] => obj[r] \in {"live", "closing"}

-----------------------------------------------------------------------------
(* The inductive invariant.                                                *)

NexusTypes ==
  /\ launched \in 0..NumBg /\ cur_etid \in Nat
  /\ etid \in [Thread -> Nat \cup {NoId}]
  /\ obj \in [Rpc -> {"none", "copied", "init", "live", "closing", "dead"}]
  /\ hooks \in [Rpc -> BOOLEAN]
  /\ target \in Rpc \cup {NoRpc}

\* The background threads take the first IDs, in their order, because the constructor
\* launches each when the one before it has its ID and no Rpc exists meanwhile.
EtidInv ==
  /\ launched <= cur_etid + 1
  /\ cur_etid > launched => launched = NumBg
  /\ \A i \in Bg : etid[i] = IF i < cur_etid THEN i ELSE NoId
  /\ \A r \in Rpc : /\ obj[r] # "none" => Constructed
                    /\ obj[r] \in {"none", "copied"} => etid[r] = NoId
                    /\ etid[r] # NoId => NumBg <= etid[r] /\ etid[r] < cur_etid
  /\ \A r, q \in Rpc : etid[r] = etid[q] /\ etid[r] # NoId => r = q

\* The session management thread holds the lock while it has a hook, and a hook is
\* registered as long as its Rpc lives.
HookInv ==
  /\ lock = target
  /\ \A r \in Rpc : hooks[r] <=> obj[r] \in {"live", "closing"}
  /\ target # NoRpc => hooks[target]

NexusInv == NexusTypes /\ EtidInv /\ HookInv

=============================================================================
