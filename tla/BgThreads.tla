----------------------------- MODULE BgThreads -----------------------------
(***************************************************************************)
(* Background threads (nexus_bg_thread.cc) and the dispatch thread of an   *)
(* Rpc (rpc_rx.cc, rpc_req.cc, rpc_resp.cc, rpc_queues.cc), which exchange *)
(* work through MtQueues (util/mt_queue.h).                                *)
(*                                                                         *)
(* Every request has a background handler, which answers it or first       *)
(* issues a request of its own, whose continuation then answers.  A push   *)
(* or a pop is two steps, because size_ is read without the lock.          *)
(***************************************************************************)
EXTENDS Integers, Sequences

CONSTANTS NumBg,    \* background threads
          Request,  \* requests that clients send to the Rpc
          D,        \* the dispatch thread
          ReqQ,     \* bg_queues_.enqueue_request_
          RespQ,    \* bg_queues_.enqueue_response_
          Free      \* an MtQueue's lock that nobody holds

Bg == 0..NumBg - 1

Thread == Bg \cup {D}

BgAssumption ==
  /\ NumBg \in Nat /\ D \notin Bg /\ ReqQ \notin Bg /\ RespQ \notin Bg /\ ReqQ # RespQ
  /\ Free \notin Thread

\* A queue of work items per background thread, and the two of the Rpc.
Queue == Bg \cup {ReqQ, RespQ}

VARIABLES
  queue,    \* queue[q]: its items
  size,     \* size[q]: size_
  lock,     \* lock[q]: who holds lock_
  pc,       \* pc[t]: where thread t is
  left,     \* cmds_to_process: pops left in the dispatch thread's current batch
  where,    \* where[r]: what has become of request r
  issuer,   \* issuer[r]: the thread whose handler issued r's own request, and cont_etid_
  ran,      \* ran[r]: the thread that ran the continuation of r's own request
  kill      \* kill_switch_

vars == <<queue, size, lock, pc, left, where, issuer, ran, kill>>

Item(kind, r) == [kind |-> kind, r |-> r]

Loop == [at |-> "loop"]

Init ==
  /\ queue = [q \in Queue |-> <<>>]
  /\ size = [q \in Queue |-> 0]
  /\ lock = [q \in Queue |-> Free]
  /\ pc = [t \in Thread |-> Loop]
  /\ left = 0
  /\ where = [r \in Request |-> "client"]
  /\ issuer = [r \in Request |-> D]
  /\ ran = [r \in Request |-> D]
  /\ kill = FALSE

-----------------------------------------------------------------------------
(* MtQueue.                                                                *)

\* Thread t takes the lock and pushes; it then continues at next.
unlocked_push(t, q, item, next) ==
  /\ lock[q] = Free
  /\ queue' = [queue EXCEPT ![q] = Append(@, item)]
  /\ lock' = [lock EXCEPT ![q] = t]
  /\ pc' = [pc EXCEPT ![t] = [at |-> "pushed", q |-> q, next |-> next]]

\* Mutation: the size is not counted.
PushDone_NoCount(t) ==
  /\ pc[t].at = "pushed"
  /\ lock' = [lock EXCEPT ![pc[t].q] = Free]
  /\ pc' = [pc EXCEPT ![t] = pc[t].next]
  /\ UNCHANGED <<queue, size, left, where, issuer, ran, kill>>

PushDone(t) ==
  /\ pc[t].at = "pushed"
  /\ size' = [size EXCEPT ![pc[t].q] = @ + 1]
  /\ lock' = [lock EXCEPT ![pc[t].q] = Free]
  /\ pc' = [pc EXCEPT ![t] = pc[t].next]
  /\ UNCHANGED <<queue, left, where, issuer, ran, kill>>

\* Thread t takes the lock, and the front of the queue.
unlocked_pop(t) ==
  /\ pc[t].at = "pop"
  /\ lock[pc[t].q] = Free
  /\ queue[pc[t].q] # <<>>
  /\ queue' = [queue EXCEPT ![pc[t].q] = Tail(@)]
  /\ lock' = [lock EXCEPT ![pc[t].q] = t]
  /\ pc' = [pc EXCEPT ![t] = [at |-> "popped", q |-> pc[t].q, item |-> Head(queue[pc[t].q])]]
  /\ UNCHANGED <<size, left, where, issuer, ran, kill>>

PopDone(t) ==
  /\ pc[t].at = "popped"
  /\ size' = [size EXCEPT ![pc[t].q] = @ - 1]
  /\ lock' = [lock EXCEPT ![pc[t].q] = Free]
  /\ pc' = [pc EXCEPT ![t] = [at |-> "run", item |-> pc[t].item]]
  /\ UNCHANGED <<queue, left, where, issuer, ran, kill>>

-----------------------------------------------------------------------------
(* Background threads.                                                     *)

\* bg_thread_func looks at the size of its queue.
bg_thread_poll(t) ==
  /\ pc[t].at \in {"loop", "inner"}
  /\ pc[t].at = "loop" => ~kill
  /\ size[t] > 0
  /\ pc' = [pc EXCEPT ![t] = [at |-> "pop", q |-> t]]
  /\ UNCHANGED <<queue, size, lock, left, where, issuer, ran, kill>>

\* The inner loop ends, and the kill switch is looked at again.
bg_thread_idle(t) ==
  /\ pc[t].at = "inner"
  /\ size[t] = 0
  /\ pc' = [pc EXCEPT ![t] = Loop]
  /\ UNCHANGED <<queue, size, lock, left, where, issuer, ran, kill>>

bg_thread_exit(t) ==
  /\ pc[t].at = "loop"
  /\ kill
  /\ pc' = [pc EXCEPT ![t] = [at |-> "exited"]]
  /\ UNCHANGED <<queue, size, lock, left, where, issuer, ran, kill>>

\* A handler or a continuation answers: enqueue_response, not in the dispatch
\* thread.
bg_respond(t) ==
  LET item == pc[t].item
  IN  /\ pc[t].at = "run"
      /\ unlocked_push(t, RespQ, Item("resp", item.r), [at |-> "inner"])
      /\ ran' = IF item.kind = "cont" THEN [ran EXCEPT ![item.r] = t] ELSE ran
      /\ UNCHANGED <<size, left, where, issuer, kill>>

\* A handler issues a request: enqueue_request, not in the dispatch thread.
bg_request(t) ==
  LET item == pc[t].item
  IN  /\ pc[t].at = "run"
      /\ item.kind = "req"
      /\ unlocked_push(t, ReqQ, [kind |-> "req", r |-> item.r, etid |-> t],
                       [at |-> "inner"])
      /\ where' = [where EXCEPT ![item.r] = "nested"]
      /\ issuer' = [issuer EXCEPT ![item.r] = t]
      /\ UNCHANGED <<size, left, ran, kill>>

-----------------------------------------------------------------------------
(* The dispatch thread.  Its loop receives packets, then empties the two   *)
(* queues of the Rpc, as many items of each as it saw at the start.        *)

\* A request arrives and goes to a random background thread.
submit_bg_req_st(r, i) ==
  /\ pc[D] = Loop
  /\ where[r] = "client"
  /\ unlocked_push(D, i, Item("req", r), Loop)
  /\ where' = [where EXCEPT ![r] = "server"]
  /\ UNCHANGED <<size, left, issuer, ran, kill>>

ContThread(r) == issuer[r]

\* The response to a handler's own request arrives.
submit_bg_resp_st(r) ==
  /\ pc[D] = Loop
  /\ where[r] = "sent"
  /\ unlocked_push(D, ContThread(r), Item("cont", r), Loop)
  /\ where' = [where EXCEPT ![r] = "server"]
  /\ UNCHANGED <<size, left, issuer, ran, kill>>

\* A background queue is looked at: the requests first, then the responses.
process_bg_queues(q) ==
  /\ \/ q = ReqQ /\ pc[D] = Loop
     \/ q = RespQ /\ pc[D].at = "responses"
  /\ left' = size[q]
  /\ pc' = [pc EXCEPT ![D] =
             IF size[q] > 0 THEN [at |-> "pop", q |-> q]
             ELSE IF q = ReqQ THEN [at |-> "responses"] ELSE Loop]
  /\ UNCHANGED <<queue, size, lock, where, issuer, ran, kill>>

\* Where the dispatch thread goes when it has processed an element of q.
NextPop(q) ==
  IF left > 1 THEN [at |-> "pop", q |-> q]
  ELSE IF q = ReqQ THEN [at |-> "responses"] ELSE Loop

\* enqueue_request and enqueue_response in the dispatch thread: packets are sent.
dispatch_run ==
  LET item == pc[D].item
      isReq == item.kind = "req"
  IN  /\ pc[D].at = "run"
      /\ where' = [where EXCEPT ![item.r] = IF isReq THEN "sent" ELSE "answered"]
      /\ left' = left - 1
      /\ pc' = [pc EXCEPT ![D] = NextPop(IF isReq THEN ReqQ ELSE RespQ)]
      /\ UNCHANGED <<queue, size, lock, issuer, ran, kill>>

\* The Rpc is destroyed when its requests are answered, and then the Nexus.
Kill ==
  /\ pc[D] = Loop
  /\ ~kill
  /\ \A r \in Request : where[r] = "answered"
  /\ kill' = TRUE
  /\ UNCHANGED <<queue, size, lock, pc, left, where, issuer, ran>>

Finished ==
  /\ \A t \in Bg : pc[t].at = "exited"
  /\ UNCHANGED vars

Next ==
  \/ \E t \in Thread : PushDone(t)
  \/ \E t \in Thread : unlocked_pop(t)
  \/ \E t \in Thread : PopDone(t)
  \/ \E t \in Bg : bg_thread_poll(t)
  \/ \E t \in Bg : bg_thread_idle(t)
  \/ \E t \in Bg : bg_thread_exit(t)
  \/ \E t \in Bg : bg_respond(t)
  \/ \E t \in Bg : bg_request(t)
  \/ \E r \in Request, i \in Bg : submit_bg_req_st(r, i)
  \/ \E r \in Request : submit_bg_resp_st(r)
  \/ \E q \in {ReqQ, RespQ} : process_bg_queues(q)
  \/ dispatch_run
  \/ Kill
  \/ Finished

Spec == Init /\ [][Next]_vars

\* A step of thread t in a queue or in its own loop.
BgStep(t) ==
  \/ PushDone(t) \/ unlocked_pop(t) \/ PopDone(t)
  \/ bg_thread_poll(t) \/ bg_thread_idle(t) \/ bg_thread_exit(t)
  \/ bg_respond(t) \/ bg_request(t)

DispatchStep ==
  \/ PushDone(D) \/ unlocked_pop(D) \/ PopDone(D) \/ dispatch_run
  \/ \E q \in {ReqQ, RespQ} : process_bg_queues(q)

-----------------------------------------------------------------------------
(* Properties.                                                             *)

\* The size that a consumer reads without the lock never promises more elements
\* than it finds when it takes the lock.
NeverPopsEmpty ==
  \A t \in Thread : pc[t].at = "pop" =>
    Len(queue[pc[t].q]) >= IF t = D THEN left ELSE 1

\* Where request r is: the queues that hold an item of it, the threads at work on it.
QueuedAt(q, r) == {<<q, i>> : i \in {k \in DOMAIN queue[q] : queue[q][k].r = r}}
InHands(r) == {t \in Thread : pc[t].at \in {"popped", "run"} /\ pc[t].item.r = r}
Places(r) == (UNION {QueuedAt(q, r) : q \in Queue}) \cup {<<t, 0>> : t \in InHands(r)}

\* A request being served is in exactly one queue or one thread's hands: no thread
\* loses it or serves it a second time.
ServedOnce ==
  \A r \in Request : IF where[r] \in {"server", "nested"}
                     THEN \E p \in Places(r) : Places(r) = {p}
                     ELSE Places(r) = {}

\* A continuation runs in the thread that issued the request, which relies on it
\* to use its thread-local state.
ContinuationAtIssuer ==
  \A r \in Request : ran[r] # D => ran[r] = issuer[r]

\* Every request is answered.
AllAnswered == \A r \in Request : <>(where[r] = "answered")

\* When the Nexus is destroyed, every background thread ends.
AllExit == <>(\A t \in Bg : pc[t].at = "exited")

-----------------------------------------------------------------------------
(* The inductive invariant.                                                *)

\* Work items; enqueue_request adds the thread that issued the request.
Work == [kind : {"req", "cont", "resp"}, r : Request]
        \cup [kind : {"req"}, r : Request, etid : Bg]

InHand(t) == pc[t].at \in {"popped", "run"}

\* The values of the variables; only the dispatch thread goes on to the responses.
BgTypes ==
  /\ queue \in [Queue -> Seq(Work)] /\ size \in [Queue -> Int] /\ left \in Int
  /\ lock \in [Queue -> Thread \cup {Free}] /\ pc = [t \in Thread |-> pc[t]]
  /\ where \in [Request -> {"client", "server", "nested", "sent", "answered"}]
  /\ issuer \in [Request -> Thread] /\ ran \in [Request -> Thread]
  /\ \A t \in Thread :
       /\ pc[t].at \in {"loop", "inner", "exited", "responses", "pushed", "pop", "popped", "run"}
       /\ pc[t].at \in {"pushed", "pop", "popped"} => pc[t].q \in Queue
       /\ pc[t].at = "pushed" => pc[t].next.at \in {"loop", "inner"}
       /\ InHand(t) => pc[t].item \in Work
       /\ pc[t].at = "responses" => t = D

\* The lock of a queue is held by the thread that has pushed or popped and not yet
\* counted it, and only one thread pops from a queue.
Owns(t) == IF t = D THEN {ReqQ, RespQ} ELSE {t}
LockInv ==
  /\ \A t \in Thread : pc[t].at \in {"pushed", "popped"} => lock[pc[t].q] = t
  /\ \A t \in Thread : pc[t].at \in {"pop", "popped"} => pc[t].q \in Owns(t)
  /\ \A q \in Queue : lock[q] # Free =>
       pc[lock[q]].at \in {"pushed", "popped"} /\ pc[lock[q]].q = q
  /\ \A q \in Queue : Len(queue[q]) - size[q] =
       IF lock[q] = Free THEN 0 ELSE IF pc[lock[q]].at = "pushed" THEN 1 ELSE 0 - 1

\* The queue from which the dispatch thread took the item in its hands.
Source(item) == IF item.kind = "req" THEN ReqQ ELSE RespQ

\* What the consumer of a queue has seen in it is still there.
SeenInv ==
  /\ \A t \in Bg : pc[t].at = "pop" => Len(queue[t]) >= 1
  /\ pc[D].at = "pop" => left >= 1 /\ Len(queue[pc[D].q]) >= left
  /\ pc[D].at = "popped" => Len(queue[pc[D].q]) >= left - 1 /\ pc[D].q = Source(pc[D].item)
  /\ pc[D].at = "run" => Len(queue[Source(pc[D].item)]) >= left - 1

\* An item x in queue q, or in the hands of the thread that took it from q.
ItemInv(x, q) ==
  /\ where[x.r] \in {"server", "nested"}
  /\ q = ReqQ => x.kind = "req" /\ issuer[x.r] \in Bg
  /\ q = RespQ => x.kind = "resp"
  /\ q \in Bg => x.kind \in {"req", "cont"} /\ (x.kind = "cont" => q = issuer[x.r])
  /\ x.kind # "resp" => ran[x.r] = D

\* Every item fits its queue or its thread, and a request is answered by its continuation
\* only once its handler's own request has an issuer.
ItemsInv ==
  /\ \A q \in Queue : \A i \in 1 .. Len(queue[q]) : ItemInv(queue[q][i], q)
  /\ \A t \in Thread : InHand(t) =>
       ItemInv(pc[t].item, IF t = D THEN Source(pc[t].item) ELSE t)
  /\ \A r \in Request : /\ where[r] \in {"client", "sent"} => ran[r] = D
                        /\ where[r] = "sent" => issuer[r] \in Bg

\* No request is in two places, and one that is being served is in one.
PlaceInv ==
  /\ \A q, p \in Queue : \A i \in 1 .. Len(queue[q]), j \in 1 .. Len(queue[p]) :
       queue[q][i].r = queue[p][j].r => q = p /\ i = j
  /\ \A t, u \in Thread : InHand(t) /\ InHand(u) /\ pc[t].item.r = pc[u].item.r => t = u
  /\ \A t \in Thread, q \in Queue : InHand(t) =>
       \A i \in 1 .. Len(queue[q]) : queue[q][i].r # pc[t].item.r
  /\ \A r \in Request : where[r] \in {"server", "nested"} =>
       \/ \E q \in Queue : \E i \in 1 .. Len(queue[q]) : queue[q][i].r = r
       \/ \E t \in Thread : InHand(t) /\ pc[t].item.r = r

\* The locks protect the queues, what a consumer saw stays there, and every request
\* being served is in one place.
BgInv ==
  /\ BgTypes /\ LockInv /\ SeenInv /\ ItemsInv /\ PlaceInv
  /\ ContinuationAtIssuer
=============================================================================
