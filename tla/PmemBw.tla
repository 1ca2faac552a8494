------------------------------- MODULE PmemBw -------------------------------
(***************************************************************************)
(* apps/pmem_bw: clients write large requests to a file in persistent      *)
(* memory at a server.  Each server thread owns a share of the file and    *)
(* writes at an offset that wraps; with IOAT the copy is a DMA that        *)
(* completes later, when a server thread compares a byte of the file with  *)
(* the request and answers.  There is one DMA device for all the threads.  *)
(***************************************************************************)
EXTENDS Integers, FiniteSets, Sequences

CONSTANTS Servers,              \* FLAGS_num_proc_0_threads
          Clients,              \* client threads in the cluster
          Concurrency,          \* FLAGS_concurrency, per client thread
          MinReqSize, MaxReqSize,
          FileSize,             \* kAppPmemFileSize
          UseIoat,              \* FLAGS_use_ioat
          MaxReqs               \* bound on the requests of each slot

PmemBwAssumption ==
    /\ {Servers, Clients, Concurrency, MinReqSize, MaxReqSize, FileSize, MaxReqs}
          \subseteq Nat \ {0}
    /\ UseIoat \in BOOLEAN
    /\ MinReqSize <= MaxReqSize
    \* The checks at the start of the application
    /\ FileSize \div MaxReqSize >= 2 * Concurrency
    /\ FileSize >= MaxReqSize * Servers

Slots == (1 .. Clients) \X (1 .. Concurrency)

\* The server thread of a client: clients are dealt out in turn
rem_tid(c) == c % Servers

offset_lo(t) == (FileSize \div Servers) * t
offset_hi(t) == (FileSize \div Servers) * (t + 1)

VARIABLES
    cur_req_size,     \* client -> size of its next requests
    req,              \* slot -> its request: state, size, offset (dma_context_t)
    setup,            \* server thread -> how far it is with the device: "check",
                      \* "configure", "start", then "run"; "dead" with the process
    device,           \* the DMA device: "reset", "configured", "started"
    cur_offset,       \* server thread -> offset
    dmas,             \* sequence of the slots whose copies the device was given
    file,             \* history: offset -> slot whose bytes are there
    mismatch,         \* the check of a completed copy failed
    crowded,          \* history: some thread had copies in flight for more than half its share
    sent              \* slot -> number of requests

vars == <<cur_req_size, req, setup, device, cur_offset, dmas, file, mismatch, crowded, sent>>

none == <<0, 0>>
Threads == 0 .. Servers - 1
idle == [state |-> "idle", size |-> 0, offset |-> 0]

Init ==
    /\ cur_req_size = [c \in 1 .. Clients |-> MinReqSize]
    /\ req = [s \in Slots |-> idle]
    /\ setup = [t \in Threads |-> "check"] /\ device = "reset"
    /\ cur_offset = [t \in Threads |-> offset_lo(t)]
    /\ dmas = <<>>
    /\ file = [o \in 0 .. FileSize - 1 |-> none]
    /\ mismatch = FALSE /\ crowded = FALSE
    /\ sent = [s \in Slots |-> 0]

----------------------------------------------------------------------------
(* Client *)

\* At the start for every slot, then from app_cont_func
send_req(s) ==
    /\ req[s].state \in {"idle", "answered"} /\ sent[s] < MaxReqs
    /\ req' = [req EXCEPT ![s] = [state |-> "sent", size |-> cur_req_size[s[1]], offset |-> 0]]
    /\ sent' = [sent EXCEPT ![s] = @ + 1]
    /\ UNCHANGED <<cur_req_size, setup, device, cur_offset, dmas, file, mismatch, crowded>>

\* Every other second the client doubles its size and starts over at the end
next_size(c) ==
    /\ cur_req_size' = [cur_req_size EXCEPT ![c] =
                          IF 2 * @ > MaxReqSize THEN MinReqSize ELSE 2 * @]
    /\ UNCHANGED <<req, setup, device, cur_offset, dmas, file, mismatch, crowded, sent>>

----------------------------------------------------------------------------
(* Server *)

\* setup_ioat_device, which every server thread calls, IOAT or not: a thread that finds
\* the device configured fails an rt_assert, which ends the process
setup_check(t) ==
    /\ setup[t] = "check"
    /\ setup' = IF device = "reset" THEN [setup EXCEPT ![t] = "configure"]
                ELSE [u \in Threads |-> "dead"]
    /\ UNCHANGED <<cur_req_size, req, device, cur_offset, dmas, file, mismatch, crowded, sent>>

\* rte_rawdev_configure refuses a device that was started
setup_configure(t) ==
    /\ setup[t] = "configure"
    /\ IF device = "started"
         THEN setup' = [u \in Threads |-> "dead"] /\ UNCHANGED device
         ELSE setup' = [setup EXCEPT ![t] = "start"] /\ device' = "configured"
    /\ UNCHANGED <<cur_req_size, req, cur_offset, dmas, file, mismatch, crowded, sent>>

setup_start(t) ==
    /\ setup[t] = "start"
    /\ setup' = [setup EXCEPT ![t] = "run"] /\ device' = "started"
    /\ UNCHANGED <<cur_req_size, req, cur_offset, dmas, file, mismatch, crowded, sent>>

bytes(o, n) == o .. (o + n - 1)

\* The offset for a request: back to the start of the share when it does not fit
wrapped(t, size) ==
    IF cur_offset[t] + size >= offset_hi(t) THEN offset_lo(t) ELSE cur_offset[t]

advance(o, size) == o + size

\* Copies of thread t that are not checked yet
inflight(t) == {s \in Slots : rem_tid(s[1]) = t /\ req[s].state \in {"copying", "copied"}}

\* The request is written at once, or its copy is given to the device
req_handler(s) ==
    LET t == rem_tid(s[1])
        o == wrapped(t, req[s].size)
    IN  /\ req[s].state = "sent" /\ setup[t] = "run"
        /\ cur_offset' = [cur_offset EXCEPT ![t] = advance(o, req[s].size)]
        /\ IF UseIoat
             THEN /\ req' = [req EXCEPT ![s].state = "copying", ![s].offset = o]
                  /\ dmas' = Append(dmas, s)
                  /\ crowded' = (crowded \/ 2 * (Cardinality(inflight(t)) + 1) >
                                              (FileSize \div Servers) \div MaxReqSize)
                  /\ UNCHANGED file
             ELSE /\ file' = [b \in DOMAIN file |-> IF b \in bytes(o, req[s].size) THEN s ELSE file[b]]
                  /\ req' = [req EXCEPT ![s].state = "answered", ![s].offset = o]
                  /\ UNCHANGED <<dmas, crowded>>
        /\ UNCHANGED <<cur_req_size, setup, device, mismatch, sent>>

\* The device finishes its copies in order
dma_done ==
    /\ \E k \in DOMAIN dmas :
          LET s == dmas[k] IN
          /\ req[s].state = "copying"
          /\ \A j \in 1 .. k - 1 : req[dmas[j]].state = "copied"
          /\ file' = [b \in DOMAIN file |->
                        IF b \in bytes(req[s].offset, req[s].size) THEN s ELSE file[b]]
          /\ req' = [req EXCEPT ![s].state = "copied"]
    /\ UNCHANGED <<cur_req_size, setup, device, cur_offset, dmas, mismatch, crowded, sent>>

\* A server thread polls the device for completed copies, its own or another thread's,
\* checks a byte of the file drawn at random against the request, and answers through
\* its own Rpc object.  The answer to a request of another thread, whose session that
\* object does not have, may not arrive.
server_func(t) ==
    /\ setup[t] = "run"
    /\ dmas # <<>> /\ req[Head(dmas)].state = "copied"
    /\ LET s == Head(dmas) IN
          /\ \E b \in bytes(req[s].offset, req[s].size) : mismatch' = (mismatch \/ file[b] # s)
          /\ \E st \in IF rem_tid(s[1]) = t THEN {"answered"} ELSE {"answered", "misrouted"} :
                req' = [req EXCEPT ![s].state = st]
          /\ dmas' = Tail(dmas)
    /\ UNCHANGED <<cur_req_size, setup, device, cur_offset, file, crowded, sent>>

ServerStep(t) == setup_check(t) \/ setup_configure(t) \/ setup_start(t) \/ server_func(t)

Next ==
    \/ \E s \in Slots : send_req(s) \/ req_handler(s)
    \/ \E c \in 1 .. Clients : next_size(c)
    \/ dma_done
    \/ \E t \in Threads : ServerStep(t)

Spec == Init /\ [][Next]_vars

----------------------------------------------------------------------------
(* Properties *)

\* A server thread writes to its own share of the file only (req_handler).
StaysInShare ==
    \A s \in Slots : req[s].state \in {"copying", "copied", "answered", "misrouted"} =>
        bytes(req[s].offset, req[s].size) \subseteq
            offset_lo(rem_tid(s[1])) .. offset_hi(rem_tid(s[1])) - 1

\* main: data written by a copy is not overwritten by a later one before the
\* server has checked it, as long as no thread has copies in flight for more than half
\* of its share.  The check at the start compares one client's requests with the whole
\* file, so with several clients or server threads it does not ensure that.
CopiesDisjoint ==
    ~crowded =>
    \A a, b \in {s \in Slots : req[s].state \in {"copying", "copied"}} :
        a # b => bytes(req[a].offset, req[a].size) \intersect bytes(req[b].offset, req[b].size) = {}

\* The check of a completed copy finds the request's byte: it fails only after some
\* thread had too many copies in flight, never with one client and one thread.
CopyChecksOut ==
    /\ mismatch => crowded
    /\ crowded => Servers * Clients > 1
=============================================================================
