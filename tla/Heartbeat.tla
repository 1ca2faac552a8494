----------------------------- MODULE Heartbeat -----------------------------
(***************************************************************************)
(* The heartbeat manager (heartbeat_mgr.h): a tracking set with the time   *)
(* of the last heartbeat of every remote process, and a priority queue of  *)
(* timed events that send heartbeats and look for remotes that have gone   *)
(* silent.                                                                 *)
(*                                                                         *)
(* do_one holds no lock, so each turn of its loop is a step of its own     *)
(* and heartbeats are received between them.  Time passes only when        *)
(* do_one has nothing left to do: the manager is called often enough.      *)
(***************************************************************************)
EXTENDS Integers, FiniteSets

CONSTANTS Uri,           \* remote processes
          FailTimeout,   \* failure_timeout_tsc_
          SendDelta,     \* hb_send_delta_tsc_
          CheckDelta,    \* hb_check_delta_tsc_
          MaxTime,       \* bound on time
          MaxAdds        \* bound on calls of unlocked_add_remote for one remote

TimeAssumption ==
  /\ FailTimeout \in Nat /\ CheckDelta \in Nat /\ SendDelta \in Nat
  /\ 0 < SendDelta /\ SendDelta <= CheckDelta /\ CheckDelta < FailTimeout
  /\ MaxTime \in Nat /\ MaxAdds \in Nat

VARIABLES
  now,       \* rdtsc()
  last_rx,   \* map_last_hb_rx_: its domain is the tracking set
  pqueue,    \* hb_event_pqueue_: a set of events with a serial number
  serial,    \* the next serial number
  alive,     \* the remotes that still send heartbeats
  heard,     \* heard[u]: when a heartbeat of u was last received, or u was added
  adds,      \* adds[u]: calls of unlocked_add_remote
  failed     \* failed_uris, each with the time it was reported

vars == <<now, last_rx, pqueue, serial, alive, heard, adds, failed>>

Event(type, u, tsc, n) == [type |-> type, uri |-> u, tsc |-> tsc, n |-> n]

Init ==
  /\ now = 0
  /\ last_rx = [u \in {} |-> 0]
  /\ pqueue = {}
  /\ serial = 0
  /\ alive = Uri
  /\ heard = [u \in Uri |-> 0]
  /\ adds = [u \in Uri |-> 0]
  /\ failed = {}

Tracked == DOMAIN last_rx

\* std::unordered_map::emplace leaves an existing element alone.
Emplace(f, u, t) ==
  [v \in DOMAIN f \cup {u} |-> IF v \in DOMAIN f THEN f[v] ELSE t]

schedule_hb_send(u, n) == Event("kSend", u, now + SendDelta, n)

schedule_hb_check(u, n) == Event("kCheck", u, now + CheckDelta, n)

unlocked_add_remote(u) ==
  /\ adds[u] < MaxAdds
  /\ u \in alive
  /\ last_rx' = Emplace(last_rx, u, now)
  /\ pqueue' = pqueue \cup {schedule_hb_send(u, serial), schedule_hb_check(u, serial + 1)}
  /\ serial' = serial + 2
  /\ adds' = [adds EXCEPT ![u] = @ + 1]
  /\ heard' = [heard EXCEPT ![u] = now]
  /\ UNCHANGED <<now, alive, failed>>

\* Heartbeats of remotes that are not tracked are ignored.
unlocked_receive_hb(u) ==
  /\ u \in alive
  /\ u \in Tracked
  /\ heard[u] # now
  /\ last_rx' = Emplace(last_rx, u, now)
  /\ heard' = [heard EXCEPT ![u] = now]
  /\ UNCHANGED <<now, pqueue, serial, alive, adds, failed>>

-----------------------------------------------------------------------------
(* do_one: the turns of its loop.  Events of the same time come in any     *)
(* order.                                                                  *)

Top(e) == e \in pqueue /\ \A f \in pqueue : e.tsc <= f.tsc

\* Whether do_one handles event e now; it stops at an event in the future and at
\* the event of a remote that is not tracked, which stays in the queue.
Ready(e) == Top(e) /\ e.tsc <= now /\ e.uri \in Tracked

do_one_send(e) ==
  /\ Ready(e)
  /\ e.type = "kSend"
  /\ pqueue' = (pqueue \ {e}) \cup {schedule_hb_send(e.uri, serial)}
  /\ serial' = serial + 1
  /\ UNCHANGED <<now, last_rx, alive, heard, adds, failed>>

do_one_fail(e) ==
  /\ Ready(e)
  /\ e.type = "kCheck"
  /\ now - last_rx[e.uri] > FailTimeout
  /\ pqueue' = pqueue \ {e}
  /\ last_rx' = [u \in Tracked \ {e.uri} |-> last_rx[u]]
  /\ failed' = failed \cup {[uri |-> e.uri, silent |-> now - heard[e.uri]]}
  /\ UNCHANGED <<now, serial, alive, heard, adds>>

do_one_check(e) ==
  /\ Ready(e)
  /\ e.type = "kCheck"
  /\ now - last_rx[e.uri] <= FailTimeout
  /\ pqueue' = (pqueue \ {e}) \cup {schedule_hb_check(e.uri, serial)}
  /\ serial' = serial + 1
  /\ UNCHANGED <<now, last_rx, alive, heard, adds, failed>>

\* The remote fails.
Die(u) ==
  /\ u \in alive
  /\ alive' = alive \ {u}
  /\ UNCHANGED <<now, last_rx, pqueue, serial, heard, adds, failed>>

Tick ==
  /\ now < MaxTime
  /\ ~\E e \in pqueue : Ready(e)
  /\ now' = now + 1
  /\ UNCHANGED <<last_rx, pqueue, serial, alive, heard, adds, failed>>

Next ==
  \/ \E u \in Uri : unlocked_add_remote(u)
  \/ \E u \in Uri : unlocked_receive_hb(u)
  \/ \E e \in pqueue : do_one_send(e)
  \/ \E e \in pqueue : do_one_fail(e)
  \/ \E e \in pqueue : do_one_check(e)
  \/ \E u \in Uri : Die(u)
  \/ Tick

Spec == Init /\ [][Next]_vars

-----------------------------------------------------------------------------
(* Properties.                                                             *)

\* A remote that has been silent for the timeout and one check interval is no
\* longer tracked: it was reported, in whatever order events and heartbeats come.
DetectedInTime ==
  \A u \in Tracked : now - heard[u] <= FailTimeout + CheckDelta

\* As long as a remote is tracked, heartbeats go to it and its silence is looked
\* for.
TrackedIsServed ==
  \A u \in Tracked :
    \A type \in {"kSend", "kCheck"} :
      \E e \in pqueue : e.uri = u /\ e.type = type /\ e.tsc <= now + CheckDelta

-----------------------------------------------------------------------------
(* The inductive invariant.                                                *)

\* Times are in order: a remote was last heard of after it was first noted.
HbTimes ==
  /\ now \in Nat
  /\ Tracked \subseteq Uri /\ heard \in [Uri -> Nat] /\ last_rx \in [Tracked -> Nat]
  /\ \A u \in Tracked : last_rx[u] <= heard[u] /\ heard[u] <= now
  /\ \A e \in pqueue : e.uri \in Uri /\ e.tsc \in Nat

\* No event of a remote that was dropped from the tracking set can be in front of
\* an event of another remote: none was dropped yet, or there is no other.
NothingBlocked == failed = {} \/ \A u, v \in Uri : u = v

\* A check of u is queued that comes in time to report u, and a heartbeat to u.
Watched(u) ==
  LET deadline == last_rx[u] + FailTimeout + CheckDelta IN
  /\ now <= deadline
  /\ \E e \in pqueue : /\ e.uri = u /\ e.type = "kCheck"
                       /\ e.tsc <= deadline /\ e.tsc <= now + CheckDelta
  /\ \E e \in pqueue : e.uri = u /\ e.type = "kSend" /\ e.tsc <= now + CheckDelta

HbInv ==
  /\ HbTimes
  /\ failed = {} => \A e \in pqueue : e.uri \in Tracked
  /\ NothingBlocked => \A u \in Tracked : Watched(u)

=============================================================================
