---------------------------- MODULE TimingWheel ----------------------------
(***************************************************************************)
(* The Carousel timing wheel (cc/timing_wheel.h) with the sessions that    *)
(* pace their packets through it (session.h, rpc.h, rpc_queues.cc) at the  *)
(* rate that Timely gives them (cc/timely.h).                              *)
(*                                                                         *)
(* Time is in TSC ticks and rates are given by their inverse: delta[s] is  *)
(* the time a full packet of session s takes at its rate.  An entry keeps  *)
(* the sslot it is for, its number among the packets of its session, and   *)
(* the time it asked for.                                                  *)
(***************************************************************************)
EXTENDS Integers, Sequences, FiniteSets, SequencesExt

CONSTANTS Session,    \* client sessions of one Rpc
          NumSSlots,  \* sslots of a session
          Credits,    \* kSessionCredits
          Width,      \* wslot_width_tsc_
          MaxDelta,   \* a full packet at Timely::kMinRate
          BucketCap,  \* kWheelBucketCap
          MaxTime,    \* bound on time
          MaxPkts     \* bound on the packets of a session

WheelAssumption ==
  /\ {NumSSlots, Credits, Width, MaxDelta, BucketCap} \subseteq Nat \ {0}
  /\ MaxTime \in Nat /\ MaxPkts \in Nat

Horizon == Credits * MaxDelta

ceil_div(a, b) == (a + b - 1) \div b

NumWslots == 1 + ceil_div(Horizon, Width)

SSlot == Session \X (1..NumSSlots)

VARIABLES
  now,      \* rdtsc()
  wheel,    \* wheel[i]: the slot's tx_tsc_ and its chain of buckets
  cur,      \* cur_wslot_
  ready,    \* ready_queue_
  pool,     \* free buckets in bkt_pool_
  extent,   \* buckets bkt_pool_ has been given so far
  delta,    \* delta[s]: the inverse of timely_.rate_
  prev,     \* prev[s]: prev_desired_tx_tsc_
  credits,  \* credits[s]: credits_
  issued,   \* issued[s]: packets kicked
  last      \* last[ss]: the last packet of sslot ss put into the TX batch

vars == <<now, wheel, cur, ready, pool, extent, delta, prev, credits, issued, last>>

wheelVars == <<wheel, cur, ready, pool>>

Init ==
  /\ now = 0
  /\ wheel = [i \in 0..NumWslots - 1 |-> [tx |-> (i + 1) * Width, chain |-> << <<>> >>]]
  /\ cur = 0
  /\ ready = <<>>
  /\ pool = 0
  /\ extent = 0
  /\ delta = [s \in Session |-> 1]
  /\ prev = [s \in Session |-> 0]
  /\ credits = [s \in Session |-> Credits]
  /\ issued = [s \in Session |-> 0]
  /\ last = [ss \in SSlot |-> 0]

Entries(slot) == FlattenSeq(slot.chain)

-----------------------------------------------------------------------------
(* The wheel.  A state of it is a record, so that insert can follow reap.  *)

Wheel == [wheel |-> wheel, cur |-> cur, ready |-> ready, pool |-> pool]

\* reap_wslot, and the slot moves to the far end of the wheel.
reap_one(w) ==
  [w EXCEPT !.ready = @ \o Entries(w.wheel[w.cur]),
            !.pool = @ + Len(w.wheel[w.cur].chain) - 1,
            !.wheel[w.cur] = [tx |-> @.tx + Width * NumWslots, chain |-> << <<>> >>],
            !.cur = (@ + 1) % NumWslots]

\* reap(tsc): the loop over the slots that are due; no call needs more turns than
\* there are slots until MaxTime.
reap(w, tsc) ==
  FoldLeft(LAMBDA v, i : IF v.wheel[v.cur].tx <= tsc THEN reap_one(v) ELSE v,
           w, [i \in 1..(MaxTime \div Width + 1) |-> i])

\* Mutation: the slot that ends before the packet is due.
wslot_delta_Before(w, desired) ==
  IF desired <= w.wheel[w.cur].tx THEN 0
  ELSE (desired - w.wheel[w.cur].tx) \div Width

wslot_delta(w, desired) ==
  IF desired <= w.wheel[w.cur].tx THEN 0
  ELSE 1 + (desired - w.wheel[w.cur].tx) \div Width

\* insert_into_wslot: a bucket that becomes full gets an empty successor, from the
\* pool, which is extended first when it is empty.
Place(w, dst, ent) ==
  LET chain == w.wheel[dst].chain
      full == Len(chain[Len(chain)]) + 1 = BucketCap
      added == [chain EXCEPT ![Len(chain)] = Append(@, ent)]
  IN  [w EXCEPT !.wheel[dst].chain = IF full THEN Append(added, <<>>) ELSE added,
                !.pool = CASE ~full -> @
                           [] full /\ @ > 0 -> @ - 1
                           [] OTHER -> (IF extent = 0 THEN 1 ELSE extent) + @ - 1]

insert(ent, ref) ==
  LET w == reap(Wheel, ref)
  IN  Place(w, (w.cur + wslot_delta(w, ent.due)) % NumWslots, ent)

SetWheel(w) ==
  /\ wheel' = w.wheel
  /\ cur' = w.cur
  /\ ready' = w.ready
  /\ pool' = w.pool

Chained(wh) == FoldFunction(LAMBDA slot, n : n + Len(slot.chain) - 1, 0, wh)

-----------------------------------------------------------------------------
(* Sessions.                                                               *)

AllEntries == Range(ready) \cup UNION {Range(Entries(wheel[i])) : i \in DOMAIN wheel}

Of(ss) == {e \in AllEntries : e.ss = ss}

cc_getupdate_tx_tsc(s, d) == IF prev[s] + d > now THEN prev[s] + d ELSE now

can_bypass_wheel(ss) == Of(ss) = {} /\ delta[ss[1]] = 1

Kicked(ss) ==
  /\ credits[ss[1]] > 0
  /\ issued[ss[1]] < MaxPkts
  /\ credits' = [credits EXCEPT ![ss[1]] = @ - 1]
  /\ issued' = [issued EXCEPT ![ss[1]] = @ + 1]

\* kick_req_st for one packet of at most full size, paced.
enqueue_wheel_req_st(ss, d) ==
  LET s == ss[1]
      desired == cc_getupdate_tx_tsc(s, d)
      w == insert([ss |-> ss, n |-> issued[s] + 1, due |-> desired], now)
  IN  /\ Kicked(ss)
      /\ ~can_bypass_wheel(ss)
      /\ prev' = [prev EXCEPT ![s] = desired]
      /\ SetWheel(w)
      /\ extent' = extent + (w.pool + Chained(w.wheel)) - (pool + Chained(wheel))
      /\ UNCHANGED <<now, delta, last>>

\* kick_req_st for one packet that goes straight to the TX batch.
bypass_wheel(ss) ==
  /\ Kicked(ss)
  /\ can_bypass_wheel(ss)
  /\ last' = [last EXCEPT ![ss] = issued[ss[1]] + 1]
  /\ UNCHANGED <<now, extent, delta, prev>>
  /\ UNCHANGED wheelVars

process_wheel_st ==
  LET w == reap(Wheel, now)
      sent(ss) == {e.n : e \in {f \in Range(w.ready) : f.ss = ss}}
  IN  /\ w.ready # <<>>
      /\ SetWheel([w EXCEPT !.ready = <<>>])
      /\ last' = [ss \in SSlot |->
                    IF sent(ss) = {} THEN last[ss] ELSE CHOOSE n \in sent(ss) : \A m \in sent(ss) : m <= n]
      /\ UNCHANGED <<now, extent, delta, prev, credits, issued>>

\* A reply, or a retransmission, brings a credit back, for a packet that has left the wheel, and a new
\* rate: at least half the old one, and between the minimum and the link's.
update_rate(s, d) ==
  /\ Credits - credits[s] > Cardinality(UNION {Of(<<s, i>>) : i \in 1..NumSSlots})
  /\ d <= 2 * delta[s]
  /\ credits' = [credits EXCEPT ![s] = @ + 1]
  /\ delta' = [delta EXCEPT ![s] = d]
  /\ UNCHANGED <<now, extent, prev, issued, last>>
  /\ UNCHANGED wheelVars

Tick ==
  /\ now < MaxTime
  /\ now' = now + 1
  /\ UNCHANGED <<extent, delta, prev, credits, issued, last>>
  /\ UNCHANGED wheelVars

Next ==
  \/ \E ss \in SSlot : \E d \in 1..delta[ss[1]] : enqueue_wheel_req_st(ss, d)
  \/ \E ss \in SSlot : bypass_wheel(ss)
  \/ process_wheel_st
  \/ \E s \in Session, d \in 1..MaxDelta : update_rate(s, d)
  \/ Tick

Spec == Init /\ [][Next]_vars

-----------------------------------------------------------------------------
(* Properties.                                                             *)

\* The slots of the wheel are a window that rolls over time without gaps: the k-th
\* slot from the current one is due k widths after it.
SlotsTileTime ==
  \A k \in 0..NumWslots - 1 :
    wheel[(cur + k) % NumWslots].tx = wheel[cur].tx + k * Width

\* A packet waits in a slot that is due not before its time, and at most one slot
\* width later; it is handed to the TX batch only when its time has come.
PacedToSlot ==
  /\ \A e \in Range(ready) : e.due <= now
  /\ \A i \in DOMAIN wheel : \A e \in Range(Entries(wheel[i])) :
       e.due <= wheel[i].tx /\ wheel[i].tx <= e.due + Width

\* The asserts of insert: a session that may send asks for a time within the
\* horizon, whatever the history of rates, because what it sent before is bounded
\* by its credits.
WithinHorizon ==
  \A s \in Session :
    credits[s] > 0 => prev[s] + MaxDelta <= now + Horizon

\* Buckets of the pool are free or chained to a slot, and only the last bucket of
\* a chain has room.
BucketsConserved ==
  /\ pool >= 0
  /\ pool + Chained(wheel) = extent
  /\ \A i \in DOMAIN wheel :
       LET c == wheel[i].chain
       IN  /\ \A k \in 1..Len(c) - 1 : Len(c[k]) = BucketCap
           /\ Len(c[Len(c)]) < BucketCap

\* The queue in which the wheel will hand over its entries.
Schedule ==
  ready \o FlattenSeq([k \in 1..NumWslots |-> Entries(wheel[(cur + k - 1) % NumWslots])])

\* The packets of one sslot leave in the order in which they were kicked, those
\* that bypass the wheel included.
SSlotOrder ==
  /\ \A i, j \in 1..Len(Schedule) :
       i < j /\ Schedule[i].ss = Schedule[j].ss => Schedule[i].n < Schedule[j].n
  /\ \A e \in AllEntries : e.n > last[e.ss]

=============================================================================
