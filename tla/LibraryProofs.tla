--------------------------- MODULE LibraryProofs ---------------------------
(***************************************************************************)
(* Proofs about seven components of the library below the datapath, each   *)
(* for every value of its constants: the receive ring of the verbs         *)
(* transports (packets are where rx_burst looks for them and the receive   *)
(* queue is refilled), the Nexus (thread IDs, and hooks only of living Rpc *)
(* objects), the background threads (MtQueue's unlocked size, requests     *)
(* served once, continuations in the thread that issued the request), the  *)
(* send queue (selective signaling, flush, control packets), DPDK's queue  *)
(* pairs and mbuf pools, the heartbeat manager (a silent remote is found   *)
(* in time) and the multi-packet receive path (no packet is missed in the  *)
(* overrunning completion queue).                                          *)
(***************************************************************************)
EXTENDS MCLibrary, Sequences, FiniteSets, FiniteSetTheorems, WellFoundedInduction, TLAPS

-----------------------------------------------------------------------------
(* Division with remainder *)

LEMMA ModFact ==
  ASSUME NEW N \in Nat \ {0}, NEW a \in Nat
  PROVE  /\ a = N * (a \div N) + (a % N)
         /\ a % N \in 0 .. N - 1
         /\ a \div N \in Nat
  OBVIOUS

LEMMA ModUnique ==
  ASSUME NEW N \in Nat \ {0}, NEW q \in Int, NEW r \in 0 .. N - 1
  PROVE  (N * q + r) % N = r
  OBVIOUS

\* Adding to a remainder.
LEMMA ModAdd ==
  ASSUME NEW N \in Nat \ {0}, NEW a \in Nat, NEW b \in Nat
  PROVE  ((a % N) + b) % N = (a + b) % N
<1> DEFINE q == a \div N
           r == a % N
           p == (r + b) \div N
           m == (r + b) % N
<1>1. a = N * q + r /\ r \in 0 .. N - 1 /\ q \in Nat
  BY ModFact
<1>2. r + b = N * p + m /\ m \in 0 .. N - 1 /\ p \in Nat
  <2> HIDE DEF r
  <2>1. r + b \in Nat
    BY <1>1
  <2> QED
    BY <2>1, ModFact
<1> HIDE DEF q, r, p, m
<1>3. a + b = N * (q + p) + m
  <2>1. a + b = N * q + N * p + m
    BY <1>1, <1>2
  <2>2. N * (q + p) = N * q + N * p
    BY <1>1, <1>2
  <2> QED
    BY <2>1, <2>2
<1>4. q + p \in Int
  BY <1>1, <1>2
<1>5. (a + b) % N = m
  BY <1>2, <1>3, <1>4, ModUnique
<1> QED
  BY <1>5 DEF m, r

\* The next index of a ring.
LEMMA ModNext ==
  ASSUME NEW N \in Nat \ {0}, NEW a \in Nat
  PROVE  ((a % N) + 1) % N = (a + 1) % N
  BY ModAdd

\* Numbers less than N apart have different remainders.
LEMMA ModApart ==
  ASSUME NEW N \in Nat \ {0}, NEW a \in Nat, NEW b \in Nat, a < b, b - a < N
  PROVE  a % N # b % N
<1> SUFFICES ASSUME a % N = b % N PROVE FALSE
  OBVIOUS
<1> DEFINE d == b - a
           r == a % N
<1>1. d \in 1 .. N - 1 /\ b = a + d /\ r \in 0 .. N - 1
  BY ModFact
<1>2. (r + d) % N = r
  <2>1. ((a % N) + d) % N = (a + d) % N
    BY <1>1, ModAdd
  <2> QED
    BY <1>1, <2>1
<1> HIDE DEF d, r
<1>3. CASE r + d < N
  <2>1. (N * 0 + (r + d)) % N = r + d
    BY <1>1, <1>3, ModUnique
  <2> QED
    BY <1>1, <1>2, <2>1
<1>4. CASE r + d >= N
  <2>1. r + d - N \in 0 .. N - 1
    BY <1>1, <1>4
  <2>2. (N * 1 + (r + d - N)) % N = r + d - N
    BY <2>1, ModUnique
  <2>3. N * 1 + (r + d - N) = r + d
    BY <1>1
  <2> QED
    BY <1>1, <1>2, <2>2, <2>3
<1> QED
  BY <1>1, <1>3, <1>4

-----------------------------------------------------------------------------
(* The receive ring *)

LEMMA RingInit ==
  ASSUME Rx!SizeAssumption, Rx!Init
  PROVE  Rx!RingInv
<1> DEFINE N == kVerbsRQDepth
<1>1. N \in Nat \ {0} /\ kRecvSlack \in Nat \ {0}
  BY DEF Rx!SizeAssumption
<1>2. rq = [k \in 1 .. N |-> (0 + k - 1) % N] /\ Len(rq) = N /\ rq \in Seq(Rx!Entry)
  <2>1. \A k \in 1 .. N : (0 + k - 1) % N \in 0 .. N - 1
    BY <1>1, ModFact
  <2>2. rq = [k \in 1 .. N |-> (0 + k - 1) % N]
    BY DEF Rx!Init, Rx!Entries
  <2> QED
    BY <1>1, <2>1, <2>2 DEF Rx!Entry
<1>3. 0 % N = 0 /\ (0 + N) % N = 0
  <2>1. (N * 0 + 0) % N = 0 /\ (N * 1 + 0) % N = 0
    BY <1>1, ModUnique
  <2> QED
    BY <1>1, <2>1
<1>4. Rx!RingTypes
  BY <1>1, <1>2 DEF Rx!Init, Rx!RingTypes, Rx!Entry
<1>5. Rx!Unread = 0 /\ arrived = 0
  BY DEF Rx!Init, Rx!Unread
<1>6. \A k \in 1 .. Len(rq) : rq[k] = (arrived + k - 1) % kVerbsRQDepth
  BY <1>1, <1>2, <1>5
<1>7. \A j \in arrived - Rx!Unread .. arrived - 1 : ring[j % kVerbsRQDepth] = j + 1
  BY <1>5
<1>8. /\ done <= num_pkts /\ recvs_to_post < kRecvSlack /\ Rx!Unread <= arrived
      /\ Len(rq) + recv_cq + num_pkts + recvs_to_post = kVerbsRQDepth
  BY <1>1, <1>2, <1>5 DEF Rx!Init
<1>9. rx_ring_head = (arrived - Rx!Unread) % kVerbsRQDepth /\ recv_head = (arrived + Len(rq)) % kVerbsRQDepth
  BY <1>2, <1>3, <1>5 DEF Rx!Init
<1> QED
  BY <1>4, <1>6, <1>7, <1>8, <1>9 DEF Rx!RingInv

LEMMA RingNicRecv ==
  ASSUME Rx!SizeAssumption, Rx!RingInv, Rx!NicRecv
  PROVE  Rx!RingInv'
<1> DEFINE N == kVerbsRQDepth
<1>1. N \in Nat \ {0} /\ kRecvSlack \in Nat \ {0}
  BY DEF Rx!SizeAssumption
<1>2. /\ rq \in Seq(Rx!Entry) /\ rq # <<>> /\ ring \in [Rx!Entry -> Nat]
      /\ recv_cq \in Nat /\ arrived \in Nat /\ num_pkts \in Nat /\ done \in Nat
      /\ recvs_to_post \in Nat /\ taken \in Nat /\ done <= num_pkts
      /\ Rx!Unread \in Nat /\ Rx!Unread <= arrived
  BY SMTT(40) DEF Rx!RingInv, Rx!RingTypes, Rx!NicRecv, Rx!Unread
<1>3. /\ rq' = Tail(rq) /\ Len(rq') = Len(rq) - 1 /\ Len(rq) \in Nat /\ Len(rq) > 0
      /\ rq' \in Seq(Rx!Entry) /\ Head(rq) = rq[1]
      /\ \A k \in 1 .. Len(rq') : rq'[k] = rq[k + 1]
  BY <1>2 DEF Rx!NicRecv
<1>4. /\ arrived' = arrived + 1 /\ Rx!Unread' = Rx!Unread + 1 /\ recv_cq' = recv_cq + 1
      /\ UNCHANGED <<num_pkts, done, rx_ring_head, taken, recv_head, recvs_to_post>>
  BY <1>2 DEF Rx!NicRecv, Rx!Unread
<1>5. Head(rq) = arrived % N
  BY <1>2, <1>3 DEF Rx!RingInv
<1>6. ring' = [ring EXCEPT ![arrived % N] = arrived + 1] /\ arrived % N \in Rx!Entry
  BY <1>1, <1>2, <1>5, ModFact DEF Rx!NicRecv, Rx!Entry
<1>7. Rx!Unread' <= N
  <2>1. Len(rq) + recv_cq + num_pkts + recvs_to_post = N
    BY DEF Rx!RingInv
  <2> QED
    BY <1>2, <1>3, <1>4, <2>1 DEF Rx!Unread
<1>8. ASSUME NEW j \in arrived' - Rx!Unread' .. arrived' - 1
      PROVE  ring'[j % N] = j + 1
  <2>0. j \in Nat /\ (j = arrived \/ j \in arrived - Rx!Unread .. arrived - 1)
    BY <1>2, <1>4
  <2>1. j % N \in Rx!Entry
    BY <1>1, <2>0, ModFact DEF Rx!Entry
  <2>2. CASE j = arrived
    BY <1>2, <1>6, <2>2
  <2>3. CASE j # arrived
    <3>1. j \in arrived - Rx!Unread .. arrived - 1 /\ j < arrived /\ arrived - j < N
      BY <1>1, <1>2, <1>4, <1>7, <2>0, <2>3
    <3>2. j % N # arrived % N
      BY <1>1, <1>2, <2>0, <3>1, ModApart
    <3>3. ring[j % N] = j + 1
      BY <3>1 DEF Rx!RingInv
    <3> QED
      BY <1>2, <1>6, <2>1, <3>2, <3>3
  <2> QED
    BY <2>2, <2>3
<1>9. \A k \in 1 .. Len(rq') : rq'[k] = (arrived' + k - 1) % N
  <2> SUFFICES ASSUME NEW k \in 1 .. Len(rq') PROVE rq'[k] = (arrived' + k - 1) % N
    OBVIOUS
  <2>1. rq[k + 1] = (arrived + (k + 1) - 1) % N
    BY <1>3 DEF Rx!RingInv
  <2>2. arrived + (k + 1) - 1 = arrived' + k - 1
    BY <1>2, <1>3, <1>4
  <2> QED
    BY <1>3, <2>1, <2>2
<1>10. ring' \in [Rx!Entry -> Nat]
  BY <1>2, <1>6
<1>11. Rx!RingTypes'
  BY <1>2, <1>3, <1>4, <1>10 DEF Rx!RingInv, Rx!RingTypes
<1>12. arrived' - Rx!Unread' = arrived - Rx!Unread /\ arrived' + Len(rq') = arrived + Len(rq)
  BY <1>2, <1>3, <1>4
<1>13. Len(rq') + recv_cq' + num_pkts' + recvs_to_post' = N
  <2>1. Len(rq) + recv_cq + num_pkts + recvs_to_post = N
    BY DEF Rx!RingInv
  <2> QED
    BY <1>2, <1>3, <1>4, <2>1
<1>14. /\ rx_ring_head' = (arrived' - Rx!Unread') % N
       /\ recv_head' = (arrived' + Len(rq')) % N
  BY <1>4, <1>12 DEF Rx!RingInv
<1>15. done' <= num_pkts' /\ recvs_to_post' < kRecvSlack /\ Rx!Unread' <= arrived'
  BY <1>2, <1>4 DEF Rx!RingInv
<1> QED
  BY <1>8, <1>9, <1>11, <1>13, <1>14, <1>15 DEF Rx!RingInv

LEMMA RingRxBurst ==
  ASSUME Rx!SizeAssumption, Rx!RingInv, Rx!rx_burst
  PROVE  Rx!RingInv'
<1>1. kPostlist \in Nat /\ kRecvSlack \in Nat
  BY DEF Rx!SizeAssumption
<1>2. /\ recv_cq \in Nat /\ arrived \in Nat /\ num_pkts \in Nat /\ done \in Nat
      /\ recvs_to_post \in Nat /\ Len(rq) \in Nat /\ done <= num_pkts
      /\ num_pkts <= 0 /\ recv_cq > 0
  BY DEF Rx!RingInv, Rx!RingTypes, Rx!rx_burst
<1>3. PICK n \in Nat : n <= recv_cq /\ num_pkts' = n /\ recv_cq' = recv_cq - n /\ done' = 0
  BY <1>1, <1>2 DEF Rx!rx_burst
<1>4. UNCHANGED <<rq, ring, arrived, rx_ring_head, taken, recv_head, recvs_to_post>>
  BY DEF Rx!rx_burst
<1>5. recv_cq' \in Nat /\ Rx!Unread' = Rx!Unread
  BY <1>2, <1>3 DEF Rx!Unread
<1>6. Rx!RingTypes'
  BY <1>3, <1>4, <1>5 DEF Rx!RingInv, Rx!RingTypes
<1>7. Len(rq') + recv_cq' + num_pkts' + recvs_to_post' = kVerbsRQDepth
  <2>1. Len(rq) + recv_cq + num_pkts + recvs_to_post = kVerbsRQDepth
    BY DEF Rx!RingInv
  <2>2. Len(rq') = Len(rq) /\ recvs_to_post' = recvs_to_post
    BY <1>4
  <2> QED
    BY <1>2, <1>3, <2>1, <2>2
<1>8. done' <= num_pkts' /\ recvs_to_post' < kRecvSlack /\ Rx!Unread' <= arrived'
  BY <1>3, <1>4, <1>5 DEF Rx!RingInv
<1> QED
  BY <1>4, <1>5, <1>6, <1>7, <1>8 DEF Rx!RingInv

LEMMA RingProcessPkt ==
  ASSUME Rx!SizeAssumption, Rx!RingInv, Rx!process_pkt
  PROVE  Rx!RingInv'
<1> DEFINE N == kVerbsRQDepth
<1>1. N \in Nat \ {0} /\ kRecvSlack \in Nat
  BY DEF Rx!SizeAssumption
<1>2. /\ recv_cq \in Nat /\ arrived \in Nat /\ num_pkts \in Nat /\ done \in Nat
      /\ done < num_pkts /\ Rx!Unread \in Nat /\ Rx!Unread <= arrived
  BY DEF Rx!RingInv, Rx!RingTypes, Rx!process_pkt, Rx!Unread
<1>3. /\ done' = done + 1 /\ taken' = ring[rx_ring_head]
      /\ rx_ring_head' = (rx_ring_head + 1) % N
      /\ UNCHANGED <<rq, ring, recv_cq, arrived, num_pkts, recv_head, recvs_to_post>>
  BY DEF Rx!process_pkt
<1>4. Rx!Unread' = Rx!Unread - 1 /\ Rx!Unread > 0
  BY <1>2, <1>3 DEF Rx!Unread
<1>5. rx_ring_head' = (arrived' - Rx!Unread') % N
  <2>1. arrived - Rx!Unread \in Nat /\ arrived' - Rx!Unread' = (arrived - Rx!Unread) + 1
    BY <1>2, <1>3, <1>4
  <2>2. rx_ring_head = (arrived - Rx!Unread) % N
    BY DEF Rx!RingInv
  <2> QED
    BY <1>1, <1>3, <2>1, <2>2, ModNext
<1>6. rx_ring_head' \in Rx!Entry
  <2>1. arrived' - Rx!Unread' \in Nat
    BY <1>2, <1>3, <1>4
  <2> QED
    BY <1>1, <1>5, <2>1, ModFact DEF Rx!Entry
<1>7. Rx!RingTypes'
  BY <1>2, <1>3, <1>6 DEF Rx!RingInv, Rx!RingTypes
<1>8. /\ done' <= num_pkts' /\ recvs_to_post' < kRecvSlack /\ Rx!Unread' <= arrived'
      /\ arrived' - Rx!Unread' .. arrived' - 1 \subseteq arrived - Rx!Unread .. arrived - 1
  BY <1>2, <1>3, <1>4 DEF Rx!RingInv
<1> QED
  BY <1>3, <1>5, <1>7, <1>8 DEF Rx!RingInv

LEMMA RingPostRecvs ==
  ASSUME Rx!SizeAssumption, Rx!RingInv, Rx!post_recvs
  PROVE  Rx!RingInv'
<1> DEFINE N == kVerbsRQDepth
           n == recvs_to_post + num_pkts
<1>1. N \in Nat \ {0} /\ kRecvSlack \in Nat
  BY DEF Rx!SizeAssumption
<1>2. /\ recv_cq \in Nat /\ arrived \in Nat /\ num_pkts \in Nat /\ done = num_pkts
      /\ recvs_to_post \in Nat /\ Len(rq) \in Nat /\ rq \in Seq(Rx!Entry)
      /\ recv_head \in 0 .. N - 1 /\ n > 0
      /\ Len(rq) + recv_cq + n = N
  BY DEF Rx!RingInv, Rx!RingTypes, Rx!post_recvs, Rx!Entry
<1>3. /\ num_pkts' = 0 /\ done' = 0 /\ UNCHANGED <<ring, recv_cq, arrived, rx_ring_head, taken>>
  BY DEF Rx!post_recvs
<1>4. Rx!Unread' = Rx!Unread
  BY <1>2, <1>3 DEF Rx!Unread
<1>5. CASE n < kRecvSlack
  <2>1. recvs_to_post' = n /\ UNCHANGED <<rq, recv_head>>
    BY <1>5 DEF Rx!post_recvs
  <2>2. Rx!RingTypes'
    BY <1>2, <1>3, <2>1 DEF Rx!RingInv, Rx!RingTypes
  <2>3. Len(rq') + recv_cq' + num_pkts' + recvs_to_post' = N
    BY <1>2, <1>3, <2>1
  <2> QED
    BY <1>3, <1>4, <1>5, <2>1, <2>2, <2>3 DEF Rx!RingInv
<1>6. CASE ~(n < kRecvSlack)
  <2>1. /\ recvs_to_post' = 0 /\ rq' = rq \o Rx!Entries(recv_head, n)
        /\ recv_head' = (Rx!last_wr_i(n) + 1) % N
    BY <1>6 DEF Rx!post_recvs
  <2> DEFINE new == Rx!Entries(recv_head, n)
  <2>2. \A k \in 1 .. n : new[k] = (arrived + Len(rq) + k - 1) % N
    <3> SUFFICES ASSUME NEW k \in 1 .. n PROVE new[k] = (arrived + Len(rq) + k - 1) % N
      OBVIOUS
    <3>1. new[k] = (recv_head + k - 1) % N
      BY <1>2 DEF Rx!Entries
    <3>2. recv_head = (arrived + Len(rq)) % N
      BY DEF Rx!RingInv
    <3>3. arrived + Len(rq) \in Nat /\ k - 1 \in Nat /\ recv_head + k - 1 = recv_head + (k - 1)
          /\ arrived + Len(rq) + k - 1 = (arrived + Len(rq)) + (k - 1)
      BY <1>2
    <3>4. (((arrived + Len(rq)) % N) + (k - 1)) % N = ((arrived + Len(rq)) + (k - 1)) % N
      BY <1>1, <3>3, ModAdd
    <3> QED
      BY <3>1, <3>2, <3>3, <3>4
  <2>3. new \in Seq(Rx!Entry) /\ Len(new) = n
    <3>1. \A k \in 1 .. n : (recv_head + k - 1) % N \in 0 .. N - 1
      <4> SUFFICES ASSUME NEW k \in 1 .. n PROVE (recv_head + k - 1) % N \in 0 .. N - 1
        OBVIOUS
      <4>1. recv_head + k - 1 \in Nat
        BY <1>2
      <4> QED
        BY <1>1, <4>1, ModFact
    <3> QED
      BY <1>2, <3>1 DEF Rx!Entries, Rx!Entry
  <2> HIDE DEF new
  <2>4. rq' \in Seq(Rx!Entry) /\ Len(rq') = Len(rq) + n
    <3>1. rq' = rq \o new
      BY <2>1 DEF new
    <3>2. rq \in Seq(Rx!Entry) /\ new \in Seq(Rx!Entry)
      BY <1>2, <2>3
    <3>3. rq \o new \in Seq(Rx!Entry) /\ Len(rq \o new) = Len(rq) + Len(new)
      BY <3>2
    <3> QED
      BY <2>3, <3>1, <3>3
  <2>5. \A k \in 1 .. Len(rq') : rq'[k] = (arrived' + k - 1) % N
    <3> SUFFICES ASSUME NEW k \in 1 .. Len(rq') PROVE rq'[k] = (arrived' + k - 1) % N
      OBVIOUS
    <3>1. CASE k <= Len(rq)
      <4>1. rq'[k] = rq[k]
        BY <1>2, <2>1, <2>3, <2>4, <3>1 DEF new
      <4> QED
        BY <1>2, <1>3, <3>1, <4>1 DEF Rx!RingInv
    <3>2. CASE k > Len(rq)
      <4>1. rq'[k] = new[k - Len(rq)] /\ k - Len(rq) \in 1 .. n
        BY <1>2, <2>1, <2>3, <2>4, <3>2 DEF new
      <4>2. arrived + Len(rq) + (k - Len(rq)) - 1 = arrived' + k - 1
        BY <1>2, <1>3, <2>4
      <4> QED
        BY <2>2, <4>1, <4>2
    <3> QED
      BY <1>2, <2>4, <3>1, <3>2
  <2>6. recv_head' = (arrived' + Len(rq')) % N
    <3>1. recv_head' = (recv_head + n) % N
      <4> DEFINE h == recv_head + n
      <4>0. h \in Nat /\ recv_head + (n - 1) = h - 1 /\ h < 2 * N
        BY <1>1, <1>2
      <4>1. Rx!last_wr_i(n) = IF h - 1 >= N THEN h - 1 - N ELSE h - 1
        BY <4>0 DEF Rx!last_wr_i
      <4> HIDE DEF h
      <4>2. CASE h - 1 >= N
        <5>1. Rx!last_wr_i(n) + 1 = h - N /\ h - N \in 0 .. N - 1
          BY <1>1, <4>0, <4>1, <4>2
        <5>2. (N * 1 + (h - N)) % N = h - N /\ (N * 0 + (h - N)) % N = h - N
          <6> DEFINE x == h - N
          <6>1. x \in 0 .. N - 1
            BY <5>1
          <6> HIDE DEF x
          <6>2. (N * 1 + x) % N = x /\ (N * 0 + x) % N = x
            BY <1>1, <6>1, ModUnique
          <6> QED
            BY <6>2 DEF x
        <5>3. N * 1 + (h - N) = h /\ N * 0 + (h - N) = h - N
          BY <1>1, <4>0
        <5>4. recv_head' = h % N
          BY <2>1, <5>1, <5>2, <5>3
        <5> QED
          BY <5>4 DEF h
      <4>3. CASE ~(h - 1 >= N)
        <5>1. Rx!last_wr_i(n) + 1 = h
          BY <1>1, <4>0, <4>1, <4>3
        <5> QED
          BY <2>1, <5>1 DEF h
      <4> QED
        BY <4>2, <4>3
    <3>2. recv_head = (arrived + Len(rq)) % N
      BY DEF Rx!RingInv
    <3>3. (((arrived + Len(rq)) % N) + n) % N = ((arrived + Len(rq)) + n) % N
      <4>1. arrived + Len(rq) \in Nat /\ n \in Nat
        BY <1>2
      <4> HIDE DEF n
      <4> QED
        BY <1>1, <4>1, ModAdd
    <3>4. (arrived + Len(rq)) + n = arrived' + Len(rq')
      BY <1>2, <1>3, <2>4
    <3> QED
      BY <3>1, <3>2, <3>3, <3>4
  <2>7. recv_head' \in Rx!Entry
    <3>1. arrived' + Len(rq') \in Nat
      BY <1>2, <1>3, <2>4
    <3> QED
      BY <1>1, <2>6, <3>1, ModFact DEF Rx!Entry
  <2>8. Rx!RingTypes'
    BY <1>2, <1>3, <2>1, <2>4, <2>7 DEF Rx!RingInv, Rx!RingTypes
  <2>9. Len(rq') + recv_cq' + num_pkts' + recvs_to_post' = N
    BY <1>2, <1>3, <2>1, <2>4
  <2>10. done' <= num_pkts' /\ recvs_to_post' < kRecvSlack /\ Rx!Unread' <= arrived'
    BY <1>1, <1>3, <1>4, <2>1 DEF Rx!RingInv, Rx!SizeAssumption
  <2>11. /\ rx_ring_head' = (arrived' - Rx!Unread') % N
         /\ \A j \in arrived' - Rx!Unread' .. arrived' - 1 : ring'[j % N] = j + 1
    BY <1>3, <1>4 DEF Rx!RingInv
  <2> QED
    BY <2>5, <2>6, <2>8, <2>9, <2>10, <2>11 DEF Rx!RingInv
<1> QED
  BY <1>5, <1>6

\* The invariant of the receive ring holds, for a ring of any size that is refilled
\* in batches of any size.
THEOREM RingInvariantHolds == Rx!SizeAssumption => (Rx!Spec => []Rx!RingInv)
<1> SUFFICES ASSUME Rx!SizeAssumption PROVE Rx!Spec => []Rx!RingInv
  OBVIOUS
<1>1. Rx!Init => Rx!RingInv
  BY RingInit
<1>2. Rx!RingInv /\ [Rx!Next]_Rx!vars => Rx!RingInv'
  <2> SUFFICES ASSUME Rx!RingInv, [Rx!Next]_Rx!vars PROVE Rx!RingInv'
    OBVIOUS
  <2>1. CASE Rx!NicRecv
    BY <2>1, RingNicRecv
  <2>2. CASE Rx!rx_burst
    BY <2>2, RingRxBurst
  <2>3. CASE Rx!process_pkt
    BY <2>3, RingProcessPkt
  <2>4. CASE Rx!post_recvs
    BY <2>4, RingPostRecvs
  <2>5. CASE UNCHANGED Rx!vars
    BY <2>5 DEF Rx!vars, Rx!RingInv, Rx!RingTypes, Rx!Unread
  <2> QED
    BY <2>1, <2>2, <2>3, <2>4, <2>5 DEF Rx!Next
<1> QED
  BY <1>1, <1>2, PTL DEF Rx!Spec

\* A packet that was completed stays in the ring entry from which the Rpc reads it
\* (process_comps_st), across the wrap of all three indexes.
THEOREM PacketsStayInRing == Rx!SizeAssumption => (Rx!Spec => []Rx!PacketsInRing)
<1> SUFFICES ASSUME Rx!SizeAssumption PROVE Rx!Spec => []Rx!PacketsInRing
  OBVIOUS
<1>1. Rx!RingInv => Rx!PacketsInRing
  <2> DEFINE N == kVerbsRQDepth
             f == arrived - Rx!Unread
  <2> SUFFICES ASSUME Rx!RingInv, NEW k \in 0 .. recv_cq + (num_pkts - done) - 1
               PROVE  ring[(rx_ring_head + k) % N]
                        = arrived - (recv_cq + num_pkts - done) + k + 1
    BY DEF Rx!PacketsInRing
  <2>1. N \in Nat \ {0}
    BY DEF Rx!SizeAssumption
  <2>2. /\ recv_cq \in Nat /\ arrived \in Nat /\ num_pkts \in Nat /\ done \in Nat
        /\ done <= num_pkts /\ Rx!Unread <= arrived
    BY DEF Rx!RingInv, Rx!RingTypes
  <2>3. /\ f \in Nat /\ f + k \in arrived - Rx!Unread .. arrived - 1
        /\ f + k + 1 = arrived - (recv_cq + num_pkts - done) + k + 1
    BY <2>2 DEF Rx!Unread
  <2>4. rx_ring_head = f % N
    BY DEF Rx!RingInv
  <2>5. ring[(f + k) % N] = f + k + 1
    BY <2>3 DEF Rx!RingInv
  <2> HIDE DEF f
  <2>6. ((f % N) + k) % N = (f + k) % N
    <3>1. k \in Nat
      BY <2>2
    <3> QED
      BY <2>1, <2>3, <3>1, ModAdd
  <2> QED
    BY <2>3, <2>4, <2>5, <2>6
<1> QED
  BY <1>1, RingInvariantHolds, PTL

\* Once the Rpc has processed every completion, fewer than kRecvSlack entries of the
\* ring are withheld from the NIC.
THEOREM RqIsRefilled == Rx!SizeAssumption => (Rx!Spec => []Rx!RqRefilled)
<1> SUFFICES ASSUME Rx!SizeAssumption PROVE Rx!Spec => []Rx!RqRefilled
  OBVIOUS
<1>1. Rx!RingInv => Rx!RqRefilled
  BY DEF Rx!RingInv, Rx!RingTypes, Rx!RqRefilled, Rx!SizeAssumption
<1> QED
  BY <1>1, RingInvariantHolds, PTL

-----------------------------------------------------------------------------
(* The Nexus *)

LEMMA NexusInit ==
  ASSUME Nex!NexusAssumption, Nex!Init
  PROVE  Nex!NexusInv
<1>1. Nex!NexusTypes
  BY DEF Nex!NexusAssumption, Nex!Init, Nex!NexusTypes, Nex!Thread, Nex!NoId
<1>2. Nex!EtidInv
  BY DEF Nex!NexusAssumption, Nex!Init, Nex!EtidInv, Nex!Thread, Nex!Bg, Nex!NoId
<1>3. Nex!HookInv
  BY DEF Nex!Init, Nex!HookInv
<1> QED
  BY <1>1, <1>2, <1>3 DEF Nex!NexusInv

\* A step that takes no thread ID and touches no Rpc object keeps the IDs in order.
LEMMA EtidKept ==
  ASSUME Nex!EtidInv, UNCHANGED <<launched, cur_etid, etid>>,
         \A r \in Rpc : /\ obj'[r] # "none" => obj[r] # "none" \/ Nex!Constructed
                        /\ obj'[r] \in {"none", "copied"} => obj[r] \in {"none", "copied"}
  PROVE  Nex!EtidInv'
  BY DEF Nex!EtidInv, Nex!Constructed

LEMMA EtidLaunch ==
  ASSUME Nex!NexusAssumption, Nex!NexusInv, Nex!LaunchBg
  PROVE  Nex!EtidInv'
<1>1. /\ launched' = launched + 1 /\ launched < NumBg /\ cur_etid = launched
      /\ UNCHANGED <<cur_etid, etid, obj>>
  BY DEF Nex!LaunchBg
<1>2. launched \in Nat /\ cur_etid \in Nat /\ NumBg \in Nat
  BY DEF Nex!NexusInv, Nex!NexusTypes, Nex!NexusAssumption
<1>3. \A r \in Rpc : obj[r] = "none"
  BY <1>1, <1>2 DEF Nex!NexusInv, Nex!EtidInv, Nex!Constructed
<1> QED
  BY <1>1, <1>2, <1>3 DEF Nex!NexusInv, Nex!EtidInv, Nex!Constructed

LEMMA EtidBg ==
  ASSUME Nex!NexusAssumption, Nex!NexusInv, NEW i \in Nex!Bg, Nex!bg_thread_init(i)
  PROVE  Nex!EtidInv'
<1>1. /\ i < launched /\ etid[i] = Nex!NoId /\ UNCHANGED <<launched, obj>>
      /\ etid' = [etid EXCEPT ![i] = cur_etid] /\ cur_etid' = cur_etid + 1
  BY DEF Nex!bg_thread_init, Nex!tls_registry_init
<1>2. /\ launched \in Nat /\ launched <= NumBg /\ cur_etid \in Nat /\ NumBg \in Nat
      /\ i \in Nat /\ i < NumBg
      /\ etid \in [Nex!Thread -> Nat \cup {Nex!NoId}] /\ i \in Nex!Thread
  BY DEF Nex!NexusInv, Nex!NexusTypes, Nex!NexusAssumption, Nex!Bg, Nex!Thread
<1>3. i = cur_etid
  <2>1. ~(i < cur_etid)
    BY <1>1, <1>2 DEF Nex!NexusInv, Nex!EtidInv, Nex!NoId
  <2>2. launched <= cur_etid + 1
    BY DEF Nex!NexusInv, Nex!EtidInv
  <2> QED
    BY <1>1, <1>2, <2>1, <2>2
<1>4. \A r \in Rpc : obj[r] = "none" /\ etid[r] = Nex!NoId /\ etid'[r] = etid[r]
  <2> SUFFICES ASSUME NEW r \in Rpc PROVE obj[r] = "none" /\ etid[r] = Nex!NoId /\ etid'[r] = etid[r]
    OBVIOUS
  <2>1. r # i /\ r \in Nex!Thread
    BY DEF Nex!NexusAssumption, Nex!Thread
  <2>2. obj[r] = "none"
    BY <1>2, <1>3 DEF Nex!NexusInv, Nex!EtidInv, Nex!Constructed
  <2> QED
    BY <1>1, <1>2, <2>1, <2>2 DEF Nex!NexusInv, Nex!EtidInv
<1>5. \A k \in Nex!Bg : etid'[k] = IF k < cur_etid' THEN k ELSE Nex!NoId
  <2> SUFFICES ASSUME NEW k \in Nex!Bg PROVE etid'[k] = IF k < cur_etid' THEN k ELSE Nex!NoId
    OBVIOUS
  <2>1. etid[k] = IF k < cur_etid THEN k ELSE Nex!NoId
    BY DEF Nex!NexusInv, Nex!EtidInv
  <2>2. k \in Nat /\ k \in Nex!Thread
    BY <1>2 DEF Nex!Bg, Nex!Thread
  <2>3. CASE k = i
    BY <1>1, <1>2, <1>3, <2>2, <2>3
  <2>4. CASE k # i
    BY <1>1, <1>2, <1>3, <2>1, <2>2, <2>4
  <2> QED
    BY <2>3, <2>4
<1>6. launched' <= cur_etid' + 1 /\ (cur_etid' > launched' => launched' = NumBg)
  BY <1>1, <1>2, <1>3 DEF Nex!NexusInv, Nex!EtidInv
<1> QED
  BY <1>1, <1>4, <1>5, <1>6 DEF Nex!EtidInv

LEMMA EtidRpc ==
  ASSUME Nex!NexusAssumption, Nex!NexusInv, NEW r \in Rpc, Nex!rpc_init(r)
  PROVE  Nex!EtidInv'
<1>1. /\ obj[r] = "copied" /\ etid[r] = Nex!NoId /\ UNCHANGED launched
      /\ obj' = [obj EXCEPT ![r] = "init"]
      /\ etid' = [etid EXCEPT ![r] = cur_etid] /\ cur_etid' = cur_etid + 1
  BY DEF Nex!rpc_init, Nex!tls_registry_init
<1>2. /\ launched = NumBg /\ cur_etid \in Nat /\ NumBg \in Nat /\ NumBg <= cur_etid
      /\ etid \in [Nex!Thread -> Nat \cup {Nex!NoId}] /\ r \in Nex!Thread
      /\ Nex!NoId \notin Nat
  <2>1. Nex!Constructed
    BY <1>1 DEF Nex!NexusInv, Nex!EtidInv
  <2> QED
    BY <2>1 DEF Nex!NexusInv, Nex!NexusTypes, Nex!NexusAssumption, Nex!Thread, Nex!Constructed,
                Nex!NoId
<1>3. \A k \in Nex!Bg : etid'[k] = IF k < cur_etid' THEN k ELSE Nex!NoId
  <2> SUFFICES ASSUME NEW k \in Nex!Bg PROVE etid'[k] = IF k < cur_etid' THEN k ELSE Nex!NoId
    OBVIOUS
  <2>1. etid[k] = IF k < cur_etid THEN k ELSE Nex!NoId
    BY DEF Nex!NexusInv, Nex!EtidInv
  <2>2. k \in Nat /\ k < NumBg /\ k # r /\ k \in Nex!Thread
    BY <1>2 DEF Nex!Bg, Nex!Thread, Nex!NexusAssumption
  <2> QED
    BY <1>1, <1>2, <2>1, <2>2
<1>4. \A q \in Rpc : q # r => etid'[q] = etid[q] /\ obj'[q] = obj[q] /\ q \in Nex!Thread
  BY <1>1, <1>2 DEF Nex!NexusInv, Nex!NexusTypes, Nex!Thread
<1>5. etid'[r] = cur_etid /\ obj'[r] = "init" /\ cur_etid # Nex!NoId
  BY <1>1, <1>2 DEF Nex!NexusInv, Nex!NexusTypes
<1>6. \A q \in Rpc : etid[q] # Nex!NoId => /\ NumBg <= etid[q] /\ etid[q] < cur_etid
                                          /\ etid[q] # cur_etid /\ etid[q] < cur_etid'
  BY <1>1, <1>2 DEF Nex!NexusInv, Nex!EtidInv, Nex!Thread
<1>7. Nex!Constructed' /\ launched' <= cur_etid' + 1 /\ launched' = NumBg
  BY <1>1, <1>2 DEF Nex!Constructed
<1>8. \A q \in Rpc : /\ obj'[q] \in {"none", "copied"} => etid'[q] = Nex!NoId
                     /\ etid'[q] # Nex!NoId => NumBg <= etid'[q] /\ etid'[q] < cur_etid'
  <2> SUFFICES ASSUME NEW q \in Rpc
               PROVE  /\ obj'[q] \in {"none", "copied"} => etid'[q] = Nex!NoId
                      /\ etid'[q] # Nex!NoId => NumBg <= etid'[q] /\ etid'[q] < cur_etid'
    OBVIOUS
  <2>1. CASE q = r
    BY <1>1, <1>2, <1>5, <2>1
  <2>2. CASE q # r
    BY <1>4, <1>6, <2>2 DEF Nex!NexusInv, Nex!EtidInv
  <2> QED
    BY <2>1, <2>2
<1>9. \A p, q \in Rpc : etid'[p] = etid'[q] /\ etid'[p] # Nex!NoId => p = q
  BY <1>4, <1>5, <1>6 DEF Nex!NexusInv, Nex!EtidInv
<1> QED
  BY <1>3, <1>7, <1>8, <1>9 DEF Nex!EtidInv

\* Every action but the three that launch a thread or take an ID leaves the IDs alone.
LEMMA EtidStep ==
  ASSUME Nex!NexusAssumption, Nex!NexusInv, [Nex!Next]_Nex!vars
  PROVE  Nex!EtidInv'
<1>1. CASE Nex!LaunchBg
  BY <1>1, EtidLaunch
<1>2. ASSUME NEW i \in Nex!Bg, Nex!bg_thread_init(i) PROVE Nex!EtidInv'
  BY <1>2, EtidBg
<1>3. ASSUME NEW r \in Rpc, Nex!rpc_init(r) PROVE Nex!EtidInv'
  BY <1>3, EtidRpc
<1>4. Nex!EtidInv /\ obj \in [Rpc -> {"none", "copied", "init", "live", "closing", "dead"}]
  BY DEF Nex!NexusInv, Nex!NexusTypes
<1>5. ASSUME NEW r \in Rpc,
             \/ Nex!rpc_construct(r) \/ Nex!register_hook(r) \/ Nex!rpc_destroy(r)
             \/ Nex!unregister_hook(r)
      PROVE  Nex!EtidInv'
  BY <1>4, <1>5, EtidKept DEF Nex!rpc_construct, Nex!register_hook, Nex!rpc_destroy,
                              Nex!unregister_hook, Nex!threadVars
<1>6. ASSUME NEW r \in Rpc, Nex!sm_thread_lookup(r) \/ Nex!sm_thread_refuse(r)
      PROVE  Nex!EtidInv'
  BY <1>4, <1>6, EtidKept DEF Nex!sm_thread_lookup, Nex!sm_thread_refuse, Nex!threadVars
<1>7. ASSUME NEW type \in ReqType, Nex!register_req_func(type) PROVE Nex!EtidInv'
  BY <1>4, <1>7, EtidKept DEF Nex!register_req_func, Nex!threadVars
<1>8. CASE Nex!DestroyNexus \/ Nex!sm_thread_push \/ UNCHANGED Nex!vars
  BY <1>4, <1>8, EtidKept DEF Nex!DestroyNexus, Nex!sm_thread_push, Nex!threadVars, Nex!vars
<1> QED
  BY <1>1, <1>2, <1>3, <1>5, <1>6, <1>7, <1>8 DEF Nex!Next

LEMMA NexusTypesStep ==
  ASSUME Nex!NexusAssumption, Nex!NexusInv, [Nex!Next]_Nex!vars
  PROVE  Nex!NexusTypes'
<1> USE DEF Nex!NexusInv, Nex!NexusTypes
<1>1. CASE Nex!LaunchBg
  BY <1>1 DEF Nex!LaunchBg, Nex!smVars, Nex!NexusAssumption
<1>0. ASSUME NEW t, Nex!tls_registry_init(t)
      PROVE  etid' \in [Nex!Thread -> Nat \cup {Nex!NoId}] /\ cur_etid' \in Nat
  <2>1. etid' = [etid EXCEPT ![t] = cur_etid] /\ cur_etid \in Nat
    BY <1>0 DEF Nex!tls_registry_init
  <2>2. etid' \in [Nex!Thread -> Nat \cup {Nex!NoId}]
    BY <2>1
  <2> QED
    BY <1>0, <2>1, <2>2 DEF Nex!tls_registry_init
<1>2. ASSUME NEW i \in Nex!Bg, Nex!bg_thread_init(i) PROVE Nex!NexusTypes'
  BY <1>0, <1>2 DEF Nex!bg_thread_init, Nex!smVars
<1>3. ASSUME NEW r \in Rpc, Nex!rpc_init(r) PROVE Nex!NexusTypes'
  BY <1>0, <1>3 DEF Nex!rpc_init, Nex!smVars
<1>5. ASSUME NEW r \in Rpc,
             \/ Nex!rpc_construct(r) \/ Nex!register_hook(r) \/ Nex!rpc_destroy(r)
             \/ Nex!unregister_hook(r)
      PROVE  Nex!NexusTypes'
  BY <1>5 DEF Nex!rpc_construct, Nex!register_hook, Nex!rpc_destroy,
              Nex!unregister_hook, Nex!threadVars, Nex!smVars
<1>6. ASSUME NEW r \in Rpc, Nex!sm_thread_lookup(r) \/ Nex!sm_thread_refuse(r)
      PROVE  Nex!NexusTypes'
  BY <1>6 DEF Nex!sm_thread_lookup, Nex!sm_thread_refuse, Nex!threadVars
<1>7. ASSUME NEW type \in ReqType, Nex!register_req_func(type) PROVE Nex!NexusTypes'
  BY <1>7 DEF Nex!register_req_func, Nex!threadVars, Nex!smVars
<1>8. CASE Nex!DestroyNexus \/ Nex!sm_thread_push \/ UNCHANGED Nex!vars
  BY <1>8 DEF Nex!DestroyNexus, Nex!sm_thread_push, Nex!threadVars, Nex!smVars, Nex!vars
<1> QED
  BY <1>1, <1>2, <1>3, <1>5, <1>6, <1>7, <1>8 DEF Nex!Next

LEMMA HookStep ==
  ASSUME Nex!NexusAssumption, Nex!NexusInv, [Nex!Next]_Nex!vars
  PROVE  Nex!HookInv'
<1> USE DEF Nex!HookInv
<1>1. /\ obj \in [Rpc -> {"none", "copied", "init", "live", "closing", "dead"}]
      /\ hooks \in [Rpc -> BOOLEAN] /\ target \in Rpc \cup {NoRpc} /\ NoRpc \notin Rpc
      /\ Nex!HookInv
  BY DEF Nex!NexusInv, Nex!NexusTypes, Nex!NexusAssumption
<1>2. ASSUME NEW r \in Rpc,
             Nex!rpc_construct(r) \/ Nex!rpc_init(r) \/ Nex!rpc_destroy(r)
      PROVE  Nex!HookInv'
  BY <1>1, <1>2 DEF Nex!rpc_construct, Nex!rpc_init, Nex!rpc_destroy, Nex!smVars
<1>3. ASSUME NEW r \in Rpc, Nex!register_hook(r) \/ Nex!unregister_hook(r)
      PROVE  Nex!HookInv'
  BY <1>1, <1>3 DEF Nex!register_hook, Nex!unregister_hook, Nex!smVars
<1>4. ASSUME NEW r \in Rpc, Nex!sm_thread_lookup(r) \/ Nex!sm_thread_refuse(r)
      PROVE  Nex!HookInv'
  BY <1>1, <1>4 DEF Nex!sm_thread_lookup, Nex!sm_thread_refuse
<1>5. CASE Nex!sm_thread_push
  BY <1>1, <1>5 DEF Nex!sm_thread_push
<1>6. ASSUME NEW i \in Nex!Bg, Nex!bg_thread_init(i) PROVE Nex!HookInv'
  BY <1>1, <1>6 DEF Nex!bg_thread_init, Nex!smVars
<1>7. ASSUME NEW type \in ReqType, Nex!register_req_func(type) PROVE Nex!HookInv'
  BY <1>1, <1>7 DEF Nex!register_req_func, Nex!smVars
<1>8. CASE Nex!LaunchBg \/ Nex!DestroyNexus \/ UNCHANGED Nex!vars
  BY <1>1, <1>8 DEF Nex!LaunchBg, Nex!DestroyNexus, Nex!smVars, Nex!vars
<1> QED
  BY <1>2, <1>3, <1>4, <1>5, <1>6, <1>7, <1>8 DEF Nex!Next

\* The invariant of the Nexus holds, for any number of threads and Rpc objects.
THEOREM NexusInvariantHolds == Nex!NexusAssumption => (Nex!Spec => []Nex!NexusInv)
<1> SUFFICES ASSUME Nex!NexusAssumption PROVE Nex!Spec => []Nex!NexusInv
  OBVIOUS
<1>1. Nex!Init => Nex!NexusInv
  BY NexusInit
<1>2. Nex!NexusInv /\ [Nex!Next]_Nex!vars => Nex!NexusInv'
  BY EtidStep, NexusTypesStep, HookStep DEF Nex!NexusInv
<1> QED
  BY <1>1, <1>2, PTL DEF Nex!Spec

\* A background thread's eRPC thread ID is its index, under which the Rpc finds its
\* queue of work items (bg_req_queue_arr_[bg_etid]), and no two threads share an ID.
THEOREM EtidsAreIndexes == Nex!NexusAssumption => (Nex!Spec => []Nex!EtidIsIndex)
<1> SUFFICES ASSUME Nex!NexusAssumption PROVE Nex!Spec => []Nex!EtidIsIndex
  OBVIOUS
<1>1. Nex!NexusInv => Nex!EtidIsIndex
  <2> SUFFICES ASSUME Nex!NexusInv PROVE Nex!EtidIsIndex
    OBVIOUS
  <2>1. \A i \in Nex!Bg : etid[i] \in {Nex!NoId, i} /\ i \in Nat /\ i < NumBg
    BY DEF Nex!NexusInv, Nex!EtidInv, Nex!Bg, Nex!NexusAssumption
  <2>2. ASSUME NEW t \in Nex!Thread, NEW u \in Nex!Thread, etid[t] = etid[u], etid[t] # Nex!NoId
        PROVE  t = u
    <3>1. \A r \in Rpc : etid[r] # Nex!NoId => NumBg <= etid[r] /\ etid[r] \in Nat
      BY DEF Nex!NexusInv, Nex!NexusTypes, Nex!EtidInv, Nex!Thread
    <3>2. CASE t \in Rpc /\ u \in Rpc
      BY <2>2, <3>2 DEF Nex!NexusInv, Nex!EtidInv
    <3>3. CASE t \in Nex!Bg /\ u \in Nex!Bg
      BY <2>1, <2>2, <3>3
    <3>4. CASE (t \in Nex!Bg /\ u \in Rpc) \/ (t \in Rpc /\ u \in Nex!Bg)
      BY <2>1, <2>2, <3>1, <3>4 DEF Nex!NexusAssumption
    <3> QED
      BY <3>2, <3>3, <3>4 DEF Nex!Thread
  <2> QED
    BY <2>1, <2>2 DEF Nex!EtidIsIndex
<1> QED
  BY <1>1, NexusInvariantHolds, PTL

\* The session management thread never pushes to the hook of an Rpc that is gone,
\* although the Rpc's thread destroys it at any time.
THEOREM HooksAreAlive == Nex!NexusAssumption => (Nex!Spec => []Nex!HookIsAlive)
<1> SUFFICES ASSUME Nex!NexusAssumption PROVE Nex!Spec => []Nex!HookIsAlive
  OBVIOUS
<1>1. Nex!NexusInv => Nex!HookIsAlive
  BY DEF Nex!NexusInv, Nex!NexusTypes, Nex!HookInv, Nex!HookIsAlive
<1> QED
  BY <1>1, NexusInvariantHolds, PTL

-----------------------------------------------------------------------------
(* The background threads *)

\* The fields of a work item.
LEMMA WorkFields ==
  ASSUME NEW x \in Bg!Work
  PROVE  x.r \in Request /\ x.kind \in {"req", "cont", "resp"}
  BY DEF Bg!Work

LEMMA BgDistinct ==
  ASSUME Bg!BgAssumption
  PROVE  /\ D \in Bg!Thread /\ Bg!Bg \subseteq Bg!Thread /\ D \notin Bg!Bg
         /\ ReqQ \in Bg!Queue /\ RespQ \in Bg!Queue /\ Bg!Bg \subseteq Bg!Queue
         /\ ReqQ # RespQ /\ ReqQ \notin Bg!Bg /\ RespQ \notin Bg!Bg /\ Free \notin Bg!Thread
  BY DEF Bg!BgAssumption, Bg!Thread, Bg!Queue

LEMMA BgInit ==
  ASSUME Bg!BgAssumption, Bg!Init
  PROVE  Bg!BgInv
<1>1. /\ \A q \in Bg!Queue : queue[q] = <<>> /\ size[q] = 0 /\ lock[q] = Free
      /\ \A t \in Bg!Thread : pc[t].at = "loop"
      /\ \A r \in Request : where[r] = "client" /\ issuer[r] = D /\ ran[r] = D
  BY DEF Bg!Init, Bg!Loop
<1>2. Bg!BgTypes
  <2>1. queue \in [Bg!Queue -> Seq(Bg!Work)]
    BY DEF Bg!Init
  <2> QED
    BY <1>1, <2>1, BgDistinct DEF Bg!Init, Bg!BgTypes, Bg!InHand
<1>3. Bg!LockInv
  BY <1>1 DEF Bg!LockInv
<1>4. Bg!SeenInv
  BY <1>1, BgDistinct DEF Bg!SeenInv
<1>5. Bg!ItemsInv
  BY <1>1 DEF Bg!ItemsInv, Bg!InHand
<1>6. Bg!PlaceInv
  BY <1>1 DEF Bg!PlaceInv, Bg!InHand
<1>7. Bg!ContinuationAtIssuer
  BY <1>1 DEF Bg!ContinuationAtIssuer
<1> QED
  BY <1>2, <1>3, <1>4, <1>5, <1>6, <1>7 DEF Bg!BgInv

\* A push by thread t of item x to queue q: what unlocked_push changes.
Push(t, q, x, next) ==
  /\ lock[q] = Free
  /\ queue' = [queue EXCEPT ![q] = Append(@, x)]
  /\ lock' = [lock EXCEPT ![q] = t]
  /\ pc' = [pc EXCEPT ![t] = [at |-> "pushed", q |-> q, next |-> next]]
  /\ size' = size /\ left' = left

\* What a push does to the queues and to the threads.
LEMMA PushEffect ==
  ASSUME Bg!BgTypes, NEW t \in Bg!Thread, NEW q \in Bg!Queue, NEW x \in Bg!Work, NEW next,
         Push(t, q, x, next)
  PROVE  /\ queue' \in [Bg!Queue -> Seq(Bg!Work)]
         /\ \A p \in Bg!Queue : /\ Len(queue[p]) \in Nat
                                /\ Len(queue'[p]) = Len(queue[p]) + (IF p = q THEN 1 ELSE 0)
                                /\ \A i \in 1 .. Len(queue[p]) : queue'[p][i] = queue[p][i]
                                /\ p # q => queue'[p] = queue[p] /\ lock'[p] = lock[p]
         /\ queue'[q][Len(queue[q]) + 1] = x /\ lock'[q] = t
         /\ pc' = [u \in Bg!Thread |-> pc'[u]]
         /\ pc'[t] = [at |-> "pushed", q |-> q, next |-> next]
         /\ \A u \in Bg!Thread : u # t => pc'[u] = pc[u]
<1>1. queue \in [Bg!Queue -> Seq(Bg!Work)] /\ lock \in [Bg!Queue -> Bg!Thread \cup {Free}]
      /\ pc = [u \in Bg!Thread |-> pc[u]]
  BY DEF Bg!BgTypes
<1>2. queue'[q] = Append(queue[q], x) /\ \A p \in Bg!Queue : p # q => queue'[p] = queue[p]
  BY <1>1 DEF Push
<1>3. /\ Append(queue[q], x) \in Seq(Bg!Work) /\ Len(Append(queue[q], x)) = Len(queue[q]) + 1
      /\ Append(queue[q], x)[Len(queue[q]) + 1] = x
      /\ \A i \in 1 .. Len(queue[q]) : Append(queue[q], x)[i] = queue[q][i]
  BY <1>1
<1>4. \A p \in Bg!Queue : queue[p] \in Seq(Bg!Work) /\ Len(queue[p]) \in Nat
  BY <1>1
<1>5. queue' \in [Bg!Queue -> Seq(Bg!Work)]
  BY <1>1, <1>3 DEF Push
<1>6. /\ \A p \in Bg!Queue : p # q => lock'[p] = lock[p]
      /\ lock'[q] = t
  BY <1>1 DEF Push
<1>7. /\ pc' = [u \in Bg!Thread |-> pc'[u]] /\ pc'[t] = [at |-> "pushed", q |-> q, next |-> next]
      /\ \A u \in Bg!Thread : u # t => pc'[u] = pc[u]
  BY <1>1 DEF Push
<1>8. ASSUME NEW p \in Bg!Queue
      PROVE  /\ Len(queue'[p]) = Len(queue[p]) + (IF p = q THEN 1 ELSE 0)
             /\ \A i \in 1 .. Len(queue[p]) : queue'[p][i] = queue[p][i]
  <2>1. CASE p = q
    BY <1>2, <1>3, <2>1
  <2>2. CASE p # q
    BY <1>2, <1>4, <2>2
  <2> QED
    BY <2>1, <2>2
<1> QED
  BY <1>2, <1>3, <1>4, <1>5, <1>6, <1>7, <1>8

\* A push keeps the types and the agreement of locks, sizes and queues: the queue grows
\* while its lock is held, and the count follows.
LEMMA PushKeepsLocks ==
  ASSUME Bg!BgAssumption, Bg!BgTypes, Bg!LockInv, Bg!SeenInv,
         NEW t \in Bg!Thread, NEW q \in Bg!Queue, NEW x \in Bg!Work, NEW next,
         Push(t, q, x, next), next.at \in {"loop", "inner"},
         pc[t].at \notin {"pushed", "popped"}
  PROVE  Bg!LockInv' /\ Bg!SeenInv'
<1>1. /\ \A p \in Bg!Queue : /\ Len(queue[p]) \in Nat
                             /\ Len(queue'[p]) = Len(queue[p]) + (IF p = q THEN 1 ELSE 0)
                             /\ p # q => queue'[p] = queue[p] /\ lock'[p] = lock[p]
      /\ lock'[q] = t /\ pc'[t] = [at |-> "pushed", q |-> q, next |-> next]
      /\ \A u \in Bg!Thread : u # t => pc'[u] = pc[u]
  BY PushEffect DEF Bg!BgTypes
<1>2. pc'[t].at = "pushed" /\ pc'[t].q = q
  BY <1>1
<1>3. lock[q] = Free /\ size' = size /\ left' = left
  BY DEF Push
<1>4. \A u \in Bg!Thread : pc[u].at \in {"pushed", "pop", "popped"} => pc[u].q \in Bg!Queue
  BY DEF Bg!BgTypes
<1>5. \A p \in Bg!Queue : lock[p] # Free => lock[p] \in Bg!Thread /\ lock[p] # t
  <2>1. \A p \in Bg!Queue : lock[p] \in Bg!Thread \cup {Free}
    BY DEF Bg!BgTypes
  <2>2. \A p \in Bg!Queue : lock[p] # Free => pc[lock[p]].at \in {"pushed", "popped"}
    BY DEF Bg!LockInv
  <2> QED
    BY <2>1, <2>2
<1>6. Bg!LockInv'
  <2>1. ASSUME NEW u \in Bg!Thread, pc'[u].at \in {"pushed", "popped"}
        PROVE  lock'[pc'[u].q] = u
    <3>1. CASE u = t
      BY <1>1, <1>2, <3>1
    <3>2. CASE u # t
      <4>1. pc'[u] = pc[u] /\ lock[pc[u].q] = u /\ pc[u].q \in Bg!Queue
        BY <1>1, <1>4, <2>1, <3>2 DEF Bg!LockInv
      <4>2. pc[u].q # q
        BY <1>3, <4>1, BgDistinct
      <4> QED
        BY <1>1, <4>1, <4>2
    <3> QED
      BY <3>1, <3>2
  <2>2. ASSUME NEW u \in Bg!Thread, pc'[u].at \in {"pop", "popped"}
        PROVE  pc'[u].q \in Bg!Owns(u)'
    BY <1>1, <1>2, <2>2 DEF Bg!LockInv, Bg!Owns
  <2>3. ASSUME NEW p \in Bg!Queue
        PROVE  /\ lock'[p] # Free => pc'[lock'[p]].at \in {"pushed", "popped"} /\ pc'[lock'[p]].q = p
               /\ Len(queue'[p]) - size'[p] =
                    IF lock'[p] = Free THEN 0
                    ELSE IF pc'[lock'[p]].at = "pushed" THEN 1 ELSE 0 - 1
    <3>1. CASE p = q
      <4>1. Len(queue[q]) - size[q] = 0
        BY <1>3 DEF Bg!LockInv
      <4>2. size[q] \in Int
        BY DEF Bg!BgTypes
      <4> QED
        <5>1. lock'[p] = t /\ t # Free /\ pc'[t].at = "pushed" /\ pc'[t].q = p
          BY <1>1, <1>2, <3>1, BgDistinct
        <5>2. Len(queue'[p]) = Len(queue[q]) + 1 /\ Len(queue[q]) \in Nat
          BY <1>1, <3>1
        <5>3. size'[p] = size[q]
          BY <1>3, <3>1
        <5>4. Len(queue'[p]) - size'[p] = 1
          BY <4>1, <4>2, <5>2, <5>3
        <5> QED
          BY <5>1, <5>4
    <3>2. CASE p # q
      <4>1. queue'[p] = queue[p] /\ lock'[p] = lock[p] /\ size'[p] = size[p]
        BY <1>1, <1>3, <3>2
      <4>2. lock[p] # Free => pc'[lock[p]] = pc[lock[p]]
        BY <1>1, <1>5
      <4> QED
        BY <4>1, <4>2 DEF Bg!LockInv
    <3> QED
      BY <3>1, <3>2
  <2> QED
    BY <2>1, <2>2, <2>3 DEF Bg!LockInv
<1>7. Bg!SeenInv'
  <2>1. \A p \in Bg!Queue : Len(queue'[p]) \in Nat /\ Len(queue'[p]) >= Len(queue[p])
    <3> SUFFICES ASSUME NEW p \in Bg!Queue
                 PROVE  Len(queue'[p]) \in Nat /\ Len(queue'[p]) >= Len(queue[p])
      OBVIOUS
    <3> DEFINE n == Len(queue[p])
               m == Len(queue'[p])
    <3>1. n \in Nat /\ m = n + (IF p = q THEN 1 ELSE 0)
      BY <1>1
    <3> HIDE DEF n, m
    <3>2. m \in Nat /\ m >= n
      BY <3>1
    <3> QED
      BY <3>2 DEF n, m
  <2>2. left \in Int
    BY DEF Bg!BgTypes
  <2>3. ASSUME NEW u \in Bg!Bg, pc'[u].at = "pop"
        PROVE  Len(queue'[u]) >= 1
    <3>1. u # t /\ u \in Bg!Thread /\ u \in Bg!Queue
      BY <1>2, <2>3, BgDistinct
    <3>2. Len(queue[u]) >= 1
      BY <1>1, <2>3, <3>1 DEF Bg!SeenInv
    <3> QED
      BY <1>1, <2>1, <3>1, <3>2
  <2>4. CASE D = t
    BY <1>2, <2>3, <2>4 DEF Bg!SeenInv
  <2>5. CASE D # t
    <3>1. pc'[D] = pc[D] /\ D \in Bg!Thread
      BY <1>1, <2>5, BgDistinct
    <3>2. Bg!Source(pc[D].item) \in Bg!Queue
      BY BgDistinct DEF Bg!Source
    <3>3. pc[D].at \in {"pop", "popped"} => pc[D].q \in Bg!Queue
      BY <1>4, <3>1
    <3>4. Bg!Source(pc[D].item)' = Bg!Source(pc[D].item)
      BY <3>1 DEF Bg!Source
    <3>5. pc[D].at = "pop" => left >= 1 /\ Len(queue'[pc[D].q]) >= left
      BY <1>1, <2>1, <2>2, <3>3 DEF Bg!SeenInv
    <3>6. pc[D].at = "popped" =>
            Len(queue'[pc[D].q]) >= left - 1 /\ pc[D].q = Bg!Source(pc[D].item)
      BY <1>1, <2>1, <2>2, <3>3 DEF Bg!SeenInv
    <3>7. pc[D].at = "run" => Len(queue'[Bg!Source(pc[D].item)]) >= left - 1
      BY <1>1, <2>1, <2>2, <3>2 DEF Bg!SeenInv
    <3> QED
      BY <1>3, <2>3, <3>1, <3>4, <3>5, <3>6, <3>7 DEF Bg!SeenInv
  <2> QED
    BY <2>4, <2>5
<1> QED
  BY <1>6, <1>7

\* A push keeps the items in their places: t puts x in q, and no other queue or thread has
\* an item of that request.
LEMMA PushKeepsItems ==
  ASSUME Bg!BgAssumption, Bg!BgTypes, Bg!ItemsInv, Bg!PlaceInv,
         NEW t \in Bg!Thread, NEW q \in Bg!Queue, NEW x \in Bg!Work, NEW next,
         Push(t, q, x, next),
         \A p \in Bg!Queue : \A i \in 1 .. Len(queue[p]) : queue[p][i].r # x.r,
         \A u \in Bg!Thread : u # t /\ Bg!InHand(u) => pc[u].item.r # x.r,
         Bg!InHand(t) => pc[t].item.r = x.r,
         \A r \in Request : r # x.r =>
           where'[r] = where[r] /\ issuer'[r] = issuer[r] /\ ran'[r] = ran[r],
         Bg!ItemInv(x, q)'
  PROVE  Bg!ItemsInv' /\ Bg!PlaceInv'
<1>1. /\ queue \in [Bg!Queue -> Seq(Bg!Work)]
      /\ \A p \in Bg!Queue : /\ Len(queue[p]) \in Nat
                             /\ Len(queue'[p]) = Len(queue[p]) + (IF p = q THEN 1 ELSE 0)
                             /\ \A i \in 1 .. Len(queue[p]) : queue'[p][i] = queue[p][i]
      /\ queue'[q][Len(queue[q]) + 1] = x
      /\ pc'[t] = [at |-> "pushed", q |-> q, next |-> next]
      /\ \A u \in Bg!Thread : u # t => pc'[u] = pc[u]
  BY PushEffect DEF Bg!BgTypes
<1>2. ~Bg!InHand(t)' /\ \A u \in Bg!Thread : u # t => Bg!InHand(u)' = Bg!InHand(u)
  BY <1>1 DEF Bg!InHand
<1>3. ASSUME NEW p \in Bg!Queue, NEW i \in 1 .. Len(queue'[p])
      PROVE  \/ i \in 1 .. Len(queue[p]) /\ queue'[p][i] = queue[p][i] /\ queue[p][i] \in Bg!Work
             \/ p = q /\ i = Len(queue[q]) + 1 /\ queue'[p][i] = x
  <2>1. \A k \in 1 .. Len(queue[p]) : queue[p][k] \in Bg!Work
    BY <1>1
  <2> QED
    BY <1>1, <1>3, <2>1
<1>4. \A y \in Bg!Work, p \in Bg!Queue : y.r # x.r /\ Bg!ItemInv(y, p) => Bg!ItemInv(y, p)'
  BY WorkFields DEF Bg!ItemInv
<1>5. x.r \in Request /\ where'[x.r] \in {"server", "nested"}
  BY WorkFields DEF Bg!ItemInv
<1>6. Bg!ItemsInv'
  <2>1. ASSUME NEW p \in Bg!Queue, NEW i \in 1 .. Len(queue'[p])
        PROVE  Bg!ItemInv(queue[p][i], p)'
    <3>1. CASE i \in 1 .. Len(queue[p]) /\ queue'[p][i] = queue[p][i] /\ queue[p][i] \in Bg!Work
      <4>1. Bg!ItemInv(queue[p][i], p) /\ queue[p][i].r # x.r
        BY <3>1 DEF Bg!ItemsInv
      <4> QED
        <5>1. PICK y \in Bg!Work : y = queue[p][i]
          BY <3>1
        <5>2. Bg!ItemInv(y, p) /\ y.r # x.r
          BY <4>1, <5>1
        <5>3. Bg!ItemInv(y, p)'
          BY <1>4, <5>2
        <5> QED
          BY <3>1, <5>1, <5>3
    <3>2. CASE p = q /\ queue'[p][i] = x
      BY <3>2
    <3> QED
      BY <1>3, <3>1, <3>2
  <2>2. ASSUME NEW u \in Bg!Thread, Bg!InHand(u)'
        PROVE  Bg!ItemInv(pc[u].item, IF u = D THEN Bg!Source(pc[u].item) ELSE u)'
    <3>1. u # t /\ pc'[u] = pc[u] /\ Bg!InHand(u)
      BY <1>1, <1>2, <2>2
    <3>2. PICK y \in Bg!Work : y = pc[u].item
      BY <3>1 DEF Bg!BgTypes
    <3>3. PICK p \in Bg!Queue : p = IF u = D THEN Bg!Source(y) ELSE u
      BY BgDistinct DEF Bg!Source, Bg!Thread
    <3>4. Bg!ItemInv(y, p) /\ y.r # x.r
      BY <3>1, <3>2, <3>3 DEF Bg!ItemsInv
    <3>5. Bg!ItemInv(y, p)'
      BY <1>4, <3>4
    <3> QED
      BY <3>1, <3>2, <3>3, <3>5
  <2>3. \A r \in Request : /\ where'[r] \in {"client", "sent"} => ran'[r] = D
                           /\ where'[r] = "sent" => issuer'[r] \in Bg!Bg
    BY <1>5 DEF Bg!ItemsInv
  <2> QED
    BY <2>1, <2>2, <2>3 DEF Bg!ItemsInv
<1>7. Bg!PlaceInv'
  <2>1. ASSUME NEW p1 \in Bg!Queue, NEW p2 \in Bg!Queue,
               NEW i \in 1 .. Len(queue'[p1]), NEW j \in 1 .. Len(queue'[p2]),
               queue'[p1][i].r = queue'[p2][j].r
        PROVE  p1 = p2 /\ i = j
    <3>1. CASE /\ i \in 1 .. Len(queue[p1]) /\ queue'[p1][i] = queue[p1][i]
               /\ j \in 1 .. Len(queue[p2]) /\ queue'[p2][j] = queue[p2][j]
      BY <2>1, <3>1 DEF Bg!PlaceInv
    <3>2. CASE /\ i \in 1 .. Len(queue[p1]) /\ queue'[p1][i] = queue[p1][i]
               /\ queue'[p2][j] = x
      BY <2>1, <3>2
    <3>3. CASE /\ queue'[p1][i] = x
               /\ j \in 1 .. Len(queue[p2]) /\ queue'[p2][j] = queue[p2][j]
      BY <2>1, <3>3
    <3>4. CASE p1 = q /\ i = Len(queue[q]) + 1 /\ p2 = q /\ j = Len(queue[q]) + 1
      BY <3>4
    <3> QED
      BY <1>3, <3>1, <3>2, <3>3, <3>4
  <2>2. ASSUME NEW u \in Bg!Thread, NEW v \in Bg!Thread, Bg!InHand(u)', Bg!InHand(v)',
               pc'[u].item.r = pc'[v].item.r
        PROVE  u = v
    BY <1>1, <1>2, <2>2 DEF Bg!PlaceInv
  <2>3. ASSUME NEW u \in Bg!Thread, NEW p \in Bg!Queue, Bg!InHand(u)',
               NEW i \in 1 .. Len(queue'[p])
        PROVE  queue'[p][i].r # pc'[u].item.r
    <3>1. u # t /\ pc'[u] = pc[u] /\ Bg!InHand(u)
      BY <1>1, <1>2, <2>3
    <3> QED
      BY <1>3, <3>1 DEF Bg!PlaceInv
  <2>4. ASSUME NEW r \in Request, where'[r] \in {"server", "nested"}
        PROVE  \/ \E p \in Bg!Queue : \E i \in 1 .. Len(queue'[p]) : queue'[p][i].r = r
               \/ \E u \in Bg!Thread : Bg!InHand(u)' /\ pc'[u].item.r = r
    <3>1. CASE r = x.r
      <4>1. Len(queue[q]) + 1 \in 1 .. Len(queue'[q])
        BY <1>1
      <4> QED
        BY <1>1, <3>1, <4>1
    <3>2. CASE r # x.r /\ \E p \in Bg!Queue : \E i \in 1 .. Len(queue[p]) : queue[p][i].r = r
      <4>0. PICK p \in Bg!Queue : \E i \in 1 .. Len(queue[p]) : queue[p][i].r = r
        BY <3>2
      <4>1. PICK i \in 1 .. Len(queue[p]) : queue[p][i].r = r
        BY <4>0
      <4>2. i \in 1 .. Len(queue'[p]) /\ queue'[p][i] = queue[p][i]
        BY <1>1, <4>1
      <4> QED
        BY <4>1, <4>2
    <3>3. CASE r # x.r /\ \E u \in Bg!Thread : Bg!InHand(u) /\ pc[u].item.r = r
      <4>1. PICK u \in Bg!Thread : Bg!InHand(u) /\ pc[u].item.r = r
        BY <3>3
      <4>2. u # t
        BY <3>3, <4>1
      <4> QED
        BY <1>1, <1>2, <4>1, <4>2
    <3> QED
      BY <2>4, <3>1, <3>2, <3>3 DEF Bg!PlaceInv
  <2> QED
    BY <2>1, <2>2, <2>3, <2>4 DEF Bg!PlaceInv
<1> QED
  BY <1>6, <1>7

LEMMA PushKeepsTypes ==
  ASSUME Bg!BgAssumption, Bg!BgTypes,
         NEW t \in Bg!Thread, NEW q \in Bg!Queue, NEW x \in Bg!Work, NEW next,
         Push(t, q, x, next), next.at \in {"loop", "inner"},
         where' \in [Request -> {"client", "server", "nested", "sent", "answered"}],
         issuer' \in [Request -> Bg!Thread], ran' \in [Request -> Bg!Thread]
  PROVE  Bg!BgTypes'
<1>1. /\ queue' \in [Bg!Queue -> Seq(Bg!Work)]
      /\ pc' = [u \in Bg!Thread |-> pc'[u]]
      /\ pc'[t] = [at |-> "pushed", q |-> q, next |-> next]
      /\ \A u \in Bg!Thread : u # t => pc'[u] = pc[u]
  BY PushEffect DEF Bg!BgTypes
<1>2. pc'[t].at = "pushed" /\ pc'[t].q = q /\ pc'[t].next = next
  BY <1>1
<1>3. ASSUME NEW u \in Bg!Thread
      PROVE  /\ pc'[u].at \in {"loop", "inner", "exited", "responses", "pushed", "pop", "popped", "run"}
             /\ pc'[u].at \in {"pushed", "pop", "popped"} => pc'[u].q \in Bg!Queue
             /\ pc'[u].at = "pushed" => pc'[u].next.at \in {"loop", "inner"}
             /\ Bg!InHand(u)' => pc'[u].item \in Bg!Work
             /\ pc'[u].at = "responses" => u = D
  <2>1. CASE u = t
    BY <1>2, <2>1 DEF Bg!InHand
  <2>2. CASE u # t
    BY <1>1, <2>2 DEF Bg!InHand, Bg!BgTypes
  <2> QED
    BY <2>1, <2>2
<1>4. size' \in [Bg!Queue -> Int] /\ left' \in Int
  BY DEF Push, Bg!BgTypes
<1>5. lock' \in [Bg!Queue -> Bg!Thread \cup {Free}]
  BY DEF Push, Bg!BgTypes
<1> QED
  BY <1>1, <1>3, <1>4, <1>5 DEF Bg!BgTypes

\* A push of an item whose request no other thread or queue has keeps the invariant.
LEMMA PushKeepsInv ==
  ASSUME Bg!BgAssumption, Bg!BgInv,
         NEW t \in Bg!Thread, NEW q \in Bg!Queue, NEW x \in Bg!Work, NEW next,
         Push(t, q, x, next), next.at \in {"loop", "inner"},
         pc[t].at \notin {"pushed", "popped"},
         where' \in [Request -> {"client", "server", "nested", "sent", "answered"}],
         issuer' \in [Request -> Bg!Thread], ran' \in [Request -> Bg!Thread],
         \A p \in Bg!Queue : \A i \in 1 .. Len(queue[p]) : queue[p][i].r # x.r,
         \A u \in Bg!Thread : u # t /\ Bg!InHand(u) => pc[u].item.r # x.r,
         Bg!InHand(t) => pc[t].item.r = x.r,
         \A r \in Request : r # x.r =>
           where'[r] = where[r] /\ issuer'[r] = issuer[r] /\ ran'[r] = ran[r],
         Bg!ItemInv(x, q)', ran'[x.r] # D => ran'[x.r] = issuer'[x.r]
  PROVE  Bg!BgInv'
<1> USE DEF Bg!BgInv
<1>1. Bg!BgTypes'
  BY PushKeepsTypes
<1>2. Bg!LockInv' /\ Bg!SeenInv'
  BY PushKeepsLocks
<1>3. Bg!ItemsInv' /\ Bg!PlaceInv'
  BY PushKeepsItems
<1>4. Bg!ContinuationAtIssuer'
  BY DEF Bg!ContinuationAtIssuer
<1> QED
  BY <1>1, <1>2, <1>3, <1>4

\* The dispatch thread may push an item of a request that is not being served.
LEMMA NotServed ==
  ASSUME Bg!BgInv, NEW r \in Request, where[r] \notin {"server", "nested"}
  PROVE  /\ \A p \in Bg!Queue : \A i \in 1 .. Len(queue[p]) : queue[p][i].r # r
         /\ \A u \in Bg!Thread : Bg!InHand(u) => pc[u].item.r # r
  BY DEF Bg!BgInv, Bg!ItemsInv, Bg!ItemInv

LEMMA SubmitReqKeeps ==
  ASSUME Bg!BgAssumption, Bg!BgInv, NEW r \in Request, NEW i \in Bg!Bg,
         Bg!submit_bg_req_st(r, i)
  PROVE  Bg!BgInv'
<1>1. D \in Bg!Thread /\ i \in Bg!Queue /\ i # ReqQ /\ i # RespQ
  BY BgDistinct
<1>2. PICK x \in Bg!Work : x = Bg!Item("req", r)
  BY DEF Bg!Item, Bg!Work
<1>3. x.r = r /\ x.kind = "req"
  BY <1>2 DEF Bg!Item
<1>4. Push(D, i, x, Bg!Loop) /\ Bg!Loop.at = "loop" /\ pc[D].at = "loop"
  BY <1>2 DEF Push, Bg!submit_bg_req_st, Bg!unlocked_push, Bg!Loop
<1>5. where[r] = "client" /\ where' = [where EXCEPT ![r] = "server"]
      /\ issuer' = issuer /\ ran' = ran
  BY DEF Bg!submit_bg_req_st
<1>6. /\ where \in [Request -> {"client", "server", "nested", "sent", "answered"}]
      /\ issuer \in [Request -> Bg!Thread] /\ ran \in [Request -> Bg!Thread]
  BY DEF Bg!BgInv, Bg!BgTypes
<1>7. ran[r] = D
  BY <1>5 DEF Bg!BgInv, Bg!ItemsInv
<1>8. Bg!ItemInv(x, i)'
  BY <1>1, <1>3, <1>5, <1>6, <1>7 DEF Bg!ItemInv
<1>9. /\ \A p \in Bg!Queue : \A j \in 1 .. Len(queue[p]) : queue[p][j].r # r
      /\ \A u \in Bg!Thread : Bg!InHand(u) => pc[u].item.r # r
  BY <1>5, NotServed
<1>10. ~Bg!InHand(D)
  BY <1>4 DEF Bg!InHand
<1>11. /\ where' \in [Request -> {"client", "server", "nested", "sent", "answered"}]
       /\ \A s \in Request : s # r => where'[s] = where[s]
  BY <1>5, <1>6
<1> QED
  BY <1>1, <1>3, <1>4, <1>5, <1>6, <1>7, <1>8, <1>9, <1>10, <1>11, PushKeepsInv

LEMMA SubmitRespKeeps ==
  ASSUME Bg!BgAssumption, Bg!BgInv, NEW r \in Request, Bg!submit_bg_resp_st(r)
  PROVE  Bg!BgInv'
<1>1. where[r] = "sent" /\ where' = [where EXCEPT ![r] = "server"]
      /\ issuer' = issuer /\ ran' = ran
  BY DEF Bg!submit_bg_resp_st
<1>2. PICK i \in Bg!Bg : i = issuer[r]
  BY <1>1 DEF Bg!BgInv, Bg!ItemsInv
<1>3. D \in Bg!Thread /\ i \in Bg!Queue /\ i # ReqQ /\ i # RespQ
  BY BgDistinct
<1>4. PICK x \in Bg!Work : x = Bg!Item("cont", r)
  BY DEF Bg!Item, Bg!Work
<1>5. x.r = r /\ x.kind = "cont"
  BY <1>4 DEF Bg!Item
<1>6. Push(D, i, x, Bg!Loop) /\ Bg!Loop.at = "loop" /\ pc[D].at = "loop"
  BY <1>2, <1>4 DEF Push, Bg!submit_bg_resp_st, Bg!unlocked_push, Bg!Loop, Bg!ContThread
<1>7. /\ where \in [Request -> {"client", "server", "nested", "sent", "answered"}]
      /\ issuer \in [Request -> Bg!Thread] /\ ran \in [Request -> Bg!Thread]
  BY DEF Bg!BgInv, Bg!BgTypes
<1>8. ran[r] = D
  BY <1>1 DEF Bg!BgInv, Bg!ItemsInv
<1>9. Bg!ItemInv(x, i)'
  BY <1>1, <1>2, <1>3, <1>5, <1>7, <1>8 DEF Bg!ItemInv
<1>10. /\ \A p \in Bg!Queue : \A j \in 1 .. Len(queue[p]) : queue[p][j].r # r
       /\ \A u \in Bg!Thread : Bg!InHand(u) => pc[u].item.r # r
  BY <1>1, NotServed
<1>11. ~Bg!InHand(D)
  BY <1>6 DEF Bg!InHand
<1>12. /\ where' \in [Request -> {"client", "server", "nested", "sent", "answered"}]
       /\ \A s \in Request : s # r => where'[s] = where[s]
  BY <1>1, <1>7
<1> QED
  BY <1>1, <1>3, <1>5, <1>6, <1>7, <1>8, <1>9, <1>10, <1>11, <1>12, PushKeepsInv

\* The item that a background thread has in its hands.
LEMMA ItemAtHand ==
  ASSUME Bg!BgAssumption, Bg!BgInv, NEW t \in Bg!Bg, pc[t].at = "run"
  PROVE  /\ t \in Bg!Thread /\ Bg!InHand(t) /\ pc[t].item \in Bg!Work
         /\ Bg!ItemInv(pc[t].item, t)
         /\ \A p \in Bg!Queue : \A i \in 1 .. Len(queue[p]) : queue[p][i].r # pc[t].item.r
         /\ \A u \in Bg!Thread : u # t /\ Bg!InHand(u) => pc[u].item.r # pc[t].item.r
<1>1. t \in Bg!Thread /\ t # D /\ Bg!InHand(t)
  BY BgDistinct DEF Bg!InHand
<1>2. pc[t].item \in Bg!Work
  BY <1>1 DEF Bg!BgInv, Bg!BgTypes
<1>3. Bg!ItemInv(pc[t].item, t)
  BY <1>1 DEF Bg!BgInv, Bg!ItemsInv
<1> QED
  BY <1>1, <1>2, <1>3 DEF Bg!BgInv, Bg!PlaceInv

LEMMA RespondKeeps ==
  ASSUME Bg!BgAssumption, Bg!BgInv, NEW t \in Bg!Bg, Bg!bg_respond(t)
  PROVE  Bg!BgInv'
<1>1. pc[t].at = "run"
  BY DEF Bg!bg_respond
<1>2. PICK y \in Bg!Work : y = pc[t].item
  BY <1>1, ItemAtHand
<1>3. /\ t \in Bg!Thread /\ Bg!ItemInv(y, t)
      /\ \A p \in Bg!Queue : \A i \in 1 .. Len(queue[p]) : queue[p][i].r # y.r
      /\ \A u \in Bg!Thread : u # t /\ Bg!InHand(u) => pc[u].item.r # y.r
  BY <1>1, <1>2, ItemAtHand
<1>4. PICK r \in Request : r = y.r
  BY WorkFields
<1>5. PICK x \in Bg!Work : x = Bg!Item("resp", r)
  BY DEF Bg!Item, Bg!Work
<1>6. x.r = r /\ x.kind = "resp"
  BY <1>5 DEF Bg!Item
<1> DEFINE next == [at |-> "inner"]
<1>7. Push(t, RespQ, x, next) /\ next.at = "inner"
  BY <1>2, <1>4, <1>5 DEF Push, Bg!bg_respond, Bg!unlocked_push
<1>8. /\ where \in [Request -> {"client", "server", "nested", "sent", "answered"}]
      /\ issuer \in [Request -> Bg!Thread] /\ ran \in [Request -> Bg!Thread]
  BY DEF Bg!BgInv, Bg!BgTypes
<1>9. /\ where' = where /\ issuer' = issuer
      /\ ran' = IF y.kind = "cont" THEN [ran EXCEPT ![r] = t] ELSE ran
  BY <1>2, <1>4 DEF Bg!bg_respond
<1>10. ran' \in [Request -> Bg!Thread] /\ \A s \in Request : s # r => ran'[s] = ran[s]
  BY <1>3, <1>8, <1>9
<1>11. ran'[r] # D => ran'[r] = issuer'[r]
  <2>1. CASE y.kind = "cont"
    BY <1>3, <1>4, <1>8, <1>9, <2>1 DEF Bg!ItemInv
  <2>2. CASE y.kind # "cont"
    BY <1>9, <2>2 DEF Bg!BgInv, Bg!ContinuationAtIssuer
  <2> QED
    BY <2>1, <2>2
<1>12. RespQ \in Bg!Queue /\ RespQ # ReqQ /\ RespQ \notin Bg!Bg
  BY BgDistinct
<1>13. Bg!ItemInv(x, RespQ)'
  BY <1>3, <1>4, <1>6, <1>9, <1>12 DEF Bg!ItemInv
<1> HIDE DEF next
<1> QED
  BY <1>1, <1>2, <1>3, <1>4, <1>6, <1>7, <1>8, <1>9, <1>10, <1>11, <1>12, <1>13, PushKeepsInv

LEMMA RequestKeeps ==
  ASSUME Bg!BgAssumption, Bg!BgInv, NEW t \in Bg!Bg, Bg!bg_request(t)
  PROVE  Bg!BgInv'
<1>1. pc[t].at = "run" /\ pc[t].item.kind = "req"
  BY DEF Bg!bg_request
<1>2. PICK y \in Bg!Work : y = pc[t].item
  BY <1>1, ItemAtHand
<1>3. /\ t \in Bg!Thread /\ Bg!ItemInv(y, t)
      /\ \A p \in Bg!Queue : \A i \in 1 .. Len(queue[p]) : queue[p][i].r # y.r
      /\ \A u \in Bg!Thread : u # t /\ Bg!InHand(u) => pc[u].item.r # y.r
  BY <1>1, <1>2, ItemAtHand
<1>4. PICK r \in Request : r = y.r
  BY WorkFields
<1>5. PICK x \in Bg!Work : x = [kind |-> "req", r |-> r, etid |-> t]
  BY DEF Bg!Work
<1>6. x.r = r /\ x.kind = "req"
  BY <1>5
<1> DEFINE next == [at |-> "inner"]
<1>7. Push(t, ReqQ, x, next) /\ next.at = "inner"
  BY <1>2, <1>4, <1>5 DEF Push, Bg!bg_request, Bg!unlocked_push
<1>8. /\ where \in [Request -> {"client", "server", "nested", "sent", "answered"}]
      /\ issuer \in [Request -> Bg!Thread] /\ ran \in [Request -> Bg!Thread]
  BY DEF Bg!BgInv, Bg!BgTypes
<1>9. /\ where' = [where EXCEPT ![r] = "nested"] /\ issuer' = [issuer EXCEPT ![r] = t]
      /\ ran' = ran
  BY <1>2, <1>4 DEF Bg!bg_request
<1>10. /\ where' \in [Request -> {"client", "server", "nested", "sent", "answered"}]
       /\ issuer' \in [Request -> Bg!Thread]
       /\ \A s \in Request : s # r => where'[s] = where[s] /\ issuer'[s] = issuer[s]
  BY <1>3, <1>8, <1>9
<1>11. ran[r] = D
  BY <1>1, <1>2, <1>3, <1>4 DEF Bg!ItemInv
<1>12. ReqQ \in Bg!Queue /\ RespQ # ReqQ /\ ReqQ \notin Bg!Bg
  BY BgDistinct
<1>13. Bg!ItemInv(x, ReqQ)'
  BY <1>6, <1>8, <1>9, <1>11, <1>12 DEF Bg!ItemInv
<1> HIDE DEF next
<1> QED
  BY <1>1, <1>2, <1>3, <1>4, <1>6, <1>7, <1>8, <1>9, <1>10, <1>11, <1>12, <1>13, PushKeepsInv

\* A step that moves no item keeps the items in their places.
LEMMA QuietKeepsItems ==
  ASSUME Bg!BgInv, queue' = queue, where' = where, issuer' = issuer, ran' = ran,
         \A u \in Bg!Thread : /\ Bg!InHand(u)' = Bg!InHand(u)
                              /\ Bg!InHand(u) => pc'[u].item = pc[u].item
  PROVE  Bg!ItemsInv' /\ Bg!PlaceInv' /\ Bg!ContinuationAtIssuer'
<1>1. Bg!ItemsInv'
  <2>1. ASSUME NEW q \in Bg!Queue, NEW i \in 1 .. Len(queue'[q])
        PROVE  Bg!ItemInv(queue[q][i], q)'
    <3>1. Bg!ItemInv(queue[q][i], q)
      BY DEF Bg!BgInv, Bg!ItemsInv
    <3> QED
      BY <3>1 DEF Bg!ItemInv
  <2>2. ASSUME NEW t \in Bg!Thread, Bg!InHand(t)'
        PROVE  Bg!ItemInv(pc[t].item, IF t = D THEN Bg!Source(pc[t].item) ELSE t)'
    <3>1. Bg!InHand(t) /\ pc'[t].item = pc[t].item
      BY <2>2
    <3>2. Bg!ItemInv(pc[t].item, IF t = D THEN Bg!Source(pc[t].item) ELSE t)
      BY <3>1 DEF Bg!BgInv, Bg!ItemsInv
    <3> QED
      BY <3>1, <3>2 DEF Bg!ItemInv, Bg!Source
  <2>3. \A r \in Request : /\ where'[r] \in {"client", "sent"} => ran'[r] = D
                           /\ where'[r] = "sent" => issuer'[r] \in Bg!Bg
    BY DEF Bg!BgInv, Bg!ItemsInv
  <2> QED
    BY <2>1, <2>2, <2>3 DEF Bg!ItemsInv
<1>2. Bg!PlaceInv'
  <2>1. \A q, p \in Bg!Queue : \A i \in 1 .. Len(queue'[q]), j \in 1 .. Len(queue'[p]) :
          queue'[q][i].r = queue'[p][j].r => q = p /\ i = j
    BY DEF Bg!BgInv, Bg!PlaceInv
  <2>2. \A t, u \in Bg!Thread :
          Bg!InHand(t)' /\ Bg!InHand(u)' /\ pc'[t].item.r = pc'[u].item.r => t = u
    BY DEF Bg!BgInv, Bg!PlaceInv
  <2>3. \A t \in Bg!Thread, q \in Bg!Queue : Bg!InHand(t)' =>
          \A i \in 1 .. Len(queue'[q]) : queue'[q][i].r # pc'[t].item.r
    BY DEF Bg!BgInv, Bg!PlaceInv
  <2>4. \A r \in Request : where'[r] \in {"server", "nested"} =>
          \/ \E q \in Bg!Queue : \E i \in 1 .. Len(queue'[q]) : queue'[q][i].r = r
          \/ \E t \in Bg!Thread : Bg!InHand(t)' /\ pc'[t].item.r = r
    BY DEF Bg!BgInv, Bg!PlaceInv
  <2> QED
    BY <2>1, <2>2, <2>3, <2>4 DEF Bg!PlaceInv
<1>3. Bg!ContinuationAtIssuer'
  BY DEF Bg!BgInv, Bg!ContinuationAtIssuer
<1> QED
  BY <1>1, <1>2, <1>3

\* The size that the consumer of a queue reads without the lock is never more than
\* the queue holds: only the consumer itself can be between a pop and its count.
LEMMA SizeIsSafe ==
  ASSUME Bg!BgAssumption, Bg!BgInv, NEW t \in Bg!Thread, NEW q \in Bg!Owns(t),
         pc[t].at # "popped"
  PROVE  q \in Bg!Queue /\ size[q] \in Int /\ Len(queue[q]) \in Nat /\ Len(queue[q]) >= size[q]
<1>1. q \in Bg!Queue
  BY BgDistinct DEF Bg!Owns, Bg!Thread
<1>2. size[q] \in Int /\ Len(queue[q]) \in Nat /\ lock[q] \in Bg!Thread \cup {Free}
  BY <1>1 DEF Bg!BgInv, Bg!BgTypes
<1>3. Len(queue[q]) - size[q] =
        IF lock[q] = Free THEN 0 ELSE IF pc[lock[q]].at = "pushed" THEN 1 ELSE 0 - 1
  BY <1>1 DEF Bg!BgInv, Bg!LockInv
<1>4. lock[q] # Free => pc[lock[q]].at = "pushed"
  <2> SUFFICES ASSUME lock[q] # Free, pc[lock[q]].at # "pushed"
               PROVE  FALSE
    OBVIOUS
  <2>1. lock[q] \in Bg!Thread /\ pc[lock[q]].at = "popped" /\ pc[lock[q]].q = q
    BY <1>1, <1>2 DEF Bg!BgInv, Bg!LockInv
  <2>2. q \in Bg!Owns(lock[q])
    BY <2>1 DEF Bg!BgInv, Bg!LockInv
  <2>3. lock[q] = t
    BY <2>1, <2>2, BgDistinct DEF Bg!Owns, Bg!Thread
  <2> QED
    BY <2>1, <2>3
<1>5. Len(queue[q]) - size[q] \in {0, 1}
  BY <1>3, <1>4
<1> QED
  BY <1>1, <1>2, <1>5

\* A thread that has nothing in its hands goes round its loop, perhaps to pop.
LEMMA LoopKeepsInv ==
  ASSUME Bg!BgAssumption, Bg!BgInv, NEW t \in Bg!Thread, NEW new,
         pc' = [pc EXCEPT ![t] = new],
         pc[t].at \in {"loop", "inner", "responses"},
         new.at \in {"loop", "inner", "exited", "responses", "pop"},
         new.at = "responses" => t = D,
         new.at = "pop" => /\ new.q \in Bg!Owns(t)
                           /\ t = D => left' >= 1 /\ Len(queue[new.q]) >= left'
                           /\ t # D => Len(queue[new.q]) >= 1,
         left' \in Int, t # D => left' = left,
         queue' = queue, size' = size, lock' = lock, where' = where, issuer' = issuer,
         ran' = ran
  PROVE  Bg!BgInv'
<1>1. pc = [u \in Bg!Thread |-> pc[u]]
  BY DEF Bg!BgInv, Bg!BgTypes
<1>2. /\ pc' = [u \in Bg!Thread |-> pc'[u]] /\ pc'[t] = new
      /\ \A u \in Bg!Thread : u # t => pc'[u] = pc[u]
  BY <1>1
<1>3. new.at = "pop" => new.q \in Bg!Queue
  BY BgDistinct DEF Bg!Owns, Bg!Thread
<1>4. ASSUME NEW u \in Bg!Thread
      PROVE  /\ pc'[u].at \in {"loop", "inner", "exited", "responses", "pushed", "pop", "popped", "run"}
             /\ pc'[u].at \in {"pushed", "pop", "popped"} => pc'[u].q \in Bg!Queue
             /\ pc'[u].at = "pushed" => pc'[u].next.at \in {"loop", "inner"}
             /\ Bg!InHand(u)' => pc'[u].item \in Bg!Work
             /\ pc'[u].at = "responses" => u = D
  <2>1. CASE u = t
    BY <1>2, <1>3, <2>1 DEF Bg!InHand
  <2>2. CASE u # t
    BY <1>2, <2>2 DEF Bg!InHand, Bg!BgInv, Bg!BgTypes
  <2> QED
    BY <2>1, <2>2
<1>5. Bg!BgTypes'
  BY <1>2, <1>4 DEF Bg!BgInv, Bg!BgTypes
<1>6. Bg!LockInv'
  <2>1. ASSUME NEW u \in Bg!Thread
        PROVE  /\ pc'[u].at \in {"pushed", "popped"} => lock'[pc'[u].q] = u
               /\ pc'[u].at \in {"pop", "popped"} => pc'[u].q \in Bg!Owns(u)
    <3>1. CASE u = t
      BY <1>2, <3>1
    <3>2. CASE u # t
      BY <1>2, <3>2 DEF Bg!BgInv, Bg!LockInv
    <3> QED
      BY <3>1, <3>2
  <2>2. \A q \in Bg!Queue : lock[q] # Free => lock[q] # t /\ lock[q] \in Bg!Thread
    <3>1. \A q \in Bg!Queue : lock[q] \in Bg!Thread \cup {Free}
      BY DEF Bg!BgInv, Bg!BgTypes
    <3>2. \A q \in Bg!Queue : lock[q] # Free => pc[lock[q]].at \in {"pushed", "popped"}
      BY DEF Bg!BgInv, Bg!LockInv
    <3> QED
      BY <3>1, <3>2
  <2>3. \A q \in Bg!Queue : lock[q] # Free => pc'[lock'[q]] = pc[lock[q]]
    BY <1>2, <2>2
  <2>4. ASSUME NEW q \in Bg!Queue
        PROVE  /\ lock'[q] # Free => pc'[lock'[q]].at \in {"pushed", "popped"} /\ pc'[lock'[q]].q = q
               /\ Len(queue'[q]) - size'[q] =
                    IF lock'[q] = Free THEN 0
                    ELSE IF pc'[lock'[q]].at = "pushed" THEN 1 ELSE 0 - 1
    BY <2>3 DEF Bg!BgInv, Bg!LockInv
  <2> QED
    BY <2>1, <2>4 DEF Bg!LockInv, Bg!Owns
<1>7. Bg!SeenInv'
  <2>1. ASSUME NEW u \in Bg!Bg, pc'[u].at = "pop"
        PROVE  Len(queue'[u]) >= 1
    <3>1. u \in Bg!Thread /\ u # D
      BY BgDistinct
    <3>2. CASE u = t
      BY <1>2, <2>1, <3>1, <3>2 DEF Bg!Owns
    <3>3. CASE u # t
      BY <1>2, <2>1, <3>1, <3>3 DEF Bg!BgInv, Bg!SeenInv
    <3> QED
      BY <3>2, <3>3
  <2>2. CASE D = t
    BY <1>2, <2>1, <2>2 DEF Bg!SeenInv
  <2>3. CASE D # t
    <3>1. pc'[D] = pc[D] /\ left' = left
      BY <1>2, <2>3, BgDistinct
    <3> QED
      BY <2>1, <3>1 DEF Bg!BgInv, Bg!SeenInv, Bg!Source
  <2> QED
    BY <2>2, <2>3
<1>8. \A u \in Bg!Thread : /\ Bg!InHand(u)' = Bg!InHand(u)
                           /\ Bg!InHand(u) => pc'[u].item = pc[u].item
  BY <1>2 DEF Bg!InHand
<1>9. Bg!ItemsInv' /\ Bg!PlaceInv' /\ Bg!ContinuationAtIssuer'
  BY <1>8, QuietKeepsItems
<1> QED
  BY <1>5, <1>6, <1>7, <1>9 DEF Bg!BgInv

LEMMA BgLoopsKeep ==
  ASSUME Bg!BgAssumption, Bg!BgInv, NEW t \in Bg!Bg,
         Bg!bg_thread_poll(t) \/ Bg!bg_thread_idle(t) \/ Bg!bg_thread_exit(t)
  PROVE  Bg!BgInv'
<1>1. t \in Bg!Thread /\ t # D /\ left \in Int
  BY BgDistinct DEF Bg!BgInv, Bg!BgTypes
<1>2. CASE Bg!bg_thread_poll(t)
  <2> DEFINE new == [at |-> "pop", q |-> t]
  <2>1. /\ pc' = [pc EXCEPT ![t] = new] /\ pc[t].at \in {"loop", "inner"} /\ size[t] > 0
        /\ left' = left /\ queue' = queue /\ size' = size /\ lock' = lock
        /\ where' = where /\ issuer' = issuer /\ ran' = ran
    BY <1>2 DEF Bg!bg_thread_poll
  <2>2. t \in Bg!Owns(t)
    BY <1>1 DEF Bg!Owns
  <2>3. size[t] \in Int /\ Len(queue[t]) \in Nat /\ Len(queue[t]) >= size[t]
    BY <1>1, <2>1, <2>2, SizeIsSafe
  <2>4. Len(queue[t]) >= 1
    BY <2>1, <2>3
  <2>5. new.at = "pop" /\ new.q = t
    OBVIOUS
  <2> HIDE DEF new
  <2> QED
    BY <1>1, <2>1, <2>2, <2>4, <2>5, LoopKeepsInv
<1>3. CASE Bg!bg_thread_idle(t)
  <2>1. /\ pc' = [pc EXCEPT ![t] = Bg!Loop] /\ pc[t].at = "inner"
        /\ left' = left /\ queue' = queue /\ size' = size /\ lock' = lock
        /\ where' = where /\ issuer' = issuer /\ ran' = ran
    BY <1>3 DEF Bg!bg_thread_idle
  <2>2. Bg!Loop.at = "loop"
    BY DEF Bg!Loop
  <2> QED
    BY <1>1, <2>1, <2>2, LoopKeepsInv
<1>4. CASE Bg!bg_thread_exit(t)
  <2> DEFINE new == [at |-> "exited"]
  <2>1. /\ pc' = [pc EXCEPT ![t] = new] /\ pc[t].at = "loop"
        /\ left' = left /\ queue' = queue /\ size' = size /\ lock' = lock
        /\ where' = where /\ issuer' = issuer /\ ran' = ran
    BY <1>4 DEF Bg!bg_thread_exit
  <2>2. new.at = "exited"
    OBVIOUS
  <2> HIDE DEF new
  <2> QED
    BY <1>1, <2>1, <2>2, LoopKeepsInv
<1> QED
  BY <1>2, <1>3, <1>4

LEMMA ProcessQueuesKeeps ==
  ASSUME Bg!BgAssumption, Bg!BgInv, NEW q \in {ReqQ, RespQ}, Bg!process_bg_queues(q)
  PROVE  Bg!BgInv'
<1>1. D \in Bg!Thread /\ q \in Bg!Owns(D)
  BY BgDistinct DEF Bg!Owns
<1>2. PICK new : new = IF size[q] > 0 THEN [at |-> "pop", q |-> q]
                       ELSE IF q = ReqQ THEN [at |-> "responses"] ELSE Bg!Loop
  OBVIOUS
<1>3. /\ new.at \in {"pop", "responses", "loop"}
      /\ new.at = "pop" => new.q = q /\ size[q] > 0
  BY <1>2 DEF Bg!Loop
<1>4. /\ pc' = [pc EXCEPT ![D] = new] /\ pc[D].at \in {"loop", "responses"}
      /\ left' = size[q] /\ queue' = queue /\ size' = size /\ lock' = lock
      /\ where' = where /\ issuer' = issuer /\ ran' = ran
  BY <1>2 DEF Bg!process_bg_queues, Bg!Loop
<1>5. size[q] \in Int /\ Len(queue[q]) \in Nat /\ Len(queue[q]) >= size[q]
  BY <1>1, <1>4, SizeIsSafe
<1>6. left' \in Int /\ (new.at = "pop" => left' >= 1 /\ Len(queue[new.q]) >= left')
  BY <1>3, <1>4, <1>5
<1> QED
  BY <1>1, <1>3, <1>4, <1>6, LoopKeepsInv

\* A thread that has pushed or popped counts it and releases the lock.
LEMMA UnlockKeepsLocks ==
  ASSUME Bg!BgAssumption, Bg!BgInv, NEW t \in Bg!Thread, NEW new,
         NEW q \in Bg!Queue, NEW n \in {1, 0 - 1}, q = pc[t].q,
         pc[t].at \in {"pushed", "popped"}, n = 1 <=> pc[t].at = "pushed",
         size' = [size EXCEPT ![q] = size[q] + n],
         lock' = [lock EXCEPT ![q] = Free],
         pc' = [pc EXCEPT ![t] = new], new.at \in {"loop", "inner", "run"}, queue' = queue
  PROVE  /\ Bg!LockInv' /\ size' \in [Bg!Queue -> Int]
         /\ lock' \in [Bg!Queue -> Bg!Thread \cup {Free}]
         /\ pc' = [u \in Bg!Thread |-> pc'[u]] /\ pc'[t] = new
         /\ \A u \in Bg!Thread : u # t => pc'[u] = pc[u]
<1>1. pc = [u \in Bg!Thread |-> pc[u]]
  BY DEF Bg!BgInv, Bg!BgTypes
<1>2. /\ pc' = [u \in Bg!Thread |-> pc'[u]] /\ pc'[t] = new
      /\ \A u \in Bg!Thread : u # t => pc'[u] = pc[u]
  BY <1>1
<1>4. n = IF pc[t].at = "pushed" THEN 1 ELSE 0 - 1
  OBVIOUS
<1>5. size \in [Bg!Queue -> Int] /\ lock \in [Bg!Queue -> Bg!Thread \cup {Free}]
  BY DEF Bg!BgInv, Bg!BgTypes
<1>6. /\ size' \in [Bg!Queue -> Int] /\ lock' \in [Bg!Queue -> Bg!Thread \cup {Free}]
      /\ size'[q] = size[q] + n /\ lock'[q] = Free
      /\ \A p \in Bg!Queue : p # q => size'[p] = size[p] /\ lock'[p] = lock[p]
  BY <1>5
<1>7. lock[q] = t
  BY DEF Bg!BgInv, Bg!LockInv
<1>8. \A p \in Bg!Queue : p # q /\ lock[p] # Free => lock[p] \in Bg!Thread /\ lock[p] # t
  <2>1. \A p \in Bg!Queue : lock[p] # Free => lock[p] \in Bg!Thread /\ pc[lock[p]].q = p
    BY <1>5 DEF Bg!BgInv, Bg!LockInv
  <2> QED
    BY <2>1
<1>9. ASSUME NEW u \in Bg!Thread
      PROVE  /\ pc'[u].at \in {"pushed", "popped"} => lock'[pc'[u].q] = u
             /\ pc'[u].at \in {"pop", "popped"} => pc'[u].q \in Bg!Owns(u)
  <2>1. CASE u = t
    BY <1>2, <2>1
  <2>2. CASE u # t
    <3>1. pc'[u] = pc[u]
      BY <1>2, <2>2
    <3>2. ASSUME pc[u].at \in {"pushed", "popped"}
          PROVE  lock'[pc[u].q] = u
      <4>1. pc[u].q \in Bg!Queue /\ lock[pc[u].q] = u
        BY <3>2 DEF Bg!BgInv, Bg!BgTypes, Bg!LockInv
      <4>2. pc[u].q # q
        BY <1>7, <2>2, <4>1
      <4> QED
        BY <1>6, <4>1, <4>2
    <3> QED
      BY <3>1, <3>2 DEF Bg!BgInv, Bg!LockInv
  <2> QED
    BY <2>1, <2>2
<1>10. ASSUME NEW p \in Bg!Queue
       PROVE  /\ lock'[p] # Free => pc'[lock'[p]].at \in {"pushed", "popped"} /\ pc'[lock'[p]].q = p
              /\ Len(queue'[p]) - size'[p] =
                   IF lock'[p] = Free THEN 0
                   ELSE IF pc'[lock'[p]].at = "pushed" THEN 1 ELSE 0 - 1
  <2>1. CASE p = q
    <3>1. Len(queue[q]) - size[q] = n
      BY <1>4, <1>7, BgDistinct DEF Bg!BgInv, Bg!LockInv
    <3>2. Len(queue[q]) \in Nat
      BY DEF Bg!BgInv, Bg!BgTypes
    <3>3. size[q] \in Int
      BY <1>5
    <3>4. Len(queue'[p]) - size'[p] = 0
      BY <1>4, <1>6, <2>1, <3>1, <3>2, <3>3
    <3> QED
      BY <1>6, <2>1, <3>4
  <2>2. CASE p # q
    <3>1. size'[p] = size[p] /\ lock'[p] = lock[p]
      BY <1>6, <2>2
    <3>2. lock[p] # Free => pc'[lock[p]] = pc[lock[p]]
      BY <1>2, <1>8, <2>2
    <3> QED
      BY <3>1, <3>2 DEF Bg!BgInv, Bg!LockInv
  <2> QED
    BY <2>1, <2>2
<1>11. Bg!LockInv'
  BY <1>9, <1>10 DEF Bg!LockInv, Bg!Owns
<1> QED
  BY <1>2, <1>6, <1>11

LEMMA PushDoneKeeps ==
  ASSUME Bg!BgAssumption, Bg!BgInv, NEW t \in Bg!Thread, Bg!PushDone(t)
  PROVE  Bg!BgInv'
<1>1. PICK new : new = pc[t].next
  OBVIOUS
<1>2. pc[t].at = "pushed" /\ new.at \in {"loop", "inner"}
  BY <1>1 DEF Bg!PushDone, Bg!BgInv, Bg!BgTypes
<1>0. PICK q \in Bg!Queue : q = pc[t].q
  BY <1>2 DEF Bg!BgInv, Bg!BgTypes
<1>3. /\ size' = [size EXCEPT ![q] = size[q] + 1]
      /\ lock' = [lock EXCEPT ![q] = Free] /\ pc' = [pc EXCEPT ![t] = new]
      /\ queue' = queue /\ left' = left /\ where' = where /\ issuer' = issuer /\ ran' = ran
  BY <1>0, <1>1, <1>2 DEF Bg!PushDone
<1>4. /\ Bg!LockInv' /\ size' \in [Bg!Queue -> Int]
      /\ lock' \in [Bg!Queue -> Bg!Thread \cup {Free}]
      /\ pc' = [u \in Bg!Thread |-> pc'[u]] /\ pc'[t] = new
      /\ \A u \in Bg!Thread : u # t => pc'[u] = pc[u]
  BY <1>0, <1>2, <1>3, UnlockKeepsLocks
<1>5. ASSUME NEW u \in Bg!Thread
      PROVE  /\ pc'[u].at \in {"loop", "inner", "exited", "responses", "pushed", "pop", "popped", "run"}
             /\ pc'[u].at \in {"pushed", "pop", "popped"} => pc'[u].q \in Bg!Queue
             /\ pc'[u].at = "pushed" => pc'[u].next.at \in {"loop", "inner"}
             /\ Bg!InHand(u)' => pc'[u].item \in Bg!Work
             /\ pc'[u].at = "responses" => u = D
             /\ Bg!InHand(u)' = Bg!InHand(u) /\ (Bg!InHand(u) => pc'[u].item = pc[u].item)
  <2>1. CASE u = t
    BY <1>2, <1>4, <2>1 DEF Bg!InHand
  <2>2. CASE u # t
    BY <1>4, <2>2 DEF Bg!InHand, Bg!BgInv, Bg!BgTypes
  <2> QED
    BY <2>1, <2>2
<1>6. Bg!BgTypes'
  BY <1>3, <1>4, <1>5 DEF Bg!BgInv, Bg!BgTypes
<1>7. Bg!SeenInv'
  <2>1. \A u \in Bg!Thread : u # t \/ pc'[u].at \in {"loop", "inner"}
    BY <1>2, <1>4
  <2>2. D \in Bg!Thread /\ Bg!Bg \subseteq Bg!Thread
    BY BgDistinct
  <2>3. \A u \in Bg!Bg : pc'[u].at = "pop" => Len(queue'[u]) >= 1
    BY <1>3, <1>4, <2>1, <2>2 DEF Bg!BgInv, Bg!SeenInv
  <2>4. CASE t = D
    BY <1>3, <2>1, <2>2, <2>3, <2>4 DEF Bg!SeenInv
  <2>5. CASE t # D
    <3>1. pc'[D] = pc[D]
      BY <1>4, <2>2, <2>5
    <3> QED
      BY <1>3, <2>3, <3>1 DEF Bg!BgInv, Bg!SeenInv, Bg!Source
  <2> QED
    BY <2>4, <2>5
<1>8. Bg!ItemsInv' /\ Bg!PlaceInv' /\ Bg!ContinuationAtIssuer'
  BY <1>3, <1>5, QuietKeepsItems
<1> QED
  BY <1>4, <1>6, <1>7, <1>8 DEF Bg!BgInv

LEMMA PopDoneKeeps ==
  ASSUME Bg!BgAssumption, Bg!BgInv, NEW t \in Bg!Thread, Bg!PopDone(t)
  PROVE  Bg!BgInv'
<1>1. PICK new : new = [at |-> "run", item |-> pc[t].item]
  OBVIOUS
<1>2. /\ pc[t].at = "popped" /\ new.at = "run" /\ new.item = pc[t].item
      /\ Bg!InHand(t) /\ pc[t].item \in Bg!Work
  BY <1>1 DEF Bg!PopDone, Bg!BgInv, Bg!BgTypes, Bg!InHand
<1>3. PICK q \in Bg!Queue : q = pc[t].q
  BY <1>2 DEF Bg!BgInv, Bg!BgTypes
<1>4. /\ size' = [size EXCEPT ![q] = size[q] - 1]
      /\ lock' = [lock EXCEPT ![q] = Free] /\ pc' = [pc EXCEPT ![t] = new]
      /\ queue' = queue /\ left' = left /\ where' = where /\ issuer' = issuer /\ ran' = ran
  BY <1>1, <1>3 DEF Bg!PopDone
<1>0. PICK n \in {1, 0 - 1} : n = 0 - 1 /\ n # 1
  OBVIOUS
<1>5. size' = [size EXCEPT ![q] = size[q] + n]
  <2>1. size[q] \in Int
    BY DEF Bg!BgInv, Bg!BgTypes
  <2>2. size[q] - 1 = size[q] + n
    BY <1>0, <2>1
  <2> QED
    BY <1>4, <2>2
<1>6. /\ Bg!LockInv' /\ size' \in [Bg!Queue -> Int]
      /\ lock' \in [Bg!Queue -> Bg!Thread \cup {Free}]
      /\ pc' = [u \in Bg!Thread |-> pc'[u]] /\ pc'[t] = new
      /\ \A u \in Bg!Thread : u # t => pc'[u] = pc[u]
  BY <1>0, <1>2, <1>3, <1>4, <1>5, UnlockKeepsLocks
<1>7. ASSUME NEW u \in Bg!Thread
      PROVE  /\ pc'[u].at \in {"loop", "inner", "exited", "responses", "pushed", "pop", "popped", "run"}
             /\ pc'[u].at \in {"pushed", "pop", "popped"} => pc'[u].q \in Bg!Queue
             /\ pc'[u].at = "pushed" => pc'[u].next.at \in {"loop", "inner"}
             /\ Bg!InHand(u)' => pc'[u].item \in Bg!Work
             /\ pc'[u].at = "responses" => u = D
             /\ Bg!InHand(u)' = Bg!InHand(u) /\ (Bg!InHand(u) => pc'[u].item = pc[u].item)
  <2>1. CASE u = t
    BY <1>2, <1>6, <2>1 DEF Bg!InHand
  <2>2. CASE u # t
    BY <1>6, <2>2 DEF Bg!InHand, Bg!BgInv, Bg!BgTypes
  <2> QED
    BY <2>1, <2>2
<1>8. Bg!BgTypes'
  BY <1>4, <1>6, <1>7 DEF Bg!BgInv, Bg!BgTypes
<1>9. Bg!SeenInv'
  <2>1. \A u \in Bg!Thread : u # t \/ pc'[u].at = "run"
    BY <1>2, <1>6
  <2>2. D \in Bg!Thread /\ Bg!Bg \subseteq Bg!Thread
    BY BgDistinct
  <2>3. \A u \in Bg!Bg : pc'[u].at = "pop" => Len(queue'[u]) >= 1
    BY <1>4, <1>6, <2>1, <2>2 DEF Bg!BgInv, Bg!SeenInv
  <2>4. CASE t = D
    <3>1. pc'[D].at = "run" /\ pc'[D].item = pc[D].item
      BY <1>2, <1>6, <2>4
    <3>2. Len(queue[Bg!Source(pc[D].item)]) >= left - 1
      BY <1>2, <2>4 DEF Bg!BgInv, Bg!SeenInv
    <3> QED
      BY <1>4, <2>3, <3>1, <3>2 DEF Bg!SeenInv, Bg!Source
  <2>5. CASE t # D
    <3>1. pc'[D] = pc[D]
      BY <1>6, <2>2, <2>5
    <3> QED
      BY <1>4, <2>3, <3>1 DEF Bg!BgInv, Bg!SeenInv, Bg!Source
  <2> QED
    BY <2>4, <2>5
<1>10. Bg!ItemsInv' /\ Bg!PlaceInv' /\ Bg!ContinuationAtIssuer'
  BY <1>4, <1>7, QuietKeepsItems
<1> QED
  BY <1>6, <1>8, <1>9, <1>10 DEF Bg!BgInv

LEMMA PopKeeps ==
  ASSUME Bg!BgAssumption, Bg!BgInv, NEW t \in Bg!Thread, Bg!unlocked_pop(t)
  PROVE  Bg!BgInv'
<1>1. PICK q \in Bg!Queue : q = pc[t].q
  BY DEF Bg!unlocked_pop, Bg!BgInv, Bg!BgTypes
<1>2. pc[t].at = "pop" /\ lock[q] = Free /\ queue[q] # <<>> /\ q \in Bg!Owns(t)
  BY <1>1 DEF Bg!unlocked_pop, Bg!BgInv, Bg!LockInv
<1>3. /\ queue \in [Bg!Queue -> Seq(Bg!Work)] /\ size \in [Bg!Queue -> Int] /\ left \in Int
      /\ lock \in [Bg!Queue -> Bg!Thread \cup {Free}] /\ pc = [u \in Bg!Thread |-> pc[u]]
  BY DEF Bg!BgInv, Bg!BgTypes
<1>4. /\ Head(queue[q]) \in Bg!Work /\ Head(queue[q]) = queue[q][1]
      /\ Len(queue[q]) \in Nat /\ Len(queue[q]) >= 1
      /\ Tail(queue[q]) \in Seq(Bg!Work) /\ Len(Tail(queue[q])) = Len(queue[q]) - 1
      /\ \A i \in 1 .. Len(queue[q]) - 1 : Tail(queue[q])[i] = queue[q][i + 1]
  <2>1. queue[q] \in Seq(Bg!Work)
    BY <1>3
  <2> QED
    BY <1>2, <2>1
<1>5. PICK x \in Bg!Work : x = queue[q][1]
  BY <1>4
<1>6. PICK new : new = [at |-> "popped", q |-> q, item |-> x]
  OBVIOUS
<1>7. new.at = "popped" /\ new.q = q /\ new.item = x
  BY <1>6
<1>8. /\ queue' = [queue EXCEPT ![q] = Tail(queue[q])] /\ lock' = [lock EXCEPT ![q] = t]
      /\ pc' = [pc EXCEPT ![t] = new]
      /\ size' = size /\ left' = left /\ where' = where /\ issuer' = issuer /\ ran' = ran
  BY <1>1, <1>4, <1>5, <1>6 DEF Bg!unlocked_pop
<1>9. /\ queue' \in [Bg!Queue -> Seq(Bg!Work)] /\ lock' \in [Bg!Queue -> Bg!Thread \cup {Free}]
      /\ Len(queue'[q]) = Len(queue[q]) - 1
      /\ \A i \in 1 .. Len(queue[q]) - 1 : queue'[q][i] = queue[q][i + 1]
      /\ lock'[q] = t
      /\ \A p \in Bg!Queue : p # q => queue'[p] = queue[p] /\ lock'[p] = lock[p]
  BY <1>3, <1>4, <1>8
<1>10. /\ pc' = [u \in Bg!Thread |-> pc'[u]] /\ pc'[t] = new
       /\ \A u \in Bg!Thread : u # t => pc'[u] = pc[u]
  BY <1>3, <1>8
<1>11. /\ ~Bg!InHand(t) /\ Bg!InHand(t)' /\ pc'[t].item = x
       /\ \A u \in Bg!Thread : u # t => Bg!InHand(u)' = Bg!InHand(u)
  BY <1>2, <1>7, <1>10 DEF Bg!InHand
<1>12. Bg!BgTypes'
  <2>1. ASSUME NEW u \in Bg!Thread
        PROVE  /\ pc'[u].at \in {"loop", "inner", "exited", "responses", "pushed", "pop", "popped", "run"}
               /\ pc'[u].at \in {"pushed", "pop", "popped"} => pc'[u].q \in Bg!Queue
               /\ pc'[u].at = "pushed" => pc'[u].next.at \in {"loop", "inner"}
               /\ Bg!InHand(u)' => pc'[u].item \in Bg!Work
               /\ pc'[u].at = "responses" => u = D
    <3>1. CASE u = t
      BY <1>7, <1>10, <3>1
    <3>2. CASE u # t
      BY <1>10, <3>2 DEF Bg!InHand, Bg!BgInv, Bg!BgTypes
    <3> QED
      BY <3>1, <3>2
  <2> QED
    BY <1>8, <1>9, <1>10, <2>1 DEF Bg!BgInv, Bg!BgTypes
<1>13. Bg!LockInv'
  <2>1. ASSUME NEW u \in Bg!Thread
        PROVE  /\ pc'[u].at \in {"pushed", "popped"} => lock'[pc'[u].q] = u
               /\ pc'[u].at \in {"pop", "popped"} => pc'[u].q \in Bg!Owns(u)
    <3>1. CASE u = t
      BY <1>2, <1>7, <1>9, <1>10, <3>1
    <3>2. CASE u # t
      <4>1. pc'[u] = pc[u]
        BY <1>10, <3>2
      <4>2. ASSUME pc[u].at \in {"pushed", "popped"}
            PROVE  lock'[pc[u].q] = u
        <5>1. pc[u].q \in Bg!Queue /\ lock[pc[u].q] = u
          BY <4>2 DEF Bg!BgInv, Bg!BgTypes, Bg!LockInv
        <5>2. pc[u].q # q
          BY <1>2, <5>1, BgDistinct
        <5> QED
          BY <1>9, <5>1, <5>2
      <4> QED
        BY <4>1, <4>2 DEF Bg!BgInv, Bg!LockInv
    <3> QED
      BY <3>1, <3>2
  <2>2. \A p \in Bg!Queue : lock[p] # Free => lock[p] \in Bg!Thread /\ lock[p] # t
    <3>1. \A p \in Bg!Queue : lock[p] # Free => pc[lock[p]].at \in {"pushed", "popped"}
      BY DEF Bg!BgInv, Bg!LockInv
    <3>2. \A p \in Bg!Queue : lock[p] \in Bg!Thread \cup {Free}
      BY <1>3
    <3> QED
      BY <1>2, <3>1, <3>2
  <2>3. ASSUME NEW p \in Bg!Queue
        PROVE  /\ lock'[p] # Free => pc'[lock'[p]].at \in {"pushed", "popped"} /\ pc'[lock'[p]].q = p
               /\ Len(queue'[p]) - size'[p] =
                    IF lock'[p] = Free THEN 0
                    ELSE IF pc'[lock'[p]].at = "pushed" THEN 1 ELSE 0 - 1
    <3>1. CASE p = q
      <4>1. Len(queue[q]) - size[q] = 0
        BY <1>2 DEF Bg!BgInv, Bg!LockInv
      <4>2. size[q] \in Int
        BY <1>3
      <4>3. Len(queue'[q]) - size[q] = 0 - 1
        BY <1>4, <1>9, <4>1, <4>2
      <4>4. lock'[q] = t /\ t # Free /\ pc'[t].at = "popped" /\ pc'[t].q = q
        BY <1>7, <1>9, <1>10, BgDistinct
      <4> QED
        BY <1>8, <3>1, <4>3, <4>4
    <3>2. CASE p # q
      <4>1. queue'[p] = queue[p] /\ lock'[p] = lock[p] /\ size'[p] = size[p]
        BY <1>8, <1>9, <3>2
      <4>2. lock[p] # Free => pc'[lock[p]] = pc[lock[p]]
        BY <1>10, <2>2
      <4> QED
        BY <4>1, <4>2 DEF Bg!BgInv, Bg!LockInv
    <3> QED
      BY <3>1, <3>2
  <2> QED
    BY <2>1, <2>3 DEF Bg!LockInv, Bg!Owns
<1>14. Bg!ItemInv(x, q)
  <2>1. 1 \in 1 .. Len(queue[q])
    BY <1>4
  <2> QED
    BY <1>5, <2>1 DEF Bg!BgInv, Bg!ItemsInv
<1>15. q = IF t = D THEN Bg!Source(x) ELSE t
  BY <1>2, <1>14, BgDistinct DEF Bg!ItemInv, Bg!Owns, Bg!Source
<1>16. Bg!SeenInv'
  <2>1. ASSUME NEW u \in Bg!Bg, pc'[u].at = "pop"
        PROVE  Len(queue'[u]) >= 1
    <3>1. u \in Bg!Thread /\ u \in Bg!Queue /\ u # t /\ u # D
      BY <1>7, <1>10, <2>1, BgDistinct
    <3>2. u # q
      BY <1>2, <3>1, BgDistinct DEF Bg!Owns
    <3> QED
      BY <1>9, <1>10, <2>1, <3>1, <3>2 DEF Bg!BgInv, Bg!SeenInv
  <2>2. CASE t = D
    <3>1. left >= 1 /\ Len(queue[q]) >= left
      BY <1>1, <1>2, <2>2 DEF Bg!BgInv, Bg!SeenInv
    <3>2. Len(queue'[q]) >= left - 1
      BY <1>3, <1>4, <1>9, <3>1
    <3>3. pc'[D].at = "popped" /\ pc'[D].q = q /\ pc'[D].item = x
      BY <1>7, <1>10, <2>2
    <3>4. q = Bg!Source(x)
      BY <1>15, <2>2
    <3> QED
      BY <1>8, <2>1, <3>2, <3>3, <3>4 DEF Bg!SeenInv, Bg!Source
  <2>3. CASE t # D
    <3>1. pc'[D] = pc[D] /\ D \in Bg!Thread
      BY <1>10, <2>3, BgDistinct
    <3>2. q \in Bg!Bg
      BY <1>2, <2>3 DEF Bg!Owns, Bg!Thread
    <3>3. pc[D].at \in {"pop", "popped"} => pc[D].q \in {ReqQ, RespQ}
      BY <3>1 DEF Bg!BgInv, Bg!LockInv, Bg!Owns
    <3>4. Bg!Source(pc[D].item) \in {ReqQ, RespQ}
      BY DEF Bg!Source
    <3>5. \A p \in {ReqQ, RespQ} : queue'[p] = queue[p]
      BY <1>9, <3>2, BgDistinct
    <3>6. pc[D].at \in {"pop", "popped"} => queue'[pc[D].q] = queue[pc[D].q]
      BY <3>3, <3>5
    <3>7. queue'[Bg!Source(pc[D].item)] = queue[Bg!Source(pc[D].item)]
      BY <3>4, <3>5
    <3>8. Bg!Source(pc[D].item)' = Bg!Source(pc[D].item)
      BY <3>1 DEF Bg!Source
    <3>9. pc[D].at = "pop" => left >= 1 /\ Len(queue'[pc[D].q]) >= left
      BY <3>6 DEF Bg!BgInv, Bg!SeenInv
    <3>10. pc[D].at = "popped" =>
             Len(queue'[pc[D].q]) >= left - 1 /\ pc[D].q = Bg!Source(pc[D].item)
      BY <3>6 DEF Bg!BgInv, Bg!SeenInv
    <3>11. pc[D].at = "run" => Len(queue'[Bg!Source(pc[D].item)]) >= left - 1
      BY <3>7 DEF Bg!BgInv, Bg!SeenInv
    <3> QED
      BY <1>8, <2>1, <3>1, <3>8, <3>9, <3>10, <3>11 DEF Bg!SeenInv
  <2> QED
    BY <2>2, <2>3
<1>17. ASSUME NEW p \in Bg!Queue, NEW i \in 1 .. Len(queue'[p])
       PROVE  \E j \in 1 .. Len(queue[p]) : /\ queue'[p][i] = queue[p][j]
                                            /\ j = IF p = q THEN i + 1 ELSE i
  <2>1. CASE p = q
    <3>1. Len(queue'[p]) = Len(queue[p]) - 1 /\ Len(queue[p]) \in Nat
      BY <1>4, <1>9, <2>1
    <3>2. i \in 1 .. Len(queue[q]) - 1 /\ i + 1 \in 1 .. Len(queue[p])
      BY <2>1, <3>1
    <3>3. queue'[p][i] = queue[p][i + 1]
      BY <1>9, <2>1, <3>2
    <3> QED
      BY <2>1, <3>2, <3>3
  <2>2. CASE p # q
    <3>1. queue'[p] = queue[p]
      BY <1>9, <2>2
    <3> QED
      BY <2>2, <3>1
  <2> QED
    BY <2>1, <2>2
<1>18. Bg!ItemsInv'
  <2>1. ASSUME NEW p \in Bg!Queue, NEW i \in 1 .. Len(queue'[p])
        PROVE  Bg!ItemInv(queue[p][i], p)'
    <3>1. PICK j \in 1 .. Len(queue[p]) : queue'[p][i] = queue[p][j]
      BY <1>17
    <3>2. Bg!ItemInv(queue[p][j], p)
      BY DEF Bg!BgInv, Bg!ItemsInv
    <3> QED
      BY <1>8, <3>1, <3>2 DEF Bg!ItemInv
  <2>2. ASSUME NEW u \in Bg!Thread, Bg!InHand(u)'
        PROVE  Bg!ItemInv(pc[u].item, IF u = D THEN Bg!Source(pc[u].item) ELSE u)'
    <3>1. CASE u = t
      BY <1>8, <1>11, <1>14, <1>15, <3>1 DEF Bg!ItemInv, Bg!Source
    <3>2. CASE u # t
      <4>1. Bg!InHand(u) /\ pc'[u] = pc[u]
        BY <1>10, <1>11, <2>2, <3>2
      <4>2. Bg!ItemInv(pc[u].item, IF u = D THEN Bg!Source(pc[u].item) ELSE u)
        BY <4>1 DEF Bg!BgInv, Bg!ItemsInv
      <4> QED
        BY <1>8, <4>1, <4>2 DEF Bg!ItemInv, Bg!Source
    <3> QED
      BY <3>1, <3>2
  <2>3. \A r \in Request : /\ where'[r] \in {"client", "sent"} => ran'[r] = D
                           /\ where'[r] = "sent" => issuer'[r] \in Bg!Bg
    BY <1>8 DEF Bg!BgInv, Bg!ItemsInv
  <2> QED
    BY <2>1, <2>2, <2>3 DEF Bg!ItemsInv
<1>19. Bg!PlaceInv'
  <2>0. 1 \in 1 .. Len(queue[q])
    BY <1>4
  <2>1. ASSUME NEW p1 \in Bg!Queue, NEW p2 \in Bg!Queue,
               NEW i \in 1 .. Len(queue'[p1]), NEW j \in 1 .. Len(queue'[p2]),
               queue'[p1][i].r = queue'[p2][j].r
        PROVE  p1 = p2 /\ i = j
    <3>1. PICK i1 \in 1 .. Len(queue[p1]) : /\ queue'[p1][i] = queue[p1][i1]
                                            /\ i1 = IF p1 = q THEN i + 1 ELSE i
      BY <1>17
    <3>2. PICK j1 \in 1 .. Len(queue[p2]) : /\ queue'[p2][j] = queue[p2][j1]
                                            /\ j1 = IF p2 = q THEN j + 1 ELSE j
      BY <1>17
    <3>3. p1 = p2 /\ i1 = j1
      BY <2>1, <3>1, <3>2 DEF Bg!BgInv, Bg!PlaceInv
    <3> QED
      BY <3>1, <3>2, <3>3
  <2>2. ASSUME NEW u \in Bg!Thread, Bg!InHand(u), u # t
        PROVE  pc[u].item.r # x.r
    BY <1>5, <2>0, <2>2 DEF Bg!BgInv, Bg!PlaceInv
  <2>3. ASSUME NEW u \in Bg!Thread, NEW v \in Bg!Thread, Bg!InHand(u)', Bg!InHand(v)',
               pc'[u].item.r = pc'[v].item.r
        PROVE  u = v
    <3>1. CASE u # t /\ v # t
      <4>1. pc'[u] = pc[u] /\ pc'[v] = pc[v] /\ Bg!InHand(u) /\ Bg!InHand(v)
        BY <1>10, <1>11, <2>3, <3>1
      <4> QED
        BY <2>3, <4>1 DEF Bg!BgInv, Bg!PlaceInv
    <3>2. CASE u = t /\ v # t
      BY <1>10, <1>11, <2>2, <2>3, <3>2
    <3>3. CASE u # t /\ v = t
      BY <1>10, <1>11, <2>2, <2>3, <3>3
    <3> QED
      BY <3>1, <3>2, <3>3
  <2>4. ASSUME NEW u \in Bg!Thread, NEW p \in Bg!Queue, Bg!InHand(u)',
               NEW i \in 1 .. Len(queue'[p])
        PROVE  queue'[p][i].r # pc'[u].item.r
    <3>1. PICK j \in 1 .. Len(queue[p]) : /\ queue'[p][i] = queue[p][j]
                                          /\ j = IF p = q THEN i + 1 ELSE i
      BY <1>17
    <3>2. CASE u = t
      <4>1. p # q \/ j # 1
        BY <3>1
      <4>2. queue[p][j].r # queue[q][1].r
        BY <2>0, <4>1 DEF Bg!BgInv, Bg!PlaceInv
      <4> QED
        BY <1>5, <1>11, <3>1, <3>2, <4>2
    <3>3. CASE u # t
      <4>1. pc'[u] = pc[u] /\ Bg!InHand(u)
        BY <1>10, <1>11, <2>4, <3>3
      <4> QED
        BY <3>1, <4>1 DEF Bg!BgInv, Bg!PlaceInv
    <3> QED
      BY <3>2, <3>3
  <2>5. ASSUME NEW r \in Request, where'[r] \in {"server", "nested"}
        PROVE  \/ \E p \in Bg!Queue : \E i \in 1 .. Len(queue'[p]) : queue'[p][i].r = r
               \/ \E u \in Bg!Thread : Bg!InHand(u)' /\ pc'[u].item.r = r
    <3>1. CASE r = x.r
      BY <1>11, <3>1
    <3>2. CASE r # x.r /\ \E p \in Bg!Queue : \E i \in 1 .. Len(queue[p]) : queue[p][i].r = r
      <4>1. PICK p \in Bg!Queue : \E i \in 1 .. Len(queue[p]) : queue[p][i].r = r
        BY <3>2
      <4>2. PICK j \in 1 .. Len(queue[p]) : queue[p][j].r = r
        BY <4>1
      <4>3. CASE p = q
        <5>1. j # 1
          BY <1>5, <3>2, <4>2, <4>3
        <5>2. j - 1 \in 1 .. Len(queue[q]) - 1 /\ (j - 1) + 1 = j
          BY <1>4, <4>3, <5>1
        <5>3. j - 1 \in 1 .. Len(queue'[q]) /\ queue'[q][j - 1] = queue[q][j]
          BY <1>9, <5>2
        <5> QED
          BY <4>2, <4>3, <5>3
      <4>4. CASE p # q
        BY <1>9, <4>2, <4>4
      <4> QED
        BY <4>3, <4>4
    <3>3. CASE r # x.r /\ \E u \in Bg!Thread : Bg!InHand(u) /\ pc[u].item.r = r
      BY <1>10, <1>11, <3>3
    <3> QED
      BY <1>8, <2>5, <3>1, <3>2, <3>3 DEF Bg!BgInv, Bg!PlaceInv
  <2> QED
    BY <2>1, <2>3, <2>4, <2>5 DEF Bg!PlaceInv
<1>20. Bg!ContinuationAtIssuer'
  BY <1>8 DEF Bg!BgInv, Bg!ContinuationAtIssuer
<1> QED
  BY <1>12, <1>13, <1>16, <1>18, <1>19, <1>20 DEF Bg!BgInv

LEMMA DispatchRunKeeps ==
  ASSUME Bg!BgAssumption, Bg!BgInv, Bg!dispatch_run
  PROVE  Bg!BgInv'
<1>1. /\ D \in Bg!Thread /\ ReqQ \in Bg!Queue /\ RespQ \in Bg!Queue
      /\ pc = [u \in Bg!Thread |-> pc[u]] /\ left \in Int
      /\ where \in [Request -> {"client", "server", "nested", "sent", "answered"}]
  BY BgDistinct DEF Bg!BgInv, Bg!BgTypes
<1>2. pc[D].at = "run" /\ Bg!InHand(D)
  BY DEF Bg!dispatch_run, Bg!InHand
<1>3. PICK x \in Bg!Work : x = pc[D].item
  BY <1>1, <1>2 DEF Bg!BgInv, Bg!BgTypes
<1>4. PICK r \in Request : r = x.r
  BY WorkFields
<1>5. Bg!ItemInv(x, Bg!Source(x))
  BY <1>1, <1>2, <1>3 DEF Bg!BgInv, Bg!ItemsInv
<1>6. PICK q \in {ReqQ, RespQ} : q = Bg!Source(x)
  BY DEF Bg!Source
<1>7. PICK to \in {"sent", "answered"} : to = IF x.kind = "req" THEN "sent" ELSE "answered"
  OBVIOUS
<1>8. PICK new : new = Bg!NextPop(q)
  OBVIOUS
<1>9. /\ where' = [where EXCEPT ![r] = to] /\ left' = left - 1 /\ pc' = [pc EXCEPT ![D] = new]
      /\ queue' = queue /\ size' = size /\ lock' = lock /\ issuer' = issuer /\ ran' = ran
  BY <1>3, <1>4, <1>6, <1>7, <1>8 DEF Bg!dispatch_run, Bg!Source
<1>10. /\ new.at \in {"pop", "responses", "loop"}
       /\ new.at = "pop" => new.q = q /\ left > 1
  BY <1>8 DEF Bg!NextPop, Bg!Loop
<1>11. /\ pc' = [u \in Bg!Thread |-> pc'[u]] /\ pc'[D] = new
       /\ \A u \in Bg!Thread : u # D => pc'[u] = pc[u]
  BY <1>1, <1>9
<1>12. ~Bg!InHand(D)' /\ \A u \in Bg!Thread : u # D => Bg!InHand(u)' = Bg!InHand(u)
  BY <1>10, <1>11 DEF Bg!InHand
<1>13. /\ where' \in [Request -> {"client", "server", "nested", "sent", "answered"}]
       /\ where'[r] = to /\ \A s \in Request : s # r => where'[s] = where[s]
  BY <1>1, <1>9
<1>14. Bg!BgTypes'
  <2>1. ASSUME NEW u \in Bg!Thread
        PROVE  /\ pc'[u].at \in {"loop", "inner", "exited", "responses", "pushed", "pop", "popped", "run"}
               /\ pc'[u].at \in {"pushed", "pop", "popped"} => pc'[u].q \in Bg!Queue
               /\ pc'[u].at = "pushed" => pc'[u].next.at \in {"loop", "inner"}
               /\ Bg!InHand(u)' => pc'[u].item \in Bg!Work
               /\ pc'[u].at = "responses" => u = D
    <3>1. CASE u = D
      BY <1>1, <1>10, <1>11, <1>12, <3>1
    <3>2. CASE u # D
      BY <1>11, <3>2 DEF Bg!InHand, Bg!BgInv, Bg!BgTypes
    <3> QED
      BY <3>1, <3>2
  <2>2. left' \in Int
    BY <1>1, <1>9
  <2> QED
    BY <1>9, <1>11, <1>13, <2>1, <2>2 DEF Bg!BgInv, Bg!BgTypes
<1>15. Bg!LockInv'
  <2>1. ASSUME NEW u \in Bg!Thread
        PROVE  /\ pc'[u].at \in {"pushed", "popped"} => lock'[pc'[u].q] = u
               /\ pc'[u].at \in {"pop", "popped"} => pc'[u].q \in Bg!Owns(u)
    <3>1. CASE u = D
      BY <1>10, <1>11, <3>1 DEF Bg!Owns
    <3>2. CASE u # D
      BY <1>9, <1>11, <3>2 DEF Bg!BgInv, Bg!LockInv
    <3> QED
      BY <3>1, <3>2
  <2>2. \A p \in Bg!Queue : lock[p] # Free => lock[p] \in Bg!Thread /\ lock[p] # D
    <3>1. \A p \in Bg!Queue : lock[p] # Free => pc[lock[p]].at \in {"pushed", "popped"}
      BY DEF Bg!BgInv, Bg!LockInv
    <3>2. \A p \in Bg!Queue : lock[p] \in Bg!Thread \cup {Free}
      BY DEF Bg!BgInv, Bg!BgTypes
    <3> QED
      BY <1>2, <3>1, <3>2
  <2>3. \A p \in Bg!Queue : lock[p] # Free => pc'[lock'[p]] = pc[lock[p]]
    BY <1>9, <1>11, <2>2
  <2>4. ASSUME NEW p \in Bg!Queue
        PROVE  /\ lock'[p] # Free => pc'[lock'[p]].at \in {"pushed", "popped"} /\ pc'[lock'[p]].q = p
               /\ Len(queue'[p]) - size'[p] =
                    IF lock'[p] = Free THEN 0
                    ELSE IF pc'[lock'[p]].at = "pushed" THEN 1 ELSE 0 - 1
    BY <1>9, <2>3 DEF Bg!BgInv, Bg!LockInv
  <2> QED
    BY <2>1, <2>4 DEF Bg!LockInv, Bg!Owns
<1>16. Bg!SeenInv'
  <2>1. Len(queue[q]) >= left - 1
    BY <1>2, <1>3, <1>6 DEF Bg!BgInv, Bg!SeenInv
  <2>2. new.at = "pop" => left - 1 >= 1
    BY <1>1, <1>10
  <2>3. \A u \in Bg!Bg : pc'[u].at = "pop" => Len(queue'[u]) >= 1
    BY <1>9, <1>11, BgDistinct DEF Bg!BgInv, Bg!SeenInv
  <2> QED
    BY <1>9, <1>10, <1>11, <2>1, <2>2, <2>3 DEF Bg!SeenInv
<1>17. \A p \in Bg!Queue : \A i \in 1 .. Len(queue[p]) : queue[p][i].r # r
  BY <1>1, <1>2, <1>3, <1>4 DEF Bg!BgInv, Bg!PlaceInv
<1>18. \A u \in Bg!Thread : u # D /\ Bg!InHand(u) => pc[u].item.r # r
  BY <1>1, <1>2, <1>3, <1>4 DEF Bg!BgInv, Bg!PlaceInv
<1>19. \A y \in Bg!Work, p \in Bg!Queue : y.r # r /\ Bg!ItemInv(y, p) => Bg!ItemInv(y, p)'
  BY <1>9, <1>13, WorkFields DEF Bg!ItemInv
<1>20. Bg!ItemsInv'
  <2>1. ASSUME NEW p \in Bg!Queue, NEW i \in 1 .. Len(queue'[p])
        PROVE  Bg!ItemInv(queue[p][i], p)'
    <3>1. queue[p] \in Seq(Bg!Work) /\ i \in 1 .. Len(queue[p])
      BY <1>9 DEF Bg!BgInv, Bg!BgTypes
    <3>2. PICK y \in Bg!Work : y = queue[p][i]
      BY <3>1
    <3>3. Bg!ItemInv(y, p) /\ y.r # r
      BY <1>17, <3>1, <3>2 DEF Bg!BgInv, Bg!ItemsInv
    <3>4. Bg!ItemInv(y, p)'
      BY <1>19, <3>3
    <3> QED
      BY <1>9, <3>2, <3>4
  <2>2. ASSUME NEW u \in Bg!Thread, Bg!InHand(u)'
        PROVE  Bg!ItemInv(pc[u].item, IF u = D THEN Bg!Source(pc[u].item) ELSE u)'
    <3>1. u # D /\ Bg!InHand(u) /\ pc'[u] = pc[u] /\ u \in Bg!Queue
      BY <1>11, <1>12, <2>2 DEF Bg!Thread, Bg!Queue
    <3>2. PICK y \in Bg!Work : y = pc[u].item
      BY <3>1 DEF Bg!BgInv, Bg!BgTypes
    <3>3. Bg!ItemInv(y, u) /\ y.r # r
      BY <1>18, <3>1, <3>2 DEF Bg!BgInv, Bg!ItemsInv
    <3>4. Bg!ItemInv(y, u)'
      BY <1>19, <3>1, <3>3
    <3> QED
      BY <3>1, <3>2, <3>4
  <2>3. ASSUME NEW s \in Request
        PROVE  /\ where'[s] \in {"client", "sent"} => ran'[s] = D
               /\ where'[s] = "sent" => issuer'[s] \in Bg!Bg
    <3>1. CASE s = r
      BY <1>4, <1>5, <1>7, <1>9, <1>13, <3>1 DEF Bg!ItemInv, Bg!Source
    <3>2. CASE s # r
      BY <1>9, <1>13, <3>2 DEF Bg!BgInv, Bg!ItemsInv
    <3> QED
      BY <3>1, <3>2
  <2> QED
    BY <2>1, <2>2, <2>3 DEF Bg!ItemsInv
<1>21. Bg!PlaceInv'
  <2>1. \A p1, p2 \in Bg!Queue : \A i \in 1 .. Len(queue'[p1]), j \in 1 .. Len(queue'[p2]) :
          queue'[p1][i].r = queue'[p2][j].r => p1 = p2 /\ i = j
    BY <1>9 DEF Bg!BgInv, Bg!PlaceInv
  <2>2. \A u, v \in Bg!Thread :
          Bg!InHand(u)' /\ Bg!InHand(v)' /\ pc'[u].item.r = pc'[v].item.r => u = v
    BY <1>11, <1>12 DEF Bg!BgInv, Bg!PlaceInv
  <2>3. \A u \in Bg!Thread, p \in Bg!Queue : Bg!InHand(u)' =>
          \A i \in 1 .. Len(queue'[p]) : queue'[p][i].r # pc'[u].item.r
    BY <1>9, <1>11, <1>12 DEF Bg!BgInv, Bg!PlaceInv
  <2>4. ASSUME NEW s \in Request, where'[s] \in {"server", "nested"}
        PROVE  \/ \E p \in Bg!Queue : \E i \in 1 .. Len(queue'[p]) : queue'[p][i].r = s
               \/ \E u \in Bg!Thread : Bg!InHand(u)' /\ pc'[u].item.r = s
    <3>1. s # r /\ where[s] \in {"server", "nested"}
      BY <1>13, <2>4
    <3>2. \/ \E p \in Bg!Queue : \E i \in 1 .. Len(queue[p]) : queue[p][i].r = s
          \/ \E u \in Bg!Thread : Bg!InHand(u) /\ pc[u].item.r = s
      BY <3>1 DEF Bg!BgInv, Bg!PlaceInv
    <3> QED
      BY <1>3, <1>4, <1>9, <1>11, <1>12, <3>1, <3>2
  <2> QED
    BY <2>1, <2>2, <2>3, <2>4 DEF Bg!PlaceInv
<1>22. Bg!ContinuationAtIssuer'
  BY <1>9 DEF Bg!BgInv, Bg!ContinuationAtIssuer
<1> QED
  BY <1>14, <1>15, <1>16, <1>20, <1>21, <1>22 DEF Bg!BgInv

\* A step that leaves everything but the kill switch as it is.
LEMMA BgStutter ==
  ASSUME Bg!BgInv, queue' = queue, size' = size, lock' = lock, pc' = pc, left' = left,
         where' = where, issuer' = issuer, ran' = ran
  PROVE  Bg!BgInv'
<1>1. \A u \in Bg!Thread : /\ Bg!InHand(u)' = Bg!InHand(u)
                           /\ Bg!InHand(u) => pc'[u].item = pc[u].item
  BY DEF Bg!InHand
<1>2. Bg!ItemsInv' /\ Bg!PlaceInv' /\ Bg!ContinuationAtIssuer'
  BY <1>1, QuietKeepsItems
<1>3. Bg!BgTypes'
  BY DEF Bg!BgInv, Bg!BgTypes, Bg!InHand
<1>4. Bg!LockInv'
  BY DEF Bg!BgInv, Bg!LockInv, Bg!Owns
<1>5. Bg!SeenInv'
  BY DEF Bg!BgInv, Bg!SeenInv, Bg!Source
<1> QED
  BY <1>2, <1>3, <1>4, <1>5 DEF Bg!BgInv

\* The dispatch thread and the background threads keep the invariant BgInv: the locks
\* protect the queues, sizes read without them are safe to rely on, and every request
\* being served is in one place.
THEOREM BgInvariantHolds == Bg!BgAssumption => (Bg!Spec => []Bg!BgInv)
<1> SUFFICES ASSUME Bg!BgAssumption PROVE Bg!Spec => []Bg!BgInv
  OBVIOUS
<1>1. Bg!Init => Bg!BgInv
  BY BgInit
<1>2. Bg!BgInv /\ [Bg!Next]_Bg!vars => Bg!BgInv'
  <2>0. SUFFICES ASSUME Bg!BgInv, [Bg!Next]_Bg!vars PROVE Bg!BgInv'
    OBVIOUS
  <2>1. CASE \E t \in Bg!Thread : Bg!PushDone(t) \/ Bg!unlocked_pop(t) \/ Bg!PopDone(t)
    BY <2>0, <2>1, PushDoneKeeps, PopKeeps, PopDoneKeeps
  <2>2. CASE \E t \in Bg!Bg : Bg!bg_thread_poll(t) \/ Bg!bg_thread_idle(t) \/ Bg!bg_thread_exit(t)
    BY <2>0, <2>2, BgLoopsKeep
  <2>3. CASE \E t \in Bg!Bg : Bg!bg_respond(t) \/ Bg!bg_request(t)
    BY <2>0, <2>3, RespondKeeps, RequestKeeps
  <2>4. CASE \E r \in Request : Bg!submit_bg_resp_st(r) \/ \E i \in Bg!Bg : Bg!submit_bg_req_st(r, i)
    BY <2>0, <2>4, SubmitReqKeeps, SubmitRespKeeps
  <2>5. CASE \E q \in {ReqQ, RespQ} : Bg!process_bg_queues(q)
    BY <2>0, <2>5, ProcessQueuesKeeps
  <2>6. CASE Bg!dispatch_run
    BY <2>0, <2>6, DispatchRunKeeps
  <2>7. CASE Bg!Kill
    BY <2>0, <2>7, BgStutter DEF Bg!Kill
  <2>8. CASE Bg!Finished
    BY <2>0, <2>8, BgStutter DEF Bg!Finished, Bg!vars
  <2>9. CASE UNCHANGED Bg!vars
    BY <2>0, <2>9, BgStutter DEF Bg!vars
  <2> QED
    BY <2>0, <2>1, <2>2, <2>3, <2>4, <2>5, <2>6, <2>7, <2>8, <2>9 DEF Bg!Next
<1> QED
  BY <1>1, <1>2, PTL DEF Bg!Spec

\* MtQueue's size_, read without the lock, never promises a consumer more than it finds.
THEOREM PopsFindItems == Bg!BgAssumption => (Bg!Spec => []Bg!NeverPopsEmpty)
<1> SUFFICES ASSUME Bg!BgAssumption PROVE Bg!Spec => []Bg!NeverPopsEmpty
  OBVIOUS
<1>1. Bg!BgInv => Bg!NeverPopsEmpty
  <2> SUFFICES ASSUME Bg!BgInv, NEW t \in Bg!Thread, pc[t].at = "pop"
               PROVE  Len(queue[pc[t].q]) >= IF t = D THEN left ELSE 1
    BY DEF Bg!NeverPopsEmpty
  <2>1. CASE t = D
    BY <2>1 DEF Bg!BgInv, Bg!SeenInv
  <2>2. CASE t # D
    <3>1. t \in Bg!Bg /\ pc[t].q = t
      BY <2>2 DEF Bg!BgInv, Bg!LockInv, Bg!Owns, Bg!Thread
    <3> QED
      BY <2>2, <3>1 DEF Bg!BgInv, Bg!SeenInv
  <2> QED
    BY <2>1, <2>2
<1> QED
  BY <1>1, BgInvariantHolds, PTL

\* A continuation runs in the thread whose handler issued the request.
THEOREM ContinuationsAtIssuer == Bg!BgAssumption => (Bg!Spec => []Bg!ContinuationAtIssuer)
<1> SUFFICES ASSUME Bg!BgAssumption PROVE Bg!Spec => []Bg!ContinuationAtIssuer
  OBVIOUS
<1>1. Bg!BgInv => Bg!ContinuationAtIssuer
  BY DEF Bg!BgInv
<1> QED
  BY <1>1, BgInvariantHolds, PTL

\* A request being served is in exactly one queue or one thread's hands.
THEOREM RequestsServedOnce == Bg!BgAssumption => (Bg!Spec => []Bg!ServedOnce)
<1> SUFFICES ASSUME Bg!BgAssumption PROVE Bg!Spec => []Bg!ServedOnce
  OBVIOUS
<1>1. Bg!BgInv => Bg!ServedOnce
  <2> SUFFICES ASSUME Bg!BgInv, NEW r \in Request
               PROVE  IF where[r] \in {"server", "nested"}
                      THEN \E p \in Bg!Places(r) : Bg!Places(r) = {p}
                      ELSE Bg!Places(r) = {}
    BY DEF Bg!ServedOnce
  <2>1. \A q \in Bg!Queue : DOMAIN queue[q] = 1 .. Len(queue[q])
    BY DEF Bg!BgInv, Bg!BgTypes
  <2>2. \A z : z \in Bg!Places(r) <=>
          \/ \E q \in Bg!Queue : \E i \in 1 .. Len(queue[q]) : queue[q][i].r = r /\ z = <<q, i>>
          \/ \E t \in Bg!Thread : Bg!InHand(t) /\ pc[t].item.r = r /\ z = <<t, 0>>
    <3>1. ASSUME NEW q \in Bg!Queue, NEW z
          PROVE  z \in Bg!QueuedAt(q, r) <=>
                   \E i \in 1 .. Len(queue[q]) : queue[q][i].r = r /\ z = <<q, i>>
      BY <2>1 DEF Bg!QueuedAt
    <3>2. \A t : t \in Bg!InHands(r) <=> t \in Bg!Thread /\ Bg!InHand(t) /\ pc[t].item.r = r
      BY DEF Bg!InHands, Bg!InHand
    <3>3. ASSUME NEW z
          PROVE  z \in Bg!Places(r) <=> \/ \E q \in Bg!Queue : z \in Bg!QueuedAt(q, r)
                                       \/ \E t \in Bg!InHands(r) : z = <<t, 0>>
      BY DEF Bg!Places
    <3> QED
      BY <3>1, <3>2, <3>3
  <2>3. CASE where[r] \notin {"server", "nested"}
    BY <2>2, <2>3, NotServed
  <2>4. CASE /\ where[r] \in {"server", "nested"}
             /\ \E q \in Bg!Queue : \E i \in 1 .. Len(queue[q]) : queue[q][i].r = r
    <3>1. PICK q \in Bg!Queue : \E i \in 1 .. Len(queue[q]) : queue[q][i].r = r
      BY <2>4
    <3>2. PICK i \in 1 .. Len(queue[q]) : queue[q][i].r = r
      BY <3>1
    <3>3. \A z \in Bg!Places(r) : z = <<q, i>>
      BY <2>2, <3>2 DEF Bg!BgInv, Bg!PlaceInv
    <3>4. <<q, i>> \in Bg!Places(r)
      BY <2>2, <3>2
    <3> QED
      BY <2>4, <3>3, <3>4
  <2>5. CASE /\ where[r] \in {"server", "nested"}
             /\ \E t \in Bg!Thread : Bg!InHand(t) /\ pc[t].item.r = r
    <3>1. PICK t \in Bg!Thread : Bg!InHand(t) /\ pc[t].item.r = r
      BY <2>5
    <3>2. \A z \in Bg!Places(r) : z = <<t, 0>>
      BY <2>2, <3>1 DEF Bg!BgInv, Bg!PlaceInv
    <3>3. <<t, 0>> \in Bg!Places(r)
      BY <2>2, <3>1
    <3> QED
      BY <2>5, <3>2, <3>3
  <2> QED
    BY <2>3, <2>4, <2>5 DEF Bg!BgInv, Bg!PlaceInv
<1> QED
  BY <1>1, BgInvariantHolds, PTL

-----------------------------------------------------------------------------
(* The send queue *)

\* The remainder of a number and of the one before it.
LEMMA ModPred ==
  ASSUME NEW N \in Nat \ {0}, NEW a \in Nat \ {0}
  PROVE  /\ (a - 1) % N \in 0 .. N - 1
         /\ a % N = IF (a - 1) % N = N - 1 THEN 0 ELSE ((a - 1) % N) + 1
<1> DEFINE q == (a - 1) \div N
           r == (a - 1) % N
<1>1. a - 1 = N * q + r /\ r \in 0 .. N - 1 /\ q \in Nat
  <2>1. a - 1 \in Nat
    OBVIOUS
  <2> QED
    BY <2>1, ModFact
<1> HIDE DEF q, r
<1>2. CASE r = N - 1
  <2>1. a = N * (q + 1) + 0
    BY <1>1, <1>2
  <2>2. (N * (q + 1) + 0) % N = 0
    BY <1>1, ModUnique
  <2> QED
    BY <1>1, <1>2, <2>1, <2>2 DEF r
<1>3. CASE r # N - 1
  <2>1. a = N * q + (r + 1)
    BY <1>1
  <2>2. (N * q + (r + 1)) % N = r + 1
    BY <1>1, <1>3, ModUnique
  <2> QED
    BY <1>1, <1>3, <2>1, <2>2 DEF r
<1> QED
  BY <1>2, <1>3

\* The entries of a concatenation, and of a queue without its first n entries.
LEMMA ConcatAt ==
  ASSUME NEW S, NEW s \in Seq(S), NEW t \in Seq(S)
  PROVE  /\ s \o t \in Seq(S)
         /\ Len(s \o t) = Len(s) + Len(t)
         /\ \A i \in 1 .. Len(s) + Len(t) :
              (s \o t)[i] = IF i <= Len(s) THEN s[i] ELSE t[i - Len(s)]
  OBVIOUS

LEMMA DropAt ==
  ASSUME NEW S, NEW s \in Seq(S), NEW n \in 0 .. Len(s)
  PROVE  /\ SubSeq(s, n + 1, Len(s)) \in Seq(S)
         /\ Len(SubSeq(s, n + 1, Len(s))) = Len(s) - n
         /\ \A i \in 1 .. Len(s) - n : SubSeq(s, n + 1, Len(s))[i] = s[i + n]
  OBVIOUS

LEMMA AppendAt ==
  ASSUME NEW S, NEW s \in Seq(S), NEW e \in S
  PROVE  /\ Append(s, e) \in Seq(S)
         /\ Len(Append(s, e)) = Len(s) + 1
         /\ \A i \in 1 .. Len(s) + 1 :
              Append(s, e)[i] = IF i <= Len(s) THEN s[i] ELSE e
  OBVIOUS

\* The same WQEs with one more behind them.
LEMMA ConcatAppend ==
  ASSUME NEW S, NEW s \in Seq(S), NEW t \in Seq(S), NEW e \in S
  PROVE  s \o Append(t, e) = Append(s \o t, e)
  OBVIOUS

LEMMA TxConstants ==
  ASSUME Tx!SizeAssumption, Tx!QueueAssumption
  PROVE  /\ kUnsigBatch \in Nat \ {0} /\ kSQDepth \in Nat /\ kPostlist \in Nat \ {0}
         /\ MaxTxPkts \in Nat /\ InlineCtrl \in BOOLEAN
         /\ kSQDepth >= 2 * kUnsigBatch /\ kPostlist <= kUnsigBatch
         /\ Tx!NoBuf \in Nat /\ Tx!NoBuf \notin Tx!CtrlRing
         /\ Tx!CtrlRing \subseteq 0 .. Tx!NoBuf
  BY DEF Tx!SizeAssumption, Tx!QueueAssumption, Tx!NoBuf, Tx!CtrlRing

LEMMA TxInit ==
  ASSUME Tx!SizeAssumption, Tx!QueueAssumption, Tx!Init
  PROVE  Tx!TxInv
<1>1. Tx!Flight = <<>>
  BY DEF Tx!Init, Tx!Flight
<1>2. Tx!TxTypes
  BY TxConstants DEF Tx!Init, Tx!TxTypes, Tx!CtrlRing
<1> QED
  BY <1>1, <1>2, TxConstants DEF Tx!Init, Tx!TxInv, Tx!BatchInv, Tx!SignalInv, Tx!DmaInv, Tx!CtrlInv

\* The poll takes the completion of the one signaled WQE, which is posted.
LEMMA PolledIsFirst ==
  ASSUME Tx!TxTypes, Tx!SignalInv, send_cq > 0
  PROVE  /\ nb_tx # 0
         /\ \E p \in 1 .. kUnsigBatch :
              /\ Tx!SignaledAt(p) /\ p <= sent /\ send_cq = 1 /\ Tx!FirstSignaled = p
              /\ Len(Tx!Flight) = p + (IF tx_pc = "flush_wait" THEN 0
                                                             ELSE (nb_tx - 1) % kUnsigBatch)
<1>1. nb_tx # 0
  BY DEF Tx!SignalInv
<1>2. PICK p \in 1 .. kUnsigBatch :
        /\ Tx!SignaledAt(p)
        /\ Len(Tx!Flight) = p + (IF tx_pc = "flush_wait" THEN 0
                                                       ELSE (nb_tx - 1) % kUnsigBatch)
        /\ send_cq = IF p <= sent THEN 1 ELSE 0
  BY <1>1 DEF Tx!SignalInv
<1>3. p <= sent /\ send_cq = 1
  BY <1>2
<1>4. \A i \in 1 .. Len(sq) : i \in 1 .. Len(Tx!Flight) /\ Tx!Flight[i] = sq[i]
  BY ConcatAt DEF Tx!TxTypes, Tx!Flight
<1>5. \A i \in 1 .. Len(sq) : sq[i].sig <=> i = p
  BY <1>2, <1>4 DEF Tx!SignaledAt
<1>6. p \in 1 .. Len(sq)
  BY <1>3 DEF Tx!TxTypes
<1>7. Tx!FirstSignaled = p
  <2>1. sq[p].sig /\ \A j \in 1 .. p - 1 : ~sq[j].sig
    BY <1>5, <1>6
  <2>2. \A q \in 1 .. Len(sq) : sq[q].sig => q = p
    BY <1>5
  <2> QED
    BY <1>6, <2>1, <2>2 DEF Tx!FirstSignaled
<1> QED
  BY <1>1, <1>2, <1>3, <1>7

\* Steps that leave the WQEs in flight and their completions alone.
LEMMA QueueKept ==
  ASSUME Tx!SignalInv, Tx!DmaInv, UNCHANGED <<nb_tx, sq, sent, send_cq, send_wr>>,
         tx_pc # "flush_wait", tx_pc' # "flush_wait"
  PROVE  Tx!SignalInv' /\ Tx!DmaInv'
<1>1. Tx!Flight' = Tx!Flight
  BY DEF Tx!Flight
<1>2. Tx!SignalInv'
  BY <1>1 DEF Tx!SignalInv, Tx!SignaledAt
<1>3. Tx!DmaInv'
  BY <1>1 DEF Tx!DmaInv, Tx!UsesDma, Tx!NoBuf
<1> QED
  BY <1>2, <1>3

\* A data packet, or a control packet in its MsgBuffer, joins the batch.
LEMMA EnqueuePktKeeps ==
  ASSUME Tx!SizeAssumption, Tx!QueueAssumption, Tx!TxInv, Tx!enqueue_pkt_tx_burst
  PROVE  Tx!TxInv'
<1> USE DEF Tx!enqueue_pkt_tx_burst, Tx!AddToBatch
<1>0. Tx!TxTypes /\ Tx!BatchInv /\ Tx!CtrlInv
  BY DEF Tx!TxInv
<1>1. Tx!SignalInv' /\ Tx!DmaInv'
  <2>1. tx_pc # "flush_wait" /\ tx_pc' # "flush_wait"
    OBVIOUS
  <2> QED
    BY <2>1, QueueKept DEF Tx!TxInv
<1> DEFINE e == [buf |-> Tx!NoBuf, msg |-> 0]
<1>2. /\ tx_burst_arr' \in Seq(Tx!Item)
      /\ Len(tx_burst_arr') = Len(tx_burst_arr) + 1
      /\ \A i \in 1 .. Len(tx_burst_arr) + 1 :
           tx_burst_arr'[i] = IF i <= Len(tx_burst_arr) THEN tx_burst_arr[i] ELSE e
  <2>1. e \in Tx!Item
    BY TxConstants DEF Tx!Item
  <2> QED
    BY <1>0, <2>1, AppendAt DEF Tx!TxTypes
<1>3. Tx!TxTypes'
  BY <1>0, <1>2 DEF Tx!TxTypes, Tx!CtrlRing, Tx!Item, Tx!Wqe, Tx!NoBuf
<1>4. Tx!BatchInv'
  BY <1>0, <1>2, TxConstants DEF Tx!TxTypes, Tx!BatchInv
<1>5. Tx!CtrlInv'
  <2> SUFFICES ASSUME NEW i \in 1 .. Len(tx_burst_arr'), tx_burst_arr'[i].buf # Tx!NoBuf
               PROVE  /\ ctrl_msgbufs[tx_burst_arr'[i].buf] = tx_burst_arr'[i].msg
                      /\ \E d \in 1 .. Len(tx_burst_arr') :
                           tx_burst_arr'[i].buf \in {ctrl_msgbuf_head - d,
                                                     ctrl_msgbuf_head - d + 2 * kUnsigBatch}
    BY DEF Tx!CtrlInv, Tx!NoBuf
  <2>1. i <= Len(tx_burst_arr) /\ tx_burst_arr'[i] = tx_burst_arr[i]
    BY <1>0, <1>2 DEF Tx!TxTypes
  <2>2. i \in 1 .. Len(tx_burst_arr) /\ Len(tx_burst_arr) \in Nat
    BY <1>0, <2>1 DEF Tx!TxTypes
  <2>3. /\ ctrl_msgbufs[tx_burst_arr[i].buf] = tx_burst_arr[i].msg
        /\ \E d \in 1 .. Len(tx_burst_arr) :
             tx_burst_arr[i].buf \in {ctrl_msgbuf_head - d,
                                      ctrl_msgbuf_head - d + 2 * kUnsigBatch}
    BY <1>0, <2>1, <2>2 DEF Tx!CtrlInv
  <2> QED
    BY <1>2, <2>1, <2>2, <2>3
<1> QED
  BY <1>1, <1>3, <1>4, <1>5 DEF Tx!TxInv

LEMMA EnqueueHdrKeeps ==
  ASSUME Tx!SizeAssumption, Tx!QueueAssumption, Tx!TxInv, Tx!enqueue_hdr_tx_burst
  PROVE  Tx!TxInv'
<1> DEFINE h == ctrl_msgbuf_head
           e == [buf |-> h, msg |-> enqueued + 1]
           n == Len(tx_burst_arr)
<1>a. /\ tx_pc = "idle" /\ ctrl_msgbufs' = [ctrl_msgbufs EXCEPT ![h] = enqueued + 1]
      /\ ctrl_msgbuf_head' = Tx!NextCtrl(h) /\ enqueued' = enqueued + 1
      /\ tx_burst_arr' = Append(tx_burst_arr, e)
      /\ tx_pc' = IF n + 1 = kPostlist THEN "burst" ELSE "idle"
      /\ UNCHANGED <<nb_tx, sq, sent, send_cq, send_wr>>
  BY DEF Tx!enqueue_hdr_tx_burst, Tx!AddToBatch
<1>c. kUnsigBatch \in Nat \ {0} /\ kPostlist \in Nat \ {0} /\ kPostlist <= kUnsigBatch
  BY TxConstants
<1>0. Tx!TxTypes /\ Tx!BatchInv /\ Tx!CtrlInv
  BY DEF Tx!TxInv
<1>1. Tx!SignalInv' /\ Tx!DmaInv'
  <2>1. tx_pc # "flush_wait" /\ tx_pc' # "flush_wait"
    BY <1>a
  <2> QED
    BY <1>a, <2>1, QueueKept DEF Tx!TxInv
<1>2. /\ tx_burst_arr' \in Seq(Tx!Item)
      /\ Len(tx_burst_arr') = n + 1
      /\ \A i \in 1 .. n + 1 : tx_burst_arr'[i] = IF i <= n THEN tx_burst_arr[i] ELSE e
  <2>1. e \in Tx!Item
    BY <1>0, TxConstants DEF Tx!Item, Tx!TxTypes
  <2> QED
    BY <1>0, <1>a, <2>1, AppendAt DEF Tx!TxTypes
<1>3. n \in Nat /\ n < kPostlist /\ h \in 0 .. 2 * kUnsigBatch - 1
  BY <1>0, <1>a DEF Tx!TxTypes, Tx!BatchInv, Tx!CtrlRing
<1>4. /\ ctrl_msgbuf_head' \in 0 .. 2 * kUnsigBatch - 1
      /\ \/ ctrl_msgbuf_head' = h + 1
         \/ ctrl_msgbuf_head' = 0 /\ h = 2 * kUnsigBatch - 1
  <2>1. ctrl_msgbuf_head' = IF h + 1 = 2 * kUnsigBatch THEN 0 ELSE h + 1
    BY <1>a DEF Tx!NextCtrl
  <2> HIDE DEF h, n
  <2> QED
    BY <1>3, <1>c, <2>1
<1>5. Tx!TxTypes'
  <2>1. ctrl_msgbufs' \in [Tx!CtrlRing -> Nat]
    BY <1>0, <1>a DEF Tx!TxTypes
  <2> QED
    BY <1>0, <1>a, <1>2, <1>4, <2>1 DEF Tx!TxTypes, Tx!CtrlRing, Tx!Item, Tx!Wqe, Tx!NoBuf
<1>6. Tx!BatchInv'
  BY <1>0, <1>a, <1>c, <1>2, <1>3 DEF Tx!TxTypes, Tx!BatchInv
<1>7. Tx!CtrlInv'
  <2> SUFFICES ASSUME NEW i \in 1 .. Len(tx_burst_arr'), tx_burst_arr'[i].buf # Tx!NoBuf
               PROVE  /\ ctrl_msgbufs'[tx_burst_arr'[i].buf] = tx_burst_arr'[i].msg
                      /\ \E d \in 1 .. Len(tx_burst_arr') :
                           tx_burst_arr'[i].buf \in {ctrl_msgbuf_head' - d,
                                                     ctrl_msgbuf_head' - d + 2 * kUnsigBatch}
    BY DEF Tx!CtrlInv, Tx!NoBuf
  <2>1. CASE i = n + 1
    <3>1. tx_burst_arr'[i] = e
      BY <1>2, <1>3, <2>1
    <3>2. ctrl_msgbufs'[h] = enqueued + 1
      BY <1>0, <1>a DEF Tx!TxTypes
    <3>3. h = ctrl_msgbuf_head' - 1 \/ h = ctrl_msgbuf_head' - 1 + 2 * kUnsigBatch
      <4>0. h \in Int
        BY <1>3
      <4> HIDE DEF h
      <4>1. CASE ctrl_msgbuf_head' = h + 1
        BY <4>0, <4>1
      <4>2. CASE ctrl_msgbuf_head' = 0 /\ h = 2 * kUnsigBatch - 1
        BY <1>c, <4>2
      <4> QED
        BY <1>4, <4>1, <4>2
    <3>4. 1 \in 1 .. Len(tx_burst_arr')
      BY <1>2, <1>3
    <3> QED
      BY <3>1, <3>2, <3>3, <3>4
  <2>2. CASE i # n + 1
    <3>1. i \in 1 .. n /\ tx_burst_arr'[i] = tx_burst_arr[i]
      BY <1>2, <1>3, <2>2
    <3> DEFINE b == tx_burst_arr[i].buf
    <3>2. b # Tx!NoBuf /\ ctrl_msgbufs[b] = tx_burst_arr[i].msg
      BY <1>0, <3>1 DEF Tx!CtrlInv
    <3>3. PICK d \in 1 .. n : b \in {h - d, h - d + 2 * kUnsigBatch}
      BY <1>0, <3>1, <3>2 DEF Tx!CtrlInv
    <3>4. b \in 0 .. 2 * kUnsigBatch - 1
      <4>1. tx_burst_arr[i] \in Tx!Item
        BY <1>0, <3>1 DEF Tx!TxTypes
      <4> QED
        BY <1>c, <3>2, <4>1 DEF Tx!Item, Tx!NoBuf
    <3> HIDE DEF b, h, n
    <3>5. b # h
      BY <1>3, <1>c, <3>3, <3>4
    <3>6. ctrl_msgbufs'[b] = ctrl_msgbufs[b]
      BY <1>0, <1>a, <3>4, <3>5 DEF Tx!TxTypes, Tx!CtrlRing, h
    <3>7. b \in {ctrl_msgbuf_head' - (d + 1), ctrl_msgbuf_head' - (d + 1) + 2 * kUnsigBatch}
      <4>1. d \in Nat /\ d <= n /\ n < kUnsigBatch
        BY <1>3, <1>c, <3>3
      <4>2. CASE ctrl_msgbuf_head' = h + 1
        <5>1. CASE b = h - d
          BY <1>3, <4>1, <4>2, <5>1
        <5>2. CASE b = h - d + 2 * kUnsigBatch
          BY <1>3, <1>c, <4>1, <4>2, <5>2
        <5> QED
          BY <3>3, <5>1, <5>2
      <4>3. CASE ctrl_msgbuf_head' = 0 /\ h = 2 * kUnsigBatch - 1
        <5>1. b = h - d
          BY <1>3, <1>c, <3>3, <3>4, <4>1, <4>3
        <5> QED
          BY <1>3, <1>c, <4>1, <4>3, <5>1
      <4> QED
        BY <1>4, <4>2, <4>3
    <3>8. d + 1 \in 1 .. Len(tx_burst_arr')
      BY <1>2, <1>3, <3>3
    <3> QED
      BY <3>1, <3>2, <3>6, <3>7, <3>8 DEF b
  <2> QED
    BY <2>1, <2>2
<1> QED
  BY <1>1, <1>5, <1>6, <1>7 DEF Tx!TxInv

\* Steps of the dispatch thread that only change what it does next.
LEMMA BurstStartKeeps ==
  ASSUME Tx!SizeAssumption, Tx!QueueAssumption, Tx!TxInv,
         Tx!do_tx_burst \/ Tx!drain_tx_batch_and_dma_queue \/ Tx!tx_flush_none
  PROVE  Tx!TxInv'
<1> USE DEF Tx!do_tx_burst, Tx!drain_tx_batch_and_dma_queue, Tx!tx_flush_none
<1>1. /\ tx_pc \in {"idle", "flush"} /\ tx_pc' \in {"idle", "burst", "burst_flush", "flush"}
      /\ UNCHANGED <<nb_tx, sq, sent, send_cq, tx_burst_arr, send_wr, ctrl_msgbufs,
                     ctrl_msgbuf_head, enqueued>>
  OBVIOUS
<1>2. Tx!SignalInv' /\ Tx!DmaInv'
  BY <1>1, QueueKept DEF Tx!TxInv
<1>3. Tx!TxTypes' /\ Tx!CtrlInv'
  BY <1>1 DEF Tx!TxInv, Tx!TxTypes, Tx!CtrlInv, Tx!CtrlRing, Tx!Item, Tx!Wqe, Tx!NoBuf
<1>4. Tx!BatchInv'
  BY TxConstants, SMTT(40) DEF Tx!TxInv, Tx!TxTypes, Tx!BatchInv
<1> QED
  BY <1>2, <1>3, <1>4 DEF Tx!TxInv

\* What tx_burst_item and the flush build on: the queue without the WQEs that a poll
\* reclaims, with one WQE behind it.
LEMMA ItemTypes ==
  ASSUME Tx!SizeAssumption, Tx!TxTypes, Tx!BatchInv,
         NEW k \in 1 .. Len(tx_burst_arr)
  PROVE  [item |-> tx_burst_arr[k], dma |-> Tx!UsesDma(tx_burst_arr[k]),
          sig |-> Tx!Signaled(nb_tx)] \in Tx!Wqe
<1>1. tx_burst_arr[k] \in Tx!Item
  BY DEF Tx!TxTypes
<1>2. Tx!UsesDma(tx_burst_arr[k]) \in BOOLEAN
  BY DEF Tx!UsesDma
<1>3. Tx!Signaled(nb_tx) \in BOOLEAN
  BY DEF Tx!Signaled
<1> QED
  BY <1>1, <1>2, <1>3 DEF Tx!Wqe

\* A WQE that starts no new signaling batch, or the first since a flush.
LEMMA ItemNoPoll ==
  ASSUME Tx!SizeAssumption, Tx!QueueAssumption, Tx!TxInv, Tx!tx_burst_item,
         ~Tx!MustPoll(nb_tx), NEW w \in Tx!Wqe, send_wr' = Append(send_wr, w),
         w.sig <=> Tx!Signaled(nb_tx), w.dma => Tx!UsesDma(w.item)
  PROVE  Tx!SignalInv' /\ Tx!DmaInv' /\ sent' \in 0 .. Len(sq')
<1>c. kUnsigBatch \in Nat \ {0}
  BY TxConstants
<1>0. Tx!TxTypes /\ Tx!SignalInv /\ Tx!DmaInv
  BY DEF Tx!TxInv
<1>1. /\ nb_tx' = nb_tx + 1 /\ UNCHANGED <<sq, sent, send_cq, tx_pc>>
      /\ tx_pc # "flush_wait" /\ tx_pc' # "flush_wait"
  BY DEF Tx!tx_burst_item
<1>2. sq \in Seq(Tx!Wqe) /\ send_wr \in Seq(Tx!Wqe) /\ nb_tx \in Nat /\ sent \in 0 .. Len(sq)
  BY <1>0 DEF Tx!TxTypes
<1> DEFINE L == Len(Tx!Flight)
<1>3. Tx!Flight \in Seq(Tx!Wqe) /\ L = Len(sq) + Len(send_wr) /\ L \in Nat
  BY <1>2, ConcatAt DEF Tx!Flight
<1>4. /\ Len(Tx!Flight') = L + 1
      /\ \A i \in 1 .. L + 1 : (Tx!Flight')[i] = IF i <= L THEN Tx!Flight[i] ELSE w
  <2>1. Tx!Flight' = Append(Tx!Flight, w)
    BY <1>1, <1>2, ConcatAppend DEF Tx!Flight
  <2> QED
    BY <1>3, <2>1, AppendAt
<1>5. Tx!DmaInv'
  <2> SUFFICES ASSUME NEW i \in 1 .. L + 1, (Tx!Flight')[i].dma
               PROVE  Tx!UsesDma((Tx!Flight')[i].item)
    BY <1>4 DEF Tx!DmaInv, Tx!UsesDma, Tx!NoBuf
  <2>1. CASE i <= L
    BY <1>0, <1>3, <1>4, <2>1 DEF Tx!DmaInv
  <2>2. CASE ~(i <= L)
    BY <1>4, <2>2
  <2> QED
    BY <2>1, <2>2
<1>6. CASE nb_tx = 0
  <2>1. L = 0 /\ send_cq = 0 /\ sent = 0
    BY <1>0, <1>2, <1>3, <1>6 DEF Tx!SignalInv
  <2>2. w.sig
    <3>1. 0 % kUnsigBatch = 0
      <4>1. (kUnsigBatch * 0 + 0) % kUnsigBatch = 0
        BY <1>c, ModUnique
      <4> QED
        BY <1>c, <4>1
    <3> QED
      BY <1>6, <3>1 DEF Tx!Signaled
  <2>3. (nb_tx' - 1) % kUnsigBatch = 0
    BY <1>c, <1>1, <1>6, <2>2 DEF Tx!Signaled
  <2>4. Tx!SignaledAt(1)'
    BY <1>4, <2>1, <2>2 DEF Tx!SignaledAt
  <2>5. 1 \in 1 .. kUnsigBatch /\ Len(Tx!Flight') = 1 + 0 /\ send_cq' = 0 /\ ~(1 <= sent')
    BY <1>c, <1>1, <1>4, <2>1
  <2>6. nb_tx' # 0
    BY <1>1, <1>6
  <2> QED
    BY <1>1, <1>2, <1>5, <2>3, <2>4, <2>5, <2>6 DEF Tx!SignalInv
<1>7. CASE nb_tx # 0
  <2>1. PICK p \in 1 .. kUnsigBatch :
          /\ Tx!SignaledAt(p) /\ L = p + ((nb_tx - 1) % kUnsigBatch)
          /\ send_cq = IF p <= sent THEN 1 ELSE 0
    BY <1>0, <1>1, <1>7 DEF Tx!SignalInv
  <2>2. ~w.sig /\ nb_tx % kUnsigBatch # 0
    BY <1>7 DEF Tx!MustPoll, Tx!Signaled
  <2>3. /\ nb_tx % kUnsigBatch = ((nb_tx - 1) % kUnsigBatch) + 1
        /\ (nb_tx - 1) % kUnsigBatch \in 0 .. kUnsigBatch - 1
    <3>1. nb_tx \in Nat \ {0}
      BY <1>2, <1>7
    <3> QED
      BY <1>c, <2>2, <3>1, ModPred
  <2>4. Tx!SignaledAt(p)'
    <3>1. p \in 1 .. L /\ \A i \in 1 .. L : Tx!Flight[i].sig <=> i = p
      BY <2>1 DEF Tx!SignaledAt
    <3>2. ASSUME NEW i \in 1 .. L + 1 PROVE (Tx!Flight')[i].sig <=> i = p
      <4> HIDE DEF L
      <4>1. CASE i <= L
        <5>1. i \in 1 .. L
          BY <1>3, <4>1
        <5>2. (Tx!Flight')[i] = Tx!Flight[i]
          BY <1>4, <4>1
        <5> QED
          BY <3>1, <5>1, <5>2
      <4>2. CASE ~(i <= L)
        <5>1. (Tx!Flight')[i] = w /\ i # p
          BY <1>3, <1>4, <3>1, <4>2
        <5> QED
          BY <2>2, <5>1
      <4> QED
        BY <4>1, <4>2
    <3> QED
      BY <1>3, <1>4, <3>1, <3>2 DEF Tx!SignaledAt
  <2>5. (nb_tx' - 1) % kUnsigBatch = nb_tx % kUnsigBatch
    BY <1>1, <1>2
  <2>6. Len(Tx!Flight') = p + ((nb_tx' - 1) % kUnsigBatch)
    <3> DEFINE m == (nb_tx - 1) % kUnsigBatch
    <3>1. m \in 0 .. kUnsigBatch - 1
      BY <2>3
    <3>2. L = p + m /\ p \in Nat
      BY <1>c, <2>1
    <3> HIDE DEF L, m
    <3>3. Len(Tx!Flight') = p + (m + 1)
      BY <1>c, <1>4, <3>1, <3>2
    <3> QED
      BY <2>3, <2>5, <3>3 DEF m
  <2>7. nb_tx' # 0 /\ send_cq' = IF p <= sent' THEN 1 ELSE 0
    BY <1>1, <1>2, <2>1
  <2>8. Tx!SignalInv'
    BY <1>1, <2>4, <2>6, <2>7 DEF Tx!SignalInv
  <2> QED
    BY <1>1, <1>2, <1>5, <2>8
<1> QED
  BY <1>6, <1>7

\* The queue after a poll: what was behind the polled WQE.
LEMMA PollDrops ==
  ASSUME Tx!TxTypes, NEW p \in 1 .. Len(sq), p <= sent
  PROVE  /\ Tx!Drop(p) \in Seq(Tx!Wqe) /\ Len(Tx!Drop(p)) = Len(sq) - p
         /\ sent - p \in 0 .. Len(sq) - p
         /\ \A i \in 1 .. Len(sq) - p : Tx!Drop(p)[i] = sq[i + p]
         /\ (Tx!Drop(p) \o send_wr) \in Seq(Tx!Wqe)
         /\ Len(Tx!Drop(p) \o send_wr) = Len(Tx!Flight) - p
         /\ \A i \in 1 .. Len(Tx!Flight) - p : (Tx!Drop(p) \o send_wr)[i] = Tx!Flight[i + p]
<1>1. sq \in Seq(Tx!Wqe) /\ send_wr \in Seq(Tx!Wqe) /\ sent \in 0 .. Len(sq)
  BY DEF Tx!TxTypes
<1>2. /\ Tx!Drop(p) \in Seq(Tx!Wqe) /\ Len(Tx!Drop(p)) = Len(sq) - p
      /\ \A i \in 1 .. Len(sq) - p : Tx!Drop(p)[i] = sq[i + p]
  BY <1>1, DropAt DEF Tx!Drop
<1> DEFINE d == Tx!Drop(p)
           n == Len(sq)
           m == Len(send_wr)
<1>3. n \in Nat /\ m \in Nat
  BY <1>1
<1> HIDE DEF d
<1>4. /\ d \o send_wr \in Seq(Tx!Wqe)
      /\ Len(d \o send_wr) = Len(d) + m
      /\ \A i \in 1 .. Len(d) + m : (d \o send_wr)[i] = IF i <= Len(d) THEN d[i] ELSE send_wr[i - Len(d)]
  BY <1>1, <1>2, ConcatAt DEF d
<1>5. /\ Len(Tx!Flight) = n + m
      /\ \A i \in 1 .. n + m : Tx!Flight[i] = IF i <= n THEN sq[i] ELSE send_wr[i - n]
  BY <1>1, ConcatAt DEF Tx!Flight
<1>6. Len(d) = n - p
  BY <1>2 DEF d
<1>7. ASSUME NEW i \in 1 .. n + m - p
      PROVE  (d \o send_wr)[i] = Tx!Flight[i + p]
  <2> HIDE DEF n, m
  <2>0. p \in 1 .. n
    BY DEF n
  <2>1. i + p \in 1 .. n + m /\ i \in 1 .. Len(d) + m
    BY <1>3, <1>6, <2>0
  <2>2. CASE i <= n - p
    <3>1. (d \o send_wr)[i] = d[i]
      BY <1>4, <1>6, <2>1, <2>2
    <3>2. d[i] = sq[i + p]
      BY <1>2, <1>3, <2>0, <2>2 DEF d, n
    <3>3. Tx!Flight[i + p] = sq[i + p]
      BY <1>3, <1>5, <2>0, <2>1, <2>2
    <3> QED
      BY <3>1, <3>2, <3>3
  <2>3. CASE ~(i <= n - p)
    <3>1. (d \o send_wr)[i] = send_wr[i - (n - p)]
      BY <1>4, <1>6, <2>1, <2>3
    <3>2. Tx!Flight[i + p] = send_wr[i + p - n]
      BY <1>3, <1>5, <2>0, <2>1, <2>3
    <3>3. i - (n - p) = i + p - n
      BY <1>3, <2>0
    <3> QED
      BY <3>1, <3>2, <3>3
  <2> QED
    BY <2>2, <2>3
<1>8. Len(d) + m = Len(Tx!Flight) - p /\ sent - p \in 0 .. n - p
  BY <1>1, <1>3, <1>5, <1>6
<1> QED
  BY <1>2, <1>4, <1>5, <1>7, <1>8 DEF d

\* A WQE that starts a signaling batch: the poll reclaims the previous one's signaled
\* WQE and all before it, and the new one is the signaled one.
LEMMA ItemPoll ==
  ASSUME Tx!SizeAssumption, Tx!QueueAssumption, Tx!TxInv, Tx!tx_burst_item,
         Tx!MustPoll(nb_tx), NEW w \in Tx!Wqe, send_wr' = Append(send_wr, w),
         w.sig <=> Tx!Signaled(nb_tx), w.dma => Tx!UsesDma(w.item)
  PROVE  /\ Tx!SignalInv' /\ Tx!DmaInv' /\ sq' \in Seq(Tx!Wqe)
         /\ sent' \in 0 .. Len(sq')
<1>c. kUnsigBatch \in Nat \ {0}
  BY TxConstants
<1>0. Tx!TxTypes /\ Tx!SignalInv /\ Tx!DmaInv
  BY DEF Tx!TxInv
<1>1. /\ nb_tx' = nb_tx + 1 /\ tx_pc # "flush_wait" /\ tx_pc' # "flush_wait"
      /\ send_cq > 0 /\ send_cq' = send_cq - 1
      /\ sq' = Tx!Drop(Tx!FirstSignaled) \o <<>> /\ sent' = sent - Tx!FirstSignaled
  BY DEF Tx!tx_burst_item, Tx!poll_cq_one_helper
<1>2. sq \in Seq(Tx!Wqe) /\ send_wr \in Seq(Tx!Wqe) /\ nb_tx \in Nat /\ sent \in 0 .. Len(sq)
  BY <1>0 DEF Tx!TxTypes
<1> DEFINE L == Len(Tx!Flight)
<1>3. L \in Nat /\ L = Len(sq) + Len(send_wr)
  BY <1>2, ConcatAt DEF Tx!Flight
<1>4. PICK p \in 1 .. kUnsigBatch :
        /\ Tx!SignaledAt(p) /\ p <= sent /\ send_cq = 1 /\ Tx!FirstSignaled = p
        /\ L = p + ((nb_tx - 1) % kUnsigBatch)
  BY <1>0, <1>1, PolledIsFirst
<1>5. p \in 1 .. Len(sq) /\ p \in 1 .. L
  BY <1>c, <1>2, <1>3, <1>4
<1> DEFINE d == Tx!Drop(p)
           g == d \o send_wr
<1>6. /\ d \in Seq(Tx!Wqe) /\ Len(d) = Len(sq) - p /\ sent - p \in 0 .. Len(sq) - p
      /\ g \in Seq(Tx!Wqe) /\ Len(g) = L - p
      /\ \A i \in 1 .. L - p : g[i] = Tx!Flight[i + p]
  BY <1>0, <1>4, <1>5, PollDrops
<1>7. sq' = d /\ sent' = sent - p /\ send_cq' = 0
  <2>1. d \o <<>> = d
    BY <1>6
  <2> QED
    BY <1>1, <1>4, <2>1
<1> HIDE DEF d
<1>8. /\ Len(Tx!Flight') = L - p + 1
      /\ \A i \in 1 .. L - p + 1 : (Tx!Flight')[i] = IF i <= L - p THEN g[i] ELSE w
  <2>1. Tx!Flight' = Append(g, w)
    BY <1>2, <1>6, <1>7, ConcatAppend, SMTT(40) DEF Tx!Flight
  <2> HIDE DEF g
  <2> QED
    BY <1>6, <2>1, AppendAt
<1> HIDE DEF g
<1>9. nb_tx # 0 /\ nb_tx % kUnsigBatch = 0 /\ w.sig
  BY DEF Tx!MustPoll, Tx!Signaled
<1>10. (nb_tx - 1) % kUnsigBatch = kUnsigBatch - 1
  <2>1. nb_tx \in Nat \ {0}
    BY <1>2, <1>9
  <2> DEFINE m == (nb_tx - 1) % kUnsigBatch
  <2>2. m \in 0 .. kUnsigBatch - 1 /\ 0 = IF m = kUnsigBatch - 1 THEN 0 ELSE m + 1
    BY <1>c, <1>9, <2>1, ModPred
  <2> HIDE DEF m
  <2>3. m = kUnsigBatch - 1
    BY <1>c, <2>2
  <2> QED
    BY <2>3 DEF m
<1>11. L - p = kUnsigBatch - 1 /\ L - p + 1 = kUnsigBatch
  <2>1. L = p + (kUnsigBatch - 1)
    BY <1>4, <1>10
  <2> HIDE DEF L
  <2> QED
    BY <1>c, <2>1
<1>12. Tx!SignaledAt(kUnsigBatch)'
  <2>1. ASSUME NEW i \in 1 .. kUnsigBatch PROVE (Tx!Flight')[i].sig <=> i = kUnsigBatch
    <3>1. CASE i <= L - p
      <4>1. i \in 1 .. L - p /\ (Tx!Flight')[i] = Tx!Flight[i + p]
        <5> HIDE DEF L
        <5>1. i \in 1 .. L - p /\ i \in 1 .. L - p + 1
          BY <1>c, <1>11, <3>1
        <5> QED
          BY <1>6, <1>8, <3>1, <5>1
      <4>2. i + p \in 1 .. L /\ i + p # p
        <5> HIDE DEF L
        <5> QED
          BY <1>3, <1>5, <4>1
      <4>3. ~Tx!Flight[i + p].sig
        BY <1>4, <4>2 DEF Tx!SignaledAt
      <4>4. i # kUnsigBatch
        BY <1>c, <1>11, <3>1
      <4> QED
        BY <4>1, <4>3, <4>4
    <3>2. CASE ~(i <= L - p)
      <4>1. i = kUnsigBatch /\ (Tx!Flight')[i] = w
        BY <1>c, <1>8, <1>11, <3>2
      <4> QED
        BY <1>9, <4>1
    <3> QED
      BY <3>1, <3>2
  <2> QED
    BY <1>c, <1>8, <1>11, <2>1 DEF Tx!SignaledAt
<1>13. sq' \in Seq(Tx!Wqe) /\ sent' \in 0 .. Len(sq')
  BY <1>6, <1>7
<1>14. ~(kUnsigBatch <= sent')
  <2>1. Len(sq) - p <= L - p
    <3> HIDE DEF L
    <3>1. Len(send_wr) \in Nat /\ Len(sq) \in Nat
      BY <1>2
    <3> QED
      BY <1>3, <1>5, <3>1
  <2>2. sent' <= Len(sq) - p /\ Len(sq) - p \in Int /\ sent' \in Int
    BY <1>2, <1>5, <1>6, <1>7
  <2> HIDE DEF L
  <2> QED
    BY <1>c, <1>3, <1>5, <1>11, <2>1, <2>2
<1>15. Tx!SignalInv'
  <2>1. (nb_tx' - 1) % kUnsigBatch = 0 /\ nb_tx' # 0
    BY <1>1, <1>2, <1>9
  <2>2. Len(Tx!Flight') = kUnsigBatch + 0
    BY <1>c, <1>8, <1>11
  <2>3. kUnsigBatch \in 1 .. kUnsigBatch
    BY <1>c
  <2> QED
    BY <1>1, <1>7, <1>12, <1>14, <2>1, <2>2, <2>3 DEF Tx!SignalInv
<1>16. Tx!DmaInv'
  <2> SUFFICES ASSUME NEW i \in 1 .. L - p + 1, (Tx!Flight')[i].dma
               PROVE  Tx!UsesDma((Tx!Flight')[i].item)
    BY <1>8 DEF Tx!DmaInv, Tx!UsesDma, Tx!NoBuf
  <2>1. CASE i <= L - p
    <3> HIDE DEF L
    <3>1. i \in 1 .. L - p /\ i + p \in 1 .. L
      BY <1>3, <1>5, <2>1
    <3>2. (Tx!Flight')[i] = Tx!Flight[i + p]
      BY <1>6, <1>8, <3>1, <2>1
    <3> QED
      BY <1>0, <3>1, <3>2 DEF Tx!DmaInv, L
  <2>2. CASE ~(i <= L - p)
    BY <1>8, <2>2
  <2> QED
    BY <2>1, <2>2
<1> QED
  BY <1>13, <1>15, <1>16

LEMMA BurstItemKeeps ==
  ASSUME Tx!SizeAssumption, Tx!QueueAssumption, Tx!TxInv, Tx!tx_burst_item
  PROVE  Tx!TxInv'
<1>0. Tx!TxTypes /\ Tx!BatchInv /\ Tx!CtrlInv
  BY DEF Tx!TxInv
<1> DEFINE k == Len(send_wr) + 1
           w == [item |-> tx_burst_arr[k], dma |-> Tx!UsesDma(tx_burst_arr[k]),
                 sig |-> Tx!Signaled(nb_tx)]
<1>1. k \in 1 .. Len(tx_burst_arr) /\ w \in Tx!Wqe
  <2>1. k \in 1 .. Len(tx_burst_arr)
    BY <1>0 DEF Tx!tx_burst_item, Tx!TxTypes
  <2> QED
    BY <1>0, <2>1, ItemTypes
<1>2. send_wr' = Append(send_wr, w)
  BY DEF Tx!tx_burst_item
<1>3. (w.sig <=> Tx!Signaled(nb_tx)) /\ (w.dma => Tx!UsesDma(w.item))
  OBVIOUS
<1> HIDE DEF w
<1>4. /\ Tx!SignalInv' /\ Tx!DmaInv' /\ sq' \in Seq(Tx!Wqe)
      /\ sent' \in 0 .. Len(sq')
  <2>1. CASE Tx!MustPoll(nb_tx)
    BY <1>1, <1>2, <1>3, <2>1, ItemPoll
  <2>2. CASE ~Tx!MustPoll(nb_tx)
    <3>1. sq' = sq
      BY <2>2 DEF Tx!tx_burst_item
    <3> QED
      BY <1>0, <1>1, <1>2, <1>3, <2>2, <3>1, ItemNoPoll DEF Tx!TxTypes
  <2> QED
    BY <2>1, <2>2
<1>5. send_wr' \in Seq(Tx!Wqe)
  BY <1>0, <1>1, <1>2, AppendAt DEF Tx!TxTypes
<1>6. /\ UNCHANGED <<tx_burst_arr, tx_pc, ctrl_msgbufs, ctrl_msgbuf_head, enqueued>>
      /\ nb_tx' = nb_tx + 1 /\ tx_pc \in {"burst", "burst_flush"}
  BY DEF Tx!tx_burst_item
<1>7. Tx!TxTypes'
  BY <1>0, <1>4, <1>5, <1>6 DEF Tx!TxTypes, Tx!CtrlRing, Tx!Item, Tx!Wqe, Tx!NoBuf
<1>8. Tx!BatchInv' /\ Tx!CtrlInv'
  BY <1>0, <1>6 DEF Tx!BatchInv, Tx!CtrlInv, Tx!NoBuf
<1> QED
  BY <1>4, <1>7, <1>8 DEF Tx!TxInv

\* Posting moves the WQEs built to the send queue.
LEMMA BurstPostKeeps ==
  ASSUME Tx!SizeAssumption, Tx!QueueAssumption, Tx!TxInv, Tx!tx_burst_post
  PROVE  Tx!TxInv'
<1>0. Tx!TxTypes /\ Tx!SignalInv /\ Tx!DmaInv
  BY DEF Tx!TxInv
<1>1. /\ sq' = sq \o send_wr /\ send_wr' = <<>> /\ tx_burst_arr' = <<>>
      /\ tx_pc' \in {"idle", "flush"} /\ tx_pc # "flush_wait"
      /\ UNCHANGED <<nb_tx, sent, send_cq, ctrl_msgbufs, ctrl_msgbuf_head, enqueued>>
  BY DEF Tx!tx_burst_post
<1>2. sq' \in Seq(Tx!Wqe) /\ sent' \in 0 .. Len(sq')
  BY <1>0, <1>1, ConcatAt DEF Tx!TxTypes
<1>3. Tx!Flight' = Tx!Flight
  BY <1>1, <1>2 DEF Tx!Flight
<1>4. Tx!SignalInv'
  BY <1>0, <1>1, <1>3 DEF Tx!SignalInv, Tx!SignaledAt
<1>5. Tx!DmaInv'
  BY <1>0, <1>3 DEF Tx!DmaInv, Tx!UsesDma, Tx!NoBuf
<1>6. Tx!TxTypes'
  BY <1>0, <1>1, <1>2 DEF Tx!TxTypes, Tx!CtrlRing, Tx!Item, Tx!Wqe, Tx!NoBuf
<1>7. Tx!BatchInv' /\ Tx!CtrlInv'
  BY <1>1, TxConstants DEF Tx!BatchInv, Tx!CtrlInv
<1> QED
  BY <1>4, <1>5, <1>6, <1>7 DEF Tx!TxInv

\* tx_flush polls the signaled WQE and posts its own behind the rest.
LEMMA FlushPostKeeps ==
  ASSUME Tx!SizeAssumption, Tx!QueueAssumption, Tx!TxInv, Tx!tx_flush_post
  PROVE  Tx!TxInv'
<1>c. kUnsigBatch \in Nat \ {0}
  BY TxConstants
<1>0. Tx!TxTypes /\ Tx!BatchInv /\ Tx!SignalInv /\ Tx!DmaInv /\ Tx!CtrlInv
  BY DEF Tx!TxInv
<1>1. /\ tx_pc = "flush" /\ tx_pc' = "flush_wait" /\ nb_tx # 0
      /\ send_cq > 0 /\ send_cq' = send_cq - 1
      /\ sq' = Tx!Drop(Tx!FirstSignaled) \o <<Tx!FlushWqe>> /\ sent' = sent - Tx!FirstSignaled
      /\ UNCHANGED <<nb_tx, tx_burst_arr, send_wr, ctrl_msgbufs, ctrl_msgbuf_head, enqueued>>
  BY DEF Tx!tx_flush_post, Tx!poll_cq_one_helper
<1>2. sq \in Seq(Tx!Wqe) /\ send_wr = <<>> /\ nb_tx \in Nat /\ sent \in 0 .. Len(sq)
  BY <1>0, <1>1 DEF Tx!TxTypes, Tx!BatchInv
<1> DEFINE n == Len(sq)
           w == Tx!FlushWqe
<1>3. Tx!Flight = sq /\ n \in Nat
  BY <1>2 DEF Tx!Flight
<1>4. PICK p \in 1 .. kUnsigBatch :
        /\ Tx!SignaledAt(p) /\ p <= sent /\ send_cq = 1 /\ Tx!FirstSignaled = p
        /\ Len(Tx!Flight) = p + ((nb_tx - 1) % kUnsigBatch)
  BY <1>0, <1>1, PolledIsFirst
<1>5. p \in 1 .. n
  BY <1>c, <1>2, <1>4
<1>6. n - p < kUnsigBatch
  <2>1. nb_tx \in Nat \ {0}
    BY <1>1, <1>2
  <2> DEFINE m == (nb_tx - 1) % kUnsigBatch
  <2>2. m \in 0 .. kUnsigBatch - 1
    BY <1>c, <2>1, ModPred
  <2>3. n = p + m
    BY <1>3, <1>4
  <2> HIDE DEF m, n
  <2> QED
    BY <1>c, <1>5, <2>2, <2>3
<1> DEFINE d == Tx!Drop(p)
<1>7. /\ d \in Seq(Tx!Wqe) /\ Len(d) = n - p /\ sent - p \in 0 .. n - p
      /\ \A i \in 1 .. n - p : d[i] = sq[i + p]
  BY <1>0, <1>4, <1>5, PollDrops
<1>8. sq' = d \o <<w>> /\ sent' = sent - p /\ send_cq' = 0 /\ send_wr' = <<>>
  BY <1>1, <1>2, <1>4
<1>9. w \in Tx!Wqe /\ w.sig /\ ~w.dma
  BY TxConstants DEF Tx!FlushWqe, Tx!Wqe, Tx!Item
<1> HIDE DEF d, w
<1>10. /\ sq' \in Seq(Tx!Wqe) /\ Len(sq') = n - p + 1
       /\ \A i \in 1 .. n - p + 1 : sq'[i] = IF i <= n - p THEN sq[i + p] ELSE w
  <2>1. sq' = Append(d, w)
    BY <1>7, <1>8, <1>9
  <2> QED
    BY <1>7, <1>9, <2>1, AppendAt
<1>11. Tx!Flight' = sq'
  BY <1>8, <1>10 DEF Tx!Flight
<1> HIDE DEF n
<1>12. ASSUME NEW i \in 1 .. n - p + 1
       PROVE  /\ sq'[i].sig <=> i = n - p + 1
              /\ sq'[i].dma => Tx!UsesDma(sq'[i].item)
  <2>1. CASE i <= n - p
    <3>1. i + p \in 1 .. n /\ i + p # p /\ i # n - p + 1
      BY <1>3, <1>5, <2>1
    <3>2. sq'[i] = sq[i + p]
      BY <1>10, <2>1
    <3>3. ~sq[i + p].sig
      BY <1>3, <1>4, <3>1 DEF Tx!SignaledAt, n
    <3>4. sq[i + p].dma => Tx!UsesDma(sq[i + p].item)
      BY <1>0, <1>3, <3>1 DEF Tx!DmaInv, n
    <3> QED
      BY <3>1, <3>2, <3>3, <3>4
  <2>2. CASE ~(i <= n - p)
    <3>1. i = n - p + 1 /\ sq'[i] = w
      BY <1>3, <1>5, <1>10, <2>2
    <3> QED
      BY <1>9, <3>1
  <2> QED
    BY <2>1, <2>2
<1>l. PICK l \in Int : l = n - p + 1
  BY <1>3, <1>5
<1>13. l \in 1 .. kUnsigBatch /\ ~(l <= sent') /\ sent' \in 0 .. l
  BY <1>c, <1>3, <1>5, <1>6, <1>7, <1>8, <1>l
<1>14. Tx!SignalInv'
  <2>1. Tx!SignaledAt(l)'
    BY <1>10, <1>11, <1>12, <1>13, <1>l DEF Tx!SignaledAt
  <2>2. Len(Tx!Flight') = l + 0
    BY <1>10, <1>11, <1>l
  <2> QED
    BY <1>1, <1>8, <1>13, <2>1, <2>2 DEF Tx!SignalInv
<1>15. Tx!DmaInv'
  BY <1>10, <1>11, <1>12 DEF Tx!DmaInv, Tx!UsesDma, Tx!NoBuf
<1>16. Tx!TxTypes'
  BY <1>0, <1>1, <1>10, <1>13, <1>l DEF Tx!TxTypes, Tx!CtrlRing, Tx!Item, Tx!Wqe, Tx!NoBuf
<1>17. Tx!BatchInv' /\ Tx!CtrlInv'
  BY <1>0, <1>1 DEF Tx!BatchInv, Tx!CtrlInv, Tx!NoBuf
<1> QED
  BY <1>14, <1>15, <1>16, <1>17 DEF Tx!TxInv

\* The completion of the flush's WQE, the last in the queue, reclaims everything.
LEMMA FlushDoneKeeps ==
  ASSUME Tx!SizeAssumption, Tx!QueueAssumption, Tx!TxInv, Tx!tx_flush_done
  PROVE  Tx!TxInv'
<1>c. kUnsigBatch \in Nat \ {0} /\ kPostlist \in Nat \ {0}
  BY TxConstants
<1>0. Tx!TxTypes /\ Tx!BatchInv /\ Tx!SignalInv /\ Tx!CtrlInv
  BY DEF Tx!TxInv
<1>1. /\ tx_pc = "flush_wait" /\ tx_pc' = "idle" /\ nb_tx' = 0
      /\ send_cq > 0 /\ send_cq' = send_cq - 1
      /\ sq' = Tx!Drop(Tx!FirstSignaled) \o <<>> /\ sent' = sent - Tx!FirstSignaled
      /\ UNCHANGED <<tx_burst_arr, send_wr, ctrl_msgbufs, ctrl_msgbuf_head, enqueued>>
  BY DEF Tx!tx_flush_done, Tx!poll_cq_one_helper
<1>2. sq \in Seq(Tx!Wqe) /\ send_wr = <<>> /\ tx_burst_arr = <<>> /\ sent \in 0 .. Len(sq)
  BY <1>0, <1>1 DEF Tx!TxTypes, Tx!BatchInv
<1>3. Tx!Flight = sq /\ Len(sq) \in Nat
  BY <1>2 DEF Tx!Flight
<1>4. PICK p \in 1 .. kUnsigBatch :
        p <= sent /\ send_cq = 1 /\ Tx!FirstSignaled = p /\ Len(sq) = p + 0
  BY <1>0, <1>1, <1>3, PolledIsFirst
<1>5. p \in 1 .. Len(sq) /\ p = Len(sq) /\ sent = p
  BY <1>c, <1>2, <1>4
<1>6. Tx!Drop(p) \in Seq(Tx!Wqe) /\ Len(Tx!Drop(p)) = 0
  BY <1>0, <1>3, <1>4, <1>5, PollDrops
<1>7. sq' = <<>> /\ sent' = 0 /\ send_cq' = 0
  BY <1>1, <1>4, <1>5, <1>6
<1>8. Tx!Flight' = <<>>
  BY <1>1, <1>2, <1>7 DEF Tx!Flight
<1>9. Tx!TxTypes'
  BY <1>0, <1>1, <1>7 DEF Tx!TxTypes, Tx!CtrlRing, Tx!Item, Tx!Wqe, Tx!NoBuf
<1>10. Tx!BatchInv' /\ Tx!CtrlInv'
  BY <1>c, <1>1, <1>2 DEF Tx!BatchInv, Tx!CtrlInv
<1>11. Tx!SignalInv' /\ Tx!DmaInv'
  <2>1. nb_tx' = 0 /\ tx_pc' # "flush_wait"
    BY <1>1
  <2>2. Tx!SignalInv'
    BY <1>7, <1>8, <2>1 DEF Tx!SignalInv
  <2>3. Tx!DmaInv'
    BY <1>8 DEF Tx!DmaInv
  <2> QED
    BY <2>2, <2>3
<1> QED
  BY <1>9, <1>10, <1>11 DEF Tx!TxInv

LEMMA NicSendKeeps ==
  ASSUME Tx!SizeAssumption, Tx!QueueAssumption, Tx!TxInv, Tx!NicSend
  PROVE  Tx!TxInv'
<1>c. kUnsigBatch \in Nat \ {0}
  BY TxConstants
<1>0. Tx!TxTypes /\ Tx!BatchInv /\ Tx!SignalInv /\ Tx!DmaInv /\ Tx!CtrlInv
  BY DEF Tx!TxInv
<1>1. /\ sent < Len(sq) /\ sent' = sent + 1
      /\ send_cq' = send_cq + (IF sq[sent + 1].sig THEN 1 ELSE 0)
      /\ UNCHANGED <<nb_tx, sq, tx_burst_arr, send_wr, tx_pc, ctrl_msgbufs,
                     ctrl_msgbuf_head, enqueued>>
  BY DEF Tx!NicSend
<1>2. sq \in Seq(Tx!Wqe) /\ send_wr \in Seq(Tx!Wqe) /\ sent \in 0 .. Len(sq)
  BY <1>0 DEF Tx!TxTypes
<1>3. Tx!Flight' = Tx!Flight
  BY <1>1 DEF Tx!Flight
<1>4. sent + 1 \in 1 .. Len(Tx!Flight) /\ Tx!Flight[sent + 1] = sq[sent + 1]
  BY <1>1, <1>2, ConcatAt DEF Tx!Flight
<1>5. nb_tx # 0
  BY <1>0, <1>4 DEF Tx!SignalInv
<1>6. PICK p \in 1 .. kUnsigBatch :
        /\ Tx!SignaledAt(p)
        /\ Len(Tx!Flight) = p + (IF tx_pc = "flush_wait" THEN 0
                                                       ELSE (nb_tx - 1) % kUnsigBatch)
        /\ send_cq = IF p <= sent THEN 1 ELSE 0
  BY <1>0, <1>5 DEF Tx!SignalInv
<1>7. sq[sent + 1].sig <=> sent + 1 = p
  BY <1>4, <1>6 DEF Tx!SignaledAt
<1>8. send_cq' = IF p <= sent' THEN 1 ELSE 0
  <2>1. p \in Nat /\ sent \in Nat /\ send_cq = IF p <= sent THEN 1 ELSE 0
    BY <1>c, <1>2, <1>6
  <2> QED
    BY <1>1, <1>7, <2>1
<1>9. Tx!SignalInv'
  BY <1>1, <1>3, <1>5, <1>6, <1>8 DEF Tx!SignalInv, Tx!SignaledAt
<1>10. Tx!DmaInv'
  BY <1>0, <1>3 DEF Tx!DmaInv, Tx!UsesDma, Tx!NoBuf
<1>11. Tx!TxTypes'
  BY <1>0, <1>1, <1>2 DEF Tx!TxTypes, Tx!CtrlRing, Tx!Item, Tx!Wqe, Tx!NoBuf
<1>12. Tx!BatchInv' /\ Tx!CtrlInv'
  BY <1>0, <1>1 DEF Tx!BatchInv, Tx!CtrlInv, Tx!NoBuf
<1> QED
  BY <1>9, <1>10, <1>11, <1>12 DEF Tx!TxInv

\* The invariant of the send queue: one WQE in flight is signaled, among the first
\* kUnsigBatch and followed by what tx_burst added since (get_signaled_flag and
\* tx_flush), and the control packets of the batch are in the last entries of their ring.
THEOREM TxInvariantHolds ==
  Tx!SizeAssumption /\ Tx!QueueAssumption => (Tx!Spec => []Tx!TxInv)
<1> SUFFICES ASSUME Tx!SizeAssumption, Tx!QueueAssumption
             PROVE  Tx!Spec => []Tx!TxInv
  OBVIOUS
<1>1. Tx!Init => Tx!TxInv
  BY TxInit
<1>2. Tx!TxInv /\ [Tx!Next]_(Tx!vars) => Tx!TxInv'
  <2> SUFFICES ASSUME Tx!TxInv, [Tx!Next]_(Tx!vars)
               PROVE  Tx!TxInv'
    OBVIOUS
  <2>1. CASE Tx!enqueue_pkt_tx_burst
    BY <2>1, EnqueuePktKeeps
  <2>2. CASE Tx!enqueue_hdr_tx_burst
    BY <2>2, EnqueueHdrKeeps
  <2>3. CASE Tx!do_tx_burst \/ Tx!drain_tx_batch_and_dma_queue \/ Tx!tx_flush_none
    BY <2>3, BurstStartKeeps
  <2>4. CASE Tx!tx_burst_item
    BY <2>4, BurstItemKeeps
  <2>5. CASE Tx!tx_burst_post
    BY <2>5, BurstPostKeeps
  <2>6. CASE Tx!tx_flush_post
    BY <2>6, FlushPostKeeps
  <2>7. CASE Tx!tx_flush_done
    BY <2>7, FlushDoneKeeps
  <2>8. CASE Tx!NicSend
    BY <2>8, NicSendKeeps
  <2>9. CASE UNCHANGED Tx!vars
    BY <2>9 DEF Tx!vars, Tx!TxInv, Tx!TxTypes, Tx!BatchInv, Tx!SignalInv, Tx!DmaInv,
                Tx!CtrlInv, Tx!SignaledAt, Tx!Flight, Tx!UsesDma, Tx!CtrlRing, Tx!Item,
                Tx!Wqe, Tx!NoBuf
  <2> QED
    BY <2>1, <2>2, <2>3, <2>4, <2>5, <2>6, <2>7, <2>8, <2>9 DEF Tx!Next
<1> QED
  BY <1>1, <1>2, PTL DEF Tx!Spec

LEMMA FlightBounded ==
  ASSUME Tx!SizeAssumption, Tx!QueueAssumption, Tx!TxInv
  PROVE  Len(sq) <= 2 * kUnsigBatch - 1
<1>c. kUnsigBatch \in Nat \ {0}
  BY TxConstants
<1>1. Len(Tx!Flight) = Len(sq) + Len(send_wr) /\ Len(sq) \in Nat /\ Len(send_wr) \in Nat
  BY ConcatAt DEF Tx!Flight, Tx!TxInv, Tx!TxTypes
<1>2. CASE nb_tx = 0
  <2>1. Len(Tx!Flight) = 0
    BY <1>2 DEF Tx!TxInv, Tx!SignalInv
  <2>2. Len(sq) = 0
    BY <1>1, <2>1
  <2> QED
    BY <1>c, <2>2
<1>3. CASE nb_tx # 0
  <2>1. PICK p \in 1 .. kUnsigBatch :
          Len(Tx!Flight) = p + (IF tx_pc = "flush_wait" THEN 0
                                                      ELSE (nb_tx - 1) % kUnsigBatch)
    BY <1>3 DEF Tx!TxInv, Tx!SignalInv
  <2>2. nb_tx \in Nat \ {0}
    BY <1>3 DEF Tx!TxInv, Tx!TxTypes
  <2> DEFINE m == (nb_tx - 1) % kUnsigBatch
  <2>3. m \in 0 .. kUnsigBatch - 1
    BY <1>c, <2>2, ModPred
  <2>4. Len(Tx!Flight) = p \/ Len(Tx!Flight) = p + m
    BY <1>c, <2>1
  <2> HIDE DEF m
  <2> QED
    BY <1>c, <1>1, <2>3, <2>4
<1> QED
  BY <1>2, <1>3

\* ibv_post_send always finds room: a queue of two signaling batches is deep enough for
\* what tx_burst posts between two polls.
THEOREM SendQueueHasRoom ==
  Tx!SizeAssumption /\ Tx!QueueAssumption => (Tx!Spec => []Tx!SendQueueFits)
<1> SUFFICES ASSUME Tx!SizeAssumption, Tx!QueueAssumption
             PROVE  Tx!Spec => []Tx!SendQueueFits
  OBVIOUS
<1>1. Tx!TxInv => Tx!SendQueueFits
  <2> SUFFICES ASSUME Tx!TxInv PROVE Tx!SendQueueFits
    OBVIOUS
  <2>1. Len(sq) <= 2 * kUnsigBatch - 1 /\ Len(sq) \in Nat
    BY FlightBounded DEF Tx!TxInv, Tx!TxTypes
  <2>2. kUnsigBatch \in Nat /\ kSQDepth \in Nat /\ kSQDepth >= 2 * kUnsigBatch
    BY TxConstants
  <2> QED
    BY <2>1, <2>2 DEF Tx!SendQueueFits
<1> QED
  BY <1>1, TxInvariantHolds, PTL

\* What the polls rely on: between bursts exactly one posted WQE is signaled if anything
\* was sent since the last flush, and after tx_flush the NIC holds no MsgBuffer at all.
THEOREM FlushGivesBuffersBack ==
  Tx!SizeAssumption /\ Tx!QueueAssumption =>
    (Tx!Spec => [](Tx!OneSignaled /\ Tx!FlushReturnsBuffers))
<1> SUFFICES ASSUME Tx!SizeAssumption, Tx!QueueAssumption
             PROVE  Tx!Spec => [](Tx!OneSignaled /\ Tx!FlushReturnsBuffers)
  OBVIOUS
<1>1. Tx!TxInv => Tx!OneSignaled /\ Tx!FlushReturnsBuffers
  <2> SUFFICES ASSUME Tx!TxInv, tx_pc \in {"idle", "flush"}
               PROVE  Tx!OneSignaled /\ Tx!FlushReturnsBuffers
    BY DEF Tx!OneSignaled, Tx!FlushReturnsBuffers
  <2>1. Tx!Flight = sq
    <3>1. send_wr = <<>> /\ sq \in Seq(Tx!Wqe)
      BY DEF Tx!TxInv, Tx!TxTypes, Tx!BatchInv
    <3> QED
      BY <3>1 DEF Tx!Flight
  <2>2. CASE nb_tx = 0
    BY <2>1, <2>2 DEF Tx!TxInv, Tx!SignalInv, Tx!OneSignaled, Tx!FlushReturnsBuffers
  <2>3. CASE nb_tx # 0
    <3>1. \E p \in 1 .. Len(sq) : \A i \in 1 .. Len(sq) : sq[i].sig <=> i = p
      BY <2>1, <2>3 DEF Tx!TxInv, Tx!SignalInv, Tx!SignaledAt
    <3> QED
      BY <2>3, <3>1 DEF Tx!OneSignaled, Tx!FlushReturnsBuffers
  <2> QED
    BY <2>2, <2>3
<1> QED
  BY <1>1, TxInvariantHolds, PTL

\* With control packets inlined, as on the transports whose kMaxInline they fit, a
\* control MsgBuffer is not rebuilt before its packet has left the batch, and the NIC
\* does not read it after.
THEOREM CtrlPacketsIntact ==
  Tx!SizeAssumption /\ Tx!QueueAssumption /\ InlineCtrl = TRUE =>
    (Tx!Spec => []Tx!CtrlIntact)
<1> SUFFICES ASSUME Tx!SizeAssumption, Tx!QueueAssumption, InlineCtrl = TRUE
             PROVE  Tx!Spec => []Tx!CtrlIntact
  OBVIOUS
<1>1. Tx!TxInv => Tx!CtrlIntact
  <2> SUFFICES ASSUME Tx!TxInv PROVE Tx!CtrlIntact
    OBVIOUS
  <2>1. ASSUME NEW i \in 1 .. Len(tx_burst_arr), tx_burst_arr[i].buf # Tx!NoBuf
        PROVE  ctrl_msgbufs[tx_burst_arr[i].buf] = tx_burst_arr[i].msg
    BY <2>1 DEF Tx!TxInv, Tx!CtrlInv
  <2>2. ASSUME NEW i \in sent + 1 .. Len(sq), sq[i].dma
        PROVE  sq[i].item.buf = Tx!NoBuf
    <3>1. i \in 1 .. Len(Tx!Flight) /\ Tx!Flight[i] = sq[i]
      BY ConcatAt DEF Tx!TxInv, Tx!TxTypes, Tx!Flight
    <3> QED
      BY <2>2, <3>1 DEF Tx!TxInv, Tx!DmaInv, Tx!UsesDma
  <2> QED
    BY <2>1, <2>2 DEF Tx!CtrlIntact
<1> QED
  BY <1>1, TxInvariantHolds, PTL

-----------------------------------------------------------------------------
(* DPDK: queue pairs and mbufs *)

\* Dpdk's own instance of FiniteSets defines the same operators.
LEMMA CardSame ==
  ASSUME NEW S
  PROVE  Dk!Cardinality(S) = Cardinality(S)
  BY DEF Dk!Cardinality, Cardinality

LEMMA FinSame ==
  ASSUME NEW S
  PROVE  Dk!IsFiniteSet(S) <=> IsFiniteSet(S)
  BY DEF Dk!IsFiniteSet, IsFiniteSet

\* The count of free queue pairs when one more, one less or a set less is owned.
LEMMA AvailKept ==
  ASSUME Dk!AvailInv, Dk!Owned' = Dk!Owned, avail' = avail, mutex' = mutex
  PROVE  Dk!AvailInv'
  BY DEF Dk!AvailInv

LEMMA AvailTaken ==
  ASSUME NumQps \in Nat, Dk!AvailInv, NEW x, x \notin Dk!Owned,
         Dk!Owned' = Dk!Owned \cup {x}, avail' = avail - 1, mutex = None
  PROVE  Dk!AvailInv'
<1> DEFINE S == Dk!Owned
<1>1. IsFiniteSet(S) /\ avail = NumQps - Cardinality(S)
  BY FinSame, CardSame DEF Dk!AvailInv
<1> HIDE DEF S
<1>2. /\ IsFiniteSet(S \cup {x}) /\ Cardinality(S) \in Nat
      /\ Cardinality(S \cup {x}) = Cardinality(S) + 1
  BY <1>1, FS_AddElement, FS_CardinalityType DEF S
<1>3. avail' = NumQps - Cardinality(S \cup {x})
  BY <1>1, <1>2
<1> QED
  BY <1>2, <1>3, FinSame, CardSame DEF Dk!AvailInv, S

LEMMA AvailReturned ==
  ASSUME NumQps \in Nat, Dk!AvailInv, NEW T, T \subseteq Dk!Owned,
         Dk!Owned' = Dk!Owned \ T, avail' = avail + Cardinality(T), mutex = None
  PROVE  Dk!AvailInv'
<1> DEFINE S == Dk!Owned
<1>1. IsFiniteSet(S) /\ avail = NumQps - Cardinality(S)
  BY FinSame, CardSame DEF Dk!AvailInv
<1>2. T \subseteq S
  OBVIOUS
<1> HIDE DEF S
<1>3. IsFiniteSet(T) /\ IsFiniteSet(S \ T)
  BY <1>1, <1>2, FS_Subset, FS_Difference
<1>4. Cardinality(S \ T) = Cardinality(S) - Cardinality(S \cap T)
  BY <1>1, FS_Difference
<1>5. S \cap T = T
  BY <1>2
<1>6. Cardinality(S) \in Nat /\ Cardinality(T) \in Nat
  BY <1>1, <1>3, FS_CardinalityType
<1>7. avail' = NumQps - Cardinality(S \ T)
  <2>1. Cardinality(S \ T) = Cardinality(S) - Cardinality(T)
    BY <1>4, <1>5
  <2>2. avail' = NumQps - Cardinality(S) + Cardinality(T)
    BY <1>1
  <2> QED
    BY <1>6, <2>1, <2>2
<1> QED
  BY <1>3, <1>7, FinSame, CardSame DEF Dk!AvailInv, S

LEMMA DpdkConstants ==
  ASSUME Dk!TypeAssumption
  PROVE  /\ PidOf \in [Rpcs -> Pids] /\ PortOf \in [Rpcs -> Ports]
         /\ NumQps \in Nat \ {0} /\ kNumRxRingEntries \in Nat \ {0}
         /\ kNumMbufs \in Nat \ {0} /\ kNumTxRingDesc \in Nat \ {0}
         /\ kPostlist \in Nat \ {0} /\ kRxBatchSize \in Nat \ {0}
         /\ MaxCrashes \in Nat /\ None \notin Pids /\ None \notin Rpcs
  BY DEF Dk!TypeAssumption

LEMMA DpdkInit ==
  ASSUME Dk!TypeAssumption, Dk!Init
  PROVE  Dk!DpdkInv
<1>1. Dk!DpdkTypes
  BY DpdkConstants DEF Dk!Init, Dk!DpdkTypes
<1>2. Dk!OwnerInv
  BY DEF Dk!Init, Dk!OwnerInv
<1>3. Dk!AvailInv
  <2>1. Dk!Owned = {}
    BY DEF Dk!Init, Dk!Owned
  <2>2. avail = NumQps - Cardinality({})
    BY DpdkConstants, FS_EmptySet DEF Dk!Init
  <2> QED
    BY <2>1, <2>2, FS_EmptySet, FinSame, CardSame DEF Dk!AvailInv
<1>4. Dk!PoolInv
  <2>1. \A x \in Dk!QP : /\ free[x] = kNumMbufs - kNumRxRingEntries /\ rx_ring[x] = 0
                         /\ tx_desc[x] = 0 /\ tx_mbufs[x] = 0
    BY DEF Dk!Init
  <2> QED
    BY <2>1, DpdkConstants DEF Dk!PoolInv, Dk!MbufsConserved
<1> QED
  BY <1>1, <1>2, <1>3, <1>4 DEF Dk!DpdkInv

-----------------------------------------------------------------------------

\* The constructor before it has a queue pair.
LEMMA CtorKeeps ==
  ASSUME Dk!TypeAssumption, Dk!DpdkInv, NEW r \in Rpcs,
         Dk!ctor_call(r) \/ Dk!ctor_lock(r) \/ Dk!get_qp_fails(r)
  PROVE  Dk!DpdkInv'
<1> USE DEF Dk!ctor_call, Dk!ctor_lock, Dk!get_qp_fails, Dk!memzone, Dk!pools
<1>1. PICK v \in {"wait", "ctor", "thrown"} : st' = [st EXCEPT ![r] = v]
  OBVIOUS
<1>2. UNCHANGED <<owner, avail, mutex, alive, qp, free, rx_queue, rx_ring, tx_desc, tx_mbufs, crashes>>
  OBVIOUS
<1>3. PidOf[r] \in alive /\ st[r] # "open"
  BY DEF Dk!DpdkInv, Dk!OwnerInv
<1> HIDE DEF Dk!ctor_call, Dk!ctor_lock, Dk!get_qp_fails, Dk!memzone, Dk!pools
<1>4. Dk!DpdkTypes'
  BY <1>1, <1>2 DEF Dk!DpdkInv, Dk!DpdkTypes, Dk!QP, Dk!Qps
<1>5. \A s \in Rpcs : st'[s] = IF s = r THEN v ELSE st[s]
  BY <1>1 DEF Dk!DpdkInv, Dk!DpdkTypes
<1>6. Dk!OwnerInv'
  BY <1>2, <1>3, <1>5 DEF Dk!DpdkInv, Dk!OwnerInv, Dk!QP, Dk!Qps
<1>7. Dk!AvailInv'
  <2>1. Dk!Owned' = Dk!Owned
    BY <1>2 DEF Dk!Owned, Dk!QP, Dk!Qps
  <2> QED
    BY <1>2, <2>1, AvailKept DEF Dk!DpdkInv
<1>8. Dk!PoolInv'
  BY <1>2 DEF Dk!DpdkInv, Dk!PoolInv, Dk!MbufsConserved, Dk!QP, Dk!Qps
<1> QED
  BY <1>4, <1>6, <1>7, <1>8 DEF Dk!DpdkInv

\* The queue pair that get_qp picks is one that nobody owns.
LEMMA LeastIsFree ==
  ASSUME Dk!TypeAssumption, NEW port \in Ports, Dk!FreeQps(port) # {}
  PROVE  Dk!LeastFree(port) \in Dk!QP /\ owner[Dk!LeastFree(port)] = None
<1> DEFINE F == Dk!FreeQps(port)
<1>1. F \subseteq 0 .. NumQps - 1
  BY DEF Dk!FreeQps, Dk!Qps
<1>2. \E i \in F : \A j \in F : i <= j
  <2>1. F \subseteq Nat /\ F # {}
    <3>1. F # {}
      OBVIOUS
    <3> QED
      BY <1>1, <3>1
  <2> HIDE DEF F
  <2>2. F \in SUBSET Nat /\ F # {}
    BY <2>1
  <2>3. \E i \in F : \A j \in F : <<j, i>> \notin OpToRel(<, Nat)
    BY <2>2, NatLessThanWellFounded, WFMin
  <2>4. \A i, j \in F : <<j, i>> \notin OpToRel(<, Nat) => i <= j
    BY <2>1 DEF OpToRel
  <2> QED
    BY <2>3, <2>4
<1>3. PICK i \in F : Dk!LeastFree(port) = <<port, i>>
  BY <1>2 DEF Dk!LeastFree
<1> QED
  BY <1>3 DEF Dk!FreeQps, Dk!QP

\* get_qp hands out a queue pair that nobody owns.
LEMMA GetQpKeeps ==
  ASSUME Dk!TypeAssumption, Dk!DpdkInv, NEW r \in Rpcs, Dk!get_qp(r)
  PROVE  Dk!DpdkInv'
<1>0. Dk!DpdkTypes /\ Dk!OwnerInv /\ Dk!AvailInv /\ Dk!PoolInv
  BY DEF Dk!DpdkInv
<1> DEFINE y == Dk!LeastFree(PortOf[r])
<1>1. y \in Dk!QP /\ owner[y] = None
  BY LeastIsFree, DpdkConstants DEF Dk!get_qp
<1>2. PICK x \in Dk!QP : x = y /\ owner[x] = None
  BY <1>1
<1>3. /\ owner' = [owner EXCEPT ![x] = PidOf[r]] /\ qp' = [qp EXCEPT ![r] = x]
      /\ rx_queue' = [rx_queue EXCEPT ![x] = 0] /\ avail' = avail - 1
      /\ st' = [st EXCEPT ![r] = "open"] /\ st[r] = "ctor"
      /\ mutex = None /\ UNCHANGED <<mutex, alive, free, rx_ring, tx_desc, tx_mbufs, crashes>>
  BY <1>2 DEF Dk!get_qp
<1>4. PidOf[r] \in Pids /\ PidOf[r] # None
  BY DpdkConstants
<1> HIDE DEF y
<1>5. Dk!DpdkTypes'
  <2>1. owner' \in [Dk!QP -> Pids \cup {None}] /\ avail' \in Int
    BY <1>0, <1>3, <1>4 DEF Dk!DpdkTypes
  <2>2. /\ qp' \in [Rpcs -> Dk!QP \cup {None}]
        /\ st' \in [Rpcs -> {"none", "wait", "ctor", "open", "thrown"}]
    BY <1>0, <1>2, <1>3 DEF Dk!DpdkTypes
  <2>3. rx_queue' \in [Dk!QP -> 0 .. kNumRxRingEntries]
    BY <1>0, <1>3, DpdkConstants DEF Dk!DpdkTypes
  <2> QED
    BY <1>0, <1>3, <2>1, <2>2, <2>3 DEF Dk!DpdkTypes, Dk!QP, Dk!Qps
<1>6. /\ \A z \in Dk!QP : owner'[z] = IF z = x THEN PidOf[r] ELSE owner[z]
      /\ \A s \in Rpcs : /\ qp'[s] = IF s = r THEN x ELSE qp[s]
                         /\ st'[s] = IF s = r THEN "open" ELSE st[s]
  BY <1>0, <1>2, <1>3 DEF Dk!DpdkTypes
<1>7. Dk!OwnerInv'
  <2>1. \A s \in Rpcs : st[s] = "open" => qp[s] \in Dk!QP /\ qp[s] # x
    BY <1>0, <1>2, DpdkConstants DEF Dk!OwnerInv
  <2>2. \A s \in Rpcs : st'[s] # "none" => PidOf[s] \in alive'
    BY <1>0, <1>3, <1>6 DEF Dk!OwnerInv
  <2>3. \A s \in Rpcs : st'[s] = "open" => qp'[s] \in Dk!QP /\ owner'[qp'[s]] = PidOf[s]
    BY <1>0, <1>2, <1>6, <2>1 DEF Dk!OwnerInv
  <2>4. \A s, t \in Rpcs : s # t /\ st'[s] = "open" /\ st'[t] = "open" => qp'[s] # qp'[t]
    BY <1>0, <1>6, <2>1 DEF Dk!OwnerInv
  <2> QED
    BY <2>2, <2>3, <2>4 DEF Dk!OwnerInv, Dk!QP, Dk!Qps
<1>8. Dk!AvailInv'
  <2>1. x \notin Dk!Owned /\ Dk!Owned' = Dk!Owned \cup {x}
    BY <1>2, <1>4, <1>6 DEF Dk!Owned, Dk!QP, Dk!Qps
  <2> QED
    BY <1>0, <1>3, <2>1, AvailTaken, DpdkConstants
<1>9. Dk!PoolInv'
  BY <1>0, <1>3 DEF Dk!PoolInv, Dk!MbufsConserved, Dk!QP, Dk!Qps
<1> QED
  BY <1>5, <1>7, <1>8, <1>9 DEF Dk!DpdkInv

LEMMA DtorKeeps ==
  ASSUME Dk!TypeAssumption, Dk!DpdkInv, NEW r \in Rpcs, Dk!dtor(r)
  PROVE  Dk!DpdkInv'
<1>0. Dk!DpdkTypes /\ Dk!OwnerInv /\ Dk!AvailInv /\ Dk!PoolInv
  BY DEF Dk!DpdkInv
<1>1. PICK x \in Dk!QP : x = qp[r] /\ owner[x] = PidOf[r] /\ PidOf[r] # None
  BY <1>0, DpdkConstants DEF Dk!dtor, Dk!free_qp, Dk!Quiet, Dk!OwnerInv
<1>2. /\ owner' = [owner EXCEPT ![x] = None] /\ qp' = [qp EXCEPT ![r] = None]
      /\ rx_queue' = [rx_queue EXCEPT ![x] = 0] /\ avail' = avail + 1
      /\ st' = [st EXCEPT ![r] = "none"] /\ st[r] = "open"
      /\ mutex = None /\ UNCHANGED <<mutex, alive, free, rx_ring, tx_desc, tx_mbufs, crashes>>
  BY <1>1 DEF Dk!dtor, Dk!free_qp, Dk!Quiet
<1>3. Dk!DpdkTypes'
  <2>1. owner' \in [Dk!QP -> Pids \cup {None}] /\ avail' \in Int
    BY <1>0, <1>2 DEF Dk!DpdkTypes
  <2>2. /\ qp' \in [Rpcs -> Dk!QP \cup {None}]
        /\ st' \in [Rpcs -> {"none", "wait", "ctor", "open", "thrown"}]
    BY <1>0, <1>2 DEF Dk!DpdkTypes
  <2>3. rx_queue' \in [Dk!QP -> 0 .. kNumRxRingEntries]
    BY <1>0, <1>2, DpdkConstants DEF Dk!DpdkTypes
  <2> QED
    BY <1>0, <1>2, <2>1, <2>2, <2>3 DEF Dk!DpdkTypes, Dk!QP, Dk!Qps
<1>4. /\ \A z \in Dk!QP : owner'[z] = IF z = x THEN None ELSE owner[z]
      /\ \A s \in Rpcs : /\ qp'[s] = IF s = r THEN None ELSE qp[s]
                         /\ st'[s] = IF s = r THEN "none" ELSE st[s]
  BY <1>0, <1>1, <1>2 DEF Dk!DpdkTypes
<1>5. Dk!OwnerInv'
  <2>1. \A s \in Rpcs : st'[s] = "open" => s # r /\ st[s] = "open" /\ qp'[s] = qp[s] /\ qp[s] # x
    BY <1>0, <1>1, <1>2, <1>4 DEF Dk!OwnerInv
  <2>2. \A s \in Rpcs : st'[s] # "none" => PidOf[s] \in alive'
    BY <1>0, <1>2, <1>4 DEF Dk!OwnerInv
  <2>3. \A s \in Rpcs : st'[s] = "open" => qp'[s] \in Dk!QP /\ owner'[qp'[s]] = PidOf[s]
    BY <1>0, <1>4, <2>1 DEF Dk!OwnerInv
  <2>4. \A s, t \in Rpcs : s # t /\ st'[s] = "open" /\ st'[t] = "open" => qp'[s] # qp'[t]
    BY <1>0, <2>1 DEF Dk!OwnerInv
  <2> QED
    BY <2>2, <2>3, <2>4 DEF Dk!OwnerInv, Dk!QP, Dk!Qps
<1>6. Dk!AvailInv'
  <2>1. {x} \subseteq Dk!Owned /\ Dk!Owned' = Dk!Owned \ {x}
    BY <1>1, <1>4 DEF Dk!Owned, Dk!QP, Dk!Qps
  <2>2. avail' = avail + Cardinality({x})
    BY <1>2, FS_Singleton
  <2> QED
    BY <1>0, <1>2, <2>1, <2>2, AvailReturned, DpdkConstants
<1>7. Dk!PoolInv'
  BY <1>0, <1>2 DEF Dk!PoolInv, Dk!MbufsConserved, Dk!QP, Dk!Qps
<1> QED
  BY <1>3, <1>5, <1>6, <1>7 DEF Dk!DpdkInv

\* A crash closes the Rpcs of the process; its queue pairs keep their owner.
LEMMA CrashKeeps ==
  ASSUME Dk!TypeAssumption, Dk!DpdkInv, NEW p \in Pids, Dk!Crash(p)
  PROVE  Dk!DpdkInv'
<1>0. Dk!DpdkTypes /\ Dk!OwnerInv /\ Dk!AvailInv
  BY DEF Dk!DpdkInv
<1> DEFINE mine == {r \in Rpcs : PidOf[r] = p}
           lost == {qp[r] : r \in {r \in mine : st[r] = "open"}}
<1>1. /\ alive' = alive \ {p} /\ crashes' = crashes + 1
      /\ st' = [r \in Rpcs |-> IF r \in mine THEN "none" ELSE st[r]]
      /\ qp' = [r \in Rpcs |-> IF r \in mine THEN None ELSE qp[r]]
      /\ rx_ring' = [x \in Dk!QP |-> IF x \in lost THEN 0 ELSE rx_ring[x]]
      /\ tx_mbufs' = [x \in Dk!QP |-> IF x \in lost THEN 0 ELSE tx_mbufs[x]]
      /\ UNCHANGED <<owner, avail, mutex, free, rx_queue, tx_desc>>
  BY DEF Dk!Crash, Dk!Dies, Dk!memzone
<1> HIDE DEF lost
<1>2. Dk!DpdkTypes'
  <2>1. /\ qp' \in [Rpcs -> Dk!QP \cup {None}]
        /\ st' \in [Rpcs -> {"none", "wait", "ctor", "open", "thrown"}]
    BY <1>0, <1>1 DEF Dk!DpdkTypes
  <2>2. rx_ring' \in [Dk!QP -> 0 .. kRxBatchSize] /\ tx_mbufs' \in [Dk!QP -> 0 .. kPostlist]
    BY <1>0, <1>1, DpdkConstants DEF Dk!DpdkTypes
  <2>3. alive' \subseteq Pids /\ crashes' \in Nat
    BY <1>0, <1>1 DEF Dk!DpdkTypes
  <2> QED
    BY <1>0, <1>1, <2>1, <2>2, <2>3 DEF Dk!DpdkTypes, Dk!QP, Dk!Qps
<1>3. \A s \in Rpcs : st'[s] # "none" =>
        PidOf[s] # p /\ st'[s] = st[s] /\ qp'[s] = qp[s]
  BY <1>1
<1>4. Dk!OwnerInv'
  <2>1. \A s \in Rpcs : st'[s] # "none" => PidOf[s] \in alive'
    BY <1>0, <1>1, <1>3 DEF Dk!OwnerInv
  <2>2. \A s \in Rpcs : st'[s] = "open" => qp'[s] \in Dk!QP /\ owner'[qp'[s]] = PidOf[s]
    BY <1>0, <1>1, <1>3 DEF Dk!OwnerInv
  <2>3. \A s, t \in Rpcs : s # t /\ st'[s] = "open" /\ st'[t] = "open" => qp'[s] # qp'[t]
    BY <1>0, <1>3 DEF Dk!OwnerInv
  <2> QED
    BY <2>1, <2>2, <2>3 DEF Dk!OwnerInv, Dk!QP, Dk!Qps
<1>5. Dk!AvailInv'
  <2>1. Dk!Owned' = Dk!Owned
    BY <1>1 DEF Dk!Owned, Dk!QP, Dk!Qps
  <2> QED
    BY <1>0, <1>1, <2>1, AvailKept
<1>6. Dk!PoolInv'
  <2>1. crashes' # 0
    BY <1>0, <1>1 DEF Dk!DpdkTypes
  <2> QED
    BY <2>1 DEF Dk!PoolInv
<1> QED
  BY <1>2, <1>4, <1>5, <1>6 DEF Dk!DpdkInv

\* A crash in the locked section changes the owner of at most one queue pair, of nobody
\* or of the process that dies, and nobody counts on num_qps_available_ any more.
LEMMA CrashLockedKeeps ==
  ASSUME Dk!TypeAssumption, Dk!DpdkInv, NEW r \in Rpcs, Dk!CrashLocked(r)
  PROVE  Dk!DpdkInv'
<1>0. Dk!DpdkTypes /\ Dk!OwnerInv /\ Dk!AvailInv
  BY DEF Dk!DpdkInv
<1> DEFINE p == PidOf[r]
           mine == {s \in Rpcs : PidOf[s] = p}
           lost == {qp[s] : s \in {s \in mine : st[s] = "open"}}
<1>1. /\ alive' = alive \ {p} /\ crashes' = crashes + 1
      /\ st' = [s \in Rpcs |-> IF s \in mine THEN "none" ELSE st[s]]
      /\ qp' = [s \in Rpcs |-> IF s \in mine THEN None ELSE qp[s]]
      /\ rx_ring' = [x \in Dk!QP |-> IF x \in lost THEN 0 ELSE rx_ring[x]]
      /\ tx_mbufs' = [x \in Dk!QP |-> IF x \in lost THEN 0 ELSE tx_mbufs[x]]
      /\ UNCHANGED <<free, rx_queue, tx_desc>>
  BY DEF Dk!CrashLocked, Dk!Dies
<1>2. mutex' = p /\ p \in Pids /\ p # None
  BY DpdkConstants DEF Dk!CrashLocked
<1>3. /\ avail' \in Int
      /\ \/ owner' = owner
         \/ \E x \in Dk!QP : owner[x] = None /\ owner' = [owner EXCEPT ![x] = p]
         \/ \E x \in Dk!QP : owner[x] = p /\ owner' = [owner EXCEPT ![x] = None]
  <2>1. avail \in Int
    BY <1>0 DEF Dk!DpdkTypes
  <2>2. Dk!Quiet(r) => qp[r] \in Dk!QP /\ owner[qp[r]] = p
    BY <1>0 DEF Dk!Quiet, Dk!OwnerInv
  <2>3. Dk!FreeQps(PortOf[r]) # {} => /\ Dk!LeastFree(PortOf[r]) \in Dk!QP
                                      /\ owner[Dk!LeastFree(PortOf[r])] = None
    BY LeastIsFree, DpdkConstants
  <2> QED
    BY <2>1, <2>2, <2>3 DEF Dk!CrashLocked
<1>4. /\ owner' \in [Dk!QP -> Pids \cup {None}]
      /\ \A s \in Rpcs : st[s] = "open" /\ PidOf[s] # p => owner'[qp[s]] = PidOf[s]
  BY <1>0, <1>2, <1>3, DpdkConstants DEF Dk!DpdkTypes, Dk!OwnerInv
<1>5. IsFiniteSet(Dk!Owned')
  <2>1. IsFiniteSet(Dk!Owned)
    BY <1>0, FinSame DEF Dk!AvailInv
  <2>2. CASE owner' = owner
    BY <2>1, <2>2 DEF Dk!Owned, Dk!QP, Dk!Qps
  <2>3. ASSUME NEW x \in Dk!QP, owner' = [owner EXCEPT ![x] = p] PROVE IsFiniteSet(Dk!Owned')
    <3>1. Dk!Owned' = Dk!Owned \cup {x}
      BY <1>0, <1>2, <2>3 DEF Dk!DpdkTypes, Dk!Owned, Dk!QP, Dk!Qps
    <3> QED
      BY <2>1, <3>1, FS_AddElement
  <2>4. ASSUME NEW x \in Dk!QP, owner' = [owner EXCEPT ![x] = None] PROVE IsFiniteSet(Dk!Owned')
    <3>1. Dk!Owned' \subseteq Dk!Owned
      BY <1>0, <2>4 DEF Dk!DpdkTypes, Dk!Owned, Dk!QP, Dk!Qps
    <3> QED
      BY <2>1, <3>1, FS_Subset
  <2> QED
    BY <1>3, <2>2, <2>3, <2>4
<1>6. Dk!AvailInv'
  BY <1>2, <1>5, FinSame DEF Dk!AvailInv
<1> HIDE DEF lost
<1>7. Dk!DpdkTypes'
  <2>1. /\ qp' \in [Rpcs -> Dk!QP \cup {None}]
        /\ st' \in [Rpcs -> {"none", "wait", "ctor", "open", "thrown"}]
    BY <1>0, <1>1 DEF Dk!DpdkTypes
  <2>2. rx_ring' \in [Dk!QP -> 0 .. kRxBatchSize] /\ tx_mbufs' \in [Dk!QP -> 0 .. kPostlist]
    BY <1>0, <1>1, DpdkConstants DEF Dk!DpdkTypes
  <2>3. alive' \subseteq Pids /\ crashes' \in Nat /\ mutex' \in Pids \cup {None}
    BY <1>0, <1>1, <1>2 DEF Dk!DpdkTypes
  <2> QED
    BY <1>0, <1>1, <1>3, <1>4, <2>1, <2>2, <2>3 DEF Dk!DpdkTypes, Dk!QP, Dk!Qps
<1>8. Dk!OwnerInv'
  <2>1. \A s \in Rpcs : st'[s] # "none" => PidOf[s] # p /\ st'[s] = st[s] /\ qp'[s] = qp[s]
    BY <1>1
  <2>2. \A s \in Rpcs : st'[s] # "none" => PidOf[s] \in alive'
    BY <1>0, <1>1, <2>1 DEF Dk!OwnerInv
  <2>3. \A s \in Rpcs : st'[s] = "open" => qp'[s] \in Dk!QP /\ owner'[qp'[s]] = PidOf[s]
    BY <1>0, <1>4, <2>1 DEF Dk!OwnerInv
  <2>4. \A s, t \in Rpcs : s # t /\ st'[s] = "open" /\ st'[t] = "open" => qp'[s] # qp'[t]
    BY <1>0, <2>1 DEF Dk!OwnerInv
  <2> QED
    BY <2>2, <2>3, <2>4 DEF Dk!OwnerInv, Dk!QP, Dk!Qps
<1>9. Dk!PoolInv'
  <2>1. crashes' # 0
    BY <1>0, <1>1 DEF Dk!DpdkTypes
  <2> QED
    BY <2>1 DEF Dk!PoolInv
<1> QED
  BY <1>6, <1>7, <1>8, <1>9 DEF Dk!DpdkInv

LEMMA RestartKeeps ==
  ASSUME Dk!TypeAssumption, Dk!DpdkInv, NEW p \in Pids, Dk!Restart(p)
  PROVE  Dk!DpdkInv'
<1>1. /\ alive' = alive \cup {p}
      /\ UNCHANGED <<owner, avail, mutex, st, qp, free, rx_queue, rx_ring, tx_desc, tx_mbufs, crashes>>
  BY DEF Dk!Restart, Dk!memzone, Dk!pools
<1>2. Dk!DpdkTypes'
  BY <1>1 DEF Dk!DpdkInv, Dk!DpdkTypes, Dk!QP, Dk!Qps
<1>3. Dk!OwnerInv'
  BY <1>1 DEF Dk!DpdkInv, Dk!OwnerInv, Dk!QP, Dk!Qps
<1>4. Dk!AvailInv'
  <2>1. Dk!Owned' = Dk!Owned
    BY <1>1 DEF Dk!Owned, Dk!QP, Dk!Qps
  <2> QED
    BY <1>1, <2>1, AvailKept DEF Dk!DpdkInv
<1>5. Dk!PoolInv'
  BY <1>1 DEF Dk!DpdkInv, Dk!PoolInv, Dk!MbufsConserved, Dk!QP, Dk!Qps
<1> QED
  BY <1>2, <1>3, <1>4, <1>5 DEF Dk!DpdkInv

\* The daemon frees queue pairs of processes that are gone, which no open Rpc has.
LEMMA ReclaimKeeps ==
  ASSUME Dk!TypeAssumption, Dk!DpdkInv, NEW port \in Ports,
         Dk!daemon_reclaim_qps_from_crashed(port)
  PROVE  Dk!DpdkInv'
<1>0. Dk!DpdkTypes /\ Dk!OwnerInv /\ Dk!AvailInv
  BY DEF Dk!DpdkInv
<1>1. PICK dead \in SUBSET Dk!QP :
        /\ dead = {x \in Dk!QP : x[1] = port /\ Dk!Dead(x)}
        /\ owner' = [x \in Dk!QP |-> IF x \in dead THEN None ELSE owner[x]]
        /\ avail' = avail + Dk!Cardinality(dead)
  BY DEF Dk!daemon_reclaim_qps_from_crashed
<1>2. mutex = None /\ UNCHANGED <<mutex, alive, st, qp, free, rx_queue, rx_ring, tx_desc, tx_mbufs, crashes>>
  BY DEF Dk!daemon_reclaim_qps_from_crashed, Dk!pools
<1>3. \A x \in dead : owner[x] # None /\ owner[x] \notin alive
  BY <1>1 DEF Dk!Dead
<1>4. dead \subseteq Dk!Owned /\ Dk!Owned' = Dk!Owned \ dead
  BY <1>1, <1>3 DEF Dk!Owned, Dk!QP, Dk!Qps
<1>5. Dk!AvailInv'
  <2>1. avail' = avail + Cardinality(dead)
    BY <1>1, CardSame
  <2> QED
    BY <1>0, <1>2, <1>4, <2>1, AvailReturned, DpdkConstants
<1>6. Dk!DpdkTypes'
  <2>1. owner' \in [Dk!QP -> Pids \cup {None}]
    BY <1>0, <1>1 DEF Dk!DpdkTypes
  <2>2. avail' \in Int
    <3>1. IsFiniteSet(Dk!Owned)
      BY <1>0, FinSame DEF Dk!AvailInv
    <3>2. Cardinality(dead) \in Nat
      BY <1>4, <3>1, FS_Subset, FS_CardinalityType
    <3> QED
      BY <1>0, <1>1, <3>2, CardSame DEF Dk!DpdkTypes
  <2> QED
    BY <1>0, <1>2, <2>1, <2>2 DEF Dk!DpdkTypes, Dk!QP, Dk!Qps
<1>7. Dk!OwnerInv'
  <2>1. \A s \in Rpcs : st[s] = "open" => qp[s] \notin dead
    BY <1>0, <1>3 DEF Dk!OwnerInv
  <2> QED
    BY <1>0, <1>1, <1>2, <2>1 DEF Dk!OwnerInv, Dk!QP, Dk!Qps
<1>8. Dk!PoolInv'
  BY <1>2 DEF Dk!DpdkInv, Dk!PoolInv, Dk!MbufsConserved, Dk!QP, Dk!Qps
<1> QED
  BY <1>5, <1>6, <1>7, <1>8 DEF Dk!DpdkInv

\* A step of the datapath moves the mbufs of one queue pair.
LEMMA PoolStep ==
  ASSUME Dk!TypeAssumption, Dk!DpdkInv, NEW x \in Dk!QP,
         free' = [free EXCEPT ![x] = free'[x]], free'[x] \in Int,
         rx_queue' = [rx_queue EXCEPT ![x] = rx_queue'[x]],
         rx_queue'[x] \in 0 .. kNumRxRingEntries,
         rx_ring' = [rx_ring EXCEPT ![x] = rx_ring'[x]], rx_ring'[x] \in 0 .. kRxBatchSize,
         tx_desc' = [tx_desc EXCEPT ![x] = tx_desc'[x]], tx_desc'[x] \in 0 .. kNumTxRingDesc,
         tx_mbufs' = [tx_mbufs EXCEPT ![x] = tx_mbufs'[x]], tx_mbufs'[x] \in 0 .. kPostlist,
         free'[x] + rx_ring'[x] + tx_desc'[x] + tx_mbufs'[x]
           = free[x] + rx_ring[x] + tx_desc[x] + tx_mbufs[x],
         UNCHANGED <<owner, avail, mutex, alive, st, qp, crashes>>
  PROVE  Dk!DpdkInv'
<1>0. Dk!DpdkTypes /\ Dk!OwnerInv /\ Dk!AvailInv /\ Dk!PoolInv
  BY DEF Dk!DpdkInv
<1>1. /\ free' \in [Dk!QP -> Int] /\ rx_queue' \in [Dk!QP -> 0 .. kNumRxRingEntries]
      /\ rx_ring' \in [Dk!QP -> 0 .. kRxBatchSize]
      /\ tx_desc' \in [Dk!QP -> 0 .. kNumTxRingDesc]
      /\ tx_mbufs' \in [Dk!QP -> 0 .. kPostlist]
  BY <1>0 DEF Dk!DpdkTypes
<1>2. Dk!DpdkTypes'
  BY <1>0, <1>1 DEF Dk!DpdkTypes, Dk!QP, Dk!Qps
<1>3. Dk!OwnerInv'
  BY <1>0 DEF Dk!OwnerInv, Dk!QP, Dk!Qps
<1>4. Dk!AvailInv'
  <2>1. Dk!Owned' = Dk!Owned
    BY DEF Dk!Owned, Dk!QP, Dk!Qps
  <2> QED
    BY <1>0, <2>1, AvailKept
<1>5. Dk!PoolInv'
  <2> SUFFICES ASSUME crashes' = 0, NEW y \in Dk!QP
               PROVE  free'[y] + rx_ring'[y] + tx_desc'[y] + tx_mbufs'[y]
                        = kNumMbufs - kNumRxRingEntries
    BY DEF Dk!PoolInv, Dk!MbufsConserved, Dk!QP, Dk!Qps
  <2>1. /\ free[x] + rx_ring[x] + tx_desc[x] + tx_mbufs[x] = kNumMbufs - kNumRxRingEntries
        /\ free[y] + rx_ring[y] + tx_desc[y] + tx_mbufs[y] = kNumMbufs - kNumRxRingEntries
    BY <1>0 DEF Dk!PoolInv, Dk!MbufsConserved
  <2>2. CASE y = x
    BY <2>1, <2>2
  <2>3. CASE y # x
    <3>1. /\ free'[y] = free[y] /\ rx_ring'[y] = rx_ring[y] /\ tx_desc'[y] = tx_desc[y]
          /\ tx_mbufs'[y] = tx_mbufs[y]
      BY <1>0, <2>3 DEF Dk!DpdkTypes
    <3> QED
      BY <2>1, <3>1
  <2> QED
    BY <2>2, <2>3
<1> QED
  BY <1>2, <1>3, <1>4, <1>5 DEF Dk!DpdkInv

LEMMA PoolTypes ==
  ASSUME Dk!TypeAssumption, Dk!DpdkInv, NEW x \in Dk!QP
  PROVE  /\ free[x] \in Int /\ rx_queue[x] \in 0 .. kNumRxRingEntries
         /\ rx_ring[x] \in 0 .. kRxBatchSize /\ tx_desc[x] \in 0 .. kNumTxRingDesc
         /\ tx_mbufs[x] \in 0 .. kPostlist
         /\ kNumRxRingEntries \in Nat /\ kRxBatchSize \in Nat /\ kNumTxRingDesc \in Nat
         /\ kPostlist \in Nat
  BY DpdkConstants DEF Dk!DpdkInv, Dk!DpdkTypes

\* A packet arrives, or the NIC returns the mbuf of a packet it has sent.
LEMMA NicKeeps ==
  ASSUME Dk!TypeAssumption, Dk!DpdkInv, NEW x \in Dk!QP, Dk!NicRecv(x) \/ Dk!NicSend(x)
  PROVE  Dk!DpdkInv'
<1>0. /\ free \in [Dk!QP -> Int] /\ rx_queue \in [Dk!QP -> 0 .. kNumRxRingEntries]
      /\ rx_ring \in [Dk!QP -> 0 .. kRxBatchSize] /\ tx_desc \in [Dk!QP -> 0 .. kNumTxRingDesc]
      /\ tx_mbufs \in [Dk!QP -> 0 .. kPostlist]
  BY DEF Dk!DpdkInv, Dk!DpdkTypes
<1>1. CASE Dk!NicRecv(x)
  <2>1. /\ rx_queue[x] < kNumRxRingEntries
        /\ rx_queue' = [rx_queue EXCEPT ![x] = rx_queue[x] + 1]
        /\ UNCHANGED <<owner, avail, mutex, alive, st, qp, free, rx_ring, tx_desc, tx_mbufs, crashes>>
    BY <1>1 DEF Dk!NicRecv, Dk!memzone
  <2>2. /\ rx_queue'[x] = rx_queue[x] + 1 /\ rx_queue' = [rx_queue EXCEPT ![x] = rx_queue'[x]]
    BY <1>0, <2>1
  <2>3. /\ free'[x] = free[x] /\ free' = [free EXCEPT ![x] = free'[x]]
        /\ rx_ring'[x] = rx_ring[x] /\ rx_ring' = [rx_ring EXCEPT ![x] = rx_ring'[x]]
        /\ tx_desc'[x] = tx_desc[x] /\ tx_desc' = [tx_desc EXCEPT ![x] = tx_desc'[x]]
        /\ tx_mbufs'[x] = tx_mbufs[x] /\ tx_mbufs' = [tx_mbufs EXCEPT ![x] = tx_mbufs'[x]]
    BY <1>0, <2>1
  <2>4. /\ free'[x] \in Int
        /\ rx_queue'[x] \in 0 .. kNumRxRingEntries
        /\ rx_ring'[x] \in 0 .. kRxBatchSize
        /\ tx_desc'[x] \in 0 .. kNumTxRingDesc
        /\ tx_mbufs'[x] \in 0 .. kPostlist
        /\ free'[x] + rx_ring'[x] + tx_desc'[x] + tx_mbufs'[x]
             = free[x] + rx_ring[x] + tx_desc[x] + tx_mbufs[x]
    BY <2>1, <2>2, <2>3, PoolTypes
  <2> QED
    BY <2>1, <2>2, <2>3, <2>4, PoolStep
<1>2. CASE Dk!NicSend(x)
  <2>1. /\ tx_desc[x] > 0
        /\ free' = [free EXCEPT ![x] = free[x] + 1]
        /\ tx_desc' = [tx_desc EXCEPT ![x] = tx_desc[x] - 1]
        /\ UNCHANGED <<owner, avail, mutex, alive, st, qp, rx_queue, rx_ring, tx_mbufs, crashes>>
    BY <1>2 DEF Dk!NicSend, Dk!memzone
  <2>2. /\ free'[x] = free[x] + 1 /\ free' = [free EXCEPT ![x] = free'[x]]
        /\ tx_desc'[x] = tx_desc[x] - 1 /\ tx_desc' = [tx_desc EXCEPT ![x] = tx_desc'[x]]
    BY <1>0, <2>1
  <2>3. /\ rx_queue'[x] = rx_queue[x] /\ rx_queue' = [rx_queue EXCEPT ![x] = rx_queue'[x]]
        /\ rx_ring'[x] = rx_ring[x] /\ rx_ring' = [rx_ring EXCEPT ![x] = rx_ring'[x]]
        /\ tx_mbufs'[x] = tx_mbufs[x] /\ tx_mbufs' = [tx_mbufs EXCEPT ![x] = tx_mbufs'[x]]
    BY <1>0, <2>1
  <2>4. /\ free'[x] \in Int
        /\ rx_queue'[x] \in 0 .. kNumRxRingEntries
        /\ rx_ring'[x] \in 0 .. kRxBatchSize
        /\ tx_desc'[x] \in 0 .. kNumTxRingDesc
        /\ tx_mbufs'[x] \in 0 .. kPostlist
        /\ free'[x] + rx_ring'[x] + tx_desc'[x] + tx_mbufs'[x]
             = free[x] + rx_ring[x] + tx_desc[x] + tx_mbufs[x]
    BY <2>1, <2>2, <2>3, PoolTypes
  <2> QED
    BY <2>1, <2>2, <2>3, <2>4, PoolStep
<1> QED
  BY <1>1, <1>2

\* rx_burst, post_recvs and tx_burst of an open Rpc.
LEMMA DatapathKeeps ==
  ASSUME Dk!TypeAssumption, Dk!DpdkInv, NEW r \in Rpcs,
         \/ Dk!rx_burst(r) \/ Dk!post_recvs(r) \/ Dk!tx_burst_send(r)
         \/ \E n \in 1 .. kPostlist : Dk!tx_burst_alloc(r, n)
  PROVE  Dk!DpdkInv'
<1>q. PICK x \in Dk!QP : x = qp[r]
  BY DEF Dk!rx_burst, Dk!post_recvs, Dk!tx_burst_send, Dk!tx_burst_alloc, Dk!DpdkInv, Dk!OwnerInv
<1>0. /\ free \in [Dk!QP -> Int] /\ rx_queue \in [Dk!QP -> 0 .. kNumRxRingEntries]
      /\ rx_ring \in [Dk!QP -> 0 .. kRxBatchSize] /\ tx_desc \in [Dk!QP -> 0 .. kNumTxRingDesc]
      /\ tx_mbufs \in [Dk!QP -> 0 .. kPostlist]
  BY DEF Dk!DpdkInv, Dk!DpdkTypes
<1>1. CASE Dk!rx_burst(r)
  <2>0. PICK b \in 1 .. kRxBatchSize : b = Dk!RxCount(x) /\ b <= rx_queue[x]
    BY <1>1, <1>q, PoolTypes DEF Dk!rx_burst, Dk!RxCount, Dk!Min2
  <2>1. /\ rx_ring[x] = 0
        /\ free' = [free EXCEPT ![x] = free[x] - b]
        /\ rx_queue' = [rx_queue EXCEPT ![x] = rx_queue[x] - b]
        /\ rx_ring' = [rx_ring EXCEPT ![x] = b]
        /\ UNCHANGED <<owner, avail, mutex, alive, st, qp, tx_desc, tx_mbufs, crashes>>
    BY <1>1, <1>q, <2>0 DEF Dk!rx_burst, Dk!memzone
  <2>2. /\ free'[x] = free[x] - b /\ free' = [free EXCEPT ![x] = free'[x]]
        /\ rx_queue'[x] = rx_queue[x] - b /\ rx_queue' = [rx_queue EXCEPT ![x] = rx_queue'[x]]
        /\ rx_ring'[x] = b /\ rx_ring' = [rx_ring EXCEPT ![x] = rx_ring'[x]]
    BY <1>0, <2>1
  <2>3. /\ tx_desc'[x] = tx_desc[x] /\ tx_desc' = [tx_desc EXCEPT ![x] = tx_desc'[x]]
        /\ tx_mbufs'[x] = tx_mbufs[x] /\ tx_mbufs' = [tx_mbufs EXCEPT ![x] = tx_mbufs'[x]]
    BY <1>0, <2>1
  <2>4. /\ free'[x] \in Int
        /\ rx_queue'[x] \in 0 .. kNumRxRingEntries
        /\ rx_ring'[x] \in 0 .. kRxBatchSize
        /\ tx_desc'[x] \in 0 .. kNumTxRingDesc
        /\ tx_mbufs'[x] \in 0 .. kPostlist
        /\ free'[x] + rx_ring'[x] + tx_desc'[x] + tx_mbufs'[x]
             = free[x] + rx_ring[x] + tx_desc[x] + tx_mbufs[x]
    BY <2>1, <2>2, <2>3, <2>0, PoolTypes
  <2> QED
    BY <2>1, <2>2, <2>3, <2>4, PoolStep
<1>2. CASE Dk!post_recvs(r)
  <2>1. /\ free' = [free EXCEPT ![x] = free[x] + rx_ring[x]]
        /\ rx_ring' = [rx_ring EXCEPT ![x] = 0]
        /\ UNCHANGED <<owner, avail, mutex, alive, st, qp, rx_queue, tx_desc, tx_mbufs, crashes>>
    BY <1>2, <1>q DEF Dk!post_recvs, Dk!memzone
  <2>2. /\ free'[x] = free[x] + rx_ring[x] /\ free' = [free EXCEPT ![x] = free'[x]]
        /\ rx_ring'[x] = 0 /\ rx_ring' = [rx_ring EXCEPT ![x] = rx_ring'[x]]
    BY <1>0, <2>1
  <2>3. /\ rx_queue'[x] = rx_queue[x] /\ rx_queue' = [rx_queue EXCEPT ![x] = rx_queue'[x]]
        /\ tx_desc'[x] = tx_desc[x] /\ tx_desc' = [tx_desc EXCEPT ![x] = tx_desc'[x]]
        /\ tx_mbufs'[x] = tx_mbufs[x] /\ tx_mbufs' = [tx_mbufs EXCEPT ![x] = tx_mbufs'[x]]
    BY <1>0, <2>1
  <2>4. /\ free'[x] \in Int
        /\ rx_queue'[x] \in 0 .. kNumRxRingEntries
        /\ rx_ring'[x] \in 0 .. kRxBatchSize
        /\ tx_desc'[x] \in 0 .. kNumTxRingDesc
        /\ tx_mbufs'[x] \in 0 .. kPostlist
        /\ free'[x] + rx_ring'[x] + tx_desc'[x] + tx_mbufs'[x]
             = free[x] + rx_ring[x] + tx_desc[x] + tx_mbufs[x]
    BY <2>1, <2>2, <2>3, PoolTypes
  <2> QED
    BY <2>1, <2>2, <2>3, <2>4, PoolStep
<1>3. CASE Dk!tx_burst_send(r)
  <2>0. PICK n \in Int : /\ n = Dk!Min2(tx_mbufs[x], kNumTxRingDesc - tx_desc[x])
                         /\ n <= tx_mbufs[x] /\ n <= kNumTxRingDesc - tx_desc[x]
    BY PoolTypes DEF Dk!Min2
  <2>1. /\ n > 0
        /\ tx_desc' = [tx_desc EXCEPT ![x] = tx_desc[x] + n]
        /\ tx_mbufs' = [tx_mbufs EXCEPT ![x] = tx_mbufs[x] - n]
        /\ UNCHANGED <<owner, avail, mutex, alive, st, qp, free, rx_queue, rx_ring, crashes>>
    BY <1>3, <1>q, <2>0 DEF Dk!tx_burst_send, Dk!memzone
  <2>2. /\ tx_desc'[x] = tx_desc[x] + n /\ tx_desc' = [tx_desc EXCEPT ![x] = tx_desc'[x]]
        /\ tx_mbufs'[x] = tx_mbufs[x] - n /\ tx_mbufs' = [tx_mbufs EXCEPT ![x] = tx_mbufs'[x]]
    BY <1>0, <2>1
  <2>3. /\ free'[x] = free[x] /\ free' = [free EXCEPT ![x] = free'[x]]
        /\ rx_queue'[x] = rx_queue[x] /\ rx_queue' = [rx_queue EXCEPT ![x] = rx_queue'[x]]
        /\ rx_ring'[x] = rx_ring[x] /\ rx_ring' = [rx_ring EXCEPT ![x] = rx_ring'[x]]
    BY <1>0, <2>1
  <2>4. /\ free'[x] \in Int
        /\ rx_queue'[x] \in 0 .. kNumRxRingEntries
        /\ rx_ring'[x] \in 0 .. kRxBatchSize
        /\ tx_desc'[x] \in 0 .. kNumTxRingDesc
        /\ tx_mbufs'[x] \in 0 .. kPostlist
        /\ free'[x] + rx_ring'[x] + tx_desc'[x] + tx_mbufs'[x]
             = free[x] + rx_ring[x] + tx_desc[x] + tx_mbufs[x]
    BY <2>1, <2>2, <2>3, <2>0, PoolTypes
  <2> QED
    BY <2>1, <2>2, <2>3, <2>4, PoolStep
<1>4. ASSUME NEW n \in 1 .. kPostlist, Dk!tx_burst_alloc(r, n)
      PROVE  Dk!DpdkInv'
  <2>1. /\ tx_mbufs[x] = 0
        /\ free' = [free EXCEPT ![x] = free[x] - n]
        /\ tx_mbufs' = [tx_mbufs EXCEPT ![x] = n]
        /\ UNCHANGED <<owner, avail, mutex, alive, st, qp, rx_queue, rx_ring, tx_desc, crashes>>
    BY <1>4, <1>q DEF Dk!tx_burst_alloc, Dk!memzone
  <2>2. /\ free'[x] = free[x] - n /\ free' = [free EXCEPT ![x] = free'[x]]
        /\ tx_mbufs'[x] = n /\ tx_mbufs' = [tx_mbufs EXCEPT ![x] = tx_mbufs'[x]]
    BY <1>0, <2>1
  <2>3. /\ rx_queue'[x] = rx_queue[x] /\ rx_queue' = [rx_queue EXCEPT ![x] = rx_queue'[x]]
        /\ rx_ring'[x] = rx_ring[x] /\ rx_ring' = [rx_ring EXCEPT ![x] = rx_ring'[x]]
        /\ tx_desc'[x] = tx_desc[x] /\ tx_desc' = [tx_desc EXCEPT ![x] = tx_desc'[x]]
    BY <1>0, <2>1
  <2>4. /\ free'[x] \in Int
        /\ rx_queue'[x] \in 0 .. kNumRxRingEntries
        /\ rx_ring'[x] \in 0 .. kRxBatchSize
        /\ tx_desc'[x] \in 0 .. kNumTxRingDesc
        /\ tx_mbufs'[x] \in 0 .. kPostlist
        /\ free'[x] + rx_ring'[x] + tx_desc'[x] + tx_mbufs'[x]
             = free[x] + rx_ring[x] + tx_desc[x] + tx_mbufs[x]
    BY <2>1, <2>2, <2>3, PoolTypes
  <2> QED
    BY <2>1, <2>2, <2>3, <2>4, PoolStep
<1> QED
  BY <1>1, <1>2, <1>3, <1>4

\* The invariant of the shared memzone and of the mbuf pools, for any processes, Rpcs,
\* ports and crashes (get_qp, free_qp, daemon_reclaim_qps_from_crashed, rx_burst,
\* tx_burst, post_recvs).
THEOREM DpdkInvariantHolds == Dk!TypeAssumption => (Dk!Spec => []Dk!DpdkInv)
<1> SUFFICES ASSUME Dk!TypeAssumption
             PROVE  Dk!Spec => []Dk!DpdkInv
  OBVIOUS
<1>1. Dk!Init => Dk!DpdkInv
  BY DpdkInit
<1>2. Dk!DpdkInv /\ [Dk!Next]_(Dk!vars) => Dk!DpdkInv'
  <2> SUFFICES ASSUME Dk!DpdkInv, [Dk!Next]_(Dk!vars)
               PROVE  Dk!DpdkInv'
    OBVIOUS
  <2>1. ASSUME NEW r \in Rpcs, Dk!ctor_call(r) \/ Dk!ctor_lock(r) \/ Dk!get_qp_fails(r)
        PROVE  Dk!DpdkInv'
    BY <2>1, CtorKeeps
  <2>2. ASSUME NEW r \in Rpcs, Dk!get_qp(r) PROVE Dk!DpdkInv'
    BY <2>2, GetQpKeeps
  <2>3. ASSUME NEW r \in Rpcs, Dk!dtor(r) \/ Dk!CrashLocked(r) PROVE Dk!DpdkInv'
    BY <2>3, DtorKeeps, CrashLockedKeeps
  <2>4. ASSUME NEW p \in Pids, Dk!Crash(p) \/ Dk!Restart(p) PROVE Dk!DpdkInv'
    BY <2>4, CrashKeeps, RestartKeeps
  <2>5. ASSUME NEW port \in Ports, Dk!daemon_reclaim_qps_from_crashed(port)
        PROVE  Dk!DpdkInv'
    BY <2>5, ReclaimKeeps
  <2>6. ASSUME NEW x \in Dk!QP, Dk!NicRecv(x) \/ Dk!NicSend(x) PROVE Dk!DpdkInv'
    BY <2>6, NicKeeps
  <2>7. ASSUME NEW r \in Rpcs,
               \/ Dk!rx_burst(r) \/ Dk!post_recvs(r) \/ Dk!tx_burst_send(r)
               \/ \E n \in 1 .. kPostlist : Dk!tx_burst_alloc(r, n)
        PROVE  Dk!DpdkInv'
    BY <2>7, DatapathKeeps
  <2>8. CASE UNCHANGED Dk!vars
    <3>1. Dk!Owned' = Dk!Owned /\ avail' = avail /\ mutex' = mutex
      BY <2>8 DEF Dk!vars, Dk!memzone, Dk!Owned, Dk!QP, Dk!Qps
    <3>2. Dk!AvailInv'
      BY <3>1, AvailKept DEF Dk!DpdkInv
    <3> QED
      BY <2>8, <3>2 DEF Dk!vars, Dk!memzone, Dk!pools, Dk!DpdkInv, Dk!DpdkTypes, Dk!OwnerInv,
                        Dk!PoolInv, Dk!MbufsConserved, Dk!QP, Dk!Qps
  <2> QED
    BY <2>1, <2>2, <2>3, <2>4, <2>5, <2>6, <2>7, <2>8 DEF Dk!Next
<1> QED
  BY <1>1, <1>2, PTL DEF Dk!Spec

\* An open Rpc owns its queue pair, alone, through crashes, restarts with the same PID
\* and the daemon's reclaim.
THEOREM QpsAreExclusive == Dk!TypeAssumption => (Dk!Spec => []Dk!QpExclusive)
<1>1. Dk!DpdkInv => Dk!QpExclusive
  BY DEF Dk!DpdkInv, Dk!OwnerInv, Dk!QpExclusive
<1> QED
  BY <1>1, DpdkInvariantHolds, PTL

\* Until a process crashes, every mbuf is in its pool, in a ring or on its way, and the
\* pool is large enough that the allocation in tx_burst, which is not checked there,
\* succeeds.
THEOREM MbufsSuffice ==
  Dk!TypeAssumption /\ Dk!PoolAssumption =>
    (Dk!Spec => [](crashes = 0 => Dk!MbufsConserved /\ Dk!AllocSucceeds))
<1> SUFFICES ASSUME Dk!TypeAssumption, Dk!PoolAssumption
             PROVE  Dk!Spec => [](crashes = 0 => Dk!MbufsConserved /\ Dk!AllocSucceeds)
  OBVIOUS
<1>1. Dk!DpdkInv => (crashes = 0 => Dk!MbufsConserved /\ Dk!AllocSucceeds)
  <2> SUFFICES ASSUME Dk!DpdkInv, crashes = 0
               PROVE  Dk!MbufsConserved /\ Dk!AllocSucceeds
    OBVIOUS
  <2>1. Dk!MbufsConserved
    BY DEF Dk!DpdkInv, Dk!PoolInv
  <2>2. ASSUME NEW x \in Dk!QP PROVE free[x] >= 0
    <3>1. free[x] + rx_ring[x] + tx_desc[x] + tx_mbufs[x] = kNumMbufs - kNumRxRingEntries
      BY <2>1 DEF Dk!MbufsConserved
    <3>2. kNumMbufs \in Nat
      BY DpdkConstants
    <3> QED
      BY <3>1, <3>2, PoolTypes DEF Dk!PoolAssumption
  <2> QED
    BY <2>1, <2>2 DEF Dk!AllocSucceeds
<1> QED
  BY <1>1, DpdkInvariantHolds, PTL

\* With one port, num_qps_available_ is the number of queue pairs that get_qp could hand
\* out, also after the daemon has reclaimed those of crashed processes.
THEOREM AvailIsRight ==
  Dk!TypeAssumption /\ (\E port : Ports = {port}) => (Dk!Spec => []Dk!AvailMatchesOwners)
<1> SUFFICES ASSUME Dk!TypeAssumption, NEW port, Ports = {port}
             PROVE  Dk!Spec => []Dk!AvailMatchesOwners
  OBVIOUS
<1>1. IsFiniteSet(Dk!QP) /\ Cardinality(Dk!QP) = NumQps
  <2>1. NumQps \in Nat
    BY DpdkConstants
  <2>2. IsFiniteSet(0 .. NumQps - 1) /\ Cardinality(0 .. NumQps - 1) = NumQps
    BY <2>1, FS_Interval
  <2>3. IsFiniteSet({port}) /\ Cardinality({port}) = 1
    BY FS_Singleton
  <2>4. /\ IsFiniteSet({port} \X (0 .. NumQps - 1))
        /\ Cardinality({port} \X (0 .. NumQps - 1)) = Cardinality({port}) * Cardinality(0 .. NumQps - 1)
    BY <2>2, <2>3, FS_Product
  <2>5. Dk!QP = {port} \X (0 .. NumQps - 1)
    BY DEF Dk!QP, Dk!Qps
  <2> QED
    BY <2>1, <2>2, <2>3, <2>4, <2>5
<1>2. Dk!DpdkInv => Dk!AvailMatchesOwners
  <2> SUFFICES ASSUME Dk!DpdkInv, mutex = None PROVE Dk!AvailMatchesOwners
    BY DEF Dk!AvailMatchesOwners
  <2> DEFINE S == Dk!QP
             T == Dk!Owned
  <2>1. IsFiniteSet(S) /\ Cardinality(S) = NumQps /\ T \subseteq S
    BY <1>1 DEF Dk!Owned
  <2>2. IsFiniteSet(T) /\ avail = NumQps - Cardinality(T)
    BY FinSame, CardSame DEF Dk!DpdkInv, Dk!AvailInv
  <2>3. {x \in S : owner[x] = None} = S \ T
    BY DEF Dk!Owned
  <2> HIDE DEF S, T
  <2>4. Cardinality(S \ T) = Cardinality(S) - Cardinality(S \cap T)
    BY <2>1, FS_Difference
  <2>5. S \cap T = T
    BY <2>1
  <2>6. avail = Cardinality(S \ T)
    BY <2>1, <2>2, <2>4, <2>5
  <2> QED
    BY <2>3, <2>6, CardSame DEF Dk!AvailMatchesOwners, S
<1> QED
  BY <1>2, DpdkInvariantHolds, PTL

-----------------------------------------------------------------------------
(* The heartbeat manager *)

LEMMA HbConstants ==
  ASSUME Hb!TimeAssumption
  PROVE  /\ FailTimeout \in Nat /\ SendDelta \in Nat /\ CheckDelta \in Nat
         /\ SendDelta <= CheckDelta
  BY DEF Hb!TimeAssumption

LEMMA HbInit == Hb!Init => Hb!HbInv
  BY DEF Hb!Init, Hb!HbInv, Hb!HbTimes, Hb!Tracked

\* The queue is in order of time: once the events that do_one would stop at are those
\* of the future, all events are in the future.
LEMMA NoneDue ==
  ASSUME Hb!HbTimes,
         \A e \in pqueue : e.uri \in Hb!Tracked,
         ~\E e \in pqueue : Hb!Ready(e)
  PROVE  \A e \in pqueue : now < e.tsc
<1> SUFFICES ASSUME NEW e \in pqueue, e.tsc <= now
             PROVE  FALSE
  BY DEF Hb!HbTimes
<1> DEFINE T == {f.tsc : f \in pqueue}
<1>1. T \subseteq Nat /\ T # {}
  BY DEF Hb!HbTimes
<1>2. PICK t \in T : \A y \in T : ~(<<y, t>> \in OpToRel(<, Nat))
  BY <1>1, NatLessThanWellFounded, WFMin, Zenon
<1>3. PICK g \in pqueue : t = g.tsc
  OBVIOUS
<1>4. \A f \in pqueue : g.tsc <= f.tsc
  <2> TAKE f \in pqueue
  <2>1. ~(<<f.tsc, g.tsc>> \in OpToRel(<, Nat)) /\ f.tsc \in Nat /\ g.tsc \in Nat
    BY <1>2, <1>3 DEF Hb!HbTimes
  <2> QED
    BY <2>1 DEF OpToRel
<1>5. g.tsc <= now
  BY <1>4 DEF Hb!HbTimes
<1> QED
  BY <1>4, <1>5 DEF Hb!Ready, Hb!Top

LEMMA AddKeeps ==
  ASSUME Hb!TimeAssumption, Hb!HbInv, NEW u \in Uri, Hb!unlocked_add_remote(u)
  PROVE  Hb!HbInv'
<1> USE HbConstants
<1> DEFINE s == [type |-> "kSend", uri |-> u, tsc |-> now + SendDelta, n |-> serial]
           c == [type |-> "kCheck", uri |-> u, tsc |-> now + CheckDelta, n |-> serial + 1]
<1>1. /\ pqueue' = pqueue \cup {s, c}
      /\ heard' = [heard EXCEPT ![u] = now]
      /\ now' = now /\ failed' = failed
  BY DEF Hb!unlocked_add_remote, Hb!schedule_hb_send, Hb!schedule_hb_check, Hb!Event
<1>2. /\ Hb!Tracked' = Hb!Tracked \cup {u}
      /\ \A v \in Hb!Tracked : last_rx'[v] = last_rx[v]
      /\ u \notin Hb!Tracked => last_rx'[u] = now
      /\ last_rx' \in [Hb!Tracked' -> Nat]
  BY DEF Hb!unlocked_add_remote, Hb!Emplace, Hb!Tracked, Hb!HbInv, Hb!HbTimes
<1>3. /\ s.uri = u /\ s.type = "kSend" /\ s.tsc = now + SendDelta
      /\ c.uri = u /\ c.type = "kCheck" /\ c.tsc = now + CheckDelta
  OBVIOUS
<1> HIDE DEF s, c
<1>4. Hb!HbTimes'
  BY <1>1, <1>2, <1>3 DEF Hb!HbInv, Hb!HbTimes
<1>5. failed' = {} => \A e \in pqueue' : e.uri \in Hb!Tracked'
  BY <1>1, <1>2, <1>3 DEF Hb!HbInv
<1>6. ASSUME Hb!NothingBlocked', NEW v \in Hb!Tracked'
      PROVE  Hb!Watched(v)'
  <2>1. CASE v \in Hb!Tracked
    <3>1. Hb!Watched(v)
      BY <1>1, <1>6, <2>1 DEF Hb!HbInv, Hb!NothingBlocked
    <3> QED
      BY <3>1, <1>1, <1>2, <2>1 DEF Hb!Watched
  <2>2. CASE v \notin Hb!Tracked
    <3>1. v = u /\ last_rx'[v] = now
      BY <1>2, <1>6, <2>2
    <3> QED
      BY <3>1, <1>1, <1>3 DEF Hb!Watched, Hb!HbInv, Hb!HbTimes
  <2> QED
    BY <2>1, <2>2
<1> QED
  BY <1>4, <1>5, <1>6 DEF Hb!HbInv

\* A heartbeat changes nothing of last_rx: emplace leaves an element that is there.
LEMMA ReceiveKeeps ==
  ASSUME Hb!HbInv, NEW u \in Uri, Hb!unlocked_receive_hb(u)
  PROVE  Hb!HbInv'
<1>1. /\ heard' = [heard EXCEPT ![u] = now]
      /\ now' = now /\ failed' = failed /\ pqueue' = pqueue
      /\ u \in Hb!Tracked
  BY DEF Hb!unlocked_receive_hb
<1>2. last_rx' = last_rx
  BY DEF Hb!unlocked_receive_hb, Hb!Emplace, Hb!Tracked, Hb!HbInv, Hb!HbTimes
<1>3. Hb!Tracked' = Hb!Tracked /\ (Hb!NothingBlocked' <=> Hb!NothingBlocked)
  BY <1>1, <1>2 DEF Hb!Tracked, Hb!NothingBlocked
<1>4. \A v : Hb!Watched(v)' <=> Hb!Watched(v)
  BY <1>1, <1>2 DEF Hb!Watched
<1>5. Hb!HbTimes'
  BY <1>1, <1>2, <1>3 DEF Hb!HbInv, Hb!HbTimes
<1> QED
  BY <1>1, <1>3, <1>4, <1>5 DEF Hb!HbInv

\* do_one replaces an event by the next one of its kind.
LEMMA DoOneKeeps ==
  ASSUME Hb!TimeAssumption, Hb!HbInv, NEW e \in pqueue, Hb!do_one_send(e) \/ Hb!do_one_check(e)
  PROVE  Hb!HbInv'
<1> USE HbConstants
<1>1. PICK d \in Nat, n \in {serial} :
        /\ pqueue' = (pqueue \ {e}) \cup {[type |-> e.type, uri |-> e.uri, tsc |-> now + d, n |-> n]}
        /\ d <= CheckDelta
        /\ \/ e.type = "kSend"
           \/ e.type = "kCheck" /\ d = CheckDelta /\ now - last_rx[e.uri] <= FailTimeout
  <2>1. CASE Hb!do_one_send(e)
    <3>1. /\ pqueue' = (pqueue \ {e})
                         \cup {[type |-> e.type, uri |-> e.uri, tsc |-> now + SendDelta, n |-> serial]}
          /\ SendDelta <= CheckDelta /\ e.type = "kSend" /\ SendDelta \in Nat
      BY <2>1 DEF Hb!do_one_send, Hb!schedule_hb_send, Hb!Event
    <3> QED
      BY <3>1
  <2>2. CASE Hb!do_one_check(e)
    <3>1. /\ pqueue' = (pqueue \ {e})
                         \cup {[type |-> e.type, uri |-> e.uri, tsc |-> now + CheckDelta, n |-> serial]}
          /\ CheckDelta <= CheckDelta /\ e.type = "kCheck" /\ CheckDelta \in Nat
          /\ now - last_rx[e.uri] <= FailTimeout
      BY <2>2 DEF Hb!do_one_check, Hb!schedule_hb_check, Hb!Event
    <3> QED
      BY <3>1
  <2> QED
    BY <2>1, <2>2
<1> DEFINE c == [type |-> e.type, uri |-> e.uri, tsc |-> now + d, n |-> n]
<1>2. pqueue' = (pqueue \ {e}) \cup {c} /\ c.type = e.type /\ c.uri = e.uri /\ c.tsc = now + d
  BY <1>1
<1> HIDE DEF c
<1>3. /\ now' = now /\ last_rx' = last_rx /\ heard' = heard /\ failed' = failed
      /\ e.uri \in Hb!Tracked
  BY DEF Hb!do_one_send, Hb!do_one_check, Hb!Ready
<1>4. Hb!Tracked' = Hb!Tracked /\ (Hb!NothingBlocked' <=> Hb!NothingBlocked)
  BY <1>3 DEF Hb!Tracked, Hb!NothingBlocked
<1>5. Hb!HbTimes'
  BY <1>1, <1>2, <1>3, <1>4 DEF Hb!HbInv, Hb!HbTimes
<1>6. failed' = {} => \A f \in pqueue' : f.uri \in Hb!Tracked'
  BY <1>2, <1>3, <1>4 DEF Hb!HbInv
<1>7. ASSUME Hb!NothingBlocked, NEW v \in Hb!Tracked
      PROVE  Hb!Watched(v)'
  <2>1. Hb!Watched(v) /\ now \in Nat /\ last_rx[v] \in Nat
    BY <1>7 DEF Hb!HbInv, Hb!HbTimes
  <2> DEFINE deadline == last_rx[v] + FailTimeout + CheckDelta
  <2>2. now <= deadline
    BY <2>1 DEF Hb!Watched
  <2>3. \E f \in pqueue' : /\ f.uri = v /\ f.type = "kCheck"
                           /\ f.tsc <= deadline /\ f.tsc <= now + CheckDelta
    <3>1. PICK f \in pqueue : /\ f.uri = v /\ f.type = "kCheck"
                              /\ f.tsc <= deadline /\ f.tsc <= now + CheckDelta
      BY <2>1 DEF Hb!Watched
    <3>2. CASE f # e
      BY <3>1, <3>2, <1>2
    <3>3. CASE f = e
      BY <3>1, <3>3, <1>1, <1>2, <2>1
    <3> QED
      BY <3>2, <3>3
  <2>4. \E f \in pqueue' : f.uri = v /\ f.type = "kSend" /\ f.tsc <= now + CheckDelta
    <3>1. PICK f \in pqueue : f.uri = v /\ f.type = "kSend" /\ f.tsc <= now + CheckDelta
      BY <2>1 DEF Hb!Watched
    <3>2. CASE f # e
      BY <3>1, <3>2, <1>2
    <3>3. CASE f = e
      BY <3>1, <3>3, <1>1, <1>2, <2>1
    <3> QED
      BY <3>2, <3>3
  <2> QED
    BY <2>2, <2>3, <2>4, <1>3 DEF Hb!Watched
<1> QED
  BY <1>4, <1>5, <1>6, <1>7 DEF Hb!HbInv

\* A remote that is reported leaves the tracking set: what it leaves in the queue
\* blocks nobody if it was the only one.
LEMMA FailKeeps ==
  ASSUME Hb!HbInv, NEW e \in pqueue, Hb!do_one_fail(e)
  PROVE  Hb!HbInv'
<1>1. /\ now' = now /\ heard' = heard /\ pqueue' = pqueue \ {e} /\ failed' # {}
      /\ e.uri \in Hb!Tracked
      /\ last_rx' = [u \in Hb!Tracked \ {e.uri} |-> last_rx[u]]
  BY DEF Hb!do_one_fail, Hb!Ready
<1>2. Hb!Tracked' = Hb!Tracked \ {e.uri}
  BY <1>1 DEF Hb!Tracked
<1>3. Hb!HbTimes'
  BY <1>1, <1>2 DEF Hb!HbInv, Hb!HbTimes
<1>4. Hb!NothingBlocked' => Hb!Tracked' = {}
  BY <1>1, <1>2 DEF Hb!NothingBlocked, Hb!HbInv, Hb!HbTimes
<1> QED
  BY <1>1, <1>3, <1>4 DEF Hb!HbInv

\* Time passes only when no event is due, so that the check of a remote comes first.
LEMMA HbTickKeeps ==
  ASSUME Hb!TimeAssumption, Hb!HbInv, Hb!Tick
  PROVE  Hb!HbInv'
<1> USE HbConstants
<1>1. /\ now' = now + 1 /\ last_rx' = last_rx /\ heard' = heard /\ pqueue' = pqueue
      /\ failed' = failed
      /\ ~\E e \in pqueue : Hb!Ready(e)
  BY DEF Hb!Tick
<1>2. Hb!Tracked' = Hb!Tracked /\ (Hb!NothingBlocked' <=> Hb!NothingBlocked)
  BY <1>1 DEF Hb!Tracked, Hb!NothingBlocked
<1>3. Hb!HbTimes'
  BY <1>1, <1>2 DEF Hb!HbInv, Hb!HbTimes
<1>4. failed' = {} => \A e \in pqueue' : e.uri \in Hb!Tracked'
  BY <1>1, <1>2 DEF Hb!HbInv
<1>5. ASSUME Hb!NothingBlocked, NEW u \in Hb!Tracked
      PROVE  Hb!Watched(u)'
  <2>1. Hb!Watched(u) /\ now \in Nat /\ last_rx[u] \in Nat /\ Hb!HbTimes
    BY <1>5 DEF Hb!HbInv, Hb!HbTimes
  <2>2. \A e \in pqueue : e.uri \in Hb!Tracked
    <3>1. CASE failed = {}
      BY <3>1 DEF Hb!HbInv
    <3>2. CASE \A v, w \in Uri : v = w
      BY <3>2, <2>1 DEF Hb!HbTimes
    <3> QED
      BY <1>5, <3>1, <3>2 DEF Hb!NothingBlocked
  <2>3. \A e \in pqueue : now < e.tsc /\ e.tsc \in Nat
    BY <1>1, <2>1, <2>2, NoneDue DEF Hb!HbTimes
  <2> QED
    BY <1>1, <2>1, <2>3 DEF Hb!Watched
<1> QED
  BY <1>2, <1>3, <1>4, <1>5 DEF Hb!HbInv

\* The inductive invariant of the heartbeat manager, for any remotes and periods: the
\* check that will report a silent remote is queued before the remote's deadline.
THEOREM HeartbeatInvariantHolds == Hb!TimeAssumption => (Hb!Spec => []Hb!HbInv)
<1> SUFFICES ASSUME Hb!TimeAssumption
             PROVE  Hb!Spec => []Hb!HbInv
  OBVIOUS
<1>1. Hb!HbInv /\ [Hb!Next]_(Hb!vars) => Hb!HbInv'
  <2> SUFFICES ASSUME Hb!HbInv, [Hb!Next]_(Hb!vars)
               PROVE  Hb!HbInv'
    OBVIOUS
  <2>1. ASSUME NEW u \in Uri, Hb!unlocked_add_remote(u) PROVE Hb!HbInv'
    BY <2>1, AddKeeps
  <2>2. ASSUME NEW u \in Uri, Hb!unlocked_receive_hb(u) PROVE Hb!HbInv'
    BY <2>2, ReceiveKeeps
  <2>3. ASSUME NEW e \in pqueue, Hb!do_one_send(e) \/ Hb!do_one_check(e) PROVE Hb!HbInv'
    BY <2>3, DoOneKeeps
  <2>4. ASSUME NEW e \in pqueue, Hb!do_one_fail(e) PROVE Hb!HbInv'
    BY <2>4, FailKeeps
  <2>5. CASE Hb!Tick
    BY <2>5, HbTickKeeps
  <2>6. ASSUME UNCHANGED <<now, last_rx, pqueue, heard, failed>> PROVE Hb!HbInv'
    BY <2>6 DEF Hb!HbInv, Hb!HbTimes, Hb!NothingBlocked, Hb!Watched, Hb!Tracked
  <2>7. ASSUME NEW u \in Uri, Hb!Die(u) PROVE Hb!HbInv'
    BY <2>6, <2>7 DEF Hb!Die
  <2>8. CASE UNCHANGED Hb!vars
    BY <2>6, <2>8 DEF Hb!vars
  <2> QED
    BY <2>1, <2>2, <2>3, <2>4, <2>5, <2>7, <2>8 DEF Hb!Next
<1> QED
  BY <1>1, HbInit, PTL DEF Hb!Spec

\* A remote that falls silent is reported within the timeout and one check period, and
\* as long as it is tracked heartbeats go to it and its silence is looked for, until a
\* remote has been reported whose events then stand before those of the others.
THEOREM SilenceIsReported ==
  Hb!TimeAssumption =>
    (Hb!Spec => [](Hb!NothingBlocked => Hb!DetectedInTime /\ Hb!TrackedIsServed))
<1> SUFFICES ASSUME Hb!TimeAssumption
             PROVE  Hb!Spec => [](Hb!NothingBlocked => Hb!DetectedInTime /\ Hb!TrackedIsServed)
  OBVIOUS
<1>1. Hb!HbInv => (Hb!NothingBlocked => Hb!DetectedInTime /\ Hb!TrackedIsServed)
  <2> SUFFICES ASSUME Hb!HbInv, Hb!NothingBlocked, NEW u \in Hb!Tracked
               PROVE  /\ now - heard[u] <= FailTimeout + CheckDelta
                      /\ \A type \in {"kSend", "kCheck"} :
                           \E e \in pqueue : e.uri = u /\ e.type = type /\ e.tsc <= now + CheckDelta
    BY DEF Hb!DetectedInTime, Hb!TrackedIsServed
  <2>1. /\ Hb!Watched(u) /\ now \in Nat /\ last_rx[u] \in Nat /\ heard[u] \in Nat
        /\ last_rx[u] <= heard[u]
    BY DEF Hb!HbInv, Hb!HbTimes
  <2>2. now - heard[u] <= FailTimeout + CheckDelta
    BY <2>1, HbConstants DEF Hb!Watched
  <2> QED
    BY <2>1, <2>2 DEF Hb!Watched
<1> QED
  BY <1>1, HeartbeatInvariantHolds, PTL

-----------------------------------------------------------------------------
(* The multi-packet receive path of RawTransport *)

\* Division with remainder, of any integer.
LEMMA DivInt ==
  ASSUME NEW N \in Nat \ {0}, NEW a \in Int
  PROVE  /\ a = N * (a \div N) + (a % N)
         /\ a % N \in 0 .. N - 1
         /\ a \div N \in Int
  OBVIOUS

LEMMA DivUnique ==
  ASSUME NEW N \in Nat \ {0}, NEW q \in Int, NEW r \in 0 .. N - 1
  PROVE  (N * q + r) \div N = q /\ (N * q + r) % N = r
  OBVIOUS

\* Integers with the same remainder are a multiple apart.
LEMMA SameRemainder ==
  ASSUME NEW N \in Nat \ {0}, NEW a \in Int, NEW b \in Int
  PROVE  a % N = b % N <=> (a - b) % N = 0
<1> DEFINE p == a \div N
           q == b \div N
           r == a % N
           s == b % N
<1>1. a = N * p + r /\ r \in 0 .. N - 1 /\ p \in Int
  BY DivInt
<1>2. b = N * q + s /\ s \in 0 .. N - 1 /\ q \in Int
  BY DivInt
<1> HIDE DEF p, q, r, s
<1>3. ASSUME r = s PROVE (a - b) % N = 0
  <2>1. a - b = N * (p - q) + 0
    BY <1>1, <1>2, <1>3
  <2> QED
    BY <2>1, <1>1, <1>2, ModUnique
<1>4. ASSUME (a - b) % N = 0 PROVE r = s
  <2> DEFINE t == (a - b) \div N
  <2>1. a - b = N * t + 0 /\ t \in Int
    BY <1>4, DivInt
  <2> HIDE DEF t
  <2>2. a = N * (t + q) + s
    BY <2>1, <1>2
  <2>3. a % N = s
    BY <2>1, <2>2, <1>2, ModUnique
  <2> QED
    BY <2>3 DEF r
<1> QED
  BY <1>3, <1>4 DEF r, s

LEMMA MultipleMod == ASSUME NEW N \in Nat \ {0}, NEW q \in Int PROVE (N * q) % N = 0
<1>1. N * q = N * q + 0 /\ 0 \in 0 .. N - 1
  OBVIOUS
<1> QED
  BY <1>1, ModUnique

\* A multiple of N below N is 0.
LEMMA SmallMultiple ==
  ASSUME NEW N \in Nat \ {0}, NEW a \in Int, a % N = 0, -N < a, a < N
  PROVE  a = 0
<1>1. a = N * (a \div N) /\ a \div N \in Int
  BY DivInt
<1> QED
  BY <1>1

\* A remainder may be taken before a subtraction, also of a multiple of the divisor.
LEMMA ModMod ==
  ASSUME NEW N \in Nat \ {0}, NEW M \in Nat \ {0}, M % N = 0, NEW x \in Int, NEW y \in Int
  PROVE  ((x % M) - y) % N = (x - y) % N
<1> DEFINE k == M \div N
           q == x \div M
           r == x % M
<1>1. M = N * k /\ k \in Int
  BY DivInt
<1>2. x = M * q + r /\ q \in Int /\ r \in Int
  BY DivInt
<1> HIDE DEF k, q, r
<1> DEFINE z == -(k * q)
           c == r - y
           d == x - y
<1>3. c \in Int /\ d \in Int /\ c - d = -(M * q)
  BY <1>2
<1>4. z \in Int /\ -(M * q) = N * z
  BY <1>1, <1>2
<1> HIDE DEF z, c, d
<1>5. (c - d) % N = 0
  BY <1>3, <1>4, MultipleMod
<1>6. c % N = d % N
  BY <1>3, <1>5, SameRemainder
<1> QED
  BY <1>6 DEF c, d, r

LEMMA ModSelf ==
  ASSUME NEW N \in Nat \ {0}, NEW x \in Int, NEW y \in Int
  PROVE  ((x % N) - y) % N = (x - y) % N
<1>1. N * 1 = N /\ (N * 1) % N = 0
  BY MultipleMod
<1>2. N % N = 0
  BY <1>1
<1> QED
  BY <1>2, ModMod

LEMMA SmallMod ==
  ASSUME NEW N \in Nat \ {0}, NEW a \in Int
  PROVE  /\ a \in 0 .. N - 1 => a % N = a
         /\ a \in -N .. -1 => a % N = a + N
<1>1. ASSUME a \in 0 .. N - 1 PROVE a % N = a
  <2>1. N * 0 + a = a /\ (N * 0 + a) % N = a
    BY <1>1, ModUnique
  <2> QED
    BY <2>1
<1>2. ASSUME a \in -N .. -1 PROVE a % N = a + N
  <2> DEFINE r == a + N
  <2>1. r \in 0 .. N - 1 /\ N * (-1) + r = a
    BY <1>2
  <2> HIDE DEF r
  <2>2. (N * (-1) + r) % N = r
    BY <2>1, ModUnique
  <2> QED
    BY <2>1, <2>2 DEF r
<1> QED
  BY <1>1, <1>2

\* Two integers with the same remainder are the same if they are close.
LEMMA CloseEqual ==
  ASSUME NEW N \in Nat \ {0}, NEW a \in Int, NEW b \in Int, a % N = b % N, -N < a - b, a - b < N
  PROVE  a = b
<1> DEFINE z == a - b
<1>1. z \in Int /\ -N < z /\ z < N
  OBVIOUS
<1>2. z % N = 0
  BY SameRemainder
<1> HIDE DEF z
<1>3. z = 0
  BY <1>1, <1>2, SmallMultiple
<1> QED
  BY <1>3 DEF z

\* The quotient by K of a remainder by M * K.
LEMMA ModDiv ==
  ASSUME NEW K \in Nat \ {0}, NEW M \in Nat \ {0}, NEW x \in Int
  PROVE  (x % (M * K)) \div K = (x \div K) % M
<1> DEFINE q == x \div K
           r == x % K
           t == q \div M
           s == q % M
<1>1. x = K * q + r /\ q \in Int /\ r \in 0 .. K - 1
  BY DivInt
<1>2. q = M * t + s /\ t \in Int /\ s \in 0 .. M - 1
  BY <1>1, DivInt
<1> HIDE DEF q, r, s, t
<1>3. M * K \in Nat \ {0} /\ K * s + r \in Nat
  BY <1>1, <1>2
<1>4. x = (M * K) * t + (K * s + r)
  <2>1. K * q = K * (M * t) + K * s
    BY <1>2
  <2>2. K * (M * t) = (M * K) * t
    BY <1>2
  <2> QED
    BY <2>1, <2>2, <1>1, <1>2
<1>5. K * s + r < M * K
  <2>1. K * s <= K * (M - 1)
    BY <1>2
  <2>2. K * (M - 1) = M * K - K
    OBVIOUS
  <2> QED
    BY <2>1, <2>2, <1>1, <1>2
<1>6. x % (M * K) = K * s + r
  <2>1. K * s + r \in 0 .. (M * K) - 1
    BY <1>3, <1>5
  <2> QED
    BY <2>1, <1>3, <1>4, <1>2, DivUnique
<1>7. (K * s + r) \div K = s
  BY <1>1, <1>2, DivUnique
<1> QED
  BY <1>6, <1>7 DEF r, s, q

LEMMA DumbSizes ==
  ASSUME Dumb!SizeAssumption, Dumb!RingAssumption
  PROVE  /\ kStridesPerWQE \in Nat \ {0} /\ NumWqeIds \in Nat \ {0}
         /\ kDumbRingEntries \in Nat \ {0} /\ kRecvCQDepth \in Nat \ {0}
         /\ Dumb!kCQESnapshotCycle \in Nat \ {0} /\ Dumb!kRQDepth \in Nat \ {0}
         /\ Dumb!kCQESnapshotCycle = NumWqeIds * kStridesPerWQE
         /\ kDumbRingEntries = kStridesPerWQE * Dumb!kRQDepth
         /\ kDumbRingEntries % kRecvCQDepth = 0
         /\ Dumb!kCQESnapshotCycle % kRecvCQDepth = 0
         /\ kRecvCQDepth >= 2 /\ kStridesPerWQE >= kRecvCQDepth
         /\ kDumbRingEntries >= kStridesPerWQE
         /\ Dumb!kCQESnapshotCycle >= 2 * kDumbRingEntries
         /\ NumWqeIds > Dumb!kRQDepth
<1> DEFINE K == kStridesPerWQE
           R == kDumbRingEntries
           d == Dumb!kRQDepth
<1>1. K \in Nat \ {0} /\ R \in Nat \ {0} /\ NumWqeIds \in Nat \ {0} /\ kRecvCQDepth \in Nat \ {0}
  BY DEF Dumb!SizeAssumption
<1>2. R = K * d /\ d \in Int
  BY <1>1, DivInt DEF Dumb!RingAssumption, Dumb!kRQDepth
<1>3. Dumb!kCQESnapshotCycle = NumWqeIds * K /\ NumWqeIds * K \in Nat \ {0}
  BY <1>1 DEF Dumb!kCQESnapshotCycle
<1>4. NumWqeIds * K >= 2 * R
  BY <1>3 DEF Dumb!RingAssumption
<1>5. R % kRecvCQDepth = 0 /\ (NumWqeIds * K) % kRecvCQDepth = 0 /\ kRecvCQDepth >= 2
      /\ K >= kRecvCQDepth
  BY <1>3 DEF Dumb!RingAssumption
<1> HIDE DEF K, R, d
<1>6. d >= 1 /\ R >= K
  BY <1>1, <1>2
<1>7. NumWqeIds > d
  <2> SUFFICES ASSUME NumWqeIds <= d PROVE FALSE
    BY <1>1, <1>2
  <2>1. NumWqeIds * K <= K * d
    BY <1>1, <1>2
  <2> QED
    BY <2>1, <1>1, <1>2, <1>4
<1> QED
  BY <1>1, <1>2, <1>3, <1>4, <1>5, <1>6, <1>7 DEF K, R, d

LEMMA DumbInit ==
  ASSUME Dumb!SizeAssumption, Dumb!RingAssumption
  PROVE  Dumb!Init => Dumb!DumbInv
<1> DEFINE C == Dumb!kCQESnapshotCycle
           d == kRecvCQDepth
<1> SUFFICES ASSUME Dumb!Init PROVE Dumb!DumbInv
  OBVIOUS
<1>1. C \in Nat \ {0} /\ d \in Nat \ {0} /\ d <= C /\ Dumb!kRQDepth \in Nat \ {0}
      /\ kDumbRingEntries \in Nat \ {0} /\ kStridesPerWQE \in Nat \ {0}
  BY DumbSizes
<1>2. nic = 0 /\ posted = kDumbRingEntries /\ unread = 0 /\ cqe_idx = 0
      /\ prev_snapshot = C - 1 /\ dumb_pc = "idle" /\ batch = 0
      /\ dumb_rx_ring_head = 0 /\ dumb_recvs_to_post = 0 /\ mp_sge_idx = 0
      /\ recv_cqe_arr = [i \in 0 .. d - 1 |-> C - (d - i)]
      /\ snap = [id |-> 0, counter |-> 0]
  BY DEF Dumb!Init
<1> HIDE DEF C, d
<1>3. ASSUME NEW a \in 1 .. d PROVE recv_cqe_arr[(nic - a) % d] = (nic - a) % C
  <2> DEFINE n == nic - a
  <2>1. n \in Int /\ n \in -d .. -1 /\ n \in -C .. -1 /\ n + d \in 0 .. d - 1
    BY <1>1, <1>2
  <2>2. recv_cqe_arr[n + d] = n + C
    BY <1>1, <1>2, <2>1
  <2> HIDE DEF n
  <2>3. n % d = n + d
    BY <2>1, <1>1, SmallMod
  <2>4. n % C = n + C
    BY <2>1, <1>1, SmallMod
  <2> QED
    BY <2>2, <2>3, <2>4 DEF n
<1>4. prev_snapshot = (nic - 1) % C /\ 0 % d = 0 /\ 0 % kDumbRingEntries = 0
  <2> DEFINE n == nic - 1
  <2>1. n \in Int /\ n \in -C .. -1 /\ n + C = C - 1
    BY <1>1, <1>2
  <2> HIDE DEF n
  <2>2. n % C = n + C
    BY <2>1, <1>1, SmallMod
  <2>3. 0 % d = 0 /\ 0 % kDumbRingEntries = 0
    BY <1>1, SmallMod
  <2> QED
    BY <2>1, <2>2, <2>3, <1>2 DEF n
<1>5. Dumb!CqesInv
  <2>1. Dumb!Lag = 0 /\ Dumb!Lag + 1 = 1 /\ nic - Dumb!Lag = 0
    BY <1>2 DEF Dumb!Lag
  <2> QED
    BY <1>2, <1>3, <1>4, <2>1 DEF Dumb!CqesInv, Dumb!Index, C, d
<1>6. Dumb!DumbTypes
  BY <1>1, <1>2 DEF Dumb!DumbTypes, C, d
<1> QED
  BY <1>1, <1>2, <1>4, <1>5, <1>6
     DEF Dumb!DumbInv, Dumb!SnapInv, Dumb!DeltaSound, Dumb!OldestReposted

\* When a packet arrives every older one has aged by one.
LEMMA Aging ==
  ASSUME Dumb!SizeAssumption, Dumb!RingAssumption, nic \in Nat,
         nic' = (nic + 1) % Dumb!kCQESnapshotCycle, NEW a \in Int
  PROVE  /\ (nic' - (a + 1)) % Dumb!kCQESnapshotCycle = (nic - a) % Dumb!kCQESnapshotCycle
         /\ (nic' - (a + 1)) % kRecvCQDepth = (nic - a) % kRecvCQDepth
<1> DEFINE C == Dumb!kCQESnapshotCycle
           d == kRecvCQDepth
<1>1. C \in Nat \ {0} /\ d \in Nat \ {0} /\ C % d = 0
  BY DumbSizes
<1> HIDE DEF C, d
<1> DEFINE x == nic + 1
           y == a + 1
<1>2. x - y = nic - a /\ x \in Int /\ y \in Int
  OBVIOUS
<1> HIDE DEF x, y
<1>3. ((x % C) - y) % C = (x - y) % C
  BY <1>1, <1>2, ModSelf
<1>4. ((x % C) - y) % d = (x - y) % d
  BY <1>1, <1>2, ModMod
<1> QED
  BY <1>2, <1>3, <1>4 DEF C, d, x, y

\* The packet that the CQE at cqe_idx shows now.
LEMMA CurrentCqe ==
  ASSUME Dumb!SizeAssumption, Dumb!RingAssumption, Dumb!DumbInv
  PROVE  \E c \in 1 .. kRecvCQDepth : Dumb!Shown(c) /\ Dumb!Cqe = Dumb!Index(c)
<1> DEFINE d == kRecvCQDepth
           L == Dumb!Lag
           c == ((L - 1) % d) + 1
<1>1. d \in Nat \ {0} /\ L \in Nat /\ nic \in Nat
  BY DumbSizes DEF Dumb!DumbInv, Dumb!DumbTypes, Dumb!DeltaSound, Dumb!Lag
<1>2. cqe_idx = (nic - L) % d /\ \A a \in 1 .. d : recv_cqe_arr[(nic - a) % d] = Dumb!Index(a)
  BY DEF Dumb!DumbInv, Dumb!CqesInv
<1> HIDE DEF d, L
<1> DEFINE l == L - 1
           r == l % d
<1>3. l \in Int /\ r \in 0 .. d - 1 /\ c = r + 1
  BY <1>1, DivInt
<1>4. r % d = l % d
  BY <1>1, <1>3, SmallMod
<1> HIDE DEF r, c
<1>5. c \in 1 .. d /\ c \in Int /\ L \in Int /\ c - L = r - l /\ (nic - c) - (nic - L) = l - r
      /\ nic - c \in Int /\ nic - L \in Int
  BY <1>1, <1>3
<1>2a. l \in Int /\ r \in Int
  BY <1>1, <1>3
<1> HIDE DEF l
<1>6. c % d = L % d
  <2>1. (r - l) % d = 0
    BY <1>1, <1>2a, <1>4, SameRemainder
  <2>2. (c - L) % d = 0
    BY <2>1, <1>5
  <2> QED
    BY <2>2, <1>1, <1>5, SameRemainder
<1> DEFINE m == nic - c
           n == nic - L
<1>7. m % d = n % d
  <2>1. m \in Int /\ n \in Int /\ m - n = l - r
    BY <1>5
  <2> HIDE DEF m, n
  <2>2. (l - r) % d = 0
    BY <1>1, <1>2a, <1>4, SameRemainder
  <2>3. (m - n) % d = 0
    BY <2>1, <2>2
  <2> QED
    BY <2>1, <2>3, <1>1, SameRemainder
<1>8. Dumb!Shown(c)
  BY <1>1, <1>5, <1>6 DEF Dumb!Shown, d, L
<1>9. Dumb!Cqe = Dumb!Index(c)
  BY <1>2, <1>5, <1>7 DEF Dumb!Cqe
<1> QED
  BY <1>5, <1>8, <1>9 DEF d

\* What a CQE shows gets newer, by at most a turn of the ring while rx_burst reads it.
LEMMA ShownApart ==
  ASSUME Dumb!SizeAssumption, Dumb!RingAssumption, Dumb!DumbInv,
         NEW a \in Int, Dumb!Shown(a), NEW b \in Int, Dumb!Shown(b)
  PROVE  /\ b <= kRecvCQDepth => b <= a
         /\ a - b <= kDumbRingEntries
<1> DEFINE d == kRecvCQDepth
           L == Dumb!Lag
           R == kDumbRingEntries
<1>1. d \in Nat \ {0} /\ L \in Nat /\ R \in Nat /\ R % d = 0
  BY DumbSizes DEF Dumb!DumbInv, Dumb!DumbTypes, Dumb!DeltaSound, Dumb!Lag
<1>2. L <= R
  BY DEF Dumb!DumbInv, Dumb!OldestReposted, Dumb!DumbTypes, Dumb!Lag
<1>3. /\ a >= 1 /\ a <= L + d /\ b >= 1 /\ b <= L + d
      /\ a % d = b % d
  BY <1>1 DEF Dumb!Shown
<1> HIDE DEF d, L, R
<1>5. ASSUME b <= d, b > a PROVE FALSE
  <2>1. -d < a - b /\ a - b < d
    BY <1>1, <1>3, <1>5
  <2>2. a = b
    BY <2>1, <1>1, <1>3, CloseEqual
  <2> QED
    BY <2>2, <1>5
<1>6. ASSUME a - b > R PROVE FALSE
  <2> DEFINE z == a - b
  <2>1. z \in Int /\ R < z /\ z < R + d
    BY <1>1, <1>2, <1>3, <1>6
  <2>2. z % d = 0
    BY <1>1, <1>3, SameRemainder
  <2> HIDE DEF z
  <2>3. z % d = R % d /\ -d < z - R /\ z - R < d /\ R \in Int
    BY <2>1, <2>2, <1>1
  <2>4. z = R
    BY <2>1, <2>3, <1>1, CloseEqual, Zenon
  <2> QED
    BY <2>1, <2>4, <1>1
<1> QED
  BY <1>1, <1>5, <1>6 DEF d, R

\* The NIC writes a packet and a CQE.
LEMMA DumbNic ==
  ASSUME Dumb!SizeAssumption, Dumb!RingAssumption, Dumb!DumbInv, Dumb!NicRecv
  PROVE  Dumb!DumbInv'
<1> DEFINE C == Dumb!kCQESnapshotCycle
           d == kRecvCQDepth
           L == Dumb!Lag
<1>1. C \in Nat \ {0} /\ d \in Nat \ {0} /\ nic \in 0 .. C - 1 /\ L \in Nat /\ nic' \in 0 .. C - 1
      /\ C % d = 0
  <2>1. C \in Nat \ {0} /\ d \in Nat \ {0} /\ nic \in 0 .. C - 1 /\ L \in Nat /\ C % d = 0
    BY DumbSizes DEF Dumb!DumbInv, Dumb!DumbTypes, Dumb!DeltaSound, Dumb!Lag
  <2> HIDE DEF C, d, L
  <2>2. nic + 1 \in Int
    BY <2>1
  <2>3. (nic + 1) % C \in 0 .. C - 1
    BY <2>1, <2>2, DivInt
  <2> QED
    BY <2>1, <2>3 DEF Dumb!NicRecv, C
<1>2. nic' = (nic + 1) % C /\ unread' = unread + 1 /\ batch' = batch /\ posted' = posted - 1
      /\ posted > 0 /\ UNCHANGED <<cqe_idx, prev_snapshot, dumb_pc, snap>>
      /\ UNCHANGED <<dumb_rx_ring_head, dumb_recvs_to_post, mp_sge_idx>>
      /\ recv_cqe_arr' = [recv_cqe_arr EXCEPT ![nic % d] = nic]
  BY DEF Dumb!NicRecv, Dumb!cpuVars
<1>3. L' = L + 1
  BY <1>2 DEF Dumb!Lag, Dumb!DumbInv, Dumb!DumbTypes
<1>4. ASSUME NEW a \in Int
      PROVE  /\ (nic' - (a + 1)) % C = (nic - a) % C
             /\ (nic' - (a + 1)) % d = (nic - a) % d
  BY <1>1, <1>2, Aging
<1>5. Dumb!DumbTypes'
  BY <1>1, <1>2 DEF Dumb!DumbInv, Dumb!DumbTypes
<1>6. Dumb!CqesInv'
  <2>1. /\ \A a \in 1 .. d : recv_cqe_arr[(nic - a) % d] = (nic - a) % C
        /\ prev_snapshot = (nic - (L + 1)) % C /\ cqe_idx = (nic - L) % d
        /\ DOMAIN recv_cqe_arr = 0 .. d - 1
    BY DEF Dumb!DumbInv, Dumb!CqesInv, Dumb!Index, Dumb!DumbTypes
  <2> HIDE DEF C, d, L
  <2>2. nic % d \in 0 .. d - 1 /\ nic % C = nic
    <3>1. nic \in Int
      BY <1>1
    <3>2. nic % C = nic
      BY <1>1, <3>1, SmallMod
    <3> QED
      BY <1>1, <3>1, <3>2, DivInt
  <2>3. ASSUME NEW a \in 1 .. d PROVE recv_cqe_arr'[(nic' - a) % d] = (nic' - a) % C
    <3> DEFINE e == a - 1
    <3>1. e \in Int /\ e \in 0 .. d - 1 /\ e + 1 = a
      BY <1>1
    <3> HIDE DEF e
    <3>2. (nic' - a) % C = (nic - e) % C /\ (nic' - a) % d = (nic - e) % d
      BY <3>1, <1>4
    <3>3. (nic - e) % d \in 0 .. d - 1
      BY <3>1, <1>1, DivInt
    <3>4. CASE e = 0
      <4>1. nic - e = nic
        BY <3>4, <1>1
      <4> QED
        BY <4>1, <3>2, <2>2, <2>1, <1>2
    <3>5. CASE e # 0
      <4>1. (nic - e) % d # nic % d
        <5> SUFFICES ASSUME (nic - e) % d = nic % d PROVE FALSE
          OBVIOUS
        <5> DEFINE m == nic - e
        <5>1. m \in Int /\ nic \in Int /\ -d < m - nic /\ m - nic < d /\ m # nic
          BY <3>1, <3>5, <1>1
        <5> HIDE DEF m
        <5>2. m % d = nic % d
          BY DEF m
        <5> QED
          BY <5>1, <5>2, <1>1, CloseEqual, Zenon
      <4>2. e \in 1 .. d
        BY <3>1, <3>5, <1>1
      <4> QED
        BY <4>1, <4>2, <3>2, <3>3, <2>1, <2>2, <1>2
    <3> QED
      BY <3>4, <3>5
  <2>4. prev_snapshot' = (nic' - (L' + 1)) % C /\ cqe_idx' = (nic' - L') % d
    <3>1. L + 1 \in Int /\ L \in Int
      BY <1>1
    <3> QED
      BY <3>1, <1>2, <1>3, <1>4, <2>1
  <2> QED
    BY <2>3, <2>4 DEF Dumb!CqesInv, Dumb!Index, C, d, L
<1>7. ASSUME NEW a \in Nat, Dumb!Shown(a)
      PROVE  Dumb!Shown(a + 1)' /\ Dumb!Index(a + 1)' = Dumb!Index(a) /\ a + 1 \in 1 .. L' + d
  <2>1. a \in 1 .. L + d /\ a % d = L % d
    BY <1>7 DEF Dumb!Shown
  <2>2. Dumb!Index(a + 1)' = Dumb!Index(a)
    BY <1>4 DEF Dumb!Index
  <2> HIDE DEF C, d, L
  <2> DEFINE e == a + 1
             M == L + 1
  <2>3. e \in 1 .. M + d /\ e - M = a - L /\ e \in Int /\ M \in Int /\ a \in Int /\ L \in Int
    BY <1>1, <2>1
  <2> HIDE DEF e, M
  <2>4. e % d = M % d
    <3>1. (a - L) % d = 0
      BY <2>1, <2>3, <1>1, SameRemainder
    <3>2. (e - M) % d = 0
      BY <3>1, <2>3
    <3> QED
      BY <3>2, <2>3, <1>1, SameRemainder
  <2> QED
    BY <1>3, <2>2, <2>3, <2>4 DEF Dumb!Shown, d, L, e, M
<1>8. Dumb!SnapInv'
  <2>1. dumb_pc # "idle" => batch = 0
    BY DEF Dumb!DumbInv, Dumb!SnapInv
  <2>2. ASSUME dumb_pc = "counter"
        PROVE  \E a \in 1 .. L' + d : Dumb!Shown(a)' /\ snap.id = Dumb!wqe_id(Dumb!Index(a)')
    <3>1. PICK a \in 1 .. L + d : Dumb!Shown(a) /\ snap.id = Dumb!wqe_id(Dumb!Index(a))
      BY <2>2 DEF Dumb!DumbInv, Dumb!SnapInv
    <3>2. a \in Nat
      BY <1>1
    <3>3. Dumb!Shown(a + 1)' /\ Dumb!Index(a + 1)' = Dumb!Index(a) /\ a + 1 \in 1 .. L' + d
      BY <3>1, <3>2, <1>7
    <3> QED
      BY <3>1, <3>3
  <2>3. ASSUME dumb_pc = "check"
        PROVE  \E a \in 1 .. L' + d : \E b \in 1 .. a :
                  /\ Dumb!Shown(a)' /\ snap.id = Dumb!wqe_id(Dumb!Index(a)')
                  /\ Dumb!Shown(b)' /\ snap.counter = Dumb!wqe_counter(Dumb!Index(b)')
    <3>1. PICK a \in 1 .. L + d : \E b \in 1 .. a :
                  /\ Dumb!Shown(a) /\ snap.id = Dumb!wqe_id(Dumb!Index(a))
                  /\ Dumb!Shown(b) /\ snap.counter = Dumb!wqe_counter(Dumb!Index(b))
      BY <2>3 DEF Dumb!DumbInv, Dumb!SnapInv
    <3>2. PICK b \in 1 .. a :
                  /\ Dumb!Shown(a) /\ snap.id = Dumb!wqe_id(Dumb!Index(a))
                  /\ Dumb!Shown(b) /\ snap.counter = Dumb!wqe_counter(Dumb!Index(b))
      BY <3>1
    <3>3. a \in Nat /\ b \in Nat /\ b + 1 \in 1 .. a + 1
      BY <1>1
    <3>4. Dumb!Shown(a + 1)' /\ Dumb!Index(a + 1)' = Dumb!Index(a) /\ a + 1 \in 1 .. L' + d
      BY <3>2, <3>3, <1>7
    <3>5. Dumb!Shown(b + 1)' /\ Dumb!Index(b + 1)' = Dumb!Index(b)
      BY <3>2, <3>3, <1>7
    <3> QED
      BY <3>2, <3>3, <3>4, <3>5
  <2> QED
    BY <2>1, <2>2, <2>3, <1>2 DEF Dumb!SnapInv, Dumb!wqe_id, Dumb!wqe_counter
<1>9. Dumb!DeltaSound' /\ Dumb!OldestReposted' /\ (dumb_recvs_to_post < kDumbRingEntries)'
  BY <1>2 DEF Dumb!DumbInv, Dumb!DumbTypes, Dumb!DeltaSound, Dumb!OldestReposted
<1> QED
  BY <1>5, <1>6, <1>8, <1>9 DEF Dumb!DumbInv

\* What the CPU reads leaves packets and CQEs alone.
LEMMA DumbSame ==
  ASSUME Dumb!DumbInv, UNCHANGED <<Dumb!nicVars, Dumb!cpuVars>>,
         dumb_pc' \in {"idle", "counter", "check"}, DOMAIN snap' = {"id", "counter"}
  PROVE  /\ Dumb!DumbTypes' /\ Dumb!CqesInv' /\ Dumb!DeltaSound' /\ Dumb!OldestReposted'
         /\ (dumb_recvs_to_post < kDumbRingEntries)'
         /\ Dumb!Lag' = Dumb!Lag
         /\ \A a : Dumb!Shown(a)' = Dumb!Shown(a) /\ Dumb!Index(a)' = Dumb!Index(a)
<1>1. /\ nic' = nic /\ posted' = posted /\ recv_cqe_arr' = recv_cqe_arr /\ unread' = unread
      /\ cqe_idx' = cqe_idx /\ prev_snapshot' = prev_snapshot /\ batch' = batch
      /\ dumb_rx_ring_head' = dumb_rx_ring_head /\ dumb_recvs_to_post' = dumb_recvs_to_post
      /\ mp_sge_idx' = mp_sge_idx
  BY DEF Dumb!nicVars, Dumb!cpuVars
<1>2. Dumb!Lag' = Dumb!Lag
  BY <1>1 DEF Dumb!Lag
<1>3. \A a : Dumb!Shown(a)' = Dumb!Shown(a) /\ Dumb!Index(a)' = Dumb!Index(a)
  BY <1>1, <1>2 DEF Dumb!Shown, Dumb!Index
<1>4. Dumb!DumbTypes'
  BY <1>1 DEF Dumb!DumbInv, Dumb!DumbTypes
<1>5. Dumb!CqesInv'
  BY <1>1, <1>2 DEF Dumb!DumbInv, Dumb!CqesInv, Dumb!Index
<1> QED
  BY <1>1, <1>2, <1>3, <1>4, <1>5 DEF Dumb!DumbInv, Dumb!DeltaSound, Dumb!OldestReposted

LEMMA DumbReads ==
  ASSUME Dumb!SizeAssumption, Dumb!RingAssumption, Dumb!DumbInv,
         Dumb!read_wqe_id \/ Dumb!read_wqe_counter \/ Dumb!snapshot_retry
  PROVE  Dumb!DumbInv'
<1> DEFINE U == 1 .. Dumb!Lag + kRecvCQDepth
<1>0. kRecvCQDepth \in Nat /\ Dumb!Lag \in Nat
  BY DumbSizes DEF Dumb!DumbInv, Dumb!DumbTypes, Dumb!DeltaSound, Dumb!Lag
<1>1. PICK c \in 1 .. kRecvCQDepth : Dumb!Shown(c) /\ Dumb!Cqe = Dumb!Index(c)
  BY CurrentCqe
<1>2. c \in Int /\ c \in U
  BY <1>0
<1>3. DOMAIN snap = {"id", "counter"}
  BY DEF Dumb!DumbInv, Dumb!DumbTypes
<1>4. CASE Dumb!read_wqe_id
  <2>1. snap' = [id |-> Dumb!wqe_id(Dumb!Cqe), counter |-> 0] /\ dumb_pc' = "counter" /\ batch = 0
        /\ UNCHANGED <<Dumb!nicVars, Dumb!cpuVars>>
    BY <1>4 DEF Dumb!read_wqe_id
  <2>2. /\ Dumb!DumbTypes' /\ Dumb!CqesInv' /\ Dumb!DeltaSound' /\ Dumb!OldestReposted'
        /\ (dumb_recvs_to_post < kDumbRingEntries)' /\ Dumb!Lag' = Dumb!Lag
        /\ \A a : Dumb!Shown(a)' = Dumb!Shown(a) /\ Dumb!Index(a)' = Dumb!Index(a)
    <3>1. DOMAIN snap' = {"id", "counter"} /\ dumb_pc' \in {"idle", "counter", "check"}
      BY <2>1
    <3> QED
      BY <2>1, <3>1, DumbSame
  <2>3. snap'.id = Dumb!wqe_id(Dumb!Index(c)) /\ batch' = 0
    BY <2>1, <1>1 DEF Dumb!cpuVars
  <2>4. Dumb!SnapInv'
    <3>1. \E a \in U : Dumb!Shown(a)' /\ snap'.id = Dumb!wqe_id(Dumb!Index(a)')
      BY <1>1, <1>2, <2>2, <2>3
    <3> QED
      BY <2>1, <2>2, <2>3, <3>1 DEF Dumb!SnapInv, Dumb!wqe_id
  <2> QED
    BY <2>2, <2>4 DEF Dumb!DumbInv
<1>5. CASE Dumb!read_wqe_counter
  <2>1. snap' = [snap EXCEPT !.counter = Dumb!wqe_counter(Dumb!Cqe)] /\ dumb_pc' = "check"
        /\ dumb_pc = "counter" /\ UNCHANGED <<Dumb!nicVars, Dumb!cpuVars>>
    BY <1>5 DEF Dumb!read_wqe_counter
  <2>2. /\ Dumb!DumbTypes' /\ Dumb!CqesInv' /\ Dumb!DeltaSound' /\ Dumb!OldestReposted'
        /\ (dumb_recvs_to_post < kDumbRingEntries)' /\ Dumb!Lag' = Dumb!Lag
        /\ \A a : Dumb!Shown(a)' = Dumb!Shown(a) /\ Dumb!Index(a)' = Dumb!Index(a)
    <3>1. DOMAIN snap' = {"id", "counter"} /\ dumb_pc' \in {"idle", "counter", "check"}
      BY <2>1, <1>3
    <3> QED
      BY <2>1, <3>1, DumbSame
  <2>3. PICK a \in U : Dumb!Shown(a) /\ snap.id = Dumb!wqe_id(Dumb!Index(a))
    BY <2>1 DEF Dumb!DumbInv, Dumb!SnapInv
  <2>4. a \in Int /\ c \in 1 .. a
    <3>1. a \in Int
      BY <1>0
    <3>2. c <= kRecvCQDepth /\ c >= 1
      BY <1>0
    <3>3. c <= a
      BY <3>1, <3>2, <1>1, <1>2, <2>3, ShownApart
    <3> QED
      BY <3>1, <3>2, <3>3, <1>2
  <2>5. snap'.id = snap.id /\ snap'.counter = Dumb!wqe_counter(Dumb!Index(c)) /\ batch' = 0
    BY <2>1, <1>1, <1>3 DEF Dumb!cpuVars, Dumb!DumbInv, Dumb!SnapInv
  <2>6. Dumb!SnapInv'
    <3>1. \E x \in U : \E y \in 1 .. x :
             /\ Dumb!Shown(x)' /\ snap'.id = Dumb!wqe_id(Dumb!Index(x)')
             /\ Dumb!Shown(y)' /\ snap'.counter = Dumb!wqe_counter(Dumb!Index(y)')
      BY <1>1, <2>2, <2>3, <2>4, <2>5
    <3> QED
      BY <2>1, <2>2, <2>5, <3>1 DEF Dumb!SnapInv, Dumb!wqe_id, Dumb!wqe_counter
  <2> QED
    BY <2>2, <2>6 DEF Dumb!DumbInv
<1>6. CASE Dumb!snapshot_retry
  <2>1. dumb_pc' = "idle" /\ snap' = snap /\ UNCHANGED <<Dumb!nicVars, Dumb!cpuVars>>
    BY <1>6 DEF Dumb!snapshot_retry
  <2>2. /\ Dumb!DumbTypes' /\ Dumb!CqesInv' /\ Dumb!DeltaSound' /\ Dumb!OldestReposted'
        /\ (dumb_recvs_to_post < kDumbRingEntries)'
    <3>1. DOMAIN snap' = {"id", "counter"} /\ dumb_pc' \in {"idle", "counter", "check"}
      BY <2>1, <1>3
    <3> QED
      BY <2>1, <3>1, DumbSame
  <2> QED
    BY <2>1, <2>2 DEF Dumb!DumbInv, Dumb!SnapInv
<1> QED
  BY <1>4, <1>5, <1>6

\* A number of strides apart is less than that many WQEs and one apart.
LEMMA DivMonotone ==
  ASSUME NEW K \in Nat \ {0}, NEW x \in Int, NEW y \in Int, x <= y
  PROVE  x \div K <= y \div K
<1> DEFINE p == x \div K
           q == y \div K
<1>1. x = K * p + (x % K) /\ x % K \in 0 .. K - 1 /\ p \in Int
  BY DivInt
<1>2. y = K * q + (y % K) /\ y % K \in 0 .. K - 1 /\ q \in Int
  BY DivInt
<1> HIDE DEF p, q
<1>3. ASSUME p > q PROVE FALSE
  <2>1. K * p >= K * (q + 1) /\ K * (q + 1) = K * q + K
    BY <1>1, <1>2, <1>3
  <2> QED
    BY <2>1, <1>1, <1>2
<1> QED
  BY <1>1, <1>2, <1>3 DEF p, q

\* If the id has not changed when it is read again, it was that of the packet whose
\* counter was read: the id is not back at its old value after one turn of the ring.
LEMMA ConsistentIsRight ==
  ASSUME Dumb!SizeAssumption, Dumb!RingAssumption, Dumb!DumbInv,
         NEW a \in Int, NEW b \in Int, NEW c \in Int, c <= b, b <= a, a - c <= kDumbRingEntries,
         Dumb!wqe_id(Dumb!Index(a)) = Dumb!wqe_id(Dumb!Index(c))
  PROVE  Dumb!wqe_id(Dumb!Index(a)) * kStridesPerWQE + Dumb!wqe_counter(Dumb!Index(b))
           = Dumb!Index(b)
<1> DEFINE K == kStridesPerWQE
           M == NumWqeIds
           C == Dumb!kCQESnapshotCycle
           d == Dumb!kRQDepth
           x == nic - a
           y == nic - b
           z == nic - c
<1>1. K \in Nat \ {0} /\ M \in Nat \ {0} /\ C = M * K /\ d \in Nat \ {0} /\ M > d
      /\ kDumbRingEntries = K * d /\ C \in Nat \ {0}
  BY DumbSizes
<1>2. nic \in Int
  BY DEF Dumb!DumbInv, Dumb!DumbTypes
<1>3. Dumb!Index(a) = x % C /\ Dumb!Index(b) = y % C /\ Dumb!Index(c) = z % C
  BY DEF Dumb!Index
<1>4. (x % C) \div K = (z % C) \div K
  BY <1>3 DEF Dumb!wqe_id
<1>5. x \in Int /\ y \in Int /\ z \in Int /\ x <= y /\ y <= z /\ z <= x + K * d
  BY <1>1, <1>2
<1> HIDE DEF K, M, C, d, x, y, z
<1> DEFINE p == x \div K
           q == y \div K
           s == z \div K
<1>6. p \in Int /\ q \in Int /\ s \in Int
  BY <1>1, <1>5, DivInt
<1>7. p <= q /\ q <= s
  BY <1>1, <1>5, DivMonotone
<1>8. s <= p + d
  <2> DEFINE r == x % K
             w == x + K * d
  <2>1. x = K * p + r /\ r \in 0 .. K - 1
    BY <1>1, <1>5, DivInt
  <2> HIDE DEF r, p
  <2>2. w = K * (p + d) + r /\ w \in Int /\ p + d \in Int
    BY <2>1, <1>1, <1>6
  <2> HIDE DEF w
  <2>3. w \div K = p + d
    BY <2>1, <2>2, <1>1, DivUnique
  <2>4. s <= w \div K
    BY <2>2, <1>1, <1>5, DivMonotone DEF w
  <2> QED
    BY <2>3, <2>4
<1>9. (x % C) \div K = p % M /\ (y % C) \div K = q % M /\ (z % C) \div K = s % M
  <2>0. K \in Nat \ {0} /\ M \in Nat \ {0} /\ x \in Int /\ y \in Int /\ z \in Int
    BY <1>1, <1>5
  <2>1. (x % (M * K)) \div K = p % M
    BY <2>0, ModDiv, Zenon
  <2>2. (y % (M * K)) \div K = q % M
    BY <2>0, ModDiv, Zenon
  <2>3. (z % (M * K)) \div K = s % M
    BY <2>0, ModDiv, Zenon
  <2> HIDE DEF p, q, s
  <2> QED
    BY <2>1, <2>2, <2>3, <1>1, Zenon
<1> HIDE DEF p, q, s
<1>10. p = s
  <2>1. -M < p - s /\ p - s < M /\ p % M = s % M
    BY <1>1, <1>4, <1>6, <1>7, <1>8, <1>9
  <2> QED
    BY <2>1, <1>1, <1>6, CloseEqual, Zenon
<1>11. q = p
  BY <1>6, <1>7, <1>10
<1>12. y % C \in Int /\ y % C = K * ((y % C) \div K) + ((y % C) % K)
  <2> DEFINE v == y % C
  <2>1. v \in Int
    BY <1>1, <1>5, DivInt
  <2> HIDE DEF v
  <2>2. v = K * (v \div K) + (v % K)
    BY <2>1, <1>1, DivInt
  <2> QED
    BY <2>1, <2>2 DEF v
<1>13. (x % C) \div K = (y % C) \div K
  BY <1>9, <1>11
<1>14. ((y % C) \div K) * K = K * ((y % C) \div K)
  BY <1>1, <1>12
<1> QED
  BY <1>3, <1>12, <1>13, <1>14 DEF Dumb!wqe_id, Dumb!wqe_counter, K

\* The number of packets between two places of the snapshot cycle.
LEMMA DeltaIs ==
  ASSUME Dumb!SizeAssumption, Dumb!RingAssumption, nic \in Int, NEW a \in Int, NEW b \in Int
  PROVE  Dumb!get_cqe_cycle_delta(Dumb!Index(a), Dumb!Index(b)) = (a - b) % Dumb!kCQESnapshotCycle
<1> DEFINE C == Dumb!kCQESnapshotCycle
           x == nic - a
           y == nic - b
           p == x \div C
           q == y \div C
           u == x % C
           v == y % C
<1>1. C \in Nat \ {0} /\ x \in Int /\ y \in Int
  BY DumbSizes
<1>2. a - b = y - x
  BY DEF x, y
<1>3. Dumb!Index(a) = u /\ Dumb!Index(b) = v
  BY DEF Dumb!Index
<1>4. Dumb!get_cqe_cycle_delta(u, v) = (v + C - u) % C
  BY DEF Dumb!get_cqe_cycle_delta
<1> HIDE DEF C, x, y
<1>5. x = C * p + u /\ y = C * q + v /\ p \in Int /\ q \in Int /\ u \in Int /\ v \in Int
  BY <1>1, DivInt
<1> HIDE DEF p, q, u, v
<1> DEFINE e == v + C - u
           f == y - x
           k == 1 + p - q
<1>6. e \in Int /\ f \in Int /\ k \in Int /\ e - f = C * k
  <2>1. C * k = C + C * p - C * q
    BY <1>1, <1>5
  <2> QED
    BY <2>1, <1>1, <1>5
<1> HIDE DEF e, f, k
<1>7. (e - f) % C = 0
  BY <1>1, <1>6, MultipleMod
<1>8. e % C = f % C
  BY <1>1, <1>6, <1>7, SameRemainder
<1> QED
  BY <1>2, <1>3, <1>4, <1>8 DEF e, f, C

\* The distance from the last packet returned to one that the CQE showed: it is new,
\* or as old as a whole turn of the CQEs and taken for too far ahead.
LEMMA DeltaOfShown ==
  ASSUME Dumb!SizeAssumption, Dumb!RingAssumption, Dumb!DumbInv,
         NEW b \in Int, Dumb!Shown(b)
  PROVE  LET delta == Dumb!get_cqe_cycle_delta(prev_snapshot, Dumb!Index(b)) IN
         IF b <= Dumb!Lag THEN delta = Dumb!Lag + 1 - b /\ Dumb!Accepted(delta)
                          ELSE ~Dumb!Accepted(delta)
<1> DEFINE C == Dumb!kCQESnapshotCycle
           d == kRecvCQDepth
           R == kDumbRingEntries
           L == Dumb!Lag
           z == L + 1 - b
<1>1. C \in Nat \ {0} /\ d \in Nat \ {0} /\ R \in Nat /\ R % d = 0 /\ d >= 2 /\ R >= d /\ C >= 2 * R
  BY DumbSizes
<1>2. L \in Nat /\ L <= R /\ nic \in Int /\ prev_snapshot = Dumb!Index(L + 1)
  BY DEF Dumb!DumbInv, Dumb!DumbTypes, Dumb!DeltaSound, Dumb!Lag, Dumb!OldestReposted,
         Dumb!CqesInv
<1>3. b >= 1 /\ b <= L + d /\ b % d = L % d
  BY <1>1, <1>2 DEF Dumb!Shown
<1>4. Dumb!get_cqe_cycle_delta(prev_snapshot, Dumb!Index(b)) = z % C
  <2>1. L + 1 \in Int
    BY <1>2
  <2> HIDE DEF L
  <2> QED
    BY <2>1, <1>2, DeltaIs DEF z
<1>5. \A n : Dumb!Accepted(n) <=> n # 0 /\ n < R
  BY DEF Dumb!Accepted
<1> HIDE DEF C, d, R, L
<1>6. z \in Int
  BY <1>2
<1>7. CASE b <= L
  <2>1. z \in 1 .. R
    BY <1>1, <1>2, <1>3, <1>7
  <2>2. z # R
    <3> SUFFICES ASSUME z = R PROVE FALSE
      OBVIOUS
    <3> DEFINE y == L - b
    <3>1. y \in Int /\ y = R - 1
      BY <1>1, <1>2
    <3>2. y % d = 0
      <4>1. L \in Int /\ L % d = b % d
        BY <1>2, <1>3
      <4> QED
        BY <4>1, <1>1, SameRemainder, Zenon
    <3> HIDE DEF y
    <3>3. R \in Int /\ R % d = y % d /\ -d < R - y /\ R - y < d
      BY <3>1, <3>2, <1>1
    <3>4. R = y
      BY <3>1, <3>3, <1>1, CloseEqual, Zenon
    <3> QED
      BY <3>1, <3>4, <1>1
  <2>3. z \in 0 .. C - 1
    BY <2>1, <1>1
  <2> HIDE DEF z
  <2>4. z % C = z
    BY <2>3, <1>1, <1>6, SmallMod
  <2>5. Dumb!Accepted(z)
    BY <2>1, <2>2, <1>1, <1>5, <1>6
  <2> QED
    BY <2>4, <2>5, <1>4, <1>7 DEF z, L
<1>8. CASE b > L
  <2>1. b = L + d
    <3> SUFFICES ASSUME b # L + d PROVE FALSE
      OBVIOUS
    <3>1. -d < b - L /\ b - L < d /\ L \in Int
      BY <1>1, <1>2, <1>3, <1>8
    <3>2. b = L
      BY <3>1, <1>1, <1>3, CloseEqual, Zenon
    <3> QED
      BY <3>2, <1>8, <1>2
  <2>2. z = 1 - d
    BY <2>1, <1>1, <1>2
  <2>3. z \in -C .. -1 /\ z + C >= R
    BY <2>2, <1>1
  <2> HIDE DEF z
  <2>4. z % C = z + C
    BY <2>3, <1>1, <1>6, SmallMod
  <2>5. ~Dumb!Accepted(z + C)
    BY <2>3, <1>1, <1>5, <1>6
  <2>6. ~(b <= L)
    BY <1>8, <1>2
  <2> QED
    BY <2>4, <2>5, <2>6, <1>4 DEF L
<1> QED
  BY <1>7, <1>8, <1>2

LEMMA DumbRx ==
  ASSUME Dumb!SizeAssumption, Dumb!RingAssumption, Dumb!DumbInv, Dumb!rx_burst
  PROVE  Dumb!DumbInv'
<1> DEFINE d == kRecvCQDepth
           L == Dumb!Lag
           cur == snap.id * kStridesPerWQE + snap.counter
           delta == Dumb!get_cqe_cycle_delta(prev_snapshot, cur)
<1>1. d \in Nat \ {0} /\ L \in Nat /\ nic \in Int /\ batch = 0 /\ L = unread /\ cqe_idx = (nic - L) % d
  BY DumbSizes DEF Dumb!DumbInv, Dumb!DumbTypes, Dumb!DeltaSound, Dumb!Lag, Dumb!SnapInv,
                   Dumb!CqesInv, Dumb!rx_burst
<1>2. /\ dumb_pc = "check" /\ dumb_pc' = "idle" /\ Dumb!Consistent
      /\ IF Dumb!Accepted(delta)
         THEN batch' = delta /\ cqe_idx' = Dumb!NextCqe /\ prev_snapshot' = cur
         ELSE UNCHANGED <<batch, cqe_idx, prev_snapshot>>
      /\ UNCHANGED <<nic, posted, recv_cqe_arr, unread, snap>>
      /\ UNCHANGED <<dumb_rx_ring_head, dumb_recvs_to_post, mp_sge_idx>>
  BY DEF Dumb!rx_burst, Dumb!nicVars
<1>3. PICK a \in 1 .. L + d : \E b \in 1 .. a :
         /\ Dumb!Shown(a) /\ snap.id = Dumb!wqe_id(Dumb!Index(a))
         /\ Dumb!Shown(b) /\ snap.counter = Dumb!wqe_counter(Dumb!Index(b))
  BY <1>2 DEF Dumb!DumbInv, Dumb!SnapInv
<1>4. PICK b \in 1 .. a :
         /\ Dumb!Shown(a) /\ snap.id = Dumb!wqe_id(Dumb!Index(a))
         /\ Dumb!Shown(b) /\ snap.counter = Dumb!wqe_counter(Dumb!Index(b))
  BY <1>3
<1>5. PICK c \in 1 .. d : Dumb!Shown(c) /\ Dumb!Cqe = Dumb!Index(c)
  BY CurrentCqe
<1>6. a \in Int /\ b \in Int /\ c \in Int /\ b <= a /\ c <= d /\ b >= 1
  BY <1>1
<1>7. cur = Dumb!Index(b)
  <2>1. c <= b
    BY <1>4, <1>5, <1>6, ShownApart
  <2>2. a - c <= kDumbRingEntries
    BY <1>4, <1>5, <1>6, ShownApart
  <2>3. Dumb!wqe_id(Dumb!Index(a)) = Dumb!wqe_id(Dumb!Index(c))
    BY <1>2, <1>4, <1>5 DEF Dumb!Consistent
  <2>4. Dumb!wqe_id(Dumb!Index(a)) * kStridesPerWQE + Dumb!wqe_counter(Dumb!Index(b))
          = Dumb!Index(b)
    BY <2>1, <2>2, <2>3, <1>6, ConsistentIsRight
  <2> QED
    BY <2>4, <1>4
<1>8. IF b <= L THEN delta = L + 1 - b /\ Dumb!Accepted(delta) ELSE ~Dumb!Accepted(delta)
  BY <1>4, <1>6, <1>7, DeltaOfShown
<1> HIDE DEF cur, delta
<1>9. CASE b <= L
  <2>1. batch' = L + 1 - b /\ cqe_idx' = Dumb!NextCqe /\ prev_snapshot' = Dumb!Index(b)
    BY <1>2, <1>7, <1>8, <1>9
  <2>2. batch' \in Nat /\ batch' <= unread' /\ L' = b - 1
    BY <2>1, <1>1, <1>2, <1>6, <1>9 DEF Dumb!Lag
  <2>3. cqe_idx' = (nic - (b - 1)) % d
    <3> DEFINE m == nic - L
               n == nic - (b - 1)
               y == -1
    <3>1. m \in Int /\ n \in Int /\ y \in Int /\ m - y = (nic - L) + 1
      BY <1>1, <1>6
    <3>2. b % d = L % d
      BY <1>4 DEF Dumb!Shown
    <3>3. (L - b) % d = 0
      <4>1. L \in Int /\ L % d = b % d
        BY <1>1, <3>2
      <4> QED
        BY <4>1, <1>1, <1>6, SameRemainder, Zenon
    <3>4. n - (m - y) = L - b /\ m - y \in Int
      BY <1>1, <1>6
    <3>5. Dumb!NextCqe = ((m % d) - y) % d
      <4>1. m % d \in Int
        BY <3>1, <1>1, DivInt
      <4>2. (m % d) - y = (m % d) + 1
        BY <4>1
      <4> QED
        BY <4>2, <1>1 DEF Dumb!NextCqe
    <3> HIDE DEF m, n, y
    <3>6. ((m % d) - y) % d = (m - y) % d
      BY <3>1, <1>1, ModSelf
    <3>7. (n - (m - y)) % d = 0
      BY <3>3, <3>4
    <3>8. n % d = (m - y) % d
      BY <3>1, <3>4, <3>7, <1>1, SameRemainder, Zenon
    <3> QED
      BY <2>1, <3>5, <3>6, <3>8 DEF n
  <2>4. Dumb!CqesInv'
    <3>1. \A e : Dumb!Index(e)' = Dumb!Index(e)
      BY <1>2 DEF Dumb!Index
    <3>2. b - 1 + 1 = b
      BY <1>6
    <3> QED
      BY <1>2, <2>1, <2>2, <2>3, <3>1, <3>2 DEF Dumb!DumbInv, Dumb!CqesInv
  <2>5. Dumb!DumbTypes' /\ Dumb!SnapInv' /\ Dumb!DeltaSound' /\ Dumb!OldestReposted'
    BY <1>2, <2>2 DEF Dumb!DumbInv, Dumb!DumbTypes, Dumb!SnapInv, Dumb!DeltaSound,
                      Dumb!OldestReposted
  <2> QED
    BY <1>2, <2>4, <2>5 DEF Dumb!DumbInv
<1>10. CASE ~(b <= L)
  <2>1. UNCHANGED <<Dumb!nicVars, Dumb!cpuVars>> /\ snap' = snap
    BY <1>2, <1>8, <1>10 DEF Dumb!nicVars, Dumb!cpuVars
  <2>2. DOMAIN snap' = {"id", "counter"} /\ dumb_pc' \in {"idle", "counter", "check"}
    BY <2>1, <1>2 DEF Dumb!DumbInv, Dumb!DumbTypes
  <2>3. /\ Dumb!DumbTypes' /\ Dumb!CqesInv' /\ Dumb!DeltaSound' /\ Dumb!OldestReposted'
        /\ (dumb_recvs_to_post < kDumbRingEntries)'
    BY <2>1, <2>2, DumbSame
  <2> QED
    BY <1>2, <2>3 DEF Dumb!DumbInv, Dumb!SnapInv
<1> QED
  BY <1>9, <1>10

LEMMA DumbPost ==
  ASSUME Dumb!SizeAssumption, Dumb!RingAssumption, Dumb!DumbInv, Dumb!post_recvs
  PROVE  Dumb!DumbInv'
<1> DEFINE R == kDumbRingEntries
           K == kStridesPerWQE
           n == Dumb!kRQDepth
           h == dumb_rx_ring_head
           p == dumb_recvs_to_post
           m == mp_sge_idx
<1>1. R \in Nat \ {0} /\ K \in Nat \ {0} /\ n \in Nat \ {0} /\ R = K * n /\ K <= R
  BY DumbSizes
<1>2. /\ h \in Nat /\ p \in Nat /\ m \in 0 .. n - 1 /\ p < R /\ posted + unread + p = R
      /\ m * K = (h - p) % R /\ posted \in Nat /\ unread \in Nat /\ batch \in Nat
      /\ batch <= unread
  BY DEF Dumb!DumbInv, Dumb!DumbTypes, Dumb!OldestReposted, Dumb!DeltaSound
<1>3. /\ dumb_pc = "idle" /\ batch > 0 /\ batch' = 0 /\ unread' = unread - batch
      /\ h' = (h + batch) % R
      /\ UNCHANGED <<nic, recv_cqe_arr, cqe_idx, prev_snapshot, dumb_pc, snap>>
      /\ IF p + batch < K
         THEN p' = p + batch /\ posted' = posted /\ m' = m
         ELSE p' = p + batch - K /\ posted' = posted + K /\ m' = (m + 1) % n
  BY DEF Dumb!post_recvs
<1>4. Dumb!CqesInv'
  <2>1. Dumb!Lag' = Dumb!Lag
    BY <1>2, <1>3 DEF Dumb!Lag
  <2> QED
    BY <2>1, <1>3 DEF Dumb!DumbInv, Dumb!CqesInv, Dumb!Index
<1>5. Dumb!SnapInv'
  BY <1>3 DEF Dumb!SnapInv
<1>6. Dumb!DumbTypes' /\ Dumb!OldestReposted' /\ (dumb_recvs_to_post < kDumbRingEntries)'
  <2> DEFINE x == h + batch
             y == p + batch
  <2>0. x \in Int /\ y \in Int /\ x - y = h - p
    BY <1>2
  <2>1. h' \in Nat /\ x % R \in Int
    <3> HIDE DEF R
    <3>1. x % R \in 0 .. R - 1
      BY <1>1, <2>0, DivInt
    <3> QED
      BY <3>1, <1>1, <1>3
  <2>2. (h' - y) % R = m * K
    <3> HIDE DEF R, x, y
    <3>1. ((x % R) - y) % R = (x - y) % R
      BY <1>1, <2>0, ModSelf
    <3> QED
      BY <3>1, <2>0, <1>2, <1>3 DEF x
  <2> HIDE DEF R, K, n, h, p, m
  <2>3. CASE y < K
    <3>1. p' = y /\ posted' = posted /\ m' = m
      BY <2>3, <1>3 DEF y
    <3>2. p' \in Nat /\ p' < R /\ posted' + unread' + p' = R /\ m' * K = (h' - p') % R
          /\ unread' \in Nat /\ posted' \in Nat /\ m' \in 0 .. n - 1
      BY <3>1, <2>2, <2>3, <1>1, <1>2, <1>3 DEF y
    <3> QED
      BY <3>2, <2>1, <1>3 DEF Dumb!DumbInv, Dumb!DumbTypes, Dumb!OldestReposted, R, K, n, h, p, m
  <2>4. CASE ~(y < K)
    <3>0. ~(p + batch < K)
      BY <2>4 DEF y
    <3>1. p' = y - K /\ posted' = posted + K /\ m' = (m + 1) % n
      <4>1. p' = p + batch - K /\ posted' = posted + K /\ m' = (m + 1) % n
        BY <3>0, <1>3, Zenon
      <4>2. p + batch - K = y - K
        BY <1>1, <1>2
      <4> QED
        BY <4>1, <4>2, Zenon
    <3>2. p' \in Nat /\ p' < R /\ posted' + unread' + p' = R
          /\ unread' \in Nat /\ posted' \in Nat
      BY <3>1, <2>0, <2>4, <1>1, <1>2, <1>3 DEF y
    <3>3. m' \in 0 .. n - 1
      <4>1. m + 1 \in Int
        BY <1>2
      <4> QED
        BY <4>1, <3>1, <1>1, DivInt
    <3>4. (h' - p') % R = (m * K + K) % R
      <4> DEFINE g == h' - y
                 e == -K
      <4>1. g \in Int /\ e \in Int /\ g - e = h' - p' /\ (g % R) - e = m * K + K
        BY <2>0, <2>1, <2>2, <3>1, <1>1, <1>2
      <4> HIDE DEF g, e
      <4>2. ((g % R) - e) % R = (g - e) % R
        BY <4>1, <1>1, ModSelf
      <4> QED
        BY <4>1, <4>2
    <3>5. (m * K + K) % R = m' * K
      <4>1. CASE m + 1 < n
        <5>1. m + 1 \in Int /\ m + 1 \in 0 .. n - 1
          BY <4>1, <1>1, <1>2
        <5>2. m' = m + 1
          BY <5>1, <3>1, <1>1, SmallMod
        <5>3. m' * K = m * K + K
          BY <5>2, <1>1, <1>2
        <5>4. m' * K >= 0 /\ m' * K + K <= R /\ m' * K \in Int
          <6> DEFINE k == m'
          <6>1. k + 1 <= n /\ k \in Nat
            BY <4>1, <5>2, <1>1, <1>2
          <6> HIDE DEF k
          <6>2. K * (k + 1) <= K * n /\ K * (k + 1) = K * k + K /\ K * k = k * K /\ K * k \in Nat
            BY <6>1, <1>1
          <6>3. k * K >= 0 /\ k * K + K <= R /\ k * K \in Int
            BY <6>1, <6>2, <1>1
          <6> QED
            BY <6>3 DEF k
        <5> DEFINE v == m' * K
        <5>5. v \in 0 .. R - 1 /\ v \in Int
          BY <5>4, <1>1
        <5> HIDE DEF v
        <5>6. v % R = v
          BY <5>5, <1>1, SmallMod
        <5> QED
          BY <5>3, <5>6 DEF v
      <4>2. CASE m + 1 = n
        <5>1. m' = 0
          <6>1. n % n = 0
            <7>1. n * 1 = n /\ (n * 1) % n = 0
              BY <1>1, MultipleMod
            <7> QED
              BY <7>1
          <6> QED
            BY <6>1, <4>2, <3>1
        <5>2. m * K + K = R
          <6>1. (m + 1) * K = m * K + K
            BY <1>1, <1>2
          <6> QED
            BY <6>1, <4>2, <1>1, <1>2
        <5>3. R % R = 0
          <6>1. R * 1 = R /\ (R * 1) % R = 0
            BY <1>1, MultipleMod
          <6> QED
            BY <6>1
        <5> QED
          BY <5>1, <5>2, <5>3, <1>1
      <4> QED
        BY <4>1, <4>2, <1>1, <1>2
    <3> QED
      BY <3>2, <3>3, <3>4, <3>5, <2>1, <1>3
         DEF Dumb!DumbInv, Dumb!DumbTypes, Dumb!OldestReposted, R, K, n, h, p, m
  <2> QED
    BY <2>3, <2>4
<1>7. Dumb!DeltaSound'
  BY <1>2, <1>3 DEF Dumb!DeltaSound
<1> QED
  BY <1>4, <1>5, <1>6, <1>7 DEF Dumb!DumbInv

\* The multi-packet receive path keeps its invariant for every number of strides, WQEs
\* and CQEs, wherever the NIC writes while the CPU reads (raw_transport's rx_burst).
THEOREM DumbInvariantHolds ==
  Dumb!SizeAssumption /\ Dumb!RingAssumption => (Dumb!Spec => []Dumb!DumbInv)
<1> SUFFICES ASSUME Dumb!SizeAssumption, Dumb!RingAssumption
             PROVE  Dumb!Spec => []Dumb!DumbInv
  OBVIOUS
<1>1. Dumb!Init => Dumb!DumbInv
  BY DumbInit
<1>2. Dumb!DumbInv /\ [Dumb!Next]_Dumb!vars => Dumb!DumbInv'
  <2> SUFFICES ASSUME Dumb!DumbInv, [Dumb!Next]_Dumb!vars
               PROVE  Dumb!DumbInv'
    OBVIOUS
  <2>1. CASE Dumb!NicRecv
    BY <2>1, DumbNic
  <2>2. CASE Dumb!read_wqe_id \/ Dumb!read_wqe_counter \/ Dumb!snapshot_retry
    BY <2>2, DumbReads
  <2>3. CASE Dumb!rx_burst
    BY <2>3, DumbRx
  <2>4. CASE Dumb!post_recvs
    BY <2>4, DumbPost
  <2>5. CASE UNCHANGED Dumb!vars
    <3>1. UNCHANGED <<Dumb!nicVars, Dumb!cpuVars>> /\ snap' = snap /\ dumb_pc' = dumb_pc
      BY <2>5 DEF Dumb!vars, Dumb!nicVars, Dumb!cpuVars
    <3>2. DOMAIN snap' = {"id", "counter"} /\ dumb_pc' \in {"idle", "counter", "check"}
      BY <3>1 DEF Dumb!DumbInv, Dumb!DumbTypes
    <3>3. /\ Dumb!DumbTypes' /\ Dumb!CqesInv' /\ Dumb!DeltaSound' /\ Dumb!OldestReposted'
          /\ (dumb_recvs_to_post < kDumbRingEntries)' /\ Dumb!Lag' = Dumb!Lag
          /\ \A a : Dumb!Shown(a)' = Dumb!Shown(a) /\ Dumb!Index(a)' = Dumb!Index(a)
      BY <3>1, <3>2, DumbSame
    <3>4. Dumb!SnapInv'
      BY <3>1, <3>3 DEF Dumb!DumbInv, Dumb!SnapInv, Dumb!wqe_id, Dumb!wqe_counter, Dumb!cpuVars
    <3> QED
      BY <3>3, <3>4 DEF Dumb!DumbInv
  <2> QED
    BY <2>1, <2>2, <2>3, <2>4, <2>5 DEF Dumb!Next
<1> QED
  BY <1>1, <1>2, PTL DEF Dumb!Spec

\* rx_burst returns no packet that has not arrived and misses none, however the NIC
\* overruns the CQEs; the receive queue does not run dry, and the WQE that post_recvs
\* posts next covers the oldest ring entries that were processed.
THEOREM DumbReceives ==
  Dumb!SizeAssumption /\ Dumb!RingAssumption =>
    (Dumb!Spec => [](/\ Dumb!DeltaSound /\ Dumb!NoPacketMissed
                     /\ Dumb!RqNotStarved /\ Dumb!OldestReposted))
<1> SUFFICES ASSUME Dumb!SizeAssumption, Dumb!RingAssumption
             PROVE  Dumb!Spec => [](/\ Dumb!DeltaSound /\ Dumb!NoPacketMissed
                                    /\ Dumb!RqNotStarved /\ Dumb!OldestReposted)
  OBVIOUS
<1>1. ASSUME Dumb!DumbInv PROVE Dumb!NoPacketMissed
  <2> SUFFICES ASSUME batch = 0, unread > 0
               PROVE  Dumb!Accepted(Dumb!get_cqe_cycle_delta(prev_snapshot, Dumb!Cqe))
    BY DEF Dumb!NoPacketMissed
  <2> DEFINE d == kRecvCQDepth
             L == Dumb!Lag
  <2>1. PICK c \in 1 .. d : Dumb!Shown(c) /\ Dumb!Cqe = Dumb!Index(c)
    BY <1>1, CurrentCqe
  <2>2. d \in Nat \ {0} /\ L \in Nat /\ L = unread /\ c \in Int /\ c <= d /\ c >= 1
    BY <1>1, DumbSizes DEF Dumb!DumbInv, Dumb!DumbTypes, Dumb!Lag
  <2>3. c <= L
    <3> SUFFICES ASSUME c > L PROVE FALSE
      BY <2>2
    <3>1. -d < c - L /\ c - L < d /\ L \in Int /\ c % d = L % d
      BY <2>1, <2>2 DEF Dumb!Shown
    <3>2. c = L
      BY <3>1, <2>2, CloseEqual, Zenon
    <3> QED
      BY <3>2, <2>2
  <2> QED
    BY <2>1, <2>2, <2>3, <1>1, DeltaOfShown
<1>2. Dumb!DumbInv => /\ Dumb!DeltaSound /\ Dumb!NoPacketMissed
                      /\ Dumb!RqNotStarved /\ Dumb!OldestReposted
  BY <1>1 DEF Dumb!DumbInv, Dumb!RqNotStarved, Dumb!OldestReposted, Dumb!DumbTypes
<1> QED
  BY <1>2, DumbInvariantHolds, PTL

-----------------------------------------------------------------------------
(* The components side by side, as the run checks them: a behaviour of MCLibrary is one *)
(* of every component, since one that does not run stutters.                            *)

LEMMA RxBehaves == Spec => Rx!Spec
<1>1. Init => Rx!Init
  BY DEF Init
<1>2. [Next]_vars => [Rx!Next]_(Rx!vars)
  BY DEF Next, vars, rxVars, Rx!vars
<1> QED
  BY <1>1, <1>2, PTL DEF Spec, Rx!Spec

LEMMA DumbBehaves == Spec => Dumb!Spec
<1>1. Init => Dumb!Init
  BY DEF Init
<1>2. [Next]_vars => [Dumb!Next]_(Dumb!vars)
  BY DEF Next, vars, dumbVars, Dumb!vars
<1> QED
  BY <1>1, <1>2, PTL DEF Spec, Dumb!Spec

LEMMA TxBehaves == Spec => Tx!Spec
<1>1. Init => Tx!Init
  BY DEF Init
<1>2. [Next]_vars => [Tx!Next]_(Tx!vars)
  BY DEF Next, vars, txVars, Tx!vars
<1> QED
  BY <1>1, <1>2, PTL DEF Spec, Tx!Spec

LEMMA DkBehaves == Spec => Dk!Spec
<1>1. Init => Dk!Init
  BY DEF Init
<1>2. [Next]_vars => [Dk!Next]_(Dk!vars)
  BY DEF Next, vars, dpdkVars, Dk!vars, Dk!memzone, Dk!pools
<1> QED
  BY <1>1, <1>2, PTL DEF Spec, Dk!Spec

LEMMA NexBehaves == Spec => Nex!Spec
<1>1. Init => Nex!Init
  BY DEF Init
<1>2. [Next]_vars => [Nex!Next]_(Nex!vars)
  BY DEF Next, vars, nexusVars, Nex!vars
<1> QED
  BY <1>1, <1>2, PTL DEF Spec, Nex!Spec

LEMMA BgBehaves == Spec => Bg!Spec
<1>1. Init => Bg!Init
  BY DEF Init
<1>2. [Next]_vars => [Bg!Next]_(Bg!vars)
  BY DEF Next, vars, bgVars, Bg!vars
<1> QED
  BY <1>1, <1>2, PTL DEF Spec, Bg!Spec

LEMMA HbBehaves == Spec => Hb!Spec
<1>1. Init => Hb!Init
  BY DEF Init
<1>2. [Next]_vars => [Hb!Next]_(Hb!vars)
  BY DEF Next, vars, hbVars, Hb!vars
<1> QED
  BY <1>1, <1>2, PTL DEF Spec, Hb!Spec

\* The rings of the transports keep their promises, for queues, rings, batches, signaling
\* periods and pools of any size that the transports' asserts allow.
THEOREM RingsHold == Spec => []Rings
<1>1. Spec => [](Tx!TxInv /\ Tx!SendQueueFits /\ Tx!OneSignaled /\ Tx!FlushReturnsBuffers)
  BY ConstantsOK, TxBehaves, TxInvariantHolds, SendQueueHasRoom, FlushGivesBuffersBack, PTL
<1>2. Spec => [](InlineCtrl => Tx!CtrlIntact)
  <2>1. CASE InlineCtrl
    <3>1. InlineCtrl = TRUE
      BY <2>1, TxConstants, ConstantsOK
    <3> QED
      BY <3>1, ConstantsOK, TxBehaves, CtrlPacketsIntact, PTL
  <2>2. CASE ~InlineCtrl
    <3>1. InlineCtrl => Tx!CtrlIntact
      BY <2>2
    <3> QED
      BY <3>1, PTL
  <2> QED
    BY <2>1, <2>2
<1>3. Spec => [](Rx!RingInv /\ Rx!PacketsInRing /\ Rx!RqRefilled)
  BY ConstantsOK, RxBehaves, RingInvariantHolds, PacketsStayInRing, RqIsRefilled, PTL
<1>4. Spec => [](/\ Dumb!DumbInv /\ Dumb!DeltaSound /\ Dumb!NoPacketMissed
                /\ Dumb!RqNotStarved /\ Dumb!OldestReposted)
  BY ConstantsOK, DumbBehaves, DumbInvariantHolds, DumbReceives, PTL
<1>5. Spec => [](crashes = 0 => Dk!MbufsConserved /\ Dk!AllocSucceeds)
  BY ConstantsOK, DkBehaves, MbufsSuffice, PTL
<1> QED
  BY <1>1, <1>2, <1>3, <1>4, <1>5, PTL DEF Rings

\* Work queues, hooks, queue pairs and heartbeats are safe to share, for any number of
\* threads, requests, Rpc objects, processes, ports and remotes.
THEOREM ThreadsAndPeersHold == Spec => []ThreadsAndPeers
<1>1. Spec => [](/\ Bg!BgInv /\ Bg!NeverPopsEmpty /\ Bg!ServedOnce /\ Bg!ContinuationAtIssuer)
  BY ConstantsOK, BgBehaves, BgInvariantHolds, PopsFindItems, RequestsServedOnce,
     ContinuationsAtIssuer, PTL
<1>2. Spec => [](Nex!NexusInv /\ Nex!EtidIsIndex /\ Nex!HookIsAlive)
  BY ConstantsOK, NexBehaves, NexusInvariantHolds, EtidsAreIndexes, HooksAreAlive, PTL
<1>3. Spec => [](Dk!DpdkInv /\ Dk!QpExclusive)
  BY ConstantsOK, DkBehaves, DpdkInvariantHolds, QpsAreExclusive, PTL
<1>4. Spec => []((\E p \in Ports : Ports = {p}) => Dk!AvailMatchesOwners)
  <2>1. CASE \E p \in Ports : Ports = {p}
    <3>1. Dk!TypeAssumption /\ (\E port : Ports = {port})
      BY <2>1, ConstantsOK
    <3>2. Dk!Spec => []Dk!AvailMatchesOwners
      BY <3>1, AvailIsRight
    <3> QED
      BY <3>2, DkBehaves, PTL
  <2>2. CASE ~\E p \in Ports : Ports = {p}
    <3>1. (\E p \in Ports : Ports = {p}) => Dk!AvailMatchesOwners
      BY <2>2
    <3> QED
      BY <3>1, PTL
  <2> QED
    BY <2>1, <2>2
<1>5. Spec => [](Hb!HbInv /\ (Hb!NothingBlocked => Hb!DetectedInTime /\ Hb!TrackedIsServed))
  BY ConstantsOK, HbBehaves, HeartbeatInvariantHolds, SilenceIsReported, PTL
<1> QED
  BY <1>1, <1>2, <1>3, <1>4, <1>5, PTL DEF ThreadsAndPeers
=============================================================================
