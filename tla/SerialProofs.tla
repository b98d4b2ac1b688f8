---------------------------- MODULE SerialProofs ----------------------------
(***************************************************************************)
(* The serial line, proved for every value of the constants: the bytes     *)
(* that are received, and the requests of the Uno.                         *)
(***************************************************************************)
EXTENDS SerialLinks, TLAPS
-----------------------------------------------------------------------------
(* Bytes received (RxQueue).                                               *)

(* One turn around the ring at most.                                       *)
LEMMA RingWraps ==
  ASSUME NEW n \in Nat \ {0}, NEW a \in 0 .. 2 * n - 1
  PROVE  a % n = IF a < n THEN a ELSE a - n
OBVIOUS

(* A slot after another, or before the start.                              *)
LEMMA RingSlot ==
  ASSUME NEW n \in Nat \ {0}, NEW a \in Int, 0 <= a, a < 2 * n, NEW s, s = a % n
  PROVE  s = (IF a < n THEN a ELSE a - n) /\ s \in 0 .. n - 1
<1>1. a \in 0 .. 2 * n - 1
  OBVIOUS
<1>2. s = (IF a < n THEN a ELSE a - n)
  BY <1>1, RingWraps, Zenon
<1> QED
  BY <1>2

(* How many are queued between tail t and head h of a ring of n slots, and *)
(* where: never at the head.                                               *)
LEMMA RingQueued ==
  ASSUME NEW n \in Nat \ {0}, NEW h \in 0 .. n - 1, NEW t \in 0 .. n - 1, NEW q, q = (h + n - t) % n
  PROVE  q = (IF h >= t THEN h - t ELSE h + n - t) /\ q \in 0 .. n - 1
<1>1. PICK a : a = h + n - t
  BY Zenon
<1>2. a \in Int /\ 0 <= a /\ a < 2 * n
  BY <1>1
<1>3. q = a % n
  BY <1>1, Zenon
<1>4. q = (IF a < n THEN a ELSE a - n)
  BY <1>2, <1>3, RingSlot, Zenon
<1> QED
  BY <1>1, <1>4

(* The slot after one.                                                     *)
LEMMA RingFollowing ==
  ASSUME NEW n \in Nat \ {0}, NEW h \in 0 .. n - 1, NEW k, k = (h + 1) % n
  PROVE  k = (IF h = n - 1 THEN 0 ELSE h + 1) /\ k \in 0 .. n - 1
<1>1. PICK a : a = h + 1
  BY Zenon
<1>2. a \in Int /\ 0 <= a /\ a < 2 * n
  BY <1>1
<1>3. k = a % n
  BY <1>1, Zenon
<1>4. k = (IF a < n THEN a ELSE a - n)
  BY <1>2, <1>3, RingSlot, Zenon
<1> QED
  BY <1>1, <1>4

(* The slot of the i-th that is queued is not the head's.                  *)
LEMMA RingPlace ==
  ASSUME NEW n \in Nat \ {0}, NEW h \in 0 .. n - 1, NEW t \in 0 .. n - 1, NEW q, q = (h + n - t) % n,
         NEW i \in 1 .. q, NEW s, s = (t + i - 1) % n
  PROVE  s = (IF t + i - 1 < n THEN t + i - 1 ELSE t + i - 1 - n) /\ s \in 0 .. n - 1 /\ s # h
<1>1. q = (IF h >= t THEN h - t ELSE h + n - t) /\ q \in 0 .. n - 1
  BY RingQueued, Zenon
<1>2. PICK a : a = t + i - 1
  BY Zenon
<1>3. s = a % n
  BY <1>2, Zenon
<1>4. a \in Int /\ 0 <= a /\ a < 2 * n
  BY <1>1, <1>2
<1>5. s = (IF a < n THEN a ELSE a - n)
  BY <1>3, <1>4, RingSlot, Zenon
<1> QED
  BY <1>1, <1>2, <1>5

(* A ring of n slots with its head, its tail and how many are queued.      *)
Ring(n, h, t, q) == n \in Nat \ {0} /\ h \in 0 .. n - 1 /\ t \in 0 .. n - 1 /\ q = (h + n - t) % n

RingPushed(n, h, t, q, k) == k \in 0 .. n - 1 /\ (k + n - t) % n = q + 1 /\ (t + q) % n = h
RingPopped(n, h, t, q, k) ==
  /\ k \in 0 .. n - 1 /\ (h + n - k) % n = q - 1 /\ (t + 1 - 1) % n = t
  /\ \A i \in 1 .. q - 1 : (k + i - 1) % n = (t + (i + 1) - 1) % n
Follows(k, s, n) == k = (s + 1) % n

(* One more is queued.                                                     *)
LEMMA RingPush ==
  ASSUME NEW n, NEW h, NEW t, NEW q, Ring(n, h, t, q), q < n - 1, NEW k, Follows(k, h, n)
  PROVE  RingPushed(n, h, t, q, k)
<1> USE DEF Ring, Follows
<1>1. q = (IF h >= t THEN h - t ELSE h + n - t)
  BY RingQueued, Zenon
<1>2. k = (IF h = n - 1 THEN 0 ELSE h + 1) /\ k \in 0 .. n - 1
  BY RingFollowing, Zenon
<1>0. n \in Nat \ {0} /\ h \in 0 .. n - 1 /\ t \in 0 .. n - 1
  BY Zenon
<1> HIDE DEF Ring, Follows
<1>3. PICK r : r = (k + n - t) % n
  BY Zenon
<1>4. r = (IF k >= t THEN k - t ELSE k + n - t)
  <2>1. k \in 0 .. n - 1
    BY <1>0, <1>2, Zenon
  <2> QED
    BY <1>0, <1>3, <2>1, RingQueued, Zenon
<1>5. r = q + 1
  BY <1>0, <1>1, <1>2, <1>4
<1>6. PICK a : a = t + q
  BY Zenon
<1>7. PICK s : s = a % n
  BY Zenon
<1>8. a \in Int /\ 0 <= a /\ a < 2 * n
  BY <1>0, <1>1, <1>6
<1>9. s = (IF a < n THEN a ELSE a - n)
  BY <1>0, <1>7, <1>8, RingSlot, Zenon
<1>10. s = h
  BY <1>0, <1>1, <1>6, <1>9
<1> QED
  BY <1>2, <1>3, <1>5, <1>6, <1>7, <1>10, Zenon DEF RingPushed

(* One less is queued, and the others are where they were.                 *)
LEMMA RingPop ==
  ASSUME NEW n, NEW h, NEW t, NEW q, Ring(n, h, t, q), q > 0, NEW k, Follows(k, t, n)
  PROVE  RingPopped(n, h, t, q, k)
<1> USE DEF Ring, Follows
<1>1. q = (IF h >= t THEN h - t ELSE h + n - t)
  BY RingQueued, Zenon
<1>2. k = (IF t = n - 1 THEN 0 ELSE t + 1) /\ k \in 0 .. n - 1
  BY RingFollowing, Zenon
<1>0. n \in Nat \ {0} /\ h \in 0 .. n - 1 /\ t \in 0 .. n - 1
  BY Zenon
<1> HIDE DEF Ring, Follows
<1>3. PICK r : r = (h + n - k) % n
  BY Zenon
<1>4. r = (IF h >= k THEN h - k ELSE h + n - k)
  <2>1. k \in 0 .. n - 1
    BY <1>0, <1>2, Zenon
  <2> QED
    BY <1>0, <1>3, <2>1, RingQueued, Zenon
<1>5. r = q - 1
  BY <1>0, <1>1, <1>2, <1>4
<1>6. (t + 1 - 1) % n = t
  <2>1. PICK a : a = t + 1 - 1
    BY Zenon
  <2>2. PICK s : s = a % n
    BY Zenon
  <2>3. a \in Int /\ 0 <= a /\ a < 2 * n /\ a = t
    BY <1>0, <2>1
  <2>4. s = (IF a < n THEN a ELSE a - n)
    BY <1>0, <2>2, <2>3, RingSlot, Zenon
  <2>5. s = t
    BY <1>0, <2>3, <2>4
  <2> QED
    BY <1>0, <2>1, <2>2, <2>5, Zenon
<1>7. ASSUME NEW i \in 1 .. q - 1
      PROVE  (k + i - 1) % n = (t + (i + 1) - 1) % n
  <2>1. PICK a, b : a = k + i - 1 /\ b = t + (i + 1) - 1
    BY Zenon
  <2>2. a \in Int /\ b \in Int /\ 0 <= a /\ a < 2 * n /\ 0 <= b /\ b < 2 * n
    BY <1>0, <1>1, <1>2, <2>1
  <2>3. PICK s, u : s = a % n /\ u = b % n
    BY Zenon
  <2>4. s = (IF a < n THEN a ELSE a - n) /\ u = (IF b < n THEN b ELSE b - n)
    BY <1>0, <2>2, <2>3, RingSlot, Zenon
  <2>5. s = u
    BY <1>0, <1>1, <1>2, <2>1, <2>4
  <2> QED
    BY <1>0, <2>1, <2>3, <2>5, Zenon
<1> QED
  BY <1>2, <1>3, <1>5, <1>6, <1>7, Zenon DEF RingPopped

(* The ring is empty at first.                                             *)
LEMMA RxInit == Rx!Init => Rx!RingInv
<1> SUFFICES ASSUME Rx!Init PROVE Rx!RingInv
  BY Zenon
<1>1. Rx!Queued = 0
  <2>1. PICK h, t : h = v2 /\ t = v3
    BY Zenon
  <2>2. h = 0 /\ t = 0 /\ h \in 0 .. Length - 1 /\ t \in 0 .. Length - 1 /\ Length \in Nat \ {0}
    BY <2>1, RxAssumption DEF Rx!Init
  <2>3. PICK q : q = (h + Length - t) % Length
    BY Zenon
  <2>4. h \in 0 .. Length - 1 /\ t \in 0 .. Length - 1 /\ Length \in Nat \ {0}
    BY <2>2, Zenon
  <2>5. q = (IF h >= t THEN h - t ELSE h + Length - t)
    BY <2>3, <2>4, RingQueued, Zenon
  <2>6. q = 0
    BY <2>2, <2>5
  <2> QED
    BY <2>1, <2>3, <2>6, Zenon DEF Rx!Queued
<1>2. v4 \in BOOLEAN /\ v8 \in BOOLEAN
  BY Zenon DEF Rx!Init
<1>3. Rx!TypeOK
  BY <1>2, RxAssumption DEF Rx!Init, Rx!TypeOK, Rx!Slots
<1>4. Len(v10) = 0 /\ Len(v12) = 0 /\ v5 = "idle" /\ v6 = "pop"
  BY Zenon DEF Rx!Init
<1> QED
  BY <1>1, <1>3, <1>4
  DEF Rx!RingInv, Rx!OutIsFirst, Rx!QueuedIsNext, Rx!PushIsLast, Rx!PopIsFirst, Rx!Pushing

(* What the positions in the ring say of it.                               *)
LEMMA RxRing ==
  ASSUME Rx!TypeOK
  PROVE  /\ Rx!Queued \in 0 .. Length - 1 /\ (Rx!Queued = 0 <=> v2 = v3)
         /\ Rx!Following(v2) # v3 => Rx!Queued < Length - 1
         /\ \A i \in 1 .. Rx!Queued : (v3 + i - 1) % Length \in Rx!Slots /\ (v3 + i - 1) % Length # v2
<1>1. PICK h, t : h = v2 /\ t = v3
  BY Zenon
<1>2. h \in 0 .. Length - 1 /\ t \in 0 .. Length - 1 /\ Length \in Nat \ {0}
  BY <1>1, RxAssumption, Zenon DEF Rx!TypeOK, Rx!Slots
<1>3. PICK q, k : q = (h + Length - t) % Length /\ k = (h + 1) % Length
  BY Zenon
<1>4. q = Rx!Queued /\ k = Rx!Following(v2)
  BY <1>1, <1>3, Zenon DEF Rx!Queued, Rx!Following
<1>5. q \in 0 .. Length - 1 /\ (q = 0 <=> h = t) /\ q = (IF h >= t THEN h - t ELSE h + Length - t)
  <2>1. q = (IF h >= t THEN h - t ELSE h + Length - t)
    BY <1>2, <1>3, RingQueued, Zenon
  <2> QED
    BY <1>2, <2>1
<1>6. k = (IF h = Length - 1 THEN 0 ELSE h + 1)
  BY <1>2, <1>3, RingFollowing, Zenon
<1>7. k # t => q < Length - 1
  BY <1>2, <1>5, <1>6
<1>8. \A i \in 1 .. q : (t + i - 1) % Length \in 0 .. Length - 1 /\ (t + i - 1) % Length # h
  BY <1>2, <1>3, RingPlace, Zenon
<1> QED
  BY <1>1, <1>4, <1>5, <1>7, <1>8, Zenon DEF Rx!Slots

(* Steps that leave the ring and what is in it alone.                      *)
LEMMA RxLocal ==
  ASSUME Rx!RingInv, UNCHANGED <<v1, v2, v3, v9, v10, v12>>, v4' \in BOOLEAN, v8' \in BOOLEAN,
         \/ v5' = v5
         \/ v5 \in {"idle", "handling", "full"} /\ v5' \in {"idle", "handling", "full"},
         v6' \in {"pop", "load", "read", "release", "look", "check", "checkRing", "wait", "asleep"},
         v7' \in 0 .. RxMaxBytes, Rx!PopIsFirst'
  PROVE  Rx!RingInv'
<1>1. Rx!TypeOK'
  BY Zenon DEF Rx!RingInv, Rx!TypeOK
<1>2. Rx!Queued' = Rx!Queued /\ (Rx!Pushing' <=> Rx!Pushing)
  BY Zenon DEF Rx!Queued, Rx!Pushing
<1>3. Rx!OutIsFirst'
  BY <1>2, Zenon DEF Rx!RingInv, Rx!OutIsFirst
<1>4. Rx!QueuedIsNext'
  BY <1>2, Zenon DEF Rx!RingInv, Rx!QueuedIsNext
<1>5. Rx!PushIsLast'
  BY <1>2, Zenon DEF Rx!RingInv, Rx!PushIsLast
<1> QED
  BY <1>1, <1>3, <1>4, <1>5, Zenon DEF Rx!RingInv

(* push takes a byte that fits, or one that doesn't.                       *)
LEMMA RxReceive ==
  ASSUME Rx!RingInv, Rx!Receive
  PROVE  Rx!RingInv'
<1>1. /\ v5 \in {"idle", "handling"} /\ v9 < RxMaxBytes /\ v9' = v9 + 1
      /\ UNCHANGED <<v1, v2, v3, v4, v6, v7, v8, v12>>
  BY Zenon DEF Rx!Receive, Rx!ring
<1>2. Rx!Queued' = Rx!Queued /\ ~ Rx!Pushing
  BY <1>1, Zenon DEF Rx!Queued, Rx!Pushing
<1>3. v9 \in Nat /\ v9' \in 0 .. RxMaxBytes /\ v9' \in 1 .. RxMaxBytes
  BY <1>1, RxAssumption DEF Rx!RingInv, Rx!TypeOK
<1>4. Rx!PopIsFirst'
  BY <1>1, <1>2, Zenon DEF Rx!RingInv, Rx!PopIsFirst
<1>5. CASE Rx!Following(v2) = v3
  <2>1. v5' = "full" /\ v10' = v10
    BY <1>5, Zenon DEF Rx!Receive
  <2>2. ~ Rx!Pushing'
    BY <2>1, Zenon DEF Rx!Pushing
  <2>3. Rx!TypeOK'
    BY <1>1, <1>3, <2>1, Zenon DEF Rx!RingInv, Rx!TypeOK
  <2> QED
    BY <1>1, <1>2, <1>4, <2>1, <2>2, <2>3, Zenon
    DEF Rx!RingInv, Rx!OutIsFirst, Rx!QueuedIsNext, Rx!PushIsLast
<1>6. CASE Rx!Following(v2) # v3
  <2>1. v5' = "store" /\ v10' = Append(v10, v9 + 1)
    BY <1>6, Zenon DEF Rx!Receive
  <2>2. Rx!Pushing'
    BY <2>1, Zenon DEF Rx!Pushing
  <2>3. v10 \in Seq(1 .. RxMaxBytes) /\ Len(v12) \in Nat
    BY DEF Rx!RingInv, Rx!TypeOK
  <2>4. /\ v10' \in Seq(1 .. RxMaxBytes) /\ Len(v10') = Len(v10) + 1 /\ v10'[Len(v10')] = v9'
        /\ \A i \in 1 .. Len(v10) : v10'[i] = v10[i]
    BY <1>1, <1>3, <2>1, <2>3
  <2>5. Rx!TypeOK'
    BY <1>1, <1>3, <2>1, <2>4, Zenon DEF Rx!RingInv, Rx!TypeOK
  <2>6. Rx!Queued \in 0 .. Length - 1 /\ Rx!Queued < Length - 1 /\ Len(v10) = Len(v12) + Rx!Queued
    BY <1>2, <1>6, RxRing DEF Rx!RingInv, Rx!OutIsFirst
  <2>7. Rx!Queued \in Nat /\ Len(v10) \in Nat
    BY <2>3, <2>6
  <2>8. Rx!OutIsFirst'
    BY <1>1, <1>2, <2>2, <2>3, <2>4, <2>6, <2>7 DEF Rx!RingInv, Rx!OutIsFirst
  <2>9. Rx!QueuedIsNext'
    BY <1>1, <1>2, <2>3, <2>4, <2>6, <2>7 DEF Rx!RingInv, Rx!QueuedIsNext
  <2>10. Rx!PushIsLast'
    BY <1>2, <2>1, <2>4, <2>6, Zenon DEF Rx!PushIsLast
  <2> QED
    BY <1>4, <2>5, <2>8, <2>9, <2>10, Zenon DEF Rx!RingInv
<1> QED
  BY <1>5, <1>6, Zenon

(* The byte goes to the head's slot, where no queued one is.               *)
LEMMA RxStore ==
  ASSUME Rx!RingInv, Rx!Store
  PROVE  Rx!RingInv'
<1>1. /\ v5 = "store" /\ v5' = "publish" /\ v1' = [v1 EXCEPT ![v2] = v9]
      /\ UNCHANGED <<v2, v3, v4, v6, v7, v8, v9, v10, v12>>
  BY Zenon DEF Rx!Store
<1>2. Rx!Queued' = Rx!Queued /\ Rx!Pushing /\ Rx!Pushing'
  BY <1>1, Zenon DEF Rx!Queued, Rx!Pushing
<1>3. v1 \in [Rx!Slots -> 0 .. RxMaxBytes] /\ v2 \in Rx!Slots /\ v9 \in 0 .. RxMaxBytes
  BY Zenon DEF Rx!RingInv, Rx!TypeOK
<1>4. v1' \in [Rx!Slots -> 0 .. RxMaxBytes] /\ v1'[v2] = v9 /\ \A s \in Rx!Slots \ {v2} : v1'[s] = v1[s]
  BY <1>1, <1>3, Zenon
<1>5. Rx!TypeOK'
  BY <1>1, <1>4, Zenon DEF Rx!RingInv, Rx!TypeOK
<1>6. /\ Rx!Queued = 0 <=> v2 = v3
      /\ \A i \in 1 .. Rx!Queued : (v3 + i - 1) % Length \in Rx!Slots /\ (v3 + i - 1) % Length # v2
  BY RxRing, Zenon DEF Rx!RingInv
<1>7. Rx!OutIsFirst' /\ Rx!PushIsLast'
  BY <1>1, <1>2, <1>4, Zenon DEF Rx!RingInv, Rx!OutIsFirst, Rx!PushIsLast
<1>8. Rx!QueuedIsNext'
  BY <1>1, <1>2, <1>4, <1>6, Zenon DEF Rx!RingInv, Rx!QueuedIsNext
<1>9. Rx!PopIsFirst'
  <2>1. v6 = "release" => v3 \in Rx!Slots \ {v2}
    BY <1>6, RxRing DEF Rx!RingInv, Rx!TypeOK, Rx!PopIsFirst
  <2> QED
    BY <1>1, <1>2, <1>4, <2>1, Zenon DEF Rx!RingInv, Rx!PopIsFirst
<1> QED
  BY <1>5, <1>7, <1>8, <1>9, Zenon DEF Rx!RingInv

(* Publishing the head queues the byte after the others.                   *)
LEMMA RxPublish ==
  ASSUME Rx!RingInv, Rx!Publish
  PROVE  Rx!RingInv'
<1>1. /\ v5 = "publish" /\ v5' = "handling" /\ v2' = Rx!Following(v2)
      /\ UNCHANGED <<v1, v3, v4, v6, v7, v8, v9, v10, v12>>
  BY Zenon DEF Rx!Publish
<1>2. Rx!Pushing /\ ~ Rx!Pushing'
  BY <1>1, Zenon DEF Rx!Pushing
<1>3. PICK h, t, k, q : h = v2 /\ t = v3 /\ k = Rx!Following(v2) /\ q = Rx!Queued
  BY Zenon
<1>4. /\ h \in 0 .. Length - 1 /\ t \in 0 .. Length - 1 /\ Length \in Nat \ {0} /\ k = (h + 1) % Length
      /\ q = (h + Length - t) % Length /\ q < Length - 1 /\ q \in Nat
  <2>1. q \in 0 .. Length - 1
    BY <1>3, RxRing, Zenon DEF Rx!RingInv
  <2> QED
    BY <1>2, <1>3, <2>1, RxAssumption
    DEF Rx!RingInv, Rx!TypeOK, Rx!Slots, Rx!Following, Rx!Queued, Rx!PushIsLast
<1>5. k \in 0 .. Length - 1 /\ (k + Length - t) % Length = q + 1 /\ (t + q) % Length = h
  <2>1. Ring(Length, h, t, q)
    BY <1>4, Zenon DEF Ring
  <2> QED
    <3>1. q < Length - 1 /\ Follows(k, h, Length)
      BY <1>4, Zenon DEF Follows
    <3>2. RingPushed(Length, h, t, q, k)
      BY <2>1, <3>1, RingPush, Zenon
    <3> QED
      BY <3>2, Zenon DEF RingPushed
<1>6. Rx!Queued' = q + 1 /\ v2' \in Rx!Slots
  BY <1>1, <1>3, <1>5, Zenon DEF Rx!Queued, Rx!Slots
<1>7. Rx!TypeOK'
  BY <1>1, <1>6, Zenon DEF Rx!RingInv, Rx!TypeOK
<1>8. Len(v10) = Len(v12) + q + 1 /\ Len(v12) \in Nat /\ v10[Len(v10)] = v1[v2]
  BY <1>1, <1>2, <1>3 DEF Rx!RingInv, Rx!TypeOK, Rx!OutIsFirst, Rx!PushIsLast
<1>9. Rx!OutIsFirst'
  BY <1>1, <1>2, <1>4, <1>6, <1>8 DEF Rx!RingInv, Rx!OutIsFirst
<1>10. Rx!QueuedIsNext'
  <2>1. ASSUME NEW i \in 1 .. q + 1
        PROVE  v1[(t + i - 1) % Length] = v10[Len(v12) + i]
    <3>1. CASE i = q + 1
      <4>1. t + i - 1 = t + q /\ Len(v10) = Len(v12) + i
        BY <1>4, <1>8, <3>1
      <4> QED
        BY <1>3, <1>5, <1>8, <4>1, Zenon
    <3>2. CASE i # q + 1
      <4>1. i \in 1 .. q
        BY <1>4, <3>2
      <4> QED
        BY <1>3, <4>1, Zenon DEF Rx!RingInv, Rx!QueuedIsNext
    <3> QED
      BY <3>1, <3>2, Zenon
  <2> QED
    BY <1>1, <1>3, <1>6, <2>1, Zenon DEF Rx!QueuedIsNext
<1>11. Rx!PushIsLast' /\ Rx!PopIsFirst'
  BY <1>1, <1>2, <1>3, <1>4, <1>6 DEF Rx!RingInv, Rx!PushIsLast, Rx!PopIsFirst
<1> QED
  BY <1>7, <1>9, <1>10, <1>11, Zenon DEF Rx!RingInv

(* Releasing the tail's slot returns the first byte that is queued.        *)
LEMMA RxRelease ==
  ASSUME Rx!RingInv, Rx!Release
  PROVE  Rx!RingInv'
<1>1. /\ v6 = "release" /\ v6' = "pop" /\ v3' = Rx!Following(v3) /\ v12' = Append(v12, v7) /\ v7' = 0
      /\ UNCHANGED <<v1, v2, v4, v5, v8, v9, v10>>
  BY Zenon DEF Rx!Release
<1>2. Rx!Pushing' <=> Rx!Pushing
  BY <1>1, Zenon DEF Rx!Pushing
<1>3. PICK h, t, k, q : h = v2 /\ t = v3 /\ k = Rx!Following(v3) /\ q = Rx!Queued
  BY Zenon
<1>4. /\ h \in 0 .. Length - 1 /\ t \in 0 .. Length - 1 /\ Length \in Nat \ {0} /\ k = (t + 1) % Length
      /\ q = (h + Length - t) % Length /\ q > 0 /\ q \in Nat /\ q <= Length - 1
  <2>1. q \in 0 .. Length - 1
    BY <1>3, RxRing, Zenon DEF Rx!RingInv
  <2> QED
    BY <1>1, <1>3, <2>1, RxAssumption
    DEF Rx!RingInv, Rx!TypeOK, Rx!Slots, Rx!Following, Rx!Queued, Rx!PopIsFirst
<1>5. /\ k \in 0 .. Length - 1 /\ (h + Length - k) % Length = q - 1 /\ (t + 1 - 1) % Length = t
      /\ \A i \in 1 .. q - 1 : (k + i - 1) % Length = (t + (i + 1) - 1) % Length
  <2>1. Ring(Length, h, t, q)
    BY <1>4, Zenon DEF Ring
  <2> QED
    <3>1. q > 0 /\ Follows(k, t, Length)
      BY <1>4, Zenon DEF Follows
    <3>2. RingPopped(Length, h, t, q, k)
      BY <2>1, <3>1, RingPop, Zenon
    <3> QED
      BY <3>2, Zenon DEF RingPopped
<1>6. Rx!Queued' = q - 1 /\ v3' \in Rx!Slots
  BY <1>1, <1>3, <1>5, Zenon DEF Rx!Queued, Rx!Slots
<1>7. /\ Len(v10) = Len(v12) + q + (IF Rx!Pushing THEN 1 ELSE 0) /\ Len(v12) \in Nat /\ v12 \in Seq(1 .. RxMaxBytes)
      /\ v10 \in Seq(1 .. RxMaxBytes)
  BY <1>3 DEF Rx!RingInv, Rx!TypeOK, Rx!OutIsFirst
<1>8. v7 = v10[Len(v12) + 1] /\ v7 \in 1 .. RxMaxBytes
  <2>1. v7 = v1[t]
    BY <1>1, <1>3, Zenon DEF Rx!RingInv, Rx!PopIsFirst
  <2>2. v1[(t + 1 - 1) % Length] = v10[Len(v12) + 1]
    BY <1>3, <1>4 DEF Rx!RingInv, Rx!QueuedIsNext
  <2>3. Len(v12) + 1 \in 1 .. Len(v10)
    BY <1>4, <1>7
  <2> QED
    <3>1. PICK f, j, set : f = v10 /\ j = Len(v12) + 1 /\ set = 1 .. RxMaxBytes
      BY Zenon
    <3>2. f \in Seq(set) /\ j \in 1 .. Len(f)
      BY <1>7, <2>3, <3>1, Zenon
    <3>3. f[j] \in set
      BY <3>2
    <3> QED
      BY <1>5, <2>1, <2>2, <3>1, <3>3, Zenon
<1>9. /\ v12' \in Seq(1 .. RxMaxBytes) /\ Len(v12') = Len(v12) + 1 /\ v12'[Len(v12) + 1] = v7
      /\ \A i \in 1 .. Len(v12) : v12'[i] = v12[i]
  BY <1>1, <1>7, <1>8
<1>10. Rx!TypeOK'
  BY <1>1, <1>6, <1>9, RxAssumption DEF Rx!RingInv, Rx!TypeOK
<1>11. Rx!OutIsFirst'
  <2>1. Len(v10) = Len(v12') + (q - 1) + (IF Rx!Pushing THEN 1 ELSE 0)
    BY <1>4, <1>7, <1>9
  <2>2. \A i \in 1 .. Len(v12') : v12'[i] = v10[i]
    BY <1>7, <1>8, <1>9 DEF Rx!RingInv, Rx!OutIsFirst
  <2> QED
    BY <1>1, <1>2, <1>6, <2>1, <2>2, Zenon DEF Rx!OutIsFirst
<1>12. Rx!QueuedIsNext'
  <2>1. ASSUME NEW i \in 1 .. q - 1
        PROVE  v1[(k + i - 1) % Length] = v10[Len(v12') + i]
    <3>1. i + 1 \in 1 .. q /\ Len(v12') + i = Len(v12) + (i + 1)
      BY <1>4, <1>7, <1>9
    <3>2. v1[(t + (i + 1) - 1) % Length] = v10[Len(v12) + (i + 1)]
      BY <1>3, <3>1, Zenon DEF Rx!RingInv, Rx!QueuedIsNext
    <3> QED
      BY <1>5, <3>1, <3>2, Zenon
  <2> QED
    BY <1>1, <1>3, <1>6, <2>1, Zenon DEF Rx!QueuedIsNext
<1>13. Rx!PushIsLast' /\ Rx!PopIsFirst'
  BY <1>1, <1>2, <1>3, <1>4, <1>6 DEF Rx!RingInv, Rx!PushIsLast, Rx!PopIsFirst
<1> QED
  BY <1>10, <1>11, <1>12, <1>13, Zenon DEF Rx!RingInv

(* Every step of the component keeps its invariant.                        *)
LEMMA RxNext ==
  ASSUME Rx!RingInv, [Rx!Next]_(Rx!vars)
  PROVE  Rx!RingInv'
<1>1. /\ v4 \in BOOLEAN /\ v8 \in BOOLEAN /\ v7 \in 0 .. RxMaxBytes
      /\ v6 \in {"pop", "load", "read", "release", "look", "check", "checkRing", "wait", "asleep"}
      /\ v1 \in [Rx!Slots -> 0 .. RxMaxBytes] /\ v3 \in Rx!Slots /\ Rx!PopIsFirst
  BY Zenon DEF Rx!RingInv, Rx!TypeOK
<1>2. TRUE \in BOOLEAN /\ FALSE \in BOOLEAN
  BY Zenon
<1>3. CASE Rx!Overflow
  <2>1. /\ v5 = "full" /\ v5' = "handling" /\ v4' = TRUE /\ UNCHANGED <<v1, v2, v3, v6, v7, v8, v9, v10, v12>>
    BY <1>3, Zenon DEF Rx!Overflow
  <2>2. Rx!PopIsFirst'
    BY <1>1, <2>1, Zenon DEF Rx!PopIsFirst, Rx!Queued
  <2> QED
    BY <1>1, <1>2, <2>1, <2>2, RxLocal, Zenon
<1>4. CASE Rx!Notify
  <2>1. /\ v5 = "handling" /\ v5' = "idle" /\ v8' = TRUE /\ v6' = (IF v6 = "asleep" THEN "look" ELSE v6)
        /\ UNCHANGED <<v1, v2, v3, v4, v7, v9, v10, v12>>
    BY <1>4, Zenon DEF Rx!Notify, Rx!ring
  <2>2. Rx!PopIsFirst'
    BY <1>1, <2>1, Zenon DEF Rx!PopIsFirst, Rx!Queued
  <2> QED
    BY <1>1, <1>2, <2>1, <2>2, RxLocal, Zenon
<1>5. CASE Rx!Swap
  <2>1. /\ v4' = FALSE /\ v6' \in {"pop", "load"} /\ UNCHANGED <<v1, v2, v3, v5, v7, v8, v9, v10, v12>>
    BY <1>5, Zenon DEF Rx!Swap
  <2>2. Rx!PopIsFirst'
    BY <2>1, Zenon DEF Rx!PopIsFirst
  <2> QED
    BY <1>1, <1>2, <2>1, <2>2, RxLocal, Zenon
<1>6. CASE Rx!Load
  <2>1. /\ v6' = (IF v3 = v2 THEN "look" ELSE "read") /\ UNCHANGED <<v1, v2, v3, v4, v5, v7, v8, v9, v10, v12>>
    BY <1>6, Zenon DEF Rx!Load, Rx!ring
  <2>2. Rx!Queued' = Rx!Queued /\ Rx!Queued \in 0 .. Length - 1 /\ (Rx!Queued = 0 <=> v2 = v3)
    BY <2>1, RxRing, Zenon DEF Rx!RingInv, Rx!Queued
  <2>3. Rx!PopIsFirst'
    BY <2>1, <2>2 DEF Rx!PopIsFirst
  <2> QED
    BY <1>1, <2>1, <2>3, RxLocal, Zenon
<1>7. CASE Rx!ReadEntry
  <2>1. /\ v6 = "read" /\ v6' = "release" /\ v7' = v1[v3] /\ UNCHANGED <<v1, v2, v3, v4, v5, v8, v9, v10, v12>>
    BY <1>7, Zenon DEF Rx!ReadEntry, Rx!ring
  <2>2. Rx!PopIsFirst'
    BY <1>1, <2>1, Zenon DEF Rx!PopIsFirst, Rx!Queued
  <2>3. v7' \in 0 .. RxMaxBytes
    BY <1>1, <2>1, Zenon
  <2> QED
    BY <1>1, <2>1, <2>2, <2>3, RxLocal, Zenon
<1>8. CASE Rx!Look \/ Rx!Check \/ Rx!CheckRing \/ Rx!Wait
  <2>1. /\ v6' \in {"look", "check", "pop", "checkRing", "wait", "asleep"} /\ (v8' = FALSE \/ v8' = v8)
        /\ UNCHANGED <<v1, v2, v3, v4, v5, v7, v9, v10, v12>>
    BY <1>8, Zenon DEF Rx!Look, Rx!Check, Rx!CheckRing, Rx!Wait, Rx!ring
  <2>2. Rx!PopIsFirst'
    BY <2>1, Zenon DEF Rx!PopIsFirst
  <2>3. v8' \in BOOLEAN
    BY <1>1, <2>1, Zenon
  <2> QED
    BY <1>1, <2>1, <2>2, <2>3, RxLocal, Zenon
<1>9. CASE UNCHANGED Rx!vars
  <2>1. UNCHANGED <<v1, v2, v3, v4, v5, v6, v7, v8, v9, v10, v12>>
    BY <1>9, Zenon DEF Rx!vars, Rx!ring
  <2>2. Rx!PopIsFirst'
    BY <1>1, <2>1, Zenon DEF Rx!PopIsFirst, Rx!Queued
  <2> QED
    BY <1>1, <2>1, <2>2, RxLocal, Zenon
<1> QED
  BY <1>3, <1>4, <1>5, <1>6, <1>7, <1>8, <1>9, RxReceive, RxStore, RxPublish, RxRelease, Zenon
  DEF Rx!Next, Rx!Handler, Rx!Task

(* Where the elements of a concatenation are.                              *)
LEMMA ConcatFacts ==
  ASSUME NEW S, NEW a \in Seq(S), NEW b \in Seq(S), NEW n, n = Len(b), NEW c, c = a \o b
  PROVE  /\ c \in Seq(S) /\ Len(c) = Len(a) + n
         /\ \A i \in 1 .. Len(a) : c[i] = a[i]
         /\ \A i \in 1 .. n : c[Len(a) + i] = b[i]
OBVIOUS

(* What was returned, followed by what is queued, is what fit and whose    *)
(* push is over.                                                           *)
LEMMA RxOrder == Rx!RingInv => Rx!TypeOK /\ Rx!BytesInOrder
<1> SUFFICES ASSUME Rx!RingInv PROVE Rx!TypeOK /\ Rx!BytesInOrder
  BY Zenon
<1>1. PICK o, f, q, t, set, e : o = v12 /\ f = v10 /\ q = Rx!Queued /\ t = v3 /\ set = 0 .. RxMaxBytes /\ e = v1
  BY Zenon
<1>2. /\ o \in Seq(set) /\ f \in Seq(set) /\ q \in Nat
      /\ Len(f) = Len(o) + q + (IF Rx!Pushing THEN 1 ELSE 0)
      /\ \A i \in 1 .. Len(o) : o[i] = f[i]
      /\ \A i \in 1 .. q : e[(t + i - 1) % Length] = f[Len(o) + i]
  <2>1. q \in 0 .. Length - 1
    BY <1>1, RxRing, Zenon DEF Rx!RingInv
  <2>2. o \in Seq(set) /\ f \in Seq(set)
    BY <1>1, RxAssumption DEF Rx!RingInv, Rx!TypeOK
  <2>3. q \in Nat
    BY <2>1, RxAssumption
  <2>4. Len(f) = Len(o) + q + (IF Rx!Pushing THEN 1 ELSE 0) /\ \A i \in 1 .. Len(o) : o[i] = f[i]
    BY <1>1, Zenon DEF Rx!RingInv, Rx!OutIsFirst
  <2>5. \A i \in 1 .. q : e[(t + i - 1) % Length] = f[Len(o) + i]
    BY <1>1, Zenon DEF Rx!RingInv, Rx!QueuedIsNext
  <2> QED
    BY <2>2, <2>3, <2>4, <2>5, Zenon
<1>3. PICK r : r = [i \in 1 .. q |-> e[(t + i - 1) % Length]]
  BY Zenon
<1>4. r = Rx!InRing
  BY <1>1, <1>3, Zenon DEF Rx!InRing
<1>5. \A i \in 1 .. q : r[i] = f[Len(o) + i] /\ f[Len(o) + i] \in set
  <2>1. \A i \in 1 .. q : Len(o) + i \in 1 .. Len(f)
    BY <1>2
  <2> QED
    BY <1>2, <1>3, <2>1
<1>6. r \in Seq(set) /\ Len(r) = q
  BY <1>2, <1>3, <1>5
<1>7. PICK w : w = o \o r
  BY Zenon
<1>8. /\ w \in Seq(set) /\ Len(w) = Len(o) + q
      /\ \A i \in 1 .. Len(o) : w[i] = o[i]
      /\ \A i \in 1 .. q : w[Len(o) + i] = r[i]
  <2>1. q = Len(r) /\ w = o \o r
    BY <1>6, <1>7, Zenon
  <2>2. o \in Seq(set) /\ r \in Seq(set)
    BY <1>2, <1>6, Zenon
  <2> QED
    BY <2>1, <2>2, ConcatFacts
<1>9. ASSUME NEW i \in 1 .. Len(w)
      PROVE  w[i] = f[i]
  <2>1. CASE i \in 1 .. Len(o)
    BY <1>2, <1>8, <2>1, Zenon
  <2>2. CASE i \notin 1 .. Len(o)
    <3>1. PICK j : j = i - Len(o)
      BY Zenon
    <3>2. j \in 1 .. q /\ i = Len(o) + j
      BY <1>2, <1>8, <2>2, <3>1
    <3> QED
      BY <1>5, <1>8, <3>2, Zenon
  <2> QED
    BY <2>1, <2>2, Zenon
<1>10. PICK g : g = IF Rx!Pushing THEN SubSeq(f, 1, Len(f) - 1) ELSE f
  BY Zenon
<1>11. g = Rx!Accepted
  BY <1>1, <1>10, Zenon DEF Rx!Accepted, Rx!Pushing
<1>12. g \in Seq(set) /\ Len(g) = Len(w) /\ \A i \in 1 .. Len(w) : g[i] = f[i]
  BY <1>2, <1>8, <1>10
<1>13. w = g
  BY <1>8, <1>9, <1>12
<1> QED
  BY <1>1, <1>4, <1>7, <1>11, <1>13, Zenon DEF Rx!RingInv, Rx!BytesInOrder

(* The bytes that fit in the ring come out once and in order, however long *)
(* it is and however the handler and the link task take turns (uart.rs:    *)
(* RxQueue).                                                               *)
THEOREM ReceivedInOrderAlways == Rx!Spec => []ReceivedInOrder
<1>1. Rx!Init => Rx!RingInv
  BY RxInit, Zenon
<1>2. Rx!RingInv /\ [Rx!Next]_(Rx!vars) => Rx!RingInv'
  BY RxNext, Zenon
<1>3. Rx!RingInv => ReceivedInOrder
  BY RxOrder, Zenon DEF ReceivedInOrder
<1> QED
  BY <1>1, <1>2, <1>3, PTL DEF Rx!Spec
-----------------------------------------------------------------------------
(* Requests of the Uno (Session).                                          *)

(* A queue loses its first element, or gets another at its end.            *)
IsTail(s, t, set) ==
  /\ t \in Seq(set) /\ Len(s) \in Nat /\ Len(t) = Len(s) - 1 /\ 1 \in DOMAIN s /\ s[1] \in set
  /\ \A i \in DOMAIN t : i \in Nat /\ i > 0 /\ i + 1 \in DOMAIN s /\ t[i] = s[i + 1]
  /\ \A i \in DOMAIN s : i \in Nat /\ (i = 1 \/ (i - 1 \in DOMAIN t /\ t[i - 1] = s[i]))
IsLonger(s, t, e, set) ==
  /\ t \in Seq(set) /\ Len(s) \in Nat /\ Len(t) = Len(s) + 1 /\ Len(t) \in DOMAIN t /\ t[Len(t)] = e
  /\ \A i \in DOMAIN t : i \in Nat /\ (i = Len(t) \/ (i \in DOMAIN s /\ t[i] = s[i] /\ i < Len(t)))
  /\ \A i \in DOMAIN s : i \in DOMAIN t /\ t[i] = s[i]

(* The rest of a queue is its tail.                                        *)
LEMMA TailFacts ==
  ASSUME NEW set, NEW s \in Seq(set), s # <<>>, NEW t, t = Tail(s)
  PROVE  IsTail(s, t, set) /\ Head(s) = s[1]
<1>1. /\ t \in Seq(set) /\ Len(s) \in Nat /\ Len(t) = Len(s) - 1 /\ 1 \in DOMAIN s /\ s[1] \in set /\ Head(s) = s[1]
      /\ DOMAIN s = 1 .. Len(s) /\ DOMAIN t = 1 .. Len(t)
  OBVIOUS
<1>2. \A i \in 1 .. Len(t) : t[i] = s[i + 1]
  BY <1>1
<1>3. ASSUME NEW i \in DOMAIN s
      PROVE  i \in Nat /\ (i = 1 \/ (i - 1 \in DOMAIN t /\ t[i - 1] = s[i]))
  <2>1. i \in Nat /\ (i = 1 \/ i - 1 \in 1 .. Len(t)) /\ i - 1 + 1 = i
    BY <1>1
  <2> QED
    BY <1>1, <1>2, <2>1, Zenon
<1>4. \A i \in DOMAIN t : i \in Nat /\ i > 0 /\ i + 1 \in DOMAIN s
  BY <1>1
<1> QED
  BY <1>1, <1>2, <1>3, <1>4, Zenon DEF IsTail

(* A queue with another element is longer by it.                           *)
LEMMA AppendFacts ==
  ASSUME NEW set, NEW s \in Seq(set), NEW e \in set, NEW t, t = Append(s, e)
  PROVE  IsLonger(s, t, e, set)
<1>1. /\ t \in Seq(set) /\ Len(s) \in Nat /\ Len(t) = Len(s) + 1 /\ t[Len(t)] = e
      /\ DOMAIN s = 1 .. Len(s) /\ DOMAIN t = 1 .. Len(t)
  OBVIOUS
<1>2. \A i \in 1 .. Len(s) : t[i] = s[i]
  OBVIOUS
<1>3. \A i \in DOMAIN t : i \in Nat /\ (i = Len(t) \/ (i \in DOMAIN s /\ i < Len(t)))
  BY <1>1
<1>4. Len(t) \in DOMAIN t /\ \A i \in DOMAIN s : i \in DOMAIN t
  BY <1>1
<1> QED
  BY <1>1, <1>2, <1>3, <1>4, Zenon DEF IsLonger

(* The order of frames is one.                                             *)
LEMMA LeqTrans ==
  ASSUME NEW a \in Session!Positions, NEW b \in Session!Positions, NEW c \in Session!Positions, Session!Leq(a, b), Session!Leq(b, c)
  PROVE  Session!Leq(a, c)
BY DEF Session!Positions, Session!Leq

(* Where frames are, they have positions.                                  *)
LEMMA SessionKnown ==
  ASSUME Session!SessionTypes
  PROVE  /\ Session!Me \in Session!Positions /\ Session!Me.boot = v1.boot /\ Session!Me.seq = v1.seq
         /\ \A i \in DOMAIN v2 : v2[i] \in Session!Frames /\ v2[i].request \in Session!Positions
         /\ \A i \in DOMAIN v6 : v6[i] \in Session!Frames /\ v6[i].request \in Session!Positions
         /\ v4.frame.request \in Session!Positions /\ v7.frame.request \in Session!Positions
<1>1. Session!Me \in Session!Positions /\ Session!Me.boot = v1.boot /\ Session!Me.seq = v1.seq
  BY DEF Session!SessionTypes, Session!UnoTypes, Session!Me, Session!Request, Session!Positions
<1>2. \A f \in Session!Frames : f.request \in Session!Positions
  BY DEF Session!Frames, Session!Requests, Session!Positions
<1>3. PICK s, q, set : s = v2 /\ q = v6 /\ set = Session!Frames
  BY Zenon
<1>4. s \in Seq(set) /\ q \in Seq(set)
  BY <1>3, Zenon DEF Session!SessionTypes, Session!LineTypes, Session!InboxTypes
<1>5. (\A i \in DOMAIN s : s[i] \in set) /\ (\A i \in DOMAIN q : q[i] \in set)
  BY <1>4
<1>6. v4.frame \in Session!Frames /\ v7.frame \in Session!Frames
  BY Zenon DEF Session!SessionTypes, Session!LinkTypes, Session!ShellTypes
<1> QED
  BY <1>1, <1>2, <1>3, <1>5, <1>6, Zenon

(* What came before everything still does.                                 *)
Onward ==
  /\ Session!BeforeLine \subseteq Session!BeforeLine' /\ Session!BeforeLink \subseteq Session!BeforeLink'
  /\ Session!BeforeInbox \subseteq Session!BeforeInbox' /\ Session!BeforeShell \subseteq Session!BeforeShell'

(* It does so from the shell's end on if it does at the link task's.       *)
LEMMA OnwardFromLink ==
  ASSUME Session!BeforeLine \subseteq Session!BeforeLine', Session!BeforeLink \subseteq Session!BeforeLink', UNCHANGED <<v6, v7>>
  PROVE  Onward
<1>1. Session!BeforeInbox \subseteq Session!BeforeInbox'
  BY Zenon DEF Session!BeforeInbox
<1>2. Session!BeforeShell \subseteq Session!BeforeShell'
  BY <1>1, Zenon DEF Session!BeforeShell, Session!Taken
<1> QED
  BY <1>1, <1>2, Zenon DEF Onward

(* The link task reads a frame, and takes it or not.                       *)
LEMMA OrderRead ==
  ASSUME Session!SessionTypes, Session!InOrder, UNCHANGED <<v1, v6, v7>>, v4.pc = "reading", IsTail(v2, v2', Session!Frames),
         v4' = v4 \/ (v4'.pc \in {"hello", "deliver"} /\ v4'.frame = v2[1])
  PROVE  Onward /\ Session!InOrder'
<1>1. Session!Me' = Session!Me /\ ~ Session!Linked
  BY Zenon DEF Session!Me, Session!Linked
<1>2. \A i \in DOMAIN v2' : i \in Nat /\ i + 1 \in DOMAIN v2 /\ 1 < i + 1 /\ v2'[i] = v2[i + 1]
  BY DEF IsTail
<1>3. 1 \in DOMAIN v2
  BY Zenon DEF IsTail
<1>4. Session!BeforeLine \subseteq Session!BeforeLine'
  BY <1>1, <1>2, Zenon DEF Session!BeforeLine
<1>5. Session!Linked' => v4'.frame = v2[1]
  BY <1>1, Zenon DEF Session!Linked
<1>6. Session!BeforeLink \subseteq Session!BeforeLink'
  <2>1. \A r \in Session!BeforeLink : r \in Session!BeforeLine /\ Session!Leq(r, v2[1].request)
    BY <1>3, Zenon DEF Session!BeforeLink, Session!BeforeLine
  <2> QED
    BY <1>4, <1>5, <2>1, Zenon DEF Session!BeforeLink
<1>7. Onward
  BY <1>4, <1>6, OnwardFromLink, Zenon
<1>8. \A i, j \in DOMAIN v2' : i < j => Session!Leq(v2'[i].request, v2'[j].request)
  <2>1. \A i, j \in DOMAIN v2' : i < j => i + 1 < j + 1
    BY <1>2
  <2> QED
    BY <1>2, <2>1, Zenon DEF Session!InOrder
<1>9. \A i \in DOMAIN v2' : Session!Leq(v2'[i].request, Session!Me)
  BY <1>2, Zenon DEF Session!InOrder
<1>10. Session!Linked' => v4'.frame.request \in Session!BeforeLine'
  <2>1. v2[1].request \in Session!Positions /\ Session!Leq(v2[1].request, Session!Me)
    BY <1>3, SessionKnown, Zenon DEF Session!InOrder
  <2>2. \A i \in DOMAIN v2' : Session!Leq(v2[1].request, v2'[i].request)
    BY <1>2, <1>3, Zenon DEF Session!InOrder
  <2> QED
    BY <1>1, <1>5, <2>1, <2>2, Zenon DEF Session!BeforeLine
<1>11. /\ \A i \in DOMAIN v6' : v6'[i].kind # "other" => v6'[i].request \in Session!BeforeLink'
       /\ Session!Taken' => v7'.frame.request \in Session!BeforeInbox'
  BY <1>7, Zenon DEF Session!InOrder, Session!Taken, Onward
<1> QED
  BY <1>1, <1>7, <1>8, <1>9, <1>10, <1>11, Zenon DEF Session!InOrder

(* A frame gets into the inbox, from the link task or from elsewhere.      *)
LEMMA OrderDeliver ==
  ASSUME Session!SessionTypes, Session!InOrder, UNCHANGED <<v1, v2, v7>>, NEW f \in Session!Frames, IsLonger(v6, v6', f, Session!Frames),
         f.kind # "other" => Session!Linked /\ f = v4.frame,
         v4' = v4 \/ ~ Session!Linked',
         f.kind # "other" => ~ Session!Linked'
  PROVE  Onward /\ Session!InOrder'
<1>1. Session!Me' = Session!Me /\ (Session!Linked' => Session!Linked /\ v4' = v4)
  BY Zenon DEF Session!Me, Session!Linked
<1>2. Session!BeforeLine' = Session!BeforeLine
  BY <1>1, Zenon DEF Session!BeforeLine
<1>3. Session!BeforeLink \subseteq Session!BeforeLink'
  BY <1>1, <1>2, Zenon DEF Session!BeforeLink
<1>4. \A i \in DOMAIN v6' : i = Len(v6') \/ (i \in DOMAIN v6 /\ v6'[i] = v6[i] /\ i < Len(v6'))
  BY Zenon DEF IsLonger
<1>5. v6'[Len(v6')] = f /\ \A i \in DOMAIN v6' : i \in Nat
  BY Zenon DEF IsLonger
<1>6. Session!BeforeInbox \subseteq Session!BeforeInbox'
  <2>1. \A r \in Session!BeforeInbox : f.kind # "other" => Session!Leq(r, f.request)
    BY Zenon DEF Session!BeforeInbox, Session!BeforeLink
  <2>2. ASSUME NEW r \in Session!BeforeInbox, NEW i \in DOMAIN v6', v6'[i].kind # "other"
        PROVE  Session!Leq(r, v6'[i].request)
    BY <1>4, <1>5, <2>1, <2>2, Zenon DEF Session!BeforeInbox
  <2>3. \A r \in Session!BeforeInbox : r \in Session!BeforeLink
    BY Zenon DEF Session!BeforeInbox
  <2> QED
    BY <1>3, <2>2, <2>3, Zenon DEF Session!BeforeInbox
<1>7. Session!BeforeShell \subseteq Session!BeforeShell'
  BY <1>6, Zenon DEF Session!BeforeShell, Session!Taken
<1>8. Onward
  BY <1>2, <1>3, <1>6, <1>7, Zenon DEF Onward
<1>9. ASSUME NEW i \in DOMAIN v6', v6'[i].kind # "other"
      PROVE  v6'[i].request \in Session!BeforeLink'
  <2>1. CASE i = Len(v6')
    <3>1. v4.frame.request \in Session!BeforeLine /\ ~ Session!Linked' /\ v6'[i] = v4.frame
      BY <1>5, <1>9, <2>1, Zenon DEF Session!InOrder
    <3> QED
      BY <1>2, <3>1, Zenon DEF Session!BeforeLink
  <2>2. CASE i # Len(v6')
    BY <1>3, <1>4, <1>9, <2>2, Zenon DEF Session!InOrder
  <2> QED
    BY <2>1, <2>2, Zenon
<1>10. ASSUME NEW i \in DOMAIN v6', NEW j \in DOMAIN v6', i < j, v6'[i].kind # "other", v6'[j].kind # "other"
       PROVE  Session!Leq(v6'[i].request, v6'[j].request)
  <2>1. i \in DOMAIN v6 /\ v6'[i] = v6[i]
    BY <1>4, <1>5, <1>10
  <2>2. CASE j = Len(v6')
    <3>1. v6[i].request \in Session!BeforeLink /\ Session!Linked /\ v6'[j] = v4.frame
      BY <1>5, <1>10, <2>1, <2>2, Zenon DEF Session!InOrder
    <3> QED
      BY <2>1, <3>1, Zenon DEF Session!BeforeLink
  <2>3. CASE j # Len(v6')
    <3>1. j \in DOMAIN v6 /\ v6'[j] = v6[j]
      BY <1>4, <2>3, Zenon
    <3> QED
      BY <1>10, <2>1, <3>1, Zenon DEF Session!InOrder
  <2> QED
    BY <2>2, <2>3, Zenon
<1>11. Session!Linked' => v4'.frame.request \in Session!BeforeLine'
  BY <1>1, <1>2, Zenon DEF Session!InOrder
<1>12. Session!Taken' => v7'.frame.request \in Session!BeforeInbox'
  BY <1>6, Zenon DEF Session!InOrder, Session!Taken
<1> QED
  BY <1>1, <1>8, <1>9, <1>10, <1>11, <1>12, Zenon DEF Session!InOrder

(* The shell task takes the oldest frame of the inbox.                     *)
LEMMA OrderTake ==
  ASSUME Session!SessionTypes, Session!InOrder, UNCHANGED <<v1, v2, v4>>, IsTail(v6, v6', Session!Frames), ~ Session!Taken,
         v7'.frame = v6[1], Session!Taken' => v6[1].kind # "other"
  PROVE  Onward /\ Session!InOrder'
<1>1. Session!Me' = Session!Me /\ (Session!Linked' <=> Session!Linked)
  BY Zenon DEF Session!Me, Session!Linked
<1>2. Session!BeforeLine' = Session!BeforeLine
  BY <1>1, Zenon DEF Session!BeforeLine
<1>3. Session!BeforeLink' = Session!BeforeLink
  BY <1>1, <1>2, Zenon DEF Session!BeforeLink
<1>4. \A i \in DOMAIN v6' : i \in Nat /\ i + 1 \in DOMAIN v6 /\ 1 < i + 1 /\ v6'[i] = v6[i + 1]
  BY DEF IsTail
<1>5. 1 \in DOMAIN v6
  BY Zenon DEF IsTail
<1>6. Session!BeforeInbox \subseteq Session!BeforeInbox'
  BY <1>3, <1>4, Zenon DEF Session!BeforeInbox
<1>7. Session!BeforeShell \subseteq Session!BeforeShell'
  <2>1. \A r \in Session!BeforeShell : r \in Session!BeforeInbox /\ (v6[1].kind # "other" => Session!Leq(r, v6[1].request))
    BY <1>5, Zenon DEF Session!BeforeShell, Session!BeforeInbox
  <2> QED
    BY <1>6, <2>1, Zenon DEF Session!BeforeShell
<1>8. Onward
  BY <1>2, <1>3, <1>6, <1>7, Zenon DEF Onward
<1>9. \A i \in DOMAIN v6' : v6'[i].kind # "other" => v6'[i].request \in Session!BeforeLink'
  BY <1>3, <1>4, Zenon DEF Session!InOrder
<1>10. \A i, j \in DOMAIN v6' : i < j /\ v6'[i].kind # "other" /\ v6'[j].kind # "other" => Session!Leq(v6'[i].request, v6'[j].request)
  <2>1. \A i, j \in DOMAIN v6' : i < j => i + 1 < j + 1
    BY <1>4
  <2> QED
    BY <1>4, <2>1, Zenon DEF Session!InOrder
<1>11. Session!Taken' => v7'.frame.request \in Session!BeforeInbox'
  <2>1. v6[1].kind # "other" => v6[1].request \in Session!BeforeLink
    BY <1>5, Zenon DEF Session!InOrder
  <2>2. \A i \in DOMAIN v6' : v6'[i].kind # "other" /\ v6[1].kind # "other" => Session!Leq(v6[1].request, v6'[i].request)
    BY <1>4, <1>5, Zenon DEF Session!InOrder
  <2> QED
    BY <1>3, <2>1, <2>2, Zenon DEF Session!BeforeInbox
<1> QED
  BY <1>1, <1>2, <1>8, <1>9, <1>10, <1>11, Zenon DEF Session!InOrder

(* The shell task is done with a frame, or was with none.                  *)
LEMMA OrderDone ==
  ASSUME Session!SessionTypes, Session!InOrder, UNCHANGED <<v1, v2, v4, v6>>, ~ Session!Taken'
  PROVE  Onward /\ Session!InOrder' /\ Session!BeforeInbox \subseteq Session!BeforeShell'
<1>1. Session!Me' = Session!Me /\ (Session!Linked' <=> Session!Linked)
  BY Zenon DEF Session!Me, Session!Linked
<1>2. Session!BeforeLine' = Session!BeforeLine
  BY <1>1, Zenon DEF Session!BeforeLine
<1>3. Session!BeforeLink' = Session!BeforeLink
  BY <1>1, <1>2, Zenon DEF Session!BeforeLink
<1>4. Session!BeforeInbox' = Session!BeforeInbox
  BY <1>3, Zenon DEF Session!BeforeInbox
<1>5. Session!BeforeInbox \subseteq Session!BeforeShell' /\ Session!BeforeShell \subseteq Session!BeforeShell'
  BY <1>4, Zenon DEF Session!BeforeShell
<1> QED
  BY <1>1, <1>2, <1>3, <1>4, <1>5, Zenon DEF Onward, Session!InOrder

(* The Uno says what it has to say.                                        *)
LEMMA OrderSay ==
  ASSUME Session!SessionTypes, Session!InOrder, UNCHANGED <<v1, v4, v6, v7>>, NEW f \in Session!Frames, IsLonger(v2, v2', f, Session!Frames),
         f.request = Session!Me
  PROVE  Onward /\ Session!InOrder'
<1>1. Session!Me' = Session!Me /\ (Session!Linked' <=> Session!Linked) /\ Session!Leq(Session!Me, Session!Me) /\ Session!Me \in Session!Positions
  <2>1. Session!Me \in Session!Positions
    BY SessionKnown, Zenon
  <2>2. Session!Leq(Session!Me, Session!Me)
    BY <2>1 DEF Session!Leq, Session!Positions
  <2> QED
    BY <2>1, <2>2, Zenon DEF Session!Me, Session!Linked
<1>2. \A i \in DOMAIN v2' : i \in Nat /\ (i = Len(v2') \/ (i \in DOMAIN v2 /\ v2'[i] = v2[i] /\ i < Len(v2')))
  BY Zenon DEF IsLonger
<1>3. v2'[Len(v2')] = f
  BY Zenon DEF IsLonger
<1>4. Session!BeforeLine \subseteq Session!BeforeLine'
  <2>1. ASSUME NEW r \in Session!BeforeLine, NEW i \in DOMAIN v2'
        PROVE  Session!Leq(r, v2'[i].request)
    BY <1>2, <1>3, Zenon DEF Session!BeforeLine
  <2>2. \A r \in Session!BeforeLine : r \in Session!Positions /\ Session!Leq(r, Session!Me)
    BY Zenon DEF Session!BeforeLine
  <2> QED
    BY <1>1, <2>1, <2>2, Zenon DEF Session!BeforeLine
<1>5. Session!BeforeLink \subseteq Session!BeforeLink'
  BY <1>1, <1>4, Zenon DEF Session!BeforeLink
<1>6. Onward
  BY <1>4, <1>5, OnwardFromLink, Zenon
<1>7. \A i \in DOMAIN v2' : Session!Leq(v2'[i].request, Session!Me)
  BY <1>1, <1>2, <1>3, Zenon DEF Session!InOrder
<1>8. ASSUME NEW i \in DOMAIN v2', NEW j \in DOMAIN v2', i < j
      PROVE  Session!Leq(v2'[i].request, v2'[j].request)
  <2>1. i \in DOMAIN v2 /\ v2'[i] = v2[i]
    BY <1>2, <1>8
  <2>2. CASE j = Len(v2')
    BY <1>3, <2>1, <2>2, Zenon DEF Session!InOrder
  <2>3. CASE j # Len(v2')
    BY <1>2, <1>8, <2>1, <2>3, Zenon DEF Session!InOrder
  <2> QED
    BY <2>2, <2>3, Zenon
<1>9. /\ \A i \in DOMAIN v6' : v6'[i].kind # "other" => v6'[i].request \in Session!BeforeLink'
      /\ Session!Linked' => v4'.frame.request \in Session!BeforeLine'
      /\ Session!Taken' => v7'.frame.request \in Session!BeforeInbox'
  BY <1>6, Zenon DEF Session!InOrder, Session!Taken, Session!Linked, Onward
<1> QED
  BY <1>1, <1>6, <1>7, <1>8, <1>9, Zenon DEF Session!InOrder

(* The Uno goes on to a later request or start.                            *)
LEMMA OrderUno ==
  ASSUME Session!SessionTypes, Session!InOrder, UNCHANGED <<v2, v4, v6, v7>>, Session!Me' \in Session!Positions, Session!Leq(Session!Me, Session!Me')
  PROVE  Onward /\ Session!InOrder'
<1>1. PICK m, n : m = Session!Me /\ n = Session!Me'
  BY Zenon
<1>2. m \in Session!Positions /\ n \in Session!Positions /\ Session!Leq(m, n)
  BY <1>1, SessionKnown, Zenon
<1>3. Session!BeforeLine \subseteq Session!BeforeLine'
  <2>1. \A r \in Session!BeforeLine : r \in Session!Positions /\ Session!Leq(r, m) /\ \A i \in DOMAIN v2 : Session!Leq(r, v2[i].request)
    BY <1>1, Zenon DEF Session!BeforeLine
  <2>2. \A r \in Session!BeforeLine : Session!Leq(r, n)
    BY <1>2, <2>1, LeqTrans, Zenon
  <2> QED
    BY <1>1, <2>1, <2>2, Zenon DEF Session!BeforeLine
<1>4. Session!BeforeLink \subseteq Session!BeforeLink'
  BY <1>3, Zenon DEF Session!BeforeLink, Session!Linked
<1>5. Onward
  BY <1>3, <1>4, OnwardFromLink, Zenon
<1>6. \A i \in DOMAIN v2' : Session!Leq(v2'[i].request, Session!Me')
  <2>1. \A i \in DOMAIN v2 : v2[i].request \in Session!Positions /\ Session!Leq(v2[i].request, m)
    BY <1>1, SessionKnown, Zenon DEF Session!InOrder
  <2>2. \A i \in DOMAIN v2 : Session!Leq(v2[i].request, n)
    BY <1>2, <2>1, LeqTrans, Zenon
  <2> QED
    BY <1>1, <2>2, Zenon
<1>7. /\ \A i \in DOMAIN v6' : v6'[i].kind # "other" => v6'[i].request \in Session!BeforeLink'
      /\ Session!Linked' => v4'.frame.request \in Session!BeforeLine'
      /\ Session!Taken' => v7'.frame.request \in Session!BeforeInbox'
  BY <1>5, Zenon DEF Session!InOrder, Session!Taken, Session!Linked, Onward
<1> QED
  BY <1>5, <1>6, <1>7, Zenon DEF Session!InOrder

(* The link task is done with a frame, which is dropped or was delivered.  *)
LEMMA OrderDrop ==
  ASSUME Session!SessionTypes, Session!InOrder, UNCHANGED <<v1, v2, v6, v7>>, v4' = v4 \/ ~ Session!Linked'
  PROVE  Onward /\ Session!InOrder'
<1>1. Session!Me' = Session!Me /\ (Session!Linked' => Session!Linked /\ v4' = v4)
  BY Zenon DEF Session!Me, Session!Linked
<1>2. Session!BeforeLine' = Session!BeforeLine
  BY <1>1, Zenon DEF Session!BeforeLine
<1>3. Session!BeforeLink \subseteq Session!BeforeLink'
  BY <1>1, <1>2, Zenon DEF Session!BeforeLink
<1>4. Onward
  BY <1>2, <1>3, OnwardFromLink, Zenon
<1>5. /\ \A i \in DOMAIN v6' : v6'[i].kind # "other" => v6'[i].request \in Session!BeforeLink'
      /\ Session!Linked' => v4'.frame.request \in Session!BeforeLine'
      /\ Session!Taken' => v7'.frame.request \in Session!BeforeInbox'
  BY <1>1, <1>4, Zenon DEF Session!InOrder, Session!Taken, Onward
<1> QED
  BY <1>1, <1>4, <1>5, Zenon DEF Session!InOrder

(* A position before one that is before the inbox is so, too.              *)
LEMMA BeforeDown ==
  ASSUME Session!SessionTypes, NEW a \in Session!Positions, NEW c \in Session!BeforeInbox, Session!Leq(a, c)
  PROVE  a \in Session!BeforeInbox
<1>1. /\ c \in Session!Positions /\ Session!Leq(c, Session!Me) /\ Session!Me \in Session!Positions
      /\ \A i \in DOMAIN v2 : Session!Leq(c, v2[i].request) /\ v2[i].request \in Session!Positions
      /\ \A i \in DOMAIN v6 : (v6[i].kind # "other" => Session!Leq(c, v6[i].request)) /\ v6[i].request \in Session!Positions
      /\ (Session!Linked => Session!Leq(c, v4.frame.request)) /\ v4.frame.request \in Session!Positions
  BY SessionKnown, Zenon DEF Session!BeforeInbox, Session!BeforeLink, Session!BeforeLine
<1>2. Session!Leq(a, Session!Me)
  BY <1>1, LeqTrans, Zenon
<1>3. \A i \in DOMAIN v2 : Session!Leq(a, v2[i].request)
  BY <1>1, LeqTrans, Zenon
<1>4. \A i \in DOMAIN v6 : v6[i].kind # "other" => Session!Leq(a, v6[i].request)
  BY <1>1, LeqTrans, Zenon
<1>5. Session!Linked => Session!Leq(a, v4.frame.request)
  BY <1>1, LeqTrans, Zenon
<1> QED
  BY <1>2, <1>3, <1>4, <1>5, Zenon DEF Session!BeforeInbox, Session!BeforeLink, Session!BeforeLine

(* What ran stays before what is to come.                                  *)
LEMMA RanKept ==
  ASSUME Session!RanBefore, Onward, UNCHANGED <<v8, v10>>
  PROVE  Session!RanBefore'
<1>1. Session!RunOnce'
  BY Zenon DEF Session!RanBefore, Session!RunOnce
<1> QED
  BY <1>1, Zenon DEF Session!RanBefore, Onward

(* A start that is settled stays so.                                       *)
LEMMA SettledKept ==
  ASSUME Onward, UNCHANGED <<v8, v9>>, Session!HelloWaits \subseteq Session!HelloWaits'
  PROVE  Session!Settled \subseteq Session!Settled'
BY Zenon DEF Session!Settled, Onward

StillSettled == Session!Settled \subseteq Session!Settled' /\ Session!AskedSettled /\ Session!InboxSettled /\ Session!TakenSettled /\ ~ v11'

(* So does what the cache is for.                                          *)
LEMMA CacheKept ==
  ASSUME Session!CacheInv, Onward, UNCHANGED <<v8, v9>>, Session!HelloWaits \subseteq Session!HelloWaits', ~ v11' => ~ v11,
         Session!CacheIsOwn', StillSettled => Session!AskedSettled' /\ Session!InboxSettled' /\ Session!TakenSettled'
  PROVE  Session!CacheInv'
<1>1. Session!Settled \subseteq Session!Settled'
  BY SettledKept, Zenon
<1>2. ~ v11' => Session!AskedSettled' /\ Session!InboxSettled' /\ Session!TakenSettled'
  BY <1>1, Zenon DEF Session!CacheInv, StillSettled
<1> QED
  BY <1>2, Zenon DEF Session!CacheInv, Onward

(* The queues' sequences, as the steps change them.                        *)
LEMMA LineTail ==
  ASSUME Session!SessionTypes, v2 # <<>>, v2' = Tail(v2)
  PROVE  IsTail(v2, v2', Session!Frames) /\ Head(v2) = v2[1]
<1>1. PICK s, t, set : s = v2 /\ t = v2' /\ set = Session!Frames
  BY Zenon
<1>2. s \in Seq(set) /\ s # <<>> /\ t = Tail(s)
  BY <1>1, Zenon DEF Session!SessionTypes, Session!LineTypes
<1>3. IsTail(s, t, set) /\ Head(s) = s[1]
  BY <1>2, TailFacts, Zenon
<1> QED
  BY <1>1, <1>3, Zenon

(* The shell task takes the first frame of the inbox.                      *)
LEMMA InboxTail ==
  ASSUME Session!SessionTypes, v6 # <<>>, v6' = Tail(v6)
  PROVE  IsTail(v6, v6', Session!Frames) /\ Head(v6) = v6[1]
<1>1. PICK s, t, set : s = v6 /\ t = v6' /\ set = Session!Frames
  BY Zenon
<1>2. s \in Seq(set) /\ s # <<>> /\ t = Tail(s)
  BY <1>1, Zenon DEF Session!SessionTypes, Session!InboxTypes
<1>3. IsTail(s, t, set) /\ Head(s) = s[1]
  BY <1>2, TailFacts, Zenon
<1> QED
  BY <1>1, <1>3, Zenon

(* A frame is delivered to the inbox.                                      *)
LEMMA InboxAppend ==
  ASSUME Session!SessionTypes, NEW f \in Session!Frames, v6' = Append(v6, f)
  PROVE  IsLonger(v6, v6', f, Session!Frames)
<1>1. PICK s, t, set : s = v6 /\ t = v6' /\ set = Session!Frames
  BY Zenon
<1>2. s \in Seq(set) /\ f \in set /\ t = Append(s, f)
  BY <1>1, Zenon DEF Session!SessionTypes, Session!InboxTypes
<1>3. IsLonger(s, t, f, set)
  BY <1>2, AppendFacts, Zenon
<1> QED
  BY <1>1, <1>3, Zenon

(* An answer goes to the Uno, or is lost.                                  *)
LEMMA AnswerSent ==
  ASSUME Session!SessionTypes, NEW a \in Session!Answers, v3' \in Session!Lossy(v3, a)
  PROVE  Session!AnswerTypes' /\ \A i \in DOMAIN v3' : v3'[i] = a \/ \E j \in DOMAIN v3 : v3'[i] = v3[j]
<1>1. PICK s, t, set : s = v3 /\ t = v3' /\ set = Session!Answers
  BY Zenon
<1>2. s \in Seq(set) /\ a \in set /\ Len(s) <= MaxWire
  BY <1>1, Zenon DEF Session!SessionTypes, Session!AnswerTypes
<1>3. t = s \/ (Len(s) < MaxWire /\ t = Append(s, a))
  BY <1>1, Zenon DEF Session!Lossy
<1>4. CASE t = s
  BY <1>1, <1>2, <1>4, Zenon DEF Session!AnswerTypes
<1>5. CASE Len(s) < MaxWire /\ t = Append(s, a)
  <2>1. IsLonger(s, t, a, set)
    BY <1>2, <1>5, AppendFacts, Zenon
  <2>2. t \in Seq(set) /\ Len(t) = Len(s) + 1 /\ Len(s) \in Nat
    BY <2>1, Zenon DEF IsLonger
  <2>3. \A i \in DOMAIN t : t[i] = a \/ \E j \in DOMAIN s : t[i] = s[j]
    BY <2>1, Zenon DEF IsLonger
  <2>4. Len(t) <= MaxWire
    BY <1>5, <2>2, SessionAssumption
  <2> QED
    BY <1>1, <2>2, <2>3, <2>4, Zenon DEF Session!AnswerTypes
<1> QED
  BY <1>3, <1>4, <1>5, Zenon

(* Nothing of the cache changes where the inbox and the shell task do not. *)
LEMMA CacheUntouched ==
  ASSUME Session!CacheInv, Onward, UNCHANGED <<v1, v6, v7, v8, v9, v11>>, UNCHANGED v3 \/ (Session!Greeted' => Session!Greeted)
  PROVE  Session!CacheInv'
<1>1. Session!HelloWaits' = Session!HelloWaits
  BY Zenon DEF Session!HelloWaits
<1>2. Session!CacheIsOwn'
  BY Zenon DEF Session!CacheInv, Session!CacheIsOwn, Session!Handled
<1>3. Session!Greeted' => Session!Greeted
  BY Zenon DEF Session!Greeted
<1>4. StillSettled => Session!AskedSettled' /\ Session!InboxSettled' /\ Session!TakenSettled'
  BY <1>3, Zenon
  DEF StillSettled, Session!AskedSettled, Session!InboxSettled, Session!TakenSettled,
      Session!Handled
<1> QED
  BY <1>1, <1>2, <1>4, CacheKept, Zenon

(* The line without its first frame is one.                                *)
LEMMA LineRest ==
  ASSUME Session!SessionTypes, v2 # <<>>, v2' = Tail(v2), UNCHANGED v1
  PROVE  Session!LineTypes'
<1>1. IsTail(v2, v2', Session!Frames)
  BY LineTail, Zenon
<1>2. v2' \in Seq(Session!Frames) /\ Len(v2') = Len(v2) - 1 /\ Len(v2) \in Nat
  BY <1>1, Zenon DEF IsTail
<1>3. Len(v2') <= MaxWire
  BY <1>2, SessionAssumption DEF Session!SessionTypes, Session!LineTypes
<1>4. \A i \in DOMAIN v2' : v2'[i].kind # "other" /\ Session!Proper(v2'[i]) /\ v2'[i].request.boot = v1'.boot
  BY <1>1 DEF Session!SessionTypes, Session!LineTypes, IsTail
<1> QED
  BY <1>2, <1>3, <1>4, Zenon DEF Session!LineTypes

(* A link task that reads has no frame.                                    *)
LEMMA OtherLinks ==
  ASSUME v4' = Session!Reading
  PROVE  Session!LinkTypes'
<1>1. Session!Other \in Session!Frames /\ Session!Proper(Session!Other)
  BY SessionAssumption
  DEF Session!Other, Session!None, Session!Frames, Session!Requests, Session!Proper
<1>2. v4'.pc = "reading" /\ v4'.frame = Session!Other
  BY Zenon DEF Session!Reading
<1>3. v4' \in [pc : {"reading", "hello", "deliver", "undo"}, frame : Session!Frames]
  BY <1>1, Zenon DEF Session!Reading
<1> QED
  BY <1>1, <1>2, <1>3, Zenon DEF Session!LinkTypes

(* A frame that is delivered is in the inbox, behind all others, or is not *)
(* there.                                                                  *)
IsDelivered(f) ==
  /\ \A i \in DOMAIN v6 : i \in DOMAIN v6' /\ v6'[i] = v6[i]
  /\ \A i \in DOMAIN v6' : v6'[i] = f \/ (i \in DOMAIN v6 /\ v6'[i] = v6[i])
LEMMA Delivered ==
  ASSUME Session!SessionTypes, NEW f \in Session!Frames, Session!Proper(f), Session!Deliver(f)
  PROVE  /\ IsDelivered(f) /\ Session!InboxTypes'
         /\ (Session!Room => IsLonger(v6, v6', f, Session!Frames)) /\ (~ Session!Room => v6' = v6)
<1>1. CASE Session!Room
  <2>1. v6' = Append(v6, f)
    BY <1>1, Zenon DEF Session!Deliver
  <2>2. IsLonger(v6, v6', f, Session!Frames)
    BY <2>1, InboxAppend, Zenon
  <2>3. IsDelivered(f)
    BY <2>2, Zenon DEF IsLonger, IsDelivered
  <2>4. v6' \in Seq(Session!Frames) /\ Len(v6') = Len(v6) + 1 /\ Len(v6) \in Nat
    BY <2>2, Zenon DEF IsLonger
  <2>5. Len(v6') <= InboxLimit
    BY <1>1, <2>4, SessionAssumption DEF Session!Room
  <2>6. \A i \in DOMAIN v6' : Session!Proper(v6'[i])
    BY <2>3, Zenon DEF IsDelivered, Session!SessionTypes, Session!InboxTypes
  <2> QED
    BY <1>1, <2>2, <2>3, <2>4, <2>5, <2>6, Zenon DEF Session!InboxTypes
<1>2. CASE ~ Session!Room
  <2>1. v6' = v6
    BY <1>2, Zenon DEF Session!Deliver
  <2> QED
    BY <1>2, <2>1, Zenon DEF IsDelivered, Session!SessionTypes, Session!InboxTypes
<1> QED
  BY <1>1, <1>2, Zenon

(* link_task reads a HELLO: PENDING is cleared.                            *)
LEMMA SessionReadHello ==
  ASSUME Session!SessionInv, Session!ReadHello
  PROVE  Session!SessionInv'
<1>1. /\ v4.pc = "reading" /\ v2 # <<>> /\ Head(v2).kind = "hello" /\ v2' = Tail(v2) /\ v5' = 0
      /\ v4' = [pc |-> "hello", frame |-> Head(v2)]
      /\ UNCHANGED <<v1, v3, v6, v7, v8, v9, v10, v11>>
  BY Zenon DEF Session!ReadHello
<1>2. Session!SessionTypes /\ Session!InOrder /\ Session!RanBefore /\ Session!CacheInv /\ Session!RepliesFit
  BY Zenon DEF Session!SessionInv
<1>3. IsTail(v2, v2', Session!Frames) /\ Head(v2) = v2[1]
  BY <1>1, <1>2, LineTail, Zenon
<1>4. v4'.pc = "hello" /\ v4'.frame = v2[1] /\ v2[1].kind = "hello"
  BY <1>1, <1>3, Zenon
<1>5. Onward /\ Session!InOrder'
  BY <1>1, <1>2, <1>3, <1>4, OrderRead, Zenon
<1>6. Session!SessionTypes'
  <2>1. Session!LineTypes'
    BY <1>1, <1>2, LineRest, Zenon
  <2>2. Session!LinkTypes'
    <3>1. v2[1] \in Session!Frames /\ Session!Proper(v2[1]) /\ v2[1].request.boot = v1.boot
      BY <1>2, <1>3, Zenon DEF Session!SessionTypes, Session!LineTypes, IsTail
    <3>2. v4' \in [pc : {"reading", "hello", "deliver", "undo"}, frame : Session!Frames]
      BY <1>1, <1>3, <3>1, Zenon
    <3> QED
      BY <1>1, <1>4, <3>1, <3>2, Zenon DEF Session!LinkTypes
  <2>3. Session!UnoTypes' /\ Session!AnswerTypes' /\ Session!InboxTypes' /\ Session!ShellTypes'
    BY <1>1, <1>2, Zenon
    DEF Session!SessionTypes, Session!UnoTypes, Session!AnswerTypes, Session!InboxTypes,
        Session!ShellTypes
  <2>4. Session!StoreTypes'
    BY <1>1, <1>2, SessionAssumption DEF Session!SessionTypes, Session!StoreTypes
  <2> QED
    BY <2>1, <2>2, <2>3, <2>4, Zenon DEF Session!SessionTypes
<1>7. Session!RanBefore'
  BY <1>1, <1>2, <1>5, RanKept, Zenon
<1>8. Session!CacheInv'
  BY <1>1, <1>2, <1>5, CacheUntouched, Zenon
<1>9. Session!RepliesFit' /\ Session!PendingIsSomewhere'
  BY <1>1, <1>2 DEF Session!RepliesFit, Session!PendingIsSomewhere
<1> QED
  BY <1>5, <1>6, <1>7, <1>8, <1>9, Zenon DEF Session!SessionInv

(* link_task delivers a HELLO and answers it, with room in the inbox or    *)
(* not.                                                                    *)
LEMMA SessionPassHello ==
  ASSUME Session!SessionInv, Session!PassHello
  PROVE  Session!SessionInv'
<1>1. /\ v4.pc = "hello" /\ v4' = Session!Reading /\ Session!Deliver(v4.frame) /\ v11' = (v11 \/ ~ Session!Room)
      /\ v3' \in Session!Lossy(v3, Session!Answer("hello", 0, Session!None))
      /\ UNCHANGED <<v1, v2, v5, v7, v8, v9, v10>>
  BY Zenon DEF Session!PassHello
<1>2. Session!SessionTypes /\ Session!InOrder /\ Session!RanBefore /\ Session!CacheInv /\ Session!RepliesFit /\ Session!PendingIsSomewhere
  BY Zenon DEF Session!SessionInv
<1>3. v4'.pc = "reading" /\ v4'.frame = Session!Other /\ ~ Session!Linked' /\ Session!Linked
  BY <1>1, Zenon DEF Session!Reading, Session!Linked
<1>4. /\ v4.frame \in Session!Frames /\ Session!Proper(v4.frame) /\ v4.frame.kind = "hello" /\ v4.frame.request.boot = v1.boot
      /\ v1.boot \in Nat
  BY <1>1, <1>2 DEF Session!SessionTypes, Session!LinkTypes, Session!UnoTypes
<1>5. /\ IsDelivered(v4.frame) /\ Session!InboxTypes'
      /\ (Session!Room => IsLonger(v6, v6', v4.frame, Session!Frames)) /\ (~ Session!Room => v6' = v6)
  BY <1>1, <1>2, <1>4, Delivered, Zenon
<1>6. Onward /\ Session!InOrder'
  <2>1. CASE Session!Room
    BY <1>1, <1>2, <1>3, <1>4, <1>5, <2>1, OrderDeliver, Zenon
  <2>2. CASE ~ Session!Room
    BY <1>1, <1>2, <1>3, <1>5, <2>2, OrderDrop, Zenon
  <2> QED
    BY <2>1, <2>2, Zenon
<1>7. PICK a : a = Session!Answer("hello", 0, Session!None)
  BY Zenon
<1>8. a \in Session!Answers /\ a.kind = "hello"
  BY <1>7, SessionAssumption DEF Session!Answer, Session!Answers, Session!Requests, Session!None
<1>9. Session!AnswerTypes' /\ \A i \in DOMAIN v3' : v3'[i] = a \/ \E j \in DOMAIN v3 : v3'[i] = v3[j]
  BY <1>1, <1>2, <1>7, <1>8, AnswerSent, Zenon
<1>10. v11' \in BOOLEAN /\ (~ v11' => ~ v11 /\ Session!Room)
  BY <1>1, Zenon
<1>11. Session!SessionTypes'
  <2>1. Session!LinkTypes'
    BY <1>3, <1>1, OtherLinks, Zenon
  <2>2. Session!UnoTypes' /\ Session!LineTypes' /\ Session!ShellTypes'
    BY <1>1, <1>2, Zenon DEF Session!SessionTypes, Session!UnoTypes, Session!LineTypes, Session!ShellTypes
  <2>3. Session!StoreTypes'
    BY <1>1, <1>2, <1>10, Zenon DEF Session!SessionTypes, Session!StoreTypes
  <2> QED
    BY <1>5, <1>9, <2>1, <2>2, <2>3, Zenon DEF Session!SessionTypes
<1>12. Session!RanBefore'
  BY <1>1, <1>2, <1>6, RanKept, Zenon
<1>13. Session!CacheInv'
  <2>1. Session!HelloWaits \subseteq Session!HelloWaits'
    BY <1>1, <1>5, Zenon DEF Session!HelloWaits, IsDelivered
  <2>2. Session!CacheIsOwn'
    BY <1>1, <1>2, <1>10, Zenon DEF Session!CacheInv, Session!CacheIsOwn, Session!Handled
  <2>3. ASSUME StillSettled
        PROVE  Session!AskedSettled' /\ Session!InboxSettled' /\ Session!TakenSettled'
    <3>1. Session!Room /\ Session!Settled \subseteq Session!Settled' /\ Session!InboxSettled /\ Session!TakenSettled
      BY <1>10, <2>3, Zenon DEF StillSettled
    <3>2. v1.boot \in Session!HelloWaits'
      BY <1>4, <1>5, <3>1, Zenon DEF Session!HelloWaits, IsLonger
    <3>3. v1.boot \in Session!Settled'
      BY <1>4, <3>2, Zenon DEF Session!Settled
    <3>4. Session!AskedSettled' /\ Session!TakenSettled'
      BY <1>1, <3>1, <3>3, Zenon DEF Session!AskedSettled, Session!TakenSettled, Session!Handled
    <3>5. Session!InboxSettled'
      BY <1>4, <1>5, <3>1, Zenon DEF Session!InboxSettled, IsDelivered
    <3> QED
      BY <3>4, <3>5, Zenon
  <2> QED
    BY <1>1, <1>2, <1>6, <1>10, <2>1, <2>2, <2>3, CacheKept, Zenon
<1>14. Session!RepliesFit'
  BY <1>1, <1>2, <1>8, <1>9, Zenon DEF Session!RepliesFit
<1>15. Session!PendingIsSomewhere'
  BY <1>1, <1>2, <1>5, Zenon DEF Session!PendingIsSomewhere, Session!Handled, IsDelivered
<1> QED
  BY <1>6, <1>11, <1>12, <1>13, <1>14, <1>15, Zenon DEF Session!SessionInv

(* link_task reads a MSG: BUSY if PENDING has its number, else it is on    *)
(* the way to the inbox.                                                   *)
LEMMA SessionReadMsg ==
  ASSUME Session!SessionInv, Session!ReadMsg
  PROVE  Session!SessionInv'
<1>1. /\ v4.pc = "reading" /\ v2 # <<>> /\ Head(v2).kind = "msg" /\ v2' = Tail(v2)
      /\ UNCHANGED <<v1, v6, v7, v8, v9, v10, v11>>
  BY Zenon DEF Session!ReadMsg
<1>2. Session!SessionTypes /\ Session!InOrder /\ Session!RanBefore /\ Session!CacheInv /\ Session!RepliesFit /\ Session!PendingIsSomewhere
  BY Zenon DEF Session!SessionInv
<1>3. IsTail(v2, v2', Session!Frames) /\ Head(v2) = v2[1]
  BY <1>1, <1>2, LineTail, Zenon
<1>4. PICK f : f = v2[1]
  BY Zenon
<1>5. f.kind = "msg" /\ f \in Session!Frames /\ Session!Proper(f) /\ f.request.boot = v1.boot /\ f.request \in Session!Requests
  BY <1>1, <1>2, <1>3, <1>4, Zenon DEF Session!SessionTypes, Session!LineTypes, IsTail, Session!Frames
<1>6. \/ v3' \in Session!Lossy(v3, Session!Answer("busy", f.request.seq, f.request)) /\ UNCHANGED <<v4, v5>>
      \/ v5' = f.request.seq + 1 /\ v4' = [pc |-> "deliver", frame |-> f] /\ UNCHANGED v3
  BY <1>3, <1>4, Zenon DEF Session!ReadMsg
<1>7. v4' = v4 \/ (v4'.pc = "deliver" /\ v4'.frame = v2[1])
  BY <1>4, <1>6
<1>8. Onward /\ Session!InOrder'
  BY <1>1, <1>2, <1>3, <1>7, OrderRead, Zenon
<1>9. /\ Session!AnswerTypes'
      /\ \A i \in DOMAIN v3' : v3'[i].kind = "busy" \/ \E j \in DOMAIN v3 : v3'[i] = v3[j]
  <2>1. CASE v3' = v3
    BY <1>2, <2>1, Zenon DEF Session!SessionTypes, Session!AnswerTypes
  <2>2. CASE v3' \in Session!Lossy(v3, Session!Answer("busy", f.request.seq, f.request))
    <3>1. PICK a : a = Session!Answer("busy", f.request.seq, f.request)
      BY Zenon
    <3>2. a \in Session!Answers /\ a.kind = "busy"
      BY <1>5, <3>1, Zenon DEF Session!Answer, Session!Answers, Session!Requests
    <3> QED
      BY <1>2, <2>2, <3>1, <3>2, AnswerSent, Zenon
  <2> QED
    BY <1>6, <2>1, <2>2, Zenon
<1>10. Session!SessionTypes'
  <2>1. Session!LineTypes'
    BY <1>1, <1>2, LineRest, Zenon
  <2>2. Session!LinkTypes'
    <3>1. CASE v4' = v4
      BY <1>1, <1>2, <3>1, Zenon DEF Session!SessionTypes, Session!LinkTypes
    <3>2. CASE v4' = [pc |-> "deliver", frame |-> f]
      <4>1. v4' \in [pc : {"reading", "hello", "deliver", "undo"}, frame : Session!Frames]
        BY <1>5, <3>2, Zenon
      <4> QED
        BY <1>1, <1>5, <3>2, <4>1, Zenon DEF Session!LinkTypes
    <3> QED
      BY <1>6, <3>1, <3>2, Zenon
  <2>3. Session!UnoTypes' /\ Session!InboxTypes' /\ Session!ShellTypes'
    BY <1>1, <1>2, Zenon DEF Session!SessionTypes, Session!UnoTypes, Session!InboxTypes, Session!ShellTypes
  <2>4. v5' \in 0 .. MaxSeq + 1
    BY <1>2, <1>5, <1>6, SessionAssumption
    DEF Session!SessionTypes, Session!StoreTypes, Session!Requests
  <2>5. Session!StoreTypes'
    BY <1>1, <1>2, <2>4, Zenon DEF Session!SessionTypes, Session!StoreTypes
  <2> QED
    BY <1>9, <2>1, <2>2, <2>3, <2>5, Zenon DEF Session!SessionTypes
<1>11. Session!RanBefore'
  BY <1>1, <1>2, <1>8, RanKept, Zenon
<1>12. Session!CacheInv'
  <2>1. Session!Greeted' => Session!Greeted
    BY <1>9, Zenon DEF Session!Greeted
  <2> QED
    BY <1>1, <1>2, <1>8, <2>1, CacheUntouched, Zenon
<1>13. Session!RepliesFit'
  BY <1>1, <1>2, <1>9, Zenon DEF Session!RepliesFit
<1>14. Session!PendingIsSomewhere'
  BY <1>1, <1>2, <1>6 DEF Session!PendingIsSomewhere, Session!Handled
<1> QED
  BY <1>8, <1>10, <1>11, <1>12, <1>13, <1>14, Zenon DEF Session!SessionInv

(* link_task delivers a MSG, or finds no room.                             *)
LEMMA SessionPassMsg ==
  ASSUME Session!SessionInv, Session!PassMsg
  PROVE  Session!SessionInv'
<1>1. /\ v4.pc = "deliver" /\ Session!Deliver(v4.frame)
      /\ v4' = IF Session!Room THEN Session!Reading ELSE [v4 EXCEPT !.pc = "undo"]
      /\ UNCHANGED <<v1, v2, v3, v5, v7, v8, v9, v10, v11>>
  BY Zenon DEF Session!PassMsg
<1>2. Session!SessionTypes /\ Session!InOrder /\ Session!RanBefore /\ Session!CacheInv /\ Session!RepliesFit /\ Session!PendingIsSomewhere
  BY Zenon DEF Session!SessionInv
<1>3. PICK f : f = v4.frame
  BY Zenon
<1>4. /\ f \in Session!Frames /\ Session!Proper(f) /\ f.kind = "msg" /\ f.request.boot = v1.boot /\ f.request \in Session!Requests
      /\ v4 \in [pc : {"reading", "hello", "deliver", "undo"}, frame : Session!Frames] /\ v1.boot \in Nat
  BY <1>1, <1>2, <1>3 DEF Session!SessionTypes, Session!LinkTypes, Session!UnoTypes, Session!Frames
<1>5. /\ Session!Room => v4' = Session!Reading /\ v4'.pc = "reading"
      /\ ~ Session!Room => v4'.pc = "undo" /\ v4'.frame = f /\ v4' \in [pc : {"reading", "hello", "deliver", "undo"}, frame : Session!Frames]
  BY <1>1, <1>3, <1>4, Zenon DEF Session!Reading
<1>6. ~ Session!Linked' /\ Session!Linked
  BY <1>1, <1>5, Zenon DEF Session!Linked
<1>7. /\ IsDelivered(f) /\ Session!InboxTypes'
      /\ (Session!Room => IsLonger(v6, v6', f, Session!Frames)) /\ (~ Session!Room => v6' = v6)
  BY <1>1, <1>2, <1>3, <1>4, Delivered, Zenon
<1>8. Onward /\ Session!InOrder'
  <2>1. CASE Session!Room
    BY <1>1, <1>2, <1>3, <1>4, <1>6, <1>7, <2>1, OrderDeliver, Zenon
  <2>2. CASE ~ Session!Room
    BY <1>1, <1>2, <1>6, <1>7, <2>2, OrderDrop, Zenon
  <2> QED
    BY <2>1, <2>2, Zenon
<1>9. Session!SessionTypes'
  <2>1. Session!LinkTypes'
    <3>1. CASE Session!Room
      BY <1>1, <1>5, <3>1, OtherLinks, Zenon
    <3>2. CASE ~ Session!Room
      BY <1>1, <1>4, <1>5, <3>2, Zenon DEF Session!LinkTypes
    <3> QED
      BY <3>1, <3>2, Zenon
  <2>2. Session!UnoTypes' /\ Session!LineTypes' /\ Session!AnswerTypes' /\ Session!ShellTypes' /\ Session!StoreTypes'
    BY <1>1, <1>2, Zenon
    DEF Session!SessionTypes, Session!UnoTypes, Session!LineTypes, Session!AnswerTypes,
        Session!ShellTypes, Session!StoreTypes
  <2> QED
    BY <1>7, <2>1, <2>2, Zenon DEF Session!SessionTypes
<1>10. Session!RanBefore'
  BY <1>1, <1>2, <1>8, RanKept, Zenon
<1>11. Session!CacheInv'
  <2>1. Session!HelloWaits \subseteq Session!HelloWaits'
    BY <1>1, <1>7, Zenon DEF Session!HelloWaits, IsDelivered
  <2>2. Session!CacheIsOwn'
    BY <1>1, <1>2, Zenon DEF Session!CacheInv, Session!CacheIsOwn, Session!Handled
  <2>3. v1.pc # "hello"
    <3>1. Session!Leq(f.request, Session!Me) /\ f.request.seq >= 1 /\ f.request.seq \in Nat
      BY <1>2, <1>3, <1>4, <1>6, SessionAssumption
      DEF Session!InOrder, Session!BeforeLine, Session!Proper, Session!Requests
    <3>2. Session!Me.seq \in Nat /\ Session!Me.boot = v1.boot /\ Session!Me.seq = v1.seq
      BY <1>2, SessionKnown, Zenon DEF Session!Positions
    <3>3. v1.seq # 0
      BY <1>4, <3>1, <3>2 DEF Session!Leq
    <3> QED
      BY <1>2, <3>3, Zenon DEF Session!SessionTypes, Session!UnoTypes
  <2>4. ASSUME StillSettled
        PROVE  Session!AskedSettled' /\ Session!InboxSettled' /\ Session!TakenSettled'
    <3>1. Session!Settled \subseteq Session!Settled' /\ Session!AskedSettled /\ Session!InboxSettled /\ Session!TakenSettled
      BY <2>4, Zenon DEF StillSettled
    <3>2. v1.boot \in Session!Settled
      BY <2>3, <3>1, Zenon DEF Session!AskedSettled
    <3>3. Session!AskedSettled' /\ Session!TakenSettled'
      BY <1>1, <3>1, <3>2, Zenon DEF Session!AskedSettled, Session!TakenSettled, Session!Handled
    <3>4. Session!InboxSettled'
      BY <1>4, <1>7, <3>1, <3>2, Zenon DEF Session!InboxSettled, IsDelivered
    <3> QED
      BY <3>3, <3>4, Zenon
  <2> QED
    BY <1>1, <1>2, <1>8, <2>1, <2>2, <2>4, CacheKept, Zenon
<1>12. Session!RepliesFit'
  BY <1>1, <1>2, Zenon DEF Session!RepliesFit
<1>13. Session!PendingIsSomewhere'
  <2>1. CASE Session!Room
    BY <1>1, <1>2, <1>3, <1>4, <1>7, <2>1 DEF Session!PendingIsSomewhere, Session!Handled, IsLonger
  <2>2. CASE ~ Session!Room
    BY <1>1, <1>2, <1>3, <1>5, <1>7, <2>2, Zenon DEF Session!PendingIsSomewhere, Session!Handled
  <2> QED
    BY <2>1, <2>2, Zenon
<1> QED
  BY <1>8, <1>9, <1>10, <1>11, <1>12, <1>13, Zenon DEF Session!SessionInv

(* link_task takes PENDING back.                                           *)
LEMMA SessionUndoPending ==
  ASSUME Session!SessionInv, Session!UndoPending
  PROVE  Session!SessionInv'
<1>1. v4' = Session!Reading /\ v5' = 0 /\ UNCHANGED <<v1, v2, v3, v6, v7, v8, v9, v10, v11>>
  BY Zenon DEF Session!UndoPending
<1>2. Session!SessionTypes /\ Session!InOrder /\ Session!RanBefore /\ Session!CacheInv /\ Session!RepliesFit
  BY Zenon DEF Session!SessionInv
<1>3. v4'.pc = "reading" /\ ~ Session!Linked'
  BY <1>1, Zenon DEF Session!Reading, Session!Linked
<1>4. Onward /\ Session!InOrder'
  BY <1>1, <1>2, <1>3, OrderDrop, Zenon
<1>5. Session!SessionTypes'
  <2>1. Session!LinkTypes'
    BY <1>1, OtherLinks, Zenon
  <2>2. Session!UnoTypes' /\ Session!LineTypes' /\ Session!AnswerTypes' /\ Session!InboxTypes' /\ Session!ShellTypes'
    BY <1>1, <1>2, Zenon
    DEF Session!SessionTypes, Session!UnoTypes, Session!LineTypes, Session!AnswerTypes,
        Session!InboxTypes, Session!ShellTypes
  <2>3. Session!StoreTypes'
    BY <1>1, <1>2, SessionAssumption DEF Session!SessionTypes, Session!StoreTypes
  <2> QED
    BY <2>1, <2>2, <2>3, Zenon DEF Session!SessionTypes
<1>6. Session!RanBefore'
  BY <1>1, <1>2, <1>4, RanKept, Zenon
<1>7. Session!CacheInv'
  BY <1>1, <1>2, <1>4, CacheUntouched, Zenon
<1>8. Session!RepliesFit' /\ Session!PendingIsSomewhere'
  BY <1>1, <1>2 DEF Session!RepliesFit, Session!PendingIsSomewhere
<1> QED
  BY <1>4, <1>5, <1>6, <1>7, <1>8, Zenon DEF Session!SessionInv

(* shell_task takes the oldest frame.                                      *)
LEMMA SessionTakeFrame ==
  ASSUME Session!SessionInv, Session!TakeFrame
  PROVE  Session!SessionInv'
<1>1. /\ v7.pc = "waiting" /\ v6 # <<>> /\ v6' = Tail(v6) /\ v7' = [pc |-> Head(v6).kind, frame |-> Head(v6)]
      /\ UNCHANGED <<v1, v2, v3, v4, v5, v8, v9, v10, v11>>
  BY Zenon DEF Session!TakeFrame
<1>2. Session!SessionTypes /\ Session!InOrder /\ Session!RanBefore /\ Session!CacheInv /\ Session!RepliesFit /\ Session!PendingIsSomewhere
  BY Zenon DEF Session!SessionInv
<1>3. IsTail(v6, v6', Session!Frames) /\ Head(v6) = v6[1]
  BY <1>1, <1>2, InboxTail, Zenon
<1>4. /\ v6' \in Seq(Session!Frames) /\ Len(v6') = Len(v6) - 1 /\ Len(v6) \in Nat /\ v6[1] \in Session!Frames /\ 1 \in DOMAIN v6
      /\ \A i \in DOMAIN v6' : i + 1 \in DOMAIN v6 /\ v6'[i] = v6[i + 1]
      /\ \A i \in DOMAIN v6 : i = 1 \/ (i - 1 \in DOMAIN v6' /\ v6'[i - 1] = v6[i])
  BY <1>3, Zenon DEF IsTail
<1>5. v7'.pc = v6[1].kind /\ v7'.frame = v6[1] /\ v6[1].kind \in {"hello", "msg", "other"} /\ Session!Proper(v6[1])
  BY <1>1, <1>2, <1>3, <1>4, Zenon DEF Session!Frames, Session!SessionTypes, Session!InboxTypes
<1>6. ~ Session!Taken /\ (Session!Taken' => v6[1].kind # "other")
  BY <1>1, <1>5, Zenon DEF Session!Taken
<1>7. Onward /\ Session!InOrder'
  BY <1>1, <1>2, <1>3, <1>5, <1>6, OrderTake, Zenon
<1>8. Session!SessionTypes'
  <2>1. Session!InboxTypes'
    <3>1. Len(v6') <= InboxLimit
      BY <1>2, <1>4, SessionAssumption DEF Session!SessionTypes, Session!InboxTypes
    <3> QED
      BY <1>2, <1>4, <3>1, Zenon DEF Session!SessionTypes, Session!InboxTypes
  <2>2. Session!ShellTypes'
    <3>1. v7' \in [pc : {"waiting", "hello", "msg", "other", "replied"}, frame : Session!Frames]
      BY <1>1, <1>3, <1>4, <1>5, Zenon
    <3> QED
      BY <1>5, <3>1, Zenon DEF Session!ShellTypes
  <2>3. Session!UnoTypes' /\ Session!LineTypes' /\ Session!AnswerTypes' /\ Session!LinkTypes' /\ Session!StoreTypes'
    BY <1>1, <1>2, Zenon
    DEF Session!SessionTypes, Session!UnoTypes, Session!LineTypes, Session!AnswerTypes,
        Session!LinkTypes, Session!StoreTypes
  <2> QED
    BY <2>1, <2>2, <2>3, Zenon DEF Session!SessionTypes
<1>9. Session!RanBefore'
  BY <1>1, <1>2, <1>7, RanKept, Zenon
<1>10. Session!CacheInv'
  <2>1. Session!HelloWaits \subseteq Session!HelloWaits'
    <3>1. ASSUME NEW b \in Session!HelloWaits
          PROVE  b \in Session!HelloWaits'
      <4>1. b \in Nat /\ \E i \in DOMAIN v6 : v6[i].kind = "hello" /\ v6[i].request.boot = b
        BY <1>1, <3>1, Zenon DEF Session!HelloWaits
      <4> QED
        BY <1>4, <1>5, <4>1 DEF Session!HelloWaits
    <3> QED
      BY <3>1, Zenon
  <2>2. Session!CacheIsOwn'
    BY <1>5, Zenon DEF Session!CacheIsOwn
  <2>3. StillSettled => Session!AskedSettled' /\ Session!InboxSettled' /\ Session!TakenSettled'
    BY <1>1, <1>4, <1>5
    DEF StillSettled, Session!AskedSettled, Session!InboxSettled, Session!TakenSettled,
        Session!Handled, Session!Greeted
  <2> QED
    BY <1>1, <1>2, <1>7, <2>1, <2>2, <2>3, CacheKept, Zenon
<1>11. Session!RepliesFit'
  BY <1>1, <1>2, Zenon DEF Session!RepliesFit
<1>12. Session!PendingIsSomewhere'
  <2>1. SUFFICES ASSUME v5 > 0
                 PROVE  Session!PendingIsSomewhere'
    BY <1>1, Zenon DEF Session!PendingIsSomewhere
  <2>2. CASE v4.pc \in {"deliver", "undo"} /\ v4.frame.request.seq + 1 = v5
    BY <1>1, <2>2, Zenon DEF Session!PendingIsSomewhere
  <2>3. CASE \E i \in DOMAIN v6 : v6[i].kind = "msg" /\ v6[i].request.seq + 1 = v5
    <3>1. PICK i \in DOMAIN v6 : v6[i].kind = "msg" /\ v6[i].request.seq + 1 = v5
      BY <2>3, Zenon
    <3>2. CASE i = 1
      BY <1>1, <1>5, <3>1, <3>2, Zenon DEF Session!PendingIsSomewhere, Session!Handled
    <3>3. CASE i # 1
      <4>1. PICK j \in DOMAIN v6' : v6'[j] = v6[i]
        BY <1>4, <3>3, Zenon
      <4> QED
        BY <1>1, <3>1, <4>1, Zenon DEF Session!PendingIsSomewhere
    <3> QED
      BY <3>2, <3>3, Zenon
  <2> QED
    BY <1>1, <1>2, <2>1, <2>2, <2>3, Zenon DEF Session!PendingIsSomewhere
<1> QED
  BY <1>7, <1>8, <1>9, <1>10, <1>11, <1>12, Zenon DEF Session!SessionInv

(* shell_task is done with a frame: the place changes, the frame stays.    *)
LEMMA ShellMoves ==
  ASSUME Session!SessionTypes, NEW pc \in {"waiting", "replied"}, v7' = [v7 EXCEPT !.pc = pc],
         pc = "replied" => v7.pc = "msg"
  PROVE  Session!ShellTypes' /\ ~ Session!Taken' /\ v7'.pc = pc /\ v7'.frame = v7.frame /\ Session!Handled' = Session!Handled
<1>1. v7 \in [pc : {"waiting", "hello", "msg", "other", "replied"}, frame : Session!Frames] /\ Session!Proper(v7.frame)
  BY Zenon DEF Session!SessionTypes, Session!ShellTypes
<1>2. v7'.pc = pc /\ v7'.frame = v7.frame
  BY <1>1, Zenon
<1>3. v7' \in [pc : {"waiting", "hello", "msg", "other", "replied"}, frame : Session!Frames]
  BY <1>1, Zenon
<1>4. Session!ShellTypes'
  BY <1>1, <1>2, <1>3, Zenon DEF Session!ShellTypes, Session!SessionTypes
<1> QED
  BY <1>2, <1>4, Zenon DEF Session!Taken, Session!Handled

(* Where the shell task's place changes, and it had no HELLO, the cache is *)
(* as it was.                                                              *)
LEMMA CacheWaits ==
  ASSUME Session!CacheInv, Onward, UNCHANGED <<v1, v3, v6, v8, v9, v11>>, v7.pc # "hello", v7'.pc = "waiting"
  PROVE  Session!CacheInv'
<1>1. Session!HelloWaits \subseteq Session!HelloWaits'
  BY Zenon DEF Session!HelloWaits
<1>2. Session!CacheIsOwn'
  BY Zenon DEF Session!CacheIsOwn
<1>3. StillSettled => Session!AskedSettled' /\ Session!InboxSettled' /\ Session!TakenSettled'
  BY Zenon DEF StillSettled, Session!AskedSettled, Session!InboxSettled, Session!TakenSettled,
      Session!Greeted
<1> QED
  BY <1>1, <1>2, <1>3, CacheKept, Zenon

(* Session::reset.                                                         *)
LEMMA SessionResetSession ==
  ASSUME Session!SessionInv, Session!ResetSession
  PROVE  Session!SessionInv'
<1>1. /\ v7.pc = "hello" /\ v7' = [v7 EXCEPT !.pc = "waiting"] /\ v8' = 0
      /\ UNCHANGED <<v1, v2, v3, v4, v5, v6, v9, v10, v11>>
  BY Zenon DEF Session!ResetSession
<1>2. Session!SessionTypes /\ Session!InOrder /\ Session!RanBefore /\ Session!CacheInv /\ Session!RepliesFit /\ Session!PendingIsSomewhere
  BY Zenon DEF Session!SessionInv
<1>3. Session!ShellTypes' /\ ~ Session!Taken' /\ v7'.pc = "waiting"
  BY <1>1, <1>2, ShellMoves, Zenon
<1>4. Onward /\ Session!InOrder' /\ Session!BeforeInbox \subseteq Session!BeforeShell'
  BY <1>1, <1>2, <1>3, OrderDone, Zenon
<1>5. PICK h : h = v7.frame.request
  BY Zenon
<1>6. h \in Session!BeforeInbox /\ h \in Session!Positions /\ h.seq = 0 /\ Session!Taken
  <2>1. Session!Taken
    BY <1>1, Zenon DEF Session!Taken
  <2>2. h \in Session!Positions /\ h.seq = 0
    BY <1>1, <1>2, <1>5, SessionKnown, Zenon DEF Session!SessionTypes, Session!ShellTypes, Session!Proper
  <2> QED
    BY <1>2, <1>5, <2>1, <2>2, Zenon DEF Session!InOrder
<1>7. Session!SessionTypes'
  <2>1. Session!UnoTypes' /\ Session!LineTypes' /\ Session!AnswerTypes' /\ Session!LinkTypes' /\ Session!InboxTypes'
    BY <1>1, <1>2, Zenon
    DEF Session!SessionTypes, Session!UnoTypes, Session!LineTypes, Session!AnswerTypes,
        Session!LinkTypes, Session!InboxTypes
  <2>2. Session!StoreTypes'
    BY <1>1, <1>2, SessionAssumption DEF Session!SessionTypes, Session!StoreTypes
  <2> QED
    BY <1>3, <2>1, <2>2, Zenon DEF Session!SessionTypes
<1>8. Session!RanBefore'
  <2>1. Session!RunOnce'
    BY <1>1, <1>2, Zenon DEF Session!RanBefore, Session!RunOnce
  <2>2. ASSUME NEW i \in DOMAIN v10
        PROVE  v10[i].seq >= 1 /\ v10[i] \in Session!BeforeShell' /\ Session!Request(v10[i].boot, v10[i].seq + 1) \in Session!BeforeShell'
    <3>1. PICK r : r = v10[i]
      BY Zenon
    <3>2. r.seq >= 1 /\ r \in Session!BeforeShell /\ r \in Session!Positions /\ Session!Leq(r, h)
      BY <1>2, <1>5, <1>6, <3>1, Zenon
      DEF Session!RanBefore, Session!BeforeShell, Session!BeforeInbox, Session!BeforeLink,
          Session!BeforeLine
    <3>3. Session!Request(r.boot, r.seq + 1) \in Session!Positions /\ Session!Leq(Session!Request(r.boot, r.seq + 1), h)
      BY <1>6, <3>2 DEF Session!Positions, Session!Leq, Session!Request
    <3>4. Session!Request(r.boot, r.seq + 1) \in Session!BeforeInbox
      BY <1>2, <1>6, <3>3, BeforeDown, Zenon
    <3> QED
      BY <1>4, <3>1, <3>2, <3>4, Zenon DEF Onward
  <2> QED
    BY <1>1, <2>1, <2>2, Zenon DEF Session!RanBefore
<1>9. Session!CacheInv'
  <2>1. Session!Settled \subseteq Session!Settled'
    <3>1. ASSUME NEW b \in Session!Settled
          PROVE  b \in Session!Settled'
      <4>1. CASE b = h.boot
        <5>1. Session!Request(b, 0) = h /\ b \in Nat
          BY <1>6, <4>1, Zenon DEF Session!Request, Session!Positions
        <5> QED
          BY <1>1, <1>4, <1>6, <5>1 DEF Session!Settled
      <4>2. CASE b \in Session!HelloWaits /\ b # h.boot
        <5>1. b \in Session!HelloWaits' /\ b \in Nat
          BY <1>1, <1>5, <4>2, Zenon DEF Session!HelloWaits
        <5> QED
          BY <5>1, Zenon DEF Session!Settled
      <4>3. CASE b \notin Session!HelloWaits
        <5>1. b \in Nat /\ Session!Request(b, 0) \in Session!BeforeShell'
          BY <1>4, <4>3, Zenon DEF Session!Settled, Onward
        <5> QED
          BY <1>1, <5>1 DEF Session!Settled
      <4> QED
        BY <4>1, <4>2, <4>3, Zenon
    <3> QED
      BY <3>1, Zenon
  <2>2. ~ v11' => Session!AskedSettled' /\ Session!InboxSettled' /\ Session!TakenSettled'
    BY <1>1, <1>2, <1>3, <2>1, Zenon
    DEF Session!CacheInv, Session!AskedSettled, Session!InboxSettled, Session!TakenSettled,
        Session!Greeted
  <2>3. Session!CacheIsOwn'
    BY <1>3, Zenon DEF Session!CacheIsOwn
  <2> QED
    BY <1>1, <1>2, <1>4, <2>2, <2>3 DEF Session!CacheInv, Onward
<1>10. Session!RepliesFit'
  BY <1>1, <1>2, Zenon DEF Session!RepliesFit
<1>11. Session!PendingIsSomewhere'
  BY <1>1, <1>2, Zenon DEF Session!PendingIsSomewhere
<1> QED
  BY <1>4, <1>7, <1>8, <1>9, <1>10, <1>11, Zenon DEF Session!SessionInv

(* shell_task runs a line from elsewhere.                                  *)
LEMMA SessionRunOther ==
  ASSUME Session!SessionInv, Session!RunOther
  PROVE  Session!SessionInv'
<1>1. /\ v7.pc = "other" /\ v7' = [v7 EXCEPT !.pc = "waiting"]
      /\ UNCHANGED <<v1, v2, v3, v4, v5, v6, v8, v9, v10, v11>>
  BY Zenon DEF Session!RunOther
<1>2. Session!SessionTypes /\ Session!InOrder /\ Session!RanBefore /\ Session!CacheInv /\ Session!RepliesFit /\ Session!PendingIsSomewhere
  BY Zenon DEF Session!SessionInv
<1>3. Session!ShellTypes' /\ ~ Session!Taken' /\ v7'.pc = "waiting"
  BY <1>1, <1>2, ShellMoves, Zenon
<1>4. Onward /\ Session!InOrder'
  BY <1>1, <1>2, <1>3, OrderDone, Zenon
<1>5. Session!UnoTypes' /\ Session!LineTypes' /\ Session!AnswerTypes' /\ Session!LinkTypes' /\ Session!InboxTypes' /\ Session!StoreTypes'
  BY <1>1, <1>2, Zenon
  DEF Session!SessionTypes, Session!UnoTypes, Session!LineTypes, Session!AnswerTypes,
      Session!LinkTypes, Session!InboxTypes, Session!StoreTypes
<1>6. Session!RanBefore' /\ Session!CacheInv'
  BY <1>1, <1>2, <1>3, <1>4, RanKept, CacheWaits, Zenon
<1>7. Session!RepliesFit' /\ Session!PendingIsSomewhere'
  BY <1>1, <1>2, Zenon DEF Session!RepliesFit, Session!PendingIsSomewhere
<1> QED
  BY <1>3, <1>4, <1>5, <1>6, <1>7, Zenon DEF Session!SessionInv, Session!SessionTypes

(* shell_task gives PENDING up, if it is still its own.                    *)
LEMMA SessionGiveUpPending ==
  ASSUME Session!SessionInv, Session!GiveUpPending
  PROVE  Session!SessionInv'
<1>1. /\ v7.pc = "replied" /\ v7' = [v7 EXCEPT !.pc = "waiting"]
      /\ v5' = IF v5 = Session!Handled.seq + 1 THEN 0 ELSE v5
      /\ UNCHANGED <<v1, v2, v3, v4, v6, v8, v9, v10, v11>>
  BY Zenon DEF Session!GiveUpPending
<1>2. Session!SessionTypes /\ Session!InOrder /\ Session!RanBefore /\ Session!CacheInv /\ Session!RepliesFit /\ Session!PendingIsSomewhere
  BY Zenon DEF Session!SessionInv
<1>3. Session!ShellTypes' /\ ~ Session!Taken' /\ v7'.pc = "waiting"
  BY <1>1, <1>2, ShellMoves, Zenon
<1>4. Onward /\ Session!InOrder'
  BY <1>1, <1>2, <1>3, OrderDone, Zenon
<1>5. Session!UnoTypes' /\ Session!LineTypes' /\ Session!AnswerTypes' /\ Session!LinkTypes' /\ Session!InboxTypes'
  BY <1>1, <1>2, Zenon
  DEF Session!SessionTypes, Session!UnoTypes, Session!LineTypes, Session!AnswerTypes,
      Session!LinkTypes, Session!InboxTypes
<1>6. Session!StoreTypes'
  BY <1>1, <1>2, SessionAssumption DEF Session!SessionTypes, Session!StoreTypes
<1>7. Session!RanBefore' /\ Session!CacheInv'
  BY <1>1, <1>2, <1>3, <1>4, RanKept, CacheWaits, Zenon
<1>8. Session!RepliesFit' /\ Session!PendingIsSomewhere'
  BY <1>1, <1>2 DEF Session!RepliesFit, Session!PendingIsSomewhere
<1> QED
  BY <1>3, <1>4, <1>5, <1>6, <1>7, <1>8, Zenon DEF Session!SessionInv, Session!SessionTypes

(* A line from the keyboard or the network is delivered.                   *)
LEMMA SessionDeliverOther ==
  ASSUME Session!SessionInv, Session!DeliverOther
  PROVE  Session!SessionInv'
<1>1. Session!Deliver(Session!Other) /\ UNCHANGED <<v1, v2, v3, v4, v5, v7, v8, v9, v10, v11>>
  BY Zenon DEF Session!DeliverOther
<1>2. Session!SessionTypes /\ Session!InOrder /\ Session!RanBefore /\ Session!CacheInv /\ Session!RepliesFit /\ Session!PendingIsSomewhere
  BY Zenon DEF Session!SessionInv
<1>3. PICK f : f = Session!Other
  BY Zenon
<1>4. f \in Session!Frames /\ Session!Proper(f) /\ f.kind = "other"
  BY <1>3, SessionAssumption
  DEF Session!Other, Session!None, Session!Frames, Session!Requests, Session!Proper
<1>5. /\ IsDelivered(f) /\ Session!InboxTypes'
      /\ (Session!Room => IsLonger(v6, v6', f, Session!Frames)) /\ (~ Session!Room => v6' = v6)
  BY <1>1, <1>2, <1>3, <1>4, Delivered, Zenon
<1>6. Onward /\ Session!InOrder'
  <2>1. CASE Session!Room
    BY <1>1, <1>2, <1>4, <1>5, <2>1, OrderDeliver, Zenon
  <2>2. CASE ~ Session!Room
    BY <1>1, <1>2, <1>5, <2>2, OrderDrop, Zenon
  <2> QED
    BY <2>1, <2>2, Zenon
<1>7. Session!UnoTypes' /\ Session!LineTypes' /\ Session!AnswerTypes' /\ Session!LinkTypes' /\ Session!ShellTypes' /\ Session!StoreTypes'
  BY <1>1, <1>2, Zenon
  DEF Session!SessionTypes, Session!UnoTypes, Session!LineTypes, Session!AnswerTypes,
      Session!LinkTypes, Session!ShellTypes, Session!StoreTypes
<1>8. Session!RanBefore'
  BY <1>1, <1>2, <1>6, RanKept, Zenon
<1>9. Session!CacheInv'
  <2>1. Session!HelloWaits \subseteq Session!HelloWaits'
    BY <1>1, <1>5, Zenon DEF Session!HelloWaits, IsDelivered
  <2>2. Session!CacheIsOwn'
    BY <1>1, <1>2, Zenon DEF Session!CacheInv, Session!CacheIsOwn, Session!Handled
  <2>3. StillSettled => Session!InboxSettled'
    BY <1>4, <1>5, Zenon DEF StillSettled, Session!InboxSettled, IsDelivered
  <2>4. StillSettled => Session!AskedSettled' /\ Session!TakenSettled'
    BY <1>1, Zenon
    DEF StillSettled, Session!AskedSettled, Session!TakenSettled, Session!Handled, Session!Greeted
  <2> QED
    BY <1>1, <1>2, <1>6, <2>1, <2>2, <2>3, <2>4, CacheKept, Zenon
<1>10. Session!RepliesFit'
  BY <1>1, <1>2, Zenon DEF Session!RepliesFit
<1>11. Session!PendingIsSomewhere'
  BY <1>1, <1>2, <1>5, Zenon DEF Session!PendingIsSomewhere, Session!Handled, IsDelivered
<1> QED
  BY <1>5, <1>6, <1>7, <1>8, <1>9, <1>10, <1>11, Zenon DEF Session!SessionInv, Session!SessionTypes

(* A request that runs is after all that ran.                              *)
LEMMA RanNew ==
  ASSUME Session!SessionTypes, Session!RanBefore, Onward, NEW m \in Session!Requests, m \in Session!Positions, m.seq >= 1,
         m \in Session!BeforeInbox, Session!BeforeInbox \subseteq Session!BeforeShell', \A r \in Session!BeforeShell : Session!Leq(r, m) /\ r \in Session!Positions,
         v8 # m.seq, v10' = Append(v10, m), v8' = m.seq
  PROVE  Session!RanBefore'
<1>1. PICK s, t, set : s = v10 /\ t = v10' /\ set = Session!Requests
  BY Zenon
<1>2. IsLonger(s, t, m, set)
  <2>1. s \in Seq(set) /\ m \in set /\ t = Append(s, m)
    BY <1>1, Zenon DEF Session!SessionTypes, Session!StoreTypes
  <2> QED
    BY <2>1, AppendFacts, Zenon
<1>3. \A i \in DOMAIN t : i \in Nat /\ ((i = Len(t) /\ t[i] = m) \/ (i \in DOMAIN s /\ t[i] = s[i]))
  BY <1>2, Zenon DEF IsLonger
<1>4. ASSUME NEW i \in DOMAIN s
      PROVE  /\ s[i] # m /\ s[i].seq >= 1 /\ s[i] \in Session!BeforeShell'
             /\ Session!Request(s[i].boot, s[i].seq + 1) \in Session!BeforeShell'
  <2>1. PICK r : r = s[i]
    BY Zenon
  <2>2. /\ r.seq >= 1 /\ r \in Session!BeforeShell /\ r \in Session!Positions /\ Session!Leq(r, m)
        /\ v8 = r.seq \/ Session!Request(r.boot, r.seq + 1) \in Session!BeforeShell
    BY <1>1, <2>1, Zenon DEF Session!RanBefore
  <2>3. r # m
    <3>1. CASE v8 = r.seq
      BY <3>1, Zenon
    <3>2. CASE Session!Request(r.boot, r.seq + 1) \in Session!BeforeShell
      <4>1. Session!Leq(Session!Request(r.boot, r.seq + 1), m)
        BY <3>2, Zenon
      <4> QED
        BY <2>2, <4>1 DEF Session!Leq, Session!Request, Session!Positions
    <3> QED
      BY <2>2, <3>1, <3>2, Zenon
  <2>4. r.boot < m.boot \/ (r.boot = m.boot /\ r.seq < m.seq)
    BY <2>2, <2>3 DEF Session!Leq, Session!Positions
  <2>5. Session!Request(r.boot, r.seq + 1) \in Session!Positions /\ Session!Leq(Session!Request(r.boot, r.seq + 1), m)
    BY <2>2, <2>4 DEF Session!Leq, Session!Request, Session!Positions
  <2>6. Session!Request(r.boot, r.seq + 1) \in Session!BeforeInbox
    BY <2>5, BeforeDown, Zenon
  <2> QED
    BY <2>1, <2>2, <2>3, <2>6, Zenon DEF Onward
<1>5. Session!RunOnce'
  <2>1. \A i, j \in DOMAIN s : s[i] = s[j] => i = j
    BY <1>1, Zenon DEF Session!RanBefore, Session!RunOnce
  <2>2. \A i, j \in DOMAIN t : t[i] = t[j] => i = j
    BY <1>3, <1>4, <2>1, Zenon
  <2> QED
    BY <1>1, <2>2, Zenon DEF Session!RunOnce
<1>6. m \in Session!BeforeShell'
  BY Zenon
<1>7. ASSUME NEW i \in DOMAIN t
      PROVE  /\ t[i].seq >= 1 /\ t[i] \in Session!BeforeShell'
             /\ v8' = t[i].seq \/ Session!Request(t[i].boot, t[i].seq + 1) \in Session!BeforeShell'
  BY <1>3, <1>4, <1>6, Zenon
<1> QED
  BY <1>1, <1>5, <1>7, Zenon DEF Session!RanBefore

(* Session::handle: a new request runs, the last is answered from the      *)
(* cache.                                                                  *)
LEMMA SessionHandleMsg ==
  ASSUME Session!SessionInv, Session!HandleMsg
  PROVE  Session!SessionInv'
<1>1. /\ v7.pc = "msg" /\ v7' = [v7 EXCEPT !.pc = "replied"]
      /\ v3' \in Session!Lossy(v3, Session!Answer("reply", Session!ReplySeq, v9'))
      /\ UNCHANGED <<v1, v2, v4, v5, v6, v11>>
  BY Zenon DEF Session!HandleMsg
<1>2. Session!SessionTypes /\ Session!InOrder /\ Session!RanBefore /\ Session!CacheInv /\ Session!RepliesFit /\ Session!PendingIsSomewhere
  BY Zenon DEF Session!SessionInv
<1>3. Session!ShellTypes' /\ ~ Session!Taken' /\ v7'.pc = "replied" /\ Session!Handled' = Session!Handled
  BY <1>1, <1>2, ShellMoves, Zenon
<1>4. Onward /\ Session!InOrder' /\ Session!BeforeInbox \subseteq Session!BeforeShell'
  BY <1>1, <1>2, <1>3, OrderDone, Zenon
<1>5. PICK m : m = Session!Handled
  BY Zenon
<1>6. \/ v8 = m.seq /\ UNCHANGED <<v8, v9, v10>>
      \/ v8 # m.seq /\ v9' = m /\ v10' = Append(v10, m) /\ v8' = m.seq
  BY <1>5, Zenon DEF Session!HandleMsg, Session!Seen
<1>7. m \in Session!Requests /\ m \in Session!Positions /\ m.seq >= 1 /\ m.boot >= 1
  BY <1>1, <1>2, <1>5, SessionKnown, SessionAssumption
  DEF Session!SessionTypes, Session!ShellTypes, Session!Frames, Session!Proper, Session!Handled,
      Session!Positions
<1>8. m \in Session!BeforeInbox /\ m \in Session!BeforeShell' /\ \A r \in Session!BeforeShell : Session!Leq(r, m) /\ r \in Session!Positions
  <2>1. Session!Taken /\ m = v7.frame.request
    BY <1>1, <1>5, Zenon DEF Session!Taken, Session!Handled
  <2>2. m \in Session!BeforeInbox
    BY <1>2, <2>1, Zenon DEF Session!InOrder
  <2>3. \A r \in Session!BeforeShell : Session!Leq(r, m) /\ r \in Session!Positions
    BY <2>1, Zenon DEF Session!BeforeShell, Session!BeforeInbox, Session!BeforeLink, Session!BeforeLine
  <2> QED
    BY <1>4, <2>2, <2>3, Zenon
<1>9. Session!HelloWaits \subseteq Session!HelloWaits'
  BY <1>1, Zenon DEF Session!HelloWaits
<1>10. Session!RanBefore'
  <2>1. CASE UNCHANGED <<v8, v10>>
    BY <1>2, <1>4, <2>1, RanKept, Zenon
  <2>2. CASE v8 # m.seq /\ v9' = m /\ v10' = Append(v10, m) /\ v8' = m.seq
    BY <1>2, <1>4, <1>7, <1>8, <2>2, RanNew, Zenon
  <2> QED
    BY <1>6, <2>1, <2>2, Zenon
<1>11. /\ v9' \in Session!Requests /\ v8' \in 0 .. MaxSeq /\ v10' \in Seq(Session!Requests)
       /\ v9' \in Session!BeforeShell' /\ v9'.seq = m.seq /\ v8' = m.seq /\ v9'.boot >= 1
  <2>1. CASE UNCHANGED <<v8, v9, v10>> /\ v8 = m.seq
    BY <1>2, <1>4, <1>7, <2>1
    DEF Session!SessionTypes, Session!StoreTypes, Session!CacheInv, Onward, Session!Positions
  <2>2. CASE v9' = m /\ v10' = Append(v10, m) /\ v8' = m.seq
    <3>1. v10' \in Seq(Session!Requests)
      BY <1>2, <1>7, <2>2 DEF Session!SessionTypes, Session!StoreTypes
    <3>2. m.seq \in 0 .. MaxSeq
      BY <1>7, Zenon DEF Session!Requests
    <3> QED
      BY <1>7, <1>8, <2>2, <3>1, <3>2, Zenon
  <2> QED
    BY <1>6, <2>1, <2>2, Zenon
<1>12. PICK a : a = Session!Answer("reply", Session!ReplySeq, v9')
  BY Zenon
<1>13. a \in Session!Answers /\ a.kind = "reply" /\ a.seq = m.seq /\ a.request = v9'
  BY <1>5, <1>7, <1>11, <1>12, Zenon
  DEF Session!Answer, Session!Answers, Session!ReplySeq, Session!Requests
<1>14. Session!AnswerTypes' /\ \A i \in DOMAIN v3' : v3'[i] = a \/ \E j \in DOMAIN v3 : v3'[i] = v3[j]
  BY <1>1, <1>2, <1>12, <1>13, AnswerSent, Zenon
<1>15. Session!SessionTypes'
  <2>1. Session!UnoTypes' /\ Session!LineTypes' /\ Session!LinkTypes' /\ Session!InboxTypes'
    BY <1>1, <1>2, Zenon
    DEF Session!SessionTypes, Session!UnoTypes, Session!LineTypes, Session!LinkTypes,
        Session!InboxTypes
  <2>2. Session!StoreTypes'
    BY <1>1, <1>2, <1>11, Zenon DEF Session!SessionTypes, Session!StoreTypes
  <2> QED
    BY <1>3, <1>14, <2>1, <2>2, Zenon DEF Session!SessionTypes
<1>16. Session!Settled \subseteq Session!Settled'
  <2>1. CASE UNCHANGED <<v8, v9>>
    BY <1>4, <1>9, <2>1, SettledKept, Zenon
  <2>2. CASE v9' = m
    <3>1. ASSUME NEW b \in Session!Settled, b \notin Session!HelloWaits
          PROVE  b \in Session!Settled'
      <4>1. b \in Nat /\ Session!Request(b, 0) \in Session!BeforeShell
        BY <3>1, Zenon DEF Session!Settled
      <4>2. Session!Request(b, 0) \in Session!BeforeShell' /\ Session!Leq(Session!Request(b, 0), m)
        BY <1>4, <1>8, <4>1, Zenon DEF Onward
      <4>3. m.boot >= b
        BY <1>7, <4>1, <4>2 DEF Session!Leq, Session!Request, Session!Positions
      <4> QED
        BY <2>2, <4>1, <4>2, <4>3, Zenon DEF Session!Settled
    <3>2. \A b \in Session!Settled : b \in Session!HelloWaits => b \in Session!Settled'
      BY <1>9, Zenon DEF Session!Settled
    <3> QED
      BY <3>1, <3>2, Zenon
  <2> QED
    BY <1>6, <2>1, <2>2, Zenon
<1>17. ~ v11 => v9' = m
  <2>1. CASE v9' = m
    BY <2>1, Zenon
  <2>2. CASE v8 = m.seq /\ UNCHANGED <<v8, v9, v10>>
    <3>1. SUFFICES ASSUME ~ v11 PROVE v9 = m
      BY <2>2, Zenon
    <3>2. m.boot \in Session!Settled
      BY <1>1, <1>2, <1>5, <3>1, Zenon DEF Session!CacheInv, Session!TakenSettled
    <3>3. m.boot \notin Session!HelloWaits
      <4>1. \A i \in DOMAIN v6 : v6[i].kind = "hello" => Session!Leq(m, v6[i].request) /\ v6[i].request \in Session!Positions
        BY <1>2, <1>8, SessionKnown, Zenon DEF Session!BeforeInbox
      <4>2. \A i \in DOMAIN v6 : v6[i].kind = "hello" => v6[i].request.seq = 0
        BY <1>2, Zenon DEF Session!SessionTypes, Session!InboxTypes, Session!Proper
      <4>3. \A i \in DOMAIN v6 : v6[i].kind = "hello" => v6[i].request.boot # m.boot
        BY <1>7, <4>1, <4>2 DEF Session!Leq, Session!Positions
      <4> QED
        BY <1>1, <4>3, Zenon DEF Session!HelloWaits
    <3>4. v8 > 0
      BY <1>7, <2>2 DEF Session!Positions
    <3>5. v9.boot >= m.boot /\ v9.seq = m.seq /\ Session!Leq(v9, m) /\ v9 \in Session!Positions
      BY <1>2, <1>8, <2>2, <3>2, <3>3, <3>4, Zenon DEF Session!Settled, Session!CacheInv
    <3>6. v9.boot = m.boot
      BY <1>7, <3>5 DEF Session!Leq, Session!Positions
    <3> QED
      BY <1>7, <3>5, <3>6 DEF Session!Positions
  <2> QED
    BY <1>6, <2>1, <2>2, Zenon
<1>18. Session!CacheInv'
  <2>1. Session!CacheIsOwn'
    BY <1>1, <1>3, <1>5, <1>17, Zenon DEF Session!CacheIsOwn
  <2>2. Session!Greeted' => Session!Greeted
    BY <1>13, <1>14, Zenon DEF Session!Greeted
  <2>3. ~ v11' => Session!AskedSettled' /\ Session!InboxSettled' /\ Session!TakenSettled'
    BY <1>1, <1>2, <1>3, <1>16, <2>2, Zenon
    DEF Session!CacheInv, Session!AskedSettled, Session!InboxSettled, Session!TakenSettled
  <2> QED
    BY <1>11, <2>1, <2>3, Zenon DEF Session!CacheInv
<1>19. Session!RepliesFit'
  <2>1. Session!Leq(v9', Session!Me) /\ v9' \in Session!Positions /\ Session!Me \in Session!Positions /\ Session!Me.boot = v1.boot
    <3>1. v9' \in Session!Positions
      BY <1>11, Zenon DEF Session!BeforeShell, Session!BeforeInbox, Session!BeforeLink, Session!BeforeLine
    <3>2. Session!Me' = Session!Me
      BY <1>1, Zenon DEF Session!Me
    <3>3. Session!Leq(v9', Session!Me)
      BY <1>11, <3>2, Zenon
      DEF Session!BeforeShell, Session!BeforeInbox, Session!BeforeLink, Session!BeforeLine
    <3> QED
      BY <1>2, <3>1, <3>3, SessionKnown, Zenon
  <2>2. v9'.boot \in 1 .. v1.boot
    BY <1>11, <2>1 DEF Session!Leq, Session!Positions
  <2> QED
    BY <1>1, <1>2, <1>11, <1>13, <1>14, <2>2, Zenon DEF Session!RepliesFit
<1>20. Session!PendingIsSomewhere'
  BY <1>1, <1>2, <1>3, Zenon DEF Session!PendingIsSomewhere
<1> QED
  BY <1>4, <1>10, <1>15, <1>18, <1>19, <1>20, Zenon DEF Session!SessionInv

(* The Uno says HELLO, or its request.                                     *)
LEMMA SessionSay ==
  ASSUME Session!SessionInv, Session!Say
  PROVE  Session!SessionInv'
<1>1. /\ v1.pc \in {"hello", "asks"} /\ v2' # v2 /\ UNCHANGED <<v1, v3, v4, v5, v6, v7, v8, v9, v10, v11>>
      /\ v2' \in Session!Lossy(v2, IF v1.pc = "hello" THEN Session!Hello(v1.boot) ELSE Session!Msg(Session!Request(v1.boot, v1.seq)))
  BY Zenon DEF Session!Say
<1>2. Session!SessionTypes /\ Session!InOrder /\ Session!RanBefore /\ Session!CacheInv /\ Session!RepliesFit /\ Session!PendingIsSomewhere
  BY Zenon DEF Session!SessionInv
<1>3. PICK f : f = IF v1.pc = "hello" THEN Session!Hello(v1.boot) ELSE Session!Msg(Session!Request(v1.boot, v1.seq))
  BY Zenon
<1>4. v1.boot \in 1 .. MaxBoots /\ v1.seq \in 0 .. MaxSeq /\ (v1.pc = "hello" <=> v1.seq = 0)
  BY <1>2, Zenon DEF Session!SessionTypes, Session!UnoTypes
<1>5. f.request = Session!Me /\ f.kind = IF v1.seq = 0 THEN "hello" ELSE "msg"
  BY <1>3, <1>4, Zenon DEF Session!Hello, Session!Msg, Session!Request, Session!Me
<1>6. Session!Me \in Session!Requests /\ Session!Me.boot = v1.boot /\ Session!Me.seq = v1.seq
  BY <1>4, SessionAssumption DEF Session!Requests, Session!Me, Session!Request
<1>7. f \in Session!Frames
  BY <1>3, <1>4, <1>6, Zenon DEF Session!Frames, Session!Hello, Session!Msg, Session!Request, Session!Me
<1>8. f.kind # "other" /\ Session!Proper(f) /\ f.request.boot = v1.boot
  BY <1>4, <1>5, <1>6, SessionAssumption DEF Session!Proper
<1>9. Len(v2) < MaxWire /\ v2' = Append(v2, f)
  BY <1>1, <1>3, Zenon DEF Session!Lossy
<1>10. IsLonger(v2, v2', f, Session!Frames)
  <2>1. PICK s, t, set : s = v2 /\ t = v2' /\ set = Session!Frames
    BY Zenon
  <2>2. s \in Seq(set) /\ f \in set /\ t = Append(s, f)
    BY <1>2, <1>7, <1>9, <2>1, Zenon DEF Session!SessionTypes, Session!LineTypes
  <2>3. IsLonger(s, t, f, set)
    BY <2>2, AppendFacts, Zenon
  <2> QED
    BY <2>1, <2>3, Zenon
<1>11. Onward /\ Session!InOrder'
  BY <1>1, <1>2, <1>5, <1>7, <1>10, OrderSay, Zenon
<1>12. Session!SessionTypes'
  <2>1. /\ v2' \in Seq(Session!Frames) /\ Len(v2') = Len(v2) + 1 /\ Len(v2) \in Nat
        /\ \A i \in DOMAIN v2' : v2'[i] = f \/ (i \in DOMAIN v2 /\ v2'[i] = v2[i])
    BY <1>10, Zenon DEF IsLonger
  <2>2. Len(v2') <= MaxWire
    BY <1>9, <2>1, SessionAssumption
  <2>3. Session!LineTypes'
    BY <1>1, <1>2, <1>8, <2>1, <2>2, Zenon DEF Session!SessionTypes, Session!LineTypes
  <2>4. Session!UnoTypes' /\ Session!AnswerTypes' /\ Session!LinkTypes' /\ Session!InboxTypes' /\ Session!ShellTypes' /\ Session!StoreTypes'
    BY <1>1, <1>2, Zenon
    DEF Session!SessionTypes, Session!UnoTypes, Session!AnswerTypes, Session!LinkTypes,
        Session!InboxTypes, Session!ShellTypes, Session!StoreTypes
  <2> QED
    BY <2>3, <2>4, Zenon DEF Session!SessionTypes
<1>13. Session!RanBefore' /\ Session!CacheInv'
  BY <1>1, <1>2, <1>11, RanKept, CacheUntouched, Zenon
<1>14. Session!RepliesFit' /\ Session!PendingIsSomewhere'
  BY <1>1, <1>2, Zenon DEF Session!RepliesFit, Session!PendingIsSomewhere, Session!Handled
<1> QED
  BY <1>11, <1>12, <1>13, <1>14, Zenon DEF Session!SessionInv

(* The Uno goes on: what is on the line to the Pi, in the link task, the   *)
(* inbox and the shell stays, and is before what the Uno says next.        *)
LEMMA UnoGoesOn ==
  ASSUME Session!SessionInv, UNCHANGED <<v2, v4, v5, v6, v7, v8, v9, v10, v11>>, Session!UnoTypes', Session!AnswerTypes',
         Session!LineTypes', Session!LinkTypes', Session!RepliesFit', v1'.boot > v1.boot \/ (v1'.boot = v1.boot /\ v1'.seq >= v1.seq),
         Session!Settled \subseteq Session!Settled' /\ Session!AskedSettled => Session!AskedSettled'
  PROVE  Session!SessionInv'
<1>1. Session!SessionTypes /\ Session!InOrder /\ Session!RanBefore /\ Session!CacheInv /\ Session!PendingIsSomewhere
  BY Zenon DEF Session!SessionInv
<1>2. Session!Me' \in Session!Positions /\ Session!Leq(Session!Me, Session!Me')
  <2>1. v1.boot \in Nat /\ v1.seq \in Nat
    BY <1>1, SessionAssumption DEF Session!SessionTypes, Session!UnoTypes
  <2>2. v1'.boot \in Nat /\ v1'.seq \in Nat
    BY SessionAssumption DEF Session!UnoTypes
  <2> QED
    BY <2>1, <2>2, Zenon DEF Session!Me, Session!Request, Session!Positions, Session!Leq
<1>3. Onward /\ Session!InOrder'
  BY <1>1, <1>2, OrderUno, Zenon
<1>4. Session!InboxTypes' /\ Session!ShellTypes' /\ Session!StoreTypes'
  BY <1>1, Zenon DEF Session!SessionTypes, Session!InboxTypes, Session!ShellTypes, Session!StoreTypes
<1>5. Session!RanBefore'
  BY <1>1, <1>3, RanKept, Zenon
<1>6. Session!CacheInv'
  <2>1. Session!HelloWaits' = Session!HelloWaits
    BY Zenon DEF Session!HelloWaits
  <2>2. Session!CacheIsOwn'
    BY <1>1, Zenon DEF Session!CacheInv, Session!CacheIsOwn, Session!Handled
  <2>3. StillSettled => Session!AskedSettled' /\ Session!InboxSettled' /\ Session!TakenSettled'
    BY Zenon DEF StillSettled, Session!InboxSettled, Session!TakenSettled, Session!Handled
  <2> QED
    BY <1>1, <1>3, <2>1, <2>2, <2>3, CacheKept, Zenon
<1>7. Session!PendingIsSomewhere'
  BY <1>1, Zenon DEF Session!PendingIsSomewhere, Session!Handled
<1> QED
  BY <1>3, <1>4, <1>5, <1>6, <1>7, Zenon DEF Session!SessionInv, Session!SessionTypes

(* The Uno hears an answer.                                                *)
LEMMA SessionHear ==
  ASSUME Session!SessionInv, Session!Hear
  PROVE  Session!SessionInv'
<1>1. v3 # <<>> /\ v3' = Tail(v3) /\ UNCHANGED <<v2, v4, v5, v6, v7, v8, v9, v10, v11>>
  BY Zenon DEF Session!Hear
<1>2. Session!SessionTypes /\ Session!RepliesFit
  BY Zenon DEF Session!SessionInv
<1>3. PICK s, t, set : s = v3 /\ t = v3' /\ set = Session!Answers
  BY Zenon
<1>4. IsTail(s, t, set) /\ Head(s) = s[1]
  <2>1. s \in Seq(set) /\ s # <<>> /\ t = Tail(s)
    BY <1>1, <1>2, <1>3, Zenon DEF Session!SessionTypes, Session!AnswerTypes
  <2> QED
    BY <2>1, TailFacts, Zenon
<1>5. /\ t \in Seq(set) /\ Len(s) \in Nat /\ Len(t) = Len(s) - 1 /\ 1 \in DOMAIN s /\ s[1] \in set
      /\ \A i \in DOMAIN t : i + 1 \in DOMAIN s /\ t[i] = s[i + 1]
  BY <1>4, Zenon DEF IsTail
<1>6. PICK a : a = s[1]
  BY Zenon
<1>7. /\ a \in Session!Answers /\ a.request \in Session!Requests /\ (a.kind = "hello" => Session!Greeted)
      /\ a.kind = "reply" => a.request.seq = a.seq /\ a.request.boot \in 1 .. v1.boot
  BY <1>2, <1>3, <1>5, <1>6, Zenon DEF Session!Answers, Session!Greeted, Session!RepliesFit
<1>8. \/ v1.pc = "hello" /\ a.kind = "hello" /\ v1' = Session!Asking(1)
      \/ /\ v1.pc = "asks" /\ a.kind = "reply" /\ a.seq = v1.seq
         /\ v1' = [boot |-> v1.boot, pc |-> "took", seq |-> v1.seq, took |-> a.request]
      \/ v1' = v1
  BY <1>3, <1>4, <1>6, Zenon DEF Session!Hear
<1>9. /\ v1 \in [boot : 1 .. MaxBoots, pc : {"hello", "asks", "took"}, seq : 0 .. MaxSeq, took : Session!Requests]
      /\ v1.pc = "hello" <=> v1.seq = 0
  BY <1>2, Zenon DEF Session!SessionTypes, Session!UnoTypes
<1>10. Session!UnoTypes' /\ v1'.boot = v1.boot /\ v1'.seq >= v1.seq
  <2>1. CASE v1.pc = "hello" /\ a.kind = "hello" /\ v1' = Session!Asking(1)
    <3>1. Session!None \in Session!Requests /\ 1 \in 0 .. MaxSeq
      BY SessionAssumption DEF Session!None, Session!Requests
    <3> QED
      BY <1>9, <2>1, <3>1 DEF Session!UnoTypes, Session!Asking
  <2>2. CASE v1.pc = "asks" /\ v1' = [boot |-> v1.boot, pc |-> "took", seq |-> v1.seq, took |-> a.request]
    BY <1>7, <1>9, <2>2 DEF Session!UnoTypes
  <2>3. CASE v1' = v1
    BY <1>9, <2>3, SessionAssumption DEF Session!UnoTypes
  <2> QED
    BY <1>8, <2>1, <2>2, <2>3, Zenon
<1>11. Session!AnswerTypes'
  <2>1. Len(v3') <= MaxWire
    BY <1>2, <1>3, <1>5, SessionAssumption DEF Session!SessionTypes, Session!AnswerTypes
  <2> QED
    BY <1>3, <1>5, <2>1, Zenon DEF Session!AnswerTypes
<1>12. Session!LineTypes' /\ Session!LinkTypes'
  BY <1>1, <1>2, <1>10, Zenon DEF Session!SessionTypes, Session!LineTypes, Session!LinkTypes
<1>13. Session!RepliesFit'
  <2>1. \A i \in DOMAIN v3' : v3'[i].kind = "reply" =>
           v3'[i].request.seq = v3'[i].seq /\ v3'[i].request.boot \in 1 .. v1.boot
    BY <1>2, <1>3, <1>5 DEF Session!RepliesFit
  <2>2. v1'.pc = "took" => v1'.took.seq = v1'.seq /\ v1'.took.boot \in 1 .. v1.boot
    BY <1>2, <1>7, <1>8 DEF Session!RepliesFit, Session!Asking
  <2> QED
    BY <1>10, <2>1, <2>2, Zenon DEF Session!RepliesFit
<1>14. Session!Settled \subseteq Session!Settled' /\ Session!AskedSettled => Session!AskedSettled'
  <2>1. (Session!Greeted' => Session!Greeted) /\ (v1'.pc # "hello" => v1.pc # "hello" \/ Session!Greeted)
    BY <1>3, <1>5, <1>7, <1>8, Zenon DEF Session!Greeted
  <2> QED
    BY <1>10, <2>1, Zenon DEF Session!AskedSettled
<1> QED
  BY <1>1, <1>10, <1>11, <1>12, <1>13, <1>14, UnoGoesOn, Zenon

(* The Uno makes its next request.                                         *)
LEMMA SessionAskNext ==
  ASSUME Session!SessionInv, Session!AskNext
  PROVE  Session!SessionInv'
<1>1. /\ v1.pc \in {"asks", "took"} /\ v1.seq < MaxSeq /\ v1' = Session!Asking(v1.seq + 1)
      /\ UNCHANGED <<v2, v3, v4, v5, v6, v7, v8, v9, v10, v11>>
  BY Zenon DEF Session!AskNext
<1>2. Session!SessionTypes /\ Session!RepliesFit
  BY Zenon DEF Session!SessionInv
<1>3. v1.boot \in 1 .. MaxBoots /\ v1.seq \in 0 .. MaxSeq
  BY <1>2, Zenon DEF Session!SessionTypes, Session!UnoTypes
<1>4. v1'.boot = v1.boot /\ v1'.seq = v1.seq + 1 /\ v1'.pc = "asks" /\ v1.seq + 1 \in 1 .. MaxSeq
  BY <1>1, <1>3, SessionAssumption DEF Session!Asking
<1>5. Session!UnoTypes'
  <2>1. Session!None \in Session!Requests
    BY SessionAssumption DEF Session!None, Session!Requests
  <2> QED
    BY <1>1, <1>3, <1>4, <2>1, SessionAssumption DEF Session!UnoTypes, Session!Asking
<1>6. Session!AnswerTypes' /\ Session!LineTypes' /\ Session!LinkTypes' /\ Session!RepliesFit'
  BY <1>1, <1>2, <1>4, Zenon
  DEF Session!SessionTypes, Session!AnswerTypes, Session!LineTypes, Session!LinkTypes,
      Session!RepliesFit
<1>7. Session!Settled \subseteq Session!Settled' /\ Session!AskedSettled => Session!AskedSettled'
  BY <1>1, <1>4, Zenon DEF Session!AskedSettled
<1>8. v1'.seq >= v1.seq
  BY <1>3, <1>4
<1> QED
  BY <1>1, <1>4, <1>5, <1>6, <1>7, <1>8, UnoGoesOn, Zenon

(* The Uno restarts.                                                       *)
LEMMA SessionRestart ==
  ASSUME Session!SessionInv, Session!Restart
  PROVE  Session!SessionInv'
<1>1. /\ v1.boot < MaxBoots /\ v2 = <<>> /\ v4.pc = "reading" /\ v3' = <<>>
      /\ v1' = [boot |-> v1.boot + 1, pc |-> "hello", seq |-> 0, took |-> Session!None]
      /\ UNCHANGED <<v2, v4, v5, v6, v7, v8, v9, v10, v11>>
  BY Zenon DEF Session!Restart
<1>2. Session!SessionTypes
  BY Zenon DEF Session!SessionInv
<1>3. v1.boot \in 1 .. MaxBoots
  BY <1>2, Zenon DEF Session!SessionTypes, Session!UnoTypes
<1>4. v1'.boot = v1.boot + 1 /\ v1'.seq = 0 /\ v1'.pc = "hello" /\ v1.boot + 1 \in 1 .. MaxBoots /\ v1'.boot > v1.boot
  BY <1>1, <1>3, SessionAssumption
<1>5. Session!UnoTypes'
  <2>1. Session!None \in Session!Requests
    BY SessionAssumption DEF Session!None, Session!Requests
  <2> QED
    BY <1>1, <1>4, <2>1, SessionAssumption DEF Session!UnoTypes
<1>6. v3' \in Seq(Session!Answers) /\ Len(v3') = 0 /\ DOMAIN v3' = {} /\ DOMAIN v2' = {}
  BY <1>1
<1>7. Session!AnswerTypes' /\ Session!RepliesFit' /\ ~ Session!Greeted'
  BY <1>4, <1>6, SessionAssumption DEF Session!AnswerTypes, Session!RepliesFit, Session!Greeted
<1>8. Session!LineTypes' /\ Session!LinkTypes'
  BY <1>1, <1>2, <1>6, Zenon DEF Session!SessionTypes, Session!LineTypes, Session!LinkTypes
<1>9. Session!AskedSettled'
  BY <1>4, <1>7, Zenon DEF Session!AskedSettled
<1> QED
  BY <1>1, <1>4, <1>5, <1>7, <1>8, <1>9, UnoGoesOn, Zenon

(* The invariant holds at the start.                                       *)
LEMMA SessionInit ==
  ASSUME Session!Init
  PROVE  Session!SessionInv
<1>1. /\ v1 = [boot |-> 1, pc |-> "hello", seq |-> 0, took |-> Session!None] /\ v2 = <<>> /\ v3 = <<>> /\ v4 = Session!Reading
      /\ v5 = 0 /\ v6 = <<>> /\ v7 = [pc |-> "waiting", frame |-> Session!Other] /\ v8 = 0 /\ v9 = Session!None /\ v10 = <<>>
      /\ v11 = FALSE
  BY Zenon DEF Session!Init
<1>2. Session!None \in Session!Requests /\ Session!Other \in Session!Frames /\ Session!Proper(Session!Other) /\ Session!None \in Session!Positions
  BY SessionAssumption
  DEF Session!Other, Session!None, Session!Frames, Session!Requests, Session!Proper,
      Session!Positions
<1>3. DOMAIN v2 = {} /\ DOMAIN v3 = {} /\ DOMAIN v6 = {} /\ DOMAIN v10 = {}
  BY <1>1
<1>4. v4.pc = "reading" /\ v4.frame = Session!Other /\ v7.pc = "waiting" /\ v7.frame = Session!Other /\ ~ Session!Linked /\ ~ Session!Taken
  BY <1>1, Zenon DEF Session!Reading, Session!Linked, Session!Taken
<1>5. Session!SessionTypes
  <2>1. Session!UnoTypes
    BY <1>1, <1>2, SessionAssumption DEF Session!UnoTypes
  <2>2. Session!LineTypes /\ Session!AnswerTypes /\ Session!InboxTypes
    BY <1>1, <1>3, SessionAssumption DEF Session!LineTypes, Session!AnswerTypes, Session!InboxTypes
  <2>3. Session!LinkTypes
    <3>1. v4 \in [pc : {"reading", "hello", "deliver", "undo"}, frame : Session!Frames]
      BY <1>1, <1>2, Zenon DEF Session!Reading
    <3> QED
      BY <1>2, <1>4, <3>1, Zenon DEF Session!LinkTypes
  <2>4. Session!ShellTypes
    BY <1>1, <1>2, <1>4, Zenon DEF Session!ShellTypes
  <2>5. v11 \in BOOLEAN
    BY <1>1, Zenon
  <2>6. Session!StoreTypes
    BY <1>1, <1>2, <2>5, SessionAssumption DEF Session!StoreTypes
  <2> QED
    BY <2>1, <2>2, <2>3, <2>4, <2>6, Zenon DEF Session!SessionTypes
<1>6. Session!InOrder
  BY <1>3, <1>4, Zenon DEF Session!InOrder
<1>7. Session!RanBefore
  BY <1>3, Zenon DEF Session!RanBefore, Session!RunOnce
<1>8. Session!CacheInv
  <2>1. Session!Leq(Session!None, Session!Me)
    BY <1>1 DEF Session!Leq, Session!None, Session!Me, Session!Request
  <2>2. v9 \in Session!BeforeShell
    BY <1>1, <1>2, <1>3, <1>4, <2>1, Zenon
    DEF Session!BeforeShell, Session!BeforeInbox, Session!BeforeLink, Session!BeforeLine
  <2>3. Session!AskedSettled /\ Session!InboxSettled /\ Session!TakenSettled /\ Session!CacheIsOwn
    BY <1>1, <1>3, <1>4, Zenon
    DEF Session!AskedSettled, Session!InboxSettled, Session!TakenSettled, Session!CacheIsOwn,
        Session!Greeted
  <2> QED
    BY <1>1, <2>2, <2>3 DEF Session!CacheInv
<1>9. Session!RepliesFit /\ Session!PendingIsSomewhere
  BY <1>1, <1>3 DEF Session!RepliesFit, Session!PendingIsSomewhere
<1> QED
  BY <1>5, <1>6, <1>7, <1>8, <1>9, Zenon DEF Session!SessionInv

(* Every step keeps it.                                                    *)
LEMMA SessionNext ==
  ASSUME Session!SessionInv, [Session!Next]_(Session!vars)
  PROVE  Session!SessionInv'
<1>1. CASE Session!LinkTask
  BY <1>1, SessionReadHello, SessionPassHello, SessionReadMsg, SessionPassMsg, SessionUndoPending,
      Zenon
  DEF Session!LinkTask
<1>2. CASE Session!ShellTask
  BY <1>2, SessionTakeFrame, SessionResetSession, SessionRunOther, SessionHandleMsg,
      SessionGiveUpPending, Zenon
  DEF Session!ShellTask
<1>3. CASE Session!DeliverOther
  BY <1>3, SessionDeliverOther, Zenon
<1>4. CASE Session!Uno
  BY <1>4, SessionSay, SessionHear, SessionAskNext, SessionRestart, Zenon DEF Session!Uno
<1>5. CASE UNCHANGED Session!vars
  <2>1. UNCHANGED <<v1, v2, v3, v4, v5, v6, v7, v8, v9, v10, v11>>
    BY <1>5, Zenon DEF Session!vars
  <2>2. Session!UnoTypes' /\ Session!AnswerTypes' /\ Session!LineTypes' /\ Session!LinkTypes' /\ Session!RepliesFit'
    BY <2>1, Zenon
    DEF Session!SessionInv, Session!SessionTypes, Session!UnoTypes, Session!AnswerTypes,
        Session!LineTypes, Session!LinkTypes, Session!RepliesFit
  <2>3. v1'.seq >= v1.seq
    BY <2>1, SessionAssumption DEF Session!SessionInv, Session!SessionTypes, Session!UnoTypes
  <2>4. Session!Settled \subseteq Session!Settled' /\ Session!AskedSettled => Session!AskedSettled'
    BY <2>1, Zenon DEF Session!AskedSettled, Session!Greeted
  <2> QED
    BY <2>1, <2>2, <2>3, <2>4, UnoGoesOn, Zenon
<1> QED
  BY <1>1, <1>2, <1>3, <1>4, <1>5, Zenon DEF Session!Next

(* What it is for.                                                         *)
LEMMA SessionSafe ==
  ASSUME Session!SessionInv
  PROVE  Session!TypeOK /\ Session!RunOnce /\ Session!BusyIsTrue /\ Session!CacheIsOwn /\ Session!TakesOwnReply
<1>1. Session!TypeOK
  BY Zenon DEF Session!SessionInv, Session!SessionTypes, Session!UnoTypes, Session!LineTypes,
      Session!AnswerTypes, Session!LinkTypes, Session!InboxTypes, Session!ShellTypes,
      Session!StoreTypes, Session!TypeOK
<1>2. Session!RunOnce /\ Session!CacheIsOwn
  BY Zenon DEF Session!SessionInv, Session!RanBefore, Session!CacheInv
<1>3. Session!BusyIsTrue
  BY Zenon DEF Session!SessionInv, Session!PendingIsSomewhere, Session!BusyIsTrue
<1>4. Session!TakesOwnReply
  <2>1. SUFFICES ASSUME v1.pc = "took", v1.boot = 1
                 PROVE  v1.took = Session!Request(v1.boot, v1.seq)
    BY Zenon DEF Session!TakesOwnReply
  <2>2. v1.took \in Session!Requests /\ v1.took.seq = v1.seq /\ v1.took.boot \in 1 .. 1
    BY <2>1, Zenon DEF Session!SessionInv, Session!SessionTypes, Session!UnoTypes, Session!RepliesFit
  <2>3. v1.took.boot = 1
    BY <2>2
  <2> QED
    BY <2>1, <2>2, <2>3, Zenon DEF Session!Requests, Session!Request
<1> QED
  BY <1>1, <1>2, <1>3, <1>4, Zenon

(* A request of the Uno runs once, BUSY is told only of a request that     *)
(* waits or runs, and a request is answered with its own reply, however    *)
(* many requests and starts there are, however long the inbox and the line *)
(* are, and whatever the line loses (session.rs: Session::handle, main.rs: *)
(* link_task and shell_task).                                              *)
THEOREM RequestsRunOnceAlways == Session!Spec => []RequestsRunOnce
<1>1. Session!Init => Session!SessionInv
  BY SessionInit, Zenon
<1>2. Session!SessionInv /\ [Session!Next]_(Session!vars) => Session!SessionInv'
  BY SessionNext, Zenon
<1>3. Session!SessionInv => RequestsRunOnce
  BY SessionSafe, Zenon DEF RequestsRunOnce
<1> QED
  BY <1>1, <1>2, <1>3, PTL DEF Session!Spec
=============================================================================
