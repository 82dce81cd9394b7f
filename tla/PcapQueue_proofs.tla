--------------------------- MODULE PcapQueue_proofs ---------------------------
(***************************************************************************)
(* Buffer conservation for the packet pipeline of pcap-queue, and that the *)
(* pipeline implements PacketPool, for every number of workers, ring size, *)
(* counter width and set of packets.                                       *)
(***************************************************************************)
EXTENDS PcapQueue, FiniteSetTheorems, Sequences, TLAPS

-----------------------------------------------------------------------------
(* The index arithmetic, for every Wrap and every ring size that divides   *)
(* it: remainders, without the remainder.                                  *)

\* ++ on a counter is + 1, except at the top.
LEMMA IncValue ==
  ASSUME NEW x \in Counter
  PROVE  /\ Inc(x) \in Counter
         /\ Inc(x) = IF x = Wrap - 1 THEN 0 ELSE x + 1
<1>1. CASE x = Wrap - 1
  BY <1>1, WrapAssumption DEF Inc, Counter
<1>2. CASE x # Wrap - 1
  BY <1>2, WrapAssumption DEF Inc, Counter
<1>3. QED
  BY <1>1, <1>2

\* x - y in uint32_t arithmetic.
LEMMA DistValue ==
  ASSUME NEW x \in Counter, NEW y \in Counter
  PROVE  /\ Dist(x, y) \in Counter
         /\ Dist(x, y) = IF x >= y THEN x - y ELSE x - y + Wrap
<1>1. CASE x >= y
  BY <1>1, WrapAssumption DEF Dist, Counter
<1>2. CASE x < y
  BY <1>2, WrapAssumption DEF Dist, Counter
<1>3. QED
  BY <1>1, <1>2 DEF Counter

LEMMA DivMod ==
  ASSUME NEW S \in Nat \ {0}, NEW x \in Int
  PROVE  x \div S \in Int /\ x % S \in 0 .. S - 1 /\ x = S * (x \div S) + (x % S)
OBVIOUS

LEMMA NoMultipleBelow ==
  ASSUME NEW S \in Nat \ {0}, NEW m \in Int, 0 < S * m, S * m < S
  PROVE  FALSE
<1>1. CASE m <= 0
  BY <1>1
<1>2. CASE m >= 1
  BY <1>2
<1>3. QED
  BY <1>1, <1>2

\* Numbers that differ, up to a multiple of S, by less than S have different
\* remainders.
LEMMA CloseRemaindersDiffer ==
  ASSUME NEW S \in Nat \ {0}, NEW k \in Int, NEW x \in Int, NEW y \in Int,
         0 < x + S * k - y, x + S * k - y < S
  PROVE  x % S # y % S
<1>1. SUFFICES ASSUME x % S = y % S
               PROVE  FALSE
  OBVIOUS
<1> DEFINE a == x \div S
           b == y \div S
<1>2. a \in Int /\ x = S * a + (x % S) /\ x % S \in 0 .. S - 1
  BY DivMod
<1>3. b \in Int /\ y = S * b + (y % S)
  BY DivMod
<1> HIDE DEF a, b
<1>4. S * a \in Int /\ S * b \in Int /\ S * k \in Int
  BY <1>2, <1>3
<1>5. S * (a + k - b) = S * a + S * k - S * b
  BY <1>2, <1>3
<1>6. S * (a + k - b) = x + S * k - y
  BY <1>1, <1>2, <1>3, <1>4, <1>5
<1>7. a + k - b \in Int
  BY <1>2, <1>3
<1>8. QED
  BY <1>6, <1>7, NoMultipleBelow

-----------------------------------------------------------------------------
(* Windows.                                                                *)

\* Adding an element at `put`.
LEMMA WindowPut ==
  ASSUME NEW put \in Counter, NEW get \in Counter, Dist(put, get) < Wrap - 1
  PROVE  /\ Dist(Inc(put), get) = Dist(put, get) + 1
         /\ Window(Inc(put), get) = Window(put, get) \cup {put}
         /\ put \notin Window(put, get)
<1>1. Dist(Inc(put), get) = Dist(put, get) + 1
  <2>1. Inc(put) \in Counter /\ Inc(put) = IF put = Wrap - 1 THEN 0 ELSE put + 1
    BY IncValue
  <2>2. /\ Dist(put, get) = IF put >= get THEN put - get ELSE put - get + Wrap
        /\ Dist(Inc(put), get) = IF Inc(put) >= get THEN Inc(put) - get
                                ELSE Inc(put) - get + Wrap
    BY <2>1, DistValue
  <2>3. QED
    BY <2>1, <2>2, WrapAssumption DEF Counter
<1>2. ASSUME NEW x \in Counter, Dist(x, get) = Dist(put, get)
      PROVE  x = put
  <2>1. /\ Dist(put, get) = IF put >= get THEN put - get ELSE put - get + Wrap
        /\ Dist(x, get) = IF x >= get THEN x - get ELSE x - get + Wrap
    BY DistValue
  <2>2. QED
    BY <1>2, <2>1, WrapAssumption DEF Counter
<1>3. \A x \in Counter : Dist(x, get) \in Nat
  BY DistValue DEF Counter
<1>4. ASSUME NEW x \in Counter
      PROVE  Dist(x, get) < Dist(put, get) + 1 <=> Dist(x, get) < Dist(put, get) \/ x = put
  BY <1>2, <1>3
<1>5. QED
  BY <1>1, <1>3, <1>4 DEF Window

\* Removing the element at `get`.
LEMMA WindowTake ==
  ASSUME NEW put \in Counter, NEW get \in Counter, put # get
  PROVE  /\ Dist(put, Inc(get)) = Dist(put, get) - 1
         /\ Window(put, Inc(get)) = Window(put, get) \ {get}
         /\ get \in Window(put, get)
<1>1. Inc(get) \in Counter /\ Inc(get) = IF get = Wrap - 1 THEN 0 ELSE get + 1
  BY IncValue
<1>2. ASSUME NEW x \in Counter
      PROVE  /\ Dist(x, Inc(get)) = IF x = get THEN Wrap - 1 ELSE Dist(x, get) - 1
             /\ Dist(x, get) \in Nat /\ Dist(x, get) < Wrap
             /\ Dist(x, get) = 0 <=> x = get
  <2>1. /\ Dist(x, get) = IF x >= get THEN x - get ELSE x - get + Wrap
        /\ Dist(x, Inc(get)) = IF x >= Inc(get) THEN x - Inc(get)
                               ELSE x - Inc(get) + Wrap
    BY <1>1, DistValue
  <2>2. QED
    BY <1>1, <2>1, WrapAssumption DEF Counter
<1>3. Dist(put, Inc(get)) = Dist(put, get) - 1
  BY <1>2
<1>4. ASSUME NEW x \in Counter
      PROVE  Dist(x, Inc(get)) < Dist(put, Inc(get))
               <=> Dist(x, get) < Dist(put, get) /\ x # get
  BY <1>2, WrapAssumption
<1>5. Dist(get, get) < Dist(put, get)
  BY <1>2
<1>6. QED
  BY <1>3, <1>4, <1>5 DEF Window

\* A ring with room: the slot at `put` is none of the queued ones.
LEMMA FreeSlot ==
  ASSUME NEW size \in Nat \ {0}, size < Wrap, Wrap % size = 0,
         NEW put \in Counter, NEW get \in Counter, Dist(put, get) < size,
         NEW x \in Window(put, get)
  PROVE  Slot(x, size) # Slot(put, size)
<1> DEFINE k == Wrap \div size
<1>1. k \in Int /\ Wrap = size * k
  BY DivMod, WrapAssumption
<1> HIDE DEF k
<1>2. /\ x \in Counter /\ Dist(x, get) < Dist(put, get)
      /\ Dist(x, get) = IF x >= get THEN x - get ELSE x - get + Wrap
      /\ Dist(put, get) = IF put >= get THEN put - get ELSE put - get + Wrap
  BY DistValue DEF Window
<1>3. CASE x < put
  <2>1. put - x < size
    BY <1>2, <1>3, WrapAssumption DEF Counter
  <2>2. size * 0 = 0
    OBVIOUS
  <2>3. 0 < put + size * 0 - x /\ put + size * 0 - x < size
    BY <1>2, <1>3, <2>1, <2>2 DEF Counter
  <2>4. put \in Int /\ x \in Int
    BY <1>2 DEF Counter
  <2>5. put % size # x % size
    BY <2>3, <2>4, CloseRemaindersDiffer
  <2>6. QED
    BY <2>5 DEF Slot
<1>4. CASE x >= put
  <2>1. 0 < put + Wrap - x /\ put + Wrap - x < size
    BY <1>2, <1>4, WrapAssumption DEF Counter
  <2>2. 0 < put + size * k - x /\ put + size * k - x < size
    BY <1>1, <2>1
  <2>3. put \in Int /\ x \in Int
    BY <1>2 DEF Counter
  <2>4. put % size # x % size
    BY <1>1, <2>2, <2>3, CloseRemaindersDiffer
  <2>5. QED
    BY <2>4 DEF Slot
<1>5. QED
  BY <1>2, <1>3, <1>4 DEF Counter

\* A window has as many elements as the counters say.
LEMMA WindowCardinality ==
  ASSUME NEW put \in Counter, NEW get \in Counter
  PROVE  /\ IsFiniteSet(Window(put, get))
         /\ Cardinality(Window(put, get)) = Dist(put, get)
<1> DEFINE n == Dist(put, get)
           g == [i \in 1 .. n |-> IF get + i - 1 < Wrap THEN get + i - 1
                                  ELSE get + i - 1 - Wrap]
<1>1. n \in Nat /\ n < Wrap
  BY DistValue, WrapAssumption DEF Counter
<1>2. g \in [1 .. n -> Window(put, get)]
  <2>1. SUFFICES ASSUME NEW i \in 1 .. n
                 PROVE  g[i] \in Window(put, get)
    OBVIOUS
  <2>2. g[i] \in Counter
    BY <1>1, WrapAssumption DEF Counter
  <2>3. Dist(g[i], get) = IF g[i] >= get THEN g[i] - get ELSE g[i] - get + Wrap
    BY <2>2, DistValue
  <2>4. Dist(g[i], get) = i - 1
    BY <1>1, <2>2, <2>3, WrapAssumption DEF Counter
  <2>5. QED
    BY <1>1, <2>2, <2>4 DEF Window
<1>3. \A i, j \in 1 .. n : g[i] = g[j] => i = j
  BY <1>1, WrapAssumption DEF Counter
<1>4. \A x \in Window(put, get) : \E i \in 1 .. n : g[i] = x
  <2>1. SUFFICES ASSUME NEW x \in Window(put, get)
                 PROVE  \E i \in 1 .. n : g[i] = x
    OBVIOUS
  <2>2. /\ x \in Counter /\ Dist(x, get) < n /\ Dist(x, get) \in Counter
        /\ Dist(x, get) = IF x >= get THEN x - get ELSE x - get + Wrap
    BY DistValue DEF Window
  <2>3. Dist(x, get) + 1 \in 1 .. n
    BY <1>1, <2>2, WrapAssumption DEF Counter
  <2>4. g[Dist(x, get) + 1] = x
    BY <1>1, <2>2, <2>3, WrapAssumption DEF Counter
  <2>5. QED
    BY <2>3, <2>4
<1>5. g \in Bijection(1 .. n, Window(put, get))
  BY <1>2, <1>3, <1>4 DEF Bijection, Injection, Surjection, IsInjective
<1>6. QED
  BY <1>1, <1>5, FS_CountingElements, FS_NatBijection DEF ExistsBijection

-----------------------------------------------------------------------------
(* Constants and helpers.                                                  *)

\* Every ring has slots, fewer than a counter has values, and wraps with it.
LEMMA SizeFacts ==
  ASSUME NEW r \in Thread
  PROVE  Size(r) \in Nat \ {0} /\ Size(r) < Wrap /\ Wrap % Size(r) = 0
BY PcapQueueAssumption DEF Size

\* The names of threads, buffers and nothing are different.
LEMMA NameFacts ==
  /\ Capture \in Thread /\ NULL \notin Thread /\ NULL \notin Buf
  /\ Capture \notin Worker
  /\ \A t \in Thread : t \in Worker <=> t # Capture
BY PcapQueueAssumption DEF Thread, Worker, Buf

\* A counter selects a slot of its ring.
LEMMA SlotInRing ==
  ASSUME NEW r \in Thread, NEW x \in Counter
  PROVE  Slot(x, Size(r)) \in 0 .. Size(r) - 1
<1>1. Size(r) \in Nat \ {0} /\ x \in Int
  BY SizeFacts DEF Counter
<1>2. QED
  BY <1>1, DivMod DEF Slot

LEMMA WinInCounter ==
  ASSUME NEW r \in Thread, NEW x \in Win(r)
  PROVE  x \in Counter
BY DEF Win, Window

\* What the rings hold does not change when slots and counters do not.
LEMMA RingsUnchanged ==
  ASSUME UNCHANGED <<idx_buff, in, out>>
  PROVE  /\ \A r : Win(r)' = Win(r)
         /\ \A r, x : Queued(r, x)' = Queued(r, x)
         /\ \A r : Empty(r)' = Empty(r)
BY DEF Win, Window, Queued, Empty

-----------------------------------------------------------------------------
LEMMA InitIInv == Init => IInv
<1>1. SUFFICES ASSUME Init
               PROVE  IInv
  OBVIOUS
<1>2. 0 \in Counter /\ nbuf \in Counter
  BY PcapQueueAssumption, WrapAssumption DEF Counter
<1>3. Dist(0, 0) = 0 /\ Dist(nbuf, 0) = nbuf
  BY <1>2, DistValue, PcapQueueAssumption DEF Counter
<1>4. TypeOK
  BY <1>1, <1>2, NameFacts, PcapQueueAssumption
     DEF Init, TypeOK, Size, Thread, Worker
<1>5. LocalsOK
  BY <1>1 DEF Init, LocalsOK, Holding
<1>6. LockOK
  BY <1>1 DEF Init, LockOK
<1>7. \A r \in Thread : r # Capture => Win(r) = {}
  BY <1>1, <1>2, <1>3, DistValue DEF Init, Win, Window, Counter
<1>8. Win(Capture) = Buf
  <2>1. \A x \in Counter : Dist(x, 0) = x
    BY <1>2, DistValue DEF Counter
  <2>2. in[Capture] = nbuf /\ out[Capture] = 0
    BY <1>1, NameFacts DEF Init
  <2>3. QED
    BY <1>3, <2>1, <2>2, PcapQueueAssumption, WrapAssumption
       DEF Win, Window, Counter, Buf
<1>9. \A x \in Buf : Queued(Capture, x) = x
  <2>1. SUFFICES ASSUME NEW x \in Buf
                 PROVE  Queued(Capture, x) = x
    OBVIOUS
  <2>2. x \in 0 .. PcapSize - 1 /\ Slot(x, PcapSize) = x
    BY PcapQueueAssumption DEF Buf, Slot
  <2>3. QED
    BY <1>1, <2>2, NameFacts DEF Init, Queued, Size
<1>10. RingsOK
  <2>1. \A r \in Thread : Dist(in[r], out[r]) <= Size(r)
    BY <1>1, <1>3, SizeFacts, PcapQueueAssumption DEF Init, Size
  <2>2. QED
    BY <2>1, <1>7, <1>8, <1>9, NameFacts DEF RingsOK
<1>11. Unshared
  BY <1>1, <1>7, <1>8, <1>9 DEF Init, Unshared, Holding
<1>12. NotLeaked
  BY <1>8, <1>9, NameFacts DEF NotLeaked
<1>13. QED
  BY <1>4, <1>5, <1>6, <1>10, <1>11, <1>12 DEF IInv

-----------------------------------------------------------------------------
(* Steps that leave slots and counters alone.                              *)

LEMMA DeringTakeIInv ==
  ASSUME IInv, NEW t \in Thread, DeringTake(t)
  PROVE  IInv'
<1> USE DEF IInv
<1>1. /\ UNCHANGED <<idx_buff, in, out, lock, hdr, dst, pkt, last_thread>>
      /\ pc[t] = "take" /\ pc' = [pc EXCEPT ![t] = "advance"]
      /\ enc' = [enc EXCEPT ![t] = Queued(t, out[t])]
  BY DEF DeringTake, Goto, rings, Queued
<1>2. Queued(t, out[t]) \in Buf
  <2>1. in[t] \in Counter /\ out[t] \in Counter /\ in[t] # out[t]
    BY <1>1 DEF LocalsOK, Empty, TypeOK
  <2>2. out[t] \in Win(t)
    BY <2>1, WindowTake DEF Win
  <2>3. QED
    BY <2>2 DEF RingsOK
<1>3. /\ \A r : Win(r)' = Win(r)
      /\ \A r, x : Queued(r, x)' = Queued(r, x)
      /\ \A r : Empty(r)' = Empty(r)
  BY <1>1, RingsUnchanged
<1>4. /\ \A u \in Thread : Holding(u)' <=> Holding(u)
      /\ \A u \in Thread : Holding(u) => enc'[u] = enc[u]
      /\ \A u \in Thread : u # t => enc'[u] = enc[u] /\ pc'[u] = pc[u]
      /\ enc'[t] = Queued(t, out[t]) /\ pc'[t] = "advance"
  BY <1>1 DEF Holding, TypeOK
<1>5. TypeOK'
  BY <1>1, <1>2 DEF TypeOK
<1>6. LocalsOK'
  BY <1>1, <1>3, <1>4 DEF LocalsOK, Complete, TypeOK
<1>7. LockOK'
  BY <1>1, <1>3, <1>4 DEF LockOK, LocalsOK, TypeOK
<1>8. RingsOK'
  BY <1>1, <1>3 DEF RingsOK, Complete
<1>9. Unshared'
  BY <1>3, <1>4 DEF Unshared
<1>10. NotLeaked'
  BY <1>3, <1>4 DEF NotLeaked
<1>11. QED
  BY <1>5, <1>6, <1>7, <1>8, <1>9, <1>10

LEMMA EnringLockIInv ==
  ASSUME IInv, NEW t \in Thread, EnringLock(t)
  PROVE  IInv'
<1> USE DEF IInv
<1> DEFINE d == dst[t]
<1>1. /\ UNCHANGED <<idx_buff, in, out, hdr, enc, dst, pkt, last_thread>>
      /\ pc[t] = "enring" /\ pc' = [pc EXCEPT ![t] = "store"]
      /\ lock[d] = NULL /\ lock' = [lock EXCEPT ![d] = t]
      /\ ~ Full(d)
  BY DEF EnringLock, Goto
<1>2. d \in Thread
  BY <1>1 DEF LocalsOK
<1>3. /\ \A r : Win(r)' = Win(r)
      /\ \A r, x : Queued(r, x)' = Queued(r, x)
      /\ \A r : Empty(r)' = Empty(r)
  BY <1>1, RingsUnchanged
<1>4. /\ \A u \in Thread : Holding(u)' <=> Holding(u)
      /\ \A u \in Thread : u # t => pc'[u] = pc[u]
      /\ pc'[t] = "store"
  BY <1>1 DEF Holding, TypeOK
<1>5. TypeOK'
  BY <1>1, <1>2 DEF TypeOK
<1>6. LocalsOK'
  BY <1>1, <1>3, <1>4 DEF LocalsOK, Complete, Holding
<1>7. LockOK'
  <2>1. Dist(in[d], out[d]) < Size(d)
    <3>1. Dist(in[d], out[d]) \in Counter
      BY <1>2, DistValue DEF TypeOK
    <3>2. QED
      BY <1>1, <1>2, <3>1, SizeFacts DEF RingsOK, Full, Counter
  <2>2. \A u \in Thread : u # t /\ pc[u] \in {"store", "commit"} => dst[u] # d
    BY <1>1, NameFacts DEF LockOK
  <2>3. \A u \in Thread : pc[u] \in {"store", "commit"} => dst[u] \in Thread
    BY DEF LocalsOK
  <2>4. QED
    BY <1>1, <1>2, <1>3, <1>4, <2>1, <2>2, <2>3 DEF LockOK, TypeOK
<1>8. RingsOK'
  BY <1>1, <1>3 DEF RingsOK, Complete
<1>9. Unshared'
  BY <1>1, <1>3, <1>4 DEF Unshared
<1>10. NotLeaked'
  BY <1>1, <1>3, <1>4 DEF NotLeaked
<1>11. QED
  BY <1>5, <1>6, <1>7, <1>8, <1>9, <1>10

\* A packet that finds no buffer only advances the turn.
LEMMA TurnInWorker ==
  ASSUME last_thread \in Worker
  PROVE  (last_thread + 1) % nthreads \in Worker
<1>1. last_thread + 1 \in Int /\ nthreads \in Nat \ {0}
  BY PcapQueueAssumption DEF Worker
<1>2. QED
  BY <1>1, DivMod DEF Worker

LEMMA PacketDroppedIInv ==
  ASSUME IInv, PacketDropped
  PROVE  IInv'
<1> USE DEF IInv
<1>1. UNCHANGED <<idx_buff, in, out, lock, hdr, pc, enc, dst, pkt>>
  BY DEF PacketDropped, rings
<1>2. last_thread' \in Worker
  BY TurnInWorker DEF PacketDropped, TypeOK
<1>3. /\ \A r : Win(r)' = Win(r)
      /\ \A r, x : Queued(r, x)' = Queued(r, x)
      /\ \A r : Empty(r)' = Empty(r)
  BY <1>1, RingsUnchanged
<1>5. TypeOK'
  BY <1>1, <1>2 DEF TypeOK
<1>6. LocalsOK'
  BY <1>1, <1>3 DEF LocalsOK, Complete, Holding
<1>7. LockOK' /\ RingsOK'
  BY <1>1, <1>3 DEF LockOK, RingsOK, Complete
<1>8. Unshared' /\ NotLeaked'
  BY <1>1, <1>3 DEF Unshared, NotLeaked, Holding
<1>9. QED
  BY <1>5, <1>6, <1>7, <1>8

LEMMA PacketAcceptedIInv ==
  ASSUME IInv, NEW p \in Pkt, PacketAccepted(p)
  PROVE  IInv'
<1> USE DEF IInv
<1>1. /\ UNCHANGED <<idx_buff, in, out, lock, hdr, enc, dst>>
      /\ ~ Empty(Capture)
      /\ pc[Capture] = "idle" /\ pc' = [pc EXCEPT ![Capture] = "take"]
      /\ pkt' = p
  BY DEF PacketAccepted, Goto, rings
<1>2. last_thread' \in Worker
  BY TurnInWorker DEF PacketAccepted, TypeOK
<1>3. /\ \A r : Win(r)' = Win(r)
      /\ \A r, x : Queued(r, x)' = Queued(r, x)
      /\ \A r : Empty(r)' = Empty(r)
  BY <1>1, RingsUnchanged
<1>4. /\ \A u \in Thread : Holding(u)' <=> Holding(u)
      /\ \A u \in Thread : u # Capture => pc'[u] = pc[u]
      /\ pc'[Capture] = "take"
  BY <1>1, NameFacts DEF Holding, TypeOK
<1>5. TypeOK'
  BY <1>1, <1>2 DEF TypeOK
<1>6. LocalsOK'
  BY <1>1, <1>3, <1>4, NameFacts DEF LocalsOK, Complete
<1>7. LockOK' /\ RingsOK'
  BY <1>1, <1>3, <1>4 DEF LockOK, RingsOK, Complete
<1>8. Unshared' /\ NotLeaked'
  BY <1>1, <1>3, <1>4 DEF Unshared, NotLeaked
<1>9. QED
  BY <1>5, <1>6, <1>7, <1>8

LEMMA WorkerPollIInv ==
  ASSUME IInv, NEW w \in Worker, WorkerPoll(w)
  PROVE  IInv'
<1> USE DEF IInv
<1>1. /\ UNCHANGED <<idx_buff, in, out, lock, hdr, enc, dst, pkt, last_thread>>
      /\ ~ Empty(w)
      /\ pc[w] = "idle" /\ pc' = [pc EXCEPT ![w] = "take"]
  BY DEF WorkerPoll, Goto, rings
<1>2. w \in Thread /\ w # Capture
  BY NameFacts DEF Thread
<1>3. /\ \A r : Win(r)' = Win(r)
      /\ \A r, x : Queued(r, x)' = Queued(r, x)
      /\ \A r : Empty(r)' = Empty(r)
  BY <1>1, RingsUnchanged
<1>4. /\ \A u \in Thread : Holding(u)' <=> Holding(u)
      /\ \A u \in Thread : u # w => pc'[u] = pc[u]
      /\ pc'[w] = "take"
  BY <1>1, <1>2 DEF Holding, TypeOK
<1>5. TypeOK'
  BY <1>1 DEF TypeOK
<1>6. LocalsOK'
  BY <1>1, <1>2, <1>3, <1>4, NameFacts DEF LocalsOK, Complete
<1>7. LockOK' /\ RingsOK'
  BY <1>1, <1>3, <1>4 DEF LockOK, RingsOK, Complete
<1>8. Unshared' /\ NotLeaked'
  BY <1>1, <1>3, <1>4 DEF Unshared, NotLeaked
<1>9. QED
  BY <1>5, <1>6, <1>7, <1>8

\* The capture thread writes only into the buffer it owns, which is in no ring
\* and no other thread's hands.
LEMMA MemsetIInv ==
  ASSUME IInv, Memset
  PROVE  IInv'
<1> USE DEF IInv
<1> DEFINE b == enc[Capture]
<1>1. /\ UNCHANGED <<idx_buff, in, out, lock, enc, dst, pkt, last_thread>>
      /\ pc[Capture] = "memset" /\ pc' = [pc EXCEPT ![Capture] = "fill"]
      /\ hdr' = [hdr EXCEPT ![b] = [r |-> NULL, packet |-> NULL]]
  BY DEF Memset, Goto, rings
<1>2. Holding(Capture) /\ b \in Buf
  BY <1>1, NameFacts DEF Holding, LocalsOK
<1>3. /\ \A r : Win(r)' = Win(r)
      /\ \A r, x : Queued(r, x)' = Queued(r, x)
      /\ \A r : Empty(r)' = Empty(r)
  BY <1>1, RingsUnchanged
<1>4. /\ \A u \in Thread : Holding(u)' <=> Holding(u)
      /\ \A u \in Thread : u # Capture => pc'[u] = pc[u]
      /\ pc'[Capture] = "fill"
  BY <1>1, NameFacts DEF Holding, TypeOK
<1>5. TypeOK'
  BY <1>1, <1>2 DEF TypeOK
<1>6. \A c \in Buf : c # b => Complete(c)' = Complete(c)
  BY <1>1, <1>2 DEF Complete, TypeOK
<1>7. \A u \in Thread : u # Capture /\ Holding(u) => enc[u] # b
  BY <1>2, NameFacts DEF Unshared
<1>8. \A r \in Thread : \A x \in Win(r) : Queued(r, x) # b
  BY <1>2, NameFacts DEF Unshared
<1>9. LocalsOK'
  BY <1>1, <1>3, <1>4, <1>6, <1>7, NameFacts DEF LocalsOK, Holding
<1>10. LockOK'
  BY <1>1, <1>3, <1>4 DEF LockOK
<1>11. RingsOK'
  BY <1>1, <1>3, <1>6, <1>8 DEF RingsOK
<1>12. Unshared' /\ NotLeaked'
  BY <1>1, <1>3, <1>4 DEF Unshared, NotLeaked
<1>13. QED
  BY <1>5, <1>9, <1>10, <1>11, <1>12

LEMMA FillIInv ==
  ASSUME IInv, Fill
  PROVE  IInv'
<1> USE DEF IInv
<1> DEFINE b == enc[Capture]
<1>1. /\ UNCHANGED <<idx_buff, in, out, lock, enc, pkt, last_thread>>
      /\ pc[Capture] = "fill" /\ pc' = [pc EXCEPT ![Capture] = "enring"]
      /\ hdr' = [hdr EXCEPT ![b] = [r |-> Capture, packet |-> pkt]]
      /\ dst' = [dst EXCEPT ![Capture] = last_thread]
  BY DEF Fill, Goto, rings
<1>2. Holding(Capture) /\ b \in Buf /\ pkt \in Pkt
  BY <1>1, NameFacts DEF Holding, LocalsOK
<1>3. /\ \A r : Win(r)' = Win(r)
      /\ \A r, x : Queued(r, x)' = Queued(r, x)
      /\ \A r : Empty(r)' = Empty(r)
  BY <1>1, RingsUnchanged
<1>4. /\ \A u \in Thread : Holding(u)' <=> Holding(u)
      /\ \A u \in Thread : u # Capture => pc'[u] = pc[u] /\ dst'[u] = dst[u]
      /\ pc'[Capture] = "enring" /\ dst'[Capture] = last_thread
      /\ last_thread \in Thread
  BY <1>1, NameFacts DEF Holding, TypeOK, Thread
<1>5. TypeOK'
  BY <1>1, <1>2, <1>4 DEF TypeOK
<1>6. Complete(b)' /\ \A c \in Buf : Complete(c) => Complete(c)'
  BY <1>1, <1>2 DEF Complete, TypeOK
<1>7. LocalsOK'
  BY <1>1, <1>2, <1>3, <1>4, <1>6, NameFacts DEF LocalsOK, Holding
<1>8. LockOK'
  BY <1>1, <1>3, <1>4 DEF LockOK
<1>9. RingsOK'
  BY <1>1, <1>3, <1>6 DEF RingsOK
<1>10. Unshared' /\ NotLeaked'
  BY <1>1, <1>3, <1>4 DEF Unshared, NotLeaked
<1>11. QED
  BY <1>5, <1>7, <1>8, <1>9, <1>10

-----------------------------------------------------------------------------
(* Steps on slots and counters.                                            *)

\* The take moves a buffer from the ring to the thread.
LEMMA DeringAdvanceIInv ==
  ASSUME IInv, NEW t \in Thread, DeringAdvance(t)
  PROVE  IInv'
<1> USE DEF IInv
<1> DEFINE b == enc[t]
           o == out[t]
<1>1. /\ UNCHANGED <<idx_buff, in, lock, hdr, enc, pkt, last_thread>>
      /\ pc[t] = "advance"
      /\ pc' = [pc EXCEPT ![t] = IF t = Capture THEN "memset" ELSE "enring"]
      /\ out' = [out EXCEPT ![t] = Inc(o)]
      /\ dst' = IF t = Capture THEN dst ELSE [dst EXCEPT ![t] = hdr[b].r]
  BY DEF DeringAdvance, Goto
<1>2. in[t] \in Counter /\ o \in Counter /\ in[t] # o /\ b = Queued(t, o)
  BY <1>1 DEF LocalsOK, Empty, TypeOK
<1>3. /\ Win(t)' = Win(t) \ {o}
      /\ o \in Win(t)
      /\ Dist(in'[t], out'[t]) = Dist(in[t], out[t]) - 1
  BY <1>1, <1>2, WindowTake DEF Win, TypeOK
<1>4. /\ \A r \in Thread : r # t => /\ Win(r)' = Win(r)
                                    /\ Dist(in'[r], out'[r]) = Dist(in[r], out[r])
                                    /\ Empty(r)' = Empty(r)
                                    /\ out'[r] = out[r]
      /\ \A r, x : Queued(r, x)' = Queued(r, x)
      /\ \A c : Complete(c)' = Complete(c)
  BY <1>1 DEF Win, Queued, Empty, Complete, TypeOK
<1>5. b \in Buf /\ (t \in Worker => Complete(b))
  BY <1>2, <1>3 DEF RingsOK
<1>6. /\ \A u \in Thread : u # t => /\ pc'[u] = pc[u] /\ dst'[u] = dst[u]
                                    /\ Holding(u)' = Holding(u)
      /\ Holding(t)' /\ ~ Holding(t)
      /\ pc'[t] = IF t = Capture THEN "memset" ELSE "enring"
      /\ t \in Worker => dst'[t] = Capture
      /\ t = Capture => dst'[t] = dst[t]
  BY <1>1, <1>5, NameFacts DEF Holding, TypeOK, Complete
<1>7. \A r \in Thread : Dist(in[r], out[r]) \in Nat /\ Dist(in'[r], out'[r]) <= Dist(in[r], out[r])
  <2>1. \A r \in Thread : in[r] \in Counter /\ out[r] \in Counter
    BY DEF TypeOK
  <2>2. \A r \in Thread : Dist(in[r], out[r]) \in Counter
    BY <2>1, DistValue
  <2>3. \A r \in Thread : Dist(in[r], out[r]) \in Nat
    BY <2>2 DEF Counter
  <2>4. QED
    BY <1>3, <1>4, <2>3
<1>8. TypeOK'
  <2>1. Inc(o) \in Counter
    BY <1>2, IncValue
  <2>2. hdr[b].r \in Thread \cup {NULL}
    BY <1>5, NameFacts DEF TypeOK
  <2>3. QED
    BY <1>1, <2>1, <2>2 DEF TypeOK
<1>9. LocalsOK'
  BY <1>1, <1>4, <1>5, <1>6, NameFacts DEF LocalsOK
<1>10. LockOK'
  <2>1. SUFFICES ASSUME NEW u \in Thread, pc'[u] \in {"store", "commit"}
                 PROVE  /\ lock'[dst'[u]] = u
                        /\ Dist(in'[dst'[u]], out'[dst'[u]]) < Size(dst'[u])
                        /\ pc'[u] = "commit" => Queued(dst[u], in[dst[u]])' = enc'[u]
    BY DEF LockOK
  <2>2. u # t /\ pc[u] \in {"store", "commit"} /\ pc'[u] = pc[u] /\ dst'[u] = dst[u]
    BY <1>6, <2>1
  <2>3. dst[u] \in Thread
    BY <2>2 DEF LocalsOK
  <2>4. /\ lock[dst[u]] = u
        /\ Dist(in[dst[u]], out[dst[u]]) < Size(dst[u])
        /\ pc[u] = "commit" => Queued(dst[u], in[dst[u]]) = enc[u]
    BY <2>2 DEF LockOK
  <2>5. Dist(in'[dst[u]], out'[dst[u]]) < Size(dst[u])
    <3>1. Dist(in'[dst[u]], out'[dst[u]]) \in Int /\ Size(dst[u]) \in Int
      BY <1>3, <1>4, <1>7, <2>3, SizeFacts
    <3>2. QED
      BY <1>7, <2>3, <2>4, <3>1
  <2>6. Queued(dst[u], in[dst[u]])' = Queued(dst[u], in[dst[u]])
    BY <1>1, <2>2 DEF Queued
  <2>7. QED
    BY <1>1, <2>2, <2>4, <2>5, <2>6
<1>11. RingsOK'
  <2>1. \A r \in Thread : Dist(in'[r], out'[r]) <= Size(r)
    <3>1. \A r \in Thread : Dist(in'[r], out'[r]) \in Int /\ Size(r) \in Int
      BY <1>3, <1>4, <1>7, SizeFacts
    <3>2. QED
      BY <1>7, <3>1 DEF RingsOK
  <2>2. QED
    BY <2>1, <1>3, <1>4 DEF RingsOK
<1>12. Unshared'
  <2>1. \A r \in Thread : \A x \in Win(r)' : x \in Win(r) /\ Queued(r, x) # b
    BY <1>2, <1>3, <1>4 DEF Unshared
  <2>2. \A u \in Thread : u # t /\ Holding(u) => enc[u] # b
    BY <1>2, <1>3 DEF Unshared
  <2>3. QED
    BY <1>1, <1>4, <1>6, <2>1, <2>2 DEF Unshared
<1>13. NotLeaked'
  <2>1. \A r \in Thread : \A x \in Win(r) : x \in Win(r)' \/ Queued(r, x) = b
    BY <1>2, <1>3, <1>4
  <2>2. \A u \in Thread : Holding(u) => Holding(u)'
    BY <1>6
  <2>3. QED
    BY <1>1, <1>4, <1>6, <2>1, <2>2 DEF NotLeaked
<1>14. QED
  BY <1>8, <1>9, <1>10, <1>11, <1>12, <1>13

\* The store does not touch the queued elements.
LEMMA StoreKeeps ==
  ASSUME IInv, NEW t \in Thread, EnringStore(t), NEW r \in Thread, NEW x \in Win(r)
  PROVE  Queued(r, x)' = Queued(r, x)
<1> USE DEF IInv
<1> DEFINE d == dst[t]
           k == Slot(in[d], Size(d))
<1>1. pc[t] = "store" /\ idx_buff' = [idx_buff EXCEPT ![d][k] = enc[t]]
  BY DEF EnringStore, Goto
<1>2. d \in Thread
  BY <1>1 DEF LocalsOK, Holding
<1>3. in[d] \in Counter /\ out[d] \in Counter /\ k \in 0 .. Size(d) - 1
  BY <1>2, SlotInRing DEF TypeOK
<1>4. \A y \in Win(d) : y \in Counter /\ Slot(y, Size(d)) # k
  <2>1. Dist(in[d], out[d]) < Size(d)
    BY <1>1 DEF LockOK
  <2>2. Size(d) \in Nat \ {0} /\ Size(d) < Wrap /\ Wrap % Size(d) = 0
    BY <1>2, SizeFacts
  <2>3. QED
    BY <1>2, <1>3, <2>1, <2>2, FreeSlot, WinInCounter DEF Win
<1>5. r # d \/ Slot(x, Size(r)) # k
  BY <1>4
<1>6. x \in Counter
  BY WinInCounter
<1>7. QED
  BY <1>1, <1>2, <1>3, <1>5, <1>6, SlotInRing DEF Queued, TypeOK

\* The store writes the slot behind the queued ones, and nobody else does.
LEMMA EnringStoreIInv ==
  ASSUME IInv, NEW t \in Thread, EnringStore(t)
  PROVE  IInv'
<1> USE DEF IInv
<1> DEFINE d == dst[t]
           k == Slot(in[d], Size(d))
<1>1. /\ UNCHANGED <<in, out, lock, hdr, enc, dst, pkt, last_thread>>
      /\ pc[t] = "store" /\ pc' = [pc EXCEPT ![t] = "commit"]
      /\ idx_buff' = [idx_buff EXCEPT ![d][k] = enc[t]]
  BY DEF EnringStore, Goto
<1>2. d \in Thread /\ enc[t] \in Buf
  BY <1>1 DEF LocalsOK, Holding
<1>3. in[d] \in Counter /\ out[d] \in Counter /\ k \in 0 .. Size(d) - 1
  BY <1>2, SlotInRing DEF TypeOK
<1>5. TypeOK'
  BY <1>1, <1>2, <1>3 DEF TypeOK
<1>6. /\ \A r \in Thread : Win(r)' = Win(r) /\ Empty(r)' = Empty(r)
      /\ \A c : Complete(c)' = Complete(c)
  BY <1>1 DEF Win, Empty, Complete
<1>7. \A r \in Thread, x \in Counter :
        r # d \/ Slot(x, Size(r)) # k => Queued(r, x)' = Queued(r, x)
  BY <1>1, <1>2, <1>3, SlotInRing DEF Queued, TypeOK
<1>8. \A r \in Thread : \A x \in Win(r) : Queued(r, x)' = Queued(r, x)
  BY StoreKeeps
<1>9. Queued(d, in[d])' = enc[t]
  BY <1>1, <1>2, <1>3 DEF Queued, TypeOK
<1>10. /\ \A u \in Thread : Holding(u)' = Holding(u)
       /\ \A u \in Thread : u # t => pc'[u] = pc[u]
       /\ pc'[t] = "commit"
  BY <1>1 DEF Holding, TypeOK
<1>11. LocalsOK'
  <2>1. \A u \in Thread : pc[u] = "advance" => Queued(u, out[u])' = Queued(u, out[u])
    <3>1. SUFFICES ASSUME NEW u \in Thread, pc[u] = "advance"
                   PROVE  Queued(u, out[u])' = Queued(u, out[u])
      OBVIOUS
    <3>2. in[u] \in Counter /\ out[u] \in Counter /\ in[u] # out[u]
      BY <3>1 DEF LocalsOK, Empty, TypeOK
    <3>3. out[u] \in Win(u)
      BY <3>2, WindowTake DEF Win
    <3>4. QED
      BY <1>1, <1>8, <3>3 DEF Queued
  <2>2. QED
    BY <1>1, <1>6, <1>10, <2>1 DEF LocalsOK, Holding
<1>12. LockOK'
  <2>1. SUFFICES ASSUME NEW u \in Thread, pc'[u] \in {"store", "commit"}
                 PROVE  /\ lock[dst[u]] = u
                        /\ Dist(in[dst[u]], out[dst[u]]) < Size(dst[u])
                        /\ pc'[u] = "commit" => Queued(dst[u], in[dst[u]])' = enc[u]
    BY <1>1 DEF LockOK
  <2>2. pc[u] \in {"store", "commit"}
    BY <1>1, <1>10, <2>1
  <2>3. /\ lock[dst[u]] = u
        /\ Dist(in[dst[u]], out[dst[u]]) < Size(dst[u])
        /\ pc[u] = "commit" => Queued(dst[u], in[dst[u]]) = enc[u]
    BY <2>2 DEF LockOK
  <2>4. CASE u = t
    BY <1>9, <2>3, <2>4
  <2>5. CASE u # t
    <3>1. dst[u] \in Thread /\ dst[u] # d /\ in[dst[u]] \in Counter
      BY <1>1, <2>2, <2>3, <2>5 DEF LockOK, LocalsOK, TypeOK
    <3>2. Queued(dst[u], in[dst[u]])' = Queued(dst[u], in[dst[u]])
      BY <1>1, <1>7, <3>1 DEF Queued
    <3>3. QED
      BY <1>10, <2>1, <2>3, <2>5, <3>2
  <2>6. QED
    BY <2>4, <2>5
<1>13. RingsOK'
  BY <1>1, <1>6, <1>8 DEF RingsOK
<1>14. Unshared' /\ NotLeaked'
  BY <1>1, <1>6, <1>8, <1>10 DEF Unshared, NotLeaked
<1>15. QED
  BY <1>5, <1>11, <1>12, <1>13, <1>14

\* The commit moves the buffer from the thread to the ring.
LEMMA EnringCommitIInv ==
  ASSUME IInv, NEW t \in Thread, EnringCommit(t)
  PROVE  IInv'
<1> USE DEF IInv
<1>0. PICK d, b : d = dst[t] /\ b = enc[t]
  OBVIOUS
<1>1. /\ UNCHANGED <<idx_buff, out, hdr, last_thread>>
      /\ pc[t] = "commit" /\ pc' = [pc EXCEPT ![t] = "idle"]
      /\ in' = [in EXCEPT ![d] = Inc(in[d])]
      /\ lock' = [lock EXCEPT ![d] = NULL]
      /\ enc' = [enc EXCEPT ![t] = NULL]
      /\ dst' = [dst EXCEPT ![t] = NULL]
      /\ pkt' = IF t = Capture THEN NULL ELSE pkt
  BY <1>0 DEF EnringCommit, Goto, Finish
<1>2. d \in Thread /\ b \in Buf /\ Complete(b) /\ Holding(t)
  BY <1>0, <1>1 DEF LocalsOK, Holding
<1>3. in[d] \in Counter /\ out[d] \in Counter
  BY <1>2 DEF TypeOK
<1>4. /\ Dist(in[d], out[d]) < Size(d)
      /\ Dist(in[d], out[d]) \in Nat
      /\ Size(d) \in Nat /\ Size(d) < Wrap
      /\ Queued(d, in[d]) = b
  <2>1. Dist(in[d], out[d]) \in Counter
    BY <1>3, DistValue
  <2>2. QED
    BY <1>0, <1>1, <1>2, <2>1, SizeFacts DEF LockOK, Counter
<1>5. Dist(in[d], out[d]) < Wrap - 1
  BY <1>4, WrapAssumption
<1>6. /\ Win(d)' = Win(d) \cup {in[d]}
      /\ in[d] \notin Win(d)
      /\ Dist(in'[d], out'[d]) = Dist(in[d], out[d]) + 1
  BY <1>1, <1>2, <1>3, <1>5, WindowPut DEF Win, TypeOK
<1>7. /\ \A r \in Thread : r # d => /\ Win(r)' = Win(r)
                                    /\ Dist(in'[r], out'[r]) = Dist(in[r], out[r])
                                    /\ in'[r] = in[r]
                                    /\ Empty(r)' = Empty(r)
      /\ \A r, x : Queued(r, x)' = Queued(r, x)
      /\ \A c : Complete(c)' = Complete(c)
  BY <1>1, <1>2 DEF Win, Queued, Empty, Complete, TypeOK
<1>8. ~ Empty(d)'
  <2>1. in'[d] \in Counter
    BY <1>1, <1>2, <1>3, IncValue DEF TypeOK
  <2>2. Dist(out[d], out[d]) = 0
    <3>1. Dist(out[d], out[d]) = IF out[d] >= out[d] THEN out[d] - out[d]
                                 ELSE out[d] - out[d] + Wrap
      BY <1>3, DistValue
    <3>2. QED
      BY <1>3, <3>1 DEF Counter
  <2>3. QED
    BY <1>1, <1>4, <1>6, <2>2 DEF Empty
<1>9. /\ \A u \in Thread : u # t => /\ pc'[u] = pc[u] /\ dst'[u] = dst[u] /\ enc'[u] = enc[u]
                                    /\ Holding(u)' = Holding(u)
      /\ ~ Holding(t)'
      /\ pc'[t] = "idle"
  BY <1>1 DEF Holding, TypeOK
<1>10. \A u \in Thread : u # t /\ pc[u] \in {"store", "commit"} => dst[u] # d
  BY <1>0, <1>1 DEF LockOK
<1>11. TypeOK'
  <2>1. Inc(in[d]) \in Counter
    BY <1>3, IncValue
  <2>2. QED
    BY <1>1, <1>2, <2>1 DEF TypeOK
<1>12. LocalsOK'
  <2>1. \A u \in Thread : ~ Empty(u) => ~ Empty(u)'
    BY <1>7, <1>8
  <2>2. \A u \in Thread : Queued(u, out[u])' = Queued(u, out[u])
    BY <1>1 DEF Queued
  <2>3. \A u \in Thread : u = Capture /\ pc'[u] # "idle" => pkt' = pkt
    BY <1>1, <1>9
  <2>4. QED
    BY <1>7, <1>9, <2>1, <2>2, <2>3 DEF LocalsOK, Holding
<1>13. LockOK'
  <2>1. SUFFICES ASSUME NEW u \in Thread, pc'[u] \in {"store", "commit"}
                 PROVE  /\ lock'[dst'[u]] = u
                        /\ Dist(in'[dst'[u]], out'[dst'[u]]) < Size(dst'[u])
                        /\ pc'[u] = "commit" => Queued(dst[u], in[dst[u]])' = enc'[u]
    BY DEF LockOK
  <2>2. /\ u # t /\ pc[u] \in {"store", "commit"}
        /\ pc'[u] = pc[u] /\ dst'[u] = dst[u] /\ enc'[u] = enc[u]
    BY <1>9, <2>1
  <2>3. dst[u] \in Thread /\ dst[u] # d
    BY <1>10, <2>2 DEF LocalsOK
  <2>4. /\ lock[dst[u]] = u
        /\ Dist(in[dst[u]], out[dst[u]]) < Size(dst[u])
        /\ pc[u] = "commit" => Queued(dst[u], in[dst[u]]) = enc[u]
    BY <2>2 DEF LockOK
  <2>5. lock'[dst[u]] = u
    BY <1>1, <2>3, <2>4 DEF TypeOK
  <2>6. Queued(dst[u], in[dst[u]])' = Queued(dst[u], in[dst[u]])
    BY <1>1, <1>7, <2>2, <2>3 DEF Queued, TypeOK
  <2>7. QED
    BY <1>7, <2>2, <2>3, <2>4, <2>5, <2>6
<1>14. RingsOK'
  <2>1. \A r \in Thread : Dist(in'[r], out'[r]) <= Size(r)
    BY <1>4, <1>6, <1>7 DEF RingsOK
  <2>2. QED
    BY <1>2, <1>4, <1>6, <1>7, <2>1 DEF RingsOK
<1>15. Unshared'
  <2>1. \A r \in Thread : \A x \in Win(r) : Queued(r, x) # b
    BY <1>0, <1>2 DEF Unshared
  <2>2. \A u \in Thread : u # t /\ Holding(u) => enc[u] # b
    BY <1>0, <1>2 DEF Unshared
  <2>3. \A r \in Thread : \A x \in Win(r)' : x \in Win(r) \/ (r = d /\ x = in[d])
    BY <1>6, <1>7
  <2>4. QED
    BY <1>4, <1>7, <1>9, <2>1, <2>2, <2>3 DEF Unshared
<1>16. NotLeaked'
  <2>1. SUFFICES ASSUME NEW c \in Buf
                 PROVE  \/ \E r \in Thread : \E x \in Win(r)' : Queued(r, x) = c
                        \/ \E u \in Thread : Holding(u)' /\ enc'[u] = c
    BY <1>7 DEF NotLeaked
  <2>2. CASE c = b
    BY <1>2, <1>4, <1>6, <2>2
  <2>3. CASE c # b
    <3>1. \A r \in Thread : \A x \in Win(r) : x \in Win(r)'
      BY <1>6, <1>7
    <3>2. \A u \in Thread : Holding(u) /\ enc[u] = c => Holding(u)' /\ enc'[u] = c
      BY <1>0, <1>9, <2>3
    <3>3. QED
      BY <3>1, <3>2 DEF NotLeaked
  <2>4. QED
    BY <2>2, <2>3
<1>17. QED
  BY <1>11, <1>12, <1>13, <1>14, <1>15, <1>16

-----------------------------------------------------------------------------
(* The pool never overflows: a full pool holds PcapSize different buffers, *)
(* and there is none left for a thread to bring back.                      *)

LEMMA PoolBelowStock ==
  ASSUME IInv, NEW t \in Thread, Holding(t)
  PROVE  Dist(in[Capture], out[Capture]) <= nbuf - 1
<1> USE DEF IInv
<1> DEFINE S == Win(Capture)
           T == Buf \ {enc[t]}
           f == [x \in S |-> Queued(Capture, x)]
<1>1. enc[t] \in Buf
  BY DEF LocalsOK
<1>2. IsFiniteSet(Buf) /\ Cardinality(Buf) = nbuf
  <2>1. nbuf - 1 \in Int /\ nbuf \in Nat
    BY PcapQueueAssumption
  <2>2. IsFiniteSet(0 .. nbuf - 1)
        /\ Cardinality(0 .. nbuf - 1) = IF 0 > nbuf - 1 THEN 0 ELSE (nbuf - 1) - 0 + 1
    BY <2>1, FS_Interval
  <2>3. QED
    BY <2>1, <2>2 DEF Buf
<1>3. IsFiniteSet(T) /\ Cardinality(T) = nbuf - 1
  BY <1>1, <1>2, FS_RemoveElement
<1>4. f \in Injection(S, T)
  <2>1. \A x \in S : Queued(Capture, x) \in T
    BY NameFacts DEF RingsOK, Unshared
  <2>2. \A x, y \in S : Queued(Capture, x) = Queued(Capture, y) => x = y
    BY NameFacts DEF Unshared
  <2>3. QED
    BY <2>1, <2>2 DEF Injection, IsInjective
<1>5. Cardinality(S) <= nbuf - 1
  BY <1>3, <1>4, FS_Injection
<1>6. Cardinality(S) = Dist(in[Capture], out[Capture])
  BY NameFacts, WindowCardinality DEF TypeOK, Win
<1>7. QED
  BY <1>5, <1>6

LEMMA RoomForHolder ==
  ASSUME IInv, NEW t \in Thread, Holding(t)
  PROVE  ~ Full(Capture)
BY PoolBelowStock, PcapQueueAssumption DEF Full, Size

\* A full ring is never the pool, so the buffer is taken back there.
LEMMA EnringFullIInv ==
  ASSUME IInv, NEW t \in Thread, EnringFull(t)
  PROVE  IInv'
<1> USE DEF IInv
<1>0. dst[t] # Capture
  BY RoomForHolder DEF EnringFull, Holding
<1>1. /\ UNCHANGED <<idx_buff, in, out, lock, hdr, pc, enc, pkt, last_thread>>
      /\ pc[t] = "enring"
      /\ dst' = [dst EXCEPT ![t] = Capture]
  BY <1>0 DEF EnringFull, rings
<1>3. /\ \A r : Win(r)' = Win(r)
      /\ \A r, x : Queued(r, x)' = Queued(r, x)
      /\ \A r : Empty(r)' = Empty(r)
  BY <1>1, RingsUnchanged
<1>4. /\ \A u \in Thread : Holding(u)' <=> Holding(u)
      /\ \A u \in Thread : u # t => dst'[u] = dst[u]
      /\ dst'[t] = Capture
  BY <1>1 DEF Holding, TypeOK
<1>5. TypeOK'
  BY <1>1, NameFacts DEF TypeOK
<1>6. LocalsOK'
  BY <1>1, <1>3, <1>4, NameFacts DEF LocalsOK, Complete, Holding
<1>7. LockOK'
  BY <1>1, <1>3, <1>4 DEF LockOK
<1>8. RingsOK'
  BY <1>1, <1>3 DEF RingsOK, Complete
<1>9. Unshared'
  BY <1>1, <1>3, <1>4 DEF Unshared
<1>10. NotLeaked'
  BY <1>1, <1>3, <1>4 DEF NotLeaked
<1>11. QED
  BY <1>5, <1>6, <1>7, <1>8, <1>9, <1>10

-----------------------------------------------------------------------------
(* The invariant.                                                          *)

LEMMA NextIInv == IInv /\ [Next]_vars => IInv'
<1>1. SUFFICES ASSUME IInv, [Next]_vars
               PROVE  IInv'
  OBVIOUS
<1>2. CASE UNCHANGED vars
  <2>1. UNCHANGED <<idx_buff, in, out, lock, hdr, pc, enc, dst, pkt, last_thread>>
    BY <1>2 DEF vars
  <2>2. /\ \A r : Win(r)' = Win(r) /\ Empty(r)' = Empty(r)
        /\ \A r, x : Queued(r, x)' = Queued(r, x)
        /\ \A c : Complete(c)' = Complete(c)
        /\ \A t : Holding(t)' = Holding(t)
    BY <2>1, RingsUnchanged DEF Complete, Holding
  <2>3. TypeOK'
    BY <1>1, <2>1 DEF IInv, TypeOK
  <2>4. LocalsOK'
    BY <1>1, <2>1, <2>2 DEF IInv, LocalsOK
  <2>5. LockOK' /\ RingsOK'
    BY <1>1, <2>1, <2>2 DEF IInv, LockOK, RingsOK
  <2>6. Unshared' /\ NotLeaked'
    BY <1>1, <2>1, <2>2 DEF IInv, Unshared, NotLeaked
  <2>7. QED
    BY <2>3, <2>4, <2>5, <2>6 DEF IInv
<1>3. CASE PacketDropped
  BY <1>1, <1>3, PacketDroppedIInv
<1>4. CASE \E p \in Pkt : PacketAccepted(p)
  BY <1>1, <1>4, PacketAcceptedIInv
<1>5. CASE Callback
  BY <1>1, <1>5, MemsetIInv, FillIInv DEF Callback
<1>6. CASE \E w \in Worker : WorkerPoll(w)
  BY <1>1, <1>6, WorkerPollIInv
<1>7. CASE \E t \in Thread : Ring(t)
  <2>1. PICK t \in Thread : Ring(t)
    BY <1>7
  <2>2. QED
    BY <1>1, <2>1, DeringTakeIInv, DeringAdvanceIInv, EnringLockIInv,
       EnringStoreIInv, EnringCommitIInv, EnringFullIInv DEF Ring
<1>8. QED
  BY <1>1, <1>2, <1>3, <1>4, <1>5, <1>6, <1>7 DEF Next

\* The inductive invariant holds in every reachable state.
THEOREM Invariance == Spec => []IInv
BY InitIInv, NextIInv, PTL DEF Spec

\* Types.
THEOREM TypeCorrect == Spec => []TypeOK
<1>1. IInv => TypeOK
  BY DEF IInv
<1>2. QED
  BY <1>1, Invariance, PTL

\* Every buffer is in exactly one place, whatever the threads do.
THEOREM Conservation == Spec => []BufferConservation
<1>1. IInv => BufferConservation
  <2>1. SUFFICES ASSUME IInv, NEW b \in Buf
                 PROVE  \E p \in Places(b) : Places(b) = {p}
    BY DEF BufferConservation
  <2>2. \A p, q \in Places(b) : p = q
    BY <2>1, WinInCounter, NameFacts DEF IInv, Unshared, Places, Win
  <2>3. Places(b) # {}
    <3>1. CASE \E r \in Thread : \E x \in Win(r) : Queued(r, x) = b
      <4>1. PICK r \in Thread : \E x \in Win(r) : Queued(r, x) = b
        BY <3>1
      <4>2. PICK x \in Win(r) : Queued(r, x) = b
        BY <4>1
      <4>3. <<r, x>> \in Places(b)
        BY <4>2 DEF Places, Win
      <4>4. QED
        BY <4>3
    <3>2. CASE \E t \in Thread : Holding(t) /\ enc[t] = b
      <4>1. PICK t \in Thread : Holding(t) /\ enc[t] = b
        BY <3>2
      <4>2. <<t, NULL>> \in Places(b)
        BY <4>1 DEF Places
      <4>3. QED
        BY <4>2
    <3>3. QED
      BY <2>1, <3>1, <3>2 DEF IInv, NotLeaked
  <2>4. QED
    BY <2>2, <2>3
<1>2. QED
  BY <1>1, Invariance, PTL

\* A thread that returns a buffer to the pool finds room for it.
THEOREM NeverLost == Spec => []PoolHasRoom
<1>1. IInv => PoolHasRoom
  BY RoomForHolder DEF PoolHasRoom, Holding
<1>2. QED
  BY <1>1, Invariance, PTL

\* A worker's buffer names the pool and holds a packet.
THEOREM Completeness == Spec => []HeaderComplete
<1>1. IInv => HeaderComplete
  BY NameFacts DEF IInv, LocalsOK, HeaderComplete, Complete, Holding, Thread
<1>2. QED
  BY <1>1, Invariance, PTL

-----------------------------------------------------------------------------
(* The refinement: what the queues of PacketPool are made of.              *)

Room(w) == Dist(in[w], out[w])

\* The counter value i places behind the oldest.
Behind(o, i) == (o + i - 1) % Wrap

LEMMA BehindIs ==
  ASSUME NEW o \in Counter, NEW i \in 1 .. Wrap
  PROVE  /\ Behind(o, i) \in Counter
         /\ Behind(o, i) = IF o + i - 1 < Wrap THEN o + i - 1 ELSE o + i - 1 - Wrap
         /\ Dist(Behind(o, i), o) = i - 1
<1>1. /\ Behind(o, i) \in Counter
      /\ Behind(o, i) = IF o + i - 1 < Wrap THEN o + i - 1 ELSE o + i - 1 - Wrap
  <2>1. CASE o + i - 1 < Wrap
    BY <2>1, WrapAssumption DEF Behind, Counter
  <2>2. CASE o + i - 1 >= Wrap
    BY <2>2, WrapAssumption DEF Behind, Counter
  <2>3. QED
    BY <2>1, <2>2, WrapAssumption DEF Counter
<1>2. PICK x \in Counter : x = Behind(o, i)
  BY <1>1
<1>3. Dist(x, o) = IF x >= o THEN x - o ELSE x - o + Wrap
  BY DistValue
<1>4. Dist(x, o) = i - 1
  BY <1>1, <1>2, <1>3, WrapAssumption DEF Counter
<1>5. QED
  BY <1>1, <1>2, <1>4

\* The number of elements a ring holds, and the counter values they have.
LEMMA RoomIs ==
  ASSUME IInv, NEW w \in Thread
  PROVE  /\ Room(w) \in Nat /\ Room(w) <= Size(w) /\ Room(w) < Wrap
         /\ in[w] \in Counter /\ out[w] \in Counter
         /\ Empty(w) <=> Room(w) = 0
<1>1. in[w] \in Counter /\ out[w] \in Counter
  BY DEF IInv, TypeOK
<1>2. /\ Room(w) \in Counter
      /\ Room(w) = IF in[w] >= out[w] THEN in[w] - out[w] ELSE in[w] - out[w] + Wrap
  BY <1>1, DistValue DEF Room
<1>3. Empty(w) <=> Room(w) = 0
  BY <1>1, <1>2, WrapAssumption DEF Empty, Counter
<1>4. Room(w) <= Size(w)
  BY DEF IInv, RingsOK, Room
<1>5. Room(w) \in Nat /\ Room(w) < Wrap
  BY <1>2, WrapAssumption DEF Counter
<1>6. QED
  BY <1>1, <1>3, <1>4, <1>5

LEMMA BehindInWin ==
  ASSUME IInv, NEW w \in Thread, NEW i \in 1 .. Room(w)
  PROVE  Behind(out[w], i) \in Win(w)
<1>1. out[w] \in Counter /\ i \in 1 .. Wrap /\ i - 1 < Room(w)
  <2>1. PICK m \in Nat : m = Room(w) /\ m < Wrap
    BY RoomIs
  <2>2. i \in 1 .. Wrap /\ i - 1 < m
    BY <2>1, WrapAssumption
  <2>3. QED
    BY <2>1, <2>2, RoomIs
<1>2. Behind(out[w], i) \in Counter /\ Dist(Behind(out[w], i), out[w]) = i - 1
  BY <1>1, BehindIs
<1>3. QED
  BY <1>1, <1>2 DEF Win, Window, Room

\* A queue is a sequence of packets, as long as the ring holds elements.
LEMMA QueueIs ==
  ASSUME IInv, NEW w \in Worker
  PROVE  /\ QueueOf(w) \in Seq(Pkt) /\ Len(QueueOf(w)) = Room(w)
         /\ \A i \in 1 .. Room(w) :
              QueueOf(w)[i] = hdr[Queued(w, Behind(out[w], i))].packet
<1>1. w \in Thread /\ Room(w) \in Nat
  BY RoomIs, NameFacts DEF Thread
<1>2. QueueOf(w) = [i \in 1 .. Room(w) |-> hdr[Queued(w, Behind(out[w], i))].packet]
  BY DEF QueueOf, Room, Behind
<1>3. \A i \in 1 .. Room(w) : hdr[Queued(w, Behind(out[w], i))].packet \in Pkt
  BY <1>1, BehindInWin DEF IInv, RingsOK, Complete
<1>4. QED
  BY <1>1, <1>2, <1>3

\* A queue whose ring nobody touches.
LEMMA QueueSame ==
  ASSUME IInv, NEW w \in Worker, in'[w] = in[w], out'[w] = out[w],
         \A x \in Win(w) : /\ Queued(w, x)' = Queued(w, x)
                           /\ hdr'[Queued(w, x)].packet = hdr[Queued(w, x)].packet
  PROVE  QueueOf(w)' = QueueOf(w)
<1>1. w \in Thread
  BY DEF Thread
<1>2. QueueOf(w) = [i \in 1 .. Room(w) |-> hdr[Queued(w, Behind(out[w], i))].packet]
  BY DEF QueueOf, Room, Behind
<1>3. QueueOf(w)' = [i \in 1 .. Room(w) |-> hdr'[Queued(w, Behind(out[w], i))'].packet]
  BY DEF QueueOf, Room, Behind
<1>4. \A i \in 1 .. Room(w) : Queued(w, Behind(out[w], i))' = Queued(w, Behind(out[w], i))
  <2>1. SUFFICES ASSUME NEW i \in 1 .. Room(w)
                 PROVE  Queued(w, Behind(out[w], i))' = Queued(w, Behind(out[w], i))
    OBVIOUS
  <2>2. PICK x \in Win(w) : x = Behind(out[w], i)
    BY <1>1, BehindInWin
  <2>3. Queued(w, Behind(out[w], i))' = Queued(w, x)'
    BY <2>2 DEF Queued, Behind
  <2>4. QED
    BY <2>2, <2>3
<1>5. QED
  BY <1>1, <1>2, <1>3, <1>4, BehindInWin

\* An element is put behind the others.
LEMMA QueuePut ==
  ASSUME IInv, NEW w \in Worker, in'[w] = Inc(in[w]), out'[w] = out[w],
         UNCHANGED <<idx_buff, hdr>>, Room(w) < Wrap - 1
  PROVE  QueueOf(w)' = Append(QueueOf(w), hdr[Queued(w, in[w])].packet)
<1>1. /\ w \in Thread /\ Room(w) \in Nat
      /\ in[w] \in Counter /\ out[w] \in Counter
  BY RoomIs DEF Thread
<1>2. Dist(in'[w], out'[w]) = Room(w) + 1
  BY <1>1, WindowPut DEF Room
<1>3. Behind(out[w], Room(w) + 1) = in[w]
  <2>1. Room(w) = IF in[w] >= out[w] THEN in[w] - out[w] ELSE in[w] - out[w] + Wrap
    BY <1>1, DistValue DEF Room
  <2>2. PICK n \in 1 .. Wrap : n = Room(w) + 1
    BY <1>1, WrapAssumption
  <2>3. Behind(out[w], n) = IF out[w] + n - 1 < Wrap THEN out[w] + n - 1
                            ELSE out[w] + n - 1 - Wrap
    BY <1>1, BehindIs
  <2>4. Behind(out[w], n) = in[w]
    BY <1>1, <2>1, <2>2, <2>3, WrapAssumption DEF Counter
  <2>5. QED
    BY <2>2, <2>4
<1>4. QueueOf(w)' = [i \in 1 .. Room(w) + 1 |-> hdr[Queued(w, Behind(out[w], i))].packet]
  BY <1>2 DEF QueueOf, Behind, Queued
<1>5. QueueOf(w) = [i \in 1 .. Room(w) |-> hdr[Queued(w, Behind(out[w], i))].packet]
  BY DEF QueueOf, Room, Behind
<1>6. QED
  BY <1>1, <1>3, <1>4, <1>5

\* The oldest element is taken.
LEMMA QueueTake ==
  ASSUME IInv, NEW w \in Worker, in'[w] = in[w], out'[w] = Inc(out[w]),
         UNCHANGED <<idx_buff, hdr>>, ~ Empty(w)
  PROVE  /\ QueueOf(w) # <<>>
         /\ Head(QueueOf(w)) = hdr[Queued(w, out[w])].packet
         /\ QueueOf(w)' = Tail(QueueOf(w))
<1>1. /\ w \in Thread /\ Room(w) \in Nat \ {0} /\ Room(w) < Wrap
      /\ in[w] \in Counter /\ out[w] \in Counter /\ in[w] # out[w]
  BY RoomIs DEF Thread, Empty
<1>2. Dist(in'[w], out'[w]) = Room(w) - 1
  BY <1>1, WindowTake DEF Room
<1>3. Behind(out[w], 1) = out[w]
  <2>1. PICK n \in 1 .. Wrap, o \in Counter : n = 1 /\ o = out[w]
    BY <1>1, WrapAssumption
  <2>2. Behind(o, n) = IF o + n - 1 < Wrap THEN o + n - 1 ELSE o + n - 1 - Wrap
    BY BehindIs
  <2>3. Behind(o, n) = o
    BY <2>1, <2>2, WrapAssumption DEF Counter
  <2>4. QED
    BY <2>1, <2>3
<1>4. \A i \in 1 .. Room(w) - 1 : Behind(Inc(out[w]), i) = Behind(out[w], i + 1)
  <2>1. SUFFICES ASSUME NEW i \in 1 .. Room(w) - 1
                 PROVE  Behind(Inc(out[w]), i) = Behind(out[w], i + 1)
    OBVIOUS
  <2>2. PICK o \in Counter, p \in Counter : o = out[w] /\ p = Inc(out[w])
    BY <1>1, IncValue
  <2>3. PICK n \in 1 .. Wrap : n = i + 1 /\ i \in 1 .. Wrap
    <3>1. PICK m \in Nat : m = Room(w) /\ m < Wrap
      BY <1>1
    <3>2. i + 1 \in 1 .. Wrap /\ i \in 1 .. Wrap
      BY <3>1, WrapAssumption
    <3>3. QED
      BY <3>2
  <2>4. p = IF o = Wrap - 1 THEN 0 ELSE o + 1
    BY <2>2, IncValue
  <2>5. Behind(o, n) = IF o + n - 1 < Wrap THEN o + n - 1 ELSE o + n - 1 - Wrap
    BY BehindIs
  <2>6. Behind(p, i) = IF p + i - 1 < Wrap THEN p + i - 1 ELSE p + i - 1 - Wrap
    BY <2>3, BehindIs
  <2>7. Behind(p, i) = Behind(o, n)
    BY <2>3, <2>4, <2>5, <2>6, WrapAssumption DEF Counter
  <2>8. QED
    BY <2>2, <2>3, <2>7
<1>5. QueueOf(w)' = [i \in 1 .. Room(w) - 1 |-> hdr[Queued(w, Behind(Inc(out[w]), i))].packet]
  BY <1>2 DEF QueueOf, Behind, Queued
<1>6. QueueOf(w) = [i \in 1 .. Room(w) |-> hdr[Queued(w, Behind(out[w], i))].packet]
  BY DEF QueueOf, Room, Behind
<1>7. Len(QueueOf(w)) = Room(w) /\ QueueOf(w) # <<>>
  BY <1>1, <1>6
<1>8. Head(QueueOf(w)) = hdr[Queued(w, out[w])].packet
  BY <1>1, <1>3, <1>6
<1>9. Tail(QueueOf(w)) = [i \in 1 .. Room(w) - 1 |-> hdr[Queued(w, Behind(out[w], i + 1))].packet]
  BY <1>1, <1>6
<1>10. QED
  BY <1>4, <1>5, <1>7, <1>8, <1>9

-----------------------------------------------------------------------------
(* The variables of PacketPool.                                            *)

Free == Dist(in[Capture], out[Capture])
Fifo == [w \in Worker |-> QueueOf(w)]
Hand == [w \in Worker |-> IF Holding(w) THEN hdr[enc[w]].packet ELSE NULL]

Doing(at, packet) == [at |-> at, packet |-> packet]

StateOf(p, d, q) ==
  CASE p \in {"take", "advance"} -> [at |-> "arrived", packet |-> q]
    [] p \in {"memset", "fill"} \/ d \in Worker -> [at |-> "dealing", packet |-> q]
    [] d = Capture -> [at |-> "returning", packet |-> NULL]
    [] OTHER -> [at |-> "idle", packet |-> NULL]

LEMMA StateIs ==
  /\ \A p, q : p \in {"take", "advance"} => StateOf(p, NULL, q) = Doing("arrived", q)
  /\ \A p, q : p \in {"memset", "fill"} => StateOf(p, NULL, q) = Doing("dealing", q)
  /\ \A q : StateOf("idle", NULL, q) = Doing("idle", NULL)
  /\ \A p, q : p \in {"enring", "store", "commit"} =>
       /\ \A d \in Worker : StateOf(p, d, q) = Doing("dealing", q)
       /\ StateOf(p, Capture, q) = Doing("returning", NULL)
<1>1. NULL \notin Worker /\ NULL # Capture /\ Capture \notin Worker
  BY NameFacts, PcapQueueAssumption DEF Thread
<1>2. QED
  BY <1>1 DEF StateOf, Doing

\* The capture thread's state, and the same after a step.
LEMMA CaptureStateIs ==
  /\ CaptureState = StateOf(pc[Capture], dst[Capture], pkt)
  /\ CaptureState' = StateOf(pc'[Capture], dst'[Capture], pkt')
BY DEF CaptureState, StateOf

\* Where the other threads' steps leave the capture thread.
LEMMA WorkerStep ==
  ASSUME IInv, NEW t \in Worker, Ring(t) \/ WorkerPoll(t)
  PROVE  /\ UNCHANGED <<hdr, pkt, last_thread>>
         /\ pc'[Capture] = pc[Capture] /\ dst'[Capture] = dst[Capture]
         /\ enc'[Capture] = enc[Capture]
         /\ CaptureState' = CaptureState
<1>1. t # Capture /\ Capture \in Thread /\ t \in Thread
  BY NameFacts DEF Thread
<1>2. /\ pc \in [Thread -> {"idle", "take", "advance", "memset", "fill",
                            "enring", "store", "commit"}]
      /\ enc \in [Thread -> Buf \cup {NULL}] /\ dst \in [Thread -> Thread \cup {NULL}]
  BY DEF IInv, TypeOK
<1>3. /\ UNCHANGED <<hdr, pkt, last_thread>>
      /\ pc'[Capture] = pc[Capture] /\ dst'[Capture] = dst[Capture]
      /\ enc'[Capture] = enc[Capture]
  <2>1. CASE DeringTake(t) \/ DeringAdvance(t) \/ WorkerPoll(t)
    BY <1>1, <1>2, <2>1 DEF DeringTake, DeringAdvance, WorkerPoll, Goto
  <2>2. CASE EnringLock(t) \/ EnringStore(t)
    BY <1>1, <1>2, <2>2 DEF EnringLock, EnringStore, Goto
  <2>3. CASE EnringCommit(t)
    BY <1>1, <1>2, <2>3 DEF EnringCommit, Finish, Goto
  <2>4. CASE EnringFull(t)
    BY <1>1, <1>2, <2>4 DEF EnringFull, Finish
  <2>5. QED
    BY <2>1, <2>2, <2>3, <2>4 DEF Ring
<1>4. QED
  BY <1>3, CaptureStateIs

\* The capture thread deals what it was given, to the worker whose turn it is.
LEMMA CaptureStep == IInv /\ CaptureOK /\ [Next]_vars => CaptureOK'
<1>1. SUFFICES ASSUME IInv, CaptureOK, [Next]_vars
               PROVE  CaptureOK'
  OBVIOUS
<1>2. Capture \in Thread /\ NULL \notin Worker /\ Capture \notin Worker
  BY NameFacts, PcapQueueAssumption DEF Thread
<1>3. /\ pc \in [Thread -> {"idle", "take", "advance", "memset", "fill",
                            "enring", "store", "commit"}]
      /\ dst \in [Thread -> Thread \cup {NULL}]
  BY <1>1 DEF IInv, TypeOK
<1>4. ASSUME pc'[Capture] = pc[Capture] \/ pc[Capture] \in {"idle", "take", "advance", "memset"},
             dst'[Capture] = dst[Capture],
             \/ dst[Capture] = NULL
             \/ UNCHANGED <<hdr, pkt, last_thread>> /\ enc'[Capture] = enc[Capture]
      PROVE  CaptureOK'
  BY <1>1, <1>2, <1>4 DEF CaptureOK
<1>5. CASE UNCHANGED vars
  BY <1>4, <1>5 DEF vars
<1>6. CASE PacketDropped
  <2>1. dst[Capture] = NULL
    BY <1>1, <1>6 DEF CaptureOK, PacketDropped
  <2>2. QED
    BY <1>4, <1>6, <2>1 DEF PacketDropped
<1>7. CASE \E p \in Pkt : PacketAccepted(p)
  <2>1. dst[Capture] = NULL /\ pc[Capture] = "idle" /\ dst' = dst
    BY <1>1, <1>7 DEF CaptureOK, PacketAccepted, Goto
  <2>2. QED
    BY <1>4, <2>1
<1>8. CASE Memset
  <2>1. dst[Capture] = NULL /\ pc[Capture] = "memset" /\ dst' = dst
    BY <1>1, <1>8 DEF CaptureOK, Memset, Goto
  <2>2. QED
    BY <1>4, <2>1
<1>9. CASE Fill
  <2>1. /\ pc'[Capture] = "enring" /\ dst'[Capture] = last_thread
        /\ UNCHANGED <<enc, pkt, last_thread>>
        /\ hdr' = [hdr EXCEPT ![enc[Capture]] = [r |-> Capture, packet |-> pkt]]
    BY <1>2, <1>3, <1>9 DEF Fill, Goto
  <2>2. enc[Capture] \in Buf /\ hdr \in [Buf -> [r : {NULL, Capture}, packet : Pkt \cup {NULL}]]
    BY <1>1, <1>2, <1>9 DEF IInv, TypeOK, LocalsOK, Holding, Fill, Goto
  <2>3. hdr'[enc'[Capture]].packet = pkt
    BY <2>1, <2>2
  <2>4. QED
    BY <2>1, <2>3 DEF CaptureOK
<1>10. CASE \E w \in Worker : WorkerPoll(w) \/ Ring(w)
  BY <1>1, <1>4, <1>10, WorkerStep
<1>11. CASE Ring(Capture)
  <2>1. CASE DeringTake(Capture) \/ DeringAdvance(Capture)
    <3>1. dst[Capture] = NULL /\ pc[Capture] \in {"take", "advance"} /\ dst'[Capture] = dst[Capture]
      BY <1>1, <2>1 DEF CaptureOK, DeringTake, DeringAdvance, Goto
    <3>2. QED
      BY <1>4, <3>1
  <2>2. CASE EnringLock(Capture) \/ EnringStore(Capture)
    <3>1. /\ UNCHANGED <<hdr, pkt, last_thread, dst, enc>>
          /\ pc'[Capture] \in {"store", "commit"}
      BY <1>2, <1>3, <2>2 DEF EnringLock, EnringStore, Goto
    <3>2. QED
      BY <1>1, <3>1 DEF CaptureOK
  <2>3. CASE EnringCommit(Capture)
    <3>1. dst'[Capture] = NULL
      BY <1>2, <1>3, <2>3 DEF EnringCommit, Finish
    <3>2. QED
      BY <1>2, <3>1 DEF CaptureOK
  <2>4. CASE EnringFull(Capture)
    <3>1. pc[Capture] = "enring" /\ dst[Capture] # Capture
      BY <1>1, <1>2, <2>4, RoomForHolder DEF EnringFull, Holding
    <3>2. pc' = pc /\ dst'[Capture] = Capture
      BY <1>2, <1>3, <2>4, <3>1 DEF EnringFull
    <3>3. QED
      BY <1>2, <3>1, <3>2 DEF CaptureOK
  <2>5. QED
    BY <1>11, <2>1, <2>2, <2>3, <2>4 DEF Ring
<1>12. CASE \E t \in Thread : Ring(t)
  BY <1>10, <1>11, <1>12 DEF Thread
<1>13. QED
  BY <1>1, <1>5, <1>6, <1>7, <1>8, <1>9, <1>10, <1>12 DEF Next, Callback

-----------------------------------------------------------------------------
(* Steps that PacketPool does not see.                                     *)

Seen == <<Free, last_thread, CaptureState, Fifo, Hand>>

\* A step of one thread that touches no ring and no header.
LEMMA Unseen ==
  ASSUME IInv, NEW t \in Thread, UNCHANGED <<idx_buff, in, out, hdr, last_thread>>,
         \A u \in Thread : u # t => pc'[u] = pc[u] /\ enc'[u] = enc[u],
         Holding(t)' = Holding(t), Holding(t) => enc'[t] = enc[t],
         CaptureState' = CaptureState
  PROVE  UNCHANGED Seen
<1>1. \A w \in Worker : QueueOf(w)' = QueueOf(w)
  BY DEF QueueOf, Queued
<1>2. ASSUME NEW w \in Worker
      PROVE  /\ Holding(w)' = Holding(w)
             /\ Holding(w) => enc'[w] = enc[w]
  <2>1. w \in Thread
    BY DEF Thread
  <2>2. QED
    BY <2>1 DEF Holding
<1>3. Hand' = Hand
  BY <1>2 DEF Hand
<1>4. Free' = Free
  BY DEF Free
<1>5. Fifo' = Fifo
  BY <1>1 DEF Fifo
<1>6. QED
  BY <1>3, <1>4, <1>5 DEF Seen

\* A poll, the read of a slot, and the lock.
LEMMA PollUnseen ==
  ASSUME IInv, CaptureOK, NEW t \in Thread,
         (t \in Worker /\ WorkerPoll(t)) \/ DeringTake(t) \/ EnringLock(t)
  PROVE  UNCHANGED Seen
<1>1. /\ pc \in [Thread -> {"idle", "take", "advance", "memset", "fill",
                            "enring", "store", "commit"}]
      /\ enc \in [Thread -> Buf \cup {NULL}] /\ dst \in [Thread -> Thread \cup {NULL}]
      /\ Capture \in Thread
  BY NameFacts DEF IInv, TypeOK
<1>2. /\ UNCHANGED <<idx_buff, in, out, hdr, last_thread, dst, pkt>>
      /\ \A u \in Thread : u # t => pc'[u] = pc[u] /\ enc'[u] = enc[u]
      /\ Holding(t)' = Holding(t)
      /\ Holding(t) => enc'[t] = enc[t]
  <2>1. CASE WorkerPoll(t)
    BY <1>1, <2>1 DEF WorkerPoll, Goto, Holding, rings
  <2>2. CASE DeringTake(t)
    BY <1>1, <2>2 DEF DeringTake, Goto, Holding, rings
  <2>3. CASE EnringLock(t)
    BY <1>1, <2>3 DEF EnringLock, Goto, Holding
  <2>4. QED
    BY <2>1, <2>2, <2>3
<1>3. CaptureState' = CaptureState
  <2>1. CASE t # Capture
    <3>1. t \in Worker
      BY <2>1, NameFacts
    <3>2. QED
      BY <3>1, WorkerStep DEF Ring
  <2>2. CASE t = Capture
    <3>1. CASE DeringTake(t)
      <4>1. pc[t] = "take" /\ pc'[t] = "advance" /\ dst[t] = NULL
        BY <1>1, <2>2, <3>1 DEF DeringTake, Goto, CaptureOK
      <4>2. QED
        BY <1>2, <2>2, <4>1, CaptureStateIs, StateIs
    <3>2. CASE EnringLock(t)
      <4>1. pc[t] = "enring" /\ pc'[t] = "store" /\ dst[t] \in Worker \cup {Capture}
        BY <1>1, <2>2, <3>2 DEF EnringLock, Goto, Thread
      <4>2. QED
        BY <1>2, <2>2, <4>1, CaptureStateIs, StateIs
    <3>3. QED
      BY <2>2, <3>1, <3>2, NameFacts
  <2>3. QED
    BY <2>1, <2>2
<1>4. QED
  BY <1>2, <1>3, Unseen

LEMMA StoreUnseen ==
  ASSUME IInv, CaptureOK, NEW t \in Thread, EnringStore(t)
  PROVE  UNCHANGED Seen
<1>1. /\ pc \in [Thread -> {"idle", "take", "advance", "memset", "fill",
                            "enring", "store", "commit"}]
      /\ dst \in [Thread -> Thread \cup {NULL}] /\ Capture \in Thread
  BY NameFacts DEF IInv, TypeOK
<1>2. /\ UNCHANGED <<in, out, hdr, enc, dst, pkt, last_thread>>
      /\ pc[t] = "store" /\ pc' = [pc EXCEPT ![t] = "commit"]
  BY DEF EnringStore, Goto
<1>3. \A w \in Worker : QueueOf(w)' = QueueOf(w)
  <2>1. SUFFICES ASSUME NEW w \in Worker PROVE QueueOf(w)' = QueueOf(w)
    OBVIOUS
  <2>2. w \in Thread
    BY DEF Thread
  <2>3. \A x \in Win(w) : Queued(w, x)' = Queued(w, x)
    BY <2>2, StoreKeeps
  <2>4. QED
    BY <1>2, <2>3, QueueSame
<1>4. \A u \in Thread : Holding(u)' = Holding(u)
  BY <1>1, <1>2 DEF Holding
<1>5. Hand' = Hand
  BY <1>2, <1>4 DEF Hand, Thread
<1>6. CaptureState' = CaptureState
  <2>1. CASE t # Capture
    <3>1. t \in Worker
      BY <2>1, NameFacts
    <3>2. QED
      BY <3>1, WorkerStep DEF Ring
  <2>2. CASE t = Capture
    <3>1. /\ pc[t] = "store" /\ pc'[t] = "commit" /\ dst[t] \in Worker \cup {Capture}
      BY <1>1, <1>2, <2>2 DEF IInv, LocalsOK, Thread
    <3>2. QED
      BY <1>2, <2>2, <3>1, CaptureStateIs, StateIs
  <2>3. QED
    BY <2>1, <2>2
<1>7. QED
  BY <1>2, <1>3, <1>5, <1>6 DEF Seen, Fifo, Free

\* The capture thread writes only into the header of the buffer it holds.
LEMMA CallbackUnseen ==
  ASSUME IInv, CaptureOK, Memset \/ Fill
  PROVE  UNCHANGED Seen
<1>1. /\ pc \in [Thread -> {"idle", "take", "advance", "memset", "fill",
                            "enring", "store", "commit"}]
      /\ dst \in [Thread -> Thread \cup {NULL}] /\ Capture \in Thread
      /\ last_thread \in Worker /\ Capture \notin Worker
      /\ hdr \in [Buf -> [r : {NULL, Capture}, packet : Pkt \cup {NULL}]]
  BY NameFacts DEF IInv, TypeOK
<1>2. PICK b : b = enc[Capture]
  OBVIOUS
<1>3. /\ UNCHANGED <<idx_buff, in, out, enc, pkt, last_thread>>
      /\ pc[Capture] \in {"memset", "fill"}
      /\ \A u \in Thread : u # Capture => pc'[u] = pc[u]
      /\ \E h : hdr' = [hdr EXCEPT ![b] = h]
  <2>1. CASE Memset
    BY <1>1, <1>2, <2>1 DEF Memset, Goto, rings
  <2>2. CASE Fill
    BY <1>1, <1>2, <2>2 DEF Fill, Goto, rings
  <2>3. QED
    BY <2>1, <2>2
<1>4. Holding(Capture)
  BY <1>3 DEF Holding
<1>5. \A c \in Buf : c # b => hdr'[c] = hdr[c]
  BY <1>1, <1>3
<1>6. \A w \in Worker : QueueOf(w)' = QueueOf(w)
  <2>1. SUFFICES ASSUME NEW w \in Worker PROVE QueueOf(w)' = QueueOf(w)
    OBVIOUS
  <2>2. w \in Thread
    BY DEF Thread
  <2>3. \A x \in Win(w) : Queued(w, x)' = Queued(w, x)
    BY <1>3 DEF Queued
  <2>4. \A x \in Win(w) : Queued(w, x) \in Buf /\ Queued(w, x) # b
    BY <1>1, <1>2, <1>4, <2>2 DEF IInv, RingsOK, Unshared
  <2>5. QED
    BY <1>3, <1>5, <2>3, <2>4, QueueSame
<1>7. Hand' = Hand
  <2>1. ASSUME NEW w \in Worker
        PROVE  /\ Holding(w)' = Holding(w) /\ enc'[w] = enc[w]
               /\ Holding(w) => hdr'[enc[w]] = hdr[enc[w]]
    <3>1. w \in Thread /\ w # Capture
      BY <1>1 DEF Thread
    <3>2. Holding(w) => enc[w] \in Buf /\ enc[w] # b
      BY <1>1, <1>2, <1>4, <3>1 DEF IInv, LocalsOK, Unshared
    <3>3. QED
      BY <1>3, <1>5, <3>1, <3>2 DEF Holding
  <2>2. QED
    BY <2>1 DEF Hand
<1>8. CaptureState' = CaptureState
  <2>1. dst[Capture] = NULL
    BY <1>3 DEF CaptureOK
  <2>2. CASE Memset
    <3>1. pc[Capture] = "memset" /\ pc'[Capture] = "fill" /\ dst' = dst /\ pkt' = pkt
      BY <1>1, <2>2 DEF Memset, Goto
    <3>2. QED
      BY <2>1, <3>1, CaptureStateIs, StateIs
  <2>3. CASE Fill
    <3>1. /\ pc[Capture] = "fill" /\ pc'[Capture] = "enring"
          /\ dst'[Capture] = last_thread /\ pkt' = pkt
      BY <1>1, <2>3 DEF Fill, Goto
    <3>2. QED
      BY <1>1, <2>1, <3>1, CaptureStateIs, StateIs, SMTT(30)
  <2>4. QED
    BY <2>2, <2>3
<1>9. QED
  BY <1>3, <1>6, <1>7, <1>8 DEF Seen, Fifo, Free

LEMMA HandIs ==
  ASSUME IInv, NEW w \in Worker
  PROVE  /\ Holding(w) => Hand[w] = hdr[enc[w]].packet /\ Hand[w] \in Pkt
         /\ Hand[w] = NULL <=> ~ Holding(w)
<1>1. w \in Thread /\ NULL \notin Pkt
  BY PcapQueueAssumption DEF Thread
<1>2. Holding(w) => hdr[enc[w]].packet \in Pkt
  BY <1>1 DEF IInv, LocalsOK, Complete, Holding
<1>3. QED
  BY <1>1, <1>2 DEF Hand

\* A step of one thread leaves the hands of the others as they are, and the rings it
\* does not move.
LEMMA Others ==
  ASSUME NEW t \in Thread, hdr' = hdr,
         \A u \in Thread : u # t => pc'[u] = pc[u] /\ enc'[u] = enc[u]
  PROVE  \A w \in Worker : w # t => Hand'[w] = Hand[w]
<1>1. \A w \in Worker : w \in Thread
  BY DEF Thread
<1>2. QED
  BY <1>1 DEF Hand, Holding

LEMMA OtherQueues ==
  ASSUME NEW r \in Thread, UNCHANGED <<idx_buff, hdr>>,
         \A s \in Thread : s # r => in'[s] = in[s] /\ out'[s] = out[s]
  PROVE  \A w \in Worker : w # r => Fifo'[w] = Fifo[w]
<1>1. \A w \in Worker : w \in Thread
  BY DEF Thread
<1>2. \A w \in Worker : w # r => QueueOf(w)' = QueueOf(w)
  BY <1>1 DEF QueueOf, Queued
<1>3. QED
  BY <1>2 DEF Fifo

LEMMA DropSim ==
  ASSUME IInv, CaptureOK, PacketDropped
  PROVE  Abstract!Drop
<1>1. /\ pc[Capture] = "idle" /\ Empty(Capture)
      /\ last_thread' = (last_thread + 1) % nthreads
      /\ UNCHANGED <<idx_buff, in, out, hdr, pc, enc, dst, pkt>>
  BY DEF PacketDropped, rings
<1>2. CaptureState = Doing("idle", NULL)
  BY <1>1, CaptureStateIs, StateIs DEF CaptureOK
<1>3. Free = 0
  BY <1>1, RoomIs, NameFacts DEF Free, Room
<1>4. CaptureState' = CaptureState
  BY <1>1, CaptureStateIs
<1>5. Free' = Free /\ Fifo' = Fifo /\ Hand' = Hand
  BY <1>1 DEF Free, Fifo, Hand, QueueOf, Queued, Holding
<1>6. QED
  BY <1>1, <1>2, <1>3, <1>4, <1>5
     DEF Abstract!Drop, Abstract!NextTurn, Abstract!Idle, Doing, Free, Fifo, Hand

LEMMA ArriveSim ==
  ASSUME IInv, CaptureOK, NEW p \in Pkt, PacketAccepted(p)
  PROVE  Abstract!Arrive(p)
<1>1. /\ pc[Capture] = "idle" /\ ~ Empty(Capture)
      /\ last_thread' = (last_thread + 1) % nthreads
      /\ pc' = [pc EXCEPT ![Capture] = "take"] /\ pkt' = p
      /\ UNCHANGED <<idx_buff, in, out, hdr, enc, dst>>
  BY DEF PacketAccepted, Goto, rings
<1>2. /\ Capture \in Thread /\ Capture \notin Worker
      /\ pc'[Capture] = "take" /\ dst[Capture] = NULL
      /\ \A u \in Thread : u # Capture => pc'[u] = pc[u]
  BY <1>1, NameFacts DEF CaptureOK, IInv, TypeOK
<1>3. CaptureState = Doing("idle", NULL) /\ CaptureState' = Doing("arrived", p)
  BY <1>1, <1>2, CaptureStateIs, StateIs
<1>4. Free > 0
  BY <1>1, RoomIs, NameFacts DEF Free, Room
<1>5. Free' = Free /\ Fifo' = Fifo
  BY <1>1 DEF Free, Fifo, QueueOf, Queued
<1>6. Hand' = Hand
  <2>1. \A w \in Worker : Hand'[w] = Hand[w]
    BY <1>1, <1>2, Others
  <2>2. QED
    BY <2>1 DEF Hand
<1>7. QED
  BY <1>1, <1>3, <1>4, <1>5, <1>6
     DEF Abstract!Arrive, Abstract!NextTurn, Abstract!Idle, Doing, Free, Fifo, Hand

LEMMA TakeBufferSim ==
  ASSUME IInv, CaptureOK, DeringAdvance(Capture)
  PROVE  Abstract!TakeBuffer
<1>1. /\ pc[Capture] = "advance" /\ pc' = [pc EXCEPT ![Capture] = "memset"]
      /\ out' = [out EXCEPT ![Capture] = Inc(@)]
      /\ UNCHANGED <<idx_buff, in, hdr, enc, dst, pkt, last_thread>>
  BY DEF DeringAdvance, Goto
<1>2. /\ Capture \in Thread /\ Capture \notin Worker
      /\ pc'[Capture] = "memset" /\ dst[Capture] = NULL
      /\ \A u \in Thread : u # Capture => pc'[u] = pc[u] /\ out'[u] = out[u]
      /\ out'[Capture] = Inc(out[Capture])
  BY <1>1, NameFacts DEF CaptureOK, IInv, TypeOK
<1>3. CaptureState = Doing("arrived", pkt) /\ CaptureState' = Doing("dealing", pkt)
  BY <1>1, <1>2, CaptureStateIs, StateIs
<1>4. ~ Empty(Capture)
  BY <1>1, <1>2 DEF IInv, LocalsOK
<1>5. Free > 0 /\ Free' = Free - 1
  <2>1. /\ in[Capture] \in Counter /\ out[Capture] \in Counter
        /\ in[Capture] # out[Capture] /\ Free \in Nat \ {0}
    BY <1>2, <1>4, RoomIs DEF Free, Room, Empty
  <2>2. Dist(in[Capture], Inc(out[Capture])) = Dist(in[Capture], out[Capture]) - 1
    BY <2>1, WindowTake
  <2>3. QED
    BY <1>1, <1>2, <2>1, <2>2 DEF Free
<1>6. Fifo' = Fifo
  <2>1. \A w \in Worker : Fifo'[w] = Fifo[w]
    BY <1>1, <1>2, OtherQueues
  <2>2. QED
    BY <2>1 DEF Fifo
<1>7. Hand' = Hand
  <2>1. \A w \in Worker : Hand'[w] = Hand[w]
    BY <1>1, <1>2, Others
  <2>2. QED
    BY <2>1 DEF Hand
<1>8. CaptureState' = [CaptureState EXCEPT !.at = "dealing"]
  BY <1>3 DEF Doing
<1>9. CaptureState.at = "arrived"
  BY <1>3 DEF Doing
<1>10. QED
  BY <1>1, <1>5, <1>6, <1>7, <1>8, <1>9
     DEF Abstract!TakeBuffer, Free, Fifo, Hand

LEMMA TakeSim ==
  ASSUME IInv, CaptureOK, NEW w \in Worker, DeringAdvance(w)
  PROVE  Abstract!Take(w)
<1>1. /\ w \in Thread /\ w # Capture /\ Capture \in Thread
  BY NameFacts DEF Thread
<1>2. /\ pc[w] = "advance" /\ pc' = [pc EXCEPT ![w] = "enring"]
      /\ out' = [out EXCEPT ![w] = Inc(@)]
      /\ UNCHANGED <<idx_buff, in, hdr, enc, pkt, last_thread>>
  BY <1>1 DEF DeringAdvance, Goto
<1>3. /\ pc'[w] = "enring" /\ out'[w] = Inc(out[w])
      /\ \A u \in Thread : u # w => pc'[u] = pc[u] /\ out'[u] = out[u]
  BY <1>1, <1>2 DEF IInv, TypeOK
<1>4. ~ Empty(w) /\ enc[w] = Queued(w, out[w])
  BY <1>1, <1>2 DEF IInv, LocalsOK
<1>5. /\ QueueOf(w) # <<>> /\ Head(QueueOf(w)) = hdr[enc[w]].packet
      /\ QueueOf(w)' = Tail(QueueOf(w))
  BY <1>2, <1>3, <1>4, QueueTake
<1>6. Fifo' = [Fifo EXCEPT ![w] = Tail(@)]
  <2>1. \A v \in Worker : v # w => Fifo'[v] = Fifo[v]
    BY <1>1, <1>2, <1>3, OtherQueues
  <2>2. Fifo'[w] = Tail(Fifo[w])
    BY <1>5 DEF Fifo
  <2>3. QED
    BY <2>1, <2>2 DEF Fifo
<1>7. Hand[w] = NULL /\ Hand' = [Hand EXCEPT ![w] = Head(Fifo[w])]
  <2>1. ~ Holding(w) /\ Holding(w)'
    BY <1>2, <1>3 DEF Holding
  <2>2. Hand'[w] = Head(Fifo[w]) /\ Hand[w] = NULL
    BY <1>2, <1>5, <2>1 DEF Hand, Fifo
  <2>3. \A v \in Worker : v # w => Hand'[v] = Hand[v]
    BY <1>1, <1>2, <1>3, Others
  <2>4. QED
    BY <2>2, <2>3 DEF Hand
<1>8. UNCHANGED <<Free, last_thread, CaptureState>>
  BY <1>1, <1>2, <1>3, WorkerStep DEF Ring, Free
<1>9. Fifo[w] # <<>>
  BY <1>5 DEF Fifo
<1>10. QED
  BY <1>6, <1>7, <1>8, <1>9 DEF Abstract!Take, Free, Fifo, Hand

\* A buffer is put behind those of the ring it goes to.
LEMMA Commit ==
  ASSUME IInv, NEW t \in Thread, EnringCommit(t)
  PROVE  /\ dst[t] \in Thread /\ Holding(t) /\ enc[t] \in Buf
         /\ pc[t] = "commit" /\ pc'[t] = "idle" /\ ~ Holding(t)'
         /\ \A u \in Thread : u # t => pc'[u] = pc[u] /\ enc'[u] = enc[u] /\ dst'[u] = dst[u]
         /\ \A r \in Thread : r # dst[t] => in'[r] = in[r] /\ out'[r] = out[r]
         /\ in'[dst[t]] = Inc(in[dst[t]]) /\ out' = out
         /\ UNCHANGED <<idx_buff, hdr, last_thread>>
         /\ Dist(in[dst[t]], out[dst[t]]) < Size(dst[t])
         /\ Queued(dst[t], in[dst[t]]) = enc[t]
<1>1. /\ pc[t] = "commit" /\ pc' = [pc EXCEPT ![t] = "idle"]
      /\ in' = [in EXCEPT ![dst[t]] = Inc(@)]
      /\ enc' = [enc EXCEPT ![t] = NULL] /\ dst' = [dst EXCEPT ![t] = NULL]
      /\ UNCHANGED <<idx_buff, out, hdr, last_thread>>
  BY DEF EnringCommit, Finish, Goto
<1>2. Holding(t) /\ enc[t] \in Buf /\ dst[t] \in Thread
  BY <1>1 DEF IInv, LocalsOK, Holding
<1>3. /\ Dist(in[dst[t]], out[dst[t]]) < Size(dst[t])
      /\ Queued(dst[t], in[dst[t]]) = enc[t]
  BY <1>1 DEF IInv, LockOK
<1>4. pc'[t] = "idle" /\ ~ Holding(t)'
  BY <1>1 DEF IInv, TypeOK, Holding
<1>5. QED
  BY <1>1, <1>2, <1>3, <1>4 DEF IInv, TypeOK

\* A buffer comes back to the pool.
LEMMA PoolPut ==
  ASSUME IInv, NEW t \in Thread, Holding(t), in'[Capture] = Inc(in[Capture]),
         out'[Capture] = out[Capture]
  PROVE  Free < nbuf /\ Free' = Free + 1
<1>1. /\ in[Capture] \in Counter /\ out[Capture] \in Counter
      /\ Free \in Nat /\ Free < Wrap
  BY NameFacts, RoomIs DEF Free, Room
<1>2. Free <= nbuf - 1 /\ nbuf \in Nat /\ nbuf < Wrap
  BY PoolBelowStock, PcapQueueAssumption, WrapAssumption DEF Free
<1>3. Free < nbuf /\ Free < Wrap - 1
  BY <1>1, <1>2, WrapAssumption
<1>4. Dist(Inc(in[Capture]), out[Capture]) = Dist(in[Capture], out[Capture]) + 1
  BY <1>1, <1>3, WindowPut DEF Free
<1>5. Free' = Free + 1
  BY <1>4 DEF Free
<1>6. QED
  BY <1>3, <1>5

LEMMA DealSim ==
  ASSUME IInv, CaptureOK, EnringCommit(Capture), dst[Capture] \in Worker
  PROVE  Abstract!Deal
<1>0. PICK w \in Worker : w = dst[Capture]
  OBVIOUS
<1>1. /\ Capture \in Thread /\ w \in Thread /\ w # Capture
      /\ w = last_thread /\ hdr[enc[Capture]].packet = pkt
  BY <1>0, NameFacts DEF Thread, CaptureOK
<1>2. /\ pc[Capture] = "commit" /\ pc'[Capture] = "idle" /\ dst'[Capture] = NULL
      /\ CaptureState = Doing("dealing", pkt)
      /\ CaptureState' = Doing("idle", NULL)
  <2>1. pc[Capture] = "commit" /\ pc'[Capture] = "idle"
    BY <1>0, <1>1, Commit
  <2>2. dst'[Capture] = NULL
    BY <1>1 DEF EnringCommit, Finish, IInv, TypeOK
  <2>3. QED
    BY <1>0, <2>1, <2>2, CaptureStateIs, StateIs
<1>3. QueueOf(w)' = Append(QueueOf(w), pkt)
  <2>1. Room(w) < WorkerSize
    BY <1>0, <1>1, Commit DEF Room, Size
  <2>2. Room(w) < Wrap - 1
    BY <1>1, <2>1, RoomIs, PcapQueueAssumption, WrapAssumption
  <2>3. /\ in'[w] = Inc(in[w]) /\ out' = out /\ UNCHANGED <<idx_buff, hdr>>
        /\ Queued(w, in[w]) = enc[Capture]
    BY <1>0, <1>1, Commit
  <2>4. QueueOf(w)' = Append(QueueOf(w), hdr[Queued(w, in[w])].packet)
    BY <2>2, <2>3, QueuePut
  <2>5. QED
    BY <1>0, <1>1, <2>3, <2>4
<1>4. Fifo' = [Fifo EXCEPT ![last_thread] = Append(@, CaptureState.packet)]
  <2>1. \A v \in Worker : v # w => Fifo'[v] = Fifo[v]
    <3>1. /\ UNCHANGED <<idx_buff, hdr>>
          /\ \A s \in Thread : s # w => in'[s] = in[s] /\ out'[s] = out[s]
      BY <1>0, <1>1, Commit
    <3>2. QED
      BY <1>1, <3>1, OtherQueues
  <2>2. CaptureState.packet = pkt
    BY <1>2 DEF Doing
  <2>3. Fifo'[w] = Append(Fifo[w], CaptureState.packet)
    BY <1>0, <1>3, <2>2 DEF Fifo
  <2>4. QED
    BY <1>0, <1>1, <2>1, <2>3 DEF Fifo
<1>5. Len(Fifo[last_thread]) < WorkerSize
  <2>1. Len(QueueOf(w)) = Room(w)
    BY QueueIs
  <2>2. Room(w) < WorkerSize
    BY <1>0, <1>1, Commit DEF Room, Size
  <2>3. QED
    BY <1>1, <2>1, <2>2 DEF Fifo
<1>6. Free' = Free
  BY <1>0, <1>1, Commit DEF Free
<1>7. Hand' = Hand
  <2>1. \A v \in Worker : Hand'[v] = Hand[v]
    <3>1. hdr' = hdr /\ \A u \in Thread : u # Capture => pc'[u] = pc[u] /\ enc'[u] = enc[u]
      BY <1>0, <1>1, Commit
    <3>2. QED
      BY <1>1, <3>1, Others, NameFacts
  <2>2. QED
    BY <2>1 DEF Hand
<1>8. last_thread' = last_thread
  BY <1>0, <1>1, Commit
<1>9. CaptureState.at = "dealing" /\ CaptureState' = Abstract!Idle
  BY <1>2 DEF Doing, Abstract!Idle
<1>10. QED
  BY <1>4, <1>5, <1>6, <1>7, <1>8, <1>9 DEF Abstract!Deal, Fifo, Free, Hand

LEMMA PutBackSim ==
  ASSUME IInv, CaptureOK, EnringCommit(Capture), dst[Capture] = Capture
  PROVE  Abstract!PutBack
<1>1. Capture \in Thread /\ Capture \notin Worker
  BY NameFacts
<1>2. /\ CaptureState = Doing("returning", NULL)
      /\ CaptureState' = Doing("idle", NULL)
  <2>1. pc[Capture] = "commit" /\ pc'[Capture] = "idle"
    BY <1>1, Commit
  <2>2. dst'[Capture] = NULL
    BY <1>1 DEF EnringCommit, Finish, IInv, TypeOK
  <2>3. QED
    BY <2>1, <2>2, CaptureStateIs, StateIs
<1>3. Free < nbuf /\ Free' = Free + 1
  <2>1. Holding(Capture) /\ in'[Capture] = Inc(in[Capture]) /\ out' = out
    BY <1>1, Commit
  <2>2. QED
    BY <1>1, <2>1, PoolPut
<1>4. Fifo' = Fifo
  <2>1. /\ UNCHANGED <<idx_buff, hdr>>
        /\ \A s \in Thread : s # Capture => in'[s] = in[s] /\ out'[s] = out[s]
    BY <1>1, Commit
  <2>2. \A v \in Worker : Fifo'[v] = Fifo[v]
    BY <1>1, <2>1, OtherQueues
  <2>3. QED
    BY <2>2 DEF Fifo
<1>5. Hand' = Hand
  <2>1. hdr' = hdr /\ \A u \in Thread : u # Capture => pc'[u] = pc[u] /\ enc'[u] = enc[u]
    BY <1>1, Commit
  <2>2. \A v \in Worker : Hand'[v] = Hand[v]
    BY <1>1, <2>1, Others
  <2>3. QED
    BY <2>2 DEF Hand
<1>6. last_thread' = last_thread
  BY <1>1, Commit
<1>7. CaptureState.at = "returning" /\ CaptureState' = Abstract!Idle
  BY <1>2 DEF Doing, Abstract!Idle
<1>8. QED
  BY <1>3, <1>4, <1>5, <1>6, <1>7 DEF Abstract!PutBack, Fifo, Free, Hand

LEMMA ReturnSim ==
  ASSUME IInv, CaptureOK, NEW w \in Worker, EnringCommit(w)
  PROVE  Abstract!Return(w)
<1>1. /\ w \in Thread /\ w # Capture /\ Capture \in Thread /\ Capture \notin Worker
  BY NameFacts DEF Thread
<1>2. Holding(w) /\ ~ Holding(w)' /\ dst[w] = Capture
  <2>1. Holding(w) /\ ~ Holding(w)'
    BY <1>1, Commit
  <2>2. QED
    BY <1>1, <2>1 DEF IInv, LocalsOK
<1>3. Free < nbuf /\ Free' = Free + 1
  <2>1. in'[Capture] = Inc(in[Capture]) /\ out' = out
    BY <1>1, <1>2, Commit
  <2>2. QED
    BY <1>1, <1>2, <2>1, PoolPut
<1>4. Fifo' = Fifo
  <2>1. /\ UNCHANGED <<idx_buff, hdr>>
        /\ \A s \in Thread : s # Capture => in'[s] = in[s] /\ out'[s] = out[s]
    BY <1>1, <1>2, Commit
  <2>2. \A v \in Worker : Fifo'[v] = Fifo[v]
    BY <1>1, <2>1, OtherQueues
  <2>3. QED
    BY <2>2 DEF Fifo
<1>5. Hand' = [Hand EXCEPT ![w] = NULL]
  <2>1. hdr' = hdr /\ \A u \in Thread : u # w => pc'[u] = pc[u] /\ enc'[u] = enc[u]
    BY <1>1, Commit
  <2>2. \A v \in Worker : v # w => Hand'[v] = Hand[v]
    BY <1>1, <2>1, Others
  <2>3. Hand'[w] = NULL
    BY <1>2 DEF Hand
  <2>4. QED
    BY <2>2, <2>3 DEF Hand
<1>6. Hand[w] # NULL
  BY <1>2, HandIs
<1>7. UNCHANGED <<last_thread, CaptureState>>
  BY WorkerStep DEF Ring
<1>8. QED
  BY <1>3, <1>4, <1>5, <1>6, <1>7 DEF Abstract!Return, Fifo, Free, Hand

\* Only a worker's ring is ever found full: the capture thread takes the buffer back.
LEMMA RefuseSim ==
  ASSUME IInv, CaptureOK, NEW t \in Thread, EnringFull(t)
  PROVE  Abstract!Refuse
<1>1. pc[t] = "enring" /\ Holding(t) /\ dst[t] # Capture /\ dst[t] \in Thread
  <2>1. pc[t] = "enring" /\ Holding(t) /\ Full(dst[t])
    BY DEF EnringFull, Holding
  <2>2. dst[t] \in Thread
    BY <2>1 DEF IInv, LocalsOK
  <2>3. QED
    BY <2>1, <2>2, RoomForHolder
<1>2. t = Capture /\ dst[t] \in Worker /\ dst[t] = last_thread
  <2>1. t \notin Worker
    BY <1>1 DEF IInv, LocalsOK
  <2>2. QED
    BY <1>1, <2>1 DEF Thread, CaptureOK
<1>3. /\ UNCHANGED <<idx_buff, in, out, hdr, pc, enc, pkt, last_thread>>
      /\ dst'[Capture] = Capture /\ Full(dst[t])
  BY <1>1, <1>2 DEF EnringFull, rings, IInv, TypeOK
<1>4. /\ CaptureState = Doing("dealing", pkt)
      /\ CaptureState' = Doing("returning", NULL)
  BY <1>1, <1>2, <1>3, CaptureStateIs, StateIs
<1>5. Len(Fifo[last_thread]) = WorkerSize
  <2>1. Len(QueueOf(last_thread)) = Room(last_thread)
    BY <1>2, QueueIs
  <2>2. Room(last_thread) = WorkerSize
    BY <1>1, <1>2, <1>3 DEF Full, Room, Size
  <2>3. QED
    BY <1>2, <2>1, <2>2 DEF Fifo
<1>6. Free' = Free /\ Fifo' = Fifo /\ Hand' = Hand
  BY <1>3 DEF Free, Fifo, Hand, QueueOf, Queued, Holding
<1>7. /\ CaptureState.at = "dealing"
      /\ CaptureState' = [at |-> "returning", packet |-> NULL]
  BY <1>4 DEF Doing
<1>8. QED
  BY <1>3, <1>5, <1>6, <1>7 DEF Abstract!Refuse, Fifo, Free, Hand

-----------------------------------------------------------------------------
LEMMA SimulatesInit == Init => Abstract!Init /\ CaptureOK
<1>1. SUFFICES ASSUME Init PROVE Abstract!Init /\ CaptureOK
  OBVIOUS
<1>2. Capture \in Thread /\ Capture \notin Worker /\ \A w \in Worker : w \in Thread
  BY NameFacts DEF Thread
<1>3. /\ pc[Capture] = "idle" /\ dst[Capture] = NULL /\ NULL \notin Worker
  BY <1>1, <1>2, NameFacts, PcapQueueAssumption DEF Init, Thread
<1>4. CaptureState = Abstract!Idle
  BY <1>3, CaptureStateIs, StateIs DEF Abstract!Idle, Doing
<1>5. Dist(in[Capture], out[Capture]) = nbuf
  <2>1. in[Capture] = nbuf /\ out[Capture] = 0
    BY <1>1, <1>2 DEF Init
  <2>2. nbuf \in Counter /\ 0 \in Counter
    BY PcapQueueAssumption, WrapAssumption DEF Counter
  <2>3. Dist(nbuf, 0) = nbuf
    <3>1. Dist(nbuf, 0) = IF nbuf >= 0 THEN nbuf - 0 ELSE nbuf - 0 + Wrap
      BY <2>2, DistValue
    <3>2. QED
      BY <3>1, PcapQueueAssumption
  <2>4. QED
    BY <2>1, <2>3
<1>6. \A w \in Worker : QueueOf(w) = <<>>
  <2>1. SUFFICES ASSUME NEW w \in Worker PROVE QueueOf(w) = <<>>
    OBVIOUS
  <2>2. IInv /\ w \in Thread
    BY <1>1, <1>2, InitIInv
  <2>3. Empty(w)
    BY <1>1, <1>2, <2>2 DEF Init, Empty
  <2>4. Room(w) = 0
    BY <2>2, <2>3, RoomIs
  <2>5. QueueOf(w) \in Seq(Pkt) /\ Len(QueueOf(w)) = 0
    BY <2>2, <2>4, QueueIs
  <2>6. QED
    BY <2>5
<1>7. \A w \in Worker : ~ Holding(w)
  BY <1>1, <1>2 DEF Init, Holding
<1>8. Abstract!Init
  BY <1>1, <1>4, <1>5, <1>6, <1>7 DEF Init, Abstract!Init, Abstract!Worker, Worker
<1>9. CaptureOK
  BY <1>3 DEF CaptureOK
<1>10. QED
  BY <1>8, <1>9

LEMMA SimulatesNext ==
  IInv /\ CaptureOK /\ [Next]_vars => [Abstract!Next]_(Abstract!vars)
<1>1. SUFFICES ASSUME IInv, CaptureOK, [Next]_vars
               PROVE  [Abstract!Next]_(Abstract!vars)
  OBVIOUS
<1>2. ASSUME UNCHANGED Seen PROVE UNCHANGED (Abstract!vars)
  BY <1>2 DEF Seen, Free, Fifo, Hand, Abstract!vars
<1>3. Abstract!Worker = Worker
  BY DEF Abstract!Worker, Worker
<1>4. CASE UNCHANGED vars
  <2>1. UNCHANGED Seen
    BY <1>4 DEF vars, Seen, Free, Fifo, Hand, QueueOf, Queued, Holding, CaptureState
  <2>2. QED
    BY <1>2, <2>1
<1>5. CASE PacketDropped
  BY <1>1, <1>5, DropSim DEF Abstract!Next
<1>6. ASSUME NEW p \in Pkt, PacketAccepted(p)
      PROVE  Abstract!Next
  BY <1>1, <1>6, ArriveSim DEF Abstract!Next
<1>7. CASE Callback
  BY <1>1, <1>2, <1>7, CallbackUnseen DEF Callback
<1>8. ASSUME NEW w \in Worker, WorkerPoll(w)
      PROVE  UNCHANGED Seen
  BY <1>1, <1>8, PollUnseen DEF Thread
<1>9. ASSUME NEW t \in Thread, Ring(t)
      PROVE  Abstract!Next \/ UNCHANGED Seen
  <2>1. CASE DeringTake(t) \/ EnringLock(t)
    BY <1>1, <2>1, PollUnseen
  <2>2. CASE DeringAdvance(t)
    <3>1. CASE t = Capture
      BY <1>1, <2>2, <3>1, TakeBufferSim DEF Abstract!Next
    <3>2. CASE t \in Worker
      BY <1>1, <1>3, <2>2, <3>2, TakeSim DEF Abstract!Next
    <3>3. QED
      BY <3>1, <3>2 DEF Thread
  <2>3. CASE EnringStore(t)
    BY <1>1, <2>3, StoreUnseen
  <2>4. CASE EnringCommit(t)
    <3>1. CASE t = Capture
      <4>1. dst[Capture] \in Worker \cup {Capture}
        BY <1>1, <2>4, <3>1, Commit DEF Thread
      <4>2. QED
        BY <1>1, <2>4, <3>1, <4>1, DealSim, PutBackSim DEF Abstract!Next
    <3>2. CASE t \in Worker
      BY <1>1, <1>3, <2>4, <3>2, ReturnSim DEF Abstract!Next
    <3>3. QED
      BY <3>1, <3>2 DEF Thread
  <2>5. CASE EnringFull(t)
    BY <1>1, <2>5, RefuseSim DEF Abstract!Next
  <2>6. QED
    BY <1>9, <2>1, <2>2, <2>3, <2>4, <2>5 DEF Ring
<1>10. QED
  BY <1>1, <1>2, <1>4, <1>5, <1>6, <1>7, <1>8, <1>9 DEF Next

\* What the capture thread has in hand is dealt to the worker whose turn it is, and to
\* nobody else: get_packet_callback sets enc->packet and the ring once, together.
THEOREM DealtInTurn == Spec => []CaptureOK
<1>1. Init => CaptureOK
  BY SimulatesInit
<1>2. IInv /\ CaptureOK /\ [Next]_vars => CaptureOK'
  BY CaptureStep
<1>3. QED
  BY <1>1, <1>2, Invariance, PTL DEF Spec

\* The pipeline implements PacketPool: seen as a stock of buffers and one FIFO per
\* worker, every step of pcap-queue's threads is a step of PacketPool or a stutter.
THEOREM Refinement == Spec => ImplementsPool
<1>1. Init => Abstract!Init
  BY SimulatesInit
<1>2. IInv /\ CaptureOK /\ [Next]_vars => [Abstract!Next]_(Abstract!vars)
  BY SimulatesNext
<1>3. QED
  BY <1>1, <1>2, Invariance, DealtInTurn, PTL DEF Spec, ImplementsPool, Abstract!Spec
=============================================================================
