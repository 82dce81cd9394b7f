---------------------------- MODULE Embrave_proofs ----------------------------
(***************************************************************************)
(* Packets are queued, used and freed once, and requests that nothing has  *)
(* met are served in full, for any size of the queue, of requests and of   *)
(* the counters.                                                           *)
(***************************************************************************)
EXTENDS Embrave, FiniteSetTheorems, SequenceTheorems, TLAPS

USE EmbraveAssumption

-----------------------------------------------------------------------------
(* The circular queue.                                                     *)

\* Remainders, without the remainder.
LEMMA Place ==
  ASSUME NEW o \in Slot, NEW k \in 0 .. MaxSize
  PROVE  /\ (o + k) % MaxSize \in Slot
         /\ o + k < MaxSize => (o + k) % MaxSize = o + k
         /\ o + k >= MaxSize => (o + k) % MaxSize = o + k - MaxSize
  BY DEF Slot

LEMMA FirstPlace ==
  ASSUME NEW o \in Slot
  PROVE  (o + 0) % MaxSize = o
  <1>1. o \in Nat /\ o < MaxSize /\ o + 0 = o
    BY DEF Slot
  <1> QED BY <1>1, SMTT(30)

\* The same, as a place of its own.
LEMMA PlaceIs ==
  ASSUME NEW o \in Slot, NEW k \in 0 .. MaxSize, NEW p, p = (o + k) % MaxSize
  PROVE  /\ p \in 0 .. MaxSize - 1
         /\ p = o + k \/ p = o + k - MaxSize
  <1>1. p \in 0 .. MaxSize - 1
    BY Place DEF Slot
  <1>2. CASE o + k < MaxSize
    BY <1>1, <1>2, Place
  <1>3. CASE o + k >= MaxSize
    BY <1>1, <1>3, Place
  <1> QED BY <1>1, <1>2, <1>3 DEF Slot

\* No two of MaxSize places that follow each other are the same.
LEMMA Apart ==
  ASSUME NEW o \in Slot, NEW j \in 0 .. MaxSize - 1, NEW k \in 0 .. MaxSize - 1,
         (o + j) % MaxSize = (o + k) % MaxSize
  PROVE  j = k
  <1>1. PICK p : p = (o + j) % MaxSize /\ p = (o + k) % MaxSize
    OBVIOUS
  <1>2. p \in 0 .. MaxSize - 1 /\ (p = o + j \/ p = o + j - MaxSize)
    BY <1>1, PlaceIs
  <1>3. p = o + k \/ p = o + k - MaxSize
    BY <1>1, PlaceIs
  <1> QED BY <1>2, <1>3 DEF Slot

\* The place after a place.
LEMMA After ==
  ASSUME NEW o \in Slot, NEW k \in 0 .. MaxSize - 1
  PROVE  /\ (((o + k) % MaxSize) + 1) % MaxSize = (o + (k + 1)) % MaxSize
         /\ (((o + 1) % MaxSize) + k) % MaxSize = (o + (k + 1)) % MaxSize
  <1>1. PICK p \in Slot, q \in Slot : p = (o + k) % MaxSize /\ q = (o + 1) % MaxSize
    BY Place
  <1> /\ k \in 0 .. MaxSize /\ k + 1 \in 0 .. MaxSize /\ 1 \in 0 .. MaxSize
    OBVIOUS
  <1>2. p = o + k \/ p = o + k - MaxSize
    BY <1>1, PlaceIs
  <1>3. q = o + 1 \/ q = o + 1 - MaxSize
    BY <1>1, PlaceIs
  <1>4. PICK n \in 0 .. MaxSize, r \in Slot : n = k + 1 /\ r = (o + n) % MaxSize
    BY Place
  <1>5. r = o + n \/ r = o + n - MaxSize
    <2>1. r = (o + n) % MaxSize
      BY <1>4
    <2> QED BY <2>1, PlaceIs
  <1>6. PICK a \in Slot, b \in Slot : a = (p + 1) % MaxSize /\ b = (q + k) % MaxSize
    BY Place
  <1>7. a = p + 1 \/ a = p + 1 - MaxSize
    BY <1>6, PlaceIs
  <1>8. b = q + k \/ b = q + k - MaxSize
    BY <1>6, PlaceIs
  <1>9. a = r
    BY <1>2, <1>4, <1>5, <1>7 DEF Slot
  <1>10. b = r
    BY <1>3, <1>4, <1>5, <1>8 DEF Slot
  <1> QED BY <1>1, <1>4, <1>6, <1>9, <1>10

-----------------------------------------------------------------------------
(* The free packets.                                                       *)

LEMMA FreeType ==
  ASSUME TypeOK
  PROVE  IsFiniteSet(Unit \ heap) /\ Cardinality(Unit \ heap) \in Nat
  BY FS_Difference, FS_CardinalityType

\* malloc finds a packet when any is left.
LEMMA MallocFinds ==
  ASSUME TypeOK, Cardinality(Unit \ heap) > 0
  PROVE  /\ Malloc \in Unit /\ Malloc \notin heap
         /\ Cardinality(Unit \ (heap \cup {Malloc})) = Cardinality(Unit \ heap) - 1
  <1>1. \E u \in Unit : u \notin heap
    BY FreeType, FS_EmptySet
  <1>2. Malloc \in Unit /\ Malloc \notin heap
    BY <1>1 DEF Malloc
  <1>3. Unit \ (heap \cup {Malloc}) = (Unit \ heap) \ {Malloc}
    OBVIOUS
  <1> QED BY <1>2, <1>3, FreeType, FS_RemoveElement

LEMMA FreeMore ==
  ASSUME TypeOK, NEW u
  PROVE  Cardinality(Unit \ (heap \ {u})) >= Cardinality(Unit \ heap)
  <1>1. Unit \ heap \subseteq Unit \ (heap \ {u})
    OBVIOUS
  <1>2. IsFiniteSet(Unit \ (heap \ {u}))
    BY FS_Difference
  <1> QED BY <1>1, <1>2, FS_Subset, FS_CardinalityType

-----------------------------------------------------------------------------
LEMMA Initially == Init => IInv
  <1> SUFFICES ASSUME Init PROVE IInv  OBVIOUS
  <1>1. TypeOK
    <2>1. 0 \in Slot /\ 0 \in 0 .. Wrap - 1 /\ 0 \in 0 .. MaxSize /\ 0 \in 0 .. MAX_EMBRAVE_NUM
      BY DEF Slot
    <2>2. cBuff \in [Slot -> Unit \cup {NULL}] /\ sts \in [Counter -> 0 .. Wrap - 1]
      BY <2>1 DEF Init
    <2> QED BY <2>1, <2>2 DEF Init, TypeOK
  <1>2. Counting /\ WorkOK /\ NotBeyond /\ WholeUnlessLate
    BY DEF Init, Counting, WorkOK, NotBeyond, WholeUnlessLate
  <1>3. QueueOK
    BY DEF Init, QueueOK
  <1>4. Enough
    BY <1>1, FreeType DEF Init, Enough
  <1>5. Balance
    BY DEF Init, Balance, Counter
  <1> QED BY <1>1, <1>2, <1>3, <1>4, <1>5 DEF IInv

-----------------------------------------------------------------------------
(* The CLI.                                                                *)

LEMMA StartStep ==
  ASSUME IInv, NEW num \in Num, Start(num)
  PROVE  IInv'
  <1>1. TypeOK'
    BY DEF IInv, TypeOK, Start, Num, pQ, loop, pkt
  <1>2. Counting' /\ WorkOK'
    BY DEF IInv, Counting, WorkOK, Start, loop, pkt
  <1>3. QueueOK'
    BY DEF IInv, QueueOK, Queued, Start, pQ, pkt
  <1>4. Enough'
    <2>1. Cardinality(Unit \ heap) \in Nat /\ i \in Nat
      BY FreeType DEF IInv, TypeOK
    <2> QED BY <2>1 DEF Enough, Start, Num, loop
  <1>5. NotBeyond' /\ WholeUnlessLate'
    BY DEF IInv, NotBeyond, WholeUnlessLate, Start, loop
  <1>6. Balance'
    BY DEF IInv, Balance, Start, pkt
  <1> QED BY <1>1, <1>2, <1>3, <1>4, <1>5, <1>6 DEF IInv

LEMMA ClearStep ==
  IInv /\ (ClearBegin \/ \E c \in Counter : ClearCounter(c)) => IInv'
  <1> SUFFICES ASSUME IInv, ClearBegin \/ \E c \in Counter : ClearCounter(c) PROVE IInv'
    OBVIOUS
  <1>1. /\ UNCHANGED <<input_num, pQ, loop, pkt, heap, late>>
        /\ mixed' \in BOOLEAN /\ clearing' \subseteq Counter
    BY DEF IInv, TypeOK, ClearBegin, ClearCounter
  <1>2. sts' \in [Counter -> 0 .. Wrap - 1]
    BY DEF IInv, TypeOK, ClearBegin, ClearCounter
  <1>3. TypeOK'
    BY <1>1, <1>2 DEF IInv, TypeOK, pQ, loop, pkt
  <1>4. Counting' /\ WorkOK'
    BY <1>1 DEF IInv, Counting, WorkOK, loop, pkt
  <1>5. QueueOK'
    BY <1>1 DEF IInv, QueueOK, Queued, pQ, pkt
  <1>6. Enough' /\ NotBeyond' /\ WholeUnlessLate'
    BY <1>1 DEF IInv, Enough, NotBeyond, WholeUnlessLate, loop
  <1>7. Balance'
    <2>1. CASE ClearBegin
      BY <2>1 DEF ClearBegin, Balance, Counter, pkt
    <2>2. ASSUME NEW c \in Counter, ClearCounter(c), ~ mixed PROVE Balance'
      <3>1. /\ clearing # {} /\ todo = <<>> /\ todo' = <<>> /\ reg' = NULL
            /\ clearing' = clearing \ {c} /\ sts' = [sts EXCEPT ![c] = 0]
            /\ \A d \in Counter \ clearing : sts[d] = 0
        BY <2>2 DEF IInv, Counting, Balance, ClearCounter, pkt
      <3>2. \A d \in Counter \ clearing' : sts'[d] = 0
        BY <3>1 DEF IInv, TypeOK
      <3>3. "get" \in Counter /\ "free" \in Counter
        BY DEF Counter
      <3> QED BY <3>1, <3>2, <3>3 DEF Balance
    <2>3. ASSUME NEW c \in Counter, ClearCounter(c), mixed PROVE Balance'
      BY <2>3 DEF ClearCounter, Balance
    <2> QED BY <2>1, <2>2, <2>3
  <1> QED BY <1>3, <1>4, <1>5, <1>6, <1>7 DEF IInv

-----------------------------------------------------------------------------
(* The packet process.                                                     *)

LEMMA TestNumStep == IInv /\ TestNum => IInv'
  <1> SUFFICES ASSUME IInv, TestNum PROVE IInv'  OBVIOUS
  <1>1. TypeOK'
    <2>1. /\ pc' \in {"loop", "out"} /\ i' \in 0 .. MAX_EMBRAVE_NUM /\ late' = FALSE
          /\ UNCHANGED <<input_num, pQ, sts, pkt, heap, clearing, mixed>>
      BY DEF IInv, TypeOK, TestNum
    <2> QED BY <2>1 DEF IInv, TypeOK, pQ, pkt
  <1>2. Counting' /\ WorkOK'
    BY DEF IInv, Counting, WorkOK, TestNum, pkt
  <1>3. QueueOK'
    BY DEF IInv, QueueOK, Queued, TestNum, pQ, pkt
  <1>4. Enough'
    <2>1. Cardinality(Unit \ heap) \in Nat /\ input_num \in Nat
      BY FreeType DEF IInv, TypeOK
    <2> QED BY <2>1 DEF IInv, Enough, TestNum
  <1>5. NotBeyond' /\ WholeUnlessLate'
    BY DEF IInv, TypeOK, NotBeyond, WholeUnlessLate, TestNum
  <1>6. Balance'
    BY DEF IInv, Balance, TestNum, pkt
  <1> QED BY <1>1, <1>2, <1>3, <1>4, <1>5, <1>6 DEF IInv

LEMMA ClearNumStep == IInv /\ ClearNum => IInv'
  <1> SUFFICES ASSUME IInv, ClearNum PROVE IInv'  OBVIOUS
  <1>1. TypeOK'
    BY DEF IInv, TypeOK, ClearNum, pQ, pkt
  <1>2. Counting' /\ WorkOK'
    BY DEF IInv, Counting, WorkOK, ClearNum, pkt
  <1>3. QueueOK'
    BY DEF IInv, QueueOK, Queued, ClearNum, pQ, pkt
  <1>4. Enough' /\ NotBeyond' /\ WholeUnlessLate'
    <2>1. Cardinality(Unit \ heap) \in Nat
      BY FreeType DEF IInv
    <2> QED BY <2>1 DEF Enough, NotBeyond, WholeUnlessLate, ClearNum
  <1>5. Balance'
    BY DEF IInv, Balance, ClearNum, pkt
  <1> QED BY <1>1, <1>2, <1>3, <1>4, <1>5 DEF IInv

\* A packet goes into the queue, behind all the others, or the queue is full.
LEMMA Enqueues ==
  ASSUME IInv, NEW u \in Unit, u \notin heap, InQueue(u),
         heap' = heap \cup {u}, work' = work, work \notin Unit \/ work \in heap
  PROVE  /\ cBuff' \in [Slot -> Unit \cup {NULL}]
         /\ in' \in Slot /\ out' \in Slot /\ count' \in 0 .. MaxSize
         /\ QueueOK'
  <1>1. /\ cBuff \in [Slot -> Unit \cup {NULL}] /\ in \in Slot /\ out \in Slot
        /\ count \in 0 .. MaxSize /\ in = (out + count) % MaxSize
        /\ \A k \in 0 .. count - 1 :
             /\ Queued(k) \in heap /\ Queued(k) # work
             /\ \A j \in 0 .. count - 1 : Queued(j) = Queued(k) => j = k
    BY DEF IInv, TypeOK, QueueOK
  <1>2. CASE count = MaxSize
    <2>1. UNCHANGED <<cBuff, in, out, count>>
      BY <1>2 DEF InQueue, pQ
    <2> QED BY <1>1, <2>1 DEF QueueOK, Queued
  <1>3. CASE count # MaxSize
    <2>1. /\ cBuff' = [cBuff EXCEPT ![in] = u] /\ in' = (in + 1) % MaxSize
          /\ count' = count + 1 /\ out' = out
      BY <1>3 DEF InQueue
    <2>2. count \in 0 .. MaxSize - 1 /\ count' \in 0 .. MaxSize
      BY <1>1, <1>3, <2>1
    <2>3. cBuff' \in [Slot -> Unit \cup {NULL}]
      BY <1>1, <2>1
    <2>4. in' \in Slot /\ in' = (out' + count') % MaxSize
      <3>1. (((out + count) % MaxSize) + 1) % MaxSize = (out + (count + 1)) % MaxSize
        BY <1>1, <2>2, After
      <3>2. (in + 1) % MaxSize \in Slot
        BY <1>1, Place
      <3> QED BY <1>1, <2>1, <3>1, <3>2
    <2>5. \A k \in 0 .. count - 1 : Queued(k)' = Queued(k)
      <3> SUFFICES ASSUME NEW k \in 0 .. count - 1 PROVE Queued(k)' = Queued(k)
        OBVIOUS
      <3>1. k \in 0 .. MaxSize - 1 /\ k # count
        BY <2>2
      <3>2. (out + k) % MaxSize # in
        BY <1>1, <2>2, <3>1, Apart
      <3>3. (out + k) % MaxSize \in Slot
        BY <1>1, <3>1, Place
      <3> QED BY <1>1, <2>1, <3>2, <3>3 DEF Queued
    <2>6. PICK c \in Nat : c = count /\ c = count' - 1 /\ Queued(c)' = u
      BY <1>1, <2>1 DEF Queued
    <2>7. u # work
      BY <1>1
    <2>8. ASSUME NEW k \in 0 .. count' - 1
          PROVE  /\ Queued(k)' \in heap' /\ Queued(k)' # work'
                 /\ \A j \in 0 .. count' - 1 : Queued(j)' = Queued(k)' => j = k
      <3>1. k = c \/ k \in 0 .. count - 1
        BY <2>1, <2>2, <2>6
      <3>2. Queued(k)' \in heap' /\ Queued(k)' # work'
        BY <3>1, <1>1, <2>5, <2>6, <2>7
      <3>3. ASSUME NEW j \in 0 .. count' - 1, Queued(j)' = Queued(k)' PROVE j = k
        <4>1. j = c \/ j \in 0 .. count - 1
          BY <2>1, <2>2, <2>6
        <4> QED BY <3>1, <3>3, <4>1, <1>1, <2>5, <2>6
      <3> QED BY <3>2, <3>3
    <2> QED BY <1>1, <2>1, <2>2, <2>3, <2>4, <2>8 DEF QueueOK
  <1> QED BY <1>2, <1>3

LEMMA GenerateStep == IInv /\ Generate => IInv'
  <1> SUFFICES ASSUME IInv, Generate PROVE IInv'  OBVIOUS
  <1>1. /\ pc = "loop" /\ work = NULL /\ todo = <<>> /\ reg = NULL
        /\ UNCHANGED <<input_num, sts, pkt, clearing, late, mixed>>
    BY DEF IInv, Counting, Generate
  <1>2. input_num \in 0 .. MAX_EMBRAVE_NUM /\ i \in 0 .. MAX_EMBRAVE_NUM
        /\ Cardinality(Unit \ heap) \in Nat
    BY FreeType DEF IInv, TypeOK
  <1>5. Balance'
    BY <1>1 DEF IInv, Balance, pkt
  <1>3. CASE i < input_num
    <2>1. PICK u \in Unit :
            /\ u = Malloc /\ u \notin heap
            /\ Cardinality(Unit \ (heap \cup {u})) = Cardinality(Unit \ heap) - 1
      <3>1. Cardinality(Unit \ heap) > 0
        BY <1>1, <1>2, <1>3 DEF IInv, Enough
      <3> QED BY <3>1, MallocFinds DEF IInv
    <2>2. InQueue(u) /\ heap' = heap \cup {u} /\ i' = i + 1 /\ pc' = pc
      BY <1>3, <2>1 DEF Generate
    <2>3. /\ cBuff' \in [Slot -> Unit \cup {NULL}]
          /\ in' \in Slot /\ out' \in Slot /\ count' \in 0 .. MaxSize
          /\ QueueOK'
      BY <1>1, <2>1, <2>2, Enqueues DEF pkt
    <2>4. TypeOK'
      BY <1>1, <1>2, <1>3, <2>1, <2>2, <2>3 DEF IInv, TypeOK, pkt
    <2>5. Counting' /\ WorkOK'
      BY <1>1, <2>2 DEF IInv, Counting, WorkOK, pkt
    <2>6. Enough'
      <3>1. Cardinality(Unit \ heap') = Cardinality(Unit \ heap) - 1
        BY <2>1, <2>2
      <3> QED BY <1>1, <1>2, <2>2, <3>1 DEF IInv, Enough
    <2>7. NotBeyond' /\ WholeUnlessLate'
      BY <1>1, <1>2, <1>3, <2>2 DEF NotBeyond, WholeUnlessLate
    <2> QED BY <1>5, <2>3, <2>4, <2>5, <2>6, <2>7 DEF IInv
  <1>4. CASE ~ (i < input_num)
    <2>1. pc' = "clear" /\ UNCHANGED <<pQ, heap, i>>
      BY <1>4 DEF Generate
    <2>2. TypeOK'
      BY <1>1, <2>1 DEF IInv, TypeOK, pQ, pkt
    <2>3. Counting' /\ WorkOK'
      BY <1>1, <2>1 DEF IInv, Counting, WorkOK, pkt
    <2>4. QueueOK'
      BY <1>1, <2>1 DEF IInv, QueueOK, Queued, pQ, pkt
    <2>5. Enough' /\ NotBeyond' /\ WholeUnlessLate'
      BY <1>1, <1>2, <1>4, <2>1 DEF IInv, Enough, NotBeyond, WholeUnlessLate
    <2> QED BY <1>5, <2>2, <2>3, <2>4, <2>5 DEF IInv
  <1> QED BY <1>3, <1>4

\* "get" comes first, "free" last, and nothing else is "free".
LEMMA CountersAre ==
  ASSUME NEW n \in Nat
  PROVE  /\ Counters(n) \in Seq(Counter) /\ Counters(n) # <<>>
         /\ \A k \in 1 .. Len(Counters(n)) :
              Counters(n)[k] = "free" <=> k = Len(Counters(n))
         /\ Head(Counters(n)) = "get"
         /\ \A k \in 2 .. Len(Counters(n)) : Counters(n)[k] # "get"
  <1> DEFINE mid == [w \in 1 .. n |-> "permit"]
             fst == <<"get">> \o mid
  <1>1. mid \in Seq(Counter) /\ Len(mid) = n /\ \A k \in 1 .. n : mid[k] = "permit"
    BY DEF Counter
  <1> HIDE DEF mid
  <1>2. /\ fst \in Seq(Counter) /\ Len(fst) = n + 1
        /\ fst[1] = "get"
        /\ \A k \in 2 .. n + 1 : fst[k] = "permit"
    <2>1. <<"get">> \in Seq(Counter) /\ Len(<<"get">>) = 1 /\ <<"get">>[1] = "get"
      BY DEF Counter
    <2>2. fst \in Seq(Counter) /\ Len(fst) = n + 1
      BY <1>1, <2>1
    <2>3. fst[1] = "get"
      BY <1>1, <2>1
    <2>4. ASSUME NEW k \in 2 .. n + 1 PROVE fst[k] = "permit"
      <3>1. k - 1 \in 1 .. n /\ fst[k] = mid[k - 1]
        BY <1>1, <2>1
      <3> QED BY <1>1, <3>1
    <2> QED BY <2>2, <2>3, <2>4
  <1> HIDE DEF fst
  <1>3. /\ fst \o <<"free">> \in Seq(Counter) /\ Len(fst \o <<"free">>) = n + 2
        /\ \A k \in 1 .. n + 1 : (fst \o <<"free">>)[k] = fst[k]
        /\ (fst \o <<"free">>)[n + 2] = "free"
    BY <1>2 DEF Counter
  <1>4. Counters(n) = fst \o <<"free">>
    BY DEF Counters, fst, mid
  <1>5. Counters(n) # <<>>
    BY <1>3, <1>4
  <1>6. ASSUME NEW k \in 1 .. n + 2
        PROVE  Counters(n)[k] = "free" <=> k = n + 2
    BY <1>2, <1>3, <1>4
  <1>7. Head(Counters(n)) = "get"
    BY <1>2, <1>3, <1>4
  <1>8. ASSUME NEW k \in 2 .. n + 2 PROVE Counters(n)[k] # "get"
    BY <1>2, <1>3, <1>4
  <1> QED BY <1>3, <1>4, <1>5, <1>6, <1>7, <1>8

\* The oldest packet leaves the queue, and the others move up.
LEMMA Dequeues ==
  ASSUME IInv, pc = "out", count # 0, OutQueue
  PROVE  /\ work' \in heap /\ work' = Queued(0)
         /\ out' \in Slot /\ count' \in 0 .. MaxSize
         /\ QueueOK'
  <1>1. /\ cBuff \in [Slot -> Unit \cup {NULL}] /\ in \in Slot /\ out \in Slot
        /\ count \in 0 .. MaxSize /\ in = (out + count) % MaxSize
        /\ \A k \in 0 .. count - 1 :
             /\ Queued(k) \in heap
             /\ \A j \in 0 .. count - 1 : Queued(j) = Queued(k) => j = k
    BY DEF IInv, TypeOK, QueueOK
  <1>2. /\ work' = cBuff[out] /\ out' = (out + 1) % MaxSize /\ count' = count - 1
        /\ cBuff' = cBuff /\ in' = in /\ heap' = heap
    BY DEF OutQueue
  <1>3. out' \in Slot /\ count' \in 0 .. MaxSize
    BY <1>1, <1>2, Place
  <1>4. work' = Queued(0)
    <2>1. (out + 0) % MaxSize = out
      BY <1>1, FirstPlace
    <2> QED BY <1>2, <2>1 DEF Queued
  <1>5. 0 \in 0 .. count - 1
    BY <1>1
  <1>6. work' \in heap
    BY <1>1, <1>4, <1>5
  <1>7. in' = (out' + count') % MaxSize
    <2>1. PICK c \in 0 .. MaxSize - 1 : c = count - 1
      BY <1>1
    <2>2. (((out + 1) % MaxSize) + c) % MaxSize = (out + (c + 1)) % MaxSize
      BY <1>1, After
    <2>3. c + 1 = count /\ c = count'
      BY <1>1, <1>2, <2>1
    <2> QED BY <1>1, <1>2, <2>2, <2>3
  <1>8. ASSUME NEW k \in 0 .. count' - 1
        PROVE  k + 1 \in 0 .. count - 1 /\ Queued(k)' = Queued(k + 1)
    <2>1. k \in 0 .. MaxSize - 1 /\ k + 1 \in 0 .. count - 1
      BY <1>1, <1>2
    <2>2. (((out + 1) % MaxSize) + k) % MaxSize = (out + (k + 1)) % MaxSize
      BY <1>1, <2>1, After
    <2> QED BY <1>2, <2>1, <2>2 DEF Queued
  <1>9. ASSUME NEW k \in 0 .. count' - 1
        PROVE  /\ Queued(k)' \in heap' /\ Queued(k)' # work'
               /\ \A j \in 0 .. count' - 1 : Queued(j)' = Queued(k)' => j = k
    <2>1. k + 1 \in 0 .. count - 1 /\ k + 1 # 0 /\ Queued(k)' = Queued(k + 1)
      BY <1>8
    <2>2. Queued(k)' \in heap' /\ Queued(k)' # work'
      BY <1>1, <1>2, <1>4, <1>5, <2>1
    <2>3. ASSUME NEW j \in 0 .. count' - 1, Queued(j)' = Queued(k)' PROVE j = k
      <3>1. j + 1 \in 0 .. count - 1 /\ Queued(j)' = Queued(j + 1)
        BY <1>8
      <3>2. j + 1 = k + 1
        BY <1>1, <2>1, <2>3, <3>1
      <3> QED BY <3>2
    <2> QED BY <2>2, <2>3
  <1> QED BY <1>3, <1>4, <1>6, <1>7, <1>9 DEF QueueOK

LEMMA OutQueueStep == IInv /\ OutQueue => IInv'
  <1> SUFFICES ASSUME IInv, OutQueue PROVE IInv'  OBVIOUS
  <1>1. /\ pc = "out" /\ work = NULL /\ todo = <<>> /\ reg = NULL /\ reg' = NULL
        /\ UNCHANGED <<input_num, sts, i, heap, clearing, late>>
    BY DEF IInv, Counting, OutQueue
  <1>2. CASE count = 0
    <2>1. pc' = "request" /\ UNCHANGED <<pQ, work, todo, mixed>>
      BY <1>2 DEF OutQueue
    <2>2. TypeOK'
      BY <1>1, <2>1 DEF IInv, TypeOK, pQ
    <2>3. Counting' /\ WorkOK'
      BY <1>1, <2>1 DEF IInv, Counting, WorkOK
    <2>4. QueueOK'
      BY <1>1, <2>1 DEF IInv, QueueOK, Queued, pQ
    <2>5. Enough' /\ NotBeyond' /\ WholeUnlessLate'
      BY <1>1, <2>1 DEF IInv, Enough, NotBeyond, WholeUnlessLate
    <2>6. Balance'
      BY <1>1, <2>1 DEF IInv, Balance
    <2> QED BY <2>2, <2>3, <2>4, <2>5, <2>6 DEF IInv
  <1>3. CASE count # 0
    <2>1. /\ pc' = "count" /\ cBuff' = cBuff /\ in' = in
          /\ mixed' = (mixed \/ clearing # {})
      BY <1>3 DEF OutQueue
    <2>2. PICK n \in 0 .. MaxWorks : todo' = Counters(n)
      BY <1>3 DEF OutQueue
    <2>3. /\ work' \in heap
          /\ out' \in Slot /\ count' \in 0 .. MaxSize
          /\ QueueOK'
      BY <1>1, <1>3, Dequeues
    <2>4. work' \in Unit /\ work' # NULL
      BY <2>3 DEF IInv, TypeOK
    <2>5. TypeOK'
      BY <1>1, <2>1, <2>3, <2>4 DEF IInv, TypeOK
    <2>6. Counting'
      <3>1. /\ todo' \in Seq(Counter) /\ todo' # <<>>
            /\ \A k \in 1 .. Len(todo') : todo'[k] = "free" <=> k = Len(todo')
            /\ \A k \in 2 .. Len(todo') : todo'[k] # "get"
        BY <2>2, CountersAre, SMTT(30)
      <3> QED BY <1>1, <2>1, <2>4, <3>1 DEF Counting
    <2>7. WorkOK'
      BY <1>1, <2>3 DEF WorkOK
    <2>8. Enough' /\ NotBeyond' /\ WholeUnlessLate'
      BY <1>1, <2>1 DEF IInv, Enough, NotBeyond, WholeUnlessLate
    <2>9. Balance'
      <3>1. todo' # <<>> /\ Head(todo') = "get"
        BY <2>2, CountersAre
      <3> QED BY <1>1, <2>1, <3>1 DEF IInv, Balance
    <2> QED BY <2>3, <2>5, <2>6, <2>7, <2>8, <2>9 DEF IInv
  <1> QED BY <1>2, <1>3

LEMMA LoadStep == IInv /\ Load => IInv'
  <1> SUFFICES ASSUME IInv, Load PROVE IInv'  OBVIOUS
  <1>1. /\ pc = "count" /\ reg = NULL /\ todo \in Seq(Counter) /\ todo # <<>>
        /\ work \in heap
        /\ UNCHANGED <<input_num, pQ, sts, loop, work, todo, clearing, late, mixed>>
        /\ reg' = sts[Head(todo)]
        /\ heap' = IF Head(todo) = "free" THEN heap \ {work} ELSE heap
    BY DEF IInv, Counting, WorkOK, Load
  <1>2. Head(todo) \in Counter
    BY <1>1
  <1>3. reg' \in 0 .. Wrap - 1 /\ reg' # NULL
    BY <1>1, <1>2 DEF IInv, TypeOK
  <1>4. TypeOK'
    BY <1>1, <1>3 DEF IInv, TypeOK, pQ, loop
  <1>5. Counting'
    BY <1>1 DEF IInv, Counting, loop
  <1>6. WorkOK'
    BY <1>1, <1>3 DEF WorkOK, loop
  <1>7. QueueOK'
    <2>1. ASSUME NEW u \in heap, u # work PROVE u \in heap'
      BY <1>1, <2>1
    <2> QED BY <1>1, <2>1 DEF IInv, QueueOK, Queued, pQ
  <1>8. Enough'
    <2>1. PICK c \in Nat, d \in Nat :
            c = Cardinality(Unit \ heap) /\ d = Cardinality(Unit \ heap') /\ d >= c
      <3>1. TypeOK' => Cardinality(Unit \ heap') \in Nat
        BY FS_Difference, FS_CardinalityType DEF TypeOK
      <3>2. CASE heap' = heap
        BY <3>2, FreeType DEF IInv
      <3>3. CASE heap' = heap \ {work}
        BY <1>4, <3>1, <3>3, FreeType, FreeMore DEF IInv
      <3> QED BY <1>1, <3>2, <3>3
    <2> QED BY <1>1, <2>1 DEF IInv, TypeOK, Enough, loop
  <1>9. NotBeyond' /\ WholeUnlessLate'
    BY <1>1 DEF IInv, NotBeyond, WholeUnlessLate, loop
  <1>10. Balance'
    BY <1>1 DEF IInv, Balance
  <1> QED BY <1>4, <1>5, <1>6, <1>7, <1>8, <1>9, <1>10 DEF IInv

LEMMA StoreStep == IInv /\ Store => IInv'
  <1> SUFFICES ASSUME IInv, Store PROVE IInv'  OBVIOUS
  <1>1. /\ pc = "count" /\ reg \in 0 .. Wrap - 1 /\ work # NULL
        /\ todo \in Seq(Counter) /\ todo # <<>>
        /\ \A k \in 1 .. Len(todo) : todo[k] = "free" <=> k = Len(todo)
        /\ \A k \in 2 .. Len(todo) : todo[k] # "get"
        /\ UNCHANGED <<input_num, pQ, i, heap, clearing, late, mixed>>
        /\ sts' = [sts EXCEPT ![Head(todo)] = (reg + 1) % Wrap]
        /\ reg' = NULL /\ todo' = Tail(todo)
    BY DEF IInv, TypeOK, Counting, Store
  <1>2. \/ todo' = <<>> /\ pc' = "request" /\ work' = NULL
        \/ todo' # <<>> /\ pc' = pc /\ work' = work
    BY DEF Store
  <1>3. sts' \in [Counter -> 0 .. Wrap - 1]
    <2>1. (reg + 1) % Wrap \in 0 .. Wrap - 1
      BY <1>1
    <2> QED BY <1>1, <2>1 DEF IInv, TypeOK
  <1>4. TypeOK'
    BY <1>1, <1>2, <1>3 DEF IInv, TypeOK, pQ
  <1>5. Counting'
    <2>1. todo' \in Seq(Counter)
      BY <1>1
    <2>2. Len(todo') = Len(todo) - 1 /\ \A k \in 1 .. Len(todo') : todo'[k] = todo[k + 1]
      BY <1>1
    <2>3. ASSUME NEW k \in 1 .. Len(todo')
          PROVE  todo'[k] = "free" <=> k = Len(todo')
      <3>1. k + 1 \in 1 .. Len(todo) /\ (k + 1 = Len(todo) <=> k = Len(todo'))
        <4>1. PICK l \in Nat : l = Len(todo)
          BY <1>1, LenProperties
        <4>2. PICK m \in Nat : m = Len(todo')
          BY <2>1, LenProperties
        <4>3. m = l - 1
          BY <2>2, <4>1, <4>2
        <4>4. k \in 1 .. m
          BY <4>2
        <4> QED BY <4>1, <4>2, <4>3, <4>4
      <3> QED BY <1>1, <2>2, <3>1
    <2>4. ASSUME NEW k \in 2 .. Len(todo') PROVE todo'[k] # "get"
      <3>1. k \in 1 .. Len(todo') /\ k + 1 \in 2 .. Len(todo)
        <4>1. PICK l \in Nat : l = Len(todo)
          BY <1>1, LenProperties
        <4>2. PICK m \in Nat : m = Len(todo')
          BY <2>1, LenProperties
        <4>3. m = l - 1
          BY <2>2, <4>1, <4>2
        <4>4. k \in 2 .. m
          BY <4>2
        <4> QED BY <4>1, <4>2, <4>3, <4>4
      <3> QED BY <1>1, <2>2, <3>1
    <2> QED BY <1>1, <1>2, <2>1, <2>3, <2>4 DEF Counting
  <1>6. WorkOK'
    <2> SUFFICES ASSUME todo' # <<>>, work' = work PROVE work \in heap
      BY <1>1, <1>2 DEF WorkOK
    <2>1. Len(todo) # 1
      BY <1>1
    <2>2. Head(todo) # "free"
      BY <1>1, <2>1
    <2> QED BY <1>1, <2>2 DEF IInv, WorkOK
  <1>7. QueueOK'
    <2>1. ASSUME NEW u \in heap, u # work PROVE u # work'
      BY <1>2, <2>1 DEF IInv, TypeOK
    <2> QED BY <1>1, <2>1 DEF IInv, QueueOK, Queued, pQ
  <1>8. Enough'
    BY <1>1, <1>2 DEF IInv, Enough
  <1>9. NotBeyond' /\ WholeUnlessLate'
    BY <1>1, <1>2 DEF NotBeyond, WholeUnlessLate
  <1>10. Balance'
    <2> SUFFICES ASSUME ~ mixed PROVE Balance'
      BY <1>1 DEF Balance
    <2>1. /\ clearing = {} /\ clearing' = {} /\ reg = sts[Head(todo)]
          /\ sts["get"] = IF Head(todo) # "get" THEN (sts["free"] + 1) % Wrap ELSE sts["free"]
      BY <1>1 DEF IInv, Balance
    <2>2. Head(todo) \in {"get", "permit", "free"} /\ sts \in [Counter -> 0 .. Wrap - 1]
      BY <1>1 DEF IInv, TypeOK, Counter
    <2>3. Head(todo) = todo[1] /\ 1 \in 1 .. Len(todo)
      BY <1>1
    <2>4. (todo' = <<>>) <=> Head(todo) = "free"
      <3>1. Head(todo) = "free" <=> Len(todo) = 1
        BY <1>1, <2>3
      <3>2. Len(todo') = Len(todo) - 1 /\ Len(todo) \in Nat /\ todo' \in Seq(Counter)
        BY <1>1
      <3>3. todo' = <<>> <=> Len(todo') = 0
        BY <3>2, SMTT(30)
      <3> QED BY <3>1, <3>2, <3>3
    <2>5. todo' # <<>> => Head(todo') # "get"
      <3> SUFFICES ASSUME todo' # <<>> PROVE Head(todo') # "get"
        OBVIOUS
      <3>1. 2 \in 2 .. Len(todo) /\ Head(todo') = todo[2]
        BY <1>1
      <3> QED BY <1>1, <3>1
    <2>6. sts'["get"] = IF todo' # <<>> /\ Head(todo') # "get"
                        THEN (sts'["free"] + 1) % Wrap ELSE sts'["free"]
      BY <1>1, <2>1, <2>2, <2>4, <2>5 DEF Counter
    <2> QED BY <1>1, <2>1, <2>6 DEF Balance
  <1> QED BY <1>4, <1>5, <1>6, <1>7, <1>8, <1>9, <1>10 DEF IInv

-----------------------------------------------------------------------------
LEMMA Inductive == IInv /\ [Next]_vars => IInv'
  <1> SUFFICES ASSUME IInv, [Next]_vars PROVE IInv'  OBVIOUS
  <1>1. CASE CLI
    BY <1>1, StartStep, ClearStep DEF CLI
  <1>2. CASE Process
    BY <1>2, TestNumStep, GenerateStep, ClearNumStep, OutQueueStep, LoadStep, StoreStep
       DEF Process
  <1>3. CASE UNCHANGED vars
    <2>1. TypeOK'
      BY <1>3 DEF IInv, TypeOK, vars, pQ, loop, pkt
    <2>2. Counting' /\ WorkOK'
      BY <1>3 DEF IInv, Counting, WorkOK, vars, loop, pkt
    <2>3. QueueOK'
      BY <1>3 DEF IInv, QueueOK, Queued, vars, pQ, pkt
    <2>4. Enough' /\ NotBeyond' /\ WholeUnlessLate'
      BY <1>3 DEF IInv, Enough, NotBeyond, WholeUnlessLate, vars, loop
    <2>5. Balance'
      BY <1>3 DEF IInv, Balance, vars, pkt
    <2> QED BY <2>1, <2>2, <2>3, <2>4, <2>5 DEF IInv
  <1> QED BY <1>1, <1>2, <1>3 DEF Next

\* No packet is queued twice, used after it was freed or freed twice, whatever
\* the requests and however often the queue overflows
\* (cvmx_pow_work_request_sync, InQueue, OutQueue, application_main_loop).
THEOREM Invariance == Spec => []IInv
  BY Initially, Inductive, PTL DEF Spec

\* The packet process generates exactly the packets asked for, unless another
\* request arrives while it is generating them (md_embrave.c:67-79).
THEOREM Whole == Spec => []WholeUnlessLate
  <1>1. IInv => WholeUnlessLate
    BY DEF IInv
  <1> QED BY Invariance, <1>1, PTL

\* Packets counted in and out differ by the one being processed, unless a clear
\* met a packet (md_sts_get_add, md_sts_free_add, md_sts_clear).
THEOREM Balanced == Spec => []BalancedUnlessMixed
  <1>1. IInv => BalancedUnlessMixed
    <2> SUFFICES ASSUME IInv, ~ mixed, clearing = {} PROVE BalancedUnlessMixed
      BY DEF BalancedUnlessMixed
    <2>1. PICK x \in 0 .. Wrap - 1, y \in 0 .. Wrap - 1 : x = sts["get"] /\ y = sts["free"]
      BY DEF IInv, TypeOK, Counter
    <2>2. CASE todo # <<>> /\ Head(todo) # "get"
      <3>1. x = (y + 1) % Wrap
        BY <2>1, <2>2 DEF IInv, Balance
      <3>2. CASE y = Wrap - 1
        <4>1. x = 0
          BY <3>1, <3>2
        <4>2. (x - y) % Wrap = 1
          BY <3>2, <4>1
        <4> QED BY <2>1, <2>2, <4>2 DEF BalancedUnlessMixed
      <3>3. CASE y < Wrap - 1
        <4>1. x = y + 1
          BY <3>1, <3>3
        <4>2. (x - y) % Wrap = 1
          BY <4>1
        <4> QED BY <2>1, <2>2, <4>2 DEF BalancedUnlessMixed
      <3> QED BY <3>2, <3>3
    <2>3. CASE ~ (todo # <<>> /\ Head(todo) # "get")
      <3>1. x = y
        BY <2>1, <2>3 DEF IInv, Balance
      <3>2. (x - y) % Wrap = 0
        BY <3>1
      <3> QED BY <2>1, <2>3, <3>2 DEF BalancedUnlessMixed
    <2> QED BY <2>2, <2>3
  <1> QED BY Invariance, <1>1, PTL

-----------------------------------------------------------------------------
(* What is leaked.                                                         *)

\* The queue holds the packets it held.
LEMMA InUseSame ==
  ASSUME UNCHANGED pQ
  PROVE  InUse' = InUse
  BY DEF InUse, Queued, pQ

\* A packet that enters a queue with room is in use, with those that were.
LEMMA InUseMore ==
  ASSUME IInv, NEW u \in Unit, InQueue(u), count # MaxSize
  PROVE  InUse' = InUse \cup {u}
  <1>1. /\ cBuff \in [Slot -> Unit \cup {NULL}] /\ in \in Slot /\ out \in Slot
        /\ count \in 0 .. MaxSize - 1 /\ in = (out + count) % MaxSize
        /\ cBuff' = [cBuff EXCEPT ![in] = u] /\ count' = count + 1 /\ out' = out
    BY DEF IInv, TypeOK, QueueOK, InQueue
  <1>2. \A k \in 0 .. count - 1 : Queued(k)' = Queued(k)
    <2> SUFFICES ASSUME NEW k \in 0 .. count - 1 PROVE Queued(k)' = Queued(k)
      OBVIOUS
    <2>1. k \in 0 .. MaxSize - 1 /\ k \in 0 .. MaxSize /\ k # count
      BY <1>1
    <2>2. (out + k) % MaxSize # in
      BY <1>1, <2>1, Apart
    <2>3. (out + k) % MaxSize \in Slot
      BY <1>1, <2>1, Place
    <2> QED BY <1>1, <2>2, <2>3 DEF Queued
  <1>3. PICK c \in Nat : c = count /\ Queued(c)' = u
    BY <1>1 DEF Queued
  <1>4. 0 .. count' - 1 = (0 .. count - 1) \cup {c}
    BY <1>1, <1>3
  <1> QED BY <1>2, <1>3, <1>4 DEF InUse

\* The packet that leaves the queue is the one being processed.
LEMMA InUseLess ==
  ASSUME IInv, pc = "out", count # 0, OutQueue
  PROVE  InUse = InUse' \cup {work'}
  <1>1. /\ out \in Slot /\ count \in 1 .. MaxSize
        /\ work' = cBuff[out] /\ out' = (out + 1) % MaxSize /\ count' = count - 1
        /\ cBuff' = cBuff
    BY DEF IInv, TypeOK, OutQueue
  <1>2. ASSUME NEW k \in 0 .. count' - 1
        PROVE  k + 1 \in 1 .. count - 1 /\ Queued(k)' = Queued(k + 1)
    <2>1. k \in 0 .. MaxSize - 1 /\ k + 1 \in 1 .. count - 1
      BY <1>1
    <2>2. (((out + 1) % MaxSize) + k) % MaxSize = (out + (k + 1)) % MaxSize
      BY <1>1, <2>1, After
    <2> QED BY <1>1, <2>1, <2>2 DEF Queued
  <1>3. InUse' = {Queued(k) : k \in 1 .. count - 1}
    <2>1. ASSUME NEW k \in 1 .. count - 1 PROVE Queued(k) \in InUse'
      <3>1. PICK j \in 0 .. count' - 1 : k = j + 1
        <4>1. k - 1 \in 0 .. count' - 1
          BY <1>1
        <4> QED BY <4>1
      <3>2. Queued(k) = Queued(j)'
        BY <1>2, <3>1
      <3> QED BY <3>2 DEF InUse
    <2>2. ASSUME NEW k \in 0 .. count' - 1
          PROVE  Queued(k)' \in {Queued(j) : j \in 1 .. count - 1}
      BY <1>2
    <2> QED BY <2>1, <2>2 DEF InUse
  <1>4. work' = Queued(0)
    BY Dequeues
  <1>5. 0 .. count - 1 = (1 .. count - 1) \cup {0}
    BY <1>1
  <1> QED BY <1>3, <1>4, <1>5 DEF InUse

\* The last counter is "free".
LEMMA LastIsFree ==
  ASSUME NEW t \in Seq(Counter), t # <<>>, Tail(t) = <<>>,
         \A k \in 1 .. Len(t) : t[k] = "free" <=> k = Len(t)
  PROVE  Head(t) = "free"
  <1>1. PICK l, e : l \in Nat /\ l = Len(t) /\ e = Tail(t) /\ Len(e) = l - 1
    BY HeadTailProperties, LenProperties
  <1>2. Len(e) = 0
    BY <1>1, EmptySeq
  <1>3. l = 1
    BY <1>1, <1>2
  <1> QED BY <1>1, <1>3

LEMMA LeaksStep == IInv /\ Next /\ count # MaxSize => Leaked' = Leaked
  <1> SUFFICES ASSUME IInv, Next, count # MaxSize PROVE Leaked' = Leaked
    OBVIOUS
  <1>1. heap \subseteq Unit /\ NULL \notin heap
    BY DEF IInv, TypeOK
  <1>2. ASSUME UNCHANGED <<pQ, work, heap>> PROVE Leaked' = Leaked
    <2>1. InUse' = InUse
      BY <1>2, InUseSame
    <2> QED BY <1>2, <2>1 DEF Leaked
  <1>3. CASE CLI
    BY <1>2, <1>3 DEF CLI, Start, ClearBegin, ClearCounter, pkt
  <1>4. CASE TestNum \/ ClearNum
    BY <1>2, <1>4 DEF TestNum, ClearNum, pkt
  <1>5. CASE Generate
    <2>1. CASE i < input_num
      <3>1. PICK u \in Unit : u \notin heap /\ u = Malloc
        <4>1. /\ input_num \in Nat /\ i \in Nat /\ pc = "loop"
              /\ Cardinality(Unit \ heap) >= input_num - i
              /\ Cardinality(Unit \ heap) \in Nat
          BY <1>5, FreeType DEF IInv, TypeOK, Enough, Generate
        <4>2. Cardinality(Unit \ heap) > 0
          BY <2>1, <4>1
        <4> QED BY <4>2, MallocFinds DEF IInv
      <3>2. InQueue(u) /\ heap' = heap \cup {u} /\ work' = work
        BY <1>5, <2>1, <3>1 DEF Generate, pkt
      <3>3. InUse' = InUse \cup {u}
        BY <3>2, InUseMore
      <3> QED BY <3>1, <3>2, <3>3 DEF Leaked
    <2>2. CASE ~ (i < input_num)
      BY <1>2, <1>5, <2>2 DEF Generate, pkt
    <2> QED BY <2>1, <2>2
  <1>6. CASE OutQueue
    <2>1. CASE count = 0
      BY <1>2, <1>6, <2>1 DEF OutQueue
    <2>2. CASE count # 0
      <3>1. work = NULL /\ heap' = heap
        BY <1>6 DEF IInv, Counting, OutQueue
      <3>2. InUse = InUse' \cup {work'}
        BY <1>6, <2>2, InUseLess DEF OutQueue
      <3> QED BY <1>1, <3>1, <3>2 DEF Leaked
    <2> QED BY <2>1, <2>2
  <1>7. CASE Load
    <2>1. UNCHANGED <<pQ, work>> /\ (heap' = heap \/ heap' = heap \ {work})
      BY <1>7 DEF Load
    <2>2. InUse' = InUse
      BY <2>1, InUseSame
    <2> QED BY <2>1, <2>2 DEF Leaked
  <1>8. CASE Store
    <2>1. UNCHANGED <<pQ, heap>> /\ (work' = work \/ (work' = NULL /\ Tail(todo) = <<>>))
      BY <1>8 DEF Store
    <2>2. Tail(todo) = <<>> => work \notin heap
      <3>1. Tail(todo) = <<>> => Head(todo) = "free"
        BY <1>8, LastIsFree DEF IInv, Counting, Store
      <3> QED BY <1>8, <3>1 DEF IInv, WorkOK, Store
    <2>3. InUse' = InUse
      BY <2>1, InUseSame
    <2> QED BY <1>1, <2>1, <2>2, <2>3 DEF Leaked
  <1> QED BY <1>3, <1>4, <1>5, <1>6, <1>7, <1>8 DEF Next, Process

\* Memory is lost only to a full queue (InQueue, md_embrave.c:34): every packet
\* allocated is queued, processed or freed as long as there is room.
THEOREM Leaks == Spec => LeaksOnlyWhenFull
  <1>1. IInv /\ [Next]_vars => [Leaked' # Leaked => count = MaxSize]_vars
    BY LeaksStep
  <1> QED BY Invariance, <1>1, PTL DEF Spec, LeaksOnlyWhenFull
=============================================================================
