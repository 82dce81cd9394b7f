--------------------------- MODULE PipeQueue_proofs ---------------------------
(***************************************************************************)
(* The linked queue is safe although its two sides hold different locks,   *)
(* for any number of workers, packets and bytes a pipe may hold.           *)
(***************************************************************************)
EXTENDS PipeQueue, TLAPS

USE PipeQueueAssumption

\* Nodes of lists are nodes; dummies are no packets.
LEMMA AtNode ==
  ASSUME TypeOK, NEW w \in Worker, NEW n \in 0 .. Len(dealt[w])
  PROVE  /\ At(w, n) \in Node
         /\ n > 0 => At(w, n) \in Pkt
         /\ n = 0 => At(w, n) \notin Pkt
  <1>1. dealt[w] \in Seq(Pkt)
    BY DEF TypeOK
  <1>2. Dummy(w) \in Node /\ Dummy(w) \notin Pkt
    BY DEF Dummy, Node, Worker, Pkt
  <1>3. CASE n = 0
    BY <1>2, <1>3 DEF At
  <1>4. CASE n > 0
    <2>1. n \in 1 .. Len(dealt[w])
      BY <1>1, <1>4
    <2> QED BY <1>1, <1>4, <2>1 DEF At, Node
  <1> QED BY <1>1, <1>3, <1>4

LEMMA Lengths ==
  ASSUME TypeOK, NEW w \in Worker
  PROVE  Len(dealt[w]) \in Nat /\ Len(done[w]) \in Nat
  BY DEF TypeOK

\* Two sequences that agree as far as the first goes.
LEMMA PrefixOf ==
  ASSUME NEW S, NEW s \in Seq(S), NEW t \in Seq(S), Len(s) <= Len(t),
         \A n \in 1 .. Len(s) : s[n] = t[n]
  PROVE  IsPrefix(s, t)
  <1>1. /\ SubSeq(s, 1, Len(s)) = [n \in 1 .. Len(s) |-> s[n]]
        /\ SubSeq(t, 1, Len(s)) = [n \in 1 .. Len(s) |-> t[n]]
    OBVIOUS
  <1> QED BY <1>1 DEF IsPrefix

LEMMA Counts ==
  ASSUME TypeOK, NEW w \in Worker
  PROVE  /\ pipe[w] \in Nat /\ missed[w] \in Nat /\ InHand(w) \in Nat /\ TooSoon(w) \in Nat
         /\ Len(dealt[w]) \in Nat /\ Len(done[w]) \in Nat
  BY DEF TypeOK, InHand, TooSoon

-----------------------------------------------------------------------------
LEMMA Initially == Init => IInv
  <1> SUFFICES ASSUME Init PROVE IInv  OBVIOUS
  <1>1. TypeOK
    BY DEF Init, TypeOK, Node, Dummy, Worker
  <1>2. \A w \in Worker : Len(dealt[w]) = 0 /\ Len(done[w]) = 0
    BY DEF Init
  <1>3. \A w \in Worker : At(w, 0) = Dummy(w) /\ Dummy(w) \in Node
    BY DEF At, Node
  <1>4. Distinct
    BY <1>2, <1>3 DEF Distinct, Dummy, Worker
  <1>5. CaptureOK
    BY DEF Init, CaptureOK, Node
  <1>6. Announced
    BY <1>2 DEF Init, Announced, InHand, TooSoon
  <1>7. \A w \in Worker : ListOK(w) /\ WorkerOK(w)
    BY <1>2, <1>3 DEF Init, ListOK, WorkerOK
  <1> QED BY <1>1, <1>4, <1>5, <1>6, <1>7 DEF IInv

-----------------------------------------------------------------------------
(* The capture thread.                                                     *)

LEMMA ArriveStep == IInv /\ Arrive => IInv'
  <1> SUFFICES ASSUME IInv, Arrive PROVE IInv'  OBVIOUS
  <1>1. TypeOK'
    <2>1. (last_thread + 1) % nthreads \in Worker
      BY DEF IInv, TypeOK, Worker
    <2> QED BY <2>1 DEF IInv, TypeOK, Arrive, worker, history
  <1>2. \A p \in Pkt : Unlinked(p)' = Unlinked(p)
    BY DEF IInv, TypeOK, Arrive, Unlinked, Pkt
  <1>3. \A w, n : At(w, n)' = At(w, n)
    BY DEF Arrive, At, history
  <1>4. Distinct'
    <2>1. \A w \in Worker : \A n \in 1 .. Len(dealt[w]) : dealt[w][n] \in Pkt
      BY DEF IInv, TypeOK
    <2> QED BY <1>2, <1>3, <2>1 DEF IInv, Distinct, Arrive, history
  <1>5. CaptureOK'
    BY <1>2 DEF IInv, TypeOK, CaptureOK, Arrive, Pkt
  <1>6. Announced'
    BY DEF IInv, Announced, InHand, TooSoon, Arrive, worker, history
  <1>7. \A w \in Worker : ListOK(w)' /\ WorkerOK(w)'
    BY <1>3 DEF IInv, ListOK, WorkerOK, Arrive, worker, history
  <1> QED BY <1>1, <1>4, <1>5, <1>6, <1>7 DEF IInv

LEMMA WriteByteStep == IInv /\ WriteByte => IInv'
  <1> SUFFICES ASSUME IInv, WriteByte PROVE IInv'  OBVIOUS
  <1>1. TypeOK'
    BY DEF IInv, TypeOK, WriteByte, worker, history
  <1>2. \A p \in Pkt : Unlinked(p)' = Unlinked(p)
    BY DEF WriteByte, Unlinked
  <1>3. \A w, n : At(w, n)' = At(w, n)
    BY DEF WriteByte, At, history
  <1>4. Distinct'
    <2>1. \A w \in Worker : \A n \in 1 .. Len(dealt[w]) : dealt[w][n] \in Pkt
      BY DEF IInv, TypeOK
    <2> QED BY <1>2, <1>3, <2>1 DEF IInv, Distinct, WriteByte, history
  <1>5. CaptureOK'
    BY <1>2 DEF IInv, CaptureOK, WriteByte
  <1>6. Announced'
    <2> SUFFICES ASSUME NEW w \in Worker
                 PROVE  pipe'[w] + InHand(w) + Len(done[w]) + missed[w]
                          = Len(dealt[w]) + TooSoon(w)'
      BY DEF Announced, InHand, WriteByte, worker, history
    <2>1. pipe[w] + InHand(w) + Len(done[w]) + missed[w] = Len(dealt[w]) + TooSoon(w)
      BY DEF IInv, Announced
    <2>2. pipe'[w] = pipe[w] + TooSoon(w)' /\ TooSoon(w) = 0 /\ TooSoon(w)' \in Nat
      BY DEF IInv, TypeOK, WriteByte, TooSoon
    <2>3. PICK t \in Nat : t = TooSoon(w)'
      BY <2>2
    <2>4. /\ pipe[w] \in Nat /\ missed[w] \in Nat /\ InHand(w) \in Nat
          /\ Len(dealt[w]) \in Nat /\ Len(done[w]) \in Nat
      BY Counts DEF IInv
    <2>5. pipe'[w] = pipe[w] + t /\ pipe[w] + InHand(w) + Len(done[w]) + missed[w] = Len(dealt[w])
      BY <2>1, <2>2, <2>3, <2>4
    <2>6. pipe'[w] + InHand(w) + Len(done[w]) + missed[w] = Len(dealt[w]) + t
      <3>1. PICK a \in Nat, b \in Nat, c \in Nat, d \in Nat, e \in Nat :
              /\ a = pipe[w] /\ b = InHand(w) /\ c = Len(done[w]) /\ d = missed[w]
              /\ e = Len(dealt[w])
        BY <2>4
      <3>2. pipe'[w] = a + t
        BY <2>5, <3>1
      <3>3. a + b + c + d = e
        BY <2>5, <3>1
      <3>4. (a + t) + b + c + d = e + t
        BY <3>3
      <3> QED BY <3>1, <3>2, <3>4
    <2> QED BY <2>3, <2>6
  <1>7. \A w \in Worker : ListOK(w)' /\ WorkerOK(w)'
    BY <1>3 DEF IInv, ListOK, WorkerOK, WriteByte, worker, history
  <1> QED BY <1>1, <1>4, <1>5, <1>6, <1>7 DEF IInv

\* The packet becomes the last node of the worker's list (kstr_mq_queue.c:18).
LEMMA LinkStep == IInv /\ Link => IInv'
  <1> SUFFICES ASSUME IInv, Link PROVE IInv'  OBVIOUS
  <1>1. PICK l \in Worker, k \in Nat :
          /\ l = last_thread /\ l = last_thread' /\ k = Len(dealt[l])
          /\ cur \in Pkt /\ dealt[l] \in Seq(Pkt)
    <2>1. last_thread \in Worker /\ dealt[last_thread] \in Seq(Pkt)
      BY DEF IInv, TypeOK
    <2> QED BY <2>1 DEF IInv, CaptureOK, Link
  <1>2. TypeOK'
    BY <1>1 DEF IInv, TypeOK, Link, worker
  <1>3. /\ Len(dealt'[l]) = k + 1
        /\ \A w \in Worker : w # l => dealt'[w] = dealt[w]
    BY <1>1 DEF IInv, TypeOK, Link
  <1>4. /\ At(l, k + 1)' = cur
        /\ \A w \in Worker : \A n \in 0 .. Len(dealt[w]) : At(w, n)' = At(w, n)
    <2>1. dealt'[l] = Append(dealt[l], cur)
      BY <1>1 DEF IInv, TypeOK, Link
    <2> QED BY <1>1, <1>3, <2>1 DEF At
  <1>5. \A w \in Worker : \A n \in 0 .. Len(dealt[w]) : At(w, n) # cur
    <2> SUFFICES ASSUME NEW w \in Worker, NEW n \in 0 .. Len(dealt[w]), At(w, n) = cur
                 PROVE  FALSE
      OBVIOUS
    <2>1. n > 0 /\ At(w, n) = dealt[w][n]
      BY <1>1, AtNode DEF IInv, At
    <2>2. Unlinked(cur)
      BY DEF Link, Unlinked
    <2> QED BY <2>1, <2>2, <1>1, Lengths DEF IInv, Distinct
  <1>6. tail[l] = At(l, k) /\ At(l, k) \in Node /\ next[cur] = NULL /\ cur \notin freed
    BY <1>1, AtNode DEF IInv, ListOK, Link, CaptureOK, Unlinked
  <1>7. /\ next'[At(l, k)] = cur
        /\ \A x \in Node : x # At(l, k) => next'[x] = next[x]
    <2>1. next' = [next EXCEPT ![At(l, k)] = cur]
      BY <1>1, <1>6 DEF Link
    <2> QED BY <1>6, <2>1 DEF IInv, TypeOK
  <1>8. \A p \in Pkt : Unlinked(p)' => Unlinked(p) /\ p # cur
    BY <1>1 DEF Unlinked, Link, Pkt
  <1>9. Distinct'
    <2>1. ASSUME NEW v \in Worker, NEW w \in Worker,
                 NEW m \in 0 .. Len(dealt'[v]), NEW n \in 0 .. Len(dealt'[w]),
                 At(v, m)' = At(w, n)'
          PROVE  v = w /\ m = n
      <3>1. (v = l /\ m = k + 1) \/ m \in 0 .. Len(dealt[v])
        BY <1>1, <1>3
      <3>2. (w = l /\ n = k + 1) \/ n \in 0 .. Len(dealt[w])
        BY <1>1, <1>3
      <3> QED BY <2>1, <3>1, <3>2, <1>4, <1>5 DEF IInv, Distinct
    <2>2. ASSUME NEW w \in Worker, NEW n \in 1 .. Len(dealt'[w])
          PROVE  (~ Unlinked(dealt[w][n]))'
      <3>1. dealt'[w][n] \in Pkt
        BY <1>2 DEF TypeOK
      <3>2. CASE w = l /\ n = k + 1
        <4>1. dealt'[w][n] = cur
          BY <3>2, <1>1, <1>4 DEF At
        <4> QED BY <4>1, <3>1, <1>8
      <3>3. CASE n \in 1 .. Len(dealt[w])
        <4>1. dealt'[w][n] = dealt[w][n]
          BY <3>3, <1>1, <1>3 DEF IInv, TypeOK, Link
        <4> QED BY <4>1, <3>1, <3>3, <1>8 DEF IInv, Distinct
      <3> QED BY <3>2, <3>3, <1>1, <1>3
    <2> QED BY <2>1, <2>2 DEF Distinct
  <1>10. CaptureOK'
    <2>1. dealt'[l] # <<>> /\ At(l, Len(dealt[l]))' = cur
      <3>1. dealt'[l] # <<>>
        BY <1>1, <1>3
      <3> QED BY <3>1, <1>3, <1>4 DEF At
    <2>2. \A p \in Pkt : Unlinked(p)' => next'[p] = NULL /\ p \notin freed
      <3> SUFFICES ASSUME NEW p \in Pkt, Unlinked(p)'
                   PROVE  next'[p] = NULL /\ p \notin freed
        OBVIOUS
      <3>1. Unlinked(p) /\ next[p] = NULL /\ p \notin freed
        BY <1>8 DEF IInv, CaptureOK
      <3>2. p # At(l, k)
        <4>1. k > 0 => At(l, k) = dealt[l][k] /\ ~ Unlinked(dealt[l][k])
          BY <1>1 DEF At, IInv, Distinct
        <4>2. k = 0 => At(l, k) \notin Pkt
          BY <1>1, AtNode DEF IInv
        <4> QED BY <3>1, <4>1, <4>2, <1>1
      <3> QED BY <3>1, <3>2, <1>7 DEF Node
    <2> QED BY <1>1, <2>1, <2>2 DEF CaptureOK, Link
  <1>11. Announced'
    <2> SUFFICES ASSUME NEW w \in Worker
                 PROVE  pipe[w] + InHand(w) + Len(done[w]) + missed[w]
                          = Len(dealt'[w]) + TooSoon(w)'
      BY DEF Announced, InHand, Link, worker
    <2>1. pipe[w] + InHand(w) + Len(done[w]) + missed[w] = Len(dealt[w]) + TooSoon(w)
      BY DEF IInv, Announced
    <2>2. Len(dealt'[w]) = Len(dealt[w]) + TooSoon(w) /\ TooSoon(w)' = 0
      <3>1. cpc = "link" /\ cpc' = "swing" /\ l = last_thread
        BY <1>1 DEF Link
      <3>2. Len(dealt[w]) \in Nat
        BY Counts DEF IInv
      <3>3. CASE w = l
        BY <3>1, <3>3, <1>1, <1>3 DEF TooSoon
      <3>4. CASE w # l
        <4>1. dealt'[w] = dealt[w]
          BY <3>4, <1>3
        <4>2. TooSoon(w) = 0 /\ TooSoon(w)' = 0
          BY <3>1, <3>4 DEF TooSoon
        <4> QED BY <3>2, <4>1, <4>2
      <3> QED BY <3>3, <3>4
    <2> QED BY <2>1, <2>2, Counts DEF IInv
  <1>12. ASSUME NEW w \in Worker PROVE ListOK(w)' /\ WorkerOK(w)'
    <2>1. Len(dealt[w]) \in Nat /\ Len(done[w]) \in Nat /\ Len(done[w]) <= Len(dealt[w])
      BY Lengths DEF IInv, WorkerOK
    <2>2. CASE w # l
      <3>1. \A n \in 0 .. Len(dealt[w]) : At(w, n) # At(l, k) /\ At(w, n) \in Node
        BY <2>2, <1>1, AtNode DEF IInv, Distinct
      <3>2. \A n \in 0 .. Len(dealt[w]) : next'[At(w, n)] = next[At(w, n)]
        BY <3>1, <1>7
      <3>3. dealt'[w] = dealt[w] /\ \A n \in 0 .. Len(dealt[w]) : At(w, n)' = At(w, n)
        BY <2>2, <1>3, <1>4
      <3>4. ListOK(w)'
        <4>1. tail[w] = At(w, Len(dealt[w])) /\ tail' = tail /\ last_thread' # w
          BY <1>1, <2>2 DEF IInv, ListOK, Link
        <4>2. head' = head /\ done' = done /\ freed' = freed
          BY DEF Link
        <4>3. (\A n \in 0 .. Len(dealt[w]) - 1 : next[At(w, n)] = At(w, n + 1))'
          BY <2>1, <3>2, <3>3 DEF IInv, ListOK
        <4>4. (\A n \in Len(done[w]) .. Len(dealt[w]) : At(w, n) \notin freed)'
          BY <2>1, <3>3, <4>2 DEF IInv, ListOK
        <4>5. (head[w] = At(w, Len(done[w])))' /\ (next[At(w, Len(dealt[w]))] = NULL)'
          BY <2>1, <3>2, <3>3, <4>2 DEF IInv, ListOK
        <4> QED BY <2>1, <3>3, <4>1, <4>3, <4>4, <4>5 DEF ListOK
      <3>5. WorkerOK(w)'
        BY <2>1, <3>3 DEF IInv, WorkerOK, Link, worker
      <3> QED BY <3>4, <3>5
    <2>3. CASE w = l
      <3>1. \A n \in 0 .. k - 1 : At(l, n) # At(l, k) /\ At(l, n) \in Node
        BY <1>1, AtNode DEF IInv, Distinct
      <3>2. \A n \in 0 .. k - 1 : next'[At(l, n)] = At(l, n + 1)
        BY <1>1, <3>1, <1>7 DEF IInv, ListOK
      <3>3. \A n \in 0 .. k : next'[At(l, n)'] = At(l, n + 1)'
        <4> SUFFICES ASSUME NEW n \in 0 .. k PROVE next'[At(l, n)'] = At(l, n + 1)'
          OBVIOUS
        <4>1. CASE n = k
          BY <4>1, <1>1, <1>4, <1>7
        <4>2. CASE n < k
          BY <4>2, <1>1, <1>4, <3>2
        <4> QED BY <4>1, <4>2, <1>1
      <3>4. next'[At(l, k + 1)'] = NULL
        BY <1>1, <1>4, <1>5, <1>6, <1>7 DEF Node
      <3>5. /\ head'[l] = At(l, Len(done[l]))'
            /\ tail'[l] = At(l, k)'
        BY <1>1, <1>4, <1>6, <2>1, <2>3 DEF IInv, ListOK, Link
      <3>6. \A n \in Len(done'[l]) .. k + 1 : At(l, n)' \notin freed'
        <4> SUFFICES ASSUME NEW n \in Len(done[l]) .. k + 1 PROVE At(l, n)' \notin freed
          BY DEF Link
        <4>1. CASE n = k + 1
          BY <4>1, <1>4, <1>6
        <4>2. CASE n \in Len(done[l]) .. k
          BY <4>2, <1>1, <1>4, <2>1, <2>3 DEF IInv, ListOK
        <4> QED BY <4>1, <4>2, <1>1, <2>1, <2>3
      <3>7. ListOK(l)'
        BY <1>1, <1>3, <3>3, <3>4, <3>5, <3>6 DEF ListOK, Link
      <3>8. WorkerOK(l)'
        <4>1. \A n \in 1 .. Len(done[l]) : dealt'[l][n] = dealt[l][n]
          BY <1>1, <2>1, <2>3 DEF IInv, TypeOK, Link
        <4>2. wpc[l] = "take" =>
                Len(done[l]) < Len(dealt'[l]) /\ new_head[l] = At(l, Len(done[l]) + 1)'
          <5> SUFFICES ASSUME wpc[l] = "take"
                       PROVE  Len(done[l]) < Len(dealt'[l])
                              /\ new_head[l] = At(l, Len(done[l]) + 1)'
            OBVIOUS
          <5>1. Len(done[l]) < Len(dealt[l]) /\ new_head[l] = At(l, Len(done[l]) + 1)
            BY <1>1 DEF IInv, WorkerOK
          <5>2. PICK d \in 0 .. Len(dealt[l]) : d = Len(done[l]) + 1
            BY <5>1, <2>1, <2>3
          <5>3. At(l, d)' = At(l, d)
            BY <1>1, <1>4
          <5>4. done' = done
            BY DEF Link
          <5> QED BY <1>1, <1>3, <2>1, <2>3, <5>1, <5>2, <5>3, <5>4 DEF At
        <4> QED BY <1>1, <1>3, <2>1, <2>3, <4>1, <4>2 DEF IInv, WorkerOK, Link, worker
      <3> QED BY <2>3, <3>7, <3>8
    <2> QED BY <2>2, <2>3
  <1> QED BY <1>2, <1>9, <1>10, <1>11, <1>12 DEF IInv

\* ...and the tail is swung to it.
LEMMA SwingStep == IInv /\ Swing => IInv'
  <1> SUFFICES ASSUME IInv, Swing PROVE IInv'  OBVIOUS
  <1>1. TypeOK'
    BY DEF IInv, TypeOK, CaptureOK, Swing, worker, history, Node
  <1>2. \A p \in Pkt : Unlinked(p)' = Unlinked(p)
    BY DEF Swing, Unlinked
  <1>3. \A w, n : At(w, n)' = At(w, n)
    BY DEF Swing, At, history
  <1>4. Distinct'
    <2>1. \A w \in Worker : \A n \in 1 .. Len(dealt[w]) : dealt[w][n] \in Pkt
      BY DEF IInv, TypeOK
    <2> QED BY <1>2, <1>3, <2>1 DEF IInv, Distinct, Swing, history
  <1>5. CaptureOK'
    BY <1>2 DEF IInv, CaptureOK, Swing, history
  <1>6. Announced'
    BY DEF IInv, Announced, InHand, TooSoon, Swing, worker, history
  <1>7. ASSUME NEW w \in Worker PROVE ListOK(w)' /\ WorkerOK(w)'
    <2>1. tail'[w] = At(w, Len(dealt[w]))
      <3>1. CASE w = last_thread
        BY <3>1 DEF IInv, TypeOK, CaptureOK, Swing
      <3>2. CASE w # last_thread
        BY <3>2 DEF IInv, TypeOK, ListOK, Swing
      <3> QED BY <3>1, <3>2
    <2> QED BY <2>1, <1>3 DEF IInv, ListOK, WorkerOK, Swing, worker, history
  <1> QED BY <1>1, <1>4, <1>5, <1>6, <1>7 DEF IInv

-----------------------------------------------------------------------------
(* The worker.                                                             *)

\* What a step leaves alone that touches no list.
LEMMA SameLists ==
  ASSUME IInv, UNCHANGED <<next, freed, head, tail, capture, dealt, done>>
  PROVE  Distinct' /\ CaptureOK' /\ \A w \in Worker : ListOK(w)'
  <1>1. \A p \in Pkt : Unlinked(p)' = Unlinked(p)
    BY DEF capture, Unlinked
  <1>2. \A w, n : At(w, n)' = At(w, n)
    BY DEF At
  <1>3. \A w \in Worker : \A n \in 1 .. Len(dealt[w]) : dealt[w][n] \in Pkt
    BY DEF IInv, TypeOK
  <1>4. Distinct'
    BY <1>1, <1>2, <1>3 DEF IInv, Distinct
  <1>5. CaptureOK'
    BY <1>1, <1>2 DEF IInv, CaptureOK, capture
  <1>6. \A w \in Worker : ListOK(w)'
    BY <1>2 DEF IInv, ListOK, capture
  <1> QED BY <1>4, <1>5, <1>6

LEMMA ReadByteStep ==
  ASSUME IInv, NEW w \in Worker, ReadByte(w)
  PROVE  IInv'
  <1>1. TypeOK'
    BY SMTT(30) DEF IInv, TypeOK, ReadByte, GotoW, capture, history
  <1>2. Distinct' /\ CaptureOK' /\ \A v \in Worker : ListOK(v)'
    <2>1. UNCHANGED <<next, freed, head, tail, capture, dealt, done>>
      BY DEF ReadByte, history
    <2> QED BY <2>1, SameLists
  <1>3. ASSUME NEW v \in Worker PROVE WorkerOK(v)'
    BY DEF IInv, TypeOK, WorkerOK, ReadByte, GotoW, At, history
  <1>4. Announced'
    <2> SUFFICES ASSUME NEW v \in Worker
                 PROVE  pipe'[v] + InHand(v)' + Len(done[v]) + missed[v]
                          = Len(dealt[v]) + TooSoon(v)
      BY DEF Announced, TooSoon, ReadByte, capture, history
    <2>1. pipe[v] + InHand(v) + Len(done[v]) + missed[v] = Len(dealt[v]) + TooSoon(v)
      BY DEF IInv, Announced
    <2>2. CASE v # w
      <3>1. pipe'[v] = pipe[v] /\ InHand(v)' = InHand(v)
        BY <2>2 DEF IInv, TypeOK, ReadByte, GotoW, InHand
      <3> QED BY <2>1, <3>1
    <2>3. CASE v = w
      <3>1. /\ pipe'[v] = pipe[v] - 1 /\ InHand(v)' = 1 /\ InHand(v) = 0
        BY <2>3 DEF IInv, TypeOK, ReadByte, GotoW, InHand
      <3>2. PICK a \in Nat, c \in Nat, d \in Nat :
              a = pipe[v] /\ c = Len(done[v]) /\ d = missed[v]
        BY Counts DEF IInv
      <3>3. pipe'[v] = a - 1
        BY <3>1, <3>2
      <3>4. (a - 1) + 1 + c + d = a + 0 + c + d
        OBVIOUS
      <3> QED BY <2>1, <3>1, <3>2, <3>3, <3>4
    <2> QED BY <2>2, <2>3
  <1> QED BY <1>1, <1>2, <1>3, <1>4 DEF IInv

LEMMA QueueEmptyStep ==
  ASSUME IInv, NEW w \in Worker, QueueEmpty(w)
  PROVE  IInv'
  <1>1. TypeOK'
    BY DEF IInv, TypeOK, QueueEmpty, GotoW, capture
  <1>2. Distinct' /\ CaptureOK' /\ \A v \in Worker : ListOK(v)'
    <2>1. UNCHANGED <<next, freed, head, tail, capture, dealt, done>>
      BY DEF QueueEmpty
    <2> QED BY <2>1, SameLists
  <1>3. ASSUME NEW v \in Worker PROVE WorkerOK(v)'
    BY DEF IInv, TypeOK, WorkerOK, QueueEmpty, GotoW, At
  <1>4. Announced'
    <2> SUFFICES ASSUME NEW v \in Worker
                 PROVE  pipe[v] + InHand(v)' + Len(done[v]) + missed'[v]
                          = Len(dealt[v]) + TooSoon(v)
      BY DEF Announced, TooSoon, QueueEmpty, capture
    <2>1. pipe[v] + InHand(v) + Len(done[v]) + missed[v] = Len(dealt[v]) + TooSoon(v)
      BY DEF IInv, Announced
    <2>2. CASE v # w
      <3>1. missed'[v] = missed[v] /\ InHand(v)' = InHand(v)
        BY <2>2 DEF IInv, TypeOK, QueueEmpty, GotoW, InHand
      <3> QED BY <2>1, <3>1
    <2>3. CASE v = w
      <3>1. /\ missed'[v] = missed[v] + 1 /\ InHand(v)' = 0 /\ InHand(v) = 1
        BY <2>3 DEF IInv, TypeOK, QueueEmpty, GotoW, InHand
      <3>2. PICK a \in Nat, c \in Nat, d \in Nat :
              a = pipe[v] /\ c = Len(done[v]) /\ d = missed[v]
        BY Counts DEF IInv
      <3>3. missed'[v] = d + 1
        BY <3>1, <3>2
      <3>4. a + 0 + c + (d + 1) = a + 1 + c + d
        OBVIOUS
      <3> QED BY <2>1, <3>1, <3>2, <3>3, <3>4
    <2> QED BY <2>2, <2>3
  <1> QED BY <1>1, <1>2, <1>3, <1>4 DEF IInv

\* A node that has a successor is not the last: there is a packet to take.
LEMMA ReadNextStep ==
  ASSUME IInv, NEW w \in Worker, ReadNext(w)
  PROVE  IInv'
  <1>1. TypeOK'
    BY DEF IInv, TypeOK, ReadNext, GotoW, capture, history
  <1>2. Distinct' /\ CaptureOK' /\ \A v \in Worker : ListOK(v)'
    <2>1. UNCHANGED <<next, freed, head, tail, capture, dealt, done>>
      BY DEF ReadNext, history
    <2> QED BY <2>1, SameLists
  <1>3. ASSUME NEW v \in Worker PROVE WorkerOK(v)'
    <2>1. CASE v # w
      BY <2>1 DEF IInv, TypeOK, WorkerOK, ReadNext, GotoW, At, history
    <2>2. CASE v = w
      <3>1. PICK d \in Nat, e \in Nat : d = Len(done[w]) /\ e = Len(dealt[w]) /\ d <= e
        BY Lengths DEF IInv, WorkerOK
      <3>2. head[w] = At(w, d) /\ next[At(w, e)] = NULL
        BY <3>1 DEF IInv, ListOK
      <3>3. d < e
        BY <3>1, <3>2 DEF ReadNext
      <3>4. next[head[w]] = At(w, d + 1)
        BY <3>1, <3>2, <3>3 DEF IInv, ListOK
      <3>5. new_head'[w] = At(w, d + 1)'
        BY <3>4 DEF IInv, TypeOK, ReadNext, At, history
      <3> QED BY <2>2, <3>1, <3>3, <3>5 DEF IInv, WorkerOK, ReadNext, history
    <2> QED BY <2>1, <2>2
  <1>4. Announced'
    <2>1. \A v \in Worker : InHand(v)' = InHand(v)
      BY DEF IInv, TypeOK, ReadNext, GotoW, InHand
    <2> QED BY <2>1 DEF IInv, Announced, TooSoon, ReadNext, capture, history
  <1> QED BY <1>1, <1>2, <1>3, <1>4 DEF IInv

\* The old head is freed and the new one processed: nobody else refers to it.
LEMMA TakeStep ==
  ASSUME IInv, NEW w \in Worker, Take(w)
  PROVE  IInv'
  <1>1. PICK d \in Nat, e \in Nat :
          /\ d = Len(done[w]) /\ e = Len(dealt[w]) /\ d < e
          /\ new_head[w] = At(w, d + 1) /\ head[w] = At(w, d)
    BY Lengths DEF IInv, WorkerOK, ListOK, Take, GotoW
  <1>2. new_head[w] = dealt[w][d + 1] /\ new_head[w] \in Pkt /\ head[w] \in Node
    <2>1. d + 1 \in 0 .. Len(dealt[w]) /\ d \in 0 .. Len(dealt[w])
      BY <1>1
    <2> QED BY <2>1, <1>1, AtNode DEF IInv, At
  <1>3. TypeOK'
    BY <1>2 DEF IInv, TypeOK, Take, GotoW, capture, Node
  <1>4. /\ Len(done'[w]) = d + 1
        /\ \A n \in 1 .. d : done'[w][n] = done[w][n]
        /\ done'[w][d + 1] = new_head[w]
        /\ \A v \in Worker : v # w => done'[v] = done[v]
    BY <1>1, <1>2 DEF IInv, TypeOK, Take
  <1>5. \A v, n : At(v, n)' = At(v, n)
    BY DEF Take, At
  <1>6. \A p \in Pkt : Unlinked(p)' = Unlinked(p)
    BY DEF Take, capture, Unlinked
  <1>7. freed' = freed \cup {At(w, d)}
    BY <1>1 DEF Take
  <1>8. Distinct'
    <2>1. \A v \in Worker : \A n \in 1 .. Len(dealt[v]) : dealt[v][n] \in Pkt
      BY DEF IInv, TypeOK
    <2> QED BY <1>5, <1>6, <2>1 DEF IInv, Distinct, Take
  <1>9. CaptureOK'
    <2>1. ASSUME NEW p \in Pkt, Unlinked(p) PROVE next[p] = NULL /\ p \notin freed'
      <3>1. next[p] = NULL /\ p \notin freed
        BY <2>1 DEF IInv, CaptureOK
      <3>2. p # At(w, d)
        <4>1. d > 0 => At(w, d) = dealt[w][d] /\ ~ Unlinked(dealt[w][d])
          BY <1>1 DEF At, IInv, Distinct
        <4>2. d = 0 => At(w, d) \notin Pkt
          BY <1>1, AtNode DEF IInv
        <4> QED BY <2>1, <4>1, <4>2, <1>1
      <3> QED BY <3>1, <3>2, <1>7
    <2>2. (cpc # "idle" => cur \in Pkt)'
      BY DEF IInv, CaptureOK, Take, capture
    <2>3. (cpc = "swing" =>
             dealt[last_thread] # <<>> /\ At(last_thread, Len(dealt[last_thread])) = cur)'
      BY <1>5 DEF IInv, CaptureOK, Take, capture
    <2> QED BY <2>1, <2>2, <2>3, <1>6 DEF CaptureOK, Take
  <1>10. Announced'
    <2> SUFFICES ASSUME NEW v \in Worker
                 PROVE  pipe[v] + InHand(v)' + Len(done'[v]) + missed[v]
                          = Len(dealt[v]) + TooSoon(v)
      BY DEF Announced, TooSoon, Take, capture
    <2>1. pipe[v] + InHand(v) + Len(done[v]) + missed[v] = Len(dealt[v]) + TooSoon(v)
      BY DEF IInv, Announced
    <2>2. CASE v # w
      <3>1. done'[v] = done[v] /\ InHand(v)' = InHand(v)
        BY <2>2, <1>4 DEF IInv, TypeOK, Take, GotoW, InHand
      <3> QED BY <2>1, <3>1
    <2>3. CASE v = w
      <3>1. InHand(v)' = 0 /\ InHand(v) = 1
        BY <2>3 DEF IInv, TypeOK, Take, GotoW, InHand
      <3>2. PICK a \in Nat, m \in Nat : a = pipe[v] /\ m = missed[v]
        BY Counts DEF IInv
      <3>3. a + 0 + (d + 1) + m = a + 1 + d + m
        OBVIOUS
      <3> QED BY <2>1, <2>3, <1>1, <1>4, <3>1, <3>2, <3>3
    <2> QED BY <2>2, <2>3
  <1>11. ASSUME NEW v \in Worker PROVE ListOK(v)'
    <2>1. Len(dealt[v]) \in Nat /\ Len(done[v]) \in Nat
      BY Lengths DEF IInv
    <2>2. CASE v # w
      <3>1. \A n \in 0 .. Len(dealt[v]) : At(v, n) # At(w, d)
        BY <2>2, <1>1 DEF IInv, Distinct
      <3>2. \A n \in Len(done[v]) .. Len(dealt[v]) : At(v, n) \notin freed'
        BY <2>1, <3>1, <1>7 DEF IInv, ListOK
      <3>3. head'[v] = head[v] /\ done'[v] = done[v]
        BY <2>2, <1>4 DEF IInv, TypeOK, Take
      <3> QED BY <3>2, <3>3, <1>5 DEF IInv, ListOK, Take, capture
    <2>3. CASE v = w
      <3>1. \A n \in d + 1 .. e : At(w, n) # At(w, d)
        BY <1>1 DEF IInv, Distinct
      <3>2. \A n \in d + 1 .. e : At(w, n) \notin freed'
        BY <3>1, <1>1, <1>7 DEF IInv, ListOK
      <3>3. head'[w] = At(w, d + 1)
        BY <1>1 DEF IInv, TypeOK, Take
      <3> QED BY <2>3, <3>2, <3>3, <1>1, <1>4, <1>5 DEF IInv, ListOK, Take, capture
    <2> QED BY <2>2, <2>3
  <1>12. ASSUME NEW v \in Worker PROVE WorkerOK(v)'
    <2>1. CASE v # w
      BY <2>1, <1>4, <1>5 DEF IInv, TypeOK, WorkerOK, Take, GotoW
    <2>2. CASE v = w
      <3>1. Len(done'[w]) <= Len(dealt[w]) /\ wpc'[w] # "take"
        BY <1>1, <1>4 DEF IInv, TypeOK, Take, GotoW
      <3>2. ASSUME NEW n \in 1 .. d + 1 PROVE done'[w][n] = dealt[w][n]
        <4>1. CASE n = d + 1
          BY <4>1, <1>2, <1>4
        <4>2. CASE n \in 1 .. d
          BY <4>2, <1>1, <1>4 DEF IInv, WorkerOK
        <4> QED BY <4>1, <4>2, <1>1
      <3> QED BY <2>2, <3>1, <3>2, <1>4 DEF WorkerOK, Take
    <2> QED BY <2>1, <2>2
  <1> QED BY <1>3, <1>8, <1>9, <1>10, <1>11, <1>12 DEF IInv

-----------------------------------------------------------------------------
LEMMA Inductive == IInv /\ [Next]_vars => IInv'
  <1> SUFFICES ASSUME IInv, [Next]_vars PROVE IInv'  OBVIOUS
  <1>1. CASE Arrive
    BY <1>1, ArriveStep
  <1>2. CASE WriteByte
    BY <1>2, WriteByteStep
  <1>3. CASE Link
    BY <1>3, LinkStep
  <1>4. CASE Swing
    BY <1>4, SwingStep
  <1>5. ASSUME NEW w \in Worker, WorkerStep(w) PROVE IInv'
    BY <1>5, ReadByteStep, QueueEmptyStep, ReadNextStep, TakeStep DEF WorkerStep
  <1>6. CASE UNCHANGED vars
    <2>1. /\ next' = next /\ freed' = freed /\ head' = head /\ tail' = tail /\ pipe' = pipe
          /\ cpc' = cpc /\ cur' = cur /\ last_thread' = last_thread
          /\ wpc' = wpc /\ new_head' = new_head
          /\ dealt' = dealt /\ done' = done /\ missed' = missed
      BY <1>6 DEF vars, capture, worker, history
    <2>2. TypeOK'
      BY <2>1 DEF IInv, TypeOK
    <2>3. Distinct' /\ CaptureOK' /\ \A v \in Worker : ListOK(v)'
      BY <2>1, SameLists DEF capture
    <2>4. Announced'
      BY <2>1 DEF IInv, Announced, InHand, TooSoon
    <2>5. \A v \in Worker : WorkerOK(v)'
      BY <2>1 DEF IInv, WorkerOK, At
    <2> QED BY <2>2, <2>3, <2>4, <2>5 DEF IInv
  <1> QED BY <1>1, <1>2, <1>3, <1>4, <1>5, <1>6 DEF Next, CaptureStep

\* The lists are linked, entered and owned as IInv says, in every behaviour
\* (kstr_mq_queue.c:13-40, kstr_capture.c:38-49).
THEOREM Invariance == Spec => []IInv
  <1> QED BY Initially, Inductive, PTL DEF Spec

\* Neither side uses a node the other has freed, although they hold different
\* locks (kstr_mq_queue.c:18-19, 27-38).
THEOREM NoDangling == Spec => []NoDanglingNode
  <1>1. IInv => NoDanglingNode
    <2> SUFFICES ASSUME IInv PROVE NoDanglingNode  OBVIOUS
    <2>1. ASSUME NEW w \in Worker
          PROVE  /\ At(w, Len(dealt[w])) \notin freed /\ head[w] \notin freed
                 /\ wpc[w] = "take" => new_head[w] \notin freed
      <3>1. PICK d \in Nat, e \in Nat : d = Len(done[w]) /\ e = Len(dealt[w]) /\ d <= e
        BY Lengths DEF IInv, WorkerOK
      <3>2. head[w] = At(w, d) /\ \A n \in d .. e : At(w, n) \notin freed
        BY <3>1 DEF IInv, ListOK
      <3>3. wpc[w] = "take" => d < e /\ new_head[w] = At(w, d + 1)
        BY <3>1 DEF IInv, WorkerOK
      <3> QED BY <3>1, <3>2, <3>3
    <2>2. cpc \in {"write", "link"} => tail[last_thread] \notin freed
      BY <2>1 DEF IInv, TypeOK, ListOK
    <2> QED BY <2>1, <2>2 DEF NoDanglingNode
  <1> QED BY <1>1, Invariance, PTL

\* A worker processes what was dealt to it in that order, once, and what it has
\* not processed is in its list (kstr_mq_queue.c:13-40).
THEOREM Order == Spec => []InOrder
  <1>1. IInv => InOrder
    <2> SUFFICES ASSUME IInv, NEW w \in Worker
                 PROVE  /\ IsPrefix(done[w], dealt[w])
                        /\ \A n \in 1 .. Len(dealt[w]) :
                             n > Len(done[w]) =>
                               next[IF n = 1 THEN Dummy(w) ELSE dealt[w][n - 1]] = dealt[w][n]
      BY DEF InOrder
    <2>1. /\ Len(done[w]) <= Len(dealt[w]) /\ dealt[w] \in Seq(Pkt) /\ done[w] \in Seq(Pkt)
          /\ \A n \in 1 .. Len(done[w]) : done[w][n] = dealt[w][n]
      BY DEF IInv, WorkerOK, TypeOK
    <2>2. IsPrefix(done[w], dealt[w])
      BY <2>1, PrefixOf
    <2>3. ASSUME NEW n \in 1 .. Len(dealt[w])
          PROVE  next[IF n = 1 THEN Dummy(w) ELSE dealt[w][n - 1]] = dealt[w][n]
      <3>1. PICK i \in 0 .. Len(dealt[w]) - 1 : n = i + 1
        BY <2>1
      <3>2. next[At(w, i)] = At(w, i + 1)
        BY <3>1 DEF IInv, ListOK
      <3> QED BY <2>1, <3>1, <3>2 DEF At
    <2> QED BY <2>2, <2>3
  <1> QED BY <1>1, Invariance, PTL

\* The bytes account for the packets: a packet that waits with no byte in the
\* pipe waits because a byte was read too early (kstr_capture.c:38-49,
\* kstr_worker_thread.c:83-102).
THEOREM AllAnnounced == Spec => []Announced
  <1>1. IInv => Announced
    BY DEF IInv
  <1> QED BY <1>1, Invariance, PTL
=============================================================================
