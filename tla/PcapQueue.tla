------------------------------ MODULE PcapQueue ------------------------------
(***************************************************************************)
(* The packet pipeline of testcode/pcap-event/pcap-queue, as built with    *)
(* USE_MSG_RING = 1.  One capture thread receives packets from libpcap;    *)
(* `nthreads` workers process them.  All packet buffers are allocated      *)
(* once, in pkt_cap, and circulate by pointer through rings:               *)
(*                                                                         *)
(*   pool ring --capture--> ring of worker tid --worker tid--> pool ring   *)
(*                                                                         *)
(* Every thread takes from exactly one ring, so a ring is named by the     *)
(* thread that takes from it: ring Capture is the pool (tparam.msgr) and   *)
(* ring w is threads[w].msgr.  `enring` runs under the lock of the ring;   *)
(* `dering` takes no lock at all.                                          *)
(*                                                                         *)
(* A step is one access to shared memory.  The program is compiled with    *)
(* -O0 and runs on x86, where stores become visible in program order.      *)
(***************************************************************************)
EXTENDS RingIndex

CONSTANTS
  nthreads,     \* number of workers (kstr_capture.c:7)
  PcapSize,     \* KSTR_PCAP_RING_SIZE: slots of the pool
  nbuf,         \* buffers allocated by pkt_cap: PcapSize, or 0 if calloc fails
  WorkerSize,   \* KSRT_WORKER_RING_SIZE: slots of a worker's ring
  Pkt,          \* contents a captured packet may have
  Capture,      \* the capture thread
  NULL

Worker == 0 .. nthreads - 1
Thread == Worker \cup {Capture}
Buf    == 0 .. nbuf - 1          \* pkt + i, kstr_capture.c:106-111

Size(r) == IF r = Capture THEN PcapSize ELSE WorkerSize

ASSUME PcapQueueAssumption ==
  /\ nthreads \in Nat \ {0}
  /\ PcapSize \in Nat \ {0} /\ WorkerSize \in Nat \ {0}
  /\ nbuf \in 0 .. PcapSize
  /\ PcapSize < Wrap /\ Wrap % PcapSize = 0
  /\ WorkerSize < Wrap /\ Wrap % WorkerSize = 0
  /\ Capture \notin Int
  /\ NULL \notin Int /\ NULL # Capture /\ NULL \notin Pkt

VARIABLES
  idx_buff,     \* idx_buff[r]: slots of ring r
  in, out,      \* in[r], out[r]: the counters of ring r
  lock,         \* lock[r]: the thread inside enring(r, _), or NULL
  hdr,          \* hdr[b]: fields r and packet of buffer b
  pc,           \* where each thread is
  enc,          \* the local `enc` of each thread
  dst,          \* the ring argument of the enring call each thread is making
  pkt,          \* the packet libpcap handed to the callback
  last_thread   \* tparam->last_thread

rings == <<idx_buff, in, out, lock>>
vars  == <<idx_buff, in, out, lock, hdr, pc, enc, dst, pkt, last_thread>>

Empty(r) == in[r] = out[r]

\* Mutant: the test for a full ring is off by one.
Full_OffByOne(r) == Dist(in[r], out[r]) = Size(r) + 1

Full(r) == Dist(in[r], out[r]) = Size(r)

Goto(t, from, to) == pc[t] = from /\ pc' = [pc EXCEPT ![t] = to]

-----------------------------------------------------------------------------
\* pkt_cap has filled the pool; no packet has arrived yet.
Init ==
  /\ idx_buff = [r \in Thread |-> [s \in 0 .. Size(r) - 1 |->
                   IF r = Capture /\ s \in Buf THEN s ELSE NULL]]
  /\ in = [r \in Thread |-> IF r = Capture THEN nbuf ELSE 0]
  /\ out = [r \in Thread |-> 0]
  /\ lock = [r \in Thread |-> NULL]
  /\ hdr = [b \in Buf |-> [r |-> NULL, packet |-> NULL]]
  /\ pc = [t \in Thread |-> "idle"]
  /\ enc = [t \in Thread |-> NULL]
  /\ dst = [t \in Thread |-> NULL]
  /\ pkt = NULL
  /\ last_thread = 0

-----------------------------------------------------------------------------
(* dering(ring t): test, read the slot, advance `out`.                     *)

\* Mutant: takes the newest element.
DeringTake_Newest(t) ==
  /\ Goto(t, "take", "advance")
  /\ enc' = [enc EXCEPT ![t] = idx_buff[t][Slot(in[t] + Wrap - 1, Size(t))]]
  /\ UNCHANGED <<rings, hdr, dst, pkt, last_thread>>

DeringTake(t) ==
  /\ Goto(t, "take", "advance")
  /\ enc' = [enc EXCEPT ![t] = idx_buff[t][Slot(out[t], Size(t))]]
  /\ UNCHANGED <<rings, hdr, dst, pkt, last_thread>>

\* Mutant: a worker does not advance `out`.
DeringAdvance_Stays(t) ==
  /\ Goto(t, "advance", IF t = Capture THEN "memset" ELSE "enring")
  /\ out' = IF t = Capture THEN [out EXCEPT ![t] = Inc(@)] ELSE out
  /\ dst' = IF t = Capture THEN dst
            ELSE [dst EXCEPT ![t] = hdr[enc[t]].r]
  /\ UNCHANGED <<idx_buff, in, lock, hdr, enc, pkt, last_thread>>

\* A worker goes on to enring(enc->r, enc); the capture thread fills enc.
DeringAdvance(t) ==
  /\ Goto(t, "advance", IF t = Capture THEN "memset" ELSE "enring")
  /\ out' = [out EXCEPT ![t] = Inc(@)]
  /\ dst' = IF t = Capture THEN dst
            ELSE [dst EXCEPT ![t] = hdr[enc[t]].r]
  /\ UNCHANGED <<idx_buff, in, lock, hdr, enc, pkt, last_thread>>

(* enring(ring dst[t], enc[t]): lock and test, store, advance `in` and     *)
(* unlock.                                                                 *)

\* Mutant: enring without the lock.
EnringLock_NoLock(t) ==
  /\ dst[t] # NULL
  /\ ~ Full(dst[t])
  /\ Goto(t, "enring", "store")
  /\ UNCHANGED <<rings, hdr, enc, dst, pkt, last_thread>>

EnringLock(t) ==
  /\ dst[t] # NULL
  /\ lock[dst[t]] = NULL
  /\ ~ Full(dst[t])
  /\ Goto(t, "enring", "store")
  /\ lock' = [lock EXCEPT ![dst[t]] = t]
  /\ UNCHANGED <<idx_buff, in, out, hdr, enc, dst, pkt, last_thread>>

EnringStore(t) ==
  /\ Goto(t, "store", "commit")
  /\ idx_buff' = [idx_buff EXCEPT ![dst[t]][Slot(in[dst[t]], Size(dst[t]))] = enc[t]]
  /\ UNCHANGED <<in, out, lock, hdr, enc, dst, pkt, last_thread>>

\* The locals of thread t go out of scope.
Finish(t) ==
  /\ enc' = [enc EXCEPT ![t] = NULL]
  /\ dst' = [dst EXCEPT ![t] = NULL]
  /\ pkt' = IF t = Capture THEN NULL ELSE pkt

EnringCommit(t) ==
  /\ Goto(t, "commit", "idle")
  /\ in' = [in EXCEPT ![dst[t]] = Inc(@)]
  /\ lock' = [lock EXCEPT ![dst[t]] = NULL]
  /\ Finish(t)
  /\ UNCHANGED <<idx_buff, out, hdr, last_thread>>

\* Mutant: the early return of enring forgets to unlock.
EnringFull_KeepsLock(t) ==
  /\ pc[t] = "enring" /\ dst[t] # NULL
  /\ lock[dst[t]] = NULL /\ Full(dst[t])
  /\ lock' = [lock EXCEPT ![dst[t]] = t]
  /\ IF dst[t] = Capture
     THEN pc' = [pc EXCEPT ![t] = "idle"] /\ Finish(t)
     ELSE dst' = [dst EXCEPT ![t] = Capture] /\ UNCHANGED <<pc, enc, pkt>>
  /\ UNCHANGED <<idx_buff, in, out, hdr, last_thread>>

\* enring found the ring full.  If it was a worker's, the capture thread takes
\* the buffer back to the pool; if it was the pool, a message is printed and the
\* buffer forgotten.
EnringFull(t) ==
  /\ pc[t] = "enring" /\ dst[t] # NULL
  /\ lock[dst[t]] = NULL /\ Full(dst[t])
  /\ IF dst[t] = Capture
     THEN pc' = [pc EXCEPT ![t] = "idle"] /\ Finish(t)
     ELSE dst' = [dst EXCEPT ![t] = Capture] /\ UNCHANGED <<pc, enc, pkt>>
  /\ UNCHANGED <<rings, hdr, last_thread>>

Ring(t) ==
  \/ DeringTake(t) \/ DeringAdvance(t)
  \/ EnringLock(t) \/ EnringStore(t) \/ EnringCommit(t)
  \/ EnringFull(t)

-----------------------------------------------------------------------------
(* get_packet_callback.  A packet whose caplen is not within 10 .. 2000    *)
(* returns at once and changes nothing, so packets here have such a length.*)

PacketDropped ==
  /\ pc[Capture] = "idle"
  /\ Empty(Capture)
  /\ last_thread' = (last_thread + 1) % nthreads
  /\ UNCHANGED <<rings, hdr, pc, enc, dst, pkt>>

\* Mutant: tparam->last_thread is not stored.
PacketAccepted_SameTurn(p) ==
  /\ ~ Empty(Capture)
  /\ Goto(Capture, "idle", "take")
  /\ pkt' = p
  /\ UNCHANGED <<rings, hdr, enc, dst, last_thread>>

PacketAccepted(p) ==
  /\ ~ Empty(Capture)
  /\ Goto(Capture, "idle", "take")
  /\ last_thread' = (last_thread + 1) % nthreads
  /\ pkt' = p
  /\ UNCHANGED <<rings, hdr, enc, dst>>

Memset ==
  /\ Goto(Capture, "memset", "fill")
  /\ hdr' = [hdr EXCEPT ![enc[Capture]] = [r |-> NULL, packet |-> NULL]]
  /\ UNCHANGED <<rings, enc, dst, pkt, last_thread>>

\* Mutant: enc->r is not set.
Fill_NoRing ==
  /\ Goto(Capture, "fill", "enring")
  /\ hdr' = [hdr EXCEPT ![enc[Capture]].packet = pkt]
  /\ dst' = [dst EXCEPT ![Capture] = last_thread]
  /\ UNCHANGED <<rings, enc, pkt, last_thread>>

Fill ==
  /\ Goto(Capture, "fill", "enring")
  /\ hdr' = [hdr EXCEPT ![enc[Capture]] = [r |-> Capture, packet |-> pkt]]
  /\ dst' = [dst EXCEPT ![Capture] = last_thread]
  /\ UNCHANGED <<rings, enc, pkt, last_thread>>

Callback == Memset \/ Fill

\* worker_func: an empty ring means usleep(1) and another poll.
WorkerPoll(w) ==
  /\ ~ Empty(w)
  /\ Goto(w, "idle", "take")
  /\ UNCHANGED <<rings, hdr, enc, dst, pkt, last_thread>>

Next ==
  \/ PacketDropped
  \/ \E p \in Pkt : PacketAccepted(p)
  \/ Callback
  \/ \E w \in Worker : WorkerPoll(w)
  \/ \E t \in Thread : Ring(t)

(***************************************************************************)
(* Threads run; packets need not arrive.  A thread waiting for the mutex   *)
(* of a ring gets it if the mutex is free again and again (strong fairness *)
(* of EnringLock): the critical section is three statements long and the   *)
(* futex wakes waiters.                                                    *)
(***************************************************************************)
Fairness ==
  /\ WF_vars(Callback)
  /\ \A w \in Worker : WF_vars(WorkerPoll(w))
  /\ \A t \in Thread : WF_vars(Ring(t)) /\ SF_vars(EnringLock(t))

Spec     == Init /\ [][Next]_vars
FairSpec == Spec /\ Fairness

-----------------------------------------------------------------------------
TypeOK ==
  /\ idx_buff = [r \in Thread |-> idx_buff[r]]
  /\ \A r \in Thread : idx_buff[r] \in [0 .. Size(r) - 1 -> Buf \cup {NULL}]
  /\ in \in [Thread -> Counter] /\ out \in [Thread -> Counter]
  /\ lock \in [Thread -> Thread \cup {NULL}]
  /\ hdr \in [Buf -> [r : {NULL, Capture}, packet : Pkt \cup {NULL}]]
  /\ pc \in [Thread -> {"idle", "take", "advance", "memset", "fill",
                        "enring", "store", "commit"}]
  /\ enc \in [Thread -> Buf \cup {NULL}]
  /\ dst \in [Thread -> Thread \cup {NULL}]
  /\ pkt \in Pkt \cup {NULL}
  /\ last_thread \in Worker

\* The buffer queued in ring r under counter value x.
Queued(r, x) == idx_buff[r][Slot(x, Size(r))]

\* Thread t owns enc[t] once `out` has moved past it and until `in` has moved
\* past it.
Holding(t) == pc[t] \in {"memset", "fill", "enring", "store", "commit"}

\* Where buffer b is: pairs <<ring, counter value>> and <<thread, NULL>>.
Places(b) ==
  (UNION {{<<r, x>> : x \in {y \in Window(in[r], out[r]) : Queued(r, y) = b}} : r \in Thread})
    \cup {<<t, NULL>> : t \in {u \in Thread : Holding(u) /\ enc[u] = b}}

\* No buffer is ever leaked or shared: each one is queued once in one ring or
\* owned by one thread.  (enring and dering move buffers by pointer; nothing
\* else in the code would notice a lost or a doubled one.)
BufferConservation ==
  \A b \in Buf : \E p \in Places(b) : Places(b) = {p}

\* Whoever returns a buffer finds room in the pool: the code's messages "pcap
\* enring again failed" and "worker enring failed" are never printed.
PoolHasRoom ==
  \A t \in Thread : pc[t] = "enring" /\ dst[t] = Capture => ~ Full(Capture)

\* A worker that took a buffer finds in it the ring to return it to and a
\* packet: the capture thread completed both before the worker could see it.
HeaderComplete ==
  \A w \in Worker : Holding(w) =>
    dst[w] = Capture /\ hdr[enc[w]].r = Capture /\ hdr[enc[w]].packet \in Pkt

-----------------------------------------------------------------------------
(* Why it works, thread by thread and ring by ring: an inductive invariant *)
(* that implies BufferConservation, PoolHasRoom and HeaderComplete.        *)

Win(r) == Window(in[r], out[r])

\* A header the capture thread has completed.
Complete(b) == hdr[b].r = Capture /\ hdr[b].packet \in Pkt

\* The locals of each thread agree with where it is.
LocalsOK ==
  \A t \in Thread :
    /\ pc[t] \in {"take", "advance"} => ~ Empty(t)
    /\ pc[t] = "advance" => enc[t] = Queued(t, out[t])
    /\ Holding(t) => enc[t] \in Buf
    /\ pc[t] \in {"enring", "store", "commit"} => dst[t] \in Thread /\ Complete(enc[t])
    /\ t \in Worker => pc[t] \notin {"memset", "fill"}
    /\ t \in Worker /\ Holding(t) => dst[t] = Capture
    /\ t = Capture /\ pc[t] # "idle" => pkt \in Pkt

\* A thread between the test and the update of `in` has the lock of its ring,
\* room in it and, once stored, its buffer just behind the queued ones.
LockOK ==
  \A t \in Thread : pc[t] \in {"store", "commit"} =>
    /\ lock[dst[t]] = t
    /\ Dist(in[dst[t]], out[dst[t]]) < Size(dst[t])
    /\ pc[t] = "commit" => Queued(dst[t], in[dst[t]]) = enc[t]

\* Rings hold no more than their size, and only buffers; those in a worker's
\* ring are complete.
RingsOK ==
  \A r \in Thread :
    /\ Dist(in[r], out[r]) <= Size(r)
    /\ \A x \in Win(r) : Queued(r, x) \in Buf
    /\ r \in Worker => \A x \in Win(r) : Complete(Queued(r, x))

\* No buffer is in two places.
Unshared ==
  /\ \A r, s \in Thread : \A x \in Win(r), y \in Win(s) :
       Queued(r, x) = Queued(s, y) => r = s /\ x = y
  /\ \A r, t \in Thread : \A x \in Win(r) : Holding(t) => Queued(r, x) # enc[t]
  /\ \A t, u \in Thread :
       Holding(t) /\ Holding(u) /\ enc[t] = enc[u] => t = u

\* Every buffer is somewhere.
NotLeaked ==
  \A b \in Buf : \/ \E r \in Thread : \E x \in Win(r) : Queued(r, x) = b
                 \/ \E t \in Thread : Holding(t) /\ enc[t] = b

\* The inductive invariant: types, locals, locks, rings, and the two halves of
\* buffer conservation.
IInv == TypeOK /\ LocalsOK /\ LockOK /\ RingsOK /\ Unshared /\ NotLeaked

-----------------------------------------------------------------------------
(* The pipeline implements PacketPool.                                     *)

QueueOf(w) ==
  [i \in 1 .. Dist(in[w], out[w]) |->
     hdr[Queued(w, (out[w] + i - 1) % Wrap)].packet]

CaptureState ==
  CASE pc[Capture] \in {"take", "advance"} ->
         [at |-> "arrived", packet |-> pkt]
    [] pc[Capture] \in {"memset", "fill"} \/ dst[Capture] \in Worker ->
         [at |-> "dealing", packet |-> pkt]
    [] dst[Capture] = Capture -> [at |-> "returning", packet |-> NULL]
    [] OTHER -> [at |-> "idle", packet |-> NULL]

Abstract == INSTANCE PacketPool WITH
  Stock    <- nbuf,
  Capacity <- WorkerSize,
  free     <- Dist(in[Capture], out[Capture]),
  turn     <- last_thread,
  capture  <- CaptureState,
  fifo     <- [w \in Worker |-> QueueOf(w)],
  hand     <- [w \in Worker |-> IF Holding(w) THEN hdr[enc[w]].packet ELSE NULL]

\* The capture thread has no ring until it fills a buffer; it deals the packet it was
\* given, to the worker whose turn it is.  (Used to prove the next property.)
CaptureOK ==
  LET t == Capture IN
  /\ pc[t] \in {"idle", "take", "advance", "memset", "fill"} => dst[t] = NULL
  /\ dst[t] \in Worker => dst[t] = last_thread /\ hdr[enc[t]].packet = pkt

\* Packets are dealt in turn, dropped only for want of a buffer or of room,
\* delivered intact, once and in order, and every buffer comes back.
ImplementsPool == Abstract!Spec

\* The same with the progress PacketPool promises.
ImplementsFairPool == Abstract!FairSpec

\* A buffer that left the pool comes back, whatever happens to its packet.
BufferReturns ==
  \A b \in Buf :
    (\E t \in Thread : Holding(t) /\ enc[t] = b)
      ~> (\E x \in Window(in[Capture], out[Capture]) : Queued(Capture, x) = b)
=============================================================================
