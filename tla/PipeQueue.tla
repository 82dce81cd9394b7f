------------------------------ MODULE PipeQueue ------------------------------
(***************************************************************************)
(* The event-driven variant of the pipeline                                *)
(* (testcode/pcap-event/pcap-event-pipe-queue): the capture thread deals   *)
(* packets to workers through linked queues, and wakes a worker by a byte  *)
(* written to its pipe, on which the worker's event loop waits.  The byte  *)
(* is written BEFORE the packet is enqueued.                               *)
(*                                                                         *)
(* A queue is a list of nodes behind a dummy; `q_t_lock` is only taken by  *)
(* the capture thread and `q_h_lock` only by the worker of the queue, so   *)
(* that neither is ever waited for and they are left out.  `count` is only *)
(* read by destory_queue, which nothing calls.                             *)
(***************************************************************************)
EXTENDS Naturals, Sequences, SequencesExt

CONSTANTS
  nthreads,   \* number of workers (kstr_capture.c:6)
  PipeCap,    \* bytes a pipe holds: a write to a full pipe blocks
  MaxPkt,     \* bound: packets captured
  NULL

Worker == 0 .. nthreads - 1
Pkt    == 1 .. MaxPkt             \* a packet, and the node that carries it
Dummy(w) == MaxPkt + 1 + w        \* the node of initialize_queue
Node   == Pkt \cup {Dummy(w) : w \in Worker}

ASSUME PipeQueueAssumption ==
  /\ nthreads \in Nat \ {0} /\ PipeCap \in Nat \ {0} /\ MaxPkt \in Nat
  /\ NULL \notin Nat

VARIABLES
  next,         \* next[n]: the link of node n
  freed,        \* nodes given back to the allocator
  head, tail,   \* head[w], tail[w]: of the queue of worker w
  pipe,         \* pipe[w]: bytes in the pipe of worker w
  cpc,          \* where the capture thread is
  cur,          \* the last packet captured
  last_thread,  \* the worker it is dealt to
  wpc,          \* where each worker is
  new_head,     \* the local of dequeue
  dealt, done,  \* history: packets linked into the queue; processed by worker
  missed        \* history: bytes read when the queue was empty

capture == <<cpc, cur, last_thread>>
worker  == <<wpc, new_head>>
history == <<dealt, done, missed>>
vars == <<next, freed, head, tail, pipe, capture, worker, history>>

Init ==
  /\ next = [n \in Node |-> NULL] /\ freed = {}
  /\ head = [w \in Worker |-> Dummy(w)] /\ tail = head
  /\ pipe = [w \in Worker |-> 0]
  /\ cpc = "idle" /\ cur = 0 /\ last_thread = 0
  /\ wpc = [w \in Worker |-> "wait"] /\ new_head = [w \in Worker |-> NULL]
  /\ dealt = [w \in Worker |-> <<>>] /\ done = dealt
  /\ missed = [w \in Worker |-> 0]

-----------------------------------------------------------------------------
(* get_packet_callback.  Packets of less than 10 bytes are ignored.        *)

Arrive ==
  /\ cpc = "idle" /\ cpc' = "write"
  /\ cur < MaxPkt /\ cur' = cur + 1
  /\ last_thread' = (last_thread + 1) % nthreads
  /\ UNCHANGED <<next, freed, head, tail, pipe, worker, history>>

\* Mutant: two bytes are written for a packet.
WriteByte_Two ==
  /\ cpc = "write" /\ cpc' = "link"
  /\ pipe[last_thread] < PipeCap
  /\ pipe' = [pipe EXCEPT ![last_thread] = @ + 2]
  /\ UNCHANGED <<next, freed, head, tail, cur, last_thread, worker, history>>

WriteByte ==
  /\ cpc = "write" /\ cpc' = "link"
  /\ pipe[last_thread] < PipeCap
  /\ pipe' = [pipe EXCEPT ![last_thread] = @ + 1]
  /\ UNCHANGED <<next, freed, head, tail, cur, last_thread, worker, history>>

\* Mutant: the packet is put in front of the others.
Link_Front ==
  LET w == last_thread IN
  /\ cpc = "link" /\ cpc' = "swing"
  /\ next' = [next EXCEPT ![head[w]] = cur, ![cur] = next[head[w]]]
  /\ dealt' = [dealt EXCEPT ![w] = Append(@, cur)]
  /\ UNCHANGED <<freed, head, tail, pipe, cur, last_thread, worker, done, missed>>

\* enqueue: link the node at the end...
Link ==
  LET w == last_thread IN
  /\ cpc = "link" /\ cpc' = "swing"
  /\ next' = [next EXCEPT ![tail[w]] = cur]
  /\ dealt' = [dealt EXCEPT ![w] = Append(@, cur)]
  /\ UNCHANGED <<freed, head, tail, pipe, cur, last_thread, worker, done, missed>>

\* Mutant: the tail stays at the node before.
Swing_Stays ==
  /\ cpc = "swing" /\ cpc' = "idle"
  /\ UNCHANGED <<next, freed, head, tail, pipe, cur, last_thread, worker, history>>

\* ...and swing the tail to it.  The worker may run in between.
Swing ==
  /\ cpc = "swing" /\ cpc' = "idle"
  /\ tail' = [tail EXCEPT ![last_thread] = cur]
  /\ UNCHANGED <<next, freed, head, pipe, cur, last_thread, worker, history>>

CaptureStep == WriteByte \/ Link \/ Swing

-----------------------------------------------------------------------------
(* thread_libevent_process, called when the pipe is readable.              *)

GotoW(w, from, to) == wpc[w] = from /\ wpc' = [wpc EXCEPT ![w] = to]

ReadByte(w) ==
  /\ GotoW(w, "wait", "next")
  /\ pipe[w] > 0 /\ pipe' = [pipe EXCEPT ![w] = @ - 1]
  /\ UNCHANGED <<next, freed, head, tail, capture, new_head, history>>

\* dequeue: an empty queue is not an error, but the byte has been read.
QueueEmpty(w) ==
  /\ next[head[w]] = NULL
  /\ GotoW(w, "next", "wait")
  /\ missed' = [missed EXCEPT ![w] = @ + 1]
  /\ UNCHANGED <<next, freed, head, tail, pipe, capture, new_head, dealt, done>>

ReadNext(w) ==
  /\ next[head[w]] # NULL
  /\ GotoW(w, "next", "take")
  /\ new_head' = [new_head EXCEPT ![w] = next[head[w]]]
  /\ UNCHANGED <<next, freed, head, tail, pipe, capture, history>>

\* Mutant: the new head is freed instead of the old one.
Take_FreesNew(w) ==
  /\ GotoW(w, "take", "wait")
  /\ head' = [head EXCEPT ![w] = new_head[w]]
  /\ freed' = freed \cup {new_head[w]}
  /\ done' = [done EXCEPT ![w] = Append(@, new_head[w])]
  /\ UNCHANGED <<next, tail, pipe, capture, new_head, dealt, missed>>

\* Mutant: the packet is processed, but stays in the queue.
Take_Stays(w) ==
  /\ GotoW(w, "take", "wait")
  /\ done' = [done EXCEPT ![w] = Append(@, new_head[w])]
  /\ UNCHANGED <<next, freed, head, tail, pipe, capture, new_head, dealt, missed>>

\* Mutant: the event is not persistent, the worker handles one byte only.
Take_Once(w) ==
  /\ GotoW(w, "take", "off")
  /\ head' = [head EXCEPT ![w] = new_head[w]]
  /\ freed' = freed \cup {head[w]}
  /\ done' = [done EXCEPT ![w] = Append(@, new_head[w])]
  /\ UNCHANGED <<next, tail, pipe, capture, new_head, dealt, missed>>

\* The old head is freed, the packet processed; the new head is the dummy now.
Take(w) ==
  /\ GotoW(w, "take", "wait")
  /\ head' = [head EXCEPT ![w] = new_head[w]]
  /\ freed' = freed \cup {head[w]}
  /\ done' = [done EXCEPT ![w] = Append(@, new_head[w])]
  /\ UNCHANGED <<next, tail, pipe, capture, new_head, dealt, missed>>

WorkerStep(w) == ReadByte(w) \/ QueueEmpty(w) \/ ReadNext(w) \/ Take(w)

Next == Arrive \/ CaptureStep \/ \E w \in Worker : WorkerStep(w)

Spec == Init /\ [][Next]_vars

\* Threads that can run do run.  Nothing makes packets arrive.
FairSpec == Spec /\ WF_vars(CaptureStep) /\ \A w \in Worker : WF_vars(WorkerStep(w))

-----------------------------------------------------------------------------
TypeOK ==
  /\ next \in [Node -> Pkt \cup {NULL}] /\ freed \subseteq Node
  /\ head \in [Worker -> Node] /\ tail \in [Worker -> Node]
  /\ pipe \in [Worker -> 0 .. PipeCap]
  /\ cpc \in {"idle", "write", "link", "swing"}
  /\ cur \in 0 .. MaxPkt /\ last_thread \in Worker
  /\ wpc \in [Worker -> {"wait", "next", "take"}]
  /\ new_head \in [Worker -> Pkt \cup {NULL}]
  /\ dealt \in [Worker -> Seq(Pkt)] /\ done \in [Worker -> Seq(Pkt)]
  /\ missed \in [Worker -> Nat]

\* The capture thread and the worker hold different locks; still neither uses a
\* node the other has freed, although the worker may free the very node the
\* tail points to (kstr_mq_queue.c:18-19, 27-38).
NoDanglingNode ==
  /\ cpc \in {"write", "link"} => tail[last_thread] \notin freed
  /\ \A w \in Worker : wpc[w] \in {"wait", "next"} => head[w] \notin freed
  /\ \A w \in Worker : wpc[w] = "take" => {head[w], new_head[w]} \cap freed = {}

\* A worker processes its packets in the order they were dealt, each once, and
\* none is lost from the queue (kstr_mq_queue.c:13-40).
InOrder ==
  \A w \in Worker :
    /\ IsPrefix(done[w], dealt[w])
    /\ \A n \in 1 .. Len(dealt[w]) :
         n > Len(done[w]) =>
           next[IF n = 1 THEN Dummy(w) ELSE dealt[w][n - 1]] = dealt[w][n]

\* The byte worker w has read and not dealt with yet; the byte written for the
\* packet that is about to be linked into its queue.
InHand(w)  == IF wpc[w] = "wait" THEN 0 ELSE 1
TooSoon(w) == IF cpc = "link" /\ last_thread = w THEN 1 ELSE 0

\* The bytes written account for the packets: those that wait in a queue with
\* no byte to announce them are as many as the bytes read too early
\* (kstr_capture.c:38-49, kstr_worker_thread.c:83-102).
Announced ==
  \A w \in Worker :
    pipe[w] + InHand(w) + Len(done[w]) + missed[w] = Len(dealt[w]) + TooSoon(w)

\* Why: where the nodes are.  The list of worker w begins with the dummy; node n
\* of it, once linked, is the n-th packet dealt to w.
At(w, n) == IF n = 0 THEN Dummy(w) ELSE dealt[w][n]

\* Packets that are in no list, and the one that is about to be linked.
Unlinked(p) == p > cur \/ (p = cur /\ cpc \in {"write", "link"})

\* No node is in two places.
Distinct ==
  /\ \A v, w \in Worker : \A m \in 0 .. Len(dealt[v]), n \in 0 .. Len(dealt[w]) :
       At(v, m) = At(w, n) => v = w /\ m = n
  /\ \A w \in Worker : \A n \in 1 .. Len(dealt[w]) : ~ Unlinked(dealt[w][n])

\* The list of worker w: linked up to its last node, entered at the packet
\* processed last, and not freed from there on.
ListOK(w) ==
  /\ \A n \in 0 .. Len(dealt[w]) - 1 : next[At(w, n)] = At(w, n + 1)
  /\ next[At(w, Len(dealt[w]))] = NULL
  /\ head[w] = At(w, Len(done[w]))
  /\ tail[w] = At(w, IF cpc = "swing" /\ last_thread = w
                     THEN Len(dealt[w]) - 1 ELSE Len(dealt[w]))
  /\ \A n \in Len(done[w]) .. Len(dealt[w]) : At(w, n) \notin freed

\* What the worker has processed, and what it is about to take.
WorkerOK(w) ==
  /\ Len(done[w]) <= Len(dealt[w])
  /\ \A n \in 1 .. Len(done[w]) : done[w][n] = dealt[w][n]
  /\ wpc[w] = "take" =>
       Len(done[w]) < Len(dealt[w]) /\ new_head[w] = At(w, Len(done[w]) + 1)

\* The packet the callback is at.
CaptureOK ==
  /\ cpc # "idle" => cur \in Pkt
  /\ cpc = "swing" =>
       dealt[last_thread] # <<>> /\ At(last_thread, Len(dealt[last_thread])) = cur
  /\ \A p \in Pkt : Unlinked(p) => next[p] = NULL /\ p \notin freed

\* The inductive invariant: it implies NoDanglingNode and InOrder.
IInv ==
  /\ TypeOK /\ Distinct /\ CaptureOK /\ Announced
  /\ \A w \in Worker : ListOK(w) /\ WorkerOK(w)

\* A full pipe does not stop the capture thread for ever: the worker empties it.
CaptureGoesOn == cpc # "idle" ~> cpc = "idle"

\* A packet that has been dealt is processed, unless its worker once read a byte
\* too early.
ProcessedUnlessMissed ==
  \A w \in Worker, p \in Pkt :
    p \in ToSet(dealt[w]) ~> p \in ToSet(done[w]) \/ missed[w] > 0

\* Each thread's event loop reads "the data dispatched from the main thread"
\* (kstr_worker_thread.c:35): every packet dealt is processed.  In the code the
\* byte may be read before the packet is enqueued, and then nothing announces
\* the packet.
Processed ==
  \A w \in Worker, p \in Pkt : p \in ToSet(dealt[w]) ~> p \in ToSet(done[w])

=============================================================================
