------------------------------- MODULE Embrave -------------------------------
(***************************************************************************)
(* The packet process of testcode/fc (application_main_loop) and the CLI   *)
(* commands that talk to it: `embrave <num>` asks for num generated        *)
(* packets by storing num in shared memory; the packet process generates   *)
(* them into a circular queue, takes one packet per round, has its works   *)
(* called, frees and counts it; `sts clear` zeroes the counters.           *)
(*                                                                         *)
(* A step is one access to memory that both processes use: input_num and   *)
(* the counters (x++ is a load and a store).  The queue is in shared       *)
(* memory too, but only the packet process touches it, so each queue       *)
(* operation is one step.  cvmx_pow_work_request_sync has no return        *)
(* statement; built with -O0 the caller gets what its last call, OutQueue, *)
(* left in the register.                                                   *)
(***************************************************************************)
EXTENDS Integers, Sequences, FiniteSets

CONSTANTS
  MaxSize,           \* slots of the queue (md_embrave.h:6)
  MAX_EMBRAVE_NUM,   \* the most packets one request may ask for
  MaxWorks,          \* the most works called, and counted, for a packet
  Wrap,              \* counters are uint32_t: Wrap = 2^32 in the code
  Unit,              \* the packets malloc may return
  NULL

ASSUME EmbraveAssumption ==
  /\ MaxSize \in Nat \ {0} /\ MAX_EMBRAVE_NUM \in Nat /\ MaxWorks \in Nat
  /\ Wrap \in Nat /\ Wrap > 1
  /\ IsFiniteSet(Unit)
  /\ NULL \notin Unit /\ NULL \notin Int

Slot    == 0 .. MaxSize - 1
Num     == 1 .. MAX_EMBRAVE_NUM
Counter == {"get", "permit", "free"}

VARIABLES
  input_num,        \* gsdata->input_num: packets asked for
  cBuff, in, out, count,   \* gsdata->pQ
  sts,              \* gsdata->sts: the counters that are used
  pc, i,            \* the packet process in cvmx_pow_work_request_sync
  work,             \* the packet it is processing
  todo,             \* the counters it has still to increment for that packet
  reg,              \* a counter's value between load and store
  heap,             \* packets allocated and not yet freed
  clearing,         \* counters a CLI command `sts clear` has still to zero
  late,             \* history: a request arrived while one was being served
  mixed             \* history: a packet and a clear met

pQ    == <<cBuff, in, out, count>>
loop  == <<pc, i>>
pkt   == <<work, todo, reg>>
vars  == <<input_num, pQ, sts, loop, pkt, heap, clearing, late, mixed>>

Init ==
  /\ input_num = 0
  /\ cBuff = [s \in Slot |-> NULL] /\ in = 0 /\ out = 0 /\ count = 0
  /\ sts = [c \in Counter |-> 0]
  /\ pc = "request" /\ i = 0
  /\ work = NULL /\ todo = <<>> /\ reg = NULL
  /\ heap = {} /\ clearing = {}
  /\ late = FALSE /\ mixed = FALSE

-----------------------------------------------------------------------------
(* The CLI.                                                                *)

\* md_embrave_start.  The request replaces one that has not been served.
Start(num) ==
  /\ Cardinality(Unit \ heap) >= MAX_EMBRAVE_NUM   \* bounds the run
  /\ input_num' = num
  /\ late' = (late \/ pc \in {"loop", "clear"})
  /\ UNCHANGED <<pQ, sts, loop, pkt, heap, clearing, mixed>>

\* md_sts_clear: memset zeroes the counters one after the other, in any order
\* the library likes.
ClearBegin ==
  /\ clearing = {}
  /\ clearing' = Counter
  /\ mixed' = (todo # <<>>)
  /\ UNCHANGED <<input_num, pQ, sts, loop, pkt, heap, late>>

\* Mutant: the size given to memset is that of a pointer.
ClearCounter_Short(c) ==
  /\ c \in clearing
  /\ clearing' = clearing \ {c}
  /\ sts' = [sts EXCEPT ![c] = IF c = "free" THEN @ ELSE 0]
  /\ UNCHANGED <<input_num, pQ, loop, pkt, heap, late, mixed>>

ClearCounter(c) ==
  /\ c \in clearing
  /\ clearing' = clearing \ {c}
  /\ sts' = [sts EXCEPT ![c] = 0]
  /\ UNCHANGED <<input_num, pQ, loop, pkt, heap, late, mixed>>

CLI ==
  \/ \E num \in Num : Start(num)
  \/ ClearBegin
  \/ \E c \in Counter : ClearCounter(c)

-----------------------------------------------------------------------------
(* The packet process.                                                     *)

\* Is there a request?
TestNum ==
  /\ pc = "request"
  /\ IF input_num > 0 THEN pc' = "loop" /\ i' = 0
                      ELSE pc' = "out" /\ UNCHANGED i
  /\ late' = FALSE
  /\ UNCHANGED <<input_num, pQ, sts, pkt, heap, clearing, mixed>>

\* Which free packet malloc returns makes no difference.
Malloc == CHOOSE u \in Unit : u \notin heap

\* Mutant: a slot is used again before it is free.
InQueue_NoTest(u) ==
  /\ cBuff' = [cBuff EXCEPT ![in] = u]
  /\ in' = (in + 1) % MaxSize
  /\ count' = IF count = MaxSize THEN count ELSE count + 1
  /\ UNCHANGED out

\* A packet that finds the queue full is neither queued nor freed.
InQueue(u) ==
  IF count = MaxSize
  THEN UNCHANGED pQ
  ELSE /\ cBuff' = [cBuff EXCEPT ![in] = u]
       /\ in' = (in + 1) % MaxSize
       /\ count' = count + 1
       /\ UNCHANGED out

\* Mutant: the loop ends one packet early.
Generate_Short ==
  /\ pc = "loop"
  /\ IF i + 1 < input_num
     THEN /\ InQueue(Malloc)
          /\ heap' = heap \cup {Malloc}
          /\ i' = i + 1
          /\ UNCHANGED pc
     ELSE /\ pc' = "clear"
          /\ UNCHANGED <<pQ, heap, i>>
  /\ UNCHANGED <<input_num, sts, pkt, clearing, late, mixed>>

\* One round of the loop, which reads input_num again each time.
Generate ==
  /\ pc = "loop"
  /\ IF i < input_num
     THEN /\ InQueue(Malloc)
          /\ heap' = heap \cup {Malloc}
          /\ i' = i + 1
          /\ UNCHANGED pc
     ELSE /\ pc' = "clear"
          /\ UNCHANGED <<pQ, heap, i>>
  /\ UNCHANGED <<input_num, sts, pkt, clearing, late, mixed>>

\* The request is done with, and any that arrived meanwhile is lost.
ClearNum ==
  /\ pc = "clear"
  /\ pc' = "out"
  /\ input_num' = 0
  /\ UNCHANGED <<pQ, sts, i, pkt, heap, clearing, late, mixed>>

\* The counters a packet increments when n of its works permit it.
Counters(n) == <<"get">> \o [w \in 1 .. n |-> "permit"] \o <<"free">>

\* Mutant: the newest packet is taken.
OutQueue_Newest ==
  /\ pc = "out"
  /\ IF count = 0
     THEN pc' = "request" /\ UNCHANGED <<pQ, work, todo, mixed>>
     ELSE /\ work' = cBuff[(in + MaxSize - 1) % MaxSize]
          /\ in' = (in + MaxSize - 1) % MaxSize /\ count' = count - 1
          /\ pc' = "count"
          /\ \E n \in 0 .. MaxWorks : todo' = Counters(n)
          /\ mixed' = (mixed \/ clearing # {})
          /\ UNCHANGED <<cBuff, out>>
  /\ UNCHANGED <<input_num, sts, i, reg, heap, clearing, late>>

\* OutQueue, and the return to application_main_loop.
OutQueue ==
  /\ pc = "out"
  /\ IF count = 0
     THEN pc' = "request" /\ UNCHANGED <<pQ, work, todo, mixed>>
     ELSE /\ work' = cBuff[out]
          /\ out' = (out + 1) % MaxSize /\ count' = count - 1
          /\ pc' = "count"
          /\ \E n \in 0 .. MaxWorks : todo' = Counters(n)
          /\ mixed' = (mixed \/ clearing # {})
          /\ UNCHANGED <<cBuff, in>>
  /\ UNCHANGED <<input_num, sts, i, reg, heap, clearing, late>>

\* Mutant: the packet is not freed.
Load_NoFree ==
  /\ pc = "count" /\ reg = NULL
  /\ reg' = sts[Head(todo)]
  /\ UNCHANGED <<input_num, pQ, sts, loop, work, todo, heap, clearing, late, mixed>>

\* md_sts_get_add and the others: the load.  The packet is freed just before
\* the last of them.
Load ==
  /\ pc = "count" /\ reg = NULL
  /\ reg' = sts[Head(todo)]
  /\ heap' = IF Head(todo) = "free" THEN heap \ {work} ELSE heap
  /\ UNCHANGED <<input_num, pQ, sts, loop, work, todo, clearing, late, mixed>>

Store ==
  /\ pc = "count" /\ reg # NULL
  /\ sts' = [sts EXCEPT ![Head(todo)] = (reg + 1) % Wrap]
  /\ reg' = NULL
  /\ todo' = Tail(todo)
  /\ IF Tail(todo) = <<>> THEN pc' = "request" /\ work' = NULL
                          ELSE UNCHANGED <<pc, work>>
  /\ UNCHANGED <<input_num, pQ, i, heap, clearing, late, mixed>>

Process == TestNum \/ Generate \/ ClearNum \/ OutQueue \/ Load \/ Store

Next == CLI \/ Process

\* The packet process runs; nobody need type commands.
Spec == Init /\ [][Next]_vars /\ WF_vars(Process)

-----------------------------------------------------------------------------
TypeOK ==
  /\ input_num \in 0 .. MAX_EMBRAVE_NUM
  /\ cBuff \in [Slot -> Unit \cup {NULL}]
  /\ in \in Slot /\ out \in Slot /\ count \in 0 .. MaxSize
  /\ sts \in [Counter -> 0 .. Wrap - 1]
  /\ pc \in {"request", "loop", "clear", "out", "count"}
  /\ i \in 0 .. MAX_EMBRAVE_NUM
  /\ work \in Unit \cup {NULL}
  /\ reg \in (0 .. Wrap - 1) \cup {NULL}
  /\ heap \subseteq Unit /\ clearing \subseteq Counter
  /\ late \in BOOLEAN /\ mixed \in BOOLEAN

\* The packet k places behind the oldest one.
Queued(k) == cBuff[(out + k) % MaxSize]
InUse     == {Queued(k) : k \in 0 .. count - 1}

\* A packet is being processed as long as there are counters to increment for
\* it, the last of which, and only that, is "free", and only the first "get".
Counting ==
  /\ (pc = "count") <=> (work # NULL)
  /\ todo \in Seq(Counter) /\ (pc = "count" <=> todo # <<>>)
  /\ \A k \in 1 .. Len(todo) : todo[k] = "free" <=> k = Len(todo)
  /\ \A k \in 2 .. Len(todo) : todo[k] # "get"
  /\ pc # "count" => reg = NULL

\* The queue's indices and its count agree, and the packets in it are allocated,
\* all different, and not the one being processed.
QueueOK ==
  /\ in = (out + count) % MaxSize
  /\ \A k \in 0 .. count - 1 :
       /\ Queued(k) \in heap /\ Queued(k) # work
       /\ \A j \in 0 .. count - 1 : Queued(j) = Queued(k) => j = k

\* The packet being processed is freed once, at the very end.
WorkOK ==
  pc = "count" => (work \in heap <=> ~ (Head(todo) = "free" /\ reg # NULL))

\* malloc finds a packet for all that has been asked for.
Enough ==
  pc # "clear" =>
    Cardinality(Unit \ heap) >= input_num - (IF pc = "loop" THEN i ELSE 0)

\* A request that nothing has met is not served beyond its number.
NotBeyond == pc = "loop" /\ ~ late => i <= input_num

\* A request that is being served is served in full, unless another one arrives
\* meanwhile (md_embrave.c:79 then forgets the later one).  One that is overwritten
\* before the packet process has seen it is not served at all, and not meant here.
WholeUnlessLate == pc = "clear" /\ ~ late => i = input_num

\* Where a packet stands in the counters, and a clear that meets none.
Balance ==
  ~ mixed =>
    /\ clearing # {} => todo = <<>> /\ \A c \in Counter \ clearing : sts[c] = 0
    /\ clearing = {} =>
         /\ reg # NULL => reg = sts[Head(todo)]
         /\ sts["get"] = IF todo # <<>> /\ Head(todo) # "get"
                         THEN (sts["free"] + 1) % Wrap ELSE sts["free"]

\* No packet is queued twice, used after it was freed, or freed twice, over any
\* sequence of requests, overflows and rounds.
IInv ==
  /\ TypeOK /\ Counting /\ QueueOK /\ WorkOK /\ Enough /\ NotBeyond
  /\ WholeUnlessLate /\ Balance

\* As many packets were counted in as were counted out, but for the one being
\* processed, unless `sts clear` met a packet: then the counters may stay apart
\* until the next clear.
BalancedUnlessMixed ==
  ~ mixed /\ clearing = {} =>
    (sts["get"] - sts["free"]) % Wrap
      = IF todo # <<>> /\ Head(todo) # "get" THEN 1 ELSE 0

\* Memory that nothing refers to any more.
Leaked == heap \ (InUse \cup {work})

\* A packet is leaked only when the queue overflows (md_embrave.c:34).
LeaksOnlyWhenFull == [][Leaked' # Leaked => count = MaxSize]_vars

\* Every packet in the queue is processed in the end, whatever else is requested.
Drains == \A u \in Unit : (u \in InUse) ~> (u \notin InUse)
=============================================================================
