------------------------------ MODULE PacketPool ------------------------------
(***************************************************************************)
(* What the packet pipeline of pcap-queue promises, without rings, slots   *)
(* or locks: a fixed stock of buffers, one bounded FIFO per worker, and    *)
(* packets dealt to the workers in turn.  A packet that finds no buffer,   *)
(* or whose worker's FIFO is full, is dropped; every other packet is taken *)
(* once, in order, by the worker it was dealt to, and its buffer returns   *)
(* to the stock.                                                           *)
(***************************************************************************)
EXTENDS Naturals, Sequences

CONSTANTS
  nthreads,     \* number of workers
  Stock,        \* number of buffers
  Capacity,     \* capacity of a worker's FIFO
  Pkt,          \* packets
  NULL

Worker == 0 .. nthreads - 1

VARIABLES
  free,      \* buffers in stock
  turn,      \* the worker the last packet was dealt to
  capture,   \* what the capture thread is doing, and with which packet
  fifo,      \* fifo[w]: packets waiting for worker w
  hand       \* hand[w]: the packet worker w is processing, or NULL

vars == <<free, turn, capture, fifo, hand>>

Idle == [at |-> "idle", packet |-> NULL]

Init ==
  /\ free = Stock
  /\ turn = 0
  /\ capture = Idle
  /\ fifo = [w \in Worker |-> <<>>]
  /\ hand = [w \in Worker |-> NULL]

NextTurn == turn' = (turn + 1) % nthreads

Drop ==
  /\ capture = Idle /\ free = 0
  /\ NextTurn
  /\ UNCHANGED <<free, capture, fifo, hand>>

Arrive(p) ==
  /\ capture = Idle /\ free > 0
  /\ NextTurn
  /\ capture' = [at |-> "arrived", packet |-> p]
  /\ UNCHANGED <<free, fifo, hand>>

TakeBuffer ==
  /\ capture.at = "arrived" /\ free > 0
  /\ free' = free - 1
  /\ capture' = [capture EXCEPT !.at = "dealing"]
  /\ UNCHANGED <<turn, fifo, hand>>

Deal ==
  /\ capture.at = "dealing" /\ Len(fifo[turn]) < Capacity
  /\ fifo' = [fifo EXCEPT ![turn] = Append(@, capture.packet)]
  /\ capture' = Idle
  /\ UNCHANGED <<free, turn, hand>>

Refuse ==
  /\ capture.at = "dealing" /\ Len(fifo[turn]) = Capacity
  /\ capture' = [at |-> "returning", packet |-> NULL]
  /\ UNCHANGED <<free, turn, fifo, hand>>

PutBack ==
  /\ capture.at = "returning" /\ free < Stock
  /\ free' = free + 1
  /\ capture' = Idle
  /\ UNCHANGED <<turn, fifo, hand>>

Take(w) ==
  /\ hand[w] = NULL /\ fifo[w] # <<>>
  /\ hand' = [hand EXCEPT ![w] = Head(fifo[w])]
  /\ fifo' = [fifo EXCEPT ![w] = Tail(@)]
  /\ UNCHANGED <<free, turn, capture>>

Return(w) ==
  /\ hand[w] # NULL /\ free < Stock
  /\ free' = free + 1
  /\ hand' = [hand EXCEPT ![w] = NULL]
  /\ UNCHANGED <<turn, capture, fifo>>

Next ==
  \/ Drop \/ (\E p \in Pkt : Arrive(p))
  \/ TakeBuffer \/ Deal \/ Refuse \/ PutBack
  \/ \E w \in Worker : Take(w) \/ Return(w)

\* Only arrivals are not owed: whatever was started is finished.
Fairness ==
  /\ WF_vars(TakeBuffer \/ Deal \/ Refuse \/ PutBack)
  /\ \A w \in Worker : WF_vars(Take(w)) /\ WF_vars(Return(w))

Spec     == Init /\ [][Next]_vars
FairSpec == Spec /\ Fairness
=============================================================================
