------------------------------ MODULE RingIndex ------------------------------
(***************************************************************************)
(* Index arithmetic of the message ring (pcap-queue/kstr_mq_ring.c).  The  *)
(* counters `in` and `out` of a ring_t are uint32_t: they only ever grow,  *)
(* wrap at Wrap (2^32 in the code) and are reduced to a slot by masking    *)
(* with size - 1, which is the remainder by a size that is a power of two. *)
(***************************************************************************)
EXTENDS Integers

CONSTANT Wrap    \* number of values of a uint32_t counter

ASSUME WrapAssumption == Wrap \in Nat \ {0}

Counter == 0 .. Wrap - 1

\* ++r->in and ++r->out on a uint32_t.
Inc(x) == (x + 1) % Wrap

\* r->in - r->out in uint32_t arithmetic: how many elements are queued.
Dist(in, out) == (in - out) % Wrap

\* r->in & (r->size - 1), for a size that is a power of two.
Slot(x, size) == x % size

\* The counter values of the queued elements.
Window(in, out) == {x \in Counter : Dist(x, out) < Dist(in, out)}
==============================================================================
