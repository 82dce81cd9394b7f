------------------------------- MODULE IifGroup -------------------------------
(***************************************************************************)
(* Membership of the input interface groups (testcode/fc/md/md_ifgrp.c):   *)
(* the CLI adds interfaces to groups and takes them out.  Membership is    *)
(* kept twice, as a bit of the group's mask (with a counter) and as the    *)
(* group of the interface, which is what the packet process reads.         *)
(*                                                                         *)
(* Every CLI connection has a thread of its own, and none takes a lock: a  *)
(* step is one access to the shared memory.  A command that is refused at  *)
(* its first test changes nothing and is no step.  Sessions may work on    *)
(* one group, or on one interface, at the same time.                       *)
(***************************************************************************)
EXTENDS Naturals, FiniteSets

CONSTANTS
  MAX_IF_NUM,     \* number of interfaces
  IF_GROUP_NUM,   \* number of groups
  MaskBits,       \* width of the 1 that is shifted into a bit of the mask
  Wrap,           \* the member counter counts modulo Wrap (2^32)
  INVALID_IIFGRP,
  Session,        \* the CLI connections
  Configures      \* Configures[s]: the pairs (group, interface) s configures

If    == 0 .. MAX_IF_NUM - 1
Group == 0 .. IF_GROUP_NUM - 1

ASSUME IifGroupAssumption ==
  /\ MAX_IF_NUM \in Nat /\ IF_GROUP_NUM \in Nat /\ MaskBits \in Nat \ {0}
  /\ Wrap \in Nat /\ Wrap > MAX_IF_NUM
  /\ INVALID_IIFGRP \notin Nat
  /\ Configures \in [Session -> SUBSET (Group \X If)]

\* Mutant: shifted by 64 - i.
Bit_OneOff(i) == 1 + (i % MaskBits)

\* The bit of interface i: 1 << (64 - i - 1).  The 1 is an int, of 32 bits, and
\* x86 shifts it by the count modulo 32, so that interfaces 32 apart have the
\* same bit (interface 0's is sign extended, which adds bits no other uses).
Bit(i) == i % MaskBits

VARIABLES
  epif_iifgrp,     \* the group of each interface, or INVALID_IIFGRP
  ifmask,          \* the bits set in the mask of each group
  if_grp_port_num, \* the number of members of each group
  pc,              \* where each session is in md_iifgrp_add or md_iifgrp_del
  op,              \* op[s]: "add" or "del", and its arguments
  grp_id, if_id,
  mask, num,       \* the value read in a read-modify-write of mask or counter
  spoilt           \* history: the groups a command was changing when it met another

group   == <<epif_iifgrp, ifmask, if_grp_port_num>>
session == <<pc, op, grp_id, if_id, mask, num>>
vars    == <<group, session, spoilt>>

Init ==
  /\ epif_iifgrp = [i \in If |-> INVALID_IIFGRP]
  /\ ifmask = [g \in Group |-> {}]
  /\ if_grp_port_num = [g \in Group |-> 0]
  /\ pc = [s \in Session |-> "idle"]
  /\ op = [s \in Session |-> "add"]
  /\ grp_id = [s \in Session |-> 0] /\ if_id = [s \in Session |-> 0]
  /\ mask = [s \in Session |-> {}] /\ num = [s \in Session |-> 0]
  /\ spoilt = {}

-----------------------------------------------------------------------------
Goto(s, from, to) == pc[s] = from /\ pc' = [pc EXCEPT ![s] = to]

\* The locals of a session are dead between commands, and reset.
Return(s, from) ==
  /\ Goto(s, from, "idle")
  /\ op' = [op EXCEPT ![s] = "add"]
  /\ grp_id' = [grp_id EXCEPT ![s] = 0] /\ if_id' = [if_id EXCEPT ![s] = 0]

Command(s, o, g, i) ==
  /\ <<g, i>> \in Configures[s]
  /\ Goto(s, "idle", "test")
  /\ op' = [op EXCEPT ![s] = o]
  /\ grp_id' = [grp_id EXCEPT ![s] = g] /\ if_id' = [if_id EXCEPT ![s] = i]
  /\ UNCHANGED <<group, mask, num>>

\* Mutant: an interface may join although it is in a group.
Add_Joined(s, g, i) == Command(s, "add", g, i)

\* The interface must be in no group...
Add(s, g, i) == epif_iifgrp[i] = INVALID_IIFGRP /\ Command(s, "add", g, i)

\* ...or in this one.
Del(s, g, i) == epif_iifgrp[i] = g /\ Command(s, "del", g, i)

\* Whether the bit of the interface allows the command.
BitAgrees(s) ==
  Bit(if_id[s]) \in ifmask[grp_id[s]] <=> op[s] = "del"

\* Mutant: the bit is not tested.
TestBit_Skipped(s) ==
  /\ Goto(s, "test", "mask")
  /\ UNCHANGED <<group, op, grp_id, if_id, mask, num>>

TestBit(s) ==
  /\ BitAgrees(s)
  /\ Goto(s, "test", "mask")
  /\ UNCHANGED <<group, op, grp_id, if_id, mask, num>>

Refuse(s) ==
  /\ ~ BitAgrees(s)
  /\ Return(s, "test")
  /\ UNCHANGED <<group, mask, num>>

LoadMask(s) ==
  /\ Goto(s, "mask", "mask2")
  /\ mask' = [mask EXCEPT ![s] = ifmask[grp_id[s]]]
  /\ UNCHANGED <<group, op, grp_id, if_id, num>>

StoreMask(s) ==
  /\ Goto(s, "mask2", "num")
  /\ ifmask' = [ifmask EXCEPT ![grp_id[s]] =
       IF op[s] = "add" THEN mask[s] \cup {Bit(if_id[s])} ELSE mask[s] \ {Bit(if_id[s])}]
  /\ mask' = [mask EXCEPT ![s] = {}]
  /\ UNCHANGED <<epif_iifgrp, if_grp_port_num, op, grp_id, if_id, num>>

LoadNum(s) ==
  /\ Goto(s, "num", "num2")
  /\ num' = [num EXCEPT ![s] = if_grp_port_num[grp_id[s]]]
  /\ UNCHANGED <<group, op, grp_id, if_id, mask>>

More(n) == IF n = Wrap - 1 THEN 0 ELSE n + 1
Less(n) == IF n = 0 THEN Wrap - 1 ELSE n - 1

StoreNum(s) ==
  /\ Goto(s, "num2", "epif")
  /\ if_grp_port_num' = [if_grp_port_num EXCEPT ![grp_id[s]] =
       IF op[s] = "add" THEN More(num[s]) ELSE Less(num[s])]
  /\ num' = [num EXCEPT ![s] = 0]
  /\ UNCHANGED <<epif_iifgrp, ifmask, op, grp_id, if_id, mask>>

\* Mutant: an interface that is taken out keeps its group.
SetGroup_Keeps(s) ==
  /\ Return(s, "epif")
  /\ epif_iifgrp' = [epif_iifgrp EXCEPT ![if_id[s]] = grp_id[s]]
  /\ UNCHANGED <<ifmask, if_grp_port_num, mask, num>>

SetGroup(s) ==
  /\ Return(s, "epif")
  /\ epif_iifgrp' = [epif_iifgrp EXCEPT ![if_id[s]] =
       IF op[s] = "add" THEN grp_id[s] ELSE INVALID_IIFGRP]
  /\ UNCHANGED <<ifmask, if_grp_port_num, mask, num>>

Proceed(s) ==
  \/ TestBit(s) \/ Refuse(s)
  \/ LoadMask(s) \/ StoreMask(s)
  \/ LoadNum(s) \/ StoreNum(s)
  \/ SetGroup(s)

Busy(s) == pc[s] # "idle"

\* Two commands under way on one group, or on one interface.
Meet(s, t) ==
  /\ s # t /\ Busy(s) /\ Busy(t)
  /\ grp_id[s] = grp_id[t] \/ if_id[s] = if_id[t]

\* The groups that a command which meets another is changing.
Contested == {g \in Group : \E s, t \in Session : Meet(s, t) /\ grp_id[s] = g}

Next ==
  /\ \E s \in Session :
       \/ \E g \in Group, i \in If : Add(s, g, i) \/ Del(s, g, i)
       \/ Proceed(s)
  /\ spoilt' = spoilt \cup Contested'

Spec == Init /\ [][Next]_vars

-----------------------------------------------------------------------------
Members(g) == {i \in If : epif_iifgrp[i] = g}

Bits(S) == {Bit(i) : i \in S}

\* Nobody is changing the group.
Quiet(g) == \A s \in Session : Busy(s) => grp_id[s] # g

TypeOK ==
  /\ epif_iifgrp \in [If -> Group \cup {INVALID_IIFGRP}]
  /\ ifmask \in [Group -> SUBSET (0 .. MaskBits - 1)]
  /\ if_grp_port_num \in [Group -> 0 .. Wrap - 1]
  /\ pc \in [Session -> {"idle", "test", "mask", "mask2", "num", "num2", "epif"}]
  /\ op \in [Session -> {"add", "del"}]
  /\ grp_id \in [Session -> Nat] /\ if_id \in [Session -> Nat]
  /\ \A s \in Session : Busy(s) => grp_id[s] \in Group /\ if_id[s] \in If
  /\ mask \in [Session -> SUBSET (0 .. MaskBits - 1)]
  /\ num \in [Session -> 0 .. Wrap - 1]
  /\ spoilt \in SUBSET Group

\* The mask of a group is made of the bits of its members, no two of which share
\* a bit, although bits are shared (md_ifgrp.c:284-287, 327-330), as long as no
\* command on the group meets another on that group or on the same interface.  What
\* goes wrong in other groups does not spread to this one.  The price: an interface
\* whose bit is taken is listed by `show` and refused by `add`.
MaskOfMembers ==
  \A g \in Group \ spoilt : Quiet(g) =>
    /\ ifmask[g] = Bits(Members(g))
    /\ \A i, j \in Members(g) : Bit(i) = Bit(j) => i = j

\* A group counts its members (md_ifgrp.h:43, "port number in a interface group"),
\* in the same circumstances: commands that change one group at the same time may
\* lose an update (md_ifgrp.c:290, 334).
PortNumber ==
  \A g \in Group \ spoilt : Quiet(g) => if_grp_port_num[g] = Cardinality(Members(g))

\* "if interface has joined to a group, return" (md_ifgrp.c:276): an interface
\* leaves its group before it joins another one, so that the packet process never
\* sees it move between groups.  Test and store are many accesses apart: the
\* interface moves only between groups whose commands have met.
JoinsUnlessMet ==
  [][\A i \in If : epif_iifgrp'[i] # epif_iifgrp[i] =>
       \/ INVALID_IIFGRP \in {epif_iifgrp[i], epif_iifgrp'[i]}
       \/ {epif_iifgrp[i], epif_iifgrp'[i]} \subseteq spoilt]_vars

-----------------------------------------------------------------------------
(* Why it works: the inductive invariant.                                  *)

\* What the members become when the command of s is done.
MembersAfter(s) ==
  IF op[s] = "add" THEN Members(grp_id[s]) \cup {if_id[s]}
                   ELSE Members(grp_id[s]) \ {if_id[s]}

\* The group a command found its interface in.
Found(s) == IF op[s] = "add" THEN INVALID_IIFGRP ELSE grp_id[s]

\* The interface is still where the command found it, or has been moved by another
\* one, which has met this one.
Held(s) ==
  \/ epif_iifgrp[if_id[s]] = Found(s)
  \/ grp_id[s] \in spoilt /\ epif_iifgrp[if_id[s]] \in spoilt \cup {INVALID_IIFGRP}

\* A command in progress that has met no other: its tests still hold, and mask and
\* counter are either those of the members or those of the members after it.
Undisturbed(s) ==
  LET g == grp_id[s]  i == if_id[s]  after == MembersAfter(s) IN
  /\ epif_iifgrp[i] = Found(s)
  /\ pc[s] # "test" => (op[s] = "add" => Bit(i) \notin Bits(Members(g)))
  /\ ifmask[g] = Bits(IF pc[s] \in {"num", "num2", "epif"} THEN after ELSE Members(g))
  /\ pc[s] = "mask2" => mask[s] = ifmask[g]
  /\ if_grp_port_num[g] = Cardinality(IF pc[s] = "epif" THEN after ELSE Members(g))
  /\ pc[s] = "num2" => num[s] = if_grp_port_num[g]

\* The inductive invariant.
IInv ==
  /\ TypeOK
  /\ Contested \subseteq spoilt
  /\ \A s \in Session : Busy(s) => Held(s) /\ (grp_id[s] \notin spoilt => Undisturbed(s))
  /\ \A g \in Group \ spoilt : Quiet(g) =>
       ifmask[g] = Bits(Members(g)) /\ if_grp_port_num[g] = Cardinality(Members(g))
  /\ \A g \in Group \ spoilt : \A i, j \in Members(g) : Bit(i) = Bit(j) => i = j

=============================================================================
