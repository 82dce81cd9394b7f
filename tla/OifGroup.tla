------------------------------- MODULE OifGroup -------------------------------
(***************************************************************************)
(* The output interface groups (testcode/fc/md/md_ifgrp.c) and the link    *)
(* monitor (md_if.c): a group keeps the mask of its members, the mask of   *)
(* those whose link is up, and two arrays of ports to transmit on, where   *)
(* each interface that is up has as many entries as its weight.  The CLI   *)
(* changes members and mode; the monitor, a thread of the same process,    *)
(* updates masks and arrays when a link changes.  No lock is taken.        *)
(*                                                                         *)
(* A step is one access to what the two threads share.  Both change        *)
(* `up_ifmask` by reading it, changing the bit and writing it back, and    *)
(* both rebuild the array not in use, switch `master` to it and copy it    *)
(* over the other one.  What only the CLI writes it reads back for free.   *)
(*                                                                         *)
(* One CLI session.  An array is its length: no branch depends on the      *)
(* entries, and which they are is not modelled.  `hash` is read by         *)
(* nothing.                                                                *)
(***************************************************************************)
EXTENDS Naturals, FiniteSets

CONSTANTS
  MAX_IF_NUM,    \* number of interfaces
  IF_GROUP_NUM,  \* number of groups
  MaskBits,      \* width of the 1 that is shifted into a bit of a mask
  Weight,        \* entries of an interface in a weighted mode (10)
  Wrap,          \* dn_port_num counts modulo Wrap (2^32)
  Configures,    \* the pairs (group, interface) that the CLI adds and deletes
  Reweighs,      \* the groups whose mode it sets
  Flaps          \* the interfaces whose physical status changes

If    == 0 .. MAX_IF_NUM - 1
Group == 0 .. IF_GROUP_NUM - 1

ASSUME OifGroupAssumption ==
  /\ MAX_IF_NUM \in Nat \ {0} /\ IF_GROUP_NUM \in Nat \ {0}
  /\ MaskBits \in Nat \ {0}
  /\ Weight \in Nat /\ Weight > 1
  /\ Wrap \in Nat \ {0}
  /\ Configures \subseteq Group \X If /\ Reweighs \subseteq Group /\ Flaps \subseteq If

\* The bit of interface i, 1 << (64 - i - 1): the 1 is an int, shifted by the count
\* modulo 32, so that interfaces 32 apart have the same bit.
Bit(i) == i % MaskBits

\* A mask: the bits of some interfaces.
Masks == SUBSET {Bit(i) : i \in If}

\* OIF_GRP_UP_PORT_MEMBER_MAX
MaxPorts == MAX_IF_NUM * Weight

Cli     == "cli"
Monitor == "monitor"
Thread  == {Cli, Monitor}

VARIABLES
  phy,           \* the physical status of each interface (`online`)
  link,          \* its saved status
  ifmask,        \* the members of each group
  up_ifmask,     \* those that are up
  port_num,      \* the number of members
  dn_port_num,   \* "link down port number"
  weighted,      \* whether the mode is a weighted one
  master,        \* the array in use, 0 or 1
  up_port_num,   \* the lengths of the two arrays
  overrun,       \* whether a length has wrapped or exceeds the array
  \* Where a thread is, and its locals:
  pc,
  op,            \*   "add", "del" or "mode"; of the monitor, what the link demands
  grp_id, if_id,
  idx,           \*   the variable i of the code, which serves all loops
  backup,        \*   the array being rebuilt
  weight,        \*   whether the weight it goes by is that of a weighted mode
  mask, num,     \*   the mask and the length it has read
  \* Histories:
  met,           \* whether the two threads have come across each other
  astray,        \* whether the monitor's loop has skipped a group, or gone back
  doubled        \* whether a bit was treated once more than it changed

link_sts == <<phy, link>>
masks    == <<ifmask, up_ifmask, port_num, dn_port_num>>
arrays   == <<weighted, master, up_port_num, overrun>>
locals   == <<op, grp_id, if_id, idx, backup, weight, mask, num>>
vars     == <<link_sts, masks, arrays, pc, locals, met, astray, doubled>>

Init ==
  /\ phy = [i \in If |-> 1]          \* md_if_init: online, but the link is down
  /\ link = [i \in If |-> 0]
  /\ ifmask = [g \in Group |-> {}] /\ up_ifmask = [g \in Group |-> {}]
  /\ port_num = [g \in Group |-> 0] /\ dn_port_num = [g \in Group |-> 0]
  /\ weighted = [g \in Group |-> FALSE]
  /\ master = [g \in Group |-> 0]
  /\ up_port_num = [g \in Group |-> [a \in 0 .. 1 |-> 0]]
  /\ overrun = FALSE
  /\ pc = [t \in Thread |-> IF t = Cli THEN "idle" ELSE "scan"]
  /\ op = [t \in Thread |-> "add"]
  /\ grp_id = [t \in Thread |-> 0] /\ if_id = [t \in Thread |-> 0]
  /\ idx = [t \in Thread |-> 0] /\ backup = [t \in Thread |-> 0]
  /\ weight = [t \in Thread |-> FALSE]
  /\ mask = [t \in Thread |-> {}] /\ num = [t \in Thread |-> 0]
  /\ met = FALSE /\ astray = FALSE /\ doubled = FALSE

-----------------------------------------------------------------------------
Goto(t, from, to) == pc[t] = from /\ pc' = [pc EXCEPT ![t] = to]

Set(f, t, v) == [f EXCEPT ![t] = v]

\* The locals of the CLI are dead between commands, those of the monitor that belong
\* to a group between groups, and reset.
Leave(t) ==
  /\ grp_id' = Set(grp_id, t, 0) /\ backup' = Set(backup, t, 0)
  /\ weight' = Set(weight, t, FALSE)
  /\ UNCHANGED <<mask, num>>

Return ==
  /\ Leave(Cli)
  /\ pc' = Set(pc, Cli, "idle") /\ op' = Set(op, Cli, "add")
  /\ if_id' = Set(if_id, Cli, 0) /\ idx' = Set(idx, Cli, 0)

(* The CLI: the beginning of a command.  A command that is refused changes *)
(* nothing and is no step.                                                 *)

Command(o, g, i, w, to) ==
  /\ Goto(Cli, "idle", to)
  /\ op' = Set(op, Cli, o)
  /\ grp_id' = Set(grp_id, Cli, g) /\ if_id' = Set(if_id, Cli, i)
  /\ weight' = Set(weight, Cli, w)
  /\ UNCHANGED <<link_sts, up_ifmask, dn_port_num, arrays, idx, backup, mask, num>>

Add(g, i) ==
  /\ <<g, i>> \in Configures
  /\ Bit(i) \notin ifmask[g]
  /\ ifmask' = [ifmask EXCEPT ![g] = @ \cup {Bit(i)}]
  /\ port_num' = [port_num EXCEPT ![g] = @ + 1]
  /\ Command("add", g, i, weighted[g], "link")

\* dn_port_num is left alone: nothing ever decrements it.
Del(g, i) ==
  /\ <<g, i>> \in Configures
  /\ Bit(i) \in ifmask[g]
  /\ ifmask' = [ifmask EXCEPT ![g] = @ \ {Bit(i)}]
  /\ port_num' = [port_num EXCEPT ![g] = @ - 1]
  /\ Command("del", g, i, weighted[g], "up")

\* A mode of the same kind only changes `mode`, which is then read by nothing.
SetMode(g, w) ==
  /\ g \in Reweighs /\ weighted[g] # w
  /\ Command("mode", g, 0, w, "master")
  /\ UNCHANGED <<ifmask, port_num>>

\* Mutant: the member is up whatever its link.
ReadLink_Up ==
  /\ Goto(Cli, "link", "mask")
  /\ UNCHANGED <<link_sts, masks, arrays, locals>>

\* A member whose link is down only counts.
ReadLink ==
  /\ pc[Cli] = "link"
  /\ IF link[if_id[Cli]] = 0
     THEN /\ dn_port_num' = [dn_port_num EXCEPT ![grp_id[Cli]] = (@ + 1) % Wrap]
          /\ Return
     ELSE /\ Goto(Cli, "link", "mask")
          /\ UNCHANGED <<dn_port_num, locals>>
  /\ UNCHANGED <<link_sts, ifmask, up_ifmask, port_num, arrays>>

\* A member that is not up is in no array.
TestUp ==
  /\ pc[Cli] = "up"
  /\ IF Bit(if_id[Cli]) \in up_ifmask[grp_id[Cli]]
     THEN Goto(Cli, "up", "mask") /\ UNCHANGED locals
     ELSE Return
  /\ UNCHANGED <<link_sts, masks, arrays>>

-----------------------------------------------------------------------------
(* md_if_status_loop, and the loop over the groups.                        *)

Scan ==
  /\ pc[Monitor] = "scan"
  /\ LET i == if_id[Monitor] IN
     IF phy[i] = link[i]
     THEN if_id' = Set(if_id, Monitor, (i + 1) % MAX_IF_NUM) /\ UNCHANGED <<pc, op>>
     ELSE /\ pc' = Set(pc, Monitor, "pass")
          /\ op' = Set(op, Monitor, IF phy[i] = 1 THEN "add" ELSE "del")
          /\ UNCHANGED if_id
  /\ UNCHANGED <<link_sts, masks, arrays, grp_id, idx, backup, weight, mask, num>>

\* The groups the interface is not in are passed over.
TestMember ==
  /\ pc[Monitor] = "pass" /\ idx[Monitor] \in Group
  /\ IF Bit(if_id[Monitor]) \in ifmask[idx[Monitor]]
     THEN /\ pc' = Set(pc, Monitor, "mask") /\ grp_id' = Set(grp_id, Monitor, idx[Monitor])
          /\ UNCHANGED idx
     ELSE idx' = Set(idx, Monitor, idx[Monitor] + 1) /\ UNCHANGED <<pc, grp_id>>
  /\ UNCHANGED <<link_sts, masks, arrays, op, if_id, backup, weight, mask, num>>

\* Mutant: the status is read once more, and saved.
SaveLink_Reread ==
  /\ pc[Monitor] = "pass" /\ idx[Monitor] \notin Group
  /\ LET i == if_id[Monitor] IN
     /\ link' = [link EXCEPT ![i] = phy[i]]
     /\ if_id' = Set(if_id, Monitor, (i + 1) % MAX_IF_NUM)
  /\ pc' = Set(pc, Monitor, "scan") /\ op' = Set(op, Monitor, "add") /\ idx' = Set(idx, Monitor, 0)
  /\ UNCHANGED <<phy, masks, arrays, grp_id, backup, weight, mask, num>>

SaveLink ==
  /\ pc[Monitor] = "pass" /\ idx[Monitor] \notin Group
  /\ LET i == if_id[Monitor] IN
     /\ link' = [link EXCEPT ![i] = IF op[Monitor] = "add" THEN 1 ELSE 0]
     /\ if_id' = Set(if_id, Monitor, (i + 1) % MAX_IF_NUM)
  /\ pc' = Set(pc, Monitor, "scan") /\ op' = Set(op, Monitor, "add") /\ idx' = Set(idx, Monitor, 0)
  /\ UNCHANGED <<phy, masks, arrays, grp_id, backup, weight, mask, num>>

-----------------------------------------------------------------------------
(* What both threads do to a group, each with its own copy of this code.   *)

LoadMask(t) ==
  /\ Goto(t, "mask", "mask2")
  /\ mask' = Set(mask, t, up_ifmask[grp_id[t]])
  /\ UNCHANGED <<link_sts, masks, arrays, op, grp_id, if_id, idx, backup, weight, num>>

StoreMask(t) ==
  /\ Goto(t, "mask2", "master")
  /\ LET b == Bit(if_id[t]) IN
     up_ifmask' = [up_ifmask EXCEPT ![grp_id[t]] =
       IF op[t] = "add" THEN mask[t] \cup {b} ELSE mask[t] \ {b}]
  /\ mask' = Set(mask, t, {})
  /\ UNCHANGED <<link_sts, ifmask, port_num, dn_port_num, arrays, op, grp_id, if_id, idx, backup,
                 weight, num>>

\* How the change of the array begins.
Change(o) == CASE o = "add" -> "grow" [] o = "del" -> "shrink" [] o = "mode" -> "loop"

\* Mutant: the array in use is rebuilt.
ReadMaster_InPlace(t) ==
  /\ Goto(t, "master", IF t = Monitor THEN "weight" ELSE Change(op[t]))
  /\ backup' = Set(backup, t, master[grp_id[t]])
  /\ UNCHANGED <<link_sts, masks, arrays, op, grp_id, if_id, idx, weight, mask, num>>

ReadMaster(t) ==
  /\ Goto(t, "master", IF t = Monitor THEN "weight" ELSE Change(op[t]))
  /\ backup' = Set(backup, t, 1 - master[grp_id[t]])
  /\ UNCHANGED <<link_sts, masks, arrays, op, grp_id, if_id, idx, weight, mask, num>>

ReadWeight ==
  /\ Goto(Monitor, "weight", Change(op[Monitor]))
  /\ weight' = Set(weight, Monitor, weighted[grp_id[Monitor]])
  /\ UNCHANGED <<link_sts, masks, arrays, op, grp_id, if_id, idx, backup, mask, num>>

\* A new mode: every interface that is up is removed and added again.
NextPort ==
  /\ pc[Cli] = "loop" /\ idx[Cli] \in If
  /\ IF Bit(idx[Cli]) \in up_ifmask[grp_id[Cli]]
     THEN Goto(Cli, "loop", "shrink") /\ UNCHANGED idx
     ELSE idx' = Set(idx, Cli, idx[Cli] + 1) /\ UNCHANGED pc
  /\ UNCHANGED <<link_sts, masks, arrays, op, grp_id, if_id, backup, weight, mask, num>>

LastPort ==
  /\ idx[Cli] \notin If
  /\ Goto(Cli, "loop", "switch")
  /\ UNCHANGED <<link_sts, masks, arrays, locals>>

WeightOf(w) == IF w THEN Weight ELSE 1

LoadLength(t, from, to) ==
  /\ Goto(t, from, to)
  /\ num' = Set(num, t, up_port_num[grp_id[t]][backup[t]])
  /\ UNCHANGED <<link_sts, masks, arrays, op, grp_id, if_id, idx, backup, weight, mask>>

StoreLength(t, n) ==
  /\ up_port_num' = [up_port_num EXCEPT ![grp_id[t]][backup[t]] = n]
  /\ num' = Set(num, t, 0)
  /\ UNCHANGED <<link_sts, masks, weighted, master, overrun, op, grp_id, if_id, backup, weight, mask>>

\* Outside the array the code reads and writes what it does not own: the model ends.
Overrun ==
  /\ overrun' = TRUE
  /\ UNCHANGED <<link_sts, masks, weighted, master, up_port_num, pc, locals>>

\* Mutant: one entry goes, whatever the weight.
Shrink_One(t) ==
  /\ pc[t] = "shrink2"
  /\ IF num[t] < 1 THEN Overrun
     ELSE /\ Goto(t, "shrink2", IF op[t] = "mode" THEN "grow" ELSE "switch")
          /\ StoreLength(t, num[t] - 1)
          /\ UNCHANGED idx

\* md_oifgrp_del_if_from_up_port_array, with the old weight if the mode changes.
Shrink(t) ==
  /\ pc[t] = "shrink2"
  /\ LET w == WeightOf(IF op[t] = "mode" THEN ~ weight[t] ELSE weight[t]) IN
     IF num[t] < w THEN Overrun
     ELSE /\ Goto(t, "shrink2", IF op[t] = "mode" THEN "grow" ELSE "switch")
          /\ StoreLength(t, num[t] - w)
          /\ UNCHANGED idx

\* md_oifgrp_add_if_to_up_port_array.
Grow(t) ==
  /\ pc[t] = "grow2"
  /\ LET n == num[t] + WeightOf(weight[t]) IN
     IF n > MaxPorts THEN Overrun
     ELSE /\ Goto(t, "grow2", IF op[t] = "mode" THEN "loop" ELSE "switch")
          /\ StoreLength(t, n)
          /\ idx' = IF op[t] = "mode" THEN Set(idx, t, idx[t] + 1) ELSE idx

Switch(t) ==
  /\ Goto(t, "switch", "copy")
  /\ master' = [master EXCEPT ![grp_id[t]] = backup[t]]
  /\ UNCHANGED <<link_sts, masks, weighted, up_port_num, overrun, locals>>

StoreCopy(t) ==
  /\ Goto(t, "copy2", "copies")
  /\ up_port_num' = [up_port_num EXCEPT ![grp_id[t]][1 - backup[t]] = num[t]]
  /\ num' = Set(num, t, 0) /\ idx' = Set(idx, t, 0)
  /\ UNCHANGED <<link_sts, masks, weighted, master, overrun, op, grp_id, if_id, backup, weight, mask>>

\* The end of a command.  Its copy of the entries is no step: nothing depends on it.
CopyEnd ==
  /\ pc[Cli] = "copies"
  /\ IF op[Cli] = "mode" THEN Goto(Cli, "copies", "mode") /\ UNCHANGED locals ELSE Return
  /\ UNCHANGED <<link_sts, masks, arrays>>

StoreMode ==
  /\ pc[Cli] = "mode"
  /\ weighted' = [weighted EXCEPT ![grp_id[Cli]] = weight[Cli]]
  /\ Return
  /\ UNCHANGED <<link_sts, masks, master, up_port_num, overrun>>

\* The monitor copies with the index of its loop over the groups, up to the length of
\* the array it copies to, which it reads each time.
Copied == up_port_num[grp_id[Monitor]][1 - backup[Monitor]]

CopyEntry ==
  /\ pc[Monitor] = "copies" /\ idx[Monitor] < Copied
  /\ idx' = Set(idx, Monitor, idx[Monitor] + 1)
  /\ UNCHANGED <<link_sts, masks, arrays, pc, op, grp_id, if_id, backup, weight, mask, num>>

\* The loop over the groups goes on from there.
NextGroup ==
  /\ idx[Monitor] >= Copied
  /\ Goto(Monitor, "copies", "pass")
  /\ idx' = Set(idx, Monitor, idx[Monitor] + 1)
  /\ Leave(Monitor)
  /\ UNCHANGED <<link_sts, masks, arrays, op, if_id>>

Update(t) ==
  \/ LoadMask(t) \/ StoreMask(t) \/ ReadMaster(t)
  \/ LoadLength(t, "shrink", "shrink2") \/ Shrink(t)
  \/ LoadLength(t, "grow", "grow2") \/ Grow(t)
  \/ Switch(t) \/ LoadLength(t, "copy", "copy2") \/ StoreCopy(t)

-----------------------------------------------------------------------------
(* The histories.                                                          *)

\* The group a thread is at work on.
In(t, g) == pc[t] \notin {"idle", "scan", "pass"} /\ grp_id[t] = g

Handles(i) == pc[Monitor] # "scan" /\ if_id[Monitor] = i

\* The groups the monitor will not look at any more, if it takes them in turn.
Passed(g) == g < IF pc[Monitor] = "pass" THEN idx[Monitor] ELSE grp_id[Monitor]

\* Both are at work on one group, or the CLI adds to a group that the monitor has
\* passed the interface whose new status it has not saved yet.
Meeting ==
  \/ \E g \in Group : In(Cli, g) /\ In(Monitor, g)
  \/ pc[Cli] = "link" /\ Handles(if_id[Cli]) /\ Passed(grp_id[Cli])

\* The copy leaves the monitor's index short of the group it has just updated, or
\* beyond another one of the interface.
Jumping ==
  /\ pc[Monitor] = "copies" /\ idx[Monitor] >= Copied
  /\ \/ idx[Monitor] < grp_id[Monitor]
     \/ \E g \in Group : grp_id[Monitor] < g /\ g <= idx[Monitor] /\ Bit(if_id[Monitor]) \in ifmask[g]

\* A bit is put up that is up, or down that is down; or a new mode comes to a bit for
\* the second time.
Doubling ==
  \/ \E t \in Thread :
       pc[t] = "mask" /\ (op[t] = "add" <=> Bit(if_id[t]) \in up_ifmask[grp_id[t]])
  \/ /\ pc[Cli] = "loop" /\ idx[Cli] \in If /\ Bit(idx[Cli]) \in up_ifmask[grp_id[Cli]]
     /\ \E i \in 0 .. idx[Cli] - 1 : Bit(i) = Bit(idx[Cli])

Watch ==
  /\ met' = (met \/ Meeting') /\ astray' = (astray \/ Jumping') /\ doubled' = (doubled \/ Doubling')

-----------------------------------------------------------------------------
\* interface <i> link | down
SetPhy(i) ==
  /\ i \in Flaps
  /\ phy' = [phy EXCEPT ![i] = 1 - @]
  /\ UNCHANGED <<link, masks, arrays, pc, locals>>

MonitorStep ==
  /\ ~ overrun
  /\ \/ Scan \/ TestMember \/ ReadWeight \/ Update(Monitor)
     \/ CopyEntry \/ NextGroup \/ SaveLink
  /\ Watch

\* The rest of a command.
CommandStep ==
  /\ ~ overrun
  /\ ReadLink \/ TestUp \/ NextPort \/ LastPort \/ CopyEnd \/ StoreMode \/ Update(Cli)
  /\ Watch

Next ==
  \/ MonitorStep
  \/ CommandStep
  \/ /\ ~ overrun
     /\ \/ \E g \in Group, i \in If : Add(g, i) \/ Del(g, i)
        \/ \E g \in Group, w \in BOOLEAN : SetMode(g, w)
        \/ \E i \in If : SetPhy(i)
     /\ Watch

Spec == Init /\ [][Next]_vars

FairSpec == Spec /\ WF_vars(MonitorStep) /\ WF_vars(CommandStep)

-----------------------------------------------------------------------------
TypeOK ==
  /\ phy \in [If -> 0 .. 1] /\ link \in [If -> 0 .. 1]
  /\ ifmask \in [Group -> Masks] /\ up_ifmask \in [Group -> Masks]
  /\ port_num \in [Group -> Nat] /\ dn_port_num \in [Group -> 0 .. Wrap - 1]
  /\ weighted \in [Group -> BOOLEAN] /\ master \in [Group -> 0 .. 1]
  /\ up_port_num \in [Group -> [0 .. 1 -> 0 .. MaxPorts]]
  /\ pc \in [Thread -> {"idle", "link", "up", "loop", "mode", "scan", "pass", "weight",
                        "mask", "mask2", "master", "shrink", "shrink2", "grow", "grow2",
                        "switch", "copy", "copy2", "copies"}]
  /\ op \in [Thread -> {"add", "del", "mode"}]
  /\ grp_id \in [Thread -> Group] /\ if_id \in [Thread -> If]
  /\ idx \in [Thread -> Nat] /\ backup \in [Thread -> 0 .. 1]
  /\ weight \in [Thread -> BOOLEAN]
  /\ mask \in [Thread -> Masks] /\ num \in [Thread -> 0 .. MaxPorts]
  /\ {overrun, met, astray, doubled} \subseteq BOOLEAN

\* An interface that shares its bit with no other one.
Alone(i) == \A j \in If : Bit(j) = Bit(i) => j = i

\* Neither thread is at work on the interface in this group.
Settled(g, i) ==
  /\ ~ Handles(i)
  /\ ~ (In(Cli, g) /\ op[Cli] # "mode" /\ if_id[Cli] = i)

\* "up interface mask" (md_ifgrp.h:103): the members that are up.
UpMask ==
  \A g \in Group, i \in If : Alone(i) /\ Settled(g, i) =>
    (Bit(i) \in up_ifmask[g] <=> Bit(i) \in ifmask[g] /\ link[i] = 1)

\* The same as long as the threads have not come across each other.  It is not so: the
\* monitor's pass over the groups goes on at the length of the array it has just
\* copied (md_ifgrp.c:1342, 1389, 1431).
UpUnlessMet == ~ met => UpMask

\* The same as long as, besides, that index happens to skip no group the interface is
\* in.  The CLI adds by the saved status (md_ifgrp.c:702), the monitor updates all
\* groups first and then saves it (md_if.c:172-179), and both write whole masks.
UpInOrder == ~ met /\ ~ astray => UpMask

\* Nobody is at work on the group.
Quiet(g) == \A t \in Thread : ~ In(t, g)

\* "link up port number, add the weight" (md_ifgrp.h:94): the arrays are as long as the
\* interfaces that are up weigh, no length ever wraps or exceeds the array, and both
\* arrays are the same when nobody is at work on the group (md_ifgrp.c:768-777,
\* 962-999), as long as the threads have not met and no bit was treated twice, which
\* happens when interfaces share one.
LengthInOrder ==
  ~ met /\ ~ doubled =>
    /\ ~ overrun
    /\ \A g \in Group : Quiet(g) => \A a \in 0 .. 1 :
         up_port_num[g][a] = WeightOf(weighted[g]) * Cardinality(up_ifmask[g])

\* "indicate which up port is using" (md_ifgrp.h:106): the array in use is left alone
\* until the other one takes its place (md_ifgrp.c:738-745).
InUseLeftAlone ==
  [][~ met => \A g \in Group : master'[g] = master[g] =>
       up_port_num'[g][master[g]] = up_port_num[g][master[g]]]_vars

\* When a member stays physically up, so in the end does its bit in the mask of
\* interfaces that are up; and so when it stays down (md_if.c:151-183).
FollowsPhy ==
  \A i \in {j \in If : Alone(j)}, g \in Group, b \in 0 .. 1 :
    <>[](phy[i] = b /\ Bit(i) \in ifmask[g] /\ ~ met /\ ~ astray /\ ~ overrun)
      => <>[](Bit(i) \in up_ifmask[g] <=> b = 1)

-----------------------------------------------------------------------------
(* What each step preserves.                                               *)

\* What may follow what.
Control ==
  /\ pc[Cli] \notin {"scan", "pass", "weight"}
  /\ pc[Monitor] \notin {"idle", "link", "up", "loop", "mode"} /\ op[Monitor] # "mode"
  /\ pc[Monitor] = "scan" => idx[Monitor] = 0
  /\ \A t \in Thread :
       /\ pc[t] = "link" => op[t] = "add"
       /\ pc[t] = "up" => op[t] = "del"
       /\ pc[t] \in {"mask", "mask2"} => op[t] # "mode"
       /\ pc[t] \in {"shrink", "shrink2"} => op[t] # "add"
       /\ pc[t] \in {"grow", "grow2"} => op[t] # "del"
       /\ pc[t] \in {"loop", "mode"} => op[t] = "mode"
  /\ idx[Cli] <= MAX_IF_NUM
  /\ pc[Cli] \in {"idle", "link", "up", "mask", "mask2", "master"} => idx[Cli] = 0
  /\ pc[Cli] \in {"shrink", "shrink2", "grow", "grow2"} /\ op[Cli] = "mode" =>
       idx[Cli] \in If

\* The number of members.
Counted == \A g \in Group : port_num[g] = Cardinality(ifmask[g])

\* The histories tell.
Watched ==
  /\ met \/ ~ Meeting
  /\ astray \/ ~ Jumping
  /\ doubled \/ ~ Doubling

\* A thread rebuilds the array that is not in use, until it switches.
BackupOf(t) ==
  /\ pc[t] \in {"weight", "loop", "shrink", "shrink2", "grow", "grow2", "switch"} =>
       backup[t] # master[grp_id[t]]
  /\ pc[t] \in {"copy", "copy2"} => backup[t] = master[grp_id[t]]

\* What it has read still is so.
ReadOf(t) ==
  /\ pc[t] = "mask2" => mask[t] = up_ifmask[grp_id[t]]
  /\ pc[t] \in {"shrink2", "grow2", "copy2"} => num[t] = up_port_num[grp_id[t]][backup[t]]
  /\ pc[t] = "mode" \/ op[t] = "mode" => weight[t] = ~ weighted[grp_id[t]]
  /\ op[t] # "mode" /\ pc[t] \in {"shrink", "shrink2", "grow", "grow2", "switch", "copy", "copy2"} =>
       weight[t] = weighted[grp_id[t]]
  /\ op[t] = "mode" /\ pc[t] \in {"shrink", "shrink2", "grow", "grow2"} =>
       Bit(idx[t]) \in up_ifmask[grp_id[t]]
  /\ t = Cli /\ op[t] # "mode" /\ pc[t] # "idle" => weight[t] = weighted[grp_id[t]]

\* The monitor has dealt with its interface in this group.
Done(g, i) ==
  /\ Handles(i)
  /\ Passed(g) \/ (In(Monitor, g) /\ pc[Monitor] \notin {"mask", "mask2"})

Adding(g, i)   == In(Cli, g) /\ op[Cli] = "add" /\ if_id[Cli] = i
Deleting(g, i) == In(Cli, g) /\ op[Cli] = "del" /\ if_id[Cli] = i

\* The bit of an interface in the mask of those that are up, by what the threads have
\* done so far.
BitOf(g, i) ==
  /\ ~ Adding(g, i) /\ ~ Deleting(g, i) =>
       (Bit(i) \in up_ifmask[g] <=>
          Bit(i) \in ifmask[g] /\ IF Done(g, i) THEN op[Monitor] = "add" ELSE link[i] = 1)
  /\ Adding(g, i) =>
       /\ Bit(i) \in ifmask[g]
       /\ Bit(i) \in up_ifmask[g] <=> pc[Cli] \notin {"link", "mask", "mask2"}
       /\ pc[Cli] # "link" => ~ Done(g, i) /\ link[i] = 1
  /\ Deleting(g, i) =>
       /\ Bit(i) \notin ifmask[g]
       /\ Bit(i) \in up_ifmask[g] => pc[Cli] \in {"up", "mask", "mask2"}
  /\ In(Monitor, g) /\ Handles(i) => Bit(i) \in ifmask[g]

\* The number of interfaces that are up; of those in a mask, the number of the first n.
Ports(g)      == Cardinality(up_ifmask[g])
Treated(m, n) == Cardinality({b \in m : \E i \in 0 .. n - 1 : b = Bit(i)})

Both(g, n) == \A a \in 0 .. 1 : up_port_num[g][a] = n

\* The lengths while a thread is at work on the group.
LengthOf(t) ==
  LET g == grp_id[t]
      n == Ports(g)
      w == WeightOf(weighted[g])
      v == WeightOf(weight[t])
      k == Treated(up_ifmask[g], idx[t])
      rebuilt == up_port_num[g][backup[t]]
  IN
  /\ pc[t] \in {"link", "up", "mask", "mask2"} => Both(g, w * n)
  /\ pc[t] = "mask2" => (op[t] = "add" <=> Bit(if_id[t]) \notin up_ifmask[g])
  /\ op[t] = "add" /\ pc[t] \in {"master", "weight", "grow", "grow2"} =>
       n > 0 /\ Both(g, w * (n - 1))
  /\ op[t] = "del" /\ pc[t] \in {"master", "weight", "shrink", "shrink2"} => Both(g, w * (n + 1))
  /\ op[t] = "mode" =>
       /\ pc[t] = "master" => Both(g, w * n)
       /\ pc[t] \in {"loop", "shrink", "shrink2"} => rebuilt = w * (n - k) + v * k
       /\ pc[t] \in {"shrink", "shrink2", "grow", "grow2"} =>
            \A i \in 0 .. idx[t] - 1 : Bit(i) # Bit(idx[t])
       /\ pc[t] \in {"grow", "grow2"} => rebuilt = w * (n - k - 1) + v * k
  /\ pc[t] \in {"switch", "copy", "copy2"} => rebuilt = v * n
  /\ pc[t] \in {"copies", "mode"} =>
       IF op[t] = "mode" THEN Both(g, v * n) ELSE Both(g, w * n)

IInv ==
  /\ TypeOK /\ Counted /\ Control /\ Watched
  /\ ~ met => \A t \in Thread : BackupOf(t) /\ ReadOf(t)
  /\ ~ met /\ ~ astray => \A g \in Group, i \in If : Alone(i) => BitOf(g, i)
  /\ ~ met /\ ~ doubled =>
       /\ ~ overrun
       /\ \A t \in Thread : pc[t] \notin {"idle", "scan", "pass"} => LengthOf(t)
       /\ \A g \in Group : Quiet(g) => Both(g, WeightOf(weighted[g]) * Ports(g))
=============================================================================
