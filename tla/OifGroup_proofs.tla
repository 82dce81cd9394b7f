--------------------------- MODULE OifGroup_proofs ---------------------------
(***************************************************************************)
(* The masks, the lengths and the array in use of any number of output     *)
(* groups, for any number of interfaces, any weight and any width of the   *)
(* masks: the invariant of OifGroup is preserved by every step of the CLI  *)
(* and of the monitor, each a single access to what they share.            *)
(***************************************************************************)
EXTENDS OifGroup, Integers, FiniteSetTheorems, TLAPS

USE OifGroupAssumption

-----------------------------------------------------------------------------
(* Bits and masks.                                                         *)

\* The bit of an interface is the number of one.
LEMMA BitInIf == ASSUME NEW i \in If PROVE Bit(i) \in If /\ Bit(i) <= i
  <1>1. MaskBits \in Nat \ {0} /\ i \in Nat
    BY DEF If
  <1>2. Bit(i) \in 0 .. MaskBits - 1
    BY <1>1 DEF Bit
  <1>3. CASE i < MaskBits
    BY <1>1, <1>3 DEF Bit, If
  <1>4. CASE i >= MaskBits
    BY <1>1, <1>2, <1>4 DEF If
  <1> QED BY <1>1, <1>3, <1>4

\* The values that locals and counters are reset and set to.
LEMMA Ranges ==
  /\ 0 \in If /\ 0 \in Group /\ 0 \in 0 .. Wrap - 1
  /\ MaxPorts \in Nat /\ 0 \in 0 .. MaxPorts
  /\ \A i \in If : (i + 1) % MAX_IF_NUM \in If
  /\ \A n \in 0 .. Wrap - 1 : (n + 1) % Wrap \in 0 .. Wrap - 1
  /\ \A w \in BOOLEAN : WeightOf(w) \in Nat \ {0}
  <1>1. 0 \in If /\ 0 \in Group /\ 0 \in 0 .. Wrap - 1
    BY DEF If, Group
  <1>2. MaxPorts \in Nat
    BY DEF MaxPorts
  <1>3. \A i \in If : (i + 1) % MAX_IF_NUM \in If
    BY DEF If
  <1>4. \A n \in 0 .. Wrap - 1 : (n + 1) % Wrap \in 0 .. Wrap - 1
    OBVIOUS
  <1>5. \A w \in BOOLEAN : WeightOf(w) \in Nat \ {0}
    BY DEF WeightOf
  <1> QED BY <1>1, <1>2, <1>3, <1>4, <1>5

\* Masks stay masks when a bit is set or cleared.
LEMMA MasksAre ==
  /\ {} \in Masks
  /\ \A m \in Masks, i \in If : m \cup {Bit(i)} \in Masks /\ m \ {Bit(i)} \in Masks
  BY DEF Masks

\* A mask has no more bits than there are interfaces.
LEMMA MaskIsFinite ==
  ASSUME NEW m \in Masks
  PROVE  IsFiniteSet(m) /\ m \subseteq If /\ Cardinality(m) \in 0 .. MAX_IF_NUM
  <1>1. m \subseteq If
    BY BitInIf DEF Masks
  <1>2. IsFiniteSet(If) /\ Cardinality(If) = MAX_IF_NUM
    BY FS_Interval DEF If
  <1>3. IsFiniteSet(m) /\ Cardinality(m) <= Cardinality(If)
    BY <1>1, <1>2, FS_Subset
  <1>4. Cardinality(m) \in Nat
    BY <1>3, FS_CardinalityType
  <1> QED BY <1>1, <1>2, <1>3, <1>4

-----------------------------------------------------------------------------
(* The steps, without the histories.                                       *)

Step ==
  \/ Scan \/ TestMember \/ ReadWeight \/ CopyEntry \/ NextGroup \/ SaveLink
  \/ ReadLink \/ TestUp \/ NextPort \/ LastPort \/ CopyEnd \/ StoreMode
  \/ \E t \in Thread : Update(t)
  \/ \E g \in Group, i \in If : Add(g, i) \/ Del(g, i)
  \/ \E g \in Group, w \in BOOLEAN : SetMode(g, w)
  \/ \E i \in If : SetPhy(i)
  \/ UNCHANGED <<link_sts, masks, arrays, pc, locals>>

\* Every step is one of these, and either the histories are kept up or nothing happens.
LEMMA NextSteps ==
  ASSUME [Next]_vars
  PROVE  /\ Step
         /\ \/ Watch
            \/ UNCHANGED vars
  BY DEF Next, Step, MonitorStep, CommandStep, vars, Thread

\* The end of a command.
LEMMA ReturnType ==
  ASSUME TypeOK, Return, UNCHANGED <<link_sts, ifmask, up_ifmask, port_num, arrays>>,
         dn_port_num' \in [Group -> 0 .. Wrap - 1], {met', astray', doubled'} \subseteq BOOLEAN
  PROVE  TypeOK'
  <1>1. /\ pc' = [pc EXCEPT ![Cli] = "idle"] /\ op' = [op EXCEPT ![Cli] = "add"]
        /\ grp_id' = [grp_id EXCEPT ![Cli] = 0] /\ if_id' = [if_id EXCEPT ![Cli] = 0]
        /\ idx' = [idx EXCEPT ![Cli] = 0] /\ backup' = [backup EXCEPT ![Cli] = 0]
        /\ weight' = [weight EXCEPT ![Cli] = FALSE] /\ UNCHANGED <<mask, num>>
    BY DEF Return, Leave, Set
  <1>2. op' \in [Thread -> {"add", "del", "mode"}]
    BY <1>1 DEF TypeOK
  <1>3. grp_id' \in [Thread -> Group] /\ if_id' \in [Thread -> If]
    BY <1>1, Ranges DEF TypeOK
  <1>4. idx' \in [Thread -> Nat] /\ backup' \in [Thread -> 0 .. 1]
    <2>1. idx' \in [Thread -> Nat]
      BY <1>1 DEF TypeOK
    <2>2. 0 \in 0 .. 1 /\ backup' = [backup EXCEPT ![Cli] = 0]
      BY <1>1
    <2>3. backup' \in [Thread -> 0 .. 1]
      BY <2>2 DEF TypeOK
    <2> QED BY <2>1, <2>3
  <1>5. weight' \in [Thread -> BOOLEAN]
    BY <1>1 DEF TypeOK
  <1> QED BY <1>1, <1>2, <1>3, <1>4, <1>5 DEF TypeOK, link_sts, arrays

\* A step preserves the types; a member that is removed has been counted.
LEMMA StepType ==
  ASSUME TypeOK, Counted, Step, {met', astray', doubled'} \subseteq BOOLEAN
  PROVE  TypeOK'
  <1> USE DEF Set, link_sts, masks, arrays, locals, Thread, Cli, Monitor
  <1>1. ASSUME Scan PROVE TypeOK'
    BY <1>1, MasksAre, Ranges DEF TypeOK, Scan
  <1>2. ASSUME TestMember PROVE TypeOK'
    BY <1>2, MasksAre, Ranges DEF TypeOK, TestMember
  <1>3. ASSUME ReadWeight PROVE TypeOK'
    BY <1>3, MasksAre, Ranges DEF TypeOK, ReadWeight, Goto, Change
  <1>4. ASSUME CopyEntry PROVE TypeOK'
    BY <1>4, MasksAre, Ranges DEF TypeOK, CopyEntry
  <1>5. ASSUME NextGroup PROVE TypeOK'
    BY <1>5, MasksAre, Ranges DEF TypeOK, NextGroup, Leave, Goto
  <1>6. ASSUME SaveLink PROVE TypeOK'
    BY <1>6, MasksAre, Ranges DEF TypeOK, SaveLink
  <1>7. ASSUME ReadLink PROVE TypeOK'
    <2>1. CASE link[if_id[Cli]] = 0
      <3>1. dn_port_num' \in [Group -> 0 .. Wrap - 1]
        BY <1>7, <2>1, Ranges DEF TypeOK, ReadLink
      <3> QED BY <1>7, <2>1, <3>1, ReturnType DEF ReadLink
    <2>2. CASE ~ (link[if_id[Cli]] = 0)
      BY <1>7, <2>2, MasksAre, Ranges DEF TypeOK, ReadLink, Return, Leave, Goto
    <2> QED BY <2>1, <2>2
  <1>8. ASSUME TestUp PROVE TypeOK'
    <2>1. CASE Bit(if_id[Cli]) \in up_ifmask[grp_id[Cli]]
      BY <1>8, <2>1, MasksAre, Ranges DEF TypeOK, TestUp, Return, Leave, Goto
    <2>2. CASE ~ (Bit(if_id[Cli]) \in up_ifmask[grp_id[Cli]])
      <3>1. Return /\ UNCHANGED <<link_sts, masks, arrays>>
        BY <1>8, <2>2 DEF TestUp
      <3> QED BY <3>1, ReturnType DEF TypeOK, masks
    <2> QED BY <2>1, <2>2
  <1>9. ASSUME NextPort PROVE TypeOK'
    BY <1>9, MasksAre, Ranges DEF TypeOK, NextPort, Goto
  <1>10. ASSUME LastPort PROVE TypeOK'
    BY <1>10, MasksAre, Ranges DEF TypeOK, LastPort, Goto
  <1>11. ASSUME CopyEnd PROVE TypeOK'
    <2>1. CASE op[Cli] = "mode"
      BY <1>11, <2>1, MasksAre, Ranges DEF TypeOK, CopyEnd, Return, Leave, Goto
    <2>2. CASE ~ (op[Cli] = "mode")
      <3>1. Return /\ UNCHANGED <<link_sts, masks, arrays>>
        BY <1>11, <2>2 DEF CopyEnd
      <3> QED BY <3>1, ReturnType DEF TypeOK, masks
    <2> QED BY <2>1, <2>2
  <1>12. ASSUME StoreMode PROVE TypeOK'
    BY <1>12, MasksAre, Ranges DEF TypeOK, StoreMode, Return, Leave
  <1>13. ASSUME NEW t \in Thread, LoadMask(t) PROVE TypeOK'
    BY <1>13, MasksAre, Ranges DEF TypeOK, LoadMask, Goto
  <1>14. ASSUME NEW t \in Thread, StoreMask(t) PROVE TypeOK'
    BY <1>14, MasksAre, Ranges DEF TypeOK, StoreMask, Goto
  <1>15. ASSUME NEW t \in Thread, ReadMaster(t) PROVE TypeOK'
    BY <1>15, MasksAre, Ranges DEF TypeOK, ReadMaster, Goto, Change
  <1>16. ASSUME NEW t \in Thread, LoadLength(t, "shrink", "shrink2") PROVE TypeOK'
    BY <1>16, MasksAre, Ranges DEF TypeOK, LoadLength, Goto
  <1>17. ASSUME NEW t \in Thread, Shrink(t) PROVE TypeOK'
    <2>1. ASSUME Overrun PROVE TypeOK'
      BY <2>1 DEF TypeOK, Overrun
    <2> DEFINE w == WeightOf(IF op[t] = "mode" THEN ~ weight[t] ELSE weight[t])
               n == num[t] - w
    <2>2. ASSUME ~ num[t] < w PROVE TypeOK'
      <3>1. n \in 0 .. MaxPorts
        <4>1. (IF op[t] = "mode" THEN ~ weight[t] ELSE weight[t]) \in BOOLEAN
          BY DEF TypeOK
        <4>2. w \in Nat /\ num[t] \in 0 .. MaxPorts /\ MaxPorts \in Nat
          BY <4>1, Ranges DEF TypeOK
        <4> HIDE DEF w
        <4> QED BY <4>2, <2>2
      <3>2. StoreLength(t, n) /\ Goto(t, "shrink2", IF op[t] = "mode" THEN "grow" ELSE "switch")
        BY <1>17, <2>2 DEF Shrink
      <3>3. UNCHANGED idx
        BY <1>17, <2>2 DEF Shrink
      <3> HIDE DEF n
      <3> QED BY <3>1, <3>2, <3>3, Ranges DEF TypeOK, Goto, StoreLength
    <2> QED BY <1>17, <2>1, <2>2 DEF Shrink
  <1>18. ASSUME NEW t \in Thread, LoadLength(t, "grow", "grow2") PROVE TypeOK'
    BY <1>18, MasksAre, Ranges DEF TypeOK, LoadLength, Goto
  <1>19. ASSUME NEW t \in Thread, Grow(t) PROVE TypeOK'
    <2>1. ASSUME Overrun PROVE TypeOK'
      BY <2>1 DEF TypeOK, Overrun
    <2> DEFINE n == num[t] + WeightOf(weight[t])
    <2>2. ASSUME ~ n > MaxPorts PROVE TypeOK'
      <3>1. n \in 0 .. MaxPorts
        <4>1. num[t] \in Nat /\ WeightOf(weight[t]) \in Nat /\ MaxPorts \in Nat
          BY Ranges DEF TypeOK
        <4> QED BY <4>1, <2>2
      <3>2. StoreLength(t, n) /\ Goto(t, "grow2", IF op[t] = "mode" THEN "loop" ELSE "switch")
        BY <1>19, <2>2 DEF Grow
      <3>3. idx' \in [Thread -> Nat]
        <4>1. idx' = IF op[t] = "mode" THEN Set(idx, t, idx[t] + 1) ELSE idx
          BY <1>19, <2>2 DEF Grow
        <4> QED BY <4>1 DEF TypeOK, Set
      <3> HIDE DEF n
      <3> QED BY <3>1, <3>2, <3>3, Ranges DEF TypeOK, Goto, StoreLength
    <2> QED BY <1>19, <2>1, <2>2 DEF Grow
  <1>20. ASSUME NEW t \in Thread, Switch(t) PROVE TypeOK'
    BY <1>20, MasksAre, Ranges DEF TypeOK, Switch, Goto
  <1>21. ASSUME NEW t \in Thread, LoadLength(t, "copy", "copy2") PROVE TypeOK'
    BY <1>21, MasksAre, Ranges DEF TypeOK, LoadLength, Goto
  <1>22. ASSUME NEW t \in Thread, StoreCopy(t) PROVE TypeOK'
    BY <1>22, MasksAre, Ranges DEF TypeOK, StoreCopy, Goto
  <1>23. ASSUME NEW g \in Group, NEW i \in If, Add(g, i) PROVE TypeOK'
    <2>1. ifmask' \in [Group -> Masks] /\ port_num' \in [Group -> Nat]
      <3>1. ifmask' \in [Group -> Masks]
        BY <1>23, MasksAre DEF TypeOK, Add
      <3>2. port_num' = [port_num EXCEPT ![g] = @ + 1]
        BY <1>23 DEF Add
      <3>3. port_num' \in [Group -> Nat]
        BY <3>2 DEF TypeOK
      <3> QED BY <3>1, <3>3
    <2> QED BY <1>23, <2>1 DEF TypeOK, Add, Command, Goto
  <1>24. ASSUME NEW g \in Group, NEW i \in If, Del(g, i) PROVE TypeOK'
    <2>1. port_num[g] \in Nat /\ port_num[g] - 1 \in Nat
      <3>1. ifmask[g] \in Masks /\ Bit(i) \in ifmask[g] /\ port_num[g] = Cardinality(ifmask[g])
        BY <1>24 DEF TypeOK, Del, Counted
      <3>2. Cardinality(ifmask[g]) \in Nat /\ Cardinality(ifmask[g]) # 0
        BY <3>1, MaskIsFinite, FS_EmptySet
      <3> QED BY <3>1, <3>2
    <2>2. ifmask' \in [Group -> Masks] /\ port_num' \in [Group -> Nat]
      <3>1. ifmask' \in [Group -> Masks]
        BY <1>24, MasksAre DEF TypeOK, Del
      <3>2. port_num' = [port_num EXCEPT ![g] = @ - 1]
        BY <1>24 DEF Del
      <3> DEFINE n == port_num[g] - 1
      <3>3. port_num' = [port_num EXCEPT ![g] = n] /\ n \in Nat
        BY <2>1, <3>2
      <3> HIDE DEF n
      <3>4. port_num' \in [Group -> Nat]
        BY <3>3 DEF TypeOK
      <3> QED BY <3>1, <3>4
    <2> QED BY <1>24, <2>2 DEF TypeOK, Del, Command, Goto
  <1>25. ASSUME NEW g \in Group, NEW w \in BOOLEAN, SetMode(g, w) PROVE TypeOK'
    BY <1>25, MasksAre, Ranges DEF TypeOK, SetMode, Command, Goto
  <1>26. ASSUME NEW i \in If, SetPhy(i) PROVE TypeOK'
    BY <1>26, MasksAre, Ranges DEF TypeOK, SetPhy
  <1>27. ASSUME UNCHANGED <<link_sts, masks, arrays, pc, locals>> PROVE TypeOK'
    BY <1>27, MasksAre, Ranges DEF TypeOK
  <1> QED BY <1>1, <1>2, <1>3, <1>4, <1>5, <1>6, <1>7, <1>8, <1>9, <1>10, <1>11, <1>12, <1>13,
     <1>14, <1>15, <1>16, <1>17, <1>18, <1>19, <1>20, <1>21, <1>22, <1>23, <1>24, <1>25, <1>26,
     <1>27 DEF Step, Update

\* A step preserves what may follow what.
LEMMA StepControl ==
  ASSUME TypeOK, Control, Step
  PROVE  Control'
  <1> USE DEF Set, link_sts, masks, arrays, locals, Thread, Cli, Monitor
  <1>0. /\ pc = [t \in Thread |-> pc[t]] /\ op \in [Thread -> {"add", "del", "mode"}]
        /\ idx \in [Thread -> Nat] /\ MAX_IF_NUM \in Nat \ {0}
    BY DEF TypeOK
  <1>1. ASSUME Scan PROVE Control'
    BY <1>1, <1>0 DEF Control, If, Scan
  <1>2. ASSUME TestMember PROVE Control'
    BY <1>2, <1>0 DEF Control, If, TestMember
  <1>3. ASSUME ReadWeight PROVE Control'
    BY <1>3, <1>0 DEF Control, If, ReadWeight, Goto, Change
  <1>4. ASSUME CopyEntry PROVE Control'
    BY <1>4, <1>0 DEF Control, If, CopyEntry
  <1>5. ASSUME NextGroup PROVE Control'
    BY <1>5, <1>0 DEF Control, If, NextGroup, Leave, Goto
  <1>6. ASSUME SaveLink PROVE Control'
    BY <1>6, <1>0 DEF Control, If, SaveLink
  <1>7. ASSUME ReadLink PROVE Control'
    BY <1>7, <1>0 DEF Control, If, ReadLink, Return, Leave, Goto
  <1>8. ASSUME TestUp PROVE Control'
    BY <1>8, <1>0 DEF Control, If, TestUp, Return, Leave, Goto
  <1>9. ASSUME NextPort PROVE Control'
    BY <1>9, <1>0 DEF Control, If, NextPort, Goto
  <1>10. ASSUME LastPort PROVE Control'
    BY <1>10, <1>0 DEF Control, If, LastPort, Goto
  <1>11. ASSUME CopyEnd PROVE Control'
    BY <1>11, <1>0 DEF Control, If, CopyEnd, Return, Leave, Goto
  <1>12. ASSUME StoreMode PROVE Control'
    BY <1>12, <1>0 DEF Control, If, StoreMode, Return, Leave
  <1>13. ASSUME NEW t \in Thread, LoadMask(t) PROVE Control'
    BY <1>13, <1>0 DEF Control, If, LoadMask, Goto
  <1>14. ASSUME NEW t \in Thread, StoreMask(t) PROVE Control'
    BY <1>14, <1>0 DEF Control, If, StoreMask, Goto
  <1>15. ASSUME NEW t \in Thread, ReadMaster(t) PROVE Control'
    BY <1>15, <1>0 DEF Control, If, ReadMaster, Goto, Change
  <1>16. ASSUME NEW t \in Thread, LoadLength(t, "shrink", "shrink2") PROVE Control'
    BY <1>16, <1>0 DEF Control, If, LoadLength, Goto
  <1>17. ASSUME NEW t \in Thread, Shrink(t) PROVE Control'
    BY <1>17, <1>0 DEF Control, If, Shrink, Goto, StoreLength, Overrun
  <1>18. ASSUME NEW t \in Thread, LoadLength(t, "grow", "grow2") PROVE Control'
    BY <1>18, <1>0 DEF Control, If, LoadLength, Goto
  <1>19. ASSUME NEW t \in Thread, Grow(t) PROVE Control'
    BY <1>19, <1>0 DEF Control, If, Grow, Goto, StoreLength, Overrun
  <1>20. ASSUME NEW t \in Thread, Switch(t) PROVE Control'
    BY <1>20, <1>0 DEF Control, If, Switch, Goto
  <1>21. ASSUME NEW t \in Thread, LoadLength(t, "copy", "copy2") PROVE Control'
    BY <1>21, <1>0 DEF Control, If, LoadLength, Goto
  <1>22. ASSUME NEW t \in Thread, StoreCopy(t) PROVE Control'
    BY <1>22, <1>0 DEF Control, If, StoreCopy, Goto
  <1>23. ASSUME NEW g \in Group, NEW i \in If, Add(g, i) PROVE Control'
    BY <1>23, <1>0 DEF Control, If, Add, Command, Goto
  <1>24. ASSUME NEW g \in Group, NEW i \in If, Del(g, i) PROVE Control'
    BY <1>24, <1>0 DEF Control, If, Del, Command, Goto
  <1>25. ASSUME NEW g \in Group, NEW w \in BOOLEAN, SetMode(g, w) PROVE Control'
    BY <1>25, <1>0 DEF Control, If, SetMode, Command, Goto
  <1>26. ASSUME NEW i \in If, SetPhy(i) PROVE Control'
    BY <1>26, <1>0 DEF Control, If, SetPhy
  <1>27. ASSUME UNCHANGED <<link_sts, masks, arrays, pc, locals>> PROVE Control'
    BY <1>27, <1>0 DEF Control, If
  <1> QED BY <1>1, <1>2, <1>3, <1>4, <1>5, <1>6, <1>7, <1>8, <1>9, <1>10, <1>11, <1>12, <1>13,
     <1>14, <1>15, <1>16, <1>17, <1>18, <1>19, <1>20, <1>21, <1>22, <1>23, <1>24, <1>25, <1>26,
     <1>27 DEF Step, Update

\* The histories tell in the next state as in this one.
LEMMA StepWatched ==
  ASSUME Watched, {met, astray, doubled} \subseteq BOOLEAN, Watch \/ UNCHANGED vars
  PROVE  Watched' /\ {met', astray', doubled'} \subseteq BOOLEAN
  <1>1. CASE Watch
    BY <1>1 DEF Watch, Watched
  <1>2. CASE UNCHANGED vars
    BY <1>2 DEF vars, link_sts, masks, arrays, locals, Watched, Meeting, Jumping, Doubling, In,
                Handles, Passed, Copied
  <1> QED BY <1>1, <1>2

\* Only adding and removing a member changes the members and their number.
LEMMA StepCounted ==
  ASSUME TypeOK, Counted, Step
  PROVE  Counted'
  <1>1. CASE UNCHANGED <<ifmask, port_num>>
    BY <1>1 DEF Counted
  <1>2. ASSUME NEW g \in Group, NEW i \in If, Add(g, i) PROVE Counted'
    <2>1. \A h \in Group : /\ ifmask[h] \in Masks
                           /\ ifmask'[h] = IF h = g THEN ifmask[g] \cup {Bit(i)} ELSE ifmask[h]
                           /\ port_num'[h] = IF h = g THEN port_num[g] + 1 ELSE port_num[h]
      BY <1>2 DEF Add, TypeOK
    <2>2. Cardinality(ifmask[g] \cup {Bit(i)}) = Cardinality(ifmask[g]) + 1
      BY <1>2, <2>1, MaskIsFinite, FS_AddElement DEF Add
    <2> QED BY <2>1, <2>2 DEF Counted
  <1>3. ASSUME NEW g \in Group, NEW i \in If, Del(g, i) PROVE Counted'
    <2>1. \A h \in Group : /\ ifmask[h] \in Masks
                           /\ ifmask'[h] = IF h = g THEN ifmask[g] \ {Bit(i)} ELSE ifmask[h]
                           /\ port_num'[h] = IF h = g THEN port_num[g] - 1 ELSE port_num[h]
      BY <1>3 DEF Del, TypeOK
    <2>2. Cardinality(ifmask[g] \ {Bit(i)}) = Cardinality(ifmask[g]) - 1
      BY <1>3, <2>1, MaskIsFinite, FS_RemoveElement DEF Del
    <2> QED BY <2>1, <2>2 DEF Counted
  <1>4. \/ UNCHANGED <<ifmask, port_num>>
        \/ \E g \in Group, i \in If : Add(g, i) \/ Del(g, i)
    BY DEF Step, Scan, TestMember, ReadWeight, CopyEntry, NextGroup, SaveLink, ReadLink, TestUp,
           NextPort, LastPort, CopyEnd, StoreMode, Update, LoadMask, StoreMask, ReadMaster,
           LoadLength, Shrink, Grow, StoreLength, Overrun, Switch, StoreCopy, SetMode, Command,
           SetPhy, masks
  <1> QED BY <1>1, <1>2, <1>3, <1>4

-----------------------------------------------------------------------------
(* Threads that do not meet.                                               *)

Inside(t) == pc[t] \notin {"idle", "scan", "pass"}

\* If the threads do not meet, they are at work on different groups.
LEMMA Asunder ==
  ASSUME TypeOK, ~ Meeting
  PROVE  \A s, t \in Thread : s # t /\ Inside(s) /\ Inside(t) => grp_id[s] # grp_id[t]
  BY DEF TypeOK, Meeting, In, Inside, Thread, Cli, Monitor

\* Only the thread itself switches the arrays of the group it is at work on.
LEMMA StepBackup ==
  ASSUME TypeOK, Control, ~ Meeting, NEW s \in Thread, BackupOf(s), Step
  PROVE  BackupOf(s)'
  <1> USE DEF Set, link_sts, masks, arrays, locals, Thread, Cli, Monitor
  <1>0. /\ pc = [u \in Thread |-> pc[u]] /\ grp_id \in [Thread -> Group]
        /\ backup \in [Thread -> 0 .. 1] /\ master \in [Group -> 0 .. 1]
        /\ \A u \in Thread : s # u /\ Inside(s) /\ Inside(u) => grp_id[s] # grp_id[u]
        /\ \A u \in Thread : Change(op[u]) \in {"grow", "shrink", "loop"}
    BY Asunder DEF TypeOK, Change
  <1>1. ASSUME Scan PROVE BackupOf(s)'
    BY <1>1, <1>0 DEF BackupOf, Inside, Scan
  <1>2. ASSUME TestMember PROVE BackupOf(s)'
    BY <1>2, <1>0 DEF BackupOf, Inside, TestMember
  <1>3. ASSUME ReadWeight PROVE BackupOf(s)'
    BY <1>3, <1>0 DEF BackupOf, Inside, ReadWeight, Goto
  <1>4. ASSUME CopyEntry PROVE BackupOf(s)'
    BY <1>4, <1>0 DEF BackupOf, Inside, CopyEntry
  <1>5. ASSUME NextGroup PROVE BackupOf(s)'
    BY <1>5, <1>0 DEF BackupOf, Inside, NextGroup, Leave, Goto
  <1>6. ASSUME SaveLink PROVE BackupOf(s)'
    BY <1>6, <1>0 DEF BackupOf, Inside, SaveLink
  <1>7. ASSUME ReadLink PROVE BackupOf(s)'
    BY <1>7, <1>0 DEF BackupOf, Inside, ReadLink, Return, Leave, Goto
  <1>8. ASSUME TestUp PROVE BackupOf(s)'
    BY <1>8, <1>0 DEF BackupOf, Inside, TestUp, Return, Leave, Goto
  <1>9. ASSUME NextPort PROVE BackupOf(s)'
    BY <1>9, <1>0 DEF BackupOf, Inside, NextPort, Goto
  <1>10. ASSUME LastPort PROVE BackupOf(s)'
    BY <1>10, <1>0 DEF BackupOf, Inside, LastPort, Goto
  <1>11. ASSUME CopyEnd PROVE BackupOf(s)'
    BY <1>11, <1>0 DEF BackupOf, Inside, CopyEnd, Return, Leave, Goto
  <1>12. ASSUME StoreMode PROVE BackupOf(s)'
    BY <1>12, <1>0 DEF BackupOf, Inside, StoreMode, Return, Leave
  <1>13. ASSUME NEW t \in Thread, LoadMask(t) PROVE BackupOf(s)'
    BY <1>13, <1>0 DEF BackupOf, Inside, LoadMask, Goto
  <1>14. ASSUME NEW t \in Thread, StoreMask(t) PROVE BackupOf(s)'
    BY <1>14, <1>0 DEF BackupOf, Inside, StoreMask, Goto
  <1>15. ASSUME NEW t \in Thread, ReadMaster(t) PROVE BackupOf(s)'
    BY <1>15, <1>0 DEF BackupOf, Inside, ReadMaster, Goto
  <1>16. ASSUME NEW t \in Thread, LoadLength(t, "shrink", "shrink2") PROVE BackupOf(s)'
    BY <1>16, <1>0 DEF BackupOf, Inside, LoadLength, Goto
  <1>17. ASSUME NEW t \in Thread, Shrink(t) PROVE BackupOf(s)'
    BY <1>17, <1>0 DEF BackupOf, Inside, Shrink, Goto, StoreLength, Overrun
  <1>18. ASSUME NEW t \in Thread, LoadLength(t, "grow", "grow2") PROVE BackupOf(s)'
    BY <1>18, <1>0 DEF BackupOf, Inside, LoadLength, Goto
  <1>19. ASSUME NEW t \in Thread, Grow(t) PROVE BackupOf(s)'
    BY <1>19, <1>0 DEF BackupOf, Inside, Grow, Goto, StoreLength, Overrun
  <1>20. ASSUME NEW t \in Thread, Switch(t) PROVE BackupOf(s)'
    BY <1>20, <1>0 DEF BackupOf, Inside, Switch, Goto
  <1>21. ASSUME NEW t \in Thread, LoadLength(t, "copy", "copy2") PROVE BackupOf(s)'
    BY <1>21, <1>0 DEF BackupOf, Inside, LoadLength, Goto
  <1>22. ASSUME NEW t \in Thread, StoreCopy(t) PROVE BackupOf(s)'
    BY <1>22, <1>0 DEF BackupOf, Inside, StoreCopy, Goto
  <1>23. ASSUME NEW g \in Group, NEW i \in If, Add(g, i) PROVE BackupOf(s)'
    BY <1>23, <1>0 DEF BackupOf, Inside, Add, Command, Goto
  <1>24. ASSUME NEW g \in Group, NEW i \in If, Del(g, i) PROVE BackupOf(s)'
    BY <1>24, <1>0 DEF BackupOf, Inside, Del, Command, Goto
  <1>25. ASSUME NEW g \in Group, NEW w \in BOOLEAN, SetMode(g, w) PROVE BackupOf(s)'
    BY <1>25, <1>0 DEF BackupOf, Inside, SetMode, Command, Goto
  <1>26. ASSUME NEW i \in If, SetPhy(i) PROVE BackupOf(s)'
    BY <1>26, <1>0 DEF BackupOf, Inside, SetPhy
  <1>27. ASSUME UNCHANGED <<link_sts, masks, arrays, pc, locals>> PROVE BackupOf(s)'
    BY <1>27, <1>0 DEF BackupOf, Inside
  <1> QED BY <1>1, <1>2, <1>3, <1>4, <1>5, <1>6, <1>7, <1>8, <1>9, <1>10, <1>11, <1>12, <1>13,
     <1>14, <1>15, <1>16, <1>17, <1>18, <1>19, <1>20, <1>21, <1>22, <1>23, <1>24, <1>25, <1>26,
     <1>27 DEF Step, Update

\* Nobody changes what a thread has read of its group.
LEMMA StepRead ==
  ASSUME TypeOK, Control, ~ Meeting, NEW s \in Thread, ReadOf(s), Step
  PROVE  ReadOf(s)'
  <1> USE DEF Set, link_sts, masks, arrays, locals, Thread, Cli, Monitor
  <1>0. /\ pc = [u \in Thread |-> pc[u]] /\ op \in [Thread -> {"add", "del", "mode"}]
        /\ grp_id \in [Thread -> Group] /\ if_id \in [Thread -> If]
        /\ backup \in [Thread -> 0 .. 1] /\ idx = [u \in Thread |-> idx[u]]
        /\ mask = [u \in Thread |-> mask[u]] /\ num = [u \in Thread |-> num[u]]
        /\ weight \in [Thread -> BOOLEAN] /\ weighted \in [Group -> BOOLEAN]
        /\ up_ifmask = [g \in Group |-> up_ifmask[g]]
        /\ up_port_num \in [Group -> [0 .. 1 -> 0 .. MaxPorts]]
        /\ \A u \in Thread : s # u /\ Inside(s) /\ Inside(u) => grp_id[s] # grp_id[u]
        /\ \A u \in Thread : Change(op[u]) \in {"grow", "shrink", "loop"}
    BY Asunder DEF TypeOK, Change
  <1>1. ASSUME Scan PROVE ReadOf(s)'
    BY <1>1, <1>0 DEF Control, ReadOf, Inside, Scan
  <1>2. ASSUME TestMember PROVE ReadOf(s)'
    BY <1>2, <1>0 DEF Control, ReadOf, Inside, TestMember
  <1>3. ASSUME ReadWeight PROVE ReadOf(s)'
    BY <1>3, <1>0 DEF Control, ReadOf, Inside, ReadWeight, Goto, Change
  <1>4. ASSUME CopyEntry PROVE ReadOf(s)'
    BY <1>4, <1>0 DEF Control, ReadOf, Inside, CopyEntry
  <1>5. ASSUME NextGroup PROVE ReadOf(s)'
    BY <1>5, <1>0 DEF Control, ReadOf, Inside, NextGroup, Leave, Goto
  <1>6. ASSUME SaveLink PROVE ReadOf(s)'
    BY <1>6, <1>0 DEF Control, ReadOf, Inside, SaveLink
  <1>7. ASSUME ReadLink PROVE ReadOf(s)'
    BY <1>7, <1>0 DEF Control, ReadOf, Inside, ReadLink, Return, Leave, Goto
  <1>8. ASSUME TestUp PROVE ReadOf(s)'
    BY <1>8, <1>0 DEF Control, ReadOf, Inside, TestUp, Return, Leave, Goto
  <1>9. ASSUME NextPort PROVE ReadOf(s)'
    BY <1>9, <1>0 DEF Control, ReadOf, Inside, NextPort, Goto
  <1>10. ASSUME LastPort PROVE ReadOf(s)'
    BY <1>10, <1>0 DEF Control, ReadOf, Inside, LastPort, Goto
  <1>11. ASSUME CopyEnd PROVE ReadOf(s)'
    BY <1>11, <1>0 DEF Control, ReadOf, Inside, CopyEnd, Return, Leave, Goto
  <1>12. ASSUME StoreMode PROVE ReadOf(s)'
    BY <1>12, <1>0 DEF Control, ReadOf, Inside, StoreMode, Return, Leave
  <1>13. ASSUME NEW t \in Thread, LoadMask(t) PROVE ReadOf(s)'
    BY <1>13, <1>0 DEF Control, ReadOf, Inside, LoadMask, Goto
  <1>14. ASSUME NEW t \in Thread, StoreMask(t) PROVE ReadOf(s)'
    BY <1>14, <1>0 DEF Control, ReadOf, Inside, StoreMask, Goto
  <1>15. ASSUME NEW t \in Thread, ReadMaster(t) PROVE ReadOf(s)'
    BY <1>15, <1>0 DEF Control, ReadOf, Inside, ReadMaster, Goto, Change
  <1>16. ASSUME NEW t \in Thread, LoadLength(t, "shrink", "shrink2") PROVE ReadOf(s)'
    BY <1>16, <1>0 DEF Control, ReadOf, Inside, LoadLength, Goto
  <1>17. ASSUME NEW t \in Thread, Shrink(t) PROVE ReadOf(s)'
    BY <1>17, <1>0 DEF Control, ReadOf, Inside, Shrink, Goto, StoreLength, Overrun
  <1>18. ASSUME NEW t \in Thread, LoadLength(t, "grow", "grow2") PROVE ReadOf(s)'
    BY <1>18, <1>0 DEF Control, ReadOf, Inside, LoadLength, Goto
  <1>19. ASSUME NEW t \in Thread, Grow(t) PROVE ReadOf(s)'
    BY <1>19, <1>0 DEF Control, ReadOf, Inside, Grow, Goto, StoreLength, Overrun
  <1>20. ASSUME NEW t \in Thread, Switch(t) PROVE ReadOf(s)'
    BY <1>20, <1>0 DEF Control, ReadOf, Inside, Switch, Goto
  <1>21. ASSUME NEW t \in Thread, LoadLength(t, "copy", "copy2") PROVE ReadOf(s)'
    BY <1>21, <1>0 DEF Control, ReadOf, Inside, LoadLength, Goto
  <1>22. ASSUME NEW t \in Thread, StoreCopy(t) PROVE ReadOf(s)'
    BY <1>22, <1>0 DEF Control, ReadOf, Inside, StoreCopy, Goto
  <1>23. ASSUME NEW g \in Group, NEW i \in If, Add(g, i) PROVE ReadOf(s)'
    BY <1>23, <1>0 DEF Control, ReadOf, Inside, Add, Command, Goto
  <1>24. ASSUME NEW g \in Group, NEW i \in If, Del(g, i) PROVE ReadOf(s)'
    BY <1>24, <1>0 DEF Control, ReadOf, Inside, Del, Command, Goto
  <1>25. ASSUME NEW g \in Group, NEW w \in BOOLEAN, SetMode(g, w) PROVE ReadOf(s)'
    BY <1>25, <1>0 DEF Control, ReadOf, Inside, SetMode, Command, Goto
  <1>26. ASSUME NEW i \in If, SetPhy(i) PROVE ReadOf(s)'
    BY <1>26, <1>0 DEF Control, ReadOf, Inside, SetPhy
  <1>27. ASSUME UNCHANGED <<link_sts, masks, arrays, pc, locals>> PROVE ReadOf(s)'
    BY <1>27, <1>0 DEF Control, ReadOf, Inside
  <1> QED BY <1>1, <1>2, <1>3, <1>4, <1>5, <1>6, <1>7, <1>8, <1>9, <1>10, <1>11, <1>12, <1>13,
     <1>14, <1>15, <1>16, <1>17, <1>18, <1>19, <1>20, <1>21, <1>22, <1>23, <1>24, <1>25, <1>26,
     <1>27 DEF Step, Update

-----------------------------------------------------------------------------
(* The mask of the interfaces that are up.                                 *)

\* A step preserves the bit of an interface that shares it with no other one, unless the
\* monitor goes astray.
LEMMA StepBit ==
  ASSUME TypeOK, Control, ~ Meeting, ~ Meeting', ~ Jumping, \A t \in Thread : ReadOf(t),
         NEW g \in Group, NEW i \in If, Alone(i), BitOf(g, i), Step
  PROVE  BitOf(g, i)'
  <1> USE DEF Set, link_sts, masks, arrays, locals, Thread, Cli, Monitor
  <1>0. /\ pc = [u \in Thread |-> pc[u]] /\ op \in [Thread -> {"add", "del", "mode"}]
        /\ grp_id \in [Thread -> Group] /\ if_id \in [Thread -> If] /\ idx \in [Thread -> Nat]
        /\ link = [j \in If |-> link[j]] /\ link[i] \in 0 .. 1
        /\ ifmask = [h \in Group |-> ifmask[h]] /\ up_ifmask = [h \in Group |-> up_ifmask[h]]
    BY DEF TypeOK
  <1>c. Group \subseteq Nat /\ g \in Nat
    BY DEF Group
  <1>a. /\ ~ (In(Cli, g) /\ In(Monitor, g))
        /\ ~ (In(Cli, g)' /\ In(Monitor, g)')
        /\ ~ (pc[Cli] = "link" /\ Handles(if_id[Cli]) /\ Passed(grp_id[Cli]))
    BY DEF Meeting
  <1>b. \A j \in If : Bit(j) = Bit(i) => j = i
    BY DEF Alone
  <1>1. ASSUME Scan PROVE BitOf(g, i)'
    BY <1>1, <1>0, <1>a, <1>b, <1>c
       DEF BitOf, Done, Handles, Passed, In, Adding, Deleting, Control, Scan
  <1>2. ASSUME TestMember PROVE BitOf(g, i)'
    BY <1>2, <1>0, <1>a, <1>b, <1>c
       DEF BitOf, Done, Handles, Passed, In, Adding, Deleting, Control, TestMember
  <1>3. ASSUME ReadWeight PROVE BitOf(g, i)'
    BY <1>3, <1>0, <1>a, <1>b, <1>c
       DEF BitOf, Done, Handles, Passed, In, Adding, Deleting, Control, ReadWeight, Goto, Change
  <1>4. ASSUME CopyEntry PROVE BitOf(g, i)'
    BY <1>4, <1>0, <1>a, <1>b, <1>c
       DEF BitOf, Done, Handles, Passed, In, Adding, Deleting, Control, CopyEntry
  <1>5. ASSUME NextGroup PROVE BitOf(g, i)'
    BY <1>5, <1>0, <1>a, <1>b, <1>c
       DEF BitOf, Done, Handles, Passed, In, Adding, Deleting, Control, Jumping, NextGroup,
           Leave, Goto
  <1>6. ASSUME SaveLink PROVE BitOf(g, i)'
    BY <1>6, <1>0, <1>a, <1>b, <1>c
       DEF BitOf, Done, Handles, Passed, In, Adding, Deleting, Control, Group, SaveLink
  <1>7. ASSUME ReadLink PROVE BitOf(g, i)'
    BY <1>7, <1>0, <1>a, <1>b, <1>c
       DEF BitOf, Done, Handles, Passed, In, Adding, Deleting, Control, ReadLink, Return, Leave,
           Goto
  <1>8. ASSUME TestUp PROVE BitOf(g, i)'
    BY <1>8, <1>0, <1>a, <1>b, <1>c
       DEF BitOf, Done, Handles, Passed, In, Adding, Deleting, Control, TestUp, Return, Leave,
           Goto
  <1>9. ASSUME NextPort PROVE BitOf(g, i)'
    BY <1>9, <1>0, <1>a, <1>b, <1>c
       DEF BitOf, Done, Handles, Passed, In, Adding, Deleting, Control, NextPort, Goto
  <1>10. ASSUME LastPort PROVE BitOf(g, i)'
    BY <1>10, <1>0, <1>a, <1>b, <1>c
       DEF BitOf, Done, Handles, Passed, In, Adding, Deleting, Control, LastPort, Goto
  <1>11. ASSUME CopyEnd PROVE BitOf(g, i)'
    BY <1>11, <1>0, <1>a, <1>b, <1>c
       DEF BitOf, Done, Handles, Passed, In, Adding, Deleting, Control, CopyEnd, Return, Leave,
           Goto
  <1>12. ASSUME StoreMode PROVE BitOf(g, i)'
    BY <1>12, <1>0, <1>a, <1>b, <1>c
       DEF BitOf, Done, Handles, Passed, In, Adding, Deleting, Control, StoreMode, Return, Leave
  <1>13. ASSUME NEW t \in Thread, LoadMask(t) PROVE BitOf(g, i)'
    BY <1>13, <1>0, <1>a, <1>b, <1>c
       DEF BitOf, Done, Handles, Passed, In, Adding, Deleting, Control, LoadMask, Goto
  <1>14. ASSUME NEW t \in Thread, StoreMask(t) PROVE BitOf(g, i)'
    BY <1>14, <1>0, <1>a, <1>b, <1>c
       DEF BitOf, Done, Handles, Passed, In, Adding, Deleting, Control, ReadOf, StoreMask, Goto
  <1>15. ASSUME NEW t \in Thread, ReadMaster(t) PROVE BitOf(g, i)'
    BY <1>15, <1>0, <1>a, <1>b, <1>c
       DEF BitOf, Done, Handles, Passed, In, Adding, Deleting, Control, ReadMaster, Goto, Change
  <1>16. ASSUME NEW t \in Thread, LoadLength(t, "shrink", "shrink2") PROVE BitOf(g, i)'
    BY <1>16, <1>0, <1>a, <1>b, <1>c
       DEF BitOf, Done, Handles, Passed, In, Adding, Deleting, Control, LoadLength, Goto
  <1>17. ASSUME NEW t \in Thread, Shrink(t) PROVE BitOf(g, i)'
    BY <1>17, <1>0, <1>a, <1>b, <1>c
       DEF BitOf, Done, Handles, Passed, In, Adding, Deleting, Control, Shrink, Goto,
           StoreLength, Overrun
  <1>18. ASSUME NEW t \in Thread, LoadLength(t, "grow", "grow2") PROVE BitOf(g, i)'
    BY <1>18, <1>0, <1>a, <1>b, <1>c
       DEF BitOf, Done, Handles, Passed, In, Adding, Deleting, Control, LoadLength, Goto
  <1>19. ASSUME NEW t \in Thread, Grow(t) PROVE BitOf(g, i)'
    BY <1>19, <1>0, <1>a, <1>b, <1>c
       DEF BitOf, Done, Handles, Passed, In, Adding, Deleting, Control, Grow, Goto, StoreLength,
           Overrun
  <1>20. ASSUME NEW t \in Thread, Switch(t) PROVE BitOf(g, i)'
    BY <1>20, <1>0, <1>a, <1>b, <1>c
       DEF BitOf, Done, Handles, Passed, In, Adding, Deleting, Control, Switch, Goto
  <1>21. ASSUME NEW t \in Thread, LoadLength(t, "copy", "copy2") PROVE BitOf(g, i)'
    BY <1>21, <1>0, <1>a, <1>b, <1>c
       DEF BitOf, Done, Handles, Passed, In, Adding, Deleting, Control, LoadLength, Goto
  <1>22. ASSUME NEW t \in Thread, StoreCopy(t) PROVE BitOf(g, i)'
    BY <1>22, <1>0, <1>a, <1>b, <1>c
       DEF BitOf, Done, Handles, Passed, In, Adding, Deleting, Control, StoreCopy, Goto
  <1>23. ASSUME NEW h \in Group, NEW j \in If, Add(h, j) PROVE BitOf(g, i)'
    BY <1>23, <1>0, <1>a, <1>b, <1>c
       DEF BitOf, Done, Handles, Passed, In, Adding, Deleting, Control, Add, Command, Goto
  <1>24. ASSUME NEW h \in Group, NEW j \in If, Del(h, j) PROVE BitOf(g, i)'
    BY <1>24, <1>0, <1>a, <1>b, <1>c
       DEF BitOf, Done, Handles, Passed, In, Adding, Deleting, Control, Del, Command, Goto
  <1>25. ASSUME NEW h \in Group, NEW w \in BOOLEAN, SetMode(h, w) PROVE BitOf(g, i)'
    BY <1>25, <1>0, <1>a, <1>b, <1>c
       DEF BitOf, Done, Handles, Passed, In, Adding, Deleting, Control, SetMode, Command, Goto
  <1>26. ASSUME NEW j \in If, SetPhy(j) PROVE BitOf(g, i)'
    BY <1>26, <1>0, <1>a, <1>b, <1>c
       DEF BitOf, Done, Handles, Passed, In, Adding, Deleting, Control, SetPhy
  <1>27. ASSUME UNCHANGED <<link_sts, masks, arrays, pc, locals>> PROVE BitOf(g, i)'
    BY <1>27, <1>0, <1>a, <1>b, <1>c
       DEF BitOf, Done, Handles, Passed, In, Adding, Deleting, Control
  <1> QED BY <1>1, <1>2, <1>3, <1>4, <1>5, <1>6, <1>7, <1>8, <1>9, <1>10, <1>11, <1>12, <1>13,
     <1>14, <1>15, <1>16, <1>17, <1>18, <1>19, <1>20, <1>21, <1>22, <1>23, <1>24, <1>25, <1>26,
     <1>27 DEF Step, Update

-----------------------------------------------------------------------------
(* The lengths of the arrays.                                              *)

\* What the length depends on is as it was.
Same(s) ==
  /\ pc'[s] = pc[s] /\ op'[s] = op[s] /\ grp_id'[s] = grp_id[s] /\ if_id'[s] = if_id[s]
  /\ idx'[s] = idx[s] /\ backup'[s] = backup[s] /\ weight'[s] = weight[s]
  /\ up_ifmask'[grp_id[s]] = up_ifmask[grp_id[s]] /\ weighted'[grp_id[s]] = weighted[grp_id[s]]
  /\ up_port_num'[grp_id[s]] = up_port_num[grp_id[s]]

\* A step of the thread itself, at work on a group.
Own(s) ==
  \/ s = Monitor /\ (ReadWeight \/ CopyEntry \/ NextGroup)
  \/ s = Cli /\ (ReadLink \/ TestUp \/ NextPort \/ LastPort \/ CopyEnd \/ StoreMode)
  \/ Update(s)

\* A step of another thread leaves a thread and its group as they were.
LEMMA Others ==
  ASSUME TypeOK, Control, ~ Meeting, NEW s \in Thread, Inside(s), Step
  PROVE  Same(s) \/ Own(s)
  <1> USE DEF Set, link_sts, masks, arrays, locals, Thread, Cli, Monitor
  <1>0. /\ pc = [u \in Thread |-> pc[u]] /\ op = [u \in Thread |-> op[u]]
        /\ grp_id \in [Thread -> Group] /\ if_id = [u \in Thread |-> if_id[u]]
        /\ idx = [u \in Thread |-> idx[u]] /\ backup = [u \in Thread |-> backup[u]]
        /\ weight = [u \in Thread |-> weight[u]] /\ weighted = [h \in Group |-> weighted[h]]
        /\ up_ifmask = [h \in Group |-> up_ifmask[h]]
        /\ up_port_num = [h \in Group |-> up_port_num[h]]
        /\ \A u \in Thread : s # u /\ Inside(s) /\ Inside(u) => grp_id[s] # grp_id[u]
    BY Asunder DEF TypeOK
  <1>1. ASSUME Scan PROVE Same(s) \/ Own(s)
    BY <1>1, <1>0 DEF Control, Same, Own, Inside, Scan
  <1>2. ASSUME TestMember PROVE Same(s) \/ Own(s)
    BY <1>2, <1>0 DEF Control, Same, Own, Inside, TestMember
  <1>3. ASSUME ReadWeight PROVE Same(s) \/ Own(s)
    BY <1>3, <1>0 DEF Control, Same, Own, Inside, ReadWeight, Goto, Change
  <1>4. ASSUME CopyEntry PROVE Same(s) \/ Own(s)
    BY <1>4, <1>0 DEF Control, Same, Own, Inside, CopyEntry
  <1>5. ASSUME NextGroup PROVE Same(s) \/ Own(s)
    BY <1>5, <1>0 DEF Control, Same, Own, Inside, NextGroup, Leave, Goto
  <1>6. ASSUME SaveLink PROVE Same(s) \/ Own(s)
    BY <1>6, <1>0 DEF Control, Same, Own, Inside, SaveLink
  <1>7. ASSUME ReadLink PROVE Same(s) \/ Own(s)
    BY <1>7, <1>0 DEF Control, Same, Own, Inside, ReadLink, Return, Leave, Goto
  <1>8. ASSUME TestUp PROVE Same(s) \/ Own(s)
    BY <1>8, <1>0 DEF Control, Same, Own, Inside, TestUp, Return, Leave, Goto
  <1>9. ASSUME NextPort PROVE Same(s) \/ Own(s)
    BY <1>9, <1>0 DEF Control, Same, Own, Inside, NextPort, Goto
  <1>10. ASSUME LastPort PROVE Same(s) \/ Own(s)
    BY <1>10, <1>0 DEF Control, Same, Own, Inside, LastPort, Goto
  <1>11. ASSUME CopyEnd PROVE Same(s) \/ Own(s)
    BY <1>11, <1>0 DEF Control, Same, Own, Inside, CopyEnd, Return, Leave, Goto
  <1>12. ASSUME StoreMode PROVE Same(s) \/ Own(s)
    BY <1>12, <1>0 DEF Control, Same, Own, Inside, StoreMode, Return, Leave
  <1>13. ASSUME NEW t \in Thread, LoadMask(t) PROVE Same(s) \/ Own(s)
    <2>1. CASE s = t
      BY <1>13, <2>1 DEF Own, Update
    <2>2. CASE s # t
      BY <1>13, <2>2, <1>0 DEF Control, Same, Inside, LoadMask, Goto
    <2> QED BY <2>1, <2>2
  <1>14. ASSUME NEW t \in Thread, StoreMask(t) PROVE Same(s) \/ Own(s)
    <2>1. CASE s = t
      BY <1>14, <2>1 DEF Own, Update
    <2>2. CASE s # t
      BY <1>14, <2>2, <1>0 DEF Control, Same, Inside, StoreMask, Goto
    <2> QED BY <2>1, <2>2
  <1>15. ASSUME NEW t \in Thread, ReadMaster(t) PROVE Same(s) \/ Own(s)
    <2>1. CASE s = t
      BY <1>15, <2>1 DEF Own, Update
    <2>2. CASE s # t
      BY <1>15, <2>2, <1>0 DEF Control, Same, Inside, ReadMaster, Goto, Change
    <2> QED BY <2>1, <2>2
  <1>16. ASSUME NEW t \in Thread, LoadLength(t, "shrink", "shrink2") PROVE Same(s) \/ Own(s)
    <2>1. CASE s = t
      BY <1>16, <2>1 DEF Own, Update
    <2>2. CASE s # t
      BY <1>16, <2>2, <1>0 DEF Control, Same, Inside, LoadLength, Goto
    <2> QED BY <2>1, <2>2
  <1>17. ASSUME NEW t \in Thread, Shrink(t) PROVE Same(s) \/ Own(s)
    <2>1. CASE s = t
      BY <1>17, <2>1 DEF Own, Update
    <2>2. CASE s # t
      BY <1>17, <2>2, <1>0 DEF Control, Same, Inside, Shrink, Goto, StoreLength, Overrun
    <2> QED BY <2>1, <2>2
  <1>18. ASSUME NEW t \in Thread, LoadLength(t, "grow", "grow2") PROVE Same(s) \/ Own(s)
    <2>1. CASE s = t
      BY <1>18, <2>1 DEF Own, Update
    <2>2. CASE s # t
      BY <1>18, <2>2, <1>0 DEF Control, Same, Inside, LoadLength, Goto
    <2> QED BY <2>1, <2>2
  <1>19. ASSUME NEW t \in Thread, Grow(t) PROVE Same(s) \/ Own(s)
    <2>1. CASE s = t
      BY <1>19, <2>1 DEF Own, Update
    <2>2. CASE s # t
      BY <1>19, <2>2, <1>0 DEF Control, Same, Inside, Grow, Goto, StoreLength, Overrun
    <2> QED BY <2>1, <2>2
  <1>20. ASSUME NEW t \in Thread, Switch(t) PROVE Same(s) \/ Own(s)
    <2>1. CASE s = t
      BY <1>20, <2>1 DEF Own, Update
    <2>2. CASE s # t
      BY <1>20, <2>2, <1>0 DEF Control, Same, Inside, Switch, Goto
    <2> QED BY <2>1, <2>2
  <1>21. ASSUME NEW t \in Thread, LoadLength(t, "copy", "copy2") PROVE Same(s) \/ Own(s)
    <2>1. CASE s = t
      BY <1>21, <2>1 DEF Own, Update
    <2>2. CASE s # t
      BY <1>21, <2>2, <1>0 DEF Control, Same, Inside, LoadLength, Goto
    <2> QED BY <2>1, <2>2
  <1>22. ASSUME NEW t \in Thread, StoreCopy(t) PROVE Same(s) \/ Own(s)
    <2>1. CASE s = t
      BY <1>22, <2>1 DEF Own, Update
    <2>2. CASE s # t
      BY <1>22, <2>2, <1>0 DEF Control, Same, Inside, StoreCopy, Goto
    <2> QED BY <2>1, <2>2
  <1>23. ASSUME NEW h \in Group, NEW j \in If, Add(h, j) PROVE Same(s) \/ Own(s)
    BY <1>23, <1>0 DEF Control, Same, Own, Inside, Add, Command, Goto
  <1>24. ASSUME NEW h \in Group, NEW j \in If, Del(h, j) PROVE Same(s) \/ Own(s)
    BY <1>24, <1>0 DEF Control, Same, Own, Inside, Del, Command, Goto
  <1>25. ASSUME NEW h \in Group, NEW w \in BOOLEAN, SetMode(h, w) PROVE Same(s) \/ Own(s)
    BY <1>25, <1>0 DEF Control, Same, Own, Inside, SetMode, Command, Goto
  <1>26. ASSUME NEW j \in If, SetPhy(j) PROVE Same(s) \/ Own(s)
    BY <1>26, <1>0 DEF Control, Same, Own, Inside, SetPhy
  <1>27. ASSUME UNCHANGED <<link_sts, masks, arrays, pc, locals>> PROVE Same(s) \/ Own(s)
    BY <1>27, <1>0 DEF Control, Same, Own, Inside
  <1> QED BY <1>1, <1>2, <1>3, <1>4, <1>5, <1>6, <1>7, <1>8, <1>9, <1>10, <1>11, <1>12, <1>13,
     <1>14, <1>15, <1>16, <1>17, <1>18, <1>19, <1>20, <1>21, <1>22, <1>23, <1>24, <1>25, <1>26,
     <1>27 DEF Step, Update

\* So the length is as it was.
LEMMA SameLength ==
  ASSUME NEW s \in Thread, LengthOf(s), Same(s)
  PROVE  LengthOf(s)'
  BY DEF Same, LengthOf, Both, Ports

\* How the number of the interfaces that a new mode has come to grows.
LEMMA TreatedIs ==
  ASSUME NEW m \in Masks, NEW k \in Nat
  PROVE  /\ Treated(m, 0) = 0
         /\ Treated(m, MAX_IF_NUM) = Cardinality(m)
         /\ Treated(m, k) \in 0 .. Cardinality(m)
         /\ Bit(k) \notin m => Treated(m, k + 1) = Treated(m, k)
         /\ Bit(k) \in m /\ (\A i \in 0 .. k - 1 : Bit(i) # Bit(k)) =>
              Treated(m, k + 1) = Treated(m, k) + 1 /\ Treated(m, k) < Cardinality(m)
  <1> DEFINE T(n) == {b \in m : \E i \in 0 .. n - 1 : b = Bit(i)}
  <1>0. IsFiniteSet(m) /\ Cardinality(m) \in Nat
    BY MaskIsFinite
  <1>1. T(0) = {}
    OBVIOUS
  <1>2. T(MAX_IF_NUM) = m
    BY DEF Masks, If
  <1>3. IsFiniteSet(T(k)) /\ Cardinality(T(k)) <= Cardinality(m) /\ Cardinality(T(k)) \in Nat
    BY <1>0, FS_Subset, FS_CardinalityType
  <1>4. ASSUME Bit(k) \notin m PROVE T(k + 1) = T(k)
    <2>1. \A i \in 0 .. (k + 1) - 1 : i \in 0 .. k - 1 \/ i = k
      OBVIOUS
    <2> QED BY <1>4, <2>1
  <1>5. ASSUME Bit(k) \in m, \A i \in 0 .. k - 1 : Bit(i) # Bit(k)
        PROVE  T(k + 1) = T(k) \cup {Bit(k)} /\ Bit(k) \notin T(k)
    <2>1. \A i : i \in 0 .. (k + 1) - 1 <=> i \in 0 .. k - 1 \/ i = k
      OBVIOUS
    <2> QED BY <1>5, <2>1
  <1>6. ASSUME Bit(k) \in m, \A i \in 0 .. k - 1 : Bit(i) # Bit(k)
        PROVE  /\ Cardinality(T(k + 1)) = Cardinality(T(k)) + 1
               /\ Cardinality(T(k)) < Cardinality(m)
    <2>1. Cardinality(T(k + 1)) = Cardinality(T(k)) + 1
      BY <1>3, <1>5, <1>6, FS_AddElement
    <2>2. Cardinality(T(k + 1)) <= Cardinality(m)
      BY <1>0, FS_Subset
    <2> QED BY <1>0, <1>3, <2>1, <2>2
  <1>7. Cardinality(T(0)) = 0
    BY <1>1, FS_EmptySet
  <1>8. \A n : Treated(m, n) = Cardinality(T(n))
    BY DEF Treated
  <1> HIDE DEF T
  <1> QED BY <1>0, <1>2, <1>3, <1>4, <1>6, <1>7, <1>8

\* One port more or less.
LEMMA OnePort ==
  ASSUME NEW w \in Nat, NEW n \in Nat
  PROVE  w * n \in Nat /\ w * (n + 1) = w * n + w /\ w * n + w \in Nat
  OBVIOUS

\* One port goes with the old weight and comes back with the new one.
LEMMA OneTreated ==
  ASSUME NEW w \in Nat, NEW v \in Nat, NEW n \in Nat, NEW k \in Nat, k < n
  PROVE  /\ (w * (n - k) + v * k) - w = w * (n - k - 1) + v * k
         /\ w <= w * (n - k) + v * k
         /\ (w * (n - k - 1) + v * k) + v = w * (n - (k + 1)) + v * (k + 1)
         /\ w * (n - k) + v * k \in Nat
         /\ w * (n - k - 1) + v * k \in Nat
  <1>1. PICK d \in Nat : n = d + 1 + k
    <2>1. n - 1 - k \in Nat /\ n = (n - 1 - k) + 1 + k
      OBVIOUS
    <2> QED BY <2>1
  <1>2. n - k = d + 1 /\ n - k - 1 = d /\ n - (k + 1) = d
    BY <1>1
  <1>3. w * (d + 1) = w * d + w /\ v * (k + 1) = v * k + v
    OBVIOUS
  <1>4. w * d \in Nat /\ v * k \in Nat
    OBVIOUS
  <1> QED BY <1>2, <1>3, <1>4

\* There is room for all.
LEMMA Room ==
  ASSUME NEW w \in Nat, NEW v \in Nat, NEW n \in 0 .. MAX_IF_NUM, NEW k \in Nat,
         w <= Weight, v <= Weight, k < n
  PROVE  w * (n - (k + 1)) + v * (k + 1) <= MaxPorts
  <1>1. PICK d \in Nat : n = d + (k + 1)
    <2>1. n - (k + 1) \in Nat /\ n = (n - (k + 1)) + (k + 1)
      OBVIOUS
    <2> QED BY <2>1
  <1>2. w * d <= Weight * d
    OBVIOUS
  <1>3. v * (k + 1) <= Weight * (k + 1)
    OBVIOUS
  <1>4. Weight * d + Weight * (k + 1) = n * Weight
    BY <1>1
  <1>5. n * Weight <= MAX_IF_NUM * Weight
    OBVIOUS
  <1>6. n - (k + 1) = d /\ w * d \in Nat /\ v * (k + 1) \in Nat /\ Weight * d \in Nat
        /\ Weight * (k + 1) \in Nat /\ MAX_IF_NUM * Weight \in Nat
    BY <1>1
  <1> QED BY <1>2, <1>3, <1>4, <1>5, <1>6 DEF MaxPorts

\* A step of the thread itself.
LEMMA OwnLength ==
  ASSUME TypeOK, Control, ~ Doubling, NEW s \in Thread, Inside(s), Inside(s)', ReadOf(s),
         LengthOf(s), Own(s)
  PROVE  LengthOf(s)' /\ UNCHANGED overrun
  <1> USE DEF Set, link_sts, masks, arrays, locals, Thread, Cli, Monitor
  <1>0. /\ pc = [u \in Thread |-> pc[u]] /\ op \in [Thread -> {"add", "del", "mode"}]
        /\ grp_id \in [Thread -> Group] /\ if_id \in [Thread -> If]
        /\ idx \in [Thread -> Nat] /\ backup \in [Thread -> 0 .. 1]
        /\ weight \in [Thread -> BOOLEAN] /\ weighted \in [Group -> BOOLEAN]
        /\ num \in [Thread -> 0 .. MaxPorts] /\ mask = [u \in Thread |-> mask[u]]
        /\ up_ifmask \in [Group -> Masks]
        /\ up_port_num \in [Group -> [0 .. 1 -> 0 .. MaxPorts]]
        /\ s = Cli \/ s = Monitor
    BY DEF TypeOK, Thread
  <1>1. ASSUME s = Monitor /\ ReadWeight PROVE LengthOf(s)' /\ UNCHANGED overrun
    BY <1>1, <1>0 DEF LengthOf, Both, Ports, Control, ReadOf, Inside, ReadWeight, Goto, Change
  <1>2. ASSUME s = Monitor /\ CopyEntry PROVE LengthOf(s)' /\ UNCHANGED overrun
    BY <1>2, <1>0 DEF LengthOf, Both, Ports, Control, ReadOf, Inside, CopyEntry
  <1>3. ASSUME s = Monitor /\ NextGroup PROVE LengthOf(s)' /\ UNCHANGED overrun
    BY <1>3, <1>0 DEF LengthOf, Both, Ports, Control, ReadOf, Inside, NextGroup, Leave, Goto
  <1>4. ASSUME s = Cli /\ ReadLink PROVE LengthOf(s)' /\ UNCHANGED overrun
    BY <1>4, <1>0
       DEF LengthOf, Both, Ports, Control, ReadOf, Inside, ReadLink, Return, Leave, Goto
  <1>5. ASSUME s = Cli /\ TestUp PROVE LengthOf(s)' /\ UNCHANGED overrun
    BY <1>5, <1>0 DEF LengthOf, Both, Ports, Control, ReadOf, Inside, TestUp, Return, Leave, Goto
  <1>6. ASSUME s = Cli /\ CopyEnd PROVE LengthOf(s)' /\ UNCHANGED overrun
    BY <1>6, <1>0 DEF LengthOf, Both, Ports, Control, ReadOf, Inside, CopyEnd, Return, Leave, Goto
  <1>7. ASSUME s = Cli /\ StoreMode PROVE LengthOf(s)' /\ UNCHANGED overrun
    BY <1>7, <1>0 DEF LengthOf, Both, Ports, Control, ReadOf, Inside, StoreMode, Return, Leave
  <1>8. ASSUME LoadMask(s) PROVE LengthOf(s)' /\ UNCHANGED overrun
    BY <1>8, <1>0 DEF LengthOf, Both, Ports, Control, ReadOf, Inside, LoadMask, Goto, Doubling
  <1>9. ASSUME Switch(s) PROVE LengthOf(s)' /\ UNCHANGED overrun
    BY <1>9, <1>0 DEF LengthOf, Both, Ports, Control, ReadOf, Inside, Switch, Goto
  <1>10. ASSUME LoadLength(s, "shrink", "shrink2") PROVE LengthOf(s)' /\ UNCHANGED overrun
    BY <1>10, <1>0 DEF LengthOf, Both, Ports, Control, ReadOf, Inside, LoadLength, Goto
  <1>11. ASSUME LoadLength(s, "grow", "grow2") PROVE LengthOf(s)' /\ UNCHANGED overrun
    BY <1>11, <1>0 DEF LengthOf, Both, Ports, Control, ReadOf, Inside, LoadLength, Goto
  <1>12. ASSUME LoadLength(s, "copy", "copy2") PROVE LengthOf(s)' /\ UNCHANGED overrun
    BY <1>12, <1>0 DEF LengthOf, Both, Ports, Control, ReadOf, Inside, LoadLength, Goto
  <1>13. ASSUME StoreCopy(s) PROVE LengthOf(s)' /\ UNCHANGED overrun
    BY <1>13, <1>0 DEF LengthOf, Both, Ports, Control, ReadOf, Inside, StoreCopy, Goto
  <1>p. PICK g \in Group, m \in Masks, n \in 0 .. MAX_IF_NUM, w \in Nat, v \in Nat, x \in Nat,
             k \in Nat, c \in 0 .. 1 :
          /\ g = grp_id[s] /\ m = up_ifmask[g] /\ n = Cardinality(m)
          /\ w = WeightOf(weighted[g]) /\ v = WeightOf(weight[s])
          /\ x = idx[s] /\ k = Treated(m, x) /\ c = backup[s]
    <2>1. grp_id[s] \in Group /\ up_ifmask[grp_id[s]] \in Masks
          /\ idx[s] \in Nat /\ backup[s] \in 0 .. 1
      BY <1>0
    <2>2. Cardinality(up_ifmask[grp_id[s]]) \in 0 .. MAX_IF_NUM
      BY <2>1, MaskIsFinite
    <2>3. WeightOf(weighted[grp_id[s]]) \in Nat /\ WeightOf(weight[s]) \in Nat
      BY <1>0, Ranges
    <2>4. Treated(up_ifmask[grp_id[s]], idx[s]) \in Nat
      BY <2>1, <2>2, TreatedIs
    <2> QED BY <2>1, <2>2, <2>3, <2>4
  <1>t. /\ Treated(m, 0) = 0 /\ Treated(m, MAX_IF_NUM) = n /\ k \in 0 .. n
        /\ Bit(x) \notin m => Treated(m, x + 1) = k
        /\ Bit(x) \in m /\ (\A i \in 0 .. x - 1 : Bit(i) # Bit(x)) =>
             Treated(m, x + 1) = k + 1 /\ k < n
    BY <1>p, TreatedIs
  <1>w. w <= Weight /\ v <= Weight /\ w >= 1 /\ v >= 1
    BY <1>p DEF WeightOf
  <1>14. ASSUME s = Cli /\ NextPort PROVE LengthOf(s)' /\ UNCHANGED overrun
    <2>1. CASE Bit(x) \in m
      <3>1. /\ pc[s] = "loop" /\ pc'[s] = "shrink" /\ x \in If
            /\ UNCHANGED <<masks, arrays, locals>>
        <4>1. NextPort /\ s = Cli /\ idx[Cli] = x /\ up_ifmask[grp_id[Cli]] = m
          BY <1>14, <1>p
        <4>2. Goto(Cli, "loop", "shrink") /\ UNCHANGED idx
          BY <2>1, <4>1 DEF NextPort
        <4> QED BY <1>0, <4>1, <4>2 DEF NextPort, Goto, locals
      <3>2. \A i \in 0 .. x - 1 : Bit(i) # Bit(x)
        BY <1>14, <1>p, <2>1, <3>1 DEF Doubling
      <3> QED BY <1>0, <1>p, <3>1, <3>2 DEF Control, LengthOf, Both, Ports, masks, arrays, locals
    <2>2. CASE Bit(x) \notin m
      <3>1. /\ pc[s] = "loop" /\ pc'[s] = "loop" /\ idx'[s] = x + 1
            /\ UNCHANGED <<link_sts, masks, arrays, op, grp_id, if_id, backup, weight, mask, num>>
        BY <1>14, <1>0, <1>p, <2>2 DEF NextPort, Set
      <3>2. Treated(m, x + 1) = k
        BY <1>t, <2>2
      <3> QED BY <1>0, <1>p, <3>1, <3>2 DEF Control, LengthOf, Both, Ports, masks, arrays
    <2> QED BY <2>1, <2>2
  <1>15. ASSUME s = Cli /\ LastPort PROVE LengthOf(s)' /\ UNCHANGED overrun
    <2>1. x = MAX_IF_NUM
      BY <1>15, <1>p DEF Control, LastPort, If
    <2>2. k = n /\ w * (n - k) + v * k = v * n
      <3>1. k = n /\ n \in Nat
        BY <1>p, <1>t, <2>1
      <3>2. w * (n - n) = 0 /\ v * n \in Nat
        BY <3>1
      <3> QED BY <3>1, <3>2
    <2>3. /\ pc[s] = "loop" /\ pc'[s] = "switch" /\ op[s] = "mode"
          /\ UNCHANGED <<link_sts, masks, arrays, locals>>
      BY <1>15, <1>0 DEF LastPort, Goto, Control
    <2>4. up_port_num[g][c] = w * (n - k) + v * k
      BY <1>p, <2>3 DEF LengthOf, Ports
    <2> QED BY <1>0, <1>p, <2>2, <2>3, <2>4 DEF LengthOf, Both, Ports, masks, arrays, locals
  <1>16. ASSUME StoreMask(s) PROVE LengthOf(s)' /\ UNCHANGED overrun
    <2>1. /\ pc[s] = "mask2" /\ pc'[s] = "master" /\ op[s] # "mode"
          /\ (op[s] = "add" <=> Bit(if_id[s]) \notin m) /\ mask[s] = m
          /\ UNCHANGED <<arrays, op, grp_id, if_id, idx, backup, weight>>
          /\ up_ifmask'[g] = IF op[s] = "add" THEN m \cup {Bit(if_id[s])} ELSE m \ {Bit(if_id[s])}
      BY <1>16, <1>0, <1>p DEF StoreMask, Goto, Control, ReadOf, LengthOf
    <2>2. Both(g, w * n)
      BY <1>p, <2>1 DEF LengthOf, Ports
    <2>3. CASE op[s] = "add"
      <3>1. Cardinality(up_ifmask'[g]) = n + 1
        <4>1. up_ifmask'[g] = m \cup {Bit(if_id[s])} /\ Bit(if_id[s]) \notin m
          BY <2>1, <2>3
        <4>2. IsFiniteSet(m) /\ Cardinality(m) = n
          BY <1>p, MaskIsFinite
        <4>3. \A b : b \notin m => Cardinality(m \cup {b}) = n + 1
          BY <4>2, FS_AddElement
        <4> QED BY <4>1, <4>3
      <3>2. (n + 1) - 1 = n /\ n + 1 > 0
        BY <1>p
      <3> QED BY <1>0, <1>p, <2>1, <2>2, <2>3, <3>1, <3>2 DEF LengthOf, Both, Ports, arrays
    <2>4. CASE op[s] = "del"
      <3>1. Cardinality(up_ifmask'[g]) = n - 1
        <4>1. up_ifmask'[g] = m \ {Bit(if_id[s])} /\ Bit(if_id[s]) \in m
          BY <2>1, <2>4
        <4>2. IsFiniteSet(m) /\ Cardinality(m) = n
          BY <1>p, MaskIsFinite
        <4>3. \A b \in m : Cardinality(m \ {b}) = n - 1
          BY <4>2, FS_RemoveElement
        <4> QED BY <4>1, <4>3
      <3>2. (n - 1) + 1 = n
        BY <1>p
      <3> QED BY <1>0, <1>p, <2>1, <2>2, <2>4, <3>1, <3>2 DEF LengthOf, Both, Ports, arrays
    <2> QED BY <1>0, <2>1, <2>3, <2>4
  <1>17. ASSUME ReadMaster(s) PROVE LengthOf(s)' /\ UNCHANGED overrun
    <2>1. /\ pc[s] = "master" /\ pc'[s] = IF s = Monitor THEN "weight" ELSE Change(op[s])
          /\ UNCHANGED <<masks, arrays, op, grp_id, if_id, idx, weight>>
          /\ backup'[s] \in 0 .. 1
      <3>1. backup'[s] = 1 - master[g] /\ master[g] \in 0 .. 1
        BY <1>17, <1>0, <1>p DEF ReadMaster, Set, TypeOK
      <3>2. backup'[s] \in 0 .. 1
        BY <3>1
      <3> QED BY <1>17, <1>0, <3>2 DEF ReadMaster, Goto
    <2>2. CASE op[s] = "mode"
      <3>1. x = 0 /\ k = 0 /\ s = Cli
        BY <1>0, <1>p, <1>t, <2>1, <2>2 DEF Control
      <3>2. w * (n - k) + v * k = w * n
        <4>1. n - k = n /\ n \in Nat
          BY <1>p, <3>1
        <4>2. v * k = 0 /\ w * n \in Nat
          BY <1>p, <3>1
        <4> QED BY <4>1, <4>2
      <3>3. \A a \in 0 .. 1 : up_port_num[g][a] = w * n
        BY <1>p, <2>1, <2>2 DEF LengthOf, Both, Ports
      <3>4. pc'[s] = "loop"
        BY <1>0, <2>1, <2>2, <3>1 DEF Change, Cli, Monitor
      <3> QED BY <1>0, <1>p, <2>1, <2>2, <3>2, <3>3, <3>4 DEF LengthOf, Both, Ports, masks, arrays
    <2>3. CASE op[s] # "mode"
      BY <1>0, <1>p, <2>1, <2>3 DEF LengthOf, Both, Ports, masks, arrays, Change
    <2> QED BY <2>2, <2>3
  <1>18. ASSUME Shrink(s) PROVE LengthOf(s)' /\ UNCHANGED overrun
    <2>1. /\ pc[s] = "shrink2" /\ num[s] = up_port_num[g][c] /\ op[s] # "add"
          /\ WeightOf(IF op[s] = "mode" THEN ~ weight[s] ELSE weight[s]) = w
          /\ op[s] # "mode" => v = w
      BY <1>18, <1>0, <1>p DEF Shrink, ReadOf, Control
    <2>2. PICK r \in Nat : r = num[s]
      BY <1>0 DEF TypeOK
    <2>3. ASSUME ~ r < w
          PROVE  /\ up_port_num'[g] = [up_port_num[g] EXCEPT ![c] = r - w]
                 /\ UNCHANGED <<masks, weighted, overrun, op, grp_id, if_id, backup, weight, idx>>
                 /\ pc'[s] = IF op[s] = "mode" THEN "grow" ELSE "switch"
      BY <1>18, <1>0, <1>p, <2>1, <2>2, <2>3, SMTT(40) DEF Shrink, StoreLength, Goto, arrays
    <2>4. CASE op[s] = "mode"
      <3>1. /\ k < n /\ \A i \in 0 .. x - 1 : Bit(i) # Bit(x)
            /\ r = w * (n - k) + v * k
        BY <1>p, <1>t, <2>1, <2>2, <2>4 DEF LengthOf, ReadOf, Ports
      <3>2. r - w = w * (n - k - 1) + v * k /\ ~ r < w
        BY <1>p, <3>1, OneTreated
      <3> QED BY <1>0, <1>p, <2>3, <2>4, <3>1, <3>2, SMTT(40)
            DEF LengthOf, Both, Ports, masks
    <2>5. CASE op[s] = "del"
      <3>1. r = w * (n + 1) /\ v = w
        BY <1>p, <2>1, <2>2, <2>5 DEF LengthOf, Both, Ports
      <3>2. r - w = w * n /\ ~ r < w
        <4>1. w * (n + 1) = w * n + w /\ w * n \in Nat
          BY <1>p, OnePort
        <4> QED BY <3>1, <4>1
      <3>3. up_port_num'[g][c] = v * n
        BY <1>0, <1>p, <2>3, <3>1, <3>2
      <3> QED BY <1>0, <1>p, <2>3, <2>5, <3>2, <3>3 DEF LengthOf, Both, Ports, masks
    <2> QED BY <1>0, <2>1, <2>4, <2>5
  <1>19. ASSUME Grow(s) PROVE LengthOf(s)' /\ UNCHANGED overrun
    <2>1. /\ pc[s] = "grow2" /\ num[s] = up_port_num[g][c] /\ op[s] # "del"
          /\ op[s] # "mode" => v = w
      BY <1>19, <1>0, <1>p DEF Grow, ReadOf, Control
    <2>2. PICK r \in Nat : r = num[s]
      BY <1>0 DEF TypeOK
    <2>3. ASSUME ~ r + v > MaxPorts
          PROVE  /\ up_port_num'[g] = [up_port_num[g] EXCEPT ![c] = r + v]
                 /\ UNCHANGED <<masks, weighted, overrun, op, grp_id, if_id, backup, weight>>
                 /\ pc'[s] = IF op[s] = "mode" THEN "loop" ELSE "switch"
                 /\ idx'[s] = IF op[s] = "mode" THEN x + 1 ELSE x
      BY <1>19, <1>0, <1>p, <2>1, <2>2, <2>3, SMTT(40) DEF Grow, StoreLength, Goto, Set, arrays
    <2>4. CASE op[s] = "mode"
      <3>1. /\ k < n /\ Treated(m, x + 1) = k + 1
            /\ r = w * (n - k - 1) + v * k
        BY <1>p, <1>t, <2>1, <2>2, <2>4 DEF LengthOf, ReadOf, Ports
      <3>2. r + v = w * (n - (k + 1)) + v * (k + 1)
        BY <1>p, <3>1, OneTreated
      <3>3. ~ r + v > MaxPorts
        <4>1. w * (n - (k + 1)) + v * (k + 1) <= MaxPorts
          BY <1>w, <3>1, Room
        <4>2. MaxPorts \in Nat /\ r + v \in Nat
          BY <2>2, Ranges
        <4> QED BY <3>2, <4>1, <4>2
      <3> QED BY <1>0, <1>p, <2>3, <2>4, <3>1, <3>2, <3>3, SMTT(40)
            DEF LengthOf, Both, Ports, masks
    <2>5. CASE op[s] = "add"
      <3>1. r = w * (n - 1) /\ v = w /\ n > 0
        BY <1>p, <2>1, <2>2, <2>5 DEF LengthOf, Both, Ports
      <3>2. PICK d \in Nat : n = d + 1
        <4>1. n - 1 \in Nat /\ n = (n - 1) + 1
          BY <3>1, <1>p
        <4> QED BY <4>1
      <3>3. r + v = w * n
        <4>1. w * (d + 1) = w * d + w /\ w * d \in Nat
          BY <1>p, OnePort
        <4>2. n - 1 = d
          BY <3>2
        <4> QED BY <3>1, <3>2, <4>1, <4>2
      <3>4. ~ r + v > MaxPorts
        <4>1. w * (n - (d + 1)) + w * (d + 1) <= MaxPorts
          <5>1. d < n
            BY <3>2
          <5> QED BY <5>1, <1>w, Room
        <4>2. n - (d + 1) = 0 /\ w * 0 = 0 /\ w * n \in Nat
          BY <1>p, <3>2
        <4> QED BY <3>2, <3>3, <4>1, <4>2, Ranges
      <3>5. up_port_num'[g][c] = v * n
        BY <1>0, <1>p, <2>3, <3>1, <3>3, <3>4
      <3> QED BY <1>0, <1>p, <2>3, <2>5, <3>4, <3>5 DEF LengthOf, Both, Ports, masks
    <2> QED BY <1>0, <2>1, <2>4, <2>5
  <1> QED BY <1>1, <1>2, <1>3, <1>4, <1>5, <1>6, <1>7, <1>8, <1>9, <1>10, <1>11, <1>12, <1>13,
     <1>14, <1>15, <1>16, <1>17, <1>18, <1>19 DEF Own, Update

\* A thread comes to a group that nobody is at work on ...
LEMMA Entering ==
  ASSUME TypeOK, Control, ~ Meeting', NEW s \in Thread, ~ Inside(s), Inside(s)', Step,
         \A g \in Group : Quiet(g) => Both(g, WeightOf(weighted[g]) * Ports(g))
  PROVE  LengthOf(s)' /\ UNCHANGED overrun
  <1> USE DEF Set, link_sts, masks, arrays, locals, Thread, Cli, Monitor
  <1> DEFINE Enters(p) ==
        /\ pc'[s] = p /\ grp_id'[s] \in Group
        /\ \A u \in Thread : u # s => pc'[u] = pc[u] /\ grp_id'[u] = grp_id[u]
        /\ UNCHANGED <<up_ifmask, arrays>>
        /\ op'[s] = "mode" <=> p = "master"
  <1>0. /\ pc = [u \in Thread |-> pc[u]] /\ op = [u \in Thread |-> op[u]]
        /\ grp_id \in [Thread -> Group] /\ Group = 0 .. IF_GROUP_NUM - 1
    BY DEF TypeOK, Group
  <1> DEFINE Comes == Enters("link") \/ Enters("up") \/ Enters("master") \/ Enters("mask")
  <1>1. Comes
    <2>1. ASSUME Scan PROVE Comes
      BY <2>1, <1>0 DEF Control, Inside, Scan
    <2>2. ASSUME TestMember PROVE Comes
      BY <2>2, <1>0 DEF Control, Inside, TestMember
    <2>3. ASSUME ReadWeight PROVE Comes
      BY <2>3, <1>0 DEF Control, Inside, ReadWeight, Goto, Change
    <2>4. ASSUME CopyEntry PROVE Comes
      BY <2>4, <1>0 DEF Control, Inside, CopyEntry
    <2>5. ASSUME NextGroup PROVE Comes
      BY <2>5, <1>0 DEF Control, Inside, NextGroup, Leave, Goto
    <2>6. ASSUME SaveLink PROVE Comes
      BY <2>6, <1>0 DEF Control, Inside, SaveLink
    <2>7. ASSUME ReadLink PROVE Comes
      BY <2>7, <1>0 DEF Control, Inside, ReadLink, Return, Leave, Goto
    <2>8. ASSUME TestUp PROVE Comes
      BY <2>8, <1>0 DEF Control, Inside, TestUp, Return, Leave, Goto
    <2>9. ASSUME NextPort PROVE Comes
      BY <2>9, <1>0 DEF Control, Inside, NextPort, Goto
    <2>10. ASSUME LastPort PROVE Comes
      BY <2>10, <1>0 DEF Control, Inside, LastPort, Goto
    <2>11. ASSUME CopyEnd PROVE Comes
      BY <2>11, <1>0 DEF Control, Inside, CopyEnd, Return, Leave, Goto
    <2>12. ASSUME StoreMode PROVE Comes
      BY <2>12, <1>0 DEF Control, Inside, StoreMode, Return, Leave
    <2>13. ASSUME NEW t \in Thread, LoadMask(t) PROVE Comes
      BY <2>13, <1>0 DEF Control, Inside, LoadMask, Goto
    <2>14. ASSUME NEW t \in Thread, StoreMask(t) PROVE Comes
      BY <2>14, <1>0 DEF Control, Inside, StoreMask, Goto
    <2>15. ASSUME NEW t \in Thread, ReadMaster(t) PROVE Comes
      BY <2>15, <1>0 DEF Control, Inside, ReadMaster, Goto, Change
    <2>16. ASSUME NEW t \in Thread, LoadLength(t, "shrink", "shrink2") PROVE Comes
      BY <2>16, <1>0 DEF Control, Inside, LoadLength, Goto
    <2>17. ASSUME NEW t \in Thread, Shrink(t) PROVE Comes
      BY <2>17, <1>0 DEF Control, Inside, Shrink, Goto, StoreLength, Overrun
    <2>18. ASSUME NEW t \in Thread, LoadLength(t, "grow", "grow2") PROVE Comes
      BY <2>18, <1>0 DEF Control, Inside, LoadLength, Goto
    <2>19. ASSUME NEW t \in Thread, Grow(t) PROVE Comes
      BY <2>19, <1>0 DEF Control, Inside, Grow, Goto, StoreLength, Overrun
    <2>20. ASSUME NEW t \in Thread, Switch(t) PROVE Comes
      BY <2>20, <1>0 DEF Control, Inside, Switch, Goto
    <2>21. ASSUME NEW t \in Thread, LoadLength(t, "copy", "copy2") PROVE Comes
      BY <2>21, <1>0 DEF Control, Inside, LoadLength, Goto
    <2>22. ASSUME NEW t \in Thread, StoreCopy(t) PROVE Comes
      BY <2>22, <1>0 DEF Control, Inside, StoreCopy, Goto
    <2>23. ASSUME NEW h \in Group, NEW j \in If, Add(h, j) PROVE Comes
      BY <2>23, <1>0 DEF Control, Inside, Add, Command, Goto
    <2>24. ASSUME NEW h \in Group, NEW j \in If, Del(h, j) PROVE Comes
      BY <2>24, <1>0 DEF Control, Inside, Del, Command, Goto
    <2>25. ASSUME NEW h \in Group, NEW w \in BOOLEAN, SetMode(h, w) PROVE Comes
      BY <2>25, <1>0 DEF Control, Inside, SetMode, Command, Goto
    <2>26. ASSUME NEW j \in If, SetPhy(j) PROVE Comes
      BY <2>26, <1>0 DEF Control, Inside, SetPhy
    <2>27. ASSUME UNCHANGED <<link_sts, masks, arrays, pc, locals>> PROVE Comes
      BY <2>27, <1>0 DEF Control, Inside
    <2> QED BY <2>1, <2>2, <2>3, <2>4, <2>5, <2>6, <2>7, <2>8, <2>9, <2>10, <2>11, <2>12, <2>13,
       <2>14, <2>15, <2>16, <2>17, <2>18, <2>19, <2>20, <2>21, <2>22, <2>23, <2>24, <2>25,
       <2>26, <2>27 DEF Step, Update
  <1>2. PICK g \in Group : g = grp_id'[s]
    BY <1>1
  <1>3. Quiet(g)
    BY <1>0, <1>1, <1>2 DEF Quiet, In, Inside, Meeting, Thread
  <1>4. Both(g, WeightOf(weighted[g]) * Ports(g))
    BY <1>3
  <1> QED BY <1>1, <1>2, <1>4 DEF LengthOf, Both, Ports, arrays

\* ... and leaves it as it should be.
LEMMA StepQuiet ==
  ASSUME TypeOK, Control, ~ Meeting, NEW g \in Group, Step, Quiet(g)',
         Quiet(g) => Both(g, WeightOf(weighted[g]) * Ports(g)),
         \A t \in Thread : Inside(t) => ReadOf(t) /\ LengthOf(t)
  PROVE  Both(g, WeightOf(weighted[g]) * Ports(g))'
  <1> USE DEF Set, link_sts, masks, arrays, locals, Thread, Cli, Monitor
  <1> DEFINE Kept == up_ifmask'[g] = up_ifmask[g] /\ up_port_num'[g] = up_port_num[g]
             Right == \A a \in 0 .. 1 : up_port_num[g][a] = WeightOf(weighted'[g]) * Ports(g)
  <1>0. /\ pc = [u \in Thread |-> pc[u]] /\ op = [u \in Thread |-> op[u]]
        /\ grp_id \in [Thread -> Group] /\ weighted = [h \in Group |-> weighted[h]]
        /\ up_ifmask = [h \in Group |-> up_ifmask[h]]
        /\ up_port_num = [h \in Group |-> up_port_num[h]]
        /\ ~ (In(Cli, g) /\ In(Monitor, g)) /\ ~ In(Cli, g)' /\ ~ In(Monitor, g)'
        /\ \A u \in Thread : Change(op[u]) \in {"grow", "shrink", "loop"}
    BY DEF TypeOK, Meeting, Quiet, Thread, Change
  <1>a. /\ ~ In(Cli, g) /\ ~ In(Monitor, g) =>
             \A a \in 0 .. 1 : up_port_num[g][a] = WeightOf(weighted[g]) * Ports(g)
        /\ \A t \in Thread : In(t, g) =>
             /\ pc[t] \in {"link", "up"} \/ (pc[t] = "copies" /\ op[t] # "mode") =>
                  \A a \in 0 .. 1 : up_port_num[g][a] = WeightOf(weighted[g]) * Ports(g)
             /\ pc[t] = "mode" =>
                  \A a \in 0 .. 1 : up_port_num[g][a] = WeightOf(weight[t]) * Ports(g)
    BY DEF LengthOf, Both, Quiet, In, Inside, Thread, Control
  <1>b. Kept /\ Right
    <2>1. ASSUME Scan PROVE Kept /\ Right
      BY <2>1, <1>0, <1>a DEF Control, In, Scan
    <2>2. ASSUME TestMember PROVE Kept /\ Right
      BY <2>2, <1>0, <1>a DEF Control, In, TestMember
    <2>3. ASSUME ReadWeight PROVE Kept /\ Right
      BY <2>3, <1>0, <1>a DEF Control, In, ReadWeight, Goto
    <2>4. ASSUME CopyEntry PROVE Kept /\ Right
      BY <2>4, <1>0, <1>a DEF Control, In, CopyEntry
    <2>5. ASSUME NextGroup PROVE Kept /\ Right
      BY <2>5, <1>0, <1>a DEF Control, In, NextGroup, Leave, Goto
    <2>6. ASSUME SaveLink PROVE Kept /\ Right
      BY <2>6, <1>0, <1>a DEF Control, In, SaveLink
    <2>7. ASSUME ReadLink PROVE Kept /\ Right
      BY <2>7, <1>0, <1>a DEF Control, In, ReadLink, Return, Leave, Goto
    <2>8. ASSUME TestUp PROVE Kept /\ Right
      BY <2>8, <1>0, <1>a DEF Control, In, TestUp, Return, Leave, Goto
    <2>9. ASSUME NextPort PROVE Kept /\ Right
      BY <2>9, <1>0, <1>a DEF Control, In, NextPort, Goto
    <2>10. ASSUME LastPort PROVE Kept /\ Right
      BY <2>10, <1>0, <1>a DEF Control, In, LastPort, Goto
    <2>11. ASSUME CopyEnd PROVE Kept /\ Right
      BY <2>11, <1>0, <1>a DEF Control, In, CopyEnd, Return, Leave, Goto
    <2>12. ASSUME StoreMode PROVE Kept /\ Right
      BY <2>12, <1>0, <1>a DEF Control, In, StoreMode, Return, Leave
    <2>13. ASSUME NEW t \in Thread, LoadMask(t) PROVE Kept /\ Right
      BY <2>13, <1>0, <1>a DEF Control, In, LoadMask, Goto
    <2>14. ASSUME NEW t \in Thread, StoreMask(t) PROVE Kept /\ Right
      BY <2>14, <1>0, <1>a DEF Control, In, StoreMask, Goto
    <2>15. ASSUME NEW t \in Thread, ReadMaster(t) PROVE Kept /\ Right
      BY <2>15, <1>0, <1>a DEF Control, In, ReadMaster, Goto
    <2>16. ASSUME NEW t \in Thread, LoadLength(t, "shrink", "shrink2") PROVE Kept /\ Right
      BY <2>16, <1>0, <1>a DEF Control, In, LoadLength, Goto
    <2>17. ASSUME NEW t \in Thread, Shrink(t) PROVE Kept /\ Right
      BY <2>17, <1>0, <1>a DEF Control, In, Shrink, Goto, StoreLength, Overrun
    <2>18. ASSUME NEW t \in Thread, LoadLength(t, "grow", "grow2") PROVE Kept /\ Right
      BY <2>18, <1>0, <1>a DEF Control, In, LoadLength, Goto
    <2>19. ASSUME NEW t \in Thread, Grow(t) PROVE Kept /\ Right
      BY <2>19, <1>0, <1>a DEF Control, In, Grow, Goto, StoreLength, Overrun
    <2>20. ASSUME NEW t \in Thread, Switch(t) PROVE Kept /\ Right
      BY <2>20, <1>0, <1>a DEF Control, In, Switch, Goto
    <2>21. ASSUME NEW t \in Thread, LoadLength(t, "copy", "copy2") PROVE Kept /\ Right
      BY <2>21, <1>0, <1>a DEF Control, In, LoadLength, Goto
    <2>22. ASSUME NEW t \in Thread, StoreCopy(t) PROVE Kept /\ Right
      BY <2>22, <1>0, <1>a DEF Control, In, StoreCopy, Goto
    <2>23. ASSUME NEW h \in Group, NEW j \in If, Add(h, j) PROVE Kept /\ Right
      BY <2>23, <1>0, <1>a DEF Control, In, Add, Command, Goto
    <2>24. ASSUME NEW h \in Group, NEW j \in If, Del(h, j) PROVE Kept /\ Right
      BY <2>24, <1>0, <1>a DEF Control, In, Del, Command, Goto
    <2>25. ASSUME NEW h \in Group, NEW w \in BOOLEAN, SetMode(h, w) PROVE Kept /\ Right
      BY <2>25, <1>0, <1>a DEF Control, In, SetMode, Command, Goto
    <2>26. ASSUME NEW j \in If, SetPhy(j) PROVE Kept /\ Right
      BY <2>26, <1>0, <1>a DEF Control, In, SetPhy
    <2>27. ASSUME UNCHANGED <<link_sts, masks, arrays, pc, locals>> PROVE Kept /\ Right
      BY <2>27, <1>0, <1>a DEF Control, In
    <2> QED BY <2>1, <2>2, <2>3, <2>4, <2>5, <2>6, <2>7, <2>8, <2>9, <2>10, <2>11, <2>12, <2>13,
       <2>14, <2>15, <2>16, <2>17, <2>18, <2>19, <2>20, <2>21, <2>22, <2>23, <2>24, <2>25,
       <2>26, <2>27 DEF Step, Update
  <1> QED BY <1>b DEF Both, Ports

-----------------------------------------------------------------------------
(* The theorems.                                                           *)

\* The initial state.
LEMMA InitInv == Init => IInv
  <1> SUFFICES ASSUME Init PROVE IInv
    OBVIOUS
  <1>1. TypeOK
    <2>1. /\ phy \in [If -> 0 .. 1] /\ link \in [If -> 0 .. 1]
          /\ ifmask \in [Group -> Masks] /\ up_ifmask \in [Group -> Masks]
          /\ port_num \in [Group -> Nat] /\ dn_port_num \in [Group -> 0 .. Wrap - 1]
      BY Ranges, MasksAre DEF Init
    <2>2. /\ weighted \in [Group -> BOOLEAN] /\ master \in [Group -> 0 .. 1]
          /\ up_port_num \in [Group -> [0 .. 1 -> 0 .. MaxPorts]]
      BY Ranges DEF Init
    <2>3. /\ grp_id \in [Thread -> Group] /\ if_id \in [Thread -> If]
          /\ idx \in [Thread -> Nat] /\ backup \in [Thread -> 0 .. 1]
      BY Ranges DEF Init
    <2>4. /\ op \in [Thread -> {"add", "del", "mode"}] /\ weight \in [Thread -> BOOLEAN]
          /\ mask \in [Thread -> Masks] /\ num \in [Thread -> 0 .. MaxPorts]
      BY Ranges, MasksAre DEF Init
    <2> QED BY <2>1, <2>2, <2>3, <2>4 DEF TypeOK, Init
  <1>2. Counted
    BY FS_EmptySet DEF Init, Counted
  <1>3. Control /\ Watched
    BY DEF Init, Control, Watched, Meeting, Jumping, Doubling, In, Thread, Cli, Monitor
  <1>4. \A t \in Thread : BackupOf(t) /\ ReadOf(t)
    BY DEF Init, BackupOf, ReadOf, Thread, Cli, Monitor
  <1>5. \A g \in Group, i \in If : BitOf(g, i)
    BY DEF Init, BitOf, Done, Handles, Adding, Deleting, In, Thread, Cli, Monitor
  <1>6. \A t \in Thread : ~ Inside(t)
    BY DEF Init, Inside, Thread
  <1>7. \A g \in Group : Both(g, WeightOf(weighted[g]) * Ports(g))
    BY FS_EmptySet, Ranges DEF Init, Both, Ports, WeightOf
  <1> QED BY <1>1, <1>2, <1>3, <1>4, <1>5, <1>6, <1>7 DEF IInv, Inside, Init

\* Every step.
LEMMA NextInv == IInv /\ [Next]_vars => IInv'
  <1> SUFFICES ASSUME IInv, [Next]_vars PROVE IInv'
    OBVIOUS
  <1>1. Step /\ (Watch \/ UNCHANGED vars)
    BY NextSteps
  <1>2. TypeOK /\ Counted /\ Control /\ Watched /\ {met, astray, doubled} \subseteq BOOLEAN
    BY DEF IInv, TypeOK
  <1>3. Watched' /\ {met', astray', doubled'} \subseteq BOOLEAN
    BY <1>1, <1>2, StepWatched
  <1>4. TypeOK' /\ Counted' /\ Control'
    BY <1>1, <1>2, <1>3, StepType, StepCounted, StepControl
  <1>5. /\ ~ met' => ~ met /\ ~ Meeting /\ ~ Meeting'
        /\ ~ astray' => ~ astray /\ ~ Jumping
        /\ ~ doubled' => ~ doubled /\ ~ Doubling
    <2>1. (~ met' => ~ met) /\ (~ astray' => ~ astray) /\ (~ doubled' => ~ doubled)
      <3>1. CASE Watch
        BY <3>1 DEF Watch
      <3>2. CASE UNCHANGED vars
        BY <3>2 DEF vars
      <3> QED BY <3>1, <3>2, <1>1
    <2> QED BY <2>1, <1>2, <1>3 DEF Watched
  <1>6. ASSUME ~ met', NEW t \in Thread PROVE BackupOf(t)' /\ ReadOf(t)'
    BY <1>1, <1>2, <1>5, <1>6, StepBackup, StepRead DEF IInv
  <1>7. ASSUME ~ met', ~ astray', NEW g \in Group, NEW i \in If, Alone(i) PROVE BitOf(g, i)'
    <2>1. BitOf(g, i) /\ \A t \in Thread : ReadOf(t)
      BY <1>5, <1>7 DEF IInv
    <2> QED BY <2>1, <1>1, <1>2, <1>5, <1>7, StepBit
  <1>8. ASSUME ~ met', ~ doubled'
        PROVE  /\ ~ overrun'
               /\ \A t \in Thread : Inside(t)' => LengthOf(t)'
               /\ \A g \in Group : Quiet(g)' => Both(g, WeightOf(weighted[g]) * Ports(g))'
    <2>1. /\ ~ met /\ ~ Meeting /\ ~ Meeting' /\ ~ doubled /\ ~ Doubling
      BY <1>5, <1>8
    <2>2. /\ ~ overrun
          /\ \A t \in Thread : Inside(t) => ReadOf(t) /\ LengthOf(t)
          /\ \A g \in Group : Quiet(g) => Both(g, WeightOf(weighted[g]) * Ports(g))
      BY <2>1 DEF IInv, Inside
    <2>3. ASSUME NEW t \in Thread, Inside(t)' PROVE LengthOf(t)'
      <3>1. CASE ~ Inside(t)
        BY <3>1, <2>3, <1>1, <1>2, <2>1, <2>2, Entering
      <3>2. CASE Inside(t)
        <4>1. CASE Same(t)
          BY <4>1, <3>2, <2>2, SameLength
        <4>2. CASE Own(t)
          BY <4>2, <3>2, <2>3, <1>2, <2>1, <2>2, OwnLength
        <4> QED BY <4>1, <4>2, <3>2, <1>1, <1>2, <2>1, Others
      <3> QED BY <3>1, <3>2
    <2>4. \A g \in Group : Quiet(g)' => Both(g, WeightOf(weighted[g]) * Ports(g))'
      BY <1>1, <1>2, <2>1, <2>2, StepQuiet
    <2>5. ~ overrun'
      <3>1. UNCHANGED overrun \/ \E t \in Thread : pc'[t] = pc[t] /\ Inside(t) /\ Update(t)
        BY <1>1, ZenonT(60)
           DEF Step, Scan, TestMember, ReadWeight, CopyEntry, NextGroup, SaveLink, ReadLink,
               TestUp, NextPort, LastPort, CopyEnd, StoreMode, Update, LoadMask, StoreMask,
               ReadMaster, LoadLength, Shrink, Grow, StoreLength, Overrun, Switch, StoreCopy, Add,
               Del, SetMode, Command, SetPhy, arrays, Inside
      <3>2. ASSUME NEW t \in Thread, pc'[t] = pc[t], Inside(t), Update(t) PROVE UNCHANGED overrun
        <4>1. Inside(t)' /\ Own(t)
          BY <3>2 DEF Inside, Own
        <4> QED BY <4>1, <3>2, <1>2, <2>1, <2>2, OwnLength
      <3> QED BY <3>1, <3>2, <2>2
    <2> QED BY <2>3, <2>4, <2>5
  <1> QED BY <1>3, <1>4, <1>6, <1>7, <1>8 DEF IInv, Inside

\* What the two threads do to groups and link states preserves the whole invariant
\* (md_ifgrp.c:661-1013, 1317-1438, md_if.c:143-187).
THEOREM Invariance == Spec => []IInv
  <1> QED BY InitInv, NextInv, PTL DEF Spec

\* Every variable keeps its type.
THEOREM TypeCorrect == Spec => []TypeOK
  <1>1. IInv => TypeOK
    BY DEF IInv
  <1> QED BY <1>1, Invariance, PTL

\* For every group and every interface with a bit of its own, the bit is up exactly if the
\* interface is a member whose saved status is up, as long as the threads have not come
\* across each other and the monitor's index has skipped no group of the interface
\* (md_ifgrp.c:702-713, 823-829, 1350-1401, md_if.c:172-179).
THEOREM MaskFollows == Spec => []UpInOrder
  <1>1. ASSUME IInv, ~ met, ~ astray, NEW g \in Group, NEW i \in If, Alone(i), Settled(g, i)
        PROVE  Bit(i) \in up_ifmask[g] <=> Bit(i) \in ifmask[g] /\ link[i] = 1
    <2>1. BitOf(g, i)
      BY <1>1 DEF IInv
    <2> QED BY <1>1, <2>1 DEF BitOf, Settled, Adding, Deleting, Done
  <1>2. IInv => UpInOrder
    BY <1>1 DEF UpInOrder, UpMask
  <1> QED BY <1>2, Invariance, PTL

\* The arrays of every group are as long as its interfaces that are up weigh, and no length
\* wraps or exceeds the array, as long as the threads have not met and no bit was treated
\* twice (md_ifgrp.c:625-658, 750-779, 975-1009, 1380-1392, 1421-1434).
THEOREM LengthFollows == Spec => []LengthInOrder
  <1>1. IInv => LengthInOrder
    BY DEF IInv, LengthInOrder, Both, Ports
  <1> QED BY <1>1, Invariance, PTL

\* As long as the threads have not met, no step changes the length of the array in use
\* without switching to the other one (md_ifgrp.c:738-741, 855-858, 1003-1005, 1386-1388).
THEOREM InUse == Spec => InUseLeftAlone
  <1> DEFINE A == ~ met => \A g \in Group : master'[g] = master[g] =>
                    up_port_num'[g][master[g]] = up_port_num[g][master[g]]
  <1>1. IInv /\ [Next]_vars => [A]_vars
    <2> SUFFICES ASSUME IInv, [Next]_vars, ~ met, NEW g \in Group
                 PROVE  up_port_num'[g][master[g]] = up_port_num[g][master[g]]
      OBVIOUS
    <2>1. Step
      BY NextSteps
    <2>2. /\ \A t \in Thread : BackupOf(t)
          /\ backup \in [Thread -> 0 .. 1] /\ master \in [Group -> 0 .. 1]
          /\ grp_id \in [Thread -> Group] /\ up_port_num \in [Group -> [0 .. 1 -> 0 .. MaxPorts]]
      BY DEF IInv, TypeOK
    <2>3. CASE UNCHANGED up_port_num
      BY <2>3
    <2>4. ASSUME NEW t \in Thread, NEW n, pc[t] \in {"shrink2", "grow2"}, StoreLength(t, n)
          PROVE  up_port_num'[g][master[g]] = up_port_num[g][master[g]]
      BY <2>2, <2>4 DEF BackupOf, StoreLength
    <2>5. ASSUME NEW t \in Thread, StoreCopy(t)
          PROVE  up_port_num'[g][master[g]] = up_port_num[g][master[g]]
      BY <2>2, <2>5 DEF BackupOf, StoreCopy, Goto
    <2>6. ASSUME NEW t \in Thread, Shrink(t) \/ Grow(t)
          PROVE  up_port_num'[g][master[g]] = up_port_num[g][master[g]]
      <3>1. pc[t] \in {"shrink2", "grow2"}
        BY <2>6 DEF Shrink, Grow
      <3>2. CASE Overrun
        BY <3>2 DEF Overrun
      <3>3. CASE ~ Overrun
        <4> DEFINE w == WeightOf(IF op[t] = "mode" THEN ~ weight[t] ELSE weight[t])
        <4>1. StoreLength(t, num[t] - w) \/ StoreLength(t, num[t] + WeightOf(weight[t]))
          BY <2>6, <3>3 DEF Shrink, Grow
        <4> HIDE DEF w
        <4> QED BY <4>1, <3>1, <2>4
      <3> QED BY <3>2, <3>3
    <2>7. UNCHANGED up_port_num \/ \E t \in Thread : StoreCopy(t) \/ Shrink(t) \/ Grow(t)
      BY <2>1, ZenonT(60)
         DEF Step, Scan, TestMember, ReadWeight, CopyEntry, NextGroup, SaveLink, ReadLink,
             TestUp, NextPort, LastPort, CopyEnd, StoreMode, Update, LoadMask, StoreMask,
             ReadMaster, LoadLength, Switch, Add, Del, SetMode, Command, SetPhy, arrays
    <2> QED BY <2>3, <2>5, <2>6, <2>7
  <1> QED BY <1>1, Invariance, PTL DEF Spec, InUseLeftAlone

=============================================================================
