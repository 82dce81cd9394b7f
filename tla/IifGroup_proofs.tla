---------------------------- MODULE IifGroup_proofs ----------------------------
(***************************************************************************)
(* The two representations of membership agree in every group no two       *)
(* commands have met in, for any number of sessions, interfaces and        *)
(* groups, whichever interfaces share a bit and whatever else the sessions *)
(* are doing at the same time.                                             *)
(***************************************************************************)
EXTENDS IifGroup, FiniteSetTheorems, TLAPS

USE IifGroupAssumption

\* Adding an interface adds its bit (md_ifgrp.c:289).
LEMMA BitsAdd ==
  ASSUME NEW S \in SUBSET If, NEW i \in If
  PROVE  Bits(S \cup {i}) = Bits(S) \cup {Bit(i)}
  BY DEF Bits

\* Removing an interface removes its bit, if no other member has it
\* (md_ifgrp.c:333).
LEMMA BitsDel ==
  ASSUME NEW S \in SUBSET If, NEW i \in S, \A j \in S : Bit(j) = Bit(i) => j = i
  PROVE  Bits(S \ {i}) = Bits(S) \ {Bit(i)}
  <1>1. Bits(S \ {i}) \subseteq Bits(S) \ {Bit(i)}  BY DEF Bits
  <1>2. Bits(S) \ {Bit(i)} \subseteq Bits(S \ {i})  BY DEF Bits
  <1> QED BY <1>1, <1>2

\* Bits are bits of the mask (md_ifgrp.c:283).
LEMMA BitType == \A i \in If : Bit(i) \in 0 .. MaskBits - 1
  BY DEF Bit, If

\* A group has at most all the interfaces for members, so that its counter does
\* not wrap.
LEMMA CardinalityMax ==
  ASSUME NEW S \in SUBSET If
  PROVE  /\ IsFiniteSet(S)
         /\ Cardinality(S) \in 0 .. Wrap - 1
         /\ Cardinality(S) <= MAX_IF_NUM
  <1>1. IsFiniteSet(If) /\ Cardinality(If) = MAX_IF_NUM
    BY FS_Interval, 0 \in Int, MAX_IF_NUM - 1 \in Int DEF If
  <1>2. IsFiniteSet(S) /\ Cardinality(S) <= Cardinality(If)
    BY <1>1, FS_Subset
  <1>3. Cardinality(S) \in Nat
    BY <1>2, FS_CardinalityType
  <1> QED BY <1>1, <1>2, <1>3

\* Counting up for one that joins, down for one that leaves (md_ifgrp.c:290, 334).
LEMMA CountAdd ==
  ASSUME NEW S \in SUBSET If, NEW i \in If, i \notin S
  PROVE  More(Cardinality(S)) = Cardinality(S \cup {i})
  <1>1. Cardinality(S \cup {i}) = Cardinality(S) + 1
    BY CardinalityMax, FS_AddElement
  <1>2. Cardinality(S \cup {i}) <= MAX_IF_NUM /\ Cardinality(S) \in 0 .. Wrap - 1
    BY CardinalityMax, S \cup {i} \in SUBSET If
  <1> QED BY <1>1, <1>2 DEF More

LEMMA CountDel ==
  ASSUME NEW S \in SUBSET If, NEW i \in S
  PROVE  Less(Cardinality(S)) = Cardinality(S \ {i})
  <1>1. Cardinality(S \ {i}) = Cardinality(S) - 1
    BY CardinalityMax, FS_RemoveElement
  <1>2. Cardinality(S \ {i}) \in 0 .. Wrap - 1 /\ Cardinality(S) \in 0 .. Wrap - 1
    BY CardinalityMax, S \ {i} \in SUBSET If
  <1> QED BY <1>1, <1>2 DEF Less

-----------------------------------------------------------------------------
LEMMA Initially == Init => IInv
  <1> SUFFICES ASSUME Init PROVE IInv  OBVIOUS
  <1>1. TypeOK
    BY DEF Init, TypeOK, Busy
  <1>2. \A g \in Group : Members(g) = {}
    BY DEF Init, Members, Group
  <1>3. Bits({}) = {} /\ Cardinality({}) = 0
    BY FS_EmptySet DEF Bits
  <1>4. Contested = {} /\ \A s \in Session : ~ Busy(s)
    BY DEF Init, Contested, Meet, Busy
  <1> QED BY <1>1, <1>2, <1>3, <1>4 DEF IInv, Init

\* Two commands that meet have their groups marked (md_ifgrp.c:277-292).
LEMMA MeetSpoils ==
  ASSUME IInv, NEW s \in Session, NEW t \in Session, s # t, Busy(s), Busy(t),
         grp_id[s] = grp_id[t] \/ if_id[s] = if_id[t]
  PROVE  grp_id[s] \in spoilt /\ grp_id[t] \in spoilt
  <1>1. grp_id[s] \in Group /\ grp_id[t] \in Group
    BY DEF IInv, TypeOK
  <1>2. Meet(s, t) /\ Meet(t, s)
    BY DEF Meet
  <1> QED BY <1>1, <1>2 DEF IInv, Contested

\* What a step of another session does to a command: it moves the command's interface
\* only after they have met, and leaves a command alone that it has not met.
LEMMA OtherStep ==
  ASSUME IInv, TypeOK', Contested' \subseteq spoilt', spoilt \subseteq spoilt',
         NEW t \in Session, NEW s \in Session, s # t, Busy(s), Busy(t) \/ Busy(t)',
         pc'[s] = pc[s], op'[s] = op[s], grp_id'[s] = grp_id[s], if_id'[s] = if_id[s],
         mask'[s] = mask[s], num'[s] = num[s],
         NEW g \in Group, NEW i \in If,
         Busy(t) => grp_id[t] = g /\ if_id[t] = i,
         Busy(t)' => grp_id'[t] = g /\ if_id'[t] = i,
         \A h \in Group : h # g =>
           ifmask'[h] = ifmask[h] /\ if_grp_port_num'[h] = if_grp_port_num[h],
         \A j \in If : j # i => epif_iifgrp'[j] = epif_iifgrp[j],
         epif_iifgrp'[i] # epif_iifgrp[i] =>
           Busy(t) /\ epif_iifgrp'[i] \in {g, INVALID_IIFGRP},
         epif_iifgrp[i] \in {g, INVALID_IIFGRP} \cup spoilt
  PROVE  Held(s)' /\ (grp_id'[s] \notin spoilt' => Undisturbed(s)')
  <1>1. Held(s) /\ (grp_id[s] \notin spoilt => Undisturbed(s))
        /\ grp_id[s] \in Group /\ if_id[s] \in If /\ Busy(s)'
    BY DEF IInv, TypeOK, Busy
  <1>2. Found(s)' = Found(s)
    BY DEF Found
  <1>3. Held(s)'
    <2>1. CASE epif_iifgrp'[if_id[s]] = epif_iifgrp[if_id[s]]
      BY <1>1, <1>2, <2>1 DEF Held
    <2>2. CASE epif_iifgrp'[if_id[s]] # epif_iifgrp[if_id[s]]
      <3>1. if_id[s] = i /\ Busy(t) /\ epif_iifgrp'[i] \in {g, INVALID_IIFGRP}
        BY <1>1, <2>2
      <3>2. grp_id[s] \in spoilt /\ g \in spoilt
        BY <3>1, MeetSpoils
      <3> QED BY <3>1, <3>2 DEF Held
    <2> QED BY <2>1, <2>2
  <1>4. ASSUME grp_id[s] \notin spoilt' PROVE Undisturbed(s)'
    <2>1. grp_id[s] # g /\ if_id[s] # i
      <3>1. CASE Busy(t)
        BY <1>4, <3>1, MeetSpoils
      <3>2. CASE Busy(t)'
        <4>1. Meet(s, t)' => grp_id'[s] \in Contested'
          BY <1>1 DEF Contested
        <4>2. ~ Meet(s, t)'
          BY <1>4, <4>1
        <4> QED BY <1>1, <3>2, <4>2 DEF Meet
      <3> QED BY <3>1, <3>2
    <2>2. Members(grp_id[s])' = Members(grp_id[s])
      <3>1. grp_id[s] # INVALID_IIFGRP /\ grp_id[s] \notin spoilt
        BY <1>1, <1>4 DEF Group
      <3> QED BY <2>1, <3>1 DEF Members
    <2>3. MembersAfter(s)' = MembersAfter(s)
      BY <2>2 DEF MembersAfter
    <2> QED BY <1>1, <1>2, <1>4, <2>1, <2>2, <2>3 DEF Undisturbed
  <1> QED BY <1>3, <1>4

LEMMA CommandStep ==
  ASSUME IInv, Contested' \subseteq spoilt', spoilt \subseteq spoilt', spoilt' \in SUBSET Group,
         NEW t \in Session, NEW o \in {"add", "del"},
         NEW g \in Group, NEW i \in If,
         epif_iifgrp[i] = IF o = "add" THEN INVALID_IIFGRP ELSE g,
         Command(t, o, g, i)
  PROVE  IInv'
  <1>1. pc[t] = "idle"
    BY DEF Command, Goto
  <1>2. /\ pc' = [pc EXCEPT ![t] = "test"] /\ op' = [op EXCEPT ![t] = o]
        /\ grp_id' = [grp_id EXCEPT ![t] = g] /\ if_id' = [if_id EXCEPT ![t] = i]
        /\ UNCHANGED <<epif_iifgrp, ifmask, if_grp_port_num, mask, num>>
    BY DEF Command, Goto, group
  <1>3. TypeOK
    BY DEF IInv
  <1>4. TypeOK'
    BY <1>2, <1>3, SMTT(30) DEF TypeOK, Busy, Group, If
  <1>5. \A h \in Group : Members(h)' = Members(h)
    BY <1>2 DEF Members
  <1>6. pc'[t] = "test" /\ op'[t] = o /\ grp_id'[t] = g /\ if_id'[t] = i /\ Busy(t)' /\ ~ Busy(t)
    BY <1>1, <1>2, <1>3 DEF TypeOK, Busy
  <1>7. ASSUME NEW h \in Group \ spoilt', Quiet(h)' \/ h = g PROVE Quiet(h)
    <2> SUFFICES ASSUME NEW s \in Session, Busy(s), grp_id[s] = h PROVE FALSE
      BY DEF Quiet
    <2>1. s # t /\ Busy(s)' /\ grp_id'[s] = h
      BY <1>1, <1>2, <1>3 DEF Busy, TypeOK
    <2>2. CASE Quiet(h)'
      BY <2>1, <2>2 DEF Quiet
    <2>3. CASE h = g
      BY <1>6, <2>1, <2>3 DEF Meet, Contested
    <2> QED BY <1>7, <2>2, <2>3
  <1>8. ASSUME NEW s \in Session, Busy(s)'
        PROVE  Held(s)' /\ (grp_id'[s] \notin spoilt' => Undisturbed(s)')
    <2>1. CASE s # t
      <3>1. Busy(s) /\ pc'[s] = pc[s] /\ op'[s] = op[s] /\ grp_id'[s] = grp_id[s] /\ if_id'[s] = if_id[s]
        BY <1>2, <1>3, <1>8, <2>1 DEF TypeOK, Busy
      <3> QED BY <1>2, <1>4, <1>6, <2>1, <3>1, OtherStep
    <2>2. CASE s = t
      <3>1. epif_iifgrp'[i] = Found(t)'
        BY <1>2, <1>6 DEF Found
      <3>2. g \notin spoilt' => ifmask[g] = Bits(Members(g)) /\ if_grp_port_num[g] = Cardinality(Members(g))
        BY <1>7 DEF IInv
      <3> QED BY <1>2, <1>5, <1>6, <2>2, <3>1, <3>2 DEF Held, Undisturbed
    <2> QED BY <2>1, <2>2
  <1> QED BY <1>2, <1>4, <1>5, <1>7, <1>8 DEF IInv

\* A step of a command in progress that leaves the interface alone.
LEMMA MidStep ==
  ASSUME IInv, Contested' \subseteq spoilt', spoilt \subseteq spoilt',
         NEW t \in Session, Busy(t), TypeOK', Busy(t)',
         \A s \in Session \ {t} : pc'[s] = pc[s] /\ mask'[s] = mask[s] /\ num'[s] = num[s],
         UNCHANGED <<epif_iifgrp, op, grp_id, if_id>>,
         \A g \in Group : g # grp_id[t] =>
           ifmask'[g] = ifmask[g] /\ if_grp_port_num'[g] = if_grp_port_num[g],
         grp_id[t] \notin spoilt => Undisturbed(t)'
  PROVE  IInv'
  <1>1. Held(t) /\ grp_id[t] \in Group /\ if_id[t] \in If
    BY DEF IInv, TypeOK
  <1>2. \A h \in Group : Members(h)' = Members(h)
    BY DEF Members
  <1>3. ASSUME NEW s \in Session, Busy(s)'
        PROVE  Held(s)' /\ (grp_id'[s] \notin spoilt' => Undisturbed(s)')
    <2>1. CASE s # t
      <3>1. epif_iifgrp[if_id[t]] \in {grp_id[t], INVALID_IIFGRP} \cup spoilt
        BY <1>1 DEF Held, Found
      <3>2. Busy(s)
        BY <1>3, <2>1 DEF Busy
      <3> QED BY <1>1, <2>1, <3>1, <3>2, OtherStep
    <2>2. CASE s = t
      BY <1>1, <2>2 DEF Held, Found
    <2> QED BY <2>1, <2>2
  <1>4. ASSUME NEW h \in Group, Quiet(h)' PROVE Quiet(h) /\ h # grp_id[t]
    BY <1>4 DEF Quiet, Busy
  <1> QED BY <1>2, <1>3, <1>4 DEF IInv

\* The last step of a command of session t, which ends with the group of its
\* interface set to e.
LEMMA EndStep ==
  ASSUME IInv, Contested' \subseteq spoilt', spoilt \subseteq spoilt',
         NEW t \in Session, Busy(t), TypeOK',
         pc' = [pc EXCEPT ![t] = "idle"],
         \A s \in Session \ {t} :
           op'[s] = op[s] /\ grp_id'[s] = grp_id[s] /\ if_id'[s] = if_id[s],
         NEW e,
         e \in {grp_id[t], INVALID_IIFGRP} \/ e = epif_iifgrp[if_id[t]],
         epif_iifgrp' = [epif_iifgrp EXCEPT ![if_id[t]] = e],
         UNCHANGED <<ifmask, if_grp_port_num, mask, num>>,
         grp_id[t] \notin spoilt =>
           LET g == grp_id[t]  M == {i \in If : epif_iifgrp'[i] = g} IN
           /\ ifmask[g] = Bits(M)
           /\ if_grp_port_num[g] = Cardinality(M)
           /\ \A i, j \in M : Bit(i) = Bit(j) => i = j
  PROVE  IInv'
  <1>1. Held(t) /\ grp_id[t] \in Group /\ if_id[t] \in If
    BY DEF IInv, TypeOK
  <1>2. TypeOK
    BY DEF IInv
  <1>3. epif_iifgrp[if_id[t]] \in {grp_id[t], INVALID_IIFGRP} \cup spoilt
    BY <1>1 DEF Held, Found
  <1>4. epif_iifgrp'[if_id[t]] = e /\ \A j \in If : j # if_id[t] => epif_iifgrp'[j] = epif_iifgrp[j]
    BY <1>1, <1>2 DEF TypeOK
  <1>5. \A h \in Group \ spoilt : h # grp_id[t] => Members(h)' = Members(h)
    <2>1. \A h \in Group : h # INVALID_IIFGRP
      BY DEF Group
    <2> QED BY <1>1, <1>3, <1>4, <2>1 DEF Members
  <1>6. ~ Busy(t)'
    BY <1>2 DEF TypeOK, Busy
  <1>7. ASSUME NEW s \in Session, Busy(s)'
        PROVE  Held(s)' /\ (grp_id'[s] \notin spoilt' => Undisturbed(s)')
    <2>1. s # t /\ Busy(s) /\ pc'[s] = pc[s]
      BY <1>2, <1>6, <1>7 DEF TypeOK, Busy
    <2> QED BY <1>1, <1>3, <1>4, <1>6, <2>1, OtherStep
  <1>8. ASSUME NEW h \in Group, Quiet(h)', h # grp_id[t] PROVE Quiet(h)
    <2> SUFFICES ASSUME NEW s \in Session, Busy(s), grp_id[s] = h PROVE FALSE
      BY DEF Quiet
    <2>1. s # t /\ Busy(s)' /\ grp_id'[s] = h
      BY <1>2, <1>8 DEF Busy, TypeOK
    <2> QED BY <1>8, <2>1 DEF Quiet
  <1>9. \A h : Members(h)' = {i \in If : epif_iifgrp'[i] = h}
    BY DEF Members
  <1>10. ASSUME NEW h \in Group \ spoilt', Quiet(h)'
        PROVE ifmask'[h] = Bits(Members(h)') /\ if_grp_port_num'[h] = Cardinality(Members(h)')
    <2>1. CASE h = grp_id[t]
      BY <1>1, <1>9, <1>10, <2>1
    <2>2. CASE h # grp_id[t]
      BY <1>5, <1>8, <1>10, <2>2 DEF IInv
    <2> QED BY <2>1, <2>2
  <1>11. ASSUME NEW h \in Group \ spoilt', NEW i \in Members(h)', NEW j \in Members(h)', Bit(i) = Bit(j)
        PROVE i = j
    BY <1>5, <1>9, <1>11 DEF IInv
  <1> QED BY <1>7, <1>10, <1>11 DEF IInv, Bits

-----------------------------------------------------------------------------
\* A step of a command keeps the types.
LEMMA ProceedType ==
  ASSUME TypeOK, spoilt' \in SUBSET Group, NEW t \in Session, Proceed(t)
  PROVE  TypeOK'
  <1>1. pc[t] # "idle" /\ grp_id[t] \in Group /\ if_id[t] \in If
    BY DEF Proceed, TestBit, Refuse, LoadMask, StoreMask, LoadNum, StoreNum, SetGroup, Goto, Return, Busy, TypeOK
  <1>2. CASE TestBit(t)
    BY <1>2, <1>1 DEF TestBit, Goto, TypeOK, Busy, group
  <1>3. CASE Refuse(t)
    BY <1>3, <1>1 DEF Refuse, Return, Goto, TypeOK, Busy, group
  <1>4. CASE LoadMask(t)
    BY <1>4, <1>1 DEF LoadMask, Goto, TypeOK, Busy, group
  <1>5. CASE StoreMask(t)
    <2>1. Bit(if_id[t]) \in 0 .. MaskBits - 1
      BY <1>1, BitType
    <2>2. ifmask' \in [Group -> SUBSET (0 .. MaskBits - 1)]
      BY <1>5, <1>1, <2>1 DEF StoreMask, TypeOK
    <2> QED BY <1>5, <1>1, <2>2 DEF StoreMask, Goto, TypeOK, Busy
  <1>6. CASE LoadNum(t)
    BY <1>6, <1>1 DEF LoadNum, Goto, TypeOK, Busy, group
  <1>7. CASE StoreNum(t)
    <2>1. \A n \in 0 .. Wrap - 1 : More(n) \in 0 .. Wrap - 1 /\ Less(n) \in 0 .. Wrap - 1
      BY DEF More, Less
    <2>2. if_grp_port_num' \in [Group -> 0 .. Wrap - 1]
      BY <1>7, <1>1, <2>1 DEF StoreNum, TypeOK
    <2> QED BY <1>7, <1>1, <2>2 DEF StoreNum, Goto, TypeOK, Busy
  <1>8. CASE SetGroup(t)
    BY <1>8, <1>1 DEF SetGroup, Return, Goto, TypeOK, Busy
  <1> QED BY <1>2, <1>3, <1>4, <1>5, <1>6, <1>7, <1>8 DEF Proceed

\* A command in progress goes on, or ends, with the invariant.
LEMMA ProceedStep ==
  ASSUME IInv, Contested' \subseteq spoilt', spoilt \subseteq spoilt', spoilt' \in SUBSET Group,
         NEW t \in Session, Proceed(t)
  PROVE  IInv'
  <1> DEFINE g == grp_id[t]
             i == if_id[t]
             M == Members(g)
  <1>1. TypeOK /\ TypeOK' /\ Busy(t)
    BY ProceedType DEF IInv, Proceed, TestBit, Refuse, LoadMask, StoreMask, LoadNum,
       StoreNum, SetGroup, Goto, Return, Busy
  <1>2. /\ g \in Group /\ i \in If /\ g # INVALID_IIFGRP
        /\ g \notin spoilt => Undisturbed(t)
    BY <1>1 DEF IInv, TypeOK, Group
  <1>3. /\ M \in SUBSET If
        /\ g \notin spoilt => (op[t] = "add" => i \notin M) /\ (op[t] = "del" => i \in M)
    BY <1>2 DEF Undisturbed, Found, Members
  <1>4. g \notin spoilt => \A j, k \in M : Bit(j) = Bit(k) => j = k
    BY <1>2 DEF IInv
  <1>5. op[t] \in {"add", "del"}
    BY <1>1 DEF TypeOK
  <1> DEFINE after == MembersAfter(t)
  <1>6. after = IF op[t] = "add" THEN M \cup {i} ELSE M \ {i}
    BY DEF MembersAfter
  <1> HIDE DEF after
  <1>7. UNCHANGED <<epif_iifgrp, op, grp_id, if_id>> => M' = M /\ after' = after /\ Found(t)' = Found(t)
    BY DEF Members, MembersAfter, Found, after
  <1>8. CASE TestBit(t)
    <2>1. /\ pc' = [pc EXCEPT ![t] = "mask"] /\ pc[t] = "test"
          /\ UNCHANGED <<epif_iifgrp, ifmask, if_grp_port_num, op, grp_id, if_id, mask, num>>
      BY <1>8 DEF TestBit, Goto, group
    <2>2. ASSUME g \notin spoilt PROVE Undisturbed(t)'
      <3>1. op[t] = "add" => Bit(i) \notin Bits(M)
        BY <1>2, <1>8, <2>1, <2>2 DEF TestBit, BitAgrees, Undisturbed
      <3> QED BY <1>1, <1>2, <1>7, <2>1, <2>2, <3>1 DEF Undisturbed, TypeOK, after
    <2>3. Busy(t)'
      BY <1>1, <2>1 DEF Busy, TypeOK
    <2> QED BY <1>1, <2>1, <2>2, <2>3, MidStep DEF TypeOK
  <1>9. CASE Refuse(t)
    <2>1. /\ pc' = [pc EXCEPT ![t] = "idle"] /\ pc[t] = "test"
          /\ UNCHANGED <<epif_iifgrp, ifmask, if_grp_port_num, mask, num>>
          /\ \A s \in Session \ {t} :
               op'[s] = op[s] /\ grp_id'[s] = grp_id[s] /\ if_id'[s] = if_id[s]
      BY <1>1, <1>9 DEF Refuse, Return, Goto, group, TypeOK
    <2>2. epif_iifgrp' = [epif_iifgrp EXCEPT ![i] = epif_iifgrp[i]]
      BY <1>1, <1>2, <2>1 DEF TypeOK
    <2>3. {j \in If : epif_iifgrp'[j] = g} = M
      BY <2>1 DEF Members
    <2>4. g \notin spoilt => ifmask[g] = Bits(M) /\ if_grp_port_num[g] = Cardinality(M)
      BY <1>2, <2>1 DEF Undisturbed
    <2>5. PICK e : e = epif_iifgrp[i]
      OBVIOUS
    <2>6. epif_iifgrp' = [epif_iifgrp EXCEPT ![i] = e]
      BY <2>2, <2>5
    <2>7. g \notin spoilt => LET N == {j \in If : epif_iifgrp'[j] = g} IN
            /\ ifmask[g] = Bits(N)
            /\ if_grp_port_num[g] = Cardinality(N)
            /\ \A j, k \in N : Bit(j) = Bit(k) => j = k
      BY <1>4, <2>3, <2>4
    <2> HIDE DEF M
    <2> QED BY <1>1, <2>1, <2>5, <2>6, <2>7, EndStep
  <1>10. CASE LoadMask(t)
    <2>1. /\ pc' = [pc EXCEPT ![t] = "mask2"] /\ pc[t] = "mask" /\ mask' = [mask EXCEPT ![t] = ifmask[g]]
          /\ UNCHANGED <<epif_iifgrp, ifmask, if_grp_port_num, op, grp_id, if_id, num>>
      BY <1>10 DEF LoadMask, Goto, group
    <2>2. g \notin spoilt => Undisturbed(t)'
      BY <1>1, <1>2, <1>7, <2>1 DEF Undisturbed, TypeOK, after
    <2>3. Busy(t)'
      BY <1>1, <2>1 DEF Busy, TypeOK
    <2> QED BY <1>1, <2>1, <2>2, <2>3, MidStep DEF TypeOK
  <1>11. CASE StoreMask(t)
    <2>1. /\ pc' = [pc EXCEPT ![t] = "num"] /\ pc[t] = "mask2"
          /\ ifmask' = [ifmask EXCEPT ![g] =
               IF op[t] = "add" THEN mask[t] \cup {Bit(i)} ELSE mask[t] \ {Bit(i)}]
          /\ mask' = [mask EXCEPT ![t] = {}]
          /\ UNCHANGED <<epif_iifgrp, if_grp_port_num, op, grp_id, if_id, num>>
      BY <1>11 DEF StoreMask, Goto
    <2>2. g \notin spoilt => mask[t] = Bits(M)
      BY <1>2, <2>1 DEF Undisturbed
    <2>3. ASSUME g \notin spoilt PROVE ifmask'[g] = Bits(after)
      <3>1. CASE op[t] = "add"
        <4>1. Bits(M \cup {i}) = Bits(M) \cup {Bit(i)}
          BY <1>2, <1>3, BitsAdd
        <4> QED BY <1>1, <1>2, <1>6, <2>1, <2>2, <2>3, <3>1, <4>1 DEF TypeOK
      <3>2. CASE op[t] = "del"
        <4>1. i \in M /\ M \in SUBSET If /\ \A j \in M : Bit(j) = Bit(i) => j = i
          BY <1>3, <1>4, <2>3, <3>2
        <4>2. Bits(M \ {i}) = Bits(M) \ {Bit(i)}
          BY <4>1, BitsDel
        <4> QED BY <1>1, <1>2, <1>6, <2>1, <2>2, <2>3, <3>2, <4>2 DEF TypeOK
      <3> QED BY <1>5, <3>1, <3>2
    <2>4. g \notin spoilt => Undisturbed(t)'
      BY <1>1, <1>2, <1>7, <2>1, <2>3 DEF Undisturbed, TypeOK, after
    <2>5. Busy(t)'
      BY <1>1, <2>1 DEF Busy, TypeOK
    <2> QED BY <1>1, <2>1, <2>4, <2>5, MidStep DEF TypeOK
  <1>12. CASE LoadNum(t)
    <2>1. /\ pc' = [pc EXCEPT ![t] = "num2"] /\ pc[t] = "num" /\ num' = [num EXCEPT ![t] = if_grp_port_num[g]]
          /\ UNCHANGED <<epif_iifgrp, ifmask, if_grp_port_num, op, grp_id, if_id, mask>>
      BY <1>12 DEF LoadNum, Goto, group
    <2>2. g \notin spoilt => Undisturbed(t)'
      BY <1>1, <1>2, <1>7, <2>1 DEF Undisturbed, TypeOK, after
    <2>3. Busy(t)'
      BY <1>1, <2>1 DEF Busy, TypeOK
    <2> QED BY <1>1, <2>1, <2>2, <2>3, MidStep DEF TypeOK
  <1>13. CASE StoreNum(t)
    <2>1. /\ pc' = [pc EXCEPT ![t] = "epif"] /\ pc[t] = "num2"
          /\ if_grp_port_num' = [if_grp_port_num EXCEPT ![g] =
               IF op[t] = "add" THEN More(num[t]) ELSE Less(num[t])]
          /\ num' = [num EXCEPT ![t] = 0]
          /\ UNCHANGED <<epif_iifgrp, ifmask, op, grp_id, if_id, mask>>
      BY <1>13 DEF StoreNum, Goto
    <2>2. g \notin spoilt => num[t] = Cardinality(M)
      BY <1>2, <2>1 DEF Undisturbed
    <2>3. ASSUME g \notin spoilt PROVE if_grp_port_num'[g] = Cardinality(after)
      <3>1. CASE op[t] = "add"
        BY <1>1, <1>2, <1>3, <1>6, <2>1, <2>2, <2>3, <3>1, CountAdd DEF TypeOK
      <3>2. CASE op[t] = "del"
        BY <1>1, <1>2, <1>3, <1>6, <2>1, <2>2, <2>3, <3>2, CountDel DEF TypeOK
      <3> QED BY <1>5, <3>1, <3>2
    <2>4. g \notin spoilt => Undisturbed(t)'
      BY <1>1, <1>2, <1>7, <2>1, <2>3 DEF Undisturbed, TypeOK, after
    <2>5. Busy(t)'
      BY <1>1, <2>1 DEF Busy, TypeOK
    <2> QED BY <1>1, <2>1, <2>4, <2>5, MidStep DEF TypeOK
  <1>14. CASE SetGroup(t)
    <2> DEFINE e == IF op[t] = "add" THEN g ELSE INVALID_IIFGRP
    <2>1. /\ pc' = [pc EXCEPT ![t] = "idle"] /\ pc[t] = "epif"
          /\ epif_iifgrp' = [epif_iifgrp EXCEPT ![i] = e]
          /\ UNCHANGED <<ifmask, if_grp_port_num, mask, num>>
          /\ \A s \in Session \ {t} :
               op'[s] = op[s] /\ grp_id'[s] = grp_id[s] /\ if_id'[s] = if_id[s]
      BY <1>1, <1>14 DEF SetGroup, Return, Goto, TypeOK
    <2>2. g \notin spoilt => {j \in If : epif_iifgrp'[j] = g} = after
      BY <1>1, <1>2, <1>5, <1>6, <2>1 DEF Members, TypeOK
    <2>3. g \notin spoilt => ifmask[g] = Bits(after) /\ if_grp_port_num[g] = Cardinality(after)
      BY <1>2, <2>1 DEF Undisturbed, after
    <2>4. g \notin spoilt => (op[t] = "add" => \A j \in M : Bit(i) # Bit(j))
      BY <1>2, <2>1 DEF Undisturbed, Bits
    <2>5. g \notin spoilt => \A j, k \in after : Bit(j) = Bit(k) => j = k
      BY <1>4, <1>6, <2>4
    <2>6. e \in {g, INVALID_IIFGRP}
      OBVIOUS
    <2>7. g \notin spoilt => LET N == {j \in If : epif_iifgrp'[j] = g} IN
            /\ ifmask[g] = Bits(N)
            /\ if_grp_port_num[g] = Cardinality(N)
            /\ \A j, k \in N : Bit(j) = Bit(k) => j = k
      BY <2>2, <2>3, <2>5
    <2>8. PICK f : f = e
      OBVIOUS
    <2>9. epif_iifgrp' = [epif_iifgrp EXCEPT ![i] = f] /\ f \in {g, INVALID_IIFGRP}
      BY <2>1, <2>6, <2>8
    <2> HIDE DEF e, M
    <2> QED BY <1>1, <2>1, <2>7, <2>9, EndStep
  <1> QED BY <1>8, <1>9, <1>10, <1>11, <1>12, <1>13, <1>14 DEF Proceed

\* Every step preserves the invariant.
LEMMA Inductive == ASSUME IInv, [Next]_vars PROVE IInv'
  <1>1. CASE UNCHANGED vars
    <2>1. UNCHANGED <<epif_iifgrp, ifmask, if_grp_port_num, pc, op, grp_id, if_id, mask, num, spoilt>>
      BY <1>1 DEF vars, group, session
    <2>2. \A s \in Session : Busy(s)' = Busy(s) /\ Found(s)' = Found(s) /\ Held(s)' = Held(s)
      BY <2>1 DEF Busy, Found, Held
    <2>3. TypeOK'
      BY <2>1, <2>2 DEF IInv, TypeOK
    <2>4. \A g : Members(g)' = Members(g) /\ Quiet(g)' = Quiet(g)
      BY <2>1, <2>2 DEF Members, Quiet
    <2>5. \A s \in Session : MembersAfter(s)' = MembersAfter(s)
      BY <2>1, <2>4 DEF MembersAfter
    <2>6. \A s \in Session : Undisturbed(s)' = Undisturbed(s)
      BY <2>1, <2>2, <2>4, <2>5 DEF Undisturbed
    <2>7. Contested' = Contested
      BY <2>1, <2>2 DEF Contested, Meet
    <2> QED BY <2>1, <2>2, <2>3, <2>4, <2>6, <2>7 DEF IInv
  <1>2. CASE Next
    <2>1. Contested' \subseteq spoilt' /\ spoilt \subseteq spoilt' /\ spoilt' \in SUBSET Group
      BY <1>2 DEF Next, Contested, IInv, TypeOK
    <2>2. ASSUME NEW t \in Session, NEW g \in Group, NEW i \in If, Add(t, g, i)
          PROVE IInv'
      BY <2>1, <2>2, CommandStep DEF Add
    <2>3. ASSUME NEW t \in Session, NEW g \in Group, NEW i \in If, Del(t, g, i)
          PROVE IInv'
      BY <2>1, <2>3, CommandStep DEF Del
    <2>4. ASSUME NEW t \in Session, Proceed(t) PROVE IInv'
      BY <2>1, <2>4, ProceedStep
    <2> QED BY <1>2, <2>2, <2>3, <2>4 DEF Next
  <1> QED BY <1>1, <1>2

-----------------------------------------------------------------------------
\* Whatever the sessions do at the same time, the invariant of membership holds: it
\* claims agreement of every group no two commands have met in.
THEOREM Invariance == Spec => []IInv
  <1> QED BY Initially, Inductive, PTL DEF Spec

\* Type correctness of membership.
THEOREM TypeCorrect == Spec => []TypeOK
  <1>1. IInv => TypeOK  BY DEF IInv
  <1> QED BY <1>1, Invariance, PTL

\* The mask of a group is made of the bits of its members, no two of which share
\* one, for any width of the masks (md_ifgrp.c:284-287, 327-330), as long as no two
\* commands meet in it.
THEOREM MaskAgrees == Spec => []MaskOfMembers
  <1>1. IInv => MaskOfMembers  BY DEF IInv, MaskOfMembers
  <1> QED BY <1>1, Invariance, PTL

\* A group counts its members, and its counter never wraps (md_ifgrp.h:43), as long
\* as no two commands meet in it.
THEOREM NumberAgrees == Spec => []PortNumber
  <1>1. IInv => PortNumber  BY DEF IInv, PortNumber
  <1> QED BY <1>1, Invariance, PTL

\* An interface joins a group only from no group (md_ifgrp.c:276), unless commands
\* on the two groups have met.
THEOREM JoinsOnlyFree == Spec => JoinsUnlessMet
  <1>1. ASSUME IInv, [Next]_vars
        PROVE [\A i \in If : epif_iifgrp'[i] # epif_iifgrp[i] =>
                 \/ INVALID_IIFGRP \in {epif_iifgrp[i], epif_iifgrp'[i]}
                 \/ {epif_iifgrp[i], epif_iifgrp'[i]} \subseteq spoilt]_vars
    <2>1. CASE UNCHANGED vars
      BY <2>1
    <2>2. ASSUME NEW t \in Session, SetGroup(t), NEW i \in If, epif_iifgrp'[i] # epif_iifgrp[i],
                 INVALID_IIFGRP \notin {epif_iifgrp[i], epif_iifgrp'[i]}
          PROVE {epif_iifgrp[i], epif_iifgrp'[i]} \subseteq spoilt
      <3>1. Busy(t) /\ TypeOK
        BY <1>1, <2>2 DEF SetGroup, Return, Goto, IInv, Busy
      <3>2. Held(t) /\ if_id[t] = i /\ epif_iifgrp'[i] = grp_id[t] /\ op[t] = "add"
        BY <1>1, <2>2, <3>1 DEF SetGroup, IInv, TypeOK
      <3> QED BY <2>2, <3>2 DEF Held, Found
    <2>3. (\E t \in Session : SetGroup(t)) \/ UNCHANGED epif_iifgrp
      BY <1>1, <2>1 DEF Next, Proceed, Add, Del, Command, TestBit, Refuse, LoadMask, StoreMask,
         LoadNum, StoreNum, group, vars
    <2> QED BY <2>2, <2>3
  <1> QED BY <1>1, Invariance, PTL DEF Spec, JoinsUnlessMet
=============================================================================
