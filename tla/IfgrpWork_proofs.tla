--------------------------- MODULE IfgrpWork_proofs ---------------------------
(***************************************************************************)
(* What the double buffer of an interface group guarantees, for any number *)
(* of works and entries.                                                   *)
(***************************************************************************)
EXTENDS IfgrpWork, TLAPS

-----------------------------------------------------------------------------
LEMMA SlotFacts ==
  /\ 0 \in Slot /\ MAX_GRP_ACL - 1 \in Slot
  /\ Slot \subseteq Nat /\ Work \subseteq Slot
  /\ \A s \in Slot : s \notin Work <=> s >= MD_IF_GRP_WORK_MAX
  /\ \A s \in Slot : s # MAX_GRP_ACL - 1 => s + 1 \in Slot
  /\ INVALID \notin Work /\ NULL \notin Work /\ NULL # INVALID
BY IfgrpWorkAssumption DEF Slot, Work

LEMMA InitIInv == Init => IInv
<1>1. SUFFICES ASSUME Init
               PROVE  IInv
  OBVIOUS
<1>2. TypeOK
  BY <1>1, SlotFacts, IfgrpWorkAssumption DEF Init, TypeOK, NoTable, Work, Slot
<1>3. WorkOnce /\ Bounds /\ NoGaps(InUse) /\ CallsOnlyOffered
  BY <1>1, SlotFacts
     DEF Init, WorkOnce, Bounds, NoGaps, InUse, NoTable, CallsOnlyOffered
<1>4. Building
  BY <1>1, SlotFacts DEF Init, Building, Lists, InUse, NoTable
<1>5. Following /\ Offering
  BY <1>1 DEF Init, Following, Offering
<1>6. QED
  BY <1>2, <1>3, <1>4, <1>5 DEF IInv

-----------------------------------------------------------------------------
(* The commands.  Whatever they do to `priority`, they start a rebuild.    *)

LEMMA RebuildPreserves ==
  ASSUME IInv, Rebuild,
         priority' \in [Slot -> Work \cup {INVALID}],
         \A s \in Slot : s >= MD_IF_GRP_WORK_MAX => priority'[s] = INVALID,
         WorkOnce',
         offered \subseteq offered', offered' \subseteq Work,
         rpc # "idle" => Bound(priority') \subseteq offered'
  PROVE  IInv'
<1>1. TypeOK'
  BY SlotFacts, IfgrpWorkAssumption DEF IInv, TypeOK, Rebuild, packet
<1>2. Bounds' /\ NoGaps(InUse)'
  BY DEF IInv, Rebuild, Bounds, NoGaps, InUse
<1>3. Building'
  BY SlotFacts DEF IInv, TypeOK, Rebuild, Building, InUse
<1>4. Following'
  BY DEF IInv, Rebuild, Following, InUse, packet
<1>5. grp_acl[backup'] = InUse
  BY DEF IInv, TypeOK, Building, Rebuild, InUse
<1>6. Offering' /\ CallsOnlyOffered'
  BY <1>5 DEF IInv, Rebuild, Offering, CallsOnlyOffered, InUse, packet
<1>7. QED
  BY <1>1, <1>2, <1>3, <1>4, <1>6 DEF IInv

LEMMA BindPreserves ==
  ASSUME IInv, NEW w \in Work, NEW p \in Work, Bind(w, p)
  PROVE  IInv'
<1>1. priority' \in [Slot -> Work \cup {INVALID}]
  BY DEF Bind, IInv, TypeOK
<1>2. \A s \in Slot : s >= MD_IF_GRP_WORK_MAX => priority'[s] = INVALID
  BY SlotFacts DEF Bind, IInv, Bounds
<1>3. WorkOnce'
  BY SlotFacts DEF Bind, IInv, TypeOK, WorkOnce
<1>4. offered \subseteq offered' /\ offered' \subseteq Work
  BY DEF Bind, IInv, TypeOK
<1>5. rpc # "idle" => Bound(priority') \subseteq offered'
  BY DEF Bind, IInv, Offering, Bound
<1>6. QED
  BY <1>1, <1>2, <1>3, <1>4, <1>5, RebuildPreserves DEF Bind

LEMMA UnbindPreserves ==
  ASSUME IInv, NEW w \in Work, Unbind(w)
  PROVE  IInv'
<1>1. PICK s \in Slot : priority' = [priority EXCEPT ![s] = INVALID]
  BY DEF Unbind
<1>2. priority' \in [Slot -> Work \cup {INVALID}]
  BY <1>1 DEF IInv, TypeOK
<1>3. \A q \in Slot : q >= MD_IF_GRP_WORK_MAX => priority'[q] = INVALID
  BY <1>1 DEF IInv, TypeOK, Bounds
<1>4. WorkOnce'
  BY <1>1 DEF IInv, TypeOK, WorkOnce
<1>5. offered' = offered /\ Rebuild
  BY DEF Unbind
<1>6. rpc # "idle" => Bound(priority') \subseteq offered'
  BY <1>1, <1>5 DEF IInv, TypeOK, Offering, Bound
<1>7. QED
  BY <1>2, <1>3, <1>4, <1>5, <1>6, RebuildPreserves DEF IInv, TypeOK

LEMMA RestorePreserves ==
  ASSUME IInv, Restore
  PROVE  IInv'
<1>1. \A q \in Slot : \/ priority'[q] = INVALID
                      \/ /\ priority'[q] = q
                         /\ \E s \in Slot : priority[s] = q
  BY SlotFacts DEF Restore, Restored, Slot
<1>2. \A q \in Slot : priority'[q] # INVALID => priority'[q] = q /\ q \in Work
  BY <1>1, SlotFacts, IfgrpWorkAssumption DEF IInv, TypeOK
<1>3. priority' \in [Slot -> Work \cup {INVALID}]
  BY <1>2 DEF Restore, Restored
<1>4. \A q \in Slot : q >= MD_IF_GRP_WORK_MAX => priority'[q] = INVALID
  BY <1>2, SlotFacts
<1>5. WorkOnce'
  BY <1>2 DEF WorkOnce
<1>6. Bound(priority') \subseteq Bound(priority)
  BY <1>1 DEF Bound
<1>7. rpc # "idle" => Bound(priority') \subseteq offered'
  BY <1>6 DEF IInv, Restore, Offering
<1>8. QED
  BY <1>3, <1>4, <1>5, <1>7, RebuildPreserves DEF IInv, TypeOK, Restore

-----------------------------------------------------------------------------
(* Rebuilding the table not in use.                                        *)

LEMMA ClearPreserves ==
  ASSUME IInv, Clear
  PROVE  IInv'
<1>1. TypeOK'
  BY SlotFacts DEF IInv, TypeOK, Clear, Loop, packet
<1>2. grp_acl[backup] \in [Slot -> Work \cup {NULL}] /\ k \in Slot
  BY DEF IInv, TypeOK
<1>3. /\ grp_acl'[master] = grp_acl[master]
      /\ grp_acl'[backup] = [grp_acl[backup] EXCEPT ![k] = NULL]
      /\ backup # master
  BY DEF IInv, TypeOK, Building, Clear
<1>4. \A t \in 0 .. 1, s \in Slot : grp_acl'[t][s] \in {grp_acl[t][s], NULL}
  BY DEF IInv, TypeOK, Clear
<1>5. WorkOnce' /\ Bounds'
  BY <1>4 DEF IInv, Clear, WorkOnce, Bounds
<1>6. InUse' = InUse
  BY <1>3 DEF Clear, InUse
<1>7. NoGaps(InUse)'
  BY <1>6 DEF IInv, NoGaps
<1>8. Building'
  <2>1. \A s \in Slot : grp_acl'[backup][s] =
                        IF s < k \/ s = k THEN NULL ELSE InUse[s]
    BY <1>2, <1>3 DEF IInv, Clear, Building
  <2>2. CASE k = MAX_GRP_ACL - 1
    <3>1. \A s \in Slot : grp_acl'[backup][s] = NULL
      BY <2>1, <2>2 DEF Slot
    <3>2. Lists(grp_acl'[backup], 0, priority, 0)
      BY <3>1 DEF Lists, Slot
    <3>3. cpc' = "fill" /\ k' = 0 /\ j' = 0 /\ priority' = priority
          /\ backup' = backup /\ master' = master /\ backup = 1 - master
      BY <2>2 DEF IInv, Clear, Loop, Building
    <3>4. QED
      BY <3>2, <3>3 DEF Building
  <2>3. CASE k # MAX_GRP_ACL - 1
    <3>1. cpc' = "clear" /\ k' = k + 1 /\ j' = 0
          /\ backup' = backup /\ master' = master /\ backup = 1 - master
      BY <2>3 DEF IInv, Clear, Loop, Building
    <3>2. \A s \in Slot : s < k + 1 <=> s < k \/ s = k
      BY <1>2, SlotFacts
    <3>3. QED
      BY <2>1, <3>1, <3>2, <1>6 DEF Building
  <2>4. QED
    BY <2>2, <2>3
<1>9. Following'
  BY <1>6 DEF IInv, Clear, Following, packet
<1>10. Offering' /\ CallsOnlyOffered'
  <2>1. \A t \in 0 .. 1 : Listed(grp_acl'[t]) \subseteq Listed(grp_acl[t])
    BY <1>4 DEF Listed
  <2>2. QED
    BY <2>1, <1>6 DEF IInv, TypeOK, Clear, Offering, CallsOnlyOffered, packet
<1>11. QED
  BY <1>1, <1>5, <1>7, <1>8, <1>9, <1>10 DEF IInv

\* One more priority has been looked at.
LEMMA ListsSkip ==
  ASSUME NEW t, NEW m \in Nat, NEW p, NEW n \in Slot,
         Lists(t, m, p, n), p[n] = INVALID
  PROVE  Lists(t, m, p, n + 1)
<1>1. \A x \in Slot : x < n + 1 <=> x < n \/ x = n
  BY SlotFacts
<1>2. \A a \in Slot : a < m =>
         t[a] # NULL /\ \E x \in Slot : x < n + 1 /\ t[a] = p[x]
  BY <1>1 DEF Lists
<1>3. \A x \in Slot : x < n + 1 /\ p[x] # INVALID =>
         \E a \in Slot : a < m /\ t[a] = p[x]
  BY <1>1 DEF Lists
<1>4. \A a, b \in Slot : a < b /\ b < m =>
         \E x, y \in Slot : x < y /\ y < n + 1 /\ t[a] = p[x] /\ t[b] = p[y]
  BY <1>1 DEF Lists
<1>5. QED
  BY <1>2, <1>3, <1>4 DEF Lists

\* One more work has been listed.
LEMMA ListsAppend ==
  ASSUME NEW t, DOMAIN t = Slot, NEW m \in Slot, NEW p, NEW n \in Slot, m <= n,
         Lists(t, m, p, n), p[n] # NULL, p[n] # INVALID
  PROVE  Lists([t EXCEPT ![m] = p[n]], m + 1, p, n + 1)
<1> DEFINE u == [t EXCEPT ![m] = p[n]]
<1>1. u[m] = p[n] /\ \A a \in Slot : a # m => u[a] = t[a]
  OBVIOUS
<1>2. \A x \in Slot : /\ x < n + 1 <=> x < n \/ x = n
                      /\ x < m + 1 <=> x < m \/ x = m
                      /\ x >= m + 1 <=> x >= m /\ x # m
                      /\ x < m => x # m
  BY SlotFacts
<1> HIDE DEF u
<1>3. \A a \in Slot : a >= m + 1 => u[a] = NULL
  BY <1>1, <1>2 DEF Lists
<1>4. \A a \in Slot : a < m + 1 =>
         u[a] # NULL /\ \E x \in Slot : x < n + 1 /\ u[a] = p[x]
  BY <1>1, <1>2 DEF Lists
<1>5. \A x \in Slot : x < n + 1 /\ p[x] # INVALID =>
         \E a \in Slot : a < m + 1 /\ u[a] = p[x]
  BY <1>1, <1>2 DEF Lists
<1>6. ASSUME NEW a \in Slot, NEW b \in Slot, a < b, b < m + 1
      PROVE  \E x, y \in Slot : x < y /\ y < n + 1 /\ u[a] = p[x] /\ u[b] = p[y]
  <2>1. a < m /\ u[a] = t[a]
    BY <1>1, <1>2, <1>6, SlotFacts
  <2>2. CASE b = m
    <3>1. PICK x \in Slot : x < n /\ t[a] = p[x]
      BY <2>1 DEF Lists
    <3>2. QED
      BY <1>1, <1>2, <2>1, <2>2, <3>1
  <2>3. CASE b < m
    <3>1. PICK x, y \in Slot : x < y /\ y < n /\ t[a] = p[x] /\ t[b] = p[y]
      BY <1>6, <2>3 DEF Lists
    <3>2. QED
      BY <1>1, <1>2, <2>1, <2>3, <3>1
  <2>4. QED
    BY <1>2, <1>6, <2>2, <2>3
<1>7. Lists(u, m + 1, p, n + 1)
  BY <1>3, <1>4, <1>5, <1>6 DEF Lists
<1>8. QED
  BY <1>7 DEF u

LEMMA FillPreserves ==
  ASSUME IInv, Fill
  PROVE  IInv'
<1>1. /\ k \in Slot /\ k \in Nat /\ j \in Nat /\ j <= k
      /\ backup = 1 - master /\ backup \in 0 .. 1 /\ master \in 0 .. 1
      /\ Lists(grp_acl[backup], j, priority, k)
  BY SlotFacts DEF IInv, TypeOK, Building, Fill
<1>2. priority[k] # INVALID =>
        /\ priority[k] \in Work
        /\ k < MD_IF_GRP_WORK_MAX /\ j < MD_IF_GRP_WORK_MAX /\ j \in Slot
  BY <1>1, SlotFacts, IfgrpWorkAssumption DEF IInv, TypeOK, Bounds, Work
<1>3. TypeOK'
  <2>1. grp_acl' \in [0 .. 1 -> [Slot -> Work \cup {NULL}]]
    BY <1>1, <1>2 DEF IInv, TypeOK, Fill
  <2>2. j' \in 0 .. MD_IF_GRP_WORK_MAX
    BY <1>1, <1>2, IfgrpWorkAssumption DEF IInv, TypeOK, Fill
  <2>3. k' \in Slot /\ cpc' \in {"fill", "switch"}
    BY <1>1, SlotFacts DEF Fill, Loop
  <2>4. QED
    BY <2>1, <2>2, <2>3 DEF IInv, TypeOK, Fill, packet
<1>4. InUse' = InUse
  BY <1>1 DEF IInv, TypeOK, Fill, InUse
<1>5. \A t \in 0 .. 1, s \in Slot :
         \/ grp_acl'[t][s] = grp_acl[t][s]
         \/ /\ priority[k] # INVALID /\ t = backup /\ s = j
            /\ grp_acl'[t][s] = priority[k]
  BY <1>2 DEF IInv, TypeOK, Fill
<1>6. WorkOnce' /\ Bounds'
  <2>1. \A s \in Slot : s >= MD_IF_GRP_WORK_MAX =>
          \A t \in 0 .. 1 : grp_acl'[t][s] = grp_acl[t][s]
    BY <1>1, <1>2, <1>5, SlotFacts, IfgrpWorkAssumption
  <2>2. QED
    BY <2>1 DEF IInv, Fill, WorkOnce, Bounds
<1>7. NoGaps(InUse)' /\ Following'
  BY <1>4 DEF IInv, NoGaps, Fill, Following, packet
<1>8. Lists(grp_acl'[backup], j', priority, k + 1) /\ j' <= k + 1
  <2>1. CASE priority[k] = INVALID
    BY <1>1, <2>1, ListsSkip DEF Fill
  <2>2. CASE priority[k] # INVALID
    <3>1. grp_acl'[backup] = [grp_acl[backup] EXCEPT ![j] = priority[k]] /\ j' = j + 1
      BY <1>1, <2>2 DEF IInv, TypeOK, Fill
    <3>2. DOMAIN grp_acl[backup] = Slot /\ priority[k] # NULL
      BY <1>1, <1>2, <2>2, SlotFacts DEF IInv, TypeOK
    <3>3. QED
      BY <1>1, <1>2, <2>2, <3>1, <3>2, ListsAppend
  <2>3. QED
    BY <2>1, <2>2
<1>9. Building'
  <2>1. /\ priority' = priority /\ backup' = backup /\ master' = master
        /\ \/ k = MAX_GRP_ACL - 1 /\ cpc' = "switch" /\ k' = 0
           \/ cpc' = "fill" /\ k' = k + 1
    BY DEF Fill, Loop
  <2>2. k = MAX_GRP_ACL - 1 => k + 1 = MAX_GRP_ACL
    BY IfgrpWorkAssumption
  <2>3. QED
    BY <1>1, <1>8, <2>1, <2>2 DEF Building
<1>10. Offering' /\ CallsOnlyOffered'
  <2>1. \A t \in 0 .. 1 :
          Listed(grp_acl'[t]) \subseteq Listed(grp_acl[t]) \cup Bound(priority)
    BY <1>1, <1>5 DEF Listed, Bound
  <2>2. QED
    BY <1>4, <2>1 DEF IInv, TypeOK, Building, Fill, Offering, CallsOnlyOffered, packet
<1>11. QED
  BY <1>3, <1>6, <1>7, <1>9, <1>10 DEF IInv
LEMMA ListsHaveNoGaps ==
  ASSUME NEW t, NEW m \in Nat, NEW p, NEW n, Lists(t, m, p, n)
  PROVE  NoGaps(t)
<1>1. SUFFICES ASSUME NEW a \in Slot, NEW b \in Slot, a < b, t[b] # NULL
               PROVE  t[a] # NULL
  BY DEF NoGaps
<1>2. b < m
  BY <1>1, SlotFacts DEF Lists
<1>3. a < m
  BY <1>1, <1>2, SlotFacts
<1>4. QED
  BY <1>3 DEF Lists

LEMMA SwitchPreserves ==
  ASSUME IInv, Switch
  PROVE  IInv'
<1>1. /\ backup = 1 - master /\ backup \in 0 .. 1 /\ master' = backup /\ j \in Nat
      /\ Lists(grp_acl[backup], j, priority, MAX_GRP_ACL)
  BY DEF IInv, TypeOK, Building, Switch
<1>2. TypeOK'
  BY DEF IInv, TypeOK, Switch, packet
<1>3. WorkOnce' /\ Bounds'
  BY DEF IInv, Switch, WorkOnce, Bounds
<1>4. InUse' = grp_acl[backup]
  BY DEF Switch, InUse
<1>5. NoGaps(InUse)'
  BY <1>1, <1>4, ListsHaveNoGaps DEF NoGaps
<1>6. Building'
  BY <1>1, <1>4, SlotFacts DEF IInv, Switch, Building
<1>7. Following'
  BY DEF IInv, Switch, Following, packet
<1>8. Offering' /\ CallsOnlyOffered'
  BY <1>4 DEF IInv, Switch, Offering, CallsOnlyOffered, packet
<1>9. QED
  BY <1>2, <1>3, <1>5, <1>6, <1>7, <1>8 DEF IInv

LEMMA CopyBackPreserves ==
  ASSUME IInv, CopyBack
  PROVE  IInv'
<1>1. /\ backup = master /\ master \in 0 .. 1 /\ k \in Slot
      /\ \A s \in Slot : s < k => grp_acl[1 - backup][s] = InUse[s]
  BY DEF IInv, TypeOK, Building, CopyBack
<1>2. /\ grp_acl'[master] = InUse
      /\ grp_acl'[1 - master] = [grp_acl[1 - master] EXCEPT ![k] = InUse[k]]
  BY <1>1 DEF IInv, TypeOK, CopyBack, InUse
<1>3. grp_acl' \in [0 .. 1 -> [Slot -> Work \cup {NULL}]]
  BY <1>1 DEF IInv, TypeOK, CopyBack
<1>4. TypeOK'
  BY <1>3, SlotFacts DEF IInv, TypeOK, CopyBack, Loop, packet
<1>5. \A t \in 0 .. 1, s \in Slot : grp_acl'[t][s] \in {grp_acl[t][s], InUse[s]}
  BY <1>1, <1>2 DEF IInv, TypeOK, CopyBack
<1>6. WorkOnce' /\ Bounds'
  BY <1>1, <1>5 DEF IInv, CopyBack, WorkOnce, Bounds, InUse
<1>7. InUse' = InUse
  BY <1>2 DEF CopyBack, InUse
<1>8. NoGaps(InUse)' /\ Following'
  BY <1>7 DEF IInv, NoGaps, CopyBack, Following, packet
<1>9. Building'
  <2>1. \A s \in Slot : s < k \/ s = k => grp_acl'[1 - master][s] = InUse[s]
    BY <1>1, <1>2 DEF IInv, TypeOK
  <2>2. CASE k = MAX_GRP_ACL - 1
    <3>1. \A s \in Slot : s < k \/ s = k
      BY <2>2 DEF Slot
    <3>2. \A s \in Slot : grp_acl'[1 - master][s] = grp_acl'[master][s]
      BY <1>2, <2>1, <3>1
    <3>3. grp_acl'[1 - master] = grp_acl'[master]
      BY <1>1, <1>3, <3>2
    <3>4. cpc' = "idle" /\ k' = 0
      BY <2>2 DEF CopyBack, Loop
    <3>5. QED
      BY <1>1, <1>7, <3>3, <3>4 DEF IInv, Building, CopyBack
  <2>3. CASE k # MAX_GRP_ACL - 1
    <3>1. cpc' = "copy" /\ k' = k + 1
      BY <2>3 DEF CopyBack, Loop
    <3>2. \A s \in Slot : s < k + 1 => s < k \/ s = k
      <4>1. k \in Nat /\ \A s \in Slot : s \in Nat
        BY <1>1, SlotFacts
      <4>2. QED
        BY <4>1
    <3>3. QED
      BY <1>1, <1>7, <2>1, <3>1, <3>2 DEF IInv, Building, CopyBack
  <2>4. QED
    BY <2>2, <2>3
<1>10. Offering' /\ CallsOnlyOffered'
  <2>1. \A t \in 0 .. 1 : Listed(grp_acl'[t]) \subseteq Listed(grp_acl[t]) \cup Listed(InUse)
    BY <1>5 DEF Listed
  <2>2. cpc' \in {"copy", "idle"}
    BY DEF CopyBack, Loop
  <2>3. QED
    BY <1>7, <2>1, <2>2 DEF IInv, TypeOK, CopyBack, Offering, CallsOnlyOffered, packet
<1>11. QED
  BY <1>4, <1>6, <1>8, <1>9, <1>10 DEF IInv

-----------------------------------------------------------------------------
(* The packet process.                                                     *)

\* It does not disturb what the session relies on.
LEMMA PacketFrame ==
  ASSUME IInv, UNCHANGED <<priority, grp_acl, master, cli>>
  PROVE  /\ WorkOnce' /\ Bounds' /\ Building' /\ NoGaps(InUse)' /\ InUse' = InUse
         /\ Bound(priority)' = Bound(priority)
         /\ Listed(InUse)' = Listed(InUse)
         /\ \A t : Listed(grp_acl[t])' = Listed(grp_acl[t])
BY DEF IInv, WorkOnce, Bounds, Building, NoGaps, InUse, cli, Lists, Bound, Listed

LEMMA ReceivePreserves ==
  ASSUME IInv, Receive
  PROVE  IInv'
<1>1. UNCHANGED <<priority, grp_acl, master, cli>>
  BY DEF Receive
<1>2. Listed(InUse) \subseteq Work /\ Bound(priority) \subseteq Work
  BY DEF IInv, TypeOK, Listed, Bound, InUse
<1>3. TypeOK'
  <2>1. offered' \subseteq Work /\ ran' \in Seq(Work) /\ switched' \in BOOLEAN
    <3>1. offered' \subseteq Work
      BY <1>2 DEF Receive, InUse
    <3>2. ran' = <<>> /\ switched' = FALSE
      BY DEF Receive
    <3>3. ran' \in Seq(Work)
      BY <3>2
    <3>4. QED
      BY <3>1, <3>2, <3>3
  <2>2. i' \in 0 .. MD_IF_GRP_WORK_MAX
    BY IfgrpWorkAssumption DEF Receive
  <2>3. rpc' = "test" /\ tbl' = tbl
    BY DEF Receive
  <2>4. QED
    BY <1>1, <2>1, <2>2, <2>3 DEF IInv, TypeOK, cli
<1>4. Following'
  BY <1>1, PacketFrame, SlotFacts DEF Receive, Following
<1>5. Listed(InUse) \subseteq offered'
  <2>1. CASE cpc = "idle"
    <3>1. Lists(InUse, j, priority, MAX_GRP_ACL) /\ j \in Nat
      BY <2>1 DEF IInv, TypeOK, Building
    <3>2. Listed(InUse) \subseteq Bound(priority)
      <4>1. SUFFICES ASSUME NEW a \in Slot, InUse[a] # NULL
                     PROVE  InUse[a] \in Bound(priority)
        BY DEF Listed
      <4>2. a < j
        BY <3>1, <4>1, SlotFacts DEF Lists
      <4>3. PICK x \in Slot : InUse[a] = priority[x]
        BY <3>1, <4>2 DEF Lists
      <4>4. InUse[a] # INVALID
        BY <4>1, SlotFacts DEF IInv, TypeOK, InUse
      <4>5. QED
        BY <4>3, <4>4 DEF Bound
    <3>3. QED
      BY <3>2 DEF Receive
  <2>2. CASE cpc # "idle"
    BY <2>2 DEF Receive, InUse
  <2>3. QED
    BY <2>1, <2>2
<1>6. cpc \in {"clear", "fill", "switch"} =>
        Listed(grp_acl[backup]) \subseteq Listed(InUse) \cup Bound(priority)
  <2>1. SUFFICES ASSUME cpc \in {"clear", "fill", "switch"},
                        NEW a \in Slot, grp_acl[backup][a] # NULL,
                        grp_acl[backup][a] \notin Listed(InUse)
                 PROVE  grp_acl[backup][a] \in Bound(priority)
    BY DEF Listed
  <2>2. cpc # "clear"
    BY <2>1 DEF IInv, Building, Listed
  <2>3. PICK n \in Nat : Lists(grp_acl[backup], j, priority, n)
    BY <2>1, <2>2, SlotFacts, IfgrpWorkAssumption DEF IInv, TypeOK, Building
  <2>4. a < j
    BY <2>1, <2>3, SlotFacts DEF IInv, TypeOK, Lists
  <2>5. PICK x \in Slot : grp_acl[backup][a] = priority[x]
    BY <2>3, <2>4 DEF Lists
  <2>6. grp_acl[backup][a] # INVALID
    BY <2>1, SlotFacts DEF IInv, TypeOK
  <2>7. QED
    BY <2>5, <2>6 DEF Bound
<1>7. Offering' /\ CallsOnlyOffered'
  BY <1>1, <1>5, <1>6, PacketFrame
     DEF Receive, Offering, CallsOnlyOffered, cli
<1>8. QED
  BY <1>1, <1>3, <1>4, <1>7, PacketFrame DEF IInv

LEMMA ReadMasterPreserves ==
  ASSUME IInv, ReadMaster
  PROVE  IInv'
<1>1. UNCHANGED <<priority, grp_acl, master, cli>>
  BY DEF ReadMaster
<1>2. TypeOK'
  BY DEF IInv, TypeOK, ReadMaster, cli
<1>3. Following'
  BY <1>1, PacketFrame DEF IInv, ReadMaster, Following
<1>4. Offering' /\ CallsOnlyOffered'
  BY <1>1, PacketFrame
     DEF IInv, ReadMaster, Offering, CallsOnlyOffered, cli, InUse
<1>5. QED
  BY <1>1, <1>2, <1>3, <1>4, PacketFrame DEF IInv

LEMMA TestEntryPreserves ==
  ASSUME IInv, TestEntry
  PROVE  IInv'
<1>1. UNCHANGED <<priority, grp_acl, master, cli>>
  BY DEF TestEntry
<1>2. TypeOK'
  <2>1. offered' \subseteq Work /\ ran' \in Seq(Work) /\ switched' \in BOOLEAN
    <3>1. CASE grp_acl[tbl][i] = NULL
      <4>1. ran' = <<>> /\ offered' = {} /\ switched' = FALSE
        BY <3>1 DEF TestEntry
      <4>2. ran' \in Seq(Work)
        BY <4>1
      <4>3. QED
        BY <4>1, <4>2
    <3>2. CASE grp_acl[tbl][i] # NULL
      <4>1. UNCHANGED <<ran, offered, switched>>
        BY <3>2 DEF TestEntry
      <4>2. QED
        BY <4>1 DEF IInv, TypeOK
    <3>3. QED
      BY <3>1, <3>2
  <2>2. rpc' \in {"idle", "call"} /\ i' = i /\ tbl' = tbl
    BY DEF TestEntry
  <2>3. QED
    BY <1>1, <2>1, <2>2 DEF IInv, TypeOK, cli
<1>3. Following'
  BY <1>1, PacketFrame DEF IInv, TestEntry, Following, InUse
<1>4. Offering' /\ CallsOnlyOffered'
  BY <1>1, PacketFrame
     DEF IInv, TestEntry, Offering, CallsOnlyOffered, cli
<1>5. QED
  BY <1>1, <1>2, <1>3, <1>4, PacketFrame DEF IInv

LEMMA CallEntryPreserves ==
  ASSUME IInv, CallEntry
  PROVE  IInv'
<1>1. UNCHANGED <<priority, grp_acl, master, cli>>
  BY DEF CallEntry
<1> DEFINE f == grp_acl[tbl][i]
<1>2. CASE f = NULL
  <2>1. TypeOK'
    BY <1>2 DEF IInv, TypeOK, CallEntry, cli
  <2>2. Following'
    BY <1>2 DEF CallEntry, Following
  <2>3. Offering' /\ CallsOnlyOffered'
    BY <1>1, <1>2, PacketFrame
       DEF IInv, CallEntry, Offering, CallsOnlyOffered, cli
  <2>4. QED
    BY <1>1, <2>1, <2>2, <2>3, PacketFrame DEF IInv
<1>3. CASE f # NULL
  <2>1. i \in Slot /\ i \in Nat /\ tbl \in 0 .. 1 /\ f \in Work
    <3>1. i \in 0 .. MD_IF_GRP_WORK_MAX /\ tbl \in 0 .. 1
      BY DEF IInv, TypeOK
    <3>2. i \in Slot /\ i \in Nat
      BY <3>1, IfgrpWorkAssumption DEF Slot
    <3>3. QED
      BY <1>3, <3>1, <3>2 DEF IInv, TypeOK
  <2>2. i < MD_IF_GRP_WORK_MAX
    BY <1>3, <2>1, SlotFacts, IfgrpWorkAssumption DEF IInv, Bounds
  <2>3. /\ rpc' = "test" /\ i' = i + 1 /\ ran' = Append(ran, f)
        /\ ran \in Seq(Work)
        /\ UNCHANGED <<tbl, offered, switched>>
    BY <1>3 DEF IInv, TypeOK, CallEntry
  <2> HIDE DEF f
  <2>4. /\ ran' \in Seq(Work) /\ Len(ran') = Len(ran) + 1
        /\ DOMAIN ran' = 1 .. Len(ran) + 1 /\ Len(ran) \in Nat
        /\ DOMAIN ran = 1 .. Len(ran)
        /\ \A n \in 1 .. Len(ran) : ran'[n] = ran[n]
        /\ ran'[Len(ran) + 1] = f
    BY <2>1, <2>3
  <2>5. TypeOK'
    BY <1>1, <2>1, <2>2, <2>3, <2>4, IfgrpWorkAssumption DEF IInv, TypeOK, cli
  <2>6. Following'
    <3>1. SUFFICES ASSUME ~ switched
                   PROVE  /\ Len(ran') = i + 1
                          /\ \A s \in Slot : s < i + 1 => InUse[s] = ran'[s + 1]
      BY <1>1, <2>3, PacketFrame DEF Following
    <3>2. /\ Len(ran) = i /\ InUse[i] = f
          /\ \A s \in Slot : s < i => InUse[s] = ran[s + 1]
      BY <3>1 DEF IInv, CallEntry, Following, InUse, f
    <3>3. \A s \in Slot : s < i + 1 =>
            s = i \/ (s < i /\ s + 1 \in 1 .. Len(ran))
      BY <2>1, <3>2, SlotFacts
    <3>4. QED
      BY <2>4, <3>2, <3>3
  <2>7. f \in offered
    BY <1>3, <2>1 DEF IInv, CallEntry, Offering, Listed, f
  <2>8. CallsOnlyOffered'
    BY <2>3, <2>4, <2>7 DEF IInv, CallsOnlyOffered
  <2>9. Offering'
    BY <1>1, <2>3, PacketFrame DEF IInv, CallEntry, Offering, cli
  <2>10. QED
    BY <1>1, <2>5, <2>6, <2>8, <2>9, PacketFrame DEF IInv
<1>4. QED
  BY <1>2, <1>3

-----------------------------------------------------------------------------
LEMMA NextPreserves == IInv /\ [Next]_vars => IInv'
<1>1. SUFFICES ASSUME IInv, [Next]_vars
               PROVE  IInv'
  OBVIOUS
<1>2. CASE \E w, p \in Work : Bind(w, p)
  BY <1>1, <1>2, BindPreserves
<1>3. CASE \E w \in Work : Unbind(w)
  BY <1>1, <1>3, UnbindPreserves
<1>4. CASE Restore
  BY <1>1, <1>4, RestorePreserves
<1>5. CASE CLIStep
  BY <1>1, <1>5, ClearPreserves, FillPreserves, SwitchPreserves, CopyBackPreserves
     DEF CLIStep
<1>6. CASE Receive
  BY <1>1, <1>6, ReceivePreserves
<1>7. CASE PacketStep
  BY <1>1, <1>7, ReadMasterPreserves, TestEntryPreserves, CallEntryPreserves
     DEF PacketStep
<1>8. CASE UNCHANGED vars
  <2>1. UNCHANGED <<priority, grp_acl, master, cli>> /\ UNCHANGED packet
        /\ UNCHANGED <<offered, switched>>
    BY <1>8 DEF vars
  <2>2. TypeOK' /\ Following' /\ Offering' /\ CallsOnlyOffered'
    BY <1>1, <2>1, PacketFrame
       DEF IInv, TypeOK, Following, Offering, CallsOnlyOffered, cli, packet
  <2>3. QED
    BY <1>1, <2>1, <2>2, PacketFrame DEF IInv
<1>9. QED
  BY <1>1, <1>2, <1>3, <1>4, <1>5, <1>6, <1>7, <1>8 DEF Next

\* The inductive invariant holds for any number of works and entries: see IInv.
THEOREM Invariance == Spec => []IInv
<1>1. Init => IInv
  BY InitIInv
<1>2. IInv /\ [Next]_vars => IInv'
  BY NextPreserves
<1>3. QED
  BY <1>1, <1>2, PTL DEF Spec

\* Priorities, tables and loop indices stay in their ranges.
THEOREM TypeCorrect == Spec => []TypeOK
<1>1. IInv => TypeOK
  BY DEF IInv
<1>2. QED
  BY <1>1, Invariance, PTL

\* No work is bound to two priorities.
THEOREM BoundOnce == Spec => []WorkOnce
<1>1. IInv => WorkOnce
  BY DEF IInv
<1>2. QED
  BY <1>1, Invariance, PTL

\* The packet process stays within the table.
THEOREM InTable == Spec => []ReaderInTable
<1>1. IInv => ReaderInTable
  BY IfgrpWorkAssumption DEF IInv, TypeOK, ReaderInTable
<1>2. QED
  BY <1>1, Invariance, PTL

\* No work is called that was unbound before the packet arrived.
THEOREM OnlyOffered == Spec => []CallsOnlyOffered
<1>1. IInv => CallsOnlyOffered
  BY DEF IInv
<1>2. QED
  BY <1>1, Invariance, PTL

\* A table that lists all priorities represents them.
LEMMA ListsRepresent ==
  ASSUME NEW t, NEW m \in Nat, NEW p, Lists(t, m, p, MAX_GRP_ACL),
         \A s \in Slot : t[s] # INVALID /\ p[s] # NULL
  PROVE  Represents(t, p)
<1>1. \A x \in Slot : x < MAX_GRP_ACL
  BY IfgrpWorkAssumption DEF Slot
<1>2. \A a \in Slot : t[a] # NULL => a < m
  BY SlotFacts DEF Lists
<1>3. Listed(t) = Bound(p)
  <2>1. Listed(t) \subseteq Bound(p)
    BY <1>2 DEF Lists, Listed, Bound
  <2>2. Bound(p) \subseteq Listed(t)
    BY <1>1 DEF Lists, Listed, Bound
  <2>3. QED
    BY <2>1, <2>2
<1>4. ASSUME NEW b \in Slot, t[b] # NULL, NEW a \in 0 .. b - 1
      PROVE  \E x, y \in Slot : x < y /\ t[a] = p[x] /\ t[b] = p[y]
  <2>1. a \in Slot /\ a < b /\ b < m
    BY <1>2, <1>4, SlotFacts DEF Slot
  <2>2. QED
    BY <2>1 DEF Lists
<1>5. QED
  BY <1>3, <1>4 DEF Represents

\* Between commands both tables list the bound works.
THEOREM TablesAgree == Spec => []TablesMatch
<1>1. IInv => TablesMatch
  <2>1. SUFFICES ASSUME IInv, cpc = "idle", NEW t \in 0 .. 1
                 PROVE  Represents(grp_acl[t], priority)
    BY DEF TablesMatch
  <2>2. grp_acl[t] = InUse
    BY <2>1 DEF IInv, TypeOK, Building, InUse
  <2>3. Lists(grp_acl[t], j, priority, MAX_GRP_ACL) /\ j \in Nat
    BY <2>1, <2>2 DEF IInv, TypeOK, Building
  <2>4. \A s \in Slot : grp_acl[t][s] # INVALID /\ priority[s] # NULL
    BY <2>1, SlotFacts DEF IInv, TypeOK
  <2>5. QED
    BY <2>3, <2>4, ListsRepresent
<1>2. QED
  BY <1>1, Invariance, PTL

\* The table in use changes only to the complete list of the bound works.
THEOREM PublishesWhole == Spec => PublishedWhole
<1>1. IInv /\ [Next]_vars => [InUse' # InUse => Represents(InUse', priority)]_vars
  <2>1. SUFFICES ASSUME IInv, Next, InUse' # InUse
                 PROVE  Represents(InUse', priority)
    OBVIOUS
  <2>2. Switch
    <3>1. grp_acl' = grp_acl /\ master' = master => InUse' = InUse
      BY DEF InUse
    <3>2. Clear \/ Fill => backup \in 0 .. 1 /\ master \in 0 .. 1 /\ backup # master
      BY <2>1 DEF IInv, TypeOK, Building, Clear, Fill
    <3>3. Clear \/ Fill => InUse' = InUse
      BY <2>1, <3>2 DEF IInv, TypeOK, Clear, Fill, InUse
    <3>4. CopyBack => InUse' = InUse
      BY <2>1 DEF IInv, TypeOK, Building, CopyBack, InUse
    <3>5. QED
      BY <2>1, <3>1, <3>3, <3>4
         DEF Next, Bind, Unbind, Restore, Rebuild, CLIStep, Receive, PacketStep,
             ReadMaster, TestEntry, CallEntry
  <2>3. InUse' = grp_acl[backup]
    BY <2>2 DEF Switch, InUse
  <2>4. Lists(grp_acl[backup], j, priority, MAX_GRP_ACL) /\ j \in Nat
    BY <2>1, <2>2 DEF IInv, TypeOK, Building, Switch
  <2>5. \A s \in Slot : grp_acl[backup][s] # INVALID /\ priority[s] # NULL
    BY <2>1, SlotFacts DEF IInv, TypeOK
  <2>6. QED
    BY <2>3, <2>4, <2>5, ListsRepresent
<1>2. QED
  BY <1>1, Invariance, PTL DEF Spec, PublishedWhole

\* A packet that sees no switch is processed by exactly the list in use.
THEOREM QuietlyProcessed == Spec => QuietPacket
<1> DEFINE Exact == \A s \in Slot : IF s < Len(ran) THEN InUse[s] = ran[s + 1]
                                                    ELSE InUse[s] = NULL
           Ends  == rpc = "testEntry" /\ rpc' = "idle" /\ ~ switched
<1>1. IInv /\ [Next]_vars => [Ends => Exact]_vars
  <2>1. SUFFICES ASSUME IInv, Next, Ends
                 PROVE  Exact
    OBVIOUS
  <2>2. TestEntry
    BY <2>1 DEF Next, Bind, Unbind, Restore, Rebuild, CLIStep, Clear, Fill, Switch,
                CopyBack, Receive, PacketStep, ReadMaster, CallEntry, packet
  <2>3. /\ i \in Slot /\ i \in Nat /\ Len(ran) = i /\ tbl = master
        /\ \A s \in Slot : s < i => InUse[s] = ran[s + 1]
    BY <2>1, IfgrpWorkAssumption DEF IInv, TypeOK, Following, Slot
  <2>4. InUse[i] = NULL
    BY <2>1, <2>2, <2>3 DEF TestEntry, InUse
  <2>5. \A s \in Slot : s < i \/ s = i \/ i < s
    BY <2>3, SlotFacts
  <2>6. \A s \in Slot : ~ (s < i) => InUse[s] = NULL
    BY <2>1, <2>3, <2>4, <2>5 DEF IInv, NoGaps
  <2>7. QED
    BY <2>3, <2>6
<1>2. QED
  BY <1>1, Invariance, PTL DEF Spec, QuietPacket
=============================================================================
