------------------------------ MODULE IfgrpWork ------------------------------
(***************************************************************************)
(* The works of an interface group (testcode/fc/md/md_ifgrp.c).  The CLI   *)
(* binds works to priorities, unbinds them and restores the default order; *)
(* the packet process (`mp`) calls the works of the group, in order of     *)
(* priority, for every packet.  Both run concurrently on shared memory     *)
(* without a lock.  The order is published through a double buffer: the    *)
(* CLI rebuilds the table not in use, switches `master` to it, and copies  *)
(* it back over the other one.                                             *)
(*                                                                         *)
(* One group, configured by one CLI session at a time: `priority` is then  *)
(* private to the session, and the loops over it are one step.  A step is  *)
(* otherwise one access to `master` or to an entry of `grp_acl`.  Input    *)
(* groups and copy-to groups have the same code, line by line.             *)
(***************************************************************************)
EXTENDS Naturals, Sequences

CONSTANTS
  MD_IF_GRP_WORK_MAX,   \* number of works
  MAX_GRP_ACL,          \* entries of a table, and of `priority`
  INVALID,              \* INVALID_IFGRP_WORK_INDEX
  NULL                  \* the callback of an unused table entry

Work == 0 .. MD_IF_GRP_WORK_MAX - 1    \* a callback is named by its work
Slot == 0 .. MAX_GRP_ACL - 1

ASSUME IfgrpWorkAssumption ==
  /\ MD_IF_GRP_WORK_MAX \in Nat \ {0}
  /\ MAX_GRP_ACL \in Nat /\ MAX_GRP_ACL > MD_IF_GRP_WORK_MAX
  /\ INVALID \notin Nat /\ NULL \notin Nat /\ NULL # INVALID

VARIABLES
  priority,   \* priority[s]: the work bound to priority s, or INVALID
  grp_acl,    \* the two tables of callbacks
  master,     \* the table in use
  cpc,        \* where the CLI session is
  backup,     \* its locals: the table being rebuilt,
  k, j,       \*   the loop index, the next entry to fill
  rpc,        \* where the packet process is
  tbl, i,     \* its locals: the value of `master` just read, the loop index
  ran,        \* history: the works called for the packet
  offered,    \* history: the works in use or bound at some time of the packet
  switched    \* history: whether `master` changed during the packet

cli    == <<cpc, backup, k, j>>
packet == <<rpc, tbl, i, ran>>
vars   == <<priority, grp_acl, master, cli, packet, offered, switched>>

NoTable == [s \in Slot |-> NULL]

\* The works a table holds.
Listed(t) == {t[s] : s \in Slot} \ {NULL}

Bound(p) == {p[s] : s \in Slot} \ {INVALID}

Init ==
  /\ priority = [s \in Slot |-> INVALID]
  /\ grp_acl = [t \in 0 .. 1 |-> NoTable]
  /\ master = 0
  /\ cpc = "idle" /\ backup = 1 /\ k = 0 /\ j = 0
  /\ rpc = "idle" /\ tbl = 0 /\ i = 0
  /\ ran = <<>> /\ offered = {} /\ switched = FALSE

-----------------------------------------------------------------------------
(* The CLI session.                                                        *)

\* Mutant: the index of the entry to fill is not reset.
Rebuild_KeepsIndex ==
  /\ cpc = "idle" /\ cpc' = "clear"
  /\ backup' = 1 - master
  /\ k' = 0 /\ j' = j
  /\ UNCHANGED <<grp_acl, master, packet, switched>>

\* Every handler goes on to rebuild the tables from `priority`.
Rebuild ==
  /\ cpc = "idle" /\ cpc' = "clear"
  /\ backup' = 1 - master
  /\ k' = 0 /\ j' = 0
  /\ UNCHANGED <<grp_acl, master, packet, switched>>

\* Mutant: a work that has a priority keeps it when it is bound to another.
Bind_KeepsOld(w, p) ==
  /\ priority[p] = INVALID
  /\ priority' = [priority EXCEPT ![p] = w]
  /\ offered' = IF rpc = "idle" THEN offered ELSE offered \cup {w}
  /\ Rebuild

\* Binding to a priority in use is refused.
Bind(w, p) ==
  /\ priority[p] = INVALID
  /\ priority' = [s \in Slot |-> IF s = p THEN w
                                 ELSE IF priority[s] = w THEN INVALID
                                 ELSE priority[s]]
  /\ offered' = IF rpc = "idle" THEN offered ELSE offered \cup {w}
  /\ Rebuild

Unbind(w) ==
  \E s \in Slot :
    /\ priority[s] = w
    /\ \A q \in 0 .. s - 1 : priority[q] # w
    /\ priority' = [priority EXCEPT ![s] = INVALID]
    /\ UNCHANGED offered
    /\ Rebuild

\* The loop visits the priorities in increasing order: it first resets
\* priority q, then gives the work found there, if any, its own number as its
\* priority.  What it gave to q before visiting q is therefore lost.
Restored(p) ==
  [q \in Slot |-> IF \E s \in q .. MAX_GRP_ACL - 1 : p[s] = q
                  THEN q ELSE INVALID]

Restore == priority' = Restored(priority) /\ UNCHANGED offered /\ Rebuild

Loop(next) ==
  IF k = MAX_GRP_ACL - 1 THEN cpc' = next /\ k' = 0
                         ELSE cpc' = cpc  /\ k' = k + 1

\* Mutant: the table is not cleared.
Clear_Skipped ==
  /\ cpc = "clear" /\ Loop("fill")
  /\ UNCHANGED <<priority, grp_acl, master, backup, j, packet, offered, switched>>

\* Mutant: the wrong table is cleared.
Clear_InUse ==
  /\ cpc = "clear" /\ Loop("fill")
  /\ grp_acl' = [grp_acl EXCEPT ![master][k] = NULL]
  /\ UNCHANGED <<priority, master, backup, j, packet, offered, switched>>

Clear ==
  /\ cpc = "clear" /\ Loop("fill")
  /\ grp_acl' = [grp_acl EXCEPT ![backup][k] = NULL]
  /\ UNCHANGED <<priority, master, backup, j, packet, offered, switched>>

\* Mutant: the table in use is filled in place.
Fill_InPlace ==
  /\ cpc = "fill" /\ Loop("switch")
  /\ IF priority[k] = INVALID
     THEN UNCHANGED <<grp_acl, j>>
     ELSE /\ grp_acl' = [grp_acl EXCEPT ![backup][j] = priority[k],
                                        ![master][j] = priority[k]]
          /\ j' = j + 1
  /\ UNCHANGED <<priority, master, backup, packet, offered, switched>>

Fill ==
  /\ cpc = "fill" /\ Loop("switch")
  /\ IF priority[k] = INVALID
     THEN UNCHANGED <<grp_acl, j>>
     ELSE /\ grp_acl' = [grp_acl EXCEPT ![backup][j] = priority[k]]
          /\ j' = j + 1
  /\ UNCHANGED <<priority, master, backup, packet, offered, switched>>

\* Mutant: the tables are not switched.
Switch_Forgotten ==
  /\ cpc = "switch" /\ cpc' = "copy"
  /\ switched' = (rpc # "idle")
  /\ UNCHANGED <<priority, grp_acl, master, backup, k, j, packet, offered>>

Switch ==
  /\ cpc = "switch" /\ cpc' = "copy"
  /\ master' = backup
  /\ switched' = (rpc # "idle")
  /\ UNCHANGED <<priority, grp_acl, backup, k, j, packet, offered>>

\* Mutant: stale copy, one entry short.
CopyBack_Short ==
  /\ cpc = "copy" /\ Loop("idle")
  /\ grp_acl' = IF k = 0 THEN grp_acl
                ELSE [grp_acl EXCEPT ![1 - backup][k] = grp_acl[backup][k]]
  /\ UNCHANGED <<priority, master, backup, j, packet, offered, switched>>

CopyBack ==
  /\ cpc = "copy" /\ Loop("idle")
  /\ grp_acl' = [grp_acl EXCEPT ![1 - backup][k] = grp_acl[backup][k]]
  /\ UNCHANGED <<priority, master, backup, j, packet, offered, switched>>

CLIStep == Clear \/ Fill \/ Switch \/ CopyBack

-----------------------------------------------------------------------------
(* md_rule_work_process: every access to the table reads `master` again.   *)

\* A packet arrives on an interface of the group.
Receive ==
  /\ rpc = "idle" /\ rpc' = "test"
  /\ i' = 0 /\ ran' = <<>>
  /\ offered' = Bound(priority) \cup
                IF cpc = "idle" THEN {} ELSE Listed(grp_acl[master])
  /\ switched' = FALSE
  /\ UNCHANGED <<priority, grp_acl, master, cli, tbl>>

\* The loop condition, and then the call, read `master`...
ReadMaster ==
  /\ \/ rpc = "test" /\ rpc' = "testEntry"
     \/ rpc = "call" /\ rpc' = "callEntry"
  /\ tbl' = master
  /\ UNCHANGED <<priority, grp_acl, master, cli, i, ran, offered, switched>>

\* ...and then the entry of that table.
TestEntry ==
  /\ rpc = "testEntry"
  /\ IF grp_acl[tbl][i] = NULL
     THEN /\ rpc' = "idle"
          /\ ran' = <<>> /\ offered' = {} /\ switched' = FALSE
     ELSE rpc' = "call" /\ UNCHANGED <<ran, offered, switched>>
  /\ UNCHANGED <<priority, grp_acl, master, cli, tbl, i>>

\* Mutant: the loop does not advance.
CallEntry_Stays ==
  /\ rpc = "callEntry"
  /\ IF grp_acl[tbl][i] = NULL
     THEN rpc' = "crashed" /\ UNCHANGED <<i, ran>>
     ELSE rpc' = "test" /\ ran' = <<grp_acl[tbl][i]>> /\ UNCHANGED i
  /\ UNCHANGED <<priority, grp_acl, master, cli, tbl, offered, switched>>

\* All four works permit the packet, so that the loop goes on to the next one.
\* A call through a null pointer ends the process.
CallEntry ==
  /\ rpc = "callEntry"
  /\ IF grp_acl[tbl][i] = NULL
     THEN rpc' = "crashed" /\ UNCHANGED <<i, ran>>
     ELSE rpc' = "test" /\ i' = i + 1 /\ ran' = Append(ran, grp_acl[tbl][i])
  /\ UNCHANGED <<priority, grp_acl, master, cli, tbl, offered, switched>>

PacketStep == ReadMaster \/ TestEntry \/ CallEntry

Next ==
  \/ \E w, p \in Work : Bind(w, p)
  \/ \E w \in Work : Unbind(w)
  \/ Restore
  \/ CLIStep
  \/ Receive
  \/ PacketStep

Spec     == Init /\ [][Next]_vars
FairSpec == Spec /\ WF_vars(PacketStep)

-----------------------------------------------------------------------------
TypeOK ==
  /\ priority \in [Slot -> Work \cup {INVALID}]
  /\ grp_acl \in [0 .. 1 -> [Slot -> Work \cup {NULL}]]
  /\ master \in 0 .. 1 /\ backup \in 0 .. 1 /\ tbl \in 0 .. 1
  /\ cpc \in {"idle", "clear", "fill", "switch", "copy"}
  /\ rpc \in {"idle", "test", "testEntry", "call", "callEntry", "crashed"}
  /\ k \in Slot
  /\ j \in 0 .. MD_IF_GRP_WORK_MAX /\ i \in 0 .. MD_IF_GRP_WORK_MAX
  /\ ran \in Seq(Work) /\ offered \subseteq Work /\ switched \in BOOLEAN

\* A work has at most one priority, whatever was bound, rebound, unbound and
\* restored before (md_ifgrp.c:418-428): no packet meets a work twice in a list.
WorkOnce == \A s, q \in Slot :
              priority[s] = priority[q] /\ priority[s] # INVALID => s = q

\* Table t lists exactly the works bound by p, in order of priority, without
\* gaps.
Represents(t, p) ==
  /\ Listed(t) = Bound(p)
  /\ \A b \in Slot : t[b] # NULL =>
       \A a \in 0 .. b - 1 :
         \E x, y \in Slot : x < y /\ t[a] = p[x] /\ t[b] = p[y]

\* Between commands both tables list the bound works (md_ifgrp.c:431-455): the
\* next rebuild may start from either.
TablesMatch == cpc = "idle" => \A t \in 0 .. 1 : Represents(grp_acl[t], priority)

\* The table in use changes only as a whole, and then to the complete list of
\* the bound works: a half-built table is never in use (md_ifgrp.c:449).
InUse          == grp_acl[master]
PublishedWhole == [][InUse' # InUse => Represents(InUse', priority)]_vars

\* The packet process never looks beyond the null entry that ends the longest
\* possible list, even when it follows a list that changes under it
\* (md_rule.c:100-103): the array index stays in bounds.
ReaderInTable == i <= MD_IF_GRP_WORK_MAX

\* A work is called for a packet only if it was bound when the packet arrived, or
\* in use during a command not complete then, or bound meanwhile: never one that
\* was unbound before, however stale the value of `master` the packet process uses
\* (md_rule.c:103).
CallsOnlyOffered == \A n \in DOMAIN ran : ran[n] \in offered

\* If `master` does not change while a packet is processed, exactly the works
\* of the table in use are called for it, in order, although the CLI may be
\* rebuilding or copying the other table meanwhile (md_ifgrp.h:51-52).
QuietPacket ==
  [][rpc = "testEntry" /\ rpc' = "idle" /\ ~ switched =>
       \A s \in Slot : IF s < Len(ran) THEN InUse[s] = ran[s + 1]
                                       ELSE InUse[s] = NULL]_vars

\* However often the list changes, the processing of a packet ends: the loop
\* index only grows, and no table has more entries than there are works.
PacketEnds == rpc = "test" ~> rpc \in {"idle", "crashed"}

-----------------------------------------------------------------------------
(* Why the safety properties hold, as an inductive invariant.              *)

\* The first m entries of t are the works bound to the first n priorities of p.
Lists(t, m, p, n) ==
  /\ \A a \in Slot : a >= m => t[a] = NULL
  /\ \A a \in Slot : a < m =>
       /\ t[a] # NULL
       /\ \E x \in Slot : x < n /\ t[a] = p[x]
  /\ \A x \in Slot : x < n /\ p[x] # INVALID =>
       \E a \in Slot : a < m /\ t[a] = p[x]
  /\ \A a, b \in Slot : a < b /\ b < m =>
       \E x, y \in Slot : x < y /\ y < n /\ t[a] = p[x] /\ t[b] = p[y]

NoGaps(t) == \A a, b \in Slot : a < b /\ t[b] # NULL => t[a] # NULL

\* Priorities and entries beyond the number of works are never used.
Bounds ==
  \A s \in Slot : s >= MD_IF_GRP_WORK_MAX =>
    priority[s] = INVALID /\ \A t \in 0 .. 1 : grp_acl[t][s] = NULL

\* What the session has built so far.
Building ==
  /\ cpc \in {"clear", "fill", "switch"} => backup = 1 - master
  /\ cpc = "copy" => backup = master
  /\ cpc = "clear" =>
       /\ j = 0
       /\ \A s \in Slot : grp_acl[backup][s] = IF s < k THEN NULL ELSE InUse[s]
  /\ cpc = "fill" => j <= k /\ Lists(grp_acl[backup], j, priority, k)
  /\ cpc = "switch" => Lists(grp_acl[backup], j, priority, MAX_GRP_ACL)
  /\ cpc \in {"copy", "idle"} => Lists(InUse, j, priority, MAX_GRP_ACL)
  /\ cpc = "copy" => \A s \in Slot : s < k => grp_acl[1 - backup][s] = InUse[s]
  /\ cpc = "idle" => grp_acl[1] = grp_acl[0]
  /\ cpc \in {"idle", "switch"} => k = 0

\* Until `master` changes, the packet process follows the table in use.
Following ==
  ~ switched /\ rpc \notin {"idle", "crashed"} =>
    /\ Len(ran) = i
    /\ \A s \in Slot : s < i => InUse[s] = ran[s + 1]
    /\ rpc \in {"testEntry", "callEntry"} => tbl = master
    /\ rpc \in {"call", "callEntry"} => InUse[i] # NULL

\* Whatever the packet process may come to call has been offered.
Offering ==
  rpc # "idle" =>
    /\ Bound(priority) \subseteq offered
    /\ Listed(InUse) \subseteq offered
    /\ cpc \in {"clear", "fill", "switch"} =>
         Listed(grp_acl[backup]) \subseteq offered
    /\ rpc \in {"testEntry", "callEntry"} => Listed(grp_acl[tbl]) \subseteq offered

\* The inductive invariant from which the safety properties above follow: what
\* each step of bind_work (md_ifgrp.c:412-455) leaves true for a packet process
\* that may be delayed between any two accesses (md_rule.c:100-103).
IInv == /\ TypeOK
        /\ WorkOnce
        /\ Bounds
        /\ Building
        /\ NoGaps(InUse)
        /\ Following
        /\ Offering
        /\ CallsOnlyOffered

-----------------------------------------------------------------------------
\* "two group, one for use, the other for backup" (md_ifgrp.h:52): a table that
\* is being used is not changed, so that the entry tested is the entry called.
\* The code reads `master` again between the test and the call.
CallsAWork == rpc # "crashed"
=============================================================================
