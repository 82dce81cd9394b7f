# Verification of `studycase`

`studycase` is a collection of programs, most of them small. This project models
the ones that have a state of their own and several actors working on it: the
`fc` flow-control prototype (a packet process and a CLI on shared memory), the two
packet pipelines under `pcap-event` (a capture thread and workers), a register served
over System V message queues, and a pair of scripts that collect and upload logs.
Paths below are relative to `src/`.

Modules are checked with TLC (`tlc -config X.cfg M`) and proofs with TLAPS
(`tlapm M_proofs.tla`). `PROJECT.json` maps every definition to the lines of code
it stands for, lists the hazards, and gives one mutant of the code for every
property.

## 1. Inventory

### A. `testcode/fc`: packet process and CLI on shared memory

Two processes share the segment `gsdata`. `mp` (`mp/mp_main.c`,
`application_main_loop` in `md/md_rule.c`) takes packets from a queue, and calls for
each the *works* bound to the interface's group. `clitest` (`cli/`) runs the
configuration commands, one thread for each connection, and the link monitor
`md_if_status_loop`. Nothing in `md/` takes a lock.

| Part | State | Operations |
|---|---|---|
| Interface-group works (`md_ifgrp.c`, `md_rule.c`) | `priority[]`, two tables `grp_acl[2][]`, `master` | bind, unbind, restore; `md_rule_work_process` reads |
| Input-group membership (`md_ifgrp.c`) | mask and member counter of each group; group of each interface | `md_iifgrp_add`, `md_iifgrp_del` |
| Output groups and link monitor (`md_ifgrp.c`, `md_if.c`) | masks of members and of those up, counters, double-buffered port array; saved and physical link status | add, del, set_mode; the monitor's pass |
| Generated packets, counters (`md_embrave.c`, `md_sts.c`) | `input_num`, a circular queue, four counters | start request (CLI); generate, take, count (`mp`); clear (CLI) |
| CLI front end (`cli/`) | none but one static socket | accept, parse, call one operation of `md/` |

Hard: every interleaving of single accesses to shared memory; state read again
after a test; read-modify-write of masks and counters; arrays maintained
incrementally. Correct means: each packet is processed by works that are or were
configured, in order, without touching memory that is not an entry; the copies of a
fact (mask, counter, interface; saved and physical link; array and mask) agree
whenever nobody is changing them, and what goes wrong when two threads change one of them
at once does not spread further.

### B. `testcode/pcap-event/pcap-queue`: pipeline over message rings

A capture callback takes a buffer from a pool ring, fills it and puts it into the
ring of a worker, in turn; the worker puts it back into the pool. `enring` locks the
ring, `dering` does not. State: slots and two `uint32_t` counters for each ring; header
of each buffer; locals of each thread. Correct means: no buffer is leaked, shared or
overwritten; packets are delivered intact, once, in order; nothing waits for ever.

### C. `testcode/pcap-event/pcap-event-pipe-queue`: event-driven pipeline

The callback writes a byte to the worker's pipe and then appends the packet to its
linked queue (a two-lock queue with a dummy node). The worker's event handler reads
one byte and dequeues once. Correct means: no freed node is used although the two
sides hold different locks; order is kept; every packet dealt is processed.

### D. `testcode/message_test`: SSC register messages

A server (a thread in `server_pthread/sever_pthread.c`, a process in `server/server.c`)
holds one value; clients (`client/test.c`, and the reader thread) read and write it over
two System V queues, one to the server and one that all clients share. The message type
is the client's pid. A read receives its own type only; a write receives any type and
throws away what is not its own. The queues belong to the kernel. Hard: replies of one
client thrown away by another, replies to dead clients, the server's exit and restart,
queues that fill up. Correct means: whatever is lost, a call that returns returns its
own result, as if the register were one atomic variable.

### E. `zmq`: LRU broker

`testcode/zmq/Load-balancing-broker/sample/其他例子/lruqueue.c`, `selfrouteREQ.c`, and
`script/python/zmq/Load-balancing-broker/broker.py`: a queue of ready workers,
clients polled only while one is ready. Hard: workers that die, requests in flight.

### F. `script/python/yd_tail`: log collection and upload

`round_v8.py` follows an access log and appends matching records to a file named for the
hour; `upload_v2.py`, minutes past the hour, encodes the files of other hours and sends
them with curl. They share only the directory: that a file has been dealt with is known
by the existence of its encoded form. Hard: death between encoding and upload, failed
uploads, a pass that runs into the next hour. Correct means: an hour's records are sent
at most once, and then all of them; and they are sent unless something failed.

### G. `testcode/yd`: packet capture service

A later prototype of C: the callback writes whole packets to a worker's pipe, and the
worker prints what it reads. `tool_hash_map_new.c` and `pkt_parser.c` are compiled but not
called by anything that runs.

### H. `script/flask/zb`: account service

Web handlers around one or two SQL statements each; all state is in the database.

### Left aside

Vendored and third-party code (`zebra`, `libzebra`, `vtysh`, `apue.2e`, `ldd`, `CUnit`,
`memwatch`, `libcli`, `md5lib`, `ping`, front-end assets, editor configuration),
`pcap-event-pipe` (C without the queue), the monitoring scripts, which keep no state,
and the single-file exercises of one statement or library call each.

### Interactions

In `fc`, membership decides which works a packet meets: `mp` reads the group of the
interface, then the works of that group. Both are shared memory, written by the CLI.
The monitor writes the same masks and arrays as the CLI's output-group commands. In
the pipelines threads only meet at rings, or at queue and pipe. The systems A-H do not
interact with each other.

## 2. Modules

| Module | Models | Composes |
|---|---|---|
| `RingIndex` | counter arithmetic of `kstr_mq_ring.c` | - |
| `PacketPool` | what B promises, without rings or locks (abstract) | - |
| `PcapQueue` | B: rings, callback and workers | extends `RingIndex`, implements `PacketPool` |
| `PipeQueue` | C: queues, pipes, callback and event handlers | - |
| `IfgrpWork` | A: works, CLI session and packet process | - |
| `IifGroup`, `MCIifGroup` | A: input-group membership, any number of sessions | - |
| `OifGroup`, `MCOifGroup` | A: output groups, CLI session and monitor | - |
| `Embrave` | A: requests for packets, their queue, release, counters and clears | - |
| `Register` | what D promises, without queues or messages (abstract) | - |
| `SscMsg` | D: server, clients, queues, deaths and restarts | implements `Register` |
| `Upload` | F: the two scripts, the clock, failures and restarts | - |
| `PcapQueue_proofs`, `PipeQueue_proofs`, `IfgrpWork_proofs`, `IifGroup_proofs`, `OifGroup_proofs`, `Embrave_proofs`, `SscMsg_proofs`, `Upload_proofs` | theorems | extend the module they are about |

**How code becomes steps.** Where threads or processes share memory (`PcapQueue`, `PipeQueue`,
`IfgrpWork`, `IifGroup`, `OifGroup`, `Embrave`) a step is one access to it (or the accesses made
under a lock that nobody else reads without it); tests of private locals join the access they
follow. A `|=`, `&=`, `++` or `--` on a shared word is a load and a store. What only one thread
writes it reads back for free. The programs are built without optimisation (`-O0`,
`cli/Makefile:3`), and x86 makes stores visible in program order, so steps of a thread take
effect in the order they are written.

* `PcapQueue`. Ring `r` is named by the thread that takes from it; ring `Capture` is the
  pool. `DeringTake`/`DeringAdvance` are `dering`; `EnringLock`/`EnringStore`/
  `EnringCommit`/`EnringFull` are `enring`; `PacketAccepted`/`PacketDropped`/`Memset`/`Fill`
  are `get_packet_callback`; `WorkerPoll` is `worker_func`. `EnringFull` includes the
  callback's second `enring`, to the pool. An empty ring makes the worker poll again: no
  step. Packets whose length the callback ignores are left out. `destory_ring` is never
  called.
* `PipeQueue`. A packet and its node have one name. The two locks are left out: each is
  taken by one thread only. `freed` is the allocator's view, and no address is reused;
  `NoDanglingNode` is checked of it.
* `IfgrpWork`. One group and one CLI session, so `priority` is private and each loop over it
  is one step; `master` and the table entries are shared. All four works return "permit",
  so the walk goes on. A call through a null entry is the state `crashed`. Copy-to groups
  have the same code.
* `IifGroup`. `mask` and `num` are the values between load and store of `|=`, `&=`, `++`, `--`.
  `Bit` models `1 << (64 - i - 1)` on an `int`: x86 takes the count modulo 32, so
  interfaces 32 apart share a bit (`MaskBits`).
  A session that finds its interface taken at the first test changes nothing and takes no step.
  Sessions may work on one group or one interface at the same time; `spoilt` is the history of
  the groups a command was changing when it met another on its group or on its interface, and
  appears in no guard.
* `OifGroup`. Two threads of one process: the CLI (`Add`, `Del`, `SetMode` begin a command, the
  members' mask and their number being written by the CLI only; `ReadLink`, `TestUp`, `NextPort`,
  `LastPort`, `CopyEnd`, `StoreMode` are its own further steps) and the monitor (`Scan`,
  `TestMember`, `ReadWeight`, `CopyEntry`, `NextGroup`, `SaveLink`). Both change `up_ifmask` by
  `LoadMask` and `StoreMask`, and the arrays by `ReadMaster`, `LoadLength`, `Shrink` and/or
  `Grow`, `Switch` and `StoreCopy`: the code has these lines three or four times, the module
  once. `idx` is the variable `i`, which the monitor's loop over the groups shares with its
  copy of the array (`CopyEntry`, `NextGroup`). A mask is a set of bits, and interfaces may
  share one, as in `IifGroup`. An array is its length: the branches of the code depend on the
  entries nowhere (a search that finds none goes to the end), and which entries are there is
  not modelled. When a length wraps below zero or exceeds the array, the code reads and writes
  memory that is not its own: `overrun`, and the model ends. `set_hash` writes a field nothing
  reads. `met`, `astray` and `doubled` are histories, and appear in no guard: `met` that both
  threads were at work on one group at once, or that the CLI added to a group the interface
  whose new status the monitor has passed on to that group but not yet saved; `astray` that the
  index left by the copy was short of the group just updated or beyond another one of the
  interface; `doubled` that a bit was put up that was up, down that was down, or came to a new
  mode for the second time.
* `Embrave`. `TestNum`, `Generate` (one round of the loop, with `malloc` and `InQueue`) and
  `ClearNum` are `cvmx_pow_work_request_sync`; `OutQueue` is the function and the return to
  `application_main_loop`; a counter's `++` is `Load` and `Store`. `input_num` and the counters are
  shared with the CLI; the queue lies in shared memory too, but only the packet process
  touches it, so a queue operation is one step. How many works permit a packet is chosen
  (which ones are called is the subject of `IfgrpWork`). `memset` of the counters is one
  step for each counter, in any order. `late` and `mixed` are history, and appear in no guard.
* `SscMsg`. `msgsnd` and `msgrcv` are atomic and block; what a process does between two of them is
  private and belongs to the step before. A message names its sender, operation and value;
  the server keeps one value whatever register is named, so messages name none (`Register` is down
  between an exit and the next start, when no call takes effect, and is reset by a start only). A client may be
  killed while it waits, the server may exit at any time (also when a system call is
  interrupted: both loops then end); `Start` finds the queues as they were. Pids are not reused.
* `Upload`. A record is a number in its file; which records match is left out. `Name` is the choice of
  the file by the clock, `Append1` the append, with anything between them. `Send(ok)` is
  `upload_file` with the end of its curl, on whose success its result does not depend. A pass is triggered minutes past the
  hour; a record is taken to need less than that from time stamp to file (guard of `Begin`).

## 3. Runs

Passing runs:

| Run | Bounds | Shows |
|---|---|---|
| `pcap_rings` | 2 workers, 2 buffers, one-slot worker rings, counters modulo 4, fair | buffers are conserved, the pool always has room, headers are complete, `IInv` holds; `PcapQueue` implements `PacketPool!FairSpec`; every buffer returns |
| `pcap_fifo` | 1 worker, two-slot ring, 2 kinds of packet | order within a ring (in the run above a ring holds one packet): implements `PacketPool!Spec` |
| `ifgrp_work` | 3 works, 4 entries, fair packet process | `WorkOnce`, `TablesMatch`, `ReaderInTable`, `CallsOnlyOffered`, `PublishedWhole`, `QuietPacket`, `PacketEnds`, `IInv` |
| `pipe_queue` | 2 workers, pipes of 2 bytes, 8 packets, fair | `NoDanglingNode`, `InOrder`, `Announced`, `IInv`; the capture thread goes on; packets are processed unless a byte was read too early |
| `iif_group` | 2 sessions that share a group and two interfaces; 3 interfaces, 2 groups, 2 bits | in a group on which no commands have met, mask, counter and interface agree; an interface moves from group to group only if the commands of both have met others; `IInv` |
| `oif_group` | 3 interfaces, 2 of which share a bit, 2 groups, weight 2, one interface whose link changes, fair | unless the threads meet: both arrays have the right length (and no bit was treated twice), the mask holds the members that are up (and the monitor has not gone astray), the array in use is left alone; masks follow the links |
| `embrave` | queue of 2, requests of 1 or 2, 4 packets, counters modulo 3, fair packet process | `IInv` (packets are queued, used and freed once); a request is served whole unless another meets it; counters balance unless a clear meets a packet; only a full queue leaks; the queue drains |
| `ssc_msg` | 3 clients, 2 values, queues of 2 messages, fair | `IInv`; `SscMsg` implements `Register`; a call ends unless a write of another client, the server's exit or a queue that is full of replies to dead clients meets it |
| `upload` | 4 hours of up to 2 records, fair | `IInv`, `ReceivedWhole`; an hour is sent, if every curl ends, unless its upload failed or the uploader is dead |

Violation runs (findings):

| Run | Property | What the code does |
|---|---|---|
| `ifgrp_call` | `CallsAWork` | `md_rule.c:100` and `:103` read `master` separately: a switch to a shorter list in between makes the packet process call a null pointer |
| `pipe_lost` | `Processed` | `kstr_capture.c:38` writes the byte before the packet is enqueued: a worker that reads it in between leaves the packet in the queue |
| `oif_loop` | `UpUnlessMet` | `md_ifgrp.c:1389` and `:1431` reuse the index of the loop over the groups: groups are skipped or updated twice |

### Bounds, and why they are enough

* `PcapQueue`: as in the code, the worker rings have as many slots together as the pool, so
  one stalled worker fills its ring while buffers are left, and the other worker
  and the capture thread contend for the pool. Four counter values make the counters wrap
  several times round, at twice the size of the pool: full and empty stay distinct as
  with 2^32. Sizes divide the wrap, as powers of two do. The proofs need none of
  these bounds.
* `IfgrpWork`: three works in four priorities give lists of every length and each relative
  order; one entry more than works is what ends the longest list (4 works, 10 entries
  in the code). No bound on commands or packets.
* `PipeQueue`: a pipe of two bytes blocks the capture thread when a worker is slow; eight
  packets, four for each worker, fill pipe and queue twice over. `MaxPkt` bounds the run.
* `IifGroup`: the sessions meet on group 1 (two commands on one group) and on interfaces 0 and 1
  (one interface, two groups); interface 2 shares its bit with interface 0. Group 0 is the
  first session's alone, so that it shows what does not spread. Counters modulo 4, more than
  there are interfaces.
* `OifGroup`: interface 1, whose link changes, is in both groups, so that the monitor has to
  update two; interface 2, in group 1, shares its bit with interface 0. With one more entry than
  groups left to do, two entries of weight suffice for the index to go astray. Weight 2 differs from
  1; a mode can be set for group 1. `Wrap = 1`: `dn_port_num`, which nothing decrements or reads, is left
  out. The constraint `Claimed` stops at states in which no property says anything any more: the histories never
  go back, every property but one is claimed only without `met`, and of those only `InUseLeftAlone`
  if also `astray` and `doubled`. A behaviour on which `FollowsPhy` has its premise never leaves
  the constraint: the premise excludes `met` and `astray`. `oif_loop` needs no bit that is shared, and has all members and links.
* `Embrave`: the largest request fills the queue, as in the code (`md_embrave.h:6`), so that a second one
  overflows it. A request waits while fewer packets are free than it may ask for: `malloc` does not
  fail in the model, and leaked packets bound the run. Counters wrap within three packets.
* `SscMsg`: three clients allow a write to meet the reply of another while the third has died; two dead
  clients fill the shared queue and block the server. Calls are not bounded; deaths are, by the number
  of clients.
* `Upload`: four hours give passes over several files, over files that were dealt with earlier, and passes
  that begin in one hour and end in the next but one.

### Fairness

* Threads of B and C run: weak fairness of each worker and of the rest of the callback once it
  has begun. Packets need not arrive. A worker that polls is `WF(WorkerPoll)`.
* `SF(EnringLock)`: a thread waiting for a ring's mutex gets it if it is free again and again.
  pthread mutexes do not promise this; the section is three statements long, waiters
  are woken by the futex, and a returning worker leaves the mutex alone while it sleeps
  and polls. It is an assumption of the liveness results of B only.
* `IfgrpWork`: weak fairness of the packet process only; the CLI may stop anywhere.
* `OifGroup`: weak fairness of the monitor, an endless loop with a sleep, and of the rest of a command once it
  has begun: both are threads that wait for nothing.
* `Embrave`: weak fairness of the packet process, an endless loop without waiting; nobody need type commands.
* `SscMsg`: weak fairness of the server while it is up and of each client's receive: both wait in `msgrcv`,
  and the kernel wakes them. Nobody need call, and nobody need start the server again.
* `Upload`: weak fairness of `Begin` (passes are triggered every hour they are due), of the rest of the pass but for curl,
  and of the append or the death of `round_v8`. `upload_file` waits for curl without a limit (`upload_v2.py:184-190`),
  so that curl ends is no fairness but a premise of the property (`CurlEnds`). Nobody need start the uploader again.
* Deadlock is checked except where the program does stop: `PipeQueue` after `MaxPkt` packets, and
  `OifGroup` after a length has wrapped (`overrun`), `SscMsg` when all clients have died.

## 4. Proofs

Every theorem holds for every value of the constants that the named assumption of its module
allows.

* `PcapQueue_proofs` (`PcapQueueAssumption`: sizes divide `Wrap` and are smaller than it, no more
  buffers than the pool has slots). `BufferConservation` is not inductive: that an unlocked
  `dering` and a locked `enring` do not meet in one slot needs the counters (`RingsOK`), who is
  between test and commit (`LockOK`) and what each thread's locals mean (`LocalsOK`).
  `IInv` has these parts and the two halves of conservation, `Unshared` and `NotLeaked`.
  `Invariance` proves it inductive, one step for each action; `Conservation`, `NeverLost`,
  `Completeness` and `TypeCorrect` follow. `NeverLost` counts: if the pool were full while
  a thread returns a buffer, the pool's slots would hold `PcapSize` other buffers, and there
  are only `nbuf <= PcapSize` in all.
  The module begins with the facts of the wrapping counters (`RingIndex`): what `Inc` adds to a window,
  `Dist` as the number of queued elements, and that distinct counter values within one ring's length of
  each other have distinct slots when the size divides `Wrap`.

  `Refinement` proves `Spec => ImplementsPool`. A worker's FIFO is read off its ring (`QueueOf`): advancing
  `in` is `Append` (`QueuePut`), advancing `out` is `Tail` (`QueueTake`), and any other step leaves the queued
  buffers and their headers alone (`QueueSame`), which is where `Unshared` is needed: the
  capture thread rewrites the header of a buffer that is in no ring. Each `dering` takes effect when `out`
  advances (`TakeBuffer`, `Take`), each `enring` when `in` does (`Deal`, `PutBack`, `Return`), a full ring at the test
  (`Refuse`); the others are stutters (`PollUnseen`, `StoreUnseen`, `CallbackUnseen`). That the stock is never exceeded
  is the counting argument of `NeverLost`. `IInv` does not say which packet the capture thread deals, and to whom:
  `CaptureOK` does, and is shown inductive relative to `IInv` (`DealtInTurn`).
* `IfgrpWork_proofs` (`IfgrpWorkAssumption`: a table has more entries than there are works).
  `TablesMatch` holds only between commands; `Building` says what has been built at each point
  of a command, `Lists` being its loop invariant; that a list never reaches the last entry is a
  counting argument. `Following` and `Offering` tie the packet process to the tables. From
  `IInv` follow `TypeCorrect`, `BoundOnce`, `InTable`, `OnlyOffered`, `TablesAgree`, and the
  action properties `PublishesWhole` and `QuietlyProcessed`.
* `IifGroup_proofs` (`IifGroupAssumption`), for any sessions, whatever they share. `IInv` says of a command in
  a group that is not `spoilt` what its tests found and how far mask and counter are (`Undisturbed`), of any command that its
  interface is where it found it or was moved by one it met (`Held`), and of a group that is neither spoilt nor
  being changed that mask, counter and members agree. A step of one session disturbs another only if they meet, and
  then both groups are spoilt (`MeetSpoils`, `OtherStep`). `Invariance`, `TypeCorrect`, `MaskAgrees`, `NumberAgrees` and
  `JoinsOnlyFree` follow.
* `PipeQueue_proofs` (`PipeQueueAssumption`). The dummy-node queue is safe although its two ends are under
  different locks because head and tail meet only in the dummy, and a node is freed only after the head has
  left it. `IInv` describes the list: what is linked from the head (`ListOK`), the node that is in hand but
  not linked (`Unlinked`), where the worker is (`WorkerOK`) and where the callback is (`CaptureOK`).
  `Invariance`, `NoDangling`, `Order` and `AllAnnounced` follow, for any number of workers and pipe size.
* `Embrave_proofs` (`EmbraveAssumption`). `QueueOK` ties the two wrapping indices to the count and says the
  queued packets are allocated, different from each other and from the one being processed; `WorkOK` and
  `Counting` say when that one is freed; `Enough` keeps `malloc` from running out within a request. The
  remainders are reduced to two linear cases once (`Place`, `Apart`, `After`). `Invariance` and `Whole`
  hold for any size of queue, request and counter, and any number of works. So do `Balanced`, from what `IInv` says of
  the counters of packets got and freed at each point of a packet's way and of a clear (`Balance`), modulo `Wrap`, and `Leaks`, an action property.
  `Wrap > 1`: counters of one value would count nothing.
* `OifGroup_proofs` (`OifGroupAssumption`), for any number of groups and interfaces, any weight and any width of the mask,
  with every access a step of its own. `IInv` says: what may follow what (`Control`); that the histories have seen what
  there is to see (`Watched`); unless the threads have met, that a thread rebuilds the array that is not in use
  (`BackupOf`) and that what it has read is still so (`ReadOf`); unless the monitor has also gone astray, what the bit of an
  interface is at each point of a command and of a pass (`BitOf`: the groups passed show the new status, the others the
  saved one); and unless a bit was treated twice, how long both arrays are at each point (`LengthOf`), in the
  loop over the interfaces as the sum of those treated, by the new weight, and those that are left, by the old one
  (`Treated`). Threads at work on different groups do not disturb each other (`Asunder`, `Others`). `MaskFollows`,
  `LengthFollows` and `InUse` follow. That no array overflows is a count of the bits of a mask (`Room`).
* `SscMsg_proofs` (`SscMsgAssumption`). `OnePlace` says that a client has one message at most in the whole
  system, `Answers` that it belongs to the call the client is making or died with. From `IInv`, `Refinement`
  proves that each step of the service is a step of `Register` or none: the call takes effect when the server
  receives the request, a write that discards a reply is `Lose` for its owner, an exit loses the reply
  in hand (`Exit`), a start is `Restart`.
* `Upload_proofs` (`UploadAssumption`). `ReceivedWhole` needs that the file being sent is of an hour that is over and
  that nobody will append to (`Sending`), which needs what a pass may look at (`Passing`) and what encoded
  files imply (`FilesOK`). `Invariance` and `Whole` hold for any number of hours and records.

Only model-checked: liveness (`ImplementsFairPool`, `BufferReturns`, `PacketEnds`, `CaptureGoesOn`,
`ProcessedUnlessMissed`, `FollowsPhy`, `Drains`, `CallEndsUnlessMet`, `SentUnlessFailed`), which the prover does
not reach. Of `ImplementsFairPool` that is its fairness; its safety part is `ImplementsPool`. Every safety and
action property of the passing runs is a theorem.

`IInv` of `OifGroup` and `CaptureOK` of `PcapQueue` are in no run: they say nothing to a user of the code that
the other properties do not. TLC finds both true within the bounds of `oif_group`, `pcap_rings` and `pcap_fifo`.

## 5. Seen while modelling, without a run

* What the histories exempt happens. Two sessions that add one interface to two groups may both succeed: it is then in
  the masks of both, and in the group stored last (`md_ifgrp.c:277`, `:292`). Two that change one group may lose an update of mask
  or counter (`:289`, `:290`). Nothing in the repository says that sessions may do so.
* The CLI and the monitor may meet in one output group. The monitor tests membership (`md_ifgrp.c:1350`), the CLI
  clears it and finds the up bit unset (`:819`, `:823`), the monitor sets the bit (`:1361`): an interface is up that is no
  member. Either may write back a mask without the other's change, or rebuild the array that the other has just
  put into use. All of this is in the model; the properties of `OifGroup` say what holds until it happens, and that
  nothing less makes a mask or a length wrong, `oif_loop` and shared bits apart.
* When two members share a bit, the second is refused, but a new mode treats the bit once for each of
  the interfaces that have it (`md_ifgrp.c:975-996`), and the monitor changes it for each of them: lengths go wrong, and may wrap.
* Interfaces 32 apart share a bit: `show` lists an interface that is no member, and `add` refuses
  one that could be (`md_ifgrp.c:284`). `MaskOfMembers` says what does hold.
* `dn_port_num` ("link down port number", `md_ifgrp.h`) is incremented and never decremented.
* Deleting an interface from the output array removes the entries that follow its own, unless
  they are the last ones (`md_ifgrp.c:757-763`); the length stays right (`LengthInOrder`), contents do not.
* The command `no iifgroup g bind` runs the handler of `restore priority` (`ifgrp_cli.c:316`).
* Restoring the default priorities drops a work whose priority is lower than its default: `md_ifgrp.c:577` resets
  an entry the loop may have filled already.
* `md_if.c:172-179` updates the groups before saving the status: an interface added in between is down in its group
  although it is up, until its link changes again (the second case of `met`).
* A request of `embrave` that arrives while one is served changes the length of that one and is then forgotten
  (`md_embrave.c:79`); a clear of the counters that meets a packet is partly undone (`md_sts.c`). The help of
  the command says `<1-99>`; the handler accepts 100.
* The packet process makes a new private segment each time it starts (`md_shm.c:15`): a CLI attached before goes on
  configuring the old one.
* Two clients of D that write at the same time can throw away each other's replies, and then both wait for ever;
  so can a reader whose reply a writer meets. Replies to clients that died are removed only by writes.
* A file whose upload failed, or that was being encoded when the uploader died, is never sent: its encoded form
  exists (`upload_v2.py:218`). `upload_file` returns `True` whatever curl did. "Once a day" is a busy loop
  through the minute in question, so a pass begins many times in it. `round_v8.py` forgets `uid_dict` when it restarts.
* `cvmx_pow_work_request_sync` has no `return` (`md_embrave.c:82`): what the packet process gets is
  what the last call left in the register, with `-O0` the result of `OutQueue`.

## 6. Not modelled

* The CLI front end: parsing and printing around one call each; the handing over of a
  connection's socket through a static variable is a hazard listed without a property.
* Two CLI sessions binding works of one group, or changing output groups: planned.
* The entries of the arrays of output groups: only their lengths are.
* E, the LRU broker: planned. Its server and transport are libraries outside the repository.
* G and H: what runs of G is C with the packet written to the pipe itself; H keeps its state in a database outside the
  repository.
* Works that drop, forward or copy packets: none of the four that exist does.
* `destory_ring`, `destory_queue`, `worker_thread_close`, `capture_destory`: not called, or called
  after joining threads that never end.
* Monitoring scripts (no state), single-file samples, and vendored code. The last is most of the repository: of its
  174 thousand lines, routing daemons and shells that were copied in (`zebra`, `testzebra`, `libzebra`, `vtysh`), book
  examples, a unit-test framework and front-end assets make up by far the greater part. The share of
  lines that this project maps is therefore small, although it covers the programs written here that have
  a state and several actors.

## 7. Plan

Done, in this order: `RingIndex`, `PacketPool`, `PcapQueue`; `IfgrpWork`; `PipeQueue`; `IifGroup`; `OifGroup`; `Embrave`;
`Register`, `SscMsg`; `Upload`; with proofs of all their safety properties.

Next, models:

1. `FcPath`: composition of `IifGroup` and `IfgrpWork`: a packet reads the group of its interface and
   walks its works while both change. To check: the works called were those of a group the
   interface was in.
2. Two sessions in `IfgrpWork`: which of its properties survive.
3. `LruBroker` (E), its server and transport external: a worker has one request at a time, and a
   reply goes to the client that asked.

Next, theorems:

1. Type correctness, stated by name where it is now only a part of `IInv`.
2. The properties of `FcPath`, from the inductive invariants of its two components.
