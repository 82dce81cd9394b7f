-------------------------------- MODULE SscMsg --------------------------------
(***************************************************************************)
(* The register service of testcode/message_test: a server and clients     *)
(* that exchange messages over two System V queues.  A client process      *)
(* makes one call (`ssctest test -R` or `-W`): it puts a request, whose    *)
(* type is its pid, into the server's queue and takes the reply, of the    *)
(* same type, from the queue all clients share.  A read receives its own   *)
(* type only; a write receives any type and throws away what is not for    *)
(* it.  The reader thread in server_pthread is one more client, that only  *)
(* reads.                                                                  *)
(*                                                                         *)
(* msgsnd and msgrcv are atomic and block; everything else a process does  *)
(* between two of them is private, and part of the step before.  Queues    *)
(* belong to the kernel: they survive both sides.  The server keeps one    *)
(* value, whatever register is named, so a message names none.             *)
(***************************************************************************)
EXTENDS Integers, Sequences, SequencesExt

CONSTANTS
  Client,      \* pids of clients; the pid of a process that died is not reused
  Value,       \* values of the register
  Initial,     \* what `data` starts with (0x1234)
  QueueSize,   \* messages a queue holds before msgsnd blocks
  NULL

ASSUME SscMsgAssumption ==
  /\ Initial \in Value
  /\ QueueSize \in Nat \ {0}
  /\ NULL \notin [from : Client, op : {"read", "write"}, value : Value]

Op  == {"read", "write"}
Msg == [from : Client, op : Op, value : Value]

VARIABLES
  up,          \* the server is running
  data,        \* the server's `data`
  pmsg,        \* the reply the server is about to send, or NULL
  toServer,    \* the queue qid_server
  toClient,    \* the queue qid_client
  client       \* client[c]: its call, and the value it got last

vars == <<up, data, pmsg, toServer, toClient, client>>

Init ==
  /\ up = TRUE /\ data = Initial /\ pmsg = NULL
  /\ toServer = <<>> /\ toClient = <<>>
  /\ client = [c \in Client |-> [at |-> "idle", op |-> "read", value |-> Initial]]

-----------------------------------------------------------------------------
(* The server.                                                             *)

\* Mutant: a write is answered but not stored.
Receive_NoStore ==
  /\ up /\ pmsg = NULL /\ toServer # <<>>
  /\ toServer' = Tail(toServer)
  /\ pmsg' = [Head(toServer) EXCEPT !.value = IF Head(toServer).op = "read" THEN data ELSE @]
  /\ UNCHANGED <<up, data, toClient, client>>

\* Take a request; read or write `data`.
Receive ==
  /\ up /\ pmsg = NULL /\ toServer # <<>>
  /\ toServer' = Tail(toServer)
  /\ LET m == Head(toServer) IN
       IF m.op = "read"
       THEN pmsg' = [m EXCEPT !.value = data] /\ UNCHANGED data
       ELSE pmsg' = m /\ data' = m.value
  /\ UNCHANGED <<up, toClient, client>>

\* Mutant: the case for reads falls through into the one for writes.
Reply_FallsThrough ==
  /\ up /\ pmsg # NULL /\ Len(toClient) < QueueSize
  /\ toClient' = Append(toClient, pmsg)
  /\ pmsg' = IF pmsg.op = "read" THEN [pmsg EXCEPT !.op = "write"] ELSE NULL
  /\ UNCHANGED <<up, data, toServer, client>>

Reply ==
  /\ up /\ pmsg # NULL /\ Len(toClient) < QueueSize
  /\ toClient' = Append(toClient, pmsg)
  /\ pmsg' = NULL
  /\ UNCHANGED <<up, data, toServer, client>>

\* The server exits: it is killed, or one of its system calls is interrupted.
Exit ==
  /\ up
  /\ up' = FALSE /\ pmsg' = NULL
  /\ UNCHANGED <<data, toServer, toClient, client>>

\* server_init finds the queues as they were.
Start ==
  /\ ~ up
  /\ up' = TRUE /\ data' = Initial
  /\ UNCHANGED <<pmsg, toServer, toClient, client>>

Serve == Receive \/ Reply

-----------------------------------------------------------------------------
(* The clients.                                                            *)

\* ssctest_msg_read and ssctest_msg_write: send the request.
Call(c, op, v) ==
  /\ client[c].at = "idle"
  /\ Len(toServer) < QueueSize
  /\ toServer' = Append(toServer, [from |-> c, op |-> op, value |-> v])
  /\ client' = [client EXCEPT ![c] = [at |-> "waiting", op |-> op, value |-> v]]
  /\ UNCHANGED <<up, data, pmsg, toClient>>

Waiting(c, op) == client[c].at = "waiting" /\ client[c].op = op

\* The call of c returns with the reply at place k.
Got(c, k) ==
  /\ toClient' = RemoveAt(toClient, k)
  /\ client' = [client EXCEPT ![c].at = "idle", ![c].value = toClient[k].value]

\* Mutant: a read receives any type, too, and throws away what is not for it.
GetRead_Discards(c) ==
  /\ Waiting(c, "read")
  /\ toClient # <<>>
  /\ IF Head(toClient).from = c
     THEN Got(c, 1)
     ELSE toClient' = Tail(toClient) /\ UNCHANGED client
  /\ UNCHANGED <<up, data, pmsg, toServer>>

\* A read receives the first message of its own type.
GetRead(c) ==
  /\ Waiting(c, "read")
  /\ \E k \in DOMAIN toClient :
       /\ toClient[k].from = c
       /\ \A j \in 1 .. k - 1 : toClient[j].from # c
       /\ Got(c, k)
  /\ UNCHANGED <<up, data, pmsg, toServer>>

\* A write receives the first message there is, and goes on if it is not its own.
GetWrite(c) ==
  /\ Waiting(c, "write")
  /\ toClient # <<>>
  /\ IF Head(toClient).from = c
     THEN Got(c, 1)
     ELSE toClient' = Tail(toClient) /\ UNCHANGED client
  /\ UNCHANGED <<up, data, pmsg, toServer>>

Get(c) == GetRead(c) \/ GetWrite(c)

\* The client is killed while it waits.
Die(c) ==
  /\ client[c].at = "waiting"
  /\ client' = [client EXCEPT ![c].at = "dead"]
  /\ UNCHANGED <<up, data, pmsg, toServer, toClient>>

Next ==
  \/ Serve \/ Exit \/ Start
  \/ \E c \in Client :
       \/ \E op \in Op, v \in Value : (op = "read" => v = Initial) /\ Call(c, op, v)
       \/ Get(c) \/ Die(c)

\* Processes that run go on; nobody need call, and nobody need start the server.
Spec ==
  /\ Init /\ [][Next]_vars
  /\ WF_vars(Serve) /\ \A c \in Client : WF_vars(Get(c))

-----------------------------------------------------------------------------
TypeOK ==
  /\ up \in BOOLEAN /\ data \in Value
  /\ pmsg \in Msg \cup {NULL}
  /\ toServer \in Seq(Msg) /\ Len(toServer) <= QueueSize
  /\ toClient \in Seq(Msg) /\ Len(toClient) <= QueueSize
  /\ client \in [Client -> [at : {"idle", "waiting", "dead"}, op : Op, value : Value]]

\* Where messages of client c are in a queue, and whether there are any at all.
Of(q, c) == {k \in DOMAIN q : q[k].from = c}
Underway(c) ==
  Of(toServer, c) # {} \/ Of(toClient, c) # {} \/ (pmsg # NULL /\ pmsg.from = c)

\* No client has two messages, in a queue or in two places.
OnePlace ==
  /\ \A j, k \in DOMAIN toServer : toServer[j].from = toServer[k].from => j = k
  /\ \A j, k \in DOMAIN toClient : toClient[j].from = toClient[k].from => j = k
  /\ \A j \in DOMAIN toServer, k \in DOMAIN toClient : toServer[j].from # toClient[k].from
  /\ pmsg # NULL => Of(toServer, pmsg.from) = {} /\ Of(toClient, pmsg.from) = {}

\* Messages of c answer to the call it is making, or died with.
Matches(m) ==
  /\ client[m.from].at # "idle"
  /\ m.op = client[m.from].op
  /\ m.op = "write" => m.value = client[m.from].value

Answers ==
  /\ \A k \in DOMAIN toServer : Matches(toServer[k])
  /\ \A k \in DOMAIN toClient : Matches(toClient[k])
  /\ pmsg # NULL => Matches(pmsg)

\* A client has one message at most on its way, through crashes of either side,
\* so the reply it takes is that to its present call.
IInv == TypeOK /\ (~ up => pmsg = NULL) /\ OnePlace /\ Answers

-----------------------------------------------------------------------------
(* The service implements Register.  The call of a client that died goes   *)
(* on like any other: its request is served even after its death.          *)

Requests(c) == {m \in ToSet(toServer) : m.from = c}
Replies(c)  == {m \in ToSet(toClient) \cup ({pmsg} \ {NULL}) : m.from = c}
Answered(m) == [at |-> "answered", op |-> m.op, value |-> m.value]

CallOf(c) ==
  CASE client[c].at = "idle" -> client[c]
    [] client[c].at # "idle" /\ Requests(c) # {} -> [client[c] EXCEPT !.at = "asked"]
    [] client[c].at # "idle" /\ Requests(c) = {} /\ Replies(c) # {} ->
         Answered(CHOOSE m \in Replies(c) : TRUE)
    [] OTHER -> [client[c] EXCEPT !.at = "lost", !.value = Initial]

Abstract == INSTANCE Register WITH call <- [c \in Client |-> CallOf(c)]

\* Reads return what the register held at a moment during the call, writes take
\* effect once, during the call or after the caller's death, and no client gets
\* the reply to another's call.
ImplementsRegister == Abstract!Spec

\* A call whose message is on its way returns, unless a write of another client
\* meets it (that client may throw the reply away), the server exits (it may take
\* the reply along), or the queue is full of replies to clients that died.
CallEndsUnlessMet ==
  \A c \in Client :
    client[c].at = "waiting" /\ Underway(c) ~>
      \/ client[c].at # "waiting"
      \/ \E w \in Client \ {c} : Waiting(w, "write")
      \/ ~ up
      \/ /\ Len(toClient) = QueueSize
         /\ \A k \in DOMAIN toClient : client[toClient[k].from].at = "dead"
=============================================================================
