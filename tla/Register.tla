------------------------------- MODULE Register -------------------------------
(***************************************************************************)
(* What the SSC message service of testcode/message_test promises, without *)
(* queues or messages: one register, read and written by clients.  A call  *)
(* takes effect at one moment between its beginning and its return, or at  *)
(* least not before it began; it may also never return (the service loses  *)
(* replies), but it never returns anything else than its own result.  The  *)
(* register is reset when the server is started after an exit, and only    *)
(* then; meanwhile no call takes effect.                                   *)
(***************************************************************************)
CONSTANTS Client, Value, Initial

VARIABLES
  up,      \* the server is running
  data,    \* the register
  call     \* call[c]: the client's call, and the result of the last one

vars == <<up, data, call>>

Op == {"read", "write"}

Init ==
  /\ up = TRUE /\ data = Initial
  /\ call = [c \in Client |-> [at |-> "idle", op |-> "read", value |-> Initial]]

Become(c, at) == call' = [call EXCEPT ![c].at = at]

\* c calls op; `v` is what it writes, and nothing if it reads.
Ask(c, op, v) ==
  /\ call[c].at = "idle"
  /\ call' = [call EXCEPT ![c] = [at |-> "asked", op |-> op, value |-> v]]
  /\ UNCHANGED <<up, data>>

\* The moment at which the call takes effect.
Serve(c) ==
  /\ up /\ call[c].at = "asked"
  /\ UNCHANGED up
  /\ \/ /\ call[c].op = "read"
        /\ call' = [call EXCEPT ![c].at = "answered", ![c].value = data]
        /\ UNCHANGED data
     \/ /\ call[c].op = "write"
        /\ data' = call[c].value
        /\ Become(c, "answered")

Return(c) == call[c].at = "answered" /\ Become(c, "idle") /\ UNCHANGED <<up, data>>

\* An answer is lost and forgotten, and the call never returns.
Forget(c) ==
  /\ call[c].at = "answered"
  /\ call' = [call EXCEPT ![c].at = "lost", ![c].value = Initial]

Lose(c) == Forget(c) /\ UNCHANGED <<up, data>>

\* The server exits, and may take one answer along.
Exit ==
  /\ up /\ up' = FALSE
  /\ UNCHANGED call \/ \E c \in Client : Forget(c)
  /\ UNCHANGED data

\* It is started again: the register has its initial value.
Restart == ~ up /\ up' = TRUE /\ data' = Initial /\ UNCHANGED call

Next ==
  \/ \E c \in Client :
       \/ \E op \in Op, v \in Value : Ask(c, op, v)
       \/ Serve(c) \/ Return(c) \/ Lose(c)
  \/ Exit \/ Restart

Spec == Init /\ [][Next]_vars
=============================================================================
