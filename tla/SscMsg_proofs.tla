----------------------------- MODULE SscMsg_proofs -----------------------------
(***************************************************************************)
(* A client of the register service only ever takes the reply to its own   *)
(* present call, for any number of clients, values and messages a queue    *)
(* holds, whoever is killed when.                                          *)
(***************************************************************************)
EXTENDS SscMsg, SequenceTheorems, TLAPS

USE SscMsgAssumption

-----------------------------------------------------------------------------
(* Sequences without one of their elements.                                *)

LEMMA TailFacts ==
  ASSUME NEW S, NEW q \in Seq(S), q # <<>>
  PROVE  /\ Tail(q) \in Seq(S) /\ Len(Tail(q)) = Len(q) - 1 /\ Head(q) = q[1] /\ q[1] \in S
         /\ \A k \in DOMAIN Tail(q) : k + 1 \in DOMAIN q /\ Tail(q)[k] = q[k + 1]
  OBVIOUS

LEMMA RemoveFacts ==
  ASSUME NEW S, NEW q \in Seq(S), NEW i \in DOMAIN q
  PROVE  /\ RemoveAt(q, i) \in Seq(S) /\ Len(RemoveAt(q, i)) = Len(q) - 1
         /\ \A k \in DOMAIN RemoveAt(q, i) :
              /\ k < i => k \in DOMAIN q /\ RemoveAt(q, i)[k] = q[k]
              /\ k >= i => k + 1 \in DOMAIN q /\ RemoveAt(q, i)[k] = q[k + 1]
  <1> DEFINE a == SubSeq(q, 1, i - 1)
             b == SubSeq(q, i + 1, Len(q))
  <1>1. a \in Seq(S) /\ Len(a) = i - 1 /\ \A k \in 1 .. i - 1 : a[k] = q[k]
    BY SubSeqProperties
  <1>2. b \in Seq(S) /\ Len(b) = Len(q) - i /\ \A k \in 1 .. Len(q) - i : b[k] = q[k + i]
    BY SubSeqProperties
  <1>3. RemoveAt(q, i) = a \o b
    BY DEF RemoveAt
  <1> HIDE DEF a, b
  <1> QED BY <1>1, <1>2, <1>3, SMTT(30)

LEMMA RemoveHead ==
  ASSUME NEW S, NEW q \in Seq(S), q # <<>>
  PROVE  1 \in DOMAIN q /\ RemoveAt(q, 1) = Tail(q)
  <1>1. 1 \in DOMAIN q
    OBVIOUS
  <1>2. /\ RemoveAt(q, 1) \in Seq(S) /\ Len(RemoveAt(q, 1)) = Len(q) - 1
        /\ \A k \in DOMAIN RemoveAt(q, 1) : k >= 1 => RemoveAt(q, 1)[k] = q[k + 1]
    BY <1>1, RemoveFacts
  <1> QED BY <1>1, <1>2, TailFacts

-----------------------------------------------------------------------------
LEMMA Initially == Init => IInv
  BY DEF Init, IInv, TypeOK, OnePlace, Answers, Op

LEMMA ReceiveStep == IInv /\ Receive => IInv'
  <1> SUFFICES ASSUME IInv, Receive PROVE IInv'  OBVIOUS
  <1>1. PICK m \in Msg : m = Head(toServer) /\ m = toServer[1]
    BY TailFacts DEF IInv, TypeOK, Receive
  <1>2. /\ toServer' \in Seq(Msg) /\ Len(toServer') <= QueueSize
        /\ \A k \in DOMAIN toServer' : k + 1 \in DOMAIN toServer /\ toServer'[k] = toServer[k + 1]
        /\ 1 \in DOMAIN toServer /\ DOMAIN toServer' \subseteq Nat \ {0}
    BY TailFacts DEF IInv, TypeOK, Receive
  <1>3. /\ pmsg' \in Msg /\ pmsg'.from = m.from /\ pmsg'.op = m.op
        /\ m.op = "write" => pmsg'.value = m.value
        /\ data' \in Value
    BY <1>1 DEF IInv, TypeOK, Receive, Msg, Op
  <1>4. TypeOK'
    BY <1>2, <1>3 DEF IInv, TypeOK, Receive
  <1>5. OnePlace'
    <2>1. \A k \in DOMAIN toServer' : toServer'[k].from # m.from
      BY <1>1, <1>2 DEF IInv, OnePlace
    <2>2. \A k \in DOMAIN toClient : toClient[k].from # m.from
      BY <1>1, <1>2 DEF IInv, OnePlace
    <2>3. Of(toServer', m.from) = {} /\ Of(toClient, m.from) = {}
      BY <2>1, <2>2 DEF Of
    <2>4. \A j, k \in DOMAIN toServer' : toServer'[j].from = toServer'[k].from => j = k
      BY <1>2 DEF IInv, OnePlace
    <2>5. \A j \in DOMAIN toServer', k \in DOMAIN toClient : toServer'[j].from # toClient[k].from
      BY <1>2 DEF IInv, OnePlace
    <2> QED BY <1>3, <2>3, <2>4, <2>5 DEF IInv, OnePlace, Receive
  <1>6. Answers'
    <2>1. client' = client /\ toClient' = toClient
      BY DEF Receive
    <2>2. Matches(pmsg)'
      <3>1. Matches(m)
        BY <1>1, <1>2 DEF IInv, Answers
      <3> QED BY <3>1, <1>3, <2>1 DEF Matches
    <2>3. \A k \in DOMAIN toServer' : Matches(toServer'[k])
      BY <1>2 DEF IInv, Answers
    <2> QED BY <2>1, <2>2, <2>3 DEF IInv, Answers, Matches
  <1> QED BY <1>4, <1>5, <1>6 DEF IInv, Receive

LEMMA ReplyStep == IInv /\ Reply => IInv'
  <1> SUFFICES ASSUME IInv, Reply PROVE IInv'  OBVIOUS
  <1>1. /\ pmsg \in Msg /\ toClient \in Seq(Msg) /\ pmsg' = NULL
        /\ toClient' = Append(toClient, pmsg)
    BY DEF IInv, TypeOK, Reply
  <1>2. /\ toClient' \in Seq(Msg) /\ Len(toClient') = Len(toClient) + 1
        /\ \A k \in DOMAIN toClient' :
             \/ k \in DOMAIN toClient /\ toClient'[k] = toClient[k]
             \/ k = Len(toClient) + 1 /\ toClient'[k] = pmsg
    BY <1>1
  <1>3. TypeOK'
    BY <1>2 DEF IInv, TypeOK, Reply
  <1>4. /\ \A k \in DOMAIN toServer : toServer[k].from # pmsg.from
        /\ \A k \in DOMAIN toClient : toClient[k].from # pmsg.from
    BY <1>1 DEF IInv, OnePlace, Reply, Of
  <1>5. OnePlace'
    BY <1>1, <1>2, <1>4 DEF IInv, OnePlace, Reply
  <1>6. Answers'
    <2>1. client' = client /\ toServer' = toServer
      BY DEF Reply
    <2>2. \A k \in DOMAIN toClient' : Matches(toClient'[k])
      BY <1>2 DEF IInv, Answers, Reply
    <2> QED BY <1>1, <2>1, <2>2 DEF IInv, Answers, Matches
  <1> QED BY <1>3, <1>5, <1>6 DEF IInv, Reply

\* The server's end and its start leave the queues as they are.
LEMMA ExitStartStep == IInv /\ (Exit \/ Start) => IInv'
  <1> SUFFICES ASSUME IInv, Exit \/ Start PROVE IInv'  OBVIOUS
  <1>1. /\ toServer' = toServer /\ toClient' = toClient /\ client' = client
        /\ pmsg' = NULL /\ data' \in Value /\ up' \in BOOLEAN
    BY DEF IInv, TypeOK, Exit, Start
  <1>2. TypeOK'
    BY <1>1 DEF IInv, TypeOK
  <1>3. OnePlace' /\ Answers'
    BY <1>1 DEF IInv, OnePlace, Answers, Matches
  <1> QED BY <1>1, <1>2, <1>3 DEF IInv

-----------------------------------------------------------------------------
(* The clients.                                                            *)

\* A client that makes no call has no message anywhere.
LEMMA NoneWhenIdle ==
  ASSUME IInv, NEW c \in Client, client[c].at = "idle"
  PROVE  /\ \A k \in DOMAIN toServer : toServer[k].from # c
         /\ \A k \in DOMAIN toClient : toClient[k].from # c
         /\ pmsg # NULL => pmsg.from # c
  BY DEF IInv, Answers, Matches

\* What a client does to itself leaves the messages of others right.
LEMMA OthersMatch ==
  ASSUME NEW c \in Client, \A d \in Client \ {c} : client'[d] = client[d]
  PROVE  \A m \in Msg : m.from # c /\ Matches(m) => Matches(m)'
  BY DEF Matches, Msg

LEMMA CallStep ==
  ASSUME IInv, NEW c \in Client, NEW op \in Op, NEW v \in Value, Call(c, op, v)
  PROVE  IInv'
  <1>1. PICK m \in Msg : /\ m = [from |-> c, op |-> op, value |-> v]
                         /\ toServer' = Append(toServer, m)
    BY DEF Call, Msg
  <1>2. /\ toServer' \in Seq(Msg) /\ Len(toServer') = Len(toServer) + 1
        /\ \A k \in DOMAIN toServer' :
             \/ k \in DOMAIN toServer /\ toServer'[k] = toServer[k]
             \/ k = Len(toServer) + 1 /\ toServer'[k] = m
    BY <1>1 DEF IInv, TypeOK
  <1>3. /\ client'[c] = [at |-> "waiting", op |-> op, value |-> v]
        /\ \A d \in Client \ {c} : client'[d] = client[d]
    BY DEF IInv, TypeOK, Call
  <1>4. TypeOK'
    BY <1>2 DEF IInv, TypeOK, Call
  <1>5. /\ \A k \in DOMAIN toServer : toServer[k].from # c
        /\ \A k \in DOMAIN toClient : toClient[k].from # c
        /\ pmsg # NULL => pmsg.from # c
    BY NoneWhenIdle DEF Call
  <1>6. OnePlace'
    <2>1. \A j, k \in DOMAIN toServer' : toServer'[j].from = toServer'[k].from => j = k
      BY <1>1, <1>2, <1>5 DEF IInv, OnePlace
    <2>2. \A j \in DOMAIN toServer', k \in DOMAIN toClient : toServer'[j].from # toClient[k].from
      BY <1>1, <1>2, <1>5 DEF IInv, OnePlace
    <2>3. pmsg # NULL => Of(toServer', pmsg.from) = {} /\ Of(toClient, pmsg.from) = {}
      BY <1>1, <1>2, <1>5 DEF IInv, OnePlace, Of
    <2> QED BY <2>1, <2>2, <2>3 DEF IInv, OnePlace, Call
  <1>7. Answers'
    <2>1. Matches(m)'
      BY <1>1, <1>3 DEF Matches
    <2>2. \A n \in Msg : n.from # c /\ Matches(n) => Matches(n)'
      BY <1>3, OthersMatch
    <2>3. \A k \in DOMAIN toServer : Matches(toServer[k]) /\ toServer[k] \in Msg
      BY DEF IInv, Answers, TypeOK
    <2>4. \A k \in DOMAIN toClient : Matches(toClient[k]) /\ toClient[k] \in Msg
      BY DEF IInv, Answers, TypeOK
    <2>5. ASSUME NEW k \in DOMAIN toServer' PROVE Matches(toServer[k])'
      <3>1. PICK n \in Msg : n = toServer'[k] /\ Matches(n)'
        BY <1>2, <1>5, <2>1, <2>2, <2>3
      <3> QED BY <3>1 DEF Matches
    <2>6. ASSUME NEW k \in DOMAIN toClient PROVE Matches(toClient[k])'
      <3>1. PICK n \in Msg : n = toClient'[k] /\ Matches(n)'
        BY <1>5, <2>2, <2>4 DEF Call
      <3> QED BY <3>1 DEF Matches
    <2>7. pmsg # NULL => Matches(pmsg)'
      <3> SUFFICES ASSUME pmsg # NULL PROVE Matches(pmsg)'  OBVIOUS
      <3>1. PICK n \in Msg : n = pmsg' /\ Matches(n)'
        BY <1>5, <2>2 DEF Call, IInv, TypeOK, Answers
      <3> QED BY <3>1 DEF Matches
    <2>8. toClient' = toClient /\ pmsg' = pmsg
      BY DEF Call
    <2> QED BY <2>5, <2>6, <2>7, <2>8 DEF Answers
  <1> QED BY <1>4, <1>6, <1>7 DEF IInv, Call

\* A queue from which a message is taken: what is left was there before.
LEMMA Shrink ==
  ASSUME IInv, NEW i \in DOMAIN toClient, toClient' = RemoveAt(toClient, i),
         UNCHANGED <<pmsg, toServer>>
  PROVE  /\ toClient' \in Seq(Msg) /\ Len(toClient') <= QueueSize
         /\ \A k \in DOMAIN toClient' :
              \E j \in DOMAIN toClient \ {i} : toClient'[k] = toClient[j]
         /\ OnePlace'
  <1>1. toClient \in Seq(Msg) /\ Len(toClient) <= QueueSize
    BY DEF IInv, TypeOK
  <1>2. /\ toClient' \in Seq(Msg) /\ Len(toClient') = Len(toClient) - 1
        /\ \A k \in DOMAIN toClient' :
             /\ k < i => k \in DOMAIN toClient /\ toClient'[k] = toClient[k]
             /\ k >= i => k + 1 \in DOMAIN toClient /\ toClient'[k] = toClient[k + 1]
    BY <1>1, RemoveFacts
  <1>3. DOMAIN toClient' \subseteq Int /\ i \in Int
    BY <1>1, <1>2
  <1>4. \A k \in DOMAIN toClient' :
          \E j \in DOMAIN toClient \ {i} : toClient'[k] = toClient[j]
    BY <1>2, <1>3
  <1>5. \A j, k \in DOMAIN toClient' : toClient'[j].from = toClient'[k].from => j = k
    <2> SUFFICES ASSUME NEW j \in DOMAIN toClient', NEW k \in DOMAIN toClient', j < k,
                        toClient'[j].from = toClient'[k].from
                 PROVE  FALSE
      BY <1>3
    <2>1. PICK x \in DOMAIN toClient, y \in DOMAIN toClient :
            x < y /\ toClient'[j] = toClient[x] /\ toClient'[k] = toClient[y]
      <3>1. CASE k < i
        BY <3>1, <1>2, <1>3
      <3>2. CASE j < i /\ k >= i
        <4>1. j \in DOMAIN toClient /\ k + 1 \in DOMAIN toClient /\ j < k + 1
          BY <3>2, <1>2, <1>3
        <4> QED BY <4>1, <3>2, <1>2
      <3>3. CASE j >= i
        <4>1. j + 1 \in DOMAIN toClient /\ k + 1 \in DOMAIN toClient /\ j + 1 < k + 1 /\ k >= i
          BY <3>3, <1>2, <1>3
        <4> QED BY <4>1, <3>3, <1>2
      <3> QED BY <3>1, <3>2, <3>3, <1>3
    <2> QED BY <2>1, <1>1 DEF IInv, OnePlace
  <1>6. \A j \in DOMAIN toServer, k \in DOMAIN toClient' : toServer[j].from # toClient'[k].from
    BY <1>4 DEF IInv, OnePlace
  <1>7. pmsg # NULL => Of(toClient', pmsg.from) = {}
    BY <1>4 DEF IInv, OnePlace, Of
  <1> QED BY <1>1, <1>2, <1>4, <1>5, <1>6, <1>7 DEF IInv, OnePlace

\* The reply of c is taken: no other message is of c.
LEMMA GotStep ==
  ASSUME IInv, NEW c \in Client, NEW i \in DOMAIN toClient, toClient[i].from = c, Got(c, i),
         UNCHANGED <<up, data, pmsg, toServer>>
  PROVE  IInv'
  <1>1. /\ toClient' \in Seq(Msg) /\ Len(toClient') <= QueueSize
        /\ \A k \in DOMAIN toClient' :
             \E j \in DOMAIN toClient \ {i} : toClient'[k] = toClient[j]
        /\ OnePlace'
    BY Shrink DEF Got
  <1>2. toClient[i] \in Msg /\ toClient \in Seq(Msg)
    BY DEF IInv, TypeOK
  <1>3. /\ client' = [client EXCEPT ![c].at = "idle", ![c].value = toClient[i].value]
        /\ \A d \in Client \ {c} : client'[d] = client[d]
    BY DEF IInv, TypeOK, Got
  <1>4. TypeOK'
    <2>1. client'[c] = [at |-> "idle", op |-> client[c].op, value |-> toClient[i].value]
      <3>1. client[c] = [at |-> client[c].at, op |-> client[c].op, value |-> client[c].value]
        BY DEF IInv, TypeOK
      <3>2. client'[c] = [[client[c] EXCEPT !.at = "idle"] EXCEPT !.value = toClient[i].value]
        BY <1>3 DEF IInv, TypeOK
      <3> QED BY <3>1, <3>2
    <2>2. client' \in [Client -> [at : {"idle", "waiting", "dead"}, op : Op, value : Value]]
      BY <2>1, <1>2, <1>3 DEF IInv, TypeOK, Msg
    <2> QED BY <1>1, <2>2 DEF IInv, TypeOK
  <1>5. \A n \in Msg : n.from # c /\ Matches(n) => Matches(n)'
    BY <1>3, OthersMatch
  <1>6. Answers'
    <2>1. ASSUME NEW k \in DOMAIN toServer PROVE Matches(toServer[k])'
      <3>1. PICK n \in Msg : n = toServer'[k] /\ n = toServer[k]
        BY DEF IInv, TypeOK
      <3>2. n.from # c /\ Matches(n)
        BY <3>1 DEF IInv, OnePlace, Answers
      <3> QED BY <3>1, <3>2, <1>5 DEF Matches
    <2>2. ASSUME NEW k \in DOMAIN toClient' PROVE Matches(toClient[k])'
      <3>1. PICK j \in DOMAIN toClient \ {i} : toClient'[k] = toClient[j]
        BY <1>1
      <3>2. PICK n \in Msg : n = toClient'[k] /\ n = toClient[j]
        BY <3>1, <1>2
      <3>3. n.from # c /\ Matches(n)
        BY <3>2 DEF IInv, OnePlace, Answers
      <3> QED BY <3>2, <3>3, <1>5 DEF Matches
    <2>3. ASSUME pmsg # NULL PROVE Matches(pmsg)'
      <3>1. PICK n \in Msg : n = pmsg' /\ n = pmsg
        BY <2>3 DEF IInv, TypeOK
      <3>2. n.from # c /\ Matches(n)
        BY <3>1, <2>3 DEF IInv, OnePlace, Answers, Of
      <3> QED BY <3>1, <3>2, <1>5 DEF Matches
    <2> QED BY <2>1, <2>2, <2>3 DEF Answers
  <1> QED BY <1>1, <1>4, <1>6 DEF IInv

LEMMA GetStep ==
  ASSUME IInv, NEW c \in Client, Get(c)
  PROVE  IInv'
  <1>1. UNCHANGED <<up, data, pmsg, toServer>>
    BY DEF Get, GetRead, GetWrite
  <1>2. CASE \E k \in DOMAIN toClient : toClient[k].from = c /\ Got(c, k)
    BY <1>1, <1>2, GotStep
  <1>3. CASE toClient # <<>> /\ toClient' = Tail(toClient) /\ UNCHANGED client
    <2>1. 1 \in DOMAIN toClient /\ toClient \in Seq(Msg) /\ RemoveAt(toClient, 1) = Tail(toClient)
      BY <1>3, RemoveHead DEF IInv, TypeOK
    <2>2. /\ toClient' \in Seq(Msg) /\ Len(toClient') <= QueueSize
          /\ \A k \in DOMAIN toClient' :
               \E j \in DOMAIN toClient \ {1} : toClient'[k] = toClient[j]
          /\ OnePlace'
      BY <1>1, <1>3, <2>1, Shrink
    <2>3. TypeOK'
      BY <1>1, <1>3, <2>2 DEF IInv, TypeOK
    <2>4. \A n : Matches(n)' = Matches(n)
      BY <1>3 DEF Matches
    <2>5. Answers'
      <3>1. \A k \in DOMAIN toClient' : Matches(toClient'[k])
        BY <2>2 DEF IInv, Answers
      <3> QED BY <3>1, <1>1, <1>3 DEF IInv, Answers, Matches
    <2> QED BY <1>1, <2>2, <2>3, <2>5 DEF IInv
  <1>4. ASSUME toClient # <<>> PROVE 1 \in DOMAIN toClient /\ Head(toClient) = toClient[1]
    BY <1>4 DEF IInv, TypeOK
  <1> QED BY <1>2, <1>3, <1>4 DEF Get, GetRead, GetWrite

\* A request goes on after the death of its client.
LEMMA DieStep ==
  ASSUME IInv, NEW c \in Client, Die(c)
  PROVE  IInv'
  <1>1. /\ client'[c].at = "dead" /\ client'[c].op = client[c].op
        /\ client'[c].value = client[c].value
        /\ \A d \in Client \ {c} : client'[d] = client[d]
    BY DEF IInv, TypeOK, Die
  <1>2. TypeOK'
    BY DEF IInv, TypeOK, Die
  <1>3. \A n \in Msg : Matches(n) => Matches(n)'
    BY <1>1 DEF Matches, Msg
  <1>4. Answers'
    <2>1. \A k \in DOMAIN toServer : toServer[k] \in Msg /\ Matches(toServer[k])
      BY DEF IInv, TypeOK, Answers
    <2>2. \A k \in DOMAIN toClient : toClient[k] \in Msg /\ Matches(toClient[k])
      BY DEF IInv, TypeOK, Answers
    <2>3. pmsg # NULL => pmsg \in Msg /\ Matches(pmsg)
      BY DEF IInv, TypeOK, Answers
    <2> QED BY <1>3, <2>1, <2>2, <2>3 DEF Die, Answers, Matches
  <1> QED BY <1>2, <1>4 DEF IInv, OnePlace, Die

-----------------------------------------------------------------------------
LEMMA Inductive == IInv /\ [Next]_vars => IInv'
  <1> SUFFICES ASSUME IInv, [Next]_vars PROVE IInv'  OBVIOUS
  <1>1. CASE Serve
    BY <1>1, ReceiveStep, ReplyStep DEF Serve
  <1>2. CASE Exit \/ Start
    BY <1>2, ExitStartStep
  <1>3. ASSUME NEW c \in Client, NEW op \in Op, NEW v \in Value, Call(c, op, v) PROVE IInv'
    BY <1>3, CallStep
  <1>4. ASSUME NEW c \in Client, Get(c) PROVE IInv'
    BY <1>4, GetStep
  <1>5. ASSUME NEW c \in Client, Die(c) PROVE IInv'
    BY <1>5, DieStep
  <1>6. CASE UNCHANGED vars
    BY <1>6 DEF vars, IInv, TypeOK, OnePlace, Answers, Matches
  <1> QED BY <1>1, <1>2, <1>3, <1>4, <1>5, <1>6 DEF Next

\* A client has one message at most on its way, through crashes of either side,
\* and the reply it takes is that to its present call (sever_pthread.c:199-371,
\* client/test.c).
THEOREM Invariance == Spec => []IInv
  <1> QED BY Initially, Inductive, PTL DEF Spec

-----------------------------------------------------------------------------
(* The service implements the register.                                    *)

\* The calls of the register, field by field.
At   == {"idle", "waiting", "dead", "asked", "answered", "lost"}
Made == [at : At, op : Op, value : Value]

LEMMA Equal ==
  ASSUME NEW f \in Made, NEW g \in Made, f.at = g.at, f.op = g.op, f.value = g.value
  PROVE  f = g
  BY DEF Made

LEMMA Fields ==
  ASSUME NEW f \in Made, NEW a1 \in At, NEW v1 \in Value
  PROVE  /\ [f EXCEPT !.at = a1] = [at |-> a1, op |-> f.op, value |-> f.value]
         /\ [f EXCEPT !.at = a1, !.value = v1] = [at |-> a1, op |-> f.op, value |-> v1]
  <1>1. [f EXCEPT !.at = a1] = [at |-> a1, op |-> f.op, value |-> f.value]
    BY DEF Made
  <1>2. PICK g \in Made : g = [f EXCEPT !.at = a1, !.value = v1]
    BY DEF Made
  <1>3. g.at = a1 /\ g.op = f.op /\ g.value = v1
    BY <1>2 DEF Made
  <1>4. PICK h \in Made : h = [at |-> a1, op |-> f.op, value |-> v1]
    BY DEF Made
  <1>5. g = h
    BY <1>3, <1>4, Equal
  <1> QED BY <1>1, <1>2, <1>4, <1>5

LEMMA Deep ==
  ASSUME NEW f \in [Client -> Made], NEW c \in Client, NEW a1, NEW v1
  PROVE  /\ [f EXCEPT ![c].at = a1] = [f EXCEPT ![c] = [f[c] EXCEPT !.at = a1]]
         /\ [f EXCEPT ![c].at = a1, ![c].value = v1]
              = [f EXCEPT ![c] = [f[c] EXCEPT !.at = a1, !.value = v1]]
  OBVIOUS

\* The caller of c's messages, seen from the messages.
LEMMA InQueues ==
  ASSUME IInv, NEW c \in Client
  PROVE  /\ Requests(c) = {m \in Msg : m.from = c /\ \E k \in DOMAIN toServer : toServer[k] = m}
         /\ Replies(c) = {m \in Msg : m.from = c /\ (m = pmsg \/ \E k \in DOMAIN toClient : toClient[k] = m)}
  <1>1. \A k \in DOMAIN toServer : toServer[k] \in Msg
    BY DEF IInv, TypeOK
  <1>2. \A k \in DOMAIN toClient : toClient[k] \in Msg
    BY DEF IInv, TypeOK
  <1>3. pmsg \in Msg \cup {NULL} /\ NULL \notin Msg
    BY DEF IInv, TypeOK, Msg, Op
  <1>4. Requests(c) = {m \in Msg : m.from = c /\ \E k \in DOMAIN toServer : toServer[k] = m}
    BY <1>1 DEF Requests, ToSet
  <1>5. Replies(c) = {m \in Msg : m.from = c /\ (m = pmsg \/ \E k \in DOMAIN toClient : toClient[k] = m)}
    BY <1>2, <1>3 DEF Replies, ToSet
  <1> QED BY <1>4, <1>5

\* A client has one reply at most, and no request beside it.
LEMMA OneReply ==
  ASSUME IInv, NEW c \in Client, NEW m \in Replies(c)
  PROVE  /\ Replies(c) = {m} /\ Requests(c) = {} /\ m \in Msg /\ m.from = c
         /\ client[c].at # "idle" /\ m.op = client[c].op
  <1>1. /\ m \in Msg /\ m.from = c
        /\ m = pmsg \/ \E k \in DOMAIN toClient : toClient[k] = m
    BY InQueues
  <1>2. pmsg \in Msg => pmsg # NULL
    BY DEF Msg, Op
  <1>3. \A n \in Replies(c) : n = m
    BY <1>1, <1>2, InQueues DEF IInv, OnePlace, Of
  <1>4. \A n \in Requests(c) : FALSE
    BY <1>1, <1>2, InQueues DEF IInv, OnePlace, Of
  <1>5. Matches(m)
    BY <1>1, <1>2 DEF IInv, Answers
  <1> QED BY <1>1, <1>3, <1>4, <1>5 DEF Matches

\* What the call of a client is, by where its message is.
LEMMA CallFacts ==
  ASSUME IInv, NEW c \in Client
  PROVE  /\ client[c].at = "idle" => CallOf(c) = client[c]
         /\ Requests(c) # {} => CallOf(c) = [client[c] EXCEPT !.at = "asked"]
         /\ \A m \in Replies(c) : CallOf(c) = Answered(m)
         /\ client[c].at # "idle" /\ Requests(c) = {} /\ Replies(c) = {} =>
              CallOf(c) = [client[c] EXCEPT !.at = "lost", !.value = Initial]
  <1>1. ASSUME Requests(c) # {} PROVE client[c].at # "idle"
    <2>1. PICK k \in DOMAIN toServer : toServer[k].from = c
      BY <1>1, InQueues
    <2> QED BY <2>1 DEF IInv, Answers, Matches
  <1>2. ASSUME NEW m \in Replies(c) PROVE CallOf(c) = Answered(m)
    <2>1. Replies(c) = {m} /\ Requests(c) = {} /\ client[c].at # "idle"
      BY OneReply
    <2>2. (CHOOSE n \in {m} : TRUE) = m
      OBVIOUS
    <2> QED BY <2>1, <2>2 DEF CallOf
  <1> QED BY <1>1, <1>2 DEF CallOf

LEMMA CallsMade ==
  ASSUME IInv, NEW c \in Client
  PROVE  /\ CallOf(c) \in Made /\ client[c] \in Made
         /\ CallOf(c).at # "idle" => CallOf(c).op = client[c].op
  <1>1. client[c] \in Made
    BY DEF IInv, TypeOK, Made, At
  <1>2. CASE client[c].at = "idle"
    BY <1>1, <1>2, CallFacts
  <1>3. CASE Requests(c) # {}
    <2>1. CallOf(c) = [at |-> "asked", op |-> client[c].op, value |-> client[c].value]
      BY <1>1, <1>3, CallFacts, Fields DEF At
    <2> QED BY <1>1, <2>1 DEF Made, At
  <1>4. ASSUME NEW m \in Replies(c) PROVE CallOf(c) \in Made /\ CallOf(c).op = client[c].op
    <2>1. m \in Msg /\ m.op = client[c].op
      BY OneReply
    <2>2. CallOf(c) = [at |-> "answered", op |-> m.op, value |-> m.value]
      BY CallFacts DEF Answered
    <2>3. m.op \in Op /\ m.value \in Value
      BY <2>1 DEF Msg
    <2> QED BY <2>1, <2>2, <2>3 DEF Made, At
  <1>5. CASE client[c].at # "idle" /\ Requests(c) = {} /\ Replies(c) = {}
    <2>1. CallOf(c) = [at |-> "lost", op |-> client[c].op, value |-> Initial]
      BY <1>1, <1>5, CallFacts, Fields DEF At
    <2> QED BY <1>1, <2>1 DEF Made, At
  <1> QED BY <1>1, <1>2, <1>3, <1>4, <1>5

\* The call of a client none of whose messages moves.
LEMMA SameCall ==
  ASSUME NEW c \in Client, client'[c] = client[c],
         Requests(c)' = Requests(c), Replies(c)' = Replies(c)
  PROVE  CallOf(c)' = CallOf(c)
  BY DEF CallOf

\* A step that moves the message of c only.
LEMMA OneCall ==
  ASSUME IInv, NEW c \in Client, NEW a1 \in At, NEW v1 \in Value,
         CallOf(c)' = [at |-> a1, op |-> CallOf(c).op, value |-> v1],
         \A d \in Client \ {c} : CallOf(d)' = CallOf(d)
  PROVE  /\ [d \in Client |-> CallOf(d)]'
              = [[d \in Client |-> CallOf(d)] EXCEPT ![c].at = a1, ![c].value = v1]
         /\ v1 = CallOf(c).value =>
              [d \in Client |-> CallOf(d)]'
                = [[d \in Client |-> CallOf(d)] EXCEPT ![c].at = a1]
  <1>1. PICK f \in [Client -> Made] : f = [d \in Client |-> CallOf(d)]
    BY CallsMade
  <1>2. PICK g : g = [d \in Client |-> CallOf(d)]'
    OBVIOUS
  <1>3. f[c] = CallOf(c) /\ f[c] \in Made
    BY <1>1
  <1>4. g = [f EXCEPT ![c] = [at |-> a1, op |-> f[c].op, value |-> v1]]
    BY <1>1, <1>2, <1>3
  <1>5. g = [f EXCEPT ![c].at = a1, ![c].value = v1]
    <2>1. [f[c] EXCEPT !.at = a1, !.value = v1] = [at |-> a1, op |-> f[c].op, value |-> v1]
      BY <1>3, Fields, ZenonT(30)
    <2> QED BY <2>1, <1>4, Deep
  <1>6. v1 = f[c].value => g = [f EXCEPT ![c].at = a1]
    <2>1. [f[c] EXCEPT !.at = a1] = [at |-> a1, op |-> f[c].op, value |-> f[c].value]
      BY <1>3, Fields
    <2> QED BY <2>1, <1>4, Deep
  <1> QED BY <1>1, <1>2, <1>3, <1>5, <1>6

LEMMA ReceiveServes == IInv /\ Receive => \E c \in Client : Abstract!Serve(c)
  <1> SUFFICES ASSUME IInv, Receive PROVE \E c \in Client : Abstract!Serve(c)  OBVIOUS
  <1>1. IInv'
    BY ReceiveStep
  <1>2. PICK m \in Msg : m = Head(toServer) /\ m = toServer[1] /\ 1 \in DOMAIN toServer
    BY TailFacts DEF IInv, TypeOK, Receive
  <1>3. PICK c \in Client : c = m.from
    BY DEF Msg
  <1>4. \A k \in DOMAIN toServer' : k + 1 \in DOMAIN toServer /\ toServer'[k] = toServer[k + 1]
    BY TailFacts DEF IInv, TypeOK, Receive
  <1>5. \A k \in DOMAIN toServer \ {1} : k - 1 \in DOMAIN toServer' /\ toServer'[k - 1] = toServer[k]
    <2>1. toServer \in Seq(Msg) /\ toServer # <<>> /\ toServer' = Tail(toServer)
      BY DEF IInv, TypeOK, Receive
    <2> QED BY <2>1
  <1>6. pmsg = NULL /\ pmsg' \in Msg /\ pmsg'.from = c /\ NULL \notin Msg
    BY <1>1, <1>2, <1>3 DEF IInv, TypeOK, Receive, Msg, Op
  <1>7. ASSUME NEW d \in Client \ {c} PROVE CallOf(d)' = CallOf(d)
    <2>1. Requests(d)' = Requests(d)
      <3>1. \A k \in DOMAIN toServer' : \E j \in DOMAIN toServer : toServer'[k] = toServer[j]
        BY <1>4
      <3>2. \A j \in DOMAIN toServer : toServer[j].from = d =>
              \E k \in DOMAIN toServer' : toServer'[k] = toServer[j]
        BY <1>2, <1>3, <1>5
      <3> QED BY <3>1, <3>2 DEF Requests, ToSet
    <2>2. Replies(d)' = Replies(d)
      BY <1>6 DEF Replies, Receive
    <2> QED BY <2>1, <2>2, SameCall DEF Receive
  <1>8. m \in Requests(c) /\ Matches(m)
    BY <1>2, <1>3, InQueues DEF IInv, Answers
  <1>9. CallOf(c) = [client[c] EXCEPT !.at = "asked"]
    BY <1>8, CallFacts
  <1>10. client[c].op = m.op /\ (m.op = "write" => client[c].value = m.value)
    BY <1>3, <1>8 DEF Matches
  <1>11. PICK r \in Msg : r = pmsg'
    BY <1>6
  <1>12. CallOf(c)' = Answered(r)
    <2>1. r \in Replies(c)'
      BY <1>6, <1>11 DEF Replies
    <2>2. Replies(c)' = {r}
      <3>1. \A k \in DOMAIN toClient : toClient[k].from # c
        BY <1>2, <1>3 DEF IInv, OnePlace
      <3> QED BY <3>1, <2>1, <1>6, <1>11 DEF Replies, Receive, ToSet
    <2>3. Requests(c)' = {}
      <3>1. \A k \in DOMAIN toServer' : toServer'[k].from # c
        BY <1>1, <1>6 DEF IInv, OnePlace, Of
      <3> QED BY <3>1 DEF Requests, ToSet
    <2>4. client'[c].at # "idle"
      BY <1>3, <1>8 DEF Matches, Receive
    <2>5. (CHOOSE n \in {r} : TRUE) = r
      OBVIOUS
    <2> QED BY <2>2, <2>3, <2>4, <2>5 DEF CallOf
  <1>13. CallOf(c) = [at |-> "asked", op |-> m.op, value |-> client[c].value]
    <2>1. [client[c] EXCEPT !.at = "asked"]
            = [at |-> "asked", op |-> client[c].op, value |-> client[c].value]
      BY CallsMade, Fields DEF At
    <2> QED BY <2>1, <1>9, <1>10
  <1>14. r.op = m.op /\ (m.op = "read" => r.value = data /\ data' = data)
           /\ (m.op = "write" => r.value = m.value /\ data' = m.value)
    BY <1>2, <1>11 DEF Receive, Msg, Op
  <1>15. CallOf(c)' = [at |-> "answered", op |-> CallOf(c).op, value |-> r.value]
    BY <1>12, <1>13, <1>14 DEF Answered
  <1>16. r.value \in Value
    BY DEF Msg
  <1>17. CASE m.op = "read"
    <2>1. [d \in Client |-> CallOf(d)]'
            = [[d \in Client |-> CallOf(d)] EXCEPT ![c].at = "answered", ![c].value = r.value]
      BY <1>7, <1>15, <1>16, OneCall DEF At
    <2>2. r.value = data /\ data' = data /\ CallOf(c).at = "asked" /\ CallOf(c).op = "read"
      BY <1>13, <1>14, <1>17
    <2>3. Abstract!Serve(c)
      BY <2>1, <2>2 DEF Abstract!Serve, Receive
    <2> QED BY <2>3
  <1>18. CASE m.op = "write"
    <2>1. r.value = CallOf(c).value /\ data' = CallOf(c).value
      BY <1>10, <1>13, <1>14, <1>18
    <2>2. [d \in Client |-> CallOf(d)]'
            = [[d \in Client |-> CallOf(d)] EXCEPT ![c].at = "answered"]
      BY <2>1, <1>7, <1>15, <1>16, OneCall DEF At
    <2>3. CallOf(c).at = "asked" /\ CallOf(c).op = "write"
      BY <1>13, <1>18
    <2>4. Abstract!Serve(c)
      BY <2>1, <2>2, <2>3 DEF Abstract!Serve, Abstract!Become, Receive
    <2> QED BY <2>4
  <1> QED BY <1>17, <1>18 DEF Msg, Op

\* The reply goes from the server's hand into the queue.
LEMMA ReplyStutters == IInv /\ Reply => UNCHANGED <<up, data, [c \in Client |-> CallOf(c)]>>
  <1> SUFFICES ASSUME IInv, Reply PROVE UNCHANGED <<up, data, [c \in Client |-> CallOf(c)]>>  OBVIOUS
  <1>1. /\ pmsg \in Msg /\ pmsg # NULL /\ toClient \in Seq(Msg) /\ pmsg' = NULL
        /\ toClient' = Append(toClient, pmsg)
    BY DEF IInv, TypeOK, Reply
  <1>2. ToSet(toClient') = ToSet(toClient) \cup {pmsg}
    BY <1>1 DEF ToSet
  <1>3. \A c \in Client : Replies(c)' = Replies(c)
    BY <1>1, <1>2 DEF Replies
  <1>4. \A c \in Client : CallOf(c)' = CallOf(c)
    BY <1>3, SameCall DEF Reply, Requests
  <1> QED BY <1>4 DEF Reply

\* A reply that is lost, of which nothing is left.
LEMMA Forgets ==
  ASSUME IInv, NEW c \in Client, NEW m \in Replies(c),
         UNCHANGED <<client, toServer>>, Replies(c)' = {},
         \A d \in Client \ {c} : Replies(d)' = Replies(d)
  PROVE  Abstract!Forget(c)
  <1>1. /\ CallOf(c) = Answered(m) /\ Requests(c) = {} /\ client[c].at # "idle"
        /\ m.op = client[c].op
    BY CallFacts, OneReply
  <1>2. CallOf(c)' = [client[c] EXCEPT !.at = "lost", !.value = Initial]
    BY <1>1 DEF CallOf, Requests
  <1>3. CallOf(c).at = "answered" /\ CallOf(c).op = client[c].op
    BY <1>1, CallsMade DEF Answered
  <1>4. CallOf(c)' = [at |-> "lost", op |-> CallOf(c).op, value |-> Initial]
    <2>1. [client[c] EXCEPT !.at = "lost", !.value = Initial]
            = [at |-> "lost", op |-> client[c].op, value |-> Initial]
      BY CallsMade, Fields DEF At
    <2> QED BY <2>1, <1>2, <1>3
  <1>5. \A d \in Client \ {c} : CallOf(d)' = CallOf(d)
    BY SameCall DEF Requests
  <1>6. [d \in Client |-> CallOf(d)]'
          = [[d \in Client |-> CallOf(d)] EXCEPT ![c].at = "lost", ![c].value = Initial]
    BY <1>4, <1>5, OneCall DEF At
  <1> QED BY <1>3, <1>6 DEF Abstract!Forget

LEMMA ExitExits == IInv /\ Exit => Abstract!Exit
  <1> SUFFICES ASSUME IInv, Exit
               PROVE  \/ \E c \in Client : Abstract!Forget(c)
                      \/ UNCHANGED [c \in Client |-> CallOf(c)]
    BY DEF Exit, Abstract!Exit
  <1>1. CASE pmsg = NULL
    <2>1. \A c \in Client : CallOf(c)' = CallOf(c)
      BY <1>1, SameCall DEF Exit, Requests, Replies
    <2> QED BY <2>1 DEF Exit
  <1>2. CASE pmsg # NULL
    <2>1. PICK c \in Client : c = pmsg.from
      BY <1>2 DEF IInv, TypeOK, Msg
    <2>2. pmsg \in Replies(c)
      BY <2>1, <1>2 DEF Replies
    <2>3. \A k \in DOMAIN toClient : toClient[k].from # c
      BY <2>1, <1>2 DEF IInv, OnePlace, Of
    <2>4. Replies(c)' = {}
      BY <2>3 DEF Replies, ToSet, Exit
    <2>5. \A d \in Client \ {c} : Replies(d)' = Replies(d)
      BY <2>1 DEF Replies, Exit
    <2> QED BY <2>2, <2>4, <2>5, Forgets DEF Exit
  <1> QED BY <1>1, <1>2

LEMMA StartRestarts == IInv /\ Start => Abstract!Restart
  <1> SUFFICES ASSUME IInv, Start PROVE Abstract!Restart  OBVIOUS
  <1>1. \A c \in Client : CallOf(c)' = CallOf(c)
    BY SameCall DEF Start, Requests, Replies
  <1> QED BY <1>1 DEF Start, Abstract!Restart

LEMMA CallAsks ==
  ASSUME IInv, NEW c \in Client, NEW op \in Op, NEW v \in Value, Call(c, op, v)
  PROVE  Abstract!Ask(c, op, v)
  <1>1. PICK m \in Msg : /\ m = [from |-> c, op |-> op, value |-> v]
                         /\ toServer' = Append(toServer, m)
    BY DEF Call, Msg
  <1>2. ToSet(toServer') = ToSet(toServer) \cup {m}
    <2>1. toServer \in Seq(Msg)
      BY DEF IInv, TypeOK
    <2> QED BY <2>1, <1>1 DEF ToSet
  <1>3. client'[c] = [at |-> "waiting", op |-> op, value |-> v]
        /\ \A d \in Client \ {c} : client'[d] = client[d]
    BY DEF IInv, TypeOK, Call
  <1>4. \A d \in Client \ {c} : CallOf(d)' = CallOf(d)
    BY <1>1, <1>2, <1>3, SameCall DEF Requests, Replies, Call
  <1>5. CallOf(c)' = [at |-> "asked", op |-> op, value |-> v]
    <2>1. Requests(c)' # {}
      BY <1>1, <1>2 DEF Requests
    <2> QED BY <2>1, <1>3 DEF CallOf
  <1>6. CallOf(c).at = "idle"
    BY CallFacts DEF Call
  <1>7. [d \in Client |-> CallOf(d)]'
          = [[d \in Client |-> CallOf(d)] EXCEPT ![c] = [at |-> "asked", op |-> op, value |-> v]]
    BY <1>4, <1>5
  <1> QED BY <1>6, <1>7 DEF Abstract!Ask, Call

\* What is taken from the queue is of one client only.
LEMMA Taken ==
  ASSUME IInv, NEW c \in Client, NEW i \in DOMAIN toClient, toClient[i].from = c,
         toClient' = RemoveAt(toClient, i), UNCHANGED <<pmsg, toServer>>
  PROVE  /\ toClient[i] \in Replies(c)
         /\ Replies(c)' = {}
         /\ \A d \in Client \ {c} : Replies(d)' = Replies(d)
  <1>1. toClient \in Seq(Msg) /\ Len(toClient) <= QueueSize
    BY DEF IInv, TypeOK
  <1>2. PICK m \in Msg : m = toClient[i] /\ c = m.from
    BY <1>1
  <1>3. ToSet(toClient') = {toClient[k] : k \in DOMAIN toClient \ {i}}
    <2>1. /\ Len(toClient') = Len(toClient) - 1 /\ toClient' \in Seq(Msg)
          /\ \A k \in DOMAIN toClient' :
               /\ k < i => k \in DOMAIN toClient /\ toClient'[k] = toClient[k]
               /\ k >= i => k + 1 \in DOMAIN toClient /\ toClient'[k] = toClient[k + 1]
      BY <1>1, RemoveFacts
    <2>2. \A k \in DOMAIN toClient' : \E j \in DOMAIN toClient \ {i} : toClient'[k] = toClient[j]
      BY <1>1, <2>1
    <2>3. ASSUME NEW j \in DOMAIN toClient \ {i}
          PROVE  \E k \in DOMAIN toClient' : toClient'[k] = toClient[j]
      <3>1. CASE j < i
        BY <3>1, <1>1, <2>1
      <3>2. CASE j > i
        <4>1. j - 1 \in DOMAIN toClient' /\ j - 1 >= i /\ (j - 1) + 1 = j
          BY <3>2, <1>1, <2>1
        <4> QED BY <4>1, <2>1
      <3> QED BY <3>1, <3>2, <1>1
    <2> QED BY <2>2, <2>3 DEF ToSet
  <1>4. \A k \in DOMAIN toClient \ {i} : toClient[k].from # c
    BY <1>2 DEF IInv, OnePlace
  <1>5. pmsg # NULL => pmsg.from # c
    BY <1>2 DEF IInv, OnePlace, Of
  <1>6. m \in Replies(c)
    BY <1>2, InQueues
  <1>7. Replies(c)' = {}
    BY <1>3, <1>4, <1>5 DEF Replies
  <1>8. \A d \in Client \ {c} : Replies(d)' = Replies(d)
    <2>1. ToSet(toClient) = ToSet(toClient') \cup {m}
      BY <1>2, <1>3 DEF ToSet
    <2> QED BY <2>1, <1>2 DEF Replies
  <1> QED BY <1>2, <1>6, <1>7, <1>8

LEMMA GotReturns ==
  ASSUME IInv, NEW c \in Client, NEW i \in DOMAIN toClient, toClient[i].from = c, Got(c, i),
         UNCHANGED <<up, data, pmsg, toServer>>
  PROVE  Abstract!Return(c)
  <1>1. PICK m \in Msg : m = toClient[i] /\ m.from = c
    BY DEF IInv, TypeOK
  <1>2. /\ m \in Replies(c) /\ Replies(c)' = {}
        /\ \A d \in Client \ {c} : Replies(d)' = Replies(d)
    BY <1>1, Taken DEF Got
  <1>3. /\ client[c] = [at |-> client[c].at, op |-> client[c].op, value |-> client[c].value]
        /\ client' = [client EXCEPT ![c] = [[client[c] EXCEPT !.at = "idle"] EXCEPT !.value = m.value]]
    BY <1>1 DEF IInv, TypeOK, Got
  <1>4. client'[c] = [at |-> "idle", op |-> client[c].op, value |-> m.value]
        /\ \A d \in Client \ {c} : client'[d] = client[d]
    BY <1>3 DEF IInv, TypeOK
  <1>5. CallOf(c) = Answered(m) /\ m.op = client[c].op
    BY <1>2, CallFacts, OneReply
  <1>6. CallOf(c).at = "answered" /\ CallOf(c).op = m.op /\ CallOf(c).value = m.value
    BY <1>5 DEF Answered
  <1>7. CallOf(c)' = [at |-> "idle", op |-> CallOf(c).op, value |-> m.value]
    <2>1. CallOf(c)' = client'[c]
      BY <1>4 DEF CallOf
    <2> QED BY <2>1, <1>4, <1>5, <1>6
  <1>8. \A d \in Client \ {c} : CallOf(d)' = CallOf(d)
    BY <1>2, <1>4, SameCall DEF Requests
  <1>9. [d \in Client |-> CallOf(d)]'
          = [[d \in Client |-> CallOf(d)] EXCEPT ![c].at = "idle"]
    BY <1>1, <1>6, <1>7, <1>8, OneCall DEF At, Msg
  <1> QED BY <1>6, <1>9 DEF Abstract!Return, Abstract!Become

\* A write throws a reply away that is not for it.
LEMMA DiscardLoses ==
  ASSUME IInv, NEW c \in Client, GetWrite(c), Head(toClient).from # c
  PROVE  \E d \in Client : Abstract!Forget(d)
  <1>1. toClient \in Seq(Msg) /\ toClient # <<>> /\ 1 \in DOMAIN toClient
    BY DEF IInv, TypeOK, GetWrite
  <1>2. PICK m \in Msg, d \in Client : m = toClient[1] /\ m.from = d
    <2>1. toClient[1] \in Msg
      BY <1>1
    <2> QED BY <2>1 DEF Msg
  <1>3. toClient' = RemoveAt(toClient, 1) /\ UNCHANGED <<data, client, pmsg, toServer>>
    <2>1. toClient' = Tail(toClient) /\ UNCHANGED <<data, client, pmsg, toServer>>
      BY DEF GetWrite
    <2> QED BY <2>1, <1>1, RemoveHead
  <1>4. m \in Replies(d) /\ Replies(d)' = {} /\ \A e \in Client \ {d} : Replies(e)' = Replies(e)
    BY <1>1, <1>2, <1>3, Taken
  <1> QED BY <1>3, <1>4, Forgets

\* The message of a client goes on after its death.
LEMMA DieStutters ==
  ASSUME IInv, NEW c \in Client, Die(c)
  PROVE  UNCHANGED <<up, data, [d \in Client |-> CallOf(d)]>>
  <1>1. \A d \in Client : Requests(d)' = Requests(d) /\ Replies(d)' = Replies(d)
    BY DEF Die, Requests, Replies
  <1>2. \A d \in Client \ {c} : client'[d] = client[d]
    BY DEF IInv, TypeOK, Die
  <1>3. CallOf(c)' = CallOf(c)
    <2>1. client[c].at # "idle" /\ client'[c] = [client[c] EXCEPT !.at = "dead"]
      BY DEF IInv, TypeOK, Die
    <2>2. client'[c] = [at |-> "dead", op |-> client[c].op, value |-> client[c].value]
      BY <2>1, CallsMade, Fields DEF At
    <2>3. PICK f \in Made, g \in Made : /\ f = client[c] /\ g = client'[c]
                                      /\ g.at = "dead" /\ g.op = f.op /\ g.value = f.value
      BY <2>2, CallsMade DEF Made, At
    <2>4. /\ [f EXCEPT !.at = "asked"] = [g EXCEPT !.at = "asked"]
          /\ [f EXCEPT !.at = "lost", !.value = Initial]
               = [g EXCEPT !.at = "lost", !.value = Initial]
      <3>1. /\ [f EXCEPT !.at = "asked"] = [at |-> "asked", op |-> f.op, value |-> f.value]
            /\ [f EXCEPT !.at = "lost", !.value = Initial]
                 = [at |-> "lost", op |-> f.op, value |-> Initial]
        BY Fields DEF At
      <3>2. /\ [g EXCEPT !.at = "asked"] = [at |-> "asked", op |-> g.op, value |-> g.value]
            /\ [g EXCEPT !.at = "lost", !.value = Initial]
                 = [at |-> "lost", op |-> g.op, value |-> Initial]
        BY Fields DEF At
      <3> QED BY <2>3, <3>1, <3>2
    <2>5. CASE Requests(c) # {}
      <3>1. CallOf(c) = [f EXCEPT !.at = "asked"] /\ CallOf(c)' = [g EXCEPT !.at = "asked"]
        BY <2>1, <2>3, <2>5, <1>1 DEF CallOf
      <3> QED BY <3>1, <2>4
    <2>6. CASE Requests(c) = {} /\ Replies(c) # {}
      <3>1. client'[c].at # "idle"
        BY <2>3
      <3>2. PICK R : R = Replies(c) /\ R = Replies(c)'
        BY <1>1
      <3>3. CallOf(c) = Answered(CHOOSE m \in R : TRUE)
        BY <2>1, <2>6, <3>2 DEF CallOf
      <3>4. CallOf(c)' = Answered(CHOOSE m \in R : TRUE)
        BY <3>1, <2>6, <3>2, <1>1 DEF CallOf, Answered
      <3> QED BY <3>3, <3>4
    <2>7. CASE Requests(c) = {} /\ Replies(c) = {}
      <3>1. /\ CallOf(c) = [f EXCEPT !.at = "lost", !.value = Initial]
            /\ CallOf(c)' = [g EXCEPT !.at = "lost", !.value = Initial]
        BY <2>1, <2>3, <2>7, <1>1 DEF CallOf
      <3> QED BY <3>1, <2>4
    <2> QED BY <2>5, <2>6, <2>7
  <1>4. \A d \in Client \ {c} : CallOf(d)' = CallOf(d)
    BY <1>1, <1>2, SameCall
  <1> QED BY <1>3, <1>4 DEF Die

LEMMA Simulates == IInv /\ [Next]_vars => [Abstract!Next]_(Abstract!vars)
  <1> SUFFICES ASSUME IInv, [Next]_vars
               PROVE  Abstract!Next \/ UNCHANGED <<up, data, [d \in Client |-> CallOf(d)]>>
    BY DEF Abstract!vars
  <1>1. CASE Receive
    BY <1>1, ReceiveServes DEF Abstract!Next
  <1>2. CASE Reply
    BY <1>2, ReplyStutters
  <1>3. CASE Exit
    BY <1>3, ExitExits DEF Abstract!Next
  <1>4. CASE Start
    BY <1>4, StartRestarts DEF Abstract!Next
  <1>5. ASSUME NEW c \in Client, NEW op \in Op, NEW v \in Value, Call(c, op, v)
        PROVE  Abstract!Next
    <2>1. Abstract!Ask(c, op, v)
      BY <1>5, CallAsks
    <2> QED BY <2>1 DEF Abstract!Next, Abstract!Op, Op
  <1>6. ASSUME NEW c \in Client, Get(c) PROVE Abstract!Next
    <2>1. UNCHANGED <<up, data, pmsg, toServer>>
      BY <1>6 DEF Get, GetRead, GetWrite
    <2>2. CASE \E k \in DOMAIN toClient : toClient[k].from = c /\ Got(c, k)
      BY <2>1, <2>2, GotReturns DEF Abstract!Next
    <2>3. CASE GetWrite(c) /\ Head(toClient).from # c
      BY <2>1, <2>3, DiscardLoses DEF Abstract!Next, Abstract!Lose
    <2>4. ASSUME toClient # <<>> PROVE 1 \in DOMAIN toClient /\ Head(toClient) = toClient[1]
      BY <2>4 DEF IInv, TypeOK
    <2> QED BY <1>6, <2>2, <2>3, <2>4 DEF Get, GetRead, GetWrite
  <1>7. ASSUME NEW c \in Client, Die(c) PROVE UNCHANGED <<up, data, [d \in Client |-> CallOf(d)]>>
    BY <1>7, DieStutters
  <1>8. CASE UNCHANGED vars
    BY <1>8 DEF vars, CallOf, Requests, Replies
  <1> QED BY <1>1, <1>2, <1>3, <1>4, <1>5, <1>6, <1>7, <1>8 DEF Next, Serve

\* The service implements Register: reads return what the register held at a
\* moment during the call, writes take effect once, and no client gets the reply
\* to another's call, although a write throws the replies of others away and
\* both sides may be killed at any moment (sever_pthread.c:199-371,
\* client/test.c).
THEOREM Refinement == Spec => ImplementsRegister
  <1>1. Init => Abstract!Init
    BY DEF Init, Abstract!Init, CallOf
  <1> QED BY <1>1, Simulates, Invariance, PTL DEF Spec, ImplementsRegister, Abstract!Spec
=============================================================================
