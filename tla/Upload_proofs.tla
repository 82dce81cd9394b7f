----------------------------- MODULE Upload_proofs -----------------------------
(***************************************************************************)
(* No hour is sent twice or in part, for any number of hours and records,  *)
(* however often either process dies and uploads fail.                     *)
(***************************************************************************)
EXTENDS Upload, TLAPS

USE UploadAssumption

LEMMA Initially == Init => IInv
  <1> SUFFICES ASSUME Init PROVE IInv  OBVIOUS
  <1>1. 0 \in Hour /\ 0 \in Content
    BY DEF Hour, Content
  <1>2. TypeOK
    BY <1>1 DEF Init, TypeOK
  <1> QED BY <1>2 DEF Init, IInv, Sending, Passing, FilesOK, ReceivedWhole, Hour

-----------------------------------------------------------------------------
(* The clock and round_v8.py.                                              *)

\* An hour that is over stays over (round_v8.py:215).
LEMMA TickStep == IInv /\ Tick => IInv'
  <1> SUFFICES ASSUME IInv, Tick PROVE IInv'  OBVIOUS
  <1>1. TypeOK'
    BY DEF IInv, TypeOK, Tick, tail, pass, Hour
  <1>2. hour \in Int /\ hour' \in Int /\ hour < hour' /\ \A h \in Hour : h \in Int
    BY DEF IInv, TypeOK, Tick, Hour
  <1>3. Sending'
    BY <1>2 DEF IInv, TypeOK, Sending, Tick, tail, pass
  <1>4. Passing'
    BY <1>2 DEF IInv, TypeOK, Passing, Tick, tail, pass
  <1>5. FilesOK'
    BY <1>2 DEF IInv, TypeOK, FilesOK, Tick, tail, pass
  <1>6. ReceivedWhole'
    BY DEF IInv, ReceivedWhole, Tick, tail
  <1> QED BY <1>1, <1>3, <1>4, <1>5, <1>6 DEF IInv

\* The file named is of the present hour: none that is being sent.
LEMMA NameStep == IInv /\ Name => IInv'
  <1> SUFFICES ASSUME IInv, Name PROVE IInv'  OBVIOUS
  <1>1. TypeOK'
    BY DEF IInv, TypeOK, Name, pass, Hour
  <1> QED BY <1>1 DEF IInv, TypeOK, Sending, Passing, FilesOK, ReceivedWhole,
                      Name, pass, Hour

\* A record is appended to a file that nobody has encoded or is sending.
LEMMA AppendStep == IInv /\ Append1 => IInv'
  <1> SUFFICES ASSUME IInv, Append1 PROVE IInv'  OBVIOUS
  <1>1. named \in Hour /\ log[named] \in Content /\ log[named] + 1 \in Content
    BY DEF IInv, TypeOK, FilesOK, Append1, Content
  <1>2. TypeOK'
    BY <1>1 DEF IInv, TypeOK, Append1, pass
  <1>3. \A h \in Hour : h # named => log'[h] = log[h]
    BY DEF IInv, TypeOK, Append1
  <1>4. ency[named] = NULL /\ received[named] = <<>>
    BY <1>1 DEF IInv, FilesOK
  <1>5. Sending'
    BY <1>3 DEF IInv, TypeOK, Sending, Append1, pass, Hour
  <1>6. Passing'
    BY DEF IInv, Passing, Append1, pass
  <1>7. FilesOK'
    <2>1. named' = NULL /\ named <= hour
      BY DEF IInv, FilesOK, Append1
    <2>2. \A h \in Hour : log'[h] > 0 => h <= hour'
      BY <1>1, <1>3, <2>1 DEF IInv, FilesOK, Append1
    <2>3. \A h \in Hour : ency'[h] # NULL => h < hour' /\ named' # h
      BY <2>1 DEF IInv, FilesOK, Append1, Hour
    <2>4. \A h \in Hour : received'[h] # <<>> => ency'[h] # NULL
      BY DEF IInv, FilesOK, Append1
    <2> QED BY <2>1, <2>2, <2>3, <2>4 DEF FilesOK
  <1>8. ReceivedWhole'
    BY <1>1, <1>3, <1>4 DEF IInv, ReceivedWhole, Append1, pass
  <1> QED BY <1>2, <1>5, <1>6, <1>7, <1>8 DEF IInv

LEMMA TailDiesStep == IInv /\ TailDies => IInv'
  <1> SUFFICES ASSUME IInv, TailDies PROVE IInv'  OBVIOUS
  <1>1. \A h \in Hour : h # NULL
    BY DEF Hour
  <1>2. TypeOK'
    BY DEF IInv, TypeOK, TailDies, pass
  <1>3. Sending'
    BY <1>1 DEF IInv, TypeOK, Sending, TailDies, pass
  <1>4. FilesOK'
    BY <1>1 DEF IInv, FilesOK, TailDies
  <1> QED BY <1>2, <1>3, <1>4 DEF IInv, Passing, ReceivedWhole, TailDies, pass

-----------------------------------------------------------------------------
(* upload_v2.py.                                                           *)

\* The present hour is skipped; nothing is being appended to an earlier file
\* (upload_v2.py:200-203).
LEMMA BeginStep == IInv /\ Begin => IInv'
  <1> SUFFICES ASSUME IInv, Begin PROVE IInv'  OBVIOUS
  <1>1. TypeOK'
    BY DEF IInv, TypeOK, Begin, Goto, tail
  <1>2. Passing'
    BY DEF IInv, TypeOK, FilesOK, Passing, Begin, Goto, tail, Hour
  <1> QED BY <1>1, <1>2 DEF IInv, Sending, FilesOK, ReceivedWhole, Begin, Goto, tail

LEMMA EndStep == IInv /\ End => IInv'
  BY DEF IInv, TypeOK, Sending, Passing, FilesOK, ReceivedWhole, End, Goto, tail

\* A file that is not skipped is of an hour that is over (upload_v2.py:206-222).
LEMMA LookStep ==
  ASSUME IInv, NEW h \in Hour, Look(h)
  PROVE  IInv'
  <1>1. CASE h = skip \/ ency[h] # NULL
    BY <1>1 DEF IInv, TypeOK, Sending, Passing, FilesOK, ReceivedWhole, Look, tail
  <1>2. CASE ~ (h = skip \/ ency[h] # NULL)
    <2>1. TypeOK'
      BY <1>2 DEF IInv, TypeOK, Look, tail
    <2>2. h < skip /\ skip <= hour /\ skip \in Hour /\ hour \in Hour
      BY <1>2 DEF IInv, TypeOK, Passing, Look, Hour
    <2>3. h < hour /\ h # named
      BY <2>2 DEF IInv, TypeOK, Passing, Look, Hour
    <2>4. received[h] = <<>>
      BY <1>2 DEF IInv, FilesOK
    <2>5. Sending'
      BY <1>2, <2>3, <2>4 DEF Sending, Look, tail
    <2> QED BY <1>2, <2>1, <2>5 DEF IInv, Passing, FilesOK, ReceivedWhole, Look, tail
  <1> QED BY <1>1, <1>2

LEMMA CreateStep == IInv /\ Create => IInv'
  <1> SUFFICES ASSUME IInv, Create PROVE IInv'  OBVIOUS
  <1>1. file \in Hour /\ file < hour /\ file # named /\ 0 \in Content
    BY DEF IInv, TypeOK, Sending, Create, Goto, Hour, Content
  <1>2. TypeOK'
    BY <1>1 DEF IInv, TypeOK, Create, Goto, tail
  <1>3. ency'[file] # NULL /\ \A h \in Hour : h # file => ency'[h] = ency[h]
    BY <1>1 DEF IInv, TypeOK, Create
  <1> QED BY <1>1, <1>2, <1>3
          DEF IInv, Sending, Passing, FilesOK, ReceivedWhole, Create, Goto, tail

LEMMA WriteStep == IInv /\ Write => IInv'
  <1> SUFFICES ASSUME IInv, Write PROVE IInv'  OBVIOUS
  <1>1. /\ file \in Hour /\ file < hour /\ file # named
        /\ data = log[file] /\ data \in Content /\ data # NULL
    BY DEF IInv, TypeOK, Sending, Write, Goto, Hour, Content
  <1>2. TypeOK'
    BY <1>1 DEF IInv, TypeOK, Write, Goto, tail
  <1>3. ency'[file] = data /\ \A h \in Hour : h # file => ency'[h] = ency[h]
    BY <1>1 DEF IInv, TypeOK, Write
  <1> QED BY <1>1, <1>2, <1>3
          DEF IInv, Sending, Passing, FilesOK, ReceivedWhole, Write, Goto, tail

\* What is sent is what the file of that hour will ever hold (upload_v2.py:226).
LEMMA SendStep ==
  ASSUME IInv, NEW ok \in BOOLEAN, Send(ok)
  PROVE  IInv'
  <1>1. /\ file \in Hour /\ received[file] = <<>>
        /\ ency[file] = log[file] /\ log[file] \in Content /\ ency[file] # NULL
    BY DEF IInv, TypeOK, Sending, Send, Goto, Hour, Content
  <1>2. CASE ok
    <2>1. received' = [received EXCEPT ![file] = <<log[file]>>]
      BY <1>1, <1>2 DEF Send
    <2>2. TypeOK'
      BY <1>1, <1>2, <2>1 DEF IInv, TypeOK, Send, Goto, tail
    <2>3. /\ received'[file] = <<log[file]>>
          /\ \A h \in Hour : h # file => received'[h] = received[h]
      BY <1>1, <2>1 DEF IInv, TypeOK
    <2> QED BY <1>1, <1>2, <2>2, <2>3
            DEF IInv, Sending, Passing, FilesOK, ReceivedWhole, Send, Goto, tail
  <1>3. CASE ~ ok
    BY <1>1, <1>3 DEF IInv, TypeOK, Sending, Passing, FilesOK, ReceivedWhole, Send, Goto, tail
  <1> QED BY <1>2, <1>3

\* What was left half done is not done again: its encoded file exists.
LEMMA DiesStep == IInv /\ Dies => IInv'
  <1> SUFFICES ASSUME IInv, Dies PROVE IInv'  OBVIOUS
  <1>1. failed' \subseteq Hour
    BY DEF IInv, TypeOK, Sending, Dies, Hour
  <1> QED BY <1>1 DEF IInv, TypeOK, Sending, Passing, FilesOK, ReceivedWhole, Dies, tail

LEMMA StartStep == IInv /\ Start => IInv'
  BY DEF IInv, TypeOK, Sending, Passing, FilesOK, ReceivedWhole, Start, Goto, tail

LEMMA Inductive == IInv /\ [Next]_vars => IInv'
  <1> SUFFICES ASSUME IInv, [Next]_vars PROVE IInv'  OBVIOUS
  <1>1. CASE UNCHANGED vars
    BY <1>1 DEF vars, tail, pass, IInv, TypeOK, Sending, Passing, FilesOK, ReceivedWhole
  <1>2. CASE Next
    BY <1>2, TickStep, NameStep, AppendStep, TailDiesStep, BeginStep, EndStep, LookStep,
       CreateStep, WriteStep, SendStep, DiesStep, StartStep
    DEF Next, Pass
  <1> QED BY <1>1, <1>2

\* The inductive invariant: whatever is encoded, sent or being sent is of an hour
\* that is over and that nobody is appending to (upload_v2.py:205-226).
THEOREM Invariance == Spec => []IInv
  <1> QED BY Initially, Inductive, PTL DEF Spec

\* Through deaths of either process, failing uploads and passes that run into the
\* next hour, the server gets the records of an hour at most once, and then all of
\* them (upload_v2.py:199-229).
THEOREM Whole == Spec => []ReceivedWhole
  <1>1. IInv => ReceivedWhole  BY DEF IInv
  <1> QED BY <1>1, Invariance, PTL
=============================================================================
