-------------------------------- MODULE Upload --------------------------------
(***************************************************************************)
(* Log collection in script/python/yd_tail.  round_v8.py follows an access *)
(* log and appends each record that matches to a file named for the hour.  *)
(* upload_v2.py, twice a day, encodes the files of earlier hours and sends *)
(* each to a server with curl.  The two are separate processes that meet   *)
(* only in the file system; either may die and be started again, and curl  *)
(* may fail.  That a file was dealt with is remembered only by the         *)
(* existence of its encoded form.                                          *)
(*                                                                         *)
(* Which records match is left out, and a file's content is the number of  *)
(* its records.  The uploader wakes five minutes past the hour: a record   *)
(* is taken to need less than that from its time stamp to the file, which  *)
(* is the guard of Begin about `named`.                                    *)
(***************************************************************************)
EXTENDS Integers, Sequences

CONSTANTS
  MaxHour,     \* bounds the run: hours that pass
  MaxRecords,  \* bounds the run: records of one hour
  NULL

ASSUME UploadAssumption ==
  MaxHour \in Nat /\ MaxRecords \in Nat /\ NULL \notin Int

Hour    == 0 .. MaxHour
Content == 0 .. MaxRecords

VARIABLES
  hour,       \* the clock
  named,      \* the file round_v8 is about to append to, or NULL
  log,        \* log[h]: records in the file of hour h; none: no such file
  ency,       \* ency[h]: what the encoded file holds, or NULL if there is none
  pc,         \* where upload_v2 is
  skip,       \* skip_file: the hour in which the present pass began
  filenames,  \* files the pass has still to look at
  file,       \* the one it is looking at
  data,       \* what it read from it
  received,   \* received[h]: contents the server got for hour h
  failed      \* history: hours whose upload failed or was cut off

tail     == <<named, log>>
pass     == <<pc, skip, filenames, file, data>>
vars     == <<hour, tail, ency, pass, received, failed>>

Init ==
  /\ hour = 0 /\ named = NULL
  /\ log = [h \in Hour |-> 0] /\ ency = [h \in Hour |-> NULL]
  /\ pc = "wait" /\ skip = NULL /\ filenames = {} /\ file = NULL /\ data = NULL
  /\ received = [h \in Hour |-> <<>>] /\ failed = {}

Tick ==
  /\ hour < MaxHour
  /\ hour' = hour + 1
  /\ UNCHANGED <<tail, ency, pass, received, failed>>

-----------------------------------------------------------------------------
(* round_v8.py: log_process for a record that matches.                     *)

Name ==
  /\ named = NULL /\ log[hour] < MaxRecords
  /\ named' = hour
  /\ UNCHANGED <<hour, log, ency, pass, received, failed>>

Append1 ==
  /\ named # NULL
  /\ log' = [log EXCEPT ![named] = @ + 1]
  /\ named' = NULL
  /\ UNCHANGED <<hour, ency, pass, received, failed>>

\* It dies, and is started again at the end of the access log.
TailDies ==
  /\ named # NULL
  /\ named' = NULL
  /\ UNCHANGED <<hour, log, ency, pass, received, failed>>

-----------------------------------------------------------------------------
(* upload_v2.py: business_process.                                         *)

Goto(from, to) == pc = from /\ pc' = to

\* A pass begins: the hour to skip, and the files there are.
Begin ==
  /\ Goto("wait", "next")
  /\ named \in {NULL, hour}
  /\ skip' = hour
  /\ filenames' = {h \in Hour : log[h] > 0}
  /\ UNCHANGED <<hour, tail, ency, file, data, received, failed>>

End ==
  /\ filenames = {}
  /\ Goto("next", "wait")
  /\ UNCHANGED <<hour, tail, ency, skip, filenames, file, data, received, failed>>

\* Mutant: the present hour's file is not skipped.
Look_Present(h) ==
  /\ pc = "next" /\ h \in filenames
  /\ filenames' = filenames \ {h}
  /\ IF ency[h] # NULL
     THEN UNCHANGED <<pc, file, data>>
     ELSE pc' = "create" /\ file' = h /\ data' = log[h]
  /\ UNCHANGED <<hour, tail, ency, skip, received, failed>>

\* Mutant: a file that is already encoded ends the pass.
Look_Stops(h) ==
  /\ pc = "next" /\ h \in filenames
  /\ IF h = skip \/ ency[h] # NULL
     THEN filenames' = {} /\ UNCHANGED <<pc, file, data>>
     ELSE filenames' = filenames \ {h} /\ pc' = "create" /\ file' = h /\ data' = log[h]
  /\ UNCHANGED <<hour, tail, ency, skip, received, failed>>

\* The next file: skip it, or read it.
Look(h) ==
  /\ pc = "next" /\ h \in filenames
  /\ filenames' = filenames \ {h}
  /\ IF h = skip \/ ency[h] # NULL
     THEN UNCHANGED <<pc, file, data>>
     ELSE pc' = "create" /\ file' = h /\ data' = log[h]
  /\ UNCHANGED <<hour, tail, ency, skip, received, failed>>

\* encode_file: the encoded file is created empty, and then written.
Create ==
  /\ Goto("create", "write")
  /\ ency' = [ency EXCEPT ![file] = 0]
  /\ UNCHANGED <<hour, tail, skip, filenames, file, data, received, failed>>

Write ==
  /\ Goto("write", "upload")
  /\ ency' = [ency EXCEPT ![file] = data]
  /\ UNCHANGED <<hour, tail, skip, filenames, file, data, received, failed>>

\* upload_file: its result does not tell whether curl succeeded.
Send(ok) ==
  /\ Goto("upload", "next")
  /\ IF ok
     THEN received' = [received EXCEPT ![file] = Append(@, ency[file])] /\ UNCHANGED failed
     ELSE failed' = failed \cup {file} /\ UNCHANGED received
  /\ file' = NULL /\ data' = NULL
  /\ UNCHANGED <<hour, tail, ency, skip, filenames>>

\* The process dies and its variables with it; files stay.
Dies ==
  /\ pc # "down"
  /\ pc' = "down"
  /\ failed' = IF pc \in {"write", "upload"} THEN failed \cup {file} ELSE failed
  /\ skip' = NULL /\ filenames' = {} /\ file' = NULL /\ data' = NULL
  /\ UNCHANGED <<hour, tail, ency, received>>

\* Mutant: what a process that died may have left half done is done again.
Start_Clean ==
  /\ Goto("down", "wait")
  /\ ency' = [h \in Hour |-> NULL]
  /\ UNCHANGED <<hour, tail, skip, filenames, file, data, received, failed>>

Start ==
  /\ Goto("down", "wait")
  /\ UNCHANGED <<hour, tail, ency, skip, filenames, file, data, received, failed>>

Pass == End \/ (\E h \in Hour : Look(h)) \/ Create \/ Write

Next ==
  \/ Tick \/ Name \/ Append1 \/ TailDies
  \/ Begin \/ Pass \/ (\E ok \in BOOLEAN : Send(ok)) \/ Dies \/ Start

\* Passes begin again and again and go on while the process lives; a record gets
\* to its file.  Nobody promises that curl ends.
Spec ==
  /\ Init /\ [][Next]_vars
  /\ WF_vars(Begin) /\ WF_vars(Pass) /\ WF_vars(Append1 \/ TailDies)

-----------------------------------------------------------------------------
TypeOK ==
  /\ hour \in Hour /\ named \in Hour \cup {NULL}
  /\ log \in [Hour -> Content] /\ ency \in [Hour -> Content \cup {NULL}]
  /\ pc \in {"wait", "next", "create", "write", "upload", "down"}
  /\ skip \in Hour \cup {NULL} /\ filenames \subseteq Hour
  /\ file \in Hour \cup {NULL} /\ data \in Content \cup {NULL}
  /\ received \in [Hour -> Seq(Content)]
  /\ failed \subseteq Hour

\* The file being sent is one of an earlier hour that nobody has sent.
Sending ==
  pc \in {"create", "write", "upload"} =>
    /\ file \in Hour /\ file < hour /\ file # named /\ data = log[file]
    /\ received[file] = <<>>
    /\ (ency[file] = NULL) <=> (pc = "create")
    /\ pc = "upload" => ency[file] = data

\* Through crashes, failures and passes that run into the next hour, the server
\* gets the records of an hour at most once, and then all of them.
ReceivedWhole == \A h \in Hour : received[h] \in {<<>>, <<log[h]>>}

\* A pass looks only at files of hours up to the one it skips, and the other
\* process is appending to none of an earlier one.
Passing ==
  pc \notin {"wait", "down"} =>
    /\ skip \in Hour /\ skip <= hour
    /\ named # NULL => skip <= named
    /\ \A h \in filenames : h <= skip

\* Files are of hours that have come; what was encoded or sent is of an hour that
\* is over, and nobody is about to append to it.
FilesOK ==
  /\ named # NULL => named <= hour /\ log[named] < MaxRecords
  /\ \A h \in Hour :
       /\ log[h] > 0 => h <= hour
       /\ ency[h] # NULL => h < hour /\ named # h
       /\ received[h] # <<>> => ency[h] # NULL

\* Why ReceivedWhole holds.
IInv == TypeOK /\ Sending /\ Passing /\ FilesOK /\ ReceivedWhole

\* Every curl ends: upload_file waits for it without a limit (upload_v2.py:184-190).
CurlEnds == []<>(pc # "upload")

\* As long as no curl hangs, an hour's records are sent once the hour is over, unless
\* curl failed or the process died in the middle (then they never are).
SentUnlessFailed ==
  CurlEnds => \A h \in Hour :
    h < hour /\ log[h] > 0 ~> received[h] = <<log[h]>> \/ h \in failed \/ pc = "down"
=============================================================================
