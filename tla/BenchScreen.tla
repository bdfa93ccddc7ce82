---------------------------- MODULE BenchScreen -----------------------------
(***************************************************************************)
(* app/lib/bench/bench_screen.dart over capture_channel.dart: one button   *)
(* that starts and stops, and a flag that is set by events, which also     *)
(* tell of captures Siri has started, and by results.  Platform channels   *)
(* deliver in order in each direction.                                     *)
(*                                                                         *)
(* The queue and the listener are set up in one go, before the button can  *)
(* be pressed.  The button may be pressed again while a call is pending.   *)
(* A stop's result is followed by file operations of its own length and by *)
(* one more call, whose failure ends up in the catch of the stop.          *)
(***************************************************************************)
EXTENDS CaptureCoordinator

CONSTANT MaxMessages   \* bound: messages on their way when another call is made

VARIABLES
  recording,   \* _recording
  made,        \* requests that have been made
  toNative,    \* calls on their way to the recorder
  queued,      \* the captures handed to the capture queue, in order
  enqueuing,   \* those whose files enqueueAudio is still writing
  hidden       \* what was active when a failed file protection last reset the flag
               \* (history)

screenVars == <<recording, made, toNative, queued, enqueuing, hidden>>
benchVars == <<recorderVars, screenVars>>

Call ==
  [kind : {"startCapture", "protect"}, of : Requests] \cup [kind : {"configureSession"}, of : Profiles]
    \cup [kind : {"stopCapture"}, of : {None}]

ScreenTypeOK ==
  /\ RecorderTypeOK
  /\ recording \in BOOLEAN
  /\ made \subseteq Requests
  /\ toNative \in Seq(Call)
  /\ queued \in Seq(Requests)
  /\ enqueuing \subseteq Requests
  /\ hidden \in Maybe

BenchInit ==
  /\ RecorderInit
  /\ recording = FALSE /\ made = {} /\ toNative = <<>> /\ queued = <<>>
  /\ enqueuing = {} /\ hidden = None

-----------------------------------------------------------------------------
(* The screen.                                                             *)

Bootstrap == ~ listening /\ Listen /\ UNCHANGED screenVars

MakeCall(call) ==
  /\ Len(toNative) + Len(toDart) <= MaxMessages
  /\ toNative' = Append(toNative, call)

\* Mutant: the flag is set with the call.
PressRecordAndShow(r) ==
  /\ listening /\ ~ recording
  /\ r \notin made \cup Intents /\ made' = made \cup {r}
  /\ MakeCall([kind |-> "startCapture", of |-> r])
  /\ recording' = TRUE
  /\ UNCHANGED <<recorderVars, queued, enqueuing, hidden>>

PressRecord(r) ==
  /\ listening /\ ~ recording
  /\ r \notin made \cup Intents /\ made' = made \cup {r}
  /\ MakeCall([kind |-> "startCapture", of |-> r])
  /\ UNCHANGED <<recorderVars, recording, queued, enqueuing, hidden>>

PressStop ==
  /\ recording
  /\ MakeCall([kind |-> "stopCapture", of |-> None])
  /\ UNCHANGED <<recorderVars, recording, made, queued, enqueuing, hidden>>

ChooseProfile(p) ==
  /\ listening /\ ~ recording
  /\ MakeCall([kind |-> "configureSession", of |-> p])
  /\ UNCHANGED <<recorderVars, recording, made, queued, enqueuing, hidden>>

\* Mutant: a result that finds the screen idle is dropped.
ReceiveIfRecording ==
  /\ toDart # <<>> /\ toDart' = Tail(toDart)
  /\ LET message == Head(toDart) IN
       /\ recording' = CASE message.kind \in {"captureStarted", "started"} -> TRUE
                         [] message.kind \in {"notStarted", "protected"} -> recording
                         [] OTHER -> FALSE
       /\ queued' = IF message.kind = "stopped" /\ recording THEN Append(queued, message.of) ELSE queued
       /\ enqueuing' = IF message.kind = "stopped" THEN enqueuing \cup {message.of} ELSE enqueuing
       /\ hidden' = IF message.kind = "notProtected" THEN active ELSE hidden
  /\ UNCHANGED <<currentProfile, engineVars, audioVars, main, asked, stampVars, pendingEvents,
                 listening, made, toNative>>

\* _onEvent, and what _toggleRecording does with a result.  One catch serves the
\* stop and the file protection, and resets the flag whatever records by then.
Receive ==
  /\ toDart # <<>> /\ toDart' = Tail(toDart)
  /\ LET message == Head(toDart) IN
       /\ recording' = CASE message.kind \in {"captureStarted", "started"} -> TRUE
                         [] message.kind \in {"notStarted", "protected"} -> recording
                         [] OTHER -> FALSE
       /\ queued' = IF message.kind = "stopped" THEN Append(queued, message.of) ELSE queued
       /\ enqueuing' = IF message.kind = "stopped" THEN enqueuing \cup {message.of} ELSE enqueuing
       /\ hidden' = IF message.kind = "notProtected" THEN active ELSE hidden
  /\ UNCHANGED <<currentProfile, engineVars, audioVars, main, asked, stampVars, pendingEvents,
                 listening, made, toNative>>

\* enqueueAudio has moved the file and written its sidecar.
FilesWritten(c) ==
  /\ c \in enqueuing /\ enqueuing' = enqueuing \ {c}
  /\ MakeCall([kind |-> "protect", of |-> c])
  /\ UNCHANGED <<recorderVars, recording, made, queued, hidden>>

\* A file error, which _toggleRecording does not catch.
FilesFail(c) ==
  /\ c \in enqueuing /\ enqueuing' = enqueuing \ {c}
  /\ UNCHANGED <<recorderVars, recording, made, toNative, queued, hidden>>

-----------------------------------------------------------------------------
(* The calls on the main thread.                                           *)

\* CaptureChannelHandler.
Handle ==
  /\ toNative # <<>> /\ toNative' = Tail(toNative)
  /\ LET call == Head(toNative) IN
       \/ call.kind = "startCapture" /\ AskToStart(call.of)
       \/ call.kind = "configureSession" /\ Configure(call.of)
       \/ call.kind = "stopCapture" /\ (Stop \/ NotCapturing)
       \/ call.kind = "protect" /\ Protect(call.of)
  /\ UNCHANGED <<recording, made, queued, enqueuing, hidden>>

Siri(r) ==
  /\ r \in Intents \ made /\ made' = made \cup {r}
  /\ Trigger(r)
  /\ UNCHANGED <<recording, toNative, queued, enqueuing, hidden>>

BenchNext ==
  \/ Bootstrap \/ PressStop \/ Receive \/ Handle
  \/ \E p \in Profiles : ChooseProfile(p)
  \/ \E r \in Requests :
       \/ PressRecord(r) \/ Siri(r) \/ FilesWritten(r) \/ FilesFail(r)
       \/ RecorderSteps(r) /\ UNCHANGED screenVars

BenchSpec == BenchInit /\ [][BenchNext]_benchVars

-----------------------------------------------------------------------------
\* Once all messages have arrived the button never offers to stop what does not
\* record, and it offers to stop whatever records, whoever started it and whatever
\* start or stop failed; but for a capture under which the failed file protection
\* of an earlier one has reset the flag.
ScreenAgrees ==
  listening /\ toDart = <<>> =>
    /\ recording => active # None
    /\ active # None /\ ~ recording => active = hidden

Results == {i \in DOMAIN toDart : toDart[i].kind = "stopped"}

\* Every capture that was stopped reaches the queue once, or its result is on the
\* way, though the event of its stop has already reset the screen.
EveryRecordingIsQueued ==
  /\ stopped = {queued[k] : k \in DOMAIN queued} \cup {toDart[i].of : i \in Results}
  /\ \A k, l \in DOMAIN queued : queued[k] = queued[l] => k = l
  /\ \A i, j \in Results : toDart[i].of = toDart[j].of => i = j
  /\ \A k \in DOMAIN queued, i \in Results : queued[k] # toDart[i].of

\* The results on their way to the queue, and their order.
Waiting == {toDart[i].of : i \in Results}
EndedBefore ==
  {p \in Waiting \X Waiting : \E i, j \in Results : i < j /\ p = <<toDart[i].of, toDart[j].of>>}
Recordings == INSTANCE RecordingOrder WITH
  waiting <- Waiting, before <- EndedBefore, handedOn <- queued

\* One recording at a time, and each that was stopped reaches the queue once, in
\* the order of the stops, whatever else is on its way between recorder and screen.
ImplementsRecordingOrder == Recordings!AbsSpec
=============================================================================
