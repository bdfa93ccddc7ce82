------------------------- MODULE CaptureCoordinator -------------------------
(***************************************************************************)
(* app/ios/Runner/Capture/CaptureCoordinator.swift: the recorder of the    *)
(* app.  Its methods and the blocks of the main queue run on the main      *)
(* thread, one after the other; the tap's callback runs on an audio thread *)
(* beside them, and the answer to a permission request comes on any.       *)
(*                                                                         *)
(* A start on the main thread is one action: what a callback does in its   *)
(* midst it might have done before or after.  removeTap lets no further    *)
(* callback begin; one that has begun runs on.                             *)
(*                                                                         *)
(* A capture is named by the request that starts it.  Snapshots of route   *)
(* and microphone are left out, and the events that no screen acts on.     *)
(***************************************************************************)
EXTENDS Integers, Sequences, FiniteSets

CONSTANTS
  Requests,   \* calls of startCapture and intents
  Intents,    \* those among them that come from Siri
  Profiles,
  None

VARIABLES
  currentProfile,
  active,      \* the ActiveCapture, or None
  tap,         \* the capture whose tap is installed in a running engine
  audioFile,   \* the capture whose file the tap writes to
  label,       \* the profile in the metadata of the active capture
  firstBufferRecorded,
  callback,    \* callback[c]: how far the running callback of c's tap is
  alone,       \* captures begun when no callback of an earlier tap could yet
               \* touch firstBufferRecorded (history)
  touched,     \* captures whose file was written after their stop (history)
  stopped,     \* captures whose result has been returned
  main,        \* the blocks of the main queue
  asked,       \* requests that wait for the record permission
  pendingIntent,
  firstBuffer, \* timestamps: whose buffer t_firstBuffer is of
  intent,      \* timestamps: which intent the t_intentPerform is of
  metadata,    \* metadata[c]: both stamps in the result of c
  heard,       \* captures whose own first buffer was stamped while active (history)
  pendingEvents,
  listening,   \* eventSink is set
  toDart       \* events and results on their way to the screen

engineVars == <<active, tap, audioFile, label>>
audioVars == <<firstBufferRecorded, callback, alone, touched>>
stampVars == <<pendingIntent, firstBuffer, intent, metadata, heard, stopped>>
eventVars == <<pendingEvents, listening, toDart>>
recorderVars == <<currentProfile, engineVars, audioVars, main, asked, stampVars, eventVars>>

Maybe == Requests \cup {None}

Block == [kind : {"firstBuffer", "granted", "denied"}, of : Requests]
Event == [kind : {"captureStarted", "captureStopped"}, of : Requests]
Reply == [kind : {"started", "notStarted", "stopped", "protected", "notProtected"}, of : Requests]
           \cup [kind : {"notStopped"}, of : {None}]
Message == Event \cup Reply

ASSUME RecorderAssumption ==
  Intents \subseteq Requests /\ None \notin Requests /\ None \notin Profiles

RecorderTypeOK ==
  /\ currentProfile \in Profiles \cup {None}
  /\ active \in Maybe /\ tap \in Maybe /\ audioFile \in Maybe
  /\ label \in Profiles \cup {None}
  /\ firstBufferRecorded \in BOOLEAN
  /\ callback \in [Requests -> {"none", "begun", "first", "checked"}]
  /\ alone \subseteq Requests
  /\ touched \subseteq Requests
  /\ stopped \subseteq Requests
  /\ main \in Seq(Block)
  /\ asked \subseteq Requests
  /\ pendingIntent \in Intents \cup {None} /\ intent \in Intents \cup {None}
  /\ firstBuffer \in Maybe
  /\ metadata \in [Requests -> [firstBuffer : Maybe, intent : Maybe]]
  /\ heard \subseteq Requests
  /\ pendingEvents \in Seq(Event)
  /\ listening \in BOOLEAN
  /\ toDart \in Seq(Message)

NoStamps == [firstBuffer |-> None, intent |-> None]

RecorderInit ==
  /\ currentProfile = None
  /\ active = None /\ tap = None /\ audioFile = None
  /\ label = None
  /\ firstBufferRecorded = FALSE
  /\ callback = [c \in Requests |-> "none"]
  /\ alone = {} /\ touched = {}
  /\ stopped = {} /\ main = <<>> /\ asked = {}
  /\ pendingIntent = None /\ firstBuffer = None /\ intent = None
  /\ metadata = [c \in Requests |-> NoStamps] /\ heard = {}
  /\ pendingEvents = <<>> /\ listening = FALSE /\ toDart = <<>>

-----------------------------------------------------------------------------
(* What the main thread tells Dart: events, which wait for a listener, and *)
(* the results of calls.                                                   *)

Told(event, replies) ==
  /\ pendingEvents' = IF listening THEN pendingEvents ELSE pendingEvents \o event
  /\ toDart' = toDart \o (IF listening THEN event ELSE <<>>) \o replies
  /\ UNCHANGED listening

\* An intent has no call that could be answered.
ReplyTo(r, kind) == IF r \in Intents THEN <<>> ELSE <<[kind |-> kind, of |-> r]>>

\* onListen: the buffered events come first.
Listen ==
  /\ listening' = TRUE
  /\ toDart' = toDart \o pendingEvents
  /\ pendingEvents' = <<>>
  /\ UNCHANGED <<currentProfile, engineVars, audioVars, main, asked, stampVars>>

-----------------------------------------------------------------------------
(* Configure, start and stop.                                              *)

\* configureSession.  Each of its steps may throw, before or after the profile
\* is taken over.
Configure(p) ==
  /\ currentProfile' \in {currentProfile} \cup (IF active = None THEN {p} ELSE {})
  /\ UNCHANGED <<engineVars, audioVars, main, asked, stampVars, eventVars>>

\* startCapture begins with the permission.
AskToStart(r) ==
  /\ asked' = asked \cup {r}
  /\ UNCHANGED <<currentProfile, engineVars, audioVars, main, stampVars, eventVars>>

\* The first start configures the default profile, an intent always does.
ProfileOfStart(r) ==
  IF r \in Intents \/ currentProfile = None THEN Profiles ELSE {currentProfile}

IsNext(r, kind) == main # <<>> /\ Head(main) = [kind |-> kind, of |-> r] /\ main' = Tail(main)

LateCallbacks == {c \in Requests : callback[c] \in {"begun", "first"}}

\* The context of the last intent goes to the capture, whoever started it.
Start(r) ==
  /\ IsNext(r, "granted")
  /\ active = None
  /\ currentProfile' \in ProfileOfStart(r)
  /\ active' = r /\ tap' = r /\ audioFile' = r
  /\ label' = currentProfile'
  /\ firstBufferRecorded' = FALSE
  /\ alone' = IF LateCallbacks = {} THEN alone \cup {r} ELSE alone
  /\ intent' = pendingIntent /\ pendingIntent' = None
  /\ Told(<<[kind |-> "captureStarted", of |-> r]>>, ReplyTo(r, "started"))
  /\ UNCHANGED <<callback, touched, asked, firstBuffer, metadata, heard, stopped>>

\* Mutant: an intent, which looked at `active` before it asked, configures at once.
StartFailsConfigured(r) ==
  /\ IsNext(r, "granted")
  /\ \/ UNCHANGED <<currentProfile, firstBufferRecorded>>
     \/ /\ active = None \/ r \in Intents
        /\ currentProfile' \in ProfileOfStart(r)
        /\ firstBufferRecorded' \in {firstBufferRecorded, FALSE}
  /\ Told(<<>>, ReplyTo(r, "notStarted"))
  /\ UNCHANGED <<engineVars, callback, alone, touched, asked, stampVars>>

\* A capture is active, or a step of the start throws: the session, the file or,
\* once that is open, the engine.
StartFails(r) ==
  /\ IsNext(r, "granted")
  /\ \/ UNCHANGED <<currentProfile, firstBufferRecorded>>
     \/ /\ active = None
        /\ currentProfile' \in ProfileOfStart(r)
        /\ firstBufferRecorded' \in {firstBufferRecorded, FALSE}
  /\ Told(<<>>, ReplyTo(r, "notStarted"))
  /\ UNCHANGED <<engineVars, callback, alone, touched, asked, stampVars>>

Denied(r) ==
  /\ IsNext(r, "denied")
  /\ Told(<<>>, ReplyTo(r, "notStarted"))
  /\ UNCHANGED <<currentProfile, engineVars, audioVars, asked, stampVars>>

\* Mutant: `active` is not looked at.
StopUnguarded ==
  /\ metadata' = [metadata EXCEPT ![active] = [firstBuffer |-> firstBuffer, intent |-> intent]]
  /\ stopped' = stopped \cup {active}
  /\ active' = None /\ tap' = None /\ audioFile' = None /\ label' = None
  /\ firstBuffer' = None /\ intent' = None
  /\ Told(<<[kind |-> "captureStopped", of |-> active]>>, <<[kind |-> "stopped", of |-> active]>>)
  /\ UNCHANGED <<currentProfile, audioVars, main, asked, pendingIntent, heard>>

Stop ==
  /\ active # None
  /\ metadata' = [metadata EXCEPT ![active] = [firstBuffer |-> firstBuffer, intent |-> intent]]
  /\ stopped' = stopped \cup {active}
  /\ active' = None /\ tap' = None /\ audioFile' = None /\ label' = None
  /\ firstBuffer' = None /\ intent' = None
  /\ Told(<<[kind |-> "captureStopped", of |-> active]>>, <<[kind |-> "stopped", of |-> active]>>)
  /\ UNCHANGED <<currentProfile, audioVars, main, asked, pendingIntent, heard>>

NotCapturing ==
  /\ active = None
  /\ Told(<<>>, <<[kind |-> "notStopped", of |-> None]>>)
  /\ UNCHANGED <<currentProfile, engineVars, audioVars, main, asked, stampVars>>

\* setFileProtectionComplete, for the files of a capture that was stopped.
Protect(c) ==
  /\ \E kind \in {"protected", "notProtected"} : Told(<<>>, <<[kind |-> kind, of |-> c]>>)
  /\ UNCHANGED <<currentProfile, engineVars, audioVars, main, asked, stampVars>>

-----------------------------------------------------------------------------
(* What comes from elsewhere.                                              *)

\* StartCaptureIntent: a capture that is active leaves the context pending.
Trigger(r) ==
  /\ pendingIntent' = r
  /\ asked' = IF active = None THEN asked \cup {r} ELSE asked
  /\ UNCHANGED <<currentProfile, engineVars, audioVars, main, firstBuffer, intent,
                 metadata, heard, stopped, eventVars>>

PermissionAnswered(r) ==
  /\ r \in asked /\ asked' = asked \ {r}
  /\ \E kind \in {"granted", "denied"} : main' = Append(main, [kind |-> kind, of |-> r])
  /\ UNCHANGED <<currentProfile, engineVars, audioVars, stampVars, eventVars>>

\* The tap has a buffer.
CallbackBegins(c) ==
  /\ tap = c /\ callback[c] = "none"
  /\ callback' = [callback EXCEPT ![c] = "begun"]
  /\ UNCHANGED <<currentProfile, engineVars, firstBufferRecorded, alone, touched, main, asked,
                 stampVars, eventVars>>

\* The flag is read and set without a lock: callbacks of two taps may both read
\* FALSE, and a start may reset it in between.
CallbackReads(c) ==
  /\ callback[c] = "begun"
  /\ callback' = [callback EXCEPT ![c] = IF firstBufferRecorded THEN "checked" ELSE "first"]
  /\ UNCHANGED <<currentProfile, engineVars, firstBufferRecorded, alone, touched, main, asked,
                 stampVars, eventVars>>

CallbackStamps(c) ==
  /\ callback[c] = "first"
  /\ callback' = [callback EXCEPT ![c] = "checked"]
  /\ firstBufferRecorded' = TRUE
  /\ main' = Append(main, [kind |-> "firstBuffer", of |-> c])
  /\ UNCHANGED <<currentProfile, engineVars, alone, touched, asked, stampVars, eventVars>>

\* Mutant: the closure holds the file it was made with.
CallbackWritesOwn(c) ==
  /\ callback[c] = "checked"
  /\ callback' = [callback EXCEPT ![c] = "none"]
  /\ touched' = touched \cup ({c} \cap stopped)
  /\ UNCHANGED <<currentProfile, engineVars, firstBufferRecorded, alone, main, asked, stampVars,
                 eventVars>>

\* Under the lock: the file, if there is one, gets the buffer, unless the write
\* throws.
CallbackWrites(c) ==
  /\ callback[c] = "checked"
  /\ callback' = [callback EXCEPT ![c] = "none"]
  /\ touched' \in {touched, touched \cup ({audioFile} \cap stopped)}
  /\ UNCHANGED <<currentProfile, engineVars, firstBufferRecorded, alone, main, asked, stampVars,
                 eventVars>>

\* Mutant: a stamp that is there is not overwritten.
StampOnce(c) ==
  /\ IsNext(c, "firstBuffer")
  /\ firstBuffer' = IF firstBuffer = None THEN c ELSE firstBuffer
  /\ heard' = IF active = c THEN heard \cup {c} ELSE heard
  /\ UNCHANGED <<currentProfile, engineVars, audioVars, asked, pendingIntent, intent, metadata,
                 stopped, eventVars>>

\* The block of a first buffer stamps whatever is recorded by then.
StampFirstBuffer(c) ==
  /\ IsNext(c, "firstBuffer")
  /\ firstBuffer' = c
  /\ heard' = IF active = c THEN heard \cup {c} ELSE heard
  /\ UNCHANGED <<currentProfile, engineVars, audioVars, asked, pendingIntent, intent, metadata,
                 stopped, eventVars>>

RecorderSteps(r) ==
  \/ Start(r) \/ StartFails(r) \/ Denied(r) \/ PermissionAnswered(r)
  \/ CallbackBegins(r) \/ CallbackReads(r) \/ CallbackStamps(r) \/ CallbackWrites(r)
  \/ StampFirstBuffer(r)

-----------------------------------------------------------------------------
(* Properties.                                                             *)

\* Nothing records that a stop would not reach, and nothing is recorded under
\* the label of a profile that the session does not have: two requests may pass
\* the first look at `active`, and any step of a start may throw.
RecorderIsConsistent ==
  /\ tap = active /\ audioFile = active
  /\ active # None => label = currentProfile

\* The file whose path stop has returned is never written again, though the
\* callbacks of its tap, and of taps before it, may still run.
StoppedFileIsFinal == touched = {}

\* A capture whose own first buffer was heard while it was active is stamped with
\* that buffer, though the block of an earlier capture may be handled after it
\* has begun, unless a callback of the earlier tap was still at work on the flag;
\* and no two captures bear the time of one intent.
StampsAreOwn ==
  /\ \A c \in stopped \cap heard \cap alone : metadata[c].firstBuffer = c
  /\ \A c, d \in stopped :
       c # d /\ metadata[c].intent # None => metadata[c].intent # metadata[d].intent
=============================================================================
