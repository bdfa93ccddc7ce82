--------------------------- MODULE CaptureProofs ---------------------------
(***************************************************************************)
(* Proofs about the capture submission, for any captures, any number of    *)
(* requests under way and any number of faults.  The inductive invariant   *)
(* has a part about the receiver alone, one about the queue alone, and one *)
(* that joins them through the request the device awaits.                  *)
(***************************************************************************)
EXTENDS CaptureSubmission, TLAPS

-----------------------------------------------------------------------------
(* The receiver.                                                           *)

Has(e) == data[e] # "absent" /\ json[e] # "absent"

PlacesMatch ==
  \A i \in Attempts :
    /\ handler[i] = "free" => entryOf[i] = None
    /\ handler[i] # "free" => entryOf[i] \in Entries
    /\ handler[i] = "answered" <=> answer[i] # "none"

\* The files show how far each handler has come, and the answers tell of it.
FilesMatchHandlers ==
  /\ \A i \in Attempts :
       /\ handler[i] \in {"data_open", "data_written", "json_open"}
            => data[entryOf[i]] # "absent"
       /\ handler[i] = "json_open" => json[entryOf[i]] # "absent"
       /\ answer[i] = "ok" => Has(entryOf[i])
       /\ answer[i] = "refuse" => header[i] = "wrong" \/ entryOf[i] \in Rejected
  /\ \A e \in Entries : json[e] # "absent" => data[e] # "absent"

\* While nothing failed, a file is torn only under the hands of its writer.
TornHasWriter ==
  failures = 0 =>
    \A e \in Entries :
      /\ data[e] = "torn" => \E i \in Attempts : entryOf[i] = e /\ handler[i] = "data_open"
      /\ json[e] = "torn" => \E i \in Attempts : entryOf[i] = e /\ handler[i] = "json_open"

ReceiverPart == PlacesMatch /\ FilesMatchHandlers /\ TornHasWriter

-----------------------------------------------------------------------------
(* The queue.                                                              *)

CapturedFirst ==
  /\ \A e \in Entries :
       /\ e \notin captured => audio[e] = "none" /\ sidecar[e] = "absent" /\ sync[e] = "pending"
       /\ e \in captured \ Notes => audio[e] # "none"
       /\ e \in Notes => audio[e] = "none"
  /\ pass \subseteq captured
  /\ current # None => current \in captured

\* What a pass is still to touch was due when it began, and is yet.
PassIsPending ==
  /\ \A e \in pass : sync[e] = "pending"
  /\ current # None => sync[current] = "pending" /\ current \notin pass

VerdictFits ==
  /\ phase = "confirmed" => verdict = "synced"
  /\ phase \in {"settling", "rewriting"} /\ verdict = "synced" => audio[current] # "queued"

QueuePart == CapturedFirst /\ PassIsPending /\ VerdictFits

-----------------------------------------------------------------------------
(* Both.                                                                   *)

InflightIsCurrent ==
  \A i \in Attempts :
    i = inflight /\ handler[i] # "free" => entryOf[i] = current /\ header[i] = cfg

ConfirmedIsStored ==
  phase \in {"confirmed", "settling", "rewriting"} /\ verdict = "synced" => Has(current)

RestIsStored ==
  \A e \in Entries :
    /\ audio[e] = "deleted" \/ sync[e] = "synced" => Has(e)
    /\ sync[e] = "synced" => audio[e] # "queued"

\* Without a failure of the app, deleted audio is recorded or about to be.
DeletedIsRecorded ==
  kills = 0 =>
    \A e \in Entries :
      audio[e] = "deleted" =>
        \/ sync[e] = "synced"
        \/ current = e /\ phase \in {"settling", "rewriting"} /\ verdict = "synced"

ParkedHasReason ==
  phase \in {"settling", "rewriting"} /\ verdict = "parked" /\ cfg = "right"
    /\ current \notin Rejected
    => audio[current] = "deleted" /\ json[current] # "absent" /\ kills > 0

JointPart ==
  /\ InflightIsCurrent
  /\ ConfirmedIsStored
  /\ RestIsStored
  /\ DeletedIsRecorded
  /\ ParkedHasReason

SubmissionInv == SubmissionTypeOK /\ ReceiverPart /\ QueuePart /\ JointPart

LEMMA SubmissionInitially == SubmissionInit => SubmissionInv
<1> SUFFICES ASSUME SubmissionInit PROVE SubmissionInv
  OBVIOUS
<1> USE EntryAssumption, ReceiverAssumption, SubmissionAssumption
    DEF SubmissionInit, QueueInit, ReceiverInit
<1>1. SubmissionTypeOK
  BY DEF SubmissionTypeOK, QueueTypeOK, ReceiverTypeOK, SyncState, Phase, File, HandlerStage
<1>2. ReceiverPart
  BY DEF ReceiverPart, PlacesMatch, FilesMatchHandlers, TornHasWriter, Has
<1>3. QueuePart
  BY DEF QueuePart, CapturedFirst, PassIsPending, VerdictFits
<1>4. JointPart
  BY DEF JointPart, InflightIsCurrent, ConfirmedIsStored, RestIsStored, DeletedIsRecorded,
         ParkedHasReason, Has
<1>5. QED
  BY <1>1, <1>2, <1>3, <1>4 DEF SubmissionInv

-----------------------------------------------------------------------------
(* Types.                                                                  *)

\* A step of a handler keeps the types of the receiver.
LEMMA HandleKeepsTypes ==
  ASSUME ReceiverTypeOK, NEW i \in Attempts, Handle(i)
  PROVE  ReceiverTypeOK'
<1> USE DEF ReceiverTypeOK, File, HandlerStage, Goto, Answer, files
<1>1. CASE Refuse(i) \/ AnswerDuplicate(i) \/ AcceptNew(i)
  BY <1>1 DEF Refuse, AnswerDuplicate, AcceptNew
<1>2. CASE OpenData(i)
  BY <1>2 DEF OpenData
<1>3. CASE WriteData(i)
  BY <1>3 DEF WriteData
<1>4. CASE OpenJson(i)
  BY <1>4 DEF OpenJson
<1>5. CASE WriteJson(i)
  BY <1>5 DEF WriteJson
<1>6. QED
  BY <1>1, <1>2, <1>3, <1>4, <1>5 DEF Handle

\* A step of the queue keeps the types of the device.
LEMMA DeviceKeepsTypes ==
  ASSUME QueueTypeOK, current # None,
         DeleteAudio \/ ReopenSidecar \/ RewriteSidecar \/ PassAborts
         \/ \E result \in {"ok", "retry", "refuse"} : Result(result)
  PROVE  QueueTypeOK'
<1> USE DEF QueueTypeOK, SyncState, Phase, fileVars, userVars
<1>1. CASE DeleteAudio
  BY <1>1 DEF DeleteAudio
<1>2. CASE ReopenSidecar
  BY <1>2 DEF ReopenSidecar
<1>3. CASE RewriteSidecar
  BY <1>3 DEF RewriteSidecar
<1>4. CASE PassAborts
  BY <1>4 DEF PassAborts
<1>5. ASSUME NEW result \in {"ok", "retry", "refuse"}, Result(result)
      PROVE  QueueTypeOK'
  BY <1>5 DEF Result, VerdictOn
<1>6. QED
  BY <1>1, <1>2, <1>3, <1>4, <1>5

LEMMA SubmissionStepTypes ==
  SubmissionTypeOK /\ [SubmissionNext]_submissionVars => SubmissionTypeOK'
<1> SUFFICES ASSUME SubmissionTypeOK, [SubmissionNext]_submissionVars
             PROVE  SubmissionTypeOK'
  OBVIOUS
<1> USE EntryAssumption, ReceiverAssumption, SubmissionAssumption
<1> USE DEF SubmissionTypeOK, deviceVars, fileVars, drainVars, userVars, receiverVars, files,
            faultVars
<1>1. ASSUME NEW e \in Entries, Capture(e) PROVE SubmissionTypeOK'
  BY <1>1 DEF Capture, Enqueue, OpenSidecar, WriteSidecar, QueueTypeOK, ReceiverTypeOK
<1>2. ASSUME NEW e \in Entries, Wait(e) PROVE SubmissionTypeOK'
  BY <1>2 DEF Wait, BackoffExpires, QueueTypeOK, ReceiverTypeOK, SyncState
<1>3. CASE Begin
  BY <1>3 DEF Begin, StartDrain, Due, QueueTypeOK, ReceiverTypeOK, Phase
<1>4. CASE Drain
  <2>1. ReceiverTypeOK' /\ UNCHANGED <<inflight, timeouts, failures, kills>>
    BY <1>4 DEF Drain, ReceiverTypeOK
  <2>2. CASE EndDrain \/ \E e \in Entries : Pick(e)
    BY <2>1, <2>2 DEF EndDrain, Pick, QueueTypeOK, Phase, SyncState
  <2>3. CASE DeleteAudio \/ ReopenSidecar \/ RewriteSidecar
    <3>1. current # None
      BY <2>3 DEF DeleteAudio, ReopenSidecar, RewriteSidecar
    <3>2. QueueTypeOK'
      BY <2>3, <3>1, DeviceKeepsTypes
    <3>3. QED
      BY <2>1, <2>3, <3>2 DEF DeleteAudio, ReopenSidecar, RewriteSidecar
  <2>4. QED
    BY <1>4, <2>2, <2>3 DEF Drain
<1>5. CASE Resume \/ Use
  BY <1>5 DEF Resume, Use, SetReady, SaveSecret, QueueTypeOK, ReceiverTypeOK
<1>6. ASSUME NEW i \in Attempts, Send(i) PROVE SubmissionTypeOK'
  BY <1>6 DEF Send, QueueTypeOK, ReceiverTypeOK, HandlerStage
<1>7. ASSUME NEW i \in Attempts, Lose(i) PROVE SubmissionTypeOK'
  BY <1>7 DEF Lose, Release, QueueTypeOK, ReceiverTypeOK, HandlerStage
<1>8. ASSUME NEW i \in Attempts, Serve(i) PROVE SubmissionTypeOK'
  <2>1. ReceiverTypeOK'
    BY <1>8, HandleKeepsTypes DEF Serve
  <2>2. QED
    BY <1>8, <2>1 DEF Serve, QueueTypeOK
<1>9. ASSUME NEW i \in Attempts, i = inflight, handler[i] = "answered", phase = "submitting",
             Result(answer[i]), Release(i), inflight' = None,
             UNCHANGED <<files, faultVars>>
      PROVE  SubmissionTypeOK'
  <2>1. QueueTypeOK'
    BY <1>9 DEF Result, VerdictOn, QueueTypeOK, SyncState, Phase
  <2>2. ReceiverTypeOK'
    BY <1>9 DEF Release, ReceiverTypeOK, HandlerStage
  <2>3. QED
    BY <1>9, <2>1, <2>2 DEF Result
<1>10. CASE Disconnect \/ GiveUp
  <2>1. phase = "submitting" /\ Result("retry") /\ inflight' = None
    BY <1>10 DEF Disconnect, GiveUp
  <2>2. QueueTypeOK'
    BY <2>1, DeviceKeepsTypes
  <2>3. QED
    BY <1>10, <2>1, <2>2 DEF Disconnect, GiveUp, Result, ReceiverTypeOK
<1>11. CASE ReceiverFails
  BY <1>11 DEF ReceiverFails, Restart, Fail, Answer, QueueTypeOK, ReceiverTypeOK, HandlerStage
<1>12. CASE AppFails
  BY <1>12 DEF AppFails, Kill, PassAborts, EnqueueFails, QueueTypeOK, ReceiverTypeOK, Phase,
               SyncState
<1>13. CASE UNCHANGED submissionVars
  BY <1>13 DEF submissionVars, QueueTypeOK, ReceiverTypeOK
<1>14. QED
  BY <1>1, <1>2, <1>3, <1>4, <1>5, <1>6, <1>7, <1>8, <1>9, <1>10, <1>11, <1>12, <1>13
  DEF SubmissionNext, Receive

-----------------------------------------------------------------------------
(* The steps of the receiver.                                              *)

\* What the device may rely on, whatever the receiver does: files do not
\* vanish, and a request keeps what it carries until its place is freed.
FilesGrow ==
  \A e \in Entries :
    /\ data[e] # "absent" => data'[e] # "absent"
    /\ json[e] # "absent" => json'[e] # "absent"

RequestsKept ==
  \A j \in Attempts :
    j = inflight /\ handler'[j] # "free" =>
      handler[j] # "free" /\ entryOf'[j] = entryOf[j] /\ header'[j] = header[j]

LEMMA HandleKeepsReceiver ==
  ASSUME SubmissionTypeOK, ReceiverPart, NEW i \in Attempts, Handle(i), UNCHANGED failures
  PROVE  ReceiverPart' /\ FilesGrow /\ RequestsKept
<1> USE EntryAssumption DEF SubmissionTypeOK, ReceiverTypeOK, ReceiverPart, files
<1> DEFINE e == entryOf[i]
<1>1. entryOf' = entryOf /\ header' = header
  BY DEF Handle, Refuse, AnswerDuplicate, AcceptNew, OpenData, WriteData, OpenJson, WriteJson,
         Goto, Answer
<1>2. /\ handler[i] # "free" /\ handler'[i] # "free" /\ e \in Entries
      /\ \A j \in Attempts \ {i} : handler'[j] = handler[j] /\ answer'[j] = answer[j]
  BY DEF Handle, Refuse, AnswerDuplicate, AcceptNew, OpenData, WriteData, OpenJson, WriteJson,
         Goto, Answer, PlacesMatch
<1>3. RequestsKept
  BY <1>1, <1>2 DEF RequestsKept
<1>4. PlacesMatch'
  BY <1>1, <1>2
  DEF PlacesMatch, Handle, Refuse, AnswerDuplicate, AcceptNew, OpenData, WriteData, OpenJson,
      WriteJson, Goto, Answer
<1>5. FilesGrow
  BY <1>2
  DEF FilesGrow, Handle, Refuse, AnswerDuplicate, AcceptNew, OpenData, WriteData, OpenJson,
      WriteJson, File
<1>6. FilesMatchHandlers'
  <2>1. CASE Refuse(i)
    BY <1>1, <1>2, <2>1 DEF Refuse, Answer, Acceptable, FilesMatchHandlers, Has
  <2>2. CASE AnswerDuplicate(i)
    BY <1>1, <1>2, <2>2 DEF AnswerDuplicate, Answer, Stored, FilesMatchHandlers, Has
  <2>3. CASE AcceptNew(i)
    BY <1>1, <1>2, <2>3 DEF AcceptNew, Goto, FilesMatchHandlers, PlacesMatch, Has
  <2>4. CASE OpenData(i)
    BY <1>1, <1>2, <2>4 DEF OpenData, Goto, FilesMatchHandlers, PlacesMatch, Has
  <2>5. CASE WriteData(i)
    BY <1>1, <1>2, <2>5 DEF WriteData, Goto, FilesMatchHandlers, PlacesMatch, Has
  <2>6. CASE OpenJson(i)
    BY <1>1, <1>2, <2>6 DEF OpenJson, Goto, FilesMatchHandlers, PlacesMatch, Has
  <2>7. CASE WriteJson(i)
    BY <1>1, <1>2, <2>7 DEF WriteJson, Answer, FilesMatchHandlers, PlacesMatch, Has
  <2>8. QED
    BY <2>1, <2>2, <2>3, <2>4, <2>5, <2>6, <2>7 DEF Handle
<1>7. TornHasWriter'
  <2>1. CASE Refuse(i) \/ AnswerDuplicate(i) \/ AcceptNew(i)
    BY <1>1, <1>2, <2>1
    DEF Refuse, AnswerDuplicate, AcceptNew, Goto, Answer, TornHasWriter
  <2>2. CASE OpenData(i)
    BY <1>1, <1>2, <2>2 DEF OpenData, Goto, TornHasWriter
  <2>3. CASE WriteData(i)
    BY <1>1, <1>2, <2>3 DEF WriteData, Goto, TornHasWriter
  <2>4. CASE OpenJson(i)
    BY <1>1, <1>2, <2>4 DEF OpenJson, Goto, TornHasWriter
  <2>5. CASE WriteJson(i)
    BY <1>1, <1>2, <2>5 DEF WriteJson, Answer, TornHasWriter
  <2>6. QED
    BY <2>1, <2>2, <2>3, <2>4, <2>5 DEF Handle
<1>8. QED
  BY <1>3, <1>4, <1>5, <1>6, <1>7

\* A place is freed: its request was answered, lost, or never arrived.
LEMMA ReleaseKeepsReceiver ==
  ASSUME SubmissionTypeOK, ReceiverPart, NEW i \in Attempts,
         handler[i] \in {"sent", "answered"}, Release(i), UNCHANGED <<files, failures>>
  PROVE  ReceiverPart' /\ FilesGrow /\ RequestsKept
<1> USE DEF SubmissionTypeOK, ReceiverTypeOK, ReceiverPart, files, Release
<1>1. PlacesMatch'
  BY DEF PlacesMatch
<1>2. FilesMatchHandlers'
  BY DEF FilesMatchHandlers, Has
<1>3. TornHasWriter'
  BY DEF TornHasWriter
<1>4. QED
  BY <1>1, <1>2, <1>3 DEF FilesGrow, RequestsKept

LEMMA FaultKeepsReceiver ==
  ASSUME SubmissionTypeOK, ReceiverPart, ReceiverFails
  PROVE  ReceiverPart' /\ FilesGrow /\ RequestsKept
<1> USE DEF SubmissionTypeOK, ReceiverTypeOK, ReceiverPart, files, ReceiverFails
<1>1. failures' # 0
  OBVIOUS
<1>2. CASE Restart
  BY <1>1, <1>2
  DEF Restart, PlacesMatch, FilesMatchHandlers, TornHasWriter, Has, FilesGrow, RequestsKept
<1>3. ASSUME NEW i \in Attempts, Fail(i)
      PROVE  ReceiverPart' /\ FilesGrow /\ RequestsKept
  BY <1>1, <1>3
  DEF Fail, Answer, PlacesMatch, FilesMatchHandlers, TornHasWriter, Has, FilesGrow,
      RequestsKept
<1>4. QED
  BY <1>2, <1>3

\* The queue's part does not depend on the receiver, and of the receiver the
\* joint part needs no more than what FilesGrow and RequestsKept say.
LEMMA ReceiverStepKeepsJoint ==
  ASSUME SubmissionTypeOK, QueuePart, JointPart,
         UNCHANGED <<deviceVars, inflight, kills>>, FilesGrow, RequestsKept
  PROVE  QueuePart' /\ JointPart'
<1> USE DEF SubmissionTypeOK, QueueTypeOK, QueuePart, JointPart, deviceVars, fileVars,
            drainVars, userVars
<1>1. QueuePart'
  BY DEF CapturedFirst, PassIsPending, VerdictFits
<1>2. current # None => current \in Entries
  OBVIOUS
<1>3. phase \in {"confirmed", "settling", "rewriting"} => current # None
  OBVIOUS
<1>4. ConfirmedIsStored' /\ ParkedHasReason'
  BY <1>2, <1>3 DEF ConfirmedIsStored, ParkedHasReason, Has, FilesGrow
<1>5. RestIsStored' /\ DeletedIsRecorded'
  BY DEF RestIsStored, DeletedIsRecorded, Has, FilesGrow
<1>6. InflightIsCurrent'
  BY DEF InflightIsCurrent, RequestsKept
<1>7. QED
  BY <1>1, <1>4, <1>5, <1>6

-----------------------------------------------------------------------------
(* The steps of the device.                                                *)

LEMMA DeviceStepKeepsReceiver ==
  ASSUME ReceiverPart, UNCHANGED <<receiverVars, failures>>
  PROVE  ReceiverPart'
BY DEF ReceiverPart, PlacesMatch, FilesMatchHandlers, TornHasWriter, Has, receiverVars

LEMMA CaptureKeepsInv ==
  ASSUME SubmissionInv, NEW e \in Entries, Capture(e)
  PROVE  QueuePart' /\ JointPart'
<1> USE EntryAssumption
    DEF SubmissionInv, SubmissionTypeOK, QueueTypeOK, QueuePart, JointPart, Capture, Enqueue,
        OpenSidecar, WriteSidecar, drainVars, userVars, faultVars, receiverVars
<1>1. /\ UNCHANGED <<sync, phase, pass, current, verdict, cfg, kills, inflight>>
      /\ UNCHANGED <<handler, entryOf, header, data, json>>
      /\ captured \subseteq captured'
  OBVIOUS
<1>2. \A d \in Entries : d \in captured => audio'[d] = audio[d]
  OBVIOUS
<1>3. \A d \in Entries : audio'[d] = "deleted" => audio[d] = "deleted"
  OBVIOUS
<1>4. CapturedFirst'
  BY DEF CapturedFirst
<1>5. PassIsPending' /\ VerdictFits'
  BY <1>1, <1>2 DEF PassIsPending, VerdictFits, CapturedFirst
<1>6. InflightIsCurrent' /\ ConfirmedIsStored' /\ DeletedIsRecorded'
  BY <1>1, <1>3 DEF InflightIsCurrent, ConfirmedIsStored, DeletedIsRecorded, Has
<1>7. RestIsStored'
  BY <1>1, <1>2, <1>3 DEF RestIsStored, CapturedFirst, Has
<1>8. ParkedHasReason'
  BY <1>1, <1>2 DEF ParkedHasReason, CapturedFirst
<1>9. QED
  BY <1>4, <1>5, <1>6, <1>7, <1>8

\* A pass begins, ends, or takes up the next entry.
LEMMA LoopKeepsInv ==
  ASSUME SubmissionInv,
         StartDrain \/ EndDrain \/ \E e \in Entries : Pick(e),
         UNCHANGED <<receiverVars, inflight, faultVars>>
  PROVE  QueuePart' /\ JointPart'
<1> USE EntryAssumption
    DEF SubmissionInv, SubmissionTypeOK, QueueTypeOK, QueuePart, JointPart, fileVars, userVars,
        faultVars, receiverVars
<1>1. CASE StartDrain \/ EndDrain
  <2>1. QueuePart'
    BY <1>1 DEF StartDrain, EndDrain, Due, CapturedFirst, PassIsPending, VerdictFits
  <2>2. /\ inflight = None /\ phase' \in {"loop", "off"}
        /\ UNCHANGED <<current, audio, sync, data, json, kills, inflight>>
        /\ phase \in {"loop", "off"}
    BY <1>1 DEF StartDrain, EndDrain
  <2>3. InflightIsCurrent' /\ ConfirmedIsStored' /\ ParkedHasReason'
    BY <2>2, ReceiverAssumption DEF InflightIsCurrent, ConfirmedIsStored, ParkedHasReason
  <2>4. RestIsStored' /\ DeletedIsRecorded'
    BY <2>2 DEF RestIsStored, DeletedIsRecorded, Has
  <2>5. QED
    BY <2>1, <2>3, <2>4
<1>2. ASSUME NEW e \in Entries, Pick(e)
      PROVE  QueuePart' /\ JointPart'
  <2>1. current = None /\ inflight = None /\ e # None /\ current' = e
    BY <1>2 DEF Pick
  <2>2. QueuePart'
    BY <1>2, <2>1 DEF Pick, CapturedFirst, PassIsPending, VerdictFits
  <2>3. InflightIsCurrent' /\ ConfirmedIsStored' /\ RestIsStored'
    BY <1>2, <2>1, ReceiverAssumption
    DEF Pick, InflightIsCurrent, ConfirmedIsStored, RestIsStored, Has
  <2>4. DeletedIsRecorded'
    BY <1>2, <2>1 DEF Pick, DeletedIsRecorded
  <2>5. ParkedHasReason'
    <3>1. ~ HasPayload(e) => audio[e] = "deleted"
      BY <1>2 DEF Pick, HasPayload, CapturedFirst
    <3>2. audio[e] = "deleted" => Has(e) /\ kills > 0
      BY <1>2, <2>1 DEF Pick, RestIsStored, DeletedIsRecorded, PassIsPending
    <3>3. QED
      BY <1>2, <2>1, <3>1, <3>2 DEF Pick, ParkedHasReason, Has
  <2>6. QED
    BY <2>2, <2>3, <2>4, <2>5
<1>3. QED
  BY <1>1, <1>2

\* The device learns the outcome of a request, or gives it up.
LEMMA ResultKeepsInv ==
  ASSUME SubmissionInv, NEW result \in {"ok", "retry", "refuse"}, Result(result),
         inflight' = None, UNCHANGED <<files, kills>>,
         result = "ok" => Has(current),
         result = "refuse" => cfg = "wrong" \/ current \in Rejected
  PROVE  QueuePart' /\ JointPart'
<1> USE ReceiverAssumption
    DEF SubmissionInv, SubmissionTypeOK, QueueTypeOK, QueuePart, JointPart, fileVars, userVars,
        files, Result, VerdictOn
<1>1. QueuePart'
  BY DEF CapturedFirst, PassIsPending, VerdictFits
<1>2. InflightIsCurrent' /\ ConfirmedIsStored' /\ RestIsStored'
  BY DEF InflightIsCurrent, ConfirmedIsStored, RestIsStored, Has
<1>3. DeletedIsRecorded' /\ ParkedHasReason'
  BY DEF DeletedIsRecorded, ParkedHasReason
<1>4. QED
  BY <1>1, <1>2, <1>3

LEMMA SettleKeepsInv ==
  ASSUME SubmissionInv, DeleteAudio \/ ReopenSidecar \/ RewriteSidecar,
         UNCHANGED <<receiverVars, inflight, faultVars>>
  PROVE  QueuePart' /\ JointPart'
<1> USE DEF SubmissionInv, SubmissionTypeOK, QueueTypeOK, QueuePart, JointPart, userVars,
            faultVars, receiverVars
<1>1. current # None /\ current \in Entries /\ current \in captured /\ inflight = None
  BY DEF DeleteAudio, ReopenSidecar, RewriteSidecar, CapturedFirst
<1>2. InflightIsCurrent'
  BY <1>1, ReceiverAssumption
  DEF InflightIsCurrent, DeleteAudio, ReopenSidecar, RewriteSidecar
<1>3. CASE DeleteAudio
  <2>1. QueuePart'
    BY <1>1, <1>3 DEF DeleteAudio, CapturedFirst, PassIsPending, VerdictFits
  <2>2. ConfirmedIsStored' /\ RestIsStored' /\ ParkedHasReason'
    BY <1>1, <1>3
    DEF DeleteAudio, ConfirmedIsStored, RestIsStored, ParkedHasReason, VerdictFits, Has
  <2>3. DeletedIsRecorded'
    BY <1>1, <1>3 DEF DeleteAudio, DeletedIsRecorded, VerdictFits
  <2>4. QED
    BY <1>2, <2>1, <2>2, <2>3
<1>4. CASE ReopenSidecar
  <2>1. QueuePart'
    BY <1>1, <1>4 DEF ReopenSidecar, CapturedFirst, PassIsPending, VerdictFits
  <2>2. ConfirmedIsStored' /\ RestIsStored' /\ ParkedHasReason' /\ DeletedIsRecorded'
    BY <1>1, <1>4
    DEF ReopenSidecar, ConfirmedIsStored, RestIsStored, ParkedHasReason, DeletedIsRecorded, Has
  <2>3. QED
    BY <1>2, <2>1, <2>2
<1>5. CASE RewriteSidecar
  <2>1. QueuePart'
    BY <1>1, <1>5 DEF RewriteSidecar, CapturedFirst, PassIsPending, VerdictFits
  <2>2. /\ phase = "rewriting" /\ phase' = "loop"
        /\ UNCHANGED <<audio, data, json, kills>>
        /\ sync' = [sync EXCEPT ![current] = verdict]
    BY <1>5 DEF RewriteSidecar
  <2>3. RestIsStored'
    BY <1>1, <2>2 DEF RestIsStored, ConfirmedIsStored, VerdictFits, Has
  <2>4. ConfirmedIsStored' /\ ParkedHasReason'
    BY <2>2 DEF ConfirmedIsStored, ParkedHasReason
  <2>5. DeletedIsRecorded'
    BY <1>1, <2>2 DEF DeletedIsRecorded, PassIsPending
  <2>6. QED
    BY <1>2, <2>1, <2>3, <2>4, <2>5
<1>6. QED
  BY <1>3, <1>4, <1>5

\* Backoff ends, the user comes, goes, and changes the secret.
LEMMA UserKeepsInv ==
  ASSUME SubmissionInv,
         Resume \/ Use \/ \E e \in Entries : Wait(e)
  PROVE  QueuePart' /\ JointPart'
<1> USE DEF SubmissionInv, SubmissionTypeOK, QueueTypeOK, QueuePart, JointPart
<1>1. /\ UNCHANGED <<captured, audio, sidecar, phase, pass, current, verdict, cfg>>
      /\ UNCHANGED <<handler, entryOf, header, data, json, inflight, kills>>
  BY DEF Resume, Use, Wait, SetReady, SaveSecret, BackoffExpires, fileVars, drainVars,
         userVars, faultVars, receiverVars
<1>2. \A d \in Entries :
        /\ sync[d] # "backoff" => sync'[d] = sync[d]
        /\ sync[d] = "backoff" => sync'[d] \in {"backoff", "pending"}
  BY DEF Resume, Use, Wait, SetReady, SaveSecret, BackoffExpires, fileVars
<1>3. CapturedFirst' /\ VerdictFits'
  BY <1>1, <1>2 DEF CapturedFirst, VerdictFits
<1>4. PassIsPending'
  BY <1>1, <1>2 DEF PassIsPending
<1>5. InflightIsCurrent' /\ ConfirmedIsStored' /\ ParkedHasReason'
  BY <1>1 DEF InflightIsCurrent, ConfirmedIsStored, ParkedHasReason, Has
<1>6. RestIsStored' /\ DeletedIsRecorded'
  BY <1>1, <1>2 DEF RestIsStored, DeletedIsRecorded, Has
<1>7. QED
  BY <1>3, <1>4, <1>5, <1>6

LEMMA AppFailureKeepsInv ==
  ASSUME SubmissionInv, AppFails
  PROVE  QueuePart' /\ JointPart'
<1> USE ReceiverAssumption
    DEF SubmissionInv, SubmissionTypeOK, QueueTypeOK, QueuePart, JointPart, AppFails, Kill,
        PassAborts, EnqueueFails, fileVars, drainVars, userVars, receiverVars
<1>1. kills' # 0 /\ UNCHANGED <<receiverVars, audio, sync, sidecar, cfg, captured>>
  OBVIOUS
<1>2. QueuePart'
  BY DEF CapturedFirst, PassIsPending, VerdictFits
<1>3. JointPart'
  BY <1>1 DEF InflightIsCurrent, ConfirmedIsStored, RestIsStored, DeletedIsRecorded,
              ParkedHasReason, Has
<1>4. QED
  BY <1>2, <1>3

-----------------------------------------------------------------------------
(* The invariant.                                                          *)

\* The request takes a free place and carries what the loop is at.
LEMMA SendKeepsInv ==
  ASSUME SubmissionInv, NEW i \in Attempts, Send(i)
  PROVE  ReceiverPart' /\ QueuePart' /\ JointPart'
<1> USE DEF SubmissionInv, SubmissionTypeOK, QueueTypeOK, ReceiverTypeOK, deviceVars, fileVars,
            drainVars, userVars, files, faultVars, Send
<1>1. PlacesMatch' /\ FilesMatchHandlers'
  BY DEF ReceiverPart, PlacesMatch, FilesMatchHandlers, Has
<1>2. TornHasWriter'
  BY DEF ReceiverPart, TornHasWriter
<1>3. QueuePart'
  BY DEF QueuePart, CapturedFirst, PassIsPending, VerdictFits
<1>4. InflightIsCurrent'
  BY DEF InflightIsCurrent
<1>5. ConfirmedIsStored' /\ RestIsStored' /\ DeletedIsRecorded' /\ ParkedHasReason'
  BY DEF JointPart, ConfirmedIsStored, RestIsStored, DeletedIsRecorded, ParkedHasReason, Has
<1>6. QED
  BY <1>1, <1>2, <1>3, <1>4, <1>5 DEF ReceiverPart, JointPart

\* The answer the device takes tells of the entry it is at.
LEMMA ReceiveKeepsInv ==
  ASSUME SubmissionInv, Receive
  PROVE  ReceiverPart' /\ QueuePart' /\ JointPart'
<1>1. PICK i \in Attempts :
        i = inflight /\ handler[i] = "answered" /\ Result(answer[i]) /\ Release(i)
  BY DEF Receive
<1>2. inflight' = None /\ UNCHANGED <<files, faultVars>>
  BY DEF Receive
<1>3. answer[i] \in {"ok", "retry", "refuse"} /\ entryOf[i] = current /\ header[i] = cfg
  BY <1>1 DEF SubmissionInv, SubmissionTypeOK, ReceiverTypeOK, ReceiverPart, PlacesMatch,
              JointPart, InflightIsCurrent
<1>4. /\ answer[i] = "ok" => Has(current)
      /\ answer[i] = "refuse" => cfg = "wrong" \/ current \in Rejected
  BY <1>3 DEF SubmissionInv, ReceiverPart, FilesMatchHandlers
<1>5. QueuePart' /\ JointPart'
  BY <1>1, <1>2, <1>3, <1>4, ResultKeepsInv DEF faultVars
<1>6. ReceiverPart'
  BY <1>1, <1>2, ReleaseKeepsReceiver DEF SubmissionInv, faultVars
<1>7. QED
  BY <1>5, <1>6

LEMMA SubmissionStepKeepsInv ==
  SubmissionInv /\ [SubmissionNext]_submissionVars => SubmissionInv'
<1> SUFFICES ASSUME SubmissionInv, [SubmissionNext]_submissionVars
             PROVE  SubmissionInv'
  OBVIOUS
<1>1. SubmissionTypeOK'
  BY SubmissionStepTypes DEF SubmissionInv
<1> DEFINE Kept == ReceiverPart' /\ QueuePart' /\ JointPart'
<1> HIDE DEF Kept
<1>2. ASSUME NEW e \in Entries, Capture(e) PROVE Kept
  BY <1>2, CaptureKeepsInv, DeviceStepKeepsReceiver DEF SubmissionInv, Capture, faultVars, Kept
<1>3. ASSUME NEW e \in Entries, Wait(e) PROVE Kept
  BY <1>3, UserKeepsInv, DeviceStepKeepsReceiver DEF SubmissionInv, Wait, faultVars, Kept
<1>4. ASSUME Resume \/ Use PROVE Kept
  BY <1>4, UserKeepsInv, DeviceStepKeepsReceiver
  DEF SubmissionInv, Resume, Use, faultVars, Kept
<1>5. ASSUME Begin \/ Drain PROVE Kept
  <2>1. UNCHANGED <<receiverVars, inflight, faultVars>>
    BY <1>5 DEF Begin, Drain
  <2>2. ReceiverPart'
    BY <2>1, DeviceStepKeepsReceiver DEF SubmissionInv, faultVars
  <2>3. CASE StartDrain \/ EndDrain \/ \E e \in Entries : Pick(e)
    BY <2>1, <2>2, <2>3, LoopKeepsInv DEF Kept
  <2>4. CASE DeleteAudio \/ ReopenSidecar \/ RewriteSidecar
    BY <2>1, <2>2, <2>4, SettleKeepsInv DEF Kept
  <2>5. QED
    BY <1>5, <2>3, <2>4 DEF Begin, Drain
<1>6. ASSUME NEW i \in Attempts, Send(i) PROVE Kept
  BY <1>6, SendKeepsInv DEF Kept
<1>7. ASSUME NEW i \in Attempts, Lose(i) PROVE Kept
  <2>1. ReceiverPart' /\ FilesGrow /\ RequestsKept
    BY <1>7, ReleaseKeepsReceiver DEF SubmissionInv, Lose, faultVars
  <2>2. QED
    BY <1>7, <2>1, ReceiverStepKeepsJoint DEF SubmissionInv, Lose, faultVars, Kept
<1>8. ASSUME NEW i \in Attempts, Serve(i) PROVE Kept
  <2>1. ReceiverPart' /\ FilesGrow /\ RequestsKept
    BY <1>8, HandleKeepsReceiver DEF SubmissionInv, Serve, faultVars
  <2>2. QED
    BY <1>8, <2>1, ReceiverStepKeepsJoint DEF SubmissionInv, Serve, faultVars, Kept
<1>9. ASSUME Receive PROVE Kept
  BY <1>9, ReceiveKeepsInv DEF Kept
<1>10. ASSUME Disconnect \/ GiveUp PROVE Kept
  <2>1. Result("retry") /\ inflight' = None /\ UNCHANGED <<receiverVars, failures, kills>>
    BY <1>10 DEF Disconnect, GiveUp, faultVars
  <2>2. QueuePart' /\ JointPart'
    BY <2>1, ResultKeepsInv DEF receiverVars, files
  <2>3. QED
    BY <2>1, <2>2, DeviceStepKeepsReceiver DEF SubmissionInv, Kept
<1>11. ASSUME ReceiverFails PROVE Kept
  <2>1. ReceiverPart' /\ FilesGrow /\ RequestsKept
    BY <1>11, FaultKeepsReceiver DEF SubmissionInv
  <2>2. QED
    BY <1>11, <2>1, ReceiverStepKeepsJoint DEF SubmissionInv, ReceiverFails, Kept
<1>12. ASSUME AppFails PROVE Kept
  BY <1>12, AppFailureKeepsInv, DeviceStepKeepsReceiver DEF SubmissionInv, AppFails, Kept
<1>13. ASSUME UNCHANGED submissionVars PROVE Kept
  <2>1. ReceiverPart'
    BY <1>13, DeviceStepKeepsReceiver DEF SubmissionInv, submissionVars, faultVars
  <2>2. FilesGrow /\ RequestsKept
    BY <1>13 DEF submissionVars, receiverVars, FilesGrow, RequestsKept
  <2>3. QED
    BY <1>13, <2>1, <2>2, ReceiverStepKeepsJoint
    DEF SubmissionInv, submissionVars, faultVars, Kept
<1>14. QED
  BY <1>1, <1>2, <1>3, <1>4, <1>5, <1>6, <1>7, <1>8, <1>9, <1>10, <1>11, <1>12, <1>13
  DEF SubmissionNext, SubmissionInv, Kept

\* All parts of the invariant hold throughout.
THEOREM SubmissionInvariant == SubmissionSafety => []SubmissionInv
<1>1. SubmissionInit => SubmissionInv
  BY SubmissionInitially
<1>2. SubmissionInv /\ [SubmissionNext]_submissionVars => SubmissionInv'
  BY SubmissionStepKeepsInv
<1>3. QED
  BY <1>1, <1>2, PTL DEF SubmissionSafety

-----------------------------------------------------------------------------
(* The properties.                                                         *)

\* The variables keep their types, and only a submitting loop awaits a request.
THEOREM SubmissionTypes == SubmissionSafety => []SubmissionTypeOK
<1>1. SubmissionInv => SubmissionTypeOK
  BY DEF SubmissionInv
<1>2. QED
  BY <1>1, SubmissionInvariant, PTL

\* Audio is deleted only after payload and sidecar have reached the corpus.
THEOREM DeletionFollowsReceipt == SubmissionSafety => []DeletedIsStored
<1>1. SubmissionInv => DeletedIsStored
  <2> SUFFICES ASSUME SubmissionInv, NEW e \in Entries, audio[e] = "deleted"
               PROVE  /\ data[e] # "absent" /\ json[e] # "absent"
                      /\ failures = 0 => \/ data[e] = "written" /\ json[e] = "written"
                                         \/ Rewriting(e)
    BY DEF DeletedIsStored
  <2>1. Has(e)
    BY DEF SubmissionInv, JointPart, RestIsStored
  <2>2. data[e] \in File /\ json[e] \in File
    BY DEF SubmissionInv, SubmissionTypeOK, ReceiverTypeOK
  <2>3. failures = 0 /\ (data[e] = "torn" \/ json[e] = "torn") => Rewriting(e)
    BY DEF SubmissionInv, ReceiverPart, TornHasWriter, Rewriting
  <2>4. QED
    BY <2>1, <2>2, <2>3 DEF Has, File
<1>2. QED
  BY <1>1, SubmissionInvariant, PTL

\* Synced means received, and the audio has left the device.
THEOREM SyncFollowsReceipt == SubmissionSafety => []SyncedIsReceived
<1>1. SubmissionInv => SyncedIsReceived
  BY DEF SubmissionInv, JointPart, RestIsStored, Has, SyncedIsReceived
<1>2. QED
  BY <1>1, SubmissionInvariant, PTL

\* Only the loop's rewrite of a sidecar and the end of a backoff change a retry
\* state, and both find one that is not final.
LEMMA SyncChanges ==
  ASSUME SubmissionInv, [SubmissionNext]_submissionVars
  PROVE  \/ UNCHANGED sync
         \/ RewriteSidecar
         \/ \E e \in Entries : BackoffExpires(e)
BY DEF SubmissionNext, submissionVars, deviceVars, fileVars, Capture, Enqueue, OpenSidecar,
       WriteSidecar, Wait, Begin, StartDrain, Drain, EndDrain, Pick, DeleteAudio,
       ReopenSidecar, Resume, Use, SetReady, SaveSecret, Send, Lose, Serve, Receive,
       Disconnect, GiveUp, Result, ReceiverFails, AppFails, Kill, PassAborts, EnqueueFails

\* No retry and no late answer takes a capture out of its final state.
THEOREM FinalStatesStay == SubmissionSafety => RestIsFinal
<1>1. SubmissionInv /\ [SubmissionNext]_submissionVars =>
        [\A e \in Entries : sync[e] \in {"parked", "synced"} => sync'[e] = sync[e]]_submissionVars
  <2> SUFFICES ASSUME SubmissionInv, [SubmissionNext]_submissionVars, NEW e \in Entries,
                      sync[e] \in {"parked", "synced"}
               PROVE  sync'[e] = sync[e]
    OBVIOUS
  <2> USE DEF SubmissionInv, SubmissionTypeOK, QueueTypeOK
  <2>1. CASE RewriteSidecar
    <3>1. current \in Entries /\ sync[current] = "pending"
      BY <2>1 DEF RewriteSidecar, QueuePart, PassIsPending
    <3>2. QED
      BY <2>1, <3>1 DEF RewriteSidecar
  <2>2. CASE \E d \in Entries : BackoffExpires(d)
    BY <2>2 DEF BackoffExpires
  <2>3. QED
    BY <2>1, <2>2, SyncChanges
<1>2. QED
  BY <1>1, SubmissionInvariant, PTL DEF RestIsFinal, SubmissionSafety

\* Under the right secret only the receiver's refusal, or a confirmation the app
\* failed to record, parks a capture.
THEOREM ParkingIsExplained == SubmissionSafety => ParkedIsExplained
<1>1. SubmissionInv /\ [SubmissionNext]_submissionVars =>
        [\A e \in Entries :
           sync[e] # "parked" /\ sync'[e] = "parked" /\ cfg = "right" /\ e \notin Rejected =>
             audio[e] = "deleted" /\ json[e] # "absent" /\ kills > 0]_submissionVars
  <2> SUFFICES ASSUME SubmissionInv, [SubmissionNext]_submissionVars, NEW e \in Entries,
                      sync[e] # "parked", sync'[e] = "parked", cfg = "right", e \notin Rejected
               PROVE  audio[e] = "deleted" /\ json[e] # "absent" /\ kills > 0
    OBVIOUS
  <2> USE DEF SubmissionInv, SubmissionTypeOK, QueueTypeOK
  <2>1. RewriteSidecar
    BY SyncChanges DEF BackoffExpires
  <2>2. e = current /\ verdict = "parked" /\ phase = "rewriting"
    BY <2>1 DEF RewriteSidecar
  <2>3. QED
    BY <2>2 DEF JointPart, ParkedHasReason
<1>2. QED
  BY <1>1, SubmissionInvariant, PTL DEF ParkedIsExplained, SubmissionSafety

\* What the device deletes or calls synced is in the corpus.
THEOREM NothingGetsLost == SubmissionSafety => []NothingIsLost
<1>1. DeletedIsStored /\ SyncedIsReceived => NothingIsLost
  BY DEF NothingIsLost
<1>2. QED
  BY <1>1, DeletionFollowsReceipt, SyncFollowsReceipt, PTL

\* The queue parks a capture only for cause and never takes a verdict back.
THEOREM VerdictsAreKept == SubmissionSafety => VerdictsStand
BY ParkingIsExplained, FinalStatesStay DEF VerdictsStand

-----------------------------------------------------------------------------
(* One delivery.                                                           *)

\* Faults do the only harm there is.
THEOREM FaultsDoTheHarm == SubmissionSafety => []HarmNeedsFault
<1>1. SubmissionInv => HarmNeedsFault
  <2> SUFFICES ASSUME SubmissionInv
               PROVE  HarmNeedsFault
    OBVIOUS
  <2>1. ASSUME kills = 0, NEW e \in Entries, sync[e] = "parked"
        PROVE  audio[e] # "deleted"
    BY <2>1 DEF SubmissionInv, JointPart, DeletedIsRecorded, QueuePart, PassIsPending,
                SubmissionTypeOK
  <2>2. ASSUME failures = 0, NEW e \in Entries, audio[e] = "deleted" \/ sync[e] = "synced"
        PROVE  \/ data[e] = "written" /\ json[e] = "written"
               \/ Rewriting(e)
    <3>1. Has(e)
      BY <2>2 DEF SubmissionInv, JointPart, RestIsStored
    <3>2. data[e] \in File /\ json[e] \in File
      BY DEF SubmissionInv, SubmissionTypeOK, ReceiverTypeOK
    <3>3. data[e] = "torn" \/ json[e] = "torn" => Rewriting(e)
      BY <2>2 DEF SubmissionInv, ReceiverPart, TornHasWriter, Rewriting
    <3>4. QED
      BY <3>1, <3>2, <3>3 DEF Has, File
  <2>3. QED
    BY <2>1, <2>2 DEF HarmNeedsFault, ConfirmedIsNeverParked
<1>2. QED
  BY <1>1, SubmissionInvariant, PTL

\* A request carries a capture of the queue, and a handler that has got past the
\* checks one that the receiver takes.
RequestsAreTaken ==
  \A i \in Attempts :
    /\ handler[i] # "free" => entryOf[i] \in captured
    /\ handler[i] \notin {"free", "sent", "answered"} => entryOf[i] \notin Rejected

LEMMA HandleStaysTaken ==
  ASSUME SubmissionInv, RequestsAreTaken, NEW i \in Attempts, Handle(i), UNCHANGED captured
  PROVE  RequestsAreTaken'
<1> USE DEF SubmissionInv, SubmissionTypeOK, ReceiverTypeOK, Goto, Answer
<1>1. entryOf' = entryOf
  BY DEF Handle, Refuse, AnswerDuplicate, AcceptNew, OpenData, WriteData, OpenJson, WriteJson
<1>2. \A j \in Attempts : j # i => handler'[j] = handler[j]
  BY DEF Handle, Refuse, AnswerDuplicate, AcceptNew, OpenData, WriteData, OpenJson, WriteJson
<1>3. handler[i] # "free"
  BY DEF Handle, Refuse, AnswerDuplicate, AcceptNew, OpenData, WriteData, OpenJson, WriteJson
<1>4. \/ handler'[i] = "answered"
      \/ handler[i] \notin {"free", "sent", "answered"}
      \/ entryOf[i] \notin Rejected
  BY DEF Handle, Refuse, AnswerDuplicate, AcceptNew, Acceptable, OpenData, WriteData, OpenJson,
         WriteJson
<1>5. QED
  BY <1>1, <1>2, <1>3, <1>4 DEF RequestsAreTaken

LEMMA StaysTaken ==
  ASSUME SubmissionInv, RequestsAreTaken, [SubmissionNext]_submissionVars
  PROVE  RequestsAreTaken'
<1> USE DEF SubmissionInv, SubmissionTypeOK, ReceiverTypeOK, QueueTypeOK
<1>1. captured \subseteq captured'
  BY DEF SubmissionNext, submissionVars, deviceVars, Capture, Enqueue, OpenSidecar, WriteSidecar,
         Wait, BackoffExpires, Begin, StartDrain, Drain, EndDrain, Pick, DeleteAudio, ReopenSidecar,
         RewriteSidecar, Resume, Use, SetReady, SaveSecret, Send, Lose, Serve, Receive, Disconnect,
         GiveUp, Result, ReceiverFails, AppFails, Kill, PassAborts, EnqueueFails
<1>2. CASE UNCHANGED <<handler, entryOf>>
  BY <1>1, <1>2 DEF RequestsAreTaken
<1>3. ASSUME NEW i \in Attempts, Send(i)
      PROVE  RequestsAreTaken'
  <2>1. current \in captured
    BY <1>3, EntryAssumption DEF Send, QueuePart, CapturedFirst
  <2>2. QED
    BY <1>1, <1>3, <2>1 DEF Send, RequestsAreTaken
<1>4. ASSUME NEW i \in Attempts, Serve(i)
      PROVE  RequestsAreTaken'
  BY <1>4, HandleStaysTaken DEF Serve, deviceVars
<1>5. ASSUME NEW i \in Attempts, Release(i)
      PROVE  RequestsAreTaken'
  BY <1>1, <1>5 DEF Release, RequestsAreTaken
<1>6. CASE ReceiverFails
  BY <1>1, <1>6 DEF ReceiverFails, Restart, Fail, Answer, RequestsAreTaken
<1>7. \/ UNCHANGED <<handler, entryOf>>
      \/ \E i \in Attempts : Send(i) \/ Serve(i) \/ Release(i)
      \/ ReceiverFails
  BY DEF SubmissionNext, submissionVars, receiverVars, Capture, Wait, Begin, Drain, Resume, Use,
         Lose, Receive, Disconnect, GiveUp, AppFails
<1>8. QED
  BY <1>2, <1>3, <1>4, <1>5, <1>6, <1>7

\* What the delivery is made of.
deliveryVars == <<captured, Corpus, Discarded, Outcome, cfg>>

\* A handler stores an accepted capture when it opens the sidecar.
LEMMA HandlerStores ==
  ASSUME SubmissionInv, RequestsAreTaken, NEW i \in Attempts, Serve(i)
  PROVE  (\E e \in Entries : Delivery!Store(e)) \/ UNCHANGED deliveryVars
<1> USE DEF SubmissionInv, SubmissionTypeOK, ReceiverTypeOK, QueueTypeOK
<1>1. Handle(i) /\ UNCHANGED <<captured, audio, sync, cfg>>
  BY DEF Serve, deviceVars, fileVars, drainVars
<1>2. Discarded' = Discarded /\ Outcome' = Outcome
  BY <1>1 DEF Discarded, Outcome
<1>3. handler[i] # "free" => entryOf[i] \in Entries
  BY DEF ReceiverPart, PlacesMatch
<1>4. /\ \A e \in Entries : json[e] # "absent" => data[e] # "absent"
      /\ handler[i] \in {"data_open", "data_written", "json_open"} => data[entryOf[i]] # "absent"
      /\ handler[i] = "json_open" => json[entryOf[i]] # "absent"
  BY DEF ReceiverPart, FilesMatchHandlers
<1>5. CASE UNCHANGED files
  BY <1>1, <1>2, <1>5 DEF files, Corpus, deliveryVars
<1>6. CASE OpenData(i) \/ WriteData(i)
  <2>1. /\ json' = json /\ entryOf[i] \in Entries
        /\ \E w \in {"torn", "written"} : data' = [data EXCEPT ![entryOf[i]] = w]
    BY <1>3, <1>6 DEF OpenData, WriteData
  <2>2. Corpus' = Corpus
    BY <1>4, <2>1 DEF Corpus
  <2>3. QED
    BY <1>1, <1>2, <2>2 DEF deliveryVars
<1>7. CASE OpenJson(i)
  <2> DEFINE e == entryOf[i]
  <2>1. /\ data' = data /\ json' = [json EXCEPT ![e] = "torn"]
        /\ e \in Entries /\ data[e] # "absent" /\ e \in captured \ Rejected
    BY <1>3, <1>4, <1>7 DEF OpenJson, RequestsAreTaken
  <2> HIDE DEF e
  <2>2. Corpus' = Corpus \cup {e}
    BY <2>1 DEF Corpus
  <2>3. CASE e \in Corpus
    BY <1>1, <1>2, <2>2, <2>3 DEF deliveryVars
  <2>4. CASE e \notin Corpus
    <3>1. Delivery!Store(e)
      BY <1>1, <1>2, <2>1, <2>2, <2>4 DEF Delivery!Store
    <3>2. QED
      BY <2>1, <3>1
  <2>5. QED
    BY <2>3, <2>4
<1>8. CASE WriteJson(i)
  <2>1. /\ data' = data /\ entryOf[i] \in Entries /\ json' = [json EXCEPT ![entryOf[i]] = "written"]
        /\ json[entryOf[i]] # "absent"
    BY <1>3, <1>4, <1>8 DEF WriteJson
  <2>2. Corpus' = Corpus
    BY <2>1 DEF Corpus
  <2>3. QED
    BY <1>1, <1>2, <2>2 DEF deliveryVars
<1>9. QED
  BY <1>1, <1>5, <1>6, <1>7, <1>8 DEF Handle, Refuse, AnswerDuplicate, AcceptNew

\* The loop deletes audio that is stored, and writes verdicts that have a cause.
LEMMA LoopDelivers ==
  ASSUME SubmissionInv, DeleteAudio \/ RewriteSidecar, UNCHANGED receiverVars
  PROVE  \/ \E e \in Entries : Delivery!Discard(e) \/ Delivery!Confirm(e) \/ Delivery!Park(e)
         \/ UNCHANGED deliveryVars
<1> USE DEF SubmissionInv, SubmissionTypeOK, QueueTypeOK
<1>1. current \in Entries /\ current \in captured
  BY EntryAssumption DEF DeleteAudio, RewriteSidecar, QueuePart, CapturedFirst
<1>2. UNCHANGED <<captured, cfg, Corpus>>
  BY DEF DeleteAudio, RewriteSidecar, receiverVars, Corpus
<1>3. CASE DeleteAudio
  <2>1. /\ sync' = sync /\ audio' = [audio EXCEPT ![current] = IF @ = "queued" THEN "deleted" ELSE @]
        /\ phase = "confirmed"
    BY <1>3 DEF DeleteAudio
  <2>2. current \in Corpus
    BY <1>1, <2>1 DEF QueuePart, VerdictFits, JointPart, ConfirmedIsStored, Has, Corpus
  <2>3. Outcome' = Outcome
    BY <2>1 DEF Outcome
  <2>4. CASE audio[current] = "queued"
    <3>1. current \notin Notes /\ current \notin Discarded
      BY <1>1, <2>4 DEF QueuePart, CapturedFirst, Discarded
    <3>2. Discarded' = Discarded \cup {current}
      BY <1>1, <2>1, <2>4 DEF Discarded
    <3>3. Delivery!Discard(current)
      BY <1>2, <2>2, <2>3, <3>1, <3>2 DEF Delivery!Discard
    <3>4. QED
      BY <1>1, <3>3
  <2>5. CASE audio[current] # "queued"
    <3>1. audio' = audio
      BY <2>1, <2>5
    <3>2. QED
      BY <1>2, <2>3, <3>1 DEF Discarded, deliveryVars
  <2>6. QED
    BY <2>4, <2>5
<1>4. CASE RewriteSidecar
  <2>1. audio' = audio /\ sync' = [sync EXCEPT ![current] = verdict] /\ phase = "rewriting"
    BY <1>4 DEF RewriteSidecar
  <2>2. Discarded' = Discarded
    BY <2>1 DEF Discarded
  <2>3. sync[current] = "pending"
    BY <1>1, EntryAssumption DEF QueuePart, PassIsPending
  <2>4. Outcome[current] = "pending"
    BY <1>1, <2>3 DEF Outcome
  <2>5. CASE verdict \in {"pending", "backoff"}
    <3>1. Outcome' = Outcome
      BY <2>1, <2>3, <2>5 DEF Outcome
    <3>2. QED
      BY <1>2, <2>2, <3>1 DEF deliveryVars
  <2>6. CASE verdict \in {"synced", "parked"}
    <3>1. Outcome' = [Outcome EXCEPT ![current] = verdict]
      BY <1>1, <2>1, <2>6 DEF Outcome
    <3>2. CASE verdict = "synced"
      <4>1. current \in Corpus
        BY <1>1, <2>1, <3>2 DEF JointPart, ConfirmedIsStored, Has, Corpus
      <4>2. audio[current] # "queued"
        BY <2>1, <3>2 DEF QueuePart, VerdictFits
      <4>3. current \in Notes \cup Discarded
        BY <1>1, <4>2 DEF QueuePart, CapturedFirst, Discarded
      <4>4. Delivery!Confirm(current)
        BY <1>2, <2>2, <2>4, <3>1, <3>2, <4>1, <4>3 DEF Delivery!Confirm, Delivery!Settle
      <4>5. QED
        BY <1>1, <4>4
    <3>3. CASE verdict = "parked"
      <4>1. cfg # "right" \/ current \in Rejected \/ current \in Discarded
        BY <1>1, <2>1, <3>3 DEF JointPart, ParkedHasReason, Discarded
      <4>2. Delivery!Park(current)
        BY <1>1, <1>2, <2>2, <2>4, <3>1, <3>3, <4>1 DEF Delivery!Park, Delivery!Settle
      <4>3. QED
        BY <1>1, <4>2
    <3>4. QED
      BY <2>6, <3>2, <3>3
  <2>7. QED
    BY <2>5, <2>6 DEF SyncState
<1>5. QED
  BY <1>3, <1>4

\* A capture is stored once for good before its audio goes and before it is called
\* synced, and its verdict is justified and final: under any number of lost, late
\* and repeated requests, of failures and of kills.
THEOREM CapturesAreDelivered == SubmissionSafety => ImplementsDelivery
<1>1. SubmissionInit => Delivery!AbsInit /\ RequestsAreTaken
  BY DEF SubmissionInit, QueueInit, ReceiverInit, Delivery!AbsInit, RequestsAreTaken, Corpus,
         Discarded, Outcome
<1>2. SubmissionInv /\ RequestsAreTaken /\ [SubmissionNext]_submissionVars
        => RequestsAreTaken' /\ [Delivery!AbsNext]_(Delivery!absVars)
  <2> SUFFICES ASSUME SubmissionInv, RequestsAreTaken, [SubmissionNext]_submissionVars
               PROVE  Delivery!AbsNext \/ UNCHANGED deliveryVars
    BY StaysTaken DEF Delivery!absVars, deliveryVars
  <2>1. ASSUME NEW e \in Entries, Enqueue(e), UNCHANGED receiverVars
        PROVE  Delivery!AbsNext
    <3>1. /\ e \notin captured /\ captured' = captured \cup {e} /\ UNCHANGED <<sync, cfg, data, json>>
          /\ audio' = [audio EXCEPT ![e] = IF e \in Notes THEN "none" ELSE "queued"]
      BY <2>1 DEF Enqueue, drainVars, receiverVars
    <3>2. audio[e] = "none" /\ audio \in [Entries -> {"none", "queued", "deleted"}]
      BY <3>1 DEF SubmissionInv, QueuePart, CapturedFirst, SubmissionTypeOK, QueueTypeOK
    <3>3. Discarded' = Discarded /\ Corpus' = Corpus /\ Outcome' = Outcome
      BY <3>1, <3>2 DEF Discarded, Corpus, Outcome
    <3>4. Delivery!Take(e)
      BY <3>1, <3>3 DEF Delivery!Take
    <3>5. QED
      BY <3>4 DEF Delivery!AbsNext
  <2>2. CASE Begin
    <3>1. UNCHANGED <<captured, audio, sync, data, json>>
      BY <2>2 DEF Begin, StartDrain, fileVars, receiverVars
    <3>2. UNCHANGED <<captured, Corpus, Discarded, Outcome>>
      BY <3>1 DEF Corpus, Discarded, Outcome
    <3>3. QED
      BY <3>2 DEF Delivery!AbsNext, Delivery!Trust
  <2>3. CASE Drain
    <3>1. CASE DeleteAudio \/ RewriteSidecar
      BY <2>3, <3>1, LoopDelivers DEF Drain, Delivery!AbsNext
    <3>2. CASE EndDrain \/ (\E e \in Entries : Pick(e)) \/ ReopenSidecar
      <4>1. UNCHANGED <<captured, audio, sync, data, json, cfg>>
        BY <2>3, <3>2 DEF Drain, EndDrain, Pick, ReopenSidecar, fileVars, receiverVars
      <4>2. QED
        BY <4>1 DEF Corpus, Discarded, Outcome, deliveryVars
    <3>3. QED
      BY <2>3, <3>1, <3>2 DEF Drain
  <2>4. ASSUME NEW e \in Entries, Wait(e)
        PROVE  UNCHANGED deliveryVars
    <3>1. /\ UNCHANGED <<captured, audio, data, json, cfg>> /\ sync[e] = "backoff"
          /\ sync' = [sync EXCEPT ![e] = "pending"]
      BY <2>4 DEF Wait, BackoffExpires, receiverVars, drainVars
    <3>2. Outcome' = Outcome
      BY <3>1 DEF Outcome, SubmissionInv, SubmissionTypeOK, QueueTypeOK
    <3>3. QED
      BY <3>1, <3>2 DEF Corpus, Discarded, deliveryVars
  <2>5. ASSUME NEW i \in Attempts, Serve(i)
        PROVE  Delivery!AbsNext \/ UNCHANGED deliveryVars
    BY <2>5, HandlerStores DEF Delivery!AbsNext
  <2>6. CASE UNCHANGED <<captured, audio, sync, data, json, cfg>>
    BY <2>6 DEF Corpus, Discarded, Outcome, deliveryVars
  <2>7. \/ \E e \in Entries : Enqueue(e) /\ UNCHANGED receiverVars
        \/ Begin \/ Drain
        \/ \E e \in Entries : Wait(e)
        \/ \E i \in Attempts : Serve(i)
        \/ UNCHANGED <<captured, audio, sync, data, json, cfg>>
    BY DEF SubmissionNext, submissionVars, receiverVars, deviceVars, fileVars, drainVars, files,
           Capture, OpenSidecar, WriteSidecar, Resume, Use, SetReady, SaveSecret, Send, Lose,
           Release, Receive, Disconnect, GiveUp, Result, ReceiverFails, Restart, Fail, AppFails,
           Kill, PassAborts, EnqueueFails
  <2>8. QED
    BY <2>1, <2>2, <2>3, <2>4, <2>5, <2>6, <2>7
<1>3. QED
  BY <1>1, <1>2, SubmissionInvariant, PTL
  DEF SubmissionSafety, ImplementsDelivery, Delivery!AbsSpec
=============================================================================
