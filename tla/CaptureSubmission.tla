------------------------- MODULE CaptureSubmission -------------------------
(***************************************************************************)
(* The capture queue of one device and its receiver, joined by requests    *)
(* that are lost, answered late, or given up by the device while their     *)
(* handler runs on (app/lib/bench/submit_client.dart).                     *)
(***************************************************************************)
EXTENDS CaptureQueue, BenchReceiver, Naturals

CONSTANTS
  MaxTimeouts,   \* bound: requests the device gives up
  MaxFailures,   \* bound: 429 and 500 answers and restarts of the receiver
  MaxKills,      \* bound: kills of the app and file errors in it
  MaxFaults      \* bound: faults of the three kinds together

ASSUME SubmissionAssumption ==
  MaxTimeouts \in Nat /\ MaxFailures \in Nat /\ MaxKills \in Nat /\ MaxFaults \in Nat

VARIABLES
  inflight,   \* the request whose answer the device awaits
  timeouts, failures, kills   \* how often each kind of fault happened

faultVars == <<timeouts, failures, kills>>
submissionVars == <<deviceVars, receiverVars, inflight, faultVars>>

SubmissionInit ==
  /\ QueueInit /\ ReceiverInit
  /\ inflight = None
  /\ timeouts = 0 /\ failures = 0 /\ kills = 0

\* Room for another fault within the bound.
FaultsLeft == timeouts + failures + kills < MaxFaults

-----------------------------------------------------------------------------
(* The network.                                                            *)

\* client.submit posts the entry.
Send(i) ==
  /\ phase = "submitting" /\ inflight = None
  /\ handler[i] = "free"
  /\ inflight' = i
  /\ handler' = [handler EXCEPT ![i] = "sent"]
  /\ entryOf' = [entryOf EXCEPT ![i] = current]
  /\ header' = [header EXCEPT ![i] = cfg]
  /\ UNCHANGED <<answer, files, deviceVars, faultVars>>

Receive ==
  /\ phase = "submitting"
  /\ \E i \in Attempts :
       /\ i = inflight /\ handler[i] = "answered"
       /\ Result(answer[i])
       /\ Release(i)
  /\ inflight' = None
  /\ UNCHANGED <<files, faultVars>>

\* The connection breaks with the receiver's restart.
Disconnect ==
  /\ phase = "submitting"
  /\ \E i \in Attempts : i = inflight /\ handler[i] = "free"
  /\ Result("retry")
  /\ inflight' = None
  /\ UNCHANGED <<receiverVars, faultVars>>

\* No connection, or no answer in time: the device gives the request up.
GiveUp ==
  /\ phase = "submitting" /\ timeouts < MaxTimeouts /\ FaultsLeft
  /\ timeouts' = timeouts + 1
  /\ Result("retry")
  /\ inflight' = None
  /\ UNCHANGED <<receiverVars, failures, kills>>

\* A request nobody awaits is lost on its way, or its answer is.
Lose(i) ==
  /\ i # inflight /\ handler[i] \in {"sent", "answered"}
  /\ Release(i)
  /\ UNCHANGED <<files, deviceVars, inflight, faultVars>>

-----------------------------------------------------------------------------
(* The steps of device and receiver.                                       *)

Capture(e) ==
  /\ Enqueue(e) \/ OpenSidecar(e) \/ WriteSidecar(e)
  /\ UNCHANGED <<receiverVars, inflight, faultVars>>

Begin ==
  /\ StartDrain
  /\ UNCHANGED <<receiverVars, inflight, faultVars>>

Drain ==
  /\ EndDrain \/ (\E e \in Entries : Pick(e)) \/ DeleteAudio \/ ReopenSidecar
       \/ RewriteSidecar
  /\ UNCHANGED <<receiverVars, inflight, faultVars>>

Wait(e) ==
  /\ BackoffExpires(e)
  /\ UNCHANGED <<receiverVars, inflight, faultVars>>

Resume ==
  /\ SetReady(TRUE)
  /\ UNCHANGED <<receiverVars, inflight, faultVars>>

Use ==
  /\ SetReady(FALSE) \/ (\E s \in Secrets : SaveSecret(s))
  /\ UNCHANGED <<receiverVars, inflight, faultVars>>

Serve(i) ==
  /\ Handle(i)
  /\ UNCHANGED <<deviceVars, inflight, faultVars>>

ReceiverFails ==
  /\ failures < MaxFailures /\ FaultsLeft
  /\ failures' = failures + 1
  /\ Restart \/ \E i \in Attempts : Fail(i)
  /\ UNCHANGED <<deviceVars, inflight, timeouts, kills>>

AppFails ==
  /\ kills < MaxKills /\ FaultsLeft
  /\ kills' = kills + 1
  /\ \/ Kill /\ inflight' = None
     \/ PassAborts /\ inflight = None /\ UNCHANGED inflight
     \/ (\E e \in Entries : EnqueueFails(e)) /\ UNCHANGED inflight
  /\ UNCHANGED <<receiverVars, timeouts, failures>>

SubmissionNext ==
  \/ \E e \in Entries : Capture(e) \/ Wait(e)
  \/ Begin \/ Drain \/ Resume \/ Use
  \/ \E i \in Attempts : Send(i) \/ Lose(i) \/ Serve(i)
  \/ Receive \/ Disconnect \/ GiveUp
  \/ ReceiverFails \/ AppFails

SubmissionSafety == SubmissionInit /\ [][SubmissionNext]_submissionVars

\* A pass begins at every return to the foreground and at every tick in it,
\* so that an app used again and again does drain, however short its visits.
SubmissionFairness ==
  /\ \A e \in Entries :
       /\ WF_submissionVars((OpenSidecar(e) \/ WriteSidecar(e)) /\ Capture(e))
       /\ WF_submissionVars(Wait(e))
  /\ SF_submissionVars(Begin)
  /\ WF_submissionVars(Drain)
  /\ WF_submissionVars(Resume)
  /\ WF_submissionVars(\E i \in Attempts : Send(i))
  /\ WF_submissionVars(Receive \/ Disconnect)
  /\ \A i \in Attempts : WF_submissionVars(Serve(i) \/ Lose(i))

SubmissionSpec == SubmissionSafety /\ SubmissionFairness
-----------------------------------------------------------------------------
(* Properties.                                                             *)

\* Device, receiver and network variables have their types; a request is under
\* way exactly when its place is taken, and only a submitting loop awaits one.
SubmissionTypeOK ==
  /\ QueueTypeOK /\ ReceiverTypeOK
  /\ inflight \in Attempts \cup {None}
  /\ timeouts \in Nat /\ failures \in Nat /\ kills \in Nat
  /\ current = None <=> phase \in {"off", "loop"}
  /\ inflight # None => phase = "submitting"

Rewriting(e) == \E i \in Attempts : entryOf[i] = e /\ handler[i] \in {"data_open", "json_open"}

\* The device deletes the audio of a capture only when the receiver has its
\* payload and its corpus sidecar, and unless the receiver failed in some
\* write both are whole, but for a late handler that writes them once more.
DeletedIsStored ==
  \A e \in Entries : audio[e] = "deleted" =>
    /\ data[e] # "absent" /\ json[e] # "absent"
    /\ failures = 0 =>
         \/ data[e] = "written" /\ json[e] = "written"
         \/ Rewriting(e)

\* A capture the queue calls synced has been received, and its audio is no
\* longer on the device (zero retention after the confirmation).
SyncedIsReceived ==
  \A e \in Entries : sync[e] = "synced" =>
    json[e] # "absent" /\ data[e] # "absent" /\ audio[e] # "queued"

\* A pass with the right secret parks a capture only when the receiver refuses
\* it, or when its audio was deleted on a confirmation whose record an app
\* failure lost: then the receiver has it. Timeouts, 429 and 500 never park.
ParkedIsExplained ==
  [][\A e \in Entries :
       sync[e] # "parked" /\ sync'[e] = "parked" /\ cfg = "right" /\ e \notin Rejected =>
         audio[e] = "deleted" /\ json[e] # "absent" /\ kills > 0]_submissionVars

\* Synced and parked are final: no pass, however stale its list of entries, and
\* no late answer changes the retry state of such a capture again.
RestIsFinal ==
  [][\A e \in Entries : sync[e] \in {"parked", "synced"} => sync'[e] = sync[e]]_submissionVars

\* What the device gives up for good, by deleting or by calling it synced, the
\* receiver has.
NothingIsLost == DeletedIsStored /\ SyncedIsReceived

\* The queue gives a capture up only for cause, and does not return to one it is
\* done with.
VerdictsStand == ParkedIsExplained /\ RestIsFinal

\* The app failed while it wrote the sidecar of e, which is unreadable or
\* absent ever since.
Stranded(e) ==
  kills > 0 /\ e \notin enqueuing /\ current # e /\ sidecar[e] # "written"

\* Once faults cease there comes a time from which every capture taken is, and
\* stays, synced or parked, or stranded by a failure of the app: whatever requests
\* were lost, answered late or given up, nothing is retried for ever.
EveryCaptureSettles ==
  <>[](\A e \in captured : sync[e] \in {"parked", "synced"} \/ Stranded(e))

\* What app/lib/bench/capture_queue.dart says of is_synced: "flipped to 1 on
\* confirmed receipt". A capture whose audio was deleted on the confirmation
\* does not end as parked.
ConfirmedIsNeverParked ==
  \A e \in Entries : sync[e] = "parked" => audio[e] # "deleted"

\* What the bench protocol says of the corpus, that it retains the audio: the
\* files of a synced capture are whole once no handler works on them.
SyncedIsWhole ==
  \A e \in Entries :
    sync[e] = "synced" /\ (\A i \in Attempts : entryOf[i] # e) =>
      data[e] = "written" /\ json[e] = "written"

\* It takes a failure of the app to park a capture whose receipt was confirmed, and
\* one of the receiver to leave a file torn of a capture the device has given up:
\* lost, late and repeated requests, and handlers side by side, do neither.
HarmNeedsFault ==
  /\ kills = 0 => ConfirmedIsNeverParked
  /\ failures = 0 =>
       \A e \in Entries : audio[e] = "deleted" \/ sync[e] = "synced" =>
         \/ data[e] = "written" /\ json[e] = "written"
         \/ Rewriting(e)

\* What the delivery of captures is seen to have come to.
Corpus == {e \in Entries : data[e] # "absent" /\ json[e] # "absent"}
Discarded == {e \in Entries : audio[e] = "deleted"}
Outcome == [e \in Entries |-> IF sync[e] = "backoff" THEN "pending" ELSE sync[e]]
Delivery == INSTANCE CaptureDelivery WITH
  taken <- captured, stored <- Corpus, discarded <- Discarded, outcome <- Outcome,
  trusted <- (cfg = "right")

\* Passes, requests, retries and handlers amount to one delivery of a capture that
\* precedes its deletion and its verdict; a verdict has its cause, and is final.
ImplementsDelivery == Delivery!AbsSpec
=============================================================================
