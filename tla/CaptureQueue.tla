---------------------------- MODULE CaptureQueue ----------------------------
(***************************************************************************)
(* app/lib/bench/capture_queue.dart: the queue on the device.  An entry is *)
(* a directory with an audio file (unless it is a text note) and a JSON    *)
(* sidecar that holds its retry state; a drain loop hands the pending ones *)
(* to the submit client.  Files outlive the app, everything else does not. *)
(*                                                                         *)
(* writeAsString first truncates the sidecar, then fills it: an app killed *)
(* in between leaves a sidecar that listEntries cannot read.               *)
(***************************************************************************)
EXTENDS CaptureEntry

VARIABLES
  captured,    \* entries whose enqueue has begun
  enqueuing,   \* entries whose enqueue is running
  audio,       \* audio[e]: "none", "queued" or "deleted"
  sidecar,     \* sidecar[e]: "absent", "torn" or "written"
  sync,        \* sync[e]: what the sidecar of e said when last whole
  phase,       \* of the drain loop; "off" is _draining = false
  pass,        \* due entries of the running pass that are still to come
  current,     \* the entry the loop is at
  verdict,     \* what _submitEntry is about to write
  cfg,         \* the secret that the running pass read from the settings
  ready,       \* in the foreground, with receiver and secret set
  secret       \* the secret in the settings

fileVars == <<audio, sidecar, sync>>
drainVars == <<phase, pass, current, verdict, cfg>>
userVars == <<ready, secret>>
deviceVars == <<captured, enqueuing, fileVars, drainVars, userVars>>

\* "pending" is due, "backoff" waits for next_attempt_at, "parked" has a
\* failure that is not retryable, "synced" has is_synced = 1.
SyncState == {"pending", "backoff", "parked", "synced"}
Phase == {"off", "loop", "submitting", "confirmed", "settling", "rewriting"}

QueueTypeOK ==
  /\ captured \subseteq Entries /\ enqueuing \subseteq captured
  /\ audio \in [Entries -> {"none", "queued", "deleted"}]
  /\ sidecar \in [Entries -> {"absent", "torn", "written"}]
  /\ sync \in [Entries -> SyncState]
  /\ phase \in Phase
  /\ pass \subseteq Entries
  /\ current \in Entries \cup {None}
  /\ verdict \in SyncState
  /\ cfg \in Secrets
  /\ ready \in BOOLEAN
  /\ secret \in Secrets

QueueInit ==
  /\ captured = {} /\ enqueuing = {}
  /\ audio = [e \in Entries |-> "none"]
  /\ sidecar = [e \in Entries |-> "absent"]
  /\ sync = [e \in Entries |-> "pending"]
  /\ phase = "off" /\ pass = {} /\ current = None /\ verdict = "pending"
  /\ ready = TRUE
  /\ secret \in Secrets /\ cfg = secret

-----------------------------------------------------------------------------
(* Enqueue.                                                                *)

\* enqueueAudio and enqueueText up to the sidecar: the audio file is renamed
\* into the entry's directory.
Enqueue(e) ==
  /\ e \notin captured
  /\ captured' = captured \cup {e}
  /\ enqueuing' = enqueuing \cup {e}
  /\ audio' = [audio EXCEPT ![e] = IF e \in Notes THEN "none" ELSE "queued"]
  /\ UNCHANGED <<sidecar, sync, drainVars, userVars>>

OpenSidecar(e) ==
  /\ e \in enqueuing /\ sidecar[e] = "absent"
  /\ sidecar' = [sidecar EXCEPT ![e] = "torn"]
  /\ UNCHANGED <<captured, enqueuing, audio, sync, drainVars, userVars>>

WriteSidecar(e) ==
  /\ e \in enqueuing /\ sidecar[e] = "torn"
  /\ sidecar' = [sidecar EXCEPT ![e] = "written"]
  /\ enqueuing' = enqueuing \ {e}
  /\ UNCHANGED <<captured, audio, sync, drainVars, userVars>>

\* A file operation throws: the capture stays as far as it has come.
EnqueueFails(e) ==
  /\ e \in enqueuing
  /\ enqueuing' = enqueuing \ {e}
  /\ UNCHANGED <<captured, fileVars, drainVars, userVars>>

-----------------------------------------------------------------------------
(* Drain.                                                                  *)

\* Mutant: parked entries are tried again.
DueOrParked == {e \in Entries : sidecar[e] = "written" /\ sync[e] \in {"pending", "parked"}}

\* Mutant: is_synced is not looked at.
DueOrSynced == {e \in Entries : sidecar[e] = "written" /\ sync[e] \in {"pending", "synced"}}

\* What listEntries returns, less the entries drainOnce passes over.
Due == {e \in Entries : sidecar[e] = "written" /\ sync[e] = "pending"}

\* The timer's tick, a return to the foreground, a capture just queued.
StartDrain ==
  /\ phase = "off" /\ ready
  /\ phase' = "loop"
  /\ pass' = Due
  /\ cfg' = secret
  /\ UNCHANGED <<captured, enqueuing, fileVars, current, verdict, userVars>>

EndDrain ==
  /\ phase = "loop" /\ pass = {}
  /\ phase' = "off"
  /\ UNCHANGED <<captured, enqueuing, fileVars, pass, current, verdict, cfg, userVars>>

\* An audio entry without its file fails before anything is sent.
HasPayload(e) == e \in Notes \/ audio[e] = "queued"

Pick(e) ==
  /\ phase = "loop" /\ e \in pass
  /\ pass' = pass \ {e}
  /\ current' = e
  /\ phase' = IF HasPayload(e) THEN "submitting" ELSE "settling"
  /\ verdict' = IF HasPayload(e) THEN verdict ELSE "parked"
  /\ UNCHANGED <<captured, enqueuing, fileVars, cfg, userVars>>

\* Mutant: the result itself is written into the sidecar.
ResultAsIs(result) == result

\* _mapResponse and what _submitEntry makes of it.
VerdictOn(result) ==
  IF result = "ok" THEN "synced" ELSE IF result = "retry" THEN "backoff" ELSE "parked"

\* The result of client.submit: "ok", "retry" or "refuse".
Result(result) ==
  /\ phase = "submitting"
  /\ phase' = IF result = "ok" THEN "confirmed" ELSE "settling"
  /\ verdict' = VerdictOn(result)
  /\ UNCHANGED <<captured, enqueuing, fileVars, pass, current, cfg, userVars>>

\* On confirmed receipt the audio goes first, the sidecar follows.
DeleteAudio ==
  /\ phase = "confirmed"
  /\ phase' = "settling"
  /\ audio' = [audio EXCEPT ![current] = IF @ = "queued" THEN "deleted" ELSE @]
  /\ UNCHANGED <<captured, enqueuing, sidecar, sync, pass, current, verdict, cfg,
                 userVars>>

ReopenSidecar ==
  /\ phase = "settling"
  /\ phase' = "rewriting"
  /\ sidecar' = [sidecar EXCEPT ![current] = "torn"]
  /\ UNCHANGED <<captured, enqueuing, audio, sync, pass, current, verdict, cfg, userVars>>

RewriteSidecar ==
  /\ phase = "rewriting"
  /\ phase' = "loop"
  /\ sidecar' = [sidecar EXCEPT ![current] = "written"]
  /\ sync' = [sync EXCEPT ![current] = verdict]
  /\ current' = None
  /\ verdict' = "pending"
  /\ UNCHANGED <<captured, enqueuing, audio, pass, cfg, userVars>>

\* A file operation of _submitEntry throws, which ends the pass.
PassAborts ==
  /\ phase \in {"submitting", "confirmed", "settling", "rewriting"}
  /\ phase' = "off"
  /\ pass' = {} /\ current' = None /\ verdict' = "pending"
  /\ UNCHANGED <<captured, enqueuing, fileVars, cfg, userVars>>

-----------------------------------------------------------------------------
(* Time, the user and the operating system.                                *)

\* next_attempt_at of e is reached.
BackoffExpires(e) ==
  /\ sync[e] = "backoff"
  /\ sync' = [sync EXCEPT ![e] = "pending"]
  /\ UNCHANGED <<captured, enqueuing, audio, sidecar, drainVars, userVars>>

\* setForeground and saveSettings; neither stops a running pass.
SetReady(r) ==
  /\ ready # r /\ ready' = r
  /\ UNCHANGED <<captured, enqueuing, fileVars, drainVars, secret>>

SaveSecret(s) ==
  /\ secret # s /\ secret' = s
  /\ UNCHANGED <<captured, enqueuing, fileVars, drainVars, ready>>

\* The app is killed, and opened again.
Kill ==
  /\ enqueuing' = {}
  /\ phase' = "off" /\ pass' = {} /\ current' = None /\ verdict' = "pending"
  /\ UNCHANGED <<captured, fileVars, cfg, userVars>>
=============================================================================
