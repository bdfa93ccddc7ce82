-------------------------- MODULE CaptureDelivery --------------------------
(***************************************************************************)
(* What the capture queue and the receiver promise together, with no       *)
(* requests, files, passes and retries in sight: a capture reaches the     *)
(* corpus for good, only then does its audio leave the device, only then   *)
(* is it called synced, and what it is called in the end it stays.         *)
(***************************************************************************)
CONSTANTS Entries, Notes, Rejected

VARIABLES
  taken,      \* captures the queue has taken
  stored,     \* captures in the corpus
  discarded,  \* captures whose audio the device has deleted
  outcome,    \* outcome[e]: "pending", "synced" or "parked"
  trusted     \* the device goes by the secret of the receiver

absVars == <<taken, stored, discarded, outcome, trusted>>

AbsInit ==
  /\ taken = {} /\ stored = {} /\ discarded = {}
  /\ outcome = [e \in Entries |-> "pending"]
  /\ trusted \in BOOLEAN

Take(e) ==
  /\ e \notin taken
  /\ taken' = taken \cup {e}
  /\ UNCHANGED <<stored, discarded, outcome, trusted>>

Store(e) ==
  /\ e \in taken \ (Rejected \cup stored)
  /\ stored' = stored \cup {e}
  /\ UNCHANGED <<taken, discarded, outcome, trusted>>

Discard(e) ==
  /\ e \in stored \ (Notes \cup discarded)
  /\ discarded' = discarded \cup {e}
  /\ UNCHANGED <<taken, stored, outcome, trusted>>

Settle(e, as) ==
  /\ outcome[e] = "pending"
  /\ outcome' = [outcome EXCEPT ![e] = as]
  /\ UNCHANGED <<taken, stored, discarded, trusted>>

\* Zero retention: the audio is gone by then.
Confirm(e) == e \in stored /\ e \in Notes \cup discarded /\ Settle(e, "synced")

\* The receiver does not take the device or the capture; or the audio is gone, and
\* with it the means to ask again.
Park(e) ==
  /\ e \in taken
  /\ ~ trusted \/ e \in Rejected \/ e \in discarded
  /\ Settle(e, "parked")

Trust ==
  /\ trusted' \in BOOLEAN
  /\ UNCHANGED <<taken, stored, discarded, outcome>>

AbsNext ==
  \/ Trust
  \/ \E e \in Entries : Take(e) \/ Store(e) \/ Discard(e) \/ Confirm(e) \/ Park(e)

AbsSpec == AbsInit /\ [][AbsNext]_absVars
=============================================================================
