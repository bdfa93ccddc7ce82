--------------------------- MODULE ReplyDelivery ---------------------------
(***************************************************************************)
(* What a turn promises of its reply, without model calls, timers, stages  *)
(* and channels: it is judged once, and an objection is never withdrawn;   *)
(* one that is withheld reaches nobody; one that is cleared goes to its    *)
(* recipients one after the other, in parcels, each once and in order,     *)
(* none after one that failed; and what is said of a recipient in the end  *)
(* is what happened.                                                       *)
(***************************************************************************)
EXTENDS Naturals, Sequences

VARIABLES
  status,     \* of the reply: "open", "cleared", "withheld", "sending", "reported"
  objected,   \* an audit has found against it
  size,       \* the number of its parcels
  arrived,    \* arrived[k]: the parcels that have reached recipient k
  complete,   \* recipients who have everything
  failed      \* recipients given up

absVars == <<status, objected, size, arrived, complete, failed>>
arrivalVars == <<size, arrived, complete, failed>>

AbsInit ==
  /\ status = "open" /\ objected = FALSE
  /\ size = 0 /\ arrived = <<>> /\ complete = {} /\ failed = {}

Judge ==
  /\ status = "open"
  /\ objected' \in BOOLEAN /\ (objected => objected')
  /\ \/ status' \in {"open", "withheld"}
     \/ status' = "cleared" /\ ~ objected'
  /\ UNCHANGED arrivalVars

\* There is no way to get it there.
Withhold == status = "cleared" /\ status' = "withheld" /\ UNCHANGED <<objected, arrivalVars>>

\* It is cut into parcels, for so many recipients, who have nothing yet.
Pack ==
  /\ status = "cleared" /\ status' = "sending"
  /\ size' \in Nat
  /\ arrived' \in Seq({<<>>})
  /\ UNCHANGED <<objected, complete, failed>>

Settled == complete \cup failed

\* The recipient whose turn it is.
Turn(k) ==
  /\ status = "sending"
  /\ k \in DOMAIN arrived \ Settled
  /\ 1..(k - 1) \subseteq Settled

Arrives(k) ==
  /\ Len(arrived[k]) < size
  /\ arrived' = [arrived EXCEPT ![k] = Append(@, Len(@) + 1)]

Pass(k) ==
  /\ Turn(k) /\ Arrives(k)
  /\ complete' = IF Len(arrived[k]) + 1 = size THEN complete \cup {k} ELSE complete
  /\ UNCHANGED <<status, objected, size, failed>>

\* The parcel may have arrived all the same.
Fail(k) ==
  /\ Turn(k) /\ Len(arrived[k]) < size
  /\ Arrives(k) \/ UNCHANGED arrived
  /\ failed' = failed \cup {k}
  /\ UNCHANGED <<status, objected, size, complete>>

PassNothing(k) ==
  /\ Turn(k) /\ size = 0
  /\ complete' = complete \cup {k}
  /\ UNCHANGED <<status, objected, size, arrived, failed>>

Report ==
  /\ status = "sending" /\ DOMAIN arrived = Settled
  /\ status' = "reported"
  /\ UNCHANGED <<objected, arrivalVars>>

AbsNext ==
  \/ Judge \/ Withhold \/ Pack \/ Report
  \/ \E k \in DOMAIN arrived : Pass(k) \/ Fail(k) \/ PassNothing(k)

AbsSpec == AbsInit /\ [][AbsNext]_absVars
=============================================================================
