--------------------------- MODULE RecordingOrder ---------------------------
(***************************************************************************)
(* What the recorder and the bench screen promise together, without calls, *)
(* events and threads: one recording at a time, and every recording that   *)
(* has ended is handed to the capture queue once, in the order in which    *)
(* the recordings ended.                                                   *)
(***************************************************************************)
EXTENDS Sequences

CONSTANTS Requests, None

VARIABLES
  active,    \* the recording that runs, or None
  waiting,   \* those that have ended and are not handed on
  before,    \* before: the pairs of waiting recordings whose first ended first
  handedOn   \* those handed on, in order

absVars == <<active, waiting, before, handedOn>>

HandedOn == {handedOn[k] : k \in DOMAIN handedOn}

AbsInit == active = None /\ waiting = {} /\ before = {} /\ handedOn = <<>>

Begin(r) ==
  /\ active = None
  /\ r \notin waiting \cup HandedOn
  /\ active' = r
  /\ UNCHANGED <<waiting, before, handedOn>>

End ==
  /\ active # None
  /\ active' = None
  /\ waiting' = waiting \cup {active}
  /\ before' = before \cup (waiting \X {active})
  /\ UNCHANGED handedOn

HandOn(r) ==
  /\ r \in waiting
  /\ \A e \in waiting : <<e, r>> \notin before
  /\ waiting' = waiting \ {r}
  /\ before' = {p \in before : r \notin {p[1], p[2]}}
  /\ handedOn' = Append(handedOn, r)
  /\ UNCHANGED active

AbsNext == End \/ \E r \in Requests : Begin(r) \/ HandOn(r)

AbsSpec == AbsInit /\ [][AbsNext]_absVars
=============================================================================
