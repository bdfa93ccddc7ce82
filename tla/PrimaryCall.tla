---------------------------- MODULE PrimaryCall -----------------------------
(***************************************************************************)
(* backend/src/orchestration/primaryCall.ts: the streamed model call and   *)
(* its timer.  The end of the stream resolves the race in microtasks, so   *)
(* no timer comes between the end and clearTimeout.                        *)
(*                                                                         *)
(* The API stops at MaxTokens whatever is left of the answer, and ends the *)
(* stream as if it were whole; the text events of an aborted stream may    *)
(* still arrive.                                                           *)
(***************************************************************************)
EXTENDS Wording

CONSTANTS
  MaxTokens,     \* PRIMARY_CALL_MAX_TOKENS
  NoReply

VARIABLES
  answer,     \* what the model has to say in this turn
  stream,     \* the SDK's stream
  buffer,     \* the deltas accumulated so far
  timer,      \* setTimeout
  reply,      \* responseText, or NoReply
  callError   \* cause of the PrimaryCallError, or "none"

callVars == <<answer, stream, buffer, timer, reply, callError>>

ASSUME CallAssumption == MaxTokens \in Nat /\ NoReply \notin Text

\* What the API sends of an answer.
Sent(text) == SubSeq(text, 1, IF Len(text) <= MaxTokens THEN Len(text) ELSE MaxTokens)

CallTypeOK ==
  /\ answer \in Text
  /\ stream \in {"none", "open", "ended", "failed", "aborted"}
  /\ buffer \in Text
  /\ timer \in {"unset", "set", "cleared", "fired"}
  /\ reply \in Text \cup {NoReply}
  /\ callError \in {"none", "timeout", "api_error", "empty_response"}

CallInit ==
  /\ answer = <<>> /\ stream = "none" /\ buffer = <<>>
  /\ timer = "unset" /\ reply = NoReply /\ callError = "none"

CallSettled == reply # NoReply \/ callError # "none"

OpenStream(text) ==
  /\ answer' = text /\ stream' = "open" /\ timer' = "set"
  /\ UNCHANGED <<buffer, reply, callError>>

\* `messages.stream` itself throws: the catch clears the timer.
OpenFails ==
  /\ timer' = "cleared" /\ callError' = "api_error"
  /\ UNCHANGED <<answer, stream, buffer, reply>>

TextDelta ==
  /\ stream \in {"open", "aborted"} /\ Len(buffer) < Len(Sent(answer))
  /\ buffer' = Append(buffer, answer[Len(buffer) + 1])
  /\ UNCHANGED <<answer, stream, timer, reply, callError>>

FinalMessage ==
  /\ stream = "open" /\ Len(buffer) = Len(Sent(answer))
  /\ stream' = "ended" /\ timer' = "cleared"
  /\ IF Blank(buffer) THEN callError' = "empty_response" /\ UNCHANGED reply
                      ELSE reply' = buffer /\ UNCHANGED callError
  /\ UNCHANGED <<answer, buffer>>

StreamFails ==
  /\ stream = "open"
  /\ stream' = "failed" /\ timer' = "cleared" /\ callError' = "api_error"
  /\ UNCHANGED <<answer, buffer, reply>>

\* Mutant: the timer rejects, and the stream runs on.
TimeOutWithoutAbort ==
  /\ timer = "set"
  /\ timer' = "fired" /\ callError' = "timeout"
  /\ UNCHANGED <<answer, stream, buffer, reply>>

\* Mutant: an idle timer, which the first delta clears.
TimeOutIfSilent ==
  /\ timer = "set" /\ buffer = <<>>
  /\ timer' = "fired" /\ stream' = "aborted" /\ callError' = "timeout"
  /\ UNCHANGED <<answer, buffer, reply>>

TimeOut ==
  /\ timer = "set"
  /\ timer' = "fired" /\ stream' = "aborted" /\ callError' = "timeout"
  /\ UNCHANGED <<answer, buffer, reply>>
=============================================================================
