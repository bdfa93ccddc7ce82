-------------------------- MODULE EventClassifier ---------------------------
(***************************************************************************)
(* backend/src/orchestration/eventClassifier.ts: what comes in is typed by *)
(* its source alone, and refused if the field its content is taken from is *)
(* missing.  Sender, thread and provider are left out.                     *)
(***************************************************************************)
EXTENDS Wording

Source == {"app", "email", "sms", "internal", "lifecycle"}

\* body: the content field of the body; payload: normalizedEmail or internalPayload.
RawInput ==
  [source : Source, body : {"missing", "blank", "text"}, payload : BOOLEAN, content : Text]

SourceToEventType ==
  [app |-> "user_message", email |-> "inbound_email", sms |-> "inbound_sms",
   internal |-> "system_trigger", lifecycle |-> "session_lifecycle"]

EventType == {SourceToEventType[s] : s \in Source}

Event == [type : EventType, channel : Source, content : Text]

\* The extractors: an MMS may come without text, an app message may not.
HasContent(raw) ==
  \/ raw.source = "app" /\ raw.body = "text"
  \/ raw.source = "sms" /\ raw.body # "missing"
  \/ raw.source \in {"email", "internal"} /\ raw.payload
  \/ raw.source = "lifecycle" /\ (raw.payload \/ raw.body = "text")

ClassifyEvent(raw) ==
  [type |-> SourceToEventType[raw.source], channel |-> raw.source, content |-> raw.content]
=============================================================================
