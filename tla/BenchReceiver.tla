---------------------------- MODULE BenchReceiver ----------------------------
(***************************************************************************)
(* tools/bench-receiver: POST /v1/captures.  Handlers run concurrently, an *)
(* abandoned one runs on beside its retry, and every await on the file     *)
(* system is a step boundary.  writeFile truncates, then fills; a failure  *)
(* or a crash in between leaves the file torn.                             *)
(***************************************************************************)
EXTENDS CaptureEntry

CONSTANT Attempts   \* places for requests that are under way at one time

ASSUME ReceiverAssumption == None \notin Attempts

VARIABLES
  handler,   \* handler[i]: how far request i has come
  entryOf,   \* entryOf[i]: the entry it carries
  header,    \* header[i]: the secret it carries
  answer,    \* answer[i]: "ok", "retry" or "refuse", once answered
  data,      \* data[e]: the file with the payload of e
  json       \* json[e]: the corpus sidecar of e, the mark of a stored capture

receiverVars == <<handler, entryOf, header, answer, data, json>>

File == {"absent", "torn", "written"}
HandlerStage ==
  {"free", "sent", "new", "data_open", "data_written", "json_open", "answered"}

ReceiverTypeOK ==
  /\ handler \in [Attempts -> HandlerStage]
  /\ entryOf \in [Attempts -> Entries \cup {None}]
  /\ header \in [Attempts -> {"right", "wrong"}]
  /\ answer \in [Attempts -> {"none", "ok", "retry", "refuse"}]
  /\ data \in [Entries -> File]
  /\ json \in [Entries -> File]

ReceiverInit ==
  /\ handler = [i \in Attempts |-> "free"]
  /\ entryOf = [i \in Attempts |-> None]
  /\ header = [i \in Attempts |-> "right"]
  /\ answer = [i \in Attempts |-> "none"]
  /\ data = [e \in Entries |-> "absent"]
  /\ json = [e \in Entries |-> "absent"]

files == <<data, json>>

Goto(i, stage) ==
  /\ handler' = [handler EXCEPT ![i] = stage]
  /\ UNCHANGED <<entryOf, header, answer>>

Answer(i, result) ==
  /\ handler' = [handler EXCEPT ![i] = "answered"]
  /\ answer' = [answer EXCEPT ![i] = result]
  /\ UNCHANGED <<entryOf, header>>

Release(i) ==
  /\ handler' = [handler EXCEPT ![i] = "free"]
  /\ entryOf' = [entryOf EXCEPT ![i] = None]
  /\ header' = [header EXCEPT ![i] = "right"]
  /\ answer' = [answer EXCEPT ![i] = "none"]

-----------------------------------------------------------------------------
(* The handler.                                                            *)

Acceptable(i) == header[i] = "right" /\ entryOf[i] \notin Rejected

\* 401 and 400: not retryable.
Refuse(i) ==
  /\ handler[i] = "sent" /\ ~ Acceptable(i)
  /\ Answer(i, "refuse")
  /\ UNCHANGED files

\* Mutant: the check looks for the payload instead of the sidecar.
StoredData(e) == data[e] # "absent"

\* fs.access on the sidecar.
Stored(e) == json[e] # "absent"

\* Mutant: an entry already there is refused as a conflict.
RefuseDuplicate(i) ==
  /\ handler[i] = "sent" /\ Acceptable(i)
  /\ Stored(entryOf[i])
  /\ Answer(i, "retry")
  /\ UNCHANGED files

AnswerDuplicate(i) ==
  /\ handler[i] = "sent" /\ Acceptable(i)
  /\ Stored(entryOf[i])
  /\ Answer(i, "ok")
  /\ UNCHANGED files

AcceptNew(i) ==
  /\ handler[i] = "sent" /\ Acceptable(i)
  /\ ~ Stored(entryOf[i])
  /\ Goto(i, "new")
  /\ UNCHANGED files

OpenData(i) ==
  /\ handler[i] = "new"
  /\ data' = [data EXCEPT ![entryOf[i]] = "torn"]
  /\ Goto(i, "data_open")
  /\ UNCHANGED json

WriteData(i) ==
  /\ handler[i] = "data_open"
  /\ data' = [data EXCEPT ![entryOf[i]] = "written"]
  /\ Goto(i, "data_written")
  /\ UNCHANGED json

OpenJson(i) ==
  /\ handler[i] = "data_written"
  /\ json' = [json EXCEPT ![entryOf[i]] = "torn"]
  /\ Goto(i, "json_open")
  /\ UNCHANGED data

WriteJson(i) ==
  /\ handler[i] = "json_open"
  /\ json' = [json EXCEPT ![entryOf[i]] = "written"]
  /\ Answer(i, "ok")
  /\ UNCHANGED data

Handle(i) ==
  \/ Refuse(i)
  \/ AnswerDuplicate(i)
  \/ AcceptNew(i)
  \/ OpenData(i)
  \/ WriteData(i)
  \/ OpenJson(i)
  \/ WriteJson(i)

\* 500 from any file operation, or 429 before the handler: retryable.
Fail(i) ==
  /\ handler[i] \notin {"free", "answered"}
  /\ Answer(i, "retry")
  /\ UNCHANGED files

\* The receiver is restarted: its handlers are gone, the corpus stays.
Restart ==
  /\ handler' = [i \in Attempts |-> "free"]
  /\ entryOf' = [i \in Attempts |-> None]
  /\ header' = [i \in Attempts |-> "right"]
  /\ answer' = [i \in Attempts |-> "none"]
  /\ UNCHANGED files
=============================================================================
