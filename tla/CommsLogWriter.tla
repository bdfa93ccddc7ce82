--------------------------- MODULE CommsLogWriter ---------------------------
(***************************************************************************)
(* comms/commsLogWriter: the single INSERT into comms_log.  Row c holds    *)
(* the message of call c under the id drawn in call c; which columns are   *)
(* stamped and which are copied (assembleCommsLogRecord) matters to none   *)
(* of the properties, except for the two that the unique index reads.      *)
(***************************************************************************)
EXTENDS CommsDelivery

VARIABLES
  commsLog,  \* ids of the rows of comms_log
  write      \* write[c]: the CommsLogWriteResult of call c

WriteStatus == {"none", "stored", "duplicate", "error"}

WriterTypeOK ==
  /\ commsLog \subseteq Calls
  /\ write \in [Calls -> WriteStatus]

WriterInit ==
  /\ commsLog = {}
  /\ write = [c \in Calls |-> "none"]

\* Mutant: the conflict target is the content hash.
SameLogContent(m, c) == ContentHash(m) = ContentHash(c)

\* uq_comms_log_provider_message_id covers every row whose
\* provider_message_id is not NULL; an empty string is not NULL.
SameLogKey(m, c) ==
  /\ input[c].providerMessageId # NullId
  /\ input[m].provider = input[c].provider
  /\ input[m].providerMessageId = input[c].providerMessageId

\* INSERT .. ON CONFLICT DO NOTHING RETURNING id, with its three outcomes.
StoreCommsLog(c) ==
  /\ IF \E m \in commsLog : SameLogKey(m, c)
       THEN /\ write' = [write EXCEPT ![c] = "duplicate"]
            /\ UNCHANGED commsLog
       ELSE /\ write' = [write EXCEPT ![c] = "stored"]
            /\ commsLog' = commsLog \cup {c}
  /\ UNCHANGED <<input, lost>>

\* The INSERT throws: insertFailure answers and no row is written.
InsertFailure(c) ==
  /\ write' = [write EXCEPT ![c] = "error"]
  /\ UNCHANGED <<commsLog, input, lost>>
=============================================================================
