--------------------------- MODULE CommsDelivery ---------------------------
(***************************************************************************)
(* What the comms pipeline is handed: one inbound message per call of the  *)
(* ingest handler (InboundEmail and InboundSms of comms/contracts.ts).     *)
(* A redelivery by the provider is another call that carries an equal      *)
(* message.  A call is used once: its name also stands for the random      *)
(* UUIDs the pipeline draws during it (one idempotency_keys.id and one     *)
(* comms_log.id at most).                                                  *)
(***************************************************************************)
EXTENDS Integers

CONSTANTS
  Calls,       \* invocations of the ingest handler
  Messages,    \* the messages the providers may deliver
  Providers,   \* outlook, yahoo, twilio
  MessageIds,  \* provider message ids, NullId and EmptyId among them
  NullId,      \* providerMessageId = null
  EmptyId,     \* providerMessageId = ''
  Hashes,      \* values of computeContentHash
  None         \* an absent row id

ASSUME DeliveryAssumption ==
  /\ Messages \subseteq [provider          : Providers,
                         providerMessageId : MessageIds,
                         contentHash       : Hashes]
  /\ None \notin Calls \cup (Providers \X MessageIds)

VARIABLES
  input,  \* input[c]: the message call c was invoked with, fixed for good
  lost    \* the calls that were running when the process died

(***************************************************************************)
(* The message whose contentHash this is: the SHA-256 of from, the sorted  *)
(* recipients and the body.  Equal hashes are equal contents up to the     *)
(* order of the recipients, so a message carries its hash instead of them. *)
(***************************************************************************)
ContentHash(c) == input[c].contentHash

DeliveryInit ==
  /\ input \in [Calls -> Messages]
  /\ lost = {}
=============================================================================
