---------------------------- MODULE CommsIngest -----------------------------
(***************************************************************************)
(* The ingest pipeline: gate, then store, then link.  Each half is a       *)
(* module of the repository; the caller that strings them together is not  *)
(* written yet, and is modelled here from what both halves require of it:  *)
(* a novel message is stored, a stored one is linked to its key, there is  *)
(* no transaction around the two and a failed link is ignored.             *)
(***************************************************************************)
EXTENDS IdempotencyChecker, CommsLogWriter

VARIABLE linkResult  \* linkResult[c]: the LinkResult of call c

ingestVars == <<gateVars, commsLog, write, linkResult>>
writerVars == <<commsLog, write>>

IngestTypeOK ==
  /\ GateTypeOK
  /\ WriterTypeOK
  /\ linkResult \in [Calls -> {"none", "ok", "db_error"}]

IngestInit ==
  /\ GateInit
  /\ WriterInit
  /\ linkResult = [c \in Calls |-> "none"]

Gate(c) ==
  /\ CheckIdempotency(c)
  /\ UNCHANGED <<writerVars, linkResult>>

ReadyToStore(c) == c \notin lost /\ status[c] = "novel" /\ write[c] = "none"

Store(c) ==
  /\ ReadyToStore(c)
  /\ StoreCommsLog(c)
  /\ UNCHANGED <<gateVars, linkResult>>

StoreFails(c) ==
  /\ ReadyToStore(c)
  /\ InsertFailure(c)
  /\ UNCHANGED <<gateVars, linkResult>>

ReadyToLink(c) == c \notin lost /\ write[c] = "stored" /\ linkResult[c] = "none"

\* The foreign key lets only the id of a comms_log row into the column.
Link(c) ==
  /\ ReadyToLink(c)
  /\ c \in commsLog
  /\ LinkIdempotencyKey(c, c)
  /\ linkResult' = [linkResult EXCEPT ![c] = "ok"]
  /\ UNCHANGED writerVars

LinkFailure(c) ==
  /\ ReadyToLink(c)
  /\ linkResult' = [linkResult EXCEPT ![c] = "db_error"]
  /\ UNCHANGED <<gateVars, writerVars>>

Concluded(c) ==
  \/ c \in lost
  \/ status[c] \in {"duplicate", "error"}
  \/ write[c] \in {"duplicate", "error"}
  \/ linkResult[c] # "none"

Running == {c \in Calls : gate[c] # "idle" /\ ~ Concluded(c)}

Crash ==
  /\ Running # {}
  /\ Lose(Running)
  /\ UNCHANGED <<writerVars, linkResult>>

ClockTick == Tick /\ UNCHANGED <<writerVars, linkResult>>

IngestNext ==
  \/ \E c \in Calls : Gate(c)
  \/ \E c \in Calls : Store(c)
  \/ \E c \in Calls : StoreFails(c)
  \/ \E c \in Calls : Link(c)
  \/ \E c \in Calls : LinkFailure(c)
  \/ Crash
  \/ ClockTick

IngestSpec == IngestInit /\ [][IngestNext]_ingestVars

-----------------------------------------------------------------------------
(* Properties.                                                             *)

\* A backlink leads to the message its key stands for, and a link handed out
\* with a "duplicate" leads to a stored message of the same identity.
LinksLeadHome ==
  \A c \in Calls :
    /\ linked[c] # None => linked[c] = c /\ c \in keys \cap commsLog
    /\ linkedSeen[c] # None =>
         /\ linkedSeen[c] \in commsLog
         /\ linkedSeen[c] = matchedKey[c]
         /\ status[linkedSeen[c]] = "novel"

\* Once its key is taken, a message is missing from comms_log after its call
\* is over only if that call crashed or its own INSERT threw.  (Then it is
\* missing for good: every redelivery is told "duplicate".)
LossOnlyByFault ==
  \A c \in keys :
    Concluded(c) /\ c \notin commsLog => c \in lost \/ write[c] = "error"

-----------------------------------------------------------------------------
(* The provider-id half of the pipeline implements the test-and-set cell.  *)

Identities == Providers \X MessageIds

IdentityOf(c) ==
  IF ByProviderId(c)
    THEN <<input[c].provider, input[c].providerMessageId>>
    ELSE None

Holders(i) == {k \in keys : IdentityOf(k) = i}

Only(S) == IF S = {} THEN None ELSE CHOOSE k \in S : TRUE

KeyOwner(i) == Only(Holders(i))

Cell == INSTANCE ProviderIdGate WITH
  identity <- [c \in Calls |-> IdentityOf(c)],
  owner    <- [i \in Identities |-> KeyOwner(i)],
  verdict  <- [c \in Calls |-> IF ByProviderId(c) THEN status[c] ELSE "none"]

\* Whatever the interleaving, faults and crashes, the calls that carry a
\* provider id see one atomic test-and-set per identity.
ImplementsTestAndSet == Cell!AbsSpec
=============================================================================
