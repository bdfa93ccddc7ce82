------------------------- MODULE CommsIngestProofs -------------------------
(***************************************************************************)
(* Proofs about the ingest pipeline.  Seen from the gate's variables it    *)
(* behaves as the gate does, so what CommsGateProofs proves carries over;  *)
(* the rest relates the two tables, and maps them to ProviderIdGate.       *)
(***************************************************************************)
EXTENDS CommsIngest, CommsGateProofs

\* Every step of the pipeline is a step of the gate or leaves it alone.
LEMMA IngestStepIsGateStep ==
  ASSUME IngestNext \/ UNCHANGED ingestVars
  PROVE  [GateNext]_gateVars
<1>1. CASE \E c \in Calls : Gate(c)
  BY <1>1 DEF Gate, GateNext
<1>2. CASE \E c \in Calls : Store(c) \/ StoreFails(c) \/ LinkFailure(c)
  BY <1>2 DEF Store, StoreFails, LinkFailure
<1>3. CASE \E c \in Calls : Link(c)
  BY <1>3 DEF Link, GateNext
<1>4. CASE Crash
  BY <1>4 DEF Crash, Running, GateNext
<1>5. CASE ClockTick
  BY <1>5 DEF ClockTick, GateNext
<1>6. CASE UNCHANGED ingestVars
  BY <1>6 DEF ingestVars
<1>7. QED
  BY <1>1, <1>2, <1>3, <1>4, <1>5, <1>6 DEF IngestNext

\* The pipeline's behaviours are behaviours of the gate.
THEOREM IngestImplementsGate == IngestSpec => GateSpec
<1>1. IngestInit => GateInit
  BY DEF IngestInit
<1>2. [IngestNext]_ingestVars => [GateNext]_gateVars
  BY IngestStepIsGateStep
<1>3. QED
  BY <1>1, <1>2, PTL DEF IngestSpec, GateSpec

\* In the pipeline, too, one call per provider identity is told "novel".
THEOREM IngestIsExclusive == IngestSpec => []ProviderGateExclusive
BY IngestImplementsGate, GateIsExclusive, PTL

\* Every answer of the gate in the pipeline is true of the table of keys: an
\* error, a duplicate or a crash has used no identity up.
THEOREM IngestAnswersAreTrue == IngestSpec => []AnswersAreTrue
<1>1. DuplicateIsGrounded /\ OnlyNovelClaims => AnswersAreTrue
  BY DEF AnswersAreTrue
<1>2. QED
  BY <1>1, IngestImplementsGate, GateDuplicatesAreGrounded, GateClaimsOnlyNovel, PTL

-----------------------------------------------------------------------------
(* The two tables.                                                         *)

\* A row is stored only for a novel call, and linked only once it is stored.
StoreFollowsNovel ==
  \A c \in Calls :
    /\ write[c] # "none" => status[c] = "novel"
    /\ c \in commsLog <=> write[c] = "stored"
    /\ linkResult[c] # "none" => write[c] = "stored"

IngestInv ==
  /\ GateInv
  /\ IngestTypeOK
  /\ StoreFollowsNovel
  /\ LinksLeadHome

LEMMA GateStepKeepsIngestInv ==
  ASSUME IngestInv, NEW c \in Calls, Gate(c)
  PROVE  IngestInv'
<1> USE DEF IngestInv
<1>1. GateInv'
  BY CheckKeepsInv DEF Gate
<1>2. IngestTypeOK'
  BY <1>1 DEF Gate, IngestTypeOK, GateInv, WriterTypeOK, writerVars
<1>3. /\ linked' = linked /\ keys \subseteq keys' /\ UNCHANGED <<commsLog, write, linkResult>>
      /\ \A d \in Calls : status[d] = "novel" => status'[d] = "novel"
  BY DEF Gate, CheckIdempotency, Plan, ProviderIdInsert, ProviderIdConflict,
     ProviderIdConflictFetch, ContentHashHit, ContentHashMiss, ContentHashInsert,
     GateFailure, AnswerNovel, AnswerDuplicate, AnswerError, Answer, At, writerVars,
     GateInv, GateTypeOK, StageMatchesStatus
<1>4. StoreFollowsNovel'
  BY <1>3 DEF StoreFollowsNovel
<1>5. LinksLeadHome'
  <2>1. \A d \in Calls : linked'[d] # None => linked'[d] = d /\ d \in keys' \cap commsLog'
    BY <1>3 DEF LinksLeadHome
  <2>2. ASSUME NEW d \in Calls, linkedSeen'[d] # None
        PROVE  /\ linkedSeen'[d] \in commsLog
               /\ linkedSeen'[d] = matchedKey'[d]
               /\ status'[linkedSeen'[d]] = "novel"
    <3>1. CASE linkedSeen'[d] = linkedSeen[d] /\ matchedKey'[d] = matchedKey[d]
      BY <1>3, <2>2, <3>1 DEF LinksLeadHome, IngestTypeOK, WriterTypeOK
    <3>2. CASE \E k \in keys : AnswerDuplicate(c, k) /\ d = c
      BY <1>3, <2>2, <3>2
      DEF AnswerDuplicate, LinksLeadHome, GateInv, GateTypeOK, OnlyNovelClaims
    <3>3. QED
      BY <3>1, <3>2
      DEF Gate, CheckIdempotency, Plan, ProviderIdInsert, ProviderIdConflict,
          ProviderIdConflictFetch, ContentHashHit, ContentHashMiss, ContentHashInsert,
          GateFailure, AnswerNovel, AnswerDuplicate, AnswerError, ProviderKeyHolders,
          NewestMatches, WindowMatches, GateInv, GateTypeOK
  <2>3. QED
    BY <1>3, <2>1, <2>2 DEF LinksLeadHome
<1>6. QED
  BY <1>1, <1>2, <1>4, <1>5

LEMMA StoreKeepsIngestInv ==
  ASSUME IngestInv, NEW c \in Calls, Store(c) \/ StoreFails(c)
  PROVE  IngestInv'
<1> USE DEF IngestInv
<1>1. /\ UNCHANGED gateVars /\ linkResult' = linkResult
      /\ status[c] = "novel" /\ write[c] = "none"
  BY DEF Store, StoreFails, ReadyToStore
<1>2. /\ write' \in [Calls -> WriteStatus] /\ write'[c] # "none"
      /\ \A d \in Calls \ {c} : write'[d] = write[d]
      /\ commsLog' = IF write'[c] = "stored" THEN commsLog \cup {c} ELSE commsLog
  BY DEF Store, StoreFails, StoreCommsLog, InsertFailure, IngestTypeOK, WriterTypeOK, WriteStatus
<1>3. GateInv'
  BY <1>1, OutsideKeepsInv
<1>4. IngestTypeOK'
  BY <1>1, <1>2, <1>3 DEF IngestTypeOK, WriterTypeOK, GateInv
<1>5. StoreFollowsNovel'
  BY <1>1, <1>2 DEF StoreFollowsNovel, gateVars, IngestTypeOK, WriterTypeOK
<1>6. LinksLeadHome'
  BY <1>1, <1>2 DEF LinksLeadHome, gateVars
<1>7. QED
  BY <1>3, <1>4, <1>5, <1>6

LEMMA LinkKeepsIngestInv ==
  ASSUME IngestInv, NEW c \in Calls, Link(c) \/ LinkFailure(c)
  PROVE  IngestInv'
<1> USE DEF IngestInv
<1>1. /\ UNCHANGED <<input, lost, clock, keys, gate, firstSeenAt, status,
                     matchedKey, linkedSeen, before, commsLog, write>>
      /\ write[c] = "stored" /\ c \in commsLog
  BY DEF Link, LinkFailure, ReadyToLink, LinkIdempotencyKey, writerVars, gateVars,
     StoreFollowsNovel
<1>2. /\ linkResult' \in [Calls -> {"none", "ok", "db_error"}]
      /\ \A d \in Calls \ {c} : linkResult'[d] = linkResult[d]
  BY DEF Link, LinkFailure, IngestTypeOK
<1>3. GateInv'
  <2>1. CASE Link(c)
    BY <2>1, OutsideKeepsInv DEF Link
  <2>2. CASE LinkFailure(c)
    BY <2>2, OutsideKeepsInv DEF LinkFailure
  <2>3. QED
    BY <2>1, <2>2
<1>4. IngestTypeOK'
  BY <1>1, <1>2, <1>3 DEF IngestTypeOK, WriterTypeOK, GateInv
<1>5. StoreFollowsNovel'
  BY <1>1, <1>2 DEF StoreFollowsNovel
<1>6. LinksLeadHome'
  <2>1. c \in keys
    BY <1>1 DEF StoreFollowsNovel, GateInv, OnlyNovelClaims
  <2>2. \A d \in Calls : linked'[d] # None => linked'[d] = linked[d] \/ (d = c /\ linked'[d] = c)
    BY DEF Link, LinkFailure, LinkIdempotencyKey, gateVars, GateInv, GateTypeOK
  <2>3. QED
    BY <1>1, <2>1, <2>2 DEF LinksLeadHome
<1>7. QED
  BY <1>3, <1>4, <1>5, <1>6

LEMMA OtherStepsKeepIngestInv ==
  ASSUME IngestInv, Crash \/ ClockTick \/ UNCHANGED ingestVars
  PROVE  IngestInv'
<1> USE DEF IngestInv
<1>1. /\ UNCHANGED <<keys, linked, status, matchedKey, linkedSeen, commsLog, write, linkResult>>
  BY DEF Crash, ClockTick, Lose, Tick, ingestVars, gateVars, writerVars
<1>2. GateInv'
  <2>1. CASE Crash
    BY <2>1, OutsideKeepsInv DEF Crash, Running
  <2>2. CASE ClockTick
    BY <2>2, OutsideKeepsInv DEF ClockTick
  <2>3. CASE UNCHANGED ingestVars
    BY <2>3, OutsideKeepsInv DEF ingestVars
  <2>4. QED
    BY <2>1, <2>2, <2>3
<1>3. IngestTypeOK' /\ StoreFollowsNovel' /\ LinksLeadHome'
  BY <1>1, <1>2 DEF IngestTypeOK, WriterTypeOK, GateInv, StoreFollowsNovel, LinksLeadHome
<1>4. QED
  BY <1>2, <1>3

\* The gate's invariant, the writer's types and the agreement of the two
\* tables hold in every reachable state of the pipeline.
THEOREM IngestInvariant == IngestSpec => []IngestInv
<1>1. IngestInit => IngestInv
  <2> SUFFICES ASSUME IngestInit PROVE IngestInv
    OBVIOUS
  <2>1. GateInv
    BY GateInitially DEF IngestInit
  <2>2. IngestTypeOK /\ StoreFollowsNovel
    BY <2>1 DEF IngestInit, WriterInit, IngestTypeOK, WriterTypeOK, WriteStatus, GateInv,
       StoreFollowsNovel
  <2>3. LinksLeadHome
    BY DEF IngestInit, GateInit, LinksLeadHome
  <2>4. QED
    BY <2>1, <2>2, <2>3 DEF IngestInv
<1>2. IngestInv /\ [IngestNext]_ingestVars => IngestInv'
  BY GateStepKeepsIngestInv, StoreKeepsIngestInv, LinkKeepsIngestInv,
     OtherStepsKeepIngestInv DEF IngestNext
<1>3. QED
  BY <1>1, <1>2, PTL DEF IngestSpec

\* Type correctness of the pipeline.
THEOREM IngestTypeCorrect == IngestSpec => []IngestTypeOK
<1>1. IngestInv => IngestTypeOK
  BY DEF IngestInv
<1>2. QED
  BY <1>1, IngestInvariant, PTL

\* Backlinks, and the links handed out with duplicates, lead to stored rows.
THEOREM IngestLinksLeadHome == IngestSpec => []LinksLeadHome
<1>1. IngestInv => LinksLeadHome
  BY DEF IngestInv
<1>2. QED
  BY <1>1, IngestInvariant, PTL

-----------------------------------------------------------------------------
(* No loss without a fault, when no provider uses the empty id.            *)

NoEmptyIds == \A m \in Messages : m.providerMessageId # EmptyId

\* The INSERT into comms_log never conflicts: a row with the same provider id
\* would belong to another call that the gate also found novel.
NoConflict == \A c \in Calls : write[c] # "duplicate"

LEMMA StoreMeetsNoConflict ==
  ASSUME NoEmptyIds, IngestInv, NEW c \in Calls, ReadyToStore(c), NEW m \in commsLog
  PROVE  ~ SameLogKey(m, c)
<1> SUFFICES ASSUME SameLogKey(m, c) PROVE FALSE
  OBVIOUS
<1>1. m \in Calls /\ m # c /\ status[m] = "novel" /\ status[c] = "novel"
  BY DEF IngestInv, IngestTypeOK, WriterTypeOK, StoreFollowsNovel, ReadyToStore
<1>2. m \in keys /\ c \in keys
  BY <1>1 DEF IngestInv, GateInv, OnlyNovelClaims
<1>3. input[c] \in Messages
  BY DEF IngestInv, GateInv, GateTypeOK
<1>4. SameProviderKey(m, c)
  BY <1>3 DEF SameLogKey, SameProviderKey, ByProviderId, NoEmptyIds
<1>5. QED
  BY <1>1, <1>2, <1>4 DEF IngestInv, GateInv, KeysDistinct

\* A message whose identity was taken is missing from comms_log only after a
\* crash of its call or a failed INSERT.
THEOREM IngestLosesOnlyByFault ==
  ASSUME NoEmptyIds
  PROVE  IngestSpec => []LossOnlyByFault
<1>1. IngestInit => NoConflict
  BY DEF IngestInit, WriterInit, NoConflict
<1>2. IngestInv /\ NoConflict /\ [IngestNext]_ingestVars => NoConflict'
  <2> SUFFICES ASSUME IngestInv, NoConflict, [IngestNext]_ingestVars
               PROVE  NoConflict'
    OBVIOUS
  <2>1. ASSUME NEW c \in Calls, Store(c) PROVE NoConflict'
    <3>1. write' = [write EXCEPT ![c] = "stored"]
      BY <2>1, StoreMeetsNoConflict DEF Store, StoreCommsLog
    <3>2. QED
      BY <3>1 DEF NoConflict, IngestInv, IngestTypeOK, WriterTypeOK
  <2>2. ASSUME NEW c \in Calls, StoreFails(c) PROVE NoConflict'
    BY <2>2 DEF StoreFails, InsertFailure, NoConflict, IngestInv, IngestTypeOK, WriterTypeOK
  <2>3. CASE UNCHANGED write
    BY <2>3 DEF NoConflict
  <2>4. QED
    BY <2>1, <2>2, <2>3
    DEF IngestNext, Gate, Link, LinkFailure, Crash, ClockTick, writerVars, ingestVars
<1>3. IngestInv /\ NoConflict => LossOnlyByFault
  BY DEF IngestInv, NoConflict, LossOnlyByFault, Concluded, StoreFollowsNovel, GateInv,
     GateTypeOK, OnlyNovelClaims, IngestTypeOK, WriterTypeOK, WriteStatus
<1>4. QED
  BY <1>1, <1>2, <1>3, IngestInvariant, PTL DEF IngestSpec

-----------------------------------------------------------------------------
(* The pipeline implements ProviderIdGate, an atomic test-and-set cell per *)
(* provider identity, under the refinement mapping of CommsIngest.         *)

\* The mapped variables, under the names of the abstract module.
Identity == [c \in Calls |-> IdentityOf(c)]
Owner    == [i \in Identities |-> KeyOwner(i)]
Verdict  == [c \in Calls |-> IF ByProviderId(c) THEN status[c] ELSE "none"]

\* A call has an identity exactly when it is gated by provider id, and two
\* calls share one exactly when they compete for one key.
LEMMA IdentityFacts ==
  ASSUME GateTypeOK, NEW c \in Calls, NEW d \in Calls
  PROVE  /\ ByProviderId(c) => IdentityOf(c) \in Identities
         /\ ~ ByProviderId(c) => IdentityOf(c) = None /\ IdentityOf(c) \notin Identities
         /\ ByProviderId(c) => (IdentityOf(d) = IdentityOf(c) <=> SameProviderKey(d, c))
<1> USE DeliveryAssumption
<1>1. input[c] \in Messages /\ input[d] \in Messages
  BY DEF GateTypeOK
<1>2. /\ input[c].provider \in Providers /\ input[c].providerMessageId \in MessageIds
      /\ input[d].provider \in Providers /\ input[d].providerMessageId \in MessageIds
  BY <1>1
<1>3. None \notin Identities
  BY DEF Identities
<1>4. QED
  BY <1>2, <1>3 DEF IdentityOf, Identities, SameProviderKey, ByProviderId

LEMMA CellInitially == IngestInit => Cell!AbsInit
<1> SUFFICES ASSUME IngestInit PROVE Cell!AbsInit
  OBVIOUS
<1>1. GateTypeOK
  BY GateInitially DEF IngestInit, GateInv
<1>2. Identity \in [Calls -> Identities \cup {None}]
  BY <1>1, IdentityFacts DEF Identity
<1>3. Owner = [i \in Identities |-> None]
  BY DEF Owner, KeyOwner, Only, Holders, IngestInit, GateInit
<1>4. Verdict = [c \in Calls |-> "none"]
  BY DEF Verdict, IngestInit, GateInit
<1>5. QED
  BY <1>2, <1>3, <1>4 DEF Cell!AbsInit, Identity, Owner, Verdict

\* Mapped values only depend on the inputs, the keys and the answers.
LEMMA IdentityFixed ==
  ASSUME input' = input
  PROVE  /\ Identity' = Identity
         /\ \A c \in Calls : IdentityOf(c)' = IdentityOf(c) /\ (ByProviderId(c)' <=> ByProviderId(c))
BY DEF Identity, IdentityOf, ByProviderId

LEMMA OwnerFixed ==
  ASSUME GateTypeOK, input' = input,
         \/ keys' = keys
         \/ \E c \in Calls : ~ ByProviderId(c) /\ keys' = keys \cup {c}
  PROVE  Owner' = Owner
<1>1. ASSUME NEW i \in Identities PROVE Holders(i)' = Holders(i)
  <2>1. CASE keys' = keys
    BY <2>1, IdentityFixed DEF Holders, IdentityOf, ByProviderId
  <2>2. CASE \E c \in Calls : ~ ByProviderId(c) /\ keys' = keys \cup {c}
    <3>1. PICK c \in Calls : ~ ByProviderId(c) /\ keys' = keys \cup {c}
      BY <2>2
    <3>2. IdentityOf(c) # i
      BY <3>1, <1>1, IdentityFacts
    <3>3. \A k \in Calls : IdentityOf(k)' = IdentityOf(k)
      BY IdentityFixed
    <3>4. keys \subseteq Calls
      BY DEF GateTypeOK
    <3>5. QED
      BY <3>1, <3>2, <3>3, <3>4 DEF Holders
  <2>3. QED
    BY <2>1, <2>2
<1>2. QED
  BY <1>1 DEF Owner, KeyOwner

\* A call gated by provider id is told its answer: the abstract verdict moves.
LEMMA VerdictMoves ==
  ASSUME GateTypeOK, input' = input, NEW c \in Calls, ByProviderId(c),
         NEW result, status' = [status EXCEPT ![c] = result]
  PROVE  Verdict' = [Verdict EXCEPT ![c] = result]
BY IdentityFixed DEF Verdict, GateTypeOK

\* "novel" on the provider path takes the cell.
LEMMA NovelTakes ==
  ASSUME GateInv, NEW c \in Calls, ProviderIdInsert(c)
  PROVE  Cell!Take(c)
<1> USE DEF GateInv
<1>1. /\ ByProviderId(c) /\ ProviderKeyHolders(c) = {} /\ status[c] = "none"
      /\ input' = input /\ keys' = keys \cup {c} /\ status' = [status EXCEPT ![c] = "novel"]
  BY DEF ProviderIdInsert, AnswerNovel, Answer, At, StageMatchesStatus
<1>2. keys \subseteq Calls /\ IdentityOf(c) \in Identities
  BY <1>1, IdentityFacts DEF GateTypeOK
<1>3. Holders(IdentityOf(c)) = {}
  BY <1>1, <1>2, IdentityFacts DEF Holders, ProviderKeyHolders
<1>4. Owner[IdentityOf(c)] = None
  BY <1>2, <1>3 DEF Owner, KeyOwner, Only
<1>5. ASSUME NEW i \in Identities
      PROVE  Holders(i)' = IF i = IdentityOf(c) THEN {c} ELSE Holders(i)
  <2>1. \A k \in Calls : IdentityOf(k)' = IdentityOf(k)
    BY <1>1, IdentityFixed
  <2>2. QED
    BY <1>1, <1>2, <1>3, <2>1 DEF Holders
<1>6. Owner' = [Owner EXCEPT ![IdentityOf(c)] = c]
  <2>1. ASSUME NEW i \in Identities
        PROVE  KeyOwner(i)' = IF i = IdentityOf(c) THEN c ELSE KeyOwner(i)
    <3>1. Only({c}) = c
      BY DEF Only
    <3>2. QED
      BY <1>5, <3>1 DEF KeyOwner
  <2>2. QED
    BY <2>1 DEF Owner
<1>7. Verdict' = [Verdict EXCEPT ![c] = "novel"] /\ Verdict[c] = "none"
  BY <1>1, VerdictMoves DEF Verdict
<1>8. Identity' = Identity /\ Identity[c] = IdentityOf(c)
  BY <1>1, IdentityFixed DEF Identity
<1>9. QED
  BY <1>2, <1>4, <1>6, <1>7, <1>8 DEF Cell!Take, Cell!Asking, Identity, Owner, Verdict

\* "duplicate" on the provider path meets a cell that is taken.
LEMMA DuplicateRefused ==
  ASSUME GateInv, NEW c \in Calls, NEW k \in ProviderKeyHolders(c),
         At(c, "conflict"), AnswerDuplicate(c, k)
  PROVE  Cell!Refuse(c)
<1> USE DEF GateInv
<1>1. /\ ByProviderId(c) /\ status[c] = "none"
      /\ input' = input /\ keys' = keys /\ status' = [status EXCEPT ![c] = "duplicate"]
  BY DEF AnswerDuplicate, Answer, At, StageMatchesStatus
<1>2. k \in keys /\ k \in Calls /\ SameProviderKey(k, c)
  BY DEF ProviderKeyHolders, GateTypeOK
<1>3. IdentityOf(c) \in Identities /\ k \in Holders(IdentityOf(c))
  BY <1>1, <1>2, IdentityFacts DEF Holders
<1>4. Owner[IdentityOf(c)] # None
  <2>1. Holders(IdentityOf(c)) \subseteq Calls
    BY DEF Holders, GateTypeOK
  <2>2. (CHOOSE j \in Holders(IdentityOf(c)) : TRUE) \in Holders(IdentityOf(c))
    BY <1>3
  <2>3. KeyOwner(IdentityOf(c)) \in Calls
    BY <1>3, <2>1, <2>2 DEF KeyOwner, Only
  <2>4. QED
    BY <1>3, <2>3, DeliveryAssumption DEF Owner
<1>5. Owner' = Owner
  BY <1>1, OwnerFixed
<1>6. Verdict' = [Verdict EXCEPT ![c] = "duplicate"] /\ Verdict[c] = "none"
  BY <1>1, VerdictMoves DEF Verdict
<1>7. Identity' = Identity /\ Identity[c] = IdentityOf(c)
  BY <1>1, IdentityFixed DEF Identity
<1>8. QED
  BY <1>3, <1>4, <1>5, <1>6, <1>7 DEF Cell!Refuse, Cell!Asking, Identity, Owner, Verdict

\* An error leaves the cell as it was.
LEMMA ErrorFails ==
  ASSUME GateInv, NEW c \in Calls, ByProviderId(c),
         gate[c] # "answered", AnswerError(c)
  PROVE  Cell!Fail(c)
<1> USE DEF GateInv
<1>1. /\ status[c] = "none"
      /\ input' = input /\ keys' = keys /\ status' = [status EXCEPT ![c] = "error"]
  BY DEF AnswerError, Answer, StageMatchesStatus
<1>2. IdentityOf(c) \in Identities
  BY IdentityFacts
<1>3. Owner' = Owner
  BY <1>1, OwnerFixed
<1>4. Verdict' = [Verdict EXCEPT ![c] = "error"] /\ Verdict[c] = "none"
  BY <1>1, VerdictMoves DEF Verdict
<1>5. Identity' = Identity /\ Identity[c] = IdentityOf(c)
  BY <1>1, IdentityFixed DEF Identity
<1>6. QED
  BY <1>2, <1>3, <1>4, <1>5 DEF Cell!Fail, Cell!Asking, Identity, Owner, Verdict

\* Steps that leave inputs, answers and provider keys alone are stutters, and
\* so are the answers of calls gated by content hash.
LEMMA StuttersOutside ==
  ASSUME GateInv, input' = input,
         \/ keys' = keys /\ status' = status
         \/ \E c \in Calls :
              /\ ~ ByProviderId(c)
              /\ keys' = keys \/ keys' = keys \cup {c}
              /\ \E result \in GateStatus : status' = [status EXCEPT ![c] = result]
  PROVE  UNCHANGED <<Identity, Owner, Verdict>>
<1> USE DEF GateInv
<1>1. Identity' = Identity
  BY IdentityFixed
<1>2. Owner' = Owner
  BY OwnerFixed
<1>3. Verdict' = Verdict
  BY IdentityFixed DEF Verdict, GateTypeOK
<1>4. QED
  BY <1>1, <1>2, <1>3

LEMMA GateStepSimulated ==
  ASSUME GateInv, GateNext
  PROVE  Cell!AbsNext \/ UNCHANGED <<Identity, Owner, Verdict>>
<1> USE DEF GateInv
<1>1. ASSUME NEW c \in Calls, CheckIdempotency(c)
      PROVE  Cell!AbsNext \/ UNCHANGED <<Identity, Owner, Verdict>>
  <2>1. CASE Plan(c) \/ ProviderIdConflict(c) \/ ContentHashMiss(c)
    BY <2>1, StuttersOutside DEF Plan, ProviderIdConflict, ContentHashMiss
  <2>2. CASE ProviderIdInsert(c)
    BY <2>2, NovelTakes DEF Cell!AbsNext
  <2>3. CASE ProviderIdConflictFetch(c)
    <3>1. At(c, "conflict") /\ ByProviderId(c) /\ ProviderKeyHolders(c) # {}
      BY <2>3 DEF ProviderIdConflictFetch, At, StageMatchesStatus, ConflictRowVisible
    <3>2. PICK k \in ProviderKeyHolders(c) : AnswerDuplicate(c, k)
      BY <2>3, <3>1 DEF ProviderIdConflictFetch
    <3>3. QED
      BY <3>1, <3>2, DuplicateRefused DEF Cell!AbsNext
  <2>4. CASE ContentHashHit(c)
    <3>1. /\ ~ ByProviderId(c) /\ input' = input /\ keys' = keys
          /\ status' = [status EXCEPT ![c] = "duplicate"]
      BY <2>4 DEF ContentHashHit, AnswerDuplicate, Answer
    <3>2. QED
      BY <3>1, StuttersOutside DEF GateStatus
  <2>5. CASE ContentHashInsert(c)
    <3>1. /\ ~ ByProviderId(c) /\ input' = input /\ keys' = keys \cup {c}
          /\ status' = [status EXCEPT ![c] = "novel"]
      BY <2>5 DEF ContentHashInsert, At, AnswerNovel, Answer, StageMatchesStatus
    <3>2. QED
      BY <3>1, StuttersOutside DEF GateStatus
  <2>6. CASE GateFailure(c)
    <3>1. gate[c] # "answered" /\ AnswerError(c)
      BY <2>6 DEF GateFailure
    <3>2. CASE ByProviderId(c)
      BY <3>1, <3>2, ErrorFails DEF Cell!AbsNext
    <3>3. CASE ~ ByProviderId(c)
      <4>1. input' = input /\ keys' = keys /\ status' = [status EXCEPT ![c] = "error"]
        BY <3>1 DEF AnswerError, Answer
      <4>2. QED
        BY <3>3, <4>1, StuttersOutside DEF GateStatus
    <3>4. QED
      BY <3>2, <3>3
  <2>7. QED
    BY <1>1, <2>1, <2>2, <2>3, <2>4, <2>5, <2>6 DEF CheckIdempotency
<1>2. CASE \/ Tick
           \/ \E S \in SUBSET Calls : Lose(S)
           \/ \E k, m \in Calls : LinkIdempotencyKey(k, m)
  BY <1>2, StuttersOutside DEF Tick, Lose, LinkIdempotencyKey
<1>3. QED
  BY <1>1, <1>2 DEF GateNext

\* The pipeline, its faults and crashes included, is an atomic test-and-set
\* per (provider, provider message id).
THEOREM IngestImplementsTestAndSet == IngestSpec => ImplementsTestAndSet
<1>1. IngestInit => Cell!AbsInit
  BY CellInitially
<1>2. GateInv /\ [GateNext]_gateVars => [Cell!AbsNext]_(Cell!absVars)
  <2> SUFFICES ASSUME GateInv, [GateNext]_gateVars
               PROVE  Cell!AbsNext \/ UNCHANGED Cell!absVars
    OBVIOUS
  <2>1. UNCHANGED <<Identity, Owner, Verdict>> => UNCHANGED Cell!absVars
    BY DEF Identity, Owner, Verdict, Cell!absVars
  <2>2. CASE GateNext
    BY <2>1, <2>2, GateStepSimulated
  <2>3. CASE UNCHANGED gateVars
    BY <2>1, <2>3, StuttersOutside DEF gateVars
  <2>4. QED
    BY <2>2, <2>3
<1>3. IngestSpec => [](GateInv) /\ [][GateNext]_gateVars
  BY IngestImplementsGate, GateInvariant, PTL DEF GateSpec
<1>4. QED
  BY <1>1, <1>2, <1>3, PTL DEF IngestSpec, ImplementsTestAndSet, Cell!AbsSpec
=============================================================================
