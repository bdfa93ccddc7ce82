-------------------------- MODULE CommsGateProofs --------------------------
(***************************************************************************)
(* Proofs about the gate alone, for any number of calls, messages and      *)
(* ticks: GateInv is inductive and contains the gate's safety properties.  *)
(***************************************************************************)
EXTENDS IdempotencyChecker, TLAPS

-----------------------------------------------------------------------------
(* The inductive invariant.                                                *)

\* The stage a call is in and what it has been told go together.
StageMatchesStatus ==
  \A c \in Calls :
    /\ (status[c] = "none") <=> (gate[c] # "answered")
    /\ gate[c] = "conflict" => ByProviderId(c)
    /\ gate[c] = "miss" => ~ ByProviderId(c)

\* No two rows of idempotency_keys carry one provider identity.
KeysDistinct ==
  \A c, d \in keys : c # d => ~ SameProviderKey(c, d)

\* What was answered before a call was planned was planned no later.
BeforeIsEarlier ==
  \A c \in Calls : \A d \in before[c] :
    /\ gate[c] # "idle"
    /\ gate[d] = "answered"
    /\ firstSeenAt[d] <= firstSeenAt[c]

PlannedInThePast == \A c \in Calls : firstSeenAt[c] <= clock

\* A call that found nothing in its window still has nothing there among the
\* calls that were over before it was planned.
MissStillHolds ==
  \A c \in Calls :
    gate[c] = "miss" =>
      \A d \in before[c] :
        status[d] = "novel" /\ SameContentKey(d, c)
          => firstSeenAt[c] - firstSeenAt[d] > DEDUP_WINDOW

GateInv ==
  /\ GateTypeOK
  /\ StageMatchesStatus
  /\ OnlyNovelClaims
  /\ KeysDistinct
  /\ ConflictRowVisible
  /\ DuplicateIsGrounded
  /\ BeforeIsEarlier
  /\ PlannedInThePast
  /\ MissStillHolds
  /\ SequentialContentDedup

LEMMA GateInitially == GateInit => GateInv
<1> USE GateAssumption, DeliveryAssumption
<1> SUFFICES ASSUME GateInit PROVE GateInv
  OBVIOUS
<1>1. GateTypeOK
  BY DEF GateInit, DeliveryInit, GateTypeOK, GateStage, GateStatus
<1>2. StageMatchesStatus /\ OnlyNovelClaims /\ KeysDistinct /\ ConflictRowVisible
  BY DEF GateInit, StageMatchesStatus, OnlyNovelClaims, KeysDistinct, ConflictRowVisible
<1>3. DuplicateIsGrounded /\ BeforeIsEarlier /\ PlannedInThePast
  BY DEF GateInit, DuplicateIsGrounded, BeforeIsEarlier, PlannedInThePast
<1>4. MissStillHolds /\ SequentialContentDedup
  BY DEF GateInit, MissStillHolds, SequentialContentDedup
<1>5. QED
  BY <1>1, <1>2, <1>3, <1>4 DEF GateInv

-----------------------------------------------------------------------------
(* Every step preserves GateInv, one lemma per kind of step.               *)

\* What answering a call does to the functions indexed by calls.
LEMMA AnswerEffect ==
  ASSUME GateTypeOK, NEW c \in Calls, NEW result \in GateStatus, Answer(c, result)
  PROVE  /\ gate' \in [Calls -> GateStage]
         /\ status' \in [Calls -> GateStatus]
         /\ gate'[c] = "answered" /\ status'[c] = result
         /\ \A d \in Calls \ {c} : gate'[d] = gate[d] /\ status'[d] = status[d]
         /\ UNCHANGED <<input, lost, clock, linked, firstSeenAt, before>>
BY DEF GateTypeOK, Answer, GateStage, GateStatus

\* Identities are fixed for as long as the inputs are.
LEMMA SameIdentities ==
  ASSUME input' = input, NEW c, NEW d
  PROVE  /\ ByProviderId(c)' <=> ByProviderId(c)
         /\ SameProviderKey(c, d)' <=> SameProviderKey(c, d)
         /\ SameContentKey(c, d)' <=> SameContentKey(c, d)
BY DEF ByProviderId, SameProviderKey, SameContentKey, ContentHash

LEMMA PlanKeepsInv ==
  ASSUME GateInv, NEW c \in Calls, Plan(c)
  PROVE  GateInv'
<1> USE GateAssumption DEF GateInv
<1>1. /\ UNCHANGED <<input, lost, clock, keys, linked, status, matchedKey, linkedSeen>>
      /\ gate[c] = "idle" /\ gate'[c] = "planned" /\ firstSeenAt'[c] = clock
      /\ before'[c] = {d \in Calls : gate[d] = "answered"}
      /\ \A d \in Calls \ {c} : /\ gate'[d] = gate[d]
                                /\ firstSeenAt'[d] = firstSeenAt[d]
                                /\ before'[d] = before[d]
  BY DEF Plan, GateTypeOK
<1>2. GateTypeOK'
  BY DEF Plan, GateTypeOK, GateStage
<1>3. StageMatchesStatus' /\ OnlyNovelClaims' /\ KeysDistinct'
  BY <1>1, SameIdentities DEF StageMatchesStatus, OnlyNovelClaims, KeysDistinct, GateTypeOK
<1>4. ConflictRowVisible'
  BY <1>1 DEF ConflictRowVisible, ProviderKeyHolders, SameProviderKey, ByProviderId
<1>5. DuplicateIsGrounded'
  <2> SUFFICES ASSUME NEW d \in Calls, status[d] = "duplicate"
               PROVE  /\ matchedKey[d] \in keys \ {d}
                      /\ \/ SameProviderKey(matchedKey[d], d)
                         \/ SameContentKey(matchedKey[d], d) /\ InWindow(matchedKey[d], d)'
    BY <1>1, SameIdentities DEF DuplicateIsGrounded
  <2>1. d # c /\ matchedKey[d] \in Calls \ {c}
    BY <1>1 DEF StageMatchesStatus, DuplicateIsGrounded, OnlyNovelClaims, GateTypeOK
  <2>2. QED
    BY <1>1, <2>1 DEF DuplicateIsGrounded, InWindow
<1>6. BeforeIsEarlier' /\ PlannedInThePast'
  BY <1>1 DEF BeforeIsEarlier, PlannedInThePast, GateTypeOK
<1>7. MissStillHolds' /\ SequentialContentDedup'
  BY <1>1, SameIdentities DEF MissStillHolds, SequentialContentDedup, StageMatchesStatus,
     BeforeIsEarlier, GateTypeOK
<1>8. QED
  BY <1>2, <1>3, <1>4, <1>5, <1>6, <1>7

\* Answering "novel" is sound if no row holds the identity already and, on the
\* fallback path, the earlier calls are out of the window.
LEMMA NovelKeepsInv ==
  ASSUME GateInv, NEW c \in Calls, AnswerNovel(c),
         gate[c] \in {"planned", "miss"},
         ByProviderId(c) => ProviderKeyHolders(c) = {},
         ~ ByProviderId(c) => gate[c] = "miss"
  PROVE  GateInv'
<1> USE GateAssumption DEF GateInv
<1>1. /\ gate'[c] = "answered" /\ status'[c] = "novel"
      /\ gate' \in [Calls -> GateStage] /\ status' \in [Calls -> GateStatus]
      /\ \A d \in Calls \ {c} : gate'[d] = gate[d] /\ status'[d] = status[d]
      /\ UNCHANGED <<input, lost, clock, linked, firstSeenAt, before>>
  BY AnswerEffect DEF AnswerNovel, GateStatus
<1>2. keys' = keys \cup {c} /\ UNCHANGED <<matchedKey, linkedSeen>>
  BY DEF AnswerNovel
<1>3. status[c] = "none" /\ c \notin keys
  BY DEF StageMatchesStatus, OnlyNovelClaims
<1>4. GateTypeOK'
  BY <1>1, <1>2 DEF GateTypeOK
<1>5. StageMatchesStatus' /\ OnlyNovelClaims'
  BY <1>1, <1>2, SameIdentities DEF StageMatchesStatus, OnlyNovelClaims
<1>6. KeysDistinct'
  <2>1. \A k \in keys : ~ SameProviderKey(k, c) /\ ~ SameProviderKey(c, k)
    BY DEF ProviderKeyHolders, SameProviderKey
  <2>2. QED
    BY <1>1, <1>2, <2>1, SameIdentities DEF KeysDistinct
<1>7. ConflictRowVisible'
  BY <1>1, <1>2 DEF ConflictRowVisible, ProviderKeyHolders, SameProviderKey, ByProviderId
<1>8. DuplicateIsGrounded'
  BY <1>1, <1>2, <1>3, SameIdentities DEF DuplicateIsGrounded, InWindow
<1>9. BeforeIsEarlier' /\ PlannedInThePast'
  BY <1>1 DEF BeforeIsEarlier, PlannedInThePast, GateTypeOK
<1>10. MissStillHolds'
  <2>1. \A d \in Calls : c \notin before[d]
    BY <1>3 DEF BeforeIsEarlier, StageMatchesStatus
  <2>2. QED
    BY <1>1, <2>1, SameIdentities DEF MissStillHolds, GateTypeOK
<1>11. SequentialContentDedup'
  <2>1. \A d \in Calls : c \notin before[d]
    BY <1>3 DEF BeforeIsEarlier, StageMatchesStatus
  <2>2. \A d \in before[c] : status[d] = "novel" /\ SameContentKey(d, c)
                               => firstSeenAt[c] - firstSeenAt[d] > DEDUP_WINDOW
    BY DEF MissStillHolds, SameContentKey
  <2>3. QED
    BY <1>1, <2>1, <2>2, SameIdentities DEF SequentialContentDedup, GateTypeOK
<1>12. QED
  BY <1>4, <1>5, <1>6, <1>7, <1>8, <1>9, <1>10, <1>11

\* Answering without writing a key: an error, or a duplicate of row k.
LEMMA RefusalKeepsInv ==
  ASSUME GateInv, NEW c \in Calls,
         gate[c] \in {"planned", "conflict", "miss"},
         \/ AnswerError(c)
         \/ \E k \in keys :
              /\ AnswerDuplicate(c, k)
              /\ SameProviderKey(k, c) \/ (SameContentKey(k, c) /\ InWindow(k, c))
  PROVE  GateInv'
<1> USE GateAssumption DEF GateInv
<1>1. PICK result \in {"error", "duplicate"} : Answer(c, result)
  BY DEF AnswerError, AnswerDuplicate
<1>2. /\ gate'[c] = "answered" /\ status'[c] = result
      /\ gate' \in [Calls -> GateStage] /\ status' \in [Calls -> GateStatus]
      /\ \A d \in Calls \ {c} : gate'[d] = gate[d] /\ status'[d] = status[d]
      /\ UNCHANGED <<input, lost, clock, linked, firstSeenAt, before>>
  BY <1>1, AnswerEffect DEF GateStatus
<1>3. keys' = keys
  BY DEF AnswerError, AnswerDuplicate
<1>4. status[c] = "none" /\ c \notin keys
  BY DEF StageMatchesStatus, OnlyNovelClaims
<1>5. GateTypeOK'
  <2>1. matchedKey' \in [Calls -> Calls \cup {None}] /\ linkedSeen' \in [Calls -> Calls \cup {None}]
    BY DEF AnswerError, AnswerDuplicate, GateTypeOK
  <2>2. QED
    BY <1>2, <1>3, <2>1 DEF GateTypeOK
<1>6. StageMatchesStatus' /\ OnlyNovelClaims'
  BY <1>2, <1>3, <1>4, SameIdentities DEF StageMatchesStatus, OnlyNovelClaims
<1>7. KeysDistinct' /\ ConflictRowVisible'
  BY <1>2, <1>3, SameIdentities
  DEF KeysDistinct, ConflictRowVisible, ProviderKeyHolders, SameProviderKey, ByProviderId
<1>8. DuplicateIsGrounded'
  <2>1. \A d \in Calls \ {c} : matchedKey'[d] = matchedKey[d]
    BY DEF AnswerError, AnswerDuplicate, GateTypeOK
  <2>2. ASSUME status'[c] = "duplicate"
        PROVE  /\ matchedKey'[c] \in keys \ {c}
               /\ \/ SameProviderKey(matchedKey'[c], c)
                  \/ SameContentKey(matchedKey'[c], c) /\ InWindow(matchedKey'[c], c)
    <3>1. ~ AnswerError(c)
      BY <1>2, <2>2, AnswerEffect DEF AnswerError, GateStatus
    <3>2. QED
      BY <1>4, <3>1 DEF AnswerDuplicate, GateTypeOK
  <2>3. QED
    BY <1>2, <1>3, <2>1, <2>2
    DEF DuplicateIsGrounded, InWindow, SameProviderKey, SameContentKey, ByProviderId, ContentHash
<1>9. BeforeIsEarlier' /\ PlannedInThePast'
  BY <1>2 DEF BeforeIsEarlier, PlannedInThePast, GateTypeOK
<1>10. MissStillHolds' /\ SequentialContentDedup'
  BY <1>2, SameIdentities DEF MissStillHolds, SequentialContentDedup, GateTypeOK
<1>11. QED
  BY <1>5, <1>6, <1>7, <1>8, <1>9, <1>10

\* Between its two statements a call waits with what the first one told it.
LEMMA WaitingKeepsInv ==
  ASSUME GateInv, NEW c \in Calls, ProviderIdConflict(c) \/ ContentHashMiss(c)
  PROVE  GateInv'
<1> USE GateAssumption DEF GateInv
<1>1. /\ gate[c] = "planned" /\ gate'[c] \in {"conflict", "miss"}
      /\ gate' \in [Calls -> GateStage]
      /\ \A d \in Calls \ {c} : gate'[d] = gate[d]
      /\ UNCHANGED <<input, lost, clock, keys, linked, firstSeenAt, status,
                     matchedKey, linkedSeen, before>>
  BY DEF ProviderIdConflict, ContentHashMiss, At, GateTypeOK, GateStage
<1>2. /\ gate'[c] = "conflict" => ByProviderId(c) /\ ProviderKeyHolders(c) # {}
      /\ gate'[c] = "miss" => ~ ByProviderId(c) /\ WindowMatches(c) = {}
  BY <1>1 DEF ProviderIdConflict, ContentHashMiss, GateTypeOK
<1>3. GateTypeOK'
  BY <1>1 DEF GateTypeOK
<1>4. StageMatchesStatus' /\ OnlyNovelClaims' /\ KeysDistinct'
  BY <1>1, <1>2, SameIdentities DEF StageMatchesStatus, OnlyNovelClaims, KeysDistinct
<1>5. ConflictRowVisible'
  BY <1>1, <1>2 DEF ConflictRowVisible, ProviderKeyHolders, SameProviderKey, ByProviderId
<1>6. DuplicateIsGrounded' /\ BeforeIsEarlier' /\ PlannedInThePast' /\ SequentialContentDedup'
  <2>1. DuplicateIsGrounded' /\ SequentialContentDedup'
    BY <1>1, SameIdentities DEF DuplicateIsGrounded, InWindow, SequentialContentDedup
  <2>2. BeforeIsEarlier' /\ PlannedInThePast'
    BY <1>1 DEF BeforeIsEarlier, PlannedInThePast, GateTypeOK
  <2>3. QED
    BY <2>1, <2>2
<1>7. MissStillHolds'
  <2>1. ASSUME gate'[c] = "miss", NEW d \in before[c],
               status[d] = "novel", SameContentKey(d, c)
        PROVE  firstSeenAt[c] - firstSeenAt[d] > DEDUP_WINDOW
    <3>1. d \in keys /\ d \notin WindowMatches(c)
      BY <1>2, <2>1 DEF OnlyNovelClaims, GateTypeOK
    <3>2. ~ InWindow(d, c)
      BY <2>1, <3>1 DEF WindowMatches
    <3>3. QED
      BY <2>1, <3>2 DEF InWindow, BeforeIsEarlier, GateTypeOK
  <2>2. QED
    BY <1>1, <2>1, SameIdentities DEF MissStillHolds
<1>8. QED
  BY <1>3, <1>4, <1>5, <1>6, <1>7

\* Backlinks, the clock and crashes touch nothing the gate decides by.
LEMMA OutsideKeepsInv ==
  ASSUME GateInv,
         \/ Tick
         \/ \E S \in SUBSET Calls : Lose(S)
         \/ \E k, m \in Calls : LinkIdempotencyKey(k, m)
         \/ UNCHANGED gateVars
  PROVE  GateInv'
<1> USE GateAssumption DEF GateInv
<1>1. UNCHANGED <<input, keys, gate, firstSeenAt, status, matchedKey, linkedSeen, before>>
  BY DEF Tick, Lose, LinkIdempotencyKey, gateVars
<1>2. clock' \in 0 .. MaxTime /\ clock <= clock'
  BY DEF Tick, Lose, LinkIdempotencyKey, gateVars, GateTypeOK
<1>3. lost' \subseteq Calls /\ linked' \in [Calls -> Calls \cup {None}]
  BY DEF Tick, Lose, LinkIdempotencyKey, gateVars, GateTypeOK
<1>4. GateTypeOK'
  BY <1>1, <1>2, <1>3 DEF GateTypeOK
<1>5. StageMatchesStatus' /\ OnlyNovelClaims' /\ KeysDistinct'
  BY <1>1, SameIdentities DEF StageMatchesStatus, OnlyNovelClaims, KeysDistinct
<1>6. ConflictRowVisible' /\ DuplicateIsGrounded'
  BY <1>1, SameIdentities
  DEF ConflictRowVisible, ProviderKeyHolders, SameProviderKey, ByProviderId,
      DuplicateIsGrounded, InWindow
<1>7. BeforeIsEarlier' /\ PlannedInThePast'
  BY <1>1, <1>2 DEF BeforeIsEarlier, PlannedInThePast, GateTypeOK
<1>8. MissStillHolds' /\ SequentialContentDedup'
  BY <1>1, SameIdentities DEF MissStillHolds, SequentialContentDedup
<1>9. QED
  BY <1>4, <1>5, <1>6, <1>7, <1>8

LEMMA CheckKeepsInv ==
  ASSUME GateInv, NEW c \in Calls, CheckIdempotency(c)
  PROVE  GateInv'
<1>1. CASE Plan(c)
  BY <1>1, PlanKeepsInv
<1>2. CASE ProviderIdInsert(c)
  BY <1>2, NovelKeepsInv DEF ProviderIdInsert, At
<1>3. CASE ProviderIdConflict(c)
  BY <1>3, WaitingKeepsInv
<1>4. CASE ProviderIdConflictFetch(c)
  BY <1>4, RefusalKeepsInv DEF ProviderIdConflictFetch, At, ProviderKeyHolders
<1>5. CASE ContentHashHit(c)
  BY <1>5, RefusalKeepsInv DEF ContentHashHit, At, NewestMatches, WindowMatches
<1>6. CASE ContentHashMiss(c)
  BY <1>6, WaitingKeepsInv
<1>7. CASE ContentHashInsert(c)
  BY <1>7, NovelKeepsInv DEF ContentHashInsert, At, GateInv, StageMatchesStatus
<1>8. CASE GateFailure(c)
  BY <1>8, RefusalKeepsInv DEF GateFailure
<1>9. QED
  BY <1>1, <1>2, <1>3, <1>4, <1>5, <1>6, <1>7, <1>8 DEF CheckIdempotency

\* GateInv holds in every reachable state of the gate.
THEOREM GateInvariant == GateSpec => []GateInv
<1>1. GateInv /\ [GateNext]_gateVars => GateInv'
  BY CheckKeepsInv, OutsideKeepsInv DEF GateNext
<1>2. QED
  BY <1>1, GateInitially, PTL DEF GateSpec

\* One "novel" per provider identity: the rows' distinctness read off the
\* answers, since only "novel" writes a row.
LEMMA InvImpliesExclusive == GateInv => ProviderGateExclusive
BY DEF GateInv, KeysDistinct, OnlyNovelClaims, ProviderGateExclusive

\* At most one call per (provider, provider message id) is told "novel".
THEOREM GateIsExclusive == GateSpec => []ProviderGateExclusive
BY GateInvariant, InvImpliesExclusive, PTL

\* Two sequential calls are both novel for one content only past the window.
THEOREM GateDedupsSequentially == GateSpec => []SequentialContentDedup
<1>1. GateInv => SequentialContentDedup
  BY DEF GateInv
<1>2. QED
  BY <1>1, GateInvariant, PTL

\* A duplicate rests on another call's key row of the same identity.
THEOREM GateDuplicatesAreGrounded == GateSpec => []DuplicateIsGrounded
<1>1. GateInv => DuplicateIsGrounded
  BY DEF GateInv
<1>2. QED
  BY <1>1, GateInvariant, PTL

\* Errors, duplicates and crashes leave no key behind.
THEOREM GateClaimsOnlyNovel == GateSpec => []OnlyNovelClaims
<1>1. GateInv => OnlyNovelClaims
  BY DEF GateInv
<1>2. QED
  BY <1>1, GateInvariant, PTL

\* The ConflictRowMissing branch of the conflict fetch is unreachable.
THEOREM GateConflictRowVisible == GateSpec => []ConflictRowVisible
<1>1. GateInv => ConflictRowVisible
  BY DEF GateInv
<1>2. QED
  BY <1>1, GateInvariant, PTL
=============================================================================
