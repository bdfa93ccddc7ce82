------------------------ MODULE IdempotencyChecker -------------------------
(***************************************************************************)
(* comms/idempotencyChecker: the gate every inbound message passes before  *)
(* it may be stored, and link(), the later backfill of the stored row's    *)
(* id.  The module is the only writer of the table idempotency_keys.       *)
(*                                                                         *)
(* Every await on the database is a step of its own, so the calls          *)
(* interleave between any two statements; each statement is atomic.        *)
(***************************************************************************)
EXTENDS CommsDelivery

CONSTANTS
  DEDUP_WINDOW,  \* ten minutes, in ticks of the clock
  MaxTime        \* bound of the clock

ASSUME GateAssumption ==
  /\ DEDUP_WINDOW \in Nat
  /\ MaxTime \in Nat

VARIABLES
  clock,
  keys,         \* ids of the rows of idempotency_keys; row k holds k's plan
  linked,       \* linked[k]: the column linked_message_id of row k
  gate,         \* gate[c]: how far checkIdempotency has come in call c
  firstSeenAt,  \* firstSeenAt[c]: the instant call c was planned under
  status,       \* status[c]: the IdempotencyResult of call c
  matchedKey,   \* matchedKey[c]: matchedKeyId of a duplicate result
  linkedSeen,   \* linkedSeen[c]: linkedMessageId of a duplicate result
  before        \* history: the calls answered before c was planned

gateVars == <<input, lost, clock, keys, linked, gate, firstSeenAt, status,
              matchedKey, linkedSeen, before>>

GateStage == {"idle", "planned", "conflict", "miss", "answered"}
GateStatus == {"none", "novel", "duplicate", "error"}

GateTypeOK ==
  /\ input \in [Calls -> Messages]
  /\ lost \subseteq Calls
  /\ clock \in 0 .. MaxTime
  /\ keys \subseteq Calls
  /\ linked \in [Calls -> Calls \cup {None}]
  /\ gate \in [Calls -> GateStage]
  /\ firstSeenAt \in [Calls -> 0 .. MaxTime]
  /\ status \in [Calls -> GateStatus]
  /\ matchedKey \in [Calls -> Calls \cup {None}]
  /\ linkedSeen \in [Calls -> Calls \cup {None}]
  /\ before \in [Calls -> SUBSET Calls]

GateInit ==
  /\ DeliveryInit
  /\ clock = 0
  /\ keys = {}
  /\ linked = [c \in Calls |-> None]
  /\ gate = [c \in Calls |-> "idle"]
  /\ firstSeenAt = [c \in Calls |-> 0]
  /\ status = [c \in Calls |-> "none"]
  /\ matchedKey = [c \in Calls |-> None]
  /\ linkedSeen = [c \in Calls |-> None]
  /\ before = [c \in Calls |-> {}]

-----------------------------------------------------------------------------
(* The plan (pure.ts).                                                     *)

\* A null and an empty provider message id both take the fallback.
ByProviderId(c) == input[c].providerMessageId \notin {NullId, EmptyId}

SameProviderKey(k, c) ==
  /\ ByProviderId(k) /\ ByProviderId(c)
  /\ input[k].provider = input[c].provider
  /\ input[k].providerMessageId = input[c].providerMessageId

SameContentKey(k, c) ==
  /\ ~ ByProviderId(k) /\ ~ ByProviderId(c)
  /\ ContentHash(k) = ContentHash(c)

\* Mutant: the lower end of the window is exclusive.
InWindowExclusive(k, c) ==
  /\ firstSeenAt[k] > firstSeenAt[c] - DEDUP_WINDOW
  /\ firstSeenAt[k] <= firstSeenAt[c]

\* Both ends of the window are inclusive.
InWindow(k, c) ==
  /\ firstSeenAt[k] >= firstSeenAt[c] - DEDUP_WINDOW
  /\ firstSeenAt[k] <= firstSeenAt[c]

\* Mutant: the start of the window is stored as first_seen_at.
PlanWindowStart(c) ==
  /\ c \notin lost
  /\ gate[c] = "idle"
  /\ gate' = [gate EXCEPT ![c] = "planned"]
  /\ firstSeenAt' = [firstSeenAt EXCEPT ![c] = clock - DEDUP_WINDOW]
  /\ before' = [before EXCEPT ![c] = {d \in Calls : gate[d] = "answered"}]
  /\ UNCHANGED <<input, lost, clock, keys, linked, status, matchedKey, linkedSeen>>

\* The caller reads the clock and the planner derives the plan from it.
Plan(c) ==
  /\ c \notin lost
  /\ gate[c] = "idle"
  /\ gate' = [gate EXCEPT ![c] = "planned"]
  /\ firstSeenAt' = [firstSeenAt EXCEPT ![c] = clock]
  /\ before' = [before EXCEPT ![c] = {d \in Calls : gate[d] = "answered"}]
  /\ UNCHANGED <<input, lost, clock, keys, linked, status, matchedKey, linkedSeen>>

-----------------------------------------------------------------------------
(* The executor (index.ts).                                                *)

At(c, stage) == c \notin lost /\ gate[c] = stage

Answer(c, result) ==
  /\ gate' = [gate EXCEPT ![c] = "answered"]
  /\ status' = [status EXCEPT ![c] = result]
  /\ UNCHANGED <<input, lost, clock, linked, firstSeenAt, before>>

AnswerDuplicate(c, k) ==
  /\ Answer(c, "duplicate")
  /\ matchedKey' = [matchedKey EXCEPT ![c] = k]
  /\ linkedSeen' = [linkedSeen EXCEPT ![c] = linked[k]]
  /\ UNCHANGED keys

AnswerNovel(c) ==
  /\ Answer(c, "novel")
  /\ keys' = keys \cup {c}
  /\ UNCHANGED <<matchedKey, linkedSeen>>

ProviderKeyHolders(c) == {k \in keys : SameProviderKey(k, c)}

\* Mutant: an INSERT that trusts an earlier read instead of ON CONFLICT.
ProviderIdInsertBlind(c) ==
  /\ At(c, "planned") /\ ByProviderId(c)
  /\ AnswerNovel(c)

\* INSERT .. ON CONFLICT DO NOTHING RETURNING id returned the new row.
ProviderIdInsert(c) ==
  /\ At(c, "planned") /\ ByProviderId(c)
  /\ ProviderKeyHolders(c) = {}
  /\ AnswerNovel(c)

\* The same statement returned nothing: fetch the holder in a second one.
ProviderIdConflict(c) ==
  /\ At(c, "planned") /\ ByProviderId(c)
  /\ ProviderKeyHolders(c) # {}
  /\ gate' = [gate EXCEPT ![c] = "conflict"]
  /\ UNCHANGED <<input, lost, clock, keys, linked, firstSeenAt, status,
                 matchedKey, linkedSeen, before>>

AnswerError(c) ==
  /\ Answer(c, "error")
  /\ UNCHANGED <<keys, matchedKey, linkedSeen>>

\* Mutant: a holder without a backlink is taken for a message never stored.
ProviderIdConflictReclaim(c) ==
  /\ At(c, "conflict")
  /\ \E k \in ProviderKeyHolders(c) :
       IF linked[k] = None THEN AnswerNovel(c) ELSE AnswerDuplicate(c, k)

\* A holder that has vanished (ConflictRowMissing) is answered as an error.
ProviderIdConflictFetch(c) ==
  /\ At(c, "conflict")
  /\ IF ProviderKeyHolders(c) = {}
       THEN AnswerError(c)
       ELSE \E k \in ProviderKeyHolders(c) : AnswerDuplicate(c, k)

\* Mutant: the SELECT has no lower bound.
WindowMatchesUnbounded(c) ==
  {k \in keys : SameContentKey(k, c) /\ firstSeenAt[k] <= firstSeenAt[c]}

WindowMatches(c) == {k \in keys : SameContentKey(k, c) /\ InWindow(k, c)}

\* ORDER BY first_seen_at DESC, id LIMIT 1: ids are random, so any newest row.
NewestMatches(c) ==
  {k \in WindowMatches(c) :
     \A j \in WindowMatches(c) : firstSeenAt[j] <= firstSeenAt[k]}

ContentHashHit(c) ==
  /\ At(c, "planned") /\ ~ ByProviderId(c)
  /\ \E k \in NewestMatches(c) : AnswerDuplicate(c, k)

ContentHashMiss(c) ==
  /\ At(c, "planned") /\ ~ ByProviderId(c)
  /\ WindowMatches(c) = {}
  /\ gate' = [gate EXCEPT ![c] = "miss"]
  /\ UNCHANGED <<input, lost, clock, keys, linked, firstSeenAt, status,
                 matchedKey, linkedSeen, before>>

\* A plain INSERT: no unique index covers content-hash keys.
ContentHashInsert(c) ==
  /\ At(c, "miss")
  /\ AnswerNovel(c)

\* Any of the four statements throws: nothing is written, gateFailure answers.
GateFailure(c) ==
  /\ c \notin lost
  /\ gate[c] \in {"planned", "conflict", "miss"}
  /\ AnswerError(c)

\* Mutant: the UPDATE has no WHERE clause.
LinkEveryKey(k, m) ==
  /\ k \in keys
  /\ linked' = [j \in Calls |-> IF j \in keys THEN m ELSE linked[j]]
  /\ UNCHANGED <<input, lost, clock, keys, gate, firstSeenAt, status,
                 matchedKey, linkedSeen, before>>

\* UPDATE .. SET linked_message_id WHERE id = k RETURNING id.
LinkIdempotencyKey(k, m) ==
  /\ k \in keys
  /\ linked' = [linked EXCEPT ![k] = m]
  /\ UNCHANGED <<input, lost, clock, keys, gate, firstSeenAt, status,
                 matchedKey, linkedSeen, before>>

-----------------------------------------------------------------------------
(* The environment.                                                        *)

Tick ==
  /\ clock < MaxTime
  /\ clock' = clock + 1
  /\ UNCHANGED <<input, lost, keys, linked, gate, firstSeenAt, status,
                 matchedKey, linkedSeen, before>>

\* The process dies: the calls in S stop for good, the database stays.
Lose(S) ==
  /\ lost' = lost \cup S
  /\ UNCHANGED <<input, clock, keys, linked, gate, firstSeenAt, status,
                 matchedKey, linkedSeen, before>>

CheckIdempotency(c) ==
  \/ Plan(c)
  \/ ProviderIdInsert(c)
  \/ ProviderIdConflict(c)
  \/ ProviderIdConflictFetch(c)
  \/ ContentHashHit(c)
  \/ ContentHashMiss(c)
  \/ ContentHashInsert(c)
  \/ GateFailure(c)

GateNext ==
  \/ \E c \in Calls : CheckIdempotency(c)
  \/ \E k, m \in Calls : LinkIdempotencyKey(k, m)
  \/ Tick
  \/ \E S \in SUBSET Calls : Lose(S)

GateSpec == GateInit /\ [][GateNext]_gateVars

-----------------------------------------------------------------------------
(* Properties.                                                             *)

\* Of all the calls that ever carried one (provider, provider message id),
\* at most one is told "novel", however their statements interleave.
ProviderGateExclusive ==
  \A c, d \in Calls :
    /\ c # d
    /\ SameProviderKey(c, d)
    /\ status[c] = "novel"
    => status[d] # "novel"

\* On the content-hash path only calls that overlapped can both be novel
\* inside one window: a call planned after another was answered "novel" for
\* the same content is novel again only past the window.
SequentialContentDedup ==
  \A c, d \in Calls :
    /\ d \in before[c]
    /\ SameContentKey(d, c)
    /\ status[d] = "novel"
    /\ status[c] = "novel"
    => firstSeenAt[c] - firstSeenAt[d] > DEDUP_WINDOW

\* A "duplicate" always rests on an earlier sighting: a key row written by
\* another call for the same identity, inside the window when the identity
\* is only a content hash.
DuplicateIsGrounded ==
  \A c \in Calls :
    status[c] = "duplicate" =>
      /\ matchedKey[c] \in keys \ {c}
      /\ \/ SameProviderKey(matchedKey[c], c)
         \/ SameContentKey(matchedKey[c], c) /\ InWindow(matchedKey[c], c)

\* A call leaves a key behind exactly when it was answered "novel": one that
\* ended in an error, a duplicate or a crash before its INSERT has not used the
\* identity up, so a redelivery can still be novel.
OnlyNovelClaims ==
  \A c \in Calls : c \in keys <=> status[c] = "novel"

\* What the gate answers is true of the table: "duplicate" of a key that is there,
\* "novel" of the one it has written.
AnswersAreTrue == DuplicateIsGrounded /\ OnlyNovelClaims

\* The "impossible" branch of the conflict fetch: once the INSERT met a
\* conflict the holder stays visible to the second statement.
ConflictRowVisible ==
  \A c \in Calls : gate[c] = "conflict" => ProviderKeyHolders(c) # {}
=============================================================================
