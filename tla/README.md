# A formal model of onetrackmind

OneTrackMind is an assistant for a tradesperson in the field. A TypeScript backend takes
in messages, drafts actions with a language model, and holds every output for the user's
approval; a Flutter/iOS app records voice captures; a small receiver on a laptop collects
those captures into a corpus. This directory holds TLA+ modules of the parts of that
system whose correctness depends on orderings, failures and restarts, the TLC
configurations that check them, and TLAPS proofs of the most important properties.

Paths below are relative to the repository; `orchestration/`, `comms/` and `db/` stand in
`backend/src/`.

## 1. The system

| Component | State it keeps | Operations | Talks to |
|---|---|---|---|
| Idempotency gate `comms/idempotencyChecker` | table `idempotency_keys` | `checkIdempotency`, `linkIdempotencyKey` | SQLite, ingest caller |
| Comms log writer `comms/commsLogWriter` | table `comms_log` | `storeCommsLog` | SQLite, ingest caller |
| Ingest caller | (not in the repository yet) | gate, store, link | both of the above |
| Approval gate `orchestration/approvalGate` | listeners and timers | `sendApprovalRequest`, `waitForDecision`, `submitFeedback` | WebSocket, event emitter |
| Tool dispatch `orchestration/orchestratorTools`, `tools/` | PO counter in memory; `todos`, `orders_log`, `diagnostic_log` | `dispatchToolCall` over eight tools | approval gate, SQLite |
| Session persistence `orchestration/sessionPersistence` | session log, session cache | open, append, replay, purge | SQLite |
| Event classifier `orchestration/eventClassifier` | none | from source to kind of event; extraction or refusal | orchestrator |
| Context assembly `contextLoader`, `promptAssembler` | none | two fetches at once, a relevance filter, the trimming of history | SQLite |
| Model calls `primaryCall`, `preflight`, `modelAudit` | a stream, a request, their timers | a streamed call, six rules, an audit call | model API |
| Output router `outputRouter`, `formatters` | none | cut, and deliver per recipient | SMS, push, WebSocket |
| Orchestrator of a reply turn | (not in the repository yet) | the four above in a row | all of them |
| Migration runner `db/migrationRunner` | table `schema_migrations` | `runMigrations` | SQLite |
| Capture queue `app/lib/bench/capture_queue.dart` | a directory per entry: audio, JSON sidecar | enqueue, drain | submit client |
| Submit client `app/lib/bench/submit_client.dart` | none | `submit` with timeout | receiver over HTTP |
| Bench receiver `tools/bench-receiver` | corpus files: payload, JSON sidecar | `POST /v1/captures` | file system |
| iOS recorder `app/ios/Runner/Capture` | engine, file, `active`, profile, time stamps, buffered events | configure, start, stop, trigger, tap callback | audio thread, capture channel, Siri |
| Bench screen `app/lib/bench/bench_screen.dart` | `_recording`, settings, file operations after a stop | the record button, events, settings | capture channel, capture queue |
| Walkthrough, configuration, logging, mapping, scripts | none that matters here | | |

What is hard, and what makes each part correct:

- **Ingest.** Providers deliver messages more than once, and deliveries run concurrently.
  With a provider id the gate must be exclusive; with a content hash only overlapping
  calls may both pass. The key is written before the message is stored, with no
  transaction around the two: what is lost must be lost to a fault and to nothing else.
- **Approval and dispatch.** Decisions race timers; several gates share one emitter;
  requests are shown for ever; writes fail after the approval; the process restarts. No
  row and no draft without consent, and the reply must agree with the rows.
- **Capture submission.** App, network and receiver each fail between any two file
  operations; a request that was given up still runs. Audio may be deleted only when the
  receiver has the capture, nothing may be parked by a transient fault, and everything
  must come to rest.
- **Sessions.** The log is the truth and the cache is derived, but they are written by two
  statements, and any cached row is taken for current. The purge of one open runs over all
  sessions of the user while their clients read and write.
- **Migrations.** Each run is a process with its own connection. The tracker is read before
  the transaction begins, a ROLLBACK may fail unseen, and the process may die anywhere. A
  migration is in the database whole and recorded, or not at all; an ok is an ok for the
  whole directory; and what one run leaves must not stop the next.
- **Reply turn.** Two model calls race their timers, and late chunks and late answers
  arrive after the race. What a turn knows of open safety flags passes a filter and a
  threshold before it decides whether the second audit runs. The budget of the history may
  be negative. An SMS is stripped, cut at sentences or at the limit, and sent piece by
  piece to recipients that fail on their own.
- **Recorder.** The tap's callback runs on an audio thread beside the main thread, outlives
  the removal of its tap and reads a flag without a lock. The answer to a permission request
  comes at any time, so that two starts may both have found nothing recorded. Siri starts
  captures the screen did not ask for, before it listens even; one button works on a flag
  that events and results set, and the late failure of what follows a stop as well.

`PROJECT.json` lists each hazard with its line under "hazards", and the components.

## 2. Modules

| Module | What it is |
|---|---|
| `CommsDelivery` | the deliveries: a call, its provider, message id (or none, or empty), content |
| `IdempotencyChecker` | the gate, one action per SQL statement, and its properties |
| `CommsLogWriter` | the INSERT into `comms_log` |
| `CommsIngest` | gate, store, link composed, with crashes; refines `ProviderIdGate` |
| `ProviderIdGate` | abstract: one test-and-set cell per identity |
| `ApprovalGate` | listeners, timers, decision events, the user |
| `ToolDispatch` | `dispatchToolCall` over the gate, with tables and PO counter; refines `GatedWrite` |
| `GatedWrite` | abstract: an output is judged once and only an approved one goes out |
| `CaptureEntry` | the captures device and receiver share |
| `CaptureQueue` | the queue on the device, one action per file operation |
| `BenchReceiver` | the handler of `POST /v1/captures`, one action per await |
| `CaptureSubmission` | both, joined by a network that loses and delays; refines `CaptureDelivery` |
| `CaptureDelivery` | abstract: a capture is stored, then discarded on the device, then called synced, or parked for a cause |
| `SessionPersistence` | session log, cache, open, purge, one action per SQL statement |
| `MigrationRunner` | runs of `migrate.ts` on one database, one action per SQL statement; refines `AtomicMigrations` |
| `AtomicMigrations` | abstract: whole files are applied one at a time, each once |
| `Wording` | texts as sequences of classified tokens |
| `EventClassifier` | `classifyEvent` |
| `ContextLoader` | `loadContext`: both fetches, settings, the relevance filter |
| `PromptAssembler` | `assemblePrompt`, one action per message dropped |
| `PrimaryCall` | the streamed call and its timer |
| `Preflight` | the six deterministic rules |
| `ModelAudit` | when the second audit runs, its request and timer, its parser |
| `OutputRouter` | the four channels, `formatForSms` one pass of the loop per action |
| `ReplyTurn` | the seven above in one turn; refines `ReplyDelivery` |
| `ReplyDelivery` | abstract: a reply is judged once; cleared, it reaches one recipient after the other, in order |
| `CaptureCoordinator` | the recorder: main thread, main queue, tap callbacks |
| `BenchScreen` | the screen over the recorder, joined by the channels in both directions; refines `RecordingOrder` |
| `RecordingOrder` | abstract: one recording at a time, each handed on once in the order they ended |
| `MC...` | instances for TLC |
| `...Proofs` | theorems and proofs |

**State and code.** A *call* (`Calls`) is one invocation of `checkIdempotency` or
`dispatchToolCall`; a control variable (`gate`, `stage`, `handler`, `phase`) holds the
await it stands at, so each action is what the event loop runs between two awaits. A
statement that throws is an action of its own (`GateFailure`, `WriteFails`, `Fail`, ...)
and follows the catch block. Table rows are named by the call that wrote them: ids are
random and never collide. History variables, which no action of the code reads, are
`before` (calls that had been answered when a call was planned), `linkedSeen` (the link
that went out with a duplicate), `decided` (what the user decided looking at what),
`bootOf`, and `matchedKey`.

**Abstract specifications.** Each composition but the session's implements one; the mapping
stands beside the composition as an INSTANCE, and the run checks it as a PROPERTY.

| Composition | What maps to what |
|---|---|
| `CommsIngest` | the owner of a cell is the call that wrote the key of its identity |
| `ToolDispatch` | a verdict is how the gate settled; an output is out once its row is there or, if it has none, its reply says approved |
| `CaptureSubmission` | stored: both files of the corpus are there, torn or not (finding 3); discarded: the audio is deleted; outcome: the sidecar's, where a backoff is still pending |
| `MigrationRunner` | the committed database; statements, locks, rollbacks and crashes are stutters, a commit is the step |
| `ReplyTurn` | open until its audits are through; withheld if held or failed; its parcels and recipients count from when the cutting is over |
| `BenchScreen` | waiting: a result under way to the screen; the order of the channel is the order in which recordings ended |

They say what the invariants beside them do not: that nothing else ever happens. In
`ReplyDelivery`, for one, a reply that was held stays unsent whatever arrives late.

**Abstractions.** A content hash is the class of messages that share it. Draft texts,
timestamps and formatted numbers are left out; a PO number is its sequence. The clock of
the gate never runs backwards; `expires_at` of a key is written and read by nobody and is
left out. The gate's decisions are `approve` and everything else (`runGate` treats `edit`
as a rejection). A file is absent, torn or written: `writeFile` and `writeAsString`
truncate first and fill later. That `fs.access` fails for a file that exists, and that a
response body is JSON but no object, are not modelled. The wall clock behind the queue's
backoff is an action that may fire at any time.

In `SessionPersistence` a row is named by its index in the log, which only grows; the purge
marks indices. Replay is a set of states rather than one: SQL does not order two rows of
one timestamp, and rows of one model day may share it, so an acknowledgement of the same
day may come out either way. Left out of the state are `openedAt` and `lastInteractionAt`,
which no property is about, and `openItems` and `consistContext`, which replay always
leaves empty; a message carries no role, and every row has the current `schemaVersion`, the
only one that is written. A row that replay cannot read is one cause of `OpenThrows`.

In `MigrationRunner` a file is its version and name, so a renamed migration is another file
of the same version; contents are a number of statements, as `splitSqlStatements` yields,
and what they do is how many of them are in effect. Edits of an applied file, which the code
says it does not detect, are not modelled. A name that does not parse is one cause of
`LoadFails`. SQLite is modelled as it runs with its default rollback journal and no busy
timeout: BEGIN takes no lock, the first write takes the only one, another connection's write
fails at once while it is held, and closing or killing the holder rolls back. A reader that
meets the moment of a commit is a fault (`TrackerFails`). `disturbed` is a history variable.

In `ReplyTurn` a text is a sequence of tokens, each one unit long and of the classes the
code's patterns recognise; `Within` says which number or amount contains which other, for
the rules that look for substrings, and `Labels` which words name a machine. A line break
that is not a gap between words is left out. A message of the history is its estimate in
tokens, and the style profile a constant one. What is sent is a parcel: an interval of the
text, with an ellipsis if it was cut at the limit, so that "nothing lost, nothing twice" is
a statement about intervals. Left out: sender, thread and provider of an event, the layout
of prompts, the wording of the audit prompt, token counts in results, the encrypted copy of
a push message. Turns share nothing, so one turn is every turn. Of an API that stops at
`max_tokens` the model keeps that the stream ends as if it were whole.

In `CaptureCoordinator` a capture is named by the request that starts it. Methods and main
queue blocks run on the main thread, so each is one action; a start is one too although it
installs the tap before it ends, because what a callback does in between touches only what
the start has set by then or sets never, and it might as well have come right after.
`removeTap` lets no further callback begin but waits for none. A callback is four actions:
it begins, reads `firstBufferRecorded`, sets it and posts its block, and writes under the
lock; read and set are apart since no lock joins them. That a step of a start throws, before
or after the profile is taken over, is `StartFails`. `touched`, `heard` and `alone` are
history variables. In `BenchScreen` both directions of the platform channels are queues, and
the queue and the listener exist before the button can be pressed. What follows the
result of a stop (`bench_screen.dart:137-145`) has a length of its own: `enqueuing` holds the
captures whose files `enqueueAudio` writes, `FilesWritten` makes the call for their file
protection, `FilesFail` is a file error, which the catch for a PlatformException lets pass.
`Protect` answers that call either way, and a failure lands in the catch of the stop
(`:146-148`), which resets the flag whatever records by then; `hidden`, a history variable,
keeps what was active at that moment. The drain after it touches neither flag nor recorder.
Left out: snapshots and their timer, events on which no screen acts, the defaults of the Siri
path (a Siri start takes any profile), pickers, the stamp of `noteAppActive`, and `onCancel`.

**External parts.** SQLite's locks and transactions, the orchestrator that
logs and then updates the cache, and that runs a turn, the ingest caller, the user and the
WebSocket, iOS, the operating system that ends processes, and the network are modelled
from how the code uses them, with nothing assumed that the code could not meet: decisions are repeated, contradictory, late
or absent; crashes hit between any two steps.

## 3. Runs

| Run | Instance | Question |
|---|---|---|
| `ingest` | 3 calls, 2 providers, ids m1 and none, 2 hashes, window 1, clock to 2 | safety of gate and pipeline; refinement of `ProviderIdGate` |
| `ingest_empty_id` | the same with empty message ids | finding 1 |
| `dispatch` | 3 calls, 5 workloads, 1 restart | safety of approval and dispatch; refinement of `GatedWrite`; every started call is answered |
| `capture` | a recording and a note that is refused, 2 places for requests, at most 1 timeout, 1 receiver failure and 1 app failure, 2 of them together, secret right or wrong and changing | refinement of `CaptureDelivery`; harm by faults only; every capture settles |
| `capture_parked`, `capture_torn` | one recording | findings 2 and 3 |
| `session` | 2 clients, 2 sessions of one user, 1 flag, 4 days, retention 1 (2 asked for), 4 rows, 1 fault, symmetry of clients and of sessions | safety of log, cache and purge, and of what the purge reports |
| `migration` | 3 runs, 3 files (one the other's new name), 4 states of the directory, 2 faults, symmetry of runs | refinement of `AtomicMigrations`; results; progress of a run by itself |
| `turn` | 10 inputs of 5 sources, 2 sessions (a safety flag open or acknowledged, a flag and an item about a machine), 2 conversations, 2 contents of `user_settings`, 9 answers, 5 audit answers, 2 sets of signals, 6 routes; window 12, reserve 2, `max_tokens` 8, SMS limit 3, push limit 2 | safety of each stage; refinement of `ReplyDelivery`; end of a turn |
| `recorder` | 1 Siri intent, 1 press, 2 profiles, at most 2 messages under way when another call is made | safety of recorder and screen; refinement of `RecordingOrder` |
| `session_stale`, `session_counts` | 1 client, 1 session | findings 4 and 5 |

*Why these bounds are enough.* Each ingest property relates two calls; the third is there
to come between them, or to be the key a duplicate matched. A window of 1 with a clock to
2 has a sighting inside, at the edge of and past the window. In dispatch the workloads are
chosen so that each pairing of tools that share a table, a counter or a request id occurs,
by one user and by two. One restart separates two boots. In capture two places let the
handler of a request given up run beside its retry, and two faults of different kinds make
every pair of them (a receiver failure while such a handler is at work, a kill after the
confirmation of a late retry); `MaxFaults` bounds their sum. All three at once, more of one
kind, and more requests under way are left to `CaptureProofs`, which bounds none of them.
In session four rows allow an
open, a message or a flag with its acknowledgement, and the open of the other session whose
purge runs in between; day 3 is the first at which a row of day 1 is expired under
retention 1, so that one session can hold both expired and retained rows. Two clients on one
session are in the run; `NothingForgotten` excuses what they overwrite of each other. In
migration two runs can overlap with a third before or after them; a file of two statements
has a state between them, and one of a single statement that may be repeated lets two runs
get as far as the primary key. Two faults are a failed statement and its failed ROLLBACK. In
turn the answers hold a token of every class the rules tell apart, texts on both sides of
each limit, one with a sentence to cut at and one without, and one that stripping leaves
empty; the window drops one message, several or all. In recorder two captures suffice for a
callback, a block or a stamp of one to meet the other; two profiles for a wrong label. With two
messages under way a third call can still be made, so that the event and the result of a
stop, or a file protection that failed, meet a press that did not know of them; both captures
may be in the hands of `enqueueAudio` at once. What three requests do to each other is left to
the proofs, which bound nothing.

*Deadlock.* `capture` checks it. The other runs do not: their calls, rows, turns and
requests are finite in number, and when all are done and the bounded clock or the restarts
are used up the model stops, as it should.

*Fairness.* `dispatch`: a timer that was set fires, and a call that has started runs on,
because every await of the code settles (WF on each call's steps and on `TimeOut`). No
fairness for the user, the socket or the start of a call. `capture`: the drain loop and the
handlers run on (WF); a backoff passes (WF); a user who left comes back and an app that was
killed is opened again (WF on `Resume`). SF on `Begin` since the app drains at every return
to the foreground and at every tick, so that visits of any length, repeated, do drain. No
fairness for faults, for giving up, or for the user's leaving. `turn`: the event loop runs
on, the database and the channels answer one way or the other, and timers fire (WF); the
models need never answer. `recorder` claims no liveness: iOS need not ask the user.

*Mutants.* Each property of a passing run has a mutant: a definition of the model changed
as a plausible bug would change the code, under which the run finds the property violated.
They stand beside the definitions they mutate, marked "Mutant".

## 4. Findings

1. **An empty provider message id loses messages** (`ingest_empty_id`). The gate's
   comment promises "degradation, not data loss" for `''`; the unique index of the log
   takes `''` for an id, and the second such message of a provider is dropped.
2. **A confirmed capture ends parked** (`capture_parked`). The audio is deleted before the
   confirmation is recorded. An app killed in between finds no audio at the next pass and
   parks the capture for good.
3. **A torn sidecar is confirmed** (`capture_torn`). The receiver takes the existence of
   the corpus sidecar for receipt, also when the write of it failed.
4. **A stale cache is taken for the session** (`session_stale`). The header promises replay
   when the cache is stale; an open never compares it with the log, and a turn whose cache
   update was lost to a crash or an error is missing from the session from then on.
5. **A failed purge reports deletions** (`session_counts`). The counts are read before the
   deletes and returned although a delete threw.

Some behaviours were met that contradict no text of the repository, or only one too vague
for a run. All but the torn settings file are in the model as they are in the code:

- `formatForSms` says "Each segment ≤ SMS_MAX_CHARS" (`outputRouter.ts:119`), but a hard cut
  puts an ellipsis on a segment of full length (`:162`); the test allows the one extra
  character (`outputRouter.test.ts:149`).
- A reply cut off by `max_tokens` is taken for whole: nothing reads the stop reason
  (`primaryCall.ts:19`, `:125`).
- Stripping removes table rows after both audits have seen them, so what is sent may lack
  the sentence an audit passed the reply for; a reply that is all table goes out as no
  segment, and the route reports success.
- The rule on amounts looks at the first sentence that contains the amount as a substring,
  and takes the point in `$9.99` for the end of a sentence.
- `coerceSetting` takes an empty string for the number 0.
- A tap callback that outlives its capture writes its buffer into the file of the next one,
  if that has begun; and its first-buffer block may stamp the next one. `StampsAreOwn` is
  claimed for captures whose own block was handled while they were active (it overwrites the
  foreign one) and that began when no earlier callback could still touch the flag.
- The context of an intent that was ignored, or whose start failed, goes to the next
  capture, whoever starts it. A capture Siri starts may lack its own stamp if a press came
  between.
- The catch of a stop serves the awaits after it too (`bench_screen.dart:146`): if the file
  protection at the end of `enqueueAudio` fails (`capture_queue.dart:99`), the flag is reset
  although another capture may run by then, and the button shows idle until the next event
  or result. A press then asks for a start, which the recorder refuses. `ScreenAgrees`
  excuses exactly the capture that was active when that happened (`hidden`).
- A `bench-settings.json` torn by a kill makes `_bootstrap` throw a FormatException that its
  `on PlatformException` does not catch; the screen then has no queue.
- PO numbers start again at 1 after a restart; `poSequence.ts` says so of its in-memory
  store, so `PoNumbersDistinct` is stated per boot.

## 5. Proofs

TLAPS proves for every number of calls, users, ids, and every window and clock bound:

- `CommsGateProofs`: the gate's invariant `GateInv` and from it `ProviderGateExclusive`,
  `SequentialContentDedup`, what `AnswersAreTrue` consists of, and that the
  conflict-row-missing branch is never taken. None of the properties is inductive:
  exclusiveness needs that a key exists exactly for the novel calls, that a provider
  identity has at most one key, and that a call at the fetch has met a holder. Sequential
  deduplication needs that a call between its empty SELECT and its INSERT saw every key
  written by calls answered before it was planned.
- `CommsIngestProofs`: the pipeline implements the gate in an arbitrary environment, so
  the gate's theorems carry over; with the pipeline's own invariant, `IngestTypeOK`,
  `LinksLeadHome`, `AnswersAreTrue`, and, assuming that no message id is empty (`NoEmptyIds`, which finding
  1 shows to be necessary), `LossOnlyByFault`.
  Last, the pipeline implements the test-and-set cells: the owner of a cell is the one key
  of its identity, unique by the gate's invariant.
- `ToolDispatchProofs`: the dispatch invariant `DispatchInv` ties each control state to
  what has happened (a call past its gate has its approval in `decided`, a waiting gate
  was shown, a row exists only for a call that was approved, sequence numbers never exceed
  the counter of their boot), and from it every safety and action property of run
  `dispatch` and the refinement of `GatedWrite`.
- `CaptureProofs`: the submission invariant `SubmissionInv`, and from it every safety and
  action property of run `capture`, and `NothingIsLost` and `VerdictsStand`, which the
  refinement of `CaptureDelivery` needs and which say the same state by state. It has a part about the receiver (files show how far
  each handler has come, answers tell of files; while nothing failed a torn file has its
  writer), one about the queue (what a pass has left is pending, deleted audio goes with the
  verdict "synced"), and one that joins them: the request awaited carries the entry the loop
  is at and the secret of the pass, so that an "ok" is about this entry. None of the
  properties is inductive without that last fact, because late answers of given-up requests
  are in the network with it. Receiver steps are shown to keep the joint part from two
  guarantees alone: files never vanish (`FilesGrow`), and a request keeps what it carries
  until its place is freed (`RequestsKept`). `HarmNeedsFault` follows from `TornHasWriter` (while
  the receiver did not fail, a torn file has a handler that is going to write it) and
  `DeletedIsRecorded` (while the app did not fail, deleted audio is in a pass that holds its
  verdict). For the refinement one more invariant (`RequestsAreTaken`: a request carries a
  capture of the queue, and a handler past the checks one that is accepted) shows that a late
  handler stores nothing it should not; `LoopDelivers` and `HandlerStores` map the loop and the handlers step by step.

- `SessionProofs`: all safety and action properties of run `session`, each group from an
  invariant of its own. `Retained` (what is gone was older than the retention; what a purge
  has left was not, when it began) gives `RetentionHolds` and `PurgeSparesRecent`. `Accounted` gives `DeletionsAreCounted`, the
  part of what `PurgeResult` promises that does hold (finding 5 is about the other): between
  the COUNT and the DELETE of a purge the rows beyond its cutoff only get fewer, since others
  may purge them and what is written has the present time (`ExpiredShrinks`). Both are parts
  of `PurgeIsThorough`. `LogFirst`
  adds to `StateIsLogged` that a client still replaying holds nothing. `NothingForgotten` is
  `RetainedIsSeen /\ EditionKnown`. `EditionKept` is for the second: it needs that a row of
  the log belongs to a session that was opened (`OpenedFirst`), so that a replay without a
  session_open row can only be one whose row was purged. `Complete` is why
  `NothingForgotten` holds although a cached state is behind the log between two statements
  of a turn: one client at most has a session that was not shared, and the cached state is
  complete or that client is between log and cache, where a crash counts as a lost update.

- `MigrationProofs`: all safety properties of run `migration`. `LoopOK` says that the files
  behind the loop come before those ahead of it. `Locked` is why `WholeOrNothing` holds while
  two runs execute the same file: the draft of the one with the lock is the committed
  database with its own statements on top, and a run without it has executed none.
  `Tracking` gives the parts of `ResultsAreTrue` (`OkIsComplete`, `LowerFirst` and
  `ReportsAreTrue`): rows are never taken
  away, so what a run has read or come past stays true. `Overlap` and `Fresh` give
  `AloneItApplies`: a run that no other overlaps knows the tracker as it is, and by
  `WholeOrNothing` a file without a row has no statement in effect that could clash. The refinement of
  `AtomicMigrations` rests on both: at its commit the draft of a run is the committed database
  and one file, whole (`CommitMigrates`), and `Tracking` has what it returns.

- `ReplyTurnProofs`: every safety property of run `turn`, for all texts, sessions, histories
  and limits. `TurnTyped` adds to the types that the stages run in order (`InOrder`), each
  with what it needs of the earlier ones; the rest is proved stage by stage: `CallInStep`
  (what is in the buffer is what was streamed, and a reply is there only at the end),
  `SafetyInStep` (the prompt and the threshold see the flags of the session that the filter
  never drops), `SegmentsInStep` with `Carried` (the segments so far end where the rest
  begins), `ReportInStep` (failed recipients, and those who have everything, among the ones
  gone through), `HistoryInStep` (each message dropped did not fit). Sums over a history are
  folds; what a fold does is proved by induction over subsets, built on a least element. The
  refinement of `ReplyDelivery` joins the stages: `JudgedInStep` (nothing is found against a
  reply before its check) makes an objection last from stage to stage, the threshold and the
  parser of the verdict let none through, and `ReportInStep` maps the loop over parcels and
  recipients to the turn of one recipient. Two more theorems say what can be proved of
  `EveryTurnEnds` without fairness, for every history, text and number of recipients: each
  step lowers a lexicographic measure (stage, rounds left in it, parcels left for the
  recipient, answers awaited) that is bounded below (`EveryStepDescends`), and no stage waits
  for what cannot come (`NoStageIsStuck`); for the cuts of an SMS this needs that the rest
  always begins and ends with a word (`SegmentsInStep`), for the sends that a recipient's
  parcels are not run past (`WaitsInStep`).

- `RecorderProofs`: every property of run `recorder`, for any number of requests and
  messages. `RequestsOnce` says that a request is in one place: under way, waiting for
  permission, a block of the main queue, active or stopped; so each names one capture.
  `StampsInv` follows a stamp from the callback to the result: a block in the queue behind
  or before the next start, a flag that is set for the active capture or not. `FlagFollows`
  makes `ScreenAgrees` inductive: the last message under way that decides the flag agrees
  with `active`, and if none does the flag itself. A late failure of file protection is the
  one message that decides the flag without agreeing with `active`; as it hides what is
  active when it is handled, the messages are followed by `Shown`: the flag, or the active
  capture being hidden. `Accounted` is the same idea for results.
  The refinement of `RecordingOrder` needs no more than these, and lemmas on what appending to
  a queue and taking its head do to the order of the messages in it.

Every safety, action and refinement property of a passing run is proved. What stays with TLC
is liveness (`EveryCallAnswered`, `EveryCaptureSettles`, `EveryTurnEnds`), which needs
ENABLED. The theorems assume nothing but the assumptions named in the modules on their
constants, and, in `LossOnlyByFault`, `NoEmptyIds`. The refinement theorems are stated of the
specifications without fairness; the abstract ones promise nothing that must happen.

## 6. What is left

Modelled next, in this order:

1. `submitFeedback` and the purge of old diagnostics, which complete their components.
2. The algorithms of `specLookup`, `expenseParser` and `sheetOutput` as pure operators,
   checked against reference definitions. In `ToolDispatch` they are one read action.
3. The orchestrator, once it exists: regeneration after a "revise", turns of one session one
   after another over `SessionPersistence`, and the gate and dispatch inside a turn.

An abstract session (the state as a fold of the log) was considered and not written: it
holds only without lost updates and shared sessions, which is what `NothingForgotten` says.
That a purge deletes no more cached states than it counts is not claimed: the DELETE of
another client, between the two statements, makes new orphans.

*Not modelled.* The data mapping has no state and no callers beyond the comms modules, whose
use of it is in their models. The walkthrough is a script over the channel and the queue, of
which both are modelled, and saves its place in a file of its own; what its screen shows is
wording and layout. Configuration and logging change no state after the start. The scripts
run by hand on finished data. `GET /health` keeps no state.
