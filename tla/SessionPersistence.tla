------------------------- MODULE SessionPersistence -------------------------
(***************************************************************************)
(* backend/src/orchestration/sessionPersistence.ts: the append-only log of *)
(* each session, the state cached beside it, and the purge that every open *)
(* runs over all sessions of its user.  One action per SQL statement: the  *)
(* statements of concurrent calls interleave.                              *)
(*                                                                         *)
(* A message is named by the log row it was written with.  Of a state, the *)
(* model keeps what the log determines: messages, flags, and whether the   *)
(* edition is known; openItems and consistContext are never written.       *)
(***************************************************************************)
EXTENDS Integers, Sequences, FiniteSets

CONSTANTS
  Clients,        \* those who open a session: the orchestrator's connections
  Sessions, Users,
  UserOf,         \* UserOf[s]: the user of session s
  Flags,          \* flag ids
  RetentionDays,  \* what the caller asks for
  MaxRetention,   \* MAX_RETENTION_DAYS
  MaxTime,        \* bound: days that pass
  MaxRows,        \* bound: rows ever written to session_log
  MaxFaults,      \* bound: statements that fail, and crashes
  None

VARIABLES
  now,       \* the day
  log,       \* every row ever written to session_log, in order
  purged,    \* indices of the rows deleted since
  cache,     \* cache[s]: the row of session_states, or None
  stage,     \* stage[c]: the statement client c stands before
  session,   \* session[c]: the session it has opened or is opening
  mem,       \* mem[c]: its SessionState
  began,     \* began[c]: when its purge computed the cutoff
  counted,   \* counted[c]: the PurgeResult it is going to return
  removed,   \* removed[c]: the rows its purge has deleted (history)
  shared,    \* sessions that two clients had open at one time (history)
  unsaved,   \* sessions that lost an update of their cache (history)
  faults

dbVars == <<log, purged, cache>>
purgeVars == <<began, counted, removed>>
historyVars == <<shared, unsaved>>
sessionVars == <<now, dbVars, stage, session, mem, purgeVars, historyVars, faults>>

EntryType == {"session_open", "message", "flag_raised", "flag_acknowledged", "other"}
Row == [session : Sessions, type : EntryType, flag : Flags \cup {None}, time : Nat]

Memory ==
  [messages : SUBSET (1..MaxRows), raised : SUBSET Flags, acked : SUBSET Flags,
   edition : BOOLEAN]

ASSUME SessionAssumption ==
  /\ IsFiniteSet(Sessions) /\ UserOf \in [Sessions -> Users]
  /\ RetentionDays \in Nat /\ MaxRetention \in Nat
  /\ MaxTime \in Nat /\ MaxRows \in Nat /\ MaxFaults \in Nat
  /\ None \notin Sessions /\ None \notin Memory

Stage ==
  {"idle", "replaying", "opening", "counting", "deleting", "counting_orphans",
   "deleting_orphans", "open", "logged"}

Count == [entries : Nat, sessions : Nat]

Fresh == [messages |-> {}, raised |-> {}, acked |-> {}, edition |-> TRUE]
Zero == [entries |-> 0, sessions |-> 0]

SessionTypeOK ==
  /\ now \in Nat
  /\ log \in Seq(Row) /\ Len(log) <= MaxRows
  /\ purged \subseteq 1..Len(log)
  /\ cache \in [Sessions -> Memory \cup {None}]
  /\ stage \in [Clients -> Stage]
  /\ session \in [Clients -> Sessions \cup {None}]
  /\ \A c \in Clients : session[c] = None <=> stage[c] = "idle"
  /\ mem \in [Clients -> Memory]
  /\ began \in [Clients -> Nat]
  /\ counted \in [Clients -> Count] /\ removed \in [Clients -> Count]
  /\ shared \subseteq Sessions /\ unsaved \subseteq Sessions
  /\ faults \in Nat

SessionInit ==
  /\ now = 0
  /\ log = <<>> /\ purged = {}
  /\ cache = [s \in Sessions |-> None]
  /\ stage = [c \in Clients |-> "idle"]
  /\ session = [c \in Clients |-> None]
  /\ mem = [c \in Clients |-> Fresh]
  /\ began = [c \in Clients |-> 0]
  /\ counted = [c \in Clients |-> Zero] /\ removed = [c \in Clients |-> Zero]
  /\ shared = {} /\ unsaved = {}
  /\ faults = 0

-----------------------------------------------------------------------------
(* The tables.                                                             *)

Written == 1..Len(log)
RowsOf(s) == {i \in Written \ purged : log[i].session = s}
Of(i, type) == log[i].type = type

\* INSERT INTO session_log.
Insert(s, type, flag) ==
  /\ Len(log) < MaxRows
  /\ log' = Append(log, [session |-> s, type |-> type, flag |-> flag, time |-> now])

MoveTo(c, st) == stage' = [stage EXCEPT ![c] = st]

\* Mutant: the client keeps the session it has left.
StayIn(c) ==
  /\ MoveTo(c, "idle")
  /\ mem' = [mem EXCEPT ![c] = Fresh]
  /\ began' = [began EXCEPT ![c] = 0]
  /\ counted' = [counted EXCEPT ![c] = Zero]
  /\ removed' = [removed EXCEPT ![c] = Zero]
  /\ UNCHANGED session

Leave(c) ==
  /\ MoveTo(c, "idle")
  /\ session' = [session EXCEPT ![c] = None]
  /\ mem' = [mem EXCEPT ![c] = Fresh]
  /\ began' = [began EXCEPT ![c] = 0]
  /\ counted' = [counted EXCEPT ![c] = Zero]
  /\ removed' = [removed EXCEPT ![c] = Zero]

-----------------------------------------------------------------------------
(* openSession: load.                                                      *)

Enter(c, s) ==
  /\ stage[c] = "idle"
  /\ session' = [session EXCEPT ![c] = s]
  /\ shared' = IF \E d \in Clients : session[d] = s THEN shared \cup {s} ELSE shared
  /\ UNCHANGED <<now, dbVars, purgeVars, unsaved>>

LoadCached(c, s) ==
  /\ Enter(c, s)
  /\ cache[s] # None
  /\ mem' = [mem EXCEPT ![c] = cache[s]]
  /\ MoveTo(c, "opening")
  /\ UNCHANGED faults

MissCache(c, s) ==
  /\ Enter(c, s)
  /\ cache[s] = None
  /\ MoveTo(c, "replaying")
  /\ UNCHANGED <<mem, faults>>

Fault == faults < MaxFaults /\ faults' = faults + 1

\* The SELECT throws, or parseCachedState rejects the row.
CacheUnusable(c, s) ==
  /\ Fault
  /\ Enter(c, s)
  /\ MoveTo(c, "replaying")
  /\ UNCHANGED mem

\* Flag f is raised by one row of R and acknowledged by another.  SQL does not
\* say which of two rows with one timestamp the replay meets first.
AckedLater(R) ==
  {log[i].flag : i \in {i \in R : Of(i, "flag_raised") /\ \E j \in R :
     Of(j, "flag_acknowledged") /\ log[j].flag = log[i].flag /\ log[i].time < log[j].time}}

AckedAtOnce(R) ==
  {log[i].flag : i \in {i \in R : Of(i, "flag_raised") /\ \E j \in R :
     Of(j, "flag_acknowledged") /\ log[j].flag = log[i].flag /\ log[i].time = log[j].time}}

\* The states that replaySessionLog may build from the rows R.
Replayed(R) ==
  {[messages |-> {i \in R : Of(i, "message")},
    raised |-> {log[i].flag : i \in {i \in R : Of(i, "flag_raised")}},
    acked |-> AckedLater(R) \cup tied,
    edition |-> \E i \in R : Of(i, "session_open")] : tied \in SUBSET AckedAtOnce(R)}

ReplayLog(c) ==
  /\ stage[c] = "replaying"
  /\ \E state \in IF RowsOf(session[c]) = {} THEN {Fresh} ELSE Replayed(RowsOf(session[c])) :
       mem' = [mem EXCEPT ![c] = state]
  /\ MoveTo(c, "opening")
  /\ UNCHANGED <<now, dbVars, session, purgeVars, historyVars, faults>>

WriteOpen(c) ==
  /\ stage[c] = "opening"
  /\ Insert(session[c], "session_open", None)
  /\ MoveTo(c, "counting")
  /\ UNCHANGED <<now, purged, cache, session, mem, purgeVars, historyVars, faults>>

\* The replay's SELECT, a payload it cannot read, or the INSERT: open throws.
OpenThrows(c) ==
  /\ Fault
  /\ stage[c] \in {"replaying", "opening"}
  /\ Leave(c)
  /\ UNCHANGED <<now, dbVars, historyVars>>

-----------------------------------------------------------------------------
(* openSession: purge.                                                     *)

\* Mutant: the caller's value is trusted.
CallersDays == RetentionDays

Days == IF RetentionDays < MaxRetention THEN RetentionDays ELSE MaxRetention

\* Mutant: the row written at the cutoff goes, too.
ExpiredAtCutoff(u, start) ==
  {i \in Written \ purged : UserOf[log[i].session] = u /\ log[i].time <= start - Days}

\* Rows of user u older than the cutoff of a purge that began at start.
Expired(u, start) ==
  {i \in Written \ purged : UserOf[log[i].session] = u /\ log[i].time < start - Days}

\* Cached states of user u whose session has no log row left.
Orphans(u) == {s \in Sessions : UserOf[s] = u /\ cache[s] # None /\ RowsOf(s) = {}}

User(c) == UserOf[session[c]]

CountExpired(c) ==
  /\ stage[c] = "counting"
  /\ began' = [began EXCEPT ![c] = now]
  /\ counted' = [counted EXCEPT ![c].entries = Cardinality(Expired(User(c), now))]
  /\ MoveTo(c, "deleting")
  /\ UNCHANGED <<now, dbVars, session, mem, removed, historyVars, faults>>

DeleteExpired(c) ==
  /\ stage[c] = "deleting"
  /\ purged' = purged \cup Expired(User(c), began[c])
  /\ removed' = [removed EXCEPT ![c].entries = Cardinality(Expired(User(c), began[c]))]
  /\ MoveTo(c, "counting_orphans")
  /\ UNCHANGED <<now, log, cache, session, mem, began, counted, historyVars, faults>>

CountOrphans(c) ==
  /\ stage[c] = "counting_orphans"
  /\ counted' = [counted EXCEPT ![c].sessions = Cardinality(Orphans(User(c)))]
  /\ MoveTo(c, "deleting_orphans")
  /\ UNCHANGED <<now, dbVars, session, mem, began, removed, historyVars, faults>>

DeleteOrphans(c) ==
  /\ stage[c] = "deleting_orphans"
  /\ cache' = [s \in Sessions |-> IF s \in Orphans(User(c)) THEN None ELSE cache[s]]
  /\ removed' = [removed EXCEPT ![c].sessions = Cardinality(Orphans(User(c)))]
  /\ began' = [began EXCEPT ![c] = 0]
  /\ MoveTo(c, "open")
  /\ UNCHANGED <<now, log, purged, session, mem, counted, historyVars, faults>>

\* A statement throws: the purge is given up, the session opens.
PurgeFails(c) ==
  /\ Fault
  /\ stage[c] \in {"counting", "deleting", "counting_orphans", "deleting_orphans"}
  /\ began' = [began EXCEPT ![c] = 0]
  /\ MoveTo(c, "open")
  /\ UNCHANGED <<now, dbVars, session, mem, counted, removed, historyVars>>

-----------------------------------------------------------------------------
(* The turns of an open session: the caller logs, then updates the cache.  *)

\* What the caller may log next, with the flag it is about: flag ids are new
\* when raised, and known to the client when acknowledged.
Loggable(c) ==
  ({"message", "other"} \X {None})
    \cup ({"flag_raised"} \X {f \in Flags : \A i \in Written : log[i].flag # f})
    \cup ({"flag_acknowledged"} \X (mem[c].raised \ mem[c].acked))

Applied(m, i, type, flag) ==
  [messages |-> IF type = "message" THEN m.messages \cup {i} ELSE m.messages,
   raised |-> IF type = "flag_raised" THEN m.raised \cup {flag} ELSE m.raised,
   acked |-> IF type = "flag_acknowledged" THEN m.acked \cup {flag} ELSE m.acked,
   edition |-> m.edition]

\* Mutant: writeLogEntry returns null although its INSERT failed.
LogEntryUnwritten(c) ==
  /\ stage[c] = "open"
  /\ \E entry \in Loggable(c) :
       /\ \/ Insert(session[c], entry[1], entry[2]) /\ UNCHANGED faults
          \/ Fault /\ Len(log) < MaxRows /\ UNCHANGED log
       /\ mem' = [mem EXCEPT ![c] = Applied(mem[c], Len(log) + 1, entry[1], entry[2])]
  /\ MoveTo(c, "logged")
  /\ counted' = [counted EXCEPT ![c] = Zero] /\ removed' = [removed EXCEPT ![c] = Zero]
  /\ UNCHANGED <<now, purged, cache, session, began, historyVars>>

\* writeLogEntry returns null; after an error the client and the log are what
\* they were.  The caller has done with the PurgeResult of the open.
LogEntry(c) ==
  /\ stage[c] = "open"
  /\ \E entry \in Loggable(c) :
       /\ Insert(session[c], entry[1], entry[2])
       /\ mem' = [mem EXCEPT ![c] = Applied(mem[c], Len(log) + 1, entry[1], entry[2])]
  /\ MoveTo(c, "logged")
  /\ counted' = [counted EXCEPT ![c] = Zero] /\ removed' = [removed EXCEPT ![c] = Zero]
  /\ UNCHANGED <<now, purged, cache, session, began, historyVars, faults>>

\* Mutant: ON CONFLICT DO NOTHING.
InsertStateObject(c) ==
  /\ stage[c] = "logged"
  /\ cache' = [cache EXCEPT ![session[c]] = IF @ = None THEN mem[c] ELSE @]
  /\ MoveTo(c, "open")
  /\ UNCHANGED <<now, log, purged, session, mem, purgeVars, historyVars, faults>>

UpdateStateObject(c) ==
  /\ stage[c] = "logged"
  /\ cache' = [cache EXCEPT ![session[c]] = mem[c]]
  /\ MoveTo(c, "open")
  /\ UNCHANGED <<now, log, purged, session, mem, purgeVars, historyVars, faults>>

UpdateFails(c) ==
  /\ Fault
  /\ stage[c] = "logged"
  /\ unsaved' = unsaved \cup {session[c]}
  /\ MoveTo(c, "open")
  /\ UNCHANGED <<now, dbVars, session, mem, purgeVars, shared>>

\* closeSession, with the row written or not.
CloseSession(c) ==
  /\ stage[c] = "open"
  /\ \/ Insert(session[c], "other", None) /\ UNCHANGED faults
     \/ Fault /\ UNCHANGED log
  /\ Leave(c)
  /\ UNCHANGED <<now, purged, cache, historyVars>>

-----------------------------------------------------------------------------
(* The environment.                                                        *)

\* The process ends: what its clients had in memory is gone.
Crash ==
  /\ Fault
  /\ unsaved' = unsaved \cup {session[c] : c \in {c \in Clients : stage[c] = "logged"}}
  /\ stage' = [c \in Clients |-> "idle"]
  /\ session' = [c \in Clients |-> None]
  /\ mem' = [c \in Clients |-> Fresh]
  /\ began' = [c \in Clients |-> 0]
  /\ counted' = [c \in Clients |-> Zero] /\ removed' = [c \in Clients |-> Zero]
  /\ UNCHANGED <<now, dbVars, shared>>

Tick ==
  /\ now < MaxTime
  /\ now' = now + 1
  /\ UNCHANGED <<dbVars, stage, session, mem, purgeVars, historyVars, faults>>

Load(c, s) == LoadCached(c, s) \/ MissCache(c, s) \/ CacheUnusable(c, s)
Open(c) == ReplayLog(c) \/ WriteOpen(c) \/ OpenThrows(c)
Purge(c) ==
  CountExpired(c) \/ DeleteExpired(c) \/ CountOrphans(c) \/ DeleteOrphans(c) \/ PurgeFails(c)
Turn(c) == LogEntry(c) \/ UpdateStateObject(c) \/ UpdateFails(c) \/ CloseSession(c)

SessionNext ==
  \/ \E c \in Clients, s \in Sessions : Load(c, s)
  \/ \E c \in Clients : Open(c) \/ Purge(c) \/ Turn(c)
  \/ Crash
  \/ Tick

SessionSpec == SessionInit /\ [][SessionNext]_sessionVars

-----------------------------------------------------------------------------
(* Properties.                                                             *)

InSession(c) == stage[c] \notin {"idle", "replaying"}

HasLogged(s, m) ==
  /\ \A i \in m.messages : i \in Written /\ log[i].session = s /\ Of(i, "message")
  /\ \A f \in m.raised :
       \E i \in Written : log[i].session = s /\ Of(i, "flag_raised") /\ log[i].flag = f
  /\ \A f \in m.acked :
       \E i \in Written : log[i].session = s /\ Of(i, "flag_acknowledged") /\ log[i].flag = f

\* Only what has been logged for a session is in its cached state, and in the
\* state a client has of it: log-first.
StateIsLogged ==
  /\ \A s \in Sessions : cache[s] # None => HasLogged(s, cache[s])
  /\ \A c \in Clients : session[c] # None => HasLogged(session[c], mem[c])

\* What the log retains of a session is what its clients see.
RetainedIsSeen ==
  \A c \in Clients :
    InSession(c) /\ session[c] \notin shared \cup unsaved =>
      LET R == RowsOf(session[c]) IN
      /\ {i \in R : Of(i, "message")} \subseteq mem[c].messages
      /\ {log[i].flag : i \in {i \in R : Of(i, "flag_raised")}} \subseteq mem[c].raised
      /\ AckedLater(R) \subseteq mem[c].acked

\* The edition of an open session is known unless the row of an open is purged.
EditionKnown ==
  \A c \in Clients :
    InSession(c) /\ ~ mem[c].edition =>
      \E i \in purged : log[i].session = session[c] /\ Of(i, "session_open")

\* A client sees all retained messages and flags of its session, and no flag
\* comes back unacknowledged that was acknowledged after the day it was raised,
\* unless an update of the cache was lost or two clients shared the session.
\* Failed loads, replays, opens and purges lose nothing.  Its edition is unknown
\* only if the row of an earlier open was purged.
NothingForgotten == RetainedIsSeen /\ EditionKnown

\* No purge, however it interleaves with others, deletes a row of the log
\* within the retention, or the cached state of a session that has such a row.
PurgeSparesRecent ==
  [][/\ \A i \in purged' \ purged : now - log[i].time > Days
     /\ \A s \in Sessions :
          cache[s] # None /\ cache'[s] = None =>
            \A i \in Written : log[i].session = s => now - log[i].time > Days]_sessionVars

\* Once a purge has deleted, its user has no row that was older than
\* MAX_RETENTION_DAYS when it began, whatever the caller asked for.
RetentionHolds ==
  \A c \in Clients :
    stage[c] \in {"counting_orphans", "deleting_orphans"} =>
      \A i \in Written \ purged :
        UserOf[log[i].session] = User(c) => began[c] - log[i].time <= MaxRetention

\* What a purge has deleted of the log, it has counted before: the rows that it
\* meets at its DELETE were all there at its COUNT, whatever other clients write
\* and delete in between.  (Of cached states it may delete more than it counted:
\* the DELETE of another client makes new orphans.)
DeletionsAreCounted == \A c \in Clients : removed[c].entries <= counted[c].entries

\* The purge of an open does what it is for and hides none of it: no row stays
\* beyond the retention, and no row goes that the PurgeResult leaves out.
PurgeIsThorough == RetentionHolds /\ DeletionsAreCounted

\* What the header of the file says: "log replay rebuilds state when cache is
\* missing or stale".  The state that an open loads has every retained message
\* of a session that only one client has open.
OpenSeesLog ==
  \A c \in Clients :
    stage[c] = "opening" /\ session[c] \notin shared =>
      {i \in RowsOf(session[c]) : Of(i, "message")} \subseteq mem[c].messages

\* What PurgeResult is said to be, the counts of what was deleted, as long as
\* no other client's statements come in between.
PurgeCountsAreTrue ==
  \A c \in Clients :
    stage[c] = "open" /\ (\A d \in Clients \ {c} : stage[d] = "idle") => counted[c] = removed[c]
=============================================================================
