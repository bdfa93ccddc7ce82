--------------------------- MODULE SessionProofs ---------------------------
(***************************************************************************)
(* Proofs about the session log, its cache and its purge, for any clients, *)
(* sessions, users, flags and retention.                                   *)
(***************************************************************************)
EXTENDS SessionPersistence, FiniteSetTheorems, TLAPS

LEMMA DaysBound == Days \in Nat /\ Days <= MaxRetention /\ Days <= RetentionDays
BY SessionAssumption DEF Days

-----------------------------------------------------------------------------
(* Types.                                                                  *)

\* A row is added behind the others, and they stay what they are.
LEMMA InsertFacts ==
  ASSUME log \in Seq(Row), Len(log) <= MaxRows, now \in Nat,
         NEW s \in Sessions, NEW type \in EntryType, NEW flag \in Flags \cup {None},
         Insert(s, type, flag)
  PROVE  /\ log' \in Seq(Row) /\ Len(log') <= MaxRows
         /\ Len(log') = Len(log) + 1
         /\ \A i \in Written : i \in Written' /\ log'[i] = log[i]
         /\ \A i \in Written' : i \notin Written => i = Len(log) + 1
         /\ log'[Len(log) + 1] = [session |-> s, type |-> type, flag |-> flag, time |-> now]
<1> DEFINE r == [session |-> s, type |-> type, flag |-> flag, time |-> now]
<1>1. r \in Row
  BY DEF Row
<1>2. log' = Append(log, r) /\ Len(log) < MaxRows
  BY DEF Insert
<1> HIDE DEF r
<1>3. /\ log' \in Seq(Row) /\ Len(log') = Len(log) + 1
      /\ log'[Len(log) + 1] = r
      /\ \A i \in 1..Len(log) : log'[i] = log[i]
  BY <1>1, <1>2
<1>4. QED
  BY <1>2, <1>3, SessionAssumption DEF Written, r

LEMMA InsertTypes ==
  ASSUME SessionTypeOK, NEW s \in Sessions, NEW type \in EntryType,
         NEW flag \in Flags \cup {None}, Insert(s, type, flag)
  PROVE  log' \in Seq(Row) /\ Len(log') <= MaxRows /\ purged \subseteq 1..Len(log')
<1>1. log' \in Seq(Row) /\ Len(log') <= MaxRows /\ Len(log') = Len(log) + 1
  BY InsertFacts DEF SessionTypeOK
<1>2. log \in Seq(Row) /\ purged \subseteq 1..Len(log)
  BY DEF SessionTypeOK
<1>3. QED
  BY <1>1, <1>2

LEMMA CountsAreNumbers ==
  ASSUME SessionTypeOK, NEW u, NEW start
  PROVE  Cardinality(Expired(u, start)) \in Nat /\ Cardinality(Orphans(u)) \in Nat
<1>1. IsFiniteSet(1..Len(log))
  BY FS_Interval DEF SessionTypeOK
<1>2. Expired(u, start) \subseteq 1..Len(log)
  BY DEF Expired, Written
<1>3. Orphans(u) \subseteq Sessions
  BY DEF Orphans
<1>4. QED
  BY <1>1, <1>2, <1>3, FS_Subset, FS_CardinalityType, SessionAssumption

\* What the rows of the log say, beyond their types.
RowsFit ==
  /\ \A i \in Written : log[i] \in Row /\ log[i].time <= now
  /\ \A i \in Written : Of(i, "flag_raised") \/ Of(i, "flag_acknowledged") => log[i].flag \in Flags

\* What a replay may build is a state.
LEMMA ReplayedIsMemory ==
  ASSUME SessionTypeOK, RowsFit, NEW s \in Sessions, NEW state \in Replayed(RowsOf(s))
  PROVE  state \in Memory
<1> DEFINE R == RowsOf(s)
<1>1. R \subseteq Written /\ R \subseteq 1..MaxRows
  BY SessionAssumption DEF RowsOf, Written, SessionTypeOK
<1>2. PICK tied \in SUBSET AckedAtOnce(R) :
        state = [messages |-> {i \in R : Of(i, "message")},
                 raised |-> {log[i].flag : i \in {i \in R : Of(i, "flag_raised")}},
                 acked |-> AckedLater(R) \cup tied,
                 edition |-> \E i \in R : Of(i, "session_open")]
  BY DEF Replayed
<1>3. {log[i].flag : i \in {i \in R : Of(i, "flag_raised")}} \subseteq Flags
  BY <1>1 DEF RowsFit
<1>4. AckedLater(R) \subseteq Flags /\ AckedAtOnce(R) \subseteq Flags
  BY <1>1 DEF RowsFit, AckedLater, AckedAtOnce
<1>5. {i \in R : Of(i, "message")} \subseteq 1..MaxRows
  BY <1>1
<1>6. (\E i \in R : Of(i, "session_open")) \in BOOLEAN
  OBVIOUS
<1>7. QED
  BY <1>2, <1>3, <1>4, <1>5, <1>6 DEF Memory

\* The client's entry is one the log takes.
LEMMA LoggableTypes ==
  ASSUME SessionTypeOK, NEW c \in Clients, NEW entry \in Loggable(c)
  PROVE  /\ entry[1] \in {"message", "other", "flag_raised", "flag_acknowledged"}
         /\ entry[2] \in Flags \cup {None}
         /\ entry[1] \in {"flag_raised", "flag_acknowledged"} => entry[2] \in Flags
<1>1. mem[c].raised \subseteq Flags
  BY DEF SessionTypeOK, Memory
<1>2. QED
  BY <1>1 DEF Loggable

\* Rows stay fit when one is added, when time passes, and when nothing happens.
LEMMA RowsStayFit ==
  ASSUME SessionTypeOK, RowsFit, UNCHANGED log, now' \in Nat, now <= now'
  PROVE  RowsFit'
BY DEF RowsFit, SessionTypeOK, Written, Of, Row

LEMMA InsertKeepsRows ==
  ASSUME SessionTypeOK, RowsFit, NEW s \in Sessions, NEW type \in EntryType,
         NEW flag \in Flags \cup {None}, Insert(s, type, flag), UNCHANGED now,
         type \in {"flag_raised", "flag_acknowledged"} => flag \in Flags
  PROVE  RowsFit'
<1>1. /\ log' \in Seq(Row) /\ Len(log') = Len(log) + 1
      /\ \A i \in Written : i \in Written' /\ log'[i] = log[i]
      /\ \A i \in Written' : i \notin Written => i = Len(log) + 1
      /\ log'[Len(log) + 1] = [session |-> s, type |-> type, flag |-> flag, time |-> now]
  BY InsertFacts DEF SessionTypeOK
<1>2. [session |-> s, type |-> type, flag |-> flag, time |-> now] \in Row
  BY DEF Row, SessionTypeOK
<1>3. \A i \in Written' : log'[i] \in Row /\ log'[i].time <= now
  BY <1>1, <1>2 DEF RowsFit, SessionTypeOK
<1>4. \A i \in Written' :
        log'[i].type = "flag_raised" \/ log'[i].type = "flag_acknowledged" => log'[i].flag \in Flags
  BY <1>1 DEF RowsFit, Of
<1>5. QED
  BY <1>3, <1>4 DEF RowsFit, Of

LEMMA SessionStepTypes ==
  SessionTypeOK /\ RowsFit /\ [SessionNext]_sessionVars => SessionTypeOK' /\ RowsFit'
<1> SUFFICES ASSUME SessionTypeOK, RowsFit, [SessionNext]_sessionVars
             PROVE  SessionTypeOK' /\ RowsFit'
  OBVIOUS
<1> USE SessionAssumption DEF dbVars, purgeVars, historyVars
<1>1. Fresh \in Memory /\ Zero \in Count
  BY DEF Fresh, Memory, Zero, Count
<1>2. ASSUME NEW c \in Clients, NEW s \in Sessions, Load(c, s)
      PROVE  SessionTypeOK' /\ RowsFit'
  <2>1. RowsFit'
    BY <1>2, RowsStayFit DEF Load, LoadCached, MissCache, CacheUnusable, Enter, SessionTypeOK
  <2>2. faults' \in Nat
    BY <1>2 DEF Load, LoadCached, MissCache, CacheUnusable, Fault, SessionTypeOK
  <2>5. mem' \in [Clients -> Memory]
    <3>1. CASE LoadCached(c, s)
      <4>1. cache[s] \in Memory
        BY <3>1 DEF LoadCached, SessionTypeOK
      <4>2. QED
        BY <3>1, <4>1 DEF LoadCached, SessionTypeOK
    <3>2. CASE UNCHANGED mem
      BY <3>2 DEF SessionTypeOK
    <3>3. QED
      BY <1>2, <3>1, <3>2 DEF Load, MissCache, CacheUnusable
  <2>3. /\ stage' \in [Clients -> Stage] /\ session' \in [Clients -> Sessions \cup {None}]
        /\ \A d \in Clients : session'[d] = None <=> stage'[d] = "idle"
        /\ shared' \subseteq Sessions
    BY <1>2
    DEF Load, LoadCached, MissCache, CacheUnusable, Enter, MoveTo, Stage, SessionTypeOK
  <2>4. QED
    BY <1>2, <2>1, <2>2, <2>3, <2>5
    DEF Load, LoadCached, MissCache, CacheUnusable, Enter, SessionTypeOK
<1>3. ASSUME NEW c \in Clients, ReplayLog(c)
      PROVE  SessionTypeOK' /\ RowsFit'
  <2>1. RowsFit'
    BY <1>3, RowsStayFit DEF ReplayLog, SessionTypeOK
  <2>2. session[c] \in Sessions
    BY <1>3 DEF ReplayLog, SessionTypeOK
  <2>3. mem' \in [Clients -> Memory]
    BY <1>1, <1>3, <2>2, ReplayedIsMemory DEF ReplayLog, SessionTypeOK
  <2>4. QED
    BY <1>3, <2>1, <2>3 DEF ReplayLog, MoveTo, Stage, SessionTypeOK
<1>4. ASSUME NEW c \in Clients, WriteOpen(c)
      PROVE  SessionTypeOK' /\ RowsFit'
  <2>1. session[c] \in Sessions /\ Insert(session[c], "session_open", None)
    BY <1>4 DEF WriteOpen, SessionTypeOK
  <2>2. RowsFit'
    BY <1>4, <2>1, InsertKeepsRows DEF WriteOpen, EntryType
  <2>3. log' \in Seq(Row) /\ Len(log') <= MaxRows /\ purged' \subseteq 1..Len(log')
    BY <1>4, <2>1, InsertTypes DEF WriteOpen, EntryType
  <2>4. QED
    BY <1>4, <2>2, <2>3 DEF WriteOpen, MoveTo, Stage, SessionTypeOK
<1>5. ASSUME NEW c \in Clients, Leave(c), UNCHANGED <<now, cache, purged, historyVars>>,
             stage[c] \in {"replaying", "opening", "open"}, faults' \in Nat,
             UNCHANGED log \/ Insert(session[c], "other", None)
      PROVE  SessionTypeOK' /\ RowsFit'
  <2>1. session[c] \in Sessions
    BY <1>5 DEF SessionTypeOK
  <2>2. log' \in Seq(Row) /\ Len(log') <= MaxRows /\ purged' \subseteq 1..Len(log')
    BY <1>5, <2>1, InsertTypes DEF EntryType, SessionTypeOK
  <2>3. RowsFit'
    BY <1>5, <2>1, InsertKeepsRows, RowsStayFit DEF EntryType, SessionTypeOK
  <2>4. QED
    BY <1>1, <1>5, <2>2, <2>3 DEF Leave, MoveTo, Stage, SessionTypeOK
<1>6. ASSUME NEW c \in Clients, Purge(c)
      PROVE  SessionTypeOK' /\ RowsFit'
  <2>1. RowsFit'
    BY <1>6, RowsStayFit
    DEF Purge, CountExpired, DeleteExpired, CountOrphans, DeleteOrphans, PurgeFails, SessionTypeOK
  <2>2. counted' \in [Clients -> Count] /\ removed' \in [Clients -> Count]
    <3>1. \A start : /\ Cardinality(Expired(User(c), start)) \in Nat
                     /\ Cardinality(Orphans(User(c))) \in Nat
      BY CountsAreNumbers
    <3>2. ASSUME NEW n \in Nat, NEW count \in Count
          PROVE  [count EXCEPT !.entries = n] \in Count /\ [count EXCEPT !.sessions = n] \in Count
      BY DEF Count
    <3>3. counted[c] \in Count /\ removed[c] \in Count
      BY DEF SessionTypeOK
    <3>4. counted' \in [Clients -> Count]
      <4>1. CASE CountExpired(c)
        BY <3>1, <3>2, <3>3, <4>1 DEF CountExpired, SessionTypeOK
      <4>2. CASE CountOrphans(c)
        BY <3>1, <3>2, <3>3, <4>2 DEF CountOrphans, SessionTypeOK
      <4>3. QED
        BY <1>6, <4>1, <4>2 DEF Purge, DeleteExpired, DeleteOrphans, PurgeFails, SessionTypeOK
    <3>5. removed' \in [Clients -> Count]
      <4>1. CASE DeleteExpired(c)
        BY <3>1, <3>2, <3>3, <4>1 DEF DeleteExpired, SessionTypeOK
      <4>2. CASE DeleteOrphans(c)
        BY <3>1, <3>2, <3>3, <4>2 DEF DeleteOrphans, SessionTypeOK
      <4>3. QED
        BY <1>6, <4>1, <4>2 DEF Purge, CountExpired, CountOrphans, PurgeFails, SessionTypeOK
    <3>6. QED
      BY <3>4, <3>5
  <2>3. purged' \subseteq 1..Len(log) /\ cache' \in [Sessions -> Memory \cup {None}]
    BY <1>6
    DEF Purge, CountExpired, DeleteExpired, CountOrphans, DeleteOrphans, PurgeFails, Expired,
        Written, SessionTypeOK
  <2>4. /\ stage' \in [Clients -> Stage] /\ began' \in [Clients -> Nat]
        /\ \A d \in Clients : session'[d] = None <=> stage'[d] = "idle"
    <3>1. \E st \in {"deleting", "counting_orphans", "deleting_orphans", "open"} : MoveTo(c, st)
      BY <1>6
      DEF Purge, CountExpired, DeleteExpired, CountOrphans, DeleteOrphans, PurgeFails
    <3>2. \/ UNCHANGED began
          \/ \E n \in Nat : began' = [began EXCEPT ![c] = n]
      BY <1>6
      DEF Purge, CountExpired, DeleteExpired, CountOrphans, DeleteOrphans, PurgeFails,
          SessionTypeOK
    <3>3. stage[c] # "idle" /\ UNCHANGED session
      BY <1>6
      DEF Purge, CountExpired, DeleteExpired, CountOrphans, DeleteOrphans, PurgeFails
    <3>4. QED
      BY <3>1, <3>2, <3>3 DEF MoveTo, Stage, SessionTypeOK
  <2>5. QED
    BY <1>6, <2>1, <2>2, <2>3, <2>4
    DEF Purge, CountExpired, DeleteExpired, CountOrphans, DeleteOrphans, PurgeFails, Fault,
        SessionTypeOK
<1>7. ASSUME NEW c \in Clients, LogEntry(c)
      PROVE  SessionTypeOK' /\ RowsFit'
  <2>1. session[c] \in Sessions
    BY <1>7 DEF LogEntry, SessionTypeOK
  <2>2. PICK entry \in Loggable(c) :
          /\ Insert(session[c], entry[1], entry[2])
          /\ mem' = [mem EXCEPT ![c] = Applied(mem[c], Len(log) + 1, entry[1], entry[2])]
    BY <1>7 DEF LogEntry
  <2>3. /\ entry[1] \in EntryType /\ entry[2] \in Flags \cup {None}
        /\ entry[1] \in {"flag_raised", "flag_acknowledged"} => entry[2] \in Flags
    BY LoggableTypes DEF EntryType
  <2>4. RowsFit'
    BY <1>7, <2>1, <2>2, <2>3, InsertKeepsRows DEF LogEntry
  <2>5. log' \in Seq(Row) /\ Len(log') <= MaxRows /\ purged' \subseteq 1..Len(log')
    BY <1>7, <2>1, <2>2, <2>3, InsertTypes DEF LogEntry
  <2>6. Len(log) + 1 \in 1..MaxRows
    BY <2>2 DEF Insert, SessionTypeOK
  <2>7. Applied(mem[c], Len(log) + 1, entry[1], entry[2]) \in Memory
    BY <2>3, <2>6 DEF Applied, Memory, SessionTypeOK
  <2>8. mem' \in [Clients -> Memory]
    BY <2>2, <2>7 DEF SessionTypeOK
  <2>9. QED
    BY <1>1, <1>7, <2>4, <2>5, <2>8 DEF LogEntry, MoveTo, Stage, SessionTypeOK
<1>8. ASSUME NEW c \in Clients, UpdateStateObject(c) \/ UpdateFails(c)
      PROVE  SessionTypeOK' /\ RowsFit'
  <2>1. RowsFit'
    BY <1>8, RowsStayFit DEF UpdateStateObject, UpdateFails, SessionTypeOK
  <2>2. session[c] \in Sessions
    BY <1>8 DEF UpdateStateObject, UpdateFails, SessionTypeOK
  <2>3. CASE UpdateStateObject(c)
    BY <2>1, <2>2, <2>3 DEF UpdateStateObject, MoveTo, Stage, SessionTypeOK
  <2>4. CASE UpdateFails(c)
    BY <2>1, <2>2, <2>4 DEF UpdateFails, Fault, MoveTo, Stage, SessionTypeOK
  <2>5. QED
    BY <1>8, <2>3, <2>4
<1>9. CASE Crash
  <2>1. RowsFit'
    BY <1>9, RowsStayFit DEF Crash, SessionTypeOK
  <2>2. {session[c] : c \in {c \in Clients : stage[c] = "logged"}} \subseteq Sessions
    BY DEF SessionTypeOK
  <2>3. QED
    BY <1>1, <1>9, <2>1, <2>2 DEF Crash, Fault, Stage, SessionTypeOK
<1>10. CASE Tick
  BY <1>10, RowsStayFit DEF Tick, SessionTypeOK
<1>11. CASE UNCHANGED sessionVars
  BY <1>11, RowsStayFit DEF sessionVars, SessionTypeOK
<1>12. ASSUME NEW c \in Clients, OpenThrows(c) \/ CloseSession(c)
      PROVE  SessionTypeOK' /\ RowsFit'
  <2>1. Leave(c) /\ UNCHANGED <<now, cache, purged, historyVars>>
    BY <1>12 DEF OpenThrows, CloseSession
  <2>2. stage[c] \in {"replaying", "opening", "open"} /\ faults' \in Nat
    BY <1>12 DEF OpenThrows, CloseSession, Fault, SessionTypeOK
  <2>3. UNCHANGED log \/ Insert(session[c], "other", None)
    BY <1>12 DEF OpenThrows, CloseSession
  <2>4. QED
    BY <1>5, <2>1, <2>2, <2>3
<1>13. QED
  BY <1>2, <1>3, <1>4, <1>6, <1>7, <1>8, <1>9, <1>10, <1>11, <1>12
  DEF SessionNext, Open, Turn

LEMMA SessionStartsTyped == SessionInit => SessionTypeOK /\ RowsFit
BY SessionAssumption
DEF SessionInit, SessionTypeOK, RowsFit, Written, Fresh, Memory, Zero, Count, Stage

LEMMA SessionAlwaysTyped == SessionSpec => [](SessionTypeOK /\ RowsFit)
<1>1. SessionInit => SessionTypeOK /\ RowsFit
  BY SessionStartsTyped
<1>2. SessionTypeOK /\ RowsFit /\ [SessionNext]_sessionVars => (SessionTypeOK /\ RowsFit)'
  BY SessionStepTypes
<1>3. QED
  BY <1>1, <1>2, PTL DEF SessionSpec

\* Every variable of the session persistence stays within its type: what is
\* cached and what a client holds is a state, and nothing deleted was not written.
THEOREM SessionTypes == SessionSpec => []SessionTypeOK
BY SessionAlwaysTyped, PTL

-----------------------------------------------------------------------------
(* The log only grows, and time only passes.                               *)

LEMMA LogGrows ==
  ASSUME SessionTypeOK, RowsFit, [SessionNext]_sessionVars
  PROVE  /\ now' \in Nat /\ now <= now'
         /\ \/ UNCHANGED log
            \/ /\ UNCHANGED <<now, purged, cache>>
               /\ \E s \in Sessions, type \in EntryType, flag \in Flags \cup {None} :
                    Insert(s, type, flag)
<1> USE DEF dbVars
<1>1. now' \in Nat
  BY SessionStepTypes DEF SessionTypeOK
<1>2. ASSUME NEW c \in Clients, NEW s \in Sessions, Load(c, s)
      PROVE  UNCHANGED <<now, log>>
  BY <1>2 DEF Load, LoadCached, MissCache, CacheUnusable, Enter
<1>3. ASSUME NEW c \in Clients, Purge(c)
      PROVE  UNCHANGED <<now, log>>
  BY <1>3 DEF Purge, CountExpired, DeleteExpired, CountOrphans, DeleteOrphans, PurgeFails
<1>4. ASSUME NEW c \in Clients, Open(c)
      PROVE  /\ UNCHANGED <<now, purged, cache>>
             /\ UNCHANGED log \/ Insert(session[c], "session_open", None)
  BY <1>4 DEF Open, ReplayLog, WriteOpen, OpenThrows
<1>5. ASSUME NEW c \in Clients, CloseSession(c) \/ UpdateStateObject(c) \/ UpdateFails(c)
      PROVE  /\ UNCHANGED now
             /\ \/ UNCHANGED log
                \/ UNCHANGED <<purged, cache>> /\ Insert(session[c], "other", None)
  BY <1>5 DEF CloseSession, UpdateStateObject, UpdateFails
<1>6. ASSUME NEW c \in Clients, LogEntry(c)
      PROVE  /\ UNCHANGED <<now, purged, cache>>
             /\ \E type \in EntryType, flag \in Flags \cup {None} : Insert(session[c], type, flag)
  <2>1. PICK entry \in Loggable(c) : Insert(session[c], entry[1], entry[2])
    BY <1>6 DEF LogEntry
  <2>2. entry[1] \in EntryType /\ entry[2] \in Flags \cup {None}
    BY LoggableTypes DEF EntryType
  <2>3. QED
    BY <1>6, <2>1, <2>2 DEF LogEntry
<1>7. ASSUME NEW c \in Clients, Open(c) \/ Turn(c), log' # log
      PROVE  session[c] \in Sessions
  BY <1>7
  DEF Open, ReplayLog, WriteOpen, OpenThrows, Turn, LogEntry, CloseSession, UpdateStateObject,
      UpdateFails, SessionTypeOK
<1>8. Crash => UNCHANGED <<now, log>>
  BY DEF Crash
<1>9. Tick => UNCHANGED log /\ now <= now'
  BY DEF Tick, SessionTypeOK
<1>10. UNCHANGED sessionVars => UNCHANGED <<now, log>>
  BY DEF sessionVars
<1>11. {"session_open", "other"} \subseteq EntryType /\ None \in Flags \cup {None}
  BY DEF EntryType
<1>12. CASE \E c \in Clients, s \in Sessions : Load(c, s)
  BY <1>1, <1>2, <1>12 DEF SessionTypeOK
<1>13. ASSUME NEW c \in Clients, Open(c) \/ Purge(c) \/ Turn(c)
       PROVE  /\ UNCHANGED now
              /\ \/ UNCHANGED log
                 \/ /\ UNCHANGED <<purged, cache>>
                    /\ \E s \in Sessions, type \in EntryType, flag \in Flags \cup {None} :
                         Insert(s, type, flag)
  BY <1>3, <1>4, <1>5, <1>6, <1>7, <1>11, <1>13 DEF Turn
<1>14. CASE \E c \in Clients : Open(c) \/ Purge(c) \/ Turn(c)
  <2>1. now \in Nat
    BY DEF SessionTypeOK
  <2>2. QED
    BY <1>1, <1>13, <1>14, <2>1
<1>15. CASE Crash \/ Tick \/ UNCHANGED sessionVars
  BY <1>1, <1>8, <1>9, <1>10, <1>15 DEF SessionTypeOK
<1>16. QED
  BY <1>12, <1>14, <1>15 DEF SessionNext

\* What was written stays, and what is new was written now.
LEMMA RowsPersist ==
  ASSUME SessionTypeOK, RowsFit, [SessionNext]_sessionVars
  PROVE  /\ \A i \in Written : i \in Written' /\ log'[i] = log[i]
         /\ \A i \in Written' \ Written : log'[i].time = now /\ UNCHANGED now
<1>1. CASE UNCHANGED log
  BY <1>1 DEF Written
<1>2. ASSUME UNCHANGED now, NEW s \in Sessions, NEW type \in EntryType,
             NEW flag \in Flags \cup {None}, Insert(s, type, flag)
      PROVE  /\ \A i \in Written : i \in Written' /\ log'[i] = log[i]
             /\ \A i \in Written' \ Written : log'[i].time = now /\ UNCHANGED now
  <2>1. /\ \A i \in Written : i \in Written' /\ log'[i] = log[i]
        /\ \A i \in Written' : i \notin Written => i = Len(log) + 1
        /\ log'[Len(log) + 1] = [session |-> s, type |-> type, flag |-> flag, time |-> now]
    BY <1>2, InsertFacts DEF SessionTypeOK
  <2>2. QED
    BY <1>2, <2>1
<1>3. QED
  BY <1>1, <1>2, LogGrows

-----------------------------------------------------------------------------
(* The retention.                                                          *)

\* Client c has deleted the rows that were too old, and its purge goes on.
Swept(c) == stage[c] \in {"counting_orphans", "deleting_orphans"}

\* Rows are deleted by one statement alone, and a client that has run it keeps
\* its cutoff and its session until the purge is over.
LEMMA PurgeMoves ==
  ASSUME SessionTypeOK, RowsFit, [SessionNext]_sessionVars
  PROVE  /\ \A d \in Clients : began'[d] \in {began[d], now, 0}
         /\ UNCHANGED purged \/ \E c \in Clients : DeleteExpired(c)
         /\ \A d \in Clients : Swept(d)' =>
              \/ Swept(d) /\ began'[d] = began[d] /\ session'[d] = session[d]
              \/ DeleteExpired(d)
<1> DEFINE G == /\ \A d \in Clients : began'[d] \in {began[d], now, 0}
                /\ UNCHANGED purged \/ \E c \in Clients : DeleteExpired(c)
                /\ \A d \in Clients : Swept(d)' =>
                     \/ Swept(d) /\ began'[d] = began[d] /\ session'[d] = session[d]
                     \/ DeleteExpired(d)
<1> USE DEF dbVars, purgeVars, Swept, MoveTo
<1>1. ASSUME NEW c \in Clients, NEW s \in Sessions, Load(c, s)
      PROVE  G
  BY <1>1 DEF Load, LoadCached, MissCache, CacheUnusable, Enter, SessionTypeOK
<1>2. ASSUME NEW c \in Clients, Open(c)
      PROVE  G
  BY <1>2 DEF Open, ReplayLog, WriteOpen, OpenThrows, Leave, SessionTypeOK
<1>3. ASSUME NEW c \in Clients, CountExpired(c)
      PROVE  G
  BY <1>3 DEF CountExpired, SessionTypeOK
<1>4. ASSUME NEW c \in Clients, DeleteExpired(c)
      PROVE  G
  <2>1. UNCHANGED <<began, session>>
    BY <1>4 DEF DeleteExpired
  <2>2. \A d \in Clients : d # c => stage'[d] = stage[d]
    BY <1>4 DEF DeleteExpired, SessionTypeOK
  <2>3. QED
    BY <1>4, <2>1, <2>2
<1>5. ASSUME NEW c \in Clients, CountOrphans(c) \/ DeleteOrphans(c) \/ PurgeFails(c)
      PROVE  G
  BY <1>5 DEF CountOrphans, DeleteOrphans, PurgeFails, SessionTypeOK
<1>6. ASSUME NEW c \in Clients, Turn(c)
      PROVE  G
  BY <1>6
  DEF Turn, LogEntry, UpdateStateObject, UpdateFails, CloseSession, Leave, SessionTypeOK
<1>7. CASE Crash
  BY <1>7 DEF Crash
<1>8. CASE Tick \/ UNCHANGED sessionVars
  BY <1>8 DEF Tick, sessionVars
<1>9. QED
  BY <1>1, <1>2, <1>3, <1>4, <1>5, <1>6, <1>7, <1>8 DEF SessionNext, Purge

\* The inductive invariant: what is gone was older than the retention, and what
\* a purge has left of its user's rows was not, when it began.
Retained ==
  /\ \A c \in Clients : began[c] <= now
  /\ \A i \in purged : now - log[i].time > Days
  /\ \A c \in Clients : Swept(c) =>
       \A i \in Written \ purged :
         UserOf[log[i].session] = User(c) => began[c] - log[i].time <= Days

LEMMA StepRetains ==
  SessionTypeOK /\ RowsFit /\ Retained /\ [SessionNext]_sessionVars => Retained'
<1> SUFFICES ASSUME SessionTypeOK, RowsFit, Retained, [SessionNext]_sessionVars
             PROVE  Retained'
  OBVIOUS
<1>1. /\ now \in Nat /\ now' \in Nat /\ now <= now' /\ began \in [Clients -> Nat]
      /\ Days \in Nat /\ purged \subseteq Written
      /\ \A i \in Written : log[i].time \in Nat /\ log[i].time <= now
  BY LogGrows, DaysBound DEF SessionTypeOK, RowsFit, Row, Written
<1>2. /\ \A i \in Written : i \in Written' /\ log'[i] = log[i]
      /\ \A i \in Written' \ Written : log'[i].time = now /\ UNCHANGED now
  BY RowsPersist
<1>3. /\ \A d \in Clients : began'[d] \in {began[d], now, 0}
      /\ UNCHANGED purged \/ \E c \in Clients : DeleteExpired(c)
      /\ \A d \in Clients : Swept(d)' =>
           \/ Swept(d) /\ began'[d] = began[d] /\ session'[d] = session[d]
           \/ DeleteExpired(d)
  BY PurgeMoves
<1>4. \A c \in Clients : began'[c] <= now'
  BY <1>1, <1>3 DEF Retained
<1>5. \A i \in purged' : now' - log'[i].time > Days
  <2>1. ASSUME NEW c \in Clients, DeleteExpired(c), NEW i \in Expired(User(c), began[c])
        PROVE  now - log[i].time > Days
    <3>1. i \in Written /\ log[i].time < began[c] - Days
      BY <2>1 DEF Expired
    <3>2. QED
      BY <1>1, <3>1 DEF Retained
  <2>2. \A i \in purged' : i \in Written /\ now - log[i].time > Days
    BY <1>1, <1>3, <2>1 DEF Retained, DeleteExpired, Expired
  <2>3. QED
    BY <1>1, <1>2, <2>2
<1>6. ASSUME NEW c \in Clients, Swept(c)', NEW i \in Written' \ purged',
             (UserOf[log[i].session] = User(c))'
      PROVE  began'[c] - log'[i].time <= Days
  <2>1. CASE i \notin Written
    BY <1>1, <1>2, <1>4, <2>1, SessionStepTypes DEF SessionTypeOK
  <2>2. CASE i \in Written /\ Swept(c) /\ began'[c] = began[c] /\ session'[c] = session[c]
    <3>1. i \notin purged
      BY <1>3, <1>6 DEF DeleteExpired
    <3>2. log'[i] = log[i] /\ UserOf[log[i].session] = User(c)
      BY <1>2, <1>6, <2>2 DEF User
    <3>3. QED
      BY <2>2, <3>1, <3>2 DEF Retained
  <2>3. CASE i \in Written /\ DeleteExpired(c)
    <3>1. UNCHANGED <<log, began, session>> /\ purged' = purged \cup Expired(User(c), began[c])
      BY <2>3 DEF DeleteExpired
    <3>2. UserOf[log[i].session] = User(c) /\ i \notin purged /\ i \notin Expired(User(c), began[c])
      BY <1>6, <3>1 DEF User
    <3>3. ~ (log[i].time < began[c] - Days)
      BY <2>3, <3>2 DEF Expired
    <3>4. QED
      BY <1>1, <2>3, <3>1, <3>3
  <2>4. QED
    BY <1>3, <1>6, <2>1, <2>2, <2>3
<1>7. QED
  BY <1>4, <1>5, <1>6 DEF Retained

LEMMA AlwaysRetained == SessionSpec => [](SessionTypeOK /\ RowsFit /\ Retained)
<1>1. SessionInit => Retained
  BY DEF SessionInit, Retained, Swept
<1>2. SessionTypeOK /\ RowsFit /\ Retained /\ [SessionNext]_sessionVars => Retained'
  BY StepRetains
<1>3. QED
  BY <1>1, <1>2, SessionAlwaysTyped, PTL DEF SessionSpec

\* A purge leaves its user no row that was older than MAX_RETENTION_DAYS when it
\* began, whatever retention the caller asks for and whatever other clients do.
THEOREM RetentionIsHeld == SessionSpec => []RetentionHolds
<1>1. SessionTypeOK /\ RowsFit /\ Retained => RetentionHolds
  <2> SUFFICES ASSUME SessionTypeOK, RowsFit, Retained, NEW c \in Clients, Swept(c),
                      NEW i \in Written \ purged, UserOf[log[i].session] = User(c)
               PROVE  began[c] - log[i].time <= MaxRetention
    BY DEF RetentionHolds, Swept
  <2>1. began[c] - log[i].time <= Days
    BY DEF Retained
  <2>2. began[c] \in Nat /\ log[i].time \in Nat
    BY DEF SessionTypeOK, RowsFit, Row
  <2>3. QED
    BY <2>1, <2>2, DaysBound, SessionAssumption
<1>2. QED
  BY <1>1, AlwaysRetained, PTL

\* A cached state that goes was an orphan.
LEMMA OnlyOrphansGo ==
  ASSUME SessionTypeOK, RowsFit, [SessionNext]_sessionVars,
         NEW s \in Sessions, cache[s] # None, cache'[s] = None
  PROVE  RowsOf(s) = {}
<1> USE DEF dbVars
<1>1. ASSUME NEW c \in Clients, DeleteOrphans(c)
      PROVE  RowsOf(s) = {}
  BY <1>1 DEF DeleteOrphans, Orphans
<1>2. ASSUME NEW c \in Clients, UpdateStateObject(c)
      PROVE  FALSE
  <2>1. mem[c] # None
    BY SessionAssumption DEF SessionTypeOK
  <2>2. QED
    BY <1>2, <2>1 DEF UpdateStateObject, SessionTypeOK
<1>3. CASE UNCHANGED cache
  BY <1>3
<1>4. QED
  BY <1>1, <1>2, <1>3
  DEF SessionNext, sessionVars, Load, LoadCached, MissCache, CacheUnusable, Enter, Open, ReplayLog,
      WriteOpen, OpenThrows, Purge, CountExpired, DeleteExpired, CountOrphans, PurgeFails, Turn,
      LogEntry, UpdateFails, CloseSession, Crash, Tick

\* No purge deletes a row within the retention, nor the cached state of a session
\* that has such a row, however the statements of two purges interleave.
THEOREM RecentIsSpared == SessionSpec => PurgeSparesRecent
<1>1. SessionTypeOK /\ RowsFit /\ Retained /\ [SessionNext]_sessionVars =>
        [/\ \A i \in purged' \ purged : now - log[i].time > Days
         /\ \A s \in Sessions :
              cache[s] # None /\ cache'[s] = None =>
                \A i \in Written : log[i].session = s => now - log[i].time > Days]_sessionVars
  <2> SUFFICES ASSUME SessionTypeOK, RowsFit, Retained, [SessionNext]_sessionVars
               PROVE  /\ \A i \in purged' \ purged : now - log[i].time > Days
                      /\ \A s \in Sessions :
                           cache[s] # None /\ cache'[s] = None =>
                             \A i \in Written : log[i].session = s => now - log[i].time > Days
    OBVIOUS
  <2>1. ASSUME NEW i \in purged' \ purged
        PROVE  now - log[i].time > Days
    <3>1. PICK c \in Clients : DeleteExpired(c)
      BY <2>1, PurgeMoves
    <3>2. UNCHANGED <<now, log>>
      BY <3>1 DEF DeleteExpired
    <3>3. QED
      BY <2>1, <3>2, StepRetains, DaysBound DEF Retained, Days
  <2>2. ASSUME NEW s \in Sessions, cache[s] # None, cache'[s] = None,
               NEW i \in Written, log[i].session = s
        PROVE  now - log[i].time > Days
    BY <2>2, OnlyOrphansGo DEF RowsOf, Retained
  <2>3. QED
    BY <2>1, <2>2
<1>2. QED
  BY <1>1, AlwaysRetained, PTL DEF SessionSpec, PurgeSparesRecent

-----------------------------------------------------------------------------
(* The state of a session has been logged.                                 *)

\* A step that is not the client's own leaves it alone, unless all clients die.
Untouched(d) == stage'[d] = stage[d] /\ session'[d] = session[d] /\ mem'[d] = mem[d]
Gone(d) == stage'[d] = "idle" /\ session'[d] = None /\ mem'[d] = Fresh

LEMMA ClientMoves ==
  ASSUME SessionTypeOK, RowsFit, [SessionNext]_sessionVars, NEW d \in Clients
  PROVE  \/ Untouched(d) \/ Gone(d)
         \/ \E s \in Sessions : Load(d, s)
         \/ ReplayLog(d) \/ WriteOpen(d) \/ Purge(d)
         \/ LogEntry(d) \/ UpdateStateObject(d) \/ UpdateFails(d)
<1> USE DEF dbVars, purgeVars, MoveTo, Untouched, Gone
<1>1. ASSUME NEW c \in Clients, c # d, NEW s \in Sessions, Load(c, s)
      PROVE  Untouched(d)
  BY <1>1 DEF Load, LoadCached, MissCache, CacheUnusable, Enter, SessionTypeOK
<1>2. ASSUME NEW c \in Clients, c # d, Open(c)
      PROVE  Untouched(d)
  BY <1>2 DEF Open, ReplayLog, WriteOpen, OpenThrows, Leave, SessionTypeOK
<1>3. ASSUME NEW c \in Clients, c # d, Purge(c)
      PROVE  Untouched(d)
  BY <1>3
  DEF Purge, CountExpired, DeleteExpired, CountOrphans, DeleteOrphans, PurgeFails, SessionTypeOK
<1>4. ASSUME NEW c \in Clients, c # d, Turn(c)
      PROVE  Untouched(d)
  BY <1>4
  DEF Turn, LogEntry, UpdateStateObject, UpdateFails, CloseSession, Leave, SessionTypeOK
<1>5. OpenThrows(d) \/ CloseSession(d) \/ Crash => Gone(d)
  BY DEF OpenThrows, CloseSession, Leave, Crash, SessionTypeOK
<1>6. Tick \/ UNCHANGED sessionVars => Untouched(d)
  BY DEF Tick, sessionVars
<1>7. QED
  BY <1>1, <1>2, <1>3, <1>4, <1>5, <1>6 DEF SessionNext, Open, Turn

\* A cached state stays, goes, or is replaced by that of a client of the session.
LEMMA CacheMoves ==
  ASSUME SessionTypeOK, RowsFit, [SessionNext]_sessionVars, NEW s \in Sessions
  PROVE  \/ cache'[s] = cache[s]
         \/ cache'[s] = None
         \/ \E c \in Clients : UpdateStateObject(c) /\ session[c] = s /\ cache'[s] = mem[c]
<1> USE DEF dbVars
<1>1. ASSUME NEW c \in Clients, DeleteOrphans(c)
      PROVE  cache'[s] \in {cache[s], None}
  BY <1>1 DEF DeleteOrphans
<1>2. ASSUME NEW c \in Clients, UpdateStateObject(c)
      PROVE  cache'[s] = cache[s] \/ (session[c] = s /\ cache'[s] = mem[c])
  BY <1>2 DEF UpdateStateObject, SessionTypeOK
<1>3. QED
  BY <1>1, <1>2
  DEF SessionNext, sessionVars, Load, LoadCached, MissCache, CacheUnusable, Enter, Open, ReplayLog,
      WriteOpen, OpenThrows, Purge, CountExpired, DeleteExpired, CountOrphans, PurgeFails, Turn,
      LogEntry, UpdateFails, CloseSession, Crash, Tick

\* The log is never rewritten: what a state holds of it stays true.
LEMMA LoggedStays ==
  ASSUME SessionTypeOK, RowsFit, [SessionNext]_sessionVars, NEW s, NEW m, HasLogged(s, m)
  PROVE  HasLogged(s, m)'
<1>1. \A i \in Written : i \in Written' /\ log'[i] = log[i]
  BY RowsPersist
<1>2. \A i \in m.messages : i \in Written' /\ log'[i].session = s /\ log'[i].type = "message"
  BY <1>1 DEF HasLogged, Of
<1>3. \A f \in m.raised :
        \E i \in Written' : log'[i].session = s /\ log'[i].type = "flag_raised" /\ log'[i].flag = f
  BY <1>1 DEF HasLogged, Of
<1>4. \A f \in m.acked :
        \E i \in Written' :
          log'[i].session = s /\ log'[i].type = "flag_acknowledged" /\ log'[i].flag = f
  BY <1>1 DEF HasLogged, Of
<1>5. QED
  BY <1>2, <1>3, <1>4 DEF HasLogged, Of

LEMMA FreshIsLogged == \A s : HasLogged(s, Fresh)
BY DEF HasLogged, Fresh

LEMMA ReplayedIsLogged ==
  ASSUME NEW s, NEW state \in Replayed(RowsOf(s))
  PROVE  HasLogged(s, state)
<1>1. \A i \in RowsOf(s) : i \in Written /\ log[i].session = s
  BY DEF RowsOf
<1>2. PICK tied \in SUBSET AckedAtOnce(RowsOf(s)) :
        state = [messages |-> {i \in RowsOf(s) : Of(i, "message")},
                 raised |-> {log[i].flag : i \in {i \in RowsOf(s) : Of(i, "flag_raised")}},
                 acked |-> AckedLater(RowsOf(s)) \cup tied,
                 edition |-> \E i \in RowsOf(s) : Of(i, "session_open")]
  BY DEF Replayed
<1>3. \A f \in AckedLater(RowsOf(s)) \cup tied :
        \E i \in RowsOf(s) : Of(i, "flag_acknowledged") /\ log[i].flag = f
  BY DEF AckedLater, AckedAtOnce
<1>4. QED
  BY <1>1, <1>2, <1>3 DEF HasLogged

\* The inductive invariant: a client that has not loaded holds nothing.
LogFirst ==
  /\ StateIsLogged
  /\ \A c \in Clients : ~ InSession(c) => mem[c] = Fresh

LEMMA EntryIsLogged ==
  ASSUME SessionTypeOK, RowsFit, [SessionNext]_sessionVars, LogFirst,
         NEW d \in Clients, LogEntry(d)
  PROVE  HasLogged(session[d], mem[d])'
<1> DEFINE s == session[d]
           m == mem[d]
           n == Len(log) + 1
<1>1. s \in Sessions
  BY DEF LogEntry, SessionTypeOK
<1>2. PICK entry \in Loggable(d) :
        /\ Insert(s, entry[1], entry[2])
        /\ mem' = [mem EXCEPT ![d] = Applied(m, n, entry[1], entry[2])]
  BY DEF LogEntry
<1>3. entry[1] \in EntryType /\ entry[2] \in Flags \cup {None}
  BY LoggableTypes DEF EntryType
<1>4. /\ Len(log') = n
      /\ log'[n] = [session |-> s, type |-> entry[1], flag |-> entry[2], time |-> now]
      /\ log' \in Seq(Row)
  BY <1>1, <1>2, <1>3, InsertFacts DEF SessionTypeOK
<1>5. n \in Written' /\ n \in Nat
  BY <1>4 DEF Written, SessionTypeOK
<1>6. /\ \A i \in m.messages : i \in Written' /\ log'[i].session = s /\ log'[i].type = "message"
      /\ \A f \in m.raised : \E i \in Written' :
           log'[i].session = s /\ log'[i].type = "flag_raised" /\ log'[i].flag = f
      /\ \A f \in m.acked : \E i \in Written' :
           log'[i].session = s /\ log'[i].type = "flag_acknowledged" /\ log'[i].flag = f
  BY <1>1, RowsPersist, SessionAssumption DEF LogFirst, StateIsLogged, HasLogged, Of
<1>7. mem'[d] = Applied(m, n, entry[1], entry[2])
  BY <1>2 DEF SessionTypeOK
<1> DEFINE a == Applied(m, n, entry[1], entry[2])
<1>8. \A i \in a.messages : i \in Written' /\ log'[i].session = s /\ log'[i].type = "message"
  BY <1>4, <1>5, <1>6 DEF Applied
<1>9. \A f \in a.raised : \E i \in Written' :
        log'[i].session = s /\ log'[i].type = "flag_raised" /\ log'[i].flag = f
  BY <1>4, <1>5, <1>6 DEF Applied
<1>10. \A f \in a.acked : \E i \in Written' :
         log'[i].session = s /\ log'[i].type = "flag_acknowledged" /\ log'[i].flag = f
  BY <1>4, <1>5, <1>6 DEF Applied
<1>11. session'[d] = session[d]
  BY DEF LogEntry
<1>12. QED
  BY <1>7, <1>8, <1>9, <1>10, <1>11 DEF HasLogged, Of

LEMMA StepLogsFirst ==
  SessionTypeOK /\ RowsFit /\ LogFirst /\ [SessionNext]_sessionVars => LogFirst'
<1> SUFFICES ASSUME SessionTypeOK, RowsFit, LogFirst, [SessionNext]_sessionVars
             PROVE  LogFirst'
  OBVIOUS
<1>1. ASSUME NEW s \in Sessions, cache'[s] # None
      PROVE  HasLogged(s, cache[s])'
  <2>1. CASE cache'[s] = cache[s]
    <3>1. HasLogged(s, cache[s])
      BY <1>1, <2>1 DEF LogFirst, StateIsLogged
    <3>2. \A m : HasLogged(s, m) => HasLogged(s, m)'
      BY LoggedStays
    <3>3. QED
      BY <2>1, <3>1, <3>2 DEF HasLogged
  <2>2. ASSUME NEW c \in Clients, UpdateStateObject(c), session[c] = s, cache'[s] = mem[c]
        PROVE  HasLogged(s, cache[s])'
    <3>1. HasLogged(s, mem[c])
      BY <1>1, <2>2, SessionAssumption DEF LogFirst, StateIsLogged
    <3>2. \A m : HasLogged(s, m) => HasLogged(s, m)'
      BY LoggedStays
    <3>3. QED
      BY <2>2, <3>1, <3>2 DEF HasLogged
  <2>3. QED
    BY <1>1, <2>1, <2>2, CacheMoves
<1>2. ASSUME NEW d \in Clients
      PROVE  /\ (session[d] # None => HasLogged(session[d], mem[d]))'
             /\ (~ InSession(d) => mem[d] = Fresh)'
  <2> DEFINE G == /\ (session[d] # None => HasLogged(session[d], mem[d]))'
                  /\ (~ InSession(d) => mem[d] = Fresh)'
  <2>0. ASSUME NEW s, NEW m, HasLogged(s, m), session'[d] = s, mem'[d] = m
        PROVE  HasLogged(session[d], mem[d])'
    <3>1. HasLogged(s, m)'
      BY <2>0, LoggedStays
    <3>2. QED
      BY <2>0, <3>1 DEF HasLogged
  <2>1. ASSUME session'[d] = session[d], mem'[d] = mem[d], stage[d] \notin {"idle", "replaying"}
        PROVE  (session[d] # None => HasLogged(session[d], mem[d]))'
    <3>1. HasLogged(session[d], mem[d])
      BY <2>1 DEF LogFirst, StateIsLogged, SessionTypeOK
    <3>2. QED
      BY <2>0, <2>1, <3>1
  <2>2. ASSUME mem'[d] = Fresh
        PROVE  G
    <3>1. \A s : HasLogged(s, Fresh)'
      BY DEF HasLogged, Fresh
    <3>2. QED
      BY <2>2, <3>1 DEF HasLogged, Fresh
  <2>3. CASE Untouched(d)
    <3>1. CASE InSession(d)
      BY <2>1, <2>3, <3>1 DEF Untouched, InSession
    <3>2. CASE ~ InSession(d)
      BY <2>2, <2>3, <3>2 DEF Untouched, LogFirst
    <3>3. QED
      BY <3>1, <3>2
  <2>4. CASE Gone(d)
    BY <2>2, <2>4 DEF Gone
  <2>5. ASSUME NEW s \in Sessions, LoadCached(d, s)
        PROVE  G
    <3>1. session'[d] = s /\ mem'[d] = cache[s] /\ stage'[d] = "opening"
      BY <2>5 DEF LoadCached, Enter, MoveTo, SessionTypeOK
    <3>2. HasLogged(s, cache[s])
      BY <2>5 DEF LoadCached, LogFirst, StateIsLogged
    <3>3. \A m : HasLogged(s, m) => HasLogged(s, m)'
      BY LoggedStays
    <3>4. QED
      BY <3>1, <3>2, <3>3 DEF HasLogged, InSession
  <2>6. ASSUME NEW s \in Sessions, MissCache(d, s) \/ CacheUnusable(d, s)
        PROVE  G
    <3>1. mem'[d] = Fresh
      BY <2>6 DEF MissCache, CacheUnusable, Enter, LogFirst, InSession
    <3>2. QED
      BY <2>2, <3>1
  <2>7. CASE ReplayLog(d)
    <3>1. stage'[d] = "opening" /\ session'[d] = session[d]
      BY <2>7 DEF ReplayLog, MoveTo, SessionTypeOK
    <3>2. PICK state \in IF RowsOf(session[d]) = {} THEN {Fresh} ELSE Replayed(RowsOf(session[d])) :
            mem' = [mem EXCEPT ![d] = state]
      BY <2>7 DEF ReplayLog
    <3>3. mem'[d] = state
      BY <3>2 DEF SessionTypeOK
    <3>4. HasLogged(session[d], state)
      BY FreshIsLogged, ReplayedIsLogged
    <3>5. \A s : HasLogged(s, state) => HasLogged(s, state)'
      BY LoggedStays
    <3>6. QED
      BY <3>1, <3>3, <3>4, <3>5 DEF HasLogged, InSession
  <2>8. CASE WriteOpen(d) \/ Purge(d) \/ UpdateStateObject(d) \/ UpdateFails(d)
    <3>1. /\ session'[d] = session[d] /\ mem'[d] = mem[d]
          /\ stage[d] \notin {"idle", "replaying"} /\ stage'[d] \notin {"idle", "replaying"}
      BY <2>8
      DEF WriteOpen, Purge, CountExpired, DeleteExpired, CountOrphans, DeleteOrphans, PurgeFails,
          UpdateStateObject, UpdateFails, MoveTo, SessionTypeOK
    <3>2. QED
      BY <2>1, <3>1 DEF InSession
  <2>9. CASE LogEntry(d)
    <3>1. stage'[d] = "logged"
      BY <2>9 DEF LogEntry, MoveTo, SessionTypeOK
    <3>2. HasLogged(session[d], mem[d])'
      BY <2>9, EntryIsLogged
    <3>3. QED
      BY <3>1, <3>2 DEF InSession
  <2>10. QED
    BY <2>3, <2>4, <2>5, <2>6, <2>7, <2>8, <2>9, ClientMoves DEF Load
<1>3. QED
  BY <1>1, <1>2 DEF LogFirst, StateIsLogged

LEMMA AlwaysLogFirst == SessionSpec => [](SessionTypeOK /\ RowsFit /\ LogFirst)
<1>1. SessionInit => LogFirst
  BY DEF SessionInit, LogFirst, StateIsLogged
<1>2. SessionTypeOK /\ RowsFit /\ LogFirst /\ [SessionNext]_sessionVars => LogFirst'
  BY StepLogsFirst
<1>3. QED
  BY <1>1, <1>2, SessionAlwaysTyped, PTL DEF SessionSpec

\* Log-first: whatever fails and whoever else works on the session, a cached
\* state, and the state a client has, hold only what the session's log was given.
THEOREM CacheFollowsLog == SessionSpec => []StateIsLogged
<1>1. LogFirst => StateIsLogged
  BY DEF LogFirst
<1>2. QED
  BY <1>1, AlwaysLogFirst, PTL

-----------------------------------------------------------------------------
(* The edition of a session.                                               *)

\* Where the state of a client in a session comes from: it had it, or it loaded
\* the cached state, replayed the log, or logged an entry.
LEMMA MemOrigin ==
  ASSUME SessionTypeOK, RowsFit, [SessionNext]_sessionVars, NEW d \in Clients, InSession(d)'
  PROVE  \/ InSession(d) /\ session'[d] = session[d] /\ mem'[d] = mem[d]
         \/ \E s \in Sessions :
              LoadCached(d, s) /\ session'[d] = s /\ mem'[d] = cache[s] /\ cache[s] # None
         \/ /\ ReplayLog(d) /\ session'[d] = session[d]
            /\ \/ RowsOf(session[d]) = {} /\ mem'[d] = Fresh
               \/ RowsOf(session[d]) # {} /\ mem'[d] \in Replayed(RowsOf(session[d]))
         \/ /\ LogEntry(d) /\ session'[d] = session[d]
            /\ \E entry \in Loggable(d) :
                 /\ Insert(session[d], entry[1], entry[2])
                 /\ mem'[d] = Applied(mem[d], Len(log) + 1, entry[1], entry[2])
<1>1. CASE Untouched(d) \/ Gone(d)
  BY <1>1 DEF Untouched, Gone, InSession
<1>2. ASSUME NEW s \in Sessions, LoadCached(d, s)
      PROVE  session'[d] = s /\ mem'[d] = cache[s] /\ cache[s] # None
  BY <1>2 DEF LoadCached, Enter, SessionTypeOK
<1>3. ASSUME NEW s \in Sessions, MissCache(d, s) \/ CacheUnusable(d, s)
      PROVE  FALSE
  BY <1>3 DEF MissCache, CacheUnusable, Enter, MoveTo, InSession, SessionTypeOK
<1>4. CASE ReplayLog(d)
  <2>1. session'[d] = session[d]
    BY <1>4 DEF ReplayLog
  <2>2. PICK state \in IF RowsOf(session[d]) = {} THEN {Fresh} ELSE Replayed(RowsOf(session[d])) :
          mem' = [mem EXCEPT ![d] = state]
    BY <1>4 DEF ReplayLog
  <2>3. mem'[d] = state
    BY <2>2 DEF SessionTypeOK
  <2>4. QED
    BY <1>4, <2>1, <2>2, <2>3
<1>5. CASE WriteOpen(d) \/ Purge(d) \/ UpdateStateObject(d) \/ UpdateFails(d)
  BY <1>5
  DEF WriteOpen, Purge, CountExpired, DeleteExpired, CountOrphans, DeleteOrphans, PurgeFails,
      UpdateStateObject, UpdateFails, InSession
<1>6. CASE LogEntry(d)
  <2>1. session'[d] = session[d]
    BY <1>6 DEF LogEntry
  <2>2. QED
    BY <1>6, <2>1 DEF LogEntry, SessionTypeOK
<1>7. QED
  BY <1>1, <1>2, <1>3, <1>4, <1>5, <1>6, ClientMoves DEF Load

\* A new row is the session_open or session_close of a client, or its entry.
LEMMA NewRows ==
  ASSUME SessionTypeOK, RowsFit, [SessionNext]_sessionVars, NEW i \in Written', i \notin Written
  PROVE  \E c \in Clients :
           /\ session[c] \in Sessions /\ log'[i].session = session[c]
           /\ \/ WriteOpen(c) /\ log'[i].type = "session_open"
              \/ CloseSession(c) /\ log'[i].type = "other"
              \/ LogEntry(c)
<1> USE DEF dbVars
<1>1. log' # log
  BY DEF Written
<1>2. ASSUME NEW c \in Clients, WriteOpen(c) \/ CloseSession(c) \/ LogEntry(c)
      PROVE  session[c] \in Sessions
  BY <1>2 DEF WriteOpen, CloseSession, LogEntry, SessionTypeOK
<1>3. ASSUME NEW s \in Sessions, NEW type \in EntryType, NEW flag \in Flags \cup {None},
             Insert(s, type, flag)
      PROVE  log'[i].session = s /\ log'[i].type = type
  <2>1. log'[i] = [session |-> s, type |-> type, flag |-> flag, time |-> now]
    BY <1>3, InsertFacts DEF SessionTypeOK
  <2>2. QED
    BY <2>1
<1>4. {"session_open", "other"} \subseteq EntryType /\ None \in Flags \cup {None}
  BY DEF EntryType
<1>5. ASSUME NEW c \in Clients, WriteOpen(c)
      PROVE  log'[i].session = session[c] /\ log'[i].type = "session_open"
  BY <1>2, <1>3, <1>4, <1>5 DEF WriteOpen
<1>6. ASSUME NEW c \in Clients, CloseSession(c)
      PROVE  log'[i].session = session[c] /\ log'[i].type = "other"
  BY <1>1, <1>2, <1>3, <1>4, <1>6 DEF CloseSession
<1>7. ASSUME NEW c \in Clients, LogEntry(c)
      PROVE  log'[i].session = session[c]
  <2>1. PICK entry \in Loggable(c) : Insert(session[c], entry[1], entry[2])
    BY <1>7 DEF LogEntry
  <2>2. entry[1] \in EntryType /\ entry[2] \in Flags \cup {None}
    BY LoggableTypes DEF EntryType
  <2>3. QED
    BY <1>2, <1>3, <1>7, <2>1, <2>2
<1>8. \E c \in Clients : WriteOpen(c) \/ CloseSession(c) \/ LogEntry(c)
  BY <1>1
  DEF SessionNext, sessionVars, Load, LoadCached, MissCache, CacheUnusable, Enter, Open, ReplayLog,
      OpenThrows, Purge, CountExpired, DeleteExpired, CountOrphans, DeleteOrphans, PurgeFails, Turn,
      UpdateStateObject, UpdateFails, Crash, Tick
<1>9. QED
  BY <1>2, <1>5, <1>6, <1>7, <1>8

\* Session s has been opened: its session_open row was written.
Opened(s) == \E j \in Written : log[j].session = s /\ Of(j, "session_open")

\* A client past its open, and any row, belong to a session that was opened.
OpenedFirst ==
  /\ \A c \in Clients : stage[c] \notin {"idle", "replaying", "opening"} => Opened(session[c])
  /\ \A i \in Written : Opened(log[i].session)

LEMMA StepOpensFirst ==
  SessionTypeOK /\ RowsFit /\ OpenedFirst /\ [SessionNext]_sessionVars => OpenedFirst'
<1> SUFFICES ASSUME SessionTypeOK, RowsFit, OpenedFirst, [SessionNext]_sessionVars
             PROVE  OpenedFirst'
  OBVIOUS
<1>1. \A i \in Written : i \in Written' /\ log'[i] = log[i]
  BY RowsPersist
<1>2. ASSUME NEW s, Opened(s)
      PROVE  Opened(s)'
  BY <1>1, <1>2 DEF Opened, Of
<1>3. ASSUME NEW c \in Clients, WriteOpen(c)
      PROVE  session'[c] = session[c] /\ Opened(session[c])'
  <2>1. session[c] \in Sessions /\ Insert(session[c], "session_open", None)
    BY <1>3 DEF WriteOpen, SessionTypeOK
  <2>2. /\ Len(log') = Len(log) + 1
        /\ log'[Len(log) + 1] =
             [session |-> session[c], type |-> "session_open", flag |-> None, time |-> now]
    BY <2>1, InsertFacts DEF SessionTypeOK, EntryType
  <2>3. Len(log) + 1 \in Written'
    BY <2>2 DEF Written, SessionTypeOK
  <2>4. session'[c] = session[c]
    BY <1>3 DEF WriteOpen
  <2>5. QED
    BY <2>2, <2>3, <2>4 DEF Opened, Of
<1>4. ASSUME NEW d \in Clients, stage'[d] \notin {"idle", "replaying", "opening"}
      PROVE  Opened(session[d])'
  <2>1. CASE WriteOpen(d)
    BY <1>3, <2>1
  <2>2. CASE ~ WriteOpen(d)
    <3>1. stage[d] \notin {"idle", "replaying", "opening"} /\ session'[d] = session[d]
      BY <1>4, <2>2, ClientMoves
      DEF Untouched, Gone, Load, LoadCached, MissCache, CacheUnusable, Enter, ReplayLog, Purge,
          CountExpired, DeleteExpired, CountOrphans, DeleteOrphans, PurgeFails, LogEntry,
          UpdateStateObject, UpdateFails, MoveTo, SessionTypeOK
    <3>2. PICK s : s = session[d]
      OBVIOUS
    <3>3. Opened(s)'
      BY <1>2, <3>1, <3>2 DEF OpenedFirst
    <3>4. QED
      BY <3>1, <3>2, <3>3 DEF Opened
  <2>3. QED
    BY <2>1, <2>2
<1>5. ASSUME NEW i \in Written'
      PROVE  Opened(log[i].session)'
  <2>1. CASE i \in Written
    <3>1. PICK s : s = log[i].session
      OBVIOUS
    <3>2. Opened(s)'
      BY <1>2, <2>1, <3>1 DEF OpenedFirst
    <3>3. QED
      BY <1>1, <2>1, <3>1, <3>2 DEF Opened
  <2>2. CASE i \notin Written
    <3>1. PICK c \in Clients :
            /\ log'[i].session = session[c]
            /\ \/ WriteOpen(c)
               \/ CloseSession(c) \/ LogEntry(c)
      BY <2>2, NewRows
    <3>2. PICK s : s = session[c]
      OBVIOUS
    <3>3. CASE WriteOpen(c)
      BY <1>3, <3>1, <3>3 DEF Opened
    <3>4. CASE CloseSession(c) \/ LogEntry(c)
      <4>1. Opened(s)
        BY <3>2, <3>4 DEF CloseSession, LogEntry, OpenedFirst
      <4>2. Opened(s)'
        BY <1>2, <4>1
      <4>3. QED
        BY <3>1, <3>2, <4>2 DEF Opened
    <3>5. QED
      BY <3>1, <3>3, <3>4
  <2>3. QED
    BY <2>1, <2>2
<1>6. QED
  BY <1>4, <1>5 DEF OpenedFirst

\* The edition is in state m of session s, or the session's open was purged.
EditionOf(s, m) == m.edition \/ \E i \in purged : log[i].session = s /\ Of(i, "session_open")

EditionKept ==
  /\ OpenedFirst
  /\ \A c \in Clients : InSession(c) => EditionOf(session[c], mem[c])
  /\ \A s \in Sessions : cache[s] # None => EditionOf(s, cache[s])

\* Row i of the log does not change, and it stays purged.
LEMMA PurgedStays ==
  ASSUME SessionTypeOK, RowsFit, [SessionNext]_sessionVars, NEW i \in purged
  PROVE  i \in purged' /\ i \in Written /\ log'[i] = log[i]
<1>1. purged \subseteq purged'
  BY PurgeMoves DEF DeleteExpired
<1>2. QED
  BY <1>1, RowsPersist DEF SessionTypeOK, Written

LEMMA StepKeepsEdition ==
  SessionTypeOK /\ RowsFit /\ EditionKept /\ [SessionNext]_sessionVars => EditionKept'
<1> SUFFICES ASSUME SessionTypeOK, RowsFit, EditionKept, [SessionNext]_sessionVars
             PROVE  EditionKept'
  OBVIOUS
<1>1. OpenedFirst'
  BY StepOpensFirst DEF EditionKept
<1>2. ASSUME NEW s, NEW m, EditionOf(s, m)
      PROVE  EditionOf(s, m)'
  BY <1>2, PurgedStays DEF EditionOf, Of
<1>3. ASSUME NEW s \in Sessions, cache'[s] # None
      PROVE  EditionOf(s, cache[s])'
  <2>1. PICK m : m = cache'[s]
    OBVIOUS
  <2>2. EditionOf(s, m)
    <3>1. CASE cache'[s] = cache[s]
      BY <1>3, <2>1, <3>1 DEF EditionKept
    <3>2. ASSUME NEW c \in Clients, UpdateStateObject(c), session[c] = s, cache'[s] = mem[c]
          PROVE  EditionOf(s, m)
      BY <2>1, <3>2 DEF EditionKept, InSession, UpdateStateObject
    <3>3. QED
      BY <1>3, <3>1, <3>2, CacheMoves
  <2>3. EditionOf(s, m)'
    BY <1>2, <2>2
  <2>4. QED
    BY <2>1, <2>3 DEF EditionOf
<1>4. ASSUME NEW d \in Clients, InSession(d)'
      PROVE  EditionOf(session[d], mem[d])'
  <2>1. PICK s, m : s = session'[d] /\ m = mem'[d]
    OBVIOUS
  <2>2. EditionOf(s, m)
    <3>1. CASE InSession(d) /\ session'[d] = session[d] /\ mem'[d] = mem[d]
      BY <2>1, <3>1 DEF EditionKept
    <3>2. CASE \E r \in Sessions :
                 LoadCached(d, r) /\ session'[d] = r /\ mem'[d] = cache[r] /\ cache[r] # None
      BY <2>1, <3>2 DEF EditionKept
    <3>3. CASE RowsOf(session[d]) = {} /\ mem'[d] = Fresh
      BY <2>1, <3>3 DEF EditionOf, Fresh
    <3>4. ASSUME ReplayLog(d), session'[d] = session[d], RowsOf(session[d]) # {},
                 mem'[d] \in Replayed(RowsOf(session[d]))
          PROVE  EditionOf(s, m)
      <4> DEFINE opened == \E i \in RowsOf(s) : Of(i, "session_open")
                 messages == {i \in RowsOf(s) : Of(i, "message")}
                 raised == {log[i].flag : i \in {i \in RowsOf(s) : Of(i, "flag_raised")}}
      <4>0. PICK tied \in SUBSET AckedAtOnce(RowsOf(s)) :
              m = [messages |-> messages, raised |-> raised,
                   acked |-> AckedLater(RowsOf(s)) \cup tied, edition |-> opened]
        BY <2>1, <3>4 DEF Replayed
      <4> HIDE DEF opened, messages, raised
      <4>1. m.edition = opened
        BY <4>0
      <4>2. PICK j \in Written : log[j].session = s /\ Of(j, "session_open")
        BY <2>1, <3>4 DEF EditionKept, OpenedFirst, Opened, RowsOf
      <4>3. j \in RowsOf(s) \/ j \in purged
        BY <4>2 DEF RowsOf
      <4>4. QED
        BY <4>1, <4>2, <4>3 DEF EditionOf, opened
    <3>5. CASE /\ LogEntry(d) /\ session'[d] = session[d]
               /\ \E entry \in Loggable(d) :
                    mem'[d] = Applied(mem[d], Len(log) + 1, entry[1], entry[2])
      <4>0. \A i, type, flag : Applied(mem[d], i, type, flag).edition = mem[d].edition
        BY DEF Applied
      <4>1. m.edition = mem[d].edition
        BY <2>1, <3>5, <4>0
      <4>2. EditionOf(s, mem[d])
        BY <2>1, <3>5 DEF EditionKept, InSession, LogEntry
      <4>3. QED
        BY <4>1, <4>2 DEF EditionOf
    <3>6. QED
      BY <1>4, <3>1, <3>2, <3>3, <3>4, <3>5, MemOrigin
  <2>3. EditionOf(s, m)'
    BY <1>2, <2>2
  <2>4. QED
    BY <2>1, <2>3 DEF EditionOf
<1>5. QED
  BY <1>1, <1>3, <1>4 DEF EditionKept

\* The edition of an open session is unknown only if the session_open row of an
\* earlier open was purged: neither the replay nor the cache ever drops it.
THEOREM EditionIsKnown == SessionSpec => []EditionKnown
<1>1. SessionInit => EditionKept
  BY DEF SessionInit, EditionKept, OpenedFirst, InSession, Written
<1>2. SessionTypeOK /\ RowsFit /\ EditionKept /\ [SessionNext]_sessionVars => EditionKept'
  BY StepKeepsEdition
<1>3. EditionKept => EditionKnown
  BY DEF EditionKept, EditionOf, EditionKnown
<1>4. QED
  BY <1>1, <1>2, <1>3, SessionAlwaysTyped, PTL DEF SessionSpec

-----------------------------------------------------------------------------
(* What the log retains of a session is in its state.                      *)

\* State m has what the log retains of session s.
Covers(s, m) ==
  LET R == RowsOf(s) IN
  /\ {i \in R : Of(i, "message")} \subseteq m.messages
  /\ {log[i].flag : i \in {i \in R : Of(i, "flag_raised")}} \subseteq m.raised
  /\ AckedLater(R) \subseteq m.acked

\* Session s was never open twice at a time, and never lost an update.
Kept(s) == s \notin shared \cup unsaved

\* The inductive invariant: one client at most has a session that was never
\* shared, and its state and the cached state have what the log retains; the
\* cached state may be behind only while the client is between log and cache.
Complete ==
  /\ \A c, d \in Clients :
       c # d /\ session[c] = session[d] /\ session[c] # None => session[c] \in shared
  /\ \A c \in Clients : InSession(c) /\ Kept(session[c]) => Covers(session[c], mem[c])
  /\ \A s \in Sessions : Kept(s) /\ cache[s] # None =>
       \/ Covers(s, cache[s])
       \/ \E c \in Clients : session[c] = s /\ stage[c] = "logged"

\* What was shared or lost stays so.
LEMMA HistoryGrows ==
  ASSUME SessionTypeOK, RowsFit, [SessionNext]_sessionVars
  PROVE  shared \subseteq shared' /\ unsaved \subseteq unsaved'
BY DEF SessionNext, sessionVars, Load, LoadCached, MissCache, CacheUnusable, Enter, Open, ReplayLog,
      WriteOpen, OpenThrows, Purge, CountExpired, DeleteExpired, CountOrphans, DeleteOrphans,
      PurgeFails, Turn, LogEntry, UpdateStateObject, UpdateFails, CloseSession, Crash, Tick,
      historyVars

\* A client that enters a session another client has makes it shared.
LEMMA EntryShares ==
  ASSUME SessionTypeOK, RowsFit, [SessionNext]_sessionVars, NEW d \in Clients,
         session'[d] # session[d], session'[d] # None
  PROVE  /\ session'[d] \in Sessions
         /\ \A c \in Clients : session[c] = session'[d] => session'[d] \in shared'
         /\ \A c \in Clients : c # d => session'[c] = session[c]
<1>1. PICK s \in Sessions : Load(d, s)
  BY ClientMoves
  DEF Untouched, Gone, ReplayLog, WriteOpen, Purge, CountExpired, DeleteExpired, CountOrphans,
      DeleteOrphans, PurgeFails, LogEntry, UpdateStateObject, UpdateFails
<1>2. Enter(d, s)
  BY <1>1 DEF Load, LoadCached, MissCache, CacheUnusable
<1>3. session' = [session EXCEPT ![d] = s]
  BY <1>2 DEF Enter
<1>4. session'[d] = s /\ \A c \in Clients : c # d => session'[c] = session[c]
  BY <1>3 DEF SessionTypeOK
<1>5. \A c \in Clients : session[c] = s => s \in shared'
  BY <1>2 DEF Enter
<1>6. QED
  BY <1>4, <1>5

LEMMA StepStaysAlone ==
  ASSUME SessionTypeOK, RowsFit, Complete, [SessionNext]_sessionVars,
         NEW c \in Clients, NEW d \in Clients, c # d,
         session'[c] = session'[d], session'[c] # None
  PROVE  session'[c] \in shared'
<1>1. CASE session'[c] = session[c] /\ session'[d] = session[d]
  BY <1>1, HistoryGrows DEF Complete
<1>2. CASE session'[c] # session[c]
  <2>1. session'[d] = session[d]
    BY <1>2, EntryShares
  <2>2. QED
    BY <1>2, <2>1, EntryShares
<1>3. CASE session'[d] # session[d]
  <2>1. session'[c] = session[c]
    BY <1>3, EntryShares
  <2>2. QED
    BY <1>3, <2>1, EntryShares
<1>4. QED
  BY <1>1, <1>2, <1>3

\* A state goes on covering its session as long as the rows that are added to
\* the session say nothing of it.
LEMMA CoverStays ==
  ASSUME SessionTypeOK, RowsFit, [SessionNext]_sessionVars, NEW s, NEW m, Covers(s, m),
         \A i \in RowsOf(s)' : i \in Written \/ log'[i].type \in {"session_open", "other"}
  PROVE  Covers(s, m)'
<1> DEFINE R == RowsOf(s)
           later == RowsOf(s)'
<1>1. \A i \in Written : i \in Written' /\ log'[i] = log[i]
  BY RowsPersist
<1>2. purged \subseteq purged'
  BY PurgeMoves DEF DeleteExpired
<1>3. ASSUME NEW i \in later, log'[i].type \notin {"session_open", "other"}
      PROVE  i \in R /\ i \in Written /\ log'[i] = log[i]
  BY <1>1, <1>2, <1>3 DEF RowsOf
<1>4. {i \in later : log'[i].type = "message"} \subseteq m.messages
  BY <1>3 DEF Covers, Of
<1>5. \A i \in later : log'[i].type = "flag_raised" => log'[i].flag \in m.raised
  BY <1>3 DEF Covers, Of
<1>6. ASSUME NEW i \in later, log'[i].type = "flag_raised", NEW j \in later,
             log'[j].type = "flag_acknowledged", log'[j].flag = log'[i].flag,
             log'[i].time < log'[j].time
      PROVE  log'[i].flag \in m.acked
  <2>1. i \in R /\ j \in R /\ log'[i] = log[i] /\ log'[j] = log[j]
    BY <1>3, <1>6
  <2>2. log[i].flag \in AckedLater(R)
    BY <1>6, <2>1 DEF AckedLater, Of
  <2>3. QED
    BY <2>1, <2>2 DEF Covers
<1>7. AckedLater(R)' \subseteq m.acked
  BY <1>6 DEF AckedLater, Of
<1>8. QED
  BY <1>4, <1>5, <1>7 DEF Covers, Of

\* A replay covers what it has read, with Fresh for an empty log.
LEMMA ReplayCovers ==
  ASSUME NEW s, NEW m,
         \/ RowsOf(s) = {} /\ m = Fresh
         \/ m \in Replayed(RowsOf(s))
  PROVE  Covers(s, m)
<1>1. CASE RowsOf(s) = {} /\ m = Fresh
  BY <1>1 DEF Covers, AckedLater
<1>2. CASE m \in Replayed(RowsOf(s))
  BY <1>2 DEF Covers, Replayed
<1>3. QED
  BY <1>1, <1>2

\* An entry is in the state that its client goes on with.
LEMMA EntryCovers ==
  ASSUME SessionTypeOK, RowsFit, [SessionNext]_sessionVars, NEW d \in Clients, LogEntry(d),
         NEW s, s = session[d], Covers(s, mem[d]), NEW m, m = mem'[d]
  PROVE  Covers(s, m)'
<1> DEFINE n == Len(log) + 1
           later == RowsOf(s)'
           old == mem[d]
<1>1. s \in Sessions /\ UNCHANGED <<now, purged>>
  BY DEF LogEntry, SessionTypeOK
<1>2. PICK entry \in Loggable(d) :
        /\ Insert(s, entry[1], entry[2])
        /\ mem' = [mem EXCEPT ![d] = Applied(old, n, entry[1], entry[2])]
  BY DEF LogEntry
<1>3. entry[1] \in EntryType /\ entry[2] \in Flags \cup {None}
  BY LoggableTypes DEF EntryType
<1>4. /\ log'[n] = [session |-> s, type |-> entry[1], flag |-> entry[2], time |-> now]
      /\ \A i \in Written : log'[i] = log[i]
      /\ \A i \in Written' : i \notin Written => i = n
  BY <1>1, <1>2, <1>3, InsertFacts DEF SessionTypeOK
<1>5. log'[n].type = entry[1] /\ log'[n].flag = entry[2] /\ log'[n].time = now
  BY <1>4
<1>6. m = Applied(old, n, entry[1], entry[2])
  BY <1>2 DEF SessionTypeOK
<1>7. /\ m.messages = IF entry[1] = "message" THEN old.messages \cup {n} ELSE old.messages
      /\ m.raised = IF entry[1] = "flag_raised" THEN old.raised \cup {entry[2]} ELSE old.raised
      /\ m.acked = IF entry[1] = "flag_acknowledged" THEN old.acked \cup {entry[2]} ELSE old.acked
  BY <1>6 DEF Applied
<1>8. \A i \in later : i = n \/ (i \in RowsOf(s) /\ i \in Written /\ log'[i] = log[i])
  BY <1>1, <1>4 DEF RowsOf
<1>9. \A i \in later : log'[i].type = "message" => i \in m.messages
  BY <1>5, <1>7, <1>8 DEF Covers, Of
<1>10. \A i \in later : log'[i].type = "flag_raised" => log'[i].flag \in m.raised
  BY <1>5, <1>7, <1>8 DEF Covers, Of
<1>11. ASSUME NEW i \in later, log'[i].type = "flag_raised", NEW j \in later,
              log'[j].type = "flag_acknowledged", log'[j].flag = log'[i].flag,
              log'[i].time < log'[j].time
       PROVE  log'[i].flag \in m.acked
  <2>1. CASE j = n
    BY <1>5, <1>7, <1>11, <2>1
  <2>2. CASE j # n
    <3>1. j \in RowsOf(s) /\ log'[j] = log[j] /\ log[j].time <= now /\ log[j].time \in Nat
      BY <1>8, <2>2 DEF RowsFit, Row
    <3>2. i # n
      BY <1>5, <1>11, <3>1 DEF SessionTypeOK
    <3>3. i \in RowsOf(s) /\ log'[i] = log[i]
      BY <1>8, <3>2
    <3>4. log[i].flag \in AckedLater(RowsOf(s))
      BY <1>11, <3>1, <3>3 DEF AckedLater, Of
    <3>5. QED
      BY <1>7, <3>3, <3>4 DEF Covers
  <2>3. QED
    BY <2>1, <2>2
<1>12. AckedLater(RowsOf(s))' \subseteq m.acked
  BY <1>11 DEF AckedLater, Of
<1>13. QED
  BY <1>9, <1>10, <1>12 DEF Covers, Of

\* Rows that say something are added by a LogEntry of the session alone.
LEMMA QuietRows ==
  ASSUME SessionTypeOK, RowsFit, [SessionNext]_sessionVars, NEW s,
         \A c \in Clients : LogEntry(c) => session[c] # s
  PROVE  \A i \in RowsOf(s)' : i \in Written \/ log'[i].type \in {"session_open", "other"}
<1> SUFFICES ASSUME NEW i \in RowsOf(s)', i \notin Written
             PROVE  log'[i].type \in {"session_open", "other"}
  OBVIOUS
<1>1. i \in Written' /\ log'[i].session = s
  BY DEF RowsOf
<1>2. QED
  BY <1>1, NewRows

\* The client between log and cache is there until it updates, or an update is lost.
LEMMA LoggedMoves ==
  ASSUME SessionTypeOK, RowsFit, [SessionNext]_sessionVars,
         NEW c \in Clients, stage[c] = "logged"
  PROVE  \/ session'[c] = session[c] /\ stage'[c] = "logged"
         \/ UpdateStateObject(c)
         \/ session[c] \in unsaved'
<1>1. CASE Untouched(c)
  BY <1>1 DEF Untouched
<1>2. CASE Crash
  BY <1>2 DEF Crash
<1>3. CASE UpdateFails(c)
  BY <1>3 DEF UpdateFails
<1>4. ASSUME Gone(c)
      PROVE  Crash
  <2>1. ASSUME NEW d \in Clients, Gone(c), d # c, Open(d) \/ Purge(d) \/ Turn(d)
        PROVE  FALSE
    <3>1. stage'[c] = stage[c]
      BY <2>1
      DEF Open, ReplayLog, WriteOpen, OpenThrows, Leave, Purge, CountExpired, DeleteExpired,
          CountOrphans, DeleteOrphans, PurgeFails, Turn, LogEntry, UpdateStateObject, UpdateFails,
          CloseSession, MoveTo, SessionTypeOK
    <3>2. QED
      BY <2>1, <3>1 DEF Gone
  <2>2. ASSUME NEW d \in Clients, NEW s \in Sessions, Load(d, s)
        PROVE  FALSE
    <3>1. stage'[c] \in {"logged", "opening", "replaying"}
      BY <2>2 DEF Load, LoadCached, MissCache, CacheUnusable, MoveTo, SessionTypeOK
    <3>2. QED
      BY <1>4, <3>1 DEF Gone
  <2>3. ASSUME Open(c) \/ Purge(c) \/ Turn(c)
        PROVE  FALSE
    <3>1. stage'[c] = "open"
      BY <2>3
      DEF Open, ReplayLog, WriteOpen, OpenThrows, Purge, CountExpired, DeleteExpired, CountOrphans,
          DeleteOrphans, PurgeFails, Turn, LogEntry, UpdateStateObject, UpdateFails,
          CloseSession, MoveTo, SessionTypeOK
    <3>2. QED
      BY <1>4, <3>1 DEF Gone
  <2>4. CASE Tick \/ UNCHANGED sessionVars
    BY <1>4, <2>4 DEF Tick, sessionVars, Gone
  <2>5. QED
    BY <1>4, <2>1, <2>2, <2>3, <2>4 DEF SessionNext
<1>5. QED
  BY <1>1, <1>2, <1>3, <1>4, ClientMoves
  DEF Load, LoadCached, MissCache, CacheUnusable, Enter, ReplayLog, WriteOpen, Purge, CountExpired,
      DeleteExpired, CountOrphans, DeleteOrphans, PurgeFails, LogEntry

LEMMA StepKeepsComplete ==
  SessionTypeOK /\ RowsFit /\ Complete /\ [SessionNext]_sessionVars => Complete'
<1> SUFFICES ASSUME SessionTypeOK, RowsFit, Complete, [SessionNext]_sessionVars
             PROVE  Complete'
  OBVIOUS
<1>1. \A s : Kept(s)' => Kept(s)
  BY HistoryGrows DEF Kept
<1>2. \A c, d \in Clients :
        c # d /\ session'[c] = session'[d] /\ session'[c] # None => session'[c] \in shared'
  BY StepStaysAlone
<1>3. ASSUME NEW s, NEW m, Covers(s, m), \A c \in Clients : LogEntry(c) => session[c] # s
      PROVE  Covers(s, m)'
  BY <1>3, QuietRows, CoverStays
<1>4. ASSUME NEW d \in Clients, InSession(d)', Kept(session[d])'
      PROVE  Covers(session[d], mem[d])'
  <2>1. PICK s, m : s = session'[d] /\ m = mem'[d]
    OBVIOUS
  <2>2. Kept(s) /\ s \notin shared'
    BY <1>1, <1>4, <2>1 DEF Kept
  <2>3. CASE LogEntry(d)
    <3>1. session[d] = s
      BY <2>1, <2>3 DEF LogEntry
    <3>2. Covers(s, mem[d])
      BY <2>2, <2>3, <3>1 DEF Complete, InSession, LogEntry
    <3>3. Covers(s, m)'
      BY <2>1, <2>3, <3>1, <3>2, EntryCovers
    <3>4. QED
      BY <2>1, <3>3 DEF Covers
  <2>4. CASE ~ LogEntry(d)
    <3>1. Covers(s, m) /\ \A c \in Clients : c # d => session[c] # s
      <4>1. CASE InSession(d) /\ session'[d] = session[d] /\ mem'[d] = mem[d]
        BY <2>1, <2>2, <4>1 DEF Complete, InSession, SessionTypeOK, Kept
      <4>2. ASSUME NEW r \in Sessions, LoadCached(d, r), session'[d] = r, mem'[d] = cache[r],
                   cache[r] # None
            PROVE  Covers(s, m) /\ \A c \in Clients : c # d => session[c] # s
        <5>1. session[d] = None /\ r # None
          BY <4>2, SessionAssumption DEF LoadCached, Enter, SessionTypeOK
        <5>2. \A c \in Clients : session[c] # s
          BY <2>1, <2>2, <4>2, <5>1, EntryShares
        <5>3. QED
          BY <2>1, <2>2, <4>2, <5>2 DEF Complete
      <4>3. ASSUME ReplayLog(d), session'[d] = session[d],
                   \/ RowsOf(session[d]) = {} /\ mem'[d] = Fresh
                   \/ mem'[d] \in Replayed(RowsOf(session[d]))
            PROVE  Covers(s, m) /\ \A c \in Clients : c # d => session[c] # s
        <5>1. Covers(s, m)
          BY <2>1, <4>3, ReplayCovers
        <5>2. session[d] = s /\ s # None
          BY <2>1, <4>3 DEF ReplayLog, SessionTypeOK
        <5>3. QED
          BY <2>2, <5>1, <5>2 DEF Complete, Kept
      <4>4. QED
        BY <1>4, <2>4, <4>1, <4>2, <4>3, MemOrigin
    <3>2. Covers(s, m)'
      BY <1>3, <2>4, <3>1
    <3>3. QED
      BY <2>1, <3>2 DEF Covers
  <2>5. QED
    BY <2>3, <2>4
<1>5. ASSUME NEW s \in Sessions, Kept(s)', cache'[s] # None
      PROVE  \/ Covers(s, cache[s])'
             \/ \E c \in Clients : session'[c] = s /\ stage'[c] = "logged"
  <2>1. ASSUME NEW c \in Clients, UpdateStateObject(c), session[c] = s, cache'[s] = mem[c]
        PROVE  Covers(s, cache[s])'
    <3>1. PICK m : m = cache'[s]
      OBVIOUS
    <3>2. Covers(s, m)
      BY <1>1, <1>5, <2>1, <3>1 DEF Complete, InSession, UpdateStateObject
    <3>3. Written' = Written
      BY <2>1 DEF UpdateStateObject, Written
    <3>4. Covers(s, m)'
      BY <3>2, <3>3, CoverStays DEF RowsOf
    <3>5. QED
      BY <3>1, <3>4 DEF Covers
  <2>2. CASE cache'[s] = cache[s]
    <3>1. CASE Covers(s, cache[s])
      <4>1. ASSUME NEW c \in Clients, LogEntry(c), session[c] = s
            PROVE  session'[c] = s /\ stage'[c] = "logged"
        BY <4>1 DEF LogEntry, MoveTo, SessionTypeOK
      <4>2. ASSUME \A c \in Clients : LogEntry(c) => session[c] # s
            PROVE  Covers(s, cache[s])'
        <5>1. PICK m : m = cache[s]
          OBVIOUS
        <5>2. Covers(s, m)'
          BY <1>3, <3>1, <4>2, <5>1
        <5>3. QED
          BY <2>2, <5>1, <5>2 DEF Covers
      <4>3. QED
        BY <4>1, <4>2
    <3>2. ASSUME NEW c \in Clients, session[c] = s, stage[c] = "logged"
          PROVE  \/ Covers(s, cache[s])'
                 \/ \E e \in Clients : session'[e] = s /\ stage'[e] = "logged"
      <4>1. s \notin unsaved'
        BY <1>5 DEF Kept
      <4>2. CASE UpdateStateObject(c)
        <5>1. cache'[s] = mem[c]
          BY <3>2, <4>2 DEF UpdateStateObject, SessionTypeOK
        <5>2. QED
          BY <2>1, <3>2, <4>2, <5>1
      <4>3. QED
        BY <3>2, <4>1, <4>2, LoggedMoves
    <3>3. QED
      BY <1>1, <1>5, <2>2, <3>1, <3>2 DEF Complete
  <2>3. QED
    BY <1>5, <2>1, <2>2, CacheMoves
<1>6. QED
  BY <1>2, <1>4, <1>5 DEF Complete

\* A client sees all retained messages and flags of its session, and every
\* acknowledgement that came after the day of its flag, unless an update of the
\* cache was lost or the session was shared: whatever else fails.  It also sees
\* the edition, unless the row of an open was purged.
THEOREM NothingIsForgotten == SessionSpec => []NothingForgotten
<1>1. SessionInit => Complete
  BY DEF SessionInit, Complete, InSession
<1>2. SessionTypeOK /\ RowsFit /\ Complete /\ [SessionNext]_sessionVars => Complete'
  BY StepKeepsComplete
<1>3. Complete => RetainedIsSeen
  BY DEF Complete, Covers, Kept, RetainedIsSeen
<1>4. RetainedIsSeen /\ EditionKnown => NothingForgotten
  BY DEF NothingForgotten
<1>5. QED
  BY <1>1, <1>2, <1>3, <1>4, SessionAlwaysTyped, EditionIsKnown, PTL DEF SessionSpec

-----------------------------------------------------------------------------
(* The purge and its counts.                                               *)

\* The DELETE of the log is still to come.
Undeleted(c) == stage[c] \in {"idle", "replaying", "opening", "counting", "deleting"}

\* The inductive invariant: a purge has counted all that its DELETE is going to
\* find, and a client that has not deleted yet has nothing to account for.
Accounted ==
  \A c \in Clients :
    /\ removed[c].entries <= counted[c].entries
    /\ Undeleted(c) => removed[c] = Zero
    /\ stage[c] = "deleting" =>
         began[c] <= now /\ Cardinality(Expired(User(c), began[c])) <= counted[c].entries

\* Beyond a cutoff that lies in the past, rows only go.
LEMMA ExpiredShrinks ==
  ASSUME SessionTypeOK, RowsFit, [SessionNext]_sessionVars,
         NEW u, NEW start \in Nat, start <= now
  PROVE  /\ Cardinality(Expired(u, start)') <= Cardinality(Expired(u, start))
         /\ Cardinality(Expired(u, start)') \in Nat
<1>1. /\ \A i \in Written : i \in Written' /\ log'[i] = log[i]
      /\ \A i \in Written' \ Written : log'[i].time = now
  BY RowsPersist
<1>2. \A i \in purged : i \in purged'
  BY PurgedStays
<1>3. ASSUME NEW i \in Expired(u, start)'
      PROVE  i \in Expired(u, start)
  <2>1. i \in Written' /\ i \notin purged' /\ UserOf[log'[i].session] = u
        /\ log'[i].time < start - Days
    BY <1>3 DEF Expired, Days
  <2>2. i \in Written
    BY <1>1, <2>1, DaysBound DEF SessionTypeOK
  <2>3. QED
    BY <1>1, <1>2, <2>1, <2>2 DEF Expired
<1>4. IsFiniteSet(Expired(u, start))
  <2>1. IsFiniteSet(1..Len(log))
    BY FS_Interval DEF SessionTypeOK
  <2>2. Expired(u, start) \in SUBSET (1..Len(log))
    BY DEF Expired, Written
  <2>3. QED
    BY <2>1, <2>2, FS_Subset
<1>5. Expired(u, start)' \in SUBSET Expired(u, start)
  BY <1>3
<1>6. QED
  BY <1>4, <1>5, FS_Subset, FS_CardinalityType

\* What a step does to the counts of client d: nothing, and it is no nearer to
\* its DELETE; it forgets them; or it is one of the two statements on the log.
LEMMA CountMoves ==
  ASSUME SessionTypeOK, [SessionNext]_sessionVars, NEW d \in Clients
  PROVE  \/ /\ removed'[d].entries = removed[d].entries /\ counted'[d].entries = counted[d].entries
            /\ Undeleted(d)' => Undeleted(d) /\ removed'[d] = removed[d]
            /\ stage'[d] = "deleting" =>
                 stage[d] = "deleting" /\ began'[d] = began[d] /\ session'[d] = session[d]
         \/ removed'[d] = Zero /\ counted'[d] = Zero /\ stage'[d] # "deleting"
         \/ CountExpired(d)
         \/ DeleteExpired(d)
<1> DEFINE Same == /\ removed'[d] = removed[d] /\ counted'[d] = counted[d]
                   /\ Undeleted(d)' => Undeleted(d)
                   /\ stage'[d] = "deleting" =>
                        stage[d] = "deleting" /\ began'[d] = began[d] /\ session'[d] = session[d]
           Forgot == removed'[d] = Zero /\ counted'[d] = Zero /\ stage'[d] # "deleting"
           Swap == /\ removed'[d].entries = removed[d].entries
                   /\ counted'[d].entries = counted[d].entries
                   /\ ~ Undeleted(d)'
<1> USE DEF purgeVars, Undeleted, MoveTo
<1>1. ASSUME NEW c \in Clients, NEW s \in Sessions, Load(c, s)
      PROVE  Same
  BY <1>1 DEF Load, LoadCached, MissCache, CacheUnusable, Enter, SessionTypeOK
<1>2. ASSUME NEW c \in Clients, Open(c)
      PROVE  Same \/ Forgot
  BY <1>2 DEF Open, ReplayLog, WriteOpen, OpenThrows, Leave, SessionTypeOK
<1>3. ASSUME NEW c \in Clients, CountExpired(c), c # d
      PROVE  Same
  BY <1>3 DEF CountExpired, SessionTypeOK
<1>4. ASSUME NEW c \in Clients, DeleteExpired(c), c # d
      PROVE  Same
  BY <1>4 DEF DeleteExpired, SessionTypeOK
<1>5. ASSUME NEW c \in Clients, CountOrphans(c)
      PROVE  Same \/ Swap
  BY <1>5 DEF CountOrphans, SessionTypeOK, Count
<1>6. ASSUME NEW c \in Clients, DeleteOrphans(c)
      PROVE  Same \/ Swap
  BY <1>6 DEF DeleteOrphans, SessionTypeOK, Count
<1>7. ASSUME NEW c \in Clients, PurgeFails(c)
      PROVE  Same \/ Swap
  BY <1>7 DEF PurgeFails, SessionTypeOK, Count
<1>8. ASSUME NEW c \in Clients, Turn(c)
      PROVE  Same \/ Forgot
  BY <1>8
  DEF Turn, LogEntry, UpdateStateObject, UpdateFails, CloseSession, Leave, SessionTypeOK
<1>9. Crash => Forgot
  BY DEF Crash
<1>10. Tick \/ UNCHANGED sessionVars => Same
  BY DEF Tick, sessionVars
<1>11. Same \/ Swap \/ Forgot \/ CountExpired(d) \/ DeleteExpired(d)
  BY <1>1, <1>2, <1>3, <1>4, <1>5, <1>6, <1>7, <1>8, <1>9, <1>10 DEF SessionNext, Purge
<1>12. QED
  BY <1>11

LEMMA StepAccounts ==
  SessionTypeOK /\ RowsFit /\ Accounted /\ [SessionNext]_sessionVars => Accounted'
<1> SUFFICES ASSUME SessionTypeOK, RowsFit, Accounted, [SessionNext]_sessionVars,
                    NEW d \in Clients
             PROVE  /\ removed'[d].entries <= counted'[d].entries
                    /\ Undeleted(d)' => removed'[d] = Zero
                    /\ stage'[d] = "deleting" =>
                         /\ began'[d] <= now'
                         /\ Cardinality(Expired(User(d), began[d])') <= counted'[d].entries
  BY DEF Accounted
<1>1. /\ now \in Nat /\ now' \in Nat /\ now <= now' /\ began[d] \in Nat
      /\ removed[d] \in Count /\ counted[d] \in Count
  BY LogGrows DEF SessionTypeOK
<1>2. /\ removed[d].entries <= counted[d].entries
      /\ Undeleted(d) => removed[d] = Zero
      /\ stage[d] = "deleting" =>
           began[d] <= now /\ Cardinality(Expired(User(d), began[d])) <= counted[d].entries
  BY DEF Accounted
<1>3. CASE /\ removed'[d].entries = removed[d].entries /\ counted'[d].entries = counted[d].entries
           /\ Undeleted(d)' => Undeleted(d) /\ removed'[d] = removed[d]
           /\ stage'[d] = "deleting" =>
                stage[d] = "deleting" /\ began'[d] = began[d] /\ session'[d] = session[d]
  <2>1. ASSUME stage'[d] = "deleting"
        PROVE  /\ Cardinality(Expired(User(d), began[d])') <= Cardinality(Expired(User(d), began[d]))
               /\ Cardinality(Expired(User(d), began[d])') \in Nat
               /\ Cardinality(Expired(User(d), began[d])) \in Nat
    <3> DEFINE u == User(d)
               start == began[d]
    <3>1. u' = u /\ start' = start
      BY <1>3, <2>1 DEF User
    <3>2. \A v, t : v = u /\ t = start =>
            /\ Cardinality(Expired(v, t)') <= Cardinality(Expired(v, t))
            /\ Cardinality(Expired(v, t)') \in Nat
      BY <1>1, <1>2, <1>3, <2>1, ExpiredShrinks
    <3>3. /\ Cardinality(Expired(u, start)') <= Cardinality(Expired(u, start))
          /\ Cardinality(Expired(u, start)') \in Nat
      BY <3>1, <3>2
    <3>4. Cardinality(Expired(u, start)) \in Nat
      BY CountsAreNumbers
    <3>5. QED
      BY <3>3, <3>4
  <2>2. removed'[d].entries <= counted'[d].entries /\ (Undeleted(d)' => removed'[d] = Zero)
    BY <1>2, <1>3
  <2>3. QED
    BY <1>1, <1>2, <1>3, <2>1, <2>2 DEF Count
<1>4. CASE removed'[d] = Zero /\ counted'[d] = Zero /\ stage'[d] # "deleting"
  BY <1>4 DEF Zero
<1>5. CASE CountExpired(d)
  <2>1. /\ UNCHANGED <<log, purged, session, removed, now>>
        /\ stage[d] = "counting" /\ stage'[d] = "deleting"
        /\ began'[d] = now
        /\ counted'[d].entries = Cardinality(Expired(User(d), now))
    BY <1>5 DEF CountExpired, MoveTo, dbVars, SessionTypeOK, Count
  <2>2. Expired(User(d), began[d])' = Expired(User(d), now)
    BY <2>1 DEF Expired, User, Written
  <2>3. Cardinality(Expired(User(d), now)) \in Nat
    BY CountsAreNumbers
  <2>4. QED
    BY <1>1, <1>2, <2>1, <2>2, <2>3 DEF Undeleted, Zero
<1>6. CASE DeleteExpired(d)
  BY <1>2, <1>6 DEF DeleteExpired, MoveTo, Undeleted, SessionTypeOK, Count
<1>7. QED
  BY <1>3, <1>4, <1>5, <1>6, CountMoves

\* A purge never deletes a row of the log that its PurgeResult leaves out,
\* whatever other clients log and purge between its COUNT and its DELETE.
THEOREM DeletionsAreReported == SessionSpec => []DeletionsAreCounted
<1>1. SessionInit => Accounted
  BY DEF SessionInit, Accounted, Undeleted, Zero
<1>2. SessionTypeOK /\ RowsFit /\ Accounted /\ [SessionNext]_sessionVars => Accounted'
  BY StepAccounts
<1>3. Accounted => DeletionsAreCounted
  BY DEF Accounted, DeletionsAreCounted
<1>4. QED
  BY <1>1, <1>2, <1>3, SessionAlwaysTyped, PTL DEF SessionSpec

\* What a purge is for it does, and what it deletes it says: no row stays beyond
\* the retention, and none goes uncounted.
THEOREM PurgesAreThorough == SessionSpec => []PurgeIsThorough
<1>1. RetentionHolds /\ DeletionsAreCounted => PurgeIsThorough
  BY DEF PurgeIsThorough
<1>2. QED
  BY <1>1, RetentionIsHeld, DeletionsAreReported, PTL
=============================================================================
