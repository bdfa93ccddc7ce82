--------------------------- MODULE MigrationProofs ---------------------------
(***************************************************************************)
(* Proofs about the migration runner, for any runs, files and directories. *)
(***************************************************************************)
EXTENDS MigrationRunner, TLAPS

-----------------------------------------------------------------------------
(* Types, and the order of the loop.                                       *)

LEMMA EmptyIsDatabase == Empty \in Database /\ Empty.tracker \in Tracker
BY DEF Empty, Database, Tracker, Versions

\* The loop has the files of one directory, and those behind it come first.
LoopOK ==
  \A r \in Runs :
    /\ Loadable(dir[r]) /\ todo[r] \subseteq dir[r]
    /\ \A f \in dir[r] \ todo[r], g \in todo[r] : VersionOf[f] <= VersionOf[g]

LEMMA CurrentIsOne ==
  ASSUME MigrationTypeOK, LoopOK, NEW r \in Runs, NEW f, NEW g, Current(r, f), Current(r, g)
  PROVE  f = g
<1>1. f \in Files /\ g \in Files /\ f \in dir[r] /\ g \in dir[r]
  BY DEF MigrationTypeOK, LoopOK, Current
<1>2. VersionOf[f] = VersionOf[g]
  BY <1>1, MigrationAssumption DEF Current
<1>3. QED
  BY <1>1, <1>2 DEF LoopOK, Loadable

\* What run r sees, and what it makes of it, are databases.
LEMMA ViewTypes ==
  ASSUME MigrationTypeOK, NEW r \in Runs, NEW f \in Files
  PROVE  /\ View(r) \in Database
         /\ [tracker |-> View(r).tracker, executed |-> [View(r).executed EXCEPT ![f] = @ + 1]]
              \in Database
         /\ [tracker |-> [View(r).tracker EXCEPT ![VersionOf[f]] = f],
             executed |-> View(r).executed] \in Database
<1>1. View(r) \in Database
  BY DEF View, MigrationTypeOK
<1>2. View(r).tracker \in Tracker /\ View(r).executed \in [Files -> Nat]
  BY <1>1 DEF Database
<1>3. [View(r).executed EXCEPT ![f] = @ + 1] \in [Files -> Nat]
  BY <1>2
<1>4. [View(r).tracker EXCEPT ![VersionOf[f]] = f] \in Tracker
  BY <1>2 DEF Tracker
<1>5. QED
  BY <1>1, <1>2, <1>3, <1>4 DEF Database

\* A run moves alone: the others keep where they stand and what they hold.
LEMMA OthersStay ==
  ASSUME MigrationTypeOK, NEW r \in Runs, NEW s \in Runs, s # r,
         Start(r) \/ End(r) \/ \E f \in Files : Loop(r, f) \/ Apply(r, f)
  PROVE  /\ stage'[s] = stage[s] /\ dir'[s] = dir[s] /\ todo'[s] = todo[s]
         /\ known'[s] = known[s] /\ at'[s] = at[s] /\ applied'[s] = applied[s]
         /\ result'[s] = result[s]
<1> DEFINE G == /\ stage'[s] = stage[s] /\ dir'[s] = dir[s] /\ todo'[s] = todo[s]
                /\ known'[s] = known[s] /\ at'[s] = at[s] /\ applied'[s] = applied[s]
                /\ result'[s] = result[s]
<1> USE DEF MigrationTypeOK, loopVars, MoveTo, Return
<1>1. CASE Start(r)
  BY <1>1 DEF Start, Load, LoadFails, ReadTracker, TrackerFails
<1>2. CASE End(r)
  BY <1>2 DEF End, Finish, CommitThrows, Rollback, Close, Crash
<1>3. ASSUME NEW f \in Files, Loop(r, f)
      PROVE  G
  BY <1>3 DEF Loop, Skip, Drift, Begin, BeginFails
<1>4. ASSUME NEW f \in Files, Apply(r, f)
      PROVE  G
  BY <1>4 DEF Apply, Execute, ExecuteThrows, Record, RecordThrows, Commit
<1>5. QED
  BY <1>1, <1>2, <1>3, <1>4

LEMMA MigrationStepTypes ==
  MigrationTypeOK /\ LoopOK /\ [MigrationNext]_migrationVars => MigrationTypeOK' /\ LoopOK'
<1> SUFFICES ASSUME MigrationTypeOK, LoopOK, [MigrationNext]_migrationVars
             PROVE  MigrationTypeOK' /\ LoopOK'
  OBVIOUS
<1> USE MigrationAssumption
<1> DEFINE G == MigrationTypeOK' /\ LoopOK'
<1>1. ASSUME NEW r \in Runs, Load(r)
      PROVE  G
  <2>1. PICK D \in Directories :
          \/ /\ Loadable(D)
             /\ dir' = [dir EXCEPT ![r] = D] /\ todo' = [todo EXCEPT ![r] = D]
             /\ MoveTo(r, "loaded")
             /\ UNCHANGED result
          \/ /\ Return(r, "load_error")
             /\ UNCHANGED <<dir, todo>>
    BY <1>1 DEF Load
  <2>2. /\ dir' \in [Runs -> SUBSET Files] /\ todo' \in [Runs -> SUBSET Files]
        /\ stage' \in [Runs -> Stage] /\ result' \in [Runs -> Result \cup {None}]
    BY <2>1 DEF MigrationTypeOK, MoveTo, Return, Stage, Result
  <2>3. LoopOK'
    BY <2>1 DEF LoopOK, Loadable, MigrationTypeOK
  <2>4. \A s \in Runs : stage'[s] = "executing" =>
          s # r /\ stage[s] = "executing" /\ todo'[s] = todo[s]
    BY <2>1 DEF MigrationTypeOK, MoveTo, Return
  <2>5. disturbed' \subseteq Runs
    BY <1>1 DEF Load, MigrationTypeOK
  <2>6. QED
    BY <1>1, <2>2, <2>3, <2>4, <2>5 DEF Load, lockVars, MigrationTypeOK, Current
<1>2. ASSUME NEW r \in Runs, ReadTracker(r)
      PROVE  G
  <2>1. db.tracker \in Tracker
    BY DEF MigrationTypeOK, Database
  <2>2. QED
    BY <1>2, <2>1
    DEF ReadTracker, lockVars, NoFault, MoveTo, Stage, MigrationTypeOK, LoopOK, Current
<1>3. ASSUME NEW r \in Runs, LoadFails(r) \/ TrackerFails(r) \/ Finish(r)
      PROVE  G
  BY <1>3
  DEF LoadFails, TrackerFails, Finish, Fault, NoFault, lockVars, loopVars, Return, MoveTo, Stage,
      Result, MigrationTypeOK, LoopOK, Current
<1>4. ASSUME NEW r \in Runs, CommitThrows(r) \/ Rollback(r) \/ Close(r) \/ Crash(r)
      PROVE  G
  BY <1>4
  DEF CommitThrows, Rollback, Close, Crash, Release, Fault, NoFault, lockVars, loopVars, Return,
      MoveTo, Stage, Result, MigrationTypeOK, LoopOK, Current
<1>5. ASSUME NEW r \in Runs, NEW f \in Files, Skip(r, f)
      PROVE  G
  <2>1. \A s \in Runs : stage[s] = "executing" => todo'[s] = todo[s]
    BY <1>5 DEF Skip, AtFile, MigrationTypeOK
  <2>2. todo' \in [Runs -> SUBSET Files]
    BY <1>5 DEF Skip, MigrationTypeOK
  <2>3. LoopOK'
    BY <1>5 DEF Skip, AtFile, Current, LoopOK, MigrationTypeOK
  <2>4. QED
    BY <1>5, <2>1, <2>2, <2>3 DEF Skip, lockVars, NoFault, MigrationTypeOK, Current
<1>6. ASSUME NEW r \in Runs, NEW f \in Files, Drift(r, f) \/ BeginFails(r, f)
      PROVE  G
  BY <1>6
  DEF Drift, BeginFails, Fault, NoFault, lockVars, loopVars, Return, MoveTo, Stage, Result,
      MigrationTypeOK, LoopOK, Current
<1>7. ASSUME NEW r \in Runs, NEW f \in Files, Begin(r, f)
      PROVE  G
  <2>1. at' \in [Runs -> Nat] /\ stage' \in [Runs -> Stage]
    BY <1>7 DEF Begin, MoveTo, Stage, MigrationTypeOK
  <2>2. \A s \in Runs : stage'[s] = "executing" =>
          \E g \in Files : Current(s, g) /\ at'[s] <= Length[g]
    BY <1>7 DEF Begin, MoveTo, AtFile, MigrationTypeOK
  <2>3. QED
    BY <1>7, <2>1, <2>2
    DEF Begin, NoFault, lockVars, loopVars, MigrationTypeOK, LoopOK, Current
<1>8. ASSUME NEW r \in Runs, NEW f \in Files, Execute(r, f)
      PROVE  G
  <2>1. draft' \in Database
    BY <1>8, ViewTypes DEF Execute
  <2>2. at' \in [Runs -> Nat]
    BY <1>8 DEF Execute, MigrationTypeOK
  <2>3. \A s \in Runs : stage[s] = "executing" =>
          \E g \in Files : Current(s, g) /\ at'[s] <= Length[g]
    BY <1>8 DEF Execute, Executing, MigrationTypeOK
  <2>4. QED
    BY <1>8, <2>1, <2>2, <2>3 DEF Execute, NoFault, loopVars, MigrationTypeOK, LoopOK, Current
<1>9. ASSUME NEW r \in Runs, NEW f \in Files, Record(r, f)
      PROVE  G
  <2>1. draft' \in Database
    BY <1>9, ViewTypes DEF Record
  <2>2. QED
    BY <1>9, <2>1
    DEF Record, NoFault, loopVars, MoveTo, Stage, MigrationTypeOK, LoopOK, Current
<1>10. ASSUME NEW r \in Runs, NEW f \in Files, ExecuteThrows(r, f) \/ RecordThrows(r, f)
       PROVE  G
  BY <1>10
  DEF ExecuteThrows, RecordThrows, Fault, NoFault, lockVars, loopVars, MoveTo, Stage,
      MigrationTypeOK, LoopOK, Current
<1>11. ASSUME NEW r \in Runs, NEW f \in Files, Commit(r, f)
       PROVE  G
  <2>1. \A s \in Runs : stage'[s] = "executing" =>
          stage[s] = "executing" /\ todo'[s] = todo[s]
    BY <1>11 DEF Commit, MoveTo, MigrationTypeOK
  <2>2. todo' \in [Runs -> SUBSET Files] /\ applied' \in [Runs -> SUBSET Files]
    BY <1>11 DEF Commit, MigrationTypeOK
  <2>3. LoopOK'
    BY <1>11 DEF Commit, Current, LoopOK, MigrationTypeOK
  <2>4. QED
    BY <1>11, <2>1, <2>2, <2>3 DEF Commit, MoveTo, Stage, NoFault, MigrationTypeOK, Current
<1>12. CASE UNCHANGED migrationVars
  BY <1>12 DEF migrationVars, MigrationTypeOK, LoopOK, Current
<1>13. QED
  BY <1>1, <1>2, <1>3, <1>4, <1>5, <1>6, <1>7, <1>8, <1>9, <1>10, <1>11, <1>12
  DEF MigrationNext, Start, Loop, Apply, End

LEMMA MigrationAlwaysTyped == MigrationSpec => [](MigrationTypeOK /\ LoopOK)
<1>1. MigrationInit => MigrationTypeOK /\ LoopOK
  BY EmptyIsDatabase, MigrationAssumption
  DEF MigrationInit, MigrationTypeOK, LoopOK, Loadable, Stage
<1>2. MigrationTypeOK /\ LoopOK /\ [MigrationNext]_migrationVars => (MigrationTypeOK /\ LoopOK)'
  BY MigrationStepTypes
<1>3. QED
  BY <1>1, <1>2, PTL DEF MigrationSpec

\* Every variable of the runner stays within its type, and a run that executes
\* is at a file with no more than its statements done.
THEOREM MigrationTypes == MigrationSpec => []MigrationTypeOK
BY MigrationAlwaysTyped, PTL

-----------------------------------------------------------------------------
(* The lock.                                                               *)

\* What the transaction of run r has done so far: n statements of f.
Pending(f, n) ==
  draft.tracker = db.tracker /\ draft.executed = [db.executed EXCEPT ![f] = @ + n]

\* The transaction of a run that is about to commit f.
Complete(f) ==
  /\ db.tracker[VersionOf[f]] = None
  /\ draft.tracker = [db.tracker EXCEPT ![VersionOf[f]] = f]
  /\ draft.executed = [db.executed EXCEPT ![f] = @ + Length[f]]

\* The inductive invariant of transactions: a run has the lock from its first
\* write on, and its draft is the committed database with its own file on top.
Locked ==
  /\ \A r \in Runs : stage[r] = "committing" => holder = r
  /\ \A r \in Runs : holder = r =>
       stage[r] \in {"executing", "committing", "rolling_back", "ended"}
  /\ \A r \in Runs, f \in Files : Executing(r, f) =>
       IF holder = r THEN Pending(f, at[r]) ELSE at[r] = 0
  /\ \A r \in Runs, f \in Files : stage[r] = "committing" /\ Current(r, f) => Complete(f)
  /\ WholeOrNothing

\* A step of r that writes nothing, and leaves r outside of the transaction.
LEMMA QuietStepKeepsLock ==
  ASSUME MigrationTypeOK, Locked, NEW r \in Runs, UNCHANGED <<db, draft>>,
         holder' = holder \/ (holder = r /\ holder' = None),
         stage'[r] \notin {"executing", "committing"},
         holder' = r => stage'[r] \in {"rolling_back", "ended"},
         \A s \in Runs : s # r => /\ stage'[s] = stage[s] /\ todo'[s] = todo[s]
                                  /\ at'[s] = at[s]
  PROVE  Locked'
<1>1. \A s \in Runs : stage'[s] = "committing" => holder' = s
  BY MigrationAssumption DEF Locked
<1>2. \A s \in Runs : holder' = s =>
        stage'[s] \in {"executing", "committing", "rolling_back", "ended"}
  BY MigrationAssumption DEF Locked
<1>3. ASSUME NEW s \in Runs, NEW f \in Files, Executing(s, f)'
      PROVE  IF holder' = s THEN Pending(f, at[s])' ELSE at'[s] = 0
  <2>1. s # r /\ Executing(s, f) /\ at'[s] = at[s] /\ (holder' = s <=> holder = s)
    BY <1>3, MigrationAssumption DEF Executing, Current
  <2>2. QED
    BY <2>1 DEF Locked, Pending
<1>4. ASSUME NEW s \in Runs, NEW f \in Files, stage'[s] = "committing", Current(s, f)'
      PROVE  Complete(f)'
  <2>1. s # r /\ stage[s] = "committing" /\ Current(s, f)
    BY <1>4 DEF Current
  <2>2. QED
    BY <2>1 DEF Locked, Complete
<1>5. WholeOrNothing'
  BY DEF Locked, WholeOrNothing, Tracked
<1>6. QED
  BY <1>1, <1>2, <1>3, <1>4, <1>5 DEF Locked

\* Under the lock the committed database changes by whole files alone.
LEMMA CommitFacts ==
  ASSUME MigrationTypeOK, Locked, NEW r \in Runs, NEW f \in Files, Commit(r, f)
  PROVE  /\ holder = r /\ db.tracker[VersionOf[f]] = None
         /\ db'.tracker = [db.tracker EXCEPT ![VersionOf[f]] = f]
         /\ db'.executed = [db.executed EXCEPT ![f] = @ + Length[f]]
BY DEF Commit, Locked, Complete

LEMMA StepKeepsLock ==
  ASSUME MigrationTypeOK, LoopOK, Locked, [MigrationNext]_migrationVars
  PROVE  Locked'
<1> USE MigrationAssumption
<1>1. ASSUME NEW r \in Runs, Start(r)
      PROVE  Locked'
  <2>1. /\ UNCHANGED lockVars /\ stage[r] \in {"idle", "loaded"}
        /\ stage'[r] \in {"loaded", "looping", "ended"}
    BY <1>1
    DEF Start, Load, LoadFails, ReadTracker, TrackerFails, MoveTo, Return, MigrationTypeOK
  <2>2. holder # r
    BY <2>1 DEF Locked
  <2>3. QED
    BY <1>1, <2>1, <2>2, QuietStepKeepsLock, OthersStay DEF lockVars
<1>2. ASSUME NEW r \in Runs, End(r)
      PROVE  Locked'
  <2>1. /\ UNCHANGED <<db, draft>>
        /\ holder' = holder \/ (holder = r /\ holder' = None)
        /\ stage'[r] \in {"rolling_back", "ended", "closed"}
        /\ stage'[r] = "closed" => holder' # r
    BY <1>2
    DEF End, Finish, CommitThrows, Rollback, Close, Crash, Release, lockVars, MoveTo, Return,
        MigrationTypeOK
  <2>2. QED
    BY <1>2, <2>1, QuietStepKeepsLock, OthersStay
<1>3. ASSUME NEW r \in Runs, NEW f \in Files, Skip(r, f) \/ Drift(r, f) \/ BeginFails(r, f)
      PROVE  Locked'
  <2>1. UNCHANGED lockVars /\ stage[r] = "looping" /\ stage'[r] \in {"looping", "ended"}
    BY <1>3 DEF Skip, Drift, BeginFails, AtFile, MoveTo, Return, MigrationTypeOK
  <2>2. holder # r
    BY <2>1 DEF Locked
  <2>3. QED
    BY <1>3, <2>1, <2>2, QuietStepKeepsLock, OthersStay DEF lockVars, Loop
<1>4. ASSUME NEW r \in Runs, NEW f \in Files, ExecuteThrows(r, f) \/ RecordThrows(r, f)
      PROVE  Locked'
  <2>1. UNCHANGED lockVars /\ stage'[r] = "rolling_back"
    BY <1>4 DEF ExecuteThrows, RecordThrows, MoveTo, MigrationTypeOK
  <2>2. QED
    BY <1>4, <2>1, QuietStepKeepsLock, OthersStay DEF lockVars, Apply
<1>5. ASSUME NEW r \in Runs, NEW f \in Files, Begin(r, f)
      PROVE  Locked'
  <2>1. /\ UNCHANGED <<db, draft, holder, todo>> /\ stage'[r] = "executing" /\ at'[r] = 0
        /\ stage[r] = "looping"
        /\ \A s \in Runs : s # r => stage'[s] = stage[s] /\ at'[s] = at[s]
    BY <1>5 DEF Begin, AtFile, MoveTo, lockVars, loopVars, MigrationTypeOK
  <2>2. holder # r
    BY <2>1 DEF Locked
  <2>3. \A s \in Runs, g \in Files : Executing(s, g)' =>
          IF holder' = s THEN Pending(g, at[s])' ELSE at'[s] = 0
    BY <2>1, <2>2 DEF Locked, Executing, Current, Pending
  <2>4. \A s \in Runs, g \in Files : (stage[s] = "committing" /\ Current(s, g))' => Complete(g)'
    BY <2>1 DEF Locked, Current, Complete
  <2>5. WholeOrNothing'
    BY <2>1 DEF Locked, WholeOrNothing, Tracked
  <2>6. QED
    BY <2>1, <2>2, <2>3, <2>4, <2>5 DEF Locked
<1>6. ASSUME NEW r \in Runs, NEW f \in Files, Execute(r, f)
      PROVE  Locked'
  <2>1. /\ UNCHANGED <<db, stage, todo>> /\ holder \in {None, r} /\ holder' = r
        /\ Executing(r, f) /\ at'[r] = at[r] + 1
        /\ \A s \in Runs : s # r => at'[s] = at[s]
        /\ draft'.tracker = View(r).tracker
        /\ draft'.executed = [View(r).executed EXCEPT ![f] = @ + 1]
    BY <1>6 DEF Execute, LockedOut, loopVars, MigrationTypeOK
  <2>2. db.executed \in [Files -> Nat] /\ at[r] \in Nat
    BY DEF MigrationTypeOK, Database
  <2>3. Pending(f, at[r])'
    <3>1. View(r).tracker = db.tracker /\ View(r).executed = [db.executed EXCEPT ![f] = @ + at[r]]
      <4>1. CASE holder = r
        BY <2>1, <4>1 DEF Locked, Pending, View
      <4>2. CASE holder = None
        BY <2>1, <2>2, <4>2 DEF Locked, View
      <4>3. QED
        BY <2>1, <4>1, <4>2
    <3>2. draft'.executed = [db.executed EXCEPT ![f] = @ + (at[r] + 1)]
      BY <2>1, <2>2, <3>1
    <3>3. QED
      BY <2>1, <3>1, <3>2 DEF Pending
  <2>4. \A s \in Runs : s # r => holder # s
    BY <2>1
  <2>5. ASSUME NEW s \in Runs, NEW g \in Files, Executing(s, g)'
        PROVE  IF holder' = s THEN Pending(g, at[s])' ELSE at'[s] = 0
    <3>1. Executing(s, g)
      BY <2>1, <2>5 DEF Executing, Current
    <3>2. CASE s = r
      <4>1. g = f
        BY <2>1, <3>1, <3>2, CurrentIsOne DEF Executing
      <4>2. QED
        BY <2>1, <2>3, <3>2, <4>1
    <3>3. CASE s # r
      BY <2>1, <2>4, <3>1, <3>3 DEF Locked
    <3>4. QED
      BY <3>2, <3>3
  <2>6. \A s \in Runs : stage'[s] # "committing"
    BY <2>1, <2>4 DEF Locked, Executing
  <2>7. WholeOrNothing'
    BY <2>1 DEF Locked, WholeOrNothing, Tracked
  <2>8. QED
    BY <2>1, <2>5, <2>6, <2>7 DEF Locked, Executing
<1>7. ASSUME NEW r \in Runs, NEW f \in Files, Record(r, f)
      PROVE  Locked'
  <2>1. /\ UNCHANGED <<db, at, todo>> /\ holder \in {None, r} /\ holder' = r
        /\ Executing(r, f) /\ at[r] = Length[f] /\ View(r).tracker[VersionOf[f]] = None
        /\ stage'[r] = "committing" /\ \A s \in Runs : s # r => stage'[s] = stage[s]
        /\ draft'.tracker = [View(r).tracker EXCEPT ![VersionOf[f]] = f]
        /\ draft'.executed = View(r).executed
    BY <1>7 DEF Record, LockedOut, loopVars, MoveTo, MigrationTypeOK
  <2>2. db.executed \in [Files -> Nat] /\ at[r] \in Nat
    BY DEF MigrationTypeOK, Database
  <2>3. View(r).tracker = db.tracker /\ View(r).executed = [db.executed EXCEPT ![f] = @ + at[r]]
    <3>1. CASE holder = r
      BY <2>1, <3>1 DEF Locked, Pending, View
    <3>2. CASE holder = None
      BY <2>1, <2>2, <3>2 DEF Locked, View
    <3>3. QED
      BY <2>1, <3>1, <3>2
  <2>4. Complete(f)'
    BY <2>1, <2>3 DEF Complete
  <2>5. \A s \in Runs : s # r => holder # s
    BY <2>1
  <2>6. ASSUME NEW s \in Runs, NEW g \in Files, stage'[s] = "committing", Current(s, g)'
        PROVE  Complete(g)'
    <3>1. s = r
      BY <2>1, <2>5, <2>6 DEF Locked
    <3>2. Current(r, g) /\ Current(r, f)
      BY <2>1, <2>6, <3>1 DEF Current, Executing
    <3>3. QED
      BY <2>4, <3>2, CurrentIsOne
  <2>7. \A s \in Runs, g \in Files : Executing(s, g)' =>
          s # r /\ holder # s /\ Executing(s, g) /\ at'[s] = at[s]
    BY <2>1, <2>5 DEF Executing, Current
  <2>8. WholeOrNothing'
    BY <2>1 DEF Locked, WholeOrNothing, Tracked
  <2>9. \A s \in Runs : stage'[s] = "committing" => s = r
    BY <2>1, <2>5 DEF Locked
  <2>10. QED
    BY <2>1, <2>6, <2>7, <2>8, <2>9 DEF Locked
<1>8. ASSUME NEW r \in Runs, NEW f \in Files, Commit(r, f)
      PROVE  Locked'
  <2>1. /\ holder = r /\ holder' = None /\ stage'[r] = "looping" /\ UNCHANGED at
        /\ \A s \in Runs : s # r => stage'[s] = stage[s] /\ todo'[s] = todo[s]
    <3>1. holder = r
      BY <1>8, CommitFacts
    <3>2. QED
      BY <1>8, <3>1 DEF Commit, MoveTo, MigrationTypeOK
  <2>2. \A s \in Runs, g \in Files : Executing(s, g)' => at'[s] = 0
    BY <2>1 DEF Locked, Executing, Current
  <2>3. \A s \in Runs : stage'[s] # "committing"
    BY <2>1 DEF Locked
  <2>4. WholeOrNothing'
    <3>1. /\ db.tracker \in Tracker /\ db.executed \in [Files -> Nat]
          /\ db.tracker[VersionOf[f]] = None
          /\ db'.tracker = [db.tracker EXCEPT ![VersionOf[f]] = f]
          /\ db'.executed = [db.executed EXCEPT ![f] = @ + Length[f]]
      BY <1>8, CommitFacts DEF MigrationTypeOK, Database
    <3>2. db.executed[f] = 0
      BY <3>1 DEF Locked, WholeOrNothing, Tracked
    <3>3. db'.executed[f] = Length[f] /\ db'.tracker[VersionOf[f]] = f
      BY <3>1, <3>2 DEF Tracker, Versions
    <3>4. ASSUME NEW g \in Files, g # f
          PROVE  db'.executed[g] = db.executed[g] /\ (Tracked(g)' <=> Tracked(g))
      BY <3>1, <3>4 DEF Tracker, Versions, Tracked
    <3>5. QED
      BY <3>3, <3>4 DEF Locked, WholeOrNothing, Tracked
  <2>5. QED
    BY <2>1, <2>2, <2>3, <2>4 DEF Locked
<1>9. CASE UNCHANGED migrationVars
  BY <1>9
  DEF migrationVars, Locked, Executing, Current, Pending, Complete, WholeOrNothing, Tracked
<1>10. QED
  BY <1>1, <1>2, <1>3, <1>4, <1>5, <1>6, <1>7, <1>8, <1>9 DEF MigrationNext, Loop, Apply

LEMMA MigrationAlwaysLocked == MigrationSpec => [](MigrationTypeOK /\ LoopOK /\ Locked)
<1>1. MigrationInit => Locked
  BY MigrationAssumption
  DEF MigrationInit, Locked, Executing, WholeOrNothing, Tracked, Empty, Versions
<1>2. MigrationTypeOK /\ LoopOK /\ Locked /\ [MigrationNext]_migrationVars => Locked'
  BY StepKeepsLock
<1>3. QED
  BY <1>1, <1>2, MigrationAlwaysTyped, PTL DEF MigrationSpec

\* A migration is in the database with all its statements, once each, and its
\* row, or not at all, whatever fails and however many runs there are.
THEOREM MigrationsAreWhole == MigrationSpec => []WholeOrNothing
<1>1. Locked => WholeOrNothing
  BY DEF Locked
<1>2. QED
  BY <1>1, MigrationAlwaysLocked, PTL

-----------------------------------------------------------------------------
(* What a run has come past is tracked.                                    *)

\* The committed database changes by a Commit alone, and rows stay.
LEMMA DatabaseGrows ==
  ASSUME MigrationTypeOK, LoopOK, Locked, [MigrationNext]_migrationVars
  PROVE  /\ UNCHANGED db \/ \E r \in Runs, f \in Files : Commit(r, f)
         /\ \A v \in Versions : db.tracker[v] # None => db'.tracker[v] = db.tracker[v]
         /\ \A f \in Files : Tracked(f) => Tracked(f)'
<1>1. UNCHANGED db \/ \E r \in Runs, f \in Files : Commit(r, f)
  BY DEF MigrationNext, migrationVars, Start, Load, LoadFails, ReadTracker, TrackerFails, Loop, Skip,
         Drift, Begin, BeginFails, Apply, Execute, ExecuteThrows, Record, RecordThrows, End, Finish,
         CommitThrows, Rollback, Close, Crash, Release, lockVars
<1>2. ASSUME NEW r \in Runs, NEW f \in Files, Commit(r, f)
      PROVE  \A v \in Versions : db.tracker[v] # None => db'.tracker[v] = db.tracker[v]
  <2>1. /\ db.tracker \in Tracker /\ db.tracker[VersionOf[f]] = None
        /\ db'.tracker = [db.tracker EXCEPT ![VersionOf[f]] = f]
    BY <1>2, CommitFacts DEF MigrationTypeOK, Database
  <2>2. QED
    BY <2>1 DEF Tracker
<1>3. \A v \in Versions : db.tracker[v] # None => db'.tracker[v] = db.tracker[v]
  BY <1>1, <1>2
<1>4. \A f \in Files : Tracked(f) => Tracked(f)'
  BY <1>3, MigrationAssumption DEF Tracked, Versions
<1>5. QED
  BY <1>1, <1>3, <1>4

\* The inductive invariant of what runs know and report.
Tracking ==
  /\ \A r \in Runs, v \in Versions : known[r][v] # None => db.tracker[v] = known[r][v]
  /\ \A r \in Runs : \A f \in dir[r] \ todo[r] : Tracked(f)
  /\ \A r \in Runs : applied[r] \subseteq dir[r] \ todo[r]
  /\ \A r, s \in Runs : r # s => applied[r] \cap applied[s] = {}
  /\ \A r \in Runs : stage[r] = "idle" => dir[r] = {}
  /\ \A r \in Runs : result[r] # None => stage[r] \in {"ended", "closed"}
  /\ \A r \in Runs : result[r] = "ok" => todo[r] = {}

\* A step of r that comes past no file.
LEMMA QuietStepKeepsTrack ==
  ASSUME MigrationTypeOK, Tracking, NEW r \in Runs, UNCHANGED <<db, dir, todo, known, applied>>,
         stage[r] # "idle" \/ dir[r] = {}, stage'[r] # "idle",
         result'[r] # None => stage'[r] \in {"ended", "closed"},
         result'[r] = "ok" => todo[r] = {},
         \A s \in Runs : s # r => stage'[s] = stage[s] /\ result'[s] = result[s]
  PROVE  Tracking'
BY DEF Tracking, Tracked

LEMMA StepKeepsTrack ==
  ASSUME MigrationTypeOK, LoopOK, Locked, Tracking, [MigrationNext]_migrationVars
  PROVE  Tracking'
<1> USE MigrationAssumption
<1> USE DEF MigrationTypeOK, MoveTo, Return, lockVars, loopVars, Result
<1>1. ASSUME NEW r \in Runs, Load(r)
      PROVE  Tracking'
  <2>1. PICK D \in Directories :
          \/ /\ dir' = [dir EXCEPT ![r] = D] /\ todo' = [todo EXCEPT ![r] = D]
             /\ MoveTo(r, "loaded")
             /\ UNCHANGED result
          \/ /\ Return(r, "load_error")
             /\ UNCHANGED <<dir, todo>>
    BY <1>1 DEF Load
  <2>2. UNCHANGED <<db, known, applied>> /\ stage[r] = "idle" /\ result[r] = None
        /\ dir[r] = {} /\ todo[r] = {} /\ applied[r] = {}
    BY <1>1 DEF Load, Tracking, LoopOK
  <2>3. /\ dir'[r] = todo'[r] /\ stage'[r] \in {"loaded", "ended"}
        /\ result'[r] # None => stage'[r] = "ended" /\ result'[r] # "ok"
    <3>1. CASE UNCHANGED result
      BY <2>1, <2>2, <3>1
    <3>2. CASE Return(r, "load_error")
      BY <2>1, <2>2, <3>2
    <3>3. QED
      BY <2>1, <3>1, <3>2
  <2>4. \A s \in Runs : s # r => /\ dir'[s] = dir[s] /\ todo'[s] = todo[s]
                                /\ stage'[s] = stage[s] /\ result'[s] = result[s]
    BY <2>1
  <2>5. \A s \in Runs : \A f \in dir'[s] \ todo'[s] : Tracked(f)'
    BY <2>2, <2>3, <2>4 DEF Tracking, Tracked
  <2>6. \A s \in Runs : applied'[s] \subseteq dir'[s] \ todo'[s]
    BY <2>2, <2>3, <2>4 DEF Tracking
  <2>7. \A s \in Runs : /\ stage'[s] = "idle" => dir'[s] = {}
                        /\ result'[s] # None => stage'[s] \in {"ended", "closed"}
                        /\ result'[s] = "ok" => todo'[s] = {}
    BY <2>2, <2>3, <2>4 DEF Tracking
  <2>8. QED
    BY <2>2, <2>5, <2>6, <2>7 DEF Tracking
<1>2. ASSUME NEW r \in Runs, ReadTracker(r)
      PROVE  Tracking'
  BY <1>2 DEF ReadTracker, Tracking, Tracked
<1>3. ASSUME NEW r \in Runs, LoadFails(r) \/ TrackerFails(r) \/ Finish(r) \/ Rollback(r)
      PROVE  Tracking'
  <2>1. /\ UNCHANGED <<db, dir, todo, known, applied>> /\ stage'[r] = "ended"
        /\ stage[r] # "idle" \/ dir[r] = {}
        /\ result'[r] = "ok" => todo[r] = {}
    BY <1>3 DEF LoadFails, TrackerFails, Finish, Rollback, Release, Tracking
  <2>2. QED
    BY <1>3, <2>1, QuietStepKeepsTrack, OthersStay DEF Start, End
<1>4. ASSUME NEW r \in Runs, CommitThrows(r) \/ Close(r) \/ Crash(r)
      PROVE  Tracking'
  <2>1. /\ UNCHANGED <<db, dir, todo, known, applied, result>>
        /\ stage[r] # "idle" /\ stage'[r] # "idle"
        /\ stage[r] \in {"ended", "closed"} => stage'[r] \in {"ended", "closed"}
    BY <1>4 DEF CommitThrows, Close, Crash, Release, Active
  <2>2. QED
    BY <1>4, <2>1, QuietStepKeepsTrack, OthersStay DEF End, Tracking
<1>5. ASSUME NEW r \in Runs, NEW f \in Files, Drift(r, f) \/ BeginFails(r, f)
      PROVE  Tracking'
  <2>1. /\ UNCHANGED <<db, dir, todo, known, applied>>
        /\ stage[r] # "idle" /\ stage'[r] = "ended" /\ result'[r] # "ok"
    BY <1>5 DEF Drift, BeginFails, AtFile
  <2>2. QED
    BY <1>5, <2>1, QuietStepKeepsTrack, OthersStay DEF Loop
<1>6. ASSUME NEW r \in Runs, NEW f \in Files,
             \/ Begin(r, f) \/ Execute(r, f) \/ ExecuteThrows(r, f)
             \/ Record(r, f) \/ RecordThrows(r, f)
      PROVE  Tracking'
  <2>1. /\ UNCHANGED <<db, dir, todo, known, applied, result>>
        /\ stage[r] \in {"looping", "executing"} /\ stage'[r] # "idle"
    BY <1>6 DEF Begin, Execute, ExecuteThrows, Record, RecordThrows, AtFile, Executing
  <2>2. QED
    BY <1>6, <2>1, QuietStepKeepsTrack, OthersStay DEF Loop, Apply, Tracking
<1>7. ASSUME NEW r \in Runs, NEW f \in Files, Skip(r, f)
      PROVE  Tracking'
  <2>1. /\ UNCHANGED <<db, stage, dir, known, applied, result>>
        /\ todo' = [todo EXCEPT ![r] = @ \ {f}]
        /\ known[r][VersionOf[f]] = f /\ stage[r] = "looping"
    BY <1>7 DEF Skip, AtFile
  <2>2. Tracked(f)
    BY <2>1 DEF Tracking, Tracked, Versions
  <2>3. QED
    BY <2>1, <2>2 DEF Tracking, Tracked
<1>8. ASSUME NEW r \in Runs, NEW f \in Files, Commit(r, f)
      PROVE  Tracking'
  <2>1. /\ UNCHANGED <<dir, known, result>>
        /\ todo' = [todo EXCEPT ![r] = @ \ {f}]
        /\ applied' = [applied EXCEPT ![r] = @ \cup {f}]
        /\ stage[r] = "committing" /\ stage' = [stage EXCEPT ![r] = "looping"]
        /\ f \in todo[r] /\ f \in dir[r]
    BY <1>8 DEF Commit, Current, LoopOK
  <2>2. Tracked(f)' /\ ~ Tracked(f)
    <3>1. /\ db.tracker \in Tracker /\ db.tracker[VersionOf[f]] = None
          /\ db'.tracker = [db.tracker EXCEPT ![VersionOf[f]] = f]
      BY <1>8, CommitFacts DEF Database
    <3>2. QED
      BY <3>1 DEF Tracked, Tracker, Versions
  <2>3. \A s \in Runs, v \in Versions : known'[s][v] # None => db'.tracker[v] = known'[s][v]
    BY <2>1, DatabaseGrows DEF Tracking
  <2>4. \A s \in Runs : \A g \in dir'[s] \ todo'[s] : Tracked(g)'
    BY <2>1, <2>2, DatabaseGrows DEF Tracking
  <2>5. \A s \in Runs : f \notin applied[s]
    BY <2>2 DEF Tracking
  <2>6. \A s, t \in Runs : s # t => applied'[s] \cap applied'[t] = {}
    BY <2>1, <2>5 DEF Tracking
  <2>7. \A s \in Runs : applied'[s] \subseteq dir'[s] \ todo'[s]
    BY <2>1, <2>5 DEF Tracking
  <2>8. QED
    BY <2>1, <2>3, <2>4, <2>6, <2>7 DEF Tracking
<1>9. CASE UNCHANGED migrationVars
  BY <1>9 DEF migrationVars, Tracking, Tracked
<1>10. QED
  BY <1>1, <1>2, <1>3, <1>4, <1>5, <1>6, <1>7, <1>8, <1>9
  DEF MigrationNext, Start, Loop, Apply, End

LEMMA MigrationAlwaysTracks ==
  MigrationSpec => [](MigrationTypeOK /\ LoopOK /\ Locked /\ Tracking)
<1>1. MigrationInit => Tracking
  BY MigrationAssumption DEF MigrationInit, Tracking, Empty
<1>2. MigrationTypeOK /\ LoopOK /\ Locked /\ Tracking /\ [MigrationNext]_migrationVars => Tracking'
  BY StepKeepsTrack
<1>3. QED
  BY <1>1, <1>2, MigrationAlwaysLocked, PTL DEF MigrationSpec

\* A run that returns ok leaves every file of its directory tracked under its
\* name: a renamed migration is reported, never skipped.
THEOREM OkMeansMigrated == MigrationSpec => []OkIsComplete
<1>1. Tracking => OkIsComplete
  BY DEF Tracking, OkIsComplete
<1>2. QED
  BY <1>1, MigrationAlwaysTracks, PTL

\* No file is applied before one of a lower version in its directory.
THEOREM MigrationsAreOrdered == MigrationSpec => []LowerFirst
<1>1. MigrationTypeOK /\ LoopOK /\ Tracking => LowerFirst
  <2> SUFFICES ASSUME MigrationTypeOK, LoopOK, Tracking, NEW r \in Runs,
                      NEW f \in applied[r], NEW g \in dir[r], VersionOf[g] < VersionOf[f]
               PROVE  Tracked(g)
    BY DEF LowerFirst
  <2>1. f \in dir[r] \ todo[r] /\ f \in Files /\ g \in Files
    BY DEF Tracking, MigrationTypeOK
  <2>2. g \notin todo[r]
    BY <2>1, MigrationAssumption DEF LoopOK
  <2>3. QED
    BY <2>2 DEF Tracking
<1>2. QED
  BY <1>1, MigrationAlwaysTracks, PTL

\* Two runs never both report a version as applied, and what one reports is in
\* the database.
THEOREM MigrationReportsAreTrue == MigrationSpec => []ReportsAreTrue
<1>1. Tracking => ReportsAreTrue
  <2> SUFFICES ASSUME Tracking, NEW r \in Runs, NEW f \in applied[r]
               PROVE  /\ Tracked(f)
                      /\ \A s \in Runs : \A g \in applied[s] :
                           VersionOf[f] = VersionOf[g] => r = s /\ f = g
    BY DEF ReportsAreTrue
  <2>1. \A s \in Runs : \A g \in applied[s] : Tracked(g)
    BY DEF Tracking
  <2>2. QED
    BY <2>1 DEF Tracking, Tracked
<1>2. QED
  BY <1>1, MigrationAlwaysTracks, PTL

-----------------------------------------------------------------------------
(* A run that has the database for itself.                                 *)

\* Run s may write, or hold the lock.
Busy(s) ==
  \/ stage[s] \in {"loaded", "looping", "executing", "committing", "rolling_back"}
  \/ holder = s

Overlap == \A r, s \in Runs : r # s /\ Active(r) /\ Busy(s) => r \in disturbed

\* An undisturbed run knows the tracker, and nothing has failed on it.
Fresh(r) ==
  \/ r \in disturbed
  \/ /\ stage[r] \in {"looping", "executing", "committing"} =>
          \A f \in todo[r] : known[r][VersionOf[f]] = db.tracker[VersionOf[f]]
     /\ \A f \in Files : Executing(r, f) => known[r][VersionOf[f]] = None
     /\ stage[r] # "rolling_back" /\ result[r] # "apply_error"

Step(r) == Start(r) \/ End(r) \/ \E f \in Files : Loop(r, f) \/ Apply(r, f)

LEMMA StepOverlaps ==
  ASSUME MigrationTypeOK, NEW r \in Runs, Step(r)
  PROVE  /\ disturbed \subseteq disturbed'
         /\ Active(r)' /\ ~ Active(r) => Load(r) \/ LoadFails(r)
         /\ \A s \in Runs : Busy(s)' /\ ~ Busy(s) => s = r /\ Load(r)
<1> DEFINE G == /\ disturbed \subseteq disturbed'
                /\ Active(r)' /\ ~ Active(r) => Load(r) \/ LoadFails(r)
                /\ \A s \in Runs : Busy(s)' /\ ~ Busy(s) => s = r /\ Load(r)
<1> USE MigrationAssumption
<1> USE DEF MigrationTypeOK, lockVars, MoveTo, Return, Active, Busy, Fault, NoFault, Release
<1>1. CASE Load(r)
  BY <1>1 DEF Load
<1>2. CASE LoadFails(r) \/ ReadTracker(r) \/ TrackerFails(r)
  BY <1>2 DEF LoadFails, ReadTracker, TrackerFails
<1>3. CASE End(r)
  BY <1>3 DEF End, Finish, CommitThrows, Rollback, Close, Crash
<1>4. ASSUME NEW f \in Files, Loop(r, f)
      PROVE  G
  BY <1>4 DEF Loop, Skip, Drift, Begin, BeginFails, AtFile
<1>5. ASSUME NEW f \in Files, Apply(r, f)
      PROVE  G
  BY <1>5 DEF Apply, Execute, ExecuteThrows, Record, RecordThrows, Commit, Executing
<1>6. QED
  BY <1>1, <1>2, <1>3, <1>4, <1>5 DEF Step, Start

LEMMA StepKeepsOverlap ==
  ASSUME MigrationTypeOK, Locked, Overlap, [MigrationNext]_migrationVars
  PROVE  Overlap'
<1> USE MigrationAssumption
<1>1. ASSUME NEW q \in Runs, Step(q), NEW r \in Runs, NEW s \in Runs, r # s,
             Active(r)', Busy(s)'
      PROVE  r \in disturbed'
  <2>1. CASE Active(r) /\ Busy(s)
    BY <1>1, <2>1, StepOverlaps DEF Overlap
  <2>2. CASE ~ Busy(s)
    <3>1. s = q /\ Load(q) /\ Active(r)
      BY <1>1, <2>2, StepOverlaps, OthersStay DEF Step, Active
    <3>2. QED
      BY <1>1, <3>1 DEF Load
  <2>3. CASE ~ Active(r)
    <3>1. r = q /\ (Load(q) \/ LoadFails(q))
      BY <1>1, <2>3, StepOverlaps, OthersStay DEF Step, Active
    <3>2. CASE LoadFails(q)
      BY <3>1, <3>2 DEF LoadFails, Fault
    <3>3. CASE Load(q)
      <4>1. Busy(s)
        BY <1>1, <3>1, StepOverlaps
      <4>2. Active(s)
        BY <4>1 DEF Busy, Active, Locked
      <4>3. QED
        BY <3>1, <3>3, <4>2 DEF Load
    <3>4. QED
      BY <3>1, <3>2, <3>3
  <2>4. QED
    BY <2>1, <2>2, <2>3
<1>2. CASE UNCHANGED migrationVars
  BY <1>2 DEF migrationVars, Overlap, Active, Busy
<1>3. QED
  BY <1>1, <1>2 DEF MigrationNext, Step, Overlap

\* Only a commit writes, and it disturbs no run that is fresh.
LEMMA OthersStayFresh ==
  ASSUME MigrationTypeOK, Locked, Overlap, NEW r \in Runs, Step(r),
         NEW s \in Runs, s # r, Fresh(s)
  PROVE  Fresh(s)'
<1>1. disturbed \subseteq disturbed'
  BY StepOverlaps
<1>2. /\ stage'[s] = stage[s] /\ todo'[s] = todo[s] /\ known'[s] = known[s]
      /\ result'[s] = result[s]
  BY OthersStay DEF Step
<1>3. CASE UNCHANGED db
  BY <1>1, <1>2, <1>3 DEF Fresh, Executing, Current
<1>4. ASSUME NEW f \in Files, Commit(r, f)
      PROVE  Fresh(s)'
  <2>1. Active(s) => s \in disturbed
    BY <1>4 DEF Commit, Overlap, Busy
  <2>2. s \in disturbed \/ stage[s] \in {"idle", "closed"}
    BY <2>1 DEF Active
  <2>3. QED
    BY <1>1, <1>2, <2>2 DEF Fresh, Executing
<1>5. UNCHANGED db \/ \E f \in Files : Commit(r, f)
  <2> USE DEF lockVars, Release
  <2>1. CASE Start(r) \/ End(r)
    BY <2>1
    DEF Start, Load, LoadFails, ReadTracker, TrackerFails, End, Finish, CommitThrows, Rollback,
        Close, Crash
  <2>2. ASSUME NEW f \in Files, Loop(r, f)
        PROVE  UNCHANGED db
    BY <2>2 DEF Loop, Skip, Drift, Begin, BeginFails
  <2>3. ASSUME NEW f \in Files, Apply(r, f), ~ Commit(r, f)
        PROVE  UNCHANGED db
    BY <2>3 DEF Apply, Execute, ExecuteThrows, Record, RecordThrows
  <2>4. QED
    BY <2>1, <2>2, <2>3 DEF Step
<1>6. QED
  BY <1>3, <1>4, <1>5

\* What a fresh run sees of the file it is at: no row, and no statement but its own.
LEMMA FreshView ==
  ASSUME MigrationTypeOK, Locked, NEW r \in Runs, r \notin disturbed, Fresh(r),
         NEW f \in Files, Executing(r, f)
  PROVE  View(r).tracker[VersionOf[f]] = None /\ View(r).executed[f] = at[r]
<1> USE MigrationAssumption
<1>1. db.tracker[VersionOf[f]] = None
  BY DEF Fresh, Executing, Current
<1>2. db.executed[f] = 0
  BY <1>1 DEF Locked, WholeOrNothing, Tracked
<1>3. db.executed \in [Files -> Nat] /\ at[r] \in Nat
  BY DEF MigrationTypeOK, Database
<1>4. CASE holder = r
  <2>1. View(r) = draft /\ draft.tracker = db.tracker
        /\ draft.executed = [db.executed EXCEPT ![f] = @ + at[r]]
    BY <1>4 DEF View, Locked, Pending
  <2>2. QED
    BY <1>1, <1>2, <1>3, <2>1
<1>5. CASE holder # r
  BY <1>1, <1>2, <1>5 DEF View, Locked
<1>6. QED
  BY <1>4, <1>5

LEMMA FreshIsAlone ==
  ASSUME MigrationTypeOK, Overlap, NEW r \in Runs, r \notin disturbed, Active(r)
  PROVE  ~ LockedOut(r)
BY DEF MigrationTypeOK, LockedOut, Overlap, Busy

LEMMA ActorStaysFresh ==
  ASSUME MigrationTypeOK, LoopOK, Locked, Overlap, NEW r \in Runs, Step(r), Fresh(r)
  PROVE  Fresh(r)'
<1> USE MigrationAssumption
<1> USE DEF MigrationTypeOK, MoveTo, Return, lockVars, loopVars, Result
<1> SUFFICES ASSUME r \notin disturbed'
             PROVE  Fresh(r)'
  BY DEF Fresh
<1>1. r \notin disturbed
  BY StepOverlaps
<1>2. ~ Fault(r)
  BY DEF Fault
<1>3. CASE Load(r)
  <2>1. stage'[r] \in {"loaded", "ended"}
        /\ (result'[r] = result[r] \/ result'[r] = "load_error")
    BY <1>3 DEF Load
  <2>2. QED
    BY <1>1, <2>1 DEF Fresh, Executing
<1>4. CASE ReadTracker(r)
  BY <1>1, <1>4 DEF ReadTracker, Fresh, Executing
<1>5. CASE LoadFails(r) \/ TrackerFails(r) \/ CommitThrows(r) \/ Crash(r)
  BY <1>2, <1>5 DEF LoadFails, TrackerFails, CommitThrows, Crash
<1>6. CASE Finish(r) \/ Rollback(r) \/ Close(r)
  BY <1>1, <1>6 DEF Finish, Rollback, Close, Fresh, Executing
<1>7. ASSUME NEW f \in Files, Loop(r, f)
      PROVE  Fresh(r)'
  <2>1. CASE Skip(r, f)
    BY <1>1, <2>1 DEF Skip, AtFile, Fresh, Executing
  <2>2. CASE Drift(r, f)
    BY <1>1, <2>2 DEF Drift, Fresh, Executing
  <2>3. CASE Begin(r, f)
    <3>1. \A g \in Files : Current(r, g) => g = f
      BY <2>3, CurrentIsOne DEF Begin, AtFile
    <3>2. UNCHANGED <<db, todo, known, result>> /\ stage'[r] = "executing"
          /\ stage[r] = "looping" /\ known[r][VersionOf[f]] = None
      BY <2>3 DEF Begin, AtFile
    <3>3. QED
      BY <1>1, <3>1, <3>2 DEF Fresh, Executing, Current
  <2>4. QED
    BY <1>2, <1>7, <2>1, <2>2, <2>3 DEF Loop, BeginFails
<1>8. ASSUME NEW f \in Files, Apply(r, f)
      PROVE  Fresh(r)'
  <2>1. CASE Execute(r, f)
    BY <1>1, <2>1 DEF Execute, Executing, Current, Fresh
  <2>2. CASE ExecuteThrows(r, f)
    <3>1. Executing(r, f) /\ (LockedOut(r) \/ Clashes(r, f))
      BY <1>2, <2>2 DEF ExecuteThrows
    <3>2. ~ LockedOut(r)
      BY <1>1, <3>1, FreshIsAlone DEF Active, Executing
    <3>3. View(r).executed[f] = at[r] /\ at[r] \in Nat
      BY <1>1, <3>1, FreshView
    <3>4. ~ Clashes(r, f)
      BY <3>3 DEF Clashes
    <3>5. QED
      BY <3>1, <3>2, <3>4
  <2>3. CASE Record(r, f)
    BY <1>1, <2>3 DEF Record, Executing, Current, Fresh
  <2>4. CASE RecordThrows(r, f)
    <3>1. Executing(r, f) /\ (LockedOut(r) \/ View(r).tracker[VersionOf[f]] # None)
      BY <1>2, <2>4 DEF RecordThrows
    <3>2. ~ LockedOut(r)
      BY <1>1, <3>1, FreshIsAlone DEF Active, Executing
    <3>3. QED
      BY <1>1, <3>1, <3>2, FreshView
  <2>5. CASE Commit(r, f)
    <3>1. stage[r] = "committing" /\ stage'[r] = "looping" /\ todo'[r] = todo[r] \ {f}
          /\ UNCHANGED <<known, result>> /\ f \in todo[r]
      BY <2>5 DEF Commit, Current
    <3>2. \A g \in todo'[r] : VersionOf[g] # VersionOf[f]
      BY <3>1 DEF LoopOK, Loadable
    <3>3. db'.tracker = [db.tracker EXCEPT ![VersionOf[f]] = f] /\ db.tracker \in Tracker
      BY <2>5, CommitFacts DEF Database
    <3>4. \A g \in todo'[r] : db'.tracker[VersionOf[g]] = db.tracker[VersionOf[g]]
      BY <3>1, <3>2, <3>3 DEF Tracker, Versions
    <3>5. QED
      BY <1>1, <3>1, <3>4 DEF Fresh, Executing
  <2>6. QED
    BY <1>8, <2>1, <2>2, <2>3, <2>4, <2>5 DEF Apply
<1>9. QED
  BY <1>3, <1>4, <1>5, <1>6, <1>7, <1>8 DEF Step, Start, End

AllFresh == \A r \in Runs : Fresh(r)

LEMMA StepKeepsFresh ==
  ASSUME MigrationTypeOK, LoopOK, Locked, Overlap, AllFresh, [MigrationNext]_migrationVars
  PROVE  AllFresh'
<1>1. ASSUME NEW q \in Runs, Step(q), NEW r \in Runs
      PROVE  Fresh(r)'
  BY <1>1, OthersStayFresh, ActorStaysFresh DEF AllFresh
<1>2. ASSUME UNCHANGED migrationVars, NEW r \in Runs, Fresh(r)
      PROVE  Fresh(r)'
  <2>1. UNCHANGED <<db, stage, todo, known, result, disturbed>>
    BY <1>2 DEF migrationVars
  <2>2. QED
    BY <1>2, <2>1 DEF Fresh, Executing, Current
<1>3. QED
  BY <1>1, <1>2 DEF AllFresh, MigrationNext, Step

LEMMA MigrationStaysFresh == MigrationSpec => [](Overlap /\ AllFresh)
<1>1. MigrationInit => Overlap /\ AllFresh
  BY MigrationAssumption
  DEF MigrationInit, Overlap, Active, AllFresh, Fresh, Executing, Result
<1>2. MigrationTypeOK /\ LoopOK /\ Locked /\ Overlap /\ AllFresh /\ [MigrationNext]_migrationVars
        => (Overlap /\ AllFresh)'
  BY StepKeepsOverlap, StepKeepsFresh
<1>3. QED
  BY <1>1, <1>2, MigrationAlwaysTracks, PTL DEF MigrationSpec

\* A run that has the database for itself and meets no fault does not fail to
\* apply: no failure, crash or failed rollback of the runs before it wedges it.
THEOREM MigrationIsNeverWedged == MigrationSpec => []AloneItApplies
<1>1. AllFresh => AloneItApplies
  BY DEF AllFresh, Fresh, AloneItApplies
<1>2. QED
  BY <1>1, MigrationStaysFresh, PTL

\* What a run returns and lists as applied is true of the database.
THEOREM MigrationResultsAreTrue == MigrationSpec => []ResultsAreTrue
<1>1. OkIsComplete /\ LowerFirst /\ ReportsAreTrue => ResultsAreTrue
  BY DEF ResultsAreTrue
<1>2. QED
  BY <1>1, OkMeansMigrated, MigrationsAreOrdered, MigrationReportsAreTrue, PTL

-----------------------------------------------------------------------------
(* Whole files, one at a time.                                             *)

\* What the abstract runs are made of.
abstractVars == <<db, dir, applied, result>>

LEMMA CommitMigrates ==
  ASSUME MigrationTypeOK, LoopOK, Locked, Tracking, NEW r \in Runs, NEW f \in Files, Commit(r, f)
  PROVE  Migrations!Migrate(r, f)
<1> USE MigrationAssumption
<1>1. /\ stage[r] = "committing" /\ f \in todo[r] /\ f \in dir[r]
      /\ \A g \in todo[r] : VersionOf[f] <= VersionOf[g]
      /\ applied' = [applied EXCEPT ![r] = @ \cup {f}]
      /\ UNCHANGED <<dir, result>>
  BY DEF Commit, Current, LoopOK
<1>2. result[r] = None
  BY <1>1 DEF Tracking
<1>3. /\ db.tracker[VersionOf[f]] = None
      /\ db'.tracker = [db.tracker EXCEPT ![VersionOf[f]] = f]
      /\ db'.executed = [db.executed EXCEPT ![f] = @ + Length[f]]
  BY CommitFacts
<1>4. db.executed \in [Files -> Nat] /\ db.executed[f] = 0
  BY <1>3 DEF MigrationTypeOK, Database, Locked, WholeOrNothing, Tracked
<1>5. db'.executed = [db.executed EXCEPT ![f] = Length[f]]
  BY <1>3, <1>4
<1>6. ASSUME NEW g \in dir[r], VersionOf[g] < VersionOf[f]
      PROVE  db.tracker[VersionOf[g]] = g
  <2>1. g \in Files /\ VersionOf[g] \in Nat /\ VersionOf[f] \in Nat
    BY DEF MigrationTypeOK
  <2>2. g \notin todo[r]
    BY <1>1, <1>6, <2>1
  <2>3. QED
    BY <2>2 DEF Tracking, Tracked
<1>7. QED
  BY <1>1, <1>2, <1>3, <1>5, <1>6 DEF Migrations!Migrate, Migrations!InEffect

\* A run that starts takes a directory, or fails.
LEMMA StartTakes ==
  ASSUME MigrationTypeOK, LoopOK, Tracking, NEW r \in Runs, Start(r)
  PROVE  \/ \E D \in SUBSET Files : Migrations!Take(r, D)
         \/ \E error \in {"load_error", "tracker_error"} : Migrations!Fail(r, error)
         \/ UNCHANGED abstractVars
<1> USE MigrationAssumption DEF lockVars, loopVars
<1>1. result[r] = None
  BY DEF Start, Load, LoadFails, ReadTracker, TrackerFails, Tracking
<1>2. CASE Load(r)
  <2>1. dir[r] = {} /\ UNCHANGED <<db, applied>>
    BY <1>2 DEF Load, Tracking
  <2>2. PICK D \in Directories :
          \/ Loadable(D) /\ dir' = [dir EXCEPT ![r] = D] /\ UNCHANGED result
          \/ Return(r, "load_error") /\ UNCHANGED dir
    BY <1>2 DEF Load
  <2>3. CASE Loadable(D) /\ dir' = [dir EXCEPT ![r] = D] /\ UNCHANGED result
    <3>1. Migrations!Take(r, D)
      BY <1>1, <2>1, <2>3 DEF Migrations!Take, Loadable
    <3>2. QED
      BY <3>1
  <2>4. CASE Return(r, "load_error") /\ UNCHANGED dir
    BY <1>1, <2>1, <2>4 DEF Migrations!Fail, Return
  <2>5. QED
    BY <2>2, <2>3, <2>4
<1>3. CASE LoadFails(r)
  BY <1>1, <1>3 DEF LoadFails, Migrations!Fail, Return
<1>4. CASE TrackerFails(r)
  BY <1>1, <1>4 DEF TrackerFails, Migrations!Fail, Return
<1>5. CASE ReadTracker(r)
  BY <1>5 DEF ReadTracker, abstractVars
<1>6. QED
  BY <1>2, <1>3, <1>4, <1>5 DEF Start

\* A run that ends succeeds if all is tracked, or fails, or is gone.
LEMMA EndReturns ==
  ASSUME MigrationTypeOK, LoopOK, Tracking, NEW r \in Runs, End(r)
  PROVE  \/ Migrations!Succeed(r) \/ Migrations!Fail(r, "apply_error") \/ UNCHANGED abstractVars
<1> USE MigrationAssumption DEF lockVars, loopVars, Release
<1>1. CASE Finish(r)
  <2>1. stage[r] = "looping" /\ todo[r] = {} /\ Return(r, "ok") /\ UNCHANGED <<db, dir, applied>>
    BY <1>1 DEF Finish
  <2>2. result[r] = None /\ \A f \in dir[r] : Tracked(f)
    BY <2>1 DEF Tracking
  <2>3. QED
    BY <2>1, <2>2 DEF Migrations!Succeed, Migrations!InEffect, Return, Tracked
<1>2. CASE Rollback(r)
  <2>1. stage[r] = "rolling_back" /\ Return(r, "apply_error") /\ UNCHANGED <<db, dir, applied>>
    BY <1>2 DEF Rollback
  <2>2. result[r] = None
    BY <2>1 DEF Tracking
  <2>3. QED
    BY <2>1, <2>2 DEF Migrations!Fail, Return
<1>3. CASE CommitThrows(r) \/ Close(r) \/ Crash(r)
  BY <1>3 DEF CommitThrows, Close, Crash, abstractVars
<1>4. QED
  BY <1>1, <1>2, <1>3 DEF End

\* In the loop a run may fail, or tell of a drift that is there.
LEMMA LoopReturns ==
  ASSUME MigrationTypeOK, LoopOK, Tracking, NEW r \in Runs, NEW f \in Files, Loop(r, f)
  PROVE  \/ Migrations!ReportDrift(r) \/ Migrations!Fail(r, "apply_error")
         \/ UNCHANGED abstractVars
<1> USE MigrationAssumption DEF lockVars, loopVars
<1>1. /\ stage[r] = "looping" /\ result[r] = None /\ f \in todo[r] /\ f \in dir[r]
      /\ VersionOf[f] \in Versions
  BY DEF Loop, Skip, Drift, Begin, BeginFails, AtFile, Current, Tracking, LoopOK, Versions
<1>2. CASE Drift(r, f)
  <2>1. /\ known[r][VersionOf[f]] \notin {None, f} /\ Return(r, "drift_error")
        /\ UNCHANGED <<db, dir, applied>>
    BY <1>2 DEF Drift
  <2>2. db.tracker[VersionOf[f]] \notin {None, f}
    BY <1>1, <2>1 DEF Tracking
  <2>3. QED
    BY <1>1, <2>1, <2>2 DEF Migrations!ReportDrift, Return
<1>3. CASE BeginFails(r, f)
  BY <1>1, <1>3 DEF BeginFails, Migrations!Fail, Return
<1>4. CASE Skip(r, f) \/ Begin(r, f)
  BY <1>4 DEF Skip, Begin, abstractVars
<1>5. QED
  BY <1>2, <1>3, <1>4 DEF Loop

\* To whoever looks at the committed database, and at what the runs return, whole
\* files are applied one at a time, for any number of runs, files and faults.
THEOREM MigrationsAreAtomic == MigrationSpec => ImplementsAtomicMigrations
<1>1. MigrationInit => Migrations!AbsInit
  BY DEF MigrationInit, Migrations!AbsInit, Empty, Versions
<1>2. MigrationTypeOK /\ LoopOK /\ Locked /\ Tracking /\ [MigrationNext]_migrationVars
        => [Migrations!AbsNext]_(Migrations!absVars)
  <2> SUFFICES ASSUME MigrationTypeOK, LoopOK, Locked, Tracking, [MigrationNext]_migrationVars
               PROVE  Migrations!AbsNext \/ UNCHANGED abstractVars
    BY DEF Migrations!absVars, abstractVars
  <2>1. ASSUME NEW r \in Runs, Start(r)
        PROVE  Migrations!AbsNext \/ UNCHANGED abstractVars
    BY <2>1, StartTakes DEF Migrations!AbsNext
  <2>2. ASSUME NEW r \in Runs, End(r)
        PROVE  Migrations!AbsNext \/ UNCHANGED abstractVars
    BY <2>2, EndReturns DEF Migrations!AbsNext
  <2>3. ASSUME NEW r \in Runs, NEW f \in Files, Loop(r, f)
        PROVE  Migrations!AbsNext \/ UNCHANGED abstractVars
    BY <2>3, LoopReturns DEF Migrations!AbsNext
  <2>4. ASSUME NEW r \in Runs, NEW f \in Files, Apply(r, f)
        PROVE  Migrations!AbsNext \/ UNCHANGED abstractVars
    <3>1. CASE Commit(r, f)
      BY <3>1, CommitMigrates DEF Migrations!AbsNext
    <3>2. CASE ~ Commit(r, f)
      BY <2>4, <3>2
      DEF Apply, Execute, ExecuteThrows, Record, RecordThrows, lockVars, loopVars, abstractVars
    <3>3. QED
      BY <3>1, <3>2
  <2>5. CASE UNCHANGED migrationVars
    BY <2>5 DEF migrationVars, abstractVars
  <2>6. QED
    BY <2>1, <2>2, <2>3, <2>4, <2>5 DEF MigrationNext
<1>3. QED
  BY <1>1, <1>2, MigrationAlwaysTracks, PTL
  DEF MigrationSpec, ImplementsAtomicMigrations, Migrations!AbsSpec
=============================================================================
