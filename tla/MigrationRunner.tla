---------------------------- MODULE MigrationRunner ----------------------------
(***************************************************************************)
(* backend/src/db/migrationRunner.ts and its entry point migrate.ts: runs  *)
(* of `npm run migrate`, each a process with a connection of its own, over *)
(* one SQLite file.  One action per SQL statement.                         *)
(*                                                                         *)
(* A file stands for its version and name: a renamed migration is another  *)
(* file of the same version.  What its statements do is how many of them   *)
(* are in effect; one that fails for good is a fault that comes again.     *)
(***************************************************************************)
EXTENDS Integers, FiniteSets

CONSTANTS
  Runs,         \* runs of the migration entry point
  Files,        \* the migration files there ever are
  VersionOf,    \* VersionOf[f]: the prefix NNN of its name
  Length,       \* Length[f]: its number of statements
  Repeatable,   \* files whose statements may be executed twice: IF NOT EXISTS
  Directories,  \* sets of files that the directory holds at one time or another
  MaxFaults,    \* bound: operations that fail, and crashes
  None

Result == {"ok", "load_error", "tracker_error", "drift_error", "apply_error"}

ASSUME MigrationAssumption ==
  /\ VersionOf \in [Files -> Nat] /\ Length \in [Files -> Nat]
  /\ Repeatable \subseteq Files /\ Directories \subseteq SUBSET Files
  /\ \A D \in Directories : IsFiniteSet(D)
  /\ None \notin Files /\ None \notin Runs /\ None \notin Result
  /\ MaxFaults \in Nat

VARIABLES
  db,        \* the committed database
  holder,    \* the run whose transaction has written, and so locks out others
  draft,     \* the database as holder sees it
  stage,     \* stage[r]: where run r stands
  dir,       \* dir[r]: the files it has loaded
  todo,      \* todo[r]: those its loop has not come past
  known,     \* known[r]: schema_migrations as it has read it
  at,        \* at[r]: statements of the current file it has executed
  applied,   \* applied[r]: what it is going to report as applied
  result,    \* result[r]: what it has returned, or None
  disturbed, \* runs that met a fault or overlapped another run (history)
  faults

migrationVars ==
  <<db, holder, draft, stage, dir, todo, known, at, applied, result, disturbed, faults>>
loopVars == <<dir, todo, known, applied>>
lockVars == <<db, holder, draft>>

Versions == {VersionOf[f] : f \in Files}
Tracker == [Versions -> Files \cup {None}]
Database == [tracker : Tracker, executed : [Files -> Nat]]

Stage ==
  {"idle", "loaded", "looping", "executing", "committing", "rolling_back", "ended", "closed"}

Empty == [tracker |-> [v \in Versions |-> None], executed |-> [f \in Files |-> 0]]

\* The file the loop of r is at: the first, by version, of those to come.
Current(r, f) == f \in todo[r] /\ \A g \in todo[r] : VersionOf[f] <= VersionOf[g]

MigrationTypeOK ==
  /\ db \in Database /\ draft \in Database
  /\ holder \in Runs \cup {None}
  /\ stage \in [Runs -> Stage]
  /\ dir \in [Runs -> SUBSET Files] /\ todo \in [Runs -> SUBSET Files]
  /\ known \in [Runs -> Tracker]
  /\ at \in [Runs -> Nat]
  /\ \A r \in Runs : stage[r] = "executing" => \E f \in Files : Current(r, f) /\ at[r] <= Length[f]
  /\ applied \in [Runs -> SUBSET Files]
  /\ result \in [Runs -> Result \cup {None}]
  /\ disturbed \subseteq Runs
  /\ faults \in Nat

MigrationInit ==
  /\ db = Empty /\ draft = Empty /\ holder = None
  /\ stage = [r \in Runs |-> "idle"]
  /\ dir = [r \in Runs |-> {}] /\ todo = [r \in Runs |-> {}]
  /\ known = [r \in Runs |-> Empty.tracker]
  /\ at = [r \in Runs |-> 0]
  /\ applied = [r \in Runs |-> {}]
  /\ result = [r \in Runs |-> None]
  /\ disturbed = {}
  /\ faults = 0

-----------------------------------------------------------------------------
(* Faults, and the ends of a run.                                          *)

MoveTo(r, st) == stage' = [stage EXCEPT ![r] = st]

NoFault == UNCHANGED <<disturbed, faults>>

Fault(r) ==
  /\ faults < MaxFaults
  /\ faults' = faults + 1
  /\ disturbed' = disturbed \cup {r}

Return(r, res) ==
  /\ MoveTo(r, "ended")
  /\ result' = [result EXCEPT ![r] = res]

Active(r) == stage[r] \notin {"idle", "closed"}

\* The transaction of r, if it has one, is gone.
Release(r) ==
  /\ holder' = IF holder = r THEN None ELSE holder
  /\ UNCHANGED <<db, draft>>

-----------------------------------------------------------------------------
(* loadMigrationsFromDir, and the tracker.                                 *)

Loadable(D) == \A f, g \in D : VersionOf[f] = VersionOf[g] => f = g

Load(r) ==
  /\ stage[r] = "idle"
  /\ \E D \in Directories :
       \/ /\ Loadable(D)
          /\ dir' = [dir EXCEPT ![r] = D] /\ todo' = [todo EXCEPT ![r] = D]
          /\ MoveTo(r, "loaded")
          /\ UNCHANGED result
       \/ /\ ~ Loadable(D)
          /\ Return(r, "load_error")
          /\ UNCHANGED <<dir, todo>>
  /\ disturbed' =
       IF \E s \in Runs : Active(s)
         THEN disturbed \cup {r} \cup {s \in Runs : Active(s)} ELSE disturbed
  /\ UNCHANGED <<lockVars, known, at, applied, faults>>

\* The directory or a file cannot be read, or a name does not parse.
LoadFails(r) ==
  /\ Fault(r)
  /\ stage[r] = "idle"
  /\ Return(r, "load_error")
  /\ UNCHANGED <<lockVars, loopVars, at>>

\* Mutant: the rows are not asked for.
ReadNothing(r) ==
  /\ stage[r] = "loaded"
  /\ MoveTo(r, "looping")
  /\ NoFault
  /\ UNCHANGED <<lockVars, loopVars, at, result>>

\* CREATE TABLE IF NOT EXISTS schema_migrations, and the SELECT.
ReadTracker(r) ==
  /\ stage[r] = "loaded"
  /\ known' = [known EXCEPT ![r] = db.tracker]
  /\ MoveTo(r, "looping")
  /\ NoFault
  /\ UNCHANGED <<lockVars, dir, todo, at, applied, result>>

TrackerFails(r) ==
  /\ Fault(r)
  /\ stage[r] = "loaded"
  /\ Return(r, "tracker_error")
  /\ UNCHANGED <<lockVars, loopVars, at>>

-----------------------------------------------------------------------------
(* The loop over the files.                                                *)

AtFile(r, f) == stage[r] = "looping" /\ Current(r, f)

\* Mutant: any name will do.
SkipByVersion(r, f) ==
  /\ AtFile(r, f)
  /\ known[r][VersionOf[f]] # None
  /\ todo' = [todo EXCEPT ![r] = @ \ {f}]
  /\ NoFault
  /\ UNCHANGED <<lockVars, stage, dir, known, at, applied, result>>

Skip(r, f) ==
  /\ AtFile(r, f)
  /\ known[r][VersionOf[f]] = f
  /\ todo' = [todo EXCEPT ![r] = @ \ {f}]
  /\ NoFault
  /\ UNCHANGED <<lockVars, stage, dir, known, at, applied, result>>

Drift(r, f) ==
  /\ AtFile(r, f)
  /\ known[r][VersionOf[f]] \notin {None, f}
  /\ Return(r, "drift_error")
  /\ NoFault
  /\ UNCHANGED <<lockVars, loopVars, at>>

Finish(r) ==
  /\ stage[r] = "looping" /\ todo[r] = {}
  /\ Return(r, "ok")
  /\ NoFault
  /\ UNCHANGED <<lockVars, loopVars, at>>

\* Mutant: the statement index of the file before is kept.
BeginWithoutReset(r, f) ==
  /\ AtFile(r, f)
  /\ known[r][VersionOf[f]] = None
  /\ MoveTo(r, "executing")
  /\ NoFault
  /\ UNCHANGED <<lockVars, loopVars, at, result>>

\* BEGIN is deferred: it takes no lock.
Begin(r, f) ==
  /\ AtFile(r, f)
  /\ known[r][VersionOf[f]] = None
  /\ at' = [at EXCEPT ![r] = 0]
  /\ MoveTo(r, "executing")
  /\ NoFault
  /\ UNCHANGED <<lockVars, loopVars, result>>

BeginFails(r, f) ==
  /\ Fault(r)
  /\ AtFile(r, f)
  /\ known[r][VersionOf[f]] = None
  /\ Return(r, "apply_error")
  /\ UNCHANGED <<lockVars, loopVars, at>>

-----------------------------------------------------------------------------
(* The transaction.                                                        *)

Executing(r, f) == stage[r] = "executing" /\ Current(r, f)

\* Another connection has written in a transaction that is still open: SQLITE_BUSY.
LockedOut(r) == holder \notin {None, r}

\* The database as run r sees it.
View(r) == IF holder = r THEN draft ELSE db

\* The statement is not one to execute twice, and it was executed before.
Clashes(r, f) == f \notin Repeatable /\ View(r).executed[f] > at[r]

\* Mutant: there is no transaction.
ExecuteAtOnce(r, f) ==
  /\ Executing(r, f) /\ at[r] < Length[f]
  /\ ~ LockedOut(r) /\ ~ Clashes(r, f)
  /\ db' = [tracker |-> db.tracker, executed |-> [db.executed EXCEPT ![f] = @ + 1]]
  /\ at' = [at EXCEPT ![r] = @ + 1]
  /\ NoFault
  /\ UNCHANGED <<holder, draft, stage, loopVars, result>>

Execute(r, f) ==
  /\ Executing(r, f) /\ at[r] < Length[f]
  /\ ~ LockedOut(r) /\ ~ Clashes(r, f)
  /\ holder' = r
  /\ draft' = [tracker |-> View(r).tracker, executed |-> [View(r).executed EXCEPT ![f] = @ + 1]]
  /\ at' = [at EXCEPT ![r] = @ + 1]
  /\ NoFault
  /\ UNCHANGED <<db, stage, loopVars, result>>

ExecuteThrows(r, f) ==
  /\ Executing(r, f) /\ at[r] < Length[f]
  /\ \/ (LockedOut(r) \/ Clashes(r, f)) /\ NoFault
     \/ Fault(r)
  /\ MoveTo(r, "rolling_back")
  /\ UNCHANGED <<lockVars, loopVars, at, result>>

\* INSERT INTO schema_migrations, whose primary key is the version.
Record(r, f) ==
  /\ Executing(r, f) /\ at[r] = Length[f]
  /\ ~ LockedOut(r) /\ View(r).tracker[VersionOf[f]] = None
  /\ holder' = r
  /\ draft' = [tracker |-> [View(r).tracker EXCEPT ![VersionOf[f]] = f],
                executed |-> View(r).executed]
  /\ MoveTo(r, "committing")
  /\ NoFault
  /\ UNCHANGED <<db, loopVars, at, result>>

RecordThrows(r, f) ==
  /\ Executing(r, f) /\ at[r] = Length[f]
  /\ \/ (LockedOut(r) \/ View(r).tracker[VersionOf[f]] # None) /\ NoFault
     \/ Fault(r)
  /\ MoveTo(r, "rolling_back")
  /\ UNCHANGED <<lockVars, loopVars, at, result>>

Commit(r, f) ==
  /\ stage[r] = "committing" /\ Current(r, f)
  /\ db' = draft /\ holder' = None
  /\ applied' = [applied EXCEPT ![r] = @ \cup {f}]
  /\ todo' = [todo EXCEPT ![r] = @ \ {f}]
  /\ MoveTo(r, "looping")
  /\ NoFault
  /\ UNCHANGED <<draft, dir, known, at, result>>

CommitThrows(r) ==
  /\ Fault(r)
  /\ stage[r] = "committing"
  /\ MoveTo(r, "rolling_back")
  /\ UNCHANGED <<lockVars, loopVars, at, result>>

\* ROLLBACK, and the return; that it throws is swallowed.
Rollback(r) ==
  /\ stage[r] = "rolling_back"
  /\ \/ Release(r) /\ NoFault
     \/ Fault(r) /\ UNCHANGED lockVars
  /\ Return(r, "apply_error")
  /\ UNCHANGED <<loopVars, at>>

-----------------------------------------------------------------------------
(* The process: client.close(), or its death at any time.                  *)

Close(r) ==
  /\ stage[r] = "ended"
  /\ Release(r)
  /\ MoveTo(r, "closed")
  /\ NoFault
  /\ UNCHANGED <<loopVars, at, result>>

Crash(r) ==
  /\ Fault(r)
  /\ Active(r)
  /\ Release(r)
  /\ MoveTo(r, "closed")
  /\ UNCHANGED <<loopVars, at, result>>

Start(r) == Load(r) \/ LoadFails(r) \/ ReadTracker(r) \/ TrackerFails(r)
Loop(r, f) == Skip(r, f) \/ Drift(r, f) \/ Begin(r, f) \/ BeginFails(r, f)
Apply(r, f) ==
  Execute(r, f) \/ ExecuteThrows(r, f) \/ Record(r, f) \/ RecordThrows(r, f) \/ Commit(r, f)
End(r) == Finish(r) \/ CommitThrows(r) \/ Rollback(r) \/ Close(r) \/ Crash(r)

MigrationNext ==
  \E r \in Runs :
    \/ Start(r) \/ End(r)
    \/ \E f \in Files : Loop(r, f) \/ Apply(r, f)

MigrationSpec == MigrationInit /\ [][MigrationNext]_migrationVars

-----------------------------------------------------------------------------
(* Properties.                                                             *)

Tracked(f) == db.tracker[VersionOf[f]] = f

\* A migration is in the database with all its statements, each executed once,
\* and a row, or without any of them: after errors and crashes of any run, failed
\* rollbacks, and runs that decided on the same file at the same time.
WholeOrNothing == \A f \in Files : db.executed[f] = IF Tracked(f) THEN Length[f] ELSE 0

\* A run that returns ok leaves every file of its directory tracked under its
\* name, whoever applied it: a renamed file is never passed over.
OkIsComplete == \A r \in Runs : result[r] = "ok" => \A f \in dir[r] : Tracked(f)

\* No file is applied before one of a lower version in the same directory.
LowerFirst ==
  \A r \in Runs : \A f \in applied[r], g \in dir[r] : VersionOf[g] < VersionOf[f] => Tracked(g)

\* What a run reports as applied it has applied: no two runs report one version,
\* and the database says the same.
ReportsAreTrue ==
  \A r \in Runs : \A f \in applied[r] :
    /\ Tracked(f)
    /\ \A s \in Runs : \A g \in applied[s] : VersionOf[f] = VersionOf[g] => r = s /\ f = g

\* What a run returns is true of the database and stays so: ok for the whole of
\* its directory, and what it lists as applied, in order.
ResultsAreTrue == OkIsComplete /\ LowerFirst /\ ReportsAreTrue

\* A failure never wedges the database: a run that has it for itself and meets
\* no fault does not fail to apply, whatever earlier runs left.
AloneItApplies == \A r \in Runs : result[r] = "apply_error" => r \in disturbed

Migrations == INSTANCE AtomicMigrations WITH
  tracker <- db.tracker, executed <- db.executed

\* Statements, locks, rollbacks and crashes of all runs together amount to whole
\* files that are applied one at a time, to a database that nothing else touches.
ImplementsAtomicMigrations == Migrations!AbsSpec
=============================================================================
