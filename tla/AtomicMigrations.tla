-------------------------- MODULE AtomicMigrations --------------------------
(***************************************************************************)
(* What migration runs promise, with no statements, transactions, locks or *)
(* crashes in sight: a file is applied in one step, to a database that     *)
(* lacks its version and has all that comes before it, and nothing else    *)
(* ever happens to the database.  What a run returns is true when it       *)
(* returns.                                                                *)
(***************************************************************************)
EXTENDS Integers

CONSTANTS Runs, Files, VersionOf, Length, None

VARIABLES
  tracker,   \* tracker[v]: the file applied as version v, or None
  executed,  \* executed[f]: statements of f in effect
  dir,       \* dir[r]: the files run r is to see to
  applied,   \* applied[r]: those of them it has applied
  result     \* result[r]: what it has returned, or None

absVars == <<tracker, executed, dir, applied, result>>

AbsInit ==
  /\ tracker = [v \in {VersionOf[f] : f \in Files} |-> None]
  /\ executed = [f \in Files |-> 0]
  /\ dir = [r \in Runs |-> {}]
  /\ applied = [r \in Runs |-> {}]
  /\ result = [r \in Runs |-> None]

InEffect(f) == tracker[VersionOf[f]] = f

\* No version twice in a directory.
Take(r, D) ==
  /\ result[r] = None /\ dir[r] = {}
  /\ \A f, g \in D : VersionOf[f] = VersionOf[g] => f = g
  /\ dir' = [dir EXCEPT ![r] = D]
  /\ UNCHANGED <<tracker, executed, applied, result>>

Migrate(r, f) ==
  /\ result[r] = None /\ f \in dir[r]
  /\ tracker[VersionOf[f]] = None
  /\ \A g \in dir[r] : VersionOf[g] < VersionOf[f] => InEffect(g)
  /\ tracker' = [tracker EXCEPT ![VersionOf[f]] = f]
  /\ executed' = [executed EXCEPT ![f] = Length[f]]
  /\ applied' = [applied EXCEPT ![r] = @ \cup {f}]
  /\ UNCHANGED <<dir, result>>

Succeed(r) ==
  /\ result[r] = None
  /\ \A f \in dir[r] : InEffect(f)
  /\ result' = [result EXCEPT ![r] = "ok"]
  /\ UNCHANGED <<tracker, executed, dir, applied>>

\* The version of one of its files bears another name.
ReportDrift(r) ==
  /\ result[r] = None
  /\ \E f \in dir[r] : tracker[VersionOf[f]] \notin {None, f}
  /\ result' = [result EXCEPT ![r] = "drift_error"]
  /\ UNCHANGED <<tracker, executed, dir, applied>>

Fail(r, error) ==
  /\ result[r] = None
  /\ result' = [result EXCEPT ![r] = error]
  /\ UNCHANGED <<tracker, executed, dir, applied>>

AbsNext ==
  \E r \in Runs :
    \/ Succeed(r) \/ ReportDrift(r)
    \/ \E D \in SUBSET Files : Take(r, D)
    \/ \E f \in Files : Migrate(r, f)
    \/ \E error \in {"load_error", "tracker_error", "apply_error"} : Fail(r, error)

AbsSpec == AbsInit /\ [][AbsNext]_absVars
=============================================================================
