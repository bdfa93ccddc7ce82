--------------------------- MODULE MCMigrationRunner ---------------------------
(***************************************************************************)
(* Instances of MigrationRunner for TLC.                                   *)
(***************************************************************************)
EXTENDS MigrationRunner, TLC

CONSTANTS r1, r2, r3, tables, column, renamed

MCRuns == {r1, r2, r3}

\* CREATE TABLE IF NOT EXISTS; ALTER TABLE, and an UPDATE; the same renamed.
MCFiles == {tables, column, renamed}
MCVersionOf == tables :> 1 @@ column :> 2 @@ renamed :> 2
MCLength == tables :> 1 @@ column :> 2 @@ renamed :> 0
MCRepeatable == {tables, renamed}

\* As it grows, as it is renamed, and with both names by mistake.
MCDirectories == {{tables}, {tables, column}, {tables, renamed}, {column, renamed}}

MCSymmetry == Permutations(MCRuns)
=============================================================================
