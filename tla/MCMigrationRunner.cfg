SPECIFICATION MigrationSpec
CONSTANTS
  r1 = r1
  r2 = r2
  r3 = r3
  tables = tables
  column = column
  renamed = renamed
  None = None
  Runs <- MCRuns
  Files <- MCFiles
  VersionOf <- MCVersionOf
  Length <- MCLength
  Repeatable <- MCRepeatable
  Directories <- MCDirectories
  MaxFaults = 2
INVARIANTS
  MigrationTypeOK
  ResultsAreTrue
  AloneItApplies
PROPERTY ImplementsAtomicMigrations
SYMMETRY MCSymmetry
CHECK_DEADLOCK FALSE
