CONSTANTS
  d1 = d1
  d2 = d2
  r1 = r1
  r2 = r2
  Database <- MCDatabase
  Absent = Absent
  NoRun = NoRun
  Run <- MCRun
  FileOrder <- MCFiles
  Migration <- MCOneMigration
  MaxWrites = 3
  Scenario <- MCScenario
SPECIFICATION Spec
INVARIANTS SnapshotIsPointInTime PublishedIsRepaired
PROPERTIES RepairAfterInspection OutputIsFinal
CHECK_DEADLOCK FALSE
