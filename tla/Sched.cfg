SPECIFICATION LiveSpec
CONSTANTS
  NPROC = 2
  NCPU = 2
INVARIANTS SchedSound InterruptsRestored
PROPERTIES SleeperRuns
