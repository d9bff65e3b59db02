SPECIFICATION LiveSpec
CONSTANTS
  NPROC = 3
  NCPU = 2
  MaxPid = 4
  Calls <- Processes
  KillPids = {1, 2, 3}
  BadArgs = FALSE
PROPERTIES KilledExits InitReaps
INVARIANTS FamilySound
