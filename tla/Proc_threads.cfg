SPECIFICATION Spec
CONSTANTS
  NPROC = 4
  NCPU = 2
  MaxPid = 4
  Calls <- Threads
  KillPids = {3}
  BadArgs = TRUE
INVARIANTS WaiterSeesZombie TableSound KilledNotWaiting
CHECK_DEADLOCK FALSE
