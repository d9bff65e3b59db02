SPECIFICATION Spec
CONSTANTS
    NPAGES = 17
    NPROC = 3
    PGSIZE = 2
    NPTENTRIES = 3
    KTABLES = 1
    KERNBASE = 12
    WORD = 64
    Segments = {1}
    Deltas <- SbrkDeltas
    Threads = TRUE
CONSTRAINT Explore
VIEW View
INVARIANTS PagesOwned SizeIsExtent
PROPERTIES FailureKeeps
CHECK_DEADLOCK FALSE
