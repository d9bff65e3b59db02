SPECIFICATION Spec
CONSTANTS
    MAXARGS = 3
    DIRSIZ = 2
    WORD = 32
    NPROC = 6
    NOFILE = 6
    NPIPE = 2
    PIPESIZE = 1
    Burst = 2
    MaxLines = 2
    Lines <- CmdLines
    Typed <- Strings
INVARIANTS ParseRight NamesRight MatchRight PrintRight Wired ForegroundDone
PROPERTY PromptReturns
CHECK_DEADLOCK FALSE
