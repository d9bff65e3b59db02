SPECIFICATION Spec
CONSTANTS
    NALLOC = 5
    LIMIT = 30
    NODE = 2
    STACK = 3
    Programs = {"frisbee", "sleep", "yield"}
    Overruns = {"slist", "i", "end"}
    numthreads = 3
    numpass = 2
    Rounds = 2
CHECK_DEADLOCK FALSE
INVARIANTS HeapSound QueueRight
PROPERTIES CaughtRight Ends
