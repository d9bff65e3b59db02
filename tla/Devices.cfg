SPECIFICATION Spec
CONSTANTS
    p1 = p1
    p2 = p2
    Proc = {p1, p2}
    INPUT_BUF = 2
    UINT = 4
    Machines <- AllMachines
    Keys <- AllKeys
    Serial = {"d", "cr", "^D", "^U", "^H", "^P"}
    Sizes = {1, 3}
    Delays = {0, 1, 3}
INVARIANTS ReadersAwake ShiftRight
PROPERTIES Implements SleepTimes SleepEnds
