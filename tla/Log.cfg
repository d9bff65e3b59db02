SPECIFICATION LiveSpec
CONSTANTS
  Proc = {p1, p2}
  Block = {b1, b2, b3}
  Val = {v1, v2}
  LogSize = 3
  LogSectors = 3
  NoBuf = NoBuf
  NoBlock = NoBlock
  NoProc = NoProc
PROPERTIES Implements SleeperWakes
INVARIANTS OneTransaction WriteAhead
