SPECIFICATION Spec
CONSTANTS
  Proc = {p1, p2}
  p1 = p1
  p2 = p2
  NoProc = NoProc
  InitProc = p1
  Name = {"a", "b"}
  NINODES = 3
  NBLOCKS = 3
  SIZE = 4
  NINODE = 3
  NFILE = 1
  MaxBlocks = 1
  Programs <- AllPrograms
  MaxCrashes = 1
CONSTRAINT Explore
INVARIANTS CacheRight CommittedSound NoPanic SomebodyMoves
