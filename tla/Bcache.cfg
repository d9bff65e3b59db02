SPECIFICATION Spec
CONSTANTS
  Proc = {p1, p2}
  Sector = {s1, s2, s3, s4}
  Val = {v1, v2}
  NBUF = 3
  MaxPinned = 2
  Errors = {FALSE, TRUE}
  NoSector = NoSector
  NoCmd = NoCmd
SYMMETRY Symmetry
VIEW View
INVARIANTS CacheSound
PROPERTIES Implements
