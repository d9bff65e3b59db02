SPECIFICATION Spec
CONSTANTS
  Proc = {p1, p2, p3}
  Byte = {x, y}
  Readers = {p1}
  Writers = {p2, p3}
  PIPESIZE = 2
  WORD = 4
  MaxWrite = 3
  MaxRead = 2
  Killable = {p1, p3}
  NoProc = NoProc
SYMMETRY Symmetry
INVARIANTS PipeSound
PROPERTIES Implements
