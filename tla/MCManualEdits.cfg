SPECIFICATION LiveSpec
CONSTANTS
  p1 = p1
  e1 = e1
  e2 = e2
  f1 = f1
  Pages = {p1}
  Edits = {e1, e2}
  Files = {f1}
  PageOf <- PageOfEdit
  FileOf <- FileOfEdit
  Agents = {a1}
  ChunkSize = 1
  MaxRepairs = 1
  MaxVersion = 1
INVARIANTS EditsKept
PROPERTIES AllOrNothing ApplyEnds
CHECK_DEADLOCK FALSE
