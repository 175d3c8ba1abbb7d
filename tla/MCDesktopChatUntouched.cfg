SPECIFICATION Spec
CONSTANTS
  Projects = {p1, p2}
  NoProject = none
  LIMIT = 1
  Polls = 2
  MaxSessions = 2
  MaxSends = 2
  MaxChunks = 1
  MaxOps = 3
INVARIANTS HistoryUntouched

CHECK_DEADLOCK FALSE
