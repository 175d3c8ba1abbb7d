SPECIFICATION LiveSpec
CONSTANTS
  Sessions = {s1}
  Steers = {q1}
  Agents = {a1, a2}
  NoId = none
  MaxCheckpoints = 1
  MaxPosts = 1
  MaxUpsets = 1
INVARIANTS HubInv JournalInv
PROPERTIES FinalStays Delivered
CHECK_DEADLOCK FALSE
