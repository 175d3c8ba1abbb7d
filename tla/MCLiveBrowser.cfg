SPECIFICATION LiveSpec
CONSTANTS
  MaxSessions = 2
  Overlap = FALSE
  N = 2
  MaxPosts = 1
  MaxUpsets = 1
INVARIANT SessionInv
PROPERTIES AcceptsWhatIsSeen SessionProgress
CHECK_DEADLOCK FALSE
