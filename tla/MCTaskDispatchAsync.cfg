\* Two async tasks, one slot, one place on the worker.
SPECIFICATION FairSpec
CONSTANTS
  Executes = {}
  Chats = {}
  Asyncs = {a, b}
  MaxConcurrentTasks = 1
  MaxInflight = 1
  ExecTimeout = 1
  Prompt = FALSE
  MaxFaults = 1
INVARIANTS
  SlotsAccounted
PROPERTIES
  DispatchEnds
  CapacityReturns
