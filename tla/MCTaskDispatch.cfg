\* A streaming handler and a handler that answers at the end, one place on the worker.
SPECIFICATION Spec
CONSTANTS
  Executes = {e}
  Chats = {c}
  Asyncs = {}
  MaxConcurrentTasks = 1
  MaxInflight = 1
  ExecTimeout = 1
  Prompt = FALSE
  MaxFaults = 1
INVARIANTS
  OneOutcome
  SuccessMeansClosed
  CapacityKept
