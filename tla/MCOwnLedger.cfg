\* Two appenders, one client; three entries, two crashes, one failed statement.
SPECIFICATION Spec
CONSTANTS
  Appenders = {a1, a2}
  Clients = {c1}
  MaxAppends = 3
  MaxCrashes = 2
  MaxFaults = 1
INVARIANTS
  CleanProofsVerify
  LogInv
  NoEquivocation
  AckedKept
PROPERTY HeadsGrow
