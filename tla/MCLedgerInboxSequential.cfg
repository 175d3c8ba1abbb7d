\* One caller (worker, relay and witness only run the gossip subscriber), no fault.
SPECIFICATION FairSpec
CONSTANTS
  A = A
  B = B
  Me = Me
  a1 = a1
  a2 = a2
  a3 = a3
  b1 = b1
  b2 = b2
  b2x = b2x
  m1 = m1
  bad = bad
  Raters = {A, B, Me}
  Self = Me
  Entries = {a1, a2, a3, b1, b2, b2x, m1}
  Zero = Zero
  Rater <- MCRater
  Prev <- MCPrev
  Malformed = {}
  Callers = {gossip}
  OrphanCap = 3
  PerPeerOrphanCap = 2
  MaxFaults = 0
INVARIANTS OrphansPromoted NoLeftover
PROPERTY HonestEntriesAccepted
