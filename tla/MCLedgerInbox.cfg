\* Two callers, one failed statement or crash, out-of-order delivery of a chain
\* and of a fork.  The callers and the raters' entries are not symmetric.
SPECIFICATION Spec
CONSTANTS
  A = A
  B = B
  Me = Me
  a1 = a1
  a2 = a2
  a3 = a3
  b1 = b1
  b2 = b2
  b2x = b2x
  m1 = m1
  bad = bad
  Raters = {A, B, Me}
  Self = Me
  Entries = {a1, a2, b1, b2, b2x, m1, bad}
  Zero = Zero
  Rater <- MCRater
  Prev <- MCPrev
  Malformed = {bad}
  Callers = {gossip, catchup}
  OrphanCap = 2
  PerPeerOrphanCap = 2
  MaxFaults = 1
INVARIANTS TypeOK ChainInv OrphansBounded
PROPERTY ImplementsChains
