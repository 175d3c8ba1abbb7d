\* Two peers; two outcomes each, a cap of one, one failed append or restart.
SPECIFICATION FairSpec
CONSTANTS
  Peers = {p, q}
  Window = 2
  HourlyCap = 1
  MaxOutcomes = 2
  MaxRatingFaults = 1
INVARIANTS
  OutcomesConserved
  TrustRateCapped
  RatingInv
PROPERTY
  BucketsDrain
