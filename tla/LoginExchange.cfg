SPECIFICATION FairSpec
CONSTANTS
  N = 7
  G = 2
  K = 5
  Creators = {c1, c2}
  Other = Other
  Nonces <- MCNonces
  Hashes <- MCHashes
CHECK_DEADLOCK FALSE
INVARIANTS TypeOK CreatedOnce RightPasswordPasses MutualProof
PROPERTIES ClientEnds
