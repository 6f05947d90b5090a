SPECIFICATION FairSpec
CONSTANTS
  Lengths <- MCLengths
  SpliceMax = 3
  Modulus = 8
  MaxSent = 24
INVARIANTS TypeOK Account Complete OverrunsInFull
PROPERTIES Ends
