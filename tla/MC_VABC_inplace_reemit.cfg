CONSTANTS
  Blocks <- MCBlocks
  Plans <- MCRotatePlans
  PrimaryBad <- MCNoBad
  EccBad <- MCEccBad
  HasEcc = TRUE
  MaxRestarts = 1
SPECIFICATION Spec
INVARIANTS
  InPlaceMergeCorrect
