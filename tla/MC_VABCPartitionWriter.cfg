CONSTANTS
  Blocks <- MCBlocks
  Plans <- MCPlans
  PrimaryBad <- MCPrimaryBad
  EccBad <- MCEccBad
  HasEcc = TRUE
  MaxRestarts = 2
SPECIFICATION Spec
INVARIANTS
  TypeOK
  CheckpointSafe
  FinishedViewCorrect
  NoCorruptData
PROPERTIES
  NoWriteForMalformedOp
