\* A copied block corrupt on the primary and clean on the replica.
CONSTANTS
  Blocks <- MCBlocks
  Plans <- MCPlans
  PrimaryBad <- MCPrimaryBad
  EccBad <- MCEccBad
  HasEcc = TRUE
  MaxRestarts = 0
SPECIFICATION Spec
INVARIANT
  FinishedViewCorrect
