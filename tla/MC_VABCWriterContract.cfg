\* The writer's contract on its own: every order of calls, checkpoints,
\* failures and up to two crashes, each tearing the operation in progress.
CONSTANTS
  Blocks <- MCBlocks
  Operations <- MCOperations
  Plans <- MCPlans
  SourceImage <- MCSource
  MaxRestarts = 2
SPECIFICATION Spec
INVARIANT
  FinishedCorrect
