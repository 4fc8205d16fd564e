CONSTANTS
  tokA = tokA
  tokB = tokB
  Token <- MCToken
  Target <- MCTarget
  Cap = 5
  SpecMax = 3
  MaxBatch = 4
  GemmSizes = {2}
  PrefillMax = 4
  HasMtp = FALSE
  Ops = {"prefill", "step", "speculate", "propose", "reset"}
  Prompts <- MCPrompts
  Proposals <- MCProposals
  Drafting = {1, 2}
  MaxBacks = 1
SPECIFICATION MCSpec
INVARIANT NothingUnsaid
CHECK_DEADLOCK FALSE
