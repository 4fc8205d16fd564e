CONSTANTS
  tokA = tokA
  tokB = tokB
  Token <- MCToken
  Target <- MCTarget
  Cap = 4
  SpecMax = 2
  MaxBatch = 3
  GemmSizes = {2}
  PrefillMax = 3
  HasMtp = TRUE
  Ops = {"prefill", "forward", "step", "save", "speculate", "checkpoint"}
  Prompts <- MCOnePrompt
  Proposals <- MCProposals
  Drafting = {2}
  MaxBacks = 1
SPECIFICATION MCSpec
INVARIANT TypeOK
INVARIANT Coherent
PROPERTY OneTokenAtATime
CHECK_DEADLOCK FALSE
