CONSTANTS
  tokA = tokA
  tokB = tokB
  Token <- MCToken
  Target <- MCTarget
  Cap = 5
  SpecMax = 3
  MaxBatch = 4
  GemmSizes = {2}
  PrefillMax = 4
  HasMtp = TRUE
  Ops = {"prefill", "speculate", "propose", "reset"}
  Prompts <- MCPrompts
  Proposals <- MCProposals
  Drafting = {1, 2, 3}
  MaxBacks = 1
SPECIFICATION MCRoundsSpec
INVARIANT DraftsFromHere
INVARIANT HeadBehind
INVARIANT HeadStaysInStep
INVARIANT ChunksDoNotShow
PROPERTY RoundWarmsHead
CHECK_DEADLOCK FALSE
