CONSTANTS
  tokTurn = tokTurn
  tokOpen = tokOpen
  tokWord = tokWord
  tokStop = tokStop
  tokNote = tokNote
  Token <- MCToken
  Target <- MCTarget
  Cap = 21
  SpecMax = 4
  MaxBatch = 4
  GemmSizes = {}
  PrefillMax = 4
  HasMtp = TRUE
  Turn = tokTurn
  Stop <- MCStop
  Keep = 3
  MaxSeq = 21
  Depths = {1}
  LookupMax = 3
  LookupMin = 2
  Prompts <- MCPrompts
  Ceilings = {1, 3}
  ImStart = tokTurn
  ImEnd = tokStop
  Think = tokOpen
  Instructions <- MCInstructions
  Note <- MCNote
  ElideOver = 3
  Budget = 16
  Conversations <- MCConversations
  MaxRequests = 3
SPECIFICATION MCSpec
INVARIANT HeadOneShort
CHECK_DEADLOCK FALSE
