SPECIFICATION Spec
CONSTANTS
  i1 = i1
  i2 = i2
  Items = {i1, i2}
  Unknowns <- MCUnknowns
  Routes <- MCRoutes
  MemoryLists <- MCMemoryLists
  LastGeneration = 2
  Packs <- MCPacks
  Library <- MCLibrary
  RagAnswers <- MCRagAnswers
  McpCalls <- MCMcpCalls
  WorkerOutputs <- MCWorkerOutputs
INVARIANTS
  SupportedConclusion
  KnowledgeAnswerIsCurrent
  ReplyAgreesWithStatus
  ConflictIsNeverFinal
PROPERTIES
  TurnEnds
CHECK_DEADLOCK FALSE
