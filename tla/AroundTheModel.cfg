SPECIFICATION Spec
CONSTANTS
  Prompts <- MCPrompts
  Contents <- MCContents
  MaxRetries <- MCRetries
  MaxCalls = 2
  Calls <- MCCalls
  MaxChunk = 2
  Requests <- MCRequests
  Callers <- MCCallers
  Uses <- MCUses
  Chains <- MCChains
  Agents <- MCAgents
  MaxDepth = 4
INVARIANTS
  MeaningSurvives
  AnswersComeWhole
  WrappedCallsDeliver
  ReportsAreTrue
  EndpointsGetTheirPrompts
  WrappersProcessOnce
  ChainsKeepTheirMode
  ToolsAreGoverned
  RunsKeepTheirContext
\* every prompt, answer, request, chain and agent comes to its end
CHECK_DEADLOCK FALSE
