SPECIFICATION ProcessSpec
CONSTANTS
  ProviderIds = {"p"}
  Requests <- MCRequests
  Tools <- MCTools
  GatedTools <- MCGatedTool
  RegisteredTools <- MCTools
  ApprovalCapacity = 1
  MaxTurns = 1
  MaxCalls = 1
  MaxTextStamp = 1
  MaxOrders = 1
  MaxQueuedInputs = 1
  AgentEventCapacity = 1
  EventCapacity = 1
  CommandCapacity = 1
  ReuseIds = FALSE
PROPERTIES
  SessionEnds
  WriterFailureEndsSession
  ApprovalReachesPeer
