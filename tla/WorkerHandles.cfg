SPECIFICATION Spec
CONSTANTS
  ProviderIds = {"p"}
  Requests <- MCRequests
  Tools <- MCTools
  GatedTools <- MCGatedTool
  RegisteredTools <- MCTools
  ApprovalCapacity = 1
  MaxTurns = 2
  MaxCalls = 2
  MaxTextStamp = 0
  MaxOrders = 2
  MaxQueuedInputs = 1
  AgentEventCapacity = 2
  EventCapacity = 1
  CommandCapacity = 1
  ReuseIds = FALSE
INVARIANTS
  HandlesIdentifyCalls
