SPECIFICATION ScenarioSpec
CONSTANTS
  ProviderIds = {"p", "q", "r"}
  Requests <- MCRequests
  Tools <- MCTestTools
  GatedTools <- MCTestGated
  RegisteredTools <- MCTestTools
  ApprovalCapacity = 1
  MaxTurns = 3
  MaxCalls = 3
  MaxTextStamp = 9
  MaxOrders = 4
  MaxQueuedInputs = 1
  AgentEventCapacity = 2
  EventCapacity = 2
  CommandCapacity = 2
  ReuseIds = FALSE
  SocketRoom = 2
INVARIANTS
  AssertionsHold
PROPERTIES
  TestsComplete
CHECK_DEADLOCK FALSE
