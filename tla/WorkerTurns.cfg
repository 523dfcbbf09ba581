SPECIFICATION ProcessSpec
CONSTANTS
  ProviderIds = {"p"}
  Requests <- MCRequests
  Tools <- MCTools
  GatedTools <- MCGatedTool
  RegisteredTools <- MCTools
  ApprovalCapacity = 1
  MaxTurns = 3
  MaxCalls = 0
  MaxTextStamp = 1
  MaxOrders = 2
  MaxQueuedInputs = 1
  AgentEventCapacity = 2
  EventCapacity = 1
  CommandCapacity = 1
  ReuseIds = FALSE
INVARIANTS
  OutwardInOrder
  OneTurnAtATime
  HistoryOfFinishedTurns
  InputsKept
  TerminalIsLast
  ExitAgreesWithWire
  FailureIsAnnounced
PROPERTIES
  HeldEventIsSent
  ImplementsSession
