SPECIFICATION FairSpec
CONSTANTS
  r1 = r1
  r2 = r2
  p1 = p1
  p2 = p2
  Requests <- MCRequests
  ProviderIds <- MCProviderIds
  Tools <- MCTools
  RegisteredTools <- MCRegisteredTools
  ApprovalCapacity = 1
INVARIANTS
  TypeOK
  WaitersMatchEntries
  OwnRulingOnly
PROPERTIES
  EntryLeavesForItsOwnCall
  ImplementsContract
  AnsweredReturns
CHECK_DEADLOCK FALSE
