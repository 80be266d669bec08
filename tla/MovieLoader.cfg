SPECIFICATION FairSpec
CONSTANTS
  MaxRequests = 3
  MaxThrows = 1
INVARIANTS
  TypeOK
  ReferencesValid
  NoLostRequest
  HandledOnce
PROPERTIES
  LeavesList
  ImplementsRequests
  EventuallyHandled
