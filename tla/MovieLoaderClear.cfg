SPECIFICATION FairSpec
CONSTANTS
  MaxRequests = 1
  MaxThrows = 0
PROPERTY ClearReturns
