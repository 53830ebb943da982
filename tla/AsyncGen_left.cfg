SPECIFICATION FairSpec
CONSTANTS
  MaxRequests = 3
  ThenGetter = FALSE
PROPERTIES AllAnswered
