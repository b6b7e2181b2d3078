SPECIFICATION FairSpec
CONSTANTS
  Messages <- MCMessages
  MaxOption = 1034
  PastEnd <- MCPastEnd
INVARIANTS TypeOK DecodedIsSent
PROPERTY HandledEventually
