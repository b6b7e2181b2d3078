SPECIFICATION Spec
CONSTANTS
  Messages <- LongMessages
  MaxOption = 1034
  PastEnd <- MCPastEnd
INVARIANT NumberReadWasWritten
