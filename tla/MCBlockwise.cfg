CONSTANTS
  Requests <- MCRequests
  ClientBlock = 4
  ServerBlock = 2
  MaxMessage = 3
  MaxBody = 5
  Width = 10
  MaxVersion = 2
  MaxRepeat = 2
  MaxLoss = 1
  MaxExpiry = 1
SPECIFICATION FairSpec
INVARIANTS TypeOK BodyIntact ResponseIntact NoOverrun
PROPERTIES TransferEnds
CHECK_DEADLOCK FALSE
