CONSTANTS
  p1 = p1
  p2 = p2
  p3 = p3
  ta = ta
  tb = tb
  tg = tg
  Token <- MCToken
  NoToken = NoToken
  Group = Group
  Peer <- MCPeer
  Members <- MCMembers
  Requests <- MCRequests
  MaxMid = 4
  RandomMid <- MCRandomMid
  PeerMid <- MCPeerMid
  MaxExchange = 5
SPECIFICATION Spec
INVARIANTS TypeOK StoreConsistent RightCallback NotifiedOnce ResponsesNotified
CHECK_DEADLOCK FALSE
SYMMETRY MCSymmetry
