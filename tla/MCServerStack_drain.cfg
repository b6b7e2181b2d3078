CONSTANTS
  a = a
  b = b
  t1 = t1
  t2 = t2
  Endpoint = {a, b}
  Token = {t1, t2}
  NoToken = NoToken
  NoMsg = NoMsg
  MaxMid = 7
  RandomMid <- ServerIds
  Requests <- ExpiringRequests
  Datagrams <- NoDatagram
  Lifetime = 2
  AckTimeout = 1
  MaxRetransmit = 2
  BeatPeriod = 2
  SlowDelay = 1
  Punctual = TRUE
  MaxExchange = 4
SPECIFICATION FairSpec
PROPERTIES ExchangesRemoved InteractionsRemoved
CHECK_DEADLOCK FALSE
