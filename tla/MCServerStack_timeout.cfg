CONSTANTS
  a = a
  b = b
  t1 = t1
  t2 = t2
  Endpoint = {a, b}
  Token = {t1, t2}
  NoToken = NoToken
  NoMsg = NoMsg
  MaxMid = 7
  RandomMid <- ServerIds
  Requests <- ConfirmableRequests
  Datagrams <- NoDatagram
  Lifetime = 2
  AckTimeout = 1
  MaxRetransmit = 4
  BeatPeriod = 2
  SlowDelay = 1
  Punctual = TRUE
  MaxExchange = 2
SPECIFICATION FairSpec
PROPERTIES ExchangesRemoved
CHECK_DEADLOCK FALSE
