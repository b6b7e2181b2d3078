CONSTANTS
  a = a
  b = b
  t1 = t1
  t2 = t2
  Endpoint = {a, b}
  Token = {t1, t2}
  NoToken = NoToken
  NoMsg = NoMsg
  MaxMid = 5
  RandomMid <- ServerIds
  Requests <- MixedRequests
  Datagrams <- NoDatagram
  Lifetime = 2
  AckTimeout = 1
  MaxRetransmit = 1
  BeatPeriod = 2
  SlowDelay = 1
  Punctual = FALSE
  MaxExchange = 5
SPECIFICATION Spec
INVARIANTS TypeOK StoreConsistent ReplyAnswersRequest
CHECK_DEADLOCK FALSE
