CONSTANTS
  a = a
  b = b
  t1 = t1
  t2 = t2
  Endpoint = {a, b}
  Token = {t1, t2}
  NoToken = NoToken
  NoMsg = NoMsg
  MaxMid = 7
  RandomMid <- ServerIds
  Requests <- FreshRequests
  Datagrams <- RejectedDatagrams
  Lifetime = 2
  AckTimeout = 1
  MaxRetransmit = 2
  BeatPeriod = 2
  SlowDelay = 1
  Punctual = TRUE
  MaxExchange = 5
SPECIFICATION Spec
INVARIANTS EveryRequestHandled SlowRequestKept AtMostTwoExchanges
PROPERTIES HandledOnce
CHECK_DEADLOCK FALSE
