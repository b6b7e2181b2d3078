CONSTANTS
  m1 = m1
  m2 = m2
  m3 = m3
  m4 = m4
  w1 = w1
  w2 = w2
  NoMsg = NoMsg
  Msg <- MCMsg
  Worker <- MCWorker
  noOfMsg = 3
  SemMax = 4
  Joined = FALSE
SPECIFICATION TaskSpec
INVARIANTS Conserved

CHECK_DEADLOCK FALSE
