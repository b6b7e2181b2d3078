CONSTANTS
  m1 = m1
  m2 = m2
  m3 = m3
  m4 = m4
  w1 = w1
  w2 = w2
  NoMsg = NoMsg
  Msg <- MCMsg
  Worker <- MCWorker
  noOfMsg = 3
  SemMax = 3
  Joined = TRUE
SPECIFICATION FairTaskSpec
INVARIANTS TaskTypeOK NoLostWakeup InOrder
PROPERTIES IsQueue AcceptedIsHandled StoppedWorkerExits
CHECK_DEADLOCK FALSE
