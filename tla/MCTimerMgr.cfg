CONSTANTS
  u1 = u1
  beat = beat
  shot = shot
  User <- MCUser
  Timer <- MCTimer
  OneShot <- MCOneShot
  Duration <- MCDuration
  TimerTask = TimerTask
  Nobody = Nobody
  NoTimer = NoTimer
  ClockRange = 5
  StartTime = 4
  WaitSome = 1
  WaitNone = 2
  SemMax = 1
  MaxTime = 7
SPECIFICATION Spec
INVARIANTS TypeOK ListInOrder StopIsFinal NotLate
PROPERTIES NotEarly
CHECK_DEADLOCK FALSE
