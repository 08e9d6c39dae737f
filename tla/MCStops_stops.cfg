\* Stopping the world with signals and with safepoints, two threads each.
SPECIFICATION StopsSpec
CONSTANTS
  t1 = t1
  t2 = t2
  Threads = {t1, t2}
  Busy = {t1}
  Ops = 2
  NoThread = NoThread
  Idle = Idle
INVARIANTS SafepointsAreSafe
PROPERTIES StopsComeToAnEnd
CHECK_DEADLOCK FALSE
