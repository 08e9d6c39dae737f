\* The condition variable with three consumers (one with a :TIMEOUT, one under
\* a deadline) and two producers; the semaphore with three waiters; two
\* enqueuers and two dequeuers; two timers.
SPECIFICATION MonitorsSpec
CONSTANTS
  Consumers = {c1, c2, c3}
  Producers = {p1, p2}
  Timed = {c1}
  Deadlined = {c3}
  MaxPushes = 3
  c1 = c1
  c2 = c2
  c3 = c3
  p1 = p1
  p2 = p2
  w1 = w1
  w2 = w2
  w3 = w3
  s1 = s1
  s2 = s2
  e1 = e1
  e2 = e2
  d1 = d1
  d2 = d2
  u = u
  v = v
  NIL = NIL
  DEADEND = DEADEND
  DUMMY = DUMMY
  Empty = Empty
  NoThread = NoThread
INVARIANTS WaitIsSound UnitsAreKept ListIsWhole TakenIsPrivate TimersAreSound
PROPERTIES SleepersAreServed ImplementsFIFO EnqueueReturns TimersKeepTime
CHECK_DEADLOCK FALSE
