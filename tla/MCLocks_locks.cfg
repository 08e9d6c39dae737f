\* The mutex and the deadlock detection for three threads, the sleeping
\* reader/writer lock for two readers and two writers, the spinning one for
\* three and two.
SPECIFICATION LocksSpec
CONSTANTS
  t1 = t1
  t2 = t2
  t3 = t3
  t4 = t4
  t5 = t5
  Threads = {t1, t2, t3}
  NoThread = NoThread
  MaxCalls = 2
INVARIANTS MutualExclusion NoLostWakeup Exclusion NoSleeperForgotten SpinExclusion
PROPERTIES ImplementsLock EveryWaiterReturns DeadlocksAreTold WriterPreferred CallsLock
CHECK_DEADLOCK FALSE
