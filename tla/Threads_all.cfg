SPECIFICATION PartsSpec
CONSTANTS
  NumLoops = 1
  Conns = {c1, c2}
  Fds = {1, 2}
  NoConn = NoConn
  AutoClose = FALSE
  RacyLookup = FALSE
  Producers = {r1, r2}
  Tasks = {f1, f2, f3}
  LoopThread = loop
  Garbage = {garbage, r1, loop}
  Nested = {f3}
  LogSize = 4
  LogLens = {1, 2, 3}
  LogMax = 5
  TimerIds = {t1, t2, t3}
  TimerDelays <- MCTimerDelays
  TimerEvery = {0, 2}
  TimerLag = 1
  PoolWorkers = {w1, w2}
  PoolTasks = {p1, p2, p3}
INVARIANTS
  LoopTypeOK WakeupReadable NoLostWakeup
  LogExact TimersArmed
PROPERTIES
  EventuallyEstablished ImplementsService
   ImplementsExecutorSafety QueuedRuns
  LogFlushed TimersFire PoolServes
CHECK_DEADLOCK FALSE
