------------------------------ MODULE MCThreads ------------------------------
(* What threads do beside each other: the loops of the server, the functors  *)
(* of one loop, the log, the timers and the worker pool.  In the code they   *)
(* meet only where ConnectionLifecycle says so; here they share no state and *)
(* are checked in one run: a behaviour is of one part.                       *)
EXTENDS MCConnectionLifecycle, LoopTasks, AsyncLogging, TimerQueue, WorkerPool

MCTimerDelays == {-1, 1, 2}

VARIABLE part
partVars == <<part, vars, taskVars, logVars, timerVars, poolVars>>

Others(name) ==
  /\ UNCHANGED part
  /\ name # "server" => UNCHANGED vars
  /\ name # "loop" => UNCHANGED taskVars
  /\ name # "log" => UNCHANGED logVars
  /\ name # "timer" => UNCHANGED timerVars
  /\ name # "pool" => UNCHANGED poolVars

(* A part that a behaviour is not of has one initial state.                  *)
PartsInit ==
  /\ part \in {"server", "loop", "log", "timer", "pool"}
  /\ Init /\ LogInit /\ TimerInit /\ PoolInit
  /\ LoopInit /\ (part # "loop" => tid = LoopThread)

(* The threads of each part.  A disjunct of an action here is of another     *)
(* part than the rest, so that fairness of the action is fairness of each.   *)
ServerPart(t) == part = "server" /\ LoopStep(t) /\ Others("server")
OwnThread ==
  \/ part = "loop" /\ LoopRuns /\ Others("loop")
  \/ part = "log" /\ LogStep /\ Others("log")
  \/ part = "timer" /\ TimerStep /\ Others("timer")
TimePasses == part = "timer" /\ TimerTick /\ Others("timer")
WritePart(p) == part = "loop" /\ WriteEventfd(p) /\ Others("loop")
WorkerPart(w) == part = "pool" /\ (PoolTake(w) \/ PoolRun(w)) /\ Others("pool")
NotifyPart(t) == part = "pool" /\ PoolNotify(t) /\ Others("pool")

PartsNext ==
  \/ OwnThread \/ TimePasses
  \/ \E t \in Threads : ServerPart(t)
  \/ \E p \in Producers : WritePart(p)
  \/ \E w \in PoolWorkers : WorkerPart(w)
  \/ \E t \in PoolTasks : NotifyPart(t)
  \/ part = "server" /\ Environment /\ Others("server")
  \/ part = "loop" /\ Clients /\ Others("loop")
  \/ part = "log" /\ LogFrontEnd /\ Others("log")
  \/ part = "timer" /\ TimerUse /\ Others("timer")
  \/ part = "pool" /\ PoolUse /\ Others("pool")

(* The threads run on and time passes; clients owe nothing.                  *)
PartsSpec ==
  /\ PartsInit /\ [][PartsNext]_partVars
  /\ WF_partVars(OwnThread) /\ WF_partVars(TimePasses)
  /\ \A t \in Threads : WF_partVars(ServerPart(t))
  /\ \A p \in Producers : WF_partVars(WritePart(p))
  /\ \A w \in PoolWorkers : WF_partVars(WorkerPart(w))
  /\ \A t \in PoolTasks : WF_partVars(NotifyPart(t))
=============================================================================
