----------------------------- MODULE WorkerPool ------------------------------
(***************************************************************************)
(* ThreadPool: add queues a task under the mutex and wakes one worker      *)
(* after it; a worker sleeps in cv.wait while there is nothing to do.      *)
(***************************************************************************)
EXTENDS Naturals, Sequences, FiniteSets

CONSTANTS PoolWorkers, PoolTasks

VARIABLES
  poolQueue,   (* tasks                                                     *)
  poolStop,    (* stop                                                      *)
  poolAdding,  (* tasks queued whose add has not called notify_one yet      *)
  poolWorker,  (* a worker: at the "lock", in "wait", "gone", at an "empty" *)
               (* front(), or the task it runs                              *)
  poolDone     (* the tasks that ran: their futures are ready               *)

poolVars == <<poolQueue, poolStop, poolAdding, poolWorker, poolDone>>

PoolInit ==
  /\ poolQueue = <<>> /\ poolStop = FALSE /\ poolAdding = {}
  /\ poolWorker = [w \in PoolWorkers |-> "lock"] /\ poolDone = {}

PoolAdded == poolDone \cup {poolQueue[i] : i \in DOMAIN poolQueue}
               \cup {poolWorker[w] : w \in PoolWorkers}

(* add: after the stop it throws instead. *)
PoolAdd(t) ==
  /\ ~poolStop /\ t \notin PoolAdded
  /\ poolQueue' = Append(poolQueue, t)
  /\ poolAdding' = poolAdding \cup {t}
  /\ UNCHANGED <<poolStop, poolWorker, poolDone>>

(* notify_one wakes a worker that waits; if none does it is lost. *)
PoolNotify(t) ==
  LET waiting == {w \in PoolWorkers : poolWorker[w] = "wait"} IN
  /\ t \in poolAdding
  /\ poolAdding' = poolAdding \ {t}
  /\ \/ waiting = {} /\ UNCHANGED poolWorker
     \/ \E w \in waiting : poolWorker' = [poolWorker EXCEPT ![w] = "lock"]
  /\ UNCHANGED <<poolQueue, poolStop, poolDone>>

(* A worker with the mutex: the predicate of cv.wait, then the stop, whose   *)
(* test lets a worker go while tasks are left and reads the front of the     *)
(* queue when none is.                                                       *)
PoolTake(w) ==
  /\ poolWorker[w] = "lock"
  /\ \/ /\ ~poolStop /\ poolQueue = <<>>
        /\ poolWorker' = [poolWorker EXCEPT ![w] = "wait"]
        /\ UNCHANGED poolQueue
     \/ /\ ~poolStop /\ poolQueue # <<>>
        /\ poolWorker' = [poolWorker EXCEPT ![w] = Head(poolQueue)]
        /\ poolQueue' = Tail(poolQueue)
     \/ /\ poolStop
        /\ poolWorker' = [poolWorker EXCEPT ![w] = IF poolQueue # <<>> THEN "gone" ELSE "empty"]
        /\ UNCHANGED poolQueue
  /\ UNCHANGED <<poolStop, poolAdding, poolDone>>

(* Mutant: a worker waits before it looks at the queue again. *)
MutantPoolRunThenWaits(w) ==
  /\ poolWorker[w] \in PoolTasks
  /\ poolDone' = poolDone \cup {poolWorker[w]}
  /\ poolWorker' = [poolWorker EXCEPT ![w] = "wait"]
  /\ UNCHANGED <<poolQueue, poolStop, poolAdding>>

(* The task returns and the worker goes for the mutex again. *)
PoolRun(w) ==
  /\ poolWorker[w] \in PoolTasks
  /\ poolDone' = poolDone \cup {poolWorker[w]}
  /\ poolWorker' = [poolWorker EXCEPT ![w] = "lock"]
  /\ UNCHANGED <<poolQueue, poolStop, poolAdding>>

(* cv.wait may return on its own. *)
PoolSpurious(w) ==
  /\ poolWorker[w] = "wait"
  /\ poolWorker' = [poolWorker EXCEPT ![w] = "lock"]
  /\ UNCHANGED <<poolQueue, poolStop, poolAdding, poolDone>>

(* The destructor, which no add may run beside: stop and notify_all. *)
PoolDestroy ==
  /\ ~poolStop /\ poolAdding = {}
  /\ poolStop' = TRUE
  /\ poolWorker' = [w \in PoolWorkers |-> IF poolWorker[w] = "wait" THEN "lock" ELSE poolWorker[w]]
  /\ UNCHANGED <<poolQueue, poolAdding, poolDone>>

PoolStep == (\E w \in PoolWorkers : PoolTake(w) \/ PoolRun(w)) \/ (\E t \in PoolTasks : PoolNotify(t))
PoolUse == PoolDestroy \/ (\E t \in PoolTasks : PoolAdd(t)) \/ (\E w \in PoolWorkers : PoolSpurious(w))

-----------------------------------------------------------------------------
(* A task that add queued runs, without help from a spurious wake-up, unless *)
(* the pool is destroyed first: the notification after the unlock            *)
(* (ThreadPool.h:48) can be lost only when a worker will look at the queue   *)
(* anyway.                                                                   *)
PoolServes ==
  \A t \in PoolTasks : (\E i \in DOMAIN poolQueue : poolQueue[i] = t) ~> (t \in poolDone \/ poolStop)
=============================================================================
