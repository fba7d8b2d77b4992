----------------------------- MODULE LoopTasks -----------------------------
(***************************************************************************)
(* The task list of one EventLoop and its eventfd, step by step: threads   *)
(* that call runOneFunc push under the lock and then write the eventfd;    *)
(* the loop polls, handles events, and swaps and runs its list.            *)
(* ConnectionLifecycle takes a call of queueOneFunc as one step; this      *)
(* module shows that the split is harmless for callers on other threads.   *)
(***************************************************************************)
EXTENDS Naturals, Sequences

CONSTANTS
  Producers,      (* threads other than the loop's that hand it functors   *)
  Tasks,          (* functors, each handed over at most once               *)
  LoopThread,     (* the thread that runs EventLoop::loop                  *)
  Garbage,        (* what EventLoop::tid, not initialised by the           *)
                  (* constructor, may hold until loop() sets it: anything  *)
  Nested          (* functors that another may queue on its own loop       *)

ASSUME LoopTasksAssumption ==
  /\ LoopThread \notin Producers
  /\ Nested \subseteq Tasks

VARIABLES
  tid,        (* EventLoop::tid                                            *)
  loopPc,     (* where the loop's thread is                                *)
  calling,    (* EventLoop::callingfunctor                                 *)
  loopTasks,  (* EventLoop::tasks                                          *)
  funcs,      (* doToDoList's local list, without what has run             *)
  eventfd,    (* the eventfd counter is not zero                           *)
  woken,      (* the wakeup channel is among the events being handled      *)
  owes,       (* producers between the push and the write of the eventfd   *)
  done,       (* history: functors in the order they ran                   *)
  astray      (* history: functors that ran on another thread              *)

taskVars == <<tid, loopPc, calling, loopTasks, funcs, eventfd, woken, owes, done, astray>>

Known(t) == \E q \in {loopTasks, funcs, done} : \E i \in DOMAIN q : q[i] = t

LoopInit ==
  /\ tid \in Garbage
  /\ loopPc = "created"
  /\ calling = FALSE
  /\ loopTasks = <<>> /\ funcs = <<>>
  /\ eventfd = FALSE /\ woken = FALSE
  /\ owes = {}
  /\ done = <<>>
  /\ astray = {}

RunsOn(t, p) ==
  /\ done' = Append(done, t)
  /\ astray' = IF p = LoopThread THEN astray ELSE astray \cup {t}

-----------------------------------------------------------------------------
(* Producers.                                                                *)

(* runOneFunc: run directly if tid says this is the loop's thread, else push *)
(* under tasks_mtx.                                                          *)
Hand(p, t) ==
  /\ p \notin owes /\ ~Known(t)
  /\ IF tid = p
     THEN RunsOn(t, p) /\ UNCHANGED <<loopTasks, owes>>
     ELSE /\ loopTasks' = Append(loopTasks, t)
          /\ owes' = owes \cup {p}
          /\ UNCHANGED <<done, astray>>
  /\ UNCHANGED <<tid, loopPc, calling, funcs, eventfd, woken>>

(* queueOneFunc after the push: wake unless the caller is the loop's thread  *)
(* and the loop is running functors.                                         *)
MutantWritesWhenIdle(p) == ~calling
WritesEventfd(p) == ~calling \/ tid # p

WriteEventfd(p) ==
  /\ p \in owes
  /\ owes' = owes \ {p}
  /\ eventfd' = (eventfd \/ WritesEventfd(p))
  /\ UNCHANGED <<tid, loopPc, calling, loopTasks, funcs, woken, done, astray>>

-----------------------------------------------------------------------------
(* The loop.                                                                 *)

(* Mutant: loop() does not set tid. *)
MutantStartLoopLeavesTid ==
  /\ loopPc = "created"
  /\ loopPc' = "poll"
  /\ UNCHANGED <<tid, calling, loopTasks, funcs, eventfd, woken, owes, done, astray>>
StartLoop ==
  /\ loopPc = "created"
  /\ tid' = LoopThread
  /\ loopPc' = "poll"
  /\ UNCHANGED <<calling, loopTasks, funcs, eventfd, woken, owes, done, astray>>

(* epoll_wait returns: the eventfd is readable, or some other channel is.    *)
MutantPollBlamesEventfd(other) ==
  /\ loopPc = "poll"
  /\ eventfd \/ other
  /\ loopPc' = "events"
  /\ woken' = TRUE
  /\ UNCHANGED <<tid, calling, loopTasks, funcs, eventfd, owes, done, astray>>
PollEvents(other) ==
  /\ loopPc = "poll"
  /\ eventfd \/ other
  /\ loopPc' = "events"
  /\ woken' = eventfd
  /\ UNCHANGED <<tid, calling, loopTasks, funcs, eventfd, owes, done, astray>>

ReadWakeup ==
  /\ loopPc = "events" /\ woken
  /\ eventfd' = FALSE
  /\ woken' = FALSE
  /\ UNCHANGED <<tid, loopPc, calling, loopTasks, funcs, owes, done, astray>>

(* Another channel's handler calls queueOneFunc or runOneFunc on this loop. *)
QueueInHandler(t) ==
  /\ loopPc = "events" /\ ~Known(t)
  /\ loopTasks' = Append(loopTasks, t)
  /\ eventfd' = (eventfd \/ WritesEventfd(LoopThread))
  /\ UNCHANGED <<tid, loopPc, calling, funcs, woken, owes, done, astray>>

RunInHandler(t) ==
  /\ loopPc = "events" /\ ~Known(t)
  /\ RunsOn(t, LoopThread)
  /\ UNCHANGED <<tid, loopPc, calling, loopTasks, funcs, eventfd, woken, owes>>

(* doToDoList, before it takes the lock. *)
BeginFuncs ==
  /\ loopPc = "events" /\ ~woken
  /\ calling' = TRUE
  /\ loopPc' = "swap"
  /\ UNCHANGED <<tid, loopTasks, funcs, eventfd, woken, owes, done, astray>>

(* Under the lock; an empty list clears the flag and returns. *)
MutantSwapKeepsFlag ==
  /\ loopPc = "swap"
  /\ funcs' = loopTasks
  /\ loopTasks' = <<>>
  /\ loopPc' = IF loopTasks = <<>> THEN "poll" ELSE "run"
  /\ UNCHANGED <<tid, calling, eventfd, woken, owes, done, astray>>
Swap ==
  /\ loopPc = "swap"
  /\ funcs' = loopTasks
  /\ loopTasks' = <<>>
  /\ calling' = (loopTasks # <<>>)
  /\ loopPc' = IF loopTasks = <<>> THEN "poll" ELSE "run"
  /\ UNCHANGED <<tid, eventfd, woken, owes, done, astray>>

MutantRunFuncNewestFirst(nested) ==
  /\ loopPc = "run" /\ funcs # <<>>
  /\ RunsOn(funcs[Len(funcs)], LoopThread)
  /\ funcs' = SubSeq(funcs, 1, Len(funcs) - 1)
  /\ nested = {}
  /\ UNCHANGED <<tid, loopPc, calling, loopTasks, eventfd, woken, owes>>
RunFunc(nested) ==
  /\ loopPc = "run" /\ funcs # <<>>
  /\ RunsOn(Head(funcs), LoopThread)
  /\ funcs' = Tail(funcs)
  /\ IF nested = {}
     THEN UNCHANGED <<loopTasks, eventfd>>
     ELSE \E t \in nested : /\ loopTasks' = Append(loopTasks, t)
                            /\ eventfd' = (eventfd \/ WritesEventfd(LoopThread))
  /\ UNCHANGED <<tid, loopPc, calling, woken, owes>>

EndFuncs ==
  /\ loopPc = "run" /\ funcs = <<>>
  /\ calling' = FALSE
  /\ loopPc' = "poll"
  /\ UNCHANGED <<tid, loopTasks, funcs, eventfd, woken, owes, done, astray>>

LoopRuns ==
  \/ StartLoop \/ PollEvents(FALSE) \/ ReadWakeup \/ BeginFuncs \/ Swap \/ EndFuncs
  \/ RunFunc({})

(* What the clients of the loop may do, or not. *)
Clients ==
  \/ \E p \in Producers, t \in Tasks : Hand(p, t)
  \/ PollEvents(TRUE)
  \/ \E t \in Tasks : QueueInHandler(t) \/ RunInHandler(t)
  \/ \E t \in Nested : ~Known(t) /\ RunFunc({t})

LoopNext == LoopRuns \/ Clients \/ \E p \in Producers : WriteEventfd(p)

LoopSpec == LoopInit /\ [][LoopNext]_taskVars

(* The loop's thread runs, and a thread inside queueOneFunc leaves it. *)
LoopFairSpec == LoopSpec /\ WF_taskVars(LoopRuns) /\ \A p \in Producers : WF_taskVars(WriteEventfd(p))

-----------------------------------------------------------------------------

(* Types; callingfunctor is set exactly while the loop is in doToDoList, and *)
(* the swapped-out list is empty outside it, so no functor is forgotten.     *)
LoopTypeOK ==
  /\ tid \in Garbage \cup {LoopThread}
  /\ loopPc \in {"created", "poll", "events", "swap", "run"}
  /\ calling \in BOOLEAN
  /\ loopTasks \in Seq(Tasks) /\ funcs \in Seq(Tasks) /\ done \in Seq(Tasks)
  /\ eventfd \in BOOLEAN /\ woken \in BOOLEAN
  /\ owes \subseteq Producers
  /\ astray \subseteq Tasks
  /\ calling = IF loopPc \in {"swap", "run"} THEN TRUE ELSE FALSE
  /\ loopPc # "run" => funcs = <<>>

(* No lost wakeup: a loop that is about to block in epoll_wait with functors *)
(* in its list finds its eventfd readable, or some thread is about to write  *)
(* it; only functors queued by a functor of the same loop wait unannounced   *)
(* (EventLoop.cpp:77).                                                       *)
Announced == \E i \in DOMAIN loopTasks : loopTasks[i] \notin Nested
NoLostWakeup == loopPc = "poll" /\ Announced => eventfd \/ owes # {}

(* handleWakeup's assertion: when the wakeup channel was reported, the read  *)
(* returns the counter, because nothing but handleWakeup resets it.          *)
WakeupReadable == woken => eventfd

(* One loop per thread: once loop() runs, no other thread runs a functor of  *)
(* its loop, so the two never run at once, whatever tid held before loop()   *)
(* set it (EventLoop.cpp:58, 88).  The pool publishes the loop before that   *)
(* (EventLoopThread.cpp:33), and a caller whose id is there by chance runs   *)
(* its functor itself.                                                       *)
OneThread == [][astray' # astray => loopPc = "created"]_taskVars

Queued(t) == \E i \in DOMAIN loopTasks : loopTasks[i] = t
Ran(t)    == \E i \in DOMAIN done : done[i] = t

(* A functor that was queued runs.  One that a functor queued while the loop *)
(* was calling functors is announced by nobody (EventLoop.cpp:77): it runs   *)
(* too, unless nothing else ever ends the loop's epoll_wait.                 *)
QueuedRuns == \A t \in Tasks : Queued(t) ~> (Ran(t) \/ (t \in Nested /\ [](loopPc = "poll")))

(* The loop is an executor: functors run once, in the order they were        *)
(* pushed, across swaps of the list and pushes that race them.               *)
Executor == INSTANCE TaskExecutor WITH queue <- funcs \o loopTasks
ImplementsExecutorSafety == Executor!ExecutorSafety

=============================================================================
