-------------------------- MODULE LoopTasks_proofs --------------------------
(***************************************************************************)
(* Proofs about LoopTasks, for any number of producer threads and functors *)
(* and any initial value of EventLoop::tid.                                *)
(***************************************************************************)
EXTENDS LoopTasks, SequenceTheorems, TLAPS

(* The constructor and the loop keep the flag and the two lists together.    *)
THEOREM Typing == LoopSpec => []LoopTypeOK
<1>1. LoopInit => LoopTypeOK
  <2> SUFFICES ASSUME LoopInit PROVE LoopTypeOK
    OBVIOUS
  <2>1. /\ loopTasks \in Seq(Tasks) /\ funcs \in Seq(Tasks) /\ done \in Seq(Tasks)
        /\ loopPc # "run" => funcs = <<>>
    BY DEF LoopInit
  <2>2. /\ tid \in Garbage \cup {LoopThread}
        /\ loopPc \in {"created", "poll", "events", "swap", "run"}
        /\ owes \subseteq Producers /\ astray \subseteq Tasks
        BY DEF LoopInit
  <2>3. /\ calling \in BOOLEAN /\ eventfd \in BOOLEAN /\ woken \in BOOLEAN
        BY DEF LoopInit
  <2>4. calling = IF loopPc \in {"swap", "run"} THEN TRUE ELSE FALSE
    BY DEF LoopInit
  <2> QED
    BY <2>1, <2>2, <2>3, <2>4 DEF LoopTypeOK
<1>2. LoopTypeOK /\ [LoopNext]_taskVars => LoopTypeOK'
  <2> SUFFICES ASSUME LoopTypeOK, [LoopNext]_taskVars PROVE LoopTypeOK'
    OBVIOUS
  <2> USE DEF LoopTypeOK
  <2>1. ASSUME NEW p \in Producers, NEW t \in Tasks, Hand(p, t) PROVE LoopTypeOK'
    <3>1. CASE tid = p
      <4>1. /\ done' = Append(done, t)
            /\ astray' \in {astray, astray \cup {t}}
        BY <2>1, <3>1 DEF Hand, RunsOn
      <4> QED
        BY <2>1, <3>1, <4>1 DEF Hand
    <3>2. CASE tid # p
      <4>1. loopTasks' = Append(loopTasks, t) /\ owes' = owes \cup {p} /\ done' = done /\ astray' = astray
        BY <2>1, <3>2 DEF Hand
      <4> QED
        BY <2>1, <4>1 DEF Hand
    <3> QED
      BY <3>1, <3>2
  <2>2. ASSUME NEW p \in Producers, WriteEventfd(p) PROVE LoopTypeOK'
    BY <2>2 DEF WriteEventfd, WritesEventfd
  <2>3. CASE StartLoop
    BY <2>3 DEF StartLoop
  <2>4. ASSUME NEW b \in BOOLEAN, PollEvents(b) PROVE LoopTypeOK'
    BY <2>4 DEF PollEvents
  <2>5. CASE ReadWakeup
    BY <2>5 DEF ReadWakeup
  <2>6. ASSUME NEW t \in Tasks, QueueInHandler(t) PROVE LoopTypeOK'
    BY <2>6 DEF QueueInHandler, WritesEventfd
  <2>7. ASSUME NEW t \in Tasks, RunInHandler(t) PROVE LoopTypeOK'
    BY <2>7 DEF RunInHandler, RunsOn
  <2>8. CASE BeginFuncs
    BY <2>8 DEF BeginFuncs
  <2>9. CASE Swap
    BY <2>9 DEF Swap
  <2>10. ASSUME NEW S \in SUBSET Tasks, RunFunc(S) PROVE LoopTypeOK'
    <3>1. /\ loopPc = "run" /\ funcs # <<>>
          /\ Head(funcs) \in Tasks /\ Tail(funcs) \in Seq(Tasks)
          /\ funcs' = Tail(funcs)
          /\ done' = Append(done, Head(funcs)) /\ astray' = astray
          /\ UNCHANGED <<tid, loopPc, calling, woken, owes>>
      BY <2>10 DEF RunFunc, RunsOn
    <3>2. loopTasks' \in Seq(Tasks) /\ eventfd' \in BOOLEAN
      <4>1. CASE S = {}
        BY <2>10, <4>1 DEF RunFunc
      <4>2. CASE S # {}
        <5>1. PICK t \in S : /\ loopTasks' = Append(loopTasks, t)
                            /\ eventfd' = (eventfd \/ WritesEventfd(LoopThread))
          BY <2>10, <4>2 DEF RunFunc
        <5> QED
          BY <5>1 DEF WritesEventfd
      <4> QED
        BY <4>1, <4>2
    <3> QED
      BY <3>1, <3>2
  <2>11. CASE EndFuncs
    BY <2>11 DEF EndFuncs
  <2>12. CASE UNCHANGED taskVars
    BY <2>12 DEF taskVars
  <2>13. QED
    BY <2>1, <2>2, <2>3, <2>4, <2>5, <2>6, <2>7, <2>8, <2>9, <2>10, <2>11, <2>12,
       LoopTasksAssumption
       DEF LoopNext, LoopRuns, Clients
<1>3. QED
  BY <1>1, <1>2, PTL DEF LoopSpec

-----------------------------------------------------------------------------
(* The wakeup protocol.                                                      *)

(* tid names another thread only before loop() has set it, when no functor   *)
(* is running; so a producer that owes a write of the eventfd always makes   *)
(* it.  While the loop runs a batch it relies on that just as when it polls: *)
(* the pushes that race the batch are not in it.                             *)
WakeInv ==
  /\ tid # LoopThread => loopPc = "created"
  /\ woken => eventfd /\ loopPc = "events"
  /\ loopPc \in {"created", "poll", "run"} /\ Announced => eventfd \/ owes # {}

(* A functor queued by a functor of the loop announces nothing by itself.    *)
LEMMA NestedIsSilent ==
  ASSUME LoopTypeOK, NEW t \in Nested, loopTasks' = Append(loopTasks, t), Announced'
  PROVE  Announced
<1>1. loopTasks \in Seq(Tasks)
  BY DEF LoopTypeOK
<1>2. PICK i \in DOMAIN loopTasks' : loopTasks'[i] \notin Nested
  BY DEF Announced
<1>3. i \in 1 .. Len(loopTasks) + 1 /\ i # Len(loopTasks) + 1 /\ Len(loopTasks) \in Nat
  BY <1>1, <1>2, AppendProperties
<1>4. i \in DOMAIN loopTasks /\ loopTasks'[i] = loopTasks[i]
  BY <1>1, <1>3
<1> QED
  BY <1>2, <1>4 DEF Announced

(* The wakeup protocol, whatever is queued by functors of the loop itself.   *)
THEOREM WakeupProtocol == LoopSpec => []WakeInv
<1> USE LoopTasksAssumption
<1>1. LoopInit => WakeInv
  BY DEF LoopInit, WakeInv, Announced
<1>2. LoopTypeOK /\ WakeInv /\ [LoopNext]_taskVars => WakeInv'
  <2> SUFFICES ASSUME LoopTypeOK, WakeInv, [LoopNext]_taskVars PROVE WakeInv'
    OBVIOUS
  <2> USE DEF WakeInv
  <2>0. loopTasks' = loopTasks => (Announced' <=> Announced)
    BY DEF Announced
  <2>1. ASSUME NEW p \in Producers, NEW t \in Tasks, Hand(p, t) PROVE WakeInv'
    BY <2>0, <2>1 DEF Hand, RunsOn
  <2>2. ASSUME NEW p \in Producers, WriteEventfd(p) PROVE WakeInv'
    <3>1. WritesEventfd(p)
      BY DEF WritesEventfd, LoopTypeOK
    <3> QED
      BY <2>0, <2>2, <3>1 DEF WriteEventfd
  <2>3. CASE StartLoop
    BY <2>0, <2>3 DEF StartLoop
  <2>4. ASSUME NEW b \in BOOLEAN, PollEvents(b) PROVE WakeInv'
    BY <2>0, <2>4 DEF PollEvents
  <2>5. CASE ReadWakeup
    BY <2>0, <2>5 DEF ReadWakeup
  <2>6. ASSUME NEW t \in Tasks, QueueInHandler(t) PROVE WakeInv'
    BY <2>6 DEF QueueInHandler
  <2>7. ASSUME NEW t \in Tasks, RunInHandler(t) PROVE WakeInv'
    BY <2>0, <2>7 DEF RunInHandler
  <2>8. CASE BeginFuncs
    BY <2>0, <2>8 DEF BeginFuncs
  <2>9. CASE Swap
    BY <2>9 DEF Swap, Announced
  <2>10. ASSUME NEW S \in SUBSET Nested, RunFunc(S) PROVE WakeInv'
    <3>1. Announced' => Announced
      <4>1. CASE S = {}
        BY <2>0, <2>10, <4>1 DEF RunFunc
      <4>2. CASE S # {}
        <5>1. PICK t \in S : loopTasks' = Append(loopTasks, t)
          BY <2>10, <4>2 DEF RunFunc
        <5> QED
          BY <5>1, NestedIsSilent
      <4> QED
        BY <4>1, <4>2
    <3>2. eventfd => eventfd'
      BY <2>10 DEF RunFunc
    <3> QED
      BY <2>10, <3>1, <3>2 DEF RunFunc
  <2>11. CASE EndFuncs
    BY <2>0, <2>11 DEF EndFuncs
  <2>12. CASE UNCHANGED taskVars
    BY <2>0, <2>12 DEF taskVars
  <2>13. QED
    BY <2>1, <2>2, <2>3, <2>4, <2>5, <2>6, <2>7, <2>8, <2>9, <2>10, <2>11, <2>12
       DEF LoopNext, LoopRuns, Clients
<1>3. QED
  BY <1>1, <1>2, Typing, PTL DEF LoopSpec

(* No wakeup is lost: a loop that waits in epoll with a functor queued has   *)
(* its eventfd written or about to be (EventLoop.cpp).                       *)
THEOREM NoneLost == LoopSpec => []NoLostWakeup
<1>1. WakeInv => NoLostWakeup
  BY DEF WakeInv, NoLostWakeup
<1>2. QED
  BY <1>1, WakeupProtocol, PTL

(* handleWakeup always finds the eventfd readable, so its assertion on the   *)
(* eight bytes read holds (EventLoop.cpp).                                   *)
THEOREM ReadableWhenHandled == LoopSpec => []WakeupReadable
<1>1. WakeInv => WakeupReadable
  BY DEF WakeInv, WakeupReadable
<1>2. QED
  BY <1>1, WakeupProtocol, PTL

-----------------------------------------------------------------------------
(* One loop per thread.                                                      *)

(* Whatever tid held when the loop was created, a producer's id included,    *)
(* no functor runs on another thread once loop() has set it.                 *)
THEOREM Confinement == LoopSpec => OneThread
<1> USE LoopTasksAssumption
<1>1. LoopTypeOK /\ WakeInv /\ [LoopNext]_taskVars => [astray' # astray => loopPc = "created"]_taskVars
  <2> SUFFICES ASSUME LoopTypeOK, WakeInv, [LoopNext]_taskVars, loopPc # "created"
               PROVE  astray' = astray
    OBVIOUS
  <2>0. tid = LoopThread
    BY DEF WakeInv
  <2>1. ASSUME NEW p \in Producers, NEW t \in Tasks, Hand(p, t) PROVE astray' = astray
    <3>1. tid # p
      BY <2>0
    <3> QED
      BY <2>1, <3>1 DEF Hand
  <2>2. ASSUME NEW S \in SUBSET Tasks, RunFunc(S) PROVE astray' = astray
    BY <2>2 DEF RunFunc, RunsOn
  <2>3. ASSUME NEW t \in Tasks, RunInHandler(t) PROVE astray' = astray
    BY <2>3 DEF RunInHandler, RunsOn
  <2>4. QED
    BY <2>1, <2>2, <2>3
       DEF LoopNext, LoopRuns, Clients, WriteEventfd, StartLoop, PollEvents, ReadWakeup,
           QueueInHandler, BeginFuncs, Swap, EndFuncs, taskVars
<1>2. QED
  BY <1>1, Typing, WakeupProtocol, PTL DEF LoopSpec, OneThread

-----------------------------------------------------------------------------
(* The loop implements the executor.                                         *)

(* A functor not known to the loop is fresh to the executor. *)
LEMMA UnknownIsFresh ==
  ASSUME LoopTypeOK, NEW t, ~Known(t)
  PROVE  Executor!Fresh(t)
<1>1. ASSUME NEW i \in DOMAIN (funcs \o loopTasks) PROVE (funcs \o loopTasks)[i] # t
  <2>1. /\ DOMAIN (funcs \o loopTasks) = 1 .. Len(funcs) + Len(loopTasks)
        /\ (funcs \o loopTasks)[i] = IF i <= Len(funcs) THEN funcs[i] ELSE loopTasks[i - Len(funcs)]
        /\ DOMAIN funcs = 1 .. Len(funcs) /\ DOMAIN loopTasks = 1 .. Len(loopTasks)
        /\ Len(funcs) \in Nat /\ Len(loopTasks) \in Nat
    BY <1>1, ConcatProperties, LenProperties DEF LoopTypeOK
  <2>2. CASE i <= Len(funcs)
    BY <2>1, <2>2 DEF Known
  <2>3. CASE i > Len(funcs)
    <3>1. i - Len(funcs) \in DOMAIN loopTasks
      BY <2>1, <2>3
    <3> QED
      BY <2>1, <2>3, <3>1 DEF Known
  <2> QED
    BY <2>1, <2>2, <2>3
<1> QED
  BY <1>1 DEF Executor!Fresh, Executor!InSeq, Known

(* Appending to the list appends to the executor's queue. *)
LEMMA AppendRight ==
  ASSUME NEW a \in Seq(Tasks), NEW b \in Seq(Tasks), NEW t \in Tasks
  PROVE  a \o Append(b, t) = Append(a \o b, t)
BY AppendIsConcat, ConcatAssociative, ConcatProperties

(* Running the head of the batch runs the head of the executor's queue. *)
LEMMA HeadOfConcat ==
  ASSUME NEW a \in Seq(Tasks), NEW b \in Seq(Tasks), a # <<>>
  PROVE  /\ a \o b # <<>>
         /\ Head(a \o b) = Head(a)
         /\ Tail(a \o b) = Tail(a) \o b
<1>1. /\ a \o b \in Seq(Tasks) /\ Len(a) \in Nat \ {0} /\ Len(b) \in Nat
      /\ Len(a \o b) = Len(a) + Len(b)
      /\ Tail(a) \in Seq(Tasks) /\ Len(Tail(a)) = Len(a) - 1
  BY ConcatProperties, EmptySeq, HeadTailProperties, LenProperties
<1>2. a \o b # <<>>
  BY <1>1
<1>3. Head(a \o b) = Head(a)
  BY <1>1, ConcatProperties
<1>4. Tail(a \o b) = Tail(a) \o b
  <2>1. /\ Tail(a \o b) \in Seq(Tasks) /\ Len(Tail(a \o b)) = Len(a) + Len(b) - 1
        /\ Tail(a) \o b \in Seq(Tasks) /\ Len(Tail(a) \o b) = Len(a) + Len(b) - 1
    BY <1>1, <1>2, HeadTailProperties, ConcatProperties
  <2>2. ASSUME NEW i \in 1 .. Len(Tail(a \o b)) PROVE Tail(a \o b)[i] = (Tail(a) \o b)[i]
    <3>1. Tail(a \o b)[i] = (a \o b)[i + 1]
      BY <1>1, <1>2, HeadTailProperties
    <3>2. (a \o b)[i + 1] = IF i + 1 <= Len(a) THEN a[i + 1] ELSE b[i + 1 - Len(a)]
      BY <1>1, <2>1, ConcatProperties
    <3>3. (Tail(a) \o b)[i] = IF i <= Len(a) - 1 THEN Tail(a)[i] ELSE b[i - (Len(a) - 1)]
      BY <1>1, <2>1, ConcatProperties
    <3>4. i <= Len(a) - 1 => Tail(a)[i] = a[i + 1]
      BY <1>1, <2>1, HeadTailProperties
    <3> QED
      BY <1>1, <2>1, <3>1, <3>2, <3>3, <3>4
  <2> QED
    BY <2>1, <2>2, SeqEqual
<1> QED
  BY <1>2, <1>3, <1>4

(* Every step of the loop and its clients is a step of the executor or       *)
(* leaves its state alone, nested queueing included.                         *)
THEOREM ImplementsExecutorTheorem == LoopSpec => ImplementsExecutorSafety
<1> DEFINE queue == funcs \o loopTasks
<1>1. LoopInit => Executor!ExecutorInit
  BY ConcatEmptySeq DEF LoopInit, Executor!ExecutorInit
<1>2. LoopTypeOK /\ [LoopNext]_taskVars => [Executor!ExecutorNext]_(Executor!evars)
  <2> SUFFICES ASSUME LoopTypeOK, [LoopNext]_taskVars
               PROVE  Executor!ExecutorNext \/ UNCHANGED Executor!evars
    OBVIOUS
  <2>0. funcs \in Seq(Tasks) /\ loopTasks \in Seq(Tasks)
    BY DEF LoopTypeOK
  <2>1. ASSUME NEW p \in Producers, NEW t \in Tasks, Hand(p, t)
        PROVE  Executor!ExecutorNext
    <3>1. Executor!Fresh(t)
      BY <2>1, UnknownIsFresh DEF Hand
    <3>2. CASE tid = p
      BY <2>1, <3>1, <3>2 DEF Hand, RunsOn, Executor!ExecutorNext, Executor!RunNow
    <3>3. CASE tid # p
      <4>1. queue' = Append(queue, t) /\ done' = done
        BY <2>0, <2>1, <3>3, AppendRight DEF Hand
      <4> QED
        BY <3>1, <4>1 DEF Executor!ExecutorNext, Executor!Submit
    <3> QED
      BY <3>2, <3>3
  <2>2. ASSUME NEW t \in Tasks, QueueInHandler(t) PROVE Executor!ExecutorNext
    <3>1. Executor!Fresh(t)
      BY <2>2, UnknownIsFresh DEF QueueInHandler
    <3>2. queue' = Append(queue, t) /\ done' = done
      BY <2>0, <2>2, AppendRight DEF QueueInHandler
    <3> QED
      BY <3>1, <3>2 DEF Executor!ExecutorNext, Executor!Submit
  <2>3. ASSUME NEW t \in Tasks, RunInHandler(t) PROVE Executor!ExecutorNext
    <3>1. Executor!Fresh(t)
      BY <2>3, UnknownIsFresh DEF RunInHandler
    <3> QED
      BY <2>3, <3>1 DEF RunInHandler, RunsOn, Executor!ExecutorNext, Executor!RunNow
  <2>4. CASE RunFunc({})
    <3>1. /\ funcs # <<>> /\ funcs' = Tail(funcs) /\ loopTasks' = loopTasks
          /\ done' = Append(done, Head(funcs))
      BY <2>4 DEF RunFunc, RunsOn
    <3>2. queue # <<>> /\ Head(queue) = Head(funcs) /\ queue' = Tail(queue)
      BY <2>0, <3>1, HeadOfConcat
    <3> QED
      BY <3>1, <3>2 DEF Executor!ExecutorNext, Executor!RunNext
  <2>5. ASSUME NEW t \in Tasks, ~Known(t), RunFunc({t}) PROVE Executor!ExecutorNext
    <3>1. /\ funcs # <<>> /\ funcs' = Tail(funcs) /\ loopTasks' = Append(loopTasks, t)
          /\ done' = Append(done, Head(funcs))
      BY <2>5 DEF RunFunc, RunsOn
    <3>2. queue # <<>> /\ Head(queue) = Head(funcs) /\ Tail(funcs) \o loopTasks = Tail(queue)
      BY <2>0, <3>1, HeadOfConcat
    <3>3. queue' = Append(Tail(queue), t)
      <4>1. Tail(funcs) \in Seq(Tasks)
        BY <2>0, <3>1, HeadTailProperties
      <4> QED
        BY <2>0, <3>1, <3>2, <4>1, AppendRight
    <3>4. Executor!Fresh(t)
      BY <2>5, UnknownIsFresh
    <3> QED
      BY <3>1, <3>2, <3>3, <3>4 DEF Executor!ExecutorNext, Executor!RunNext
  <2>6. CASE Swap
    <3>1. funcs = <<>> /\ funcs' = loopTasks /\ loopTasks' = <<>> /\ done' = done
      BY <2>6 DEF Swap, LoopTypeOK
    <3>2. queue' = queue
      BY <2>0, <3>1, ConcatEmptySeq
    <3> QED
      BY <3>1, <3>2 DEF Executor!evars
  <2>7. CASE UNCHANGED <<loopTasks, funcs, done>>
    BY <2>7 DEF Executor!evars
  <2>8. QED
    BY <2>1, <2>2, <2>3, <2>4, <2>5, <2>6, <2>7, LoopTasksAssumption
       DEF LoopNext, LoopRuns, Clients, WriteEventfd, StartLoop, PollEvents, ReadWakeup,
           BeginFuncs, EndFuncs, taskVars
<1>3. QED
  BY <1>1, <1>2, Typing, PTL DEF LoopSpec, ImplementsExecutorSafety, Executor!ExecutorSafety

=============================================================================
