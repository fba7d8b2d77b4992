--------------------- MODULE ConnectionLifecycle_proofs ---------------------
(***************************************************************************)
(* Proofs about ConnectionLifecycle, for any number of reactors,           *)
(* connections and descriptors: types always, and if the inactivity timer  *)
(* closes connections only at home, on their own loop (ClosesAtHome), the  *)
(* inductive invariant of ConnectionInvariant and what it implies.         *)
(***************************************************************************)
EXTENDS ConnectionInvariant, TLAPS

USE LifecycleAssumption DEF Main, Threads, Wakeup, Listen, Timer

-----------------------------------------------------------------------------
(* Types.                                                                    *)

LEMMA TaskTypes ==
  /\ \A f \in Fds : Establish(f) \in Task
  /\ \A c \in Conns : Delete(c) \in Task /\ Destroy(c) \in Task
BY DEF Establish, Delete, Destroy, Task

(* queueOneFunc keeps the types of the list and of the eventfd. *)
LEMMA QueueTypes ==
  ASSUME TypeOK, NEW t \in Threads, NEW u \in Threads, NEW task \in Task,
         Queue(t, u, task)
  PROVE  tasks' \in [Threads -> Seq(Task)] /\ wake' \in [Threads -> BOOLEAN]
<1>1. Append(tasks[u], task) \in Seq(Task)
  BY DEF TypeOK
<1>2. tasks' \in [Threads -> Seq(Task)]
  BY <1>1 DEF TypeOK, Queue
<1>3. (wake[u] \/ Wakes(t, u)) \in BOOLEAN
  BY DEF Wakes
<1>4. wake' \in [Threads -> BOOLEAN]
  BY <1>3 DEF TypeOK, Queue
<1> QED BY <1>2, <1>4

LEMMA CurrentType ==
  ASSUME TypeOK, NEW t \in Threads, NEW kind, Running(t, kind)
  PROVE  Current(t) \in Task /\ Current(t).kind = kind /\ ran[t] + 1 \in Nat
         /\ ran[t] + 1 \in DOMAIN batch[t]
<1>1. batch[t] \in Seq(Task) /\ ran[t] \in Nat
  BY DEF TypeOK
<1> QED BY <1>1 DEF Running, Current

LEMMA SettleTypes ==
  ASSUME NEW born \in SUBSET Conns, NEW reg \in [Fds -> Conns \cup {NoConn}],
         live \subseteq Conns, Settle(born, reg)
  PROVE  live' \subseteq Conns /\ epoll' \in [Fds -> Conns \cup {NoConn}]
BY DEF Settle

LEMMA NextLoopType ==
  ASSUME TypeOK
  PROVE  NextLoop \in Threads /\ AfterNext \in {1} \cup 1 .. NumLoops
         /\ (NumLoops # 0 => NextLoop # Main)
<1>1. next \in {1} \cup 1 .. NumLoops
  BY DEF TypeOK
<1>2. CASE NumLoops = 0
  BY <1>1, <1>2 DEF NextLoop, AfterNext
<1>3. CASE NumLoops # 0
  BY <1>1, <1>3 DEF NextLoop, AfterNext
<1> QED BY <1>2, <1>3

LEMMA CloseInMainTypes ==
  ASSUME TypeOK, NEW c \in Conns, CloseInMain(c)
  PROVE  /\ connections' \in [Fds -> Conns \cup {NoConn}]
         /\ tasks' \in [Threads -> Seq(Task)] /\ wake' \in [Threads -> BOOLEAN]
<1>1. own[c] \in Threads /\ Main \in Threads
  BY DEF TypeOK
<1>2. Destroy(c) \in Task
  BY TaskTypes
<1>3. Queue(Main, own[c], Destroy(c))
  BY DEF CloseInMain
<1>4. tasks' \in [Threads -> Seq(Task)] /\ wake' \in [Threads -> BOOLEAN]
  BY <1>1, <1>2, <1>3, QueueTypes
<1>5. connections' \in [Fds -> Conns \cup {NoConn}]
  BY DEF TypeOK, CloseInMain
<1> QED BY <1>4, <1>5

LEMMA EstablishedTypes ==
  ASSUME TypeOK, NEW c \in Conns, Established(c)
  PROVE  /\ state' \in [Conns -> {"Invalid", "Connected", "Closed"}]
         /\ inEpoll' \in [Conns -> BOOLEAN]
         /\ timer' \in [Conns -> {"none", "armed", "due"}]
BY DEF TypeOK, Established

LEMMA EnvironmentTypes == TypeOK /\ Environment => TypeOK'
<1> SUFFICES ASSUME TypeOK, Environment PROVE TypeOK'
  OBVIOUS
<1> USE DEF TypeOK, connVars, kernelVars, loopVars
<1> PICK c \in Conns : PeerConnect(c) \/ PeerSend(c) \/ PeerClose(c) \/ TimerExpire(c)
  BY DEF Environment
<1>1. CASE PeerConnect(c)  BY <1>1 DEF PeerConnect
<1>2. CASE PeerSend(c)     BY <1>2 DEF PeerSend
<1>3. CASE PeerClose(c)    BY <1>3 DEF PeerClose
<1>4. CASE TimerExpire(c)  BY <1>4 DEF TimerExpire
<1> QED BY <1>1, <1>2, <1>3, <1>4

LEMMA AcceptTypes ==
  ASSUME TypeOK, NEW c \in Conns, NEW f \in Fds, Accept(c, f)
  PROVE  TypeOK'
<1> DEFINE u == NextLoop
<1>1. u \in Threads /\ AfterNext \in {1} \cup 1 .. NumLoops /\ Main \in Threads
  BY NextLoopType
<1>2. /\ next' \in {1} \cup 1 .. NumLoops
      /\ backlog' \subseteq Conns
      /\ active' \in [Threads -> SUBSET (Conns \cup {Wakeup, Listen, Timer})]
      /\ own' \in [Conns -> Threads]
      /\ fdOf' \in [Conns -> Fds]
      /\ connections' \in [Fds -> Conns \cup {NoConn}]
      /\ UNCHANGED <<edge, eof, phase, batch, ran, closing, aborted>>
  BY <1>1 DEF TypeOK, Accept
<1>3. CASE u = Main
  <2>1. Established(c) /\ UNCHANGED <<tasks, wake>> /\ Settle({c}, [epoll EXCEPT ![f] = c])
    BY <1>3 DEF Accept
  <2>2. live' \subseteq Conns /\ epoll' \in [Fds -> Conns \cup {NoConn}]
    BY <2>1, SettleTypes DEF TypeOK
  <2> QED BY <1>2, <2>1, <2>2, EstablishedTypes DEF TypeOK
<1>4. CASE u # Main
  <2>1. Queue(Main, u, Establish(f)) /\ UNCHANGED <<state, inEpoll, timer>> /\ Settle({c}, epoll)
    BY <1>4 DEF Accept
  <2>2. live' \subseteq Conns /\ epoll' \in [Fds -> Conns \cup {NoConn}]
    BY <2>1, SettleTypes DEF TypeOK
  <2>3. tasks' \in [Threads -> Seq(Task)] /\ wake' \in [Threads -> BOOLEAN]
    BY <1>1, <2>1, TaskTypes, QueueTypes
  <2> QED BY <1>2, <2>1, <2>2, <2>3 DEF TypeOK
<1> QED BY <1>3, <1>4

LEMMA LoopTypes ==
  ASSUME TypeOK, NEW t \in Threads, LoopStep(t)
  PROVE  TypeOK'
<1> Main \in Threads
  OBVIOUS
<1>1. CASE Poll(t)
  <2>1. Ready(t) \subseteq Conns \cup {Wakeup, Listen, Timer}
    BY DEF Ready, TypeOK
  <2> QED BY <1>1, <2>1 DEF Poll, TypeOK, connVars
<1>2. CASE HandleWakeup(t)
  <2>1. CASE wake[t]
    <3>1. wake' = [wake EXCEPT ![t] = FALSE] /\ active' = [active EXCEPT ![t] = @ \ {Wakeup}]
          /\ UNCHANGED <<next, connVars, kernelVars, timer, phase, tasks, batch,
                         ran, closing, aborted>>
      BY <1>2, <2>1 DEF HandleWakeup
    <3> QED BY <3>1 DEF TypeOK, connVars, kernelVars
  <2>2. CASE ~wake[t]
    BY <1>2, <2>2 DEF HandleWakeup, Abort, TypeOK, connVars, kernelVars, loopVars
  <2> QED BY <2>1, <2>2
<1>3. ASSUME NEW c \in Conns, HandleConnEvent(t, c) PROVE TypeOK'
  BY <1>3 DEF HandleConnEvent, TypeOK, connVars, kernelVars
<1>4. CASE FinishClose(t)
  <2> DEFINE c == closing[t]
  <2>1. c \in Conns
    BY <1>4 DEF FinishClose, TypeOK
  <2>2. live' \subseteq Conns /\ epoll' \in [Fds -> Conns \cup {NoConn}]
    BY <1>4, SettleTypes DEF FinishClose, TypeOK
  <2>3. /\ connections' \in [Fds -> Conns \cup {NoConn}]
        /\ tasks' \in [Threads -> Seq(Task)] /\ wake' \in [Threads -> BOOLEAN]
    <3>1. CASE t = Main
      BY <1>4, <2>1, <3>1, CloseInMainTypes DEF FinishClose
    <3>2. CASE t # Main
      <4>1. Queue(t, Main, Delete(c)) /\ UNCHANGED connections
        BY <1>4, <3>2 DEF FinishClose
      <4> QED BY <2>1, <4>1, TaskTypes, QueueTypes DEF TypeOK
    <3> QED BY <3>1, <3>2
  <2> QED BY <1>4, <2>1, <2>2, <2>3 DEF FinishClose, TypeOK
<1>5. CASE SwapTasks(t)
  <2>1. tasks[t] \in Seq(Task) /\ <<>> \in Seq(Task)
    BY DEF TypeOK
  <2> QED BY <1>5, <2>1 DEF SwapTasks, TypeOK, connVars, kernelVars
<1>6. CASE RunEstablish(t)
  <2>1. Current(t) \in Task /\ Current(t).kind = "establish" /\ ran[t] + 1 \in Nat
    BY <1>6, CurrentType DEF RunEstablish
  <2> DEFINE f == Current(t).arg
             c == connections[f]
  <2>2. f \in Fds
    BY <2>1 DEF Task
  <2>3. ran' \in [Threads -> Nat]
    BY <1>6, <2>1 DEF RunEstablish, TypeOK
  <2>4. CASE c # NoConn /\ ~RegisterFails(c) /\ Established(c) /\ UNCHANGED aborted
             /\ Settle({}, [epoll EXCEPT ![f] = c])
    <3>1. c \in Conns
      BY <2>2, <2>4 DEF TypeOK
    <3>2. live' \subseteq Conns /\ epoll' \in [Fds -> Conns \cup {NoConn}]
      BY <2>4, <3>1, SettleTypes DEF TypeOK
    <3> QED BY <1>6, <2>3, <2>4, <3>1, <3>2, EstablishedTypes DEF RunEstablish, TypeOK
  <2>5. CASE aborted' \in {aborted, "epoll"} /\ UNCHANGED <<state, inEpoll, timer, live, epoll>>
    BY <1>6, <2>3, <2>5 DEF RunEstablish, TypeOK
  <2> QED BY <1>6, <2>4, <2>5 DEF RunEstablish
<1>7. CASE RunDelete(t)
  <2>1. Current(t) \in Task /\ Current(t).kind = "delete" /\ ran[t] + 1 \in Nat
    BY <1>7, CurrentType DEF RunDelete
  <2>2. Current(t).arg \in Conns
    BY <2>1 DEF Task
  <2>3. /\ connections' \in [Fds -> Conns \cup {NoConn}]
        /\ tasks' \in [Threads -> Seq(Task)] /\ wake' \in [Threads -> BOOLEAN]
    BY <1>7, <2>2, CloseInMainTypes DEF RunDelete
  <2>4. live' \subseteq Conns /\ epoll' \in [Fds -> Conns \cup {NoConn}]
    BY <1>7, SettleTypes DEF RunDelete, TypeOK
  <2> QED BY <1>7, <2>1, <2>3, <2>4 DEF RunDelete, TypeOK
<1>8. CASE RunDestroy(t)
  <2>1. Current(t) \in Task /\ Current(t).kind = "destroy" /\ ran[t] + 1 \in Nat
    BY <1>8, CurrentType DEF RunDestroy
  <2> DEFINE c == Current(t).arg
  <2>2. CASE inEpoll[c] /\ epoll[fdOf[c]] # c
    BY <1>8, <2>2 DEF RunDestroy, Abort, TypeOK, connVars, kernelVars, loopVars
  <2>3. CASE ~(inEpoll[c] /\ epoll[fdOf[c]] # c)
    <3>1. [f \in Fds |-> IF epoll[f] = c THEN NoConn ELSE epoll[f]] \in [Fds -> Conns \cup {NoConn}]
      BY DEF TypeOK
    <3>2. live' \subseteq Conns /\ epoll' \in [Fds -> Conns \cup {NoConn}]
      BY <1>8, <2>3, <3>1, SettleTypes DEF RunDestroy, TypeOK
    <3>3. /\ ran' = [ran EXCEPT ![t] = @ + 1]
          /\ UNCHANGED <<next, connections, own, fdOf, state, inEpoll, backlog, edge,
                         eof, timer, phase, active, tasks, batch, wake, closing, aborted>>
      BY <1>8, <2>3 DEF RunDestroy
    <3> QED BY <2>1, <3>2, <3>3 DEF TypeOK
  <2> QED BY <2>2, <2>3
<1>9. CASE EndTasks(t)
  <2>1. live' \subseteq Conns /\ epoll' \in [Fds -> Conns \cup {NoConn}]
    BY <1>9, SettleTypes DEF EndTasks, TypeOK
  <2>2. <<>> \in Seq(Task) /\ 0 \in Nat
    OBVIOUS
  <2> QED BY <1>9, <2>1, <2>2 DEF EndTasks, TypeOK
<1>10. CASE AcceptFails
  BY <1>10 DEF AcceptFails, Abort, TypeOK, connVars, kernelVars, loopVars
<1>11. ASSUME NEW c \in Conns, HandleTimer(c) PROVE TypeOK'
  BY <1>11 DEF HandleTimer, TypeOK, connVars, kernelVars
<1>12. ASSUME NEW c \in Conns, NEW f \in Fds, Accept(c, f) PROVE TypeOK'
  BY <1>12, AcceptTypes
<1> QED BY <1>1, <1>2, <1>3, <1>4, <1>5, <1>6, <1>7, <1>8, <1>9, <1>10, <1>11, <1>12
        DEF LoopStep

(* Every variable keeps its type, whatever the constants: in particular the  *)
(* round robin of nextloop stays inside the pool.                            *)
THEOREM Typing == Spec => []TypeOK
<1>1. Init => TypeOK
  <2>1. (CHOOSE f \in Fds : TRUE) \in Fds
    OBVIOUS
  <2>2. <<>> \in Seq(Task)
    OBVIOUS
  <2> QED BY <2>1, <2>2 DEF Init, TypeOK
<1>2. TypeOK /\ [Next]_vars => TypeOK'
  <2> SUFFICES ASSUME TypeOK, [Next]_vars PROVE TypeOK'
    OBVIOUS
  <2>1. CASE Environment
    BY <2>1, EnvironmentTypes
  <2>2. ASSUME NEW t \in Threads, LoopStep(t) PROVE TypeOK'
    BY <2>2, LoopTypes
  <2>3. CASE UNCHANGED vars
    BY <2>3 DEF vars, connVars, kernelVars, loopVars, TypeOK
  <2> QED BY <2>1, <2>2, <2>3 DEF Next
<1> QED BY <1>1, <1>2, PTL DEF Spec

-----------------------------------------------------------------------------
(* The task lists.                                                           *)

LEMMA SlotsAre ==
  /\ \A s : s \in Slots <=> \E t \in Threads :
         \/ \E i \in DOMAIN tasks[t] : s = Slot("tasks", t, i)
         \/ \E i \in DOMAIN batch[t] : i > ran[t] /\ s = Slot("batch", t, i)
  /\ \A t \in Threads : \A i \in DOMAIN tasks[t] :
       Slot("tasks", t, i) \in Slots /\ TaskAt[Slot("tasks", t, i)] = tasks[t][i]
  /\ \A t \in Threads : \A i \in DOMAIN batch[t] : i > ran[t] =>
       Slot("batch", t, i) \in Slots /\ TaskAt[Slot("batch", t, i)] = batch[t][i]
<1>1. \A t \in Threads : /\ \A i \in DOMAIN tasks[t] : i \in Positions
                         /\ \A i \in DOMAIN batch[t] : i \in Positions
  BY DEF Positions
<1>2. ASSUME NEW s \in Slots
      PROVE  \E t \in Threads :
               \/ \E i \in DOMAIN tasks[t] : s = Slot("tasks", t, i)
               \/ \E i \in DOMAIN batch[t] : i > ran[t] /\ s = Slot("batch", t, i)
  BY DEF Slots, Slot
<1>3. ASSUME NEW t \in Threads, NEW i \in DOMAIN tasks[t]
      PROVE  Slot("tasks", t, i) \in Slots /\ TaskAt[Slot("tasks", t, i)] = tasks[t][i]
  <2>1. Slot("tasks", t, i) \in Slots
    BY <1>1 DEF Slots, Slot
  <2> QED BY <2>1 DEF TaskAt, Slot
<1>4. ASSUME NEW t \in Threads, NEW i \in DOMAIN batch[t], i > ran[t]
      PROVE  Slot("batch", t, i) \in Slots /\ TaskAt[Slot("batch", t, i)] = batch[t][i]
  <2>1. Slot("batch", t, i) \in Slots
    BY <1>1, <1>4 DEF Slots, Slot
  <2> QED BY <2>1 DEF TaskAt, Slot
<1> QED BY <1>2, <1>3, <1>4

LEMMA SlotsAreNext ==
  /\ \A s : s \in Slots' <=> \E t \in Threads :
         \/ \E i \in DOMAIN tasks'[t] : s = Slot("tasks", t, i)
         \/ \E i \in DOMAIN batch'[t] : i > ran'[t] /\ s = Slot("batch", t, i)
  /\ \A t \in Threads : \A i \in DOMAIN tasks'[t] :
       Slot("tasks", t, i) \in Slots' /\ TaskAt'[Slot("tasks", t, i)] = tasks'[t][i]
  /\ \A t \in Threads : \A i \in DOMAIN batch'[t] : i > ran'[t] =>
       Slot("batch", t, i) \in Slots' /\ TaskAt'[Slot("batch", t, i)] = batch'[t][i]
<1>1. \A t \in Threads : /\ \A i \in DOMAIN tasks'[t] : i \in Positions'
                         /\ \A i \in DOMAIN batch'[t] : i \in Positions'
  BY DEF Positions
<1>2. ASSUME NEW s \in Slots'
      PROVE  \E t \in Threads :
               \/ \E i \in DOMAIN tasks'[t] : s = Slot("tasks", t, i)
               \/ \E i \in DOMAIN batch'[t] : i > ran'[t] /\ s = Slot("batch", t, i)
  BY DEF Slots, Slot
<1>3. ASSUME NEW t \in Threads, NEW i \in DOMAIN tasks'[t]
      PROVE  Slot("tasks", t, i) \in Slots' /\ TaskAt'[Slot("tasks", t, i)] = tasks'[t][i]
  <2>1. Slot("tasks", t, i) \in Slots'
    BY <1>1 DEF Slots, Slot
  <2> QED BY <2>1 DEF TaskAt, Slot
<1>4. ASSUME NEW t \in Threads, NEW i \in DOMAIN batch'[t], i > ran'[t]
      PROVE  Slot("batch", t, i) \in Slots' /\ TaskAt'[Slot("batch", t, i)] = batch'[t][i]
  <2>1. Slot("batch", t, i) \in Slots'
    BY <1>1, <1>4 DEF Slots, Slot
  <2> QED BY <2>1 DEF TaskAt, Slot
<1> QED BY <1>2, <1>3, <1>4

LEMMA SlotType ==
  ASSUME TypeOK, NEW s \in Slots
  PROVE  TaskAt[s] \in Task /\ s.loop \in Threads
<1> PICK t \in Threads : \/ \E i \in DOMAIN tasks[t] : s = Slot("tasks", t, i)
                        \/ \E i \in DOMAIN batch[t] : i > ran[t] /\ s = Slot("batch", t, i)
  BY SlotsAre
<1>1. tasks[t] \in Seq(Task) /\ batch[t] \in Seq(Task)
  BY DEF TypeOK
<1>2. ASSUME NEW i \in DOMAIN tasks[t], s = Slot("tasks", t, i)
      PROVE  TaskAt[s] \in Task /\ s.loop \in Threads
  BY <1>1, <1>2, SlotsAre DEF Slot
<1>3. ASSUME NEW i \in DOMAIN batch[t], i > ran[t], s = Slot("batch", t, i)
      PROVE  TaskAt[s] \in Task /\ s.loop \in Threads
  BY <1>1, <1>3, SlotsAre DEF Slot
<1> QED BY <1>2, <1>3

(* queueOneFunc adds one slot and moves none.                                *)
LEMMA QueueSlots ==
  ASSUME TypeOK, NEW t \in Threads, NEW u \in Threads, NEW task \in Task,
         Queue(t, u, task), UNCHANGED <<batch, ran>>
  PROVE  \E n : /\ n \notin Slots /\ n.loop = u
               /\ Slots' = Slots \cup {n}
               /\ TaskAt'[n] = task
               /\ \A s \in Slots : TaskAt'[s] = TaskAt[s]
<1> DEFINE k == Len(tasks[u]) + 1
           n == Slot("tasks", u, k)
<1>1. /\ tasks[u] \in Seq(Task) /\ Append(tasks[u], task) \in Seq(Task)
      /\ Len(Append(tasks[u], task)) = k
      /\ Append(tasks[u], task)[k] = task
      /\ \A i \in 1 .. Len(tasks[u]) : Append(tasks[u], task)[i] = tasks[u][i]
  BY DEF TypeOK
<1>2. /\ tasks'[u] = Append(tasks[u], task)
      /\ \A v \in Threads : v # u => tasks'[v] = tasks[v]
  BY DEF TypeOK, Queue
<1>3. /\ DOMAIN tasks[u] = 1 .. Len(tasks[u])
      /\ DOMAIN tasks'[u] = 1 .. k
      /\ Len(tasks[u]) \in Nat
  BY <1>1, <1>2
<1>4. n \notin Slots
  BY <1>3, SlotsAre DEF Slot
<1>5. n \in Slots' /\ TaskAt'[n] = task
  BY <1>1, <1>2, <1>3, SlotsAreNext
<1>6. ASSUME NEW s \in Slots PROVE s \in Slots' /\ TaskAt'[s] = TaskAt[s]
  <2> PICK v \in Threads : \/ \E i \in DOMAIN tasks[v] : s = Slot("tasks", v, i)
                          \/ \E i \in DOMAIN batch[v] : i > ran[v] /\ s = Slot("batch", v, i)
    BY <1>6, SlotsAre
  <2>1. ASSUME NEW i \in DOMAIN tasks[v], s = Slot("tasks", v, i)
        PROVE  s \in Slots' /\ TaskAt'[s] = TaskAt[s]
    <3>1. i \in DOMAIN tasks'[v] /\ tasks'[v][i] = tasks[v][i]
      <4>1. CASE v # u
        BY <1>2, <4>1
      <4>2. CASE v = u
        <5>1. i \in 1 .. Len(tasks[u])
          BY <1>3, <4>2
        <5>2. i \in 1 .. k
          BY <1>3, <5>1
        <5>3. i \in DOMAIN tasks'[u]
          BY <1>3, <5>2
        <5>4. tasks'[u][i] = tasks[u][i]
          BY <1>1, <1>2, <5>1
        <5> QED BY <4>2, <5>3, <5>4
      <4> QED BY <4>1, <4>2
    <3> QED BY <2>1, <3>1, SlotsAre, SlotsAreNext
  <2>2. ASSUME NEW i \in DOMAIN batch[v], i > ran[v], s = Slot("batch", v, i)
        PROVE  s \in Slots' /\ TaskAt'[s] = TaskAt[s]
    BY <2>2, SlotsAre, SlotsAreNext
  <2> QED BY <2>1, <2>2
<1>7. ASSUME NEW s \in Slots' PROVE s \in Slots \cup {n}
  <2> PICK v \in Threads : \/ \E i \in DOMAIN tasks'[v] : s = Slot("tasks", v, i)
                          \/ \E i \in DOMAIN batch'[v] : i > ran'[v] /\ s = Slot("batch", v, i)
    BY <1>7, SlotsAreNext
  <2>1. ASSUME NEW i \in DOMAIN tasks'[v], s = Slot("tasks", v, i)
        PROVE  s \in Slots \cup {n}
    <3>1. CASE v # u
      BY <1>2, <2>1, <3>1, SlotsAre
    <3>2. CASE v = u
      <4>1. i \in DOMAIN tasks[v] \/ i = k
        BY <1>3, <2>1, <3>2
      <4> QED BY <2>1, <3>2, <4>1, SlotsAre
    <3> QED BY <3>1, <3>2
  <2>2. ASSUME NEW i \in DOMAIN batch'[v], i > ran'[v], s = Slot("batch", v, i)
        PROVE  s \in Slots \cup {n}
    BY <2>2, SlotsAre
  <2> QED BY <2>1, <2>2
<1>8. n.loop = u
  BY DEF Slot
<1> QED BY <1>4, <1>5, <1>6, <1>7, <1>8

(* Running a functor takes its slot, and only that one.                      *)
LEMMA RunSlots ==
  ASSUME TypeOK, NEW t \in Threads, ran[t] + 1 \in DOMAIN batch[t],
         ran'[t] = ran[t] + 1, \A w \in Threads \ {t} : ran'[w] = ran[w],
         UNCHANGED <<tasks, batch>>
  PROVE  \E r \in Slots : /\ r.loop = t /\ TaskAt[r] = Current(t)
                         /\ Slots' = Slots \ {r}
                         /\ \A s \in Slots' : TaskAt'[s] = TaskAt[s]
<1> DEFINE k == ran[t] + 1
           r == Slot("batch", t, k)
<1>1. k \in DOMAIN batch[t] /\ ran \in [Threads -> Nat] /\ ran'[t] = k
      /\ \A v \in Threads : v # t => ran'[v] = ran[v]
  BY CurrentType DEF TypeOK
<1>2. r \in Slots /\ TaskAt[r] = Current(t) /\ r.loop = t
  BY <1>1, SlotsAre DEF Current, Slot
<1>3. r \notin Slots'
  BY <1>1, SlotsAreNext DEF Slot
<1>4. ASSUME NEW v \in Threads PROVE DOMAIN batch[v] \subseteq Nat
  <2>1. batch[v] \in Seq(Task)
    BY DEF TypeOK
  <2> QED BY <2>1
<1>5. ASSUME NEW s \in Slots, s # r PROVE s \in Slots' /\ TaskAt'[s] = TaskAt[s]
  <2> PICK v \in Threads : \/ \E i \in DOMAIN tasks[v] : s = Slot("tasks", v, i)
                          \/ \E i \in DOMAIN batch[v] : i > ran[v] /\ s = Slot("batch", v, i)
    BY <1>5, SlotsAre
  <2>1. ASSUME NEW i \in DOMAIN tasks[v], s = Slot("tasks", v, i)
        PROVE  s \in Slots' /\ TaskAt'[s] = TaskAt[s]
    BY <2>1, SlotsAre, SlotsAreNext
  <2>2. ASSUME NEW i \in DOMAIN batch[v], i > ran[v], s = Slot("batch", v, i)
        PROVE  s \in Slots' /\ TaskAt'[s] = TaskAt[s]
    <3>1. i > ran'[v]
      BY <1>1, <1>4, <1>5, <2>2
    <3> QED BY <2>2, <3>1, SlotsAre, SlotsAreNext
  <2> QED BY <2>1, <2>2
<1>6. ASSUME NEW s \in Slots' PROVE s \in Slots
  <2> PICK v \in Threads : \/ \E i \in DOMAIN tasks'[v] : s = Slot("tasks", v, i)
                          \/ \E i \in DOMAIN batch'[v] : i > ran'[v] /\ s = Slot("batch", v, i)
    BY <1>6, SlotsAreNext
  <2>1. ASSUME NEW i \in DOMAIN tasks'[v], s = Slot("tasks", v, i) PROVE s \in Slots
    BY <2>1, SlotsAre
  <2>2. ASSUME NEW i \in DOMAIN batch'[v], i > ran'[v], s = Slot("batch", v, i) PROVE s \in Slots
    <3>1. i > ran[v]
      BY <1>1, <1>4, <2>2
    <3> QED BY <2>2, <3>1, SlotsAre
  <2> QED BY <2>1, <2>2
<1> QED BY <1>2, <1>3, <1>5, <1>6

(* doToDoList moves the slots of the list to the batch.                      *)
LEMMA SwapSlots ==
  ASSUME TypeOK, NEW t \in Threads, batch[t] = <<>>,
         batch' = [batch EXCEPT ![t] = tasks[t]],
         tasks' = [tasks EXCEPT ![t] = <<>>],
         ran' = [ran EXCEPT ![t] = 0]
  PROVE  \E F \in [Slots' -> Slots] :
           /\ \A s \in Slots' : F[s].loop = s.loop /\ TaskAt'[s] = TaskAt[F[s]]
           /\ \A r, s \in Slots' : F[r] = F[s] => r = s
           /\ \A s \in Slots : \E r \in Slots' : F[r] = s
<1> DEFINE G(s) == IF s.list = "batch" /\ s.loop = t THEN Slot("tasks", t, s.pos) ELSE s
           F == [s \in Slots' |-> G(s)]
<1>1. /\ batch'[t] = tasks[t] /\ tasks'[t] = <<>> /\ ran'[t] = 0
      /\ \A v \in Threads : v # t => /\ batch'[v] = batch[v] /\ tasks'[v] = tasks[v]
                                     /\ ran'[v] = ran[v]
  BY DEF TypeOK
<1>2. /\ DOMAIN batch[t] = {} /\ DOMAIN tasks'[t] = {}
      /\ tasks[t] \in Seq(Task) /\ \A i \in DOMAIN tasks[t] : i \in Nat /\ i > 0
  <2>1. tasks[t] \in Seq(Task)
    BY DEF TypeOK
  <2>2. DOMAIN batch[t] = {} /\ DOMAIN tasks'[t] = {}
    BY <1>1
  <2> QED BY <2>1, <2>2
<1>3. ASSUME NEW s \in Slots'
      PROVE  /\ G(s) \in Slots /\ G(s).loop = s.loop /\ TaskAt'[s] = TaskAt[G(s)]
             /\ s.list = "tasks" => s.loop # t
             /\ s = Slot(s.list, s.loop, s.pos) /\ s.list \in {"tasks", "batch"}
  <2> PICK v \in Threads : \/ \E i \in DOMAIN tasks'[v] : s = Slot("tasks", v, i)
                          \/ \E i \in DOMAIN batch'[v] : i > ran'[v] /\ s = Slot("batch", v, i)
    BY <1>3, SlotsAreNext
  <2>1. ASSUME NEW i \in DOMAIN tasks'[v], s = Slot("tasks", v, i)
        PROVE  /\ G(s) \in Slots /\ G(s).loop = s.loop /\ TaskAt'[s] = TaskAt[G(s)]
               /\ s.list = "tasks" => s.loop # t
               /\ s = Slot(s.list, s.loop, s.pos) /\ s.list \in {"tasks", "batch"}
    <3>1. v # t /\ i \in DOMAIN tasks[v] /\ tasks'[v][i] = tasks[v][i]
      BY <1>1, <1>2, <2>1
    <3>2. s.list = "tasks" /\ s.loop = v /\ s.pos = i
      BY <2>1 DEF Slot
    <3>3. TaskAt'[s] = tasks[v][i] /\ s \in Slots /\ TaskAt[s] = tasks[v][i]
      BY <2>1, <3>1, SlotsAre, SlotsAreNext
    <3> QED BY <2>1, <3>1, <3>2, <3>3
  <2>2. ASSUME NEW i \in DOMAIN batch'[v], i > ran'[v], s = Slot("batch", v, i)
        PROVE  /\ G(s) \in Slots /\ G(s).loop = s.loop /\ TaskAt'[s] = TaskAt[G(s)]
               /\ s.list = "tasks" => s.loop # t
               /\ s = Slot(s.list, s.loop, s.pos) /\ s.list \in {"tasks", "batch"}
    <3>1. s.list = "batch" /\ s.loop = v /\ s.pos = i
      BY <2>2 DEF Slot
    <3>2. TaskAt'[s] = batch'[v][i]
      BY <2>2, SlotsAreNext
    <3>3. CASE v = t
      <4>1. G(s) = Slot("tasks", t, i) /\ i \in DOMAIN tasks[t]
        BY <1>1, <2>2, <3>1, <3>3
      <4>2. G(s) \in Slots /\ TaskAt[G(s)] = tasks[t][i] /\ G(s).loop = t
        BY <4>1, SlotsAre DEF Slot
      <4> QED BY <1>1, <2>2, <3>1, <3>2, <3>3, <4>2
    <3>4. CASE v # t
      <4>1. G(s) = s /\ i \in DOMAIN batch[v] /\ i > ran[v]
        BY <1>1, <2>2, <3>1, <3>4
      <4>2. s \in Slots /\ TaskAt[s] = batch[v][i]
        BY <2>2, <4>1, SlotsAre
      <4> QED BY <1>1, <2>2, <3>1, <3>2, <3>4, <4>1, <4>2
    <3> QED BY <3>3, <3>4
  <2> QED BY <2>1, <2>2
<1>4. ASSUME NEW r \in Slots', NEW s \in Slots', G(r) = G(s) PROVE r = s
  <2>1. /\ r = Slot(r.list, r.loop, r.pos) /\ s = Slot(s.list, s.loop, s.pos)
        /\ r.list = "tasks" => r.loop # t
        /\ s.list = "tasks" => s.loop # t
        /\ r.list \in {"tasks", "batch"} /\ s.list \in {"tasks", "batch"}
    BY <1>3
  <2> DEFINE moved(x) == x.list = "batch" /\ x.loop = t
  <2>2. \A x : moved(x) => G(x).list = "tasks" /\ G(x).loop = t /\ G(x).pos = x.pos
    BY DEF Slot
  <2>3. \A x : ~moved(x) => G(x) = x
    OBVIOUS
  <2>4. CASE moved(r) /\ moved(s)
    <3>1. r.pos = s.pos
      BY <1>4, <2>2, <2>4
    <3> QED BY <2>1, <2>4, <3>1
  <2>5. CASE moved(r) /\ ~moved(s)
    BY <1>4, <2>1, <2>2, <2>3, <2>5
  <2>6. CASE ~moved(r) /\ moved(s)
    BY <1>4, <2>1, <2>2, <2>3, <2>6
  <2>7. CASE ~moved(r) /\ ~moved(s)
    BY <1>4, <2>3, <2>7
  <2> QED BY <2>4, <2>5, <2>6, <2>7
<1>5. ASSUME NEW s \in Slots PROVE \E r \in Slots' : G(r) = s
  <2> PICK v \in Threads : \/ \E i \in DOMAIN tasks[v] : s = Slot("tasks", v, i)
                          \/ \E i \in DOMAIN batch[v] : i > ran[v] /\ s = Slot("batch", v, i)
    BY <1>5, SlotsAre
  <2>1. ASSUME NEW i \in DOMAIN tasks[v], s = Slot("tasks", v, i)
        PROVE  \E r \in Slots' : G(r) = s
    <3>1. CASE v = t
      <4>1. Slot("batch", t, i) \in Slots'
        BY <1>1, <1>2, <2>1, <3>1, SlotsAreNext
      <4>2. G(Slot("batch", t, i)) = s
        BY <2>1, <3>1 DEF Slot
      <4> QED BY <4>1, <4>2
    <3>2. CASE v # t
      <4>1. s \in Slots'
        BY <1>1, <2>1, <3>2, SlotsAreNext
      <4>2. G(s) = s
        BY <2>1, <3>2 DEF Slot
      <4> QED BY <4>1, <4>2
    <3> QED BY <3>1, <3>2
  <2>2. ASSUME NEW i \in DOMAIN batch[v], i > ran[v], s = Slot("batch", v, i)
        PROVE  \E r \in Slots' : G(r) = s
    <3>1. v # t
      BY <1>2, <2>2
    <3>2. s \in Slots'
      BY <1>1, <2>2, <3>1, SlotsAreNext
    <3>3. G(s) = s
      BY <2>2, <3>1 DEF Slot
    <3> QED BY <3>2, <3>3
  <2> QED BY <2>1, <2>2
<1>6. F \in [Slots' -> Slots] /\ \A s \in Slots' : F[s] = G(s)
  BY <1>3
<1> HIDE DEF F, G
<1> QED BY <1>3, <1>4, <1>5, <1>6

(* When the batch has run, dropping it takes no slot.                        *)
LEMMA EndSlots ==
  ASSUME TypeOK, NEW t \in Threads, ran[t] = Len(batch[t]),
         batch' = [batch EXCEPT ![t] = <<>>],
         ran' = [ran EXCEPT ![t] = 0], UNCHANGED tasks
  PROVE  Slots' = Slots /\ \A s \in Slots : TaskAt'[s] = TaskAt[s]
<1>1. /\ batch'[t] = <<>>
      /\ \A v \in Threads : v # t => batch'[v] = batch[v] /\ ran'[v] = ran[v]
  BY DEF TypeOK
<1>2. /\ DOMAIN batch'[t] = {} /\ \A i \in DOMAIN batch[t] : ~(i > ran[t])
  BY <1>1 DEF TypeOK
<1>3. ASSUME NEW s \in Slots PROVE s \in Slots' /\ TaskAt'[s] = TaskAt[s]
  <2> PICK v \in Threads : \/ \E i \in DOMAIN tasks[v] : s = Slot("tasks", v, i)
                          \/ \E i \in DOMAIN batch[v] : i > ran[v] /\ s = Slot("batch", v, i)
    BY <1>3, SlotsAre
  <2>1. ASSUME NEW i \in DOMAIN tasks[v], s = Slot("tasks", v, i)
        PROVE  s \in Slots' /\ TaskAt'[s] = TaskAt[s]
    BY <2>1, SlotsAre, SlotsAreNext
  <2>2. ASSUME NEW i \in DOMAIN batch[v], i > ran[v], s = Slot("batch", v, i)
        PROVE  s \in Slots' /\ TaskAt'[s] = TaskAt[s]
    BY <1>1, <1>2, <2>2, SlotsAre, SlotsAreNext
  <2> QED BY <2>1, <2>2
<1>4. ASSUME NEW s \in Slots' PROVE s \in Slots
  <2> PICK v \in Threads : \/ \E i \in DOMAIN tasks'[v] : s = Slot("tasks", v, i)
                          \/ \E i \in DOMAIN batch'[v] : i > ran'[v] /\ s = Slot("batch", v, i)
    BY <1>4, SlotsAreNext
  <2>1. ASSUME NEW i \in DOMAIN tasks'[v], s = Slot("tasks", v, i) PROVE s \in Slots
    BY <2>1, SlotsAre
  <2>2. ASSUME NEW i \in DOMAIN batch'[v], i > ran'[v], s = Slot("batch", v, i) PROVE s \in Slots
    BY <1>1, <1>2, <2>2, SlotsAre
  <2> QED BY <2>1, <2>2
<1> QED BY <1>3, <1>4

-----------------------------------------------------------------------------
(* The steps.                                                                *)

(* The end of a step keeps every object that is still referred to, if those  *)
(* were alive, and drops the registrations of the others.                    *)
LEMMA Settled ==
  ASSUME NEW born \in SUBSET Conns, NEW reg \in [Fds -> Conns \cup {NoConn}],
         TypeOK', Settle(born, reg),
         \A f \in Fds : connections'[f] # NoConn => connections'[f] \in live \cup born,
         \A t \in Threads :
           /\ closing'[t] # NoConn => closing'[t] \in live \cup born
           /\ \A i \in DOMAIN tasks'[t] :
                tasks'[t][i].kind # "establish" => tasks'[t][i].arg \in live \cup born
           /\ \A i \in DOMAIN batch'[t] :
                batch'[t][i].kind # "establish" => batch'[t][i].arg \in live \cup born
  PROVE  /\ HeldInv'
         /\ live' \subseteq live \cup born
         /\ \A s \in Slots' : TaskAt'[s].kind # "establish" => TaskAt'[s].arg \in live'
         /\ \A f \in Fds : epoll'[f] = IF reg[f] \in live' THEN reg[f] ELSE NoConn
<1>1. ASSUME NEW c \in live \cup born,
             \/ \E f \in Fds : connections'[f] = c
             \/ \E t \in Threads :
                  \/ closing'[t] = c
                  \/ \E i \in DOMAIN tasks'[t] : tasks'[t][i].kind # "establish" /\ tasks'[t][i].arg = c
                  \/ \E i \in DOMAIN batch'[t] : batch'[t][i].kind # "establish" /\ batch'[t][i].arg = c
      PROVE  c \in live'
  BY <1>1 DEF Settle, Held, BoundIn
<1>2. live' \subseteq live \cup born
  BY DEF Settle
<1>3. \A f \in Fds : epoll'[f] = IF reg[f] \in live' THEN reg[f] ELSE NoConn
  BY DEF Settle
<1>4. HeldInv'
  BY <1>1 DEF HeldInv
<1>5. ASSUME NEW s \in Slots', TaskAt'[s].kind # "establish" PROVE TaskAt'[s].arg \in live'
  <2> PICK v \in Threads : \/ \E i \in DOMAIN tasks'[v] : s = Slot("tasks", v, i)
                          \/ \E i \in DOMAIN batch'[v] : i > ran'[v] /\ s = Slot("batch", v, i)
    BY <1>5, SlotsAreNext
  <2>1. ASSUME NEW i \in DOMAIN tasks'[v], s = Slot("tasks", v, i) PROVE TaskAt'[s].arg \in live'
    <3>1. TaskAt'[s] = tasks'[v][i]
      BY <2>1, SlotsAreNext
    <3> QED BY <1>4, <1>5, <3>1 DEF HeldInv
  <2>2. ASSUME NEW i \in DOMAIN batch'[v], i > ran'[v], s = Slot("batch", v, i)
        PROVE TaskAt'[s].arg \in live'
    <3>1. TaskAt'[s] = batch'[v][i]
      BY <2>2, SlotsAreNext
    <3> QED BY <1>4, <1>5, <3>1 DEF HeldInv
  <2> QED BY <2>1, <2>2
<1> QED BY <1>2, <1>3, <1>4, <1>5

(* A step that leaves connections, registrations and lists alone keeps what  *)
(* is said about them.                                                       *)
LEMMA Quiet ==
  ASSUME CoreInv, UNCHANGED <<connVars, epoll, tasks, batch, ran>>
  PROVE  SlotInv' /\ UniqueInv' /\ MapInv' /\ EpollInv'
<1>1. UNCHANGED <<connections, own, fdOf, state, inEpoll, live, epoll, tasks, batch, ran>>
  BY DEF connVars
<1>2. Slots' = Slots /\ TaskAt' = TaskAt
  BY <1>1 DEF Slots, Positions, TaskAt
<1>3. SlotInv'    BY <1>1, <1>2 DEF CoreInv, SlotInv
<1>4. UniqueInv'  BY <1>1, <1>2 DEF CoreInv, UniqueInv
<1>5. MapInv'     BY <1>1 DEF CoreInv, MapInv
<1>6. EpollInv'   BY <1>1, <1>2 DEF CoreInv, EpollInv
<1> QED BY <1>3, <1>4, <1>5, <1>6

(* Steps that take no object's last reference keep the objects.              *)
LEMMA HeldKept ==
  ASSUME HeldInv, UNCHANGED <<connections, live>>,
         \A v \in Threads : /\ tasks'[v] \in {tasks[v], <<>>}
                            /\ batch'[v] \in {batch[v], tasks[v], <<>>}
                            /\ closing'[v] \in live \cup {closing[v], NoConn}
  PROVE  HeldInv'
<1>1. \A f \in Fds : connections'[f] # NoConn => connections'[f] \in live'
  BY DEF HeldInv
<1>2. ASSUME NEW v \in Threads PROVE closing'[v] # NoConn => closing'[v] \in live'
  BY DEF HeldInv
<1>3. ASSUME NEW v \in Threads, NEW i \in DOMAIN tasks'[v], tasks'[v][i].kind # "establish"
      PROVE  tasks'[v][i].arg \in live'
  <2>1. tasks'[v] = tasks[v]
    BY <1>3
  <2> QED BY <1>3, <2>1 DEF HeldInv
<1>4. ASSUME NEW v \in Threads, NEW i \in DOMAIN batch'[v], batch'[v][i].kind # "establish"
      PROVE  batch'[v][i].arg \in live'
  <2>1. batch'[v] = batch[v] \/ batch'[v] = tasks[v]
    BY <1>4
  <2> QED BY <1>4, <2>1 DEF HeldInv
<1> QED BY <1>1, <1>2, <1>3, <1>4 DEF HeldInv

(* A step of one loop leaves what the others handle alone.                   *)
LEMMA LoopKept ==
  ASSUME LoopInv, NEW t \in Threads,
         \A v \in Threads \ {t} :
            /\ active'[v] = active[v] /\ phase'[v] = phase[v] /\ batch'[v] = batch[v]
            /\ closing'[v] = closing[v] /\ (wake[v] => wake'[v])
            /\ \A d \in active[v] \cap Conns : own'[d] = own[d] /\ epoll'[fdOf'[d]] = epoll[fdOf[d]]
            /\ closing[v] # NoConn => /\ own'[closing[v]] = own[closing[v]]
                                      /\ state'[closing[v]] = state[closing[v]],
         LoopOK(t)'
  PROVE  LoopInv'
<1>1. ASSUME NEW v \in Threads \ {t} PROVE LoopOK(v)'
  BY <1>1 DEF LoopInv, LoopOK
<1> QED BY <1>1 DEF LoopInv

LEMMA EnvironmentKeeps ==
  ASSUME CoreInv, Environment PROVE CoreInv'
<1>1. TypeOK'
  BY EnvironmentTypes DEF CoreInv
<1> PICK c \in Conns : PeerConnect(c) \/ PeerSend(c) \/ PeerClose(c) \/ TimerExpire(c)
  BY DEF Environment
<1>2. \A d \in Conns : timer'[d] # "none" => timer[d] # "none"
  BY DEF PeerConnect, PeerSend, PeerClose, TimerExpire, CoreInv, TypeOK
<1>3. /\ UNCHANGED <<connVars, epoll, loopVars, aborted>>
      /\ backlog' = backlog \/ (backlog' = backlog \cup {c} /\ c \notin live /\ state[c] = "Invalid")
  BY DEF PeerConnect, PeerSend, PeerClose, TimerExpire, kernelVars
<1>4. UNCHANGED <<connections, own, fdOf, state, inEpoll, live, epoll, aborted,
                  phase, active, tasks, batch, ran, wake, closing>>
  BY <1>3 DEF connVars, loopVars
<1>5. SlotInv' /\ UniqueInv' /\ MapInv' /\ EpollInv'
  BY <1>4, Quiet DEF connVars
<1>6. HeldInv'
  BY <1>4, HeldKept DEF CoreInv
<1>7. LoopInv'
  BY <1>4 DEF CoreInv, LoopInv, LoopOK
<1>8. RestInv'
  BY <1>2, <1>3, <1>4 DEF CoreInv, RestInv
<1> QED BY <1>1, <1>5, <1>6, <1>7, <1>8 DEF CoreInv

LEMMA PollKeeps ==
  ASSUME CoreInv, NEW t \in Threads, Poll(t), TypeOK' PROVE CoreInv'
<1>1. SlotInv' /\ UniqueInv' /\ MapInv' /\ EpollInv'
  BY Quiet DEF Poll
<1>2. UNCHANGED <<connections, own, fdOf, state, live, epoll, backlog, timer, tasks, batch,
                  wake, closing, aborted>>
  BY DEF Poll, connVars
<1>3. /\ phase[t] = "poll" /\ active'[t] = Ready(t) /\ phase'[t] = "events"
      /\ \A v \in Threads \ {t} : active'[v] = active[v] /\ phase'[v] = phase[v]
  BY DEF Poll, CoreInv, TypeOK
<1>4. /\ \A c \in Ready(t) \cap Conns : own[c] = t /\ epoll[fdOf[c]] = c
      /\ Wakeup \in Ready(t) => wake[t]
  <2>1. \A c \in Conns : c # Wakeup /\ c # Listen /\ c # Timer
    OBVIOUS
  <2>2. \A c \in Ready(t) \cap Conns : own[c] = t /\ epoll[fdOf[c]] = c
    BY <2>1 DEF Ready
  <2>3. Wakeup \notin edge
    BY <2>1 DEF CoreInv, TypeOK
  <2>4. Wakeup \in Ready(t) => wake[t]
    BY <2>3 DEF Ready
  <2> QED BY <2>2, <2>4
<1>5. closing[t] = NoConn /\ batch[t] = <<>>
  BY <1>3 DEF CoreInv, LoopInv, LoopOK
<1>6. LoopOK(t)'
  BY <1>2, <1>3, <1>4, <1>5 DEF LoopOK
<1>7. LoopInv'
  BY <1>2, <1>3, <1>6, LoopKept DEF CoreInv
<1>8. HeldInv'
  BY <1>2, HeldKept DEF CoreInv
<1>9. RestInv'
  BY <1>2 DEF CoreInv, RestInv
<1> QED BY <1>1, <1>7, <1>8, <1>9 DEF CoreInv

LEMMA HandleWakeupKeeps ==
  ASSUME CoreInv, NEW t \in Threads, HandleWakeup(t), TypeOK' PROVE CoreInv'
<1>1. phase[t] = "events" /\ closing[t] = NoConn /\ Wakeup \in active[t] /\ wake[t]
  BY DEF HandleWakeup, Idle, CoreInv, LoopInv, LoopOK
<1>2. /\ wake' = [wake EXCEPT ![t] = FALSE] /\ active' = [active EXCEPT ![t] = @ \ {Wakeup}]
      /\ UNCHANGED <<next, connVars, kernelVars, timer, phase, tasks, batch,
                     ran, closing, aborted>>
  BY <1>1 DEF HandleWakeup
<1>3. UNCHANGED <<connections, own, fdOf, state, live, epoll, backlog, timer, tasks, batch,
                  phase, closing, aborted>>
  BY <1>2 DEF connVars, kernelVars
<1>4. /\ active'[t] = active[t] \ {Wakeup}
      /\ \A v \in Threads \ {t} : active'[v] = active[v] /\ wake'[v] = wake[v]
  BY <1>2 DEF CoreInv, TypeOK
<1>5. SlotInv' /\ UniqueInv' /\ MapInv' /\ EpollInv'
  BY <1>2, Quiet DEF kernelVars
<1>6. LoopOK(t)
  BY DEF CoreInv, LoopInv
<1>7. LoopOK(t)'
  BY <1>1, <1>3, <1>4, <1>6 DEF LoopOK
<1>8. LoopInv'
  BY <1>3, <1>4, <1>7, LoopKept DEF CoreInv
<1>9. HeldInv'
  BY <1>3, HeldKept DEF CoreInv
<1>10. RestInv'
  BY <1>3 DEF CoreInv, RestInv
<1> QED BY <1>5, <1>8, <1>9, <1>10 DEF CoreInv

LEMMA HandleConnEventKeeps ==
  ASSUME CoreInv, NEW t \in Threads, NEW c \in Conns, HandleConnEvent(t, c), TypeOK' PROVE CoreInv'
<1>1. /\ phase[t] = "events" /\ closing[t] = NoConn /\ c \in active[t]
      /\ active' = [active EXCEPT ![t] = @ \ {c}]
      /\ UNCHANGED <<next, connVars, kernelVars, timer, phase, tasks, batch, ran, wake, aborted>>
  BY DEF HandleConnEvent, Idle
<1>2. closing' = closing \/ (closing' = [closing EXCEPT ![t] = c] /\ state[c] = "Connected")
  BY DEF HandleConnEvent
<1>3. UNCHANGED <<connections, own, fdOf, state, live, epoll, backlog, timer, tasks, batch,
                  phase, wake, aborted>>
  BY <1>1 DEF connVars, kernelVars
<1>4. /\ active'[t] = active[t] \ {c}
      /\ closing'[t] = NoConn \/ (closing'[t] = c /\ state[c] = "Connected")
      /\ \A v \in Threads \ {t} : active'[v] = active[v] /\ closing'[v] = closing[v]
  <2>1. DOMAIN active = Threads /\ DOMAIN closing = Threads
    BY DEF CoreInv, TypeOK
  <2>2. active'[t] = active[t] \ {c} /\ \A v \in Threads \ {t} : active'[v] = active[v]
    BY <1>1, <2>1
  <2>3. /\ closing'[t] = NoConn \/ (closing'[t] = c /\ state[c] = "Connected")
        /\ \A v \in Threads \ {t} : closing'[v] = closing[v]
    BY <1>1, <1>2, <2>1
  <2> QED BY <2>2, <2>3
<1>5. LoopOK(t)
  BY DEF CoreInv, LoopInv
<1>6. own[c] = t /\ epoll[fdOf[c]] = c
  BY <1>1, <1>5 DEF LoopOK
<1>7. c \in live
  <2>1. fdOf[c] \in Fds /\ epoll[fdOf[c]] # NoConn
    BY <1>6 DEF CoreInv, TypeOK
  <2> QED BY <1>6, <2>1 DEF CoreInv, EpollInv
<1>8. SlotInv' /\ UniqueInv' /\ MapInv' /\ EpollInv'
  BY <1>1, Quiet DEF kernelVars
<1>9. LoopOK(t)'
  BY <1>1, <1>3, <1>4, <1>5, <1>6 DEF LoopOK
<1>10. LoopInv'
  BY <1>3, <1>4, <1>9, LoopKept DEF CoreInv
<1>11. \A v \in Threads : closing'[v] \in live \cup {closing[v], NoConn}
  BY <1>4, <1>7
<1>12. HeldInv'
  BY <1>3, <1>11, HeldKept DEF CoreInv
<1>13. RestInv'
  BY <1>3 DEF CoreInv, RestInv
<1> QED BY <1>8, <1>10, <1>12, <1>13 DEF CoreInv

(* A timer that is due stands for a connection of the main loop, which was   *)
(* established: ActiveCloseConn closes it on its own thread.                 *)
LEMMA HandleTimerKeeps ==
  ASSUME CoreInv, NEW c \in Conns, HandleTimer(c), TypeOK' PROVE CoreInv'
<1> PICK m \in Threads : m = Main
  OBVIOUS
<1>1. /\ phase[m] = "events" /\ closing[m] = NoConn /\ timer[c] = "due"
      /\ timer' = [timer EXCEPT ![c] = "none"]
      /\ UNCHANGED <<next, connVars, kernelVars, phase, tasks, batch, ran, wake, aborted>>
  BY DEF HandleTimer, Idle
<1>2. UNCHANGED <<connections, own, fdOf, state, live, epoll, backlog, tasks, batch,
                  phase, wake, aborted>>
  BY <1>1 DEF connVars, kernelVars
<1>3. state[c] # "Invalid" /\ own[c] = m
  <2>1. timer[c] # "none"
    BY <1>1
  <2>2. NumLoops = 0 /\ state[c] # "Invalid"
    BY <2>1 DEF CoreInv, RestInv
  <2>3. own[c] \in Threads
    BY DEF CoreInv, TypeOK
  <2> QED BY <2>2, <2>3
<1>4. /\ active'[m] \subseteq active[m] /\ (Wakeup \in active'[m] => Wakeup \in active[m])
      /\ closing'[m] = NoConn \/ (closing'[m] = c /\ c \in live /\ state[c] = "Connected")
      /\ \A v \in Threads \ {m} : active'[v] = active[v] /\ closing'[v] = closing[v]
  <2>1. DOMAIN active = Threads /\ DOMAIN closing = Threads /\ state[c] \in {"Invalid", "Connected", "Closed"}
    BY DEF CoreInv, TypeOK
  <2>2. active'[m] \subseteq active[m] /\ \A v \in Threads \ {m} : active'[v] = active[v]
    BY <2>1 DEF HandleTimer
  <2>3. /\ closing'[m] = NoConn \/ (closing'[m] = c /\ c \in live /\ state[c] = "Connected")
        /\ \A v \in Threads \ {m} : closing'[v] = closing[v]
    BY <1>1, <1>3, <2>1 DEF HandleTimer
  <2> QED BY <2>2, <2>3
<1>5. LoopOK(m)
  BY DEF CoreInv, LoopInv
<1>6. SlotInv' /\ UniqueInv' /\ MapInv' /\ EpollInv'
  BY <1>1, Quiet DEF kernelVars
<1>7. LoopOK(m)'
  BY <1>1, <1>2, <1>3, <1>4, <1>5 DEF LoopOK
<1>8. LoopInv'
  BY <1>2, <1>4, <1>7, LoopKept DEF CoreInv
<1>9. \A v \in Threads : closing'[v] \in live \cup {closing[v], NoConn}
  BY <1>4
<1>10. HeldInv'
  BY <1>2, <1>9, HeldKept DEF CoreInv
<1>11. RestInv'
  <2>1. \A d \in Conns : timer'[d] # "none" => timer[d] # "none"
    BY <1>1 DEF CoreInv, TypeOK
  <2> QED BY <1>2, <2>1 DEF CoreInv, RestInv
<1> QED BY <1>6, <1>8, <1>10, <1>11 DEF CoreInv

LEMMA SwapTasksKeeps ==
  ASSUME CoreInv, NEW t \in Threads, SwapTasks(t), TypeOK' PROVE CoreInv'
<1>1. /\ phase[t] = "events" /\ closing[t] = NoConn /\ active[t] = {}
      /\ batch' = [batch EXCEPT ![t] = tasks[t]]
      /\ tasks' = [tasks EXCEPT ![t] = <<>>]
      /\ ran' = [ran EXCEPT ![t] = 0]
      /\ UNCHANGED <<next, connVars, kernelVars, timer, active, wake, closing, aborted>>
  BY DEF SwapTasks, Idle
<1>2. LoopOK(t)
  BY DEF CoreInv, LoopInv
<1>3. batch[t] = <<>>
  BY <1>1, <1>2 DEF LoopOK
<1> PICK F \in [Slots' -> Slots] :
           /\ \A s \in Slots' : F[s].loop = s.loop /\ TaskAt'[s] = TaskAt[F[s]]
           /\ \A r, s \in Slots' : F[r] = F[s] => r = s
           /\ \A s \in Slots : \E r \in Slots' : F[r] = s
  BY <1>1, <1>3, SwapSlots DEF CoreInv
<1>4. UNCHANGED <<connections, own, fdOf, state, inEpoll, live, epoll, backlog, timer,
                  active, wake, closing, aborted>>
  BY <1>1 DEF connVars, kernelVars
<1>5. SlotInv'
  BY <1>4 DEF CoreInv, SlotInv
<1>6. UniqueInv'
  BY <1>4 DEF CoreInv, UniqueInv
<1>7. EpollInv'
  BY <1>4 DEF CoreInv, EpollInv
<1>8. MapInv' /\ RestInv'
  BY <1>4 DEF CoreInv, MapInv, RestInv
<1>9. /\ batch'[t] = tasks[t] /\ tasks'[t] = <<>>
      /\ tasks[t] # <<>> => phase'[t] = "tasks"
      /\ \A v \in Threads \ {t} : /\ batch'[v] = batch[v] /\ tasks'[v] = tasks[v]
                                  /\ phase'[v] = phase[v]
  <2>1. CASE tasks[t] = <<>>
    <3>1. phase' = [phase EXCEPT ![t] = "poll"]
      BY <2>1 DEF SwapTasks
    <3> QED BY <1>1, <2>1, <3>1 DEF CoreInv, TypeOK
  <2>2. CASE tasks[t] # <<>>
    <3>1. phase' = [phase EXCEPT ![t] = "tasks"]
      BY <2>2 DEF SwapTasks
    <3> QED BY <1>1, <2>2, <3>1 DEF CoreInv, TypeOK
  <2> QED BY <2>1, <2>2
<1>10. \A v \in Threads : /\ tasks'[v] \in {tasks[v], <<>>}
                          /\ batch'[v] \in {batch[v], tasks[v], <<>>}
  BY <1>9
<1>11. HeldInv'
  BY <1>4, <1>10, HeldKept DEF CoreInv
<1>12. LoopOK(t)'
  BY <1>1, <1>4, <1>9 DEF LoopOK
<1>13. LoopInv'
  BY <1>4, <1>9, <1>12, LoopKept DEF CoreInv
<1> QED BY <1>5, <1>6, <1>7, <1>8, <1>11, <1>13 DEF CoreInv

-----------------------------------------------------------------------------
(* The steps that queue or run functors.                                     *)

(* A functor that runs and queues another moves one slot.                    *)
LEMMA RunQueueSlots ==
  ASSUME TypeOK, NEW t \in Threads, ran[t] + 1 \in DOMAIN batch[t],
         NEW v \in Threads, NEW u \in Threads, NEW task \in Task, Queue(v, u, task),
         ran'[t] = ran[t] + 1, \A w \in Threads \ {t} : ran'[w] = ran[w], UNCHANGED batch
  PROVE  \E r \in Slots : \E n :
            /\ r.loop = t /\ TaskAt[r] = Current(t)
            /\ n \notin Slots /\ n.loop = u
            /\ Slots' = (Slots \ {r}) \cup {n}
            /\ TaskAt'[n] = task
            /\ \A s \in Slots \ {r} : TaskAt'[s] = TaskAt[s]
<1> DEFINE k == ran[t] + 1
           r == Slot("batch", t, k)
           m == Len(tasks[u]) + 1
           n == Slot("tasks", u, m)
<1>1. k \in DOMAIN batch[t] /\ ran \in [Threads -> Nat] /\ ran'[t] = k
      /\ \A w \in Threads : w # t => ran'[w] = ran[w]
  BY DEF TypeOK
<1>2. r \in Slots /\ TaskAt[r] = Current(t) /\ r.loop = t
  <2>1. k > ran[t]
    BY <1>1
  <2>2. r \in Slots /\ TaskAt[r] = batch[t][k]
    BY <1>1, <2>1, SlotsAre
  <2> QED BY <2>2 DEF Current, Slot
<1>3. ASSUME r \in Slots' PROVE FALSE
  <2> PICK w \in Threads : \/ \E i \in DOMAIN tasks'[w] : r = Slot("tasks", w, i)
                          \/ \E i \in DOMAIN batch'[w] : i > ran'[w] /\ r = Slot("batch", w, i)
    BY <1>3, SlotsAreNext
  <2>1. w = t /\ k > ran'[t]
    BY DEF Slot
  <2> QED BY <1>1, <2>1
<1>4. ASSUME NEW w \in Threads PROVE DOMAIN batch[w] \subseteq Nat
  <2>1. batch[w] \in Seq(Task)
    BY DEF TypeOK
  <2> QED BY <2>1
<1>5. /\ tasks[u] \in Seq(Task) /\ Append(tasks[u], task) \in Seq(Task)
      /\ Len(Append(tasks[u], task)) = m
      /\ Append(tasks[u], task)[m] = task
      /\ \A i \in 1 .. Len(tasks[u]) : Append(tasks[u], task)[i] = tasks[u][i]
  BY DEF TypeOK
<1>6. /\ tasks'[u] = Append(tasks[u], task)
      /\ \A w \in Threads : w # u => tasks'[w] = tasks[w]
  BY DEF TypeOK, Queue
<1>7. /\ DOMAIN tasks[u] = 1 .. Len(tasks[u])
      /\ DOMAIN tasks'[u] = 1 .. m
      /\ Len(tasks[u]) \in Nat
  BY <1>5, <1>6
<1>8. n \notin Slots /\ n.loop = u
  BY <1>7, SlotsAre DEF Slot
<1>9. n \in Slots' /\ TaskAt'[n] = task
  BY <1>5, <1>6, <1>7, SlotsAreNext
<1>10. ASSUME NEW s \in Slots, s # r PROVE s \in Slots' /\ TaskAt'[s] = TaskAt[s]
  <2> PICK w \in Threads : \/ \E i \in DOMAIN tasks[w] : s = Slot("tasks", w, i)
                          \/ \E i \in DOMAIN batch[w] : i > ran[w] /\ s = Slot("batch", w, i)
    BY <1>10, SlotsAre
  <2>1. ASSUME NEW i \in DOMAIN tasks[w], s = Slot("tasks", w, i)
        PROVE  s \in Slots' /\ TaskAt'[s] = TaskAt[s]
    <3>1. i \in DOMAIN tasks'[w] /\ tasks'[w][i] = tasks[w][i]
      <4>1. CASE w # u
        BY <1>6, <4>1
      <4>2. CASE w = u
        BY <1>5, <1>6, <1>7, <4>2
      <4> QED BY <4>1, <4>2
    <3> QED BY <2>1, <3>1, SlotsAre, SlotsAreNext
  <2>2. ASSUME NEW i \in DOMAIN batch[w], i > ran[w], s = Slot("batch", w, i)
        PROVE  s \in Slots' /\ TaskAt'[s] = TaskAt[s]
    <3>1. i > ran'[w]
      BY <1>1, <1>4, <1>10, <2>2
    <3> QED BY <2>2, <3>1, SlotsAre, SlotsAreNext
  <2> QED BY <2>1, <2>2
<1>11. ASSUME NEW s \in Slots' PROVE s \in Slots \cup {n}
  <2> PICK w \in Threads : \/ \E i \in DOMAIN tasks'[w] : s = Slot("tasks", w, i)
                          \/ \E i \in DOMAIN batch'[w] : i > ran'[w] /\ s = Slot("batch", w, i)
    BY <1>11, SlotsAreNext
  <2>1. ASSUME NEW i \in DOMAIN tasks'[w], s = Slot("tasks", w, i)
        PROVE  s \in Slots \cup {n}
    <3>1. CASE w # u
      BY <1>6, <2>1, <3>1, SlotsAre
    <3>2. CASE w = u
      <4>1. i \in DOMAIN tasks[w] \/ i = m
        BY <1>7, <2>1, <3>2
      <4> QED BY <2>1, <3>2, <4>1, SlotsAre
    <3> QED BY <3>1, <3>2
  <2>2. ASSUME NEW i \in DOMAIN batch'[w], i > ran'[w], s = Slot("batch", w, i)
        PROVE  s \in Slots \cup {n}
    <3>1. i > ran[w]
      BY <1>1, <1>4, <2>2
    <3> QED BY <2>2, <3>1, SlotsAre
  <2> QED BY <2>1, <2>2
<1> HIDE DEF r, n
<1>12. Slots' = (Slots \ {r}) \cup {n}
  BY <1>3, <1>8, <1>9, <1>10, <1>11
<1> QED BY <1>2, <1>8, <1>9, <1>10, <1>12

(* A queued functor refers to what is alive if its own object is.            *)
LEMMA QueueRefs ==
  ASSUME TypeOK, HeldInv, NEW t \in Threads, NEW u \in Threads, NEW task \in Task,
         Queue(t, u, task), NEW S, live \subseteq S,
         task.kind # "establish" => task.arg \in S
  PROVE  \A v \in Threads : \A i \in DOMAIN tasks'[v] :
           tasks'[v][i].kind # "establish" => tasks'[v][i].arg \in S
<1>1. /\ tasks[u] \in Seq(Task) /\ DOMAIN tasks[u] = 1 .. Len(tasks[u])
      /\ Len(tasks[u]) \in Nat
  BY DEF TypeOK
<1>2. /\ tasks'[u] = Append(tasks[u], task)
      /\ \A v \in Threads : v # u => tasks'[v] = tasks[v]
  BY DEF TypeOK, Queue
<1>3. /\ DOMAIN tasks'[u] = 1 .. Len(tasks[u]) + 1
      /\ tasks'[u][Len(tasks[u]) + 1] = task
      /\ \A i \in 1 .. Len(tasks[u]) : tasks'[u][i] = tasks[u][i]
  BY <1>1, <1>2
<1>4. ASSUME NEW v \in Threads, NEW i \in DOMAIN tasks'[v], tasks'[v][i].kind # "establish"
      PROVE  tasks'[v][i].arg \in S
  <2>1. CASE v # u
    BY <1>2, <1>4, <2>1 DEF HeldInv
  <2>2. CASE v = u
    <3>1. i \in DOMAIN tasks[u] \/ i = Len(tasks[u]) + 1
      BY <1>1, <1>3, <2>2
    <3> QED BY <1>1, <1>3, <1>4, <2>2, <3>1 DEF HeldInv
  <2> QED BY <2>1, <2>2
<1> QED BY <1>4

(* A step that ends with Settle and registers nothing drops no registration: *)
(* whatever is registered is still in the map or awaited by its Destroy.     *)
LEMMA NothingDropped ==
  ASSUME CoreInv, TypeOK', Settle({}, epoll), UNCHANGED <<own, fdOf, inEpoll>>,
         \A d \in Conns : \/ state'[d] = state[d]
                          \/ state[d] = "Connected" /\ state'[d] = "Closed",
         \A f \in Fds : \/ connections'[f] = connections[f]
                        \/ /\ connections'[f] = NoConn /\ connections[f] # NoConn
                           /\ state'[connections[f]] = "Closed"
                           /\ \E s \in Slots' : TaskAt'[s] = Destroy(connections[f]),
         \A s \in Slots : TaskAt[s].kind = "destroy" => \E r \in Slots' : TaskAt'[r] = TaskAt[s],
         \A f \in Fds : connections'[f] # NoConn => connections'[f] \in live,
         \A t \in Threads :
           /\ closing'[t] # NoConn => closing'[t] \in live
           /\ \A i \in DOMAIN tasks'[t] :
                tasks'[t][i].kind # "establish" => tasks'[t][i].arg \in live
           /\ \A i \in DOMAIN batch'[t] :
                batch'[t][i].kind # "establish" => batch'[t][i].arg \in live
  PROVE  HeldInv' /\ MapInv' /\ EpollInv' /\ epoll' = epoll /\ live' \subseteq live
<1>1. /\ HeldInv'
      /\ live' \subseteq live
      /\ \A s \in Slots' : TaskAt'[s].kind # "establish" => TaskAt'[s].arg \in live'
      /\ \A f \in Fds : epoll'[f] = IF epoll[f] \in live' THEN epoll[f] ELSE NoConn
  BY Settled DEF CoreInv, TypeOK
<1>2. ASSUME NEW f \in Fds, epoll[f] # NoConn
      PROVE  /\ epoll[f] \in live' /\ fdOf[epoll[f]] = f /\ state'[epoll[f]] # "Invalid"
             /\ connections'[f] = epoll[f] \/ \E s \in Slots' : TaskAt'[s] = Destroy(epoll[f])
  <2> DEFINE c == epoll[f]
  <2>1. /\ c \in live /\ fdOf[c] = f /\ state[c] # "Invalid"
        /\ connections[f] = c \/ \E s \in Slots : TaskAt[s] = Destroy(c)
    BY <1>2 DEF CoreInv, EpollInv
  <2>2. connections'[f] = c \/ \E s \in Slots' : TaskAt'[s] = Destroy(c)
    BY <2>1 DEF Destroy
  <2>3. c \in live'
    <3>1. CASE connections'[f] = c
      BY <1>1, <1>2, <3>1 DEF HeldInv
    <3>2. ASSUME NEW s \in Slots', TaskAt'[s] = Destroy(c) PROVE c \in live'
      BY <1>1, <3>2 DEF Destroy
    <3> QED BY <2>2, <3>1, <3>2
  <2>4. c \in Conns
    BY <2>1 DEF CoreInv, TypeOK
  <2>5. state'[c] # "Invalid"
    BY <2>1, <2>4
  <2> QED BY <2>1, <2>2, <2>3, <2>5
<1>3. \A f \in Fds : epoll'[f] = epoll[f]
  BY <1>1, <1>2
<1>4. epoll' = epoll
  BY <1>3 DEF CoreInv, TypeOK
<1>5. live' \subseteq Conns
  BY DEF TypeOK
<1>6. MapInv'
  <2>1. \A c, d \in live' : fdOf'[c] = fdOf'[d] => c = d
    BY <1>1 DEF CoreInv, MapInv
  <2>2. ASSUME NEW c \in live', state'[c] # "Closed" PROVE connections'[fdOf'[c]] = c
    <3>1. state[c] # "Closed" /\ c \in live /\ fdOf[c] \in Fds /\ c # NoConn
      BY <1>1, <1>5, <2>2 DEF CoreInv, TypeOK
    <3>2. connections[fdOf[c]] = c
      BY <3>1 DEF CoreInv, MapInv
    <3> QED BY <2>2, <3>1, <3>2
  <2>3. \A f \in Fds : connections'[f] # NoConn => fdOf'[connections'[f]] = f
    BY DEF CoreInv, MapInv
  <2> QED BY <2>1, <2>2, <2>3 DEF MapInv
<1>7. EpollInv'
  <2>1. ASSUME NEW c \in live', state'[c] = "Connected" PROVE epoll'[fdOf'[c]] = c
    <3>1. state[c] = "Connected" /\ c \in live
      BY <1>1, <1>5, <2>1
    <3> QED BY <1>4, <3>1 DEF CoreInv, EpollInv
  <2>2. ASSUME NEW c \in Conns, state'[c] = "Invalid" PROVE ~inEpoll'[c]
    <3>1. state[c] = "Invalid"
      BY <2>2
    <3> QED BY <3>1 DEF CoreInv, EpollInv
  <2> QED BY <1>2, <1>4, <2>1, <2>2 DEF EpollInv
<1> QED BY <1>1, <1>4, <1>6, <1>7

(* What a pending Delete or Destroy says of its connection.                  *)
LEMMA SlotArgs ==
  ASSUME CoreInv, NEW s \in Slots
  PROVE  /\ TaskAt[s].kind = "establish" => TaskAt[s] = Establish(TaskAt[s].arg) /\ TaskAt[s].arg \in Fds
         /\ TaskAt[s].kind = "delete"    => TaskAt[s] = Delete(TaskAt[s].arg)
         /\ TaskAt[s].kind = "destroy"   => TaskAt[s] = Destroy(TaskAt[s].arg)
         /\ TaskAt[s].kind # "establish" => /\ TaskAt[s].arg \in live
                                            /\ TaskAt[s].arg \in Conns
                                            /\ fdOf[TaskAt[s].arg] \in Fds
         /\ TaskAt[s].kind \in {"establish", "delete", "destroy"}
<1>1. TaskAt[s] \in Task
  BY SlotType DEF CoreInv
<1>2. ASSUME TaskAt[s].kind # "establish"
      PROVE  TaskAt[s].arg \in live /\ TaskAt[s].arg \in Conns /\ fdOf[TaskAt[s].arg] \in Fds
  <2> DEFINE c == TaskAt[s].arg
  <2>1. c \in Conns /\ TaskAt[s].kind \in {"delete", "destroy"}
    BY <1>1, <1>2 DEF Task
  <2>2. fdOf[c] \in Fds /\ epoll[fdOf[c]] = c /\ c # NoConn
    BY <2>1 DEF CoreInv, SlotInv, TypeOK
  <2> QED BY <2>1, <2>2 DEF CoreInv, EpollInv
<1> QED BY <1>1, <1>2 DEF Task, Establish, Delete, Destroy

(* Queueing never clears an eventfd.                                         *)
LEMMA QueueWakes ==
  ASSUME TypeOK, NEW t, NEW u \in Threads, NEW task, Queue(t, u, task)
  PROVE  \A v \in Threads : wake[v] => wake'[v]
<1>1. wake' = [wake EXCEPT ![u] = wake[u] \/ Wakes(t, u)] /\ DOMAIN wake = Threads
  BY DEF Queue, TypeOK
<1>2. ASSUME NEW v \in Threads \ {u} PROVE wake'[v] = wake[v]
  BY <1>1, <1>2
<1>3. wake'[u] = (wake[u] \/ Wakes(t, u))
  BY <1>1
<1>4. wake[u] => wake'[u]
  BY <1>3, Zenon
<1> QED BY <1>2, <1>4

LEMMA FinishCloseKeeps ==
  ASSUME CoreInv, NEW t \in Threads, FinishClose(t), TypeOK' PROVE CoreInv'
<1> DEFINE c == closing[t]
           task == IF t = Main THEN Destroy(c) ELSE Delete(c)
<1>1. /\ c \in Conns /\ c # NoConn /\ c \in live /\ own[c] = t /\ state[c] = "Connected"
      /\ phase[t] = "events" /\ batch[t] = <<>> /\ fdOf[c] \in Fds
  <2>1. c \in Conns /\ c # NoConn
    BY DEF FinishClose, CoreInv, TypeOK
  <2>2. LoopOK(t)
    BY DEF CoreInv, LoopInv
  <2> QED BY <2>1, <2>2 DEF LoopOK, CoreInv, HeldInv, TypeOK
<1>2. connections[fdOf[c]] = c /\ epoll[fdOf[c]] = c
  BY <1>1 DEF CoreInv, MapInv, EpollInv
<1>3. Main \in Threads
  OBVIOUS
<1>4. task \in Task /\ task.kind \in {"delete", "destroy"} /\ task.arg = c
  BY <1>1 DEF Task, Delete, Destroy
<1>5. /\ state' = [state EXCEPT ![c] = "Closed"] /\ closing' = [closing EXCEPT ![t] = NoConn]
      /\ UNCHANGED <<next, own, fdOf, inEpoll, backlog, edge, eof, timer, phase,
                     active, batch, ran, aborted>>
      /\ Settle({}, epoll)
  BY DEF FinishClose
<1>6. Queue(t, Main, task)
  BY <1>1 DEF FinishClose, CloseInMain
<1>7. \A f \in Fds : \/ connections'[f] = connections[f] /\ (t = Main => f # fdOf[c])
                     \/ t = Main /\ f = fdOf[c] /\ connections'[f] = NoConn
  <2>1. CASE t = Main
    <3>1. connections' = [connections EXCEPT ![fdOf[c]] = NoConn]
      BY <2>1 DEF FinishClose, CloseInMain
    <3> QED BY <2>1, <3>1 DEF CoreInv, TypeOK
  <2>2. CASE t # Main
    BY <2>2 DEF FinishClose
  <2> QED BY <2>1, <2>2
<1> PICK n : /\ n \notin Slots /\ n.loop = Main
             /\ Slots' = Slots \cup {n}
             /\ TaskAt'[n] = task
             /\ \A s \in Slots : TaskAt'[s] = TaskAt[s]
  BY <1>3, <1>4, <1>5, <1>6, QueueSlots DEF CoreInv
<1>8. /\ state'[c] = "Closed" /\ \A d \in Conns \ {c} : state'[d] = state[d]
      /\ closing'[t] = NoConn /\ \A v \in Threads \ {t} : closing'[v] = closing[v]
  BY <1>1, <1>5 DEF CoreInv, TypeOK
<1>9. \A v \in Threads : \A i \in DOMAIN tasks'[v] :
        tasks'[v][i].kind # "establish" => tasks'[v][i].arg \in live
  BY <1>1, <1>3, <1>4, <1>6, QueueRefs DEF CoreInv
<1> HIDE DEF c, task
<1>10. HeldInv' /\ MapInv' /\ EpollInv' /\ epoll' = epoll /\ live' \subseteq live
  <2>1. \A d \in Conns : \/ state'[d] = state[d]
                         \/ state[d] = "Connected" /\ state'[d] = "Closed"
    BY <1>1, <1>8
  <2>2. t = Main => task = Destroy(c)
    BY DEF task
  <2>3. \A f \in Fds : \/ connections'[f] = connections[f]
                       \/ /\ connections'[f] = NoConn /\ connections[f] # NoConn
                          /\ state'[connections[f]] = "Closed"
                          /\ \E s \in Slots' : TaskAt'[s] = Destroy(connections[f])
    BY <1>1, <1>2, <1>7, <1>8, <2>2
  <2>4. \A s \in Slots : TaskAt[s].kind = "destroy" => \E r \in Slots' : TaskAt'[r] = TaskAt[s]
    OBVIOUS
  <2>5. \A f \in Fds : connections'[f] # NoConn => connections'[f] \in live
    BY <1>7 DEF CoreInv, HeldInv
  <2>6. \A v \in Threads :
          /\ closing'[v] # NoConn => closing'[v] \in live
          /\ \A i \in DOMAIN batch'[v] :
               batch'[v][i].kind # "establish" => batch'[v][i].arg \in live
    BY <1>5, <1>8 DEF CoreInv, HeldInv
  <2> QED BY <1>5, <1>9, <2>1, <2>3, <2>4, <2>5, <2>6, NothingDropped
<1>11. SlotInv'
  <2> SUFFICES ASSUME NEW s \in Slots'
               PROVE  LET kind == TaskAt'[s].kind
                          d == TaskAt'[s].arg IN
                      /\ kind = "establish" => /\ connections'[d] # NoConn
                                               /\ own'[connections'[d]] = s.loop
                                               /\ state'[connections'[d]] = "Invalid"
                      /\ kind = "delete"  => /\ state'[d] = "Closed"
                                             /\ connections'[fdOf'[d]] = d
                                             /\ epoll'[fdOf'[d]] = d
                      /\ kind = "destroy" => /\ state'[d] = "Closed"
                                             /\ own'[d] = s.loop
                                             /\ connections'[fdOf'[d]] # d
                                             /\ epoll'[fdOf'[d]] = d
    BY DEF SlotInv
  <2>1. CASE s = n
    <3>1. CASE t = Main
      <4>1. task.kind = "destroy"
        BY <3>1 DEF task, Destroy
      <4> QED BY <1>1, <1>2, <1>4, <1>5, <1>7, <1>8, <1>10, <2>1, <3>1, <4>1
    <3>2. CASE t # Main
      <4>1. task.kind = "delete"
        BY <3>2 DEF task, Delete
      <4> QED BY <1>1, <1>2, <1>4, <1>5, <1>7, <1>8, <1>10, <2>1, <3>2, <4>1
    <3> QED BY <3>1, <3>2
  <2>2. CASE s \in Slots
    <3> DEFINE d == TaskAt[s].arg
    <3>1. TaskAt'[s] = TaskAt[s] /\ TaskAt[s].kind \in {"establish", "delete", "destroy"}
      BY <2>2, SlotArgs
    <3>2. CASE TaskAt[s].kind = "establish"
      <4>1. d \in Fds /\ connections[d] # NoConn /\ own[connections[d]] = s.loop
            /\ state[connections[d]] = "Invalid"
        BY <2>2, <3>2, SlotArgs DEF CoreInv, SlotInv
      <4>2. connections[d] \in Conns /\ connections[d] # c
        <5>1. connections[d] # c
          BY <1>1, <4>1
        <5>2. connections \in [Fds -> Conns \cup {NoConn}]
          BY DEF CoreInv, TypeOK
        <5> QED BY <4>1, <5>1, <5>2
      <4>3. connections'[d] = connections[d]
        BY <1>2, <1>7, <4>1, <4>2
      <4> QED BY <1>5, <1>8, <3>1, <3>2, <4>1, <4>2, <4>3
    <3>3. CASE TaskAt[s].kind = "delete"
      <4>1. d \in Conns /\ fdOf[d] \in Fds /\ state[d] = "Closed" /\ connections[fdOf[d]] = d
            /\ epoll[fdOf[d]] = d
        BY <2>2, <3>3, SlotArgs DEF CoreInv, SlotInv
      <4>2. d # c
        BY <1>1, <4>1
      <4>3. connections'[fdOf[d]] = d
        BY <1>2, <1>7, <4>1, <4>2
      <4> QED BY <1>5, <1>8, <1>10, <3>1, <3>3, <4>1, <4>2, <4>3
    <3>4. CASE TaskAt[s].kind = "destroy"
      <4>1. d \in Conns /\ fdOf[d] \in Fds /\ state[d] = "Closed" /\ own[d] = s.loop
            /\ connections[fdOf[d]] # d /\ epoll[fdOf[d]] = d /\ d # NoConn
        BY <2>2, <3>4, SlotArgs DEF CoreInv, SlotInv
      <4>2. d # c
        BY <1>1, <4>1
      <4>3. connections'[fdOf[d]] # d
        BY <1>7, <4>1
      <4> QED BY <1>5, <1>8, <1>10, <3>1, <3>4, <4>1, <4>2, <4>3
    <3> QED BY <3>1, <3>2, <3>3, <3>4
  <2> QED BY <2>1, <2>2
<1>12. UniqueInv'
  <2>1. ASSUME NEW s \in Slots PROVE TaskAt[s] # task
    BY <1>1, <1>4 DEF CoreInv, SlotInv
  <2> QED BY <2>1 DEF CoreInv, UniqueInv
<1>13. LoopInv'
  <2>1. \A v \in Threads : LoopOK(v)
    BY DEF CoreInv, LoopInv
  <2>2. \A v \in Threads : wake[v] => wake'[v]
    BY <1>6, QueueWakes DEF CoreInv
  <2>3. LoopOK(t)'
    BY <1>1, <1>5, <1>8, <1>10, <2>1, <2>2 DEF LoopOK
  <2>4. ASSUME NEW v \in Threads \ {t}, closing[v] # NoConn
        PROVE  state'[closing[v]] = state[closing[v]]
    BY <1>1, <1>8, <2>1, <2>4 DEF LoopOK, CoreInv, TypeOK
  <2> QED BY <1>5, <1>8, <1>10, <2>2, <2>3, <2>4, LoopKept DEF CoreInv
<1>14. RestInv'
  <2>1. ASSUME NEW d \in backlog' PROVE d \notin live' /\ state'[d] = "Invalid"
    <3>1. d \in Conns /\ d \notin live /\ state[d] = "Invalid"
      BY <1>5, <2>1 DEF CoreInv, RestInv, TypeOK
    <3> QED BY <1>1, <1>8, <1>10, <3>1
  <2>2. ASSUME NEW d \in Conns, timer'[d] # "none" PROVE NumLoops = 0 /\ state'[d] # "Invalid"
    <3>1. NumLoops = 0 /\ state[d] # "Invalid"
      BY <1>5, <2>2 DEF CoreInv, RestInv
    <3>2. state'[d] = state[d] \/ state'[d] = "Closed"
      BY <1>8
    <3> QED BY <3>1, <3>2
  <2>3. aborted' \in {"no", "accept"}
    BY <1>5 DEF CoreInv, RestInv
  <2> QED BY <2>1, <2>2, <2>3 DEF RestInv
<1> QED BY <1>10, <1>11, <1>12, <1>13, <1>14 DEF CoreInv

LEMMA RunDeleteKeeps ==
  ASSUME CoreInv, NEW t \in Threads, RunDelete(t), TypeOK' PROVE CoreInv'
<1>1. Running(t, "delete") /\ Current(t).kind = "delete" /\ Current(t) \in Task
  BY CurrentType DEF RunDelete, CoreInv
<1> PICK c \in Conns : Current(t) = Delete(c)
  BY <1>1 DEF Task, Delete
<1> PICK u \in Threads : u = own[c]
  BY DEF CoreInv, TypeOK
<1>2. /\ Main \in Threads /\ fdOf[c] \in Fds
      /\ Destroy(c) \in Task /\ Destroy(c).kind = "destroy" /\ Destroy(c).arg = c
      /\ Delete(c).kind = "delete" /\ Delete(c).arg = c
  BY DEF Task, Destroy, Delete, CoreInv, TypeOK
<1>3. /\ ran' = [ran EXCEPT ![t] = @ + 1]
      /\ connections' = [connections EXCEPT ![fdOf[c]] = NoConn]
      /\ Queue(Main, u, Destroy(c))
      /\ UNCHANGED <<next, own, fdOf, state, inEpoll, backlog, edge, eof, timer, phase,
                     active, batch, closing, aborted>>
      /\ Settle({}, epoll)
  BY <1>2 DEF RunDelete, CloseInMain
<1> PICK r \in Slots : \E n :
           /\ r.loop = t /\ TaskAt[r] = Current(t)
           /\ n \notin Slots /\ n.loop = u
           /\ Slots' = (Slots \ {r}) \cup {n}
           /\ TaskAt'[n] = Destroy(c)
           /\ \A s \in Slots \ {r} : TaskAt'[s] = TaskAt[s]
  <2> PICK v \in Threads : Queue(v, u, Destroy(c))
    BY <1>2, <1>3
  <2>1. TypeOK /\ UNCHANGED batch /\ ran'[t] = ran[t] + 1 /\ \A w \in Threads \ {t} : ran'[w] = ran[w]
    BY <1>3 DEF CoreInv, TypeOK
  <2>2. ran[t] + 1 \in DOMAIN batch[t]
    BY <1>1, CurrentType DEF CoreInv
  <2> QED BY <1>2, <2>1, <2>2, RunQueueSlots
<1> PICK n :
           /\ r.loop = t /\ TaskAt[r] = Current(t)
           /\ n \notin Slots /\ n.loop = u
           /\ Slots' = (Slots \ {r}) \cup {n}
           /\ TaskAt'[n] = Destroy(c)
           /\ \A s \in Slots \ {r} : TaskAt'[s] = TaskAt[s]
  OBVIOUS
<1>4. /\ c \in live /\ state[c] = "Closed" /\ connections[fdOf[c]] = c /\ epoll[fdOf[c]] = c
      /\ TaskAt[r].kind = "delete" /\ TaskAt[r].arg = c /\ TaskAt[r] = Delete(c) /\ c # NoConn
  BY <1>2, SlotArgs DEF CoreInv, SlotInv
<1>5. /\ connections'[fdOf[c]] = NoConn
      /\ \A f \in Fds \ {fdOf[c]} : connections'[f] = connections[f]
  BY <1>2, <1>3 DEF CoreInv, TypeOK
<1>6. \A v \in Threads : \A i \in DOMAIN tasks'[v] :
        tasks'[v][i].kind # "establish" => tasks'[v][i].arg \in live
  BY <1>2, <1>3, <1>4, QueueRefs DEF CoreInv
<1>7. HeldInv' /\ MapInv' /\ EpollInv' /\ epoll' = epoll /\ live' \subseteq live
  <2>1. \A f \in Fds : \/ connections'[f] = connections[f]
                       \/ /\ connections'[f] = NoConn /\ connections[f] # NoConn
                          /\ state'[connections[f]] = "Closed"
                          /\ \E s \in Slots' : TaskAt'[s] = Destroy(connections[f])
    BY <1>3, <1>4, <1>5
  <2>2. \A s \in Slots : TaskAt[s].kind = "destroy" => \E q \in Slots' : TaskAt'[q] = TaskAt[s]
    BY <1>4
  <2>3. \A f \in Fds : connections'[f] # NoConn => connections'[f] \in live
    BY <1>5 DEF CoreInv, HeldInv
  <2>4. \A v \in Threads :
          /\ closing'[v] # NoConn => closing'[v] \in live
          /\ \A i \in DOMAIN batch'[v] :
               batch'[v][i].kind # "establish" => batch'[v][i].arg \in live
    BY <1>3 DEF CoreInv, HeldInv
  <2> QED BY <1>3, <1>6, <2>1, <2>2, <2>3, <2>4, NothingDropped
<1>8. \A s \in Slots \ {r} : TaskAt[s] # Delete(c) /\ TaskAt[s] # Destroy(c)
  <2>1. \A s \in Slots \ {r} : TaskAt[s] # Delete(c)
    BY <1>4 DEF CoreInv, UniqueInv
  <2>2. \A s \in Slots : TaskAt[s] # Destroy(c)
    BY <1>2, <1>4 DEF CoreInv, SlotInv
  <2> QED BY <2>1, <2>2
<1>9. SlotInv'
  <2> SUFFICES ASSUME NEW s \in Slots'
               PROVE  LET kind == TaskAt'[s].kind
                          d == TaskAt'[s].arg IN
                      /\ kind = "establish" => /\ connections'[d] # NoConn
                                               /\ own'[connections'[d]] = s.loop
                                               /\ state'[connections'[d]] = "Invalid"
                      /\ kind = "delete"  => /\ state'[d] = "Closed"
                                             /\ connections'[fdOf'[d]] = d
                                             /\ epoll'[fdOf'[d]] = d
                      /\ kind = "destroy" => /\ state'[d] = "Closed"
                                             /\ own'[d] = s.loop
                                             /\ connections'[fdOf'[d]] # d
                                             /\ epoll'[fdOf'[d]] = d
    BY DEF SlotInv
  <2>1. CASE s = n
    BY <1>2, <1>3, <1>4, <1>5, <1>7, <2>1
  <2>2. CASE s \in Slots \ {r}
    <3> DEFINE d == TaskAt[s].arg
    <3>1. TaskAt'[s] = TaskAt[s] /\ TaskAt[s].kind \in {"establish", "delete", "destroy"}
      BY <2>2, SlotArgs
    <3>2. CASE TaskAt[s].kind = "establish"
      <4>1. d \in Fds /\ connections[d] # NoConn /\ own[connections[d]] = s.loop
            /\ state[connections[d]] = "Invalid"
        BY <2>2, <3>2, SlotArgs DEF CoreInv, SlotInv
      <4>2. connections'[d] = connections[d]
        BY <1>4, <1>5, <4>1
      <4> QED BY <1>3, <3>1, <3>2, <4>1, <4>2
    <3>3. CASE TaskAt[s].kind = "delete"
      <4>1. d \in Conns /\ fdOf[d] \in Fds /\ state[d] = "Closed" /\ connections[fdOf[d]] = d
            /\ epoll[fdOf[d]] = d /\ d # c
        BY <1>8, <2>2, <3>3, SlotArgs DEF CoreInv, SlotInv
      <4>2. connections'[fdOf[d]] = d
        BY <1>4, <1>5, <4>1
      <4> QED BY <1>3, <1>7, <3>1, <3>3, <4>1, <4>2
    <3>4. CASE TaskAt[s].kind = "destroy"
      <4>1. d \in Conns /\ fdOf[d] \in Fds /\ state[d] = "Closed" /\ own[d] = s.loop
            /\ connections[fdOf[d]] # d /\ epoll[fdOf[d]] = d /\ d # NoConn
        BY <2>2, <3>4, SlotArgs DEF CoreInv, SlotInv
      <4>2. connections'[fdOf[d]] # d
        BY <1>5, <4>1
      <4> QED BY <1>3, <1>7, <3>1, <3>4, <4>1, <4>2
    <3> QED BY <3>1, <3>2, <3>3, <3>4
  <2> QED BY <2>1, <2>2
<1>10. UniqueInv'
  BY <1>8 DEF CoreInv, UniqueInv
<1>11. LoopInv'
  <2>1. LoopOK(t)
    BY DEF CoreInv, LoopInv
  <2>2. \A v \in Threads : wake[v] => wake'[v]
    BY <1>2, <1>3, QueueWakes DEF CoreInv
  <2>3. LoopOK(t)'
    BY <1>3, <1>7, <2>1, <2>2 DEF LoopOK
  <2> QED BY <1>3, <1>7, <2>2, <2>3, LoopKept DEF CoreInv
<1>12. RestInv'
  BY <1>3, <1>7 DEF CoreInv, RestInv
<1> QED BY <1>7, <1>9, <1>10, <1>11, <1>12 DEF CoreInv

LEMMA EndTasksKeeps ==
  ASSUME CoreInv, NEW t \in Threads, EndTasks(t), TypeOK' PROVE CoreInv'
<1>1. /\ phase[t] = "tasks" /\ closing[t] = NoConn /\ ran[t] = Len(batch[t])
      /\ phase' = [phase EXCEPT ![t] = "poll"]
      /\ batch' = [batch EXCEPT ![t] = <<>>]
      /\ ran' = [ran EXCEPT ![t] = 0]
      /\ UNCHANGED <<next, connections, own, fdOf, state, inEpoll, backlog, edge, eof,
                     timer, active, tasks, wake, closing, aborted>>
      /\ Settle({}, epoll)
  BY DEF EndTasks, Idle
<1>2. Slots' = Slots /\ \A s \in Slots : TaskAt'[s] = TaskAt[s]
  BY <1>1, EndSlots DEF CoreInv
<1>3. /\ phase'[t] = "poll" /\ batch'[t] = <<>>
      /\ \A v \in Threads \ {t} : phase'[v] = phase[v] /\ batch'[v] = batch[v]
  BY <1>1 DEF CoreInv, TypeOK
<1>4. HeldInv' /\ MapInv' /\ EpollInv' /\ epoll' = epoll /\ live' \subseteq live
  <2>1. \A v \in Threads :
          /\ closing'[v] # NoConn => closing'[v] \in live
          /\ \A i \in DOMAIN tasks'[v] :
               tasks'[v][i].kind # "establish" => tasks'[v][i].arg \in live
    BY <1>1 DEF CoreInv, HeldInv
  <2>2. ASSUME NEW v \in Threads, NEW i \in DOMAIN batch'[v], batch'[v][i].kind # "establish"
        PROVE  batch'[v][i].arg \in live
    <3>1. DOMAIN batch'[t] = {}
      BY <1>3
    <3> QED BY <1>3, <2>2, <3>1 DEF CoreInv, HeldInv
  <2>3. \A f \in Fds : connections'[f] # NoConn => connections'[f] \in live
    BY <1>1 DEF CoreInv, HeldInv
  <2> QED BY <1>1, <1>2, <2>1, <2>2, <2>3, NothingDropped
<1>5. SlotInv'
  BY <1>1, <1>2, <1>4 DEF CoreInv, SlotInv
<1>6. UniqueInv'
  BY <1>2 DEF CoreInv, UniqueInv
<1>7. LoopInv'
  <2>1. LoopOK(t)
    BY DEF CoreInv, LoopInv
  <2>2. LoopOK(t)'
    BY <1>1, <1>3, <1>4, <2>1 DEF LoopOK
  <2> QED BY <1>1, <1>3, <1>4, <2>2, LoopKept DEF CoreInv
<1>8. RestInv'
  BY <1>1, <1>4 DEF CoreInv, RestInv
<1> QED BY <1>4, <1>5, <1>6, <1>7, <1>8 DEF CoreInv

LEMMA RunDestroyKeeps ==
  ASSUME CoreInv, NEW t \in Threads, RunDestroy(t), TypeOK' PROVE CoreInv'
<1>1. /\ Running(t, "destroy") /\ Current(t).kind = "destroy" /\ Current(t) \in Task
      /\ ran[t] + 1 \in DOMAIN batch[t]
  BY CurrentType DEF RunDestroy, CoreInv
<1> PICK c \in Conns : Current(t) = Destroy(c)
  BY <1>1 DEF Task, Destroy
<1>2. /\ fdOf[c] \in Fds /\ c # NoConn
      /\ Destroy(c).kind = "destroy" /\ Destroy(c).arg = c
      /\ phase[t] = "tasks"
  BY <1>1 DEF Destroy, CoreInv, TypeOK, Running
<1>3. Slot("batch", t, ran[t] + 1) \in Slots /\ TaskAt[Slot("batch", t, ran[t] + 1)] = Destroy(c)
      /\ Slot("batch", t, ran[t] + 1).loop = t
  <2>1. ran[t] + 1 > ran[t]
    <3>1. ran \in [Threads -> Nat]
      BY DEF CoreInv, TypeOK
    <3>2. ran[t] \in Nat
      BY <3>1
    <3> QED BY <3>2
  <2>2. Current(t) = batch[t][ran[t] + 1]
    BY DEF Current
  <2> QED BY <1>1, <2>1, <2>2, SlotsAre DEF Slot
<1>4. state[c] = "Closed" /\ own[c] = t /\ connections[fdOf[c]] # c /\ epoll[fdOf[c]] = c
  BY <1>2, <1>3 DEF CoreInv, SlotInv
<1>5. /\ ran' = [ran EXCEPT ![t] = @ + 1]
      /\ UNCHANGED <<next, connections, own, fdOf, state, inEpoll, backlog, edge,
                     eof, timer, phase, active, tasks, batch, wake, closing, aborted>>
      /\ Settle({}, [f \in Fds |-> IF epoll[f] = c THEN NoConn ELSE epoll[f]])
  BY <1>2, <1>4 DEF RunDestroy
<1> PICK r \in Slots : /\ r.loop = t /\ TaskAt[r] = Current(t)
                       /\ Slots' = Slots \ {r}
                       /\ \A s \in Slots' : TaskAt'[s] = TaskAt[s]
  <2>1. ran'[t] = ran[t] + 1 /\ \A w \in Threads \ {t} : ran'[w] = ran[w]
    BY <1>5 DEF CoreInv, TypeOK
  <2>2. TypeOK /\ UNCHANGED <<tasks, batch>>
    BY <1>5 DEF CoreInv
  <2> QED BY <1>1, <2>1, <2>2, RunSlots
<1> DEFINE reg == [f \in Fds |-> IF epoll[f] = c THEN NoConn ELSE epoll[f]]
<1>6. /\ reg \in [Fds -> Conns \cup {NoConn}]
      /\ \A f \in Fds : reg[f] = IF epoll[f] = c THEN NoConn ELSE epoll[f]
  BY DEF CoreInv, TypeOK
<1> HIDE DEF reg
<1>7. /\ HeldInv'
      /\ live' \subseteq live
      /\ \A s \in Slots' : TaskAt'[s].kind # "establish" => TaskAt'[s].arg \in live'
      /\ \A f \in Fds : epoll'[f] = IF reg[f] \in live' THEN reg[f] ELSE NoConn
  <2>1. \A v \in Threads :
          /\ closing'[v] # NoConn => closing'[v] \in live
          /\ \A i \in DOMAIN tasks'[v] :
               tasks'[v][i].kind # "establish" => tasks'[v][i].arg \in live
          /\ \A i \in DOMAIN batch'[v] :
               batch'[v][i].kind # "establish" => batch'[v][i].arg \in live
    BY <1>5 DEF CoreInv, HeldInv
  <2>2. \A f \in Fds : connections'[f] # NoConn => connections'[f] \in live
    BY <1>5 DEF CoreInv, HeldInv
  <2>3. Settle({}, reg)
    BY <1>5 DEF reg
  <2>4. live \cup {} = live /\ {} \in SUBSET Conns
    OBVIOUS
  <2> QED BY <1>6, <2>1, <2>2, <2>3, <2>4, Settled
<1>8. \A s \in Slots' : TaskAt'[s] # Destroy(c)
  BY DEF CoreInv, UniqueInv
<1>9. \A d \in Conns : Destroy(d).kind = "destroy" /\ Destroy(d).arg = d
  BY DEF Destroy
<1>10. ASSUME NEW f \in Fds, epoll[f] # NoConn, epoll[f] # c
      PROVE  /\ epoll[f] \in live' /\ epoll'[f] = epoll[f]
             /\ connections'[f] = epoll[f] \/ \E s \in Slots' : TaskAt'[s] = Destroy(epoll[f])
  <2>1. /\ epoll[f] \in live
        /\ connections[f] = epoll[f] \/ \E s \in Slots : TaskAt[s] = Destroy(epoll[f])
    BY <1>10 DEF CoreInv, EpollInv
  <2>2. epoll[f] \in Conns
    BY <2>1 DEF CoreInv, TypeOK
  <2>3. CASE connections[f] = epoll[f]
    <3>1. epoll[f] \in live'
      BY <1>5, <1>7, <1>10, <2>3 DEF HeldInv
    <3> QED BY <1>5, <1>6, <1>7, <1>10, <2>3, <3>1
  <2>4. ASSUME NEW s \in Slots, TaskAt[s] = Destroy(epoll[f])
        PROVE  epoll[f] \in live' /\ \E q \in Slots' : TaskAt'[q] = Destroy(epoll[f])
    <3>1. s # r
      BY <1>2, <1>9, <1>10, <2>2, <2>4
    <3> QED BY <1>7, <1>9, <2>2, <2>4, <3>1
  <2> QED BY <1>6, <1>7, <1>10, <2>1, <2>3, <2>4
<1>11. \A f \in Fds : epoll'[f] # NoConn => epoll[f] # NoConn /\ epoll[f] # c /\ epoll'[f] = epoll[f]
  BY <1>6, <1>7
<1>12. live' \subseteq Conns
  BY DEF TypeOK
<1>13. SlotInv'
  <2> SUFFICES ASSUME NEW s \in Slots'
               PROVE  LET kind == TaskAt'[s].kind
                          d == TaskAt'[s].arg IN
                      /\ kind = "establish" => /\ connections'[d] # NoConn
                                               /\ own'[connections'[d]] = s.loop
                                               /\ state'[connections'[d]] = "Invalid"
                      /\ kind = "delete"  => /\ state'[d] = "Closed"
                                             /\ connections'[fdOf'[d]] = d
                                             /\ epoll'[fdOf'[d]] = d
                      /\ kind = "destroy" => /\ state'[d] = "Closed"
                                             /\ own'[d] = s.loop
                                             /\ connections'[fdOf'[d]] # d
                                             /\ epoll'[fdOf'[d]] = d
    BY DEF SlotInv
  <2> DEFINE d == TaskAt[s].arg
  <2>1. TaskAt'[s] = TaskAt[s] /\ s \in Slots /\ TaskAt[s].kind \in {"establish", "delete", "destroy"}
    BY SlotArgs
  <2>2. CASE TaskAt[s].kind = "establish"
    BY <1>5, <2>1, <2>2 DEF CoreInv, SlotInv
  <2>3. CASE TaskAt[s].kind = "delete"
    <3>1. d \in Conns /\ fdOf[d] \in Fds /\ state[d] = "Closed" /\ connections[fdOf[d]] = d
          /\ epoll[fdOf[d]] = d /\ d # NoConn
      BY <2>1, <2>3, SlotArgs DEF CoreInv, SlotInv
    <3>2. d # c
      BY <1>4, <3>1
    <3> QED BY <1>5, <1>10, <2>1, <2>3, <3>1, <3>2
  <2>4. CASE TaskAt[s].kind = "destroy"
    <3>1. d \in Conns /\ fdOf[d] \in Fds /\ state[d] = "Closed" /\ own[d] = s.loop
          /\ connections[fdOf[d]] # d /\ epoll[fdOf[d]] = d /\ d # NoConn
          /\ TaskAt[s] = Destroy(d)
      BY <2>1, <2>4, SlotArgs DEF CoreInv, SlotInv
    <3>2. d # c
      BY <1>8, <2>1, <3>1
    <3> QED BY <1>5, <1>10, <2>1, <2>4, <3>1, <3>2
  <2> QED BY <2>1, <2>2, <2>3, <2>4
<1>14. UniqueInv'
  BY DEF CoreInv, UniqueInv
<1>15. MapInv'
  BY <1>5, <1>7 DEF CoreInv, MapInv
<1>16. EpollInv'
  <2>1. ASSUME NEW d \in live', state'[d] = "Connected" PROVE epoll'[fdOf'[d]] = d
    <3>1. d \in Conns /\ d \in live /\ state[d] = "Connected" /\ d # c /\ fdOf[d] \in Fds /\ d # NoConn
      BY <1>4, <1>5, <1>7, <1>12, <2>1 DEF CoreInv, TypeOK
    <3>2. epoll[fdOf[d]] = d
      BY <3>1 DEF CoreInv, EpollInv
    <3> QED BY <1>5, <1>10, <3>1, <3>2
  <2>2. \A d \in Conns : state'[d] = "Invalid" => ~inEpoll'[d]
    BY <1>5 DEF CoreInv, EpollInv
  <2>3. ASSUME NEW f \in Fds, epoll'[f] # NoConn
        PROVE  /\ epoll'[f] \in live' /\ fdOf'[epoll'[f]] = f /\ state'[epoll'[f]] # "Invalid"
               /\ connections'[f] = epoll'[f] \/ \E s \in Slots' : TaskAt'[s] = Destroy(epoll'[f])
    <3>1. epoll[f] # NoConn /\ epoll[f] # c /\ epoll'[f] = epoll[f]
      BY <1>11, <2>3
    <3>2. fdOf[epoll[f]] = f /\ state[epoll[f]] # "Invalid"
      BY <3>1 DEF CoreInv, EpollInv
    <3> QED BY <1>5, <1>10, <3>1, <3>2
  <2> QED BY <2>1, <2>2, <2>3 DEF EpollInv, Destroy
<1>17. LoopInv'
  <2>1. \A v \in Threads : LoopOK(v)
    BY DEF CoreInv, LoopInv
  <2>2. LoopOK(t)'
    BY <1>2, <1>5, <2>1 DEF LoopOK
  <2>3. ASSUME NEW v \in Threads \ {t}, NEW d \in active[v] \cap Conns
        PROVE  epoll'[fdOf'[d]] = epoll[fdOf[d]]
    <3>1. own[d] = v /\ epoll[fdOf[d]] = d
      BY <2>1, <2>3 DEF LoopOK
    <3>2. d # c /\ d # NoConn /\ fdOf[d] \in Fds
      BY <1>4, <2>3, <3>1 DEF CoreInv, TypeOK
    <3> QED BY <1>5, <1>10, <3>1, <3>2
  <2> QED BY <1>5, <2>2, <2>3, LoopKept DEF CoreInv
<1>18. RestInv'
  BY <1>5, <1>7 DEF CoreInv, RestInv
<1> QED BY <1>7, <1>13, <1>14, <1>15, <1>16, <1>17, <1>18 DEF CoreInv

(* Establish finds its connection, whose descriptor epoll does not know: so  *)
(* registering it cannot fail.  A lookup that misses leaves it unestablished.*)
LEMMA RunEstablishKeeps ==
  ASSUME CoreInv, ClosesAtHome, NEW t \in Threads, RunEstablish(t), TypeOK' PROVE CoreInv'
<1>1. /\ Running(t, "establish") /\ Current(t).kind = "establish" /\ Current(t) \in Task
      /\ ran[t] + 1 \in DOMAIN batch[t]
  BY CurrentType DEF RunEstablish, CoreInv
<1> PICK f \in Fds : Current(t) = Establish(f)
  BY <1>1 DEF Task, Establish
<1>2. Establish(f).kind = "establish" /\ Establish(f).arg = f /\ phase[t] = "tasks"
  BY <1>1 DEF Establish, Running
<1>3. /\ ran' = [ran EXCEPT ![t] = @ + 1]
      /\ UNCHANGED <<next, connections, own, fdOf, backlog, edge, eof, phase, active,
                     tasks, batch, wake, closing>>
  BY DEF RunEstablish
<1> PICK r \in Slots : /\ r.loop = t /\ TaskAt[r] = Current(t)
                       /\ Slots' = Slots \ {r}
                       /\ \A s \in Slots' : TaskAt'[s] = TaskAt[s]
  <2>1. ran'[t] = ran[t] + 1 /\ \A w \in Threads \ {t} : ran'[w] = ran[w]
    BY <1>3 DEF CoreInv, TypeOK
  <2>2. TypeOK /\ UNCHANGED <<tasks, batch>>
    BY <1>3 DEF CoreInv
  <2> QED BY <1>1, <2>1, <2>2, RunSlots
<1> PICK c \in Conns : c = connections[f] /\ own[c] = t /\ state[c] = "Invalid"
  <2>1. connections[f] # NoConn /\ own[connections[f]] = t /\ state[connections[f]] = "Invalid"
    BY <1>2 DEF CoreInv, SlotInv
  <2> QED BY <2>1 DEF CoreInv, TypeOK
<1>4. c \in live /\ fdOf[c] = f /\ c # NoConn
  BY DEF CoreInv, HeldInv, MapInv
<1>5. epoll[f] = NoConn
  <2> SUFFICES ASSUME epoll[f] # NoConn PROVE FALSE
    OBVIOUS
  <2>1. epoll[f] \in live /\ fdOf[epoll[f]] = f /\ state[epoll[f]] # "Invalid"
    BY DEF CoreInv, EpollInv
  <2> QED BY <1>4, <2>1 DEF CoreInv, MapInv
<1>6. \A s \in Slots' : s \in Slots /\ TaskAt'[s] = TaskAt[s] /\ TaskAt[s] # Establish(f)
  BY DEF CoreInv, UniqueInv
<1>7. \A s \in Slots : TaskAt[s].kind = "destroy" => s \in Slots'
  BY <1>2
<1>8. UniqueInv'
  BY DEF CoreInv, UniqueInv
<1>9. \A v \in Threads : LoopOK(v)
  BY DEF CoreInv, LoopInv
<1>10. CASE UNCHANGED <<state, inEpoll, timer, live, epoll, aborted>>
  <2>1. SlotInv'
    BY <1>3, <1>10 DEF CoreInv, SlotInv
  <2>2. HeldInv'
    BY <1>3, <1>10, HeldKept DEF CoreInv
  <2>3. MapInv' /\ RestInv'
    BY <1>3, <1>10 DEF CoreInv, MapInv, RestInv
  <2>4. EpollInv'
    <3>1. \A d : Destroy(d).kind = "destroy"
      BY DEF Destroy
    <3> QED BY <1>3, <1>6, <1>7, <1>10, <3>1 DEF CoreInv, EpollInv
  <2>5. LoopInv'
    BY <1>3, <1>10 DEF CoreInv, LoopInv, LoopOK
  <2> QED BY <1>8, <2>1, <2>2, <2>3, <2>4, <2>5 DEF CoreInv
<1>11. CASE /\ Established(c) /\ UNCHANGED aborted
            /\ Settle({}, [epoll EXCEPT ![f] = c])
  <2> DEFINE reg == [epoll EXCEPT ![f] = c]
  <2>1. /\ reg \in [Fds -> Conns \cup {NoConn}] /\ reg[f] = c
        /\ \A g \in Fds \ {f} : reg[g] = epoll[g]
    BY DEF CoreInv, TypeOK
  <2>2. Settle({}, reg)
    BY <1>11
  <2> HIDE DEF reg
  <2>3. /\ HeldInv'
        /\ live' \subseteq live
        /\ \A s \in Slots' : TaskAt'[s].kind # "establish" => TaskAt'[s].arg \in live'
        /\ \A g \in Fds : epoll'[g] = IF reg[g] \in live' THEN reg[g] ELSE NoConn
    <3>1. \A v \in Threads :
            /\ closing'[v] # NoConn => closing'[v] \in live
            /\ \A i \in DOMAIN tasks'[v] :
                 tasks'[v][i].kind # "establish" => tasks'[v][i].arg \in live
            /\ \A i \in DOMAIN batch'[v] :
                 batch'[v][i].kind # "establish" => batch'[v][i].arg \in live
      BY <1>3 DEF CoreInv, HeldInv
    <3>2. \A g \in Fds : connections'[g] # NoConn => connections'[g] \in live
      BY <1>3 DEF CoreInv, HeldInv
    <3>3. live \cup {} = live /\ {} \in SUBSET Conns
      OBVIOUS
    <3> QED BY <2>1, <2>2, <3>1, <3>2, <3>3, Settled
  <2>4. /\ state'[c] = "Connected" /\ inEpoll'[c] = TRUE
        /\ \A d \in Conns \ {c} : state'[d] = state[d] /\ inEpoll'[d] = inEpoll[d]
        /\ \A d \in Conns : timer'[d] = timer[d] \/ (d = c /\ NumLoops = 0)
    BY <1>11 DEF Established, CoreInv, TypeOK, ClosesAtHome
  <2>5. c \in live' /\ epoll'[f] = c
    BY <1>3, <1>4, <2>1, <2>3 DEF HeldInv
  <2>6. ASSUME NEW g \in Fds, epoll[g] # NoConn
        PROVE  /\ g # f /\ epoll[g] \in live' /\ epoll'[g] = epoll[g] /\ epoll[g] # c
               /\ connections'[g] = epoll[g] \/ \E s \in Slots' : TaskAt'[s] = Destroy(epoll[g])
    <3>1. /\ epoll[g] \in live /\ state[epoll[g]] # "Invalid"
          /\ connections[g] = epoll[g] \/ \E s \in Slots : TaskAt[s] = Destroy(epoll[g])
      BY <2>6 DEF CoreInv, EpollInv
    <3>2. g # f /\ epoll[g] # c /\ epoll[g] \in Conns
      BY <1>5, <2>6, <3>1 DEF CoreInv, TypeOK
    <3>3. CASE connections[g] = epoll[g]
      <4>1. epoll[g] \in live'
        BY <1>3, <2>3, <2>6, <3>3 DEF HeldInv
      <4> QED BY <1>3, <2>1, <2>3, <3>2, <3>3, <4>1
    <3>4. ASSUME NEW s \in Slots, TaskAt[s] = Destroy(epoll[g])
          PROVE  epoll[g] \in live' /\ \E q \in Slots' : TaskAt'[q] = Destroy(epoll[g])
      <4>1. Destroy(epoll[g]).kind = "destroy" /\ Destroy(epoll[g]).arg = epoll[g]
        BY DEF Destroy
      <4> QED BY <1>6, <1>7, <2>3, <3>4, <4>1
    <3> QED BY <2>1, <2>3, <3>1, <3>2, <3>3, <3>4
  <2>7. live' \subseteq Conns
    BY DEF TypeOK
  <2>8. SlotInv'
    <3> SUFFICES ASSUME NEW s \in Slots'
                 PROVE  LET kind == TaskAt'[s].kind
                            d == TaskAt'[s].arg IN
                        /\ kind = "establish" => /\ connections'[d] # NoConn
                                                 /\ own'[connections'[d]] = s.loop
                                                 /\ state'[connections'[d]] = "Invalid"
                        /\ kind = "delete"  => /\ state'[d] = "Closed"
                                               /\ connections'[fdOf'[d]] = d
                                               /\ epoll'[fdOf'[d]] = d
                        /\ kind = "destroy" => /\ state'[d] = "Closed"
                                               /\ own'[d] = s.loop
                                               /\ connections'[fdOf'[d]] # d
                                               /\ epoll'[fdOf'[d]] = d
      BY DEF SlotInv
    <3> DEFINE d == TaskAt[s].arg
    <3>1. TaskAt'[s] = TaskAt[s] /\ s \in Slots /\ TaskAt[s].kind \in {"establish", "delete", "destroy"}
      BY SlotArgs
    <3>2. CASE TaskAt[s].kind = "establish"
      <4>1. d \in Fds /\ connections[d] # NoConn /\ own[connections[d]] = s.loop
            /\ state[connections[d]] = "Invalid" /\ d # f
        BY <1>6, <3>1, <3>2, SlotArgs DEF CoreInv, SlotInv
      <4>2. fdOf[connections[d]] = d
        BY <4>1 DEF CoreInv, MapInv
      <4>3. connections[d] # c /\ connections[d] \in Conns
        <5>1. connections \in [Fds -> Conns \cup {NoConn}]
          BY DEF CoreInv, TypeOK
        <5> QED BY <1>4, <4>1, <4>2, <5>1
      <4> QED BY <1>3, <2>4, <3>1, <3>2, <4>1, <4>3
    <3>3. CASE TaskAt[s].kind = "delete"
      <4>1. d \in Conns /\ fdOf[d] \in Fds /\ state[d] = "Closed" /\ connections[fdOf[d]] = d
            /\ epoll[fdOf[d]] = d /\ d # NoConn
        BY <3>1, <3>3, SlotArgs DEF CoreInv, SlotInv
      <4>2. d # c
        BY <4>1
      <4> QED BY <1>3, <2>4, <2>6, <3>1, <3>3, <4>1, <4>2
    <3>4. CASE TaskAt[s].kind = "destroy"
      <4>1. d \in Conns /\ fdOf[d] \in Fds /\ state[d] = "Closed" /\ own[d] = s.loop
            /\ connections[fdOf[d]] # d /\ epoll[fdOf[d]] = d /\ d # NoConn
        BY <3>1, <3>4, SlotArgs DEF CoreInv, SlotInv
      <4>2. d # c
        BY <4>1
      <4> QED BY <1>3, <2>4, <2>6, <3>1, <3>4, <4>1, <4>2
    <3> QED BY <3>1, <3>2, <3>3, <3>4
  <2>9. MapInv'
    <3>1. \A d, e \in live' : fdOf'[d] = fdOf'[e] => d = e
      BY <1>3, <2>3 DEF CoreInv, MapInv
    <3>2. ASSUME NEW d \in live', state'[d] # "Closed" PROVE connections'[fdOf'[d]] = d
      BY <1>3, <1>4, <2>3, <2>4, <2>7, <3>2 DEF CoreInv, MapInv
    <3>3. \A g \in Fds : connections'[g] # NoConn => fdOf'[connections'[g]] = g
      BY <1>3 DEF CoreInv, MapInv
    <3> QED BY <3>1, <3>2, <3>3 DEF MapInv
  <2>10. EpollInv'
    <3>1. ASSUME NEW d \in live', state'[d] = "Connected" PROVE epoll'[fdOf'[d]] = d
      <4>1. CASE d = c
        BY <1>3, <1>4, <2>5, <4>1
      <4>2. CASE d # c
        <5>1. d \in live /\ d \in Conns /\ state[d] = "Connected" /\ fdOf[d] \in Fds /\ d # NoConn
          BY <2>3, <2>4, <2>7, <3>1, <4>2 DEF CoreInv, TypeOK
        <5>2. epoll[fdOf[d]] = d
          BY <5>1 DEF CoreInv, EpollInv
        <5> QED BY <1>3, <2>6, <5>1, <5>2
      <4> QED BY <4>1, <4>2
    <3>2. ASSUME NEW d \in Conns, state'[d] = "Invalid" PROVE ~inEpoll'[d]
      BY <2>4, <3>2 DEF CoreInv, EpollInv
    <3>3. ASSUME NEW g \in Fds, epoll'[g] # NoConn
          PROVE  /\ epoll'[g] \in live' /\ fdOf'[epoll'[g]] = g /\ state'[epoll'[g]] # "Invalid"
                 /\ connections'[g] = epoll'[g] \/ \E s \in Slots' : TaskAt'[s] = Destroy(epoll'[g])
      <4>1. CASE g = f
        BY <1>3, <1>4, <2>4, <2>5, <4>1
      <4>2. CASE g # f
        <5>1. epoll[g] # NoConn
          BY <2>1, <2>3, <3>3, <4>2
        <5>2. fdOf[epoll[g]] = g /\ state[epoll[g]] # "Invalid" /\ epoll[g] \in Conns
          BY <5>1 DEF CoreInv, EpollInv, TypeOK
        <5> QED BY <1>3, <2>4, <2>6, <5>1, <5>2
      <4> QED BY <4>1, <4>2
    <3> QED BY <3>1, <3>2, <3>3 DEF EpollInv
  <2>11. LoopInv'
    <3>1. ASSUME NEW v \in Threads, NEW d \in active[v] \cap Conns
          PROVE  epoll'[fdOf'[d]] = epoll[fdOf[d]]
      <4>1. epoll[fdOf[d]] = d /\ d # NoConn /\ fdOf[d] \in Fds
        BY <1>9, <3>1 DEF LoopOK, CoreInv, TypeOK
      <4> QED BY <1>3, <2>6, <4>1
    <3>2. ASSUME NEW v \in Threads, closing[v] # NoConn PROVE state'[closing[v]] = state[closing[v]]
      <4>1. state[closing[v]] = "Connected" /\ closing[v] \in Conns
        BY <1>9, <3>2 DEF LoopOK, CoreInv, TypeOK
      <4> QED BY <2>4, <4>1
    <3>3. LoopOK(t)'
      BY <1>2, <1>3, <1>9, <3>1, <3>2 DEF LoopOK
    <3> QED BY <1>3, <3>1, <3>2, <3>3, LoopKept DEF CoreInv
  <2>12. RestInv'
    <3>1. \A d \in backlog : d # c /\ d \in Conns
      BY <1>4 DEF CoreInv, RestInv, TypeOK
    <3> QED BY <1>3, <1>11, <2>3, <2>4, <3>1 DEF CoreInv, RestInv
  <2> QED BY <1>8, <2>3, <2>8, <2>9, <2>10, <2>11, <2>12 DEF CoreInv
<1>12. ~RegisterFails(c)
  <2>1. ~inEpoll[c]
    BY DEF CoreInv, EpollInv
  <2> QED BY <1>4, <1>5, <2>1 DEF RegisterFails
<1>13. \/ Established(c) /\ UNCHANGED aborted /\ Settle({}, [epoll EXCEPT ![f] = c])
       \/ UNCHANGED <<state, inEpoll, timer, live, epoll, aborted>>
  BY <1>2, <1>12 DEF RunEstablish
<1> QED BY <1>10, <1>11, <1>13

(* A new connection has a descriptor of its own: nothing refers to either.   *)
LEMMA AcceptKeeps ==
  ASSUME CoreInv, ClosesAtHome, NEW c \in Conns, NEW f \in Fds, Accept(c, f), TypeOK' PROVE CoreInv'
<1> PICK u \in Threads : u = NextLoop
  BY NextLoopType DEF CoreInv
<1> PICK m \in Threads : m = Main
  OBVIOUS
<1>1. /\ phase[m] = "events" /\ closing[m] = NoConn /\ c \in backlog /\ f \notin UsedFds
      /\ UNCHANGED <<edge, eof, phase, batch, ran, closing, aborted>>
      /\ backlog' = backlog \ {c}
      /\ active' = [active EXCEPT ![m] = @ \ {Listen}]
      /\ own' = [own EXCEPT ![c] = u]
      /\ fdOf' = [fdOf EXCEPT ![c] = f]
      /\ connections' = [connections EXCEPT ![f] = c]
  BY DEF Accept, Idle
<1>2. c \notin live /\ state[c] = "Invalid" /\ c # NoConn
  BY <1>1 DEF CoreInv, RestInv
<1>3. /\ own'[c] = u /\ fdOf'[c] = f /\ connections'[f] = c
      /\ \A d \in Conns \ {c} : own'[d] = own[d] /\ fdOf'[d] = fdOf[d]
      /\ \A g \in Fds \ {f} : connections'[g] = connections[g]
      /\ active'[m] = active[m] \ {Listen}
      /\ \A v \in Threads \ {m} : active'[v] = active[v]
  BY <1>1 DEF CoreInv, TypeOK
<1>4. \A d \in live : fdOf[d] # f /\ d # c /\ d \in Conns /\ fdOf[d] \in Fds /\ d # NoConn
  BY <1>1, <1>2 DEF UsedFds, CoreInv, TypeOK
<1>5. connections[f] = NoConn /\ epoll[f] = NoConn
  BY <1>4 DEF CoreInv, HeldInv, MapInv, EpollInv
<1>6. \A g \in Fds : epoll[g] # NoConn => g # f /\ epoll[g] # c
  BY <1>2, <1>5 DEF CoreInv, EpollInv
<1>7. \A v \in Threads : LoopOK(v)
  BY DEF CoreInv, LoopInv
<1>8. PICK reg \in [Fds -> Conns \cup {NoConn}] :
        /\ Settle({c}, reg)
        /\ \A g \in Fds \ {f} : reg[g] = epoll[g]
        /\ \/ /\ u = m /\ reg[f] = c
              /\ Established(c) /\ UNCHANGED <<tasks, wake>>
           \/ /\ u # m /\ reg[f] = NoConn
              /\ Queue(m, u, Establish(f)) /\ UNCHANGED <<state, inEpoll, timer>>
  <2>1. CASE u = m
    <3>1. /\ Settle({c}, [epoll EXCEPT ![f] = c])
          /\ Established(c) /\ UNCHANGED <<tasks, wake>>
      BY <2>1 DEF Accept
    <3>2. /\ [epoll EXCEPT ![f] = c] \in [Fds -> Conns \cup {NoConn}]
          /\ [epoll EXCEPT ![f] = c][f] = c
          /\ \A g \in Fds \ {f} : [epoll EXCEPT ![f] = c][g] = epoll[g]
      BY DEF CoreInv, TypeOK
    <3> DEFINE reg == [epoll EXCEPT ![f] = c]
    <3>3. reg \in [Fds -> Conns \cup {NoConn}] /\ Settle({c}, reg) /\ reg[f] = c
          /\ \A g \in Fds \ {f} : reg[g] = epoll[g]
      BY <3>1, <3>2
    <3> HIDE DEF reg
    <3> QED BY <2>1, <3>1, <3>3
  <2>2. CASE u # m
    <3>1. /\ Settle({c}, epoll)
          /\ Queue(m, u, Establish(f)) /\ UNCHANGED <<state, inEpoll, timer>>
      BY <2>2 DEF Accept
    <3>2. epoll \in [Fds -> Conns \cup {NoConn}]
      BY DEF CoreInv, TypeOK
    <3> QED BY <1>5, <2>2, <3>1, <3>2
  <2> QED BY <2>1, <2>2
<1>9. /\ Establish(f) \in Task /\ Establish(f).kind = "establish" /\ Establish(f).arg = f
      /\ \A d : Destroy(d).kind = "destroy" /\ Destroy(d).arg = d
  BY DEF Task, Establish, Destroy
<1>10. \A v \in Threads : \A i \in DOMAIN tasks'[v] :
         tasks'[v][i].kind # "establish" => tasks'[v][i].arg \in live \cup {c}
  <2>1. CASE UNCHANGED tasks
    BY <2>1 DEF CoreInv, HeldInv
  <2>2. CASE Queue(m, u, Establish(f))
    <3>1. live \subseteq live \cup {c}
      OBVIOUS
    <3> QED BY <1>9, <2>2, <3>1, QueueRefs DEF CoreInv
  <2> QED BY <1>8, <2>1, <2>2
<1>11. /\ HeldInv'
       /\ live' \subseteq live \cup {c}
       /\ \A s \in Slots' : TaskAt'[s].kind # "establish" => TaskAt'[s].arg \in live'
       /\ \A g \in Fds : epoll'[g] = IF reg[g] \in live' THEN reg[g] ELSE NoConn
  <2>1. \A v \in Threads :
          /\ closing'[v] # NoConn => closing'[v] \in live \cup {c}
          /\ \A i \in DOMAIN batch'[v] :
               batch'[v][i].kind # "establish" => batch'[v][i].arg \in live \cup {c}
    BY <1>1 DEF CoreInv, HeldInv
  <2>2. \A g \in Fds : connections'[g] # NoConn => connections'[g] \in live \cup {c}
    BY <1>3 DEF CoreInv, HeldInv
  <2>3. {c} \in SUBSET Conns
    OBVIOUS
  <2> QED BY <1>8, <1>10, <2>1, <2>2, <2>3, Settled
<1>12. c \in live'
  BY <1>2, <1>3, <1>11 DEF HeldInv
<1>13. /\ \A d \in Conns \ {c} : state'[d] = state[d] /\ inEpoll'[d] = inEpoll[d]
       /\ \A d \in Conns : timer'[d] = timer[d] \/ (d = c /\ u = m /\ NumLoops = 0)
       /\ u = m => state'[c] = "Connected" /\ inEpoll'[c] = TRUE /\ epoll'[f] = c
       /\ u # m => state'[c] = "Invalid" /\ inEpoll'[c] = inEpoll[c] /\ epoll'[f] = NoConn
  <2>1. CASE u = m
    <3>1. Established(c) /\ reg[f] = c
      BY <1>8, <2>1
    <3>2. epoll'[f] = c
      BY <1>11, <1>12, <3>1
    <3>3. /\ state'[c] = "Connected" /\ inEpoll'[c] = TRUE
          /\ \A d \in Conns \ {c} : state'[d] = state[d] /\ inEpoll'[d] = inEpoll[d]
          /\ \A d \in Conns : timer'[d] = timer[d] \/ (d = c /\ NumLoops = 0)
      BY <3>1 DEF Established, CoreInv, TypeOK, ClosesAtHome
    <3> QED BY <2>1, <3>2, <3>3
  <2>2. CASE u # m
    <3>1. NoConn \notin live'
      BY DEF TypeOK
    <3> QED BY <1>2, <1>8, <1>11, <2>2, <3>1
  <2> QED BY <2>1, <2>2
<1>14. /\ \A s \in Slots : s \in Slots' /\ TaskAt'[s] = TaskAt[s]
       /\ \/ u = m /\ Slots' = Slots
          \/ /\ u # m
             /\ \E n : /\ n \notin Slots /\ n.loop = u
                       /\ Slots' = Slots \cup {n}
                       /\ TaskAt'[n] = Establish(f)
  <2>1. CASE UNCHANGED tasks /\ u = m
    <3>1. UNCHANGED <<tasks, batch, ran>>
      BY <1>1, <2>1
    <3>2. Slots' = Slots /\ TaskAt' = TaskAt
      BY <3>1 DEF Slots, Positions, TaskAt
    <3> QED BY <2>1, <3>2
  <2>2. CASE Queue(m, u, Establish(f)) /\ u # m
    <3>1. UNCHANGED <<batch, ran>>
      BY <1>1
    <3> PICK n : /\ n \notin Slots /\ n.loop = u
                 /\ Slots' = Slots \cup {n}
                 /\ TaskAt'[n] = Establish(f)
                 /\ \A s \in Slots : TaskAt'[s] = TaskAt[s]
      BY <1>9, <2>2, <3>1, QueueSlots DEF CoreInv
    <3> QED BY <2>2
  <2> QED BY <1>8, <2>1, <2>2
<1>15. ASSUME NEW g \in Fds, epoll[g] # NoConn
       PROVE  /\ g # f /\ epoll[g] \in live' /\ epoll'[g] = epoll[g] /\ epoll[g] # c
              /\ connections'[g] = epoll[g] \/ \E s \in Slots' : TaskAt'[s] = Destroy(epoll[g])
  <2>1. connections[g] = epoll[g] \/ \E s \in Slots : TaskAt[s] = Destroy(epoll[g])
    BY <1>15 DEF CoreInv, EpollInv
  <2>2. g # f /\ epoll[g] # c
    BY <1>6, <1>15
  <2>3. connections'[g] = epoll[g] \/ \E s \in Slots' : TaskAt'[s] = Destroy(epoll[g])
    BY <1>3, <1>14, <2>1, <2>2
  <2>4. epoll[g] \in live'
    BY <1>9, <1>11, <1>15, <2>3 DEF HeldInv
  <2> QED BY <1>8, <1>11, <2>2, <2>3, <2>4
<1>16. SlotInv'
  <2> SUFFICES ASSUME NEW s \in Slots'
               PROVE  LET kind == TaskAt'[s].kind
                          d == TaskAt'[s].arg IN
                      /\ kind = "establish" => /\ connections'[d] # NoConn
                                               /\ own'[connections'[d]] = s.loop
                                               /\ state'[connections'[d]] = "Invalid"
                      /\ kind = "delete"  => /\ state'[d] = "Closed"
                                             /\ connections'[fdOf'[d]] = d
                                             /\ epoll'[fdOf'[d]] = d
                      /\ kind = "destroy" => /\ state'[d] = "Closed"
                                             /\ own'[d] = s.loop
                                             /\ connections'[fdOf'[d]] # d
                                             /\ epoll'[fdOf'[d]] = d
    BY DEF SlotInv
  <2>1. CASE s \notin Slots
    <3>1. s.loop = u /\ u # m /\ TaskAt'[s] = Establish(f)
      BY <1>14, <2>1
    <3> QED BY <1>2, <1>3, <1>9, <1>13, <3>1
  <2>2. CASE s \in Slots
    <3> DEFINE d == TaskAt[s].arg
    <3>1. TaskAt'[s] = TaskAt[s] /\ TaskAt[s].kind \in {"establish", "delete", "destroy"}
      BY <1>14, <2>2, SlotArgs
    <3>2. CASE TaskAt[s].kind = "establish"
      <4>1. d \in Fds /\ connections[d] # NoConn /\ own[connections[d]] = s.loop
            /\ state[connections[d]] = "Invalid"
        BY <2>2, <3>2, SlotArgs DEF CoreInv, SlotInv
      <4>2. connections[d] \in live /\ d # f
        BY <1>5, <4>1 DEF CoreInv, HeldInv
      <4> QED BY <1>3, <1>4, <1>13, <3>1, <3>2, <4>1, <4>2
    <3>3. CASE TaskAt[s].kind = "delete"
      <4>1. d \in live /\ state[d] = "Closed" /\ connections[fdOf[d]] = d /\ epoll[fdOf[d]] = d
        BY <2>2, <3>3, SlotArgs DEF CoreInv, SlotInv
      <4>2. d \in Conns \ {c} /\ fdOf[d] \in Fds \ {f} /\ d # NoConn
        BY <1>4, <4>1
      <4> QED BY <1>3, <1>13, <1>15, <3>1, <3>3, <4>1, <4>2
    <3>4. CASE TaskAt[s].kind = "destroy"
      <4>1. d \in live /\ state[d] = "Closed" /\ own[d] = s.loop
            /\ connections[fdOf[d]] # d /\ epoll[fdOf[d]] = d
        BY <2>2, <3>4, SlotArgs DEF CoreInv, SlotInv
      <4>2. d \in Conns \ {c} /\ fdOf[d] \in Fds \ {f} /\ d # NoConn
        BY <1>4, <4>1
      <4> QED BY <1>3, <1>13, <1>15, <3>1, <3>4, <4>1, <4>2
    <3> QED BY <3>1, <3>2, <3>3, <3>4
  <2> QED BY <2>1, <2>2
<1>17. UniqueInv'
  <2>1. \A s \in Slots : TaskAt[s] # Establish(f)
    BY <1>5, <1>9 DEF CoreInv, SlotInv
  <2> QED BY <1>14, <2>1 DEF CoreInv, UniqueInv
<1>18. MapInv'
  <2>1. ASSUME NEW d \in live', NEW e \in live', fdOf'[d] = fdOf'[e] PROVE d = e
    <3>1. d \in live \/ d = c
      BY <1>11
    <3>2. e \in live \/ e = c
      BY <1>11
    <3> QED BY <1>3, <1>4, <2>1, <3>1, <3>2 DEF CoreInv, MapInv
  <2>2. ASSUME NEW d \in live', state'[d] # "Closed" PROVE connections'[fdOf'[d]] = d
    <3>1. CASE d = c
      BY <1>3, <3>1
    <3>2. CASE d # c
      <4>1. d \in live /\ d \in Conns \ {c} /\ fdOf[d] \in Fds \ {f}
        BY <1>4, <1>11, <3>2
      <4>2. connections[fdOf[d]] = d
        BY <1>13, <2>2, <4>1 DEF CoreInv, MapInv
      <4> QED BY <1>3, <4>1, <4>2
    <3> QED BY <3>1, <3>2
  <2>3. ASSUME NEW g \in Fds, connections'[g] # NoConn PROVE fdOf'[connections'[g]] = g
    <3>1. CASE g = f
      BY <1>3, <3>1
    <3>2. CASE g # f
      <4>1. connections[g] \in live /\ fdOf[connections[g]] = g
        BY <1>3, <2>3, <3>2 DEF CoreInv, HeldInv, MapInv
      <4> QED BY <1>3, <1>4, <3>2, <4>1
    <3> QED BY <3>1, <3>2
  <2> QED BY <2>1, <2>2, <2>3 DEF MapInv
<1>19. EpollInv'
  <2>1. ASSUME NEW d \in live', state'[d] = "Connected" PROVE epoll'[fdOf'[d]] = d
    <3>1. CASE d = c
      BY <1>3, <1>13, <2>1, <3>1
    <3>2. CASE d # c
      <4>1. d \in live /\ d \in Conns \ {c} /\ fdOf[d] \in Fds \ {f} /\ d # NoConn
        BY <1>4, <1>11, <3>2
      <4>2. epoll[fdOf[d]] = d
        BY <1>13, <2>1, <4>1 DEF CoreInv, EpollInv
      <4> QED BY <1>3, <1>15, <4>1, <4>2
    <3> QED BY <3>1, <3>2
  <2>2. ASSUME NEW d \in Conns, state'[d] = "Invalid" PROVE ~inEpoll'[d]
    BY <1>2, <1>13, <2>2 DEF CoreInv, EpollInv
  <2>3. ASSUME NEW g \in Fds, epoll'[g] # NoConn
        PROVE  /\ epoll'[g] \in live' /\ fdOf'[epoll'[g]] = g /\ state'[epoll'[g]] # "Invalid"
               /\ connections'[g] = epoll'[g] \/ \E s \in Slots' : TaskAt'[s] = Destroy(epoll'[g])
    <3>1. CASE g = f
      BY <1>3, <1>12, <1>13, <2>3, <3>1
    <3>2. CASE g # f
      <4>1. epoll[g] # NoConn
        BY <1>8, <1>11, <2>3, <3>2
      <4>2. epoll[g] \in live /\ fdOf[epoll[g]] = g /\ state[epoll[g]] # "Invalid"
        BY <4>1 DEF CoreInv, EpollInv
      <4> QED BY <1>3, <1>4, <1>13, <1>15, <4>1, <4>2
    <3> QED BY <3>1, <3>2
  <2> QED BY <2>1, <2>2, <2>3 DEF EpollInv
<1>20. LoopInv'
  <2>1. ASSUME NEW v \in Threads, NEW d \in active[v] \cap Conns
        PROVE  own'[d] = own[d] /\ epoll'[fdOf'[d]] = epoll[fdOf[d]] /\ epoll[fdOf[d]] = d /\ own[d] = v
    <3>1. epoll[fdOf[d]] = d /\ own[d] = v /\ d # NoConn /\ fdOf[d] \in Fds
      BY <1>7, <2>1 DEF LoopOK, CoreInv, TypeOK
    <3>2. d # c
      BY <1>6, <3>1
    <3> QED BY <1>3, <1>15, <3>1, <3>2
  <2>2. ASSUME NEW v \in Threads, closing[v] # NoConn
        PROVE  own'[closing[v]] = own[closing[v]] /\ state'[closing[v]] = state[closing[v]]
    <3>1. closing[v] \in live
      BY <2>2 DEF CoreInv, HeldInv
    <3> QED BY <1>3, <1>4, <1>13, <3>1
  <2>3. \A v \in Threads : wake[v] => wake'[v]
    <3>1. CASE UNCHANGED wake
      BY <3>1
    <3>2. CASE Queue(m, u, Establish(f))
      BY <3>2, QueueWakes DEF CoreInv
    <3> QED BY <1>8, <3>1, <3>2
  <2>4. LoopOK(m)'
    <3>1. LoopOK(m)
      BY <1>7
    <3>2. active'[m] \subseteq active[m]
      BY <1>3
    <3>3. \A d \in active'[m] \cap Conns : own'[d] = m /\ epoll'[fdOf'[d]] = d
      BY <2>1, <3>2
    <3> QED BY <1>1, <2>3, <3>1, <3>2, <3>3 DEF LoopOK
  <2> QED BY <1>1, <1>3, <2>1, <2>2, <2>3, <2>4, LoopKept DEF CoreInv
<1>21. RestInv'
  <2>1. ASSUME NEW d \in backlog' PROVE d \notin live' /\ state'[d] = "Invalid"
    <3>1. d \in backlog /\ d \in Conns \ {c}
      BY <1>1 DEF CoreInv, TypeOK
    <3> QED BY <1>11, <1>13, <3>1 DEF CoreInv, RestInv
  <2>2. ASSUME NEW d \in Conns, timer'[d] # "none" PROVE NumLoops = 0 /\ state'[d] # "Invalid"
    <3>1. timer[d] # "none" => NumLoops = 0 /\ state[d] # "Invalid"
      BY DEF CoreInv, RestInv
    <3> QED BY <1>2, <1>13, <2>2, <3>1
  <2>3. aborted' \in {"no", "accept"}
    BY <1>1 DEF CoreInv, RestInv
  <2> QED BY <2>1, <2>2, <2>3 DEF RestInv
<1> QED BY <1>11, <1>16, <1>17, <1>18, <1>19, <1>20, <1>21 DEF CoreInv

LEMMA AcceptFailsKeeps ==
  ASSUME CoreInv, AcceptFails, TypeOK' PROVE CoreInv'
<1>1. /\ aborted' = "accept"
      /\ UNCHANGED <<next, connVars, kernelVars, timer, loopVars>>
  BY DEF AcceptFails, Abort
<1>2. UNCHANGED <<connections, own, fdOf, state, inEpoll, live, epoll, backlog, timer,
                  phase, active, tasks, batch, ran, wake, closing>>
  BY <1>1 DEF connVars, kernelVars, loopVars
<1>3. SlotInv' /\ UniqueInv' /\ MapInv' /\ EpollInv'
  BY <1>2, Quiet DEF connVars
<1>4. HeldInv'
  BY <1>2, HeldKept DEF CoreInv
<1>5. LoopInv' /\ RestInv'
  BY <1>1, <1>2 DEF CoreInv, LoopInv, LoopOK, RestInv
<1> QED BY <1>3, <1>4, <1>5 DEF CoreInv

-----------------------------------------------------------------------------
(* The theorems.                                                             *)

LEMMA LoopKeeps ==
  ASSUME CoreInv, ClosesAtHome, NEW t \in Threads, LoopStep(t) PROVE CoreInv'
<1>1. TypeOK'
  BY LoopTypes DEF CoreInv
<1>2. ASSUME NEW c \in Conns, HandleTimer(c) PROVE CoreInv'
  BY <1>1, <1>2, HandleTimerKeeps
<1>3. CASE Poll(t)          BY <1>1, <1>3, PollKeeps
<1>4. CASE HandleWakeup(t)  BY <1>1, <1>4, HandleWakeupKeeps
<1>5. ASSUME NEW c \in Conns, HandleConnEvent(t, c) PROVE CoreInv'
  BY <1>1, <1>5, HandleConnEventKeeps
<1>6. CASE FinishClose(t)   BY <1>1, <1>6, FinishCloseKeeps
<1>7. CASE SwapTasks(t)     BY <1>1, <1>7, SwapTasksKeeps
<1>8. CASE RunEstablish(t)  BY <1>1, <1>8, RunEstablishKeeps
<1>9. CASE RunDelete(t)     BY <1>1, <1>9, RunDeleteKeeps
<1>10. CASE RunDestroy(t)   BY <1>1, <1>10, RunDestroyKeeps
<1>11. CASE EndTasks(t)     BY <1>1, <1>11, EndTasksKeeps
<1>12. ASSUME NEW c \in Conns, NEW f \in Fds, Accept(c, f) PROVE CoreInv'
  BY <1>1, <1>12, AcceptKeeps
<1>13. CASE AcceptFails     BY <1>1, <1>13, AcceptFailsKeeps
<1> QED BY <1>2, <1>3, <1>4, <1>5, <1>6, <1>7, <1>8, <1>9, <1>10, <1>11, <1>12, <1>13
        DEF LoopStep

LEMMA InitialInv == Init => CoreInv
<1> SUFFICES ASSUME Init PROVE CoreInv
  OBVIOUS
<1>1. TypeOK
  <2>1. (CHOOSE f \in Fds : TRUE) \in Fds
    OBVIOUS
  <2>2. <<>> \in Seq(Task)
    OBVIOUS
  <2> QED BY <2>1, <2>2 DEF Init, TypeOK
<1>2. \A t \in Threads : DOMAIN tasks[t] = {} /\ DOMAIN batch[t] = {}
  BY DEF Init
<1>3. Slots = {}
  BY <1>2, SlotsAre
<1>4. SlotInv /\ UniqueInv
  BY <1>3 DEF SlotInv, UniqueInv
<1>5. HeldInv
  BY <1>2 DEF Init, HeldInv
<1>6. MapInv /\ EpollInv
  BY DEF Init, MapInv, EpollInv
<1>7. LoopInv /\ RestInv
  BY DEF Init, LoopInv, LoopOK, RestInv
<1> QED BY <1>1, <1>4, <1>5, <1>6, <1>7 DEF CoreInv

(* Every step keeps the invariant, but for what it says of the last          *)
(* references.                                                               *)
LEMMA CoreKept == ASSUME CoreInv, ClosesAtHome, [Next]_vars PROVE CoreInv'
<1>1. CASE Environment
  BY <1>1, EnvironmentKeeps
<1>2. ASSUME NEW t \in Threads, LoopStep(t) PROVE CoreInv'
  BY <1>2, LoopKeeps
<1>3. CASE UNCHANGED vars
  <2>1. UNCHANGED <<connections, own, fdOf, state, inEpoll, live, epoll, backlog, timer,
                    phase, active, tasks, batch, ran, wake, closing, aborted>>
    BY <1>3 DEF vars, connVars, kernelVars, loopVars
  <2>2. TypeOK'
    BY <1>3 DEF vars, connVars, kernelVars, loopVars, CoreInv, TypeOK
  <2>3. SlotInv' /\ UniqueInv' /\ MapInv' /\ EpollInv'
    BY <2>1, Quiet DEF connVars
  <2>4. HeldInv'
    BY <2>1, HeldKept DEF CoreInv
  <2>5. LoopInv' /\ RestInv'
    BY <2>1 DEF CoreInv, LoopInv, LoopOK, RestInv
  <2> QED BY <2>2, <2>3, <2>4, <2>5 DEF CoreInv
<1> QED BY <1>1, <1>2, <1>3 DEF Next

-----------------------------------------------------------------------------
(* References.                                                               *)

(* Queueing a functor drops no reference and adds the one the functor binds. *)
LEMMA BoundQueue ==
  ASSUME TypeOK, NEW t \in Threads, NEW u \in Threads, NEW task \in Task, Queue(t, u, task)
  PROVE  /\ \A v \in Threads : BoundIn(tasks[v]) \subseteq BoundIn(tasks'[v])
         /\ task.kind # "establish" => task.arg \in BoundIn(tasks'[u])
<1>1. /\ tasks'[u] = Append(tasks[u], task)
      /\ \A v \in Threads \ {u} : tasks'[v] = tasks[v]
  BY DEF Queue, TypeOK
<1>2. tasks[u] \in Seq(Task) /\ Len(tasks[u]) \in Nat /\ DOMAIN tasks[u] = 1 .. Len(tasks[u])
  BY DEF TypeOK
<1>3. /\ DOMAIN tasks'[u] = 1 .. Len(tasks[u]) + 1
      /\ \A i \in DOMAIN tasks[u] : tasks'[u][i] = tasks[u][i]
      /\ tasks'[u][Len(tasks[u]) + 1] = task
  BY <1>1, <1>2
<1>4. Len(tasks[u]) + 1 \in DOMAIN tasks'[u] /\ DOMAIN tasks[u] \subseteq DOMAIN tasks'[u]
  BY <1>2, <1>3
<1> QED BY <1>1, <1>3, <1>4 DEF BoundIn

(* An object with a reference before the step has one after it, unless the   *)
(* step dropped the one it had.                                              *)
LEMMA HeldStays ==
  ASSUME NEW c \in Conns, Held(c),
         (\E f \in Fds : connections[f] = c) => Held(c)',
         \A v \in Threads : /\ closing[v] = c => Held(c)'
                            /\ BoundIn(tasks[v]) \subseteq BoundIn(tasks'[v])
                            /\ batch'[v] = batch[v]
  PROVE  Held(c)'
<1>1. CASE \E f \in Fds : connections[f] = c
  BY <1>1
<1>2. ASSUME NEW v \in Threads, closing[v] = c PROVE Held(c)'
  BY <1>2
<1>3. ASSUME NEW v \in Threads, c \in BoundIn(tasks[v]) \/ c \in BoundIn(batch[v]) PROVE Held(c)'
  BY <1>3 DEF Held
<1> QED BY <1>1, <1>2, <1>3 DEF Held

(* An entry of the map that stays is a reference.                            *)
LEMMA MapHolds ==
  ASSUME NEW c, NEW f \in Fds, connections'[f] = c PROVE Held(c)'
BY DEF Held

(* A step that settles and leaves every object a reference destroys none.    *)
LEMMA NoneSettled ==
  ASSUME NEW born, NEW reg, Settle(born, reg), \A c \in live \cup born : Held(c)'
  PROVE  live' = live \cup born
BY DEF Settle

-----------------------------------------------------------------------------
(* What a step does to the stages of connections and to descriptors.         *)

Arrives(c) == /\ c \notin backlog /\ c \notin live /\ state[c] = "Invalid"
              /\ backlog' = backlog \cup {c}
              /\ UNCHANGED <<live, state, fdOf>>
Admits(c, f) == /\ c \in backlog /\ \A d \in live : fdOf[d] # f
                /\ backlog' = backlog \ {c}
                /\ live' = live \cup {c}
                /\ fdOf' = [fdOf EXCEPT ![c] = f]
                /\ state' = state \/ state' = [state EXCEPT ![c] = "Connected"]
Opens(c) == /\ c \in live /\ state[c] = "Invalid"
            /\ state' = [state EXCEPT ![c] = "Connected"]
            /\ UNCHANGED <<live, fdOf, backlog>>
Closes(c) == /\ c \in live /\ state[c] = "Connected"
             /\ state' = [state EXCEPT ![c] = "Closed"]
             /\ UNCHANGED <<live, fdOf, backlog>>
Releases == /\ live' \subseteq live /\ \A c \in live \ live' : state[c] = "Closed"
            /\ UNCHANGED <<state, fdOf, backlog>>

(* acceptConnection takes a descriptor nobody has and drops no reference.    *)
LEMMA AcceptAdmits ==
  ASSUME CoreInv, LiveInv, NEW c \in Conns, NEW f \in Fds, Accept(c, f)
  PROVE  Admits(c, f)
<1> PICK u \in Threads : u = NextLoop
  BY NextLoopType DEF CoreInv
<1>1. /\ c \in backlog /\ f \notin UsedFds
      /\ UNCHANGED <<batch, closing>>
      /\ backlog' = backlog \ {c}
      /\ fdOf' = [fdOf EXCEPT ![c] = f]
      /\ connections' = [connections EXCEPT ![f] = c]
  BY DEF Accept
<1>2. \A d \in live : fdOf[d] # f
  BY <1>1 DEF UsedFds
<1>3. connections[f] = NoConn
  BY <1>2 DEF CoreInv, HeldInv, MapInv
<1>4. connections'[f] = c /\ \A g \in Fds \ {f} : connections'[g] = connections[g]
  BY <1>1 DEF CoreInv, TypeOK
<1>5. PICK reg : /\ Settle({c}, reg)
                 /\ \/ Established(c) /\ UNCHANGED <<tasks, wake>>
                    \/ Queue(Main, u, Establish(f)) /\ UNCHANGED <<state, inEpoll, timer>>
  <2>1. CASE u = Main
    BY <2>1 DEF Accept
  <2>2. CASE u # Main
    BY <2>2 DEF Accept
  <2> QED BY <2>1, <2>2
<1>6. \A v \in Threads : BoundIn(tasks[v]) \subseteq BoundIn(tasks'[v])
  <2>1. CASE UNCHANGED tasks
    BY <2>1
  <2>2. CASE Queue(Main, u, Establish(f))
    <3>1. Main \in Threads /\ Establish(f) \in Task
      BY TaskTypes
    <3> QED BY <2>2, <3>1, BoundQueue DEF CoreInv
  <2> QED BY <1>5, <2>1, <2>2
<1>7. ASSUME NEW d \in live PROVE Held(d)'
  <2>1. Held(d) /\ d \in Conns /\ d # NoConn
    BY DEF LiveInv, CoreInv, TypeOK
  <2>2. ASSUME NEW g \in Fds, connections[g] = d PROVE Held(d)'
    BY <1>3, <1>4, <2>1, <2>2, MapHolds
  <2>3. ASSUME NEW v \in Threads, closing[v] = d PROVE Held(d)'
    BY <1>1, <2>3 DEF Held
  <2> QED BY <1>1, <1>6, <2>1, <2>2, <2>3, HeldStays
<1>8. Held(c)'
  BY <1>4, MapHolds
<1>9. live' = live \cup {c}
  BY <1>5, <1>7, <1>8, NoneSettled
<1>10. state' = state \/ state' = [state EXCEPT ![c] = "Connected"]
  BY <1>5 DEF Established
<1> QED BY <1>1, <1>2, <1>9, <1>10 DEF Admits

(* The lambda of NewConnection opens the connection it finds, if any.        *)
LEMMA EstablishOpens ==
  ASSUME CoreInv, LiveInv, NEW t \in Threads, RunEstablish(t)
  PROVE  UNCHANGED <<live, state, fdOf, backlog>> \/ \E c \in Conns : Opens(c)
<1>1. /\ Current(t).kind = "establish" /\ Current(t) \in Task
      /\ ran[t] + 1 \in DOMAIN batch[t]
  BY CurrentType DEF RunEstablish, CoreInv
<1> PICK f \in Fds : f = Current(t).arg
  BY <1>1 DEF Task
<1> PICK c : c = connections[f]
  OBVIOUS
<1>2. UNCHANGED <<connections, fdOf, backlog, tasks, batch, closing>>
  BY DEF RunEstablish
<1>3. CASE UNCHANGED <<state, live>>
  BY <1>2, <1>3
<1>4. ASSUME c # NoConn, Established(c), NEW reg, Settle({}, reg) PROVE Opens(c) /\ c \in Conns
  <2>1. \A d \in live : Held(d)'
    BY <1>2 DEF LiveInv, Held
  <2>2. live' = live
    BY <1>4, <2>1, NoneSettled
  <2>3. c \in live /\ c \in Conns
    BY <1>4 DEF CoreInv, HeldInv, TypeOK
  <2>4. state[c] = "Invalid"
    <3>1. ran[t] + 1 > ran[t]
      <4>1. ran \in [Threads -> Nat]
        BY DEF CoreInv, TypeOK
      <4>2. ran[t] \in Nat
        BY <4>1
      <4> QED BY <4>2
    <3>2. Slot("batch", t, ran[t] + 1) \in Slots /\ TaskAt[Slot("batch", t, ran[t] + 1)] = Current(t)
      BY <1>1, <3>1, SlotsAre DEF Current
    <3> QED BY <1>1, <3>2 DEF CoreInv, SlotInv
  <2> QED BY <1>2, <1>4, <2>2, <2>3, <2>4 DEF Opens, Established
<1>5. \/ UNCHANGED <<state, live>>
      \/ c # NoConn /\ Established(c) /\ Settle({}, [epoll EXCEPT ![f] = c])
  BY DEF RunEstablish
<1> QED BY <1>3, <1>4, <1>5

(* HandleClose closes the one connection; what erases it from the map queues *)
(* a functor that holds it.                                                  *)
LEMMA FinishCloses ==
  ASSUME CoreInv, LiveInv, NEW t \in Threads, FinishClose(t)
  PROVE  \E c \in Conns : Closes(c)
<1> PICK c \in Conns : c = closing[t]
  BY DEF FinishClose, CoreInv, TypeOK
<1> DEFINE task == IF t = Main THEN Destroy(c) ELSE Delete(c)
           u == IF t = Main THEN own[c] ELSE Main
<1>1. /\ c \in live /\ state[c] = "Connected" /\ own[c] = t /\ fdOf[c] \in Fds
      /\ u \in Threads /\ task \in Task /\ task.kind # "establish" /\ task.arg = c
  <2>1. c \in live /\ state[c] = "Connected" /\ own[c] = t
    BY DEF FinishClose, CoreInv, HeldInv, LoopInv, LoopOK
  <2>2. fdOf[c] \in Fds /\ u \in Threads /\ task \in Task
    BY TaskTypes DEF CoreInv, TypeOK
  <2>3. task.kind # "establish" /\ task.arg = c
    BY DEF Destroy, Delete
  <2> QED BY <2>1, <2>2, <2>3
<1>2. /\ state' = [state EXCEPT ![c] = "Closed"] /\ closing' = [closing EXCEPT ![t] = NoConn]
      /\ UNCHANGED <<fdOf, backlog, batch>> /\ Settle({}, epoll)
      /\ Queue(t, u, task)
      /\ connections' = connections \/ connections' = [connections EXCEPT ![fdOf[c]] = NoConn]
  BY DEF FinishClose, CloseInMain
<1> HIDE DEF task, u
<1>3. \A v \in Threads : BoundIn(tasks[v]) \subseteq BoundIn(tasks'[v])
  BY <1>1, <1>2, BoundQueue DEF CoreInv
<1>4. Held(c)'
  <2>1. c \in BoundIn(tasks'[u])
    BY <1>1, <1>2, BoundQueue DEF CoreInv
  <2> QED BY <1>1, <2>1 DEF Held
<1>5. connections[fdOf[c]] = c
  BY <1>1 DEF CoreInv, MapInv
<1>6. ASSUME NEW d \in live PROVE Held(d)'
  <2>1. Held(d) /\ d \in Conns
    BY DEF LiveInv, CoreInv, TypeOK
  <2>2. ASSUME NEW g \in Fds, connections[g] = d PROVE Held(d)'
    <3>1. connections'[g] = d \/ g = fdOf[c]
      BY <1>2, <2>2 DEF CoreInv, TypeOK
    <3> QED BY <1>4, <1>5, <2>2, <3>1, MapHolds
  <2>3. ASSUME NEW v \in Threads, closing[v] = d PROVE Held(d)'
    <3>1. closing'[v] = d \/ v = t
      BY <1>2, <2>3 DEF CoreInv, TypeOK
    <3> QED BY <1>4, <2>3, <3>1 DEF Held
  <2> QED BY <1>2, <1>3, <2>1, <2>2, <2>3, HeldStays
<1>7. live' = live
  BY <1>2, <1>6, NoneSettled
<1> QED BY <1>1, <1>2, <1>7 DEF Closes

(* HandleCloseInMainReactor hands the object on to its loop.                 *)
LEMMA DeleteKeepsStages ==
  ASSUME CoreInv, LiveInv, NEW t \in Threads, RunDelete(t)
  PROVE  UNCHANGED <<live, state, fdOf, backlog>>
<1>1. /\ Current(t).kind = "delete" /\ Current(t) \in Task
      /\ ran[t] + 1 \in DOMAIN batch[t]
  BY CurrentType DEF RunDelete, CoreInv
<1> PICK c \in Conns : c = Current(t).arg
  BY <1>1 DEF Task
<1>2. /\ connections' = [connections EXCEPT ![fdOf[c]] = NoConn]
      /\ Queue(Main, own[c], Destroy(c))
      /\ UNCHANGED <<fdOf, state, backlog, batch, closing>> /\ Settle({}, epoll)
  BY DEF RunDelete, CloseInMain
<1>3. own[c] \in Threads /\ Destroy(c) \in Task /\ Destroy(c).kind # "establish" /\ Destroy(c).arg = c
  BY TaskTypes DEF CoreInv, TypeOK, Destroy
<1>4. \A v \in Threads : BoundIn(tasks[v]) \subseteq BoundIn(tasks'[v])
  BY <1>2, <1>3, BoundQueue DEF CoreInv
<1>5. Held(c)'
  <2>1. c \in BoundIn(tasks'[own[c]])
    BY <1>2, <1>3, BoundQueue DEF CoreInv
  <2> QED BY <1>3, <2>1 DEF Held
<1>6. connections[fdOf[c]] = c
  <2>1. ran[t] + 1 > ran[t]
    <3>1. ran \in [Threads -> Nat]
      BY DEF CoreInv, TypeOK
    <3>2. ran[t] \in Nat
      BY <3>1
    <3> QED BY <3>2
  <2>2. Slot("batch", t, ran[t] + 1) \in Slots /\ TaskAt[Slot("batch", t, ran[t] + 1)] = Current(t)
    BY <1>1, <2>1, SlotsAre DEF Current
  <2> QED BY <1>1, <2>2 DEF CoreInv, SlotInv
<1>7. ASSUME NEW d \in live PROVE Held(d)'
  <2>1. Held(d) /\ d \in Conns
    BY DEF LiveInv, CoreInv, TypeOK
  <2>2. ASSUME NEW g \in Fds, connections[g] = d PROVE Held(d)'
    <3>1. connections'[g] = d \/ g = fdOf[c]
      BY <1>2, <2>2 DEF CoreInv, TypeOK
    <3> QED BY <1>5, <1>6, <2>2, <3>1, MapHolds
  <2>3. ASSUME NEW v \in Threads, closing[v] = d PROVE Held(d)'
    BY <1>2, <2>3 DEF Held
  <2> QED BY <1>2, <1>4, <2>1, <2>2, <2>3, HeldStays
<1>8. live' = live
  BY <1>2, <1>7, NoneSettled
<1> QED BY <1>2, <1>8

(* connectionDestroyed runs while its functor still holds the object.        *)
LEMMA DestroyKeepsStages ==
  ASSUME LiveInv, NEW t \in Threads, RunDestroy(t)
  PROVE  UNCHANGED <<live, state, fdOf, backlog>>
<1>1. CASE Abort("epoll")
  BY <1>1 DEF Abort, connVars, kernelVars
<1>2. ASSUME NEW reg, Settle({}, reg),
             UNCHANGED <<connections, fdOf, state, backlog, tasks, batch, closing>>
      PROVE  UNCHANGED <<live, state, fdOf, backlog>>
  <2>1. \A d \in live : Held(d)'
    BY <1>2 DEF LiveInv, Held
  <2> QED BY <1>2, <2>1, NoneSettled
<1> QED BY <1>1, <1>2 DEF RunDestroy

(* What only the functors of a finished batch kept is closed.                *)
LEMMA EndReleases ==
  ASSUME CoreInv, NEW t \in Threads, EndTasks(t) PROVE Releases
<1>1. UNCHANGED <<connections, fdOf, state, backlog>> /\ Settle({}, epoll)
  BY DEF EndTasks
<1>2. live' = {c \in live : Held(c)'}
  BY <1>1 DEF Settle
<1>3. ASSUME NEW c \in live \ live' PROVE state[c] = "Closed"
  <2>1. fdOf[c] \in Fds /\ connections[fdOf[c]] # c
    BY <1>1, <1>2, <1>3 DEF CoreInv, TypeOK, Held
  <2> QED BY <2>1 DEF CoreInv, MapInv
<1> QED BY <1>1, <1>2, <1>3 DEF Releases

LEMMA Advances ==
  ASSUME CoreInv, LiveInv, [Next]_vars
  PROVE  \/ UNCHANGED <<live, state, fdOf, backlog>>
         \/ Releases
         \/ \E c \in Conns : \/ Arrives(c) \/ Opens(c) \/ Closes(c)
                             \/ \E f \in Fds : Admits(c, f)
<1>1. CASE UNCHANGED vars
  BY <1>1 DEF vars, connVars, kernelVars
<1>2. ASSUME NEW c \in Conns, PeerConnect(c) \/ PeerSend(c) \/ PeerClose(c) \/ TimerExpire(c)
      PROVE  UNCHANGED <<live, state, fdOf, backlog>> \/ Arrives(c)
  BY <1>2 DEF PeerConnect, PeerSend, PeerClose, TimerExpire, connVars, kernelVars, Arrives
<1>3. ASSUME NEW t \in Threads, Poll(t) \/ HandleWakeup(t) \/ SwapTasks(t) \/ AcceptFails
      PROVE  UNCHANGED <<live, state, fdOf, backlog>>
  BY <1>3 DEF Poll, HandleWakeup, SwapTasks, AcceptFails, Abort, connVars, kernelVars
<1>4. ASSUME NEW t \in Threads, NEW c \in Conns, HandleConnEvent(t, c) \/ HandleTimer(c)
      PROVE  UNCHANGED <<live, state, fdOf, backlog>>
  BY <1>4 DEF HandleConnEvent, HandleTimer, connVars, kernelVars
<1> QED BY <1>1, <1>2, <1>3, <1>4, AcceptAdmits, EstablishOpens, FinishCloses, DeleteKeepsStages,
        DestroyKeepsStages, EndReleases DEF Next, Environment, LoopStep

-----------------------------------------------------------------------------
(* The theorems.                                                             *)

(* A step that neither settles nor drops a reference.                        *)
LEMMA LiveStays ==
  ASSUME LiveInv, live \subseteq Conns, live' = live, UNCHANGED connections,
         \A v \in Threads : /\ closing'[v] = closing[v] \/ closing[v] = NoConn
                            /\ \/ tasks'[v] = tasks[v] /\ batch'[v] = batch[v]
                               \/ batch[v] = <<>> /\ batch'[v] = tasks[v]
  PROVE  LiveInv'
<1> SUFFICES ASSUME NEW c \in live PROVE Held(c)'
  BY DEF LiveInv
<1>1. Held(c) /\ c \in Conns /\ c # NoConn
  BY DEF LiveInv
<1>2. ASSUME NEW v \in Threads, c \in BoundIn(tasks[v]) \/ c \in BoundIn(batch[v]) PROVE Held(c)'
  <2>1. BoundIn(<<>>) = {}
    BY DEF BoundIn
  <2> QED BY <1>2, <2>1 DEF Held
<1> QED BY <1>1, <1>2 DEF Held

LEMMA LiveKept == ASSUME CoreInv, LiveInv, [Next]_vars PROVE LiveInv'
<1>1. ASSUME NEW born, NEW reg, Settle(born, reg) PROVE LiveInv'
  BY <1>1 DEF Settle, LiveInv
<1>2. live \subseteq Conns
  BY DEF CoreInv, TypeOK
<1>3. ASSUME UNCHANGED <<connections, live, tasks, batch, closing>> PROVE LiveInv'
  BY <1>3 DEF LiveInv, Held
<1>4. CASE UNCHANGED vars
  BY <1>3, <1>4 DEF vars, connVars, loopVars
<1>5. CASE Environment
  BY <1>3, <1>5 DEF Environment, PeerConnect, PeerSend, PeerClose, TimerExpire, connVars, loopVars
<1>6. ASSUME NEW t \in Threads, Poll(t) \/ HandleWakeup(t) \/ AcceptFails PROVE LiveInv'
  BY <1>3, <1>6 DEF Poll, HandleWakeup, AcceptFails, Abort, connVars, loopVars
<1>7. ASSUME NEW t \in Threads, NEW c \in Conns, HandleConnEvent(t, c) PROVE LiveInv'
  <2>1. \A v \in Threads : closing'[v] = closing[v] \/ closing[v] = NoConn
    BY <1>7 DEF HandleConnEvent, Idle, CoreInv, TypeOK
  <2>2. UNCHANGED <<connections, live, tasks, batch>>
    BY <1>7 DEF HandleConnEvent, connVars
  <2> QED BY <1>2, <2>1, <2>2, LiveStays
<1>8. ASSUME NEW c \in Conns, HandleTimer(c) PROVE LiveInv'
  <2>1. \A v \in Threads : closing'[v] = closing[v] \/ closing[v] = NoConn
    BY <1>8 DEF HandleTimer, Idle, CoreInv, TypeOK
  <2>2. UNCHANGED <<connections, live, tasks, batch>>
    BY <1>8 DEF HandleTimer, connVars
  <2> QED BY <1>2, <2>1, <2>2, LiveStays
<1>9. ASSUME NEW t \in Threads, SwapTasks(t) PROVE LiveInv'
  <2>1. UNCHANGED <<connections, live, closing>> /\ batch[t] = <<>>
    BY <1>9 DEF SwapTasks, connVars, CoreInv, LoopInv, LoopOK
  <2>2. \A v \in Threads : IF v = t THEN batch'[v] = tasks[v]
                                    ELSE tasks'[v] = tasks[v] /\ batch'[v] = batch[v]
    BY <1>9 DEF SwapTasks, CoreInv, TypeOK
  <2> QED BY <1>2, <2>1, <2>2, LiveStays
<1>10. ASSUME NEW t \in Threads, FinishClose(t) \/ RunDelete(t) \/ EndTasks(t) PROVE LiveInv'
  BY <1>1, <1>10 DEF FinishClose, RunDelete, EndTasks
<1>11. ASSUME NEW t \in Threads, RunEstablish(t) PROVE LiveInv'
  <2>1. CASE live' = live
    BY <1>3, <1>11, <2>1 DEF RunEstablish
  <2>2. CASE Settle({}, [epoll EXCEPT ![Current(t).arg] = connections[Current(t).arg]])
    BY <1>1, <2>2
  <2> QED BY <1>11, <2>1, <2>2 DEF RunEstablish
<1>12. ASSUME NEW t \in Threads, RunDestroy(t) PROVE LiveInv'
  <2>1. CASE Abort("epoll")
    BY <1>3, <2>1 DEF Abort, connVars, loopVars
  <2> QED BY <1>1, <1>12, <2>1 DEF RunDestroy
<1>13. ASSUME NEW c \in Conns, NEW f \in Fds, Accept(c, f) PROVE LiveInv'
  BY <1>1, <1>13 DEF Accept
<1> QED BY <1>4, <1>5, <1>6, <1>7, <1>8, <1>9, <1>10, <1>11, <1>12, <1>13 DEF Next, LoopStep

(* If the timer is off, or runs on the only loop, the invariant always holds.*)
THEOREM Invariance == ASSUME ClosesAtHome PROVE Spec => []Inv
<1>1. Init => LiveInv
  BY DEF Init, LiveInv
<1>2. Inv /\ [Next]_vars => Inv'
  BY CoreKept, LiveKept DEF Inv
<1> QED BY <1>1, <1>2, InitialInv, PTL DEF Spec, Inv

(* If connections are closed at home, no loop handles an event of a          *)
(* destroyed one (Channel.cpp, which ignores what tie.lock() returned).      *)
THEOREM NoDangling == ASSUME ClosesAtHome PROVE Spec => []NoDanglingEvents
<1>1. Inv => NoDanglingEvents
  <2> SUFFICES ASSUME Inv, NEW t \in Threads, NEW c \in active[t] \cap Conns PROVE c \in live
    BY DEF NoDanglingEvents
  <2>1. epoll[fdOf[c]] = c /\ fdOf[c] \in Fds /\ c # NoConn
    BY DEF Inv, CoreInv, LoopInv, LoopOK, TypeOK
  <2> QED BY <2>1 DEF Inv, CoreInv, EpollInv
<1> QED BY <1>1, Invariance, PTL

(* If connections are closed at home, no epoll_ctl fails and handleWakeup    *)
(* finds its eventfd readable (Epoll.cpp, EventLoop.cpp).                    *)
THEOREM AssertionsHold == ASSUME ClosesAtHome PROVE Spec => []NoAssertionFails
<1>1. Inv => NoAssertionFails
  BY DEF Inv, CoreInv, RestInv, NoAssertionFails
<1> QED BY <1>1, Invariance, PTL

(* If connections are closed at home, Server::connections is never confused  *)
(* by a re-used descriptor (Server.cpp).                                     *)
THEOREM MapFaithful == ASSUME ClosesAtHome PROVE Spec => []MapIsFaithful
<1>1. Inv => MapIsFaithful
  BY DEF Inv, CoreInv, HeldInv, MapInv, MapIsFaithful
<1> QED BY <1>1, Invariance, PTL

(* With the timer off, or on the only loop, none but a connection's own loop *)
(* is inside HandleClose for it (Server.cpp:39), its events included.        *)
THEOREM ClosedOnOwnLoop == ASSUME ClosesAtHome PROVE Spec => []CloseOnOwnLoop
<1>1. Inv => CloseOnOwnLoop
  BY DEF Inv, CoreInv, LoopInv, LoopOK, CloseOnOwnLoop
<1> QED BY <1>1, Invariance, PTL

-----------------------------------------------------------------------------
(* The refinement of ConnectionService.                                      *)

Stage == [c \in Conns |-> StageOf(c)]
Lease == [f \in Fds |-> IF \E c \in live : fdOf[c] = f
                        THEN CHOOSE c \in live : fdOf[c] = f ELSE NoConn]

(* A descriptor is leased to the one live connection that has it.            *)
LEMMA LeaseIs ==
  ASSUME MapInv, NEW f \in Fds
  PROVE  /\ \A c \in live : fdOf[c] = f => Lease[f] = c
         /\ (\A c \in live : fdOf[c] # f) => Lease[f] = NoConn
         /\ Lease[f] \in live \cup {NoConn}
<1>1. ASSUME NEW c \in live, fdOf[c] = f PROVE Lease[f] = c
  <2>1. \A d \in live : fdOf[d] = f => d = c
    BY <1>1 DEF MapInv
  <2> QED BY <1>1, <2>1 DEF Lease
<1>2. (\A c \in live : fdOf[c] # f) => Lease[f] = NoConn
  BY DEF Lease
<1> QED BY <1>1, <1>2

LEMMA LeaseIsNext ==
  ASSUME MapInv', NEW f \in Fds
  PROVE  /\ \A c \in live' : fdOf'[c] = f => Lease'[f] = c
         /\ (\A c \in live' : fdOf'[c] # f) => Lease'[f] = NoConn
<1>1. ASSUME NEW c \in live', fdOf'[c] = f PROVE Lease'[f] = c
  <2>1. \A d \in live' : fdOf'[d] = f => d = c
    BY <1>1 DEF MapInv
  <2> QED BY <1>1, <2>1 DEF Lease
<1>2. (\A c \in live' : fdOf'[c] # f) => Lease'[f] = NoConn
  BY DEF Lease
<1> QED BY <1>1, <1>2

(* Steps on one connection leave the stages of the others.                   *)
LEMMA StageOthers ==
  ASSUME TypeOK, NEW c \in Conns, NEW to,
         \A d \in Conns \ {c} : /\ d \in live' <=> d \in live
                                /\ d \in backlog' <=> d \in backlog
                                /\ state'[d] = state[d],
         StageOf(c)' = to
  PROVE  Stage' = [Stage EXCEPT ![c] = to]
<1>1. ASSUME NEW d \in Conns \ {c} PROVE StageOf(d)' = StageOf(d)
  <2>1. state'[d] = state[d] /\ state[d] \in {"Invalid", "Connected", "Closed"}
    BY DEF TypeOK
  <2> QED BY <2>1 DEF StageOf
<1>2. \A d \in Conns : Stage'[d] = [Stage EXCEPT ![c] = to][d]
  BY <1>1 DEF Stage
<1> QED BY <1>2 DEF Stage

LEMMA LeaseKept ==
  ASSUME UNCHANGED <<live, fdOf>> PROVE Lease' = Lease
BY DEF Lease

LEMMA ArriveMaps ==
  ASSUME CoreInv, NEW c \in Conns, Arrives(c) PROVE Service!Arrive(c)
<1>1. StageOf(c) = "idle" /\ StageOf(c)' = "waiting"
  BY DEF Arrives, StageOf
<1>2. Stage' = [Stage EXCEPT ![c] = "waiting"]
  BY <1>1, StageOthers DEF Arrives, CoreInv, TypeOK
<1>3. Stage[c] = "idle"
  BY <1>1 DEF Stage
<1>4. Lease' = Lease
  BY LeaseKept DEF Arrives
<1> QED BY <1>2, <1>3, <1>4 DEF Service!Arrive, Service!Move, Stage, Lease

LEMMA OpenMaps ==
  ASSUME CoreInv, NEW c \in Conns, Opens(c) PROVE Service!Open(c)
<1>1. /\ c \in live /\ state[c] = "Invalid" /\ c \in live' /\ state'[c] = "Connected"
      /\ \A d \in Conns \ {c} : state'[d] = state[d]
  BY DEF Opens, CoreInv, TypeOK
<1>2. StageOf(c) = "opening" /\ StageOf(c)' = "open"
  BY <1>1 DEF StageOf
<1>3. Stage' = [Stage EXCEPT ![c] = "open"]
  BY <1>1, <1>2, StageOthers DEF Opens, CoreInv
<1>4. Stage[c] = "opening"
  BY <1>2 DEF Stage
<1>5. Lease' = Lease
  BY LeaseKept DEF Opens
<1> QED BY <1>3, <1>4, <1>5 DEF Service!Open, Service!Move, Stage, Lease

LEMMA CloseMaps ==
  ASSUME CoreInv, NEW c \in Conns, Closes(c) PROVE Service!Close(c)
<1>1. /\ c \in live /\ state[c] = "Connected" /\ c \in live' /\ state'[c] = "Closed"
      /\ \A d \in Conns \ {c} : state'[d] = state[d]
  BY DEF Closes, CoreInv, TypeOK
<1>2. StageOf(c) = "open" /\ StageOf(c)' = "closed"
  BY <1>1 DEF StageOf
<1>3. Stage' = [Stage EXCEPT ![c] = "closed"]
  BY <1>1, <1>2, StageOthers DEF Closes, CoreInv
<1>4. Stage[c] = "open"
  BY <1>2 DEF Stage
<1>5. Lease' = Lease
  BY LeaseKept DEF Closes
<1> QED BY <1>3, <1>4, <1>5 DEF Service!Close, Service!Move, Stage, Lease

LEMMA AdmitMaps ==
  ASSUME CoreInv, CoreInv', NEW c \in Conns, NEW f \in Fds, Admits(c, f)
  PROVE  Service!Admit(c, f)
<1>1. /\ c \in backlog /\ c \notin live /\ c \in live' /\ state[c] = "Invalid"
      /\ \A d \in Conns \ {c} : state'[d] = state[d] /\ fdOf'[d] = fdOf[d]
      /\ fdOf'[c] = f
  <2>1. c \in backlog /\ c \notin live /\ c \in live' /\ state[c] = "Invalid"
    BY DEF Admits, CoreInv, RestInv
  <2>2. \A d \in Conns \ {c} : state'[d] = state[d]
    <3>1. CASE state' = state
      BY <3>1
    <3>2. CASE state' = [state EXCEPT ![c] = "Connected"]
      BY <3>2 DEF CoreInv, TypeOK
    <3> QED BY <3>1, <3>2 DEF Admits
  <2>3. fdOf'[c] = f /\ \A d \in Conns \ {c} : fdOf'[d] = fdOf[d]
    BY DEF Admits, CoreInv, TypeOK
  <2> QED BY <2>1, <2>2, <2>3
<1>2. state'[c] = "Invalid" \/ state'[c] = "Connected"
  BY <1>1 DEF Admits, CoreInv, TypeOK
<1>3. StageOf(c) = "waiting"
  BY <1>1 DEF StageOf
<1>4. StageOf(c)' = "opening" \/ StageOf(c)' = "open"
  BY <1>1, <1>2 DEF StageOf
<1>5. Stage' = [Stage EXCEPT ![c] = "opening"] \/ Stage' = [Stage EXCEPT ![c] = "open"]
  BY <1>1, <1>4, StageOthers DEF Admits, CoreInv, TypeOK
<1>6. Stage[c] = "waiting"
  BY <1>3 DEF Stage
<1>7. Lease[f] = NoConn
  BY LeaseIs DEF Admits, CoreInv
<1>8. Lease' = [Lease EXCEPT ![f] = c]
  <2>1. live \subseteq Conns \ {c} /\ live' = live \cup {c}
    BY <1>1 DEF Admits, CoreInv, TypeOK
  <2>2. Lease'[f] = c
    BY <1>1, LeaseIsNext DEF CoreInv
  <2>3. ASSUME NEW g \in Fds \ {f} PROVE Lease'[g] = Lease[g]
    <3>1. ASSUME NEW d \in live, fdOf[d] = g PROVE Lease'[g] = Lease[g]
      BY <1>1, <2>1, <3>1, LeaseIs, LeaseIsNext DEF CoreInv
    <3>2. CASE \A d \in live : fdOf[d] # g
      BY <1>1, <2>1, <3>2, LeaseIs, LeaseIsNext DEF CoreInv
    <3> QED BY <3>1, <3>2
  <2>4. /\ DOMAIN Lease = Fds /\ Lease = [g \in Fds |-> Lease[g]]
        /\ Lease' = [g \in Fds |-> Lease'[g]]
    BY DEF Lease
  <2> HIDE DEF Lease
  <2> QED BY <2>2, <2>3, <2>4
<1> QED BY <1>5, <1>6, <1>7, <1>8 DEF Service!Admit, Service!Move, Stage, Lease

LEMMA ReleaseMaps ==
  ASSUME CoreInv, CoreInv', Releases
  PROVE  live' = live \/ \E S \in (SUBSET Conns) \ {{}} : Service!Release(S)
<1> DEFINE S == live \ live'
<1>1. S \subseteq Conns /\ live' \subseteq live /\ \A c \in S : state[c] = "Closed"
  BY DEF Releases, CoreInv, TypeOK
<1>2. \A c \in S : StageOf(c) = "closed" /\ StageOf(c)' = "released"
  BY <1>1 DEF Releases, StageOf, CoreInv, RestInv
<1>3. ASSUME NEW c \in Conns \ S PROVE StageOf(c)' = StageOf(c)
  <2>1. /\ state'[c] = state[c] /\ state[c] \in {"Invalid", "Connected", "Closed"}
        /\ (c \in live' <=> c \in live) /\ (c \in backlog' <=> c \in backlog)
    BY <1>1 DEF Releases, CoreInv, TypeOK
  <2> QED BY <2>1 DEF StageOf
<1>4. \A f \in Fds : Lease'[f] = IF Lease[f] \in S THEN NoConn ELSE Lease[f]
  <2> SUFFICES ASSUME NEW f \in Fds PROVE Lease'[f] = IF Lease[f] \in S THEN NoConn ELSE Lease[f]
    OBVIOUS
  <2>1. NoConn \notin S
    BY <1>1
  <2>2. CASE \A c \in live : fdOf[c] # f
    BY <1>1, <2>1, <2>2, LeaseIs, LeaseIsNext DEF Releases, CoreInv
  <2>3. ASSUME NEW c \in live, fdOf[c] = f PROVE Lease'[f] = IF Lease[f] \in S THEN NoConn ELSE Lease[f]
    <3>1. Lease[f] = c
      BY <2>3, LeaseIs DEF CoreInv
    <3>2. CASE c \in live'
      BY <2>3, <3>1, <3>2, LeaseIsNext DEF Releases, CoreInv
    <3>3. CASE c \notin live'
      <4>1. \A d \in live' : fdOf'[d] # f
        BY <1>1, <2>3, <3>3 DEF Releases, CoreInv, MapInv
      <4> QED BY <2>3, <3>1, <3>3, <4>1, LeaseIsNext DEF CoreInv
    <3> QED BY <3>2, <3>3
  <2> QED BY <2>2, <2>3
<1>5. Stage' = [c \in Conns |-> IF c \in S THEN "released" ELSE Stage[c]]
  BY <1>2, <1>3 DEF Stage
<1>6. Lease' = [f \in Fds |-> IF Lease[f] \in S THEN NoConn ELSE Lease[f]]
  BY <1>4 DEF Lease
<1>7. \A c \in S : Stage[c] = "closed"
  BY <1>1, <1>2 DEF Stage
<1>8. S = {} => live' = live
  BY <1>1
<1> HIDE DEF S
<1>9. ASSUME S # {} PROVE \E T \in (SUBSET Conns) \ {{}} : Service!Release(T)
  <2>1. S \in (SUBSET Conns) \ {{}}
    BY <1>1, <1>9
  <2> QED BY <1>5, <1>6, <1>7, <2>1 DEF Service!Release, Stage, Lease
<1> QED BY <1>8, <1>9 DEF Service!Release

(* If connections are closed at home, for any number of reactors,            *)
(* connections and descriptors, the reactors implement the service: no       *)
(* connection skips or repeats a stage, and no descriptor is shared or       *)
(* leased again before its connection is gone (Server.cpp, Connection.cpp,   *)
(* Acceptor.cpp).                                                            *)
THEOREM Implements == ASSUME ClosesAtHome PROVE Spec => ImplementsServiceSafety
<1>1. Init => Service!ServiceInit
  BY DEF Init, Service!ServiceInit, StageOf
<1>2. Inv /\ Inv' /\ [Next]_vars => [Service!ServiceNext]_Service!svars
  <2> SUFFICES ASSUME CoreInv, LiveInv, CoreInv', [Next]_vars
               PROVE  Service!ServiceNext \/ (Stage' = Stage /\ Lease' = Lease)
    BY DEF Inv, Stage, Lease, Service!svars
  <2>1. CASE UNCHANGED <<live, state, fdOf, backlog>>
    BY <2>1 DEF Stage, StageOf, Lease
  <2>2. CASE Releases /\ live' # live
    BY <2>2, ReleaseMaps DEF Service!ServiceNext
  <2>3. CASE Releases /\ live' = live
    BY <2>3 DEF Releases, Stage, StageOf, Lease
  <2>4. ASSUME NEW c \in Conns,
               Arrives(c) \/ Opens(c) \/ Closes(c) \/ \E f \in Fds : Admits(c, f)
        PROVE  Service!ServiceNext
    BY <2>4, ArriveMaps, OpenMaps, CloseMaps, AdmitMaps DEF Service!ServiceNext
  <2> QED BY <2>1, <2>2, <2>3, <2>4, Advances
<1> QED BY <1>1, <1>2, Invariance, PTL DEF Spec, ImplementsServiceSafety, Service!ServiceSafety

-----------------------------------------------------------------------------
(* Closed connections stay closed.                                           *)

(* What a step may do to the map, to a closed connection and to the objects. *)
LEMMA StepsKeepClosed ==
  ASSUME CoreInv, ClosesAtHome, [Next]_vars
  PROVE  /\ \A f \in Fds : connections[f] # NoConn /\ connections'[f] # connections[f] =>
              connections'[f] = NoConn /\ state'[connections[f]] = "Closed"
         /\ \A c \in Conns : state[c] = "Closed" =>
              state'[c] = "Closed" /\ (c \notin live => c \notin live')
<1> DEFINE Erased == \A f \in Fds : connections[f] # NoConn /\ connections'[f] # connections[f] =>
                       connections'[f] = NoConn /\ state'[connections[f]] = "Closed"
           Stays == \A c \in Conns : state[c] = "Closed" =>
                      state'[c] = "Closed" /\ (c \notin live => c \notin live')
<1>1. ASSUME UNCHANGED <<connections, state>>, live' \subseteq live PROVE Erased /\ Stays
  BY <1>1
<1>2. CASE Environment \/ UNCHANGED vars
  BY <1>1, <1>2 DEF Environment, PeerConnect, PeerSend, PeerClose, TimerExpire, vars, connVars
<1>3. ASSUME NEW t \in Threads, LoopStep(t) PROVE Erased /\ Stays
  <2>1. CASE Poll(t)
    BY <1>1, <2>1 DEF Poll, connVars
  <2>2. CASE HandleWakeup(t)
    BY <1>1, <2>2 DEF HandleWakeup, Abort, connVars
  <2>3. ASSUME NEW c \in Conns, HandleConnEvent(t, c) PROVE Erased /\ Stays
    BY <1>1, <2>3 DEF HandleConnEvent, connVars
  <2>4. CASE SwapTasks(t)
    BY <1>1, <2>4 DEF SwapTasks, connVars
  <2>5. CASE RunDestroy(t)
    <3>1. UNCHANGED <<connections, state>> /\ live' \subseteq live
      BY <2>5 DEF RunDestroy, Abort, connVars, Settle
    <3> QED BY <1>1, <3>1
  <2>6. CASE EndTasks(t)
    <3>1. UNCHANGED <<connections, state>> /\ live' \subseteq live
      BY <2>6 DEF EndTasks, Settle
    <3> QED BY <1>1, <3>1
  <2>7. CASE AcceptFails
    BY <1>1, <2>7 DEF AcceptFails, Abort, connVars
  <2>8. ASSUME NEW c \in Conns, HandleTimer(c) PROVE Erased /\ Stays
    BY <1>1, <2>8 DEF HandleTimer, connVars
  <2>9. ASSUME NEW c \in Conns, NEW f \in Fds, Accept(c, f) PROVE Erased /\ Stays
    <3>1. /\ c \in backlog /\ f \notin UsedFds
          /\ connections' = [connections EXCEPT ![f] = c]
          /\ Established(c) \/ UNCHANGED state
      BY <2>9 DEF Accept
    <3>2. state[c] = "Invalid"
      BY <3>1 DEF CoreInv, RestInv
    <3>3. \A d \in Conns : state'[d] = state[d] \/ d = c
      BY <3>1 DEF Established, CoreInv, TypeOK
    <3>4. connections[f] = NoConn
      BY <3>1 DEF UsedFds, CoreInv, HeldInv, MapInv
    <3>5. \A g \in Fds : connections'[g] = connections[g] \/ g = f
      BY <3>1 DEF CoreInv, TypeOK
    <3>6. live' \subseteq live \cup {c}
      BY <2>9 DEF Accept, Settle
    <3> QED BY <3>2, <3>3, <3>4, <3>5, <3>6
  <2>10. CASE FinishClose(t)
    <3> PICK c \in Conns : c = closing[t]
      BY <2>10 DEF FinishClose, CoreInv, TypeOK
    <3>1. /\ state' = [state EXCEPT ![c] = "Closed"]
          /\ CloseInMain(c) \/ UNCHANGED connections
          /\ live' \subseteq live
      BY <2>10 DEF FinishClose, Settle
    <3>2. state'[c] = "Closed" /\ \A d \in Conns : state'[d] = state[d] \/ d = c
      BY <3>1 DEF CoreInv, TypeOK
    <3>3. connections[fdOf[c]] = c
      <4>1. c \in live /\ state[c] = "Connected"
        BY <2>10 DEF FinishClose, CoreInv, HeldInv, LoopInv, LoopOK
      <4> QED BY <4>1 DEF CoreInv, MapInv
    <3>4. \A g \in Fds : connections'[g] = connections[g] \/ (g = fdOf[c] /\ connections'[g] = NoConn)
      BY <3>1 DEF CloseInMain, CoreInv, TypeOK
    <3> QED BY <3>1, <3>2, <3>3, <3>4
  <2>11. CASE RunEstablish(t)
    <3>1. /\ UNCHANGED connections /\ Current(t).kind = "establish"
          /\ ran[t] + 1 \in DOMAIN batch[t] /\ Current(t) \in Task
      BY <2>11, CurrentType DEF RunEstablish, CoreInv
    <3>2. live' \subseteq live
      BY <2>11 DEF RunEstablish, Settle
    <3> PICK c : c = connections[Current(t).arg]
      OBVIOUS
    <3>3. Established(c) \/ UNCHANGED state
      BY <2>11 DEF RunEstablish
    <3>4. state[c] = "Invalid"
      <4>1. ran[t] + 1 > ran[t]
        <5>1. ran \in [Threads -> Nat]
          BY DEF CoreInv, TypeOK
        <5>2. ran[t] \in Nat
          BY <5>1
        <5> QED BY <5>2
      <4>2. Slot("batch", t, ran[t] + 1) \in Slots /\ TaskAt[Slot("batch", t, ran[t] + 1)] = Current(t)
        BY <3>1, <4>1, SlotsAre DEF Current
      <4> QED BY <3>1, <4>2 DEF CoreInv, SlotInv
    <3>5. \A d \in Conns : state'[d] = state[d] \/ d = c
      BY <3>3 DEF Established, CoreInv, TypeOK
    <3> QED BY <3>1, <3>2, <3>4, <3>5
  <2>12. CASE RunDelete(t)
    <3>1. /\ UNCHANGED state /\ Current(t).kind = "delete"
          /\ ran[t] + 1 \in DOMAIN batch[t] /\ Current(t) \in Task
          /\ CloseInMain(Current(t).arg)
      BY <2>12, CurrentType DEF RunDelete, CoreInv
    <3>2. live' \subseteq live
      BY <2>12 DEF RunDelete, Settle
    <3> PICK c : c = Current(t).arg
      OBVIOUS
    <3>3. state[c] = "Closed" /\ connections[fdOf[c]] = c
      <4>1. ran[t] + 1 > ran[t]
        <5>1. ran \in [Threads -> Nat]
          BY DEF CoreInv, TypeOK
        <5>2. ran[t] \in Nat
          BY <5>1
        <5> QED BY <5>2
      <4>2. Slot("batch", t, ran[t] + 1) \in Slots /\ TaskAt[Slot("batch", t, ran[t] + 1)] = Current(t)
        BY <3>1, <4>1, SlotsAre DEF Current
      <4> QED BY <3>1, <4>2 DEF CoreInv, SlotInv
    <3>4. \A g \in Fds : connections'[g] = connections[g] \/ (g = fdOf[c] /\ connections'[g] = NoConn)
      BY <3>1 DEF CloseInMain, CoreInv, TypeOK
    <3> QED BY <3>1, <3>2, <3>3, <3>4
  <2> QED BY <1>3, <2>1, <2>2, <2>3, <2>4, <2>5, <2>6, <2>7, <2>8, <2>9, <2>10, <2>11, <2>12
          DEF LoopStep
<1> QED BY <1>2, <1>3 DEF Next

(* If connections are closed at home, the map loses an entry only when that  *)
(* very connection is closed, whatever became of its descriptor, and a       *)
(* closed connection is never established again nor destroyed twice.         *)
THEOREM ClosedForGood == ASSUME ClosesAtHome PROVE Spec => EraseOnlyClosed /\ NeverRevived
<1> DEFINE Erased == \A f \in Fds : connections[f] # NoConn /\ connections'[f] # connections[f] =>
                       connections'[f] = NoConn /\ state'[connections[f]] = "Closed"
           Stays == \A c \in Conns : state[c] = "Closed" =>
                      state'[c] = "Closed" /\ (c \notin live => c \notin live')
<1>1. Inv /\ [Next]_vars => [Erased]_vars /\ [Stays]_vars
  BY StepsKeepClosed DEF Inv
<1>2. Spec => []Inv
  BY Invariance
<1> QED BY <1>1, <1>2, PTL DEF Spec, EraseOnlyClosed, NeverRevived

=============================================================================
