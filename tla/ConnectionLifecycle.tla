------------------------ MODULE ConnectionLifecycle ------------------------
(***************************************************************************)
(* The life of a TCP connection in the multi-reactor server: the main      *)
(* reactor accepts it, a sub reactor registers it with its epoll instance  *)
(* and serves its events, a close travels sub -> main -> sub, and the last *)
(* std::shared_ptr closes the descriptor, which the kernel may then hand   *)
(* out again.  One thread runs one EventLoop; thread 0 is the main reactor.*)
(*                                                                         *)
(* A step of this module is what one thread does between two accesses to   *)
(* memory that another thread may touch: handling one event up to the      *)
(* check of Connection::state in HandleClose, the rest of HandleClose,     *)
(* swapping the task list, running one task.  Pushing a task and writing   *)
(* the eventfd is one step here; LoopTasks splits it.                      *)
(***************************************************************************)
EXTENDS Naturals, Sequences, FiniteSets

CONSTANTS
  NumLoops,       (* EventLoopThreadPool::thread_nums_, 0 = single reactor *)
  Conns,          (* client connections, each used once                    *)
  Fds,            (* descriptors the process may have open for clients     *)
  NoConn,         (* null pointer / absent map entry                       *)
  AutoClose,      (* HttpServer::auto_close_conn_                          *)
  RacyLookup      (* may connections[fd] miss while main mutates the map?  *)

Main == 0
Threads == 0 .. NumLoops

(* Channels that are not connections. *)
Wakeup == "wakeup"
Listen == "listen"
Timer  == "timer"

ASSUME LifecycleAssumption ==
  /\ NumLoops \in Nat
  /\ Fds # {}
  /\ NoConn \notin Conns
  /\ Conns \cap {Wakeup, Listen, Timer} = {}
  /\ AutoClose \in BOOLEAN
  /\ RacyLookup \in BOOLEAN

(* The functors that reach a loop's task list. *)
Establish(f) == [kind |-> "establish", arg |-> f]
Delete(c)    == [kind |-> "delete",    arg |-> c]
Destroy(c)   == [kind |-> "destroy",   arg |-> c]
Task == [kind : {"establish"}, arg : Fds] \cup [kind : {"delete", "destroy"}, arg : Conns]

VARIABLES
  next,         (* EventLoopThreadPool::next_                               *)
  connections,  (* Server::connections, keyed by descriptor                 *)
  own, fdOf,    (* Connection::loop and Connection::fd                      *)
  state,        (* Connection::state                                        *)
  inEpoll,      (* Channel::inEpoll of the connection's channel             *)
  live,         (* Connection objects constructed and not yet destroyed     *)
  epoll,        (* kernel: the Channel* registered for a descriptor         *)
  backlog,      (* kernel: connections waiting in the accept queue          *)
  edge,         (* kernel: sockets with an event not yet reported           *)
  eof,          (* kernel: sockets whose peer has closed or reset           *)
  timer,        (* TimerQueue of main: "none", "armed", "due" per conn      *)
  phase,        (* where each thread is in EventLoop::loop                  *)
  active,       (* the Channel* returned by poll and not yet handled        *)
  tasks,        (* EventLoop::tasks                                         *)
  batch, ran,   (* doToDoList's local funcs, and how many of them have run  *)
  wake,         (* the eventfd counter is not zero                          *)
  closing,      (* the connection whose HandleClose passed its state check  *)
  aborted       (* an assertion failed: "no", or what failed                *)

connVars   == <<connections, own, fdOf, state, inEpoll, live>>
kernelVars == <<epoll, backlog, edge, eof>>
loopVars   == <<phase, active, tasks, batch, ran, wake, closing>>
vars == <<next, connVars, kernelVars, timer, loopVars, aborted>>

-----------------------------------------------------------------------------

(* Connections a queued functor keeps alive: DeleteConnection and            *)
(* HandleCloseInMainReactor bind a shared_ptr; NewConnection's lambda        *)
(* captures only the descriptor.                                             *)
MutantBoundInWeak(q) == {q[i].arg : i \in {j \in DOMAIN q : q[j].kind = "delete"}}
BoundIn(q) == {q[i].arg : i \in {j \in DOMAIN q : q[j].kind # "establish"}}

(* Some shared_ptr to c exists: the map entry, a queued or running functor,  *)
(* or the stack of a thread inside HandleClose.  The functors of a batch are *)
(* destroyed together when doToDoList returns.                               *)
Held(c) ==
  \/ \E f \in Fds : connections[f] = c
  \/ \E t \in Threads : \/ closing[t] = c
                        \/ c \in BoundIn(tasks[t])
                        \/ c \in BoundIn(batch[t])

(* End of every step: an object without references is destroyed, and         *)
(* ~Connection closes its descriptor, which removes it from epoll.           *)
Settle(born, reg) ==
  /\ live' = {c \in live \cup born : Held(c)'}
  /\ epoll' = [f \in Fds |-> IF reg[f] \in live' THEN reg[f] ELSE NoConn]

(* Descriptors the process has open. *)
MutantUsedFdsClosedEarly == {fdOf[c] : c \in {d \in live : state[d] # "Closed"}}
UsedFds == {fdOf[c] : c \in live}

(* queueOneFunc(fn) called on loop u by thread t: push, then write the       *)
(* eventfd unless u is this thread and is running its task list.             *)
MutantWakesIfIdle(t, u) == phase[u] # "tasks"
Wakes(t, u) == t # u \/ phase[u] # "tasks"
Queue(t, u, task) ==
  /\ tasks' = [tasks EXCEPT ![u] = Append(@, task)]
  /\ wake' = [wake EXCEPT ![u] = @ \/ Wakes(t, u)]

Abort(why) ==
  /\ aborted' = why
  /\ UNCHANGED <<next, connVars, kernelVars, timer, loopVars>>

-----------------------------------------------------------------------------

Init ==
  /\ next = 1
  /\ connections = [f \in Fds |-> NoConn]
  /\ own = [c \in Conns |-> Main]
  /\ fdOf = [c \in Conns |-> CHOOSE f \in Fds : TRUE]
  /\ state = [c \in Conns |-> "Invalid"]
  /\ inEpoll = [c \in Conns |-> FALSE]
  /\ live = {}
  /\ epoll = [f \in Fds |-> NoConn]
  /\ backlog = {} /\ edge = {} /\ eof = {}
  /\ timer = [c \in Conns |-> "none"]
  /\ phase = [t \in Threads |-> "poll"]
  /\ active = [t \in Threads |-> {}]
  /\ tasks = [t \in Threads |-> <<>>]
  /\ batch = [t \in Threads |-> <<>>]
  /\ ran = [t \in Threads |-> 0]
  /\ wake = [t \in Threads |-> FALSE]
  /\ closing = [t \in Threads |-> NoConn]
  /\ aborted = "no"

-----------------------------------------------------------------------------
(* The clients and the clock.                                                *)

PeerConnect(c) ==
  /\ c \notin backlog /\ c \notin live /\ state[c] = "Invalid"
  /\ backlog' = backlog \cup {c}
  /\ UNCHANGED <<next, connVars, epoll, edge, eof, timer, loopVars, aborted>>

PeerSend(c) ==
  /\ c \in backlog \cup live /\ c \notin eof
  /\ edge' = edge \cup {c}
  /\ UNCHANGED <<next, connVars, epoll, backlog, eof, timer, loopVars, aborted>>

PeerClose(c) ==
  /\ c \in backlog \cup live /\ c \notin eof
  /\ eof' = eof \cup {c}
  /\ edge' = edge \cup {c}
  /\ UNCHANGED <<next, connVars, epoll, backlog, timer, loopVars, aborted>>

TimerExpire(c) ==
  /\ timer[c] = "armed"
  /\ timer' = [timer EXCEPT ![c] = "due"]
  /\ UNCHANGED <<next, connVars, kernelVars, loopVars, aborted>>

-----------------------------------------------------------------------------
(* The loop of thread t.                                                     *)

Idle(t) == closing[t] = NoConn

(* Events epoll_wait would report to t now. *)
MutantReadyAnyLoop(t) ==
  {c \in edge : epoll[fdOf[c]] = c}
    \cup (IF wake[t] THEN {Wakeup} ELSE {})
    \cup (IF t = Main /\ backlog # {} THEN {Listen} ELSE {})
Ready(t) ==
  {c \in edge : epoll[fdOf[c]] = c /\ own[c] = t}
    \cup (IF wake[t] THEN {Wakeup} ELSE {})
    \cup (IF t = Main /\ backlog # {} THEN {Listen} ELSE {})
    \cup (IF t = Main /\ \E c \in Conns : timer[c] = "due" THEN {Timer} ELSE {})

Poll(t) ==
  /\ phase[t] = "poll"
  /\ Ready(t) # {}
  /\ active' = [active EXCEPT ![t] = Ready(t)]
  /\ edge' = edge \ Ready(t)
  /\ phase' = [phase EXCEPT ![t] = "events"]
  /\ UNCHANGED <<next, connVars, epoll, backlog, eof, timer, tasks, batch, ran,
                 wake, closing, aborted>>

(* EventLoop::handleWakeup, with its assertion that the eventfd is readable. *)
HandleWakeup(t) ==
  /\ phase[t] = "events" /\ Idle(t) /\ Wakeup \in active[t]
  /\ IF wake[t]
     THEN /\ wake' = [wake EXCEPT ![t] = FALSE]
          /\ active' = [active EXCEPT ![t] = @ \ {Wakeup}]
          /\ UNCHANGED <<next, connVars, kernelVars, timer, phase, tasks, batch,
                         ran, closing, aborted>>
     ELSE Abort("wakeup")

(* ConnectionEstablished.  enableReading reaches Epoll::updateChannel: ADD   *)
(* unless inEpoll says MOD, and either may fail.                             *)
RegisterFails(c) == IF inEpoll[c] THEN epoll[fdOf[c]] # c ELSE epoll[fdOf[c]] # NoConn
Established(c) ==
  /\ state' = [state EXCEPT ![c] = "Connected"]
  /\ inEpoll' = [inEpoll EXCEPT ![c] = TRUE]
  /\ timer' = [timer EXCEPT ![c] = IF AutoClose THEN "armed" ELSE @]

(* EventLoopThreadPool::nextloop: round robin over the sub reactors. *)
NextLoop == IF NumLoops = 0 THEN Main ELSE next
MutantAfterNextNoWrap == next + 1
AfterNext == IF next >= NumLoops THEN 1 ELSE next + 1

(* Acceptor::acceptConnection and Server::NewConnection. *)
Accept(c, f) ==
  /\ phase[Main] = "events" /\ Idle(Main) /\ Listen \in active[Main]
  /\ c \in backlog
  /\ f \notin UsedFds
  /\ UNCHANGED <<edge, eof, phase, batch, ran, closing, aborted>>
  /\ LET u == NextLoop IN
     /\ backlog' = backlog \ {c}
     /\ active' = [active EXCEPT ![Main] = @ \ {Listen}]
     /\ own' = [own EXCEPT ![c] = u]
     /\ fdOf' = [fdOf EXCEPT ![c] = f]
     /\ connections' = [connections EXCEPT ![f] = c]
     /\ next' = AfterNext
     /\ IF u = Main
        THEN /\ Established(c)
             /\ UNCHANGED <<tasks, wake>>
             /\ Settle({c}, [epoll EXCEPT ![f] = c])
        ELSE /\ Queue(Main, u, Establish(f))
             /\ UNCHANGED <<state, inEpoll, timer>>
             /\ Settle({c}, epoll)

(* accept fails with EMFILE, and errif aborts the process. *)
AcceptFails ==
  /\ phase[Main] = "events" /\ Idle(Main) /\ Listen \in active[Main]
  /\ backlog # {} /\ Fds \subseteq UsedFds
  /\ Abort("accept")

(* Channel::handleEvent for connection c: an EOF, a reset or a hang-up       *)
(* closes; otherwise the message callback may close (bad request, or a       *)
(* response with Connection: close).  HandleClose returns at once if the     *)
(* state is already Closed; here it has passed that check.                   *)
MutantHandleConnEventNoCheck(t, c) ==
  /\ phase[t] = "events" /\ Idle(t) /\ c \in active[t]
  /\ active' = [active EXCEPT ![t] = @ \ {c}]
  /\ closing' = [closing EXCEPT ![t] = c]
  /\ UNCHANGED <<next, connVars, kernelVars, timer, phase, tasks, batch, ran, wake, aborted>>
HandleConnEvent(t, c) ==
  /\ phase[t] = "events" /\ Idle(t) /\ c \in active[t]
  /\ active' = [active EXCEPT ![t] = @ \ {c}]
  /\ \/ state[c] = "Connected" /\ closing' = [closing EXCEPT ![t] = c]
     \/ (state[c] = "Connected" => c \notin eof) /\ UNCHANGED closing
  /\ UNCHANGED <<next, connVars, kernelVars, timer, phase, tasks, batch, ran, wake, aborted>>

(* TimerQueue::HandleRead runs HttpServer::ActiveCloseConn(c) on main.  The  *)
(* weak_ptr may have expired; GetTimeStamp() < Now() always holds.  One      *)
(* expired timer per step: the order of two, and main's other events         *)
(* between them, are left open.                                              *)
HandleTimer(c) ==
  /\ phase[Main] = "events" /\ Idle(Main) /\ Timer \in active[Main]
  /\ timer[c] = "due"
  /\ timer' = [timer EXCEPT ![c] = "none"]
  /\ active' = [active EXCEPT ![Main] =
                  IF \E d \in Conns \ {c} : timer[d] = "due" THEN @ ELSE @ \ {Timer}]
  /\ closing' = [closing EXCEPT ![Main] =
                  IF c \in live /\ state[c] # "Closed" THEN c ELSE @]
  /\ UNCHANGED <<next, connVars, kernelVars, phase, tasks, batch, ran, wake, aborted>>

(* HandleCloseInMainReactor: erase by descriptor, then queue the destruction *)
(* on the connection's own loop.                                             *)
MutantCloseInMainNoErase(c) ==
  /\ UNCHANGED connections
  /\ Queue(Main, own[c], Destroy(c))
CloseInMain(c) ==
  /\ connections' = [connections EXCEPT ![fdOf[c]] = NoConn]
  /\ Queue(Main, own[c], Destroy(c))

(* The rest of HandleClose: set Closed, then DeleteConnection. *)
FinishClose(t) ==
  /\ closing[t] # NoConn
  /\ LET c == closing[t] IN
     /\ state' = [state EXCEPT ![c] = "Closed"]
     /\ IF t = Main
        THEN CloseInMain(c)
        ELSE /\ Queue(t, Main, Delete(c))
             /\ UNCHANGED connections
  /\ closing' = [closing EXCEPT ![t] = NoConn]
  /\ UNCHANGED <<next, own, fdOf, inEpoll, backlog, edge, eof, timer, phase,
                 active, batch, ran, aborted>>
  /\ Settle({}, epoll)

(* doToDoList up to the swap; an empty list returns at once. *)
MutantSwapTasksCopies(t) ==
  /\ phase[t] = "events" /\ Idle(t) /\ active[t] = {}
  /\ tasks[t] # <<>>
  /\ phase' = [phase EXCEPT ![t] = "tasks"]
  /\ batch' = [batch EXCEPT ![t] = tasks[t]]
  /\ ran' = [ran EXCEPT ![t] = 0]
  /\ UNCHANGED <<next, connVars, kernelVars, timer, active, tasks, wake, closing, aborted>>
SwapTasks(t) ==
  /\ phase[t] = "events" /\ Idle(t) /\ active[t] = {}
  /\ IF tasks[t] = <<>>
     THEN phase' = [phase EXCEPT ![t] = "poll"]
     ELSE phase' = [phase EXCEPT ![t] = "tasks"]
  /\ batch' = [batch EXCEPT ![t] = tasks[t]]
  /\ tasks' = [tasks EXCEPT ![t] = <<>>]
  /\ ran' = [ran EXCEPT ![t] = 0]
  /\ UNCHANGED <<next, connVars, kernelVars, timer, active, wake, closing, aborted>>

Current(t) == batch[t][ran[t] + 1]
Running(t, kind) ==
  /\ phase[t] = "tasks" /\ Idle(t)
  /\ ran[t] < Len(batch[t])
  /\ Current(t).kind = kind

(* Main is about to insert into or erase from the std::map. *)
MainMutatesMap ==
  \/ phase[Main] = "events" /\ Listen \in active[Main]
  \/ Running(Main, "delete")

(* The lambda of NewConnection, on the sub loop.  It reads the map without a *)
(* lock, so a lookup that overlaps a mutation by main may miss.              *)
RunEstablish(t) ==
  /\ Running(t, "establish")
  /\ ran' = [ran EXCEPT ![t] = @ + 1]
  /\ UNCHANGED <<next, connections, own, fdOf, backlog, edge, eof, phase, active,
                 tasks, batch, wake, closing>>
  /\ LET f == Current(t).arg
         c == connections[f] IN
     \/ /\ c # NoConn
        /\ IF RegisterFails(c)
           THEN /\ aborted' = "epoll"
                /\ UNCHANGED <<state, inEpoll, timer, live, epoll>>
           ELSE /\ Established(c)
                /\ UNCHANGED aborted
                /\ Settle({}, [epoll EXCEPT ![f] = c])
     \/ /\ c = NoConn \/ (RacyLookup /\ MainMutatesMap)
        /\ UNCHANGED <<state, inEpoll, timer, live, epoll, aborted>>

RunDelete(t) ==
  /\ Running(t, "delete")
  /\ ran' = [ran EXCEPT ![t] = @ + 1]
  /\ CloseInMain(Current(t).arg)
  /\ UNCHANGED <<next, own, fdOf, state, inEpoll, backlog, edge, eof, timer, phase,
                 active, batch, closing, aborted>>
  /\ Settle({}, epoll)

(* connectionDestroyed: removeChannel, whose epoll_ctl(DEL) must succeed.    *)
(* inEpoll is never cleared.                                                 *)
RunDestroy(t) ==
  /\ Running(t, "destroy")
  /\ LET c == Current(t).arg IN
     IF inEpoll[c] /\ epoll[fdOf[c]] # c
     THEN Abort("epoll")
     ELSE /\ ran' = [ran EXCEPT ![t] = @ + 1]
          /\ UNCHANGED <<next, connections, own, fdOf, state, inEpoll, backlog, edge,
                         eof, timer, phase, active, tasks, batch, wake, closing, aborted>>
          /\ Settle({}, [f \in Fds |-> IF epoll[f] = c THEN NoConn ELSE epoll[f]])

(* doToDoList returns: its functors are destroyed, and what only they kept.  *)
EndTasks(t) ==
  /\ phase[t] = "tasks" /\ Idle(t) /\ ran[t] = Len(batch[t])
  /\ phase' = [phase EXCEPT ![t] = "poll"]
  /\ batch' = [batch EXCEPT ![t] = <<>>]
  /\ ran' = [ran EXCEPT ![t] = 0]
  /\ UNCHANGED <<next, connections, own, fdOf, state, inEpoll, backlog, edge, eof,
                 timer, active, tasks, wake, closing, aborted>>
  /\ Settle({}, epoll)

LoopStep(t) ==
  /\ aborted = "no"
  /\ \/ Poll(t)
     \/ HandleWakeup(t)
     \/ \E c \in Conns : HandleConnEvent(t, c)
     \/ FinishClose(t)
     \/ SwapTasks(t)
     \/ RunEstablish(t)
     \/ RunDelete(t)
     \/ RunDestroy(t)
     \/ EndTasks(t)
     \/ /\ t = Main
        /\ \/ \E c \in Conns, f \in Fds : Accept(c, f)
           \/ AcceptFails
           \/ \E c \in Conns : HandleTimer(c)

Environment ==
  /\ aborted = "no"
  /\ \E c \in Conns : PeerConnect(c) \/ PeerSend(c) \/ PeerClose(c) \/ TimerExpire(c)

Next == Environment \/ \E t \in Threads : LoopStep(t)

Spec == Init /\ [][Next]_vars

(* Every loop thread keeps running; the clients and the clock owe nothing.   *)
FairSpec == Spec /\ \A t \in Threads : WF_vars(LoopStep(t))

-----------------------------------------------------------------------------

TypeOK ==
  /\ next \in {1} \cup 1 .. NumLoops
  /\ connections \in [Fds -> Conns \cup {NoConn}]
  /\ own \in [Conns -> Threads]
  /\ fdOf \in [Conns -> Fds]
  /\ state \in [Conns -> {"Invalid", "Connected", "Closed"}]
  /\ inEpoll \in [Conns -> BOOLEAN]
  /\ live \subseteq Conns
  /\ epoll \in [Fds -> Conns \cup {NoConn}]
  /\ backlog \subseteq Conns /\ edge \subseteq Conns /\ eof \subseteq Conns
  /\ timer \in [Conns -> {"none", "armed", "due"}]
  /\ phase \in [Threads -> {"poll", "events", "tasks"}]
  /\ active \in [Threads -> SUBSET (Conns \cup {Wakeup, Listen, Timer})]
  /\ tasks \in [Threads -> Seq(Task)]
  /\ batch \in [Threads -> Seq(Task)]
  /\ ran \in [Threads -> Nat]
  /\ wake \in [Threads -> BOOLEAN]
  /\ closing \in [Threads -> Conns \cup {NoConn}]
  /\ aborted \in {"no", "wakeup", "accept", "epoll"}

(* The Channel* that epoll_wait returned still belong to live Connections    *)
(* when handleEvent uses them, although Channel::handleEvent never checks    *)
(* what tie.lock() returned.                                                 *)
NoDanglingEvents == \A t \in Threads : active[t] \cap Conns \subseteq live

(* No epoll_ctl fails and handleWakeup always finds its eventfd readable:    *)
(* the assertions behind errif and in handleWakeup hold, whatever the order  *)
(* of closes, destroys and re-used descriptors.                              *)
NoAssertionFails == aborted \notin {"epoll", "wakeup"}

(* Server::connections, keyed by descriptor, never confuses two connections  *)
(* across descriptor re-use: an entry is the live owner of its descriptor,   *)
(* and every connection still being served has its entry.                    *)
MapIsFaithful ==
  /\ \A f \in Fds : connections[f] # NoConn =>
       connections[f] \in live /\ fdOf[connections[f]] = f
  /\ \A c \in live : state[c] # "Closed" => connections[fdOf[c]] = c
  /\ \A c, d \in live : fdOf[c] = fdOf[d] => c = d

(* A close is delivered to main once and destroyed once: over all task lists *)
(* and running batches there is at most one pending Delete or Destroy of a   *)
(* connection, and none of one that is still open.                           *)
Pending(t) == [i \in 1 .. Len(tasks[t]) + Len(batch[t]) - ran[t] |->
                 IF i <= Len(tasks[t]) THEN tasks[t][i]
                 ELSE batch[t][i - Len(tasks[t]) + ran[t]]]
Closers(c) == UNION {{<<t, i>> : i \in {j \in DOMAIN Pending(t) :
                                  Pending(t)[j] \in {Delete(c), Destroy(c)}}} : t \in Threads}
CloseHandledOnce ==
  \A c \in Conns : /\ Cardinality(Closers(c)) <= 1
                   /\ Closers(c) # {} => state[c] = "Closed" /\ c \in live

(* Every operation that changes a connection runs on its own EventLoop       *)
(* thread, as the comment at Server.cpp:39 asks: only its own loop is ever   *)
(* inside HandleClose for it.                                                *)
CloseOnOwnLoop == \A t \in Threads : closing[t] # NoConn => own[closing[t]] = t

(* The map drops an entry only after that very connection was closed, even   *)
(* though HandleCloseInMainReactor erases by descriptor; it never replaces   *)
(* one.                                                                      *)
EraseOnlyClosed ==
  [][\A f \in Fds : connections[f] # NoConn /\ connections'[f] # connections[f] =>
       connections'[f] = NoConn /\ state'[connections[f]] = "Closed"]_vars

(* ConnectionEstablished sets Connected without looking at the state; it     *)
(* never revives a closed connection, and a destroyed one never comes back.  *)
NeverRevived ==
  [][\A c \in Conns : state[c] = "Closed" =>
       state'[c] = "Closed" /\ (c \notin live => c \notin live')]_vars

(* What a client is owed.  Its accepted connection is established, and once  *)
(* it is closed by either side the object is destroyed and the descriptor    *)
(* returned, through the sub -> main -> sub hand-over.                       *)
EventuallyEstablished == \A c \in Conns : c \in live ~> (state[c] # "Invalid" \/ aborted # "no")
EventuallyReleased ==
  \A c \in Conns : (c \in live /\ (c \in eof \/ state[c] = "Closed"))
                     ~> (c \notin live \/ aborted # "no")

-----------------------------------------------------------------------------
(* The reactors implement the service.                                       *)

StageOf(c) ==
  IF c \in live
  THEN CASE state[c] = "Invalid"   -> "opening"
         [] state[c] = "Connected" -> "open"
         [] state[c] = "Closed"    -> "closed"
  ELSE CASE c \in backlog        -> "waiting"
         [] state[c] = "Closed"  -> "released"
         [] OTHER                -> "idle"

Service == INSTANCE ConnectionService WITH
  stage <- [c \in Conns |-> StageOf(c)],
  lease <- [f \in Fds |-> IF \E c \in live : fdOf[c] = f
                          THEN CHOOSE c \in live : fdOf[c] = f ELSE NoConn]

(* Every behaviour of the reactors is one the service allows: a descriptor   *)
(* is never shared or re-leased before its connection is gone, and no        *)
(* connection skips or repeats a stage.                                      *)
ImplementsServiceSafety == Service!ServiceSafety

(* With lookups that do not miss and enough descriptors, the reactors also   *)
(* open what they admit and release what is closed.                          *)
ImplementsService == Service!ServiceSpec

=============================================================================
