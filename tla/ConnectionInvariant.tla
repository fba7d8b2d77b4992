------------------------ MODULE ConnectionInvariant ------------------------
(***************************************************************************)
(* Why the life cycle of ConnectionLifecycle is safe when connections are  *)
(* only closed at home: an invariant that every step preserves.  It follows*)
(* a connection through the task lists, whose entries it calls slots: the  *)
(* list of a thread, and the part of its running batch not yet run.        *)
(***************************************************************************)
EXTENDS ConnectionLifecycle

(* The inactivity timer closes connections on the main loop, which must be   *)
(* their own: either it is off, or there are no sub loops.                   *)
ClosesAtHome == AutoClose => NumLoops = 0

Slot(list, t, i) == [list |-> list, loop |-> t, pos |-> i]
Positions == UNION {DOMAIN tasks[t] \cup DOMAIN batch[t] : t \in Threads}
Slots == {s \in [list : {"tasks", "batch"}, loop : Threads, pos : Positions] :
            IF s.list = "tasks" THEN s.pos \in DOMAIN tasks[s.loop]
            ELSE s.pos \in DOMAIN batch[s.loop] /\ s.pos > ran[s.loop]}

TaskAt == [s \in Slots |-> IF s.list = "tasks" THEN tasks[s.loop][s.pos] ELSE batch[s.loop][s.pos]]

(* A functor that still has to run finds what it was queued for.  Establish  *)
(* finds a connection of its loop that nobody has opened.  Delete finds its  *)
(* connection closed, in the map and in epoll.  Destroy finds it closed, on  *)
(* its own loop, in epoll and no longer in the map.                          *)
SlotInv ==
  \A s \in Slots :
    LET kind == TaskAt[s].kind
        c == TaskAt[s].arg IN
    /\ kind = "establish" => /\ connections[c] # NoConn
                             /\ own[connections[c]] = s.loop
                             /\ state[connections[c]] = "Invalid"
    /\ kind = "delete"  => /\ state[c] = "Closed"
                           /\ connections[fdOf[c]] = c
                           /\ epoll[fdOf[c]] = c
    /\ kind = "destroy" => /\ state[c] = "Closed"
                           /\ own[c] = s.loop
                           /\ connections[fdOf[c]] # c
                           /\ epoll[fdOf[c]] = c

(* No functor is pending twice. *)
UniqueInv == \A r, s \in Slots : TaskAt[r] = TaskAt[s] => r = s

(* References keep objects alive: nothing is used after it was destroyed.    *)
HeldInv ==
  /\ \A f \in Fds : connections[f] # NoConn => connections[f] \in live
  /\ \A t \in Threads :
       /\ closing[t] # NoConn => closing[t] \in live
       /\ \A i \in DOMAIN tasks[t] : tasks[t][i].kind # "establish" => tasks[t][i].arg \in live
       /\ \A i \in DOMAIN batch[t] : batch[t][i].kind # "establish" => batch[t][i].arg \in live

(* Live objects have descriptors of their own, the map knows those that are  *)
(* not closed, and maps descriptors to their owners.                         *)
MapInv ==
  /\ \A c, d \in live : fdOf[c] = fdOf[d] => c = d
  /\ \A c \in live : state[c] # "Closed" => connections[fdOf[c]] = c
  /\ \A f \in Fds : connections[f] # NoConn => fdOf[connections[f]] = f

(* Epoll holds channels of live, established connections, among them every   *)
(* open one; each is still in the map or waits for its Destroy.              *)
EpollInv ==
  /\ \A c \in live : state[c] = "Connected" => epoll[fdOf[c]] = c
  /\ \A c \in Conns : state[c] = "Invalid" => ~inEpoll[c]
  /\ \A f \in Fds : epoll[f] # NoConn =>
       LET c == epoll[f] IN
       /\ c \in live /\ fdOf[c] = f /\ state[c] # "Invalid"
       /\ connections[f] = c \/ \E s \in Slots : TaskAt[s] = Destroy(c)

(* What the loops are handling: reported channels belong to the loop and are *)
(* registered, a thread inside HandleClose closes an open connection of its  *)
(* own, and a batch exists only while it is run.                             *)
LoopOK(t) ==
  /\ \A c \in active[t] \cap Conns : own[c] = t /\ epoll[fdOf[c]] = c
  /\ active[t] # {} => phase[t] = "events"
  /\ Wakeup \in active[t] => wake[t]
  /\ closing[t] # NoConn => /\ phase[t] = "events"
                            /\ own[closing[t]] = t
                            /\ state[closing[t]] = "Connected"
  /\ phase[t] # "tasks" => batch[t] = <<>>
LoopInv == \A t \in Threads : LoopOK(t)

(* Clients wait before they are accepted; timers are armed for connections   *)
(* that were established, and only if the main loop is their own.            *)
RestInv ==
  /\ \A c \in backlog : c \notin live /\ state[c] = "Invalid"
  /\ \A c \in Conns : timer[c] # "none" => NumLoops = 0 /\ state[c] # "Invalid"
  /\ aborted \in {"no", "accept"}

CoreInv == /\ TypeOK /\ SlotInv /\ UniqueInv /\ HeldInv /\ MapInv /\ EpollInv
           /\ LoopInv /\ RestInv

(* Nothing outlives its last reference.                                      *)
LiveInv == \A c \in live : Held(c)

Inv == CoreInv /\ LiveInv

=============================================================================
