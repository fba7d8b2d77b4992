------------------------- MODULE ConnectionService -------------------------
(***************************************************************************)
(* What the server promises about connections, without reactors, task      *)
(* lists or reference counts: a waiting client is given a descriptor of    *)
(* its own, its connection is opened at most once and closed at most once, *)
(* and the descriptor is leased to it alone until after the close, when it *)
(* is returned.                                                            *)
(***************************************************************************)
CONSTANTS Conns, Fds, NoConn

VARIABLES stage,   (* where each connection is in its life               *)
          lease    (* which connection a descriptor belongs to           *)

svars == <<stage, lease>>

ServiceInit ==
  /\ stage = [c \in Conns |-> "idle"]
  /\ lease = [f \in Fds |-> NoConn]

Move(c, from, to) == stage[c] = from /\ stage' = [stage EXCEPT ![c] = to]

Arrive(c) == Move(c, "idle", "waiting") /\ UNCHANGED lease

(* With a single reactor the connection is open as soon as it is accepted. *)
Admit(c, f) ==
  /\ Move(c, "waiting", "opening") \/ Move(c, "waiting", "open")
  /\ lease[f] = NoConn
  /\ lease' = [lease EXCEPT ![f] = c]

Open(c)  == Move(c, "opening", "open") /\ UNCHANGED lease
Close(c) == Move(c, "open", "closed")  /\ UNCHANGED lease

(* Several connections may go at once. *)
Release(S) ==
  /\ \A c \in S : stage[c] = "closed"
  /\ stage' = [c \in Conns |-> IF c \in S THEN "released" ELSE stage[c]]
  /\ lease' = [f \in Fds |-> IF lease[f] \in S THEN NoConn ELSE lease[f]]

ServiceNext ==
  \/ \E c \in Conns : \/ Arrive(c) \/ Open(c) \/ Close(c)
                      \/ \E f \in Fds : Admit(c, f)
  \/ \E S \in (SUBSET Conns) \ {{}} : Release(S)

(* An admitted connection is opened, and a closed one is released. *)
ServiceFairness ==
  \A c \in Conns : /\ WF_svars(Open(c))
                   /\ WF_svars(\E S \in SUBSET Conns : c \in S /\ Release(S))

ServiceSafety == ServiceInit /\ [][ServiceNext]_svars
ServiceSpec   == ServiceSafety /\ ServiceFairness

=============================================================================
