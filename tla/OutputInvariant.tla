-------------------------- MODULE OutputInvariant --------------------------
(***************************************************************************)
(* Why the output of a connection is complete and in order: an invariant   *)
(* that every step of ConnectionOutput preserves, a second one that every  *)
(* step preserves if all answers are messages, and a third about the first *)
(* answer of a connection, whatever its kind.                              *)
(***************************************************************************)
EXTENDS ConnectionOutput

Arming       == ~Idle /\ Head(calls).op = "arm"
WritePending == \E i \in DOMAIN calls : calls[i].op = "write"

(* Send and what it leads to come before whatever else is to be called.      *)
SendFirst == \A i \in DOMAIN calls : calls[i].op \in {"send", "arm", "complete"} => i = 1

(* EPOLLOUT is watched while sendBuffer holds something, except between the  *)
(* two halves of Send; and whoever watches is served: epoll knows, or the    *)
(* handler is already called for, or the socket is full and the kernel knows *)
(* that somebody waits for room.                                             *)
WatchInv ==
  /\ SendFirst
  /\ Usable =>
       /\ Arming => sendBuffer # <<>>
       /\ ~Arming => (writing <=> sendBuffer # <<>>)
       /\ writing => ready \/ WritePending \/ (Free = 0 /\ full)

MessagesOnly == \A r \in Requests : r.kind \in {"plain", "json"}

(* Only Send carries data, and a closed connection sends nothing.            *)
CallsInv ==
  /\ chunks = <<>> /\ callback # "chunks"
  /\ \A i \in DOMAIN calls :
       /\ calls[i].op \notin {"sendfile", "range"}
       /\ calls[i].op # "send" => calls[i].data = <<>>
       /\ state = "Closed" => calls[i].op \notin {"send", "arm", "complete"}

(* What is under way continues what was received; while the connection is    *)
(* usable, sendBuffer and then the pending Send continue what is under way.  *)
WireInv ==
  /\ Len(received \o sock) <= Len(promised)
  /\ First(promised, Len(received \o sock)) = received \o sock
  /\ Usable => (received \o sock) \o (sendBuffer \o DataOf(1)) = promised

(* The pieces of one answer that Send, the socket and sendBuffer hold fit    *)
(* together, and somebody is going to move them, after every system call of  *)
(* Send and WriteNonBlocking (Connection.cpp:99-152, 243-270).               *)
OutputInv == /\ TypeOK /\ WatchInv
             /\ MessagesOnly => CallsInv /\ WireInv

NoPages == \A r \in Requests : r.kind # "page"

(* The calls of a first answer.  Only they carry data, and there are two at  *)
(* most.  A sendfile writes to the socket whatever waits in sendBuffer, so   *)
(* nothing waits there or will: the header before it is one unit, and finds  *)
(* room.                                                                     *)
FirstCalls ==
  \A i \in DOMAIN calls : calls[i].data # <<>> =>
    /\ i <= 2 /\ calls[i].op \in {"send", "sendfile", "range"}
    /\ calls[i].op # "send" => sendBuffer = <<>> /\ chunks = <<>> /\ callback = "none"
    /\ i = 2 => calls[1].op = "send" /\ Len(calls[1].data) = 1 /\ Free > 0

Untouched == promised = <<>> /\ callback = "none" /\ ~context

(* The first answer is accounted for unit by unit, be it a message, a file,  *)
(* a range or a download in chunks (HttpServer.cpp:154-171,                  *)
(* Connection.cpp:99-206, 243-270).                                          *)
FirstInv ==
  served <= 1 => /\ AnswersExact
                 /\ Usable => FirstCalls /\ (served = 0 => Untouched)

=============================================================================
