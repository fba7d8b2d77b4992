-------------------------- MODULE ConnectionOutput --------------------------
(***************************************************************************)
(* The output side of one established Connection: HttpServer::onMessage    *)
(* answers the pipelined requests of a peer through Send, SendFile and     *)
(* SendFileRange; what the socket does not take waits in sendBuffer for    *)
(* EPOLLOUT; the write-complete callback continues a download or half-     *)
(* closes.  One step is one system call of the loop's thread, so that the  *)
(* peer reads and the kernel reports writability in between.  Data is a    *)
(* sequence of units <<n, i>>: part i of the answer to request n.          *)
(***************************************************************************)
EXTENDS Naturals, Sequences

CONSTANTS
  Requests,     (* what a peer may ask: [kind, close]; close is what        *)
                (* HttpResponse::IsCloseConnection returns for the answer   *)
  MaxRequests,  (* bound: requests per connection                           *)
  Size,         (* units of an answer, by kind; the first is its header     *)
  Chunk,        (* units FileDownContext::readNextChunk reads at once       *)
  SockCap,      (* units the socket's send buffer holds                     *)
  Resets        (* may the peer reset the connection?                       *)

Kinds == {"plain",     (* a message; the handler sets no callback           *)
          "json",      (* a message of sendJson or sendError                *)
          "page",      (* a message whose body_type_ was never set          *)
          "file",      (* FILE_TYPE                                         *)
          "range",     (* FILE_TYPE with a range                            *)
          "download"}  (* chunks read by the write-complete callback        *)

ASSUME OutputAssumption ==
  /\ Requests \subseteq [kind : Kinds, close : BOOLEAN]
  /\ MaxRequests \in Nat
  /\ Size \in [Kinds -> Nat \ {0}]
  /\ Chunk \in Nat \ {0}
  /\ SockCap \in Nat \ {0}
  /\ Resets \in BOOLEAN

VARIABLES
  state,       (* Connection::state                                         *)
  sendBuffer,  (* Connection::sendBuffer                                    *)
  writing,     (* Channel::isWriting: EPOLLOUT is among the events          *)
  callback,    (* Connection::writeCompleteCallback                         *)
  context,     (* a FileDownContext is stored in the HttpContext            *)
  chunks,      (* what its FileDownContext has not read yet                 *)
  input,       (* requests in readBuffer                                    *)
  calls,       (* calls the loop's thread has still to make, next one first *)
  alive,       (* the process has not been ended by SIGPIPE                 *)
  sock,        (* kernel: the socket's send buffer                          *)
  full,        (* kernel: a write or a poll found no room (SOCK_NOSPACE)    *)
  ready,       (* kernel: the descriptor is on epoll's ready list           *)
  shutWr,      (* kernel: SHUT_WR was called                                *)
  inbox,       (* kernel: requests not yet read                             *)
  reset,       (* the peer has reset the connection                         *)
  asked,       (* requests the peer has sent                                *)
  received,    (* what the peer has read                                    *)
  served,      (* history: requests answered                                *)
  promised     (* history: the answers to them, in order                    *)

connVars   == <<state, sendBuffer, writing, callback, context, chunks, input>>
kernelVars == <<sock, full, ready, shutWr, inbox>>
peerVars   == <<reset, asked, received>>
histVars   == <<served, promised>>
vars == <<connVars, calls, alive, kernelVars, peerVars, histVars>>

Unit  == (1..MaxRequests) \X Nat
Ops   == {"read", "message", "write", "send", "sendfile", "range", "arm", "complete", "close"}
Call(op, data) == [op |-> op, data |-> data]

Units(n, k)  == [i \in 1..Size[k] |-> <<n, i>>]
First(q, k)  == SubSeq(q, 1, k)
After(q, k)  == SubSeq(q, k + 1, Len(q))
Least(a, b)  == IF a <= b THEN a ELSE b
Free         == SockCap - Len(sock)
Idle         == calls = <<>>
Running(op)  == alive /\ ~Idle /\ Head(calls).op = op
Data         == Head(calls).data
Then(q)      == calls' = q \o Tail(calls)

Init ==
  /\ state = "Connected"
  /\ sendBuffer = <<>> /\ writing = FALSE
  /\ callback = "none" /\ context = FALSE /\ chunks = <<>>
  /\ input = <<>> /\ calls = <<>> /\ alive = TRUE
  /\ sock = <<>> /\ full = FALSE /\ ready = FALSE /\ shutWr = FALSE
  /\ inbox = <<>> /\ reset = FALSE
  /\ asked = 0 /\ received = <<>>
  /\ served = 0 /\ promised = <<>>

-----------------------------------------------------------------------------
(* Peer.                                                                     *)

PeerAsk(r) ==
  /\ asked < MaxRequests /\ ~reset
  /\ asked' = asked + 1
  /\ inbox' = Append(inbox, r)
  /\ ready' = TRUE
  /\ UNCHANGED <<connVars, calls, alive, sock, full, shutWr, reset, received, histVars>>

(* Room in a socket that was found full is an edge, reported if EPOLLOUT is  *)
(* registered at that moment.                                                *)
PeerRead ==
  /\ sock # <<>>
  /\ received' = Append(received, Head(sock))
  /\ sock' = Tail(sock)
  /\ full' = FALSE
  /\ ready' = (ready \/ (full /\ writing))
  /\ UNCHANGED <<connVars, calls, alive, shutWr, inbox, reset, asked, histVars>>

PeerReset ==
  /\ Resets /\ ~reset
  /\ reset' = TRUE
  /\ sock' = <<>> /\ inbox' = <<>>
  /\ ready' = TRUE
  /\ UNCHANGED <<connVars, calls, alive, full, shutWr, asked, received, histVars>>

-----------------------------------------------------------------------------
(* The loop: epoll_wait and Channel::HandleEventWithGuard.                   *)

(* The kernel looks again at a descriptor of the ready list and drops it if  *)
(* there is nothing to report.  Events of a closed connection do nothing.    *)
Poll ==
  /\ alive /\ Idle /\ ready /\ state = "Connected"
  /\ ready' = FALSE
  /\ full' = (full \/ Free = 0)
  /\ calls' = (IF inbox # <<>> \/ reset THEN <<Call("read", <<>>)>> ELSE <<>>)
              \o (IF writing /\ (Free > 0 \/ reset) THEN <<Call("write", <<>>)>> ELSE <<>>)
  /\ UNCHANGED <<connVars, alive, sock, shutWr, inbox, peerVars, histVars>>

(* HandleEvent: Read until EAGAIN, then onMessage. *)
ReadInput ==
  /\ Running("read") /\ ~reset
  /\ input' = inbox /\ inbox' = <<>>
  /\ Then(<<Call("message", <<>>)>>)
  /\ UNCHANGED <<state, sendBuffer, writing, callback, context, chunks, alive, sock, full, ready, shutWr,
                 peerVars, histVars>>

ReadFails ==
  /\ Running("read") /\ reset
  /\ state' = "Closed"
  /\ Then(<<>>)
  /\ UNCHANGED <<sendBuffer, writing, callback, context, chunks, input, alive, kernelVars, peerVars, histVars>>

(* The calls by which onRequest sends an answer.  Without a body type it is  *)
(* taken for a message, for a file (whose descriptor is -1) or for neither;  *)
(* so is the answer to a second download, which finds the first's context.   *)
Answers(n, k) ==
  LET all  == Units(n, k)
      send == <<Call("send", all)>>
      head == <<Call("send", First(all, 1))>>
  IN  CASE k \in {"plain", "json"} -> {send}
        [] k = "page"     -> {send, head, <<>>}
        [] k = "download" -> IF context THEN {head, <<>>} ELSE {head}
        [] k = "file"     -> {head \o <<Call("sendfile", After(all, 1))>>}
        [] k = "range"    -> {head \o <<Call("range", After(all, 1))>>}

(* The parser takes a request out of readBuffer. *)
MutantTakeKeeps == UNCHANGED input
Take == input' = Tail(input)

(* onMessage handles the next request with onRequest: the handler sets the   *)
(* callback, then the answer is sent, then the connection closed if asked.   *)
(* The FileDownContext stays with the connection.                            *)
Serve(r) ==
  LET n == served + 1 IN
  /\ Running("message") /\ state = "Connected" /\ input # <<>> /\ r = Head(input)
  /\ Take
  /\ served' = n
  /\ promised' = promised \o Units(n, r.kind)
  /\ callback' = CASE r.kind \in {"json", "page"} -> "shutdown"
                   [] r.kind = "download"         -> "chunks"
                   [] OTHER                       -> callback
  /\ context' = (context \/ r.kind = "download")
  /\ chunks' = IF r.kind = "download" /\ ~context THEN After(Units(n, r.kind), 1) ELSE chunks
  /\ \E answer \in Answers(n, r.kind) :
        calls' = answer \o (IF r.close THEN <<Call("close", <<>>)>> ELSE <<>>) \o calls
  /\ UNCHANGED <<state, sendBuffer, writing, alive, kernelVars, peerVars>>

MessageDone ==
  /\ Running("message") /\ (state # "Connected" \/ input = <<>>)
  /\ Then(<<>>)
  /\ UNCHANGED <<connVars, alive, kernelVars, peerVars, histVars>>

CloseConnection ==
  /\ Running("close")
  /\ state' = "Closed"
  /\ Then(<<>>)
  /\ UNCHANGED <<sendBuffer, writing, callback, context, chunks, input, alive, kernelVars, peerVars, histVars>>

-----------------------------------------------------------------------------
(* Sending.                                                                  *)

(* The socket takes what fits of q. *)
Writes(q) == sock' = sock \o First(q, Least(Len(q), Free))

(* epoll_ctl(MOD) looks at the descriptor again, as epoll_wait does. *)
Watch(w) ==
  /\ writing' = w
  /\ ready' = (ready \/ inbox # <<>> \/ reset \/ (w /\ Len(sock') < SockCap))
  /\ full' = (full \/ Len(sock') = SockCap)

NoWatch == UNCHANGED <<writing, ready>> /\ full' = TRUE

CallbackCall == IF callback = "none" THEN <<>> ELSE <<Call("complete", <<>>)>>

MutantSendDirectOvertakes ==
  /\ Running("send") /\ ~shutWr /\ ~reset
  /\ Writes(Data)
  /\ IF Len(Data) <= Free
     THEN /\ Watch(FALSE)
          /\ Then(CallbackCall)
          /\ UNCHANGED sendBuffer
     ELSE /\ sendBuffer' = sendBuffer \o After(Data, Free)
          /\ Then(<<Call("arm", <<>>)>>)
          /\ NoWatch
  /\ UNCHANGED <<state, callback, context, chunks, input, alive, shutWr, inbox, peerVars, histVars>>

(* Send: straight to the socket while nothing waits in sendBuffer. *)
SendDirect ==
  /\ Running("send") /\ sendBuffer = <<>> /\ ~shutWr /\ ~reset
  /\ Writes(Data)
  /\ IF Len(Data) <= Free
     THEN /\ Watch(FALSE)
          /\ Then(CallbackCall)
          /\ UNCHANGED sendBuffer
     ELSE /\ sendBuffer' = After(Data, Free)
          /\ Then(<<Call("arm", <<>>)>>)
          /\ NoWatch
  /\ UNCHANGED <<state, callback, context, chunks, input, alive, shutWr, inbox, peerVars, histVars>>

(* Send: behind what waits already. *)
SendBehind ==
  /\ Running("send") /\ sendBuffer # <<>>
  /\ sendBuffer' = sendBuffer \o Data
  /\ Then(<<Call("arm", <<>>)>>)
  /\ UNCHANGED <<state, writing, callback, context, chunks, input, alive, kernelVars, peerVars, histVars>>

MutantArmNever ==
  /\ Running("arm")
  /\ Then(<<>>)
  /\ UNCHANGED <<connVars, alive, kernelVars, peerVars, histVars>>

(* Send, second part: the peer may have read in between. *)
Arm ==
  /\ Running("arm")
  /\ UNCHANGED sock
  /\ IF writing THEN UNCHANGED <<writing, ready, full>> ELSE Watch(TRUE)
  /\ Then(<<>>)
  /\ UNCHANGED <<state, sendBuffer, callback, context, chunks, input, alive, shutWr, inbox,
                 peerVars, histVars>>

MutantWriteBufferedForgets ==
  /\ Running("write") /\ state = "Connected" /\ sendBuffer # <<>> /\ ~shutWr /\ ~reset
  /\ Writes(sendBuffer)
  /\ sendBuffer' = After(sendBuffer, Least(Len(sendBuffer), Free))
  /\ Watch(FALSE)
  /\ Then(IF Len(sendBuffer) <= Free THEN CallbackCall ELSE <<>>)
  /\ UNCHANGED <<state, callback, context, chunks, input, alive, shutWr, inbox, peerVars, histVars>>

(* WriteNonBlocking: one write for each EPOLLOUT. *)
WriteBuffered ==
  /\ Running("write") /\ state = "Connected" /\ sendBuffer # <<>> /\ ~shutWr /\ ~reset
  /\ Writes(sendBuffer)
  /\ sendBuffer' = After(sendBuffer, Least(Len(sendBuffer), Free))
  /\ IF Len(sendBuffer) <= Free
     THEN Watch(FALSE) /\ Then(CallbackCall)
     ELSE NoWatch /\ Then(<<>>)
  /\ UNCHANGED <<state, callback, context, chunks, input, alive, shutWr, inbox, peerVars, histVars>>

NothingToWrite ==
  /\ Running("write") /\ (state # "Connected" \/ sendBuffer = <<>>)
  /\ Then(<<>>)
  /\ UNCHANGED <<connVars, alive, kernelVars, peerVars, histVars>>

(* SendFile: one sendfile of the loop, which spins while the socket is full. *)
SendFile ==
  /\ Running("sendfile") /\ (Data = <<>> \/ (Free > 0 /\ ~shutWr /\ ~reset))
  /\ Writes(Data) /\ full' = (full \/ Len(Data) > Free)
  /\ Then(IF Len(Data) <= Free THEN <<>> ELSE <<Call("sendfile", After(Data, Free))>>)
  /\ UNCHANGED <<connVars, alive, ready, shutWr, inbox, peerVars, histVars>>

(* SendFileRange: sendfile until the socket is full, the rest through Send.  *)
SendFileRange ==
  /\ Running("range") /\ (Data = <<>> \/ (~shutWr /\ ~reset))
  /\ IF Data # <<>> /\ Free = 0
     THEN Then(<<Call("send", Data)>>) /\ full' = TRUE /\ UNCHANGED sock
     ELSE /\ Writes(Data) /\ full' = (full \/ Len(Data) > Free)
          /\ Then(IF Len(Data) <= Free THEN <<>> ELSE <<Call("range", After(Data, Free))>>)
  /\ UNCHANGED <<connVars, alive, ready, shutWr, inbox, peerVars, histVars>>

(* A call about to write to the socket. *)
AboutToWrite ==
  \/ Running("send") /\ sendBuffer = <<>>
  \/ Running("write") /\ state = "Connected" /\ sendBuffer # <<>>
  \/ Running("sendfile") /\ Data # <<>>
  \/ Running("range") /\ Data # <<>>

(* ECONNRESET: each of the four returns. *)
WriteFails ==
  /\ AboutToWrite /\ reset
  /\ Then(<<>>)
  /\ UNCHANGED <<connVars, alive, kernelVars, peerVars, histVars>>

(* EPIPE: nothing in src/ ignores SIGPIPE. *)
WriteRaises ==
  /\ AboutToWrite /\ (shutWr \/ reset)
  /\ alive' = FALSE
  /\ UNCHANGED <<connVars, calls, kernelVars, peerVars, histVars>>

-----------------------------------------------------------------------------
(* The write-complete callback.                                              *)

MutantContinueShort ==
  /\ Running("complete") /\ callback = "chunks" /\ chunks # <<>>
  /\ chunks' = <<>>
  /\ Then(<<Call("send", First(chunks, Least(Chunk, Len(chunks))))>>)
  /\ UNCHANGED <<state, sendBuffer, writing, callback, context, input, alive, kernelVars, peerVars, histVars>>

(* A download reads its next chunk and sends it. *)
Continue ==
  /\ Running("complete") /\ callback = "chunks" /\ chunks # <<>>
  /\ LET n == Least(Chunk, Len(chunks)) IN
     /\ chunks' = After(chunks, n)
     /\ Then(<<Call("send", First(chunks, n))>>)
  /\ UNCHANGED <<state, sendBuffer, writing, callback, context, input, alive, kernelVars, peerVars, histVars>>

(* Connection::shutdown, which does nothing while output is pending. *)
HalfClose ==
  /\ Running("complete") /\ (callback = "shutdown" \/ chunks = <<>>)
  /\ shutWr' = (shutWr \/ (state = "Connected" /\ ~writing /\ sendBuffer = <<>>))
  /\ Then(<<>>)
  /\ UNCHANGED <<connVars, alive, sock, full, ready, inbox, peerVars, histVars>>

LoopStep ==
  \/ Poll \/ ReadInput \/ ReadFails
  \/ \E r \in Requests : Serve(r)
  \/ MessageDone \/ CloseConnection
  \/ SendDirect \/ SendBehind \/ Arm \/ WriteBuffered \/ NothingToWrite
  \/ SendFile \/ SendFileRange
  \/ WriteFails \/ WriteRaises
  \/ Continue \/ HalfClose

Next == LoopStep \/ PeerRead \/ PeerReset \/ \E r \in Requests : PeerAsk(r)

Spec == Init /\ [][Next]_vars

(* A loop that is not blocked runs on, and the peer reads what arrives. *)
FairSpec == Spec /\ WF_vars(LoopStep) /\ WF_vars(PeerRead)

-----------------------------------------------------------------------------
(* Types. *)
TypeOK ==
  /\ state \in {"Connected", "Closed"}
  /\ sendBuffer \in Seq(Unit) /\ chunks \in Seq(Unit)
  /\ writing \in BOOLEAN /\ context \in BOOLEAN /\ alive \in BOOLEAN
  /\ callback \in {"none", "shutdown", "chunks"}
  /\ input \in Seq(Requests) /\ inbox \in Seq(Requests)
  /\ calls \in Seq([op : Ops, data : Seq(Unit)])
  /\ sock \in Seq(Unit) /\ Len(sock) <= SockCap
  /\ full \in BOOLEAN /\ ready \in BOOLEAN /\ shutWr \in BOOLEAN /\ reset \in BOOLEAN
  /\ asked \in 0..MaxRequests /\ served \in 0..asked
  /\ received \in Seq(Unit) /\ promised \in Seq(Unit)

Usable == alive /\ state = "Connected" /\ ~reset

(* Between two events EPOLLOUT is watched exactly while sendBuffer holds     *)
(* something, and if the socket has room, epoll knows: neither a partial     *)
(* write nor a peer that reads between write and epoll_ctl strands output    *)
(* (Connection.cpp:136-149, 263-269).                                        *)
OutputWatched ==
  Usable /\ Idle =>
    /\ writing <=> sendBuffer # <<>>
    /\ sendBuffer # <<>> /\ Free > 0 => ready

(* What a pending call has still to send. *)
DataOf(i) == IF i \in DOMAIN calls THEN calls[i].data ELSE <<>>

(* What was received, what is under way and what is still to be sent are,    *)
(* put together, the answers in the order of the requests, whatever mix of   *)
(* direct, buffered and sendfile writes produced them.                       *)
AnswersExact ==
  Usable => received \o sock \o sendBuffer \o DataOf(1) \o DataOf(2) \o chunks = promised

(* The peer reads the answers in the order of its requests                   *)
(* (HttpServer.cpp:61: pipelined requests are handled one after the other).  *)
ReceivedInOrder == \A i \in DOMAIN received : received[i] = promised[i]

(* The half-close comes after the last unit of every answer.                 *)
HalfCloseOnlyWhenDone == [][~shutWr /\ shutWr' /\ ~reset => received \o sock = promised]_vars

(* Every request that arrives is answered completely, if the peer reads and  *)
(* neither side ends the connection first.                                   *)
Answered(n) == served >= n /\ Idle /\ received = promised
Ended(n)    == ~Usable \/ (shutWr /\ served < n)
EventuallyAnswered == \A n \in 1..MaxRequests : asked >= n ~> Answered(n) \/ Ended(n)

Stream == INSTANCE AnswerStream
ImplementsStreamSafety == Stream!StreamSafety

=============================================================================
