---------------------- MODULE ConnectionOutput_proofs ----------------------
(***************************************************************************)
(* Proofs about ConnectionOutput for every set of requests, every size of  *)
(* answers, chunks and socket buffer, with and without resets.             *)
(***************************************************************************)
EXTENDS OutputInvariant, SequenceTheorems, TLAPS

CallRec == [op : Ops, data : Seq(Unit)]

-----------------------------------------------------------------------------
(* Sequences.                                                                *)

(* A part of a sequence. *)
LEMMA Part ==
  ASSUME NEW S, NEW q \in Seq(S), NEW m \in Nat \ {0}, NEW n \in Nat, m <= n + 1, n <= Len(q)
  PROVE  SubSeq(q, m, n) \in Seq(S) /\ Len(SubSeq(q, m, n)) = n + 1 - m
<1>1. /\ m \in Int /\ n \in Int
      /\ \A i \in m..n : q[i] \in S
  BY LenProperties, ElementOfSeq
<1>2. SubSeq(q, m, n) \in Seq(S) /\ Len(SubSeq(q, m, n)) = IF m <= n THEN n - m + 1 ELSE 0
  BY <1>1, SubSeqProperties
<1> QED BY <1>2

(* Cutting a sequence in two. *)
LEMMA Cut ==
  ASSUME NEW S, NEW q \in Seq(S), NEW k \in Nat, k <= Len(q)
  PROVE  /\ First(q, k) \in Seq(S) /\ Len(First(q, k)) = k
         /\ After(q, k) \in Seq(S) /\ Len(After(q, k)) = Len(q) - k
         /\ First(q, k) \o After(q, k) = q
<1> PICK n \in Nat, m \in Nat \ {0} : n = Len(q) /\ m = 1
  BY LenProperties
<1>1. First(q, k) \in Seq(S) /\ Len(First(q, k)) = k
  <2>1. m <= k + 1 /\ k <= n /\ k + 1 - m = k
    OBVIOUS
  <2>2. SubSeq(q, m, k) \in Seq(S) /\ Len(SubSeq(q, m, k)) = k + 1 - m
    BY <2>1, Part
  <2> QED BY <2>1, <2>2 DEF First
<1>2. After(q, k) \in Seq(S) /\ Len(After(q, k)) = Len(q) - k
  <2>1. k + 1 \in Nat \ {0} /\ k + 1 <= n + 1 /\ n + 1 - (k + 1) = n - k
    OBVIOUS
  <2>2. SubSeq(q, k + 1, n) \in Seq(S) /\ Len(SubSeq(q, k + 1, n)) = n + 1 - (k + 1)
    BY <2>1, Part
  <2> QED BY <2>1, <2>2 DEF After
<1>3. First(q, k) \o After(q, k) = q
  <2>1. m \in 1..n+1 /\ k \in m-1..n /\ n \in k..n
    OBVIOUS
  <2>2. SubSeq(q, m, k) \o SubSeq(q, k + 1, n) = SubSeq(q, m, n)
    BY <2>1, ConcatAdjacentSubSeq, Zenon
  <2>3. SubSeq(q, 1, n) = q
    BY SubSeqFull
  <2> QED BY <2>2, <2>3 DEF First, After
<1> QED BY <1>1, <1>2, <1>3


(* A sequence of one element; prepending to the rest of a sequence. *)
LEMMA Single ==
  ASSUME NEW S, NEW e \in S
  PROVE  <<e>> \in Seq(S) /\ Len(<<e>>) = 1 /\ <<e>>[1] = e
OBVIOUS

LEMMA Pair ==
  ASSUME NEW r, NEW w
  PROVE  <<r>> \o <<w>> = <<r, w>>
<1> PICK S : S = {r, w}
  OBVIOUS
<1> PICK a, b, c : a = <<r>> /\ b = <<w>> /\ c = <<r, w>>
  OBVIOUS
<1>1. /\ a \in Seq(S) /\ Len(a) = 1 /\ a[1] = r
      /\ b \in Seq(S) /\ Len(b) = 1 /\ b[1] = w
      /\ c \in Seq(S) /\ Len(c) = 2 /\ c[1] = r /\ c[2] = w
  OBVIOUS
<1>2. /\ a \o b \in Seq(S) /\ Len(a \o b) = Len(a) + Len(b)
      /\ \A i \in 1 .. Len(a) + Len(b) : (a \o b)[i] = IF i <= Len(a) THEN a[i] ELSE b[i - Len(a)]
  BY <1>1, ConcatProperties
<1>3. Len(a \o b) = Len(c) /\ (a \o b)[1] = r /\ (a \o b)[2] = w
  BY <1>1, <1>2
<1>4. \A i \in 1..Len(a \o b) : (a \o b)[i] = c[i]
  BY <1>1, <1>3
<1>5. a \o b = c
  BY <1>1, <1>2, <1>3, <1>4, SeqEqual
<1> QED BY <1>5

LEMMA Replace ==
  ASSUME NEW S, NEW q \in Seq(S), NEW r \in Seq(S), r # <<>>
  PROVE  /\ q \o Tail(r) \in Seq(S)
         /\ Len(q \o Tail(r)) = Len(q) + Len(r) - 1
         /\ \A i \in 1..Len(q) : (q \o Tail(r))[i] = q[i]
         /\ \A i \in 2..Len(r) : (q \o Tail(r))[Len(q) + i - 1] = r[i]
<1>1. /\ Len(q) \in Nat /\ Len(r) \in Nat \ {0}
      /\ Tail(r) \in Seq(S) /\ Len(Tail(r)) = Len(r) - 1
      /\ \A i \in 1..Len(Tail(r)) : Tail(r)[i] = r[i + 1]
  BY LenProperties, EmptySeq, HeadTailProperties
<1> DEFINE u == Tail(r)
<1>2. /\ q \o u \in Seq(S) /\ Len(q \o u) = Len(q) + Len(u)
      /\ \A i \in 1..Len(q) + Len(u) : (q \o u)[i] = IF i <= Len(q) THEN q[i] ELSE u[i - Len(q)]
  <2> HIDE DEF u
  <2> QED BY <1>1, ConcatProperties DEF u
<1>3. ASSUME NEW i \in 2..Len(r) PROVE (q \o u)[Len(q) + i - 1] = r[i]
  <2>1. /\ Len(q) + i - 1 \in 1..Len(q) + Len(u) /\ ~(Len(q) + i - 1 <= Len(q))
        /\ Len(q) + i - 1 - Len(q) = i - 1
        /\ i - 1 \in 1..Len(u) /\ i - 1 + 1 = i
    BY <1>1
  <2>2. (q \o u)[Len(q) + i - 1] = u[i - 1]
    <3> HIDE DEF u
    <3> QED BY <1>2, <2>1
  <2> QED BY <1>1, <2>1, <2>2
<1>4. ASSUME NEW i \in 1..Len(q) PROVE (q \o u)[i] = q[i]
  <2> HIDE DEF u
  <2> QED BY <1>1, <1>2 DEF u
<1> QED BY <1>1, <1>2, <1>3, <1>4

-----------------------------------------------------------------------------
(* Types.                                                                    *)

(* Requests not yet answered have been asked. *)
TypeInv == TypeOK /\ Len(inbox) + Len(input) + served <= asked

(* What the loop's thread does next has a type. *)
LEMMA CallType ==
  ASSUME NEW op \in Ops, NEW data \in Seq(Unit)
  PROVE  Call(op, data) \in CallRec /\ <<Call(op, data)>> \in Seq(CallRec)
<1>1. Call(op, data) \in CallRec
  BY DEF Call, CallRec
<1> QED BY <1>1, Single

LEMMA EmptyType ==
  /\ <<>> \in Seq(Unit) /\ <<>> \in Seq(CallRec) /\ <<>> \in Seq(Requests)
OBVIOUS

LEMMA HeadType ==
  ASSUME TypeOK, NEW op, Running(op)
  PROVE  /\ calls \in Seq(CallRec) /\ calls # <<>>
         /\ Head(calls) \in CallRec /\ Data \in Seq(Unit)
         /\ Len(calls) \in Nat \ {0} /\ Head(calls) = calls[1]
<1>1. calls \in Seq(CallRec) /\ calls # <<>>
  BY DEF TypeOK, CallRec, Running, Idle
<1>2. Head(calls) \in CallRec
  BY <1>1, HeadTailProperties
<1> QED BY <1>1, <1>2, EmptySeq DEF Data, CallRec

LEMMA ThenType ==
  ASSUME TypeOK, NEW op, Running(op), NEW q \in Seq(CallRec), Then(q)
  PROVE  calls' \in Seq([op : Ops, data : Seq(Unit)])
BY HeadType, Replace DEF Then, CallRec

(* The socket takes no more than it holds. *)
LEMMA WritesType ==
  ASSUME TypeOK, NEW q \in Seq(Unit), Writes(q)
  PROVE  /\ sock' \in Seq(Unit) /\ Len(sock') <= SockCap /\ Len(sock') \in Nat
         /\ Free \in Nat /\ Least(Len(q), Free) \in Nat /\ Least(Len(q), Free) <= Len(q)
         /\ Len(sock') = Len(sock) + Least(Len(q), Free)
<1> PICK k : k = Least(Len(q), Free)
  OBVIOUS
<1>1. Len(sock) \in Nat /\ Len(q) \in Nat /\ SockCap \in Nat /\ Len(sock) <= SockCap
  BY LenProperties, OutputAssumption DEF TypeOK
<1>2. Free \in Nat /\ k \in Nat /\ k <= Len(q) /\ k <= SockCap - Len(sock)
  BY <1>1 DEF Least, Free
<1>3. First(q, k) \in Seq(Unit) /\ Len(First(q, k)) = k
  BY <1>2, Cut
<1>4. sock' = sock \o First(q, k)
  BY DEF Writes
<1>5. sock' \in Seq(Unit) /\ Len(sock') = Len(sock) + k
  BY <1>3, <1>4, ConcatProperties DEF TypeOK
<1> QED BY <1>1, <1>2, <1>5


LEMMA UnitsType ==
  ASSUME NEW n \in 1..MaxRequests, NEW k \in Kinds
  PROVE  /\ Units(n, k) \in Seq(Unit)
         /\ First(Units(n, k), 1) \in Seq(Unit) /\ After(Units(n, k), 1) \in Seq(Unit)
<1>1. Size[k] \in Nat \ {0}
  BY OutputAssumption
<1>2. Units(n, k) \in Seq(Unit) /\ Len(Units(n, k)) = Size[k]
  <2> DEFINE u == [i \in 1..Size[k] |-> <<n, i>>]
  <2>1. \A i \in 1..Size[k] : <<n, i>> \in Unit
    BY <1>1 DEF Unit
  <2>2. u \in [1..Size[k] -> Unit]
    BY <2>1
  <2> QED BY <1>1, <2>2 DEF Units
<1> PICK u : u = Units(n, k)
  OBVIOUS
<1> PICK one \in Nat : one = 1
  OBVIOUS
<1>3. u \in Seq(Unit) /\ one <= Len(u)
  BY <1>1, <1>2
<1>4. First(u, one) \in Seq(Unit) /\ After(u, one) \in Seq(Unit)
  BY <1>3, Cut, Zenon
<1> QED BY <1>2, <1>4

LEMMA AnswersType ==
  ASSUME NEW n \in 1..MaxRequests, NEW k \in Kinds, NEW answer \in Answers(n, k)
  PROVE  answer \in Seq(CallRec)
<1> PICK u : u = Units(n, k)
  OBVIOUS
<1>1. u \in Seq(Unit) /\ First(u, 1) \in Seq(Unit) /\ After(u, 1) \in Seq(Unit)
  BY UnitsType
<1>2. \A data \in Seq(Unit) :
        /\ <<Call("send", data)>> \in Seq(CallRec)
        /\ <<Call("sendfile", data)>> \in Seq(CallRec)
        /\ <<Call("range", data)>> \in Seq(CallRec)
  BY CallType DEF Ops
<1> PICK send, head, file, range : /\ send = <<Call("send", u)>>
                                   /\ head = <<Call("send", First(u, 1))>>
                                   /\ file = <<Call("sendfile", After(u, 1))>>
                                   /\ range = <<Call("range", After(u, 1))>>
  OBVIOUS
<1>3. /\ send \in Seq(CallRec) /\ head \in Seq(CallRec)
      /\ file \in Seq(CallRec) /\ range \in Seq(CallRec)
  BY <1>1, <1>2
<1>4. head \o file \in Seq(CallRec) /\ head \o range \in Seq(CallRec)
  BY <1>3, ConcatProperties
<1>5. answer \in {send, head, <<>>, head \o file, head \o range}
  BY Zenon DEF Answers, Kinds
<1> QED BY <1>3, <1>4, <1>5, EmptyType

LEMMA ServeTypes ==
  ASSUME TypeInv, NEW r \in Requests, Serve(r)
  PROVE  TypeInv'
<1> PICK n : n = served + 1
  OBVIOUS
<1>1. /\ input \in Seq(Requests) /\ input # <<>> /\ Running("message")
      /\ Tail(input) \in Seq(Requests) /\ Len(Tail(input)) = Len(input) - 1
      /\ Len(input) \in Nat /\ Len(inbox) \in Nat
  BY HeadTailProperties, LenProperties DEF Serve, TypeInv, TypeOK
<1>2. n \in 1..MaxRequests /\ n \in 0..asked /\ r.kind \in Kinds
  BY <1>1, EmptySeq, OutputAssumption DEF TypeInv, TypeOK
<1> PICK k : k = r.kind
  OBVIOUS
<1>3. Units(n, k) \in Seq(Unit) /\ After(Units(n, k), 1) \in Seq(Unit)
  BY <1>2, UnitsType
<1>4. promised' \in Seq(Unit) /\ chunks' \in Seq(Unit)
  BY <1>3, ConcatProperties DEF Serve, TypeInv, TypeOK
<1>5. calls' \in Seq(CallRec)
  <2>1. PICK answer \in Answers(n, k) :
           calls' = answer \o (IF r.close THEN <<Call("close", <<>>)>> ELSE <<>>) \o calls
    BY DEF Serve
  <2> PICK close : close = IF r.close THEN <<Call("close", <<>>)>> ELSE <<>>
    OBVIOUS
  <2>2. answer \in Seq(CallRec) /\ calls \in Seq(CallRec)
    BY <1>2, AnswersType DEF TypeInv, TypeOK, CallRec
  <2>3. <<Call("close", <<>>)>> \in Seq(CallRec)
    BY CallType, EmptyType DEF Ops
  <2>4. close \in Seq(CallRec)
    BY <2>3, EmptyType
  <2> HIDE <2>1
  <2>5. answer \o close \in Seq(CallRec)
    BY <2>2, <2>4, ConcatProperties
  <2>6. answer \o close \o calls \in Seq(CallRec)
    BY <2>2, <2>5, ConcatProperties
  <2> QED BY <2>1, <2>6
<1>6. /\ input' = Tail(input) /\ served' = n
      /\ callback' \in {"none", "shutdown", "chunks"} /\ context' \in BOOLEAN
  BY DEF Serve, Take, TypeInv, TypeOK
<1>7. UNCHANGED <<state, sendBuffer, writing, alive, sock, full, ready, shutWr, inbox, reset, asked, received>>
  BY DEF Serve, kernelVars, peerVars
<1>8. TypeOK'
  BY <1>1, <1>2, <1>4, <1>5, <1>6, <1>7 DEF TypeOK, TypeInv, CallRec
<1>9. Len(inbox') + Len(input') + served' <= asked'
  BY <1>1, <1>2, <1>6, <1>7 DEF TypeInv, TypeOK
<1> QED BY <1>8, <1>9 DEF TypeInv


LEMMA PeerTypes ==
  ASSUME TypeInv, PeerRead \/ PeerReset \/ \E r \in Requests : PeerAsk(r)
  PROVE  TypeInv'
<1> USE DEF TypeInv, TypeOK, connVars, kernelVars, peerVars, histVars
<1>1. /\ Len(inbox) \in Nat /\ Len(input) \in Nat
      /\ asked \in Nat /\ served \in Nat /\ MaxRequests \in Nat
  BY LenProperties, OutputAssumption
<1>2. CASE PeerRead
  <2>1. Head(sock) \in Unit /\ Tail(sock) \in Seq(Unit) /\ Len(Tail(sock)) = Len(sock) - 1
    BY <1>2, HeadTailProperties DEF PeerRead
  <2>2. Append(received, Head(sock)) \in Seq(Unit)
    BY <2>1, AppendProperties
  <2>3. Len(sock) \in Nat /\ SockCap \in Nat
    BY LenProperties, OutputAssumption
  <2>4. Len(sock') <= SockCap /\ sock' \in Seq(Unit)
    BY <1>2, <2>1, <2>3 DEF PeerRead
  <2>5. received' \in Seq(Unit) /\ full' \in BOOLEAN /\ ready' \in BOOLEAN
    BY <1>2, <2>2 DEF PeerRead
  <2> QED BY <1>2, <2>4, <2>5 DEF PeerRead
<1>3. CASE PeerReset
  <2>1. Len(<<>>) = 0 /\ <<>> \in Seq(Unit) /\ <<>> \in Seq(Requests) /\ SockCap \in Nat
    BY OutputAssumption
  <2>2. sock' \in Seq(Unit) /\ Len(sock') <= SockCap /\ inbox' \in Seq(Requests)
    BY <1>3, <2>1 DEF PeerReset
  <2>3. Len(inbox') + Len(input') + served' <= asked'
    BY <1>1, <1>3, <2>1 DEF PeerReset
  <2> QED BY <1>3, <2>2, <2>3 DEF PeerReset
<1>4. ASSUME NEW r \in Requests, PeerAsk(r) PROVE TypeInv'
  <2>1. Append(inbox, r) \in Seq(Requests) /\ Len(Append(inbox, r)) = Len(inbox) + 1
    BY AppendProperties
  <2> QED BY <1>1, <1>4, <2>1 DEF PeerAsk
<1> QED BY <1>2, <1>3, <1>4

LEMMA PollTypes ==
  ASSUME TypeInv, Poll
  PROVE  TypeInv'
<1> PICK read, write : /\ read = <<Call("read", <<>>)>>
                       /\ write = <<Call("write", <<>>)>>
  OBVIOUS
<1>1. read \in Seq(CallRec) /\ write \in Seq(CallRec) /\ <<>> \in Seq(CallRec)
  BY CallType, EmptyType DEF Ops
<1>2. \A a, b \in Seq(CallRec) : a \o b \in Seq(CallRec)
  BY ConcatProperties
<1>3. calls' \in Seq(CallRec)
  <2> PICK p, q : /\ p = IF inbox # <<>> \/ reset THEN read ELSE <<>>
                  /\ q = IF writing /\ (Free > 0 \/ reset) THEN write ELSE <<>>
    OBVIOUS
  <2>1. p \in Seq(CallRec) /\ q \in Seq(CallRec)
    BY <1>1
  <2>2. calls' = p \o q
    BY DEF Poll
  <2> QED BY <1>2, <2>1, <2>2
<1>4. /\ full' \in BOOLEAN /\ ready' \in BOOLEAN
      /\ UNCHANGED <<connVars, alive, sock, shutWr, inbox, peerVars, histVars>>
  BY DEF Poll, TypeInv, TypeOK
<1> QED BY <1>3, <1>4 DEF TypeInv, TypeOK, CallRec, connVars, peerVars, histVars

LEMMA ReadTypes ==
  ASSUME TypeInv, ReadInput \/ ReadFails \/ MessageDone \/ CloseConnection
  PROVE  TypeInv'
<1>1. <<Call("message", <<>>)>> \in Seq(CallRec) /\ <<>> \in Seq(CallRec) /\ TypeOK
  BY CallType, EmptyType DEF Ops, TypeInv
<1> USE DEF TypeInv, TypeOK, connVars, kernelVars, peerVars, histVars
<1>2. CASE ReadInput
  <2>1. calls' \in Seq([op : Ops, data : Seq(Unit)])
    BY <1>1, <1>2, ThenType DEF ReadInput
  <2>2. Len(<<>>) = 0 /\ <<>> \in Seq(Requests) /\ Len(input) \in Nat /\ Len(inbox) \in Nat
    BY LenProperties
  <2> QED BY <1>2, <2>1, <2>2, OutputAssumption DEF ReadInput
<1>3. CASE ReadFails
  <2>1. calls' \in Seq([op : Ops, data : Seq(Unit)])
    BY <1>1, <1>3, ThenType DEF ReadFails
  <2> QED BY <1>3, <2>1 DEF ReadFails
<1>4. CASE MessageDone
  <2>1. calls' \in Seq([op : Ops, data : Seq(Unit)])
    BY <1>1, <1>4, ThenType DEF MessageDone
  <2> QED BY <1>4, <2>1 DEF MessageDone
<1>5. CASE CloseConnection
  <2>1. calls' \in Seq([op : Ops, data : Seq(Unit)])
    BY <1>1, <1>5, ThenType DEF CloseConnection
  <2> QED BY <1>5, <2>1 DEF CloseConnection
<1> QED BY <1>2, <1>3, <1>4, <1>5


(* The arguments of calls that send. *)
LEMMA CutType ==
  ASSUME TypeOK, NEW q \in Seq(Unit)
  PROVE  /\ Least(Len(q), Free) \in Nat /\ Least(Len(q), Free) <= Len(q) /\ Free \in Nat
         /\ After(q, Least(Len(q), Free)) \in Seq(Unit)
         /\ Len(q) > Free => After(q, Free) \in Seq(Unit) /\ Len(After(q, Free)) = Len(q) - Free
<1> PICK f, k : f = Free /\ k = Least(Len(q), Free)
  OBVIOUS
<1>1. Len(q) \in Nat /\ f \in Nat
  BY LenProperties, OutputAssumption DEF TypeOK, Free
<1>2. k \in Nat /\ k <= Len(q)
  BY <1>1 DEF Least
<1>3. After(q, k) \in Seq(Unit)
  BY <1>2, Cut
<1>4. Len(q) > f => After(q, f) \in Seq(Unit) /\ Len(After(q, f)) = Len(q) - f
  <2> SUFFICES ASSUME Len(q) > f PROVE After(q, f) \in Seq(Unit) /\ Len(After(q, f)) = Len(q) - f
    OBVIOUS
  <2>1. f <= Len(q)
    BY <1>1
  <2> QED BY <1>1, <2>1, Cut
<1> QED BY <1>1, <1>2, <1>3, <1>4

LEMMA PlainCalls ==
  /\ <<>> \in Seq(CallRec) /\ CallbackCall \in Seq(CallRec)
  /\ <<Call("arm", <<>>)>> \in Seq(CallRec)
<1>1. <<Call("arm", <<>>)>> \in Seq(CallRec) /\ <<Call("complete", <<>>)>> \in Seq(CallRec)
  BY CallType, EmptyType DEF Ops
<1> QED BY <1>1, EmptyType DEF CallbackCall

LEMMA WatchTypes ==
  ASSUME TypeOK, NEW w \in BOOLEAN, Watch(w) \/ NoWatch
  PROVE  writing' \in BOOLEAN /\ ready' \in BOOLEAN /\ full' \in BOOLEAN
BY DEF Watch, NoWatch, TypeOK

LEMMA SendTypes ==
  ASSUME TypeInv, SendDirect \/ SendBehind \/ Arm \/ WriteBuffered \/ NothingToWrite
  PROVE  TypeInv'
<1>1. TypeOK /\ <<>> \in Seq(CallRec) /\ CallbackCall \in Seq(CallRec)
      /\ <<Call("arm", <<>>)>> \in Seq(CallRec)
  BY PlainCalls DEF TypeInv
<1> USE DEF TypeInv, connVars, kernelVars, peerVars, histVars
<1>2. CASE SendDirect
  <2>1. Data \in Seq(Unit)
    BY <1>1, <1>2, HeadType DEF SendDirect
  <2>2. /\ sock' \in Seq(Unit) /\ Len(sock') <= SockCap
        /\ Len(Data) > Free => After(Data, Free) \in Seq(Unit)
        /\ Free \in Nat /\ Len(Data) \in Nat
    BY <1>1, <1>2, <2>1, WritesType, CutType, LenProperties DEF SendDirect
  <2>3. writing' \in BOOLEAN /\ ready' \in BOOLEAN /\ full' \in BOOLEAN
    BY <1>1, <1>2, WatchTypes DEF SendDirect
  <2>4. calls' \in Seq([op : Ops, data : Seq(Unit)])
    <3>1. Running("send") /\ (Then(CallbackCall) \/ Then(<<Call("arm", <<>>)>>))
      BY <1>2 DEF SendDirect
    <3> QED BY <1>1, <3>1, ThenType
  <2>5. sendBuffer' \in Seq(Unit)
    <3>1. \/ sendBuffer' = sendBuffer
          \/ ~(Len(Data) <= Free) /\ sendBuffer' = After(Data, Free)
      BY <1>2 DEF SendDirect
    <3>2. ~(Len(Data) <= Free) => After(Data, Free) \in Seq(Unit)
      BY <2>2
    <3> QED BY <1>1, <3>1, <3>2 DEF TypeOK
  <2> QED BY <1>1, <1>2, <2>2, <2>3, <2>4, <2>5 DEF SendDirect, TypeOK
<1>3. CASE SendBehind
  <2>1. Data \in Seq(Unit)
    BY <1>1, <1>3, HeadType DEF SendBehind
  <2>2. sendBuffer' \in Seq(Unit)
    BY <1>1, <1>3, <2>1, ConcatProperties DEF SendBehind, TypeOK
  <2>3. calls' \in Seq([op : Ops, data : Seq(Unit)])
    BY <1>1, <1>3, ThenType DEF SendBehind
  <2> QED BY <1>1, <1>3, <2>2, <2>3 DEF SendBehind, TypeOK
<1>4. CASE Arm
  <2>1. calls' \in Seq([op : Ops, data : Seq(Unit)])
    BY <1>1, <1>4, ThenType DEF Arm
  <2>2. writing' \in BOOLEAN /\ ready' \in BOOLEAN /\ full' \in BOOLEAN
    BY <1>1, <1>4, WatchTypes DEF Arm, TypeOK
  <2> QED BY <1>1, <1>4, <2>1, <2>2 DEF Arm, TypeOK
<1>5. CASE WriteBuffered
  <2>1. sendBuffer \in Seq(Unit)
    BY <1>1 DEF TypeOK
  <2>2. /\ sock' \in Seq(Unit) /\ Len(sock') <= SockCap
        /\ sendBuffer' \in Seq(Unit)
    BY <1>1, <1>5, <2>1, WritesType, CutType DEF WriteBuffered
  <2>3. writing' \in BOOLEAN /\ ready' \in BOOLEAN /\ full' \in BOOLEAN
    BY <1>1, <1>5, WatchTypes DEF WriteBuffered
  <2>4. calls' \in Seq([op : Ops, data : Seq(Unit)])
    BY <1>1, <1>5, ThenType DEF WriteBuffered
  <2> QED BY <1>1, <1>5, <2>2, <2>3, <2>4 DEF WriteBuffered, TypeOK
<1>6. CASE NothingToWrite
  <2>1. calls' \in Seq([op : Ops, data : Seq(Unit)])
    BY <1>1, <1>6, ThenType DEF NothingToWrite
  <2> QED BY <1>1, <1>6, <2>1 DEF NothingToWrite, TypeOK
<1> QED BY <1>2, <1>3, <1>4, <1>5, <1>6

LEMMA FileTypes ==
  ASSUME TypeInv, SendFile \/ SendFileRange
  PROVE  TypeInv'
<1>1. TypeOK /\ <<>> \in Seq(CallRec)
  BY EmptyType DEF TypeInv
<1> USE DEF TypeInv, connVars, kernelVars, peerVars, histVars
<1>2. Data \in Seq(Unit) /\ Len(Data) \in Nat /\ Free \in Nat
  BY <1>1, HeadType, CutType, LenProperties DEF SendFile, SendFileRange
<1>3. Writes(Data) => sock' \in Seq(Unit) /\ Len(sock') <= SockCap
  BY <1>1, <1>2, WritesType
<1>4. /\ <<Call("send", Data)>> \in Seq(CallRec)
      /\ Len(Data) > Free => /\ <<Call("sendfile", After(Data, Free))>> \in Seq(CallRec)
                             /\ <<Call("range", After(Data, Free))>> \in Seq(CallRec)
  BY <1>1, <1>2, CutType, CallType DEF Ops
<1>5. CASE SendFile
  <2>1. (IF Len(Data) <= Free THEN <<>> ELSE <<Call("sendfile", After(Data, Free))>>) \in Seq(CallRec)
    BY <1>1, <1>2, <1>4
  <2>2. calls' \in Seq([op : Ops, data : Seq(Unit)])
    BY <1>1, <1>5, <2>1, ThenType DEF SendFile
  <2> QED BY <1>1, <1>3, <1>5, <2>2 DEF SendFile, TypeOK
<1>6. CASE SendFileRange
  <2>1. (IF Len(Data) <= Free THEN <<>> ELSE <<Call("range", After(Data, Free))>>) \in Seq(CallRec)
    BY <1>1, <1>2, <1>4
  <2>2. calls' \in Seq([op : Ops, data : Seq(Unit)])
    BY <1>1, <1>4, <1>6, <2>1, ThenType DEF SendFileRange
  <2>3. sock' \in Seq(Unit) /\ Len(sock') <= SockCap
    BY <1>1, <1>3, <1>6 DEF SendFileRange, TypeOK
  <2> QED BY <1>1, <1>6, <2>2, <2>3 DEF SendFileRange, TypeOK
<1> QED BY <1>5, <1>6

LEMMA EndTypes ==
  ASSUME TypeInv, WriteFails \/ WriteRaises \/ Continue \/ HalfClose
  PROVE  TypeInv'
<1>1. TypeOK /\ <<>> \in Seq(CallRec)
  BY EmptyType DEF TypeInv
<1> USE DEF TypeInv, connVars, kernelVars, peerVars, histVars
<1>2. CASE WriteFails
  <2>1. calls' \in Seq([op : Ops, data : Seq(Unit)])
    BY <1>1, <1>2, ThenType DEF WriteFails, AboutToWrite
  <2> QED BY <1>1, <1>2, <2>1 DEF WriteFails, TypeOK
<1>3. CASE WriteRaises
  BY <1>1, <1>3 DEF WriteRaises, TypeOK
<1>4. CASE Continue
  <2> PICK n : n = Least(Chunk, Len(chunks))
    OBVIOUS
  <2>1. chunks \in Seq(Unit) /\ n \in Nat /\ n <= Len(chunks)
    BY <1>1, LenProperties, OutputAssumption DEF Least, TypeOK
  <2>2. After(chunks, n) \in Seq(Unit) /\ First(chunks, n) \in Seq(Unit)
    BY <2>1, Cut
  <2>3. <<Call("send", First(chunks, n))>> \in Seq(CallRec)
    BY <2>2, CallType DEF Ops
  <2>4. calls' \in Seq([op : Ops, data : Seq(Unit)])
    BY <1>1, <1>4, <2>3, ThenType DEF Continue
  <2> QED BY <1>1, <1>4, <2>2, <2>4 DEF Continue, TypeOK
<1>5. CASE HalfClose
  <2>1. calls' \in Seq([op : Ops, data : Seq(Unit)])
    BY <1>1, <1>5, ThenType DEF HalfClose
  <2> QED BY <1>1, <1>5, <2>1 DEF HalfClose, TypeOK
<1> QED BY <1>2, <1>3, <1>4, <1>5

(* Every variable keeps its type: the socket never holds more than it can,   *)
(* and no more requests are answered than were asked                         *)
(* (HttpServer.cpp:61-104).                                                  *)
LEMMA StepTypes == TypeInv /\ [Next]_vars => TypeInv'
<1> SUFFICES ASSUME TypeInv, [Next]_vars PROVE TypeInv'
  OBVIOUS
<1>1. CASE LoopStep
  BY <1>1, PollTypes, ReadTypes, ServeTypes, SendTypes, FileTypes, EndTypes DEF LoopStep
<1>2. CASE PeerRead \/ PeerReset \/ \E r \in Requests : PeerAsk(r)
  BY <1>2, PeerTypes
<1>3. CASE UNCHANGED vars
  BY <1>3 DEF TypeInv, TypeOK, vars, connVars, kernelVars, peerVars, histVars
<1> QED BY <1>1, <1>2, <1>3 DEF Next

LEMMA InitTypes == Init => TypeInv
<1> SUFFICES ASSUME Init PROVE TypeInv
  OBVIOUS
<1>1. /\ Len(<<>>) = 0 /\ <<>> \in Seq(Unit)
      /\ <<>> \in Seq(CallRec) /\ <<>> \in Seq(Requests)
  BY EmptyType
<1>2. Len(inbox) + Len(input) + served <= asked /\ Len(sock) <= SockCap
  BY <1>1, OutputAssumption DEF Init
<1>3. asked \in 0..MaxRequests /\ served \in 0..asked
  BY OutputAssumption DEF Init
<1>4. /\ sendBuffer \in Seq(Unit) /\ chunks \in Seq(Unit)
      /\ input \in Seq(Requests) /\ inbox \in Seq(Requests)
      /\ calls \in Seq(CallRec) /\ sock \in Seq(Unit)
      /\ received \in Seq(Unit) /\ promised \in Seq(Unit)
  BY <1>1 DEF Init
<1> QED BY <1>2, <1>3, <1>4 DEF Init, TypeInv, TypeOK, CallRec

(* The types of ConnectionOutput hold for every mix of requests.             *)
THEOREM Typing == Spec => []TypeOK
<1>1. TypeInv => TypeOK
  BY DEF TypeInv
<1> QED BY <1>1, InitTypes, StepTypes, PTL DEF Spec


-----------------------------------------------------------------------------
(* The pending calls.                                                        *)

LEMMA CallsAre ==
  ASSUME TypeOK
  PROVE  /\ DOMAIN calls = 1..Len(calls) /\ Len(calls) \in Nat
         /\ \A i \in DOMAIN calls : calls[i] \in CallRec
         /\ ~Idle => 1 \in DOMAIN calls /\ Head(calls) = calls[1]
<1>1. calls \in Seq(CallRec)
  BY DEF TypeOK, CallRec
<1> QED BY <1>1, LenProperties, ElementOfSeq, EmptySeq DEF Idle

(* A call that is over leaves the rest; one that leads to another is         *)
(* replaced by it.                                                           *)
LEMMA ThenNone ==
  ASSUME TypeOK, NEW op, Running(op), Then(<<>>)
  PROVE  /\ \A i \in DOMAIN calls' : i + 1 \in DOMAIN calls /\ calls'[i] = calls[i + 1]
         /\ \A i \in DOMAIN calls : i # 1 => i - 1 \in DOMAIN calls' /\ calls'[i - 1] = calls[i]
         /\ DOMAIN calls' \subseteq Nat \ {0} /\ DOMAIN calls \subseteq Nat \ {0}
         /\ calls' # <<>> => Head(calls') = calls'[1] /\ 1 \in DOMAIN calls'
<1>1. calls \in Seq(CallRec) /\ calls # <<>> /\ calls' = <<>> \o Tail(calls)
  BY HeadType DEF Then
<1>2. Len(calls) \in Nat \ {0} /\ DOMAIN calls = 1..Len(calls)
  BY <1>1, LenProperties, EmptySeq
<1>3. /\ Tail(calls) \in Seq(CallRec) /\ Len(Tail(calls)) = Len(calls) - 1
      /\ \A i \in 1..Len(Tail(calls)) : Tail(calls)[i] = calls[i + 1]
  BY <1>1, HeadTailProperties
<1>4. calls' = Tail(calls)
  BY <1>1, <1>3, ConcatEmptySeq
<1>5. DOMAIN calls' = 1..Len(calls')
  BY <1>3, <1>4, LenProperties
<1> QED BY <1>2, <1>3, <1>4, <1>5

LEMMA ThenOne ==
  ASSUME TypeOK, NEW op, Running(op), NEW x \in CallRec, Then(<<x>>)
  PROVE  /\ DOMAIN calls' = DOMAIN calls /\ 1 \in DOMAIN calls /\ calls'[1] = x
         /\ \A i \in DOMAIN calls : i # 1 => calls'[i] = calls[i]
         /\ calls' # <<>> /\ Head(calls') = x
<1> PICK q : q = <<x>>
  OBVIOUS
<1>1. q \in Seq(CallRec) /\ Len(q) = 1 /\ q[1] = x
  BY Single
<1>2. calls \in Seq(CallRec) /\ calls # <<>> /\ calls' = q \o Tail(calls)
  BY HeadType DEF Then
<1>3. Len(calls) \in Nat \ {0} /\ DOMAIN calls = 1..Len(calls)
  BY <1>2, LenProperties, EmptySeq
<1>4. /\ calls' \in Seq(CallRec) /\ Len(calls') = Len(q) + Len(calls) - 1
      /\ \A i \in 1..Len(q) : calls'[i] = q[i]
      /\ \A i \in 2..Len(calls) : calls'[Len(q) + i - 1] = calls[i]
  BY <1>1, <1>2, Replace
<1>5. DOMAIN calls' = 1..Len(calls')
  BY <1>4, LenProperties
<1>6. Len(calls') = Len(calls) /\ calls'[1] = x
  BY <1>1, <1>3, <1>4
<1>7. ASSUME NEW i \in DOMAIN calls, i # 1 PROVE calls'[i] = calls[i]
  <2>1. i \in 2..Len(calls) /\ Len(q) + i - 1 = i
    BY <1>1, <1>3, <1>7
  <2> QED BY <1>4, <2>1
<1>8. calls' # <<>> /\ Head(calls') = calls'[1]
  BY <1>3, <1>4, <1>6, EmptySeq
<1> QED BY <1>3, <1>5, <1>6, <1>7, <1>8

LEMMA WatchedCallEnds ==
  ASSUME TypeOK, SendFirst, NEW op, Running(op), Then(<<>>)
  PROVE  /\ SendFirst' /\ ~Arming'
         /\ op # "write" /\ WritePending => WritePending'
<1>1. /\ \A i \in DOMAIN calls' : i + 1 \in DOMAIN calls /\ calls'[i] = calls[i + 1]
      /\ \A i \in DOMAIN calls : i # 1 => i - 1 \in DOMAIN calls' /\ calls'[i - 1] = calls[i]
      /\ DOMAIN calls' \subseteq Nat \ {0} /\ DOMAIN calls \subseteq Nat \ {0}
      /\ calls' # <<>> => Head(calls') = calls'[1] /\ 1 \in DOMAIN calls'
  BY ThenNone
<1>2. \A i \in DOMAIN calls' : calls'[i].op \notin {"send", "arm", "complete"}
  <2> SUFFICES ASSUME NEW i \in DOMAIN calls' PROVE calls'[i].op \notin {"send", "arm", "complete"}
    OBVIOUS
  <2>1. i + 1 \in DOMAIN calls /\ calls'[i] = calls[i + 1] /\ i + 1 # 1
    BY <1>1
  <2> QED BY <2>1 DEF SendFirst
<1>3. SendFirst' /\ ~Arming'
  BY <1>1, <1>2 DEF SendFirst, Arming, Idle
<1>4. ASSUME op # "write", WritePending PROVE WritePending'
  <2>1. PICK i \in DOMAIN calls : calls[i].op = "write"
    BY <1>4 DEF WritePending
  <2>2. Head(calls) = calls[1] /\ Head(calls).op = op
    BY HeadType DEF Running
  <2>3. i # 1
    BY <1>4, <2>1, <2>2
  <2> QED BY <1>1, <2>1, <2>3 DEF WritePending
<1> QED BY <1>3, <1>4

LEMMA WatchedCallLeads ==
  ASSUME TypeOK, SendFirst, NEW op, Running(op), NEW x \in CallRec, Then(<<x>>)
  PROVE  /\ SendFirst' /\ (Arming' <=> x.op = "arm")
         /\ op # "write" /\ WritePending => WritePending'
<1>1. /\ DOMAIN calls' = DOMAIN calls /\ 1 \in DOMAIN calls /\ calls'[1] = x
      /\ \A i \in DOMAIN calls : i # 1 => calls'[i] = calls[i]
      /\ calls' # <<>> /\ Head(calls') = x
  BY ThenOne
<1>2. SendFirst' /\ (Arming' <=> x.op = "arm")
  BY <1>1 DEF SendFirst, Arming, Idle
<1>3. ASSUME op # "write", WritePending PROVE WritePending'
  <2>1. PICK i \in DOMAIN calls : calls[i].op = "write"
    BY <1>3 DEF WritePending
  <2>2. Head(calls) = calls[1] /\ Head(calls).op = op
    BY HeadType DEF Running
  <2>3. i # 1
    BY <1>3, <2>1, <2>2
  <2> QED BY <1>1, <2>1, <2>3 DEF WritePending
<1> QED BY <1>2, <1>3


-----------------------------------------------------------------------------
(* EPOLLOUT.                                                                 *)

LEMMA PeerKeepsWatch ==
  ASSUME TypeOK, WatchInv, PeerRead \/ PeerReset \/ \E r \in Requests : PeerAsk(r)
  PROVE  WatchInv'
<1> USE DEF connVars, kernelVars, peerVars, histVars
<1>1. UNCHANGED <<calls, sendBuffer, writing, alive, state>>
  BY DEF PeerRead, PeerReset, PeerAsk
<1>2. SendFirst' /\ (Arming' <=> Arming) /\ (WritePending' <=> WritePending)
  BY <1>1 DEF WatchInv, SendFirst, Arming, Idle, WritePending
<1>3. CASE PeerRead
  <2>1. (Usable' <=> Usable) /\ ready' = (ready \/ (full /\ writing))
    BY <1>3 DEF PeerRead, Usable
  <2> QED BY <1>1, <1>2, <2>1 DEF WatchInv
<1>4. CASE PeerReset
  BY <1>2, <1>4 DEF PeerReset, WatchInv, Usable
<1>5. ASSUME NEW r \in Requests, PeerAsk(r) PROVE WatchInv'
  <2>1. ready' /\ (Usable' <=> Usable)
    BY <1>5 DEF PeerAsk, Usable
  <2> QED BY <1>1, <1>2, <2>1 DEF WatchInv
<1> QED BY <1>3, <1>4, <1>5

LEMMA PollCalls ==
  ASSUME Poll, NEW r, NEW w, r = Call("read", <<>>), w = Call("write", <<>>)
  PROVE  /\ writing /\ Free > 0 => calls' \in {<<w>>, <<r, w>>}
         /\ calls' \in {<<>>, <<r>>, <<w>>, <<r, w>>}
<1> DEFINE a == IF inbox # <<>> \/ reset THEN <<r>> ELSE <<>>
           b == IF writing /\ (Free > 0 \/ reset) THEN <<w>> ELSE <<>>
<1>1. calls' = a \o b
  BY DEF Poll
<1>2. a \in {<<>>, <<r>>} /\ b \in {<<>>, <<w>>} /\ (writing /\ Free > 0 => b = <<w>>)
  OBVIOUS
<1>3. /\ <<>> \o <<>> = <<>> /\ <<r>> \o <<>> = <<r>>
      /\ <<>> \o <<w>> = <<w>> /\ <<r>> \o <<w>> = <<r, w>>
  <2>1. <<>> \in Seq({r, w}) /\ <<r>> \in Seq({r, w}) /\ <<w>> \in Seq({r, w})
    OBVIOUS
  <2>2. <<r>> \o <<w>> = <<r, w>>
    BY Pair
  <2> QED BY <2>1, <2>2, ConcatEmptySeq
<1> HIDE <1>1 DEF a, b
<1>4. /\ a \o b \in {<<>>, <<r>>, <<w>>, <<r, w>>}
      /\ b = <<w>> => a \o b \in {<<w>>, <<r, w>>}
  BY <1>2, <1>3, Zenon
<1> QED BY <1>1, <1>2, <1>4

LEMMA PollKeepsWatch ==
  ASSUME TypeOK, WatchInv, Poll
  PROVE  WatchInv'
<1> PICK r, w : r = Call("read", <<>>) /\ w = Call("write", <<>>)
  OBVIOUS
<1>1. r.op = "read" /\ w.op = "write"
  BY DEF Call
<1>2. /\ writing /\ Free > 0 => calls' \in {<<w>>, <<r, w>>}
      /\ calls' \in {<<>>, <<r>>, <<w>>, <<r, w>>}
  BY PollCalls
<1>3. SendFirst' /\ ~Arming'
  BY <1>1, <1>2 DEF SendFirst, Arming, Idle
<1>4. ~Arming /\ UNCHANGED <<sendBuffer, writing, state, alive, reset, sock>>
  BY DEF Poll, Arming, connVars, peerVars
<1>5. ASSUME writing, Free > 0 PROVE WritePending'
  <2>1. calls' = <<w>> \/ calls' = <<r, w>>
    BY <1>2, <1>5
  <2> QED BY <1>1, <2>1 DEF WritePending
<1>6. ~(Free > 0) => Free = 0 /\ full'
  <2>1. Free \in Nat
    BY EmptyType, CutType
  <2>2. Free = 0 => full'
    BY Zenon DEF Poll
  <2> QED BY <2>1, <2>2
<1>7. Free' = Free /\ (Usable' <=> Usable)
  BY <1>4 DEF Free, Usable
<1> QED BY <1>3, <1>4, <1>5, <1>6, <1>7 DEF WatchInv

(* Steps that neither send nor watch. *)
LEMMA OthersKeepWatch ==
  ASSUME TypeOK, WatchInv,
         ReadInput \/ ReadFails \/ MessageDone \/ CloseConnection
           \/ NothingToWrite \/ WriteFails \/ WriteRaises \/ Continue \/ HalfClose
  PROVE  WatchInv'
<1> USE DEF connVars, kernelVars, peerVars, histVars
<1>1. SendFirst
  BY DEF WatchInv
<1>2. CASE ReadInput
  <2>1. Call("message", <<>>) \in CallRec /\ Call("message", <<>>).op = "message"
    BY CallType, EmptyType DEF Ops, Call
  <2>2. /\ SendFirst' /\ ~Arming' /\ (WritePending => WritePending') /\ ~Arming
    BY <1>1, <1>2, <2>1, WatchedCallLeads DEF ReadInput, Running, Arming
  <2>3. Free' = Free /\ (Usable' <=> Usable)
    BY <1>2 DEF ReadInput, Free, Usable
  <2> QED BY <1>2, <2>2, <2>3 DEF ReadInput, WatchInv
<1>3. CASE ReadFails \/ CloseConnection
  <2>1. SendFirst' /\ ~Usable'
    BY <1>1, <1>3, WatchedCallEnds DEF ReadFails, CloseConnection, Usable
  <2> QED BY <2>1 DEF WatchInv
<1>4. CASE MessageDone
  <2>1. /\ SendFirst' /\ ~Arming' /\ (WritePending => WritePending') /\ ~Arming
    BY <1>1, <1>4, WatchedCallEnds DEF MessageDone, Running, Arming
  <2>2. Free' = Free /\ (Usable' <=> Usable)
    BY <1>4 DEF MessageDone, Free, Usable
  <2> QED BY <1>4, <2>1, <2>2 DEF MessageDone, WatchInv
<1>5. CASE NothingToWrite
  <2>1. SendFirst' /\ ~Arming' /\ ~Arming
    BY <1>1, <1>5, WatchedCallEnds DEF NothingToWrite, Running, Arming
  <2>2. /\ UNCHANGED <<sendBuffer, writing, ready, full>>
        /\ Free' = Free /\ (Usable' <=> Usable)
        /\ Usable => sendBuffer = <<>>
    BY <1>5 DEF NothingToWrite, Free, Usable
  <2> QED BY <2>1, <2>2 DEF WatchInv
<1>6. CASE WriteFails
  <2>1. SendFirst'
    BY <1>1, <1>6, WatchedCallEnds DEF WriteFails, AboutToWrite
  <2>2. ~Usable'
    BY <1>6 DEF WriteFails, Usable
  <2> QED BY <2>1, <2>2 DEF WatchInv
<1>7. CASE WriteRaises
  <2>1. ~Usable' /\ UNCHANGED calls
    BY <1>7 DEF WriteRaises, Usable
  <2> QED BY <1>1, <2>1 DEF WatchInv, SendFirst
<1>8. CASE Continue
  <2> PICK x : x = Call("send", First(chunks, Least(Chunk, Len(chunks))))
    OBVIOUS
  <2>1. x \in CallRec /\ x.op = "send"
    <3> PICK n : n = Least(Chunk, Len(chunks))
      OBVIOUS
    <3>1. chunks \in Seq(Unit) /\ n \in Nat /\ n <= Len(chunks)
      BY LenProperties, OutputAssumption DEF Least, TypeOK
    <3>2. First(chunks, n) \in Seq(Unit)
      BY <3>1, Cut
    <3> QED BY <3>2, CallType DEF Ops, Call
  <2>2. Running("complete") /\ Then(<<x>>)
    BY <1>8 DEF Continue
  <2>3. /\ SendFirst' /\ ~Arming' /\ (WritePending => WritePending') /\ ~Arming
    BY <1>1, <2>1, <2>2, WatchedCallLeads DEF Running, Arming
  <2>4. Free' = Free /\ (Usable' <=> Usable)
    BY <1>8 DEF Continue, Free, Usable
  <2>5. UNCHANGED <<sendBuffer, writing, ready, full>>
    BY <1>8 DEF Continue
  <2> QED BY <2>3, <2>4, <2>5 DEF WatchInv
<1>9. CASE HalfClose
  <2>1. /\ SendFirst' /\ ~Arming' /\ (WritePending => WritePending') /\ ~Arming
    BY <1>1, <1>9, WatchedCallEnds DEF HalfClose, Running, Arming
  <2>2. Free' = Free /\ (Usable' <=> Usable)
    BY <1>9 DEF HalfClose, Free, Usable
  <2> QED BY <1>9, <2>1, <2>2 DEF HalfClose, WatchInv
<1> QED BY <1>2, <1>3, <1>4, <1>5, <1>6, <1>7, <1>8, <1>9


LEMMA CallbackIs ==
  CallbackCall = <<>> \/ \E x \in CallRec : x.op = "complete" /\ x.data = <<>> /\ CallbackCall = <<x>>
<1>1. /\ Call("complete", <<>>) \in CallRec /\ Call("complete", <<>>).op = "complete"
      /\ Call("complete", <<>>).data = <<>>
  BY CallType, EmptyType DEF Ops, Call
<1> QED BY <1>1 DEF CallbackCall

LEMMA CallbackFollows ==
  ASSUME TypeOK, SendFirst, NEW op, Running(op), Then(CallbackCall)
  PROVE  SendFirst' /\ ~Arming'
<1>1. CASE CallbackCall = <<>>
  BY <1>1, WatchedCallEnds
<1>2. ASSUME NEW x \in CallRec, x.op = "complete", CallbackCall = <<x>> PROVE SendFirst' /\ ~Arming'
  BY <1>2, WatchedCallLeads
<1> QED BY <1>1, <1>2, CallbackIs

LEMMA ArmFollows ==
  ASSUME TypeOK, SendFirst, NEW op, op # "write", Running(op), Then(<<Call("arm", <<>>)>>)
  PROVE  SendFirst' /\ Arming' /\ (WritePending => WritePending')
<1>1. Call("arm", <<>>) \in CallRec /\ Call("arm", <<>>).op = "arm"
  BY CallType, EmptyType DEF Ops, Call
<1> QED BY <1>1, WatchedCallLeads

(* Whoever leaves something in sendBuffer has filled the socket. *)
LEMMA Fills ==
  ASSUME TypeOK, NEW q \in Seq(Unit), Writes(q), ~(Len(q) <= Free)
  PROVE  Free' = 0
<1>1. /\ Len(sock') = Len(sock) + Least(Len(q), Free) /\ Free \in Nat
  BY WritesType
<1>2. Len(q) \in Nat /\ Len(sock) \in Nat /\ SockCap \in Nat
  BY LenProperties, OutputAssumption DEF TypeOK
<1>3. Least(Len(q), Free) = Free
  BY <1>1, <1>2 DEF Least
<1>4. Len(sock') = Len(sock) + (SockCap - Len(sock))
  BY <1>1, <1>3 DEF Free
<1> QED BY <1>2, <1>4 DEF Free

(* A piece that does not fit leaves something. *)
LEMMA Remains ==
  ASSUME TypeOK, NEW q \in Seq(Unit), ~(Len(q) <= Free)
  PROVE  /\ After(q, Free) # <<>>
         /\ After(q, Least(Len(q), Free)) # <<>>
<1>1. Len(q) \in Nat /\ Free \in Nat
  BY CutType, LenProperties
<1>2. Least(Len(q), Free) = Free /\ Len(After(q, Free)) = Len(q) - Free
  BY <1>1, CutType DEF Least
<1>3. Len(After(q, Free)) # 0
  BY <1>1, <1>2
<1>4. After(q, Free) # <<>>
  BY <1>3, EmptySeq
<1> QED BY <1>2, <1>4

LEMMA NothingRemains ==
  ASSUME TypeOK, NEW q \in Seq(Unit), Len(q) <= Free
  PROVE  After(q, Least(Len(q), Free)) = <<>> /\ Least(Len(q), Free) = Len(q)
<1>1. Len(q) \in Nat
  BY LenProperties
<1>2. Least(Len(q), Free) = Len(q)
  BY DEF Least
<1>3. SubSeq(q, Len(q) + 1, Len(q)) = <<>>
  <2> PICK n \in Int, m \in Int : n = Len(q) /\ m = n + 1
    BY <1>1
  <2>1. n < m
    OBVIOUS
  <2>2. SubSeq(q, m, n) = <<>>
    BY <2>1, SubSeqEmpty
  <2> QED BY <2>2
<1> QED BY <1>2, <1>3 DEF After

LEMMA SendDirectKeepsWatch ==
  ASSUME TypeOK, WatchInv, SendDirect
  PROVE  WatchInv'
<1>1. SendFirst /\ Running("send") /\ ~Arming /\ sendBuffer = <<>> /\ (Usable' <=> Usable)
  BY DEF SendDirect, WatchInv, Running, Arming, Usable, peerVars
<1>2. Data \in Seq(Unit)
  BY <1>1, HeadType
<1>3. CASE Len(Data) <= Free
  <2>1. SendFirst' /\ ~Arming'
    BY <1>1, <1>3, CallbackFollows DEF SendDirect
  <2>2. writing' = FALSE /\ sendBuffer' = sendBuffer
    BY <1>3 DEF SendDirect, Watch
  <2> QED BY <1>1, <2>1, <2>2 DEF WatchInv
<1>4. CASE ~(Len(Data) <= Free)
  <2>1. SendFirst' /\ Arming' /\ sendBuffer' = After(Data, Free) /\ writing' = writing
    BY <1>1, <1>4, ArmFollows DEF SendDirect, NoWatch
  <2>2. sendBuffer' # <<>>
    BY <1>2, <1>4, <2>1, Remains
  <2>3. Usable => ~writing
    BY <1>1 DEF WatchInv
  <2> QED BY <1>1, <2>1, <2>2, <2>3 DEF WatchInv
<1> QED BY <1>3, <1>4

LEMMA SendBehindKeepsWatch ==
  ASSUME TypeOK, WatchInv, SendBehind
  PROVE  WatchInv'
<1>1. /\ SendFirst /\ Running("send") /\ ~Arming /\ sendBuffer # <<>> /\ (Usable' <=> Usable)
      /\ Free' = Free /\ UNCHANGED <<writing, ready, full>> /\ sendBuffer' = sendBuffer \o Data
  BY DEF SendBehind, WatchInv, Running, Arming, Usable, Free, peerVars, kernelVars
<1>2. Data \in Seq(Unit) /\ sendBuffer \in Seq(Unit)
  BY <1>1, HeadType DEF TypeOK
<1>3. sendBuffer' # <<>>
  BY <1>1, <1>2, ConcatEqualIffEmpty
<1>4. SendFirst' /\ Arming' /\ (WritePending => WritePending')
  BY <1>1, ArmFollows DEF SendBehind
<1> QED BY <1>1, <1>3, <1>4 DEF WatchInv

LEMMA ArmKeepsWatch ==
  ASSUME TypeOK, WatchInv, Arm
  PROVE  WatchInv'
<1>1. /\ SendFirst /\ Running("arm") /\ Arming /\ (Usable' <=> Usable)
      /\ Free' = Free /\ sendBuffer' = sendBuffer /\ sock' = sock
  BY DEF Arm, WatchInv, Running, Arming, Usable, Free, peerVars
<1>2. SendFirst' /\ ~Arming' /\ (WritePending => WritePending')
  BY <1>1, WatchedCallEnds DEF Arm
<1>3. CASE writing
  <2>1. UNCHANGED <<writing, ready, full>>
    BY <1>3 DEF Arm
  <2> QED BY <1>1, <1>2, <1>3, <2>1 DEF WatchInv
<1>4. CASE ~writing
  <2>1. Watch(TRUE)
    BY <1>4 DEF Arm
  <2>2. Len(sock') \in Nat /\ SockCap \in Nat /\ Len(sock') <= SockCap
    BY <1>1, LenProperties, OutputAssumption DEF TypeOK
  <2>3. Len(sock') < SockCap \/ Len(sock') = SockCap
    BY <2>2
  <2>4. writing' /\ (ready' \/ (full' /\ Len(sock') = SockCap))
    BY <2>1, <2>3, Zenon DEF Watch
  <2>5. Len(sock') = SockCap => Free' = 0
    BY <2>2 DEF Free
  <2> QED BY <1>1, <1>2, <2>4, <2>5 DEF WatchInv
<1> QED BY <1>3, <1>4

LEMMA WriteBufferedKeepsWatch ==
  ASSUME TypeOK, WatchInv, WriteBuffered
  PROVE  WatchInv'
<1>1. /\ SendFirst /\ Running("write") /\ ~Arming /\ (Usable' <=> Usable)
      /\ Writes(sendBuffer) /\ sendBuffer \in Seq(Unit) /\ sendBuffer # <<>>
      /\ sendBuffer' = After(sendBuffer, Least(Len(sendBuffer), Free))
  BY DEF WriteBuffered, WatchInv, Running, Arming, Usable, peerVars, TypeOK
<1>2. CASE Len(sendBuffer) <= Free
  <2>1. SendFirst' /\ ~Arming'
    BY <1>1, <1>2, CallbackFollows DEF WriteBuffered
  <2>2. writing' = FALSE /\ sendBuffer' = <<>>
    BY <1>1, <1>2, NothingRemains DEF WriteBuffered, Watch
  <2> QED BY <2>1, <2>2 DEF WatchInv
<1>3. CASE ~(Len(sendBuffer) <= Free)
  <2>1. SendFirst' /\ ~Arming'
    BY <1>1, <1>3, WatchedCallEnds DEF WriteBuffered
  <2>2. writing' = writing /\ full' /\ sendBuffer' # <<>> /\ Free' = 0
    BY <1>1, <1>3, Fills, Remains DEF WriteBuffered, NoWatch
  <2> QED BY <1>1, <2>1, <2>2 DEF WatchInv
<1> QED BY <1>2, <1>3

(* sendfile leaves EPOLLOUT alone; it needs room, so the kernel already told *)
(* epoll, or it finds none and says so.                                      *)
LEMMA FilesKeepWatch ==
  ASSUME TypeOK, WatchInv, SendFile \/ SendFileRange
  PROVE  WatchInv'
<1>1. /\ SendFirst /\ ~Arming /\ (Usable' <=> Usable)
      /\ UNCHANGED <<sendBuffer, writing, ready>>
  BY DEF SendFile, SendFileRange, WatchInv, Running, Arming, Usable, peerVars, connVars
<1>2. Data \in Seq(Unit)
  BY HeadType DEF SendFile, SendFileRange
<1>3. Len(Data) > Free => After(Data, Free) \in Seq(Unit)
  BY <1>2, CutType
<1> PICK s, t, u : /\ s = Call("send", Data)
                   /\ t = Call("sendfile", After(Data, Free))
                   /\ u = Call("range", After(Data, Free))
  OBVIOUS
<1>4. /\ s \in CallRec /\ s.op = "send"
      /\ ~(Len(Data) <= Free) => t \in CallRec /\ t.op = "sendfile" /\ u \in CallRec /\ u.op = "range"
  <2>1. Len(Data) \in Nat /\ Free \in Nat
    BY <1>2, LenProperties, CutType
  <2> QED BY <1>2, <1>3, <2>1, CallType DEF Ops, Call
<1>5. SendFirst' /\ ~Arming' /\ (WritePending => WritePending')
  <2>1. CASE SendFile
    <3>1. Running("sendfile") /\ (Then(<<>>) \/ (~(Len(Data) <= Free) /\ Then(<<t>>)))
      BY <2>1 DEF SendFile
    <3> QED BY <1>1, <1>4, <3>1, WatchedCallEnds, WatchedCallLeads
  <2>2. CASE SendFileRange
    <3>1. Running("range") /\ (Then(<<>>) \/ Then(<<s>>) \/ (~(Len(Data) <= Free) /\ Then(<<u>>)))
      BY <2>2 DEF SendFileRange
    <3> QED BY <1>1, <1>4, <3>1, WatchedCallEnds, WatchedCallLeads
  <2> QED BY <2>1, <2>2
<1>6. (Free = 0 /\ full) => (Free' = 0 /\ full')
  <2> SUFFICES ASSUME Free = 0, full PROVE Free' = 0 /\ full'
    OBVIOUS
  <2>1. full'
    BY Zenon DEF SendFile, SendFileRange
  <2>2. ASSUME Writes(Data) PROVE Free' = 0
    <3>1. /\ Len(sock') = Len(sock) + Least(Len(Data), Free) /\ Least(Len(Data), Free) \in Nat
          /\ Len(sock') <= SockCap /\ Len(sock') \in Nat /\ SockCap - Len(sock) = 0
      BY <1>2, <2>2, WritesType DEF Free
    <3>2. Len(sock) \in Nat /\ SockCap \in Nat
      BY LenProperties, OutputAssumption DEF TypeOK
    <3> QED BY <3>1, <3>2 DEF Free
  <2>3. UNCHANGED sock => Free' = 0
    BY DEF Free
  <2> QED BY <2>1, <2>2, <2>3 DEF SendFile, SendFileRange
<1> QED BY <1>1, <1>5, <1>6 DEF WatchInv


(* Where the elements of a concatenation come from. *)
LEMMA Elements ==
  ASSUME NEW S, NEW a \in Seq(S), NEW b \in Seq(S)
  PROVE  /\ \A i \in DOMAIN (a \o b) : \/ i \in DOMAIN a /\ (a \o b)[i] = a[i]
                                       \/ i > Len(a) /\ \E j \in DOMAIN b : (a \o b)[i] = b[j]
         /\ \A j \in DOMAIN b : \E i \in DOMAIN (a \o b) : (a \o b)[i] = b[j]
         /\ DOMAIN (a \o b) \subseteq Nat \ {0}
<1> PICK c : c = a \o b
  OBVIOUS
<1>1. /\ Len(a) \in Nat /\ DOMAIN a = 1..Len(a)
      /\ Len(b) \in Nat /\ DOMAIN b = 1..Len(b)
  BY LenProperties
<1>2. /\ c \in Seq(S) /\ Len(c) = Len(a) + Len(b)
      /\ \A i \in 1 .. Len(a) + Len(b) : c[i] = IF i <= Len(a) THEN a[i] ELSE b[i - Len(a)]
  BY ConcatProperties
<1>3. DOMAIN c = 1..Len(c)
  BY <1>2, LenProperties
<1>4. ASSUME NEW i \in DOMAIN c
      PROVE  \/ i \in DOMAIN a /\ c[i] = a[i]
             \/ i > Len(a) /\ \E j \in DOMAIN b : c[i] = b[j]
  <2>1. CASE i <= Len(a)
    BY <1>1, <1>2, <1>3, <2>1
  <2>2. CASE ~(i <= Len(a))
    <3>1. i > Len(a) /\ i - Len(a) \in DOMAIN b /\ c[i] = b[i - Len(a)]
      BY <1>1, <1>2, <1>3, <2>2
    <3> QED BY <3>1
  <2> QED BY <2>1, <2>2
<1>5. ASSUME NEW j \in DOMAIN b PROVE \E i \in DOMAIN c : c[i] = b[j]
  <2>1. /\ Len(a) + j \in 1 .. Len(a) + Len(b) /\ ~(Len(a) + j <= Len(a))
        /\ Len(a) + j - Len(a) = j
    BY <1>1
  <2>2. Len(a) + j \in DOMAIN c /\ c[Len(a) + j] = b[j]
    BY <1>2, <1>3, <2>1
  <2> QED BY <2>2
<1> QED BY <1>1, <1>2, <1>3, <1>4, <1>5

(* An answer begins with Send, if with anything; messages are nothing else.  *)
LEMMA AnswersSend ==
  ASSUME NEW n \in 1..MaxRequests, NEW k \in Kinds, NEW answer \in Answers(n, k)
  PROVE  /\ answer \in Seq(CallRec)
         /\ \A i \in DOMAIN answer : answer[i].op \in {"send", "sendfile", "range"}
                                     /\ (answer[i].op = "send" => i = 1)
         /\ k \in {"plain", "json"} => answer = <<Call("send", Units(n, k))>>
<1> PICK u : u = Units(n, k)
  OBVIOUS
<1>1. u \in Seq(Unit) /\ First(u, 1) \in Seq(Unit) /\ After(u, 1) \in Seq(Unit)
  BY UnitsType
<1> PICK s, h, f, r : /\ s = Call("send", u)
                      /\ h = Call("send", First(u, 1))
                      /\ f = Call("sendfile", After(u, 1))
                      /\ r = Call("range", After(u, 1))
  OBVIOUS
<1>2. s.op = "send" /\ h.op = "send" /\ f.op = "sendfile" /\ r.op = "range"
  BY DEF Call
<1>3. <<h>> \o <<f>> = <<h, f>> /\ <<h>> \o <<r>> = <<h, r>>
  BY Pair
<1>4. answer \in {<<s>>, <<h>>, <<>>, <<h, f>>, <<h, r>>}
  <2>1. answer \in {<<s>>, <<h>>, <<>>, <<h>> \o <<f>>, <<h>> \o <<r>>}
    BY Zenon DEF Answers, Kinds
  <2> QED BY <1>3, <2>1
<1>5. k \in {"plain", "json"} => answer = <<s>>
  BY Zenon DEF Answers
<1>6. \A i \in DOMAIN answer : answer[i].op \in {"send", "sendfile", "range"}
                               /\ (answer[i].op = "send" => i = 1)
  BY <1>2, <1>4
<1> QED BY <1>5, <1>6, AnswersType

LEMMA ServeCalls ==
  ASSUME TypeInv, SendFirst, NEW r \in Requests, Serve(r)
  PROVE  /\ SendFirst' /\ ~Arming' /\ (WritePending => WritePending') /\ ~Arming
<1> PICK n, k : n = served + 1 /\ k = r.kind
  OBVIOUS
<1>1. n \in 1..MaxRequests /\ k \in Kinds /\ Running("message") /\ TypeOK
  <2>1. /\ input \in Seq(Requests) /\ input # <<>> /\ Len(input) \in Nat \ {0} /\ Len(inbox) \in Nat
    BY EmptySeq, LenProperties DEF Serve, TypeInv, TypeOK
  <2>2. n \in 1..MaxRequests
    BY <2>1, OutputAssumption DEF TypeInv, TypeOK
  <2>3. k \in Kinds
    BY OutputAssumption
  <2> QED BY <2>2, <2>3 DEF TypeInv, Serve
<1> DEFINE close == IF r.close THEN <<Call("close", <<>>)>> ELSE <<>>
<1>2. PICK answer \in Answers(n, k) : calls' = (answer \o close) \o calls
  BY DEF Serve
<1>3. /\ answer \in Seq(CallRec)
      /\ \A i \in DOMAIN answer : answer[i].op = "send" \/ answer[i].op \in {"sendfile", "range"}
      /\ \A i \in DOMAIN answer : answer[i].op = "send" => i = 1
  BY <1>1, AnswersSend
<1>4. close \in Seq(CallRec) /\ \A i \in DOMAIN close : close[i].op = "close"
  <2>1. <<Call("close", <<>>)>> \in Seq(CallRec) /\ Call("close", <<>>).op = "close"
    BY CallType, EmptyType DEF Ops, Call
  <2> QED BY <2>1, EmptyType
<1> HIDE DEF close
<1>5. calls \in Seq(CallRec) /\ \A i \in DOMAIN calls : calls[i].op \notin {"send", "arm", "complete"}
  <2>1. calls \in Seq(CallRec) /\ Head(calls) = calls[1] /\ Head(calls).op = "message"
    BY <1>1, HeadType DEF Running
  <2> QED BY <2>1 DEF SendFirst
<1>a. PICK a : a = answer \o close
  OBVIOUS
<1>6. /\ a \in Seq(CallRec) /\ calls' = a \o calls
      /\ \A i \in DOMAIN a : \/ i \in DOMAIN answer /\ a[i] = answer[i]
                             \/ \E j \in DOMAIN close : a[i] = close[j]
  BY <1>2, <1>3, <1>4, <1>a, ConcatProperties, Elements
<1>7. \A i \in DOMAIN a : a[i].op \notin {"arm", "complete"} /\ (a[i].op = "send" => i = 1)
  BY <1>3, <1>4, <1>6
<1>8. /\ \A i \in DOMAIN calls' : \/ i \in DOMAIN a /\ calls'[i] = a[i]
                                  \/ \E j \in DOMAIN calls : calls'[i] = calls[j]
      /\ \A j \in DOMAIN calls : \E i \in DOMAIN calls' : calls'[i] = calls[j]
      /\ calls' \in Seq(CallRec)
  <2>b. PICK b : b = a \o calls
    OBVIOUS
  <2>1. /\ b \in Seq(CallRec)
        /\ \A i \in DOMAIN b : \/ i \in DOMAIN a /\ b[i] = a[i]
                               \/ \E j \in DOMAIN calls : b[i] = calls[j]
        /\ \A j \in DOMAIN calls : \E i \in DOMAIN b : b[i] = calls[j]
    <3>1. a \in Seq(CallRec) /\ calls \in Seq(CallRec)
      BY <1>5, <1>6
    <3>2. a \o calls \in Seq(CallRec)
      BY <3>1, ConcatProperties
    <3>3. /\ \A i \in DOMAIN (a \o calls) : \/ i \in DOMAIN a /\ (a \o calls)[i] = a[i]
                                            \/ i > Len(a) /\ \E j \in DOMAIN calls : (a \o calls)[i] = calls[j]
          /\ \A j \in DOMAIN calls : \E i \in DOMAIN (a \o calls) : (a \o calls)[i] = calls[j]
      BY <3>1, Elements
    <3> QED BY <3>2, <3>3, <2>b, Zenon
  <2>2. calls' = b
    BY <1>6, <2>b
  <2> QED BY <2>1, <2>2, Zenon
<1>9. \A i \in DOMAIN calls' : calls'[i].op \notin {"arm", "complete"} /\ (calls'[i].op = "send" => i = 1)
  BY <1>5, <1>7, <1>8
<1>10. SendFirst'
  BY <1>9 DEF SendFirst
<1>11. ~Arming'
  <2> SUFFICES ASSUME calls' # <<>> PROVE Head(calls').op # "arm"
    BY DEF Arming, Idle
  <2>1. 1 \in DOMAIN calls' /\ Head(calls') = calls'[1]
    BY <1>8, EmptySeq, LenProperties
  <2> QED BY <1>9, <2>1
<1>12. WritePending => WritePending'
  BY <1>8 DEF WritePending
<1>13. ~Arming
  BY <1>1 DEF Arming, Running
<1> QED BY <1>10, <1>11, <1>12, <1>13

LEMMA ServeKeepsWatch ==
  ASSUME TypeInv, WatchInv, NEW r \in Requests, Serve(r)
  PROVE  WatchInv'
<1>1. SendFirst' /\ ~Arming' /\ (WritePending => WritePending') /\ ~Arming
  BY ServeCalls DEF WatchInv
<1>2. UNCHANGED <<sendBuffer, writing, ready, full>> /\ Free' = Free /\ (Usable' <=> Usable)
  BY DEF Serve, kernelVars, peerVars, Usable, Free
<1> QED BY <1>1, <1>2 DEF WatchInv

LEMMA StepKeepsWatch == TypeInv /\ WatchInv /\ [Next]_vars => WatchInv'
<1> SUFFICES ASSUME TypeInv, WatchInv, [Next]_vars PROVE WatchInv'
  OBVIOUS
<1>1. TypeOK
  BY DEF TypeInv
<1>2. CASE LoopStep
  BY <1>1, <1>2, PollKeepsWatch, ServeKeepsWatch, OthersKeepWatch, SendDirectKeepsWatch,
     SendBehindKeepsWatch, ArmKeepsWatch, WriteBufferedKeepsWatch, FilesKeepWatch DEF LoopStep
<1>3. CASE PeerRead \/ PeerReset \/ \E r \in Requests : PeerAsk(r)
  BY <1>1, <1>3, PeerKeepsWatch
<1>4. CASE UNCHANGED vars
  BY <1>4 DEF WatchInv, SendFirst, Arming, Idle, WritePending, Usable, Free,
              vars, connVars, kernelVars, peerVars, histVars
<1> QED BY <1>2, <1>3, <1>4 DEF Next

(* Between two events EPOLLOUT is watched exactly while sendBuffer holds     *)
(* something, and a socket with room is known to epoll, for every mix of     *)
(* answers and every size (Connection.cpp:99-152, 243-270).                  *)
THEOREM Watched == Spec => []OutputWatched
<1>1. Init => WatchInv
  BY DEF Init, WatchInv, SendFirst, Arming, Idle
<1>2. TypeInv /\ WatchInv => OutputWatched
  <2> SUFFICES ASSUME TypeInv, WatchInv, Usable, Idle
               PROVE  /\ writing <=> sendBuffer # <<>>
                      /\ sendBuffer # <<>> /\ Free > 0 => ready
    BY DEF OutputWatched
  <2>1. ~Arming /\ ~WritePending
    BY DEF Arming, WritePending, Idle
  <2> QED BY <2>1 DEF WatchInv
<1> QED BY <1>1, <1>2, InitTypes, StepTypes, StepKeepsWatch, PTL DEF Spec


-----------------------------------------------------------------------------
(* Messages: the calls.                                                      *)

LEMMA CallsInvEnds ==
  ASSUME TypeOK, SendFirst, CallsInv, NEW op, Running(op), Then(<<>>),
         chunks' = chunks, callback' = callback
  PROVE  CallsInv' /\ DataOf(1)' = <<>>
<1>1. /\ \A i \in DOMAIN calls' : i + 1 \in DOMAIN calls /\ calls'[i] = calls[i + 1]
      /\ DOMAIN calls' \subseteq Nat \ {0}
  BY ThenNone
<1>2. ASSUME NEW i \in DOMAIN calls'
      PROVE  /\ calls'[i].op \notin {"sendfile", "range", "send", "arm", "complete"}
             /\ calls'[i].data = <<>>
  <2>1. i + 1 \in DOMAIN calls /\ calls'[i] = calls[i + 1] /\ i + 1 # 1
    BY <1>1
  <2> QED BY <2>1 DEF SendFirst, CallsInv
<1>3. CallsInv'
  BY <1>2 DEF CallsInv
<1> QED BY <1>2, <1>3 DEF DataOf

LEMMA CallsInvLeads ==
  ASSUME TypeOK, SendFirst, CallsInv, NEW op, Running(op), NEW x \in CallRec, Then(<<x>>),
         chunks' = chunks, callback' = callback, state' = state,
         x.op \notin {"sendfile", "range", "send"}, x.data = <<>>,
         x.op \in {"arm", "complete"} => state = "Connected"
  PROVE  CallsInv' /\ DataOf(1)' = <<>>
<1>1. /\ DOMAIN calls' = DOMAIN calls /\ 1 \in DOMAIN calls /\ calls'[1] = x
      /\ \A i \in DOMAIN calls : i # 1 => calls'[i] = calls[i]
  BY ThenOne
<1>2. ASSUME NEW i \in DOMAIN calls'
      PROVE  /\ calls'[i].op \notin {"sendfile", "range"}
             /\ calls'[i].op # "send" => calls'[i].data = <<>>
             /\ state' = "Closed" => calls'[i].op \notin {"send", "arm", "complete"}
  BY <1>1 DEF CallsInv
<1>3. CallsInv'
  BY <1>2 DEF CallsInv
<1> QED BY <1>1, <1>3 DEF DataOf

LEMMA CallsInvReturns ==
  ASSUME TypeOK, SendFirst, CallsInv, NEW op, Running(op), state = "Connected", Then(CallbackCall),
         chunks' = chunks, callback' = callback, state' = state
  PROVE  CallsInv' /\ DataOf(1)' = <<>>
<1>1. CASE CallbackCall = <<>>
  BY <1>1, CallsInvEnds
<1>2. ASSUME NEW x \in CallRec, x.op = "complete", x.data = <<>>, CallbackCall = <<x>>
      PROVE  CallsInv' /\ DataOf(1)' = <<>>
  BY <1>2, CallsInvLeads
<1> QED BY <1>1, <1>2, CallbackIs

(* The next call is the first one, and its data is what is to be sent.       *)
LEMMA NextCall ==
  ASSUME TypeOK, CallsInv, NEW op, Running(op)
  PROVE  /\ DataOf(1) = Data
         /\ op \notin {"sendfile", "range"}
         /\ op # "send" => Data = <<>>
         /\ op \in {"send", "arm", "complete"} => state = "Connected"
<1>1. 1 \in DOMAIN calls /\ Head(calls) = calls[1] /\ calls[1].op = op
  BY CallsAre DEF Running
<1> QED BY <1>1 DEF CallsInv, DataOf, Data, TypeOK

LEMMA ServeCallsInv ==
  ASSUME TypeInv, SendFirst, CallsInv, MessagesOnly, NEW r \in Requests, Serve(r)
  PROVE  /\ CallsInv' /\ DataOf(1)' = Units(served + 1, r.kind)
         /\ Units(served + 1, r.kind) \in Seq(Unit)
<1>a. PICK n, k : n = served + 1 /\ k = r.kind
  OBVIOUS
<1>1. n \in 1..MaxRequests /\ k \in Kinds /\ k \in {"plain", "json"} /\ Running("message") /\ TypeOK
  <2>1. /\ input \in Seq(Requests) /\ input # <<>> /\ Len(input) \in Nat \ {0} /\ Len(inbox) \in Nat
    BY EmptySeq, LenProperties DEF Serve, TypeInv, TypeOK
  <2>2. n \in 1..MaxRequests
    BY <1>a, <2>1, OutputAssumption DEF TypeInv, TypeOK
  <2>3. k \in {"plain", "json"}
    BY <1>a DEF MessagesOnly
  <2> QED BY <2>2, <2>3 DEF TypeInv, Serve, Kinds
<1> DEFINE close == IF r.close THEN <<Call("close", <<>>)>> ELSE <<>>
<1>2. PICK answer \in Answers(n, k) : calls' = (answer \o close) \o calls
  BY <1>a DEF Serve
<1>s. PICK s : s = Call("send", Units(n, k))
  OBVIOUS
<1>3. /\ answer = <<s>> /\ s \in CallRec /\ s.op = "send" /\ s.data = Units(n, k)
      /\ answer \in Seq(CallRec) /\ Len(answer) = 1 /\ answer[1] = s
      /\ Units(n, k) \in Seq(Unit)
  <2>1. answer = <<s>> /\ Units(n, k) \in Seq(Unit)
    BY <1>1, <1>s, AnswersSend, UnitsType
  <2>2. s \in CallRec /\ s.op = "send" /\ s.data = Units(n, k)
    BY <1>s, <2>1, CallType DEF Ops, Call
  <2> QED BY <2>1, <2>2, Single
<1>4. /\ close \in Seq(CallRec)
      /\ \A i \in DOMAIN close : close[i].op = "close" /\ close[i].data = <<>>
  <2>1. /\ <<Call("close", <<>>)>> \in Seq(CallRec)
        /\ Call("close", <<>>).op = "close" /\ Call("close", <<>>).data = <<>>
    BY CallType, EmptyType DEF Ops, Call
  <2> QED BY <2>1, EmptyType
<1> HIDE DEF close
<1>b. PICK a : a = answer \o close
  OBVIOUS
<1>5. /\ a \in Seq(CallRec) /\ calls' = a \o calls
      /\ \A i \in DOMAIN a : a[i] = s \/ \E j \in DOMAIN close : a[i] = close[j]
      /\ Len(a) \in Nat \ {0} /\ a[1] = s
  <2>1. /\ a \in Seq(CallRec) /\ Len(a) = Len(answer) + Len(close)
        /\ a[1] = answer[1]
    <3>1. /\ answer \o close \in Seq(CallRec) /\ Len(answer \o close) = Len(answer) + Len(close)
          /\ \A i \in 1 .. Len(answer) + Len(close) :
                (answer \o close)[i] = IF i <= Len(answer) THEN answer[i] ELSE close[i - Len(answer)]
      BY <1>3, <1>4, ConcatProperties
    <3>2. Len(close) \in Nat
      BY <1>4, LenProperties
    <3>3. 1 \in 1 .. Len(answer) + Len(close) /\ 1 <= Len(answer)
      BY <1>3, <3>2
    <3>4. (answer \o close)[1] = answer[1]
      BY <3>1, <3>3
    <3> QED BY <1>b, <3>1, <3>4
  <2>2. \A i \in DOMAIN a : \/ i \in DOMAIN answer /\ a[i] = answer[i]
                            \/ \E j \in DOMAIN close : a[i] = close[j]
    <3>1. answer \in Seq(CallRec) /\ close \in Seq(CallRec)
      BY <1>3, <1>4
    <3>2. \A i \in DOMAIN (answer \o close) :
             \/ i \in DOMAIN answer /\ (answer \o close)[i] = answer[i]
             \/ \E j \in DOMAIN close : (answer \o close)[i] = close[j]
      BY <3>1, Elements
    <3> QED BY <1>b, <3>2
  <2>3. DOMAIN answer = {1} /\ Len(close) \in Nat
    BY <1>3, <1>4, LenProperties
  <2> QED BY <1>2, <1>3, <1>b, <2>1, <2>2, <2>3
<1>6. /\ calls \in Seq(CallRec) /\ calls' \in Seq(CallRec)
      /\ \A i \in DOMAIN calls' : \/ i \in DOMAIN a /\ calls'[i] = a[i]
                                  \/ \E j \in DOMAIN calls : calls'[i] = calls[j]
      /\ 1 \in DOMAIN calls' /\ calls'[1] = a[1]
  <2>1. calls \in Seq(CallRec)
    BY <1>1 DEF TypeOK, CallRec
  <2>b. PICK b : b = a \o calls
    OBVIOUS
  <2>2. /\ b \in Seq(CallRec) /\ Len(b) = Len(a) + Len(calls)
        /\ \A i \in 1 .. Len(a) + Len(calls) : b[i] = IF i <= Len(a) THEN a[i] ELSE calls[i - Len(a)]
    BY <1>5, <2>1, <2>b, ConcatProperties
  <2>3. Len(calls) \in Nat /\ DOMAIN b = 1..Len(b)
    BY <2>1, <2>2, LenProperties
  <2>4. 1 \in DOMAIN b /\ b[1] = a[1]
    BY <1>5, <2>2, <2>3
  <2>5. \A i \in DOMAIN b : \/ i \in DOMAIN a /\ b[i] = a[i]
                            \/ \E j \in DOMAIN calls : b[i] = calls[j]
    BY <1>5, <2>1, <2>b, Elements
  <2>6. calls' = b
    BY <1>5, <2>b
  <2> QED BY <2>1, <2>2, <2>4, <2>5, <2>6, Zenon
<1>7. state' = "Connected" /\ state = "Connected" /\ chunks' = <<>> /\ callback' # "chunks"
  <2>1. k # "download" /\ callback # "chunks" /\ chunks = <<>>
    BY <1>1 DEF CallsInv
  <2> QED BY <1>a, <2>1 DEF Serve
<1>8. ASSUME NEW i \in DOMAIN calls'
      PROVE  /\ calls'[i].op \notin {"sendfile", "range"}
             /\ calls'[i].op # "send" => calls'[i].data = <<>>
             /\ state' = "Closed" => calls'[i].op \notin {"send", "arm", "complete"}
  <2>1. \/ calls'[i] = s
        \/ \E j \in DOMAIN close : calls'[i] = close[j]
        \/ \E j \in DOMAIN calls : calls'[i] = calls[j]
    BY <1>5, <1>6
  <2>2. CASE calls'[i] = s
    BY <1>3, <1>7, <2>2
  <2>3. ASSUME NEW j \in DOMAIN close, calls'[i] = close[j]
        PROVE  calls'[i].op = "close" /\ calls'[i].data = <<>>
    BY <1>4, <2>3
  <2>4. ASSUME NEW j \in DOMAIN calls, calls'[i] = calls[j]
        PROVE  /\ calls'[i].op \notin {"sendfile", "range"}
               /\ calls'[i].op # "send" => calls'[i].data = <<>>
    BY <2>4 DEF CallsInv
  <2> QED BY <1>7, <2>1, <2>2, <2>3, <2>4
<1>9. CallsInv'
  BY <1>7, <1>8 DEF CallsInv
<1>10. DataOf(1)' = Units(n, k)
  BY <1>3, <1>5, <1>6 DEF DataOf
<1> QED BY <1>a, <1>3, <1>9, <1>10


-----------------------------------------------------------------------------
(* Messages: the wire.                                                       *)

(* What a sequence begins with. *)
LEMMA Beginning ==
  ASSUME NEW S, NEW a \in Seq(S), NEW c \in Seq(S)
  PROVE  Len(a) <= Len(a \o c) /\ First(a \o c, Len(a)) = a
<1>p. PICK p : p = a \o c
  OBVIOUS
<1>1. /\ p \in Seq(S) /\ Len(p) = Len(a) + Len(c)
      /\ \A i \in 1 .. Len(a) + Len(c) : p[i] = IF i <= Len(a) THEN a[i] ELSE c[i - Len(a)]
  BY <1>p, ConcatProperties
<1>2. Len(a) \in Nat /\ Len(c) \in Nat
  BY LenProperties
<1>3. Len(a) <= Len(p)
  BY <1>1, <1>2
<1>a. PICK n, m : n = Len(a) /\ m = 1
  OBVIOUS
<1>4. n \in Int /\ m \in Int /\ \A i \in m..n : p[i] \in S
  <2>1. \A i \in 1..Len(p) : p[i] \in S
    BY <1>1, ElementOfSeq
  <2> QED BY <1>2, <1>3, <1>a, <2>1
<1>5. /\ SubSeq(p, m, n) \in Seq(S)
      /\ Len(SubSeq(p, m, n)) = IF m <= n THEN n - m + 1 ELSE 0
      /\ \A i \in 1 .. n - m + 1 : SubSeq(p, m, n)[i] = p[m + i - 1]
  BY <1>4, SubSeqProperties
<1>b. PICK f : f = SubSeq(p, m, n)
  OBVIOUS
<1>6. f \in Seq(S) /\ Len(f) = Len(a)
  BY <1>2, <1>5, <1>a, <1>b
<1>7. ASSUME NEW i \in 1..Len(f) PROVE f[i] = a[i]
  <2>1. i \in 1 .. n - m + 1 /\ m + i - 1 = i /\ i \in 1..Len(a) + Len(c) /\ i <= Len(a)
    BY <1>2, <1>6, <1>a
  <2>2. f[i] = p[i]
    BY <1>5, <1>b, <2>1
  <2> QED BY <1>1, <2>1, <2>2
<1>8. f = a
  BY <1>6, <1>7, SeqEqual
<1> QED BY <1>3, <1>8, <1>a, <1>b, <1>p DEF First

LEMMA Appended ==
  ASSUME NEW f \in Seq(Unit), NEW t \in Seq(Unit)
  PROVE  \A c \in Seq(Unit) : (c \o f) \o t = c \o (f \o t)
BY ConcatAssociative, SMTT(60)

(* Appending on the right and on the left. *)
LEMMA Regroup ==
  ASSUME NEW a \in Seq(Unit), NEW b \in Seq(Unit), NEW f \in Seq(Unit), NEW t \in Seq(Unit)
  PROVE  /\ a \o (b \o f) \in Seq(Unit)
         /\ (a \o (b \o f)) \o t = (a \o b) \o (f \o t)
<1>1. a \o b \in Seq(Unit) /\ b \o f \in Seq(Unit) /\ a \o (b \o f) \in Seq(Unit)
  BY ConcatProperties
<1>2. (a \o b) \o f = a \o (b \o f)
  BY ConcatAssociative
<1>3. \A c \in Seq(Unit) : (c \o f) \o t = c \o (f \o t)
  BY Appended, SMTT(60)
<1>4. ((a \o b) \o f) \o t = (a \o b) \o (f \o t)
  BY <1>1, <1>3
<1> QED BY <1>1, <1>2, <1>4, Zenon

LEMMA HeadThenTail ==
  ASSUME NEW S, NEW q \in Seq(S), q # <<>>
  PROVE  <<Head(q)>> \o Tail(q) = q
<1>1. /\ Len(q) \in Nat \ {0} /\ Head(q) = q[1] /\ Head(q) \in S
      /\ Tail(q) \in Seq(S) /\ Len(Tail(q)) = Len(q) - 1
      /\ \A i \in 1 .. Len(Tail(q)) : Tail(q)[i] = q[i + 1]
  BY LenProperties, EmptySeq, HeadTailProperties
<1>a. PICK a, b, c : a = <<Head(q)>> /\ b = Tail(q) /\ c = a \o b
  OBVIOUS
<1>2. a \in Seq(S) /\ Len(a) = 1 /\ a[1] = q[1]
  BY <1>1, <1>a, Single
<1>3. /\ c \in Seq(S) /\ Len(c) = Len(q)
      /\ \A i \in 1 .. Len(q) : c[i] = IF i <= 1 THEN a[i] ELSE b[i - 1]
  <2>1. /\ c \in Seq(S) /\ Len(c) = Len(a) + Len(b)
        /\ \A i \in 1 .. Len(a) + Len(b) : c[i] = IF i <= Len(a) THEN a[i] ELSE b[i - Len(a)]
    BY <1>1, <1>2, <1>a, ConcatProperties
  <2>2. Len(a) + Len(b) = Len(q) /\ Len(a) = 1
    BY <1>1, <1>2, <1>a
  <2> QED BY <2>1, <2>2
<1>4. ASSUME NEW i \in 1..Len(c) PROVE c[i] = q[i]
  <2>1. CASE i <= 1
    <3>1. i = 1
      BY <1>1, <1>3, <2>1
    <3> QED BY <1>1, <1>2, <1>3, <2>1, <3>1
  <2>2. CASE ~(i <= 1)
    <3>1. i - 1 \in 1..Len(Tail(q)) /\ i - 1 + 1 = i
      BY <1>1, <1>3, <2>2
    <3>2. Tail(q)[i - 1] = q[i]
      BY <1>1, <3>1
    <3> QED BY <1>3, <1>a, <2>2, <3>2
  <2> QED BY <2>1, <2>2
<1>5. c = q
  BY <1>3, <1>4, SeqEqual
<1> QED BY <1>5, <1>a

LEMMA WireTypes ==
  ASSUME TypeOK
  PROVE  /\ received \in Seq(Unit) /\ sock \in Seq(Unit) /\ sendBuffer \in Seq(Unit)
         /\ promised \in Seq(Unit) /\ DataOf(1) \in Seq(Unit) /\ received \o sock \in Seq(Unit)
<1>1. DataOf(1) \in Seq(Unit)
  BY CallsAre DEF DataOf, CallRec
<1> QED BY <1>1, ConcatProperties DEF TypeOK

(* Nothing moves on the wire, and what is to be sent stays.                  *)
LEMMA WireStays ==
  ASSUME WireInv, UNCHANGED <<received, sock, promised>>,
         Usable' => Usable /\ sendBuffer' \o DataOf(1)' = sendBuffer \o DataOf(1)
  PROVE  WireInv'
BY DEF WireInv

(* Something moves: the new equation gives the new beginning.                *)
LEMMA WireMoves ==
  ASSUME TypeOK, NEW w \in Seq(Unit), NEW t \in Seq(Unit), w \o t = promised', received' \o sock' = w,
         Usable' => sendBuffer' \o DataOf(1)' = t
  PROVE  WireInv'
<1>1. Len(w) <= Len(promised') /\ First(promised', Len(w)) = w
  <2>1. Len(w) <= Len(w \o t) /\ First(w \o t, Len(w)) = w
    BY Beginning
  <2> QED BY <2>1
<1> QED BY <1>1 DEF WireInv

LEMMA PeerKeepsWire ==
  ASSUME TypeOK, TypeOK', CallsInv, WireInv, PeerRead \/ PeerReset \/ \E r \in Requests : PeerAsk(r)
  PROVE  CallsInv' /\ WireInv'
<1> USE DEF connVars, kernelVars, peerVars, histVars
<1>1. UNCHANGED <<calls, chunks, callback, state, sendBuffer, alive, promised>>
  BY DEF PeerRead, PeerReset, PeerAsk
<1>2. CallsInv' /\ DataOf(1)' = DataOf(1)
  BY <1>1 DEF CallsInv, DataOf
<1>3. CASE PeerRead
  <2>1. /\ sock # <<>> /\ sock \in Seq(Unit) /\ received \in Seq(Unit)
        /\ received' = Append(received, Head(sock)) /\ sock' = Tail(sock)
    BY <1>3, WireTypes DEF PeerRead
  <2>2. Head(sock) \in Unit /\ Tail(sock) \in Seq(Unit)
    BY <2>1, HeadTailProperties
  <2>3. /\ Append(received, Head(sock)) = received \o <<Head(sock)>>
        /\ <<Head(sock)>> \in Seq(Unit) /\ <<Head(sock)>> \o Tail(sock) = sock
    BY <2>1, <2>2, AppendIsConcat, HeadThenTail, Single
  <2>4. received' \o sock' = received \o sock
    BY <2>1, <2>2, <2>3, ConcatAssociative
  <2>5. Usable' => Usable /\ sendBuffer' \o DataOf(1)' = sendBuffer \o DataOf(1)
    BY <1>1, <1>2, <1>3 DEF PeerRead, Usable
  <2> QED BY <1>1, <1>2, <2>4, <2>5 DEF WireInv
<1>4. CASE PeerReset
  <2>1. received' = received /\ sock' = <<>> /\ ~Usable'
    BY <1>4 DEF PeerReset, Usable
  <2>w. PICK w : w = received \o sock
    OBVIOUS
  <2>2. w \in Seq(Unit) /\ Len(w) \in Nat /\ Len(w) <= Len(promised) /\ First(promised, Len(w)) = w
    BY <2>w, WireTypes, LenProperties DEF WireInv
  <2>r. PICK rest : rest = After(promised, Len(w))
    OBVIOUS
  <2>3. rest \in Seq(Unit) /\ w \o rest = promised
    BY <2>2, <2>r, WireTypes, Cut
  <2>4. sock \o rest \in Seq(Unit) /\ received \o (sock \o rest) = promised
    <3>1. sock \in Seq(Unit) /\ received \in Seq(Unit)
      BY WireTypes
    <3>2. (received \o sock) \o rest = received \o (sock \o rest)
      BY <2>3, <3>1, ConcatAssociative
    <3>3. sock \o rest \in Seq(Unit)
      BY <2>3, <3>1, ConcatProperties
    <3> QED BY <2>3, <2>w, <3>2, <3>3
  <2>5. received' \o sock' = received
    BY <2>1, WireTypes, ConcatEmptySeq
  <2> QED BY <1>1, <1>2, <2>1, <2>4, <2>5, WireTypes, WireMoves
<1>5. ASSUME NEW r \in Requests, PeerAsk(r) PROVE CallsInv' /\ WireInv'
  <2>1. UNCHANGED <<received, sock>> /\ (Usable' => Usable)
    BY <1>5 DEF PeerAsk, Usable
  <2> QED BY <1>1, <1>2, <2>1, WireStays
<1> QED BY <1>3, <1>4, <1>5


(* Steps that send nothing. *)
LEMMA QuietKeepsWire ==
  ASSUME TypeOK, SendFirst, CallsInv, WireInv,
         Poll \/ ReadInput \/ ReadFails \/ MessageDone \/ CloseConnection \/ NothingToWrite
           \/ Arm \/ WriteFails \/ WriteRaises \/ HalfClose
  PROVE  CallsInv' /\ WireInv'
<1> USE DEF connVars, kernelVars, peerVars, histVars
<1>1. UNCHANGED <<received, sock, promised, sendBuffer, chunks, callback>>
  BY DEF Poll, ReadInput, ReadFails, MessageDone, CloseConnection, NothingToWrite, Arm,
         WriteFails, WriteRaises, HalfClose
<1>2. CASE Poll
  <2>a. PICK r, w : r = Call("read", <<>>) /\ w = Call("write", <<>>)
    OBVIOUS
  <2>1. /\ r.op = "read" /\ w.op = "write" /\ r.data = <<>> /\ w.data = <<>>
    BY <2>a DEF Call
  <2>2. calls' \in {<<>>, <<r>>, <<w>>, <<r, w>>}
    BY <1>2, <2>a, PollCalls
  <2>3. \A i \in DOMAIN calls' : calls'[i].op \in {"read", "write"} /\ calls'[i].data = <<>>
    BY <2>1, <2>2
  <2>4. CallsInv' /\ DataOf(1)' = <<>>
    BY <1>1, <2>3 DEF CallsInv, DataOf
  <2>5. DataOf(1) = <<>> /\ (Usable' => Usable)
    BY <1>2 DEF Poll, Idle, DataOf, Usable
  <2> QED BY <1>1, <2>4, <2>5, WireStays
<1>3. CASE ReadInput
  <2>1. Call("message", <<>>) \in CallRec /\ Call("message", <<>>).op = "message"
        /\ Call("message", <<>>).data = <<>>
    BY CallType, EmptyType DEF Ops, Call
  <2>2. CallsInv' /\ DataOf(1)' = <<>>
    BY <1>1, <1>3, <2>1, CallsInvLeads DEF ReadInput
  <2>3. DataOf(1) = <<>> /\ (Usable' => Usable)
    BY <1>3, NextCall DEF ReadInput, Usable
  <2> QED BY <1>1, <2>2, <2>3, WireStays
<1>4. CASE ReadFails \/ CloseConnection
  <2>1. CallsInv' /\ ~Usable'
    BY <1>1, <1>4, CallsInvEnds DEF ReadFails, CloseConnection, Usable
  <2> QED BY <1>1, <2>1, WireStays
<1>5. CASE WriteFails
  <2>1. CallsInv' /\ ~Usable'
    BY <1>1, <1>5, CallsInvEnds DEF WriteFails, AboutToWrite, Usable
  <2> QED BY <1>1, <2>1, WireStays
<1>6. CASE WriteRaises
  <2>1. CallsInv' /\ ~Usable'
    BY <1>1, <1>6 DEF WriteRaises, Usable, CallsInv
  <2> QED BY <1>1, <2>1, WireStays
<1>7. CASE MessageDone \/ NothingToWrite \/ Arm \/ HalfClose
  <2>1. PICK op \in {"message", "write", "arm", "complete"} : Running(op)
    BY <1>7 DEF MessageDone, NothingToWrite, Arm, HalfClose
  <2>2. CallsInv' /\ DataOf(1)' = <<>>
    BY <1>1, <1>7, <2>1, CallsInvEnds DEF MessageDone, NothingToWrite, Arm, HalfClose
  <2>3. DataOf(1) = <<>>
    BY <2>1, NextCall
  <2>4. Usable' => Usable
    BY <1>7 DEF MessageDone, NothingToWrite, Arm, HalfClose, Usable
  <2> QED BY <1>1, <2>2, <2>3, <2>4, WireStays
<1> QED BY <1>2, <1>3, <1>4, <1>5, <1>6, <1>7

LEMMA NoFiles ==
  ASSUME TypeOK, CallsInv
  PROVE  ~SendFile /\ ~SendFileRange /\ ~Continue
BY NextCall DEF SendFile, SendFileRange, Continue, CallsInv

(* An answer is promised and handed to Send. *)
LEMMA ServeKeepsWire ==
  ASSUME TypeInv, SendFirst, CallsInv, WireInv, MessagesOnly, NEW r \in Requests, Serve(r)
  PROVE  CallsInv' /\ WireInv'
<1>u. PICK u : u = Units(served + 1, r.kind)
  OBVIOUS
<1>1. CallsInv' /\ DataOf(1)' = u /\ u \in Seq(Unit) /\ TypeOK
  BY <1>u, ServeCallsInv DEF TypeInv
<1>2. /\ promised' = promised \o u /\ UNCHANGED <<received, sock, sendBuffer>> /\ (Usable' => Usable)
      /\ Running("message")
  BY <1>u DEF Serve, kernelVars, peerVars, Usable
<1>3. DataOf(1) = <<>>
  BY <1>1, <1>2, NextCall
<1>w. PICK w : w = received \o sock
  OBVIOUS
<1>4. w \in Seq(Unit) /\ sendBuffer \in Seq(Unit) /\ promised \in Seq(Unit)
  BY <1>1, <1>w, WireTypes
<1>5. Len(w) \in Nat /\ Len(w) <= Len(promised) /\ First(promised, Len(w)) = w
  BY <1>4, <1>w, LenProperties DEF WireInv
<1>r. PICK rest : rest = After(promised, Len(w))
  OBVIOUS
<1>6. rest \in Seq(Unit) /\ w \o rest = promised
  BY <1>4, <1>5, <1>r, Cut
<1>7. rest \o u \in Seq(Unit) /\ w \o (rest \o u) = promised'
  <2>1. rest \in Seq(Unit) /\ u \in Seq(Unit)
    BY <1>1, <1>6
  <2>2. rest \o u \in Seq(Unit)
    BY <2>1, ConcatProperties
  <2>3. (w \o rest) \o u = w \o (rest \o u)
    BY <1>4, <2>1, ConcatAssociative
  <2> QED BY <1>2, <1>6, <2>2, <2>3
<1>8. ASSUME Usable' PROVE sendBuffer' \o DataOf(1)' = rest \o u
  <2>1. w \o (sendBuffer \o DataOf(1)) = promised
    BY <1>2, <1>8, <1>w DEF WireInv
  <2>2. w \o sendBuffer = promised
    BY <1>3, <1>4, <2>1, ConcatEmptySeq
  <2>3. sendBuffer = rest
    BY <1>4, <1>6, <2>2, ConcatSimplifications
  <2> QED BY <1>1, <1>2, <2>3
<1>9. received' \o sock' = w
  BY <1>2, <1>w
<1> QED BY <1>1, <1>4, <1>7, <1>8, <1>9, WireMoves

(* What the socket takes leaves the front of what is to be sent. *)
LEMMA Sent ==
  ASSUME TypeOK, TypeOK', NEW q \in Seq(Unit), NEW t \in Seq(Unit)
  PROVE  /\ (received \o sock) \o q = promised /\ Writes(q) /\ UNCHANGED <<received, promised>>
         /\ t = After(q, Least(Len(q), Free))
         /\ Usable' => sendBuffer' \o DataOf(1)' = t
         => WireInv'
<1>h. SUFFICES ASSUME (received \o sock) \o q = promised, Writes(q), UNCHANGED <<received, promised>>,
                      t = After(q, Least(Len(q), Free)),
                      Usable' => sendBuffer' \o DataOf(1)' = t
               PROVE  WireInv'
  OBVIOUS
<1>k. PICK k : k = Least(Len(q), Free)
  OBVIOUS
<1>1. k \in Nat /\ k <= Len(q)
  BY <1>k, CutType
<1>f. PICK f : f = First(q, k)
  OBVIOUS
<1>2. f \in Seq(Unit) /\ f \o t = q /\ sock' = sock \o f
  BY <1>h, <1>1, <1>k, <1>f, Cut DEF Writes
<1>3. received \in Seq(Unit) /\ sock \in Seq(Unit) /\ f \in Seq(Unit)
  BY <1>2, WireTypes
<1>w. PICK w : w = received \o (sock \o f)
  OBVIOUS
<1>4. ASSUME NEW r \in Seq(Unit), NEW s \in Seq(Unit), NEW g \in Seq(Unit)
      PROVE  /\ r \o (s \o g) \in Seq(Unit)
             /\ (r \o (s \o g)) \o t = (r \o s) \o (g \o t)
  BY Regroup, SMTT(60)
<1>a. /\ received \o (sock \o f) \in Seq(Unit)
      /\ (received \o (sock \o f)) \o t = (received \o sock) \o (f \o t)
  BY <1>3, <1>4
<1>5. w \in Seq(Unit) /\ w \o t = promised'
  BY <1>h, <1>2, <1>a, <1>w
<1>6. received' \o sock' = w
  BY <1>h, <1>2, <1>w
<1> QED BY <1>h, <1>5, <1>6, WireMoves

LEMMA SendKeepsWire ==
  ASSUME TypeOK, TypeOK', SendFirst, CallsInv, WireInv, SendDirect \/ SendBehind \/ WriteBuffered,
         Usable' => Usable
  PROVE  CallsInv' /\ WireInv'
<1>1. /\ received \in Seq(Unit) /\ sock \in Seq(Unit) /\ sendBuffer \in Seq(Unit)
      /\ DataOf(1) \in Seq(Unit)
  BY WireTypes
<1>2. CASE SendDirect
  <2>1. /\ Running("send") /\ Usable /\ sendBuffer = <<>> /\ Writes(Data)
        /\ UNCHANGED <<received, promised, chunks, callback, state>>
    <3>1. Running("send") /\ ~reset
      BY <1>2 DEF SendDirect
    <3>2. state = "Connected" /\ alive
      BY <3>1, NextCall DEF Running
    <3> QED BY <1>2, <3>1, <3>2 DEF SendDirect, Usable, peerVars, histVars
  <2>2. Data = DataOf(1) /\ state = "Connected" /\ Data \in Seq(Unit)
    BY <1>1, <2>1, NextCall
  <2>3. (received \o sock) \o Data = promised
    <3>1. (received \o sock) \o (<<>> \o Data) = promised
      BY <2>1, <2>2 DEF WireInv
    <3> QED BY <2>2, <3>1, ConcatEmptySeq
  <2>t. PICK t : t = After(Data, Least(Len(Data), Free))
    OBVIOUS
  <2>4. t \in Seq(Unit)
    BY <2>2, <2>t, CutType
  <2>5. CallsInv' /\ DataOf(1)' = <<>> /\ sendBuffer' = t
    <3>1. CASE Len(Data) <= Free
      <4>1. CallsInv' /\ DataOf(1)' = <<>>
        BY <1>2, <2>1, <2>2, <3>1, CallsInvReturns DEF SendDirect
      <4>2. sendBuffer' = <<>> /\ t = <<>>
        BY <1>2, <2>1, <2>2, <2>t, <3>1, NothingRemains DEF SendDirect
      <4> QED BY <4>1, <4>2
    <3>2. CASE ~(Len(Data) <= Free)
      <4>1. /\ Call("arm", <<>>) \in CallRec /\ Call("arm", <<>>).op = "arm"
            /\ Call("arm", <<>>).data = <<>>
        BY CallType, EmptyType DEF Ops, Call
      <4>2. CallsInv' /\ DataOf(1)' = <<>>
        BY <1>2, <2>1, <2>2, <3>2, <4>1, CallsInvLeads DEF SendDirect
      <4>3. Least(Len(Data), Free) = Free
        BY <3>2 DEF Least
      <4>4. sendBuffer' = t
        BY <1>2, <2>t, <3>2, <4>3 DEF SendDirect
      <4> QED BY <4>2, <4>4
    <3> QED BY <3>1, <3>2
  <2>6. sendBuffer' \o DataOf(1)' = t
    BY <2>4, <2>5, ConcatEmptySeq
  <2>7. WireInv'
    BY <2>1, <2>2, <2>3, <2>4, <2>6, <2>t, Sent
  <2> QED BY <2>5, <2>7
<1>3. CASE SendBehind
  <2>1. /\ Running("send") /\ sendBuffer' = sendBuffer \o Data
        /\ UNCHANGED <<received, promised, sock, chunks, callback, state>>
    BY <1>3 DEF SendBehind, peerVars, histVars, kernelVars
  <2>2. Data = DataOf(1) /\ state = "Connected" /\ Data \in Seq(Unit)
    BY <1>1, <2>1, NextCall
  <2>3. /\ Call("arm", <<>>) \in CallRec /\ Call("arm", <<>>).op = "arm"
        /\ Call("arm", <<>>).data = <<>>
    BY CallType, EmptyType DEF Ops, Call
  <2>4. CallsInv' /\ DataOf(1)' = <<>>
    BY <1>3, <2>1, <2>2, <2>3, CallsInvLeads DEF SendBehind
  <2>5. sendBuffer' \in Seq(Unit)
    BY WireTypes DEF TypeOK
  <2>6. sendBuffer' \o DataOf(1)' = sendBuffer \o DataOf(1)
    BY <2>1, <2>2, <2>4, <2>5, ConcatEmptySeq
  <2>7. WireInv'
    BY <2>1, <2>6, WireStays
  <2> QED BY <2>4, <2>7
<1>4. CASE WriteBuffered
  <2>1. /\ Running("write") /\ Usable /\ Writes(sendBuffer)
        /\ sendBuffer' = After(sendBuffer, Least(Len(sendBuffer), Free))
        /\ UNCHANGED <<received, promised, chunks, callback, state>>
    BY <1>4 DEF WriteBuffered, Running, Usable, peerVars, histVars
  <2>2. DataOf(1) = <<>> /\ state = "Connected"
    BY <2>1, NextCall DEF Usable
  <2>3. (received \o sock) \o sendBuffer = promised
    <3>1. (received \o sock) \o (sendBuffer \o <<>>) = promised
      BY <2>1, <2>2 DEF WireInv
    <3> QED BY <1>1, <3>1, ConcatEmptySeq
  <2>4. sendBuffer' \in Seq(Unit)
    BY <1>1, <2>1, CutType
  <2>5. CallsInv' /\ DataOf(1)' = <<>>
    <3>1. Then(CallbackCall) \/ Then(<<>>)
      BY <1>4 DEF WriteBuffered
    <3> QED BY <2>1, <2>2, <3>1, CallsInvReturns, CallsInvEnds
  <2>6. sendBuffer' \o DataOf(1)' = sendBuffer'
    BY <2>4, <2>5, ConcatEmptySeq
  <2>7. WireInv'
    BY <1>1, <2>1, <2>3, <2>4, <2>6, Sent
  <2> QED BY <2>5, <2>7
<1> QED BY <1>2, <1>3, <1>4


LEMMA StepKeepsStream ==
  ASSUME TypeInv, TypeInv', WatchInv, MessagesOnly, CallsInv, WireInv, [Next]_vars
  PROVE  CallsInv' /\ WireInv'
<1> USE DEF connVars, kernelVars, peerVars, histVars
<1>1. TypeOK /\ TypeOK' /\ SendFirst
  BY DEF TypeInv, WatchInv
<1>2. CASE Poll \/ ReadInput \/ ReadFails \/ MessageDone \/ CloseConnection \/ NothingToWrite
             \/ Arm \/ WriteFails \/ WriteRaises \/ HalfClose
  BY <1>1, <1>2, QuietKeepsWire
<1>3. CASE SendFile \/ SendFileRange \/ Continue
  BY <1>1, <1>3, NoFiles
<1>4. CASE \E r \in Requests : Serve(r)
  BY <1>1, <1>4, ServeKeepsWire
<1>5. CASE SendDirect \/ SendBehind \/ WriteBuffered
  <2>1. Usable' => Usable
    BY <1>5 DEF SendDirect, SendBehind, WriteBuffered, Usable
  <2> QED BY <1>1, <1>5, <2>1, SendKeepsWire
<1>6. CASE PeerRead \/ PeerReset \/ \E r \in Requests : PeerAsk(r)
  BY <1>1, <1>6, PeerKeepsWire
<1>7. CASE UNCHANGED vars
  <2>1. UNCHANGED <<calls, chunks, callback, state, alive, reset, received, sock, promised, sendBuffer>>
    BY <1>7 DEF vars
  <2>2. CallsInv' /\ DataOf(1)' = DataOf(1) /\ (Usable' => Usable)
    BY <2>1 DEF CallsInv, DataOf, Usable
  <2> QED BY <2>1, <2>2, WireStays
<1> QED BY <1>2, <1>3, <1>4, <1>5, <1>6, <1>7 DEF Next, LoopStep

LEMMA InitStream == Init => CallsInv /\ WireInv
<1> SUFFICES ASSUME Init PROVE CallsInv /\ WireInv
  OBVIOUS
<1>1. CallsInv
  BY DEF Init, CallsInv
<1>2. received = <<>> /\ sock = <<>> /\ sendBuffer = <<>> /\ promised = <<>> /\ DataOf(1) = <<>>
  BY DEF Init, DataOf
<1>3. <<>> \in Seq(Unit) /\ <<>> \o <<>> = <<>>
  BY EmptyType, ConcatEmptySeq
<1>4. (<<>> \o <<>>) \o (<<>> \o <<>>) = <<>>
  BY <1>3
<1>5. Len(<<>>) <= Len(<<>>) /\ First(<<>>, Len(<<>>)) = <<>>
  <2>1. Len(<<>>) <= Len(<<>> \o <<>>) /\ First(<<>> \o <<>>, Len(<<>>)) = <<>>
    BY <1>3, Beginning
  <2> QED BY <1>3, <2>1
<1> QED BY <1>1, <1>2, <1>3, <1>4, <1>5 DEF WireInv

(* With messages alone, one Send at most is pending, and it is the next call. *)
LEMMA NothingElsePending ==
  ASSUME TypeOK, SendFirst, CallsInv
  PROVE  chunks = <<>> /\ DataOf(2) = <<>>
<1>1. CASE 2 \in DOMAIN calls
  <2>1. calls[2].op \in {"send", "arm", "complete"} => 2 = 1
    BY <1>1 DEF SendFirst
  <2>2. calls[2].op # "send"
    BY <2>1
  <2> QED BY <1>1, <2>2 DEF CallsInv, DataOf
<1>2. CASE 2 \notin DOMAIN calls
  BY <1>2 DEF CallsInv, DataOf
<1> QED BY <1>1, <1>2

LEMMA ExactNow ==
  ASSUME TypeOK, SendFirst, CallsInv, WireInv
  PROVE  AnswersExact
<1> SUFFICES ASSUME Usable
             PROVE  ((((received \o sock) \o sendBuffer) \o DataOf(1)) \o DataOf(2)) \o chunks = promised
  BY DEF AnswersExact
<1>w. PICK w : w = received \o sock
  OBVIOUS
<1>d. PICK d : d = DataOf(1)
  OBVIOUS
<1>1. sendBuffer \in Seq(Unit) /\ d \in Seq(Unit) /\ promised \in Seq(Unit)
  BY <1>d, WireTypes
<1>2. w \in Seq(Unit)
  BY <1>w, WireTypes, ConcatProperties
<1>3. (w \o sendBuffer) \o d = w \o (sendBuffer \o d)
  BY <1>1, <1>2, ConcatAssociative
<1>4. w \o (sendBuffer \o d) = promised
  BY <1>w, <1>d DEF WireInv
<1>5. ((received \o sock) \o sendBuffer) \o DataOf(1) = promised
  BY <1>w, <1>d, <1>3, <1>4
<1>6. (promised \o <<>>) \o <<>> = promised
  BY <1>1, ConcatEmptySeq
<1> QED BY <1>5, <1>6, NothingElsePending

LEMMA InitWatch == Init => WatchInv
BY DEF Init, WatchInv, SendFirst, Arming, Idle

(* Every answer is accounted for, unit by unit and in order: received, in    *)
(* the socket, in sendBuffer or in the Send still to be run                  *)
(* (Connection.cpp:99-152, 243-270), when all answers are messages.          *)
THEOREM MessagesExact ==
  ASSUME MessagesOnly
  PROVE  Spec => []AnswersExact
<1> DEFINE Inv == TypeInv /\ WatchInv /\ CallsInv /\ WireInv
<1>1. Init => Inv
  BY InitTypes, InitWatch, InitStream
<1>2. Inv /\ [Next]_vars => Inv'
  BY StepTypes, StepKeepsWatch, StepKeepsStream
<1>3. Inv => AnswersExact
  BY ExactNow DEF TypeInv, WatchInv
<1> QED BY <1>1, <1>2, <1>3, PTL DEF Spec

LEMMA HalfCloseDone ==
  ASSUME TypeOK, CallsInv, WireInv, [Next]_vars
  PROVE  [~shutWr /\ shutWr' /\ ~reset => received \o sock = promised]_vars
<1> SUFFICES ASSUME ~shutWr, shutWr', ~reset
             PROVE  received \o sock = promised
  OBVIOUS
<1> USE DEF connVars, kernelVars, peerVars, histVars
<1>1. HalfClose
  BY DEF Next, LoopStep, Poll, ReadInput, ReadFails, Serve, MessageDone, CloseConnection, SendDirect,
         SendBehind, Arm, WriteBuffered, NothingToWrite, SendFile, SendFileRange, WriteFails,
         WriteRaises, Continue, PeerRead, PeerReset, PeerAsk, vars
<1>2. Running("complete") /\ sendBuffer = <<>>
  BY <1>1 DEF HalfClose
<1>3. DataOf(1) = <<>> /\ Usable
  BY <1>2, NextCall DEF Usable, Running
<1>w. PICK w : w = received \o sock
  OBVIOUS
<1>4. w \in Seq(Unit)
  BY <1>w, WireTypes, ConcatProperties
<1>5. w \o (<<>> \o <<>>) = promised
  BY <1>w, <1>2, <1>3 DEF WireInv
<1>6. w \o (<<>> \o <<>>) = w
  BY <1>4, EmptyType, ConcatEmptySeq
<1> QED BY <1>w, <1>5, <1>6

(* The server half-closes only after the last unit of every answer went to   *)
(* the socket (Connection.cpp:324-334), when all answers are messages.       *)
THEOREM MessagesBeforeHalfClose ==
  ASSUME MessagesOnly
  PROVE  Spec => HalfCloseOnlyWhenDone
<1> DEFINE Inv == TypeInv /\ WatchInv /\ CallsInv /\ WireInv
<1>1. Init => Inv
  BY InitTypes, InitWatch, InitStream
<1>2. Inv /\ [Next]_vars => Inv'
  BY StepTypes, StepKeepsWatch, StepKeepsStream
<1>3. Inv /\ [Next]_vars => [~shutWr /\ shutWr' /\ ~reset => received \o sock = promised]_vars
  BY HalfCloseDone DEF TypeInv
<1> QED BY <1>1, <1>2, <1>3, PTL DEF Spec, HalfCloseOnlyWhenDone

-----------------------------------------------------------------------------
(* Messages: the stream the peer reads.                                      *)

LEMMA AnswerNotEmpty ==
  ASSUME TypeInv, NEW r \in Requests, Serve(r)
  PROVE  Units(served + 1, r.kind) \in Seq(Unit) /\ Len(Units(served + 1, r.kind)) > 0
<1>n. PICK n : n = served + 1
  OBVIOUS
<1>1. /\ input \in Seq(Requests) /\ input # <<>> /\ Len(input) \in Nat /\ Len(inbox) \in Nat
  BY LenProperties DEF Serve, TypeInv, TypeOK
<1>2. n \in 1..MaxRequests /\ r.kind \in Kinds
  BY <1>1, <1>n, EmptySeq, OutputAssumption DEF TypeInv, TypeOK
<1>k. PICK k : k = r.kind
  OBVIOUS
<1>3. Units(n, k) \in Seq(Unit)
  BY <1>2, <1>k, UnitsType
<1>4. Len(Units(n, k)) = Size[k] /\ Size[k] \in Nat \ {0}
  <2>1. Size[k] \in Nat \ {0}
    BY <1>2, <1>k, OutputAssumption
  <2> QED BY <2>1 DEF Units
<1> QED BY <1>n, <1>k, <1>3, <1>4

LEMMA PromiseStep ==
  ASSUME TypeInv, NEW r \in Requests, Serve(r)
  PROVE  Stream!Promise
<1>u. PICK u : u = Units(served + 1, r.kind)
  OBVIOUS
<1>1. promised' = promised \o u /\ received' = received
  BY <1>u DEF Serve, peerVars
<1>2. u \in Seq(Unit) /\ Len(u) > 0 /\ promised \in Seq(Unit)
  BY <1>u, AnswerNotEmpty, WireTypes DEF TypeInv
<1>3. Len(promised \o u) > Len(promised)
  <2>1. Len(promised \o u) = Len(promised) + Len(u)
    BY <1>2, ConcatProperties
  <2> QED BY <1>2, <2>1, LenProperties
<1>4. First(promised \o u, Len(promised)) = promised
  BY <1>2, Beginning
<1> QED BY <1>1, <1>3, <1>4 DEF Stream!Promise, First

LEMMA DeliverStep ==
  ASSUME TypeOK, WireInv, PeerRead
  PROVE  Stream!Deliver
<1>1. /\ received \in Seq(Unit) /\ sock \in Seq(Unit) /\ promised \in Seq(Unit) /\ sock # <<>>
      /\ received' = Append(received, Head(sock)) /\ promised' = promised
  BY WireTypes DEF PeerRead, histVars
<1>w. PICK w : w = received \o sock
  OBVIOUS
<1>n. PICK n : n = Len(received) + 1
  OBVIOUS
<1>2. /\ n \in Nat /\ n >= 1 /\ n <= Len(w) /\ w[n] = sock[1] /\ Head(sock) = sock[1]
  <2>1. Len(sock) \in Nat /\ Len(sock) > 0 /\ Len(received) \in Nat
    BY <1>1, EmptySeq, LenProperties
  <2>2. Len(w) = Len(received) + Len(sock)
    BY <1>1, <1>w, ConcatProperties
  <2>3. w[n] = sock[1]
    BY <1>1, <1>w, <1>n, <2>1
  <2>4. Head(sock) = sock[1]
    BY <1>1
  <2> QED BY <1>n, <2>1, <2>2, <2>3, <2>4
<1>3. Len(w) <= Len(promised) /\ First(promised, Len(w)) = w
  BY <1>w DEF WireInv
<1>4. w[n] = promised[n]
  BY <1>1, <1>2, <1>3, LenProperties DEF First
<1>5. Len(received) < Len(promised)
  BY <1>1, <1>n, <1>2, <1>3, LenProperties
<1> QED BY <1>1, <1>2, <1>4, <1>5, <1>n DEF Stream!Deliver

LEMMA StreamStep ==
  ASSUME TypeInv, WireInv, [Next]_vars
  PROVE  [Stream!Promise \/ Stream!Deliver]_(Stream!svars)
<1> USE DEF connVars, kernelVars, peerVars, histVars
<1>1. CASE PeerRead
  BY <1>1, DeliverStep DEF TypeInv
<1>2. CASE \E r \in Requests : Serve(r)
  BY <1>2, PromiseStep
<1>3. CASE UNCHANGED vars
  BY <1>3 DEF vars, Stream!svars
<1>4. CASE ~PeerRead /\ ~(\E r \in Requests : Serve(r)) /\ Next
  <2>1. UNCHANGED <<promised, received>>
    BY <1>4 DEF Next, LoopStep, Poll, ReadInput, ReadFails, MessageDone, CloseConnection, SendDirect,
         SendBehind, Arm, WriteBuffered, NothingToWrite, SendFile, SendFileRange, WriteFails,
         WriteRaises, Continue, HalfClose, PeerReset, PeerAsk
  <2> QED BY <2>1 DEF Stream!svars
<1> QED BY <1>1, <1>2, <1>3, <1>4

(* The output side delivers what it promised, in order and without a gap,    *)
(* when all answers are messages (Connection.cpp:99-152, 243-270).           *)
THEOREM MessagesImplementStream ==
  ASSUME MessagesOnly
  PROVE  Spec => ImplementsStreamSafety
<1> DEFINE Inv == TypeInv /\ WatchInv /\ CallsInv /\ WireInv
<1>1. Init => Inv
  BY InitTypes, InitWatch, InitStream
<1>2. Inv /\ [Next]_vars => Inv'
  BY StepTypes, StepKeepsWatch, StepKeepsStream
<1>3. Init => Stream!StreamInit
  BY DEF Init, Stream!StreamInit
<1>4. Inv /\ [Next]_vars => [Stream!Promise \/ Stream!Deliver]_(Stream!svars)
  BY StreamStep
<1> QED BY <1>1, <1>2, <1>3, <1>4, PTL DEF Spec, ImplementsStreamSafety, Stream!StreamSafety

LEMMA InOrderNow ==
  ASSUME TypeOK, WireInv
  PROVE  ReceivedInOrder
<1>w. PICK w : w = received \o sock
  OBVIOUS
<1>1. received \in Seq(Unit) /\ sock \in Seq(Unit) /\ promised \in Seq(Unit)
  BY WireTypes
<1>2. Len(w) <= Len(promised) /\ First(promised, Len(w)) = w
  BY <1>w DEF WireInv
<1>3. ASSUME NEW i \in DOMAIN received PROVE received[i] = promised[i]
  <2>1. i \in Nat /\ i >= 1 /\ i <= Len(received) /\ Len(received) \in Nat /\ Len(sock) \in Nat
    BY <1>1, LenProperties
  <2>2. Len(w) = Len(received) + Len(sock) /\ w[i] = received[i]
    BY <1>1, <1>w, <2>1, ConcatProperties
  <2>3. i <= Len(w)
    BY <2>1, <2>2
  <2>4. w[i] = promised[i]
    BY <1>1, <1>2, <2>1, <2>3, LenProperties DEF First
  <2> QED BY <2>2, <2>4
<1> QED BY <1>3 DEF ReceivedInOrder

(* The peer reads the answers in the order of its requests                   *)
(* (HttpServer.cpp:61), when all answers are messages.                       *)
THEOREM MessagesInOrder ==
  ASSUME MessagesOnly
  PROVE  Spec => []ReceivedInOrder
<1> DEFINE Inv == TypeInv /\ WatchInv /\ CallsInv /\ WireInv
<1>1. Init => Inv
  BY InitTypes, InitWatch, InitStream
<1>2. Inv /\ [Next]_vars => Inv'
  BY StepTypes, StepKeepsWatch, StepKeepsStream
<1>3. Inv => ReceivedInOrder
  BY InOrderNow DEF TypeInv
<1> QED BY <1>1, <1>2, <1>3, PTL DEF Spec

-----------------------------------------------------------------------------
(* The first answer: the calls.                                              *)

DataType == /\ DataOf(1) \in Seq(Unit) /\ DataOf(2) \in Seq(Unit) /\ chunks \in Seq(Unit)
            /\ received \in Seq(Unit) /\ sock \in Seq(Unit) /\ sendBuffer \in Seq(Unit)

LEMMA FirstTypes ==
  ASSUME TypeOK
  PROVE  DataType
<1>1. DataOf(1) \in Seq(Unit) /\ DataOf(2) \in Seq(Unit)
  BY CallsAre DEF DataOf, CallRec
<1> QED BY <1>1 DEF DataType, TypeOK

(* No call after the first k has data. *)
NoDataAfter(k) == \A i \in DOMAIN calls : i > k => calls[i].data = <<>>

LEMMA NoDataThere ==
  ASSUME TypeOK
  PROVE  /\ NoDataAfter(0) => DataOf(1) = <<>> /\ DataOf(2) = <<>> /\ FirstCalls
         /\ NoDataAfter(1) => DataOf(2) = <<>>
<1>1. DOMAIN calls = 1..Len(calls) /\ Len(calls) \in Nat
  BY CallsAre
<1> QED BY <1>1 DEF NoDataAfter, DataOf, FirstCalls

(* The next call of a first answer, and the data behind it. *)
LEMMA FirstCall ==
  ASSUME TypeOK, SendFirst, FirstCalls, NEW op, Running(op)
  PROVE  /\ DataOf(1) = Data /\ Data \in Seq(Unit)
         /\ op \notin {"send", "sendfile", "range"} => Data = <<>>
         /\ op # "send" /\ Data # <<>> => sendBuffer = <<>> /\ chunks = <<>> /\ callback = "none"
         /\ op # "send" => NoDataAfter(1)
         /\ DataOf(2) = <<>> => NoDataAfter(1)
         /\ DataOf(2) # <<>> => /\ sendBuffer = <<>> /\ chunks = <<>> /\ callback = "none"
                                /\ Len(Data) = 1 /\ Free > 0 /\ NoDataAfter(2)
                                /\ 2 \in DOMAIN calls /\ calls[2].op \in {"sendfile", "range"}
<1>1. /\ 1 \in DOMAIN calls /\ Head(calls) = calls[1] /\ calls[1].op = op
      /\ DOMAIN calls = 1..Len(calls) /\ Len(calls) \in Nat /\ Data \in Seq(Unit)
  BY CallsAre, HeadType DEF Running
<1>2. \A i \in DOMAIN calls : calls[i].data # <<>> => i = 1 \/ i = 2
  BY <1>1 DEF FirstCalls
<1>3. DataOf(1) = Data
  BY <1>1 DEF DataOf, Data
<1>4. NoDataAfter(2)
  BY <1>1, <1>2 DEF NoDataAfter
<1>5. DataOf(2) = <<>> => NoDataAfter(1)
  BY <1>1, <1>2 DEF NoDataAfter, DataOf
<1>6. DataOf(2) # <<>> => /\ 2 \in DOMAIN calls /\ calls[2].data # <<>>
  BY DEF DataOf
<1>7. DataOf(2) # <<>> => /\ 2 \in DOMAIN calls /\ calls[2].op \in {"sendfile", "range"}
                          /\ sendBuffer = <<>> /\ chunks = <<>> /\ callback = "none"
                          /\ op = "send" /\ Len(Data) = 1 /\ Free > 0
  <2> SUFFICES ASSUME DataOf(2) # <<>>
               PROVE  /\ 2 \in DOMAIN calls /\ calls[2].op \in {"sendfile", "range"}
                      /\ sendBuffer = <<>> /\ chunks = <<>> /\ callback = "none"
                      /\ op = "send" /\ Len(Data) = 1 /\ Free > 0
    OBVIOUS
  <2>1. 2 \in DOMAIN calls /\ calls[2].data # <<>> /\ calls[2].op # "send"
    BY <1>6 DEF SendFirst
  <2>2. /\ calls[2].op \in {"send", "sendfile", "range"}
        /\ calls[2].op # "send" => sendBuffer = <<>> /\ chunks = <<>> /\ callback = "none"
        /\ calls[1].op = "send" /\ Len(calls[1].data) = 1 /\ Free > 0
    BY <2>1 DEF FirstCalls
  <2> QED BY <1>1, <2>1, <2>2 DEF Data
<1>8. Data # <<>> => /\ op \in {"send", "sendfile", "range"}
                     /\ op # "send" => sendBuffer = <<>> /\ chunks = <<>> /\ callback = "none"
  BY <1>1 DEF FirstCalls, Data
<1> QED BY <1>1, <1>3, <1>4, <1>5, <1>7, <1>8

(* The call ends, and no other has data. *)
LEMMA FirstEnds ==
  ASSUME TypeOK, NEW op, Running(op), NoDataAfter(1), Then(<<>>)
  PROVE  NoDataAfter(0)'
<1>1. /\ \A i \in DOMAIN calls' : i + 1 \in DOMAIN calls /\ calls'[i] = calls[i + 1]
      /\ DOMAIN calls' \subseteq Nat \ {0}
  BY ThenNone
<1>2. ASSUME NEW i \in DOMAIN calls' PROVE calls'[i].data = <<>>
  <2>1. i + 1 \in DOMAIN calls /\ calls'[i] = calls[i + 1] /\ i + 1 > 1
    BY <1>1
  <2> QED BY <2>1 DEF NoDataAfter
<1> QED BY <1>2 DEF NoDataAfter

(* The call ends, and the one behind it is next. *)
LEMMA SecondFollows ==
  ASSUME TypeOK, TypeOK', NEW op, Running(op), NoDataAfter(2), 2 \in DOMAIN calls, Then(<<>>)
  PROVE  /\ NoDataAfter(1)' /\ DataOf(1)' = DataOf(2)
         /\ 1 \in DOMAIN calls' /\ calls'[1].op = calls[2].op
<1>1. /\ \A i \in DOMAIN calls' : i + 1 \in DOMAIN calls /\ calls'[i] = calls[i + 1]
      /\ \A i \in DOMAIN calls : i # 1 => i - 1 \in DOMAIN calls' /\ calls'[i - 1] = calls[i]
      /\ DOMAIN calls' \subseteq Nat \ {0}
  BY ThenNone
<1>2. ASSUME NEW i \in DOMAIN calls', i > 1 PROVE calls'[i].data = <<>>
  <2>1. i + 1 \in DOMAIN calls /\ calls'[i] = calls[i + 1] /\ i + 1 > 2
    BY <1>1, <1>2
  <2> QED BY <2>1 DEF NoDataAfter
<1>3. 1 \in DOMAIN calls' /\ calls'[1] = calls[2]
  <2>1. 2 # 1 /\ 2 - 1 = 1
    OBVIOUS
  <2> QED BY <1>1, <2>1
<1> QED BY <1>2, <1>3 DEF NoDataAfter, DataOf

(* The call leads to another one. *)
LEMMA FirstLeads ==
  ASSUME TypeOK, NEW op, Running(op), NoDataAfter(1), NEW x \in CallRec, Then(<<x>>)
  PROVE  /\ NoDataAfter(1)' /\ DataOf(1)' = x.data
         /\ 1 \in DOMAIN calls' /\ calls'[1] = x
         /\ x.data = <<>> => NoDataAfter(0)'
<1>1. /\ DOMAIN calls' = DOMAIN calls /\ 1 \in DOMAIN calls /\ calls'[1] = x
      /\ \A i \in DOMAIN calls : i # 1 => calls'[i] = calls[i]
      /\ DOMAIN calls = 1..Len(calls) /\ Len(calls) \in Nat
  BY ThenOne, CallsAre
<1>2. ASSUME NEW i \in DOMAIN calls', i > 1 PROVE calls'[i].data = <<>>
  <2>1. i \in DOMAIN calls /\ i # 1
    BY <1>1, <1>2
  <2> QED BY <1>1, <1>2, <2>1 DEF NoDataAfter
<1>3. x.data = <<>> => \A i \in DOMAIN calls' : calls'[i].data = <<>>
  <2>1. \A i \in DOMAIN calls' : i = 1 \/ i > 1
    BY <1>1
  <2> QED BY <1>1, <1>2, <2>1
<1> QED BY <1>1, <1>2, <1>3 DEF NoDataAfter, DataOf

-----------------------------------------------------------------------------
(* The first answer: the wire.                                               *)

(* Concatenation, as an operator of which the provers know what follows.     *)
Cat(a, b) == a \o b

LEMMA CatType ==
  ASSUME NEW a \in Seq(Unit), NEW b \in Seq(Unit)
  PROVE  /\ Cat(a, b) \in Seq(Unit) /\ Cat(a, <<>>) = a /\ Cat(<<>>, a) = a
         /\ Cat(a, b) = <<>> => a = <<>> /\ b = <<>>
<1>1. Cat(a, b) \in Seq(Unit) /\ Len(Cat(a, b)) = Len(a) + Len(b)
  BY ConcatProperties DEF Cat
<1>2. Cat(a, <<>>) = a /\ Cat(<<>>, a) = a
  BY ConcatEmptySeq DEF Cat
<1>3. Cat(a, b) = <<>> => Len(a) = 0 /\ Len(b) = 0
  BY <1>1, LenProperties, EmptySeq
<1> QED BY <1>1, <1>2, <1>3, EmptySeq

LEMMA CatAssociative ==
  ASSUME NEW a \in Seq(Unit), NEW b \in Seq(Unit), NEW c \in Seq(Unit)
  PROVE  Cat(Cat(a, b), c) = Cat(a, Cat(b, c))
<1>1. (a \o b) \o c = a \o (b \o c)
  BY ConcatAssociative
<1> QED BY <1>1, Zenon DEF Cat

LEMMA CatCut ==
  ASSUME NEW q \in Seq(Unit), NEW k \in Nat, k <= Len(q)
  PROVE  /\ First(q, k) \in Seq(Unit) /\ After(q, k) \in Seq(Unit)
         /\ Cat(First(q, k), After(q, k)) = q
BY Cut DEF Cat

(* AnswersExact, with what moves next in front. *)
FirstWire ==
  Cat(Cat(received, sock), Cat(sendBuffer, Cat(DataOf(1), Cat(DataOf(2), chunks)))) = promised

FirstGood == FirstWire /\ FirstCalls /\ (served = 0 => Untouched)

LEMMA Flat ==
  ASSUME NEW w \in Seq(Unit), NEW s \in Seq(Unit), NEW a \in Seq(Unit), NEW b \in Seq(Unit),
         NEW c \in Seq(Unit)
  PROVE  Cat(Cat(Cat(Cat(w, s), a), b), c) = Cat(w, Cat(s, Cat(a, Cat(b, c))))
<1>1. Cat(w, s) \in Seq(Unit) /\ Cat(Cat(w, s), a) \in Seq(Unit) /\ Cat(b, c) \in Seq(Unit)
  BY CatType
<1>2. Cat(a, Cat(b, c)) \in Seq(Unit)
  BY <1>1, CatType
<1>3. Cat(Cat(Cat(Cat(w, s), a), b), c) = Cat(Cat(Cat(w, s), a), Cat(b, c))
  BY <1>1, CatAssociative
<1>4. Cat(Cat(Cat(w, s), a), Cat(b, c)) = Cat(Cat(w, s), Cat(a, Cat(b, c)))
  BY <1>1, CatAssociative
<1>5. Cat(Cat(w, s), Cat(a, Cat(b, c))) = Cat(w, Cat(s, Cat(a, Cat(b, c))))
  BY <1>2, CatAssociative
<1> QED BY <1>3, <1>4, <1>5

LEMMA WireIsExact ==
  ASSUME TypeOK
  PROVE  AnswersExact <=> (Usable => FirstWire)
<1>1. /\ Cat(received, sock) \in Seq(Unit) /\ sendBuffer \in Seq(Unit)
      /\ DataOf(1) \in Seq(Unit) /\ DataOf(2) \in Seq(Unit) /\ chunks \in Seq(Unit)
  BY FirstTypes, CatType DEF DataType
<1>2. Cat(Cat(Cat(Cat(Cat(received, sock), sendBuffer), DataOf(1)), DataOf(2)), chunks)
      = Cat(Cat(received, sock), Cat(sendBuffer, Cat(DataOf(1), Cat(DataOf(2), chunks))))
  BY <1>1, Flat
<1>3. AnswersExact <=>
        (Usable => Cat(Cat(Cat(Cat(Cat(received, sock), sendBuffer), DataOf(1)), DataOf(2)), chunks)
                   = promised)
  BY Zenon DEF AnswersExact, Cat
<1> QED BY <1>2, <1>3 DEF FirstWire

(* What the socket takes of q leaves the rest of q in front. *)
LEMMA FrontSent ==
  ASSUME TypeOK, NEW q \in Seq(Unit), NEW r \in Seq(Unit),
         Cat(Cat(received, sock), Cat(q, r)) = promised, Writes(q), UNCHANGED <<received, promised>>
  PROVE  /\ Cat(Cat(received', sock'), Cat(After(q, Least(Len(q), Free)), r)) = promised'
         /\ After(q, Least(Len(q), Free)) \in Seq(Unit)
<1>k. PICK k : k = Least(Len(q), Free)
  OBVIOUS
<1>1. k \in Nat /\ k <= Len(q)
  BY <1>k, CutType
<1>f. PICK f, t : f = First(q, k) /\ t = After(q, k)
  OBVIOUS
<1>2. f \in Seq(Unit) /\ t \in Seq(Unit) /\ Cat(f, t) = q
  BY <1>1, <1>f, CatCut
<1>3. sock' = Cat(sock, f)
  BY <1>k, <1>f DEF Writes, Cat
<1>4. /\ received \in Seq(Unit) /\ sock \in Seq(Unit) /\ Cat(t, r) \in Seq(Unit)
      /\ Cat(sock, f) \in Seq(Unit) /\ Cat(f, Cat(t, r)) \in Seq(Unit)
  BY <1>2, WireTypes, CatType
<1>5. Cat(Cat(received, Cat(sock, f)), Cat(t, r)) = Cat(received, Cat(Cat(sock, f), Cat(t, r)))
  BY <1>4, CatAssociative
<1>6. Cat(Cat(sock, f), Cat(t, r)) = Cat(sock, Cat(f, Cat(t, r)))
  BY <1>2, <1>4, CatAssociative
<1>7. Cat(received, Cat(sock, Cat(f, Cat(t, r)))) = Cat(Cat(received, sock), Cat(f, Cat(t, r)))
  BY <1>4, CatAssociative
<1>8. Cat(f, Cat(t, r)) = Cat(q, r)
  BY <1>2, CatAssociative
<1> QED BY <1>2, <1>3, <1>5, <1>6, <1>7, <1>8, <1>k, <1>f

(* Without data in the calls, sendBuffer and the chunks are what is left.    *)
LEMMA OnlyBuffered ==
  ASSUME TypeOK, NoDataAfter(0)
  PROVE  FirstWire <=> Cat(Cat(received, sock), Cat(sendBuffer, chunks)) = promised
<1>1. DataOf(1) = <<>> /\ DataOf(2) = <<>> /\ chunks \in Seq(Unit)
  BY NoDataThere, FirstTypes DEF DataType
<1>2. Cat(<<>>, Cat(<<>>, chunks)) = chunks
  BY <1>1, CatType
<1> QED BY <1>1, <1>2 DEF FirstWire

LEMMA OnlyBufferedNext ==
  ASSUME TypeOK', NoDataAfter(0)'
  PROVE  /\ FirstWire' <=> Cat(Cat(received', sock'), Cat(sendBuffer', chunks')) = promised'
         /\ FirstCalls'
<1>1. DOMAIN calls' = 1..Len(calls') /\ Len(calls') \in Nat /\ chunks' \in Seq(Unit)
  <2>1. calls' \in Seq(CallRec) /\ chunks' \in Seq(Unit)
    BY DEF TypeOK, CallRec
  <2> QED BY <2>1, LenProperties
<1>2. DataOf(1)' = <<>> /\ DataOf(2)' = <<>> /\ FirstCalls'
  BY <1>1 DEF NoDataAfter, DataOf, FirstCalls
<1>3. Cat(<<>>, Cat(<<>>, chunks')) = chunks'
  BY <1>1, CatType
<1> QED BY <1>2, <1>3 DEF FirstWire

(* A call with data that is alone and comes next. *)
LEMMA AloneNext ==
  ASSUME TypeOK', NoDataAfter(1)', 1 \in DOMAIN calls',
         calls'[1].op \in {"send", "sendfile", "range"},
         calls'[1].op # "send" => sendBuffer' = <<>> /\ chunks' = <<>> /\ callback' = "none"
  PROVE  /\ FirstWire' <=>
              Cat(Cat(received', sock'), Cat(sendBuffer', Cat(DataOf(1)', chunks'))) = promised'
         /\ FirstCalls'
<1>1. DOMAIN calls' = 1..Len(calls') /\ Len(calls') \in Nat /\ chunks' \in Seq(Unit)
  <2>1. calls' \in Seq(CallRec) /\ chunks' \in Seq(Unit)
    BY DEF TypeOK, CallRec
  <2> QED BY <2>1, LenProperties
<1>2. DataOf(2)' = <<>>
  BY <1>1 DEF NoDataAfter, DataOf
<1>3. \A i \in DOMAIN calls' : i = 1 \/ i > 1
  BY <1>1
<1>4. FirstCalls'
  BY <1>3 DEF FirstCalls, NoDataAfter
<1>5. Cat(<<>>, chunks') = chunks'
  BY <1>1, CatType
<1> QED BY <1>2, <1>4, <1>5 DEF FirstWire

(* What is not said about the wire changes with the requests only. *)
LEMMA StaysUntouched ==
  ASSUME FirstGood, UNCHANGED <<promised, callback, context, served>>
  PROVE  served' = 0 => Untouched'
BY DEF FirstGood, Untouched

(* Nothing moves while no call has data. *)
LEMMA QuietKeepsFirst ==
  ASSUME TypeOK, TypeOK', FirstGood, NoDataAfter(0), NoDataAfter(0)',
         UNCHANGED <<received, sock, sendBuffer, chunks, promised, callback, context, served>>
  PROVE  FirstGood'
<1>1. FirstWire' /\ FirstCalls'
  BY OnlyBuffered, OnlyBufferedNext DEF FirstGood
<1> QED BY <1>1, StaysUntouched DEF FirstGood

(* A read moves a unit from the socket to the peer. *)
LEMMA PeerReadMoves ==
  ASSUME TypeOK, PeerRead
  PROVE  Cat(received', sock') = Cat(received, sock) /\ Free' = Free + 1 /\ Free \in Nat
<1>1. /\ sock # <<>> /\ sock \in Seq(Unit) /\ received \in Seq(Unit)
      /\ received' = Append(received, Head(sock)) /\ sock' = Tail(sock)
  BY WireTypes DEF PeerRead
<1>2. Head(sock) \in Unit /\ Tail(sock) \in Seq(Unit) /\ Len(Tail(sock)) = Len(sock) - 1
  BY <1>1, HeadTailProperties
<1>h. PICK h : h = <<Head(sock)>>
  OBVIOUS
<1>3. received' = Cat(received, h) /\ h \in Seq(Unit) /\ Cat(h, sock') = sock /\ sock' \in Seq(Unit)
  BY <1>1, <1>2, <1>h, AppendIsConcat, HeadThenTail, Single DEF Cat
<1>4. Cat(received', sock') = Cat(received, sock)
  <2>1. Cat(Cat(received, h), sock') = Cat(received, Cat(h, sock'))
    BY <1>1, <1>3, CatAssociative
  <2> QED BY <1>3, <2>1
<1>5. Free' = Free + 1 /\ Free \in Nat
  <2>1. Len(sock) \in Nat /\ SockCap \in Nat /\ Len(sock) <= SockCap
    BY <1>1, LenProperties, OutputAssumption DEF TypeOK
  <2> QED BY <1>1, <1>2, <2>1 DEF Free
<1> QED BY <1>4, <1>5

LEMMA PeerKeepsFirst ==
  ASSUME TypeOK, FirstGood, PeerRead \/ \E r \in Requests : PeerAsk(r)
  PROVE  FirstGood'
<1> USE DEF connVars, kernelVars, peerVars, histVars
<1>1. UNCHANGED <<calls, chunks, callback, context, sendBuffer, promised, served>>
  BY DEF PeerRead, PeerAsk
<1>2. /\ Cat(received', sock') = Cat(received, sock)
      /\ Free > 0 => Free' > 0
  <2>1. CASE PeerRead
    BY <2>1, PeerReadMoves
  <2>2. CASE \E r \in Requests : PeerAsk(r)
    BY <2>2 DEF PeerAsk, Free
  <2> QED BY <2>1, <2>2
<1>3. FirstWire'
  BY <1>1, <1>2 DEF FirstGood, FirstWire, DataOf
<1>4. FirstCalls'
  BY <1>1, <1>2 DEF FirstGood, FirstCalls
<1> QED BY <1>1, <1>3, <1>4, StaysUntouched DEF FirstGood

(* Steps of the loop that send nothing and leave the connection usable. *)
LEMMA LoopKeepsFirst ==
  ASSUME TypeOK, TypeOK', SendFirst, FirstGood,
         Poll \/ ReadInput \/ MessageDone \/ NothingToWrite \/ Arm \/ HalfClose
  PROVE  FirstGood'
<1> USE DEF connVars, kernelVars, peerVars, histVars
<1>1. UNCHANGED <<received, sock, sendBuffer, chunks, promised, callback, context, served>>
  BY DEF Poll, ReadInput, MessageDone, NothingToWrite, Arm, HalfClose
<1>2. CASE Poll
  <2>a. PICK r, w : r = Call("read", <<>>) /\ w = Call("write", <<>>)
    OBVIOUS
  <2>1. r.data = <<>> /\ w.data = <<>>
    BY <2>a DEF Call
  <2>2. calls' \in {<<>>, <<r>>, <<w>>, <<r, w>>}
    BY <1>2, <2>a, PollCalls
  <2>3. NoDataAfter(0)'
    BY <2>1, <2>2 DEF NoDataAfter
  <2>4. NoDataAfter(0)
    BY <1>2 DEF Poll, Idle, NoDataAfter
  <2> QED BY <1>1, <2>3, <2>4, QuietKeepsFirst
<1>3. ASSUME NEW op, Running(op), op \notin {"send", "sendfile", "range"}
      PROVE  NoDataAfter(0) /\ NoDataAfter(1)
  <2>1. Data = <<>> /\ NoDataAfter(1) /\ DataOf(1) = Data
    BY <1>3, FirstCall DEF FirstGood
  <2>2. \A i \in DOMAIN calls : i = 1 \/ i > 1
    BY CallsAre
  <2> QED BY <2>1, <2>2 DEF NoDataAfter, DataOf
<1>4. CASE ReadInput
  <2>1. Call("message", <<>>) \in CallRec /\ Call("message", <<>>).data = <<>>
    BY CallType, EmptyType DEF Ops, Call
  <2>2. NoDataAfter(0) /\ NoDataAfter(0)'
    BY <1>3, <1>4, <2>1, FirstLeads DEF ReadInput
  <2> QED BY <1>1, <2>2, QuietKeepsFirst
<1>5. CASE MessageDone \/ NothingToWrite \/ Arm \/ HalfClose
  <2>1. PICK op \in {"message", "write", "arm", "complete"} : Running(op) /\ Then(<<>>)
    BY <1>5 DEF MessageDone, NothingToWrite, Arm, HalfClose
  <2>2. NoDataAfter(0) /\ NoDataAfter(0)'
    BY <1>3, <2>1, FirstEnds
  <2> QED BY <1>1, <2>2, QuietKeepsFirst
<1> QED BY <1>2, <1>4, <1>5

(* After a write: the callback or nothing. *)
LEMMA FirstReturns ==
  ASSUME TypeOK, NEW op, Running(op), NoDataAfter(1), Then(CallbackCall) \/ Then(<<>>)
  PROVE  NoDataAfter(0)'
<1>1. CASE Then(<<>>)
  BY <1>1, FirstEnds
<1>2. CASE Then(CallbackCall)
  <2>1. CASE CallbackCall = <<>>
    BY <1>2, <2>1, FirstEnds
  <2>2. ASSUME NEW x \in CallRec, x.data = <<>>, CallbackCall = <<x>> PROVE NoDataAfter(0)'
    BY <1>2, <2>2, FirstLeads
  <2> QED BY <2>1, <2>2, CallbackIs
<1> QED BY <1>1, <1>2

(* WriteNonBlocking sends from sendBuffer. *)
LEMMA WriteKeepsFirst ==
  ASSUME TypeOK, TypeOK', SendFirst, FirstGood, WriteBuffered
  PROVE  FirstGood'
<1> USE DEF connVars, kernelVars, peerVars, histVars
<1>1. /\ Running("write") /\ Writes(sendBuffer) /\ (Then(CallbackCall) \/ Then(<<>>))
      /\ sendBuffer' = After(sendBuffer, Least(Len(sendBuffer), Free))
      /\ UNCHANGED <<received, chunks, promised, callback, context, served>>
  BY DEF WriteBuffered
<1>2. NoDataAfter(0) /\ NoDataAfter(1)
  <2>1. Data = <<>> /\ NoDataAfter(1) /\ DataOf(1) = Data
    BY <1>1, FirstCall DEF FirstGood
  <2>2. \A i \in DOMAIN calls : i = 1 \/ i > 1
    BY CallsAre
  <2> QED BY <2>1, <2>2 DEF NoDataAfter, DataOf
<1>3. NoDataAfter(0)'
  BY <1>1, <1>2, FirstReturns
<1>4. Cat(Cat(received, sock), Cat(sendBuffer, chunks)) = promised
  BY <1>2, OnlyBuffered DEF FirstGood
<1>5. Cat(Cat(received', sock'), Cat(sendBuffer', chunks')) = promised'
  BY <1>1, <1>4, FirstTypes, FrontSent DEF DataType
<1>6. FirstWire' /\ FirstCalls'
  BY <1>3, <1>5, OnlyBufferedNext
<1> QED BY <1>1, <1>6, StaysUntouched DEF FirstGood

(* The callback of a download reads a chunk and sends it. *)
LEMMA ContinueKeepsFirst ==
  ASSUME TypeOK, TypeOK', SendFirst, FirstGood, Continue
  PROVE  FirstGood'
<1> USE DEF connVars, kernelVars, peerVars, histVars
<1>n. PICK n : n = Least(Chunk, Len(chunks))
  OBVIOUS
<1>x. PICK x : x = Call("send", First(chunks, n))
  OBVIOUS
<1>1. /\ Running("complete") /\ chunks' = After(chunks, n) /\ Then(<<x>>)
      /\ UNCHANGED <<received, sock, sendBuffer, promised, callback, context, served>>
  BY <1>n, <1>x DEF Continue
<1>2. n \in Nat /\ n <= Len(chunks) /\ chunks \in Seq(Unit)
  <2>1. chunks \in Seq(Unit) /\ Len(chunks) \in Nat /\ Chunk \in Nat
    BY FirstTypes, LenProperties, OutputAssumption DEF DataType
  <2> QED BY <1>n, <2>1 DEF Least
<1>3. First(chunks, n) \in Seq(Unit) /\ Cat(First(chunks, n), After(chunks, n)) = chunks
  BY <1>2, CatCut
<1>4. x \in CallRec /\ x.op = "send" /\ x.data = First(chunks, n)
  BY <1>x, <1>3, CallType DEF Ops, Call
<1>5. NoDataAfter(0) /\ NoDataAfter(1)
  <2>1. Data = <<>> /\ NoDataAfter(1) /\ DataOf(1) = Data
    BY <1>1, FirstCall DEF FirstGood
  <2>2. \A i \in DOMAIN calls : i = 1 \/ i > 1
    BY CallsAre
  <2> QED BY <2>1, <2>2 DEF NoDataAfter, DataOf
<1>6. NoDataAfter(1)' /\ DataOf(1)' = First(chunks, n) /\ 1 \in DOMAIN calls' /\ calls'[1].op = "send"
  BY <1>1, <1>4, <1>5, FirstLeads
<1>7. Cat(Cat(received, sock), Cat(sendBuffer, chunks)) = promised
  BY <1>5, OnlyBuffered DEF FirstGood
<1>8. Cat(DataOf(1)', chunks') = chunks
  BY <1>1, <1>3, <1>6
<1>9. FirstWire' /\ FirstCalls'
  BY <1>1, <1>6, <1>7, <1>8, AloneNext
<1> QED BY <1>1, <1>9, StaysUntouched DEF FirstGood

(* Send: to the socket, or behind what waits. *)
LEMMA SendKeepsFirst ==
  ASSUME TypeOK, TypeOK', SendFirst, FirstGood, SendDirect \/ SendBehind
  PROVE  FirstGood'
<1> USE DEF connVars, kernelVars, peerVars, histVars
<1>1. Running("send") /\ UNCHANGED <<received, chunks, promised, callback, context, served>>
  BY DEF SendDirect, SendBehind
<1>2. /\ DataOf(1) = Data /\ Data \in Seq(Unit)
      /\ DataOf(2) = <<>> => NoDataAfter(1)
      /\ DataOf(2) # <<>> => /\ sendBuffer = <<>> /\ chunks = <<>> /\ callback = "none"
                             /\ Len(Data) = 1 /\ Free > 0 /\ NoDataAfter(2)
                             /\ 2 \in DOMAIN calls /\ calls[2].op \in {"sendfile", "range"}
  BY <1>1, FirstCall DEF FirstGood
<1>t. DataType
  BY FirstTypes
<1>a. Call("arm", <<>>) \in CallRec /\ Call("arm", <<>>).data = <<>>
  BY CallType, EmptyType DEF Ops, Call
<1>3. CASE SendDirect
  <2>1. sendBuffer = <<>> /\ Writes(Data)
    BY <1>3 DEF SendDirect
  <2>r. PICK r : r = Cat(DataOf(2), chunks)
    OBVIOUS
  <2>2. r \in Seq(Unit) /\ Cat(Data, r) \in Seq(Unit)
    BY <1>2, <1>t, <2>r, CatType DEF DataType
  <2>3. Cat(Cat(received, sock), Cat(Data, r)) = promised
    <3>1. Cat(Cat(received, sock), Cat(<<>>, Cat(Data, r))) = promised
      BY <1>2, <2>1, <2>r DEF FirstGood, FirstWire
    <3>2. Cat(<<>>, Cat(Data, r)) = Cat(Data, r)
      BY <2>2, CatType
    <3> QED BY <3>1, <3>2
  <2>u. PICK u : u = After(Data, Least(Len(Data), Free))
    OBVIOUS
  <2>4. Cat(Cat(received', sock'), Cat(u, r)) = promised' /\ u \in Seq(Unit)
    BY <1>1, <1>2, <2>1, <2>2, <2>3, <2>u, FrontSent
  <2>5. sendBuffer' = u
    <3>1. CASE Len(Data) <= Free
      BY <1>2, <1>3, <2>1, <2>u, <3>1, NothingRemains DEF SendDirect
    <3>2. CASE ~(Len(Data) <= Free)
      BY <1>3, <2>u, <3>2 DEF SendDirect, Least
    <3> QED BY <3>1, <3>2
  <2>6. CASE DataOf(2) = <<>>
    <3>1. r = chunks
      BY <1>t, <2>r, <2>6, CatType DEF DataType
    <3>2. NoDataAfter(0)'
      <4>1. Then(CallbackCall) \/ Then(<<Call("arm", <<>>)>>)
        BY <1>3 DEF SendDirect
      <4> QED BY <1>1, <1>2, <1>a, <2>6, <4>1, FirstReturns, FirstLeads
    <3>3. FirstWire' /\ FirstCalls'
      BY <1>1, <2>4, <2>5, <3>1, <3>2, OnlyBufferedNext
    <3> QED BY <1>1, <3>3, StaysUntouched DEF FirstGood
  <2>7. CASE DataOf(2) # <<>>
    <3>1. Len(Data) <= Free
      <4>1. Free \in Nat
        BY <1>2, <2>1, WritesType
      <4>2. Len(Data) = 1 /\ Free > 0
        BY <1>2, <2>7
      <4> QED BY <4>1, <4>2
    <3>2. Then(<<>>) /\ sendBuffer' = <<>>
      BY <1>2, <1>3, <2>1, <2>7, <3>1 DEF SendDirect, CallbackCall
    <3>3. NoDataAfter(1)' /\ DataOf(1)' = DataOf(2) /\ 1 \in DOMAIN calls' /\ calls'[1].op = calls[2].op
      BY <1>1, <1>2, <2>7, <3>2, SecondFollows
    <3>4. Cat(DataOf(1)', chunks') = r
      BY <1>1, <2>r, <3>3
    <3>5. FirstWire' /\ FirstCalls'
      BY <1>1, <1>2, <2>4, <2>5, <2>7, <3>2, <3>3, <3>4, AloneNext
    <3> QED BY <1>1, <3>5, StaysUntouched DEF FirstGood
  <2> QED BY <2>6, <2>7
<1>4. CASE SendBehind
  <2>1. /\ sendBuffer # <<>> /\ Then(<<Call("arm", <<>>)>>) /\ sock' = sock
        /\ sendBuffer' = Cat(sendBuffer, Data)
    BY <1>4 DEF SendBehind, Cat
  <2>2. DataOf(2) = <<>> /\ NoDataAfter(1)
    BY <1>2, <2>1
  <2>3. NoDataAfter(0)'
    BY <1>1, <1>a, <2>1, <2>2, FirstLeads
  <2>4. Cat(Cat(received, sock), Cat(sendBuffer, Cat(Data, chunks))) = promised
    <3>1. Cat(<<>>, chunks) = chunks
      BY <1>t, CatType DEF DataType
    <3> QED BY <1>2, <2>2, <3>1 DEF FirstGood, FirstWire
  <2>5. Cat(Cat(sendBuffer, Data), chunks) = Cat(sendBuffer, Cat(Data, chunks))
    BY <1>2, <1>t, CatAssociative DEF DataType
  <2>6. FirstWire' /\ FirstCalls'
    BY <1>1, <2>1, <2>3, <2>4, <2>5, OnlyBufferedNext
  <2> QED BY <1>1, <2>6, StaysUntouched DEF FirstGood
<1> QED BY <1>3, <1>4

(* sendfile takes what fits; the same call goes on with the rest.            *)
LEMMA FileMoves ==
  ASSUME TypeOK, TypeOK', SendFirst, FirstGood, NEW op \in {"sendfile", "range"}, Running(op),
         Writes(Data), Then(IF Len(Data) <= Free THEN <<>> ELSE <<Call(op, After(Data, Free))>>),
         UNCHANGED <<received, sendBuffer, chunks, promised, callback, context, served>>
  PROVE  FirstGood'
<1>1. /\ DataOf(1) = Data /\ Data \in Seq(Unit) /\ NoDataAfter(1)
      /\ Data # <<>> => sendBuffer = <<>> /\ chunks = <<>> /\ callback = "none"
  BY FirstCall DEF FirstGood
<1>t. DataType
  BY FirstTypes
<1>2. Cat(Cat(received, sock), Cat(sendBuffer, Cat(Data, chunks))) = promised
  <2>1. DataOf(2) = <<>> /\ Cat(<<>>, chunks) = chunks
    BY <1>1, <1>t, NoDataThere, CatType DEF DataType
  <2> QED BY <1>1, <2>1 DEF FirstGood, FirstWire
<1>r. PICK r : r = Cat(sendBuffer, chunks)
  OBVIOUS
<1>u. PICK u : u = After(Data, Least(Len(Data), Free))
  OBVIOUS
<1>3. r \in Seq(Unit) /\ Cat(<<>>, r) = r /\ Cat(<<>>, <<>>) = <<>>
  BY <1>t, <1>r, CatType, EmptyType DEF DataType
<1>4. Cat(Cat(received, sock), Cat(Data, r)) = promised
  <2>1. CASE Data = <<>>
    <3>1. Cat(<<>>, chunks) = chunks
      BY <1>t, CatType DEF DataType
    <3> QED BY <1>2, <1>3, <1>r, <2>1, <3>1
  <2>2. CASE Data # <<>>
    <3>1. Cat(Data, <<>>) = Data /\ Cat(<<>>, Data) = Data
      BY <1>1, CatType
    <3> QED BY <1>1, <1>2, <1>3, <1>r, <2>2, <3>1
  <2> QED BY <2>1, <2>2
<1>5. Cat(Cat(received', sock'), Cat(u, r)) = promised' /\ u \in Seq(Unit)
  BY <1>1, <1>3, <1>4, <1>u, FrontSent
<1>6. CASE Len(Data) <= Free
  <2>1. u = <<>>
    BY <1>1, <1>6, <1>u, NothingRemains
  <2>2. NoDataAfter(0)'
    BY <1>1, <1>6, FirstEnds
  <2>3. FirstWire' /\ FirstCalls'
    BY <1>3, <1>5, <1>r, <2>1, <2>2, OnlyBufferedNext
  <2> QED BY <2>3, StaysUntouched DEF FirstGood
<1>7. CASE ~(Len(Data) <= Free)
  <2>1. u = After(Data, Free)
    BY <1>7, <1>u DEF Least
  <2>2. Data # <<>>
    <3>1. Free \in Nat
      BY <1>1, WritesType
    <3> QED BY <1>7, <3>1, EmptySeq
  <2>x. PICK x : x = Call(op, u)
    OBVIOUS
  <2>3. x \in CallRec /\ x.op = op /\ x.data = u /\ Then(<<x>>)
    <3>1. op \in Ops
      BY DEF Ops
    <3> QED BY <1>5, <1>7, <2>1, <2>x, <3>1, CallType DEF Call
  <2>4. NoDataAfter(1)' /\ DataOf(1)' = u /\ 1 \in DOMAIN calls' /\ calls'[1].op = op
    BY <1>1, <2>3, FirstLeads
  <2>5. Cat(sendBuffer', Cat(DataOf(1)', chunks')) = Cat(u, r)
    <3>1. Cat(u, <<>>) = u /\ Cat(<<>>, u) = u
      BY <1>5, CatType
    <3> QED BY <1>1, <1>3, <1>r, <2>2, <2>4, <3>1
  <2>6. FirstWire' /\ FirstCalls'
    BY <1>1, <1>5, <2>2, <2>4, <2>5, AloneNext
  <2> QED BY <2>6, StaysUntouched DEF FirstGood
<1> QED BY <1>6, <1>7

LEMMA FilesKeepFirst ==
  ASSUME TypeOK, TypeOK', SendFirst, FirstGood, SendFile \/ SendFileRange
  PROVE  FirstGood'
<1> USE DEF connVars, kernelVars, peerVars, histVars
<1>1. UNCHANGED <<received, sendBuffer, chunks, promised, callback, context, served>>
  BY DEF SendFile, SendFileRange
<1>2. CASE SendFile
  BY <1>1, <1>2, FileMoves DEF SendFile
<1>3. CASE SendFileRange /\ Data # <<>> /\ Free = 0
  <2>1. Running("range") /\ Then(<<Call("send", Data)>>) /\ sock' = sock
    BY <1>3 DEF SendFileRange
  <2>2. DataOf(1) = Data /\ Data \in Seq(Unit) /\ NoDataAfter(1)
    BY <2>1, FirstCall DEF FirstGood
  <2>3. DataOf(2) = <<>> /\ Cat(<<>>, chunks) = chunks
    BY <2>2, FirstTypes, NoDataThere, CatType DEF DataType
  <2>4. /\ Call("send", Data) \in CallRec /\ Call("send", Data).op = "send"
        /\ Call("send", Data).data = Data
    BY <2>2, CallType DEF Ops, Call
  <2>5. NoDataAfter(1)' /\ DataOf(1)' = Data /\ 1 \in DOMAIN calls' /\ calls'[1].op = "send"
    BY <2>1, <2>2, <2>4, FirstLeads
  <2>6. Cat(Cat(received, sock), Cat(sendBuffer, Cat(Data, chunks))) = promised
    BY <2>2, <2>3 DEF FirstGood, FirstWire
  <2>7. FirstWire' /\ FirstCalls'
    BY <1>1, <2>1, <2>5, <2>6, AloneNext
  <2> QED BY <1>1, <2>7, StaysUntouched DEF FirstGood
<1>4. CASE SendFileRange /\ ~(Data # <<>> /\ Free = 0)
  BY <1>1, <1>4, FileMoves DEF SendFileRange
<1> QED BY <1>2, <1>3, <1>4

-----------------------------------------------------------------------------
(* The first answer: its calls come before what was to be called already.    *)

LEMMA CallsInFront ==
  ASSUME NEW answer \in Seq(CallRec), NEW close \in Seq(CallRec), NEW rest \in Seq(CallRec),
         \A i \in DOMAIN close : close[i].data = <<>>,
         \A i \in DOMAIN rest : rest[i].data = <<>>,
         NEW a, a = answer \o close, NEW c, c = a \o rest
  PROVE  /\ DOMAIN c \subseteq Nat \ {0} /\ DOMAIN answer \subseteq DOMAIN c
         /\ \A i \in DOMAIN answer : c[i] = answer[i]
         /\ \A i \in DOMAIN c : i > Len(answer) => c[i].data = <<>>
<1>1. /\ a \in Seq(CallRec) /\ Len(a) = Len(answer) + Len(close)
      /\ \A i \in 1 .. Len(answer) + Len(close) :
            a[i] = IF i <= Len(answer) THEN answer[i] ELSE close[i - Len(answer)]
  BY ConcatProperties
<1>2. /\ c \in Seq(CallRec) /\ Len(c) = Len(a) + Len(rest)
      /\ \A i \in 1 .. Len(a) + Len(rest) : c[i] = IF i <= Len(a) THEN a[i] ELSE rest[i - Len(a)]
  BY <1>1, ConcatProperties
<1>3. /\ DOMAIN answer = 1..Len(answer) /\ Len(answer) \in Nat
      /\ DOMAIN close = 1..Len(close) /\ Len(close) \in Nat
      /\ DOMAIN rest = 1..Len(rest) /\ Len(rest) \in Nat
      /\ DOMAIN c = 1..Len(c)
  BY <1>2, LenProperties
<1>4. ASSUME NEW i \in DOMAIN answer PROVE i \in DOMAIN c /\ c[i] = answer[i]
  <2>1. i \in 1 .. Len(answer) + Len(close) /\ i <= Len(answer)
        /\ i \in 1 .. Len(a) + Len(rest) /\ i <= Len(a)
    BY <1>1, <1>3
  <2> QED BY <1>1, <1>2, <1>3, <2>1
<1>5. ASSUME NEW i \in DOMAIN c, i > Len(answer) PROVE c[i].data = <<>>
  <2>1. i \in 1 .. Len(a) + Len(rest)
    BY <1>2, <1>3
  <2>2. CASE i <= Len(a)
    <3>1. /\ i \in 1 .. Len(answer) + Len(close) /\ ~(i <= Len(answer))
          /\ i - Len(answer) \in DOMAIN close
      BY <1>1, <1>3, <1>5, <2>1, <2>2
    <3>2. c[i] = close[i - Len(answer)]
      BY <1>1, <1>2, <2>1, <2>2, <3>1
    <3> QED BY <3>1, <3>2
  <2>3. CASE ~(i <= Len(a))
    <3>1. i - Len(a) \in DOMAIN rest
      BY <1>1, <1>3, <2>1, <2>3
    <3>2. c[i] = rest[i - Len(a)]
      BY <1>2, <2>1, <2>3
    <3> QED BY <3>1, <3>2
  <2> QED BY <2>2, <2>3
<1> QED BY <1>3, <1>4, <1>5

(* Nothing is there before the first request is served. *)
LEMMA NothingYet ==
  ASSUME TypeOK, FirstGood, served = 0
  PROVE  /\ received = <<>> /\ sock = <<>> /\ sendBuffer = <<>> /\ chunks = <<>>
         /\ DataOf(1) = <<>> /\ DataOf(2) = <<>>
         /\ promised = <<>> /\ callback = "none" /\ ~context
         /\ NoDataAfter(0)
<1>t. DataType
  BY FirstTypes
<1>1. promised = <<>> /\ callback = "none" /\ ~context
  BY DEF FirstGood, Untouched
<1> PICK d \in Seq(Unit), s \in Seq(Unit), a \in Seq(Unit) :
         d = Cat(DataOf(2), chunks) /\ a = Cat(DataOf(1), d) /\ s = Cat(sendBuffer, a)
  BY <1>t, CatType DEF DataType
<1>2. Cat(received, sock) \in Seq(Unit) /\ Cat(Cat(received, sock), s) = <<>>
  BY <1>1, <1>t, CatType DEF FirstGood, FirstWire, DataType
<1>3. Cat(received, sock) = <<>> /\ s = <<>>
  BY <1>2, CatType
<1>4. received = <<>> /\ sock = <<>> /\ sendBuffer = <<>> /\ a = <<>>
  BY <1>3, <1>t, CatType DEF DataType
<1>5. DataOf(1) = <<>> /\ d = <<>>
  BY <1>4, <1>t, CatType DEF DataType
<1>6. DataOf(2) = <<>> /\ chunks = <<>>
  BY <1>5, <1>t, CatType DEF DataType
<1>7. NoDataAfter(0)
  <2>1. DOMAIN calls = 1..Len(calls) /\ Len(calls) \in Nat
    BY CallsAre
  <2>2. \A i \in DOMAIN calls : calls[i].data # <<>> => i = 1 \/ i = 2
    BY <2>1 DEF FirstGood, FirstCalls
  <2> QED BY <1>5, <1>6, <2>2 DEF NoDataAfter, DataOf
<1> QED BY <1>1, <1>4, <1>5, <1>6, <1>7

(* A first answer that is a single Send, perhaps with chunks to follow.      *)
LEMMA ServeOne ==
  ASSUME TypeOK', NEW x \in CallRec, x.op = "send", NEW u \in Seq(Unit), Cat(x.data, chunks') = u,
         NoDataAfter(1)', 1 \in DOMAIN calls', calls'[1] = x,
         received' = <<>>, sock' = <<>>, sendBuffer' = <<>>, promised' = u
  PROVE  FirstWire' /\ FirstCalls'
<1>1. DataOf(1)' = x.data
  BY DEF DataOf
<1>2. Cat(<<>>, <<>>) = <<>> /\ Cat(<<>>, u) = u
  BY EmptyType, CatType
<1>3. Cat(Cat(received', sock'), Cat(sendBuffer', Cat(DataOf(1)', chunks'))) = promised'
  BY <1>1, <1>2
<1> QED BY <1>3, AloneNext

(* A first answer that is a header and a file. *)
LEMMA ServeTwo ==
  ASSUME TypeOK', NEW h \in CallRec, h.op = "send", Len(h.data) = 1,
         NEW f \in CallRec, f.op \in {"sendfile", "range"},
         NEW u \in Seq(Unit), Cat(h.data, f.data) = u,
         NoDataAfter(2)', {1, 2} \subseteq DOMAIN calls', calls'[1] = h, calls'[2] = f,
         received' = <<>>, sock' = <<>>, sendBuffer' = <<>>, promised' = u,
         chunks' = <<>>, callback' = "none"
  PROVE  FirstWire' /\ FirstCalls'
<1>1. DataOf(1)' = h.data /\ DataOf(2)' = f.data
  BY DEF DataOf
<1>2. f.data \in Seq(Unit) /\ h.data \in Seq(Unit)
  BY DEF CallRec
<1>3. Cat(<<>>, <<>>) = <<>> /\ Cat(<<>>, u) = u /\ Cat(f.data, <<>>) = f.data
  BY <1>2, EmptyType, CatType
<1>4. FirstWire'
  BY <1>1, <1>3 DEF FirstWire
<1>5. DOMAIN calls' = 1..Len(calls') /\ Len(calls') \in Nat
  <2>1. calls' \in Seq(CallRec)
    BY DEF TypeOK, CallRec
  <2> QED BY <2>1, LenProperties
<1>6. Free' > 0
  <2>1. Len(<<>>) = 0 /\ SockCap \in Nat \ {0}
    BY OutputAssumption, EmptyType, EmptySeq
  <2> QED BY <2>1 DEF Free
<1>7. \A i \in DOMAIN calls' : calls'[i].data # <<>> => i = 1 \/ i = 2
  BY <1>5 DEF NoDataAfter
<1>8. FirstCalls'
  BY <1>6, <1>7 DEF FirstCalls
<1> QED BY <1>4, <1>8

(* The header of an answer is one unit. *)
LEMMA UnitsCut ==
  ASSUME NEW n \in 1..MaxRequests, NEW k \in Kinds
  PROVE  /\ Units(n, k) \in Seq(Unit)
         /\ First(Units(n, k), 1) \in Seq(Unit) /\ After(Units(n, k), 1) \in Seq(Unit)
         /\ Len(First(Units(n, k), 1)) = 1
         /\ Cat(First(Units(n, k), 1), After(Units(n, k), 1)) = Units(n, k)
<1> PICK one \in Nat : one = 1
  OBVIOUS
<1>1. Units(n, k) \in Seq(Unit)
  BY UnitsType
<1>2. one <= Len(Units(n, k))
  <2>1. Size[k] \in Nat \ {0}
    BY OutputAssumption
  <2>2. Len(Units(n, k)) = Size[k]
    BY <2>1 DEF Units
  <2> QED BY <2>1, <2>2
<1> PICK u : u = Units(n, k)
  OBVIOUS
<1>3. /\ First(u, one) \in Seq(Unit) /\ After(u, one) \in Seq(Unit)
      /\ Len(First(u, one)) = one
  BY <1>1, <1>2, Cut
<1>4. Cat(First(u, one), After(u, one)) = u
  BY <1>1, <1>2, CatCut
<1> QED BY <1>1, <1>3, <1>4

(* The answer to a first request. *)
LEMMA FirstAnswer ==
  ASSUME NEW k \in Kinds, k # "page", ~context, NEW n \in 1..MaxRequests, NEW answer \in Answers(n, k)
  PROVE  LET u == Units(n, k) IN
         \/ k \in {"plain", "json"} /\ answer = <<Call("send", u)>>
         \/ k = "download" /\ answer = <<Call("send", First(u, 1))>>
         \/ /\ k \in {"file", "range"}
            /\ \E op \in {"sendfile", "range"} :
                  answer = <<Call("send", First(u, 1)), Call(op, After(u, 1))>>
<1> PICK u : u = Units(n, k)
  OBVIOUS
<1> PICK h, f, r : /\ h = Call("send", First(u, 1))
                   /\ f = Call("sendfile", After(u, 1))
                   /\ r = Call("range", After(u, 1))
  OBVIOUS
<1>1. <<h>> \o <<f>> = <<h, f>> /\ <<h>> \o <<r>> = <<h, r>>
  BY Pair
<1>2. CASE k \in {"plain", "json"}
  BY <1>2, Zenon DEF Answers
<1>3. CASE k = "download"
  BY <1>3, Zenon DEF Answers
<1>4. CASE k = "file"
  <2>1. answer = <<h>> \o <<f>>
    BY <1>4, Zenon DEF Answers
  <2> QED BY <1>1, <1>4, <2>1
<1>5. CASE k = "range"
  <2>1. answer = <<h>> \o <<r>>
    BY <1>5, Zenon DEF Answers
  <2> QED BY <1>1, <1>5, <2>1
<1> QED BY <1>2, <1>3, <1>4, <1>5 DEF Kinds

LEMMA ServeKeepsFirst ==
  ASSUME TypeInv, TypeOK', SendFirst, NoPages, FirstGood, NEW r \in Requests, Serve(r), served' <= 1
  PROVE  FirstGood'
<1> PICK n, k : n = served + 1 /\ k = r.kind
  OBVIOUS
<1>1. n \in 1..MaxRequests /\ k \in Kinds /\ k # "page" /\ Running("message") /\ TypeOK /\ served = 0
  <2>1. /\ input \in Seq(Requests) /\ input # <<>> /\ Len(input) \in Nat \ {0} /\ Len(inbox) \in Nat
    BY EmptySeq, LenProperties DEF Serve, TypeInv, TypeOK
  <2>2. n \in 1..MaxRequests /\ served \in Nat
    BY <2>1, OutputAssumption DEF TypeInv, TypeOK
  <2>4. served' = served + 1
    BY DEF Serve
  <2>3. k \in Kinds /\ k # "page"
    BY OutputAssumption DEF NoPages
  <2> QED BY <2>2, <2>3, <2>4 DEF TypeInv, Serve
<1>2. /\ received = <<>> /\ sock = <<>> /\ sendBuffer = <<>> /\ chunks = <<>>
      /\ promised = <<>> /\ callback = "none" /\ ~context /\ NoDataAfter(0)
  BY <1>1, NothingYet
<1>u. PICK u, h, t : u = Units(n, k) /\ h = First(u, 1) /\ t = After(u, 1)
  OBVIOUS
<1>3. u \in Seq(Unit) /\ h \in Seq(Unit) /\ t \in Seq(Unit) /\ Len(h) = 1 /\ Cat(h, t) = u
  BY <1>1, <1>u, UnitsCut
<1>4. /\ received' = <<>> /\ sock' = <<>> /\ sendBuffer' = <<>> /\ promised' = u /\ served' = 1
      /\ chunks' = IF k = "download" THEN t ELSE <<>>
      /\ k \in {"file", "range"} => callback' = "none"
  <2>1. UNCHANGED <<received, sock, sendBuffer>> /\ promised' = promised \o u /\ served' = n
    BY <1>u DEF Serve, kernelVars, peerVars
  <2>2. promised' = u
    BY <1>2, <1>3, <2>1, ConcatEmptySeq
  <2>3. chunks' = IF k = "download" THEN t ELSE <<>>
    BY <1>2, <1>u DEF Serve
  <2>4. k \in {"file", "range"} => callback' = "none"
    BY <1>2 DEF Serve
  <2> QED BY <1>1, <1>2, <2>1, <2>2, <2>3, <2>4
<1> DEFINE close == IF r.close THEN <<Call("close", <<>>)>> ELSE <<>>
<1>5. PICK answer \in Answers(n, k) : calls' = (answer \o close) \o calls
  BY DEF Serve
<1>6. answer \in Seq(CallRec) /\ calls \in Seq(CallRec)
  BY <1>1, AnswersType, HeadType
<1>7. close \in Seq(CallRec) /\ \A i \in DOMAIN close : close[i].data = <<>>
  <2>1. <<Call("close", <<>>)>> \in Seq(CallRec) /\ Call("close", <<>>).data = <<>>
    BY CallType, EmptyType DEF Ops, Call
  <2> QED BY <2>1, EmptyType
<1> HIDE DEF close
<1>8. \A i \in DOMAIN calls : calls[i].data = <<>>
  <2>1. \A i \in DOMAIN calls : i > 0
    BY <1>1, CallsAre
  <2> QED BY <1>2, <2>1 DEF NoDataAfter
<1>9. /\ DOMAIN calls' \subseteq Nat \ {0} /\ DOMAIN answer \subseteq DOMAIN calls'
      /\ \A i \in DOMAIN answer : calls'[i] = answer[i]
      /\ \A i \in DOMAIN calls' : i > Len(answer) => calls'[i].data = <<>>
  <2>a. PICK a : a = answer \o close
    OBVIOUS
  <2>1. calls' = a \o calls
    BY <1>5, <2>a
  <2> QED BY <1>6, <1>7, <1>8, <2>a, <2>1, CallsInFront
<1>10. \/ k \in {"plain", "json"} /\ answer = <<Call("send", u)>>
       \/ k = "download" /\ answer = <<Call("send", h)>>
       \/ /\ k \in {"file", "range"}
          /\ \E op \in {"sendfile", "range"} : answer = <<Call("send", h), Call(op, t)>>
  BY <1>1, <1>2, <1>u, FirstAnswer
<1>11. ASSUME NEW q \in Seq(Unit), answer = <<Call("send", q)>>, Cat(q, chunks') = u
       PROVE  FirstWire' /\ FirstCalls'
  <2>x. PICK x : x = Call("send", q)
    OBVIOUS
  <2>1. x \in CallRec /\ x.op = "send" /\ x.data = q
    BY <2>x, CallType DEF Ops, Call
  <2>2. 1 \in DOMAIN answer /\ answer[1] = x /\ Len(answer) = 1
    BY <1>11, <2>x
  <2>3. NoDataAfter(1)' /\ 1 \in DOMAIN calls' /\ calls'[1] = x
    BY <1>9, <2>2 DEF NoDataAfter
  <2> QED BY <1>3, <1>4, <1>11, <2>1, <2>3, ServeOne
<1>12. ASSUME NEW op \in {"sendfile", "range"}, answer = <<Call("send", h), Call(op, t)>>,
              k \in {"file", "range"}
       PROVE  FirstWire' /\ FirstCalls'
  <2>x. PICK x, y : x = Call("send", h) /\ y = Call(op, t)
    OBVIOUS
  <2>1. /\ x \in CallRec /\ x.op = "send" /\ x.data = h
        /\ y \in CallRec /\ y.op = op /\ y.data = t
    BY <1>3, <2>x, CallType DEF Ops, Call
  <2>2. {1, 2} \subseteq DOMAIN answer /\ answer[1] = x /\ answer[2] = y /\ Len(answer) = 2
    BY <1>12, <2>x
  <2>3. NoDataAfter(2)' /\ {1, 2} \subseteq DOMAIN calls' /\ calls'[1] = x /\ calls'[2] = y
    BY <1>9, <2>2 DEF NoDataAfter
  <2>4. chunks' = <<>> /\ callback' = "none"
    BY <1>4, <1>12
  <2> QED BY <1>3, <1>4, <2>1, <2>3, <2>4, ServeTwo
<1>13. Cat(u, <<>>) = u
  BY <1>3, CatType
<1>14. FirstWire' /\ FirstCalls'
  <2>1. CASE k \in {"plain", "json"} /\ answer = <<Call("send", u)>>
    BY <1>3, <1>4, <1>11, <1>13, <2>1
  <2>2. CASE k = "download" /\ answer = <<Call("send", h)>>
    BY <1>3, <1>4, <1>11, <2>2
  <2>3. CASE /\ k \in {"file", "range"}
             /\ \E op \in {"sendfile", "range"} : answer = <<Call("send", h), Call(op, t)>>
    BY <1>12, <2>3
  <2> QED BY <1>10, <2>1, <2>2, <2>3
<1> QED BY <1>4, <1>14 DEF FirstGood

(* Every step keeps the first answer exact. *)
LEMMA StepKeepsFirst ==
  ASSUME TypeInv, TypeInv', WatchInv, NoPages, [Next]_vars, FirstInv
  PROVE  FirstInv'
<1> USE DEF connVars, kernelVars, peerVars, histVars
<1>1. TypeOK /\ TypeOK' /\ SendFirst
  BY DEF TypeInv, WatchInv
<1>2. SUFFICES ASSUME served' <= 1, Usable' PROVE FirstGood'
  <2>1. AnswersExact' <=> (Usable' => FirstWire')
    <3>1. /\ Cat(received', sock') \in Seq(Unit) /\ sendBuffer' \in Seq(Unit)
          /\ DataOf(1)' \in Seq(Unit) /\ DataOf(2)' \in Seq(Unit) /\ chunks' \in Seq(Unit)
      <4>1. /\ received' \in Seq(Unit) /\ sock' \in Seq(Unit) /\ sendBuffer' \in Seq(Unit)
            /\ chunks' \in Seq(Unit) /\ calls' \in Seq(CallRec)
        BY <1>1 DEF TypeOK, CallRec
      <4>2. \A i \in DOMAIN calls' : calls'[i] \in CallRec
        BY <4>1, LenProperties, ElementOfSeq
      <4>3. DataOf(1)' \in Seq(Unit) /\ DataOf(2)' \in Seq(Unit)
        BY <4>2 DEF DataOf, CallRec
      <4> QED BY <4>1, <4>3, CatType
    <3>2. Cat(Cat(Cat(Cat(Cat(received', sock'), sendBuffer'), DataOf(1)'), DataOf(2)'), chunks')
          = Cat(Cat(received', sock'), Cat(sendBuffer', Cat(DataOf(1)', Cat(DataOf(2)', chunks'))))
      BY <3>1, Flat
    <3>3. AnswersExact' <=>
            (Usable' => Cat(Cat(Cat(Cat(Cat(received', sock'), sendBuffer'), DataOf(1)'), DataOf(2)'),
                            chunks') = promised')
      BY Zenon DEF AnswersExact, Cat
    <3> QED BY <3>2, <3>3 DEF FirstWire
  <2> QED BY <1>2, <2>1 DEF FirstInv, FirstGood
<1>3. Usable /\ served <= 1
  <2>1. served \in Nat /\ (served' = served \/ served' = served + 1)
    <3>1. served \in Nat
      BY <1>1, OutputAssumption DEF TypeOK
    <3>2. served' = served \/ served' = served + 1
      BY DEF Next, LoopStep, vars, Poll, ReadInput, ReadFails, Serve, MessageDone, CloseConnection,
             SendDirect, SendBehind, Arm, WriteBuffered, NothingToWrite, SendFile, SendFileRange,
             WriteFails, WriteRaises, Continue, HalfClose, PeerRead, PeerReset, PeerAsk
    <3> QED BY <3>1, <3>2
  <2>2. Usable
    BY <1>1, <1>2 DEF Usable, TypeOK, Next, LoopStep, vars, Poll, ReadInput, ReadFails, Serve,
           MessageDone, CloseConnection, SendDirect, SendBehind, Arm, WriteBuffered, NothingToWrite,
           SendFile, SendFileRange, WriteFails, WriteRaises, Continue, HalfClose, PeerRead, PeerReset,
           PeerAsk
  <2> QED BY <1>2, <2>1, <2>2
<1>4. FirstGood
  BY <1>1, <1>3, WireIsExact DEF FirstInv, FirstGood
<1>5. CASE Poll \/ ReadInput \/ MessageDone \/ NothingToWrite \/ Arm \/ HalfClose
  BY <1>1, <1>4, <1>5, LoopKeepsFirst
<1>6. CASE ReadFails \/ CloseConnection \/ WriteFails \/ WriteRaises \/ PeerReset
  <2>1. ReadFails \/ CloseConnection => ~Usable'
    BY DEF ReadFails, CloseConnection, Usable
  <2>2. WriteFails => ~Usable'
    BY DEF WriteFails, Usable
  <2>3. WriteRaises \/ PeerReset => ~Usable'
    BY DEF WriteRaises, PeerReset, Usable
  <2> QED BY <1>2, <1>6, <2>1, <2>2, <2>3
<1>7. CASE \E r \in Requests : Serve(r)
  BY <1>1, <1>2, <1>4, <1>7, ServeKeepsFirst
<1>8. CASE SendDirect \/ SendBehind
  BY <1>1, <1>4, <1>8, SendKeepsFirst
<1>9. CASE WriteBuffered
  BY <1>1, <1>4, <1>9, WriteKeepsFirst
<1>10. CASE SendFile \/ SendFileRange
  BY <1>1, <1>4, <1>10, FilesKeepFirst
<1>11. CASE Continue
  BY <1>1, <1>4, <1>11, ContinueKeepsFirst
<1>12. CASE PeerRead \/ \E r \in Requests : PeerAsk(r)
  BY <1>1, <1>4, <1>12, PeerKeepsFirst
<1>13. CASE UNCHANGED vars
  BY <1>4, <1>13 DEF vars, FirstGood, FirstWire, FirstCalls, Untouched, DataOf, Free
<1> QED BY <1>5, <1>6, <1>7, <1>8, <1>9, <1>10, <1>11, <1>12, <1>13 DEF Next, LoopStep

LEMMA InitFirst == Init => FirstInv
<1> SUFFICES ASSUME Init PROVE FirstInv
  OBVIOUS
<1>1. /\ received = <<>> /\ sock = <<>> /\ sendBuffer = <<>> /\ promised = <<>> /\ chunks = <<>>
      /\ DataOf(1) = <<>> /\ DataOf(2) = <<>> /\ FirstCalls /\ Untouched
  BY DEF Init, DataOf, FirstCalls, Untouched
<1>2. Cat(<<>>, <<>>) = <<>>
  BY EmptyType, CatType
<1>3. TypeOK /\ FirstWire
  BY <1>1, <1>2, InitTypes DEF FirstWire, TypeInv
<1> QED BY <1>1, <1>3, WireIsExact DEF FirstInv

(* The first answer of a connection is accounted for, unit by unit and in    *)
(* order, whatever its kind, however long it is and however little the       *)
(* socket takes (HttpServer.cpp:154-171, Connection.cpp:99-206, 243-270).    *)
(* What the theorem needs is that a handler sets the body type.              *)
THEOREM FirstAnswerExact ==
  ASSUME NoPages
  PROVE  Spec => []FirstInv
<1> DEFINE Inv == TypeInv /\ WatchInv /\ FirstInv
<1>1. Init => Inv
  BY InitTypes, InitWatch, InitFirst
<1>2. Inv /\ [Next]_vars => Inv'
  BY StepTypes, StepKeepsWatch, StepKeepsFirst
<1>3. Inv => FirstInv
  OBVIOUS
<1> QED BY <1>1, <1>2, <1>3, PTL DEF Spec

(* The invariant of the runs is inductive together with TypeInv: it holds    *)
(* for every mix of answers, its second part when all of them are messages   *)
(* (Connection.cpp:99-152, 243-270).                                         *)
THEOREM Invariance == Spec => []OutputInv
<1> DEFINE Inv == /\ TypeInv /\ WatchInv
                  /\ MessagesOnly => CallsInv /\ WireInv
<1>1. Init => Inv
  BY InitTypes, InitWatch, InitStream
<1>2. Inv /\ [Next]_vars => Inv'
  <2> SUFFICES ASSUME Inv, [Next]_vars PROVE Inv'
    OBVIOUS
  <2>1. TypeInv' /\ WatchInv'
    BY StepTypes, StepKeepsWatch
  <2>2. MessagesOnly' => MessagesOnly
    BY DEF MessagesOnly
  <2>3. MessagesOnly => CallsInv' /\ WireInv'
    BY <2>1, StepKeepsStream
  <2> QED BY <2>1, <2>2, <2>3
<1>3. Inv => OutputInv
  BY DEF OutputInv, TypeInv
<1> QED BY <1>1, <1>2, <1>3, PTL DEF Spec

=============================================================================
