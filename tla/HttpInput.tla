------------------------------ MODULE HttpInput ------------------------------
(***************************************************************************)
(* One connection from the socket to the handlers: Connection::HandleEvent *)
(* drains the socket into the read buffer, HttpServer::onMessage parses    *)
(* what is there, line by line and then the body, and hands requests over. *)
(* A client sends a stream of requests, in segments cut anywhere.          *)
(***************************************************************************)
EXTENDS Naturals, Sequences, SequencesExt

CONSTANTS
  Streams,     (* sequences of requests a client may send                   *)
  Threshold,   (* kChunkThreshold: an upload's partial body is handed over  *)
  MaxLine,     (* max_header_line_len                                       *)
  MaxHead      (* max_header_bytes                                          *)

(* A request: its line is "good", "none" (no two spaces) or "odd" (a method  *)
(* SetMethod does not know); heads are header lines of so many bytes, 0 one  *)
(* without a colon; close is what its version, or a header, asks for.        *)
Framings == {"none", "length", "chunked"}
Requests == [id : Nat, line : {"good", "none", "odd"}, heads : Seq(Nat), framing : Framings,
             body : Seq(Nat), upload : BOOLEAN, close : BOOLEAN]
Request(id, line, heads, framing, body, upload, close) ==
  [id |-> id, line |-> line, heads |-> heads, framing |-> framing, body |-> body,
   upload |-> upload, close |-> close]

(* Units of a stream: what it is, a value, and whether it is in a head. *)
Unit(k, v, h) == [k |-> k, v |-> v, head |-> h]
CR(h)   == Unit("cr", 0, h)
LF(h)   == Unit("lf", 0, h)
Bytes(k, n) == [i \in 1..n |-> Unit(k, n, TRUE)]

(* The body of a chunked request comes in chunks of two bytes at most. *)
ChunkOf(b) == <<Unit("size", Len(b), FALSE), CR(FALSE), LF(FALSE)>> \o b \o <<CR(FALSE), LF(FALSE)>>
Half(b)    == IF Len(b) > 2 THEN ChunkOf(SubSeq(b, 1, 2)) \o ChunkOf(SubSeq(b, 3, Len(b))) ELSE ChunkOf(b)
LastChunk  == <<Unit("size", 0, FALSE), CR(FALSE), LF(FALSE), CR(FALSE), LF(FALSE)>>

(* The lines of a head: the request line, headers, framing, an empty one. *)
LineCount(r) == Len(r.heads) + (IF r.framing = "none" THEN 2 ELSE 3)
LineText(r, i) ==
  IF i = 1 THEN <<Unit(r.line, r, TRUE)>>
  ELSE IF i - 1 <= Len(r.heads)
    THEN IF r.heads[i - 1] = 0 THEN Bytes("nocolon", 1) ELSE Bytes("header", r.heads[i - 1])
  ELSE IF i = LineCount(r) THEN <<>> ELSE <<Unit(r.framing, Len(r.body), TRUE)>>
HeadLines(r) == [i \in 1..LineCount(r) |-> LineText(r, i) \o <<CR(TRUE), LF(TRUE)>>]
HeadOf(r)    == FlattenSeq(HeadLines(r))

BodyUnits(r) == [i \in 1..Len(r.body) |-> Unit("byte", r.body[i], FALSE)]
BodyOf(r) ==
  IF r.framing # "chunked" THEN BodyUnits(r)
  ELSE IF r.body = <<>> THEN LastChunk ELSE Half(BodyUnits(r)) \o LastChunk
Encoded(r) == HeadOf(r) \o BodyOf(r)

ASSUME HttpInputAssumption ==
  /\ Threshold \in Nat \ {0} /\ MaxLine \in Nat \ {0} /\ MaxHead \in Nat
  /\ Streams \subseteq Seq(Requests)
  /\ \A s \in Streams : \A i \in 1..Len(s) : s[i].framing = "none" => s[i].body = <<>>

VARIABLES
  stream,    (* what the client sends                                       *)
  wire,      (* units of it not sent yet                                    *)
  fin,       (* the client has closed its side                              *)
  sock,      (* units in the receive buffer of the socket                   *)
  buf,       (* the read buffer                                             *)
  pc,        (* "idle" in poll, or the next part of onMessage               *)
  up,        (* the connection is Connected                                 *)
  ctx,       (* HttpContext                                                 *)
  headBytes, (* header_bytes_, which ResetContextStatus leaves              *)
  served,    (* requests the handler was given, with the whole body         *)
  rejected,  (* 400 was answered                                            *)
  spoilt     (* history: a segment ended within a head line, or was read    *)
             (* with the end of the stream                                  *)

vars == <<stream, wire, fin, sock, buf, pc, up, ctx, headBytes, served, rejected, spoilt>>

NoRequest == [id |-> 0, upload |-> FALSE, close |-> FALSE]
Fresh == [req |-> NoRequest, known |-> FALSE, headers |-> FALSE, complete |-> FALSE,
          framing |-> "none", length |-> 0, chunk |-> "size", left |-> 0, given |-> <<>>, body |-> <<>>]

Init ==
  /\ stream \in Streams
  /\ wire = FlattenSeq([i \in 1..Len(stream) |-> Encoded(stream[i])])
  /\ fin = FALSE /\ sock = <<>> /\ buf = <<>> /\ pc = "idle" /\ up = TRUE
  /\ ctx = Fresh /\ headBytes = 0
  /\ served = <<>> /\ rejected = FALSE /\ spoilt = FALSE

-----------------------------------------------------------------------------
(* The client and the network. *)

Arrive(k) ==
  /\ up /\ k \in 1..Len(wire)
  /\ sock' = sock \o SubSeq(wire, 1, k)
  /\ wire' = SubSeq(wire, k + 1, Len(wire))
  /\ UNCHANGED <<stream, fin, buf, pc, up, ctx, headBytes, served, rejected, spoilt>>

Fin ==
  /\ up /\ ~fin /\ wire = <<>>
  /\ fin' = TRUE
  /\ UNCHANGED <<stream, wire, sock, buf, pc, up, ctx, headBytes, served, rejected, spoilt>>

-----------------------------------------------------------------------------
(* The loop thread. *)

(* HandleEvent: Read drops what is left in the read buffer, drains the       *)
(* socket, and closes the connection at the end of the stream; onMessage     *)
(* finds it closed then.                                                     *)
HandleEvent ==
  /\ up /\ pc = "idle" /\ (sock # <<>> \/ fin)
  /\ buf' = sock /\ sock' = <<>>
  /\ up' = ~fin
  /\ pc' = IF fin THEN "idle" ELSE "parse"
  /\ spoilt' = \/ spoilt
               \/ fin /\ sock # <<>>
               \/ sock # <<>> /\ wire # <<>> /\ Last(sock).head /\ Last(sock).k # "lf"
  /\ UNCHANGED <<stream, wire, fin, ctx, headBytes, served, rejected>>

(* ParseIncremental returns false: 400 and HandleClose. *)
Reject ==
  /\ rejected' = TRUE /\ up' = FALSE /\ pc' = "idle"
  /\ UNCHANGED <<buf, ctx, headBytes>>

(* The first carriage return of the buffer, 0 if there is none. *)
FirstCR == SelectInSeq(buf, LAMBDA u : u.k = "cr")

Accept(c) ==
  /\ ctx' = c
  /\ headBytes' = headBytes + FirstCR + 1
  /\ buf' = SubSeq(buf, FirstCR + 2, Len(buf))
  /\ UNCHANGED <<pc, up, rejected>>

(* An empty line ends the head, whatever came before it.  A line with an odd *)
(* method leaves the method unknown, and the next line is read as a request  *)
(* line too: it has one by intent, or is refused (a header with two spaces   *)
(* in it, which the code would take, is not modelled).                       *)
EndHead ==
  Accept([ctx EXCEPT !.headers = TRUE, !.complete = ctx.framing # "chunked" /\ ctx.length = 0])
RequestLine(u) ==
  \/ u.k = "good" /\ Accept([ctx EXCEPT !.known = TRUE, !.req = u.v])
  \/ u.k = "odd" /\ Accept([ctx EXCEPT !.req = [NoRequest EXCEPT !.close = u.v.close]])
  \/ u.k \notin {"good", "odd"} /\ Reject
HeaderLine(u) ==
  \/ u.k = "length" /\ Accept([ctx EXCEPT !.framing = "length", !.length = u.v])
  \/ u.k = "chunked" /\ Accept([ctx EXCEPT !.framing = "chunked"])
  \/ u.k = "header" /\ Accept(ctx)
  \/ u.k \notin {"length", "chunked", "header"} /\ Reject
HeadLine(line) ==
  IF line = <<>> THEN EndHead ELSE IF ctx.known THEN HeaderLine(line[1]) ELSE RequestLine(line[1])

(* A line of the head with its end, if the buffer holds it. *)
ParseLine ==
  LET cr == FirstCR IN
  /\ up /\ pc = "parse" /\ ~ctx.headers
  /\ cr # 0 /\ cr < Len(buf)
  /\ IF buf[cr + 1].k # "lf" \/ cr - 1 > MaxLine \/ headBytes + cr + 1 > MaxHead THEN Reject
     ELSE HeadLine(SubSeq(buf, 1, cr - 1))
  /\ UNCHANGED <<stream, wire, fin, sock, served, spoilt>>

(* The line is not there to its end: onMessage returns, and the buffer keeps *)
(* the beginning.                                                            *)
AwaitLine ==
  /\ up /\ pc = "parse" /\ ~ctx.headers
  /\ FirstCR \in {0, Len(buf)}
  /\ pc' = "idle"
  /\ UNCHANGED <<stream, wire, fin, sock, buf, up, ctx, headBytes, served, rejected, spoilt>>

InBody == up /\ pc = "parse" /\ ctx.headers /\ ~ctx.complete

(* Mutant: the last byte of a body stays in the buffer. *)
MutantBodyLeavesLast ==
  /\ InBody /\ ctx.framing = "length" /\ buf # <<>>
  /\ LET need == ctx.length - Len(ctx.given \o ctx.body)
         take == IF need < Len(buf) THEN need ELSE Len(buf)
     IN  /\ ctx' = [ctx EXCEPT !.body = @ \o [i \in 1..take |-> buf[i].v], !.complete = take = need]
         /\ buf' = SubSeq(buf, IF take = need THEN take ELSE take + 1, Len(buf))
  /\ UNCHANGED <<stream, wire, fin, sock, pc, up, headBytes, served, rejected, spoilt>>

ParseBodyBlock ==
  /\ InBody /\ ctx.framing = "length" /\ buf # <<>>
  /\ LET need == ctx.length - Len(ctx.given \o ctx.body)
         take == IF need < Len(buf) THEN need ELSE Len(buf)
     IN  /\ ctx' = [ctx EXCEPT !.body = @ \o [i \in 1..take |-> buf[i].v], !.complete = take = need]
         /\ buf' = SubSeq(buf, take + 1, Len(buf))
  /\ UNCHANGED <<stream, wire, fin, sock, pc, up, headBytes, served, rejected, spoilt>>

(* ParseChunkedBlock, unit by unit; strtoul makes 0 of what is no size. *)
Chunked(u) ==
  \/ ctx.chunk = "size" /\ u.k # "cr" /\ ctx' = [ctx EXCEPT !.left = IF u.k = "size" THEN u.v ELSE 0]
  \/ ctx.chunk = "size" /\ u.k = "cr" /\ ctx' = [ctx EXCEPT !.chunk = "sizeLF"]
  \/ ctx.chunk = "sizeLF" /\ ctx' = [ctx EXCEPT !.chunk = IF ctx.left = 0 THEN "trailers" ELSE "data"]
  \/ ctx.chunk = "data" /\ ctx' = [ctx EXCEPT !.body = Append(@, u.v), !.left = @ - 1,
                                              !.chunk = IF ctx.left = 1 THEN "dataCR" ELSE "data"]
  \/ ctx.chunk = "dataCR" /\ ctx' = [ctx EXCEPT !.chunk = "dataLF"]
  \/ ctx.chunk = "dataLF" /\ ctx' = [ctx EXCEPT !.chunk = "size"]
  \/ ctx.chunk = "trailers" /\ ctx' = [ctx EXCEPT !.chunk = IF u.k = "cr" THEN "end" ELSE "trailers"]
  \/ ctx.chunk = "end" /\ ctx' = [ctx EXCEPT !.complete = TRUE]

(* Where the state asks for one character and another one comes. *)
Misplaced(u) == \/ ctx.chunk \in {"sizeLF", "dataLF", "end"} /\ u.k # "lf"
                \/ ctx.chunk = "dataCR" /\ u.k # "cr"

ParseChunkedBlock ==
  /\ InBody /\ ctx.framing = "chunked" /\ buf # <<>>
  /\ IF Misplaced(buf[1]) THEN Reject
     ELSE Chunked(buf[1]) /\ buf' = Tail(buf) /\ UNCHANGED <<pc, up, headBytes, rejected>>
  /\ UNCHANGED <<stream, wire, fin, sock, served, spoilt>>

(* The buffer is used up before the body: an upload with enough of it is     *)
(* handed over, and its handler takes the part.  (A handler that refuses it, *)
(* for want of a session, leaves it in the body and is asked again with the  *)
(* next segment; the handlers here are those that serve.)                    *)
AwaitBody ==
  /\ InBody /\ buf = <<>>
  /\ ctx' = IF ctx.req.upload /\ Len(ctx.body) >= Threshold
            THEN [ctx EXCEPT !.given = @ \o ctx.body, !.body = <<>>] ELSE ctx
  /\ pc' = "idle"
  /\ UNCHANGED <<stream, wire, fin, sock, buf, up, headBytes, served, rejected, spoilt>>

(* Mutants: the context keeps the body; the rest of the buffer waits for an  *)
(* event.                                                                    *)
MutantServeKeepsBody ==
  /\ up /\ pc = "parse" /\ ctx.complete
  /\ served' = Append(served, [id |-> ctx.req.id, body |-> ctx.given \o ctx.body])
  /\ IF ctx.req.close
     THEN up' = FALSE /\ pc' = "idle" /\ UNCHANGED ctx
     ELSE ctx' = [Fresh EXCEPT !.body = ctx.body] /\ pc' = (IF buf = <<>> THEN "idle" ELSE "parse") /\ UNCHANGED up
  /\ UNCHANGED <<stream, wire, fin, sock, buf, headBytes, rejected, spoilt>>

MutantServeOnce ==
  /\ up /\ pc = "parse" /\ ctx.complete
  /\ served' = Append(served, [id |-> ctx.req.id, body |-> ctx.given \o ctx.body])
  /\ IF ctx.req.close THEN up' = FALSE /\ UNCHANGED ctx ELSE ctx' = Fresh /\ UNCHANGED up
  /\ pc' = "idle"
  /\ UNCHANGED <<stream, wire, fin, sock, buf, headBytes, rejected, spoilt>>

(* onRequest answers and may close; then the context is reset for the rest   *)
(* of the buffer.                                                            *)
Serve ==
  /\ up /\ pc = "parse" /\ ctx.complete
  /\ served' = Append(served, [id |-> ctx.req.id, body |-> ctx.given \o ctx.body])
  /\ IF ctx.req.close
     THEN up' = FALSE /\ pc' = "idle" /\ UNCHANGED ctx
     ELSE ctx' = Fresh /\ pc' = (IF buf = <<>> THEN "idle" ELSE "parse") /\ UNCHANGED up
  /\ UNCHANGED <<stream, wire, fin, sock, buf, headBytes, rejected, spoilt>>

Loop == HandleEvent \/ ParseLine \/ AwaitLine \/ ParseBodyBlock \/ ParseChunkedBlock \/ AwaitBody \/ Serve

Next == Loop \/ Fin \/ \E k \in 1..Len(wire) : Arrive(k)

Spec == Init /\ [][Next]_vars /\ WF_vars(Loop)

-----------------------------------------------------------------------------
(* Properties. *)

(* A request with an odd method and no headers is handed over as unknown. *)
Unknown(r)   == r.line = "odd" /\ r.heads = <<>> /\ r.framing = "none"
Malformed(r) == (r.line # "good" /\ ~Unknown(r)) \/ \E i \in 1..Len(r.heads) : r.heads[i] = 0 \/ r.heads[i] > MaxLine

(* The heads of the first n requests, whose sizes add up over a connection. *)
HeadSize(n) == Len(FlattenSeq([i \in 1..n |-> HeadOf(stream[i])]))

(* The requests the client means: up to one that is malformed or no longer   *)
(* fits, and to the first that asks to close.                                *)
Meant == {n \in 1..Len(stream) :
            /\ HeadSize(n) <= MaxHead
            /\ \A i \in 1..n : ~Malformed(stream[i])
            /\ \A i \in 1..n - 1 : ~stream[i].close}
Meaning == [n \in Meant |-> [id |-> IF Unknown(stream[n]) THEN 0 ELSE stream[n].id, body |-> stream[n].body]]

(* However the stream is cut, outside the lines of heads, the handler gets   *)
(* the requests in order, each once, with its own body, and no other.        *)
RequestsExact == ~spoilt => IsPrefix(served, Meaning)

(* 400 is the answer to a request that is malformed or exceeds the limits,   *)
(* after all requests before it were served, never to the rest of another.   *)
RejectedOnlyIfBad ==
  rejected /\ ~spoilt =>
    LET n == Len(served) + 1 IN n <= Len(stream) /\ (Malformed(stream[n]) \/ HeadSize(n) > MaxHead)

(* Once the client has sent all, all its requests are served, without any    *)
(* further event, unless it closes first.                                    *)
EventuallyServed == wire = <<>> ~> (spoilt \/ fin \/ served = Meaning)

=============================================================================
