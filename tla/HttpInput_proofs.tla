-------------------------- MODULE HttpInput_proofs --------------------------
(***************************************************************************)
(* RequestsExact and RejectedOnlyIfBad for every stream of requests, every *)
(* cut into segments and all limits.                                       *)
(***************************************************************************)
EXTENDS HttpInput, SequenceFacts

UnitKinds == {"cr", "lf", "good", "none", "odd", "header", "nocolon", "length", "chunked", "size", "byte"}
Units     == [k : UnitKinds, v : Nat \cup Requests, head : BOOLEAN]
CR0 == CR(FALSE)
LF0 == LF(FALSE)

Contexts ==
  [req : Requests \cup [id : {0}, upload : {FALSE}, close : BOOLEAN],
   known : BOOLEAN, headers : BOOLEAN, complete : BOOLEAN, framing : Framings, length : Nat,
   chunk : {"size", "sizeLF", "data", "dataCR", "dataLF", "trailers", "end"}, left : Nat,
   given : Seq(Nat), body : Seq(Nat)]

(* What the parser has not consumed, and the requests after the first k. *)
Rest      == sock \o wire
Todo      == buf \o Rest
Encodings == [i \in 1..Len(stream) |-> Encoded(stream[i])]
From(k)   == FlattenSeq(SubSeq(Encodings, k + 1, Len(stream)))

(* The first h lines of a head, and the others. *)
Before(r, h) == FlattenSeq(SubSeq(HeadLines(r), 1, h))
After(r, h)  == FlattenSeq(SubSeq(HeadLines(r), h + 1, LineCount(r)))

(* The context after h lines of the head of r, if none of them was refused. *)
UnknownReq(r) == [NoRequest EXCEPT !.close = r.close]
HeadCtx(r, h) ==
  IF h = 0 THEN Fresh
  ELSE IF r.line = "odd" THEN [Fresh EXCEPT !.req = UnknownReq(r)]
  ELSE IF h < LineCount(r) - 1 THEN [Fresh EXCEPT !.req = r, !.known = TRUE]
  ELSE [Fresh EXCEPT !.req = r, !.known = TRUE, !.framing = r.framing,
                     !.length = IF r.framing = "length" THEN Len(r.body) ELSE 0]

AtLine(r, h) ==
  /\ ctx = HeadCtx(r, h)
  /\ headBytes = HeadSize(Len(served)) + Len(Before(r, h))
  /\ Todo = After(r, h) \o (BodyOf(r) \o From(Len(served) + 1))
  /\ h > 0 => r.line \in {"good", "odd"} /\ (r.line = "odd" => h = 1)
  /\ \A i \in 1..Len(r.heads) : i < h => r.heads[i] \in 1..MaxLine

(* In a chunked body: x is left of the chunk the parser is in, y of what     *)
(* follows it, rest all that comes of the request.                           *)
ChunksOf(y) == IF y = <<>> THEN LastChunk ELSE ChunkOf(y) \o LastChunk
AtChunk(chunk, left, x, y, rest) ==
  \/ /\ x # <<>>
     /\ \/ chunk = "size" /\ rest = ChunkOf(x) \o ChunksOf(y)
        \/ chunk = "size" /\ left = Len(x) /\ rest = <<CR0, LF0>> \o (x \o (<<CR0, LF0>> \o ChunksOf(y)))
        \/ chunk = "sizeLF" /\ left = Len(x) /\ rest = <<LF0>> \o (x \o (<<CR0, LF0>> \o ChunksOf(y)))
        \/ chunk = "data" /\ left = Len(x) /\ rest = x \o (<<CR0, LF0>> \o ChunksOf(y))
  \/ /\ x = <<>>
     /\ \/ chunk = "dataCR" /\ rest = <<CR0, LF0>> \o ChunksOf(y)
        \/ chunk = "dataLF" /\ rest = <<LF0>> \o ChunksOf(y)
  \/ /\ x = <<>> /\ y = <<>>
     /\ \/ chunk = "size" /\ rest = LastChunk
        \/ chunk = "size" /\ left = 0 /\ rest = <<CR0, LF0, CR0, LF0>>
        \/ chunk = "sizeLF" /\ left = 0 /\ rest = <<LF0, CR0, LF0>>
        \/ chunk = "trailers" /\ rest = <<CR0, LF0>>
        \/ chunk = "end" /\ rest = <<LF0>>

Got == ctx.given \o ctx.body

AtBody(r) ==
  /\ ctx \in Contexts /\ ctx.headers /\ ctx.framing = r.framing
  /\ ctx.req = IF Unknown(r) THEN UnknownReq(r) ELSE r
  /\ ctx.length = IF r.framing = "length" THEN Len(r.body) ELSE 0
  /\ headBytes = HeadSize(Len(served) + 1) /\ ~Malformed(r)
  /\ Len(Got) <= Len(r.body) /\ Got = SubSeq(r.body, 1, Len(Got))
  /\ ctx.complete => Got = r.body /\ Todo = From(Len(served) + 1)
  /\ ~ctx.complete /\ r.framing # "chunked" =>
       r.framing = "length" /\ Todo = SubSeq(BodyUnits(r), Len(Got) + 1, Len(r.body)) \o From(Len(served) + 1)
  /\ ~ctx.complete /\ r.framing = "chunked" =>
       \E q \in Len(Got)..Len(r.body), rest \in Seq(Units) :
         /\ AtChunk(ctx.chunk, ctx.left, SubSeq(BodyUnits(r), Len(Got) + 1, q),
                    SubSeq(BodyUnits(r), q + 1, Len(r.body)), rest)
         /\ Todo = rest \o From(Len(served) + 1)

(* Where the parser is in the stream. *)
Position ==
  \/ Len(served) = Len(stream) /\ Todo = <<>> /\ ctx = Fresh /\ pc = "idle"
  \/ /\ Len(served) < Len(stream)
     /\ LET r == stream[Len(served) + 1]
        IN  (\E h \in 0..LineCount(r) - 1 : AtLine(r, h)) \/ AtBody(r)

(* A segment ends neither within a line of a head, nor does the buffer, and  *)
(* nothing stays there while the loop waits.                                 *)
Uncut ==
  /\ pc \in {"idle", "parse"} /\ (pc = "idle" => buf = <<>>)
  /\ buf # <<>> => Rest = <<>> \/ ~Last(buf).head \/ Last(buf).k = "lf"

Served ==
  /\ served \in Seq([id : Nat, body : Seq(Nat)]) /\ Len(served) <= Len(stream)
  /\ Len(served) > 0 => HeadSize(Len(served)) <= MaxHead
  /\ \A i \in 1..Len(served) :
       /\ ~Malformed(stream[i]) /\ (i < Len(served) => ~stream[i].close)
       /\ served[i] = [id |-> IF Unknown(stream[i]) THEN 0 ELSE stream[i].id, body |-> stream[i].body]

Refused ==
  /\ Len(served) < Len(stream)
  /\ Malformed(stream[Len(served) + 1]) \/ HeadSize(Len(served) + 1) > MaxHead

(* Inductive: as long as nothing was lost, the parser is at a place of the   *)
(* stream that its context stands for, and what is to come is there.         *)
InputIInv ==
  /\ stream \in Streams
  /\ ~spoilt => Served /\ (rejected => ~up /\ Refused)
  /\ ~spoilt /\ up =>
       /\ wire \in Seq(Units) /\ sock \in Seq(Units) /\ buf \in Seq(Units)
       /\ headBytes <= MaxHead /\ (\A i \in 1..Len(served) : ~stream[i].close)
       /\ Uncut /\ Position

-----------------------------------------------------------------------------
(* Types of what a client sends. *)
LEMMA UnitTyped ==
  ASSUME NEW k \in UnitKinds, NEW v \in Nat \cup Requests, NEW h \in BOOLEAN
  PROVE  Unit(k, v, h) \in Units /\ Unit(k, v, h).k = k /\ Unit(k, v, h).v = v /\ Unit(k, v, h).head = h
BY DEF Unit, Units

LEMMA LineEnd ==
  ASSUME NEW h \in BOOLEAN
  PROVE  /\ CR(h) \in Units /\ CR(h).k = "cr" /\ CR(h).head = h
         /\ LF(h) \in Units /\ LF(h).k = "lf" /\ LF(h).head = h
<1>1. "cr" \in UnitKinds /\ "lf" \in UnitKinds /\ 0 \in Nat \cup Requests
  BY DEF UnitKinds
<1>2. QED BY <1>1, UnitTyped DEF CR, LF

LEMMA EndTyped == ASSUME NEW h \in BOOLEAN PROVE <<CR(h), LF(h)>> \in Seq(Units) /\ Len(<<CR(h), LF(h)>>) = 2
<1> DEFINE c == CR(h)
           l == LF(h)
<1>1. c \in Units /\ l \in Units
  BY LineEnd
<1> HIDE DEF c, l
<1>2. <<c, l>> \in Seq(Units) /\ Len(<<c, l>>) = 2
  BY <1>1
<1>3. QED BY <1>2 DEF c, l

(* A text that could be a line: it has no line end in it. *)
IsText(text) ==
  text \in Seq(Units) /\ \A j \in 1..Len(text) : text[j].k \notin {"cr", "lf"} /\ text[j].head

LEMMA BytesText ==
  ASSUME NEW k \in UnitKinds, k \notin {"cr", "lf"}, NEW n \in Nat
  PROVE  IsText(Bytes(k, n)) /\ Len(Bytes(k, n)) = n /\ \A j \in 1..n : Bytes(k, n)[j].k = k
<1> DEFINE u == Unit(k, n, TRUE)
<1>1. u \in Units /\ u.k = k /\ u.head = TRUE
  BY UnitTyped
<1> HIDE DEF u
<1>2. Bytes(k, n) = [i \in 1..n |-> u]
  BY DEF Bytes, u
<1>3. Bytes(k, n) \in [1..n -> Units] /\ \A j \in 1..n : Bytes(k, n)[j] = u
  BY <1>1, <1>2
<1>4. Bytes(k, n) \in Seq(Units) /\ Len(Bytes(k, n)) = n
  BY <1>3
<1>5. QED BY <1>1, <1>3, <1>4 DEF IsText

LEMMA OneText ==
  ASSUME NEW u \in Units, u.k \notin {"cr", "lf"}, u.head
  PROVE  IsText(<<u>>) /\ Len(<<u>>) = 1 /\ <<u>>[1] = u
BY DEF IsText

LEMMA Requested ==
  ASSUME NEW r \in Requests
  PROVE  /\ r.line \in {"good", "none", "odd"} /\ r.heads \in Seq(Nat) /\ Len(r.heads) \in Nat
         /\ \A i \in 1..Len(r.heads) : r.heads[i] \in Nat
         /\ r.framing \in Framings /\ r.body \in Seq(Nat) /\ Len(r.body) \in Nat
         /\ LineCount(r) \in Nat /\ LineCount(r) >= 2 + Len(r.heads)
         /\ r.framing = "none" => LineCount(r) = Len(r.heads) + 2
         /\ r.framing # "none" => LineCount(r) = Len(r.heads) + 3
<1> DEFINE n == Len(r.heads)
<1>1. r.line \in {"good", "none", "odd"}
  BY DEF Requests
<1>2. r.heads \in Seq(Nat) /\ r.framing \in Framings /\ r.body \in Seq(Nat)
  BY DEF Requests
<1>3. n \in Nat /\ Len(r.body) \in Nat
  BY <1>2, LenProperties
<1>4. \A i \in 1..n : r.heads[i] \in Nat
  BY <1>2, ElementOfSeq
<1>5. LineCount(r) = n + (IF r.framing = "none" THEN 2 ELSE 3)
  BY DEF LineCount
<1> HIDE DEF n
<1>6. /\ LineCount(r) \in Nat /\ LineCount(r) >= 2 + n
      /\ r.framing = "none" => LineCount(r) = n + 2
      /\ r.framing # "none" => LineCount(r) = n + 3
  BY <1>3, <1>5
<1>7. QED BY <1>1, <1>2, <1>3, <1>4, <1>6 DEF n

(* What the lines of a head are. *)
Single(text, k, v) == Len(text) = 1 /\ text[1].k = k /\ text[1].v = v
LineIs(r, i) ==
  /\ IsText(LineText(r, i))
  /\ i = 1 => Single(LineText(r, i), r.line, r)
  /\ i > 1 /\ i <= Len(r.heads) + 1 /\ r.heads[i - 1] = 0 =>
       Len(LineText(r, i)) = 1 /\ LineText(r, i)[1].k = "nocolon"
  /\ i > 1 /\ i <= Len(r.heads) + 1 /\ r.heads[i - 1] # 0 =>
       Len(LineText(r, i)) = r.heads[i - 1] /\ LineText(r, i)[1].k = "header"
  /\ i = LineCount(r) => LineText(r, i) = <<>>
  /\ i > Len(r.heads) + 1 /\ i < LineCount(r) =>
       Single(LineText(r, i), r.framing, Len(r.body)) /\ i = LineCount(r) - 1 /\ r.framing # "none"

LEMMA Lines ==
  ASSUME NEW r \in Requests, NEW i \in 1..LineCount(r)
  PROVE  LineIs(r, i)
<1> DEFINE text == LineText(r, i)
           heads == r.heads
           n == Len(heads)
           m == LineCount(r)
<1>1. /\ r.line \in {"good", "none", "odd"} /\ r.framing \in Framings /\ Len(r.body) \in Nat
      /\ n \in Nat /\ m \in Nat /\ m >= 2 + n /\ (r.framing = "none" => m = n + 2)
      /\ (r.framing # "none" => m = n + 3) /\ i \in 1..m
      /\ \A j \in 1..n : heads[j] \in Nat
  BY Requested
<1>t. text = IF i = 1 THEN <<Unit(r.line, r, TRUE)>>
             ELSE IF i - 1 <= n
               THEN IF heads[i - 1] = 0 THEN Bytes("nocolon", 1) ELSE Bytes("header", heads[i - 1])
             ELSE IF i = m THEN <<>> ELSE <<Unit(r.framing, Len(r.body), TRUE)>>
  BY Zenon DEF LineText
<1>q. LineIs(r, i) <=>
        /\ IsText(text)
        /\ i = 1 => Single(text, r.line, r)
        /\ i > 1 /\ i <= n + 1 /\ heads[i - 1] = 0 => Len(text) = 1 /\ text[1].k = "nocolon"
        /\ i > 1 /\ i <= n + 1 /\ heads[i - 1] # 0 => Len(text) = heads[i - 1] /\ text[1].k = "header"
        /\ i = m => text = <<>>
        /\ i > n + 1 /\ i < m => Single(text, r.framing, Len(r.body)) /\ i = m - 1 /\ r.framing # "none"
  BY Zenon DEF LineIs
<1> HIDE DEF n, m, heads
<1>2. CASE i = 1
  <2> DEFINE u == Unit(r.line, r, TRUE)
  <2>1. text = <<u>>
    BY <1>2, <1>t
  <2>2. r.line \in UnitKinds /\ r.line \notin {"cr", "lf"} /\ r \in Nat \cup Requests
    BY <1>1 DEF UnitKinds
  <2>3. u \in Units /\ u.k = r.line /\ u.v = r /\ u.head
    BY <2>2, UnitTyped
  <2> HIDE DEF u
  <2>4. IsText(<<u>>) /\ Len(<<u>>) = 1 /\ <<u>>[1] = u
    BY <2>2, <2>3, OneText
  <2> HIDE DEF text
  <2>5. IsText(text) /\ Single(text, r.line, r)
    BY <2>1, <2>3, <2>4 DEF Single
  <2>6. i # m /\ ~(i > 1) /\ ~(i > n + 1)
    BY <1>1, <1>2
  <2>7. QED BY <1>2, <1>q, <2>5, <2>6
<1>3. CASE i # 1 /\ i - 1 <= n
  <2>1. i # 1 /\ i > 1 /\ i <= n + 1 /\ i # m /\ ~(i > n + 1) /\ i - 1 \in 1..n /\ heads[i - 1] \in Nat
    BY <1>1, <1>3
  <2>2. CASE heads[i - 1] = 0
    <3>1. text = Bytes("nocolon", 1)
      BY <1>3, <1>t, <2>2
    <3>2. "nocolon" \in UnitKinds
      BY DEF UnitKinds
    <3>a. IsText(Bytes("nocolon", 1)) /\ Len(Bytes("nocolon", 1)) = 1 /\ Bytes("nocolon", 1)[1].k = "nocolon"
      <4>1. \A j \in 1..1 : Bytes("nocolon", 1)[j].k = "nocolon"
        BY <3>2, BytesText
      <4>2. IsText(Bytes("nocolon", 1)) /\ Len(Bytes("nocolon", 1)) = 1
        BY <3>2, BytesText
      <4>3. QED BY <4>1, <4>2
    <3>3. IsText(text) /\ Len(text) = 1 /\ text[1].k = "nocolon"
      BY <3>1, <3>a
    <3> HIDE DEF text
    <3>4. QED BY <1>q, <2>1, <2>2, <3>3
  <2>3. CASE heads[i - 1] # 0
    <3>1. text = Bytes("header", heads[i - 1])
      BY <1>3, <1>t, <2>3
    <3> DEFINE size == heads[i - 1]
    <3>2. "header" \in UnitKinds
      BY DEF UnitKinds
    <3>a. size \in Nat /\ size # 0
      BY <2>1, <2>3
    <3> HIDE DEF size
    <3>b. 1 \in 1..size
      BY <3>a
    <3>c. IsText(Bytes("header", size)) /\ Len(Bytes("header", size)) = size
          /\ Bytes("header", size)[1].k = "header"
      BY <3>2, <3>a, <3>b, BytesText
    <3>3. IsText(text) /\ Len(text) = heads[i - 1] /\ text[1].k = "header"
      BY <3>1, <3>c DEF size
    <3> HIDE DEF text
    <3>4. QED BY <1>q, <2>1, <2>3, <3>3
  <2>4. QED BY <2>2, <2>3
<1>5. CASE i = m
  <2>1. i # 1 /\ ~(i - 1 <= n) /\ ~(i <= n + 1) /\ ~(i < m)
    BY <1>1, <1>5
  <2>2. text = <<>>
    BY <1>5, <1>t, <2>1
  <2>3. IsText(<<>>)
    BY DEF IsText
  <2> HIDE DEF text
  <2>4. QED BY <1>5, <1>q, <2>1, <2>2, <2>3
<1>6. CASE i # 1 /\ ~(i - 1 <= n) /\ i # m
  <2> DEFINE u == Unit(r.framing, Len(r.body), TRUE)
  <2>1. text = <<u>>
    BY <1>6, <1>t
  <2>2. r.framing # "none" /\ i = m - 1 /\ ~(i <= n + 1)
    BY <1>1, <1>6
  <2>3. r.framing \in UnitKinds /\ r.framing \notin {"cr", "lf"} /\ Len(r.body) \in Nat \cup Requests
    BY <1>1 DEF UnitKinds, Framings
  <2>4. u \in Units /\ u.k = r.framing /\ u.v = Len(r.body) /\ u.head
    BY <2>3, UnitTyped
  <2> HIDE DEF u
  <2>5. IsText(<<u>>) /\ Len(<<u>>) = 1 /\ <<u>>[1] = u
    BY <2>3, <2>4, OneText
  <2> HIDE DEF text
  <2>6. IsText(text) /\ Single(text, r.framing, Len(r.body))
    BY <2>1, <2>4, <2>5 DEF Single
  <2>7. QED BY <1>6, <1>q, <2>2, <2>6
<1>7. QED BY <1>2, <1>3, <1>5, <1>6

(* A head is its lines, each with its end. *)
LEMMA HeadTyped ==
  ASSUME NEW r \in Requests
  PROVE  /\ HeadLines(r) \in Seq(Seq(Units)) /\ Len(HeadLines(r)) = LineCount(r)
         /\ \A i \in 1..LineCount(r) : HeadLines(r)[i] = LineText(r, i) \o <<CR(TRUE), LF(TRUE)>>
         /\ HeadOf(r) \in Seq(Units)
<1> DEFINE T == Seq(Units)
<1>1. LineCount(r) \in Nat
  BY Requested
<1>2. ASSUME NEW i \in 1..LineCount(r) PROVE LineText(r, i) \o <<CR(TRUE), LF(TRUE)>> \in T
  <2>1. LineText(r, i) \in Seq(Units)
    BY Lines DEF LineIs, IsText
  <2>3. <<CR(TRUE), LF(TRUE)>> \in Seq(Units)
    BY EndTyped
  <2>4. QED BY <2>1, <2>3, ConcatProperties
<1> HIDE DEF T
<1>3. HeadLines(r) \in [1..LineCount(r) -> T]
  BY <1>2 DEF HeadLines
<1>4. HeadLines(r) \in Seq(T) /\ Len(HeadLines(r)) = LineCount(r)
  BY <1>1, <1>3
<1>5. \A i \in 1..LineCount(r) : HeadLines(r)[i] = LineText(r, i) \o <<CR(TRUE), LF(TRUE)>>
  BY DEF HeadLines
<1>6. HeadOf(r) \in Seq(Units)
  BY <1>4, FlattenType DEF T, HeadOf
<1>7. QED BY <1>4, <1>5, <1>6 DEF T

(* A head is its first lines and the others; its lines are read in order. *)
LEMMA HeadParts ==
  ASSUME NEW r \in Requests, NEW h \in 0..LineCount(r)
  PROVE  /\ Before(r, h) \in Seq(Units) /\ After(r, h) \in Seq(Units)
         /\ Before(r, h) \o After(r, h) = HeadOf(r)
         /\ Len(Before(r, h)) \in Nat /\ Len(HeadOf(r)) \in Nat /\ Len(Before(r, h)) <= Len(HeadOf(r))
         /\ h = 0 => Before(r, h) = <<>> /\ After(r, h) = HeadOf(r) /\ Len(Before(r, h)) = 0
         /\ h = LineCount(r) => After(r, h) = <<>> /\ Before(r, h) = HeadOf(r)
<1> DEFINE T == Seq(Units)
           lines == HeadLines(r)
           n == LineCount(r)
           a == SubSeq(lines, 1, h)
           b == SubSeq(lines, h + 1, n)
<1>1. lines \in Seq(T) /\ Len(lines) = n /\ n \in Nat /\ h \in Nat /\ h <= n
  <2>1. lines \in Seq(T) /\ Len(lines) = n
    BY HeadTyped
  <2>2. n \in Nat
    BY Requested
  <2>3. h \in Nat /\ h <= n
    BY <2>2
  <2>4. QED BY <2>1, <2>2, <2>3
<1>2. Before(r, h) = FlattenSeq(a) /\ After(r, h) = FlattenSeq(b) /\ HeadOf(r) = FlattenSeq(lines)
  BY DEF Before, After, HeadOf
<1> HIDE DEF lines, n
<1>3. a \in Seq(T) /\ b \in Seq(T) /\ a \o b = lines /\ Len(a) = h /\ Len(b) = n - h
  <2> HIDE DEF T
  <2>1. QED BY <1>1, Cut
<1> HIDE DEF a, b
<1>4. FlattenSeq(a) \in Seq(Units) /\ FlattenSeq(b) \in Seq(Units)
  BY <1>3, FlattenType
<1>5. FlattenSeq(a \o b) = FlattenSeq(a) \o FlattenSeq(b)
  BY <1>3, FlattenConcat
<1>6. HeadOf(r) = FlattenSeq(a) \o FlattenSeq(b)
  BY <1>2, <1>3, <1>5
<1>7. /\ Len(FlattenSeq(a)) \in Nat /\ Len(FlattenSeq(b)) \in Nat
      /\ Len(HeadOf(r)) = Len(FlattenSeq(a)) + Len(FlattenSeq(b))
  BY <1>4, <1>6, LenProperties, ConcatProperties
<1>8. h = 0 => FlattenSeq(a) = <<>> /\ FlattenSeq(b) = HeadOf(r) /\ Len(FlattenSeq(a)) = 0
  <2> SUFFICES ASSUME h = 0 PROVE FlattenSeq(a) = <<>> /\ FlattenSeq(b) = HeadOf(r)
    OBVIOUS
  <2>1. a = <<>>
    <3> HIDE DEF T
    <3>1. QED BY <1>3, EmptySeq
  <2>2. FlattenSeq(a) = <<>>
    BY <2>1, FlattenEmpty
  <2>3. QED BY <1>4, <1>6, <2>2, ConcatEmptySeq
<1>9. h = n => FlattenSeq(b) = <<>> /\ FlattenSeq(a) = HeadOf(r)
  <2> SUFFICES ASSUME h = n PROVE FlattenSeq(b) = <<>> /\ FlattenSeq(a) = HeadOf(r)
    OBVIOUS
  <2>1. b = <<>>
    <3> HIDE DEF T
    <3>0. Len(b) = 0
      BY <1>1, <1>3
    <3>1. QED BY <1>3, <3>0, EmptySeq
  <2>2. FlattenSeq(b) = <<>>
    BY <2>1, FlattenEmpty
  <2>3. QED BY <1>4, <1>6, <2>2, ConcatEmptySeq
<1>10. Len(FlattenSeq(a)) <= Len(HeadOf(r)) /\ Len(HeadOf(r)) \in Nat
  BY <1>7
<1>11. QED BY <1>2, <1>4, <1>6, <1>7, <1>8, <1>9, <1>10 DEF n

LEMMA HeadNext ==
  ASSUME NEW r \in Requests, NEW h \in 0..LineCount(r) - 1
  PROVE  /\ LineText(r, h + 1) \in Seq(Units)
         /\ After(r, h) = (LineText(r, h + 1) \o <<CR(TRUE), LF(TRUE)>>) \o After(r, h + 1)
         /\ Len(Before(r, h + 1)) = Len(Before(r, h)) + Len(LineText(r, h + 1)) + 2
<1> DEFINE T == Seq(Units)
           lines == HeadLines(r)
           n == LineCount(r)
           j == h + 1
           text == LineText(r, j)
           end == <<CR(TRUE), LF(TRUE)>>
<1>1. lines \in Seq(T) /\ Len(lines) = n /\ n \in Nat /\ h \in Nat /\ j \in 1..n /\ j - 1 = h
      /\ h \in 0..n /\ j \in 0..n
  <2>1. lines \in Seq(T) /\ Len(lines) = n
    BY HeadTyped
  <2>2. n \in Nat
    BY Requested
  <2>3. h \in Nat /\ j \in 1..n /\ j - 1 = h /\ h \in 0..n /\ j \in 0..n
    BY <2>2
  <2>4. QED BY <2>1, <2>2, <2>3
<1>2. lines[j] = text \o end
  BY <1>1, HeadTyped
<1>3. text \in Seq(Units) /\ end \in Seq(Units) /\ Len(end) = 2
  <2>1. text \in Seq(Units)
    BY <1>1, Lines DEF LineIs, IsText
  <2>2. QED BY <2>1, EndTyped
<1>4. /\ Before(r, h) = FlattenSeq(SubSeq(lines, 1, h)) /\ Before(r, j) = FlattenSeq(SubSeq(lines, 1, j))
      /\ After(r, h) = FlattenSeq(SubSeq(lines, j, n)) /\ After(r, j) = FlattenSeq(SubSeq(lines, j + 1, n))
  BY DEF Before, After
<1>5. Before(r, h) \in Seq(Units)
  BY <1>1, HeadParts
<1> HIDE DEF lines, n, j, text, end
<1>6. FlattenSeq(SubSeq(lines, j, n)) = lines[j] \o FlattenSeq(SubSeq(lines, j + 1, n))
  BY <1>1, FlattenFirst
<1>7. FlattenSeq(SubSeq(lines, 1, j)) = FlattenSeq(SubSeq(lines, 1, h)) \o lines[j]
  BY <1>1, FlattenLast
<1>8. Before(r, j) = Before(r, h) \o (text \o end)
  BY <1>2, <1>4, <1>7
<1>9. Len(text \o end) = Len(text) + 2 /\ text \o end \in Seq(Units) /\ Len(text) \in Nat /\ Len(Before(r, h)) \in Nat
  <2>1. text \o end \in Seq(Units) /\ Len(text \o end) = Len(text) + Len(end)
    BY <1>3, ConcatProperties
  <2>2. Len(text) \in Nat /\ Len(Before(r, h)) \in Nat
    BY <1>3, <1>5, LenProperties
  <2>3. QED BY <1>3, <2>1, <2>2
<1>10. Len(Before(r, j)) = Len(Before(r, h)) + (Len(text) + 2)
  <2> DEFINE line == text \o end
             head == Before(r, h)
  <2>1. line \in Seq(Units) /\ head \in Seq(Units)
    BY <1>5, <1>9
  <2>2. Before(r, j) = head \o line
    BY <1>8
  <2> HIDE DEF line, head
  <2>3. Len(head \o line) = Len(head) + Len(line)
    BY <2>1, ConcatProperties
  <2>4. QED BY <1>9, <2>2, <2>3 DEF line, head
<1>11. Len(Before(r, j)) = Len(Before(r, h)) + Len(text) + 2
  BY <1>9, <1>10
<1>12. QED BY <1>2, <1>3, <1>4, <1>6, <1>11 DEF j, text, end

(* Bodies, and the chunks that some of them come in. *)
LEMMA BodyTyped ==
  ASSUME NEW r \in Requests
  PROVE  /\ BodyUnits(r) \in Seq(Units) /\ Len(BodyUnits(r)) = Len(r.body)
         /\ \A i \in 1..Len(r.body) : BodyUnits(r)[i].v = r.body[i] /\ r.body[i] \in Nat
<1> DEFINE body == r.body
           n == Len(body)
           u(i) == Unit("byte", body[i], FALSE)
<1>1. n \in Nat /\ body \in Seq(Nat)
  BY Requested
<1>2. ASSUME NEW i \in 1..n PROVE body[i] \in Nat /\ u(i) \in Units /\ u(i).v = body[i]
  <2>1. body[i] \in Nat
    BY <1>1, ElementOfSeq
  <2>2. "byte" \in UnitKinds /\ body[i] \in Nat \cup Requests
    BY <2>1 DEF UnitKinds
  <2>3. QED BY <2>1, <2>2, UnitTyped
<1>3. BodyUnits(r) = [i \in 1..n |-> u(i)]
  BY DEF BodyUnits
<1> HIDE DEF body, n, u
<1>4. BodyUnits(r) \in [1..n -> Units] /\ \A i \in 1..n : BodyUnits(r)[i] = u(i)
  BY <1>2, <1>3
<1>5. BodyUnits(r) \in Seq(Units) /\ Len(BodyUnits(r)) = n
  BY <1>1, <1>4
<1>6. QED BY <1>2, <1>4, <1>5 DEF n, body

SizeUnit(n) == Unit("size", n, FALSE)
LEMMA SizeTyped ==
  ASSUME NEW n \in Nat
  PROVE  SizeUnit(n) \in Units /\ SizeUnit(n).k = "size" /\ SizeUnit(n).v = n
<1>1. "size" \in UnitKinds /\ n \in Nat \cup Requests
  BY DEF UnitKinds
<1>2. QED BY <1>1, UnitTyped DEF SizeUnit

LEMMA EndUnits ==
  /\ CR0 \in Units /\ CR0.k = "cr" /\ ~CR0.head /\ LF0 \in Units /\ LF0.k = "lf" /\ ~LF0.head
  /\ <<CR0, LF0>> \in Seq(Units)
<1>1. CR0 \in Units /\ CR0.k = "cr" /\ ~CR0.head /\ LF0 \in Units /\ LF0.k = "lf" /\ ~LF0.head
  BY LineEnd DEF CR0, LF0
<1>2. <<CR0, LF0>> \in Seq(Units)
  BY EndTyped DEF CR0, LF0
<1>3. QED BY <1>1, <1>2

LEMMA ChunkIs ==
  ASSUME NEW b \in Seq(Units)
  PROVE  /\ ChunkOf(b) \in Seq(Units)
         /\ ChunkOf(b) = (<<SizeUnit(Len(b))>> \o <<CR0, LF0>>) \o (b \o <<CR0, LF0>>)
<1> DEFINE s == SizeUnit(Len(b))
           e == <<CR0, LF0>>
<1>1. s \in Units /\ e \in Seq(Units) /\ CR0 \in Units /\ LF0 \in Units
  BY EndUnits, SizeTyped, LenProperties
<1>2. ChunkOf(b) = (<<s, CR0, LF0>> \o b) \o e
  BY DEF ChunkOf, CR0, LF0, SizeUnit
<1> HIDE DEF s
<1>3. <<s, CR0, LF0>> = <<s>> \o <<CR0, LF0>> /\ <<s, CR0, LF0>> \in Seq(Units)
  <2>1. Tuples(Units, s, CR0, LF0)
    <3> HIDE DEF e
    <3>1. QED BY <1>1, TupleParts
  <2>2. QED BY <2>1, Zenon DEF Tuples
<1> DEFINE f == <<s, CR0, LF0>>
<1> HIDE DEF e, f
<1>4. f \in Seq(Units) /\ b \in Seq(Units) /\ e \in Seq(Units) /\ (f \o b) \o e = f \o (b \o e)
  BY <1>1, <1>3, ConcatAssociative DEF f
<1>5. b \o e \in Seq(Units) /\ f \o (b \o e) \in Seq(Units)
  BY <1>4, ConcatProperties
<1>6. ChunkOf(b) = f \o (b \o e)
  BY <1>2, <1>4 DEF f
<1>7. f = <<s>> \o e
  BY <1>3, Zenon DEF e, f
<1>8. ChunkOf(b) \in Seq(Units) /\ ChunkOf(b) = (<<s>> \o e) \o (b \o e)
  BY <1>5, <1>6, <1>7
<1>9. QED BY <1>8 DEF s, e

LEMMA LastChunkIs ==
  /\ LastChunk \in Seq(Units) /\ LastChunk = <<SizeUnit(0)>> \o <<CR0, LF0, CR0, LF0>>
  /\ <<CR0, LF0, CR0, LF0>> \in Seq(Units) /\ <<CR0, LF0, CR0, LF0>> = <<CR0>> \o <<LF0, CR0, LF0>>
  /\ <<LF0, CR0, LF0>> \in Seq(Units) /\ <<LF0, CR0, LF0>> = <<LF0>> \o <<CR0, LF0>>
  /\ <<CR0, LF0>> = <<CR0>> \o <<LF0>> /\ <<LF0>> \in Seq(Units) /\ <<LF0>> = <<LF0>> \o <<>>
<1> DEFINE s == SizeUnit(0)
<1>1. s \in Units /\ CR0 \in Units /\ LF0 \in Units
  BY EndUnits, SizeTyped
<1>2. LastChunk = <<s, CR0, LF0, CR0, LF0>>
  BY DEF LastChunk, CR0, LF0, SizeUnit
<1> HIDE DEF s
<1>3. Tuples(Units, s, CR0, LF0)
  BY <1>1, TupleParts
<1>4. QED BY <1>2, <1>3, Zenon DEF Tuples, s

LEMMA ChunksTyped ==
  ASSUME NEW y \in Seq(Units)
  PROVE  ChunksOf(y) \in Seq(Units)
<1>1. ChunkOf(y) \in Seq(Units) /\ LastChunk \in Seq(Units)
  BY ChunkIs, LastChunkIs
<1>2. ChunkOf(y) \o LastChunk \in Seq(Units)
  BY <1>1, ConcatProperties
<1>3. QED BY <1>1, <1>2 DEF ChunksOf

(* Where a body is chunked, it is one chunk or two, and the last. *)
LEMMA BodyIs ==
  ASSUME NEW r \in Requests
  PROVE  /\ BodyOf(r) \in Seq(Units)
         /\ r.framing # "chunked" => BodyOf(r) = BodyUnits(r)
         /\ r.framing = "chunked" /\ r.body = <<>> => BodyOf(r) = LastChunk
         /\ r.framing = "chunked" /\ r.body # <<>> =>
              \E q \in 0..Len(r.body) :
                /\ SubSeq(BodyUnits(r), 1, q) # <<>>
                /\ BodyOf(r) = ChunkOf(SubSeq(BodyUnits(r), 1, q))
                               \o ChunksOf(SubSeq(BodyUnits(r), q + 1, Len(r.body)))
<1> DEFINE b == BodyUnits(r)
           n == Len(r.body)
<1>1. b \in Seq(Units) /\ Len(b) = n /\ n \in Nat /\ (n = 0 <=> r.body = <<>>)
  <2>1. b \in Seq(Units) /\ Len(b) = n
    BY BodyTyped
  <2>2. r.body \in Seq(Nat) /\ n \in Nat
    BY Requested
  <2>3. n = 0 <=> r.body = <<>>
    BY <2>2, EmptySeq
  <2>4. QED BY <2>1, <2>2, <2>3
<1>2. CASE r.framing # "chunked"
  BY <1>1, <1>2 DEF BodyOf
<1>3. CASE r.framing = "chunked" /\ r.body = <<>>
  BY <1>3, LastChunkIs DEF BodyOf
<1>4. CASE r.framing = "chunked" /\ r.body # <<>>
  <2>0. BodyOf(r) = Half(b) \o LastChunk
    BY <1>4 DEF BodyOf
  <2>q. SUFFICES /\ BodyOf(r) \in Seq(Units)
                 /\ \E q \in 0..n :
                      SubSeq(b, 1, q) # <<>> /\ BodyOf(r) = ChunkOf(SubSeq(b, 1, q)) \o ChunksOf(SubSeq(b, q + 1, n))
    BY <1>4
  <2> HIDE DEF b, n
  <2>1. CASE n > 2
    <3> DEFINE x == SubSeq(b, 1, 2)
               y == SubSeq(b, 3, n)
    <3>0. 2 \in Nat /\ 2 <= Len(b) /\ 2 + 1 = 3
      BY <1>1, <2>1
    <3>1. x \in Seq(Units) /\ Len(x) = 2 /\ y \in Seq(Units) /\ Len(y) = n - 2
      <4>1. /\ SubSeq(b, 1, 2) \in Seq(Units) /\ Len(SubSeq(b, 1, 2)) = 2
            /\ SubSeq(b, 2 + 1, Len(b)) \in Seq(Units) /\ Len(SubSeq(b, 2 + 1, Len(b))) = Len(b) - 2
        BY <1>1, <3>0, Cut
      <4>2. QED BY <1>1, <3>0, <4>1
    <3>2. Half(b) = ChunkOf(x) \o ChunkOf(y)
      BY <1>1, <2>1 DEF Half
    <3> HIDE DEF x, y
    <3>3. x # <<>> /\ y # <<>>
      <4>1. Len(x) # 0 /\ Len(y) # 0
        BY <1>1, <2>1, <3>1
      <4>2. QED BY <3>1, <4>1, EmptySeq
    <3>4. ChunkOf(x) \in Seq(Units) /\ ChunkOf(y) \in Seq(Units) /\ LastChunk \in Seq(Units)
      BY <3>1, ChunkIs, LastChunkIs
    <3>5. (ChunkOf(x) \o ChunkOf(y)) \o LastChunk = ChunkOf(x) \o (ChunkOf(y) \o LastChunk)
      BY <3>4, ConcatAssociative
    <3>6. ChunksOf(y) = ChunkOf(y) \o LastChunk /\ ChunksOf(y) \in Seq(Units)
      BY <3>1, <3>3, ChunksTyped DEF ChunksOf
    <3>7. BodyOf(r) = ChunkOf(x) \o ChunksOf(y)
      BY <2>0, <3>2, <3>5, <3>6
    <3>8. BodyOf(r) \in Seq(Units)
      BY <3>4, <3>6, <3>7, ConcatProperties
    <3>9. 2 \in 0..n
      BY <1>1, <2>1
    <3>10. SubSeq(b, 1, 2) # <<>> /\ BodyOf(r) = ChunkOf(SubSeq(b, 1, 2)) \o ChunksOf(SubSeq(b, 2 + 1, n))
      BY <3>0, <3>3, <3>7 DEF x, y
    <3>11. QED BY <3>8, <3>9, <3>10
  <2>2. CASE ~(n > 2)
    <3>1. Half(b) = ChunkOf(b)
      BY <1>1, <2>2 DEF Half
    <3>2. ChunksOf(<<>>) = LastChunk /\ LastChunk \in Seq(Units) /\ ChunkOf(b) \in Seq(Units)
      BY <1>1, ChunkIs, LastChunkIs DEF ChunksOf
    <3>3. b # <<>>
      BY <1>1, <1>4, EmptySeq
    <3>4. SubSeq(b, 1, n) = b /\ SubSeq(b, n + 1, n) = <<>>
      BY <1>1
    <3>5. BodyOf(r) = ChunkOf(SubSeq(b, 1, n)) \o ChunksOf(SubSeq(b, n + 1, n))
      BY <2>0, <3>1, <3>2, <3>4
    <3>6. BodyOf(r) \in Seq(Units)
      BY <2>0, <3>1, <3>2, ConcatProperties
    <3>7. n \in 0..n /\ SubSeq(b, 1, n) # <<>>
      BY <1>1, <3>3, <3>4
    <3>8. QED BY <3>5, <3>6, <3>7
  <2>3. QED BY <2>1, <2>2
<1>5. QED BY <1>2, <1>3, <1>4

(* What is to come of the stream, and the sizes of its heads. *)
LEMMA EncodedTyped ==
  ASSUME NEW r \in Requests
  PROVE  Encoded(r) \in Seq(Units) /\ HeadOf(r) \in Seq(Units) /\ BodyOf(r) \in Seq(Units)
<1>1. HeadOf(r) \in Seq(Units) /\ BodyOf(r) \in Seq(Units)
  BY HeadTyped, BodyIs
<1>2. QED BY <1>1, ConcatProperties DEF Encoded

LEMMA StreamTyped ==
  ASSUME stream \in Streams
  PROVE  /\ stream \in Seq(Requests) /\ Len(stream) \in Nat
         /\ \A i \in 1..Len(stream) : stream[i] \in Requests /\ (stream[i].framing = "none" => stream[i].body = <<>>)
<1>1. stream \in Seq(Requests)
  BY HttpInputAssumption
<1>2. Len(stream) \in Nat /\ \A i \in 1..Len(stream) : stream[i] \in Requests
  BY <1>1, ElementOfSeq, LenProperties
<1>3. \A i \in 1..Len(stream) : stream[i].framing = "none" => stream[i].body = <<>>
  BY HttpInputAssumption
<1>4. QED BY <1>1, <1>2, <1>3

LEMMA FromParts ==
  ASSUME stream \in Streams, NEW k \in 0..Len(stream)
  PROVE  /\ From(k) \in Seq(Units)
         /\ k = Len(stream) => From(k) = <<>>
         /\ k < Len(stream) => /\ From(k) = Encoded(stream[k + 1]) \o From(k + 1)
                               /\ Encoded(stream[k + 1]) \in Seq(Units) /\ From(k + 1) \in Seq(Units)
<1> DEFINE T == Seq(Units)
           all == Encodings
           n == Len(stream)
           m == k + 1
<1>1. n \in Nat /\ k \in 0..n /\ k \in Nat /\ \A i \in 1..n : stream[i] \in Requests
  BY StreamTyped
<1>2. \A i \in 1..n : Encoded(stream[i]) \in T
  BY <1>1, EncodedTyped
<1>3. all = [i \in 1..n |-> Encoded(stream[i])]
  BY DEF Encodings
<1>4. /\ From(k) = FlattenSeq(SubSeq(all, m, n)) /\ From(m) = FlattenSeq(SubSeq(all, m + 1, n))
  BY DEF From
<1> HIDE DEF T, all, n
<1>5. all \in Seq(T) /\ Len(all) = n /\ \A i \in 1..n : all[i] = Encoded(stream[i])
  <2>1. all \in [1..n -> T]
    BY <1>2, <1>3
  <2>2. QED BY <1>1, <1>3, <2>1
<1>6. CASE k = n
  <2>1. SubSeq(all, m, n) = <<>>
    BY <1>1, <1>5, <1>6
  <2>2. From(k) = <<>>
    BY <1>4, <2>1, FlattenEmpty
  <2>3. From(k) \in Seq(Units)
    BY <2>2
  <2>4. ~(k < n)
    BY <1>1, <1>6
  <2>5. QED BY <1>6, <2>2, <2>3, <2>4 DEF n
<1>7. CASE k < n
  <2>1. m \in 1..n /\ k # n
    BY <1>1, <1>7
  <2>2. all[m] = Encoded(stream[m])
    BY <1>5, <2>1
  <2> HIDE DEF m
  <2>3. /\ all[m] \in Seq(Units) /\ FlattenSeq(SubSeq(all, m + 1, n)) \in Seq(Units)
        /\ FlattenSeq(SubSeq(all, m, n)) = all[m] \o FlattenSeq(SubSeq(all, m + 1, n))
    BY <1>5, <2>1, FlattenFirst DEF T
  <2>4. all[m] \in Seq(Units) /\ From(m) \in Seq(Units) /\ From(k) = all[m] \o From(m)
    BY <1>4, <2>3
  <2>5. From(k) \in Seq(Units)
    BY <2>4, ConcatProperties
  <2>6. QED BY <2>1, <2>2, <2>4, <2>5 DEF m, n
<1>8. QED BY <1>1, <1>6, <1>7

LEMMA Sizes ==
  ASSUME stream \in Streams, NEW k \in 0..Len(stream)
  PROVE  /\ HeadSize(k) \in Nat /\ HeadSize(0) = 0
         /\ k < Len(stream) => /\ HeadSize(k + 1) = HeadSize(k) + Len(HeadOf(stream[k + 1]))
                               /\ Len(HeadOf(stream[k + 1])) \in Nat /\ HeadSize(k + 1) \in Nat
<1> DEFINE T == Seq(Units)
           n == Len(stream)
           p(j) == [i \in 1..j |-> HeadOf(stream[i])]
<1>1. n \in Nat /\ k \in 0..n /\ k \in Nat /\ \A i \in 1..n : HeadOf(stream[i]) \in T
  BY StreamTyped, EncodedTyped
<1>2. HeadSize(k) = Len(FlattenSeq(p(k))) /\ HeadSize(0) = Len(FlattenSeq(p(0))) /\ HeadSize(k + 1) = Len(FlattenSeq(p(k + 1)))
  BY DEF HeadSize
<1> HIDE DEF T, n
<1>3. p(0) = <<>>
  BY <1>1
<1>4. HeadSize(0) = 0
  BY <1>2, <1>3, FlattenEmpty
<1>5. p(k) \in Seq(T) /\ Len(p(k)) = k /\ \A i \in 1..k : p(k)[i] = HeadOf(stream[i])
  <2>1. \A i \in 1..k : HeadOf(stream[i]) \in T
    BY <1>1
  <2>2. p(k) \in [1..k -> T]
    BY <2>1
  <2>3. QED BY <1>1, <2>2
<1>6. FlattenSeq(p(k)) \in Seq(Units)
  <2> HIDE DEF p
  <2>1. QED BY <1>5, FlattenType DEF T
<1>7. HeadSize(k) \in Nat
  BY <1>2, <1>6, LenProperties
<1>8. CASE k < n
  <2> DEFINE head == HeadOf(stream[k + 1])
  <2>1. k + 1 \in 1..n
    BY <1>1, <1>8
  <2>2. head \in T
    BY <1>1, <2>1
  <2>3. Len(head) \in Nat
    BY <2>2, LenProperties DEF T
  <2>4. p(k + 1) = Append(p(k), head)
    <3>1. p(k + 1) \in [1..k + 1 -> T]
      <4>1. \A i \in 1..k + 1 : HeadOf(stream[i]) \in T
        BY <1>1, <2>1
      <4>2. QED BY <4>1
    <3>2. p(k + 1) \in Seq(T) /\ Len(p(k + 1)) = k + 1
      BY <1>1, <3>1
    <3>3. p(k + 1)[k + 1] = head /\ \A i \in 1..k : p(k + 1)[i] = HeadOf(stream[i])
      BY <1>1
    <3> DEFINE a == p(k)
               b == p(k + 1)
    <3> HIDE DEF p, head, a, b
    <3>4. a \in Seq(T) /\ Len(a) = k /\ b \in Seq(T) /\ Len(b) = k + 1 /\ b[k + 1] = head
          /\ \A i \in 1..k : b[i] = a[i]
      BY <1>1, <1>5, <3>2, <3>3 DEF a, b
    <3>5. b = Append(a, head)
      BY <1>1, <2>2, <3>4
    <3>6. QED BY <3>5 DEF a, b
  <2> HIDE DEF p, head
  <2>5. FlattenSeq(Append(p(k), head)) = FlattenSeq(p(k)) \o head
    BY <1>5, <2>2, FlattenAppend DEF T
  <2>6. Len(FlattenSeq(p(k)) \o head) = Len(FlattenSeq(p(k))) + Len(head)
    BY <1>6, <2>2, ConcatProperties DEF T
  <2>7. HeadSize(k + 1) = HeadSize(k) + Len(head)
    BY <1>2, <2>4, <2>5, <2>6
  <2>8. HeadSize(k + 1) \in Nat
    BY <1>7, <2>3, <2>7
  <2>9. QED BY <1>4, <1>7, <2>3, <2>7, <2>8 DEF head
<1>9. QED BY <1>4, <1>7, <1>8 DEF n

-----------------------------------------------------------------------------
(* The first carriage return, and the first line of what is there. *)
LEMMA FirstReturn ==
  ASSUME buf \in Seq(Units)
  PROVE  /\ FirstCR \in 0..Len(buf) /\ Len(buf) \in Nat
         /\ FirstCR = 0 => \A j \in 1..Len(buf) : buf[j].k # "cr"
         /\ FirstCR # 0 => buf[FirstCR].k = "cr" /\ \A j \in 1..FirstCR - 1 : buf[j].k # "cr"
<1> DEFINE n == Len(buf)
           I == {i \in 1..n : buf[i].k = "cr"}
<1>1. n \in Nat
  BY LenProperties
<1>2. FirstCR = IF I # {} THEN Min(I) ELSE 0
  BY Zenon DEF FirstCR, SelectInSeq
<1> HIDE DEF n
<1>3. CASE I = {}
  BY <1>1, <1>2, <1>3 DEF n
<1>4. CASE I # {}
  <2>1. \E x \in I : \A y \in I : x <= y
    <3>1. I \subseteq Nat
      BY <1>1
    <3> HIDE DEF I
    <3>2. QED BY <1>4, <3>1, Least
  <2>2. FirstCR = CHOOSE x \in I : \A y \in I : x <= y
    BY <1>2, <1>4, Zenon DEF Min
  <2>3. FirstCR \in I /\ \A y \in I : FirstCR <= y
    <3> HIDE DEF I
    <3>1. QED BY <2>1, <2>2, Zenon
  <2>4. FirstCR \in 1..n /\ buf[FirstCR].k = "cr"
    BY <2>3
  <2>5. ASSUME NEW j \in 1..FirstCR - 1 PROVE buf[j].k # "cr"
    <3>1. j \in 1..n /\ ~(FirstCR <= j)
      BY <1>1, <2>4
    <3>2. QED BY <2>3, <3>1
  <2>6. FirstCR \in 0..n /\ FirstCR # 0
    BY <1>1, <2>4
  <2>7. QED BY <1>1, <2>4, <2>5, <2>6 DEF n
<1>5. QED BY <1>3, <1>4

(* The buffer begins with this line, and its rest is to come after it. *)
Begins(text, z) ==
  /\ FirstCR = Len(text) + 1 /\ FirstCR + 1 <= Len(buf)
  /\ buf[FirstCR + 1].k = "lf"
  /\ SubSeq(buf, 1, FirstCR - 1) = text
  /\ SubSeq(buf, FirstCR + 2, Len(buf)) \o Rest = z

LEMMA FirstLine ==
  ASSUME buf \in Seq(Units), Rest \in Seq(Units), NEW z \in Seq(Units), NEW text, IsText(text),
         Todo = (text \o <<CR(TRUE), LF(TRUE)>>) \o z, buf # <<>>, Uncut
  PROVE  Begins(text, z)
<1> DEFINE end == <<CR(TRUE), LF(TRUE)>>
           a == text \o end
           n == Len(text)
           m == Len(buf)
<1>1. text \in Seq(Units) /\ end \in Seq(Units) /\ Len(end) = 2 /\ \A j \in 1..n : text[j].k \notin {"cr", "lf"} /\ text[j].head
  BY EndTyped DEF IsText
<1>2. /\ end[1].k = "cr" /\ end[1].head /\ end[2].k = "lf" /\ end[2].head
  <2>1. end[1] = CR(TRUE) /\ end[2] = LF(TRUE)
    OBVIOUS
  <2>2. QED BY <2>1, LineEnd
<1>3. n \in Nat /\ m \in Nat
  BY <1>1, LenProperties
<1> HIDE DEF n, m, end
<1>j. Joined(Units, text, end, a)
  BY <1>1, Joins
<1> HIDE DEF a
<1>4. a \in Seq(Units) /\ Len(a) = n + 2
  BY <1>1, <1>j DEF Joined, n
<1>5. \A j \in 1..n : a[j] = text[j]
  BY <1>j DEF Joined, n
<1>6. a[n + 1] = end[1] /\ a[n + 2] = end[2]
  BY <1>1, <1>j DEF Joined, n
<1>7. \A j \in 1..n + 1 : a[j].head /\ a[j].k # "lf"
  <2> TAKE j \in 1..n + 1
  <2>1. CASE j \in 1..n
    BY <1>1, <1>5, <2>1
  <2>2. CASE j = n + 1
    BY <1>2, <1>6, <2>2
  <2>3. j \in 1..n \/ j = n + 1
    BY <1>3
  <2>4. QED BY <2>1, <2>2, <2>3
<1>8. buf \o Rest = a \o z
  BY DEF Todo, a, end
<1>9. n + 2 <= m
  <2> SUFFICES ASSUME m < n + 2 PROVE FALSE
    BY <1>3
  <2>1. m # 0 /\ m \in 1..n + 1 /\ m \in 1..Len(buf) /\ m \in 1..Len(a)
    <3>1. m # 0
      BY EmptySeq DEF m
    <3>2. m \in 1..n + 1 /\ m \in 1..m /\ m \in 1..n + 2
      BY <1>3, <3>1
    <3>3. QED BY <1>4, <3>1, <3>2 DEF m
  <2>2. (buf \o Rest)[m] = buf[m] /\ (a \o z)[m] = a[m]
    BY <1>4, <2>1, ConcatFirst
  <2>3. buf[m] = a[m]
    BY <1>8, <2>2
  <2>4. Last(buf).head /\ Last(buf).k # "lf"
    BY <1>7, <2>1, <2>3 DEF Last, m
  <2>5. Rest = <<>>
    BY <2>4 DEF Uncut
  <2>6. Len(buf \o Rest) = m /\ Len(a \o z) = Len(a) + Len(z) /\ Len(z) \in Nat
    <3>1. Joined(Units, a, z, a \o z)
      BY <1>4, Joins
    <3>2. buf \o Rest = buf
      BY <2>5, ConcatEmptySeq
    <3>3. QED BY <3>1, <3>2 DEF Joined, m
  <2>7. QED BY <1>3, <1>4, <1>8, <2>6
<1>10. SubSeq(buf, n + 3, m) \o Rest = z /\ \A i \in 1..n + 2 : buf[i] = a[i]
  <2>1. Advances(Units, buf, Rest, a, z)
    BY <1>4, <1>8, <1>9, Advance DEF m
  <2>2. SubSeq(buf, Len(a) + 1, m) \o Rest = z /\ \A i \in 1..Len(a) : buf[i] = a[i]
    BY <2>1 DEF Advances, m
  <2>3. Len(a) + 1 = n + 3
    BY <1>3, <1>4
  <2>4. QED BY <1>4, <2>2, <2>3
<1>11. buf[n + 1].k = "cr" /\ buf[n + 2].k = "lf" /\ \A j \in 1..n : buf[j].k # "cr" /\ buf[j] = text[j]
  <2>1. n + 1 \in 1..n + 2 /\ n + 2 \in 1..n + 2 /\ \A j \in 1..n : j \in 1..n + 2
    BY <1>3
  <2>2. QED BY <1>1, <1>2, <1>5, <1>6, <1>10, <2>1
<1>12. FirstCR = n + 1
  <2> DEFINE c == FirstCR
  <2>1. /\ c \in 0..m /\ (c = 0 => \A j \in 1..m : buf[j].k # "cr")
        /\ c # 0 => buf[c].k = "cr" /\ \A j \in 1..c - 1 : buf[j].k # "cr"
    BY FirstReturn DEF m
  <2> HIDE DEF c
  <2>2. c # 0
    <3>1. n + 1 \in 1..m
      BY <1>3, <1>9
    <3>2. QED BY <1>11, <2>1, <3>1
  <2>3. ~(c < n + 1)
    <3>1. SUFFICES ASSUME c < n + 1 PROVE FALSE
      OBVIOUS
    <3>2. c \in 1..n
      BY <1>3, <2>1, <2>2, <3>1
    <3>3. QED BY <1>11, <2>1, <2>2, <3>2
  <2>4. ~(n + 1 < c)
    <3>1. SUFFICES ASSUME n + 1 < c PROVE FALSE
      OBVIOUS
    <3>2. n + 1 \in 1..c - 1
      BY <1>3, <2>1, <3>1
    <3>3. QED BY <1>11, <2>1, <2>2, <3>2
  <2>5. c = n + 1
    BY <1>3, <2>1, <2>3, <2>4
  <2>6. QED BY <2>5 DEF c
<1>13. SubSeq(buf, 1, n) = text
  <2> DEFINE b == SubSeq(buf, 1, n)
  <2>1. b \in Seq(Units) /\ Len(b) = n /\ \A i \in 1..n : b[i] = buf[i]
    <3>1. n <= Len(buf)
      BY <1>3, <1>9 DEF m
    <3>2. QED BY <1>3, <3>1, Cut
  <2> HIDE DEF b
  <2>2. Len(b) = Len(text) /\ \A i \in 1..Len(text) : b[i] = text[i]
    BY <1>11, <2>1 DEF n
  <2>3. b = text
    BY <1>1, <2>1, <2>2, SeqEqual
  <2>4. QED BY <2>3 DEF b
<1>14. FirstCR - 1 = n /\ FirstCR + 1 = n + 2 /\ FirstCR + 2 = n + 3
  BY <1>3, <1>12
<1>15. QED BY <1>9, <1>10, <1>11, <1>12, <1>13, <1>14 DEF Begins, n, m

-----------------------------------------------------------------------------
(* The contexts of the parser within a head. *)
LEMMA FreshTyped ==
  /\ Fresh \in Contexts /\ ~Fresh.known /\ ~Fresh.headers /\ ~Fresh.complete /\ Fresh.framing = "none"
  /\ Fresh.length = 0 /\ Fresh.chunk = "size" /\ Fresh.given = <<>> /\ Fresh.body = <<>>
<1>1. NoRequest \in [id : {0}, upload : {FALSE}, close : BOOLEAN]
  BY DEF NoRequest
<1>2. "none" \in Framings /\ 0 \in Nat /\ <<>> \in Seq(Nat)
  BY DEF Framings
<1>3. Fresh \in Contexts
  BY <1>1, <1>2 DEF Fresh, Contexts
<1>4. QED BY <1>3 DEF Fresh

LEMMA HeadCtxIs ==
  ASSUME NEW r \in Requests, NEW h \in 0..LineCount(r) - 1
  PROVE  /\ HeadCtx(r, h) \in Contexts
         /\ ~HeadCtx(r, h).headers /\ ~HeadCtx(r, h).complete /\ HeadCtx(r, h).chunk = "size"
         /\ HeadCtx(r, h).given = <<>> /\ HeadCtx(r, h).body = <<>>
         /\ HeadCtx(r, h).known <=> h # 0 /\ r.line # "odd"
<1> DEFINE c == HeadCtx(r, h)
           n == LineCount(r)
           k == Len(r.body)
<1>1. r \in Requests /\ UnknownReq(r) \in [id : {0}, upload : {FALSE}, close : BOOLEAN]
  BY DEF Requests, UnknownReq, NoRequest
<1>2. r.framing \in Framings /\ k \in Nat /\ h \in Int /\ n \in Int
  BY Requested
<1>3. /\ h = 0 => c = Fresh
      /\ h # 0 /\ r.line = "odd" => c = [Fresh EXCEPT !.req = UnknownReq(r)]
      /\ h # 0 /\ r.line # "odd" /\ h < n - 1 => c = [Fresh EXCEPT !.req = r, !.known = TRUE]
      /\ h # 0 /\ r.line # "odd" /\ ~(h < n - 1) =>
           c = [Fresh EXCEPT !.req = r, !.known = TRUE, !.framing = r.framing,
                             !.length = IF r.framing = "length" THEN k ELSE 0]
  BY Zenon DEF HeadCtx
<1> HIDE DEF c, n, k
<1>4. /\ c \in Contexts /\ ~c.headers /\ ~c.complete /\ c.chunk = "size" /\ c.given = <<>> /\ c.body = <<>>
      /\ c.known <=> h # 0 /\ r.line # "odd"
  <2>1. CASE h = 0
    BY <1>3, <2>1, FreshTyped
  <2>2. CASE h # 0 /\ r.line = "odd"
    BY <1>1, <1>3, <2>2, FreshTyped DEF Contexts
  <2>3. CASE h # 0 /\ r.line # "odd" /\ h < n - 1
    BY <1>1, <1>3, <2>3, FreshTyped DEF Contexts
  <2>4. CASE h # 0 /\ r.line # "odd" /\ ~(h < n - 1)
    BY <1>1, <1>2, <1>3, <2>4, FreshTyped DEF Contexts
  <2>5. QED BY <2>1, <2>2, <2>3, <2>4
<1>5. QED BY <1>4 DEF c

(* The line after h of them, and the context it makes. *)
LEMMA NextCtx ==
  ASSUME NEW r \in Requests, NEW h \in 0..LineCount(r) - 1, h + 1 < LineCount(r)
  PROVE  /\ h = 0 /\ r.line = "good" => HeadCtx(r, h + 1) = [HeadCtx(r, h) EXCEPT !.known = TRUE, !.req = r]
         /\ h = 0 /\ r.line = "odd" => HeadCtx(r, h + 1) = [HeadCtx(r, h) EXCEPT !.req = [NoRequest EXCEPT !.close = r.close]]
         /\ h # 0 /\ r.line = "good" /\ h <= Len(r.heads) => HeadCtx(r, h + 1) = HeadCtx(r, h)
         /\ h # 0 /\ r.line = "good" /\ h > Len(r.heads) /\ r.framing = "length" =>
              HeadCtx(r, h + 1) = [HeadCtx(r, h) EXCEPT !.framing = "length", !.length = Len(r.body)]
         /\ h # 0 /\ r.line = "good" /\ h > Len(r.heads) /\ r.framing = "chunked" =>
              HeadCtx(r, h + 1) = [HeadCtx(r, h) EXCEPT !.framing = "chunked"]
<1> DEFINE a == HeadCtx(r, h)
           b == HeadCtx(r, h + 1)
           n == LineCount(r)
           m == Len(r.heads)
           k == Len(r.body)
<1>1. r.framing \in {"none", "length", "chunked"} /\ k \in Nat /\ m \in Nat /\ h \in Nat /\ n \in Nat /\ n >= m + 2
      /\ (r.framing = "none" => n = m + 2) /\ (r.framing # "none" => n = m + 3) /\ h + 1 < n /\ h + 1 # 0
  <2>1. r.framing \in {"none", "length", "chunked"} /\ k \in Nat /\ m \in Nat /\ n \in Nat /\ n >= 2 + m
        /\ (r.framing = "none" => n = m + 2) /\ (r.framing # "none" => n = m + 3)
    BY Requested DEF Framings
  <2>2. h \in Nat /\ h + 1 < n /\ h + 1 # 0
    BY <2>1
  <2> HIDE DEF n, m, k
  <2>3. QED BY <2>1, <2>2
<1>2. /\ h = 0 => a = Fresh
      /\ h # 0 /\ r.line # "odd" /\ h < n - 1 => a = [Fresh EXCEPT !.req = r, !.known = TRUE]
      /\ h + 1 # 0 /\ r.line = "odd" => b = [Fresh EXCEPT !.req = UnknownReq(r)]
      /\ h + 1 # 0 /\ r.line # "odd" /\ h + 1 < n - 1 => b = [Fresh EXCEPT !.req = r, !.known = TRUE]
      /\ h + 1 # 0 /\ r.line # "odd" /\ ~(h + 1 < n - 1) =>
           b = [Fresh EXCEPT !.req = r, !.known = TRUE, !.framing = r.framing,
                             !.length = IF r.framing = "length" THEN k ELSE 0]
  BY Zenon DEF HeadCtx
<1> HIDE DEF a, b, n, m, k
<1>3. h < n - 1
  BY <1>1
<1>4. r.framing = "none" => [Fresh EXCEPT !.req = r, !.known = TRUE] =
        [Fresh EXCEPT !.req = r, !.known = TRUE, !.framing = r.framing,
                      !.length = IF r.framing = "length" THEN k ELSE 0]
  <2>1. SUFFICES ASSUME r.framing = "none"
                 PROVE  [Fresh EXCEPT !.req = r, !.known = TRUE] =
                        [Fresh EXCEPT !.req = r, !.known = TRUE, !.framing = "none", !.length = 0]
    OBVIOUS
  <2>2. Fresh = [Fresh EXCEPT !.framing = "none", !.length = 0]
    BY FreshTyped DEF Contexts
  <2>3. QED BY <2>2
<1>5. ASSUME r.line = "good", h <= m PROVE b = [Fresh EXCEPT !.req = r, !.known = TRUE]
  <2>1. CASE h + 1 < n - 1
    BY <1>1, <1>2, <1>5, <2>1
  <2>2. CASE ~(h + 1 < n - 1)
    <3>1. r.framing = "none"
      BY <1>1, <1>5, <2>2
    <3>2. QED BY <1>1, <1>2, <1>4, <1>5, <2>2, <3>1
  <2>3. QED BY <2>1, <2>2
<1>6. ASSUME h = 0, r.line = "good" PROVE b = [a EXCEPT !.known = TRUE, !.req = r]
  <2>1. b = [Fresh EXCEPT !.req = r, !.known = TRUE] /\ a = Fresh
    BY <1>1, <1>2, <1>5, <1>6
  <2>2. QED BY <2>1 DEF Fresh
<1>7. ASSUME h = 0, r.line = "odd" PROVE b = [a EXCEPT !.req = [NoRequest EXCEPT !.close = r.close]]
  <2>1. [NoRequest EXCEPT !.close = r.close] = UnknownReq(r)
    BY Zenon DEF UnknownReq
  <2>2. QED BY <1>1, <1>2, <1>7, <2>1
<1>8. ASSUME h # 0, r.line = "good", h <= m PROVE b = a
  BY <1>1, <1>2, <1>3, <1>5, <1>8
<1>9. ASSUME h # 0, r.line = "good", h > m
      PROVE  /\ a = [Fresh EXCEPT !.req = r, !.known = TRUE]
             /\ b = [Fresh EXCEPT !.req = r, !.known = TRUE, !.framing = r.framing,
                                  !.length = IF r.framing = "length" THEN k ELSE 0]
  <2>1. ~(h + 1 < n - 1)
    BY <1>1, <1>9
  <2>2. QED BY <1>1, <1>2, <1>3, <1>9, <2>1
<1>10. ASSUME h # 0, r.line = "good", h > m, r.framing = "length"
       PROVE  b = [a EXCEPT !.framing = "length", !.length = k]
  BY <1>9, <1>10 DEF Fresh
<1>11. ASSUME h # 0, r.line = "good", h > m, r.framing = "chunked"
       PROVE  b = [a EXCEPT !.framing = "chunked"]
  <2>1. /\ a = [Fresh EXCEPT !.req = r, !.known = TRUE]
        /\ b = [Fresh EXCEPT !.req = r, !.known = TRUE, !.framing = "chunked", !.length = 0]
    BY <1>9, <1>11
  <2>2. Fresh = [Fresh EXCEPT !.length = 0]
    BY FreshTyped DEF Contexts
  <2>3. QED BY <2>1, <2>2
<1>12. QED BY <1>6, <1>7, <1>8, <1>10, <1>11 DEF a, b, m, k

-----------------------------------------------------------------------------
(* What the steps of the loop leave alone. *)
LEMMA Frame ==
  ASSUME UNCHANGED <<stream, served>>
  PROVE  /\ Served' <=> Served
         /\ Refused' <=> Refused
         /\ \A k : From(k)' = From(k) /\ HeadSize(k)' = HeadSize(k)
<1>1. \A k : HeadSize(k)' = HeadSize(k)
  BY DEF HeadSize
<1>2. \A k : From(k)' = From(k)
  BY DEF From, Encodings
<1>3. Served' <=> Served
  BY <1>1 DEF Served
<1>4. Refused' <=> Refused
  BY <1>1 DEF Refused
<1>5. QED BY <1>1, <1>2, <1>3, <1>4

(* The answer 400 ends the connection. *)
LEMMA RejectStep ==
  ASSUME InputIInv, ~spoilt, UNCHANGED <<stream, served, spoilt>>, up' = FALSE, Refused
  PROVE  InputIInv'
<1>1. Served /\ stream \in Streams
  BY DEF InputIInv
<1>2. Served' /\ Refused' /\ stream' \in Streams
  BY <1>1, Frame
<1>3. QED BY <1>2 DEF InputIInv

(* Other steps of the parser, which go on. *)
LEMMA ParserStep ==
  ASSUME InputIInv, ~spoilt, up, UNCHANGED <<stream, wire, sock, served, rejected, spoilt>>,
         buf' \in Seq(Units), headBytes' <= MaxHead, Uncut', Position'
  PROVE  InputIInv'
<1>1. /\ Served /\ stream \in Streams /\ ~rejected /\ wire \in Seq(Units) /\ sock \in Seq(Units)
      /\ \A i \in 1..Len(served) : ~stream[i].close
  BY DEF InputIInv
<1>2. Served' /\ stream' \in Streams
  BY <1>1, Frame
<1>3. ~rejected' /\ wire' \in Seq(Units) /\ sock' \in Seq(Units) /\ \A i \in 1..Len(served') : ~stream'[i].close
  BY <1>1
<1>4. QED BY <1>2, <1>3 DEF InputIInv

(* Consuming the beginning of the buffer. *)
LEMMA Consume ==
  ASSUME buf \in Seq(Units), NEW n \in Nat, n <= Len(buf), buf' = SubSeq(buf, n + 1, Len(buf)),
         pc = "parse", pc' = pc, UNCHANGED <<sock, wire>>, Uncut
  PROVE  buf' \in Seq(Units) /\ Uncut' /\ Todo' = buf' \o Rest
<1> DEFINE b == SubSeq(buf, n + 1, Len(buf))
           m == Len(buf)
<1>1. b \in Seq(Units) /\ Len(b) = m - n /\ m \in Nat /\ \A i \in 1..m - n : b[i] = buf[n + i]
  BY Cut, LenProperties
<1>2. Rest' = Rest /\ Todo' = buf' \o Rest
  BY DEF Rest, Todo
<1>3. ASSUME b # <<>> PROVE buf # <<>> /\ Last(b) = Last(buf)
  <2> HIDE DEF b
  <2>1. Len(b) # 0
    BY <1>1, <1>3, EmptySeq
  <2> HIDE DEF m
  <2>2. m - n \in 1..m - n /\ m # 0 /\ n + (m - n) = m
    BY <1>1, <2>1
  <2>3. b[m - n] = buf[m]
    <3>1. b[m - n] = buf[n + (m - n)]
      BY <1>1, <2>2
    <3>2. QED BY <2>2, <3>1
  <2>4. Last(b) = b[m - n] /\ Last(buf) = buf[m]
    BY <1>1 DEF Last, m
  <2>5. buf # <<>>
    BY <2>2, EmptySeq DEF m
  <2>6. QED BY <2>3, <2>4, <2>5
<1> HIDE DEF b
<1>4. buf' = b
  BY DEF b
<1>5. buf' # <<>> => Rest' = <<>> \/ ~Last(buf').head \/ Last(buf').k = "lf"
  BY <1>2, <1>3, <1>4 DEF Uncut
<1>6. pc' \in {"idle", "parse"} /\ (pc' = "idle" => buf' = <<>>)
  OBVIOUS
<1>7. Uncut'
  BY <1>5, <1>6 DEF Uncut
<1>8. QED BY <1>1, <1>2, <1>4, <1>7

LEMMA Where ==
  ASSUME UNCHANGED <<stream, served>>, Len(served) < Len(stream), NEW r, r = stream[Len(served) + 1],
         (\E h \in 0..LineCount(r) - 1 : AtLine(r, h)') \/ AtBody(r)'
  PROVE  Position'
<1>1. stream'[Len(served') + 1] = r /\ Len(served') < Len(stream')
  OBVIOUS
<1>2. QED BY <1>1 DEF Position

-----------------------------------------------------------------------------
(* A line of a head that is there is the one the parser expects. *)
LineThere(r, h) ==
  /\ Begins(LineText(r, h + 1), After(r, h + 1) \o (BodyOf(r) \o From(Len(served) + 1)))
  /\ FirstCR = Len(LineText(r, h + 1)) + 1 /\ FirstCR \in Nat /\ Len(LineText(r, h + 1)) \in Nat

LEMMA LineFound ==
  ASSUME stream \in Streams, buf \in Seq(Units), wire \in Seq(Units), sock \in Seq(Units), Uncut, buf # <<>>,
         Len(served) \in Nat, Len(served) < Len(stream),
         NEW r \in Requests, r = stream[Len(served) + 1], NEW h \in 0..LineCount(r) - 1, AtLine(r, h)
  PROVE  LineThere(r, h)
<1> DEFINE text == LineText(r, h + 1)
           end == <<CR(TRUE), LF(TRUE)>>
           line == text \o end
           a == After(r, h + 1)
           body == BodyOf(r)
           z == From(Len(served) + 1)
<1>1. Rest \in Seq(Units)
  BY ConcatProperties DEF Rest
<1>2. text \in Seq(Units) /\ IsText(text) /\ h + 1 \in 0..LineCount(r)
  <2>1. LineCount(r) \in Nat
    BY Requested
  <2>2. h + 1 \in 1..LineCount(r) /\ h + 1 \in 0..LineCount(r)
    BY <2>1
  <2>3. QED BY <2>2, Lines DEF LineIs, IsText
<1>3. After(r, h) = line \o a
  BY HeadNext
<1>4. a \in Seq(Units) /\ body \in Seq(Units) /\ z \in Seq(Units) /\ end \in Seq(Units)
  <2>1. a \in Seq(Units)
    BY <1>2, HeadParts
  <2>2. Len(served) + 1 \in 0..Len(stream)
    BY StreamTyped
  <2>3. z \in Seq(Units)
    BY <2>2, FromParts
  <2>4. QED BY <2>1, <2>3, EndTyped, EncodedTyped
<1>5. Todo = After(r, h) \o (body \o z)
  BY DEF AtLine
<1> HIDE DEF text, end, a, body, z
<1>6. line \in Seq(Units) /\ body \o z \in Seq(Units)
  BY <1>2, <1>4, ConcatProperties
<1> HIDE DEF line
<1>7. (line \o a) \o (body \o z) = line \o (a \o (body \o z))
  <2>1. Associates(Units, line, a, body \o z)
    BY <1>4, <1>6, Associate
  <2>2. QED BY <2>1 DEF Associates
<1>8. a \o (body \o z) \in Seq(Units)
  BY <1>4, <1>6, ConcatProperties
<1>9. Todo = (text \o <<CR(TRUE), LF(TRUE)>>) \o (a \o (body \o z))
  BY <1>3, <1>5, <1>7 DEF line, end
<1>10. Begins(text, a \o (body \o z))
  BY <1>1, <1>2, <1>8, <1>9, FirstLine
<1>11. FirstCR = Len(text) + 1 /\ Len(text) \in Nat /\ FirstCR \in Nat
  <2>1. FirstCR = Len(text) + 1
    BY <1>10 DEF Begins
  <2>2. Len(text) \in Nat
    BY <1>2, LenProperties
  <2>3. QED BY <2>1, <2>2
<1>12. QED BY <1>10, <1>11 DEF LineThere, text, a, body, z

(* What the parser does with the line after h of them. *)
LineDone(r, h) ==
  \/ h + 1 = LineCount(r) /\ EndHead
  \/ /\ h + 1 < LineCount(r) /\ Accept(HeadCtx(r, h + 1))
     /\ r.line \in {"good", "odd"} /\ (r.line = "odd" => h = 0)
     /\ h # 0 /\ h <= Len(r.heads) => r.heads[h] \in 1..MaxLine
  \/ Reject /\ Malformed(r)

LEMMA LineEffect ==
  ASSUME NEW r \in Requests, NEW h \in 0..LineCount(r) - 1, ctx = HeadCtx(r, h),
         Len(LineText(r, h + 1)) <= MaxLine, HeadLine(LineText(r, h + 1)),
         h > 0 => r.line \in {"good", "odd"} /\ (r.line = "odd" => h = 1)
  PROVE  LineDone(r, h)
<1> DEFINE n == LineCount(r)
           heads == r.heads
           m == Len(heads)
           i == h + 1
           text == LineText(r, i)
           u == text[1]
<1>1. /\ r.line \in {"good", "none", "odd"} /\ r.framing \in {"none", "length", "chunked"} /\ m \in Nat /\ n \in Nat
      /\ n >= 2 + m /\ (r.framing = "none" => n = m + 2) /\ (r.framing # "none" => n = m + 3)
      /\ \A j \in 1..m : heads[j] \in Nat
  BY Requested DEF Framings
<1>2. h \in Nat /\ i \in 1..n /\ i - 1 = h /\ h < n
  BY <1>1
<1>3. LineIs(r, i)
  BY <1>2, Lines
<1>4. /\ text \in Seq(Units)
      /\ i = 1 => Single(text, r.line, r)
      /\ i > 1 /\ i <= m + 1 /\ heads[h] = 0 => Len(text) = 1 /\ u.k = "nocolon"
      /\ i > 1 /\ i <= m + 1 /\ heads[h] # 0 => Len(text) = heads[h] /\ u.k = "header"
      /\ i = n => text = <<>>
      /\ i > m + 1 /\ i < n => Single(text, r.framing, Len(r.body)) /\ i = n - 1 /\ r.framing # "none"
  BY <1>2, <1>3 DEF LineIs, IsText
<1>5. /\ Unknown(r) <=> r.line = "odd" /\ heads = <<>> /\ r.framing = "none"
      /\ r.line # "good" /\ ~Unknown(r) => Malformed(r)
      /\ (\E j \in 1..m : heads[j] = 0 \/ heads[j] > MaxLine) => Malformed(r)
  BY DEF Unknown, Malformed
<1>6. heads \in Seq(Nat)
  BY Requested
<1>7. HeadLine(text)
  OBVIOUS
<1>8. Len(text) <= MaxLine /\ MaxLine \in Nat
  BY HttpInputAssumption
<1>9. ctx.known <=> h # 0 /\ r.line # "odd"
  BY HeadCtxIs
<1>c. h + 1 < n => /\ h = 0 /\ r.line = "good" => HeadCtx(r, i) = [ctx EXCEPT !.known = TRUE, !.req = r]
                   /\ h = 0 /\ r.line = "odd" => HeadCtx(r, i) = [ctx EXCEPT !.req = [NoRequest EXCEPT !.close = r.close]]
                   /\ h # 0 /\ r.line = "good" /\ h <= m => HeadCtx(r, i) = ctx
                   /\ h # 0 /\ r.line = "good" /\ h > m /\ r.framing = "length" =>
                        HeadCtx(r, i) = [ctx EXCEPT !.framing = "length", !.length = Len(r.body)]
                   /\ h # 0 /\ r.line = "good" /\ h > m /\ r.framing = "chunked" =>
                        HeadCtx(r, i) = [ctx EXCEPT !.framing = "chunked"]
  BY NextCtx
<1>d. LineDone(r, h) <=>
        \/ i = n /\ EndHead
        \/ /\ i < n /\ Accept(HeadCtx(r, i)) /\ r.line \in {"good", "odd"} /\ (r.line = "odd" => h = 0)
           /\ h # 0 /\ h <= m => heads[h] \in 1..MaxLine
        \/ Reject /\ Malformed(r)
  BY Zenon DEF LineDone
<1>e. HeadLine(text) => IF text = <<>> THEN EndHead ELSE IF ctx.known THEN HeaderLine(u) ELSE RequestLine(u)
  BY DEF HeadLine
<1>f. h > 0 => r.line \in {"good", "odd"} /\ (r.line = "odd" => h = 1)
  OBVIOUS
<1> HIDE DEF n, m, i, text, u, heads
<1>g. text = <<>> => Len(text) = 0
  OBVIOUS
<1>10. CASE i = n
  BY <1>4, <1>7, <1>10, <1>d, <1>e
<1>11. CASE i # n /\ h = 0
  <2>1. i = 1 /\ i < n /\ ~(h # 0) /\ ~ctx.known
    BY <1>1, <1>2, <1>9, <1>11
  <2>2. Len(text) = 1 /\ u.k = r.line /\ u.v = r
    BY <1>4, <2>1 DEF Single, u
  <2>3. text # <<>>
    BY <1>4, <2>2, <1>g
  <2>4. RequestLine(u)
    BY <1>7, <1>e, <2>1, <2>3
  <2>5. CASE r.line = "good"
    <3>1. Accept([ctx EXCEPT !.known = TRUE, !.req = u.v])
      BY <2>2, <2>4, <2>5 DEF RequestLine
    <3>2. Accept(HeadCtx(r, i))
      <4>1. [ctx EXCEPT !.known = TRUE, !.req = u.v] = HeadCtx(r, i)
        BY <1>11, <1>c, <2>1, <2>2, <2>5 DEF i
      <4>2. QED BY <3>1, <4>1, Zenon
    <3>3. QED BY <1>11, <1>d, <2>1, <2>5, <3>2
  <2>6. CASE r.line = "odd"
    <3>1. Accept([ctx EXCEPT !.req = [NoRequest EXCEPT !.close = u.v.close]])
      BY <2>2, <2>4, <2>6 DEF RequestLine
    <3>2. Accept(HeadCtx(r, i))
      <4>1. [ctx EXCEPT !.req = [NoRequest EXCEPT !.close = u.v.close]] = HeadCtx(r, i)
        BY <1>11, <1>c, <2>1, <2>2, <2>6 DEF i
      <4>2. QED BY <3>1, <4>1, Zenon
    <3>3. QED BY <1>11, <1>d, <2>1, <2>6, <3>2
  <2>7. CASE r.line = "none"
    <3>1. Reject
      BY <2>2, <2>4, <2>7 DEF RequestLine
    <3>2. Malformed(r)
      BY <1>5, <2>7
    <3>3. QED BY <1>d, <3>1, <3>2
  <2>8. QED BY <1>1, <2>5, <2>6, <2>7
<1>12. CASE i # n /\ h # 0 /\ r.line = "odd"
  <2>1. i > 1 /\ i < n /\ ~ctx.known /\ h = 1 /\ i = 2
    BY <1>1, <1>2, <1>9, <1>12, <1>f
  <2>2. text # <<>> /\ u.k \notin {"good", "odd"}
    <3>1. CASE i <= m + 1 /\ heads[h] = 0
      <4>1. Len(text) = 1 /\ u.k = "nocolon"
        BY <1>4, <2>1, <3>1
      <4>2. Len(text) # 0
        BY <4>1
      <4>3. QED BY <1>g, <4>1, <4>2
    <3>2. CASE i <= m + 1 /\ heads[h] # 0
      BY <1>4, <2>1, <3>2, <1>g
    <3>3. CASE ~(i <= m + 1)
      <4>1. i > m + 1
        BY <1>1, <1>2, <3>3
      <4>2. Single(text, r.framing, Len(r.body)) /\ r.framing # "none"
        BY <1>4, <2>1, <4>1
      <4>3. Len(text) = 1 /\ u.k = r.framing
        BY <4>2 DEF Single, u
      <4>4. QED BY <1>1, <1>4, <4>2, <4>3, <1>g
    <3>4. QED BY <3>1, <3>2, <3>3
  <2>3. RequestLine(u)
    BY <1>7, <1>e, <2>1, <2>2
  <2>4. Reject
    BY <2>2, <2>3 DEF RequestLine
  <2>5. ~Unknown(r)
    <3>1. SUFFICES ASSUME heads = <<>>, r.framing = "none" PROVE FALSE
      BY <1>5
    <3>2. m = 0
      BY <3>1 DEF m
    <3>3. QED BY <1>1, <2>1, <3>1, <3>2
  <2>6. QED BY <1>5, <1>12, <1>d, <2>4, <2>5
<1>13. CASE i # n /\ h # 0 /\ r.line # "odd"
  <2>1. i > 1 /\ i < n /\ ctx.known /\ r.line = "good"
    BY <1>1, <1>2, <1>9, <1>13, <1>f
  <2>2. CASE i <= m + 1 /\ heads[h] = 0
    <3>1. text # <<>> /\ u.k = "nocolon"
      <4>1. Len(text) = 1 /\ u.k = "nocolon"
        BY <1>4, <2>1, <2>2
      <4>2. Len(text) # 0
        BY <4>1
      <4>3. QED BY <1>g, <4>1, <4>2
    <3>2. HeaderLine(u)
      BY <1>7, <1>e, <2>1, <3>1
    <3>3. Reject
      BY <3>1, <3>2 DEF HeaderLine
    <3>4. h \in 1..m
      BY <1>1, <1>2, <1>13, <2>2
    <3>5. QED BY <1>5, <1>d, <2>2, <3>3, <3>4
  <2>3. CASE i <= m + 1 /\ heads[h] # 0
    <3>1. h \in 1..m /\ heads[h] \in Nat
      BY <1>1, <1>2, <1>13, <2>3
    <3>2. text # <<>> /\ u.k = "header" /\ heads[h] \in 1..MaxLine
      <4>1. Len(text) = heads[h] /\ u.k = "header"
        BY <1>4, <2>1, <2>3
      <4>2. heads[h] \in 1..MaxLine
        BY <1>8, <2>3, <3>1, <4>1
      <4>3. text # <<>>
        BY <2>3, <4>1, <1>g
      <4>4. QED BY <4>1, <4>2, <4>3
    <3>3. HeaderLine(u)
      BY <1>7, <1>e, <2>1, <3>2
    <3>4. Accept(ctx)
      BY <3>2, <3>3 DEF HeaderLine
    <3>5. HeadCtx(r, i) = ctx
      BY <1>13, <1>c, <2>1, <3>1, <1>1 DEF i
    <3>6. QED BY <1>d, <2>1, <3>2, <3>4, <3>5
  <2>4. CASE ~(i <= m + 1)
    <3>1. i > m + 1 /\ h > m /\ ~(h <= m)
      BY <1>1, <1>2, <2>4
    <3>2. Single(text, r.framing, Len(r.body)) /\ r.framing # "none"
      BY <1>4, <2>1, <3>1
    <3>3. Len(text) = 1 /\ u.k = r.framing /\ u.v = Len(r.body)
      BY <3>2 DEF Single, u
    <3>4. text # <<>>
      BY <3>3, <1>g
    <3>5. HeaderLine(u)
      BY <1>7, <1>e, <2>1, <3>4
    <3>6. Accept(HeadCtx(r, i))
      <4>1. CASE r.framing = "length"
        <5>1. Accept([ctx EXCEPT !.framing = "length", !.length = u.v])
          BY <3>3, <3>5, <4>1 DEF HeaderLine
        <5>2. [ctx EXCEPT !.framing = "length", !.length = u.v] = HeadCtx(r, i)
          BY <1>13, <1>c, <2>1, <3>1, <3>3, <4>1 DEF i
        <5>3. QED BY <5>1, <5>2, Zenon
      <4>2. CASE r.framing = "chunked"
        <5>1. Accept([ctx EXCEPT !.framing = "chunked"])
          BY <3>3, <3>5, <4>2 DEF HeaderLine
        <5>2. [ctx EXCEPT !.framing = "chunked"] = HeadCtx(r, i)
          BY <1>13, <1>c, <2>1, <3>1, <4>2 DEF i
        <5>3. QED BY <5>1, <5>2, Zenon
      <4>3. QED BY <1>1, <3>2, <4>1, <4>2
    <3>7. QED BY <1>d, <2>1, <3>1, <3>6
  <2>5. QED BY <2>2, <2>3, <2>4
<1>14. QED BY <1>10, <1>11, <1>12, <1>13

(* The empty line: what follows is the body.  LastCtx is the context then. *)
LEMMA LastCtx ==
  ASSUME NEW r \in Requests, r.framing = "none" => r.body = <<>>, r.line \in {"good", "odd"},
         r.line = "odd" => LineCount(r) - 1 = 1, \A i \in 1..Len(r.heads) : r.heads[i] \in 1..MaxLine
  PROVE  LET c == HeadCtx(r, LineCount(r) - 1)
         IN  /\ ~Malformed(r) /\ c.framing = r.framing
             /\ c.req = IF Unknown(r) THEN UnknownReq(r) ELSE r
             /\ c.length = IF r.framing = "length" THEN Len(r.body) ELSE 0
<1> DEFINE h == LineCount(r) - 1
           m == Len(r.heads)
           k == Len(r.body)
           c == HeadCtx(r, h)
<1>1. r.framing \in {"none", "length", "chunked"} /\ m \in Nat /\ k \in Nat /\ h \in Nat /\ h # 0 /\ ~(h < h)
      /\ r.heads \in Seq(Nat) /\ (r.framing = "none" => h = m + 1) /\ (r.framing # "none" => h = m + 2)
  <2>1. r.framing \in {"none", "length", "chunked"} /\ m \in Nat /\ k \in Nat /\ r.heads \in Seq(Nat)
        /\ LineCount(r) \in Nat /\ LineCount(r) >= 2 + m
        /\ (r.framing = "none" => LineCount(r) = m + 2) /\ (r.framing # "none" => LineCount(r) = m + 3)
    BY Requested DEF Framings
  <2> HIDE DEF m, k
  <2>2. h \in Nat /\ h # 0 /\ ~(h < h) /\ (r.framing = "none" => h = m + 1) /\ (r.framing # "none" => h = m + 2)
    BY <2>1
  <2>3. QED BY <2>1, <2>2
<1>2. /\ h # 0 /\ r.line = "odd" => c = [Fresh EXCEPT !.req = UnknownReq(r)]
      /\ h # 0 /\ r.line # "odd" /\ ~(h < h) =>
           c = [Fresh EXCEPT !.req = r, !.known = TRUE, !.framing = r.framing,
                             !.length = IF r.framing = "length" THEN k ELSE 0]
  BY Zenon DEF HeadCtx
<1>3. /\ Unknown(r) <=> r.line = "odd" /\ r.heads = <<>> /\ r.framing = "none"
      /\ Malformed(r) <=> (r.line # "good" /\ ~Unknown(r)) \/ \E i \in 1..m : r.heads[i] = 0 \/ r.heads[i] > MaxLine
  BY Zenon DEF Unknown, Malformed
<1>4. MaxLine \in Nat /\ r.line \in {"good", "odd"} /\ (r.line = "odd" => h = 1) /\ \A i \in 1..m : r.heads[i] \in 1..MaxLine
  BY HttpInputAssumption
<1> HIDE DEF h, k, c
<1>5. ~(\E i \in 1..m : r.heads[i] = 0 \/ r.heads[i] > MaxLine)
  BY <1>1, <1>4
<1>6. CASE r.line = "odd"
  <2>1. m = 0 /\ r.framing = "none"
    <3> HIDE DEF m
    <3>1. QED BY <1>1, <1>4, <1>6
  <2>2. r.heads = <<>>
    BY <1>1, <2>1, EmptySeq DEF m
  <2>3. Unknown(r) /\ ~Malformed(r)
    BY <1>3, <1>5, <1>6, <2>1, <2>2
  <2>4. c.framing = r.framing /\ c.req = UnknownReq(r) /\ c.length = 0
    BY <1>1, <1>2, <1>6, <2>1, FreshTyped DEF Contexts
  <2>5. QED BY <2>1, <2>3, <2>4 DEF c, k, h
<1>7. CASE r.line = "good"
  <2>1. ~Unknown(r) /\ ~Malformed(r)
    BY <1>3, <1>5, <1>7
  <2>2. c.framing = r.framing /\ c.req = r /\ c.length = IF r.framing = "length" THEN k ELSE 0
    BY <1>1, <1>2, <1>7, FreshTyped DEF Contexts
  <2>3. QED BY <2>1, <2>2 DEF c, k, h
<1>8. QED BY <1>4, <1>6, <1>7

LEMMA HeadEnds ==
  ASSUME stream \in Streams, NEW r \in Requests, NEW k \in Nat, k = Len(served), k < Len(stream), r = stream[k + 1],
         AtLine(r, LineCount(r) - 1), UNCHANGED <<stream, served>>,
         ctx' = [ctx EXCEPT !.headers = TRUE, !.complete = ctx.framing # "chunked" /\ ctx.length = 0],
         headBytes' = headBytes + 2, LineText(r, LineCount(r)) = <<>>,
         Todo' = After(r, LineCount(r)) \o (BodyOf(r) \o From(k + 1))
  PROVE  AtBody(r)'
<1> DEFINE n == LineCount(r)
           h == n - 1
           b == BodyUnits(r)
           size == Len(r.body)
           z == From(k + 1)
<1>1. /\ n \in Nat /\ n >= 2 /\ h \in 0..n - 1 /\ h \in Nat /\ h > 0 /\ h + 1 = n /\ n \in 0..n /\ size \in Nat
      /\ Len(r.heads) \in Nat /\ (\A i \in 1..Len(r.heads) : i < h) /\ r.body \in Seq(Nat)
  <2>1. n \in Nat /\ n >= 2 + Len(r.heads) /\ size \in Nat /\ Len(r.heads) \in Nat /\ r.body \in Seq(Nat)
    BY Requested
  <2> DEFINE l == Len(r.heads)
  <2> HIDE DEF n, l
  <2>2. n >= 2 /\ h \in 0..n - 1 /\ h \in Nat /\ h > 0 /\ h + 1 = n /\ n \in 0..n /\ (\A i \in 1..l : i < h)
    BY <2>1 DEF l
  <2>3. QED BY <2>1, <2>2 DEF l
<1>2. r.framing \in {"none", "length", "chunked"} /\ (r.framing = "none" => r.body = <<>>)
  <2>1. k + 1 \in 1..Len(stream)
    BY StreamTyped
  <2>2. QED BY <2>1, StreamTyped, Requested DEF Framings
<1>3. /\ ctx = HeadCtx(r, h) /\ headBytes = HeadSize(k) + Len(Before(r, h))
      /\ r.line \in {"good", "odd"} /\ (r.line = "odd" => h = 1)
      /\ \A i \in 1..Len(r.heads) : r.heads[i] \in 1..MaxLine
  BY <1>1 DEF AtLine
<1>4. /\ ~Malformed(r) /\ ctx.framing = r.framing
      /\ ctx.req = IF Unknown(r) THEN UnknownReq(r) ELSE r
      /\ ctx.length = IF r.framing = "length" THEN size ELSE 0
  BY <1>2, <1>3, LastCtx
<1>5. ctx \in Contexts /\ ctx.chunk = "size" /\ ctx.given = <<>> /\ ctx.body = <<>>
  BY <1>1, <1>3, HeadCtxIs
<1>6. /\ ctx' \in Contexts /\ ctx'.headers /\ ctx'.framing = r.framing /\ ctx'.req = ctx.req /\ ctx'.length = ctx.length
      /\ ctx'.chunk = "size" /\ ctx'.given = <<>> /\ ctx'.body = <<>>
      /\ ctx'.complete = (r.framing # "chunked" /\ ctx.length = 0)
  BY <1>4, <1>5 DEF Contexts
<1>7. headBytes' = HeadSize(k + 1)
  <2>1. Len(Before(r, n)) = Len(Before(r, h)) + 0 + 2 /\ Len(Before(r, h)) \in Nat
    <3>1. Len(Before(r, h + 1)) = Len(Before(r, h)) + Len(LineText(r, h + 1)) + 2
      BY <1>1, HeadNext
    <3>2. LineText(r, h + 1) = <<>>
      BY <1>1
    <3>3. Len(Before(r, h)) \in Nat
      <4>1. h \in 0..n
        BY <1>1
      <4>2. QED BY <4>1, HeadParts
    <3>4. Len(<<>>) = 0
      OBVIOUS
    <3>5. QED BY <1>1, <3>1, <3>2, <3>3, <3>4
  <2>2. Before(r, n) = HeadOf(r)
    BY <1>1, HeadParts
  <2>3. HeadSize(k + 1) = HeadSize(k) + Len(HeadOf(r)) /\ HeadSize(k) \in Nat
    <3>1. k \in 0..Len(stream)
      BY StreamTyped
    <3>2. QED BY <3>1, Sizes
  <2>4. headBytes' = HeadSize(k) + Len(Before(r, h)) + 2
    BY <1>3
  <2> DEFINE x == HeadSize(k)
             y == Len(Before(r, h))
  <2> HIDE DEF x, y
  <2>5. x + y + 2 = x + (y + 0 + 2)
    BY <2>1, <2>3 DEF x, y
  <2>6. QED BY <2>1, <2>2, <2>3, <2>4, <2>5 DEF x, y
<1>8. z \in Seq(Units) /\ BodyOf(r) \in Seq(Units) /\ b \in Seq(Units) /\ Len(b) = size
  <2>1. k + 1 \in 0..Len(stream)
    BY StreamTyped
  <2>2. QED BY <2>1, FromParts, EncodedTyped, BodyTyped
<1>9. Todo' = BodyOf(r) \o z
  <2>1. After(r, n) = <<>>
    BY <1>1, HeadParts
  <2>2. BodyOf(r) \o z \in Seq(Units)
    BY <1>8, ConcatProperties
  <2>3. QED BY <2>1, <2>2, ConcatEmptySeq
<1>10. Got' = <<>> /\ Len(Got') = 0 /\ Got' = SubSeq(r.body, 1, 0)
  <2>1. Got' = <<>>
    BY <1>6 DEF Got
  <2>2. SubSeq(r.body, 1, 0) = <<>>
    BY <1>1
  <2>3. QED BY <2>1, <2>2
<1>11. served' = served /\ Len(served') = k /\ From(k + 1)' = z /\ HeadSize(k + 1)' = HeadSize(k + 1)
  BY Frame
<1> HIDE DEF h, n, z, b, size
<1>12. ASSUME ctx'.complete PROVE Got' = r.body /\ Todo' = z
  <2>1. r.framing # "chunked" /\ ctx.length = 0
    BY <1>6, <1>12
  <2>2. r.body = <<>>
    BY <1>1, <1>2, <1>4, <2>1, EmptySeq DEF size
  <2>3. BodyOf(r) = b /\ size = 0
    BY <2>1, <2>2, BodyIs DEF b, size
  <2>4. b = <<>>
    BY <1>8, <2>3, EmptySeq
  <2>5. QED BY <1>8, <1>9, <1>10, <2>2, <2>3, <2>4, ConcatEmptySeq
<1>13. ASSUME ~ctx'.complete, r.framing # "chunked"
       PROVE  r.framing = "length" /\ Todo' = SubSeq(b, 0 + 1, size) \o z
  <2>1. r.framing = "length"
    BY <1>2, <1>4, <1>6, <1>13
  <2>2. BodyOf(r) = b
    BY <1>13, BodyIs DEF b
  <2>3. SubSeq(b, 0 + 1, size) = b
    BY <1>8
  <2>4. QED BY <1>9, <2>1, <2>2, <2>3
<1>14. ASSUME r.framing = "chunked"
       PROVE  \E q \in 0..size, rest \in Seq(Units) :
                /\ AtChunk("size", ctx'.left, SubSeq(b, 0 + 1, q), SubSeq(b, q + 1, size), rest)
                /\ Todo' = rest \o z
  <2>1. CASE r.body = <<>>
    <3>1. size = 0 /\ SubSeq(b, 0 + 1, 0) = <<>> /\ SubSeq(b, 0 + 1, size) = <<>>
      BY <1>8, <2>1 DEF size
    <3>2. BodyOf(r) = LastChunk /\ LastChunk \in Seq(Units)
      BY <1>14, <2>1, BodyIs, LastChunkIs
    <3>3. AtChunk("size", ctx'.left, <<>>, <<>>, LastChunk)
      BY DEF AtChunk
    <3>4. AtChunk("size", ctx'.left, SubSeq(b, 0 + 1, 0), SubSeq(b, 0 + 1, size), LastChunk)
      BY <3>1, <3>3
    <3>5. 0 \in 0..size
      BY <1>1
    <3>6. QED BY <1>9, <3>2, <3>4, <3>5
  <2>2. CASE r.body # <<>>
    <3>1. PICK q \in 0..size : /\ SubSeq(b, 1, q) # <<>>
                               /\ BodyOf(r) = ChunkOf(SubSeq(b, 1, q)) \o ChunksOf(SubSeq(b, q + 1, size))
      BY <1>14, <2>2, BodyIs DEF b, size
    <3>2. AtChunk("size", ctx'.left, SubSeq(b, 1, q), SubSeq(b, q + 1, size), BodyOf(r))
      BY <3>1 DEF AtChunk
    <3>3. 0 + 1 = 1
      OBVIOUS
    <3>4. QED BY <1>8, <1>9, <3>2, <3>3
  <2>3. QED BY <2>1, <2>2
<1>15. 0 <= size
  BY <1>1
<1>16. QED
  BY <1>4, <1>6, <1>7, <1>10, <1>11, <1>12, <1>13, <1>14, <1>15 DEF AtBody, z, b, size

-----------------------------------------------------------------------------
(* The actions of the parser on a head. *)
LEMMA InHead ==
  ASSUME InputIInv, ~spoilt, up, pc = "parse", ~ctx.headers
  PROVE  /\ stream \in Streams /\ buf \in Seq(Units) /\ wire \in Seq(Units) /\ sock \in Seq(Units) /\ Uncut
         /\ Len(served) \in Nat /\ Len(served) < Len(stream) /\ headBytes <= MaxHead
         /\ \E r \in Requests : /\ r = stream[Len(served) + 1]
                                /\ \E h \in 0..LineCount(r) - 1 : AtLine(r, h)
<1>1. /\ stream \in Streams /\ buf \in Seq(Units) /\ wire \in Seq(Units) /\ sock \in Seq(Units) /\ Uncut
      /\ headBytes <= MaxHead /\ Position /\ Served
  BY DEF InputIInv
<1>2. Len(served) \in Nat
  BY <1>1, LenProperties DEF Served
<1>3. Len(served) < Len(stream) /\ \E h \in 0..LineCount(stream[Len(served) + 1]) - 1 : AtLine(stream[Len(served) + 1], h)
  BY <1>1 DEF Position, AtBody
<1>4. Len(served) + 1 \in 1..Len(stream)
  BY <1>1, <1>2, <1>3, StreamTyped
<1>5. stream[Len(served) + 1] \in Requests
  BY <1>1, <1>4, StreamTyped
<1>6. QED BY <1>1, <1>2, <1>3, <1>5

LEMMA AwaitLineStep ==
  ASSUME InputIInv, ~spoilt, AwaitLine
  PROVE  InputIInv'
<1>1. /\ up /\ pc = "parse" /\ ~ctx.headers /\ FirstCR \in {0, Len(buf)} /\ pc' = "idle"
      /\ UNCHANGED <<stream, wire, fin, sock, buf, up, ctx, headBytes, served, rejected, spoilt>>
  BY DEF AwaitLine
<1>2. /\ stream \in Streams /\ buf \in Seq(Units) /\ wire \in Seq(Units) /\ sock \in Seq(Units) /\ Uncut
      /\ Len(served) \in Nat /\ Len(served) < Len(stream) /\ headBytes <= MaxHead
  BY <1>1, InHead
<1>3. PICK r \in Requests : r = stream[Len(served) + 1] /\ \E h \in 0..LineCount(r) - 1 : AtLine(r, h)
  BY <1>1, InHead
<1>4. PICK h \in 0..LineCount(r) - 1 : AtLine(r, h)
  BY <1>3
<1>5. buf = <<>>
  <2> SUFFICES ASSUME buf # <<>> PROVE FALSE
    OBVIOUS
  <2>1. LineThere(r, h)
    BY <1>2, <1>3, <1>4, LineFound
  <2>2. FirstCR = Len(LineText(r, h + 1)) + 1 /\ Len(LineText(r, h + 1)) \in Nat /\ FirstCR + 1 <= Len(buf) /\ Len(buf) \in Nat
    BY <1>2, <2>1, LenProperties DEF LineThere, Begins
  <2>3. QED BY <1>1, <2>2
<1>6. Todo' = Todo
  BY <1>1 DEF Todo, Rest
<1>7. \A n : HeadSize(n)' = HeadSize(n) /\ From(n)' = From(n)
  BY <1>1, Frame
<1>8. AtLine(r, h)'
  BY <1>1, <1>4, <1>6, <1>7 DEF AtLine
<1>9. Position'
  BY <1>1, <1>2, <1>3, <1>8, Where
<1>10. Uncut'
  BY <1>1, <1>5 DEF Uncut
<1>11. QED BY <1>1, <1>2, <1>9, <1>10, ParserStep

(* A line that is too long, or one too many, is refused for a reason. *)
LEMMA LineRefused ==
  ASSUME stream \in Streams, NEW r \in Requests, NEW k \in Nat, k = Len(served), k < Len(stream), r = stream[k + 1],
         NEW h \in 0..LineCount(r) - 1, AtLine(r, h), NEW n, n = Len(LineText(r, h + 1)),
         n > MaxLine \/ headBytes + (n + 2) > MaxHead
  PROVE  Refused
<1> DEFINE i == h + 1
           m == Len(r.heads)
           c == LineCount(r)
<1>1. h \in Nat /\ h \in 0..c /\ i \in 1..c /\ i \in 0..c /\ i \in Nat /\ i - 1 = h /\ m \in Nat /\ c \in Nat /\ c >= 2 + m
      /\ \A j \in 1..m : r.heads[j] \in Nat
  <2>1. m \in Nat /\ c \in Nat /\ c >= 2 + m /\ \A j \in 1..m : r.heads[j] \in Nat
    BY Requested
  <2> HIDE DEF m, c
  <2>2. h \in 0..c - 1
    BY DEF c
  <2>3. h \in Nat /\ h \in 0..c /\ i \in 1..c /\ i \in 0..c /\ i \in Nat /\ i - 1 = h
    BY <2>1, <2>2
  <2>4. QED BY <2>1, <2>3
<1>2. LineIs(r, i)
  BY <1>1, Lines
<1>3. n \in Nat
  BY <1>2, LenProperties DEF LineIs, IsText
<1>4. MaxLine \in Nat /\ MaxLine >= 1 /\ MaxHead \in Nat
  BY HttpInputAssumption
<1>5. CASE n > MaxLine
  <2>1. /\ i = 1 => n = 1
        /\ i > 1 /\ i <= m + 1 /\ r.heads[h] = 0 => n = 1
        /\ i > 1 /\ i <= m + 1 /\ r.heads[h] # 0 => n = r.heads[h]
        /\ i = c => LineText(r, i) = <<>>
        /\ i > m + 1 /\ i < c => n = 1
    BY <1>1, <1>2 DEF LineIs, Single
  <2>2. i = c => n = 0
    BY <2>1
  <2> DEFINE v == r.heads[h]
  <2> HIDE DEF m, c, i
  <2>a. i \in Nat /\ i \in 1..c /\ c \in Nat /\ m \in Nat /\ n # 0 /\ n # 1
    <3> DEFINE l == MaxLine
    <3>1. n \in Nat /\ l \in Nat /\ l >= 1 /\ n > l
      BY <1>3, <1>4, <1>5
    <3> HIDE DEF l
    <3>a. ASSUME NEW x \in Nat, NEW y \in Nat, y >= 1, x > y PROVE x # 0 /\ x # 1
      BY <3>a
    <3>2. n # 0 /\ n # 1
      BY <3>1, <3>a
    <3>3. QED BY <1>1, <3>2
  <2>b. i # 1 /\ i # c /\ ~(i > m + 1 /\ i < c)
    BY <2>1, <2>2, <2>a
  <2>c. i > 1 /\ i <= m + 1
    BY <2>a, <2>b
  <2>3. i > 1 /\ i <= m + 1 /\ n = r.heads[h]
    BY <2>1, <2>a, <2>c
  <2>4. h \in 1..m /\ r.heads[h] > MaxLine
    BY <1>1, <1>5, <2>3
  <2>5. Malformed(r)
    BY <2>4 DEF Malformed, m
  <2>6. QED BY <2>5 DEF Refused
<1>6. CASE headBytes + (n + 2) > MaxHead
  <2> DEFINE a == Len(Before(r, h))
             b == Len(Before(r, i))
             w == Len(HeadOf(r))
             x == HeadSize(k)
  <2>1. b = a + n + 2 /\ headBytes = x + a
    BY HeadNext DEF AtLine
  <2>2. a \in Nat /\ b \in Nat /\ w \in Nat /\ b <= w
    <3>1. a \in Nat
      BY <1>1, HeadParts
    <3>2. b \in Nat /\ w \in Nat /\ b <= w
      BY <1>1, HeadParts
    <3>3. QED BY <3>1, <3>2
  <2>3. HeadSize(k + 1) = x + w /\ x \in Nat
    <3>1. k \in 0..Len(stream)
      BY StreamTyped
    <3>2. QED BY <3>1, Sizes
  <2> HIDE DEF a, b, w, x
  <2>4. HeadSize(k + 1) > MaxHead
    BY <1>3, <1>4, <1>6, <2>1, <2>2, <2>3
  <2>5. QED BY <2>4 DEF Refused
<1>7. QED BY <1>5, <1>6

LEMMA ParseLineStep ==
  ASSUME InputIInv, ~spoilt, ParseLine
  PROVE  InputIInv'
<1> DEFINE cr == FirstCR
           k == Len(served)
<1>1. /\ up /\ pc = "parse" /\ ~ctx.headers /\ cr # 0 /\ cr < Len(buf)
      /\ UNCHANGED <<stream, wire, fin, sock, served, spoilt>>
      /\ IF buf[cr + 1].k # "lf" \/ cr - 1 > MaxLine \/ headBytes + cr + 1 > MaxHead THEN Reject
         ELSE HeadLine(SubSeq(buf, 1, cr - 1))
  BY DEF ParseLine
<1>2. /\ stream \in Streams /\ buf \in Seq(Units) /\ wire \in Seq(Units) /\ sock \in Seq(Units) /\ Uncut
      /\ k \in Nat /\ k < Len(stream) /\ headBytes <= MaxHead
  BY <1>1, InHead
<1>3. PICK r \in Requests : r = stream[k + 1] /\ \E h \in 0..LineCount(r) - 1 : AtLine(r, h)
  BY <1>1, InHead
<1>4. PICK h \in 0..LineCount(r) - 1 : AtLine(r, h)
  BY <1>3
<1> DEFINE i == h + 1
           text == LineText(r, i)
           n == Len(text)
           z == After(r, i) \o (BodyOf(r) \o From(k + 1))
<1>5. buf # <<>>
  <2>1. Len(buf) # 0
    <3>1. cr \in 0..Len(buf) /\ Len(buf) \in Nat
      BY <1>2, FirstReturn
    <3>2. QED BY <1>1, <3>1
  <2>2. QED BY <1>2, <2>1, EmptySeq
<1>6. LineThere(r, h)
  BY <1>2, <1>3, <1>4, <1>5, LineFound
<1>7. /\ cr = n + 1 /\ n \in Nat /\ cr + 1 <= Len(buf) /\ Len(buf) \in Nat /\ buf[cr + 1].k = "lf" /\ SubSeq(buf, 1, cr - 1) = text
      /\ SubSeq(buf, cr + 2, Len(buf)) \o Rest = z
  BY <1>2, <1>6, LenProperties DEF LineThere, Begins
<1>8. headBytes \in Nat
  <2>1. h \in 0..LineCount(r) /\ k \in 0..Len(stream)
    BY <1>2, Requested, StreamTyped
  <2>2. Len(Before(r, h)) \in Nat /\ HeadSize(k) \in Nat
    BY <1>2, <2>1, HeadParts, Sizes
  <2>3. headBytes = HeadSize(k) + Len(Before(r, h))
    BY <1>4 DEF AtLine
  <2>4. QED BY <2>2, <2>3
<1>9. ctx = HeadCtx(r, h) /\ (h > 0 => r.line \in {"good", "odd"} /\ (r.line = "odd" => h = 1))
      /\ headBytes = HeadSize(k) + Len(Before(r, h))
      /\ \A j \in 1..Len(r.heads) : j < h => r.heads[j] \in 1..MaxLine
  BY <1>4 DEF AtLine
<1>10. MaxLine \in Nat /\ MaxHead \in Nat
  BY HttpInputAssumption
<1>11. \A x : HeadSize(x)' = HeadSize(x) /\ From(x)' = From(x)
  BY <1>1, Frame
<1> HIDE DEF cr, k, i, text, n, z
<1>12. CASE cr - 1 > MaxLine \/ headBytes + cr + 1 > MaxHead
  <2>1. Reject
    BY <1>1, <1>12
  <2>2. n > MaxLine \/ headBytes + (n + 2) > MaxHead
    BY <1>7, <1>8, <1>10, <1>12
  <2>3. Refused
    BY <1>2, <1>3, <1>4, <2>2, LineRefused DEF i, text, n, k
  <2>4. up' = FALSE
    BY <2>1 DEF Reject
  <2>5. QED BY <1>1, <2>3, <2>4, RejectStep
<1>13. CASE ~(cr - 1 > MaxLine \/ headBytes + cr + 1 > MaxHead)
  <2>1. HeadLine(text)
    BY <1>1, <1>7, <1>13
  <2>2. n <= MaxLine /\ headBytes + cr + 1 <= MaxHead
    BY <1>7, <1>8, <1>10, <1>13
  <2>3. LineDone(r, h)
    BY <1>9, <2>1, <2>2, LineEffect DEF i, text, n
  <2>4. ASSUME NEW c, Accept(c)
        PROVE  /\ ctx' = c /\ pc' = pc /\ up' = up /\ rejected' = rejected /\ headBytes' = headBytes + (n + 2)
               /\ headBytes' <= MaxHead /\ buf' \in Seq(Units) /\ Uncut' /\ Todo' = z
    <3>1. /\ ctx' = c /\ headBytes' = headBytes + cr + 1 /\ buf' = SubSeq(buf, cr + 2, Len(buf))
          /\ pc' = pc /\ up' = up /\ rejected' = rejected
      BY <2>4 DEF Accept, cr
    <3>2. headBytes' = headBytes + (n + 2) /\ headBytes' <= MaxHead
      BY <1>7, <1>8, <2>2, <3>1
    <3>3. cr + 1 \in Nat /\ cr + 1 <= Len(buf) /\ cr + 2 = cr + 1 + 1
      BY <1>7
    <3>4. buf' = SubSeq(buf, cr + 1 + 1, Len(buf))
      BY <3>1, <3>3
    <3>5. buf' \in Seq(Units) /\ Uncut' /\ Todo' = buf' \o Rest
      BY <1>1, <1>2, <3>1, <3>3, <3>4, Consume
    <3>6. QED BY <1>7, <3>1, <3>2, <3>5
  <2>5. CASE i = LineCount(r) /\ EndHead
    <3> DEFINE c == [ctx EXCEPT !.headers = TRUE, !.complete = ctx.framing # "chunked" /\ ctx.length = 0]
    <3>1. Accept(c)
      BY <2>5 DEF EndHead
    <3>2. /\ ctx' = c /\ pc' = pc /\ up' = up /\ rejected' = rejected /\ headBytes' = headBytes + (n + 2)
          /\ headBytes' <= MaxHead /\ buf' \in Seq(Units) /\ Uncut' /\ Todo' = z
      <4> HIDE DEF c
      <4>1. QED BY <2>4, <3>1
    <3>3. h = LineCount(r) - 1 /\ i \in 1..LineCount(r)
      BY <2>5, Requested DEF i
    <3>4. text = <<>> /\ LineText(r, LineCount(r)) = <<>>
      BY <2>5, <3>3, Lines DEF LineIs, text
    <3>5. n = 0
      BY <3>4 DEF n
    <3>6. headBytes' = headBytes + 2
      BY <3>2, <3>5
    <3>7. AtLine(r, LineCount(r) - 1)
      BY <1>4, <3>3
    <3>8. Todo' = After(r, LineCount(r)) \o (BodyOf(r) \o From(k + 1))
      BY <2>5, <3>2 DEF z
    <3>9. AtBody(r)'
      BY <1>1, <1>2, <1>3, <3>2, <3>4, <3>6, <3>7, <3>8, HeadEnds DEF k
    <3>10. Position'
      BY <1>1, <1>2, <1>3, <3>9, Where DEF k
    <3>11. QED BY <1>1, <3>2, <3>10, ParserStep
  <2>6. CASE /\ i < LineCount(r) /\ Accept(HeadCtx(r, i))
             /\ r.line \in {"good", "odd"} /\ (r.line = "odd" => h = 0)
             /\ h # 0 /\ h <= Len(r.heads) => r.heads[h] \in 1..MaxLine
    <3>1. /\ ctx' = HeadCtx(r, i) /\ pc' = pc /\ up' = up /\ rejected' = rejected /\ headBytes' = headBytes + (n + 2)
          /\ headBytes' <= MaxHead /\ buf' \in Seq(Units) /\ Uncut' /\ Todo' = z
      BY <2>4, <2>6
    <3>2. i \in 0..LineCount(r) - 1 /\ (r.line = "odd" => i = 1) /\ i > 0 /\ h \in Nat /\ i = h + 1
      BY <2>6, Requested DEF i
    <3>3. headBytes' = HeadSize(k) + Len(Before(r, i))
      <4> DEFINE a == Len(Before(r, h))
                 b == Len(Before(r, i))
                 x == HeadSize(k)
      <4>1. b = a + n + 2
        BY HeadNext DEF n, i, text
      <4>2. a \in Nat /\ x \in Nat
        <5>1. h \in 0..LineCount(r) /\ k \in 0..Len(stream)
          BY <1>2, Requested, StreamTyped
        <5>2. QED BY <1>2, <5>1, HeadParts, Sizes
      <4>3. headBytes = x + a
        BY <1>9
      <4> HIDE DEF a, b, x
      <4>4. headBytes' = x + b
        BY <1>7, <3>1, <4>1, <4>2, <4>3
      <4>5. QED BY <4>4 DEF x, b
    <3>4. \A j \in 1..Len(r.heads) : j < i => r.heads[j] \in 1..MaxLine
      <4> TAKE j \in 1..Len(r.heads)
      <4>1. CASE j < h
        BY <1>9, <4>1
      <4>2. CASE j = h
        BY <2>6, <4>2, Requested
      <4>3. j < i => j < h \/ j = h
        BY <3>2, Requested
      <4>4. QED BY <4>1, <4>2, <4>3
    <3>5. AtLine(r, i)'
      <4>0. PICK x : x = k
        OBVIOUS
      <4>1. Todo' = After(r, i) \o (BodyOf(r) \o From(x + 1)')
        BY <1>11, <3>1, <4>0 DEF z
      <4>2. headBytes' = HeadSize(x)' + Len(Before(r, i))
        BY <1>11, <3>3, <4>0
      <4>3. Len(served') = x
        BY <1>1, <4>0 DEF k
      <4>4. QED BY <2>6, <3>1, <3>2, <3>4, <4>1, <4>2, <4>3 DEF AtLine
    <3>6. Position'
      BY <1>1, <1>2, <1>3, <3>2, <3>5, Where DEF k
    <3>7. QED BY <1>1, <3>1, <3>6, ParserStep
  <2>7. CASE Reject /\ Malformed(r)
    <3>1. up' = FALSE
      BY <2>7 DEF Reject
    <3>2. Refused
      BY <1>2, <1>3, <2>7 DEF Refused, k
    <3>3. QED BY <1>1, <3>1, <3>2, RejectStep
  <2>8. QED BY <2>3, <2>5, <2>6, <2>7 DEF LineDone, i
<1>14. QED BY <1>12, <1>13

-----------------------------------------------------------------------------
(* The actions of the parser on a body. *)
LEMMA InBodyAt ==
  ASSUME InputIInv, ~spoilt, up, pc = "parse", ctx.headers \/ ctx.complete
  PROVE  /\ stream \in Streams /\ buf \in Seq(Units) /\ Rest \in Seq(Units) /\ Uncut
         /\ Len(served) \in Nat /\ Len(served) < Len(stream) /\ headBytes <= MaxHead
         /\ From(Len(served) + 1) \in Seq(Units)
         /\ \E r \in Requests : r = stream[Len(served) + 1] /\ AtBody(r)
<1>1. /\ stream \in Streams /\ buf \in Seq(Units) /\ wire \in Seq(Units) /\ sock \in Seq(Units) /\ Uncut
      /\ headBytes <= MaxHead /\ Position /\ Served
  BY DEF InputIInv
<1>2. Len(served) \in Nat
  BY <1>1, LenProperties DEF Served
<1> DEFINE k == Len(served) + 1
<1>3. Len(served) < Len(stream) /\ ((\E h \in 0..LineCount(stream[k]) - 1 : AtLine(stream[k], h)) \/ AtBody(stream[k]))
  BY <1>1 DEF Position
<1>4. k \in 1..Len(stream) /\ k \in 0..Len(stream)
  BY <1>1, <1>2, <1>3, StreamTyped
<1>5. stream[k] \in Requests
  BY <1>1, <1>4, StreamTyped
<1>6. ~(\E h \in 0..LineCount(stream[k]) - 1 : AtLine(stream[k], h))
  <2> SUFFICES ASSUME NEW h \in 0..LineCount(stream[k]) - 1, AtLine(stream[k], h) PROVE FALSE
    OBVIOUS
  <2> DEFINE r == stream[k]
  <2>1. ctx = HeadCtx(r, h)
    BY DEF AtLine
  <2>2. r \in Requests /\ h \in 0..LineCount(r) - 1
    BY <1>5
  <2> HIDE DEF r
  <2>3. QED BY <2>1, <2>2, HeadCtxIs
<1>7. Rest \in Seq(Units)
  BY <1>1, ConcatProperties DEF Rest
<1>8. From(k) \in Seq(Units)
  BY <1>1, <1>4, FromParts
<1>9. QED BY <1>1, <1>2, <1>3, <1>5, <1>6, <1>7, <1>8

(* The loop waits for more of a body; the handler takes what is there.       *)
LEMMA AwaitBodyStep ==
  ASSUME InputIInv, ~spoilt, AwaitBody
  PROVE  InputIInv'
<1>1. /\ up /\ pc = "parse" /\ ctx.headers /\ ~ctx.complete /\ buf = <<>> /\ pc' = "idle"
      /\ ctx' = IF ctx.req.upload /\ Len(ctx.body) >= Threshold
                THEN [ctx EXCEPT !.given = @ \o ctx.body, !.body = <<>>] ELSE ctx
      /\ UNCHANGED <<stream, wire, fin, sock, buf, up, headBytes, served, rejected, spoilt>>
  BY DEF AwaitBody, InBody
<1>2. /\ stream \in Streams /\ buf \in Seq(Units) /\ Uncut
      /\ Len(served) \in Nat /\ Len(served) < Len(stream) /\ headBytes <= MaxHead
  BY <1>1, InBodyAt
<1>3. PICK r \in Requests : r = stream[Len(served) + 1] /\ AtBody(r)
  BY <1>1, InBodyAt
<1>4. ctx \in Contexts
  BY <1>3 DEF AtBody
<1>5. /\ ctx' \in Contexts /\ Got' = Got
      /\ ctx'.headers = ctx.headers /\ ctx'.framing = ctx.framing /\ ctx'.req = ctx.req /\ ctx'.length = ctx.length
      /\ ctx'.complete = ctx.complete /\ ctx'.chunk = ctx.chunk /\ ctx'.left = ctx.left
  <2>1. CASE ctx' = ctx
    BY <1>4, <2>1 DEF Got
  <2>2. CASE ctx' = [ctx EXCEPT !.given = @ \o ctx.body, !.body = <<>>]
    <3>1. ctx.given \in Seq(Nat) /\ ctx.body \in Seq(Nat)
      BY <1>4 DEF Contexts
    <3> DEFINE g == ctx.given \o ctx.body
    <3>2. g \in Seq(Nat) /\ <<>> \in Seq(Nat)
      BY <3>1, ConcatProperties
    <3>3. ctx' = [ctx EXCEPT !.given = g, !.body = <<>>] /\ Got = g
      BY <2>2 DEF Got
    <3> HIDE DEF g
    <3>4. /\ ctx' \in Contexts /\ ctx'.given = g /\ ctx'.body = <<>>
          /\ ctx'.headers = ctx.headers /\ ctx'.framing = ctx.framing /\ ctx'.req = ctx.req /\ ctx'.length = ctx.length
          /\ ctx'.complete = ctx.complete /\ ctx'.chunk = ctx.chunk /\ ctx'.left = ctx.left
      BY <1>4, <3>2, <3>3 DEF Contexts
    <3>5. Got' = g
      <4>1. Got' = ctx'.given \o ctx'.body
        BY DEF Got
      <4>2. QED BY <3>2, <3>4, <4>1, ConcatEmptySeq
    <3>6. QED BY <3>3, <3>4, <3>5
  <2>3. QED BY <1>1, <2>1, <2>2
<1>6. Todo' = Todo
  BY <1>1 DEF Todo, Rest
<1>7. \A n : HeadSize(n)' = HeadSize(n) /\ From(n)' = From(n)
  BY <1>1, Frame
<1>8. AtBody(r)'
  <2>1. /\ ctx.headers /\ ctx.framing = r.framing
        /\ ctx.req = IF Unknown(r) THEN UnknownReq(r) ELSE r
        /\ ctx.length = IF r.framing = "length" THEN Len(r.body) ELSE 0
        /\ headBytes = HeadSize(Len(served) + 1) /\ ~Malformed(r)
        /\ Len(Got) <= Len(r.body) /\ Got = SubSeq(r.body, 1, Len(Got))
        /\ ~ctx.complete /\ r.framing # "chunked" =>
             r.framing = "length" /\ Todo = SubSeq(BodyUnits(r), Len(Got) + 1, Len(r.body)) \o From(Len(served) + 1)
        /\ ~ctx.complete /\ r.framing = "chunked" =>
             \E q \in Len(Got)..Len(r.body), rest \in Seq(Units) :
               /\ AtChunk(ctx.chunk, ctx.left, SubSeq(BodyUnits(r), Len(Got) + 1, q),
                          SubSeq(BodyUnits(r), q + 1, Len(r.body)), rest)
               /\ Todo = rest \o From(Len(served) + 1)
    BY <1>3 DEF AtBody
  <2>2. PICK k : k = Len(served) + 1
    OBVIOUS
  <2>3. HeadSize(k)' = HeadSize(k) /\ From(k)' = From(k) /\ Len(served') + 1 = k
    BY <1>1, <1>7, <2>2
  <2>4. QED BY <1>1, <1>5, <1>6, <2>1, <2>2, <2>3 DEF AtBody
<1>9. Position'
  BY <1>1, <1>2, <1>3, <1>8, Where
<1>10. Uncut'
  BY <1>1 DEF Uncut
<1>11. QED BY <1>1, <1>2, <1>9, <1>10, ParserStep

(* A body of known length: what is there of it, or the rest of it.           *)
LEMMA ParseBodyStep ==
  ASSUME InputIInv, ~spoilt, ParseBodyBlock
  PROVE  InputIInv'
<1> DEFINE need == ctx.length - Len(ctx.given \o ctx.body)
           m == Len(buf)
           take == IF need < m THEN need ELSE m
           v == [i \in 1..take |-> buf[i].v]
<1>1. /\ up /\ pc = "parse" /\ ctx.headers /\ ~ctx.complete /\ ctx.framing = "length"
      /\ ctx' = [ctx EXCEPT !.body = @ \o v, !.complete = take = need]
      /\ buf' = SubSeq(buf, take + 1, m)
      /\ UNCHANGED <<stream, wire, fin, sock, pc, up, headBytes, served, rejected, spoilt>>
  BY DEF ParseBodyBlock, InBody
<1>2. /\ stream \in Streams /\ buf \in Seq(Units) /\ Rest \in Seq(Units) /\ Uncut
      /\ Len(served) \in Nat /\ Len(served) < Len(stream) /\ headBytes <= MaxHead /\ From(Len(served) + 1) \in Seq(Units)
  BY <1>1, InBodyAt
<1>3. PICK r \in Requests : r = stream[Len(served) + 1] /\ AtBody(r)
  BY <1>1, InBodyAt
<1>4. PICK k : k = Len(served) + 1
  OBVIOUS
<1>5. HeadSize(k)' = HeadSize(k) /\ From(k)' = From(k) /\ Len(served') + 1 = k
  BY <1>1, <1>4, Frame
<1> DEFINE b == BodyUnits(r)
           n == Len(r.body)
           g == Len(Got)
           z == From(k)
           t == SubSeq(b, g + 1, n)
<1>6. /\ ctx \in Contexts /\ r.framing = "length" /\ ctx.length = n
      /\ ctx.req = (IF Unknown(r) THEN UnknownReq(r) ELSE r)
      /\ headBytes = HeadSize(k) /\ ~Malformed(r)
      /\ g <= n /\ Got = SubSeq(r.body, 1, g) /\ Todo = t \o z
  BY <1>1, <1>3, <1>4 DEF AtBody
<1>7. /\ b \in Seq(Units) /\ Len(b) = n /\ n \in Nat /\ r.body \in Seq(Nat)
      /\ \A i \in 1..n : b[i].v = r.body[i] /\ r.body[i] \in Nat
  BY BodyTyped, Requested
<1>8. ctx.given \in Seq(Nat) /\ ctx.body \in Seq(Nat) /\ Got \in Seq(Nat) /\ g \in Nat /\ need = n - g /\ m \in Nat
  <2>1. ctx.given \in Seq(Nat) /\ ctx.body \in Seq(Nat)
    BY <1>6 DEF Contexts
  <2>2. Got \in Seq(Nat)
    BY <2>1, ConcatProperties DEF Got
  <2>3. g \in Nat /\ m \in Nat
    BY <1>2, <2>2, LenProperties
  <2>4. need = n - g
    BY <1>6 DEF Got
  <2>5. QED BY <2>1, <2>2, <2>3, <2>4
<1> HIDE DEF need, m, n, g, b, z
<1>9. take \in Nat /\ take <= m /\ take <= n - g /\ need \in Nat /\ (take = need <=> g + take = n) /\ g + take <= n
  BY <1>6, <1>7, <1>8
<1>10. Slice(Units, b, g, n, t)
  <2>1. n \in 0..Len(b) /\ g \in 0..n
    BY <1>6, <1>7, <1>8
  <2>2. QED BY <1>7, <2>1, Slices
<1> HIDE DEF take, t
<1>11. t \in Seq(Units) /\ Len(t) = n - g /\ \A i \in 1..n - g : t[i] = b[g + i]
  BY <1>10 DEF Slice
<1>12. SubSeq(buf, take + 1, m) \o Rest = SubSeq(t, take + 1, n - g) \o z /\ \A i \in 1..take : buf[i] = t[i]
  <2>1. buf \o Rest = t \o z /\ z \in Seq(Units) /\ take <= Len(buf) /\ take <= Len(t)
    BY <1>2, <1>4, <1>6, <1>9, <1>11 DEF Todo, z, m
  <2>2. Drops(Units, buf, Rest, t, z, take)
    BY <1>2, <1>9, <1>11, <2>1, Drop
  <2>3. QED BY <1>11, <2>2 DEF Drops, m
<1>13. SubSeq(t, take + 1, n - g) = SubSeq(b, g + take + 1, n)
  BY <1>7, <1>8, <1>9, CutAgain DEF t
<1>14. v \in Seq(Nat) /\ Len(v) = take /\ \A i \in 1..take : v[i] = r.body[g + i]
  <2>1. ASSUME NEW i \in 1..take PROVE buf[i].v = r.body[g + i] /\ r.body[g + i] \in Nat
    <3> DEFINE j == g + i
    <3>1. i \in 1..n - g /\ j \in 1..n
      BY <1>7, <1>8, <1>9
    <3>2. buf[i] = t[i] /\ t[i] = b[j]
      BY <1>11, <1>12, <3>1
    <3> HIDE DEF j
    <3>3. b[j].v = r.body[j] /\ r.body[j] \in Nat
      BY <1>7, <3>1
    <3>4. QED BY <3>2, <3>3 DEF j
  <2>2. v \in [1..take -> Nat] /\ \A i \in 1..take : v[i] = r.body[g + i]
    BY <2>1
  <2>3. QED BY <1>9, <2>2
<1> HIDE DEF v
<1>15. ctx.body \o v \in Seq(Nat)
  BY <1>8, <1>14, ConcatProperties
<1>16. /\ ctx' \in Contexts /\ ctx'.headers /\ ctx'.framing = ctx.framing /\ ctx'.req = ctx.req
       /\ ctx'.length = ctx.length /\ ctx'.given = ctx.given /\ ctx'.body = ctx.body \o v /\ ctx'.complete = (take = need)
  BY <1>1, <1>6, <1>15 DEF Contexts
<1>17. Got' = SubSeq(r.body, 1, g + take) /\ Len(Got') = g + take
  <2>1. Got' = ctx.given \o (ctx.body \o v)
    BY <1>16 DEF Got
  <2>2. Associates(Nat, ctx.given, ctx.body, v)
    BY <1>8, <1>14, Associate
  <2>3. Got' = SubSeq(r.body, 1, g) \o v
    BY <1>6, <2>1, <2>2 DEF Associates, Got
  <2>4. SubSeq(r.body, 1, g) \o v = SubSeq(r.body, 1, g + Len(v))
    <3>1. g + Len(v) <= Len(r.body) /\ \A i \in 1..Len(v) : v[i] = r.body[g + i]
      BY <1>9, <1>14 DEF n
    <3>2. QED BY <1>7, <1>8, <1>14, <3>1, Longer
  <2>5. Got' = SubSeq(r.body, 1, g + take)
    BY <1>14, <2>3, <2>4
  <2>6. Len(SubSeq(r.body, 1, g + take)) = g + take
    <3>1. g + take \in Nat /\ g + take <= Len(r.body)
      BY <1>8, <1>9 DEF n
    <3> DEFINE w == g + take
    <3> HIDE DEF w
    <3>2. Len(SubSeq(r.body, 1, w)) = w
      BY <1>7, <3>1, Cut DEF w
    <3>3. QED BY <3>2 DEF w
  <2>7. QED BY <2>5, <2>6
<1>18. buf' \in Seq(Units) /\ Uncut' /\ Todo' = buf' \o Rest
  BY <1>1, <1>2, <1>9, Consume DEF m
<1>19. Todo' = SubSeq(b, g + take + 1, n) \o z
  BY <1>1, <1>12, <1>13, <1>18
<1>20. ASSUME ctx'.complete PROVE Got' = r.body /\ Todo' = z
  <2>1. g + take = n
    BY <1>9, <1>16, <1>20
  <2>2. SubSeq(r.body, 1, n) = r.body
    BY <1>7, SubSeqFull DEF n
  <2>3. SubSeq(b, n + 1, n) = <<>>
    BY <1>7, SubSeqEmpty
  <2>4. <<>> \o z = z
    BY <1>2, <1>4, ConcatEmptySeq DEF z
  <2>5. QED BY <1>17, <1>19, <2>1, <2>2, <2>3, <2>4
<1>21. AtBody(r)'
  <2>1. Len(Got') <= n
    BY <1>9, <1>17
  <2>2. SubSeq(b, Len(Got') + 1, n) = SubSeq(b, g + take + 1, n) /\ Got' = SubSeq(r.body, 1, Len(Got'))
    BY <1>17
  <2>3. QED BY <1>1, <1>5, <1>6, <1>16, <1>19, <1>20, <2>1, <2>2 DEF AtBody, b, n, z
<1>22. Position'
  BY <1>1, <1>2, <1>3, <1>21, Where
<1>23. QED BY <1>1, <1>2, <1>18, <1>22, ParserStep

(* A unit of a chunked body, and where it leads.                             *)
Moves(c, l, x, y, u, after) ==
  \/ c = "size" /\ u.k = "size" /\ u.v \in Nat /\ AtChunk("size", u.v, x, y, after)
  \/ c = "size" /\ u.k = "cr" /\ AtChunk("sizeLF", l, x, y, after)
  \/ c = "sizeLF" /\ u.k = "lf" /\ AtChunk(IF l = 0 THEN "trailers" ELSE "data", l, x, y, after)
  \/ c = "data" /\ x # <<>> /\ u = x[1] /\ l = Len(x) /\ AtChunk(IF l = 1 THEN "dataCR" ELSE "data", l - 1, Tail(x), y, after)
  \/ c = "dataCR" /\ x = <<>> /\ u.k = "cr" /\ AtChunk("dataLF", l, x, y, after)
  \/ c = "dataLF" /\ x = <<>> /\ u.k = "lf" /\ AtChunk("size", l, y, <<>>, after)
  \/ c = "trailers" /\ x = <<>> /\ y = <<>> /\ u.k = "cr" /\ AtChunk("end", l, x, y, after)
  \/ c = "end" /\ x = <<>> /\ y = <<>> /\ u.k = "lf" /\ after = <<>>

LEMMA ChunkStep ==
  ASSUME NEW x \in Seq(Units), NEW y \in Seq(Units), NEW c, NEW l, NEW rest, AtChunk(c, l, x, y, rest)
  PROVE  \E u \in Units, after \in Seq(Units) : rest = <<u>> \o after /\ Moves(c, l, x, y, u, after)
<1> DEFINE s == <<SizeUnit(Len(x))>>
           e == <<CR0, LF0>>
           lf == <<LF0>>
           cr == <<CR0>>
           w == ChunksOf(y)
           p == e \o w
           d == x \o p
<1>1. /\ SizeUnit(Len(x)) \in Units /\ SizeUnit(Len(x)).k = "size" /\ SizeUnit(Len(x)).v = Len(x) /\ Len(x) \in Nat
      /\ CR0 \in Units /\ CR0.k = "cr" /\ LF0 \in Units /\ LF0.k = "lf"
  BY SizeTyped, EndUnits, LenProperties
<1>2. /\ s \in Seq(Units) /\ e \in Seq(Units) /\ lf \in Seq(Units) /\ cr \in Seq(Units) /\ w \in Seq(Units)
      /\ e = cr \o lf
  <2>1. s \in Seq(Units) /\ cr \in Seq(Units)
    BY <1>1
  <2>2. e \in Seq(Units) /\ lf \in Seq(Units) /\ e = cr \o lf
    BY EndUnits, LastChunkIs
  <2>3. QED BY <2>1, <2>2, ChunksTyped
<1> HIDE DEF s, e, lf, cr, w
<1>3. p \in Seq(Units) /\ d \in Seq(Units)
  BY <1>2, ConcatProperties
<1>4. /\ e \o d \in Seq(Units) /\ lf \o d \in Seq(Units) /\ lf \o w \in Seq(Units)
      /\ e \o d = cr \o (lf \o d) /\ p = cr \o (lf \o w)
  <2> HIDE DEF d
  <2>1. Associates(Units, cr, lf, d) /\ Associates(Units, cr, lf, w)
    BY <1>2, <1>3, Associate
  <2>2. e \o d \in Seq(Units)
    BY <1>2, <1>3, ConcatProperties
  <2>3. QED BY <1>2, <2>1, <2>2 DEF Associates
<1>5. ChunkOf(x) \o w = s \o (e \o d)
  <2> DEFINE f == s \o e
             q == x \o e
  <2>1. ChunkOf(x) = f \o q
    BY ChunkIs DEF s, e
  <2>2. Associates(Units, s, e, d) /\ Associates(Units, x, e, w) /\ q \in Seq(Units) /\ f \in Seq(Units)
    <3>1. f \in Seq(Units) /\ q \in Seq(Units)
      BY <1>2, ConcatProperties
    <3> HIDE DEF d
    <3>2. QED BY <1>2, <1>3, <3>1, Associate
  <2> HIDE DEF f, q
  <2>3. Associates(Units, f, q, w)
    BY <1>2, <2>2, Associate
  <2>4. ChunkOf(x) \o w = f \o (q \o w)
    BY <2>1, <2>3 DEF Associates
  <2>5. q \o w = d
    BY <2>2 DEF Associates, q
  <2>6. f \o d = s \o (e \o d)
    BY <2>2 DEF Associates, f
  <2>7. QED BY <2>4, <2>5, <2>6
<1>6. SUFFICES ASSUME \A u \in Units, after \in Seq(Units) : rest = <<u>> \o after => ~Moves(c, l, x, y, u, after)
               PROVE  FALSE
  OBVIOUS
<1>7. CASE x # <<>> /\ c = "size" /\ rest = ChunkOf(x) \o ChunksOf(y)
  <2>1. rest = <<SizeUnit(Len(x))>> \o (e \o d)
    BY <1>5, <1>7 DEF s, w
  <2>2. AtChunk("size", Len(x), x, y, e \o d)
    BY <1>7 DEF AtChunk, e, d, p, w
  <2>3. Moves(c, l, x, y, SizeUnit(Len(x)), e \o d)
    BY <1>1, <1>7, <2>2 DEF Moves
  <2>4. QED BY <1>1, <1>4, <1>6, <2>1, <2>3
<1>8. CASE x # <<>> /\ c = "size" /\ l = Len(x) /\ rest = e \o d
  <2>1. rest = <<CR0>> \o (lf \o d)
    BY <1>4, <1>8 DEF cr
  <2>2. AtChunk("sizeLF", l, x, y, lf \o d)
    BY <1>8 DEF AtChunk, lf, e, d, p, w
  <2>3. Moves(c, l, x, y, CR0, lf \o d)
    BY <1>1, <1>8, <2>2 DEF Moves
  <2>4. QED BY <1>1, <1>4, <1>6, <2>1, <2>3
<1>9. CASE x # <<>> /\ c = "sizeLF" /\ l = Len(x) /\ rest = lf \o d
  <2>1. rest = <<LF0>> \o d /\ l # 0
    BY <1>9, EmptySeq DEF lf
  <2>2. AtChunk("data", l, x, y, d)
    BY <1>9 DEF AtChunk, e, d, p, w
  <2>3. Moves(c, l, x, y, LF0, d)
    BY <1>1, <1>9, <2>1, <2>2 DEF Moves
  <2>4. QED BY <1>1, <1>3, <1>6, <2>1, <2>3
<1>10. CASE x # <<>> /\ c = "data" /\ l = Len(x) /\ rest = d
  <2>1. Len(x) # 0 /\ Len(x) \in Nat
    BY <1>1, <1>10, EmptySeq
  <2>2. x[1] \in Units /\ Tail(x) \in Seq(Units) /\ Len(Tail(x)) = Len(x) - 1 /\ x = <<x[1]>> \o Tail(x)
    <3>1. 1 \in 1..Len(x) /\ Len(x) \in 1..Len(x)
      BY <2>1
    <3>2. x[1] \in Units
      BY <3>1, ElementOfSeq
    <3>3. Tail(x) \in Seq(Units) /\ Len(Tail(x)) = Len(x) - 1 /\ Tail(x) = SubSeq(x, 2, Len(x))
      BY <1>10, HeadTailProperties, TailIsSubSeq
    <3>4. SubSeq(x, 1, Len(x)) = <<x[1]>> \o SubSeq(x, 1 + 1, Len(x))
      BY <3>1, SubSeqRecursiveFirst
    <3>5. SubSeq(x, 1, Len(x)) = x /\ 1 + 1 = 2
      BY SubSeqFull
    <3>6. QED BY <3>2, <3>3, <3>4, <3>5
  <2> DEFINE u == x[1]
             t == Tail(x)
  <2> HIDE DEF p, u, t
  <2>3. u \in Units /\ t \in Seq(Units) /\ Len(t) = l - 1 /\ x = <<u>> \o t /\ <<u>> \in Seq(Units)
    BY <1>10, <2>2 DEF u, t
  <2>4. Associates(Units, <<u>>, t, p)
    BY <1>3, <2>3, Associate
  <2>5. rest = <<u>> \o (t \o p) /\ t \o p \in Seq(Units)
    BY <1>10, <2>3, <2>4 DEF Associates
  <2>6. AtChunk(IF l = 1 THEN "dataCR" ELSE "data", l - 1, t, y, t \o p)
    <3>1. CASE l = 1
      <4>1. t = <<>>
        BY <2>3, <3>1, EmptySeq
      <4>2. t \o p = p
        BY <1>3, <4>1, ConcatEmptySeq
      <4>3. QED BY <3>1, <4>1, <4>2 DEF AtChunk, e, p, w
    <3>2. CASE l # 1
      <4>1. t # <<>>
        <5>1. Len(t) # 0
          BY <1>10, <2>1, <2>3, <3>2
        <5>2. QED BY <2>3, <5>1, EmptySeq
      <4>2. QED BY <2>3, <3>2, <4>1 DEF AtChunk, e, p, w
    <3>3. QED BY <3>1, <3>2
  <2>7. Moves(c, l, x, y, u, t \o p)
    BY <1>10, <2>6 DEF Moves, u, t
  <2>8. QED BY <1>6, <2>3, <2>5, <2>7
<1>11. CASE x = <<>> /\ c = "dataCR" /\ rest = e \o w
  <2>1. rest = <<CR0>> \o (lf \o w)
    BY <1>4, <1>11 DEF cr
  <2>2. AtChunk("dataLF", l, x, y, lf \o w)
    BY <1>11 DEF AtChunk, lf, w
  <2>3. Moves(c, l, x, y, CR0, lf \o w)
    BY <1>1, <1>11, <2>2 DEF Moves
  <2>4. QED BY <1>1, <1>4, <1>6, <2>1, <2>3
<1>12. CASE x = <<>> /\ c = "dataLF" /\ rest = lf \o w
  <2>1. rest = <<LF0>> \o w
    BY <1>12 DEF lf
  <2>2. AtChunk("size", l, y, <<>>, w)
    <3>1. CASE y = <<>>
      BY <3>1 DEF AtChunk, ChunksOf, w
    <3>2. CASE y # <<>>
      <4>1. w = ChunkOf(y) \o ChunksOf(<<>>)
        BY <3>2 DEF ChunksOf, w
      <4>2. QED BY <3>2, <4>1 DEF AtChunk
    <3>3. QED BY <3>1, <3>2
  <2>3. Moves(c, l, x, y, LF0, w)
    BY <1>1, <1>12, <2>2 DEF Moves
  <2>4. QED BY <1>1, <1>2, <1>6, <2>1, <2>3
<1>13. CASE x = <<>> /\ y = <<>> /\ c = "size" /\ rest = LastChunk
  <2> DEFINE v == <<CR0, LF0, CR0, LF0>>
  <2>1. rest = <<SizeUnit(0)>> \o v /\ v \in Seq(Units)
    BY <1>13, LastChunkIs
  <2>2. AtChunk("size", 0, x, y, v)
    BY <1>13, Zenon DEF AtChunk
  <2>3. SizeUnit(0) \in Units /\ SizeUnit(0).k = "size" /\ SizeUnit(0).v = 0
    BY SizeTyped
  <2> HIDE DEF v
  <2>4. Moves(c, l, x, y, SizeUnit(0), v)
    BY <1>13, <2>2, <2>3 DEF Moves
  <2>5. QED BY <1>6, <2>1, <2>3, <2>4
<1>14. CASE x = <<>> /\ y = <<>> /\ c = "size" /\ l = 0 /\ rest = <<CR0, LF0, CR0, LF0>>
  <2> DEFINE v == <<LF0, CR0, LF0>>
  <2>1. rest = <<CR0>> \o v /\ v \in Seq(Units)
    BY <1>14, LastChunkIs
  <2>2. AtChunk("sizeLF", l, x, y, v)
    BY <1>14, Zenon DEF AtChunk
  <2> HIDE DEF v
  <2>3. Moves(c, l, x, y, CR0, v)
    BY <1>1, <1>14, <2>2 DEF Moves
  <2>4. QED BY <1>1, <1>6, <2>1, <2>3
<1>15. CASE x = <<>> /\ y = <<>> /\ c = "sizeLF" /\ l = 0 /\ rest = <<LF0, CR0, LF0>>
  <2>1. rest = <<LF0>> \o e
    BY <1>15, LastChunkIs DEF e
  <2>2. AtChunk("trailers", l, x, y, e)
    BY <1>15, Zenon DEF AtChunk, e
  <2>3. Moves(c, l, x, y, LF0, e)
    BY <1>1, <1>15, <2>2 DEF Moves
  <2>4. QED BY <1>1, <1>2, <1>6, <2>1, <2>3
<1>16. CASE x = <<>> /\ y = <<>> /\ c = "trailers" /\ rest = e
  <2>1. rest = <<CR0>> \o lf
    BY <1>2, <1>16 DEF cr
  <2>2. AtChunk("end", l, x, y, lf)
    BY <1>16, Zenon DEF AtChunk, lf
  <2>3. Moves(c, l, x, y, CR0, lf)
    BY <1>1, <1>16, <2>2 DEF Moves
  <2>4. QED BY <1>1, <1>2, <1>6, <2>1, <2>3
<1>17. CASE x = <<>> /\ y = <<>> /\ c = "end" /\ rest = lf
  <2>1. rest = <<LF0>> \o <<>> /\ <<>> \in Seq(Units)
    BY <1>17, LastChunkIs DEF lf
  <2>2. Moves(c, l, x, y, LF0, <<>>)
    BY <1>1, <1>17 DEF Moves
  <2>3. QED BY <1>1, <1>6, <2>1, <2>2
<1>18. QED
  BY <1>7, <1>8, <1>9, <1>10, <1>11, <1>12, <1>13, <1>14, <1>15, <1>16, <1>17, Zenon DEF AtChunk, e, lf, d, p, w


(* Where a unit of a chunked body leaves the parser. *)
Moved(r, after) ==
  /\ ctx' \in Contexts /\ ctx'.headers = ctx.headers /\ ctx'.framing = ctx.framing
  /\ ctx'.req = ctx.req /\ ctx'.length = ctx.length
  /\ Len(Got') <= Len(r.body) /\ Got' = SubSeq(r.body, 1, Len(Got'))
  /\ ctx'.complete => Got' = r.body /\ after = <<>>
  /\ ~ctx'.complete =>
       \E q \in Len(Got')..Len(r.body) :
         AtChunk(ctx'.chunk, ctx'.left, SubSeq(BodyUnits(r), Len(Got') + 1, q),
                 SubSeq(BodyUnits(r), q + 1, Len(r.body)), after)

LEMMA ChunkMoved ==
  ASSUME NEW r \in Requests, ctx \in Contexts, ~ctx.complete,
         Len(Got) <= Len(r.body), Got = SubSeq(r.body, 1, Len(Got)), NEW q \in Len(Got)..Len(r.body),
         NEW u \in Units, NEW after, Chunked(u),
         Moves(ctx.chunk, ctx.left, SubSeq(BodyUnits(r), Len(Got) + 1, q),
               SubSeq(BodyUnits(r), q + 1, Len(r.body)), u, after)
  PROVE  Moved(r, after)
<1> DEFINE b == BodyUnits(r)
           n == Len(r.body)
           g == Len(Got)
           x == SubSeq(b, g + 1, q)
           y == SubSeq(b, q + 1, n)
<1>1. /\ b \in Seq(Units) /\ Len(b) = n /\ n \in Nat /\ r.body \in Seq(Nat)
      /\ \A i \in 1..n : b[i].v = r.body[i] /\ r.body[i] \in Nat
  BY BodyTyped, Requested
<1>2. ctx.given \in Seq(Nat) /\ ctx.body \in Seq(Nat) /\ ctx.left \in Nat /\ Got \in Seq(Nat) /\ g \in Nat
  <2>1. ctx.given \in Seq(Nat) /\ ctx.body \in Seq(Nat) /\ ctx.left \in Nat
    BY DEF Contexts
  <2>2. Got \in Seq(Nat)
    BY <2>1, ConcatProperties DEF Got
  <2>3. QED BY <2>1, <2>2, LenProperties
<1>3. g <= n /\ Got = SubSeq(r.body, 1, g) /\ q \in g..n /\ q \in Nat /\ q <= n /\ g <= q
  BY <1>1, <1>2
<1>4. Moves(ctx.chunk, ctx.left, x, y, u, after)
  OBVIOUS
<1> HIDE DEF b, n, g
<1>5. Slice(Units, b, g, q, x)
  <2>1. q \in 0..Len(b) /\ g \in 0..q
    BY <1>1, <1>2, <1>3
  <2>2. QED BY <1>1, <2>1, Slices
<1>6. Slice(Units, b, q, n, y)
  <2>1. n \in 0..Len(b) /\ q \in 0..n
    BY <1>1, <1>3
  <2>2. QED BY <1>1, <2>1, Slices
<1>7. x \in Seq(Units) /\ Len(x) = q - g /\ (\A i \in 1..q - g : x[i] = b[g + i]) /\ y \in Seq(Units) /\ Len(y) = n - q
  BY <1>5, <1>6 DEF Slice
<1>8. (x = <<>> => q = g) /\ (y = <<>> => q = n) /\ SubSeq(b, n + 1, n) = <<>>
  <2> HIDE DEF x, y
  <2>1. x = <<>> => Len(x) = 0
    OBVIOUS
  <2>2. y = <<>> => Len(y) = 0
    OBVIOUS
  <2>3. n < n + 1 /\ n + 1 \in Int /\ n \in Int
    BY <1>1
  <2>4. SubSeq(b, n + 1, n) = <<>>
    BY <2>3, SubSeqEmpty
  <2>5. QED BY <1>1, <1>2, <1>3, <1>7, <2>1, <2>2, <2>4
<1>9. ASSUME NEW c, NEW l \in Nat, ctx' = [ctx EXCEPT !.chunk = c, !.left = l],
             c \in {"size", "sizeLF", "data", "dataCR", "dataLF", "trailers", "end"},
             NEW p \in g..n, AtChunk(c, l, SubSeq(b, g + 1, p), SubSeq(b, p + 1, n), after)
      PROVE  Moved(r, after)
  <2>1. /\ ctx' \in Contexts /\ ctx'.headers = ctx.headers /\ ctx'.framing = ctx.framing
        /\ ctx'.req = ctx.req /\ ctx'.length = ctx.length /\ ~ctx'.complete
        /\ ctx'.chunk = c /\ ctx'.left = l /\ ctx'.given = ctx.given /\ ctx'.body = ctx.body
    BY <1>9 DEF Contexts
  <2>2. Got' = Got
    BY <2>1 DEF Got
  <2>3. Len(Got') = g
    BY <2>2 DEF g
  <2>4. QED BY <1>3, <1>9, <2>1, <2>2, <2>3 DEF Moved, b, n
<1>10. CASE ctx.chunk = "size" /\ u.k = "size" /\ u.v \in Nat /\ AtChunk("size", u.v, x, y, after)
  <2>1. ctx' = [ctx EXCEPT !.left = u.v]
    BY <1>10 DEF Chunked
  <2>2. ctx' = [ctx EXCEPT !.chunk = "size", !.left = u.v]
    BY <1>10, <2>1 DEF Contexts
  <2>3. QED BY <1>3, <1>9, <1>10, <2>2
<1>11. CASE ctx.chunk = "size" /\ u.k = "cr" /\ AtChunk("sizeLF", ctx.left, x, y, after)
  <2>1. ctx' = [ctx EXCEPT !.chunk = "sizeLF"]
    BY <1>11 DEF Chunked
  <2>2. ctx' = [ctx EXCEPT !.chunk = "sizeLF", !.left = ctx.left]
    BY <2>1 DEF Contexts
  <2>3. QED BY <1>2, <1>3, <1>9, <1>11, <2>2
<1>12. CASE ctx.chunk = "sizeLF" /\ AtChunk(IF ctx.left = 0 THEN "trailers" ELSE "data", ctx.left, x, y, after)
  <2> DEFINE c == IF ctx.left = 0 THEN "trailers" ELSE "data"
  <2>1. ctx' = [ctx EXCEPT !.chunk = c] /\ c \in {"data", "trailers"}
    BY <1>12 DEF Chunked
  <2>2. AtChunk(c, ctx.left, x, y, after)
    BY <1>12
  <2> HIDE DEF c
  <2>3. ctx' = [ctx EXCEPT !.chunk = c, !.left = ctx.left]
    BY <2>1 DEF Contexts
  <2>4. QED BY <1>2, <1>3, <1>9, <2>1, <2>2, <2>3
<1>13. CASE ctx.chunk = "dataCR" /\ AtChunk("dataLF", ctx.left, x, y, after)
  <2>1. ctx' = [ctx EXCEPT !.chunk = "dataLF"]
    BY <1>13 DEF Chunked
  <2>2. ctx' = [ctx EXCEPT !.chunk = "dataLF", !.left = ctx.left]
    BY <2>1 DEF Contexts
  <2>3. QED BY <1>2, <1>3, <1>9, <1>13, <2>2
<1>14. CASE ctx.chunk = "dataLF" /\ x = <<>> /\ AtChunk("size", ctx.left, y, <<>>, after)
  <2>1. ctx' = [ctx EXCEPT !.chunk = "size"]
    BY <1>14 DEF Chunked
  <2>2. ctx' = [ctx EXCEPT !.chunk = "size", !.left = ctx.left]
    BY <2>1 DEF Contexts
  <2>3. n \in g..n /\ y = SubSeq(b, g + 1, n) /\ SubSeq(b, n + 1, n) = <<>>
    <3>1. n \in g..n
      BY <1>1, <1>2, <1>3
    <3>2. q = g
      BY <1>8, <1>14
    <3>3. y = SubSeq(b, g + 1, n)
      BY <3>2
    <3>4. QED BY <1>8, <3>1, <3>3
  <2>4. AtChunk("size", ctx.left, SubSeq(b, g + 1, n), SubSeq(b, n + 1, n), after)
    BY <1>14, <2>3
  <2>5. QED BY <1>2, <1>9, <2>2, <2>3, <2>4
<1>15. CASE ctx.chunk = "trailers" /\ u.k = "cr" /\ AtChunk("end", ctx.left, x, y, after)
  <2>1. ctx' = [ctx EXCEPT !.chunk = "end"]
    BY <1>15 DEF Chunked
  <2>2. ctx' = [ctx EXCEPT !.chunk = "end", !.left = ctx.left]
    BY <2>1 DEF Contexts
  <2>3. QED BY <1>2, <1>3, <1>9, <1>15, <2>2
<1>16. CASE ctx.chunk = "end" /\ x = <<>> /\ y = <<>> /\ after = <<>>
  <2>1. ctx' = [ctx EXCEPT !.complete = TRUE]
    BY <1>16 DEF Chunked
  <2>2. /\ ctx' \in Contexts /\ ctx'.headers = ctx.headers /\ ctx'.framing = ctx.framing
        /\ ctx'.req = ctx.req /\ ctx'.length = ctx.length /\ ctx'.complete
        /\ ctx'.given = ctx.given /\ ctx'.body = ctx.body
    BY <2>1 DEF Contexts
  <2>3. Got' = Got
    BY <2>2 DEF Got
  <2>4. g = n
    BY <1>8, <1>16
  <2>5. Got = r.body
    BY <1>1, <1>3, <2>4, SubSeqFull DEF n
  <2>6. Len(Got') = g
    BY <2>3 DEF g
  <2>7. QED BY <1>3, <1>16, <2>2, <2>3, <2>5, <2>6 DEF Moved, n
<1>17. CASE /\ ctx.chunk = "data" /\ x # <<>> /\ u = x[1] /\ ctx.left = Len(x)
            /\ AtChunk(IF ctx.left = 1 THEN "dataCR" ELSE "data", ctx.left - 1, Tail(x), y, after)
  <2> DEFINE c == IF ctx.left = 1 THEN "dataCR" ELSE "data"
             l == ctx.left - 1
             v == <<u.v>>
             w == Append(ctx.body, u.v)
  <2>1. ctx' = [ctx EXCEPT !.body = w, !.left = l, !.chunk = c] /\ c \in {"data", "dataCR"}
    BY <1>17 DEF Chunked
  <2>2. AtChunk(c, l, Tail(x), y, after)
    BY <1>17
  <2>3. q - g # 0
    BY <1>7, <1>17, EmptySeq
  <2>4. /\ g + 1 \in 1..n /\ q \in g + 1..n /\ 1 \in 1..q - g /\ l \in Nat
        /\ g + 1 \in 1..Len(b) /\ q \in g + 1..Len(b) /\ g + 1 <= n
    BY <1>1, <1>2, <1>3, <1>7, <1>17, <2>3
  <2>5. u.v = r.body[g + 1] /\ u.v \in Nat
    <3>1. u = b[g + 1]
      BY <1>7, <1>17, <2>4
    <3>2. QED BY <1>1, <2>4, <3>1
  <2>6. Tail(x) = SubSeq(b, (g + 1) + 1, q)
    <3> DEFINE m == g + 1
    <3>1. m \in 1..Len(b) /\ q \in m..Len(b)
      BY <2>4
    <3> HIDE DEF m
    <3>2. Tail(SubSeq(b, m, q)) = SubSeq(b, m + 1, q)
      BY <1>1, <3>1, HeadTailOfSubSeq
    <3>3. QED BY <3>2 DEF m
  <2>7. w \in Seq(Nat)
    BY <1>2, <2>5, AppendProperties
  <2>8. v \in Seq(Nat) /\ Len(v) = 1 /\ v[1] = r.body[g + 1] /\ w = ctx.body \o v
    <3>1. v \in Seq(Nat) /\ Len(v) = 1 /\ v[1] = u.v
      BY <2>5
    <3>2. w = ctx.body \o v
      BY <1>2, <2>5, AppendIsConcat
    <3>3. QED BY <2>5, <3>1, <3>2
  <2> HIDE DEF c, l, v, w, x, y
  <2>9. /\ ctx' \in Contexts /\ ctx'.headers = ctx.headers /\ ctx'.framing = ctx.framing
        /\ ctx'.req = ctx.req /\ ctx'.length = ctx.length /\ ~ctx'.complete
        /\ ctx'.chunk = c /\ ctx'.left = l /\ ctx'.given = ctx.given /\ ctx'.body = w
    BY <2>1, <2>4, <2>7 DEF Contexts
  <2>10. Got' = Got \o v
    <3>1. Got' = ctx.given \o (ctx.body \o v)
      BY <2>8, <2>9 DEF Got
    <3>2. Associates(Nat, ctx.given, ctx.body, v)
      BY <1>2, <2>8, Associate
    <3>3. QED BY <3>1, <3>2 DEF Associates, Got
  <2>11. Got' = SubSeq(r.body, 1, g + 1) /\ Len(Got') = g + 1
    <3>1. \A i \in 1..Len(v) : v[i] = r.body[g + i]
      BY <2>8
    <3>2. g + Len(v) <= Len(r.body)
      BY <2>4, <2>8 DEF n
    <3>3. r.body \in Seq(Nat) /\ v \in Seq(Nat) /\ g \in Nat /\ Len(v) = 1 /\ Got \in Seq(Nat)
      BY <1>1, <1>2, <2>8
    <3>4. SubSeq(r.body, 1, g) \o v = SubSeq(r.body, 1, g + Len(v))
      BY <3>1, <3>2, <3>3, Longer
    <3>5. Joined(Nat, Got, v, Got \o v)
      BY <3>3, Joins
    <3>6. Len(Got \o v) = g + 1
      BY <3>3, <3>5 DEF Joined, g
    <3>7. QED BY <1>3, <2>10, <3>3, <3>4, <3>6
  <2>12. q \in Len(Got')..n /\ Len(Got') <= n /\ Got' = SubSeq(r.body, 1, Len(Got'))
    BY <2>4, <2>11
  <2>13. AtChunk(c, l, SubSeq(b, Len(Got') + 1, q), SubSeq(b, q + 1, n), after)
    BY <2>2, <2>6, <2>11 DEF y
  <2>14. QED BY <2>9, <2>12, <2>13 DEF Moved, b, n
<1>18. QED
  BY <1>4, <1>10, <1>11, <1>12, <1>13, <1>14, <1>15, <1>16, <1>17, Zenon DEF Moves

(* A chunked body: the unit that comes is never misplaced.                   *)
LEMMA ParseChunkedStep ==
  ASSUME InputIInv, ~spoilt, ParseChunkedBlock
  PROVE  InputIInv'
<1>1. /\ up /\ pc = "parse" /\ ctx.headers /\ ~ctx.complete /\ ctx.framing = "chunked" /\ buf # <<>>
      /\ IF Misplaced(buf[1]) THEN Reject
         ELSE Chunked(buf[1]) /\ buf' = Tail(buf) /\ UNCHANGED <<pc, up, headBytes, rejected>>
      /\ UNCHANGED <<stream, wire, fin, sock, served, spoilt>>
  BY DEF ParseChunkedBlock, InBody
<1>2. /\ stream \in Streams /\ buf \in Seq(Units) /\ Rest \in Seq(Units) /\ Uncut
      /\ Len(served) \in Nat /\ Len(served) < Len(stream) /\ headBytes <= MaxHead /\ From(Len(served) + 1) \in Seq(Units)
  BY <1>1, InBodyAt
<1>3. PICK r \in Requests : r = stream[Len(served) + 1] /\ AtBody(r)
  BY <1>1, InBodyAt
<1>4. PICK k : k = Len(served) + 1
  OBVIOUS
<1>5. HeadSize(k)' = HeadSize(k) /\ From(k)' = From(k) /\ Len(served') + 1 = k
  BY <1>1, <1>4, Frame
<1> DEFINE b == BodyUnits(r)
           n == Len(r.body)
           g == Len(Got)
           z == From(k)
<1>6. /\ ctx \in Contexts /\ r.framing = "chunked"
      /\ ctx.req = (IF Unknown(r) THEN UnknownReq(r) ELSE r)
      /\ ctx.length = (IF r.framing = "length" THEN Len(r.body) ELSE 0)
      /\ headBytes = HeadSize(k) /\ ~Malformed(r)
      /\ Len(Got) <= Len(r.body) /\ Got = SubSeq(r.body, 1, Len(Got))
  BY <1>1, <1>3, <1>4 DEF AtBody
<1>7. PICK q \in g..n : \E rest \in Seq(Units) :
        AtChunk(ctx.chunk, ctx.left, SubSeq(b, g + 1, q), SubSeq(b, q + 1, n), rest) /\ Todo = rest \o z
  BY <1>1, <1>3, <1>4, <1>6 DEF AtBody
<1> DEFINE x == SubSeq(b, g + 1, q)
           y == SubSeq(b, q + 1, n)
<1>8. PICK rest \in Seq(Units) : AtChunk(ctx.chunk, ctx.left, x, y, rest) /\ Todo = rest \o z
  BY <1>7
<1>9. x \in Seq(Units) /\ y \in Seq(Units)
  <2>1. b \in Seq(Units) /\ Len(b) = n /\ n \in Nat /\ g \in Nat
    <3>1. Got \in Seq(Nat)
      BY <1>6, ConcatProperties DEF Got, Contexts
    <3>2. QED BY <3>1, BodyTyped, Requested, LenProperties
  <2> HIDE DEF b, n, g
  <2>2. n \in 0..Len(b) /\ g \in 0..q /\ q \in 0..Len(b) /\ q \in 0..n
    BY <1>7, <2>1
  <2>3. Slice(Units, b, g, q, x) /\ Slice(Units, b, q, n, y)
    BY <2>1, <2>2, Slices
  <2>4. QED BY <2>3 DEF Slice
<1>10. PICK u \in Units : \E after \in Seq(Units) :
         rest = <<u>> \o after /\ Moves(ctx.chunk, ctx.left, x, y, u, after)
  <2> HIDE DEF x, y
  <2>1. QED BY <1>8, <1>9, ChunkStep
<1>11. PICK after \in Seq(Units) : rest = <<u>> \o after /\ Moves(ctx.chunk, ctx.left, x, y, u, after)
  BY <1>10
<1>12. buf[1] = u /\ Tail(buf) \in Seq(Units) /\ Tail(buf) \o Rest = after \o z
  <2> DEFINE f == <<u>>
  <2>1. f \in Seq(Units) /\ z \in Seq(Units)
    BY <1>2, <1>4
  <2> HIDE DEF f, z
  <2>2. Associates(Units, f, after, z)
    BY <2>1, Associate
  <2>3. buf \o Rest = f \o (after \o z) /\ after \o z \in Seq(Units)
    BY <1>8, <1>11, <2>2 DEF Associates, Todo, f
  <2>4. AdvancesOne(Units, buf, Rest, u, after \o z)
    BY <1>1, <1>2, <2>3, AdvanceOne DEF f
  <2>5. QED BY <2>4 DEF AdvancesOne
<1>13. ~Misplaced(u)
  <2> HIDE DEF x, y
  <2>1. QED BY <1>11 DEF Misplaced, Moves
<1>14. Chunked(u) /\ buf' = Tail(buf) /\ UNCHANGED <<pc, up, headBytes, rejected>>
  BY <1>1, <1>12, <1>13
<1>15. Moved(r, after)
  BY <1>1, <1>6, <1>7, <1>11, <1>14, ChunkMoved
<1>16. buf' = SubSeq(buf, 1 + 1, Len(buf)) /\ 1 <= Len(buf)
  <2>1. Tail(buf) = SubSeq(buf, 2, Len(buf))
    BY <1>1, <1>2, TailIsSubSeq
  <2>2. Len(buf) # 0 /\ Len(buf) \in Nat
    BY <1>1, <1>2, EmptySeq, LenProperties
  <2>3. QED BY <1>14, <2>1, <2>2
<1>17. buf' \in Seq(Units) /\ Uncut' /\ Todo' = buf' \o Rest
  BY <1>1, <1>2, <1>14, <1>16, Consume
<1>18. Todo' = after \o z
  BY <1>12, <1>14, <1>17
<1> HIDE DEF x, y, b, n, g
<1>19. ctx'.complete => Got' = r.body /\ Todo' = z
  <2>1. <<>> \o z = z
    BY <1>2, <1>4, ConcatEmptySeq DEF z
  <2>2. QED BY <1>15, <1>18, <2>1 DEF Moved
<1>20. AtBody(r)'
  BY <1>1, <1>4, <1>5, <1>6, <1>11, <1>14, <1>15, <1>18, <1>19 DEF AtBody, Moved, z
<1>21. Position'
  BY <1>1, <1>2, <1>3, <1>20, Where
<1>22. QED BY <1>1, <1>2, <1>14, <1>17, <1>21, ParserStep

-----------------------------------------------------------------------------
(* What is to come between two requests. *)
LEMMA NextHead ==
  ASSUME stream \in Streams, NEW k \in 0..Len(stream), k < Len(stream), NEW r, r = stream[k + 1]
  PROVE  /\ r \in Requests /\ 0 \in 0..LineCount(r) - 1
         /\ From(k) = After(r, 0) \o (BodyOf(r) \o From(k + 1))
         /\ HeadCtx(r, 0) = Fresh /\ Len(Before(r, 0)) = 0
<1>1. r \in Requests
  <2>1. k + 1 \in 1..Len(stream)
    BY StreamTyped
  <2>2. QED BY <2>1, StreamTyped
<1>2. LineCount(r) \in Nat /\ LineCount(r) >= 2
  <2> DEFINE c == LineCount(r)
             m == Len(r.heads)
  <2>1. c \in Nat /\ m \in Nat /\ c >= 2 + m
    BY <1>1, Requested
  <2> HIDE DEF c, m
  <2>2. c >= 2
    BY <2>1
  <2>3. QED BY <2>1, <2>2 DEF c
<1>3. 0 \in 0..LineCount(r) - 1 /\ 0 \in 0..LineCount(r)
  BY <1>2
<1>4. After(r, 0) = HeadOf(r) /\ Len(Before(r, 0)) = 0
  BY <1>1, <1>3, HeadParts
<1>5. From(k) = Encoded(r) \o From(k + 1) /\ From(k + 1) \in Seq(Units)
  BY FromParts
<1>6. Associates(Units, HeadOf(r), BodyOf(r), From(k + 1))
  <2>1. HeadOf(r) \in Seq(Units) /\ BodyOf(r) \in Seq(Units)
    BY <1>1, EncodedTyped
  <2>2. QED BY <1>5, <2>1, Associate
<1>7. From(k) = After(r, 0) \o (BodyOf(r) \o From(k + 1))
  BY <1>4, <1>5, <1>6 DEF Associates, Encoded
<1>8. HeadCtx(r, 0) = Fresh
  BY DEF HeadCtx
<1>9. QED BY <1>1, <1>3, <1>4, <1>7, <1>8

(* The handler is given a request of the stream, with all of its body.       *)
LEMMA ServeStep ==
  ASSUME InputIInv, ~spoilt, Serve
  PROVE  InputIInv'
<1> DEFINE q == [id |-> ctx.req.id, body |-> ctx.given \o ctx.body]
<1>1. /\ up /\ pc = "parse" /\ ctx.complete /\ served' = Append(served, q)
      /\ IF ctx.req.close
         THEN up' = FALSE /\ pc' = "idle" /\ UNCHANGED ctx
         ELSE ctx' = Fresh /\ pc' = (IF buf = <<>> THEN "idle" ELSE "parse") /\ UNCHANGED up
      /\ UNCHANGED <<stream, wire, fin, sock, buf, headBytes, rejected, spoilt>>
  BY DEF Serve
<1>2. /\ stream \in Streams /\ buf \in Seq(Units) /\ Rest \in Seq(Units) /\ Uncut
      /\ Len(served) \in Nat /\ Len(served) < Len(stream) /\ headBytes <= MaxHead /\ From(Len(served) + 1) \in Seq(Units)
  BY <1>1, InBodyAt
<1>3. PICK r \in Requests : r = stream[Len(served) + 1] /\ AtBody(r)
  BY <1>1, InBodyAt
<1>4. PICK k : k = Len(served) + 1
  OBVIOUS
<1>5. k \in 0..Len(stream) /\ k \in Nat /\ k \in 1..Len(stream) /\ Len(stream) \in Nat
  BY <1>2, <1>4, StreamTyped
<1>6. HeadSize(k)' = HeadSize(k) /\ From(k)' = From(k)
  BY <1>1 DEF HeadSize, From, Encodings
<1>7. /\ ctx.req = (IF Unknown(r) THEN UnknownReq(r) ELSE r) /\ headBytes = HeadSize(k) /\ ~Malformed(r)
      /\ Got = r.body /\ Todo = From(k) /\ r = stream[k]
  BY <1>1, <1>3, <1>4 DEF AtBody
<1>8. q = [id |-> IF Unknown(r) THEN 0 ELSE r.id, body |-> r.body] /\ ctx.req.close = r.close
  <2>1. UnknownReq(r).id = 0 /\ UnknownReq(r).close = r.close
    BY DEF UnknownReq, NoRequest
  <2>2. ctx.req.id = (IF Unknown(r) THEN 0 ELSE r.id) /\ ctx.req.close = r.close
    BY <1>7, <2>1
  <2>3. QED BY <1>7, <2>2 DEF Got
<1>9. q \in [id : Nat, body : Seq(Nat)]
  <2>1. r.id \in Nat /\ r.body \in Seq(Nat)
    BY DEF Requests
  <2>2. (IF Unknown(r) THEN 0 ELSE r.id) \in Nat
    BY <2>1
  <2>3. QED BY <1>8, <2>1, <2>2
<1>10. /\ Served /\ (\A i \in 1..Len(served) : ~stream[i].close) /\ ~rejected
       /\ wire \in Seq(Units) /\ sock \in Seq(Units)
  BY <1>1 DEF InputIInv
<1> DEFINE T == [id : Nat, body : Seq(Nat)]
<1>11. /\ served' \in Seq(T) /\ Len(served') = k /\ served'[k] = q
       /\ \A i \in 1..k - 1 : served'[i] = served[i]
  <2>1. served \in Seq(T) /\ q \in T
    BY <1>9, <1>10 DEF Served
  <2> HIDE DEF T, q
  <2>2. QED BY <1>1, <1>2, <1>4, <2>1, AppendProperties
<1> HIDE DEF q
<1>12. \A i \in 1..k : i = k \/ (i \in 1..Len(served) /\ i \in 1..k - 1)
  BY <1>2, <1>4, <1>5
<1>13. ASSUME NEW i \in 1..k
       PROVE  /\ ~Malformed(stream[i]) /\ (i < k => ~stream[i].close)
              /\ served'[i] = [id |-> IF Unknown(stream[i]) THEN 0 ELSE stream[i].id, body |-> stream[i].body]
  <2>1. CASE i = k
    BY <1>5, <1>7, <1>8, <1>11, <2>1
  <2>2. CASE i \in 1..Len(served) /\ i \in 1..k - 1
    BY <1>10, <1>11, <2>2 DEF Served
  <2>3. QED BY <1>12, <2>1, <2>2
<1>14. Served'
  <2>1. k <= Len(stream) /\ HeadSize(k) <= MaxHead
    BY <1>2, <1>5, <1>7
  <2>2. stream' = stream
    BY <1>1
  <2>3. QED BY <1>6, <1>11, <1>13, <2>1, <2>2 DEF Served
<1>15. CASE ctx.req.close
  BY <1>1, <1>2, <1>10, <1>14, <1>15 DEF InputIInv
<1>16. CASE ~ctx.req.close
  <2>1. ctx' = Fresh /\ pc' = (IF buf = <<>> THEN "idle" ELSE "parse") /\ up'
    BY <1>1, <1>16
  <2>2. Rest' = Rest /\ Todo' = Todo
    BY <1>1 DEF Todo, Rest
  <2>3. Uncut'
    BY <1>1, <1>2, <2>1, <2>2 DEF Uncut
  <2>4. Todo' = <<>> => pc' = "idle"
    <3>1. Joined(Units, buf, Rest, buf \o Rest)
      BY <1>2, Joins
    <3>2. buf # <<>> => Len(buf) # 0
      BY <1>2, EmptySeq
    <3>3. SUFFICES ASSUME Todo = <<>>, buf # <<>> PROVE FALSE
      BY <2>1, <2>2
    <3>4. Len(Todo) = 0
      BY <3>3
    <3>5. Len(buf) \in Nat /\ Len(Rest) \in Nat /\ Len(Todo) = Len(buf) + Len(Rest)
      BY <3>1 DEF Joined, Todo
    <3>6. QED BY <3>2, <3>3, <3>4, <3>5
  <2>5. Position'
    <3>1. Todo' = From(k)' /\ headBytes' = HeadSize(k)' /\ HeadSize(k) \in Nat /\ HeadSize(k)' \in Nat
      BY <1>1, <1>2, <1>5, <1>6, <1>7, <2>2, Sizes
    <3>2. CASE k = Len(stream)
      <4>1. Todo' = <<>>
        BY <1>2, <1>5, <1>6, <3>1, <3>2, FromParts
      <4>2. QED BY <1>1, <1>11, <2>1, <2>4, <3>2, <4>1 DEF Position
    <3>3. CASE k < Len(stream)
      <4>1. PICK s \in Requests : s = stream[k + 1]
        <5>1. k + 1 \in 1..Len(stream)
          BY <1>5, <3>3
        <5>2. QED BY <1>2, <5>1, StreamTyped
      <4>2. /\ 0 \in 0..LineCount(s) - 1
            /\ From(k) = After(s, 0) \o (BodyOf(s) \o From(k + 1))
            /\ HeadCtx(s, 0) = Fresh /\ Len(Before(s, 0)) = 0
        BY <1>2, <1>5, <3>3, <4>1, NextHead
      <4>3. ~(0 > 0) /\ \A i \in 1..Len(s.heads) : ~(i < 0)
        BY Requested
      <4>4. headBytes' = HeadSize(k)' + 0
        BY <3>1
      <4>5. PICK j : j = k + 1
        OBVIOUS
      <4>6. From(j)' = From(j) /\ Todo' = From(k)
        BY <1>1, <1>6, <3>1 DEF From, Encodings
      <4>7. AtLine(s, 0)'
        BY <1>11, <2>1, <4>2, <4>3, <4>4, <4>5, <4>6 DEF AtLine
      <4>8. stream'[Len(served') + 1] = s /\ Len(served') < Len(stream')
        BY <1>1, <1>11, <3>3, <4>1
      <4>9. QED BY <4>2, <4>7, <4>8 DEF Position
    <3>4. QED BY <1>5, <3>2, <3>3
  <2>6. \A i \in 1..Len(served') : ~stream'[i].close
    BY <1>1, <1>7, <1>8, <1>10, <1>11, <1>12, <1>16
  <2>7. stream' \in Streams /\ wire' \in Seq(Units) /\ sock' \in Seq(Units) /\ buf' \in Seq(Units) /\ headBytes' <= MaxHead /\ ~rejected'
    BY <1>1, <1>2, <1>10
  <2>8. QED BY <1>14, <2>3, <2>5, <2>6, <2>7 DEF InputIInv
<1>17. QED BY <1>15, <1>16

-----------------------------------------------------------------------------
(* The steps of the client, of the network and of HandleEvent. *)
LEMMA Stays ==
  ASSUME Position, UNCHANGED <<stream, served, ctx, headBytes>>, Todo' = Todo, Todo # <<>> \/ pc' = pc
  PROVE  Position'
<1>1. CASE Len(served) = Len(stream) /\ Todo = <<>> /\ ctx = Fresh /\ pc = "idle"
  BY <1>1 DEF Position
<1>2. CASE /\ Len(served) < Len(stream)
           /\ LET r == stream[Len(served) + 1]
              IN  (\E h \in 0..LineCount(r) - 1 : AtLine(r, h)) \/ AtBody(r)
  <2>1. PICK k : k = Len(served) + 1
    OBVIOUS
  <2>2. PICK r : r = stream[k]
    OBVIOUS
  <2>3. PICK j : j = Len(served)
    OBVIOUS
  <2>4. HeadSize(k)' = HeadSize(k) /\ From(k)' = From(k) /\ HeadSize(j)' = HeadSize(j) /\ Len(served') + 1 = k /\ Len(served') = j
    BY <2>1, <2>3, Frame
  <2>5. ASSUME NEW h \in 0..LineCount(r) - 1, AtLine(r, h) PROVE AtLine(r, h)'
    BY <2>1, <2>3, <2>4, <2>5 DEF AtLine
  <2>6. Got' = Got
    BY DEF Got
  <2>7. ASSUME AtBody(r) PROVE AtBody(r)'
    BY <2>1, <2>4, <2>6, <2>7 DEF AtBody
  <2>8. (\E h \in 0..LineCount(r) - 1 : AtLine(r, h)) \/ AtBody(r)
    BY <1>2, <2>1, <2>2
  <2>9. (\E h \in 0..LineCount(r) - 1 : AtLine(r, h)') \/ AtBody(r)'
    BY <2>5, <2>7, <2>8
  <2>10. r = stream[Len(served) + 1]
    BY <2>1, <2>2
  <2>11. QED BY <1>2, <2>9, <2>10, Where
<1>3. QED BY <1>1, <1>2 DEF Position

LEMMA SpoiltStep == ASSUME InputIInv, UNCHANGED stream, spoilt' PROVE InputIInv'
BY DEF InputIInv

LEMMA HandleEventStep ==
  ASSUME InputIInv, ~spoilt, HandleEvent
  PROVE  InputIInv'
<1>1. /\ up /\ pc = "idle" /\ (sock # <<>> \/ fin) /\ buf' = sock /\ sock' = <<>> /\ up' = ~fin
      /\ pc' = (IF fin THEN "idle" ELSE "parse")
      /\ UNCHANGED <<stream, wire, fin, ctx, headBytes, served, rejected>>
  BY DEF HandleEvent
<1>2. ~spoilt' => ~(sock # <<>> /\ wire # <<>> /\ Last(sock).head /\ Last(sock).k # "lf")
  BY DEF HandleEvent
<1>3. /\ stream \in Streams /\ Served /\ ~rejected /\ wire \in Seq(Units) /\ sock \in Seq(Units) /\ buf \in Seq(Units)
      /\ headBytes <= MaxHead /\ (\A i \in 1..Len(served) : ~stream[i].close) /\ Uncut /\ Position
  BY <1>1 DEF InputIInv
<1>4. CASE spoilt'
  BY <1>1, <1>4, SpoiltStep
<1>5. Served' /\ stream' \in Streams /\ ~rejected'
  BY <1>1, <1>3, Frame
<1>6. CASE fin
  BY <1>1, <1>5, <1>6 DEF InputIInv
<1>7. CASE ~fin /\ ~spoilt'
  <2>1. sock # <<>> /\ pc' = "parse" /\ up'
    BY <1>1, <1>7
  <2>2. Todo = sock \o wire /\ Todo' = sock \o wire /\ Rest' = wire
    <3>1. buf = <<>>
      BY <1>1, <1>3 DEF Uncut
    <3>2. <<>> \o (sock \o wire) = sock \o wire /\ <<>> \o wire = wire
      <4>1. sock \o wire \in Seq(Units)
        BY <1>3, ConcatProperties
      <4>2. QED BY <1>3, <4>1, ConcatEmptySeq
    <3>3. QED BY <1>1, <3>1, <3>2 DEF Todo, Rest
  <2>3. Todo # <<>>
    <3>1. Joined(Units, sock, wire, sock \o wire)
      BY <1>3, Joins
    <3>2. Len(sock) # 0
      BY <1>3, <2>1, EmptySeq
    <3>3. SUFFICES ASSUME Todo = <<>> PROVE FALSE
      OBVIOUS
    <3>4. Len(Todo) = 0
      BY <3>3
    <3>5. Len(Todo) = Len(sock) + Len(wire) /\ Len(sock) \in Nat /\ Len(wire) \in Nat
      BY <2>2, <3>1 DEF Joined
    <3>6. QED BY <3>2, <3>4, <3>5
  <2>4. Position'
    BY <1>1, <1>3, <2>2, <2>3, Stays
  <2>5. Uncut'
    <3>1. wire # <<>> => ~Last(sock).head \/ Last(sock).k = "lf"
      BY <1>2, <1>7, <2>1
    <3>2. QED BY <1>1, <2>1, <2>2, <3>1 DEF Uncut
  <2>6. /\ wire' \in Seq(Units) /\ sock' \in Seq(Units) /\ buf' \in Seq(Units) /\ headBytes' <= MaxHead
        /\ \A i \in 1..Len(served') : ~stream'[i].close
    BY <1>1, <1>3
  <2>7. QED BY <1>5, <2>4, <2>5, <2>6 DEF InputIInv
<1>8. QED BY <1>4, <1>6, <1>7

LEMMA ClientStep ==
  ASSUME InputIInv, ~spoilt, Fin \/ \E k \in 1..Len(wire) : Arrive(k)
  PROVE  InputIInv'
<1>1. up /\ up' /\ UNCHANGED <<stream, buf, pc, ctx, headBytes, served, rejected, spoilt>>
  BY DEF Fin, Arrive
<1>2. /\ stream \in Streams /\ Served /\ ~rejected /\ wire \in Seq(Units) /\ sock \in Seq(Units) /\ buf \in Seq(Units)
      /\ headBytes <= MaxHead /\ (\A i \in 1..Len(served) : ~stream[i].close) /\ Uncut /\ Position
  BY <1>1 DEF InputIInv
<1>3. wire' \in Seq(Units) /\ sock' \in Seq(Units) /\ Rest' = Rest
  <2>1. CASE Fin
    BY <1>2, <2>1 DEF Fin, Rest
  <2>2. ASSUME NEW k \in 1..Len(wire), Arrive(k) PROVE wire' \in Seq(Units) /\ sock' \in Seq(Units) /\ Rest' = Rest
    <3> DEFINE a == SubSeq(wire, 1, k)
               c == SubSeq(wire, k + 1, Len(wire))
    <3>1. sock' = sock \o a /\ wire' = c
      BY <2>2 DEF Arrive
    <3>2. k \in Nat /\ k <= Len(wire)
      BY <1>2, LenProperties
    <3>3. a \in Seq(Units) /\ c \in Seq(Units) /\ a \o c = wire
      BY <1>2, <3>2, Cut
    <3> HIDE DEF a, c
    <3>4. Associates(Units, sock, a, c)
      BY <1>2, <3>3, Associate
    <3>5. QED BY <3>1, <3>3, <3>4 DEF Associates, Rest
  <2>3. QED BY <2>1, <2>2
<1>4. Todo' = Todo
  BY <1>1, <1>3 DEF Todo
<1>5. Position'
  BY <1>1, <1>2, <1>4, Stays
<1>6. Uncut'
  BY <1>1, <1>2, <1>3 DEF Uncut
<1>7. Served' /\ stream' \in Streams /\ ~rejected'
  BY <1>1, <1>2, Frame
<1>8. QED BY <1>1, <1>2, <1>3, <1>5, <1>6, <1>7 DEF InputIInv

-----------------------------------------------------------------------------
(* The position in a stream of which so many requests have been served. *)
LEMMA Between ==
  ASSUME stream \in Streams, Len(served) \in 0..Len(stream), Todo = From(Len(served)),
         ctx = Fresh, headBytes = HeadSize(Len(served)), Todo = <<>> => pc = "idle"
  PROVE  Position
<1> DEFINE k == Len(served)
           r == stream[k + 1]
<1>1. k \in 0..Len(stream) /\ k \in Nat /\ Len(stream) \in Nat /\ HeadSize(k) \in Nat
  BY StreamTyped, Sizes
<1>2. CASE k = Len(stream)
  BY <1>1, <1>2, FromParts DEF Position
<1>3. CASE k < Len(stream)
  <2>1. /\ r \in Requests /\ 0 \in 0..LineCount(r) - 1
        /\ From(k) = After(r, 0) \o (BodyOf(r) \o From(k + 1))
        /\ HeadCtx(r, 0) = Fresh /\ Len(Before(r, 0)) = 0
    BY <1>1, <1>3, NextHead
  <2>2. Len(r.heads) \in Nat
    BY <2>1, Requested
  <2>3. ~(0 > 0) /\ \A i \in 1..Len(r.heads) : ~(i < 0)
    BY <2>2
  <2>4. headBytes = HeadSize(k) + 0
    BY <1>1
  <2>5. AtLine(r, 0)
    BY <2>1, <2>3, <2>4 DEF AtLine
  <2>6. QED BY <1>3, <2>1, <2>5 DEF Position
<1>4. QED BY <1>1, <1>2, <1>3

LEMMA InputStarts == ASSUME Init PROVE InputIInv
<1>1. /\ stream \in Streams /\ wire = FlattenSeq(Encodings) /\ sock = <<>> /\ buf = <<>> /\ pc = "idle"
      /\ ctx = Fresh /\ headBytes = 0 /\ served = <<>> /\ rejected = FALSE
  BY DEF Init, Encodings
<1>2. Len(served) = 0 /\ served \in Seq([id : Nat, body : Seq(Nat)]) /\ Len(stream) \in Nat /\ HeadSize(0) = 0 /\ MaxHead \in Nat
  <2>1. Len(stream) \in Nat
    BY <1>1, StreamTyped
  <2>2. 0 \in 0..Len(stream)
    BY <2>1
  <2>3. HeadSize(0) = 0
    BY <1>1, <2>2, Sizes
  <2>4. QED BY <1>1, <2>1, <2>3, HttpInputAssumption
<1>3. wire = From(0) /\ wire \in Seq(Units)
  <2>1. Len(Encodings) = Len(stream)
    BY <1>2 DEF Encodings
  <2>2. SubSeq(Encodings, 0 + 1, Len(stream)) = Encodings
    <3> DEFINE T == Seq(Units)
    <3>1. Encodings \in [1..Len(stream) -> T]
      BY <1>1, StreamTyped, EncodedTyped DEF Encodings
    <3> DEFINE e == Encodings
               n == Len(stream)
    <3> HIDE DEF T, e, n
    <3>2. e \in Seq(T) /\ n = Len(e)
      BY <1>2, <2>1, <3>1 DEF e, n
    <3>3. SubSeq(e, 1, Len(e)) = e
      BY <3>2, SubSeqFull
    <3>4. 0 + 1 = 1
      OBVIOUS
    <3>5. QED BY <3>2, <3>3, <3>4 DEF e, n
  <2>3. wire = From(0)
    BY <1>1, <2>2 DEF From
  <2>4. 0 \in 0..Len(stream)
    BY <1>2
  <2>5. QED BY <1>1, <2>3, <2>4, FromParts
<1>4. Rest = wire /\ Todo = wire
  BY <1>1, <1>3, ConcatEmptySeq DEF Rest, Todo
<1>5. Uncut
  BY <1>1 DEF Uncut
<1>6. Served
  BY <1>1, <1>2 DEF Served
<1>7. Position
  BY <1>1, <1>2, <1>3, <1>4, Between
<1>8. QED BY <1>1, <1>2, <1>3, <1>5, <1>6, <1>7 DEF InputIInv

LEMMA InputSteps == ASSUME InputIInv, [Next]_vars PROVE InputIInv'
<1>1. CASE spoilt
  <2>1. UNCHANGED stream /\ spoilt'
    BY <1>1 DEF Next, Loop, HandleEvent, ParseLine, AwaitLine, ParseBodyBlock, ParseChunkedBlock, AwaitBody, Serve,
                Fin, Arrive, vars
  <2>2. QED BY <2>1, SpoiltStep
<1>2. CASE ~spoilt
  <2>1. CASE HandleEvent
    BY <1>2, <2>1, HandleEventStep
  <2>2. CASE ParseLine
    BY <1>2, <2>2, ParseLineStep
  <2>3. CASE AwaitLine
    BY <1>2, <2>3, AwaitLineStep
  <2>4. CASE ParseBodyBlock
    BY <1>2, <2>4, ParseBodyStep
  <2>5. CASE ParseChunkedBlock
    BY <1>2, <2>5, ParseChunkedStep
  <2>6. CASE AwaitBody
    BY <1>2, <2>6, AwaitBodyStep
  <2>7. CASE Serve
    BY <1>2, <2>7, ServeStep
  <2>8. CASE Fin \/ \E k \in 1..Len(wire) : Arrive(k)
    BY <1>2, <2>8, ClientStep
  <2>9. CASE UNCHANGED vars
    <3>1. /\ UNCHANGED <<stream, wire, fin, sock, buf, pc, up>>
          /\ UNCHANGED <<ctx, headBytes, served, rejected, spoilt>>
      BY <2>9 DEF vars
    <3>2. Rest' = Rest /\ Todo' = Todo
      BY <3>1 DEF Rest, Todo
    <3>3. (Served' <=> Served) /\ (Refused' <=> Refused)
      BY <3>1, Frame
    <3>4. Uncut' <=> Uncut
      BY <3>1, <3>2 DEF Uncut
    <3>5. Position => Position'
      BY <3>1, <3>2, Stays
    <3>6. QED BY <3>1, <3>3, <3>4, <3>5 DEF InputIInv
  <2>10. QED BY <2>1, <2>2, <2>3, <2>4, <2>5, <2>6, <2>7, <2>8, <2>9 DEF Next, Loop
<1>3. QED BY <1>1, <1>2

(* As long as nothing was lost between two reads, the parser's context, the  *)
(* buffer and what the network still holds add up to the client's stream.    *)
THEOREM InputInvariance == Spec => []InputIInv
<1>1. Init => InputIInv
  BY InputStarts
<1>2. InputIInv /\ [Next]_vars => InputIInv'
  BY InputSteps
<1>3. QED BY <1>1, <1>2, PTL DEF Spec

-----------------------------------------------------------------------------
(* The heads of more requests are longer. *)
LEMMA HeadsGrow ==
  ASSUME stream \in Streams, NEW j \in 0..Len(stream), NEW i \in 0..j
  PROVE  HeadSize(i) <= HeadSize(j)
<1> DEFINE n == Len(stream)
           S == {d \in Nat : i + d <= n => HeadSize(i) <= HeadSize(i + d)}
<1>1. n \in Nat /\ i \in Nat /\ j \in Nat /\ i \in 0..n /\ i <= j /\ j <= n
  BY StreamTyped
<1>2. ASSUME NEW k \in Nat, k <= n PROVE HeadSize(k) \in Nat /\ (k < n => HeadSize(k + 1) \in Nat /\ HeadSize(k) <= HeadSize(k + 1))
  <2>1. k \in 0..Len(stream)
    BY <1>1, <1>2
  <2> DEFINE a == HeadSize(k)
             b == HeadSize(k + 1)
             c == Len(HeadOf(stream[k + 1]))
  <2>2. a \in Nat /\ (k < n => b = a + c /\ c \in Nat /\ b \in Nat)
    BY <2>1, Sizes
  <2> HIDE DEF a, b, c
  <2>3. k < n => a <= b
    BY <2>2
  <2>4. QED BY <2>2, <2>3 DEF a, b
<1> HIDE DEF n
<1>3. 0 \in S
  <2>1. i + 0 = i
    BY <1>1
  <2>2. HeadSize(i) \in Nat
    BY <1>1, <1>2
  <2>3. HeadSize(i) <= HeadSize(i + 0)
    BY <2>1, <2>2
  <2>4. QED BY <2>3
<1>4. ASSUME NEW d \in Nat, d \in S PROVE d + 1 \in S
  <2>1. SUFFICES ASSUME i + (d + 1) <= n PROVE HeadSize(i) <= HeadSize(i + (d + 1))
    OBVIOUS
  <2> DEFINE k == i + d
  <2>2. k \in Nat /\ k <= n /\ k < n /\ k + 1 = i + (d + 1)
    BY <1>1, <2>1
  <2>3. HeadSize(i) <= HeadSize(k)
    BY <1>4, <2>2
  <2> HIDE DEF k
  <2>4. HeadSize(k) \in Nat /\ HeadSize(k + 1) \in Nat /\ HeadSize(k) <= HeadSize(k + 1)
    BY <1>2, <2>2
  <2>5. HeadSize(i) \in Nat
    BY <1>1, <1>2
  <2>6. HeadSize(i) <= HeadSize(k + 1)
    <3> DEFINE a == HeadSize(i)
               b == HeadSize(k)
               c == HeadSize(k + 1)
    <3> HIDE DEF a, b, c
    <3>1. a \in Nat /\ b \in Nat /\ c \in Nat /\ a <= b /\ b <= c
      BY <2>3, <2>4, <2>5 DEF a, b, c
    <3>2. a <= c
      BY <3>1
    <3>3. QED BY <3>2 DEF a, c
  <2>7. QED BY <2>2, <2>6
<1>5. Nat \subseteq S
  <2> HIDE DEF S
  <2>1. QED BY <1>3, <1>4, Induction
<1>6. j - i \in Nat /\ i + (j - i) = j
  BY <1>1
<1>7. QED BY <1>1, <1>5, <1>6

(* The requests that are meant are the first ones of the stream. *)
LEMMA MeantFirst ==
  ASSUME stream \in Streams
  PROVE  \E m \in 0..Len(stream) : Meant = 1..m
<1> DEFINE n == Len(stream)
<1>1. n \in Nat /\ MaxHead \in Nat
  BY StreamTyped, HttpInputAssumption
<1>2. Meant \subseteq 1..n
  BY DEF Meant
<1>3. ASSUME NEW i \in Meant, NEW j \in 1..i PROVE j \in Meant
  <2>1. /\ i \in 1..n /\ HeadSize(i) <= MaxHead
        /\ (\A l \in 1..i : ~Malformed(stream[l])) /\ (\A l \in 1..i - 1 : ~stream[l].close)
    BY DEF Meant
  <2>2. j \in 1..n /\ i \in 0..n /\ j \in 0..n /\ j \in 0..i /\ (\A l \in 1..j : l \in 1..i) /\ (\A l \in 1..j - 1 : l \in 1..i - 1)
    BY <1>1, <2>1
  <2>3. HeadSize(j) <= HeadSize(i) /\ HeadSize(j) \in Nat /\ HeadSize(i) \in Nat
    BY <2>2, HeadsGrow, Sizes
  <2>4. HeadSize(j) <= MaxHead
    <3> DEFINE a == HeadSize(j)
               b == HeadSize(i)
    <3> HIDE DEF a, b
    <3>1. a <= b /\ a \in Nat /\ b \in Nat /\ b <= MaxHead
      BY <2>1, <2>3 DEF a, b
    <3>2. a <= MaxHead
      BY <1>1, <3>1
    <3>3. QED BY <3>2 DEF a
  <2>5. QED BY <2>1, <2>2, <2>4 DEF Meant
<1> HIDE DEF n
<1>4. \E m \in 0..n : Meant = 1..m
  BY <1>1, <1>2, <1>3, Initial
<1>5. QED BY <1>4 DEF n

LEMMA ServedIsMeant == ASSUME InputIInv PROVE RequestsExact
<1>1. SUFFICES ASSUME ~spoilt PROVE IsPrefix(served, Meaning)
  BY DEF RequestsExact
<1> DEFINE k == Len(served)
           T == [id : Nat, body : Seq(Nat)]
           v(i) == [id |-> IF Unknown(stream[i]) THEN 0 ELSE stream[i].id, body |-> stream[i].body]
<1>2. stream \in Streams /\ Served
  BY <1>1 DEF InputIInv
<1>3. /\ served \in Seq(T) /\ k \in Nat /\ k <= Len(stream) /\ (k > 0 => HeadSize(k) <= MaxHead)
      /\ \A i \in 1..k : ~Malformed(stream[i]) /\ (i < k => ~stream[i].close) /\ served[i] = v(i)
  BY <1>2, LenProperties DEF Served
<1>4. PICK m \in 0..Len(stream) : Meant = 1..m
  BY <1>2, MeantFirst
<1>5. m \in Nat /\ m <= Len(stream) /\ Len(stream) \in Nat
  BY <1>2, <1>4, StreamTyped
<1>6. k > 0 => k \in Meant
  <2> SUFFICES ASSUME k > 0 PROVE k \in Meant
    OBVIOUS
  <2>1. k \in 1..Len(stream) /\ \A i \in 1..k - 1 : i \in 1..k /\ i < k
    BY <1>3, <1>5
  <2>2. QED BY <1>3, <2>1 DEF Meant
<1>7. k <= m
  BY <1>3, <1>4, <1>5, <1>6
<1>8. Meaning = [i \in 1..m |-> v(i)]
  BY <1>4 DEF Meaning
<1>9. ASSUME NEW i \in 1..m PROVE v(i) \in T
  <2>1. i \in 1..Len(stream)
    BY <1>5
  <2>2. stream[i] \in Requests
    BY <1>2, <2>1, StreamTyped
  <2>3. stream[i].id \in Nat /\ stream[i].body \in Seq(Nat)
    BY <2>2 DEF Requests
  <2>4. QED BY <2>3
<1> HIDE DEF T, v, k
<1>10. Meaning \in Seq(T) /\ Len(Meaning) = m /\ \A i \in 1..m : Meaning[i] = v(i)
  <2>1. Meaning \in [1..m -> T]
    BY <1>8, <1>9
  <2>2. QED BY <1>5, <1>8, <2>1
<1>11. SubSeq(served, 1, k) = SubSeq(Meaning, 1, k)
  <2> DEFINE a == SubSeq(served, 1, k)
             b == SubSeq(Meaning, 1, k)
  <2>1. a \in Seq(T) /\ Len(a) = k /\ \A i \in 1..k : a[i] = served[i]
    <3>1. k <= Len(served)
      BY <1>3 DEF k
    <3>2. QED BY <1>3, <3>1, Cut
  <2>2. b \in Seq(T) /\ Len(b) = k /\ \A i \in 1..k : b[i] = Meaning[i]
    BY <1>3, <1>7, <1>10, Cut
  <2> HIDE DEF a, b
  <2>3. \A i \in 1..k : a[i] = b[i]
    BY <1>3, <1>5, <1>7, <1>10, <2>1, <2>2
  <2>4. a = b
    BY <2>1, <2>2, <2>3, SeqEqual
  <2>5. QED BY <2>4 DEF a, b
<1>12. QED BY <1>7, <1>10, <1>11 DEF IsPrefix, k

LEMMA RefusedIsBad == ASSUME InputIInv PROVE RejectedOnlyIfBad
<1>1. SUFFICES ASSUME rejected, ~spoilt
               PROVE  /\ Len(served) + 1 <= Len(stream)
                      /\ Malformed(stream[Len(served) + 1]) \/ HeadSize(Len(served) + 1) > MaxHead
  BY DEF RejectedOnlyIfBad
<1>2. stream \in Streams /\ Served /\ Refused
  BY <1>1 DEF InputIInv
<1>3. Len(served) \in Nat /\ Len(stream) \in Nat
  BY <1>2, StreamTyped, LenProperties DEF Served
<1>4. QED BY <1>2, <1>3 DEF Refused

(* However the stream is cut into segments outside the lines of heads, what  *)
(* onRequest is given are the first requests of the stream, each once, in    *)
(* order, with its whole body: for every stream, cut and limit.              *)
THEOREM RequestsAreExact == Spec => []RequestsExact
<1>1. InputIInv => RequestsExact
  BY ServedIsMeant
<1>2. QED BY <1>1, InputInvariance, PTL

(* onMessage answers 400 only to a request that is malformed or exceeds the  *)
(* limits, with every request before it served.                              *)
THEOREM RefusalIsJust == Spec => []RejectedOnlyIfBad
<1>1. InputIInv => RejectedOnlyIfBad
  BY RefusedIsBad
<1>2. QED BY <1>1, InputInvariance, PTL
=============================================================================
