---------------------------- MODULE Parts_proofs -----------------------------
(***************************************************************************)
(* The components that MCParts checks side by side, each with its          *)
(* inductive invariant: the buffer, the timer queue and the downloads.     *)
(***************************************************************************)
EXTENDS ByteBuffer, TimerQueue, FileDownload, AsyncLogging, SequenceFacts

-----------------------------------------------------------------------------
(* Buffer: BufferExact for every prepend area, initial size, byte set and bound. *)
BufType(b) ==
  /\ b \in [data : UNION {[0..n - 1 -> BufByte] : n \in Nat}, size : Nat, read : Nat, write : Nat]
  /\ b.data \in [0..b.size - 1 -> BufByte]
  /\ b.read <= b.write /\ b.write <= b.size /\ BufPrepend <= b.size

(* Inductive: the indices are ordered and inside the vector, only Prepend    *)
(* brings read_index_ below PrePendIndex, and a buffer is torn only then.    *)
BufIInv ==
  /\ BufType(bufCells)
  /\ bufText \in Seq(BufByte) /\ bufFront \in BOOLEAN /\ bufTorn \in BOOLEAN
  /\ bufCells.read < BufPrepend => bufFront
  /\ bufTorn => bufFront
  /\ ~bufTorn => BufReadable(bufCells) = bufText

-----------------------------------------------------------------------------
(* The readable bytes are a sequence of bytes. *)
LEMMA ReadableSeq ==
  ASSUME NEW b, BufType(b)
  PROVE  /\ BufReadable(b) \in Seq(BufByte)
         /\ Len(BufReadable(b)) = b.write - b.read
         /\ \A i \in 1..b.write - b.read : BufReadable(b)[i] = b.data[b.read + i - 1]
<1>1. b.write - b.read \in Nat /\ b.read \in Nat /\ b.write \in Nat /\ b.size \in Nat
  BY DEF BufType
<1>2. \A i \in 1..b.write - b.read : b.read + i - 1 \in 0..b.size - 1
  BY <1>1 DEF BufType
<1>3. BufReadable(b) \in [1..b.write - b.read -> BufByte]
  BY <1>2 DEF BufType, BufReadable
<1>4. BufReadable(b) \in Seq(BufByte)
  BY <1>1, <1>3
<1>5. DOMAIN BufReadable(b) = 1..b.write - b.read
  BY <1>3
<1>6. Len(BufReadable(b)) = b.write - b.read
  BY <1>1, <1>4, <1>5, LenProperties
<1>7. QED BY <1>4, <1>6 DEF BufReadable

(* makeSpace by moving, when the bytes fit behind PrePendIndex. *)
LEMMA MovedKeeps ==
  ASSUME NEW b, BufType(b), ~BufOverrun(BufMoved(b))
  PROVE  /\ BufType(BufMoved(b))
         /\ BufReadable(BufMoved(b)) = BufReadable(b)
         /\ BufMoved(b).read = BufPrepend
         /\ BufMoved(b).size = b.size
         /\ BufMoved(b).write = BufPrepend + b.write - b.read
<1> DEFINE m == BufMoved(b)
           to == BufPrepend + b.write - b.read
           data == [i \in 0..b.size - 1 |->
                      IF i \in BufPrepend..to - 1 THEN b.data[b.read + i - BufPrepend] ELSE b.data[i]]
<1>1. b.read \in Nat /\ b.write \in Nat /\ b.size \in Nat /\ b.read <= b.write /\ b.write <= b.size
      /\ BufPrepend \in Nat
  BY BufAssumption DEF BufType
<1>2. m = [b EXCEPT !.data = data, !.read = BufPrepend, !.write = to]
  BY DEF BufMoved
<1>3. m.data = data /\ m.size = b.size /\ m.read = BufPrepend /\ m.write = to
  BY <1>2 DEF BufType
<1> HIDE DEF m, data, to
<1>4. to \in Nat /\ BufPrepend <= to /\ to <= b.size
  BY <1>1, <1>3 DEF BufOverrun, to, m
<1>5. data \in [0..b.size - 1 -> BufByte]
  <2>1. \A i \in BufPrepend..to - 1 : b.read + i - BufPrepend \in 0..b.size - 1
    BY <1>1 DEF to
  <2>2. QED BY <2>1 DEF data, BufType
<1>6. BufType(m)
  <2>1. m \in [data : UNION {[0..n - 1 -> BufByte] : n \in Nat}, size : Nat, read : Nat, write : Nat]
    <3>1. data \in UNION {[0..n - 1 -> BufByte] : n \in Nat}
      BY <1>1, <1>5
    <3>2. QED BY <1>1, <1>2, <1>4, <3>1 DEF BufType
  <2>2. QED BY <1>1, <1>3, <1>4, <1>5, <2>1 DEF BufType
<1>7. m.write - m.read = b.write - b.read
  BY <1>1, <1>3 DEF to
<1>8. \A i \in 1..b.write - b.read : m.data[m.read + i - 1] = b.data[b.read + i - 1]
  <2> SUFFICES ASSUME NEW i \in 1..b.write - b.read
               PROVE  m.data[m.read + i - 1] = b.data[b.read + i - 1]
    OBVIOUS
  <2>1. BufPrepend + i - 1 \in BufPrepend..to - 1 /\ BufPrepend + i - 1 \in 0..b.size - 1
    BY <1>1, <1>4 DEF to
  <2>2. data[BufPrepend + i - 1] = b.data[b.read + (BufPrepend + i - 1) - BufPrepend]
    BY <2>1 DEF data
  <2>3. b.read + (BufPrepend + i - 1) - BufPrepend = b.read + i - 1
    BY <1>1
  <2>4. QED BY <1>3, <2>2, <2>3
<1>9. BufReadable(m) = BufReadable(b)
  BY <1>7, <1>8 DEF BufReadable
<1>10. QED BY <1>3, <1>6, <1>9 DEF m, to

(* makeSpace by growing. *)
LEMMA GrownKeeps ==
  ASSUME NEW b, BufType(b), NEW n \in Nat, BufWritable(b) < n
  PROVE  /\ BufType(BufGrown(b, n))
         /\ BufReadable(BufGrown(b, n)) = BufReadable(b)
         /\ BufGrown(b, n).read = b.read
         /\ BufGrown(b, n).size = b.write + n
         /\ BufGrown(b, n).write = b.write
<1> DEFINE g == BufGrown(b, n)
           data == [i \in 0..b.write + n - 1 |-> IF i < b.size THEN b.data[i] ELSE BufZero]
<1>1. b.read \in Nat /\ b.write \in Nat /\ b.size \in Nat /\ b.read <= b.write /\ b.write <= b.size
      /\ BufPrepend <= b.size /\ b.size < b.write + n /\ BufPrepend \in Nat
  BY BufAssumption DEF BufType, BufWritable
<1>2. g = [b EXCEPT !.data = data, !.size = b.write + n]
  BY DEF BufGrown
<1>3. g.data = data /\ g.size = b.write + n /\ g.read = b.read /\ g.write = b.write
  BY <1>2 DEF BufType
<1> HIDE DEF g, data
<1>4. data \in [0..(b.write + n) - 1 -> BufByte]
  <2>1. \A i \in 0..b.write + n - 1 : i < b.size => i \in 0..b.size - 1
    BY <1>1
  <2>2. QED BY <2>1, BufAssumption DEF data, BufType
<1>5. BufType(g)
  <2>1. g \in [data : UNION {[0..k - 1 -> BufByte] : k \in Nat}, size : Nat, read : Nat, write : Nat]
    <3>1. b.write + n \in Nat
      BY <1>1
    <3>2. data \in UNION {[0..k - 1 -> BufByte] : k \in Nat}
      BY <1>4, <3>1
    <3>3. QED BY <1>2, <3>1, <3>2 DEF BufType
  <2>2. QED BY <1>1, <1>3, <1>4, <2>1 DEF BufType
<1>6. \A i \in 1..b.write - b.read : g.data[b.read + i - 1] = b.data[b.read + i - 1]
  <2> SUFFICES ASSUME NEW i \in 1..b.write - b.read
               PROVE  data[b.read + i - 1] = b.data[b.read + i - 1]
    BY <1>3
  <2>1. b.read + i - 1 \in 0..b.write + n - 1 /\ b.read + i - 1 < b.size
    BY <1>1
  <2>2. QED BY <2>1 DEF data
<1>7. BufReadable(g) = BufReadable(b)
  BY <1>3, <1>6 DEF BufReadable
<1>8. QED BY <1>3, <1>5, <1>7 DEF g

(* EnsureWritableBytes gives the room that was asked for and keeps the       *)
(* readable bytes, unless the subtraction wrapped, which takes a read index  *)
(* below PrePendIndex.                                                       *)
LEMMA RoomKeeps ==
  ASSUME NEW b, BufType(b), NEW n \in Nat
  PROVE  /\ BufOverrun(BufRoom(b, n)) => b.read < BufPrepend
         /\ ~BufOverrun(BufRoom(b, n)) =>
              /\ BufType(BufRoom(b, n))
              /\ BufReadable(BufRoom(b, n)) = BufReadable(b)
              /\ BufWritable(BufRoom(b, n)) >= n
              /\ BufRoom(b, n).read < BufPrepend => b.read < BufPrepend
<1>1. b.read \in Nat /\ b.write \in Nat /\ b.size \in Nat /\ b.read <= b.write /\ b.write <= b.size
      /\ BufPrepend \in Nat
  BY BufAssumption DEF BufType
<1>2. CASE BufWritable(b) >= n
  <2>1. BufRoom(b, n) = b
    BY <1>2 DEF BufRoom
  <2>2. QED BY <1>1, <1>2, <2>1 DEF BufOverrun
<1>3. CASE BufWritable(b) < n /\ BufCompacts(b, n)
  <2>1. BufRoom(b, n) = BufMoved(b)
    BY <1>1, <1>3 DEF BufRoom, BufWritable
  <2>2. BufMoved(b).size = b.size /\ BufMoved(b).write = BufPrepend + b.write - b.read
    BY DEF BufMoved, BufType
  <2>3. BufOverrun(BufMoved(b)) => b.read < BufPrepend
    BY <1>1, <2>2 DEF BufOverrun
  <2>4. ~BufOverrun(BufMoved(b)) => BufWritable(BufMoved(b)) >= n
    BY <1>1, <1>3, <2>2 DEF BufOverrun, BufCompacts, BufWritable
  <2>5. BufPrepend \in Nat /\ ~(BufPrepend < BufPrepend)
    BY <1>1
  <2>6. QED BY <2>1, <2>3, <2>4, <2>5, MovedKeeps
<1>4. CASE BufWritable(b) < n /\ ~BufCompacts(b, n)
  <2>1. BufRoom(b, n) = BufGrown(b, n)
    BY <1>1, <1>4 DEF BufRoom, BufWritable
  <2>2. /\ BufType(BufGrown(b, n)) /\ BufReadable(BufGrown(b, n)) = BufReadable(b)
        /\ BufGrown(b, n).read = b.read /\ BufGrown(b, n).size = b.write + n
        /\ BufGrown(b, n).write = b.write
    BY <1>4, GrownKeeps
  <2>3. BufWritable(BufGrown(b, n)) >= n /\ ~BufOverrun(BufGrown(b, n))
    BY <1>1, <2>2 DEF BufWritable, BufOverrun
  <2>4. QED BY <2>1, <2>2, <2>3
<1>5. QED BY <1>1, <1>2, <1>3, <1>4 DEF BufWritable


(* Bytes that fit behind write_index_ join the readable ones. *)
LEMMA PutAppends ==
  ASSUME NEW b, BufType(b), NEW s \in Seq(BufByte), Len(s) <= BufWritable(b)
  PROVE  /\ BufType(BufPut(b, s))
         /\ BufReadable(BufPut(b, s)) = BufReadable(b) \o s
         /\ BufPut(b, s).read = b.read
         /\ BufPut(b, s).size = b.size
         /\ BufPut(b, s).write = b.write + Len(s)
<1> DEFINE p == BufPut(b, s)
           data == [i \in 0..b.size - 1 |->
                      IF i \in b.write..b.write + Len(s) - 1 THEN s[i - b.write + 1] ELSE b.data[i]]
<1>1. /\ b.read \in Nat /\ b.write \in Nat /\ b.size \in Nat /\ b.read <= b.write
      /\ Len(s) \in Nat /\ b.write + Len(s) <= b.size /\ BufPrepend <= b.size
  BY LenProperties DEF BufType, BufWritable
<1>2. p = [b EXCEPT !.data = data, !.write = b.write + Len(s)]
  BY DEF BufPut
<1>3. p.data = data /\ p.size = b.size /\ p.read = b.read /\ p.write = b.write + Len(s)
  BY <1>2 DEF BufType
<1> HIDE DEF p, data
<1>4. data \in [0..b.size - 1 -> BufByte]
  <2>1. \A i \in b.write..b.write + Len(s) - 1 : s[i - b.write + 1] \in BufByte
    <3>1. \A i \in b.write..b.write + Len(s) - 1 : i - b.write + 1 \in 1..Len(s)
      BY <1>1
    <3>2. QED BY <3>1, ElementOfSeq
  <2>2. QED BY <2>1 DEF data, BufType
<1>5. BufType(p)
  <2>1. p \in [data : UNION {[0..k - 1 -> BufByte] : k \in Nat}, size : Nat, read : Nat, write : Nat]
    <3>1. data \in UNION {[0..k - 1 -> BufByte] : k \in Nat}
      BY <1>1, <1>4
    <3>2. b.write + Len(s) \in Nat
      BY <1>1
    <3>3. QED BY <1>2, <3>1, <3>2 DEF BufType
  <2>2. QED BY <1>1, <1>3, <1>4, <2>1 DEF BufType
<1>6. /\ BufReadable(b) \in Seq(BufByte)
      /\ Len(BufReadable(b)) = b.write - b.read
      /\ \A i \in 1..b.write - b.read : BufReadable(b)[i] = b.data[b.read + i - 1]
  BY ReadableSeq
<1>7. /\ BufReadable(p) \in Seq(BufByte)
      /\ Len(BufReadable(p)) = b.write + Len(s) - b.read
      /\ \A i \in 1..b.write + Len(s) - b.read : BufReadable(p)[i] = data[b.read + i - 1]
  BY <1>1, <1>3, <1>5, ReadableSeq
<1>8. /\ BufReadable(b) \o s \in Seq(BufByte)
      /\ Len(BufReadable(b) \o s) = b.write - b.read + Len(s)
      /\ \A i \in 1..b.write - b.read + Len(s) :
           (BufReadable(b) \o s)[i] = IF i <= b.write - b.read THEN BufReadable(b)[i] ELSE s[i - (b.write - b.read)]
  <2> DEFINE t == BufReadable(b)
  <2>1. t \in Seq(BufByte) /\ Len(t) = b.write - b.read
    BY <1>6
  <2> HIDE DEF t
  <2>2. /\ t \o s \in Seq(BufByte)
        /\ Len(t \o s) = Len(t) + Len(s)
        /\ \A i \in 1..Len(t) + Len(s) : (t \o s)[i] = IF i <= Len(t) THEN t[i] ELSE s[i - Len(t)]
    BY <2>1, ConcatProperties
  <2>3. QED BY <2>1, <2>2 DEF t
<1>9. ASSUME NEW i \in 1..b.write + Len(s) - b.read
      PROVE  BufReadable(p)[i] = (BufReadable(b) \o s)[i]
  <2>1. b.read + i - 1 \in 0..b.size - 1 /\ i \in 1..b.write - b.read + Len(s)
    <3>1. i \in Int /\ 1 <= i /\ i <= b.write + Len(s) - b.read
      BY <1>1
    <3>2. b.read + i - 1 \in Int /\ 0 <= b.read + i - 1 /\ b.read + i - 1 <= b.size - 1
      BY <1>1, <3>1
    <3>3. i <= b.write - b.read + Len(s)
      BY <1>1, <3>1
    <3>4. QED BY <1>1, <3>1, <3>2, <3>3
  <2>2. CASE i <= b.write - b.read
    <3>1. b.read + i - 1 \notin b.write..b.write + Len(s) - 1 /\ i \in 1..b.write - b.read
      BY <1>1, <2>2
    <3>2. data[b.read + i - 1] = b.data[b.read + i - 1]
      BY <2>1, <3>1 DEF data
    <3>3. QED BY <1>6, <1>7, <1>8, <2>1, <2>2, <3>1, <3>2
  <2>3. CASE ~(i <= b.write - b.read)
    <3>1. b.read + i - 1 \in b.write..b.write + Len(s) - 1
      BY <1>1, <2>3
    <3>2. data[b.read + i - 1] = s[(b.read + i - 1) - b.write + 1]
      BY <2>1, <3>1 DEF data
    <3>3. (b.read + i - 1) - b.write + 1 = i - (b.write - b.read)
      BY <1>1
    <3>4. QED BY <1>7, <1>8, <2>1, <2>3, <3>2, <3>3
  <2>4. QED BY <2>2, <2>3
<1>10. b.write - b.read + Len(s) = b.write + Len(s) - b.read
  BY <1>1
<1>11. BufReadable(p) = BufReadable(b) \o s
  BY <1>7, <1>8, <1>9, <1>10, SeqEqual
<1>12. QED BY <1>3, <1>5, <1>11 DEF p

-----------------------------------------------------------------------------
LEMMA BufInitInvariant == BufInit => BufIInv
<1> SUFFICES ASSUME BufInit PROVE BufIInv
  OBVIOUS
<1> DEFINE data == [i \in 0..BufInitial - 1 |-> BufZero]
<1>1. bufCells = [data |-> data, size |-> BufInitial, read |-> BufPrepend, write |-> BufPrepend]
  BY DEF BufInit
<1>2. BufPrepend \in Nat /\ BufInitial \in Nat /\ BufPrepend <= BufInitial /\ BufZero \in BufByte
  BY BufAssumption
<1>3. data \in [0..BufInitial - 1 -> BufByte]
  BY <1>2
<1> HIDE DEF data
<1>4. BufType(bufCells)
  <2>1. data \in UNION {[0..k - 1 -> BufByte] : k \in Nat}
    BY <1>2, <1>3
  <2>2. QED BY <1>1, <1>2, <1>3, <2>1 DEF BufType
<1>5. BufReadable(bufCells) = <<>>
  <2>1. bufCells.write - bufCells.read = 0
    BY <1>1, <1>2
  <2>2. Len(BufReadable(bufCells)) = 0 /\ BufReadable(bufCells) \in Seq(BufByte)
    BY <1>4, <2>1, ReadableSeq
  <2>3. QED BY <2>2, EmptySeq
<1>6. bufText = <<>> /\ bufFront = FALSE /\ bufTorn = FALSE /\ ~(bufCells.read < BufPrepend)
  BY <1>1, <1>2 DEF BufInit
<1>7. <<>> \in Seq(BufByte)
  BY EmptySeq
<1>8. BufReadable(bufCells) = bufText /\ bufText \in Seq(BufByte)
  BY <1>5, <1>6, <1>7
<1>9. bufFront \in BOOLEAN /\ bufTorn \in BOOLEAN
  BY <1>6
<1>10. QED BY <1>4, <1>6, <1>8, <1>9 DEF BufIInv

LEMMA AppendInvariant ==
  ASSUME BufIInv, NEW n \in Nat, NEW s \in [1..n -> BufByte], BufAppend(s) PROVE BufIInv'
<1> DEFINE room == BufRoom(bufCells, Len(s))
<1>1. s \in Seq(BufByte) /\ Len(s) \in Nat
  BY LenProperties
<1>2. BufType(bufCells) /\ ~bufTorn /\ BufReadable(bufCells) = bufText /\ bufText \in Seq(BufByte)
  BY DEF BufIInv, BufAppend
<1>3. /\ BufOverrun(room) => bufCells.read < BufPrepend
      /\ ~BufOverrun(room) =>
           /\ BufType(room) /\ BufReadable(room) = BufReadable(bufCells) /\ BufWritable(room) >= Len(s)
           /\ room.read < BufPrepend => bufCells.read < BufPrepend
  BY <1>1, <1>2, RoomKeeps
<1>4. bufTorn' = BufOverrun(room) /\ bufText' = bufText \o s /\ bufFront' = bufFront
      /\ bufTorn' \in BOOLEAN
  BY DEF BufAppend, BufOverrun
<1>5. bufText' \in Seq(BufByte)
  BY <1>1, <1>2, <1>4, ConcatProperties
<1>6. CASE BufOverrun(room)
  <2>1. bufCells' = bufCells
    BY <1>4, <1>6 DEF BufAppend
  <2>2. BufType(bufCells')
    BY <1>2, <2>1
  <2>3. QED BY <1>3, <1>4, <1>5, <1>6, <2>1, <2>2 DEF BufIInv
<1>7. CASE ~BufOverrun(room)
  <2>1. bufCells' = BufPut(room, s)
    BY <1>4, <1>7 DEF BufAppend
  <2>2. BufType(room) /\ Len(s) <= BufWritable(room)
    <3>1. BufWritable(room) \in Int
      BY <1>3, <1>7 DEF BufType, BufWritable
    <3>2. QED BY <1>1, <1>3, <1>7, <3>1
  <2>3. /\ BufType(bufCells') /\ BufReadable(bufCells') = BufReadable(room) \o s
        /\ bufCells'.read = room.read
    BY <1>1, <2>1, <2>2, PutAppends
  <2>4. BufReadable(bufCells') = bufText'
    BY <1>2, <1>3, <1>4, <1>7, <2>3
  <2>5. bufCells'.read < BufPrepend => bufFront'
    BY <1>3, <1>4, <1>7, <2>3 DEF BufIInv
  <2>6. BufReadable(bufCells)' = bufText'
    BY <2>4 DEF BufReadable
  <2>7. BufType(bufCells)'
    BY <2>3
  <2>8. QED BY <1>4, <1>5, <1>7, <2>5, <2>6, <2>7 DEF BufIInv
<1>8. QED BY <1>6, <1>7

LEMMA ReadFdInvariant ==
  ASSUME BufIInv, NEW k \in Nat, NEW s \in [1..k -> BufByte], BufReadFd(s) PROVE BufIInv'
<1> DEFINE n    == BufWritable(bufCells)
           head == SubSeq(s, 1, n)
           rest == SubSeq(s, n + 1, Len(s))
           full == BufPut(bufCells, head)
           room == BufRoom(full, Len(rest))
<1>1. s \in Seq(BufByte) /\ Len(s) \in Nat
  BY LenProperties
<1>2. BufType(bufCells) /\ ~bufTorn /\ BufReadable(bufCells) = bufText /\ bufText \in Seq(BufByte)
  BY DEF BufIInv, BufReadFd
<1>3. n \in Nat /\ Len(s) > n
  BY <1>2 DEF BufType, BufWritable, BufReadFd
<1>4. /\ head \in Seq(BufByte) /\ Len(head) = n /\ rest \in Seq(BufByte) /\ Len(rest) = Len(s) - n
      /\ head \o rest = s
  <2>1. n \in Nat /\ n <= Len(s)
    BY <1>1, <1>3
  <2> HIDE DEF n
  <2>2. QED BY <1>1, <2>1, Cut
<1>6. /\ BufType(full) /\ BufReadable(full) = bufText \o head /\ full.read = bufCells.read
  <2>1. Len(head) <= BufWritable(bufCells)
    BY <1>3, <1>4
  <2>2. QED BY <1>2, <1>4, <2>1, PutAppends
<1>7. Len(rest) \in Nat
  BY <1>1, <1>3, <1>4
<1>8. bufTorn' = BufOverrun(room) /\ bufText' = bufText \o s /\ bufFront' = bufFront
      /\ bufTorn' \in BOOLEAN /\ (bufCells' = IF bufTorn' THEN bufCells ELSE BufPut(room, rest))
  BY DEF BufReadFd, BufOverrun
<1> HIDE DEF full, head, rest, n
<1>9. /\ BufOverrun(room) => full.read < BufPrepend
      /\ ~BufOverrun(room) =>
           /\ BufType(room) /\ BufReadable(room) = BufReadable(full) /\ BufWritable(room) >= Len(rest)
           /\ room.read < BufPrepend => full.read < BufPrepend
  BY <1>6, <1>7, RoomKeeps
<1> HIDE DEF room
<1>10. bufText' \in Seq(BufByte) /\ (bufText \o head) \o rest = bufText'
  <2>1. (bufText \o head) \o rest = bufText \o (head \o rest)
    <3>1. bufText \in Seq(BufByte) /\ head \in Seq(BufByte) /\ rest \in Seq(BufByte)
      BY <1>2, <1>4
    <3>2. QED BY <3>1, ConcatAssociative
  <2>2. bufText \o s \in Seq(BufByte)
    BY <1>1, <1>2, ConcatProperties
  <2>3. QED BY <1>4, <1>8, <2>1, <2>2
<1>11. CASE BufOverrun(room)
  <2>1. bufCells' = bufCells
    BY <1>8, <1>11
  <2>2. BufType(bufCells')
    BY <1>2, <2>1
  <2>3. QED BY <1>6, <1>8, <1>9, <1>10, <1>11, <2>1, <2>2 DEF BufIInv
<1>12. CASE ~BufOverrun(room)
  <2>1. bufCells' = BufPut(room, rest)
    BY <1>8, <1>12
  <2>2. BufType(room) /\ Len(rest) <= BufWritable(room)
    <3>1. BufWritable(room) \in Int
      BY <1>9, <1>12 DEF BufType, BufWritable
    <3>2. QED BY <1>7, <1>9, <1>12, <3>1
  <2>3. /\ BufType(bufCells') /\ BufReadable(bufCells') = BufReadable(room) \o rest
        /\ bufCells'.read = room.read
    BY <1>4, <2>1, <2>2, PutAppends
  <2>4. BufReadable(bufCells') = bufText'
    BY <1>6, <1>9, <1>10, <1>12, <2>3
  <2>5. bufCells'.read < BufPrepend => bufFront'
    BY <1>6, <1>8, <1>9, <1>12, <2>3 DEF BufIInv
  <2>6. BufReadable(bufCells)' = bufText'
    BY <2>4 DEF BufReadable
  <2>7. BufType(bufCells)'
    BY <2>3
  <2>8. QED BY <1>8, <1>10, <1>12, <2>5, <2>6, <2>7 DEF BufIInv
<1>13. QED BY <1>11, <1>12


LEMMA RetrieveInvariant ==
  ASSUME BufIInv, NEW n \in Nat, BufRetrieve(n) PROVE BufIInv'
<1> DEFINE len == bufCells.write - bufCells.read
<1>1. BufType(bufCells) /\ ~bufTorn /\ BufReadable(bufCells) = bufText /\ bufText \in Seq(BufByte)
  BY DEF BufIInv, BufRetrieve
<1>2. /\ bufCells.read \in Nat /\ bufCells.write \in Nat /\ bufCells.size \in Nat /\ len \in Nat
      /\ bufCells.write <= bufCells.size /\ BufPrepend \in Nat /\ BufPrepend <= bufCells.size
  BY <1>1, BufAssumption DEF BufType
<1>3. /\ Len(bufText) = len
      /\ \A i \in 1..len : bufText[i] = bufCells.data[bufCells.read + i - 1]
  BY <1>1, ReadableSeq
<1>4. n <= len /\ bufTorn' = bufTorn /\ bufText' = SubSeq(bufText, n + 1, Len(bufText))
  BY <1>2 DEF BufRetrieve
<1>5. /\ bufText' \in Seq(BufByte) /\ Len(bufText') = len - n
      /\ \A i \in 1..len - n : bufText'[i] = bufText[n + i]
  BY <1>1, <1>2, <1>3, <1>4
<1>6. /\ BufType(bufCells') /\ bufCells'.data = bufCells.data /\ bufCells'.write - bufCells'.read = len - n
      /\ \A i \in 1..len - n : bufCells'.data[bufCells'.read + i - 1] = bufCells.data[bufCells.read + n + i - 1]
      /\ (bufCells'.read < BufPrepend => bufFront') /\ bufFront' \in BOOLEAN
  <2>1. CASE n < len
    <3>1. bufCells' = [bufCells EXCEPT !.read = bufCells.read + n] /\ bufFront' = bufFront
      BY <1>2, <2>1 DEF BufRetrieve
    <3>2. /\ bufCells'.data = bufCells.data /\ bufCells'.size = bufCells.size /\ bufCells'.write = bufCells.write
          /\ bufCells'.read = bufCells.read + n
      BY <1>1, <3>1 DEF BufType
    <3>3. BufType(bufCells')
      <4>1. bufCells.read + n \in Nat /\ bufCells.read + n <= bufCells.write
        BY <1>2, <2>1
      <4>2. bufCells' \in [data : UNION {[0..k - 1 -> BufByte] : k \in Nat}, size : Nat, read : Nat, write : Nat]
        BY <1>1, <3>1, <4>1 DEF BufType
      <4>3. QED BY <1>1, <3>2, <4>1, <4>2 DEF BufType
    <3>4. bufCells'.write - bufCells'.read = len - n /\ (bufCells'.read < BufPrepend => bufCells.read < BufPrepend)
      BY <1>2, <3>2
    <3>5. QED BY <3>1, <3>2, <3>3, <3>4 DEF BufIInv
  <2>2. CASE n = len
    <3>1. bufCells' = [bufCells EXCEPT !.read = BufPrepend, !.write = BufPrepend] /\ bufFront' = FALSE
      BY <1>2, <2>2 DEF BufRetrieve
    <3>2. /\ bufCells'.data = bufCells.data /\ bufCells'.size = bufCells.size /\ bufCells'.write = BufPrepend
          /\ bufCells'.read = BufPrepend
      BY <1>1, <3>1 DEF BufType
    <3>3. BufType(bufCells')
      <4>1. bufCells' \in [data : UNION {[0..k - 1 -> BufByte] : k \in Nat}, size : Nat, read : Nat, write : Nat]
        BY <1>1, <1>2, <3>1 DEF BufType
      <4>2. BufPrepend <= BufPrepend
        BY <1>2
      <4>3. QED BY <1>1, <1>2, <3>2, <4>1, <4>2 DEF BufType
    <3>4. len - n = 0 /\ bufCells'.write - bufCells'.read = 0 /\ ~(bufCells'.read < BufPrepend)
      BY <1>2, <2>2, <3>2
    <3>5. \A i \in 1..len - n : bufCells'.data[bufCells'.read + i - 1] = bufCells.data[bufCells.read + n + i - 1]
      BY <3>4
    <3>6. bufCells'.write - bufCells'.read = len - n /\ bufFront' \in BOOLEAN
      BY <3>1, <3>4
    <3>7. QED BY <3>2, <3>3, <3>4, <3>5, <3>6
  <2>3. QED BY <1>2, <1>4, <2>1, <2>2
<1>7. /\ BufReadable(bufCells') \in Seq(BufByte) /\ Len(BufReadable(bufCells')) = len - n
      /\ \A i \in 1..len - n : BufReadable(bufCells')[i] = bufCells'.data[bufCells'.read + i - 1]
  <2> DEFINE b == bufCells'
  <2>1. BufType(b)
    BY <1>6
  <2> HIDE DEF b
  <2>2. /\ BufReadable(b) \in Seq(BufByte)
        /\ Len(BufReadable(b)) = b.write - b.read
        /\ \A i \in 1..b.write - b.read : BufReadable(b)[i] = b.data[b.read + i - 1]
    BY <2>1, ReadableSeq
  <2>3. QED BY <1>6, <2>2 DEF b
<1>8. ASSUME NEW i \in 1..len - n PROVE BufReadable(bufCells')[i] = bufText'[i]
  <2>1. n + i \in 1..len /\ bufCells.read + (n + i) - 1 = bufCells.read + n + i - 1
    BY <1>2
  <2>2. bufText[n + i] = bufCells.data[bufCells.read + (n + i) - 1]
    BY <1>3, <2>1
  <2>3. QED BY <1>5, <1>6, <1>7, <2>1, <2>2
<1>9. BufReadable(bufCells') = bufText'
  BY <1>5, <1>7, <1>8, SeqEqual
<1>10. BufReadable(bufCells)' = bufText' /\ BufType(bufCells)'
  BY <1>6, <1>9 DEF BufReadable
<1>11. QED BY <1>1, <1>4, <1>5, <1>6, <1>10 DEF BufIInv

(* Where the bytes are when l of them are prepended at r. *)
LEMMA PrependedPlaces ==
  ASSUME NEW r \in Nat, NEW l \in Nat, NEW w \in Nat, NEW z \in Nat, l <= r, r <= w, w <= z,
         NEW i \in 1..(w - r) + l
  PROVE  /\ (r - l) + i - 1 \in 0..z - 1
         /\ i <= l => (r - l) + i - 1 \in (r - l)..r - 1 /\ ((r - l) + i - 1) - (r - l) + 1 = i
         /\ ~(i <= l) => /\ (r - l) + i - 1 \notin (r - l)..r - 1
                         /\ (r - l) + i - 1 = r + (i - l) - 1
                         /\ i - l \in 1..w - r
  OBVIOUS

LEMMA PrependInvariant ==
  ASSUME BufIInv, NEW n \in Nat, NEW s \in [1..n -> BufByte], BufPrependBytes(s) PROVE BufIInv'
<1> DEFINE read == bufCells.read - Len(s)
           data == [i \in 0..bufCells.size - 1 |->
                      IF i \in read..bufCells.read - 1 THEN s[i - read + 1] ELSE bufCells.data[i]]
           len == bufCells.write - bufCells.read
<1>1. s \in Seq(BufByte) /\ Len(s) \in Nat
  BY LenProperties
<1>2. BufType(bufCells) /\ ~bufTorn /\ BufReadable(bufCells) = bufText /\ bufText \in Seq(BufByte)
  BY DEF BufIInv, BufPrependBytes
<1>3. /\ bufCells.read \in Nat /\ bufCells.write \in Nat /\ bufCells.size \in Nat /\ bufCells.read <= bufCells.write
      /\ bufCells.write <= bufCells.size /\ len \in Nat /\ read \in Nat /\ BufPrepend <= bufCells.size
      /\ Len(s) <= bufCells.read
  BY <1>1, <1>2 DEF BufType, BufPrependBytes
<1>4. /\ Len(bufText) = len
      /\ \A i \in 1..len : bufText[i] = bufCells.data[bufCells.read + i - 1]
  BY <1>2, ReadableSeq
<1>5. /\ bufCells' = [bufCells EXCEPT !.data = data, !.read = read]
      /\ bufText' = s \o bufText /\ bufFront' = TRUE /\ bufTorn' = bufTorn
  BY DEF BufPrependBytes
<1>6. /\ bufCells'.data = data /\ bufCells'.size = bufCells.size /\ bufCells'.write = bufCells.write /\ bufCells'.read = read
  BY <1>2, <1>5 DEF BufType
<1>7. data \in [0..bufCells.size - 1 -> BufByte]
  <2>1. \A i \in read..bufCells.read - 1 : s[i - read + 1] \in BufByte
    <3>1. \A i \in read..bufCells.read - 1 : i - read + 1 \in 1..Len(s)
      BY <1>1, <1>3
    <3>2. QED BY <1>1, <3>1, ElementOfSeq
  <2>2. QED BY <1>2, <2>1 DEF BufType
<1>8. \A i \in 1..len + Len(s) :
        data[read + i - 1] = IF i <= Len(s) THEN s[i] ELSE bufCells.data[bufCells.read + (i - Len(s)) - 1]
  <2> SUFFICES ASSUME NEW i \in 1..len + Len(s)
               PROVE  data[read + i - 1] = IF i <= Len(s) THEN s[i] ELSE bufCells.data[bufCells.read + (i - Len(s)) - 1]
    OBVIOUS
  <2> HIDE DEF data
  <2>1. /\ read + i - 1 \in 0..bufCells.size - 1
        /\ i <= Len(s) => read + i - 1 \in read..bufCells.read - 1 /\ (read + i - 1) - read + 1 = i
        /\ ~(i <= Len(s)) => /\ read + i - 1 \notin read..bufCells.read - 1
                             /\ read + i - 1 = bufCells.read + (i - Len(s)) - 1
    <3> DEFINE r == bufCells.read
               l == Len(s)
               w == bufCells.write
               z == bufCells.size
    <3>1. r \in Nat /\ l \in Nat /\ w \in Nat /\ z \in Nat /\ l <= r /\ r <= w /\ w <= z
          /\ i \in 1..(w - r) + l
      BY <1>1, <1>3
    <3> HIDE DEF r, l, w, z
    <3>2. /\ (r - l) + i - 1 \in 0..z - 1
          /\ i <= l => (r - l) + i - 1 \in (r - l)..r - 1 /\ ((r - l) + i - 1) - (r - l) + 1 = i
          /\ ~(i <= l) => /\ (r - l) + i - 1 \notin (r - l)..r - 1
                          /\ (r - l) + i - 1 = r + (i - l) - 1
      BY <3>1, PrependedPlaces
    <3>3. QED BY <3>2 DEF r, l, w, z
  <2>2. CASE i <= Len(s)
    BY <2>1, <2>2 DEF data
  <2>3. CASE ~(i <= Len(s))
    BY <2>1, <2>3 DEF data
  <2>4. QED BY <2>2, <2>3
<1> HIDE DEF data
<1>9. BufType(bufCells')
  <2>1. bufCells' \in [data : UNION {[0..k - 1 -> BufByte] : k \in Nat}, size : Nat, read : Nat, write : Nat]
    <3>1. data \in UNION {[0..k - 1 -> BufByte] : k \in Nat}
      BY <1>3, <1>7
    <3>2. QED BY <1>2, <1>3, <1>5, <3>1 DEF BufType
  <2>2. read <= bufCells.write
    BY <1>1, <1>3
  <2>3. QED BY <1>3, <1>6, <1>7, <2>1, <2>2 DEF BufType
<1>10. /\ bufText' \in Seq(BufByte) /\ Len(bufText') = Len(s) + len
       /\ \A i \in 1..Len(s) + len : bufText'[i] = IF i <= Len(s) THEN s[i] ELSE bufText[i - Len(s)]
  <2>1. /\ s \o bufText \in Seq(BufByte) /\ Len(s \o bufText) = Len(s) + Len(bufText)
        /\ \A i \in 1..Len(s) + Len(bufText) :
             (s \o bufText)[i] = IF i <= Len(s) THEN s[i] ELSE bufText[i - Len(s)]
    BY <1>1, <1>2, ConcatProperties
  <2>2. Len(bufText) = len /\ bufText' = s \o bufText
    BY <1>4, <1>5
  <2>3. QED BY <2>1, <2>2
<1>11. /\ BufReadable(bufCells') \in Seq(BufByte) /\ Len(BufReadable(bufCells')) = Len(s) + len
       /\ \A i \in 1..Len(s) + len : BufReadable(bufCells')[i] = data[read + i - 1]
  <2> DEFINE b == bufCells'
  <2>1. BufType(b)
    BY <1>9
  <2> HIDE DEF b
  <2>2. /\ BufReadable(b) \in Seq(BufByte)
        /\ Len(BufReadable(b)) = b.write - b.read
        /\ \A i \in 1..b.write - b.read : BufReadable(b)[i] = b.data[b.read + i - 1]
    BY <2>1, ReadableSeq
  <2>3. b.write - b.read = Len(s) + len
    BY <1>1, <1>3, <1>6 DEF b
  <2>4. QED BY <1>6, <2>2, <2>3 DEF b
<1>12. ASSUME NEW i \in 1..Len(s) + len PROVE BufReadable(bufCells')[i] = bufText'[i]
  <2>1. i \in 1..len + Len(s)
    BY <1>1, <1>3
  <2>2. CASE i <= Len(s)
    BY <1>8, <1>10, <1>11, <2>1, <2>2
  <2>3. CASE ~(i <= Len(s))
    <3>1. i - Len(s) \in 1..len
      BY <1>1, <1>3, <2>1, <2>3, PrependedPlaces
    <3>2. bufText[i - Len(s)] = bufCells.data[bufCells.read + (i - Len(s)) - 1]
      BY <1>4, <3>1
    <3>3. QED BY <1>8, <1>10, <1>11, <2>1, <2>3, <3>2
  <2>4. QED BY <2>2, <2>3
<1>13. BufReadable(bufCells') = bufText'
  BY <1>10, <1>11, <1>12, SeqEqual
<1>14. BufReadable(bufCells)' = bufText' /\ BufType(bufCells)'
  BY <1>9, <1>13 DEF BufReadable
<1>15. QED BY <1>2, <1>5, <1>10, <1>14 DEF BufIInv

LEMMA BufStepInvariant == BufIInv /\ [BufNext]_bufVars => BufIInv'
<1> SUFFICES ASSUME BufIInv, [BufNext]_bufVars PROVE BufIInv'
  OBVIOUS
<1>0. BufMax \in Nat
  BY BufAssumption
<1>1. ASSUME NEW n \in 1..BufMax, NEW s \in [1..n -> BufByte], BufAppend(s) PROVE BufIInv'
  BY <1>0, <1>1, AppendInvariant
<1>2. ASSUME NEW n \in 1..BufMax, NEW s \in [1..n -> BufByte], BufReadFd(s) PROVE BufIInv'
  BY <1>0, <1>2, ReadFdInvariant
<1>3. ASSUME NEW n \in 1..BufMax, NEW s \in [1..n -> BufByte], BufPrependBytes(s) PROVE BufIInv'
  BY <1>0, <1>3, PrependInvariant
<1>4. ASSUME NEW n \in 1..BufMax, BufRetrieve(n) PROVE BufIInv'
  BY <1>0, <1>4, RetrieveInvariant
<1>5. CASE UNCHANGED bufVars
  BY <1>5 DEF bufVars, BufIInv, BufType, BufReadable
<1>6. QED BY <1>1, <1>2, <1>3, <1>4, <1>5 DEF BufNext

(* In every behaviour of the buffer the indices stay ordered and inside the  *)
(* vector: it is the invariant that the exactness rests on.                  *)
THEOREM BufIndices == BufSpec => []BufIInv
<1>1. QED BY BufInitInvariant, BufStepInvariant, PTL DEF BufSpec

(* Readers find exactly what is readable, and only a buffer that Prepend was *)
(* used on can be written past its end, for every size, prepend area and     *)
(* length of the operations (Buffer.cpp:23-157).                             *)
THEOREM BufExact == BufSpec => []BufferExact
<1>1. BufIInv => BufferExact
  BY DEF BufIInv, BufferExact
<1>2. QED BY <1>1, BufIndices, PTL

-----------------------------------------------------------------------------
(* TimerQueue: TimersArmed for every set of timers, delays, intervals and lateness. *)
(* What is left of timers has a lower bound, so that one is the earliest. *)
TimerBounded(left) ==
  /\ \A t \in DOMAIN left : left[t] \in Int
  /\ \E k \in Int : \A t \in DOMAIN left : k <= left[t]

TimerIInv ==
  /\ TimerBounded(timerLeft)
  /\ DOMAIN timerLeft \subseteq DOMAIN timerEach /\ timerRan \subseteq DOMAIN timerEach
  /\ timerActive \subseteq DOMAIN timerEach
  /\ timerPc # "run" => timerActive = {}
  /\ \A t \in DOMAIN timerEach : timerEach[t] \in Nat
  /\ timerFd \in Nat /\ timerReady \in BOOLEAN
  /\ TimersArmed

-----------------------------------------------------------------------------
(* There is an earliest timer. *)
LEMMA Earliest ==
  ASSUME NEW left, TimerBounded(left), DOMAIN left # {}
  PROVE  /\ TimerFirst(left) \in Int
         /\ \E t \in DOMAIN left : TimerFirst(left) = left[t]
         /\ \A t \in DOMAIN left : TimerFirst(left) <= left[t]
<1>1. PICK k \in Int : \A t \in DOMAIN left : k <= left[t]
  BY DEF TimerBounded
<1>2. \A t \in DOMAIN left : left[t] \in Int
  BY DEF TimerBounded
<1> DEFINE above == {left[t] - k : t \in DOMAIN left}
           less  == OpToRel(<, Nat)
<1>3. above \subseteq Nat /\ above # {}
  BY <1>1, <1>2
<1>4. PICK x \in above : \A y \in above : ~(<<y, x>> \in less)
  BY <1>3, NatLessThanWellFounded, WFMin
<1>5. \A y \in above : x <= y
  <2> SUFFICES ASSUME NEW y \in above PROVE x <= y
    OBVIOUS
  <2>1. x \in Nat /\ y \in Nat
    BY <1>3
  <2>2. ~(y < x)
    BY <1>4, <2>1 DEF OpToRel
  <2>3. QED BY <2>1, <2>2
<1>6. PICK t0 \in DOMAIN left : x = left[t0] - k
  OBVIOUS
<1>7. \A t \in DOMAIN left : left[t0] <= left[t]
  <2> SUFFICES ASSUME NEW t \in DOMAIN left PROVE left[t0] <= left[t]
    OBVIOUS
  <2>1. x <= left[t] - k
    BY <1>5
  <2>2. left[t] \in Int /\ left[t0] \in Int /\ k \in Int
    BY <1>2
  <2>3. QED BY <1>6, <2>1, <2>2
<1> HIDE DEF above, less
<1> DEFINE values == {left[t] : t \in DOMAIN left}
<1>8. \E n \in values : \A t \in DOMAIN left : n <= left[t]
  BY <1>7
<1>9. TimerFirst(left) \in values /\ \A t \in DOMAIN left : TimerFirst(left) <= left[t]
  BY <1>8 DEF TimerFirst
<1>10. QED BY <1>2, <1>9

LEMMA Soonest ==
  ASSUME NEW left, TimerBounded(left), DOMAIN left # {}
  PROVE  TimerSoonest(left) \in Nat /\ 1 <= TimerSoonest(left)
BY Earliest DEF TimerSoonest

-----------------------------------------------------------------------------
LEMMA TimerInitInvariant == TimerInit => TimerIInv
<1> SUFFICES ASSUME TimerInit PROVE TimerIInv
  OBVIOUS
<1>1. DOMAIN timerLeft = {} /\ DOMAIN timerEach = {} /\ timerRan = {} /\ timerActive = {}
      /\ timerFd = 0 /\ timerReady = FALSE
  BY DEF TimerInit
<1>2. TimerBounded(timerLeft)
  <2>1. 0 \in Int /\ \A t \in DOMAIN timerLeft : 0 <= timerLeft[t]
    BY <1>1
  <2>2. QED BY <1>1, <2>1 DEF TimerBounded
<1>3. TimersArmed
  BY <1>1 DEF TimersArmed
<1>4. timerFd \in Nat /\ timerReady \in BOOLEAN
  BY <1>1
<1>5. QED BY <1>1, <1>2, <1>3, <1>4 DEF TimerIInv

LEMMA TickInvariant == ASSUME TimerIInv, TimerTick PROVE TimerIInv'
<1>1. TimerBounded(timerLeft) /\ timerFd \in Nat /\ timerReady \in BOOLEAN /\ TimersArmed
  BY DEF TimerIInv
<1>2. /\ DOMAIN timerLeft' = DOMAIN timerLeft
      /\ \A t \in DOMAIN timerLeft : timerLeft'[t] = timerLeft[t] - 1
      /\ timerPc' = timerPc
  BY DEF TimerTick
<1>3. TimerBounded(timerLeft')
  <2>1. PICK k \in Int : \A t \in DOMAIN timerLeft : k <= timerLeft[t]
    BY <1>1 DEF TimerBounded
  <2>2. \A t \in DOMAIN timerLeft : timerLeft[t] \in Int
    BY <1>1 DEF TimerBounded
  <2>3. k - 1 \in Int /\ \A t \in DOMAIN timerLeft' : k - 1 <= timerLeft'[t] /\ timerLeft'[t] \in Int
    BY <1>2, <2>1, <2>2
  <2>4. QED BY <2>3 DEF TimerBounded
<1>4. timerFd' \in Nat /\ timerReady' \in BOOLEAN
  BY <1>1 DEF TimerTick
<1>5. ASSUME timerPc = "poll", DOMAIN timerLeft # {}
      PROVE  timerReady' \/ timerFd' \in 1..TimerSoonest(timerLeft')
  <2>1. timerReady \/ timerFd \in 1..TimerSoonest(timerLeft)
    BY <1>1, <1>5 DEF TimersArmed
  <2>2. CASE timerReady \/ timerFd = 1
    BY <1>1, <2>2 DEF TimerTick
  <2>3. CASE ~timerReady /\ timerFd # 1
    <3>1. TimerFirst(timerLeft) \in Int /\ TimerSoonest(timerLeft) \in Nat
      BY <1>1, <1>5, Earliest, Soonest
    <3>2. 2 <= timerFd /\ timerFd <= TimerFirst(timerLeft)
      BY <1>1, <2>1, <2>3, <3>1 DEF TimerSoonest
    <3>3. timerFd' = timerFd - 1
      BY <2>3, <3>2 DEF TimerTick
    <3>4. /\ TimerFirst(timerLeft') \in Int
          /\ \E t \in DOMAIN timerLeft' : TimerFirst(timerLeft') = timerLeft'[t]
      BY <1>2, <1>3, <1>5, Earliest
    <3>5. PICK t \in DOMAIN timerLeft : TimerFirst(timerLeft') = timerLeft'[t]
      BY <1>2, <3>4
    <3>6. timerLeft'[t] = timerLeft[t] - 1 /\ TimerFirst(timerLeft) <= timerLeft[t] /\ timerLeft[t] \in Int
      BY <1>1, <1>2, <1>5, Earliest DEF TimerBounded
    <3>7. 1 <= timerFd' /\ timerFd' <= TimerFirst(timerLeft')
      BY <1>1, <3>1, <3>2, <3>3, <3>4, <3>5, <3>6
    <3>8. timerFd' \in 1..TimerSoonest(timerLeft')
      BY <1>4, <3>4, <3>7 DEF TimerSoonest
    <3>9. QED BY <3>8
  <2>4. QED BY <2>2, <2>3
<1>6. TimersArmed'
  BY <1>2, <1>5 DEF TimersArmed, TimerSoonest, TimerFirst
<1>7. TimerBounded(timerLeft)'
  BY <1>3 DEF TimerBounded
<1>8. QED BY <1>2, <1>4, <1>6, <1>7 DEF TimerIInv, TimerTick

LEMMA AddInvariant ==
  ASSUME TimerIInv, NEW u, NEW d \in Int, NEW e \in Nat, TimerAdd(u, d, e) PROVE TimerIInv'
<1>1. TimerBounded(timerLeft) /\ timerFd \in Nat /\ timerReady \in BOOLEAN /\ TimersArmed
  BY DEF TimerIInv
<1>2. /\ u \notin DOMAIN timerLeft
      /\ DOMAIN timerLeft' = DOMAIN timerLeft \cup {u} /\ timerLeft'[u] = d
      /\ \A t \in DOMAIN timerLeft : timerLeft'[t] = timerLeft[t]
      /\ timerPc' = timerPc
  BY DEF TimerAdd, TimerWith, TimerIInv
<1>3. TimerBounded(timerLeft')
  <2>1. PICK k \in Int : \A t \in DOMAIN timerLeft : k <= timerLeft[t]
    BY <1>1 DEF TimerBounded
  <2>2. \A t \in DOMAIN timerLeft : timerLeft[t] \in Int
    BY <1>1 DEF TimerBounded
  <2>3. PICK j \in Int : j <= k /\ j <= d
    <3>1. CASE k <= d
      BY <3>1
    <3>2. CASE ~(k <= d)
      BY <3>2
    <3>3. QED BY <3>1, <3>2
  <2>4. \A t \in DOMAIN timerLeft' : j <= timerLeft'[t] /\ timerLeft'[t] \in Int
    BY <1>2, <2>1, <2>2, <2>3
  <2>5. QED BY <2>4 DEF TimerBounded
<1>4. timerFd' \in Nat /\ timerReady' \in BOOLEAN
  <2>1. CASE TimerIsFirst(d)
    <3>1. timerFd' = (IF d < 1 THEN 1 ELSE d) /\ timerReady' = FALSE
      BY <2>1 DEF TimerAdd
    <3>2. (IF d < 1 THEN 1 ELSE d) \in Nat
      OBVIOUS
    <3>3. QED BY <3>1, <3>2
  <2>2. CASE ~TimerIsFirst(d)
    BY <1>1, <2>2 DEF TimerAdd
  <2>3. QED BY <2>1, <2>2
<1>5. /\ TimerFirst(timerLeft') \in Int
      /\ \E t \in DOMAIN timerLeft' : TimerFirst(timerLeft') = timerLeft'[t]
  BY <1>2, <1>3, Earliest
<1>6. ASSUME timerPc = "poll"
      PROVE  timerReady' \/ timerFd' \in 1..TimerSoonest(timerLeft')
  <2>1. CASE TimerIsFirst(d)
    <3>1. timerFd' = IF d < 1 THEN 1 ELSE d
      BY <2>1 DEF TimerAdd
    <3>2. \A t \in DOMAIN timerLeft : d <= timerLeft[t]
      <4>1. CASE DOMAIN timerLeft = {}
        BY <4>1
      <4>2. CASE DOMAIN timerLeft # {}
        BY <1>1, <2>1, <4>2, Earliest DEF TimerIsFirst, TimerBounded
      <4>3. QED BY <4>1, <4>2
    <3>3. d <= TimerFirst(timerLeft')
      BY <1>2, <1>5, <3>2
    <3>4. QED BY <1>5, <3>1, <3>3 DEF TimerSoonest
  <2>2. CASE ~TimerIsFirst(d)
    <3>1. DOMAIN timerLeft # {} /\ ~(d < TimerFirst(timerLeft))
      BY <2>2 DEF TimerIsFirst
    <3>2. timerFd' = timerFd /\ timerReady' = timerReady
      BY <2>2 DEF TimerAdd
    <3>3. TimerFirst(timerLeft) \in Int /\ \A t \in DOMAIN timerLeft : TimerFirst(timerLeft) <= timerLeft[t]
      BY <1>1, <3>1, Earliest
    <3>4. TimerFirst(timerLeft) <= TimerFirst(timerLeft')
      BY <1>2, <1>5, <3>1, <3>3
    <3>5. timerReady \/ timerFd \in 1..TimerSoonest(timerLeft)
      BY <1>1, <1>6, <3>1 DEF TimersArmed
    <3>6. QED BY <1>1, <1>5, <3>2, <3>3, <3>4, <3>5 DEF TimerSoonest
  <2>3. QED BY <2>1, <2>2
<1>7. TimersArmed'
  BY <1>2, <1>6 DEF TimersArmed, TimerSoonest, TimerFirst
<1>8. TimerBounded(timerLeft)'
  BY <1>3 DEF TimerBounded
<1>9. /\ DOMAIN timerEach' = DOMAIN timerEach \cup {u}
      /\ \A t \in DOMAIN timerEach' : timerEach'[t] \in Nat
  BY DEF TimerAdd, TimerWith, TimerIInv
<1>10. QED BY <1>2, <1>4, <1>7, <1>8, <1>9 DEF TimerIInv, TimerAdd

LEMMA TimerHandleInvariant ==
  ASSUME TimerIInv, TimerPoll \/ TimerHandleRead \/ TimerRun PROVE TimerIInv'
<1>1. CASE TimerPoll
  BY <1>1 DEF TimerPoll, TimerIInv, TimerBounded, TimersArmed
<1>2. CASE TimerHandleRead
  <2>1. /\ DOMAIN timerLeft' \subseteq DOMAIN timerLeft /\ timerActive' \subseteq DOMAIN timerLeft
        /\ \A t \in DOMAIN timerLeft' : timerLeft'[t] = timerLeft[t]
        /\ timerRan' = {} /\ timerReady' = FALSE /\ timerEach' = timerEach /\ timerFd' = timerFd
        /\ timerPc' = "run"
    BY <1>2 DEF TimerHandleRead
  <2>2. TimerBounded(timerLeft)'
    BY <2>1 DEF TimerBounded, TimerIInv
  <2>3. TimersArmed'
    BY <2>1 DEF TimersArmed
  <2>4. QED BY <2>1, <2>2, <2>3 DEF TimerIInv
<1>3. CASE TimerRun
  <2>1. timerPc' # "poll" /\ UNCHANGED <<timerLeft, timerEach, timerFd, timerReady>>
    BY <1>3 DEF TimerRun
  <2>2. timerActive' \subseteq DOMAIN timerEach /\ timerRan' \subseteq DOMAIN timerEach
    BY <1>3 DEF TimerRun, TimerIInv
  <2>3. timerPc' # "run" => timerActive' = {}
    BY <1>3 DEF TimerRun
  <2>4. TimerBounded(timerLeft)' /\ TimersArmed'
    BY <2>1 DEF TimerIInv, TimerBounded, TimersArmed
  <2>5. QED BY <2>1, <2>2, <2>3, <2>4 DEF TimerIInv
<1>4. QED BY <1>1, <1>2, <1>3

LEMMA ResetInvariant == ASSUME TimerIInv, TimerReset PROVE TimerIInv'
<1> DEFINE again == {t \in timerRan : timerEach[t] > 0}
           left == [t \in DOMAIN timerLeft \cup again |->
                      IF t \in again THEN timerEach[t] ELSE timerLeft[t]]
<1>1. /\ timerLeft' = left /\ timerRan' = {} /\ timerActive' = timerActive
      /\ timerEach' = [t \in DOMAIN left |-> timerEach[t]]
      /\ IF DOMAIN left = {} THEN timerFd' = timerFd /\ timerReady' = timerReady
         ELSE timerFd' = TimerSoonest(left) /\ timerReady' = FALSE
  BY DEF TimerReset
<1>2. again \subseteq DOMAIN timerEach /\ \A t \in again : timerEach[t] \in Nat
  BY DEF TimerIInv
<1>3. TimerBounded(left)
  <2>1. TimerBounded(timerLeft)
    BY DEF TimerIInv
  <2>2. PICK k \in Int : \A t \in DOMAIN timerLeft : k <= timerLeft[t]
    BY <2>1 DEF TimerBounded
  <2>3. PICK j \in Int : j <= k /\ j <= 0
    <3>1. CASE k <= 0
      BY <3>1
    <3>2. CASE ~(k <= 0)
      BY <3>2
    <3>3. QED BY <3>1, <3>2
  <2>4. \A t \in DOMAIN left : j <= left[t] /\ left[t] \in Int
    BY <1>2, <2>1, <2>2, <2>3 DEF TimerBounded
  <2>5. QED BY <2>4 DEF TimerBounded
<1>4. DOMAIN left \subseteq DOMAIN timerEach
  BY <1>2 DEF TimerIInv
<1>5. timerFd \in Nat /\ timerReady \in BOOLEAN /\ \A t \in DOMAIN timerEach : timerEach[t] \in Nat
  BY DEF TimerIInv
<1> HIDE DEF left, again
<1>6. DOMAIN left # {} => TimerSoonest(left) \in Nat /\ 1 <= TimerSoonest(left)
  BY <1>3, Soonest
<1>7. timerFd' \in Nat /\ timerReady' \in BOOLEAN
  BY <1>1, <1>5, <1>6
<1>8. DOMAIN left # {} => timerFd' \in 1..TimerSoonest(left)
  BY <1>1, <1>6
<1>9. TimersArmed'
  BY <1>1, <1>8 DEF TimersArmed, TimerSoonest, TimerFirst
<1>10. TimerBounded(timerLeft)'
  BY <1>1, <1>3 DEF TimerBounded
<1>11. DOMAIN timerEach' = DOMAIN timerLeft' /\ timerRan' = {} /\ timerActive' = {}
  BY <1>1 DEF TimerIInv, TimerReset, left
<1>12. \A t \in DOMAIN timerEach' : timerEach'[t] \in Nat
  BY <1>1, <1>4, <1>5
<1>13. QED BY <1>7, <1>9, <1>10, <1>11, <1>12 DEF TimerIInv

LEMMA TimerStepInvariant == TimerIInv /\ [TimerTick \/ TimerStep \/ TimerUse]_timerVars => TimerIInv'
<1> SUFFICES ASSUME TimerIInv, [TimerTick \/ TimerStep \/ TimerUse]_timerVars PROVE TimerIInv'
  OBVIOUS
<1>1. ASSUME NEW t \in TimerIds, NEW d \in TimerDelays, NEW e \in TimerEvery, TimerAdd(t, d, e)
      PROVE  TimerIInv'
  BY <1>1, TimerAssumption, AddInvariant
<1>2. CASE UNCHANGED timerVars
  BY <1>2 DEF timerVars, TimerIInv, TimerBounded, TimersArmed
<1>3. QED BY <1>1, <1>2, TickInvariant, TimerHandleInvariant, ResetInvariant DEF TimerStep, TimerUse

(* While the loop waits, the timerfd is readable or set for the earliest     *)
(* timer, for every choice of delays, intervals and lateness                 *)
(* (TimerQueue.cpp:59-117).                                                  *)
THEOREM Armed == TimerSpec => []TimersArmed
<1>1. TimerIInv => TimersArmed
  BY DEF TimerIInv
<1>2. QED BY <1>1, TimerInitInvariant, TimerStepInvariant, PTL DEF TimerSpec

-----------------------------------------------------------------------------
(* Downloads: DownloadExact for every size of files and chunks and every range. *)
DownFrom(start, end) == [i \in 1..end - start |-> start + i - 1]

(* Inductive: while the body goes out, what was sent reaches from the start  *)
(* to the read position, inside the file.                                    *)
DownIInv ==
  /\ downSize \in Nat
  /\ downRange \in DownHeaders
  /\ downPc \in {"asked", "body", "shut"}
  /\ downPc = "asked" => downSent = <<>> /\ downHead.status = 0
  /\ downHead.status \in {0, 200, 206, 416}
  /\ downPc = "body" => downHead.status \in {200, 206}
  /\ downHead.status \in {200, 206} =>
       /\ DownFirst \in Nat /\ downNext \in Nat /\ DownFirst <= downNext /\ downNext <= downSize
       /\ downSent = DownFrom(DownFirst, downNext)
       /\ downPc = "shut" => downNext = downSize
       /\ DownLast < downSize
  /\ downHead.status = 206 => downHead.start = DownFirst /\ downHead.end = DownLast
  /\ downPc = "shut" => downHead.status # 0
  /\ downHead.status = 416 =>
       /\ downRange.kind # "other" /\ downSize > 0
       /\ \/ downRange.first >= downSize
          \/ downRange.kind = "closed" /\ downRange.last < downRange.first

-----------------------------------------------------------------------------
(* Bytes from a to b and then from b to c are the bytes from a to c. *)
LEMMA FromJoins ==
  ASSUME NEW a \in Nat, NEW b \in Nat, NEW c \in Nat, a <= b, b <= c
  PROVE  DownFrom(a, b) \o DownFrom(b, c) = DownFrom(a, c)
<1>1. ASSUME NEW x \in Nat, NEW y \in Nat, x <= y
      PROVE  /\ DownFrom(x, y) \in Seq(Nat) /\ Len(DownFrom(x, y)) = y - x
             /\ \A i \in 1..y - x : DownFrom(x, y)[i] = x + i - 1
  <2>1. y - x \in Nat
    BY <1>1
  <2>2. \A i \in 1..y - x : x + i - 1 \in Nat
    OBVIOUS
  <2>3. DownFrom(x, y) \in [1..y - x -> Nat] /\ DOMAIN DownFrom(x, y) = 1..y - x
    BY <2>2 DEF DownFrom
  <2>4. DownFrom(x, y) \in Seq(Nat)
    BY <2>1, <2>3
  <2>5. QED BY <2>1, <2>3, <2>4, LenProperties DEF DownFrom
<1> DEFINE s == DownFrom(a, b)
           t == DownFrom(b, c)
           u == DownFrom(a, c)
<1>2. /\ s \in Seq(Nat) /\ Len(s) = b - a /\ \A i \in 1..b - a : s[i] = a + i - 1
      /\ t \in Seq(Nat) /\ Len(t) = c - b /\ \A i \in 1..c - b : t[i] = b + i - 1
      /\ u \in Seq(Nat) /\ Len(u) = c - a /\ \A i \in 1..c - a : u[i] = a + i - 1
  <2>1. a <= c
    OBVIOUS
  <2>2. QED BY <1>1, <2>1
<1> HIDE DEF s, t, u
<1>3. /\ s \o t \in Seq(Nat) /\ Len(s \o t) = Len(s) + Len(t)
      /\ \A i \in 1..Len(s) + Len(t) : (s \o t)[i] = IF i <= Len(s) THEN s[i] ELSE t[i - Len(s)]
  BY <1>2, ConcatProperties
<1>4. Len(s) + Len(t) = c - a
  BY <1>2
<1>5. ASSUME NEW i \in 1..c - a PROVE (s \o t)[i] = u[i]
  <2>1. CASE i <= b - a
    BY <1>2, <1>3, <1>4, <2>1
  <2>2. CASE ~(i <= b - a)
    <3>1. i - (b - a) \in 1..c - b /\ b + (i - (b - a)) - 1 = a + i - 1
      BY <2>2
    <3>2. t[i - (b - a)] = b + (i - (b - a)) - 1
      BY <1>2, <3>1
    <3>3. QED BY <1>2, <1>3, <1>4, <2>2, <3>1, <3>2
  <2>3. QED BY <2>1, <2>2
<1>6. s \o t = u
  BY <1>2, <1>3, <1>4, <1>5, SeqEqual
<1>7. QED BY <1>6 DEF s, t, u

LEMMA FromNothing == \A a \in Nat : DownFrom(a, a) = <<>>
<1> SUFFICES ASSUME NEW a \in Nat PROVE DownFrom(a, a) = <<>>
  OBVIOUS
<1>1. a - a = 0
  OBVIOUS
<1>2. DownFrom(a, a) = [i \in 1..0 |-> a + i - 1]
  BY <1>1 DEF DownFrom
<1>3. DownFrom(a, a) \in [1..0 -> Nat] /\ DOMAIN DownFrom(a, a) = {}
  BY <1>2
<1>4. DownFrom(a, a) \in Seq(Nat) /\ Len(DownFrom(a, a)) = 0
  BY <1>3, LenProperties
<1>5. QED BY <1>4, EmptySeq

(* A header that is a range has a first number, and a closed one a last. *)
LEMMA Numbers ==
  ASSUME NEW r \in DownHeaders, r.kind # "other"
  PROVE  r.first \in Nat /\ (r.kind = "closed" => r.last \in Nat)
<1>1. r # [kind |-> "other"]
  OBVIOUS
<1>2. CASE r \in [kind : {"open"}, first : DownNumber]
  <2>1. r.kind = "open" /\ r.first \in DownNumber
    BY <1>2
  <2>2. QED BY <2>1, DownAssumption
<1>3. CASE r \in [kind : {"closed"}, first : DownNumber, last : DownNumber]
  <2>1. r.first \in DownNumber /\ r.last \in DownNumber
    BY <1>3
  <2>2. QED BY <2>1, DownAssumption
<1>4. QED BY <1>1, <1>2, <1>3 DEF DownHeaders

LEMMA DownInitInvariant == DownInit => DownIInv
BY DownAssumption DEF DownInit, DownIInv

LEMMA DownHandleInvariant == ASSUME DownIInv, DownHandle PROVE DownIInv'
<1>1. /\ downPc = "asked" /\ downSent = <<>> /\ downSize \in Nat /\ downRange \in DownHeaders
      /\ UNCHANGED <<downSize, downRange, downSent>>
  BY DEF DownHandle, DownIInv
<1>2. CASE DownParse.kind = "unsatisfiable"
  <2>1. downHead' = [status |-> 416] /\ downPc' = "shut"
    BY <1>2 DEF DownHandle
  <2>2. /\ downRange.kind # "other" /\ downSize > 0
        /\ \/ downRange.first >= downSize
           \/ downRange.kind = "closed" /\ downRange.last < downRange.first
    <3>1. DownParse.kind \notin {"none", "range"}
      BY <1>2
    <3>2. downSize # 0 /\ downRange.kind # "other"
      <4>1. downSize = 0 \/ downRange.kind = "other" => DownParse = [kind |-> "none"]
        BY DEF DownParse
      <4>2. [kind |-> "none"].kind = "none"
        OBVIOUS
      <4>3. QED BY <3>1, <4>1, <4>2
    <3>3. PICK end : /\ end = IF downRange.kind = "closed" /\ downRange.last < downSize
                               THEN downRange.last ELSE downSize - 1
                     /\ downRange.first >= downSize \/ end < downRange.first
      <4> DEFINE end == IF downRange.kind = "closed" /\ downRange.last < downSize
                        THEN downRange.last ELSE downSize - 1
      <4>1. ~(downRange.first >= downSize \/ end < downRange.first) =>
              \/ DownParse = [kind |-> "none"]
              \/ DownParse = [kind |-> "range", start |-> downRange.first, end |-> end]
        BY DEF DownParse
      <4>2. [kind |-> "none"].kind = "none"
            /\ [kind |-> "range", start |-> downRange.first, end |-> end].kind = "range"
        OBVIOUS
      <4>3. QED BY <3>1, <4>1, <4>2
    <3>4. downRange.first \in Int
      BY <1>1, <3>2, Numbers
    <3>5. CASE downRange.kind = "closed" /\ downRange.last < downSize
      BY <1>1, <3>2, <3>3, <3>5
    <3>6. CASE ~(downRange.kind = "closed" /\ downRange.last < downSize)
      BY <1>1, <3>2, <3>3, <3>4, <3>6
    <3>7. QED BY <3>5, <3>6
  <2>3. QED BY <1>1, <2>1, <2>2 DEF DownIInv
<1>3. CASE DownParse.kind = "none"
  <2>1. downHead' = [status |-> 200, length |-> downSize] /\ downNext' = 0 /\ downPc' = "body"
    BY <1>3 DEF DownHandle
  <2>2. downSent' = DownFrom(0, 0)
    BY <1>1, FromNothing
  <2>3. DownFirst' = 0 /\ DownLast' < downSize
    BY <1>1, <2>1 DEF DownFirst, DownLast
  <2>4. QED BY <1>1, <2>1, <2>2, <2>3 DEF DownIInv, DownFrom
<1>4. CASE DownParse.kind = "range"
  <2>1. /\ DownParse.start = downRange.first /\ downRange.first < downSize
        /\ downRange.first \in Nat
        /\ DownParse.end = IF downRange.kind = "closed" /\ downRange.last < downSize
                           THEN downRange.last ELSE downSize - 1
        /\ DownParse.end < downSize
    <3> DEFINE end == IF downRange.kind = "closed" /\ downRange.last < downSize
                      THEN downRange.last ELSE downSize - 1
    <3>1. \/ DownParse = [kind |-> "none"] \/ DownParse = [kind |-> "unsatisfiable"]
          \/ /\ DownParse = [kind |-> "range", start |-> downRange.first, end |-> end]
             /\ downRange.kind # "other" /\ ~(downRange.first >= downSize)
      BY DEF DownParse
    <3>2. [kind |-> "none"].kind = "none" /\ [kind |-> "unsatisfiable"].kind = "unsatisfiable"
      OBVIOUS
    <3>3. /\ DownParse = [kind |-> "range", start |-> downRange.first, end |-> end]
          /\ downRange.kind # "other" /\ ~(downRange.first >= downSize)
      BY <1>4, <3>1, <3>2
    <3>4. downRange.first \in Nat
      BY <1>1, <3>3, Numbers
    <3>5. DownParse.start = downRange.first
      BY <3>3
    <3>6. DownParse.end = end
      BY <3>3
    <3>7. end < downSize
      BY <1>1, <3>3, <3>4
    <3>8. QED BY <1>1, <3>3, <3>4, <3>5, <3>6, <3>7
  <2>2. /\ downHead'.status = 206 /\ downNext' = downRange.first /\ downPc' = "body"
        /\ downHead'.start = DownParse.start /\ downHead'.end = DownParse.end
    BY <1>4, <2>1 DEF DownHandle
  <2>3. DownFirst' = downRange.first
    BY <1>1, <2>2 DEF DownFirst
  <2>4. downSent' = DownFrom(downRange.first, downRange.first)
    BY <1>1, <2>1, FromNothing
  <2>5. DownLast' = DownParse.end /\ DownLast' < downSize
    BY <1>1, <2>1, <2>2 DEF DownLast
  <2>6. downHead'.start = DownFirst' /\ downHead'.end = DownLast'
    BY <2>1, <2>2, <2>3, <2>5
  <2>7. QED BY <1>1, <2>1, <2>2, <2>3, <2>4, <2>5, <2>6 DEF DownIInv, DownFrom
<1>5. QED BY <1>2, <1>3, <1>4 DEF DownHandle

LEMMA WrittenInvariant == ASSUME DownIInv, DownWritten PROVE DownIInv'
<1>1. /\ downPc = "body" /\ downHead.status \in {200, 206} /\ downSize \in Nat
      /\ DownFirst \in Nat /\ downNext \in Nat /\ DownFirst <= downNext /\ downNext <= downSize
      /\ downSent = DownFrom(DownFirst, downNext) /\ downRange \in DownHeaders
      /\ UNCHANGED <<downSize, downRange, downHead>>
  BY DEF DownWritten, DownIInv
<1>2. /\ DownBytes \in Nat /\ downNext + DownBytes <= downSize
      /\ DownBytes = 0 => downNext = downSize
  BY <1>1, DownAssumption DEF DownBytes
<1>3. /\ downNext' = downNext + DownBytes
      /\ downSent' = downSent \o [i \in 1..DownBytes |-> downNext + i - 1]
      /\ downPc' = IF DownBytes = 0 THEN "shut" ELSE "body"
  BY DEF DownWritten
<1>4. downNext' - downNext = DownBytes
  BY <1>1, <1>2, <1>3
<1>5. [i \in 1..DownBytes |-> downNext + i - 1] = DownFrom(downNext, downNext')
  BY <1>4 DEF DownFrom
<1>6. downNext' \in Nat /\ downNext <= downNext' /\ downNext' <= downSize
  BY <1>1, <1>2, <1>3
<1>7. downSent' = DownFrom(DownFirst, downNext')
  <2>1. PICK n \in Nat : n = downNext'
    BY <1>6
  <2>2. downNext <= n
    BY <1>6, <2>1
  <2>3. DownFrom(DownFirst, downNext) \o DownFrom(downNext, n) = DownFrom(DownFirst, n)
    BY <1>1, <2>2, FromJoins
  <2>4. downSent' = downSent \o DownFrom(downNext, n)
    BY <1>3, <1>5, <2>1 DEF DownFrom
  <2>5. DownFrom(DownFirst, downNext') = DownFrom(DownFirst, n)
    BY <2>1 DEF DownFrom
  <2>6. QED BY <1>1, <2>3, <2>4, <2>5
<1>8. DownFirst' = DownFirst /\ DownLast' = DownLast
  BY <1>1 DEF DownFirst, DownLast
<1>9. downSent' = DownFrom(DownFirst, downNext)' /\ DownFirst' <= downNext'
  BY <1>1, <1>6, <1>7, <1>8 DEF DownFrom
<1>10. downPc' = "shut" => downNext' = downSize
  BY <1>1, <1>2, <1>3
<1>11. downPc' \in {"body", "shut"}
  BY <1>3
<1>12. QED BY <1>1, <1>6, <1>8, <1>9, <1>10, <1>11 DEF DownIInv

(* Every finished download sent the bytes asked for, once and in order, and  *)
(* none beyond the file, and only a range outside of the file or ending      *)
(* before it begins was refused (RangeUtil.h:19-70,                          *)
(* FileDownContext.cpp:35-57).                                               *)
THEOREM Downloaded == DownSpec => []DownloadExact
<1>1. DownIInv /\ [DownStep]_downVars => DownIInv'
  <2>1. DownIInv /\ UNCHANGED downVars => DownIInv'
    BY DEF downVars, DownIInv, DownFrom, DownFirst, DownLast
  <2>2. QED BY <2>1, DownHandleInvariant, WrittenInvariant DEF DownStep
<1>2. DownIInv => DownloadExact
  <2> SUFFICES ASSUME DownIInv, downPc = "shut", downHead.status # 416
               PROVE  /\ \A i \in DOMAIN downSent : downSent[i] = DownFirst + i - 1
                      /\ Len(downSent) \in DownLast - DownFirst + 1 .. downSize - DownFirst
                      /\ downHead.status = 206 => downHead.start = DownFirst /\ downHead.end = DownLast
    BY DEF DownloadExact, DownIInv
  <2>1. /\ downHead.status \in {200, 206} /\ downSent = DownFrom(DownFirst, downSize)
        /\ DownFirst \in Nat /\ DownFirst <= downSize /\ DownLast < downSize /\ downSize \in Nat
        /\ downHead.status = 206 => downHead.start = DownFirst /\ downHead.end = DownLast
    BY DEF DownIInv
  <2>2. PICK first \in Nat : first = DownFirst
    BY <2>1
  <2>3. /\ DownFrom(first, downSize) \in Seq(Int) /\ Len(DownFrom(first, downSize)) = downSize - first
        /\ DOMAIN DownFrom(first, downSize) = 1..downSize - first
    <3>1. downSize - first \in Nat
      BY <2>1, <2>2
    <3>2. DownFrom(first, downSize) \in [1..downSize - first -> Int]
      BY <2>1 DEF DownFrom
    <3>3. QED BY <3>1, <3>2, LenProperties
  <2>4. \A i \in DOMAIN downSent : downSent[i] = DownFirst + i - 1
    BY <2>1, <2>2, <2>3 DEF DownFrom
  <2>5. DownLast \in Int
    <3>1. downRange.kind = "closed" => downRange.last \in Nat
      BY Numbers DEF DownIInv
    <3>2. QED BY <2>1, <3>1 DEF DownLast
  <2>6. Len(downSent) \in DownLast - DownFirst + 1 .. downSize - DownFirst
    BY <2>1, <2>2, <2>3, <2>5
  <2>7. QED BY <2>1, <2>4, <2>6
<1>3. QED BY <1>1, <1>2, DownInitInvariant, PTL DEF DownSpec

-----------------------------------------------------------------------------
(* AsyncLogging: LogExact for every size of buffers and lines and number of  *)
(* lines.                                                                    *)
LogLine == [id : Nat, len : LogLens]

LogTyped ==
  /\ logLines \in Seq(LogLine) /\ logFile \in Seq(LogLine) /\ logCurrent \in Seq(LogLine)
  /\ logFull \in Seq(Seq(LogLine))
  /\ logPc \in {"check", "wait", "exit"}

(* Inductive: lines are numbered as they come, and a buffer from next_ is    *)
(* only taken when a full one is queued, which makes a spare.                *)
LogIInv ==
  /\ LogTyped
  /\ \A i \in DOMAIN logLines : logLines[i].id = i
  /\ logSkipped \subseteq Range(logLines)
  /\ logNext \in BOOLEAN /\ (~logNext => logFull # <<>>)
  /\ LogExact

(* A line that is numbered above those held keeps them in order. *)
LEMMA NextLine ==
  ASSUME NEW S, NEW s \in Seq(S), NEW x \in S, \A y \in S : y.id \in Nat,
         \A i, j \in DOMAIN s : i < j => s[i].id < s[j].id,
         \A y \in Range(s) : y.id < x.id
  PROVE  /\ \A i, j \in DOMAIN Append(s, x) : i < j => Append(s, x)[i].id < Append(s, x)[j].id
         /\ Range(Append(s, x)) = Range(s) \cup {x}
<1> DEFINE n == Len(s)
           t == Append(s, x)
<1>1. n \in Nat /\ DOMAIN s = 1..n
  BY LenProperties
<1>2. t \in Seq(S) /\ Len(t) = n + 1 /\ t[n + 1] = x /\ \A i \in 1..n : t[i] = s[i]
  BY AppendProperties
<1> HIDE DEF t
<1>3. DOMAIN t = 1..n + 1
  BY <1>2, LenProperties
<1> HIDE DEF n
<1>4. ASSUME NEW i \in 1..n + 1, NEW j \in 1..n + 1, i < j PROVE t[i].id < t[j].id
  <2>1. i \in 1..n
    BY <1>1, <1>4
  <2>2. CASE j \in 1..n
    BY <1>1, <1>2, <1>4, <2>1, <2>2
  <2>3. CASE j = n + 1
    <3>1. s[i] \in Range(s)
      BY <1>1, <2>1 DEF Range
    <3>2. QED BY <1>2, <2>1, <2>3, <3>1
  <2>4. QED BY <1>1, <2>2, <2>3
<1>5. Range(t) = Range(s) \cup {x}
  <2>1. ASSUME NEW y \in Range(t) PROVE y \in Range(s) \cup {x}
    <3>1. PICK i \in 1..n + 1 : y = t[i]
      BY <1>3 DEF Range
    <3>2. CASE i \in 1..n
      BY <1>1, <1>2, <3>1, <3>2 DEF Range
    <3>3. CASE i = n + 1
      BY <1>2, <3>1, <3>3
    <3>4. QED BY <1>1, <3>2, <3>3
  <2>2. ASSUME NEW y \in Range(s) PROVE y \in Range(t)
    <3>1. PICK i \in 1..n : y = s[i]
      BY <1>1 DEF Range
    <3>2. i \in 1..n + 1 /\ t[i] = y
      BY <1>1, <1>2, <3>1
    <3>3. QED BY <1>3, <3>2 DEF Range
  <2>3. x \in Range(t)
    <3>1. n + 1 \in 1..n + 1
      BY <1>1
    <3>2. QED BY <1>2, <1>3, <3>1 DEF Range
  <2>4. QED BY <2>1, <2>2, <2>3
<1>6. QED BY <1>3, <1>4, <1>5 DEF t

LEMMA LogHeldTyped ==
  ASSUME LogTyped
  PROVE  /\ FlattenSeq(logFull) \in Seq(LogLine)
         /\ logFile \o FlattenSeq(logFull) \in Seq(LogLine)
         /\ LogHeld \in Seq(LogLine)
<1> DEFINE flat == FlattenSeq(logFull)
<1>1. flat \in Seq(LogLine) /\ logFile \in Seq(LogLine) /\ logCurrent \in Seq(LogLine)
  BY FlattenType DEF LogTyped
<1> HIDE DEF flat
<1>2. logFile \o flat \in Seq(LogLine)
  BY <1>1, ConcatProperties
<1>3. (logFile \o flat) \o logCurrent \in Seq(LogLine)
  BY <1>1, <1>2, ConcatProperties
<1>4. QED BY <1>1, <1>2, <1>3 DEF LogHeld, flat

LEMMA LogInitInvariant == LogInit => LogIInv
<1> SUFFICES ASSUME LogInit PROVE LogIInv
  OBVIOUS
<1>1. LogTyped
  BY DEF LogInit, LogTyped
<1>2. logLines = <<>> /\ DOMAIN logLines = {} /\ Range(logLines) = {}
  BY DEF LogInit, Range
<1>3. LogHeld = <<>>
  <2>1. FlattenSeq(logFull) = <<>>
    BY FlattenEmpty DEF LogInit
  <2>2. <<>> \o <<>> = <<>>
    BY ConcatEmptySeq, EmptySeq
  <2>3. QED BY <2>1, <2>2 DEF LogInit, LogHeld
<1>4. DOMAIN LogHeld = {} /\ Range(LogHeld) = {}
  BY <1>3 DEF Range
<1>5. QED BY <1>1, <1>2, <1>4 DEF LogInit, LogIInv, LogExact

(* A line that comes is held as the last one, or skipped. *)
LEMMA LogAppendInvariant ==
  ASSUME LogIInv, NEW len \in LogLens, LogAppend(len)
  PROVE  LogIInv'
<1> DEFINE n == Len(logLines)
           line == [id |-> n + 1, len |-> len]
           flat == FlattenSeq(logFull)
<1>1. n \in Nat /\ DOMAIN logLines = 1..n /\ logLines \in Seq(LogLine) /\ \A i \in 1..n : logLines[i].id = i
  <2>1. logLines \in Seq(LogLine)
    BY DEF LogIInv, LogTyped
  <2>2. n \in Nat /\ DOMAIN logLines = 1..n
    BY <2>1, LenProperties
  <2>3. QED BY <2>1, <2>2 DEF LogIInv
<1>2. line \in LogLine /\ line.id = n + 1
  BY <1>1 DEF LogLine
<1>3. logLines' = Append(logLines, line) /\ logFile' = logFile /\ logPc' = logPc
  BY DEF LogAppend
<1>4. \A y \in LogLine : y.id \in Nat
  BY DEF LogLine
<1> HIDE DEF n, line, flat
<1>5. \A y \in Range(logLines) : y.id < n + 1
  BY <1>1 DEF Range
<1>6. /\ logLines' \in Seq(LogLine) /\ DOMAIN logLines' = 1..n + 1
      /\ \A i \in 1..n + 1 : logLines'[i].id = i
  <2>1. /\ logLines' \in Seq(LogLine) /\ Len(logLines') = n + 1 /\ logLines'[n + 1] = line
        /\ \A i \in 1..n : logLines'[i] = logLines[i]
    BY <1>1, <1>2, <1>3, AppendProperties DEF n
  <2>2. DOMAIN logLines' = 1..n + 1
    BY <2>1, LenProperties
  <2>3. ASSUME NEW i \in 1..n + 1 PROVE logLines'[i].id = i
    <3>1. CASE i \in 1..n
      BY <1>1, <2>1, <3>1
    <3>2. CASE i = n + 1
      BY <1>2, <2>1, <3>2
    <3>3. QED BY <1>1, <3>1, <3>2
  <2>4. QED BY <2>1, <2>2, <2>3
<1>7. Range(logLines)' = Range(logLines) \cup {line}
  <2>1. \A i, j \in DOMAIN logLines : i < j => logLines[i].id < logLines[j].id
    BY <1>1
  <2>2. \A y \in Range(logLines) : y.id < line.id
    BY <1>2, <1>5
  <2>3. Range(Append(logLines, line)) = Range(logLines) \cup {line}
    BY <1>1, <1>2, <1>4, <2>1, <2>2, NextLine
  <2>4. QED BY <1>3, <2>3 DEF Range
<1>8. line \notin Range(logLines)
  BY <1>1, <1>2, <1>5
<1>9. /\ flat \in Seq(LogLine) /\ logFile \o flat \in Seq(LogLine) /\ LogHeld \in Seq(LogLine)
      /\ logCurrent \in Seq(LogLine) /\ logFile \in Seq(LogLine) /\ LogHeld = (logFile \o flat) \o logCurrent
  BY LogHeldTyped DEF LogIInv, LogTyped, LogHeld, flat
<1>10. /\ \A i, j \in DOMAIN LogHeld : i < j => LogHeld[i].id < LogHeld[j].id
       /\ Range(LogHeld) = Range(logLines) \ logSkipped
       /\ logSkipped \subseteq Range(logLines) /\ logPc # "abort"
       /\ logPc \in {"check", "wait", "exit"} /\ logFull \in Seq(Seq(LogLine))
       /\ logNext \in BOOLEAN /\ (~logNext => logFull # <<>>)
  BY DEF LogIInv, LogExact, LogTyped
<1>11. ASSUME LogHeld' = Append(LogHeld, line), logSkipped' = logSkipped
       PROVE  LogExact' /\ logSkipped' \subseteq Range(logLines)'
  <2>1. \A y \in Range(LogHeld) : y.id < line.id
    BY <1>2, <1>5, <1>10
  <2>2. /\ \A i, j \in DOMAIN Append(LogHeld, line) : i < j => Append(LogHeld, line)[i].id < Append(LogHeld, line)[j].id
        /\ Range(Append(LogHeld, line)) = Range(LogHeld) \cup {line}
    BY <1>2, <1>4, <1>9, <1>10, <2>1, NextLine
  <2>3. Range(LogHeld)' = Range(LogHeld) \cup {line}
    BY <1>11, <2>2 DEF Range
  <2>4. \A i, j \in DOMAIN LogHeld' : i < j => LogHeld'[i].id < LogHeld'[j].id
    BY <1>11, <2>2
  <2>5. Range(LogHeld)' = Range(logLines)' \ logSkipped' /\ logSkipped' \subseteq Range(logLines)'
    BY <1>7, <1>8, <1>10, <1>11, <2>3
  <2>6. QED BY <1>3, <1>10, <2>4, <2>5 DEF LogExact
<1>12. CASE /\ logCurrent' = Append(logCurrent, line)
            /\ UNCHANGED <<logSkipped, logFull, logNext>>
  <2>1. LogHeld' = (logFile \o flat) \o Append(logCurrent, line)
    BY <1>3, <1>12 DEF LogHeld, flat
  <2>2. /\ (logFile \o flat) \o Append(logCurrent, line) = Append((logFile \o flat) \o logCurrent, line)
        /\ Append(logCurrent, line) \in Seq(LogLine)
    BY <1>2, <1>9, AppendConcat
  <2>3. LogHeld' = Append(LogHeld, line) /\ logCurrent' \in Seq(LogLine)
    BY <1>9, <1>12, <2>1, <2>2
  <2>4. LogExact' /\ logSkipped' \subseteq Range(logLines)'
    BY <1>11, <1>12, <2>3
  <2>5. LogTyped'
    BY <1>3, <1>6, <1>9, <1>10, <1>12, <2>3 DEF LogTyped
  <2>6. QED BY <1>6, <1>10, <1>12, <2>4, <2>5 DEF LogIInv
<1>13. CASE /\ logSkipped' = logSkipped \cup {line}
            /\ UNCHANGED <<logCurrent, logFull, logNext>>
  <2>1. LogHeld' = LogHeld
    BY <1>3, <1>13 DEF LogHeld
  <2>2. Range(LogHeld)' = Range(LogHeld)
    BY <2>1 DEF Range
  <2>3. LogExact' /\ logSkipped' \subseteq Range(logLines)'
    BY <1>3, <1>7, <1>8, <1>10, <1>13, <2>1, <2>2 DEF LogExact
  <2>4. LogTyped'
    BY <1>3, <1>6, <1>9, <1>10, <1>13 DEF LogTyped
  <2>5. QED BY <1>6, <1>10, <1>13, <2>3, <2>4 DEF LogIInv
<1>14. CASE /\ logFull' = Append(logFull, logCurrent)
            /\ logNext' = FALSE /\ logCurrent' = <<line>> /\ UNCHANGED logSkipped
  <2>1. FlattenSeq(logFull') = flat \o logCurrent
    <3>1. logFull \in Seq(Seq(LogLine)) /\ logCurrent \in Seq(LogLine)
      BY <1>9, <1>10
    <3>2. FlattenSeq(Append(logFull, logCurrent)) = FlattenSeq(logFull) \o logCurrent
      BY <3>1, FlattenAppend
    <3>3. QED BY <1>14, <3>2, Zenon DEF flat
  <2>2. logFile \o (flat \o logCurrent) = LogHeld
    <3>1. logFile \in Seq(LogLine) /\ flat \in Seq(LogLine) /\ logCurrent \in Seq(LogLine)
      BY <1>9
    <3>2. (logFile \o flat) \o logCurrent = logFile \o (flat \o logCurrent)
      BY <3>1, ConcatAssociative
    <3>3. QED BY <1>9, <3>2
  <2>3. LogHeld' = LogHeld \o <<line>>
    BY <1>3, <1>14, <2>1, <2>2 DEF LogHeld
  <2>4. LogHeld' = Append(LogHeld, line)
    BY <1>2, <1>9, <2>3, AppendIsConcat
  <2>5. LogExact' /\ logSkipped' \subseteq Range(logLines)'
    BY <1>11, <1>14, <2>4
  <2>6. logFull' \in Seq(Seq(LogLine)) /\ logFull' # <<>>
    <3> DEFINE T == Seq(LogLine)
    <3>1. logFull \in Seq(T) /\ logCurrent \in T
      BY <1>9, <1>10
    <3> HIDE DEF T
    <3>2. Append(logFull, logCurrent) \in Seq(T) /\ Append(logFull, logCurrent) # <<>>
      BY <3>1, AppendProperties
    <3>3. QED BY <1>14, <3>2 DEF T
  <2>7. logCurrent' \in Seq(LogLine)
    BY <1>2, <1>14
  <2>8. LogTyped'
    BY <1>3, <1>6, <1>9, <1>10, <2>6, <2>7 DEF LogTyped
  <2>9. QED BY <1>6, <1>14, <2>5, <2>6, <2>8 DEF LogIInv
<1>15. QED BY <1>12, <1>13, <1>14 DEF LogAppend, line, n

(* The back end writes what the buffers held, and has two spares again. *)
LEMMA LogIterateInvariant ==
  ASSUME LogIInv, LogIterate
  PROVE  LogIInv'
<1> DEFINE flat == FlattenSeq(logFull)
<1>1. LogHeld \in Seq(LogLine) /\ LogHeld = (logFile \o flat) \o logCurrent
  BY LogHeldTyped DEF LogIInv, LogHeld
<1>2. logFile' = LogHeld /\ logFull' = <<>> /\ logCurrent' = <<>> /\ logNext' = TRUE
  BY DEF LogIterate, LogHeld
<1>3. LogHeld' = LogHeld
  <2>1. FlattenSeq(logFull') = <<>>
    BY <1>2, FlattenEmpty
  <2>2. LogHeld \o <<>> = LogHeld
    BY <1>1, ConcatEmptySeq
  <2>3. QED BY <1>2, <2>1, <2>2 DEF LogHeld
<1>4. logPc' = "check"
  BY DEF LogIterate, LogIInv
<1>5. UNCHANGED <<logLines, logSkipped, logRunning>>
  BY DEF LogIterate
<1>6. Range(LogHeld)' = Range(LogHeld) /\ Range(logLines)' = Range(logLines)
  BY <1>3, <1>5 DEF Range
<1>7. LogExact'
  BY <1>3, <1>4, <1>5, <1>6 DEF LogExact, LogIInv
<1>8. LogTyped'
  BY <1>1, <1>2, <1>4, <1>5 DEF LogTyped, LogIInv
<1>9. QED BY <1>2, <1>5, <1>6, <1>7, <1>8 DEF LogIInv

(* Whatever the threads do, file and buffers hold the lines that were not    *)
(* skipped, once and in order, and the back end has spares: the swaps of     *)
(* AsyncLogging.cpp:83-119 lose nothing.                                     *)
THEOREM Logged == LogSpec => []LogExact
<1>1. LogIInv /\ [LogStep \/ LogFrontEnd]_logVars => LogIInv'
  <2> SUFFICES ASSUME LogIInv, [LogStep \/ LogFrontEnd]_logVars PROVE LogIInv'
    OBVIOUS
  <2>1. ASSUME UNCHANGED <<logLines, logSkipped, logCurrent, logNext, logFull, logFile>>,
               logPc' \in {"check", "wait", "exit"}
        PROVE  LogIInv'
    <3>1. LogHeld' = LogHeld
      BY <2>1 DEF LogHeld
    <3>2. Range(LogHeld)' = Range(LogHeld) /\ Range(logLines)' = Range(logLines)
      BY <2>1, <3>1 DEF Range
    <3>3. LogExact'
      BY <2>1, <3>1, <3>2 DEF LogExact, LogIInv
    <3>4. LogTyped'
      BY <2>1 DEF LogTyped, LogIInv
    <3>5. QED BY <2>1, <3>2, <3>3, <3>4 DEF LogIInv
  <2>2. CASE UNCHANGED logVars
    BY <2>1, <2>2 DEF logVars, LogIInv, LogTyped
  <2>3. CASE LogStop
    BY <2>1, <2>3 DEF LogStop, LogIInv, LogTyped
  <2>4. CASE LogCheck
    BY <2>1, <2>4 DEF LogCheck
  <2>5. QED BY <2>2, <2>3, <2>4, LogAppendInvariant, LogIterateInvariant DEF LogStep, LogFrontEnd
<1>2. LogIInv => LogExact
  BY DEF LogIInv
<1>3. QED BY <1>1, <1>2, LogInitInvariant, PTL DEF LogSpec

=============================================================================
