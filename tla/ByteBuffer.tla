----------------------------- MODULE ByteBuffer ------------------------------
(***************************************************************************)
(* Buffer: a vector of bytes with the readable part between read_index_    *)
(* and write_index_, and a spare area before it.  Byte i of the vector is  *)
(* data[i]; size_t arithmetic that goes below zero wraps to a huge number. *)
(***************************************************************************)
EXTENDS Integers, Sequences

CONSTANTS
  BufByte,     (* values of a byte                                          *)
  BufZero,     (* what resize fills the vector with                         *)
  BufPrepend,  (* PrePendIndex                                              *)
  BufInitial,  (* InitialSize                                               *)
  BufMax       (* bound: bytes readable                                     *)

ASSUME BufAssumption ==
  /\ BufPrepend \in Nat /\ BufInitial \in Nat /\ BufPrepend <= BufInitial
  /\ BufMax \in Nat /\ BufZero \in BufByte

VARIABLES
  bufCells,    (* buf_, its size and the two indices                        *)
  bufText,     (* history: what a reader should find                        *)
  bufFront,    (* history: Prepend was called since the indices were reset  *)
  bufTorn      (* bytes were written past the end of the vector             *)

bufVars == <<bufCells, bufText, bufFront, bufTorn>>

BufInit ==
  /\ bufCells = [data |-> [i \in 0..BufInitial - 1 |-> BufZero],
                 size |-> BufInitial, read |-> BufPrepend, write |-> BufPrepend]
  /\ bufText = <<>> /\ bufFront = FALSE /\ bufTorn = FALSE

BufReadable(b) == [i \in 1..b.write - b.read |-> b.data[b.read + i - 1]]
BufWritable(b) == b.size - b.write

(* makeSpace's test in size_t: a difference below zero is larger than any n. *)
BufCompacts(b, n) ==
  LET spare == BufWritable(b) + b.read - BufPrepend IN spare < 0 \/ spare >= n

(* Mutant: read_index_ stays where it was. *)
MutantBufMovedKeepsRead(b) ==
  LET to == BufPrepend + b.write - b.read IN
  [b EXCEPT !.data = [i \in 0..b.size - 1 |->
                        IF i \in BufPrepend..to - 1 THEN b.data[b.read + i - BufPrepend] ELSE b.data[i]],
            !.write = to]

(* The readable bytes move to PrePendIndex, onto themselves where the areas  *)
(* overlap, and past the end if they do not fit between it and the end.      *)
BufMoved(b) ==
  LET to == BufPrepend + b.write - b.read IN
  [b EXCEPT !.data = [i \in 0..b.size - 1 |->
                        IF i \in BufPrepend..to - 1 THEN b.data[b.read + i - BufPrepend] ELSE b.data[i]],
            !.read = BufPrepend, !.write = to]

BufGrown(b, n) ==
  [b EXCEPT !.data = [i \in 0..b.write + n - 1 |->
                        IF i < b.size THEN b.data[i] ELSE BufZero],
            !.size = b.write + n]

(* EnsureWritableBytes *)
BufRoom(b, n) ==
  IF BufWritable(b) >= n THEN b ELSE IF BufCompacts(b, n) THEN BufMoved(b) ELSE BufGrown(b, n)

BufOverrun(b) == b.write > b.size

(* Bytes s at write_index_. *)
BufPut(b, s) ==
  [b EXCEPT !.data = [i \in 0..b.size - 1 |->
                        IF i \in b.write..b.write + Len(s) - 1 THEN s[i - b.write + 1] ELSE b.data[i]],
            !.write = b.write + Len(s)]

BufAppend(s) ==
  LET room == BufRoom(bufCells, Len(s)) IN
  /\ ~bufTorn /\ s # <<>> /\ Len(bufText) + Len(s) <= BufMax
  /\ bufTorn' = BufOverrun(room)
  /\ bufCells' = IF bufTorn' THEN bufCells ELSE BufPut(room, s)
  /\ bufText' = bufText \o s
  /\ UNCHANGED bufFront

(* readFd: what the vector has no room for goes through extrabuf and Append; *)
(* bytes that it has room for arrive as in BufAppend.                        *)
BufReadFd(s) ==
  LET n    == BufWritable(bufCells)
      full == BufPut(bufCells, SubSeq(s, 1, n))
      rest == SubSeq(s, n + 1, Len(s))
      room == BufRoom(full, Len(rest)) IN
  /\ ~bufTorn /\ Len(s) > n /\ Len(bufText) + Len(s) <= BufMax
  /\ bufTorn' = BufOverrun(room)
  /\ bufCells' = IF bufTorn' THEN bufCells ELSE BufPut(room, rest)
  /\ bufText' = bufText \o s
  /\ UNCHANGED bufFront

(* Retrieve and the operations built on it; n is at most what is readable,   *)
(* which an assertion checks.                                                *)
BufRetrieve(n) ==
  /\ ~bufTorn
  /\ \/ /\ n < bufCells.write - bufCells.read
        /\ bufCells' = [bufCells EXCEPT !.read = @ + n]
        /\ UNCHANGED bufFront
     \/ /\ n = bufCells.write - bufCells.read
        /\ bufCells' = [bufCells EXCEPT !.read = BufPrepend, !.write = BufPrepend]
        /\ bufFront' = FALSE
  /\ bufText' = SubSeq(bufText, n + 1, Len(bufText))
  /\ UNCHANGED bufTorn

(* Prepend, into the spare area, which an assertion checks. *)
BufPrependBytes(s) ==
  LET read == bufCells.read - Len(s) IN
  /\ ~bufTorn /\ s # <<>> /\ Len(s) <= bufCells.read /\ Len(bufText) + Len(s) <= BufMax
  /\ bufCells' = [bufCells EXCEPT !.data = [i \in 0..bufCells.size - 1 |->
                                    IF i \in read..bufCells.read - 1 THEN s[i - read + 1] ELSE bufCells.data[i]],
                        !.read = read]
  /\ bufText' = s \o bufText
  /\ bufFront' = TRUE
  /\ UNCHANGED bufTorn

BufNext ==
  \/ \E n \in 1..BufMax : \E s \in [1..n -> BufByte] : BufAppend(s) \/ BufReadFd(s) \/ BufPrependBytes(s)
  \/ \E n \in 1..BufMax : BufRetrieve(n)

BufSpec == BufInit /\ [][BufNext]_bufVars

-----------------------------------------------------------------------------
(* A reader finds exactly what was appended, read from a descriptor or       *)
(* prepended and not retrieved yet, whatever moves and growths of the vector *)
(* lie between (Buffer.cpp:23-157), and bytes are written past the end only  *)
(* in a buffer that Prepend has been used on: the subtraction at             *)
(* Buffer.cpp:103 then goes below zero.                                      *)
BufferExact ==
  /\ ~bufTorn => BufReadable(bufCells) = bufText
  /\ bufTorn => bufFront
=============================================================================
