---------------------------- MODULE FileDownload -----------------------------
(***************************************************************************)
(* One download: the Range header, the headers of the answer, and the      *)
(* chunks that the write-complete callback of the connection reads from    *)
(* the file until its end.  Byte i of the file is i, beginning with 0.     *)
(***************************************************************************)
EXTENDS Integers, Sequences

CONSTANTS
  DownSize,    (* sizes of files                                            *)
  DownChunk,   (* chunkSize of readNextChunk                                *)
  DownNumber,  (* numbers in Range headers                                  *)
  DownHuge     (* one of them that does not fit into 64 bits                *)

ASSUME DownAssumption ==
  DownSize \subseteq Nat /\ DownChunk \in Nat \ {0} /\ DownNumber \subseteq Nat

VARIABLES
  downSize,    (* fileSize_                                                 *)
  downRange,   (* the Range header                                          *)
  downHead,    (* status and headers of the answer                          *)
  downNext,    (* currentPosition_                                          *)
  downSent,    (* the bytes handed to Connection::Send                      *)
  downPc       (* "asked", "body", "shut" down                              *)

downVars == <<downSize, downRange, downHead, downNext, downSent, downPc>>

(* A header without "bytes=<digits>-" anywhere; one with a first number      *)
(* only; one with both.                                                      *)
DownHeaders == {[kind |-> "other"]}
                 \cup [kind : {"open"}, first : DownNumber]
                 \cup [kind : {"closed"}, first : DownNumber, last : DownNumber]

DownInit ==
  /\ downSize \in DownSize /\ downRange \in DownHeaders
  /\ downHead = [status |-> 0] /\ downNext = 0 /\ downSent = <<>> /\ downPc = "asked"

(* HttpRange::parse: "none" for a request of the whole file. *)
DownParse ==
  LET r    == downRange
      end  == IF r.kind = "closed" /\ r.last < downSize THEN r.last ELSE downSize - 1 IN
  IF \/ downSize = 0
     \/ r.kind = "other"
     \/ r.kind # "other" /\ r.first = DownHuge
     \/ r.kind = "closed" /\ r.last = DownHuge
  THEN [kind |-> "none"]
  ELSE IF r.first >= downSize \/ end < r.first THEN [kind |-> "unsatisfiable"]
  ELSE [kind |-> "range", start |-> r.first, end |-> end]

(* The handler; 416 is an answer of its own that closes the connection. *)
DownHandle ==
  LET spec == DownParse IN
  /\ downPc = "asked"
  /\ \/ /\ spec.kind = "unsatisfiable"
        /\ downHead' = [status |-> 416] /\ downPc' = "shut"
        /\ UNCHANGED downNext
     \/ /\ spec.kind = "none"
        /\ downHead' = [status |-> 200, length |-> downSize]
        /\ downNext' = 0 /\ downPc' = "body"
     \/ /\ spec.kind = "range"
        /\ downHead' = [status |-> 206, length |-> downSize, start |-> spec.start, end |-> spec.end]
        /\ downNext' = spec.start /\ downPc' = "body"
  /\ UNCHANGED <<downSize, downRange, downSent>>

(* Mutant: only whole chunks are read. *)
MutantDownBytesWhole == IF downSize - downNext < DownChunk THEN 0 ELSE DownChunk

(* bytesToRead *)
DownBytes == IF downSize - downNext < DownChunk THEN downSize - downNext ELSE DownChunk

(* The write-complete callback: the next chunk, or the end. *)
DownWritten ==
  /\ downPc = "body"
  /\ downSent' = downSent \o [i \in 1..DownBytes |-> downNext + i - 1]
  /\ downNext' = downNext + DownBytes
  /\ downPc' = IF DownBytes = 0 THEN "shut" ELSE "body"
  /\ UNCHANGED <<downSize, downRange, downHead>>

DownStep == DownHandle \/ DownWritten

DownSpec == DownInit /\ [][DownStep]_downVars

-----------------------------------------------------------------------------
(* The first and the last byte asked for: of the range if it is answered,    *)
(* else of the file.                                                         *)
DownFirst == IF downHead.status = 206 THEN downRange.first ELSE 0
DownLast  == IF /\ downHead.status = 206 /\ downRange.kind = "closed"
                /\ downRange.last < downSize
             THEN downRange.last ELSE downSize - 1

(* When the connection is shut down the client has had every byte it asked   *)
(* for, once and in order, and none that is not in the file, whatever the    *)
(* sizes of file and chunk; Content-Range names those bytes; and a range     *)
(* that begins in the file and does not end before it begins is never        *)
(* refused (RangeUtil.h:19-70, FileDownContext.cpp:35-57).                   *)
DownloadExact ==
  downPc = "shut" =>
    IF downHead.status = 416
    THEN /\ downRange.kind # "other" /\ downSize > 0
         /\ \/ downRange.first >= downSize
            \/ downRange.kind = "closed" /\ downRange.last < downRange.first
    ELSE /\ \A i \in DOMAIN downSent : downSent[i] = DownFirst + i - 1
         /\ Len(downSent) \in DownLast - DownFirst + 1 .. downSize - DownFirst
         /\ downHead.status = 206 => downHead.start = DownFirst /\ downHead.end = DownLast

(* A partial answer carries the bytes that its Content-Range names, and no   *)
(* other, so that pieces of a file can be put together (FileHandler.cpp:254, *)
(* README.md:102).  The code reads on to the end of the file.                *)
RangeExact ==
  downPc = "shut" /\ downHead.status = 206 =>
    downSent = [i \in 1..downHead.end - downHead.start + 1 |-> downHead.start + i - 1]
=============================================================================
