---------------------------- MODULE AnswerStream ----------------------------
(***************************************************************************)
(* What the output side of a connection promises: the answers it accepted  *)
(* reach the peer unit by unit, in the order they were accepted, without a *)
(* gap.                                                                    *)
(***************************************************************************)
EXTENDS Naturals, Sequences

VARIABLES promised,   (* the answers accepted so far, one after the other  *)
          received    (* what the peer has read                            *)

svars == <<promised, received>>

StreamInit == promised = <<>> /\ received = <<>>

Promise ==
  /\ Len(promised') > Len(promised)
  /\ promised = SubSeq(promised', 1, Len(promised))
  /\ UNCHANGED received

Deliver ==
  /\ Len(received) < Len(promised)
  /\ received' = Append(received, promised[Len(received) + 1])
  /\ UNCHANGED promised

StreamSafety == StreamInit /\ [][Promise \/ Deliver]_svars

=============================================================================
