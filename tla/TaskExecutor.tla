---------------------------- MODULE TaskExecutor ----------------------------
(***************************************************************************)
(* What an EventLoop promises to those who hand it functors: a queued      *)
(* functor runs once, after everything queued before it.                    *)
(* A functor handed over on the loop's own thread may run at once.         *)
(***************************************************************************)
EXTENDS Sequences

CONSTANT Tasks

VARIABLES queue,   (* queued and not yet run, oldest first *)
          done     (* run, in order                        *)

evars == <<queue, done>>

InSeq(t, q) == \E i \in DOMAIN q : q[i] = t
Fresh(t) == ~InSeq(t, queue) /\ ~InSeq(t, done)

ExecutorInit == queue = <<>> /\ done = <<>>

Submit(t) == Fresh(t) /\ queue' = Append(queue, t) /\ UNCHANGED done

RunNow(t) == Fresh(t) /\ done' = Append(done, t) /\ UNCHANGED queue

(* A functor may queue another one while it runs. *)
RunNext ==
  /\ queue # <<>>
  /\ done' = Append(done, Head(queue))
  /\ \/ queue' = Tail(queue)
     \/ \E t \in Tasks : Fresh(t) /\ queue' = Append(Tail(queue), t)

ExecutorNext == RunNext \/ \E t \in Tasks : Submit(t) \/ RunNow(t)

ExecutorSafety == ExecutorInit /\ [][ExecutorNext]_evars

=============================================================================
