---------------------------- MODULE AsyncLogging -----------------------------
(***************************************************************************)
(* AsyncLogging: front-end threads append lines to the current buffer, the *)
(* back-end thread takes full buffers and the current one to the file and  *)
(* hands emptied buffers back.  The mutex is held over a whole append and  *)
(* over a whole iteration of the back end, the writing included, so each   *)
(* is one step; running_ is read and written outside it.  The back end     *)
(* holds two spare buffers whenever it tests running_.                     *)
(***************************************************************************)
EXTENDS Naturals, Sequences, SequencesExt

CONSTANTS
  LogSize,   (* bytes of a buffer                                           *)
  LogLens,   (* lengths of lines, which fit into an empty buffer            *)
  LogMax     (* bound: lines appended                                       *)

ASSUME LogAssumption ==
  LogSize \in Nat /\ LogLens \subseteq 1..LogSize - 1 /\ LogMax \in Nat

VARIABLES
  logLines,    (* history: the lines appended, as [id, len]                 *)
  logSkipped,  (* history: those FixedBuffer::append found no room for      *)
  logCurrent,  (* current_                                                  *)
  logNext,     (* next_ holds a buffer                                      *)
  logFull,     (* buffers_                                                  *)
  logFile,     (* the lines in the file                                     *)
  logRunning,  (* running_                                                  *)
  logPc        (* back end: "check" of running_, "wait", "exit", "abort"    *)

logVars == <<logLines, logSkipped, logCurrent, logNext, logFull, logFile, logRunning, logPc>>

LogInit ==
  /\ logLines = <<>> /\ logSkipped = {} /\ logFile = <<>>
  /\ logCurrent = <<>> /\ logNext = TRUE /\ logFull = <<>>
  /\ logRunning = TRUE /\ logPc = "check"

LogAvail == LogSize - FoldSeq(LAMBDA line, n : n + line.len, 0, logCurrent)

(* Append takes a line for fitting when it fills the buffer to the last byte *)
(* (>=), and FixedBuffer::append then refuses it (>).                        *)
LogAppend(len) ==
  LET line == [id |-> Len(logLines) + 1, len |-> len] IN
  /\ Len(logLines) < LogMax
  /\ logLines' = Append(logLines, line)
  /\ \/ /\ LogAvail > len
        /\ logCurrent' = Append(logCurrent, line)
        /\ UNCHANGED <<logSkipped, logFull, logNext>>
     \/ /\ LogAvail = len
        /\ logSkipped' = logSkipped \cup {line}
        /\ UNCHANGED <<logCurrent, logFull, logNext>>
     \/ /\ LogAvail < len
        /\ logFull' = Append(logFull, logCurrent)
        /\ logNext' = FALSE         (* next_, or a new buffer if there is none *)
        /\ logCurrent' = <<line>>
        /\ UNCHANGED logSkipped
  /\ UNCHANGED <<logFile, logRunning, logPc>>

LogStop ==
  /\ logRunning /\ logRunning' = FALSE
  /\ UNCHANGED <<logLines, logSkipped, logCurrent, logNext, logFull, logFile, logPc>>

(* while (running_), without the mutex. *)
LogCheck ==
  /\ logPc = "check"
  /\ logPc' = IF logRunning THEN "wait" ELSE "exit"
  /\ UNCHANGED <<logLines, logSkipped, logCurrent, logNext, logFull, logFile, logRunning>>

(* Mutant: buffers_ is swapped before the current buffer is queued in it. *)
MutantLogIterateDropsCurrent ==
  /\ logPc = "wait"
  /\ logFull # <<>> \/ ~logRunning
  /\ logFile' = logFile \o FlattenSeq(logFull)
  /\ logFull' = <<>> /\ logCurrent' = <<>> /\ logNext' = TRUE
  /\ logPc' = "check"
  /\ UNCHANGED <<logLines, logSkipped, logRunning>>

(* Mutant: the wait is for an empty list of full buffers. *)
MutantLogIterateIdle ==
  /\ logPc = "wait"
  /\ logFull = <<>> \/ ~logRunning
  /\ logFile' = logFile \o FlattenSeq(logFull) \o logCurrent
  /\ logFull' = <<>> /\ logCurrent' = <<>> /\ logNext' = TRUE
  /\ logPc' = "check"
  /\ UNCHANGED <<logLines, logSkipped, logRunning>>

(* The wait ignores notifications and the time of day: it ends at an expiry  *)
(* of the timeout that finds a full buffer or running_ false.  The current   *)
(* buffer goes to the file as well, the spares replace it and a used next_,  *)
(* and two of the written buffers at most are there to become spares again:  *)
(* an assertion fails when they do not suffice.                              *)
LogIterate ==
  LET given == IF logNext THEN 1 ELSE 2
      kept  == IF logFull = <<>> THEN 1 ELSE 2 IN
  /\ logPc = "wait"
  /\ logFull # <<>> \/ ~logRunning
  /\ logFile' = logFile \o FlattenSeq(logFull) \o logCurrent
  /\ logFull' = <<>> /\ logCurrent' = <<>> /\ logNext' = TRUE
  /\ logPc' = IF kept >= given THEN "check" ELSE "abort"
  /\ UNCHANGED <<logLines, logSkipped, logRunning>>

LogStep == LogCheck \/ LogIterate
LogFrontEnd == LogStop \/ \E len \in LogLens : LogAppend(len)
LogSpec == LogInit /\ [][LogStep \/ LogFrontEnd]_logVars

-----------------------------------------------------------------------------
LogHeld == logFile \o FlattenSeq(logFull) \o logCurrent

(* Whatever appends, iterations and the stop do in between, the file, the    *)
(* full buffers and the current one hold every line that was not skipped,    *)
(* once and in the order of the appends, and the back end never runs out of  *)
(* spare buffers (AsyncLogging.cpp:83-119).                                  *)
LogExact ==
  /\ logPc # "abort"
  /\ \A i, j \in DOMAIN LogHeld : i < j => LogHeld[i].id < LogHeld[j].id
  /\ Range(LogHeld) = Range(logLines) \ logSkipped

(* A full buffer reaches the file unless the logger is stopped meanwhile:    *)
(* the loop at AsyncLogging.cpp:76 sees it although no notification ends     *)
(* the wait.                                                                 *)
LogFlushed == logFull # <<>> ~> (logFull = <<>> \/ ~logRunning)
=============================================================================
