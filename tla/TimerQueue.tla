----------------------------- MODULE TimerQueue ------------------------------
(***************************************************************************)
(* TimerQueue on its loop thread: a set of timers ordered by time, one     *)
(* timerfd armed for the earliest of them, and the handler of its events,  *)
(* whose callbacks may add timers.  Time is relative: what is left until a *)
(* timer is due, negative when it is late; one tick is the 100 us below    *)
(* which the timerfd is never set.                                         *)
(***************************************************************************)
EXTENDS Integers

CONSTANTS
  TimerIds,     (* the Timer objects                                        *)
  TimerDelays,  (* delays asked of AddTimer; a time may be past already     *)
  TimerEvery,   (* intervals; 0 for a timer that does not repeat            *)
  TimerLag      (* bound: ticks the loop may be late while it has work      *)

ASSUME TimerAssumption ==
  TimerDelays \subseteq Int /\ TimerEvery \subseteq Nat /\ TimerLag \in Nat

VARIABLES
  timerLeft,   (* timers_: what is left, for every timer in the set         *)
  timerEach,   (* interval_ of every timer in timers_ or active_timers_     *)
  timerFd,     (* ticks until the timerfd expires, 0 when it is not armed   *)
  timerReady,  (* it has expired since it was set or read                   *)
  timerActive, (* active_timers_ whose callbacks are still to run           *)
  timerRan,    (* active_timers_ whose callbacks ran                        *)
  timerPc      (* the loop: "poll", "event" reported, in "run", in "reset"  *)

timerVars == <<timerLeft, timerEach, timerFd, timerReady, timerActive, timerRan, timerPc>>

TimerInit ==
  /\ timerLeft = [t \in {} |-> 0] /\ timerEach = [t \in {} |-> 0]
  /\ timerFd = 0 /\ timerReady = FALSE
  /\ timerActive = {} /\ timerRan = {} /\ timerPc = "poll"

TimerFirst(left) ==
  CHOOSE n \in {left[t] : t \in DOMAIN left} : \A t \in DOMAIN left : n <= left[t]
TimerSoonest(left) == IF TimerFirst(left) < 1 THEN 1 ELSE TimerFirst(left)
TimerWith(f, t, v) == [u \in DOMAIN f \cup {t} |-> IF u = t THEN v ELSE f[u]]

(* A tick of the clock.  The loop is not late for ever: see TimerLag. *)
TimerTick ==
  /\ \/ timerPc = "poll" /\ timerFd > 0
     \/ \A t \in DOMAIN timerLeft : timerLeft[t] > -TimerLag
  /\ timerLeft' = [t \in DOMAIN timerLeft |-> timerLeft[t] - 1]
  /\ timerFd' = IF timerFd = 0 THEN 0 ELSE timerFd - 1
  /\ timerReady' = (timerReady \/ timerFd = 1)
  /\ UNCHANGED <<timerEach, timerActive, timerRan, timerPc>>

(* epoll_wait reports the timerfd. *)
TimerPoll ==
  /\ timerPc = "poll" /\ timerReady
  /\ timerPc' = "event"
  /\ UNCHANGED <<timerLeft, timerEach, timerFd, timerReady, timerActive, timerRan>>

(* HandleRead: read the timerfd, take what is due out of the set. *)
TimerHandleRead ==
  LET due == {t \in DOMAIN timerLeft : timerLeft[t] <= 0} IN
  /\ timerPc = "event"
  /\ timerReady' = FALSE
  /\ timerActive' = due /\ timerRan' = {}
  /\ timerLeft' = [t \in DOMAIN timerLeft \ due |-> timerLeft[t]]
  /\ timerPc' = "run"
  /\ UNCHANGED <<timerEach, timerFd>>

(* The callback of the next active timer returns; active_timers_ is ordered  *)
(* by the times, which the set no longer needs to tell.                      *)
TimerRun ==
  /\ timerPc = "run"
  /\ \/ /\ timerActive = {}
        /\ timerPc' = "reset"
        /\ UNCHANGED <<timerActive, timerRan>>
     \/ \E t \in timerActive :
          /\ timerActive' = timerActive \ {t}
          /\ timerRan' = timerRan \cup {t}
          /\ UNCHANGED timerPc
  /\ UNCHANGED <<timerLeft, timerEach, timerFd, timerReady>>

(* Mutant: the timerfd is armed only when a repeating timer went back in. *)
MutantTimerResetIfRepeats ==
  LET again == {t \in timerRan : timerEach[t] > 0}
      left == [t \in DOMAIN timerLeft \cup again |->
                 IF t \in again THEN timerEach[t] ELSE timerLeft[t]] IN
  /\ timerPc = "reset"
  /\ timerLeft' = left
  /\ timerEach' = [t \in DOMAIN left |-> timerEach[t]]
  /\ IF again = {}
     THEN UNCHANGED <<timerFd, timerReady>>
     ELSE timerFd' = TimerSoonest(left) /\ timerReady' = FALSE
  /\ timerRan' = {} /\ timerPc' = "poll"
  /\ UNCHANGED timerActive

(* ResetTimers: repeating timers start again, the others are deleted, and    *)
(* the timerfd is set for the earliest that is left.                         *)
TimerReset ==
  LET again == {t \in timerRan : timerEach[t] > 0}
      left == [t \in DOMAIN timerLeft \cup again |->
                 IF t \in again THEN timerEach[t] ELSE timerLeft[t]] IN
  /\ timerPc = "reset"
  /\ timerLeft' = left
  /\ timerEach' = [t \in DOMAIN left |-> timerEach[t]]
  /\ IF DOMAIN left = {}
     THEN UNCHANGED <<timerFd, timerReady>>
     ELSE timerFd' = TimerSoonest(left) /\ timerReady' = FALSE
  /\ timerRan' = {} /\ timerPc' = "poll"
  /\ UNCHANGED timerActive

(* Mutant: the timerfd is set only for the first timer of an empty set. *)
MutantTimerIsFirstIfAlone(delay) == DOMAIN timerLeft = {}

(* Insert answers that the new timer is the earliest, equal times excluded. *)
TimerIsFirst(delay) == DOMAIN timerLeft = {} \/ delay < TimerFirst(timerLeft)

(* AddTimer on the loop thread, from a task, a handler or a timer callback. *)
TimerAdd(t, delay, every) ==
  /\ timerPc # "reset"
  /\ t \notin DOMAIN timerEach
  /\ timerLeft' = TimerWith(timerLeft, t, delay)
  /\ timerEach' = TimerWith(timerEach, t, every)
  /\ IF TimerIsFirst(delay)
     THEN timerFd' = (IF delay < 1 THEN 1 ELSE delay) /\ timerReady' = FALSE
     ELSE UNCHANGED <<timerFd, timerReady>>
  /\ UNCHANGED <<timerActive, timerRan, timerPc>>

TimerStep == TimerPoll \/ TimerHandleRead \/ TimerRun \/ TimerReset
TimerUse == \E t \in TimerIds, d \in TimerDelays, e \in TimerEvery : TimerAdd(t, d, e)

TimerSpec == TimerInit /\ [][TimerTick \/ TimerStep \/ TimerUse]_timerVars

-----------------------------------------------------------------------------
(* While the loop waits, a timer in the set means that the timerfd is        *)
(* readable or will be no later than the earliest of them, or one tick for   *)
(* a timer that is late: no sequence of AddTimer, expiries, callbacks that   *)
(* add timers and repetitions leaves a timer behind an unarmed or late       *)
(* descriptor (TimerQueue.cpp:59-117).                                       *)
TimersArmed ==
  timerPc = "poll" /\ DOMAIN timerLeft # {} =>
    timerReady \/ timerFd \in 1..TimerSoonest(timerLeft)

(* Every timer in the set gets its callback run, whatever timers are added   *)
(* before it or while callbacks run (TimerQueue.cpp:42-57).                  *)
TimersFire == \A t \in TimerIds : t \in DOMAIN timerLeft ~> t \in timerRan
=============================================================================
