------------------------------ MODULE RilEvent ------------------------------
(***************************************************************************)
(* The event loop of libril: ril_event.cpp's timer list and select loop,   *)
(* the pipe that other threads write to pop it out of select()             *)
(* (triggerEvLoop), and its start-up (eventLoop, RIL_startEventLoop).      *)
(*                                                                         *)
(* Time is CLOCK_MONOTONIC in microseconds, one tick at a time.  Actions   *)
(* that hold listMutex are atomic; calcNextTimeout reads the list without  *)
(* it.  The wakeup pipe is the only file the program ever watches.         *)
(***************************************************************************)
EXTENDS Integers, Sequences, FiniteSets

CONSTANTS
  Adders,      \* threads that request timed callbacks
  Delays,      \* relative times they ask for
  MaxTimers,   \* bound: timers requested
  MaxTime      \* bound: the clock

ASSUME EventAssumption ==
  /\ Delays \subseteq Nat
  /\ MaxTimers \in Nat
  /\ MaxTime \in Nat

Timers  == 1..MaxTimers
Wakeup  == 0            \* s_wakeupfd_event in the pending list
Forever == MaxTime + 1  \* select() without a timeout

VARIABLES
  now,
  timer_list,   \* timers, soonest first
  pending_list, \* timers and Wakeup, in firing order
  timeout,      \* absolute time of each timer
  added,        \* timers requested so far
  fired,        \* timers whose callback has run
  bytes,        \* bytes in the wakeup pipe
  hasPipe,      \* s_fdWakeupRead and s_fdWakeupWrite are set
  lpc,          \* position of the event thread
  deadline,     \* when its select() times out
  ready,        \* select() found the pipe readable
  apc           \* position of each adder

loopVars  == <<lpc, deadline, ready>>
timerVars == <<timer_list, timeout, added>>
vars == <<now, timerVars, pending_list, fired, bytes, hasPipe, loopVars, apc>>

-----------------------------------------------------------------------------

(* The first position that ril_timer_add's scan does not skip.             *)
InsertionPoint(list, when) ==
  CHOOSE i \in 1..(Len(list) + 1) :
    /\ \A j \in 1..(i - 1) : timeout[list[j]] < when
    /\ i <= Len(list) => ~(timeout[list[i]] < when)

ril_timer_add(delay) ==
  LET n    == added + 1
      when == now + delay
      i    == InsertionPoint(timer_list, when)
  IN  /\ added < MaxTimers
      /\ when < MaxTime
      /\ added' = n
      /\ timeout' = [timeout EXCEPT ![n] = when]
      /\ timer_list' = SubSeq(timer_list, 1, i - 1) \o <<n>>
                         \o SubSeq(timer_list, i, Len(timer_list))

(* RIL_requestTimedCallback by another thread: add the timer, then write   *)
(* to the pipe.  RIL_startEventLoop has returned, but the pipe may not     *)
(* exist yet: the byte then goes to another file.                          *)
RequestTimedCallback(a, delay) ==
  /\ apc[a] = "idle"
  /\ lpc # "init"
  /\ ril_timer_add(delay)
  /\ apc' = [apc EXCEPT ![a] = "trigger"]
  /\ UNCHANGED <<now, pending_list, fired, bytes, hasPipe, loopVars>>

(* Fault: the loop is popped out of select() only for the first timer.     *)
TriggerEvLoop_FirstOnly(a) ==
  /\ apc[a] = "trigger"
  /\ bytes' = IF hasPipe /\ Len(timer_list) = 1 THEN bytes + 1 ELSE bytes
  /\ apc' = [apc EXCEPT ![a] = "idle"]
  /\ UNCHANGED <<now, timerVars, pending_list, fired, hasPipe, loopVars>>

(* Fault: no byte is written.                                              *)
TriggerEvLoop_NoByte(a) ==
  /\ apc[a] = "trigger"
  /\ apc' = [apc EXCEPT ![a] = "idle"]
  /\ UNCHANGED <<now, timerVars, pending_list, fired, bytes, hasPipe, loopVars>>

TriggerEvLoop(a) ==
  /\ apc[a] = "trigger"
  /\ bytes' = IF hasPipe THEN bytes + 1 ELSE bytes
  /\ apc' = [apc EXCEPT ![a] = "idle"]
  /\ UNCHANGED <<now, timerVars, pending_list, fired, hasPipe, loopVars>>

-----------------------------------------------------------------------------
(* eventLoop up to the loop proper.  s_started is set, and the starting    *)
(* thread released, before the pipe is created.                            *)
EventInit ==
  /\ lpc = "init"
  /\ lpc' = "pipe"
  /\ UNCHANGED <<now, timerVars, pending_list, fired, bytes, hasPipe, deadline, ready, apc>>

(* The pipe's event is watched from here on.  rilEventAddWakeup may itself *)
(* write a byte: s_tid_dispatch need not be set yet when this thread runs. *)
CreatePipe ==
  /\ lpc = "pipe"
  /\ \/ /\ hasPipe' = TRUE
        /\ bytes' \in {bytes, bytes + 1}
        /\ lpc' = "calc"
     \/ /\ lpc' = "ended"
        /\ UNCHANGED <<hasPipe, bytes>>
  /\ UNCHANGED <<now, timerVars, pending_list, fired, deadline, ready, apc>>

calcNextTimeout ==
  /\ lpc = "calc"
  /\ deadline' = IF timer_list = <<>> THEN Forever
                 ELSE IF timeout[timer_list[1]] > now THEN timeout[timer_list[1]]
                 ELSE now
  /\ lpc' = "select"
  /\ UNCHANGED <<now, timerVars, pending_list, fired, bytes, hasPipe, ready, apc>>

Select ==
  /\ lpc = "select"
  /\ bytes > 0 \/ now >= deadline
  /\ ready' = (bytes > 0)
  /\ lpc' = "timeouts"
  /\ UNCHANGED <<now, timerVars, pending_list, fired, bytes, hasPipe, deadline, apc>>

SelectInterrupted ==
  /\ lpc = "select"
  /\ lpc' = "calc"
  /\ UNCHANGED <<now, timerVars, pending_list, fired, bytes, hasPipe, deadline, ready, apc>>

(* The timers that processTimeouts' walk takes off the list.               *)
Expired(list) ==
  CHOOSE k \in 0..Len(list) :
    /\ \A i \in 1..k : now > timeout[list[i]]
    /\ k < Len(list) => ~(now > timeout[list[k + 1]])

(* Fault: expired timers are not unlinked from the timer list.             *)
processTimeouts_KeepsExpired ==
  /\ lpc = "timeouts"
  /\ pending_list' = pending_list \o SubSeq(timer_list, 1, Expired(timer_list))
  /\ lpc' = "readies"
  /\ UNCHANGED <<now, timerVars, fired, bytes, hasPipe, deadline, ready, apc>>

processTimeouts ==
  /\ lpc = "timeouts"
  /\ LET k == Expired(timer_list)
     IN  /\ pending_list' = pending_list \o SubSeq(timer_list, 1, k)
         /\ timer_list' = SubSeq(timer_list, k + 1, Len(timer_list))
  /\ lpc' = "readies"
  /\ UNCHANGED <<now, timeout, added, fired, bytes, hasPipe, deadline, ready, apc>>

processReadReadies ==
  /\ lpc = "readies"
  /\ pending_list' = IF ready THEN Append(pending_list, Wakeup) ELSE pending_list
  /\ lpc' = "fire"
  /\ UNCHANGED <<now, timerVars, fired, bytes, hasPipe, deadline, ready, apc>>

(* firePending, one callback at a time.  A timer's callback may request    *)
(* another timer; on this thread that writes no byte.                      *)
FireTimer ==
  /\ lpc = "fire"
  /\ pending_list # <<>>
  /\ Head(pending_list) # Wakeup
  /\ pending_list' = Tail(pending_list)
  /\ fired' = fired \cup {Head(pending_list)}
  /\ \/ \E d \in Delays : ril_timer_add(d)
     \/ UNCHANGED timerVars
  /\ UNCHANGED <<now, bytes, hasPipe, loopVars, apc>>

processWakeupCallback ==
  /\ lpc = "fire"
  /\ pending_list # <<>>
  /\ Head(pending_list) = Wakeup
  /\ pending_list' = Tail(pending_list)
  /\ bytes' = 0
  /\ UNCHANGED <<now, timerVars, fired, hasPipe, loopVars, apc>>

PendingDone ==
  /\ lpc = "fire"
  /\ pending_list = <<>>
  /\ lpc' = "calc"
  /\ UNCHANGED <<now, timerVars, pending_list, fired, bytes, hasPipe, deadline, ready, apc>>

Tick ==
  /\ now < MaxTime
  /\ now' = now + 1
  /\ UNCHANGED <<timerVars, pending_list, fired, bytes, hasPipe, loopVars, apc>>

-----------------------------------------------------------------------------
Init ==
  /\ now = 0
  /\ timer_list = <<>>
  /\ pending_list = <<>>
  /\ timeout = [n \in Timers |-> 0]
  /\ added = 0
  /\ fired = {}
  /\ bytes = 0
  /\ hasPipe = FALSE
  /\ lpc = "init"
  /\ deadline = 0
  /\ ready = FALSE
  /\ apc = [a \in Adders |-> "idle"]

LoopStep ==
  \/ EventInit \/ CreatePipe \/ calcNextTimeout \/ Select
  \/ processTimeouts \/ processReadReadies
  \/ FireTimer \/ processWakeupCallback \/ PendingDone

Next ==
  \/ \E a \in Adders, d \in Delays : RequestTimedCallback(a, d)
  \/ \E a \in Adders : TriggerEvLoop(a)
  \/ LoopStep
  \/ SelectInterrupted
  \/ Tick

(* Threads run and the clock advances.  Signals do not arrive so often     *)
(* that each select() with something to report is interrupted (strong      *)
(* fairness of Select).                                                    *)
Fairness ==
  /\ WF_vars(LoopStep)
  /\ SF_vars(Select)
  /\ WF_vars(Tick)
  /\ \A a \in Adders : WF_vars(TriggerEvLoop(a))

Spec == Init /\ [][Next]_vars /\ Fairness

-----------------------------------------------------------------------------
(* Properties *)

(* Every variable has its type.                                            *)
TypeOK ==
  /\ now \in 0..MaxTime
  /\ timer_list \in Seq(Timers)
  /\ pending_list \in Seq(Timers \cup {Wakeup})
  /\ timeout \in [Timers -> Nat]
  /\ added \in 0..MaxTimers
  /\ fired \subseteq Timers
  /\ bytes \in Nat
  /\ hasPipe \in BOOLEAN
  /\ lpc \in {"init", "pipe", "calc", "select", "timeouts", "readies", "fire", "ended"}
  /\ deadline \in 0..Forever
  /\ ready \in BOOLEAN
  /\ apc \in [Adders -> {"idle", "trigger"}]

(* No lost wakeup: when select() would sleep past a timer's time, a byte   *)
(* is in the pipe or on its way, also for timers added during start-up,    *)
(* when the byte goes astray, and by callbacks, which write none.          *)
NoOversleep ==
  lpc = "select" =>
    \A i \in 1..Len(timer_list) :
      timeout[timer_list[i]] < deadline =>
        \/ now >= deadline
        \/ bytes > 0
        \/ \E a \in Adders : apc[a] = "trigger"

(* A timer is in the timer list, pending, or fired, and never in two       *)
(* places: no callback is lost and none runs twice.                        *)
EachTimerOnce ==
  \A n \in 1..added :
    LET listed  == Cardinality({i \in 1..Len(timer_list) : timer_list[i] = n})
        pending == Cardinality({i \in 1..Len(pending_list) : pending_list[i] = n})
    IN  listed + pending + (IF n \in fired THEN 1 ELSE 0) = 1

(* Every requested timer fires, even one requested while the loop starts,  *)
(* unless the event thread ends because it cannot create its wakeup pipe.  *)
TimersFire == \A n \in Timers : (added >= n) ~> (n \in fired \/ lpc = "ended")
=============================================================================
