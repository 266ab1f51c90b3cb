------------------------------- MODULE TaskDelay -------------------------------
(***************************************************************************)
(* vTaskDelayUntil and the tick of the kernel (FreeRTOS/tasks.c), as the   *)
(* program's periodic tasks use them: a tick counter that wraps, a list of *)
(* the tasks to wake before the wrap and one of those to wake after it.    *)
(*                                                                         *)
(* A list is sorted by wake time and only its head and the tasks up to a   *)
(* time are asked for, so it is a set.  The wake time of a list item and   *)
(* *pxPreviousWakeTime are set to the same value by the same call, so they *)
(* are one variable.  No task of the program is a whole turn of the counter*)
(* (49 days) late.                                                         *)
(***************************************************************************)
EXTENDS Integers

CONSTANTS
  Tasks,       \* the periodic tasks, of one priority
  Increments,  \* what they pass as xTimeIncrement
  MAX_DELAY,   \* portMAX_DELAY, the last value of the tick counter
  MaxPended    \* bound: ticks during one suspension of the scheduler

ASSUME TaskDelayAssumption ==
  /\ MAX_DELAY \in Nat \ {0}
  /\ Increments \subseteq 1 .. MAX_DELAY
  /\ MaxPended \in 0 .. MAX_DELAY

VARIABLES
  xTickCount,
  xNextTaskUnblockTime,
  delayed,        \* pxDelayedTaskList
  overflow,       \* pxOverflowDelayedTaskList
  wakeTime,       \* *pxPreviousWakeTime, and the item value of a blocked task
  phase,          \* "run"; "suspended" and "unwind" within vTaskDelayUntil
  uxPendedTicks

kernelVars == <<xTickCount, xNextTaskUnblockTime, delayed, overflow>>
vars == <<kernelVars, wakeTime, phase, uxPendedTicks>>

(* xTaskGetTickCount() at the head of every task.                          *)
Init ==
  /\ xTickCount = 0
  /\ xNextTaskUnblockTime = MAX_DELAY
  /\ delayed = {} /\ overflow = {}
  /\ wakeTime = [t \in Tasks |-> 0]
  /\ phase = "run"
  /\ uxPendedTicks = 0

Blocked == delayed \cup overflow

(* Mutant of Wrapped: the counter has one value too many.                  *)
WrappedLate(n) == IF n > MAX_DELAY + 1 THEN n - (MAX_DELAY + 2) ELSE n

(* TickType_t is unsigned.                                                 *)
Wrapped(n) == IF n > MAX_DELAY THEN n - (MAX_DELAY + 1) ELSE n

(* How many ticks ago the last wake time of a ready task was.              *)
Late(t) ==
  IF wakeTime[t] <= xTickCount THEN xTickCount - wakeTime[t]
                               ELSE xTickCount + MAX_DELAY + 1 - wakeTime[t]

-------------------------------------------------------------------------------
(* v is the wake time at the head of a list, or the largest when it is     *)
(* empty.                                                                  *)
IsHeadTime(list, v) ==
  \/ list = {} /\ v = MAX_DELAY
  \/ \E t \in list : v = wakeTime[t] /\ \A u \in list : v <= wakeTime[u]

(* Mutant of Expired: a task wakes in the tick after its wake time.        *)
ExpiredLater(list, now) == {t \in list : wakeTime[t] < now}

Expired(list, now) == {t \in list : wakeTime[t] <= now}

(* The loop of xTaskIncrementTick.                                         *)
Unblock(list, now, next) ==
  IF now >= next
    THEN /\ delayed' = list \ Expired(list, now)
         /\ IsHeadTime(list \ Expired(list, now), xNextTaskUnblockTime')
    ELSE delayed' = list /\ xNextTaskUnblockTime' = next

(* A tick that the scheduler takes; at 0 the lists change places.          *)
IncrementTick ==
  LET now == Wrapped(xTickCount + 1) IN
  /\ xTickCount' = now
  /\ \/ /\ now # 0
        /\ Unblock(delayed, now, xNextTaskUnblockTime)
        /\ overflow' = overflow
     \/ /\ now = 0
        /\ \E next \in 0 .. MAX_DELAY :
             IsHeadTime(overflow, next) /\ Unblock(overflow, now, next)
        /\ overflow' = delayed
  /\ UNCHANGED wakeTime

(* No ready task gets a whole turn late by another tick.                   *)
Punctual == \A t \in Tasks \ Blocked : Late(t) + uxPendedTicks < MAX_DELAY

(* The tick interrupt, with the scheduler running and suspended.           *)
Tick ==
  /\ phase = "run"
  /\ Punctual
  /\ IncrementTick
  /\ UNCHANGED <<phase, uxPendedTicks>>

PendTick ==
  /\ phase = "suspended"
  /\ uxPendedTicks < MaxPended
  /\ Punctual
  /\ uxPendedTicks' = uxPendedTicks + 1
  /\ UNCHANGED <<kernelVars, wakeTime, phase>>

-------------------------------------------------------------------------------
(* Mutant of ShouldDelay: without a thought for the wrap.                  *)
ShouldDelayNaive(previous, wake) == wake > xTickCount

ShouldDelay(previous, wake) ==
  \/ xTickCount < previous /\ wake < previous /\ wake > xTickCount
  \/ xTickCount >= previous /\ (wake < previous \/ wake > xTickCount)

SoonerOf(wake) ==
  IF wake < xNextTaskUnblockTime THEN wake ELSE xNextTaskUnblockTime

(* Mutant of Overflows: the wrap counts from the previous wake time.       *)
OverflowsPrevious(t, wake) == wake < wakeTime[t]

(* xTimeToWake < xConstTickCount in prvAddCurrentTaskToDelayedList.        *)
Overflows(t, wake) == wake < xTickCount

AddToDelayedList(t, wake) ==
  IF Overflows(t, wake)
    THEN /\ overflow' = overflow \cup {t}
         /\ UNCHANGED <<delayed, xNextTaskUnblockTime>>
    ELSE /\ delayed' = delayed \cup {t}
         /\ xNextTaskUnblockTime' = SoonerOf(wake)
         /\ UNCHANGED overflow

(* vTaskDelayUntil with the scheduler suspended: the tick count stands.    *)
DelayUntil(t, xTimeIncrement) ==
  LET wake == Wrapped(wakeTime[t] + xTimeIncrement) IN
  /\ phase = "run"
  /\ t \notin Blocked
  /\ phase' = "suspended"
  /\ wakeTime' = [wakeTime EXCEPT ![t] = wake]
  /\ IF ShouldDelay(wakeTime[t], wake)
       THEN AddToDelayedList(t, wake)
       ELSE UNCHANGED <<delayed, overflow, xNextTaskUnblockTime>>
  /\ UNCHANGED <<xTickCount, uxPendedTicks>>

(* xTaskResumeAll takes the ticks that were missed, one by one, in a       *)
(* critical section.                                                       *)
ResumeAll ==
  /\ phase = "suspended"
  /\ phase' = IF uxPendedTicks > 0 THEN "unwind" ELSE "run"
  /\ UNCHANGED <<kernelVars, wakeTime, uxPendedTicks>>

UnwindTick ==
  /\ phase = "unwind"
  /\ IncrementTick
  /\ uxPendedTicks' = uxPendedTicks - 1
  /\ phase' = IF uxPendedTicks = 1 THEN "run" ELSE "unwind"

Call(t) == \E inc \in Increments : DelayUntil(t, inc)

Next == Tick \/ PendTick \/ (\E t \in Tasks : Call(t)) \/ ResumeAll \/ UnwindTick

Spec == Init /\ [][Next]_vars

(* The tick interrupt goes on, and a ready task gets its time slices.      *)
FairSpec ==
  /\ Spec
  /\ WF_vars(Tick) /\ WF_vars(ResumeAll) /\ WF_vars(UnwindTick)
  /\ \A t \in Tasks : SF_vars(Call(t))

-------------------------------------------------------------------------------
(* Types. *)
TypeOK ==
  /\ xTickCount \in 0 .. MAX_DELAY
  /\ xNextTaskUnblockTime \in 0 .. MAX_DELAY
  /\ delayed \subseteq Tasks
  /\ overflow \subseteq Tasks
  /\ wakeTime \in [Tasks -> 0 .. MAX_DELAY]
  /\ phase \in {"run", "suspended", "unwind"}
  /\ uxPendedTicks \in 0 .. MaxPended

(* Every sleeping task is in the list of the turn in which it is to wake,  *)
(* not yet at its time, and the kernel will not look too late.             *)
ListsOK ==
  /\ delayed \cap overflow = {}
  /\ \A t \in delayed : /\ wakeTime[t] > xTickCount
                        /\ xNextTaskUnblockTime <= wakeTime[t]
  /\ \A t \in overflow : wakeTime[t] < xTickCount

(* configASSERT in taskSWITCH_DELAYED_LISTS (tasks.c:203): when the lists  *)
(* change places, nobody is left in the one whose turn is over.            *)
NothingLeftBehind == xTickCount = MAX_DELAY => delayed = {}

(* A task that sleeps wakes again.                                         *)
Wakes == \A t \in Tasks : t \in Blocked ~> t \notin Blocked

(* The kernel implements the timer without a counter: every task wakes in  *)
(* exactly the tick that is its due time, on a grid that being late does   *)
(* not shift, and a call sleeps unless its due time is past.               *)
Due(t) == IF t \in delayed THEN wakeTime[t] - xTickCount
          ELSE IF t \in overflow THEN wakeTime[t] + MAX_DELAY + 1 - xTickCount
          ELSE 0 - Late(t)

Timer == INSTANCE PeriodicTimer WITH due <- [t \in Tasks |-> Due(t)], asleep <- Blocked

TimerSpec == Timer!Spec
===============================================================================
