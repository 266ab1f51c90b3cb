----------------------------- MODULE PeriodicTimer -----------------------------
(***************************************************************************)
(* What vTaskDelayUntil promises a periodic task: its calls are due on a   *)
(* grid that no lateness shifts.  A call puts the due time one increment   *)
(* on and sleeps until it; when even that is past, it does not sleep.      *)
(* There is no counter that could wrap: due is relative to the present.    *)
(***************************************************************************)
EXTENDS Integers

CONSTANTS Tasks, Increments

VARIABLES
  due,     \* ticks from now to the last due time of each task: 0 or less
           \* when it is past
  asleep   \* the tasks that wait for their due time

Init ==
  /\ due = [t \in Tasks |-> 0]
  /\ asleep = {}

(* Time goes on by a tick; a task wakes in the tick that is its due time.  *)
Tick ==
  /\ due' = [t \in Tasks |-> due[t] - 1]
  /\ asleep' = {t \in asleep : due'[t] > 0}

Call(t, inc) ==
  /\ t \notin asleep
  /\ due' = [due EXCEPT ![t] = @ + inc]
  /\ asleep' = IF due[t] + inc > 0 THEN asleep \cup {t} ELSE asleep

Next == Tick \/ \E t \in Tasks, inc \in Increments : Call(t, inc)

Spec == Init /\ [][Next]_<<due, asleep>>
===============================================================================
