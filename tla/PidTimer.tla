------------------------------- MODULE PidTimer --------------------------------
(***************************************************************************)
(* myPIDTimer::UpdataTimeStamp (SRML/PID.cpp): the time between two calls  *)
(* of Adjust, taken from a counter of microseconds that wraps, and that    *)
(* GetMicroSecond() only moves in steps of a millisecond.                  *)
(***************************************************************************)
EXTENDS Integers

CONSTANTS
  TickMod,     \* the range of the counter: 2^32
  Resolution   \* what it moves by: 1000 (win32_support.cpp:72)

ASSUME PidTimerAssumption ==
  /\ TickMod \in Nat
  /\ Resolution \in Nat
  /\ 1 < Resolution

Ticks == 0 .. TickMod - 1

(* The counter, some time after it stood at last_time.                     *)
SystemTick(last_time, elapsed) ==
  IF last_time + elapsed < TickMod THEN last_time + elapsed
                                   ELSE last_time + elapsed - TickMod

(* After a wrap 0xFFFFFFFF is added, one less than the range.              *)
Dt(last_time, now_time) ==
  IF now_time < last_time THEN now_time + (TickMod - 1 - last_time)
                          ELSE now_time - last_time

(* What UpdataTimeStamp() finds: no last time (at the first call, and when *)
(* the counter happened to be 0), no time since, or some.                  *)
Stamps == {"unset", "zero", "positive"}

UpdataTimeStamp(last_time, now_time) ==
  IF last_time = 0 THEN "unset"
  ELSE IF Dt(last_time, now_time) = 0 THEN "zero"
  ELSE "positive"

-------------------------------------------------------------------------------
(* Over any time shorter than the range of the counter, dt is the time     *)
(* that has passed, or, across a wrap, one tick less; and a controller is  *)
(* only ever given a dt of zero by two calls at one reading of the clock,  *)
(* never by the wrap, because the clock moves by more than a tick.         *)
TimeIsMeasured ==
  \A last_time \in Ticks, elapsed \in Ticks :
    LET now_time == SystemTick(last_time, elapsed) IN
    /\ elapsed - 1 <= Dt(last_time, now_time)
    /\ Dt(last_time, now_time) <= elapsed
    /\ last_time # 0 /\ (elapsed = 0 \/ Resolution <= elapsed) =>
         (UpdataTimeStamp(last_time, now_time) = "zero" <=> elapsed = 0)
===============================================================================
