------------------------------ MODULE GimbalAxis -------------------------------
(***************************************************************************)
(* One axis of the gimbal, yaw or pitch, under Task_Infantry: the PID on   *)
(* what the vision PC sees (aim), the PID on the angle and the PID on the  *)
(* speed, one after the other, as GimbalCtrl_Classdef::singleStepControl   *)
(* calls them in each mode.  Yaw has a second PID on the angle, fed by the *)
(* motor's encoder; on pitch the PID on the speed integrates.              *)
(*                                                                         *)
(* GetMicroSecond() only changes every millisecond (win32_support.cpp:72), *)
(* so two calls within one, which Task_Infantry makes when it catches up   *)
(* after a Sleep or a write that blocked, have dt = 0.  The measurements   *)
(* of the simulator are numbers; what the PC sends is any float, because   *)
(* nobody looks at the bytes of a pack.                                    *)
(***************************************************************************)
EXTENDS FloatPid

CONSTANTS
  Axes,   \* the axes of the gimbal
  Modes,  \* the modes the PC sends
  Long    \* bound: undisturbed control steps that are counted

ASSUME GimbalAxisAssumption ==
  /\ Axes \subseteq {"YAW", "PITCH"}
  /\ Modes \subseteq {"NORMAL", "RUNE", "ASSIST", "ROTATE", "STATIC", "TUNE_PID",
                      "RUNAWAY"}
  /\ Long \in Nat

VARIABLES
  axis,
  aim, enc, angle, speed,  \* the PIDs
  outData,                 \* yawOutData or pitchOutData
  mode,
  pc,                      \* the call that comes next
  aimed,                   \* how many calls of the aim in a row have had a
                           \* number from the PC and no dt of zero
  calm                     \* how many control steps in a row, in modes that
                           \* call the same PIDs, have had no dt of zero in them

vars == <<axis, aim, enc, angle, speed, outData, mode, pc, aimed, calm>>

Init ==
  /\ axis \in Axes
  /\ aim = NewPid /\ enc = NewPid /\ angle = NewPid /\ speed = NewPid
  /\ outData = "num"
  /\ mode = "NORMAL"
  /\ pc = "aim"
  /\ aimed = 0 /\ calm = 0

(* Whether the PID on the speed integrates: its Ki is 0.5 on pitch.        *)
SpeedKi == axis = "PITCH"

(* The PID on the angle that a mode uses; pitch uses the same in all but   *)
(* RUNAWAY.                                                                *)
Source(m) ==
  CASE m = "RUNAWAY" -> "none"
    [] m # "RUNAWAY" /\ axis = "PITCH" -> "angle"
    [] axis = "YAW" /\ m \in {"RUNE", "STATIC"} -> "enc"
    [] axis = "YAW" /\ m \in {"NORMAL", "ROTATE", "ASSIST"} -> "angle"
    [] axis = "YAW" /\ m = "TUNE_PID" -> "kept"

UpToLong(n) == IF n < Long THEN n + 1 ELSE n

(* A step with a disturbed call is not counted at its end.                 *)
Disturb(stamp) == calm' = IF stamp = "positive" THEN calm ELSE -1

(* vision.yawPID or pitchPID, in every control step, on the float that     *)
(* came with the last pack.                                                *)
Aim ==
  /\ pc = "aim"
  /\ \E delta \in Floats, stamp \in Stamps, near \in BOOLEAN :
       /\ aim' \in Adjust([aim EXCEPT !.Current = delta], FALSE, TRUE, stamp, near)
       /\ aimed' = IF delta = "num" /\ stamp = "positive" THEN UpToLong(aimed) ELSE 0
  /\ pc' = "mode"
  /\ UNCHANGED <<axis, enc, angle, speed, outData, mode, calm>>

(* Mutant of Heading: the aim is followed in every mode.                   *)
HeadingAlways(m, heading) == Constrain(Plus({heading, aim.Out}))

(* ASSIST moves the heading by what the aim puts out.                      *)
Heading(m, heading) ==
  IF m = "ASSIST" THEN Constrain(Plus({heading, aim.Out})) ELSE heading

(* The mode of this step, which comes from the PC or is NORMAL.            *)
TakeMode ==
  /\ pc = "mode"
  /\ mode' \in Modes
  /\ calm' = IF Source(mode') = Source(mode) \/ calm < 0 THEN calm ELSE 0
  /\ angle' = [angle EXCEPT !.Target = Heading(mode', @)]
  /\ outData' = IF mode' = "RUNAWAY" THEN "num" ELSE outData
  /\ pc' = IF mode' = "RUNAWAY" THEN "end" ELSE "angle"
  /\ UNCHANGED <<axis, aimed, aim, enc, speed>>

AdjustAngle ==
  /\ pc = "angle"
  /\ Source(mode) = "angle"
  /\ \E stamp \in Stamps, near \in BOOLEAN :
       /\ angle' \in Adjust(angle, FALSE, FALSE, stamp, near)
       /\ Disturb(stamp)
       /\ speed' = [speed EXCEPT !.Target = Returned(angle', stamp)]
  /\ pc' = "speed"
  /\ UNCHANGED <<axis, aimed, aim, enc, outData, mode>>

AdjustEnc ==
  /\ pc = "angle"
  /\ Source(mode) = "enc"
  /\ \E stamp \in Stamps, near \in BOOLEAN :
       /\ enc' \in Adjust(enc, FALSE, FALSE, stamp, near)
       /\ Disturb(stamp)
       /\ speed' = [speed EXCEPT !.Target = Returned(enc', stamp)]
  /\ pc' = "speed"
  /\ UNCHANGED <<axis, aimed, aim, angle, outData, mode>>

KeepTarget ==
  /\ pc = "angle"
  /\ Source(mode) = "kept"
  /\ pc' = "speed"
  /\ UNCHANGED <<axis, aimed, aim, enc, angle, speed, outData, mode, calm>>

AdjustSpeed ==
  /\ pc = "speed"
  /\ \E stamp \in Stamps, near \in BOOLEAN :
       /\ speed' \in Adjust(speed, SpeedKi, FALSE, stamp, near)
       /\ Disturb(stamp)
       /\ outData' = Returned(speed', stamp)
  /\ pc' = "end"
  /\ UNCHANGED <<axis, aimed, aim, enc, angle, mode>>

End ==
  /\ pc = "end"
  /\ pc' = "aim"
  /\ calm' = UpToLong(calm)
  /\ UNCHANGED <<axis, aimed, aim, enc, angle, speed, outData, mode>>

Next ==
  Aim \/ TakeMode \/ AdjustAngle \/ AdjustEnc \/ KeepTarget \/ AdjustSpeed \/ End

Spec == Init /\ [][Next]_vars

-------------------------------------------------------------------------------
(* Types, and: no controller hands on a value that is not finite but "not  *)
(* a number".                                                              *)
TypeOK ==
  /\ axis \in Axes
  /\ {aim, enc, angle, speed} \subseteq Pids
  /\ \A p \in {aim, enc, angle, speed} : {p.Out, p.Target} \subseteq {"num", "nan"}
  /\ outData \in {"num", "nan"}
  /\ mode \in Modes \cup {"NORMAL"}
  /\ pc \in {"aim", "mode", "angle", "speed", "end"}
  /\ aimed \in 0 .. Long
  /\ calm \in -1 .. Long

(* The heading is a number.                                                *)
HeadingKept == angle.Target = "num"

(* The mode sets the speed to follow, from a target that is a number.      *)
TargetSound ==
  /\ Source(mode) \in {"angle", "enc"}
  /\ Source(mode) = "angle" => HeadingKept

(* After five control steps without a dt of zero the axis puts out a       *)
(* number, whatever happened before and whatever the PC sends, if          *)
(*   - the mode sets the speed to follow (in TUNE_PID yaw keeps the one it *)
(*     had, which may be no number, for ever),                             *)
(*   - the heading is a number, where the mode follows it, and             *)
(*   - the integrator of the speed, which pitch has, is a number.          *)
OutRecovers ==
  calm >= 5 /\ pc = "aim" /\ TargetSound /\ (SpeedKi => speed.integral_e = "num")
    => outData = "num"

(* The heading, which nothing ever sets anew, is only lost in ASSIST, and  *)
(* only by what the aim puts out in a call with a dt of zero or with a     *)
(* float from the PC that is no number or huge, or in the three calls      *)
(* after it.                                                               *)
HeadingLostOnlyInAssist ==
  [][HeadingKept /\ ~HeadingKept' => mode' = "ASSIST" /\ aimed < 4]_vars
===============================================================================
