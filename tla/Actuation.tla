------------------------------- MODULE Actuation -------------------------------
(***************************************************************************)
(* From the commands of the vision PC and of the player to the motors      *)
(* (Usr/User_Task.cpp, Usr/Infantry): Task_Infantry decides the mode and   *)
(* steps the chassis and the gimbal, Task_Transmit copies what they put    *)
(* out to the targets of the simulator's joints.  Both run every 5 ms and  *)
(* share chassis, gimbal and a flag without a lock, so every access to     *)
(* them is a step.  A control step ends with a write to the serial port of *)
(* the PC, which has to wait while the listener is in its critical section *)
(* (SerialPort.tla).                                                       *)
(*                                                                         *)
(* Of a speed or a torque it matters whether it is zero, a number or not a *)
(* number: an output within PID's limit of 1.6 always passes the test of   *)
(* Task_Transmit against 2.                                                *)
(***************************************************************************)
EXTENDS Integers

CONSTANTS
  MaxWheel,    \* the wheels are 0 .. MaxWheel: 3 in the code
  CtrlModes,   \* what the PC may send as ctrlMode
  Triggers,    \* what the PC or the mouse may say of the trigger: of BOOLEAN
  Outputs      \* what a PID may put out: a subset of {"zero", "num", "nan"}

Modes == {"NORMAL", "RUNE", "ASSIST", "ROTATE", "STATIC", "TUNE_PID", "RUNAWAY"}

ASSUME ActuationAssumption ==
  /\ MaxWheel \in Nat
  /\ CtrlModes \subseteq Modes
  /\ Outputs \subseteq {"zero", "num", "nan"}
  /\ "zero" \in Outputs
  /\ Triggers \subseteq BOOLEAN

Wheels == 0 .. MaxWheel
Axes == {"YAW", "PITCH"}

VARIABLES
  pcStatus, ctrlMode, fireCmd,   \* vision, written by Recv_Vision
  portBusy,                      \* whether the listener of SerialPort_Vision
                                 \* is in the port's critical section
  gIgnoreMouseInputFlag,
  wheelSpeed, outData,           \* chassis and gimbal
  wheelTarget, torque, fire,     \* the targets of the joints and of FireCmd
  mode,                          \* Task_Infantry: its static mode,
  ipc, iat,                      \*   where it is, and at which wheel or axis
  speed, online, ignored,        \*   speed_raw, pcStatus and the flag as read
  tpc, tat                       \* Task_Transmit: the same

inputVars == <<pcStatus, ctrlMode, fireCmd, portBusy>>
outVars == <<wheelSpeed, outData>>
targetVars == <<wheelTarget, torque>>
infantryVars == <<mode, ipc, iat, speed, online, ignored>>
transmitVars == <<tpc, tat>>
vars == <<inputVars, gIgnoreMouseInputFlag, outVars, targetVars, fire,
          infantryVars, transmitVars>>

-------------------------------------------------------------------------------
(* Static storage, and both tasks at the head of their loops.              *)
Init ==
  /\ pcStatus = FALSE
  /\ ctrlMode = "NORMAL"
  /\ fireCmd = FALSE
  /\ portBusy = FALSE
  /\ gIgnoreMouseInputFlag = FALSE
  /\ wheelSpeed = [w \in Wheels |-> "zero"]
  /\ outData = [a \in Axes |-> "zero"]
  /\ wheelTarget = [w \in Wheels |-> "zero"]
  /\ torque = [a \in Axes |-> "zero"]
  /\ fire = FALSE
  /\ mode = "NORMAL" /\ ipc = "delay" /\ iat = 0
  /\ speed = "zero" /\ online = FALSE /\ ignored = FALSE
  /\ tpc = "delay" /\ tat = 0

(* Recv_Vision: dataCapture sets the status, then copies the pack field by *)
(* field; the first values a step sees may be those of static storage.     *)
PcOnline ==
  /\ pcStatus' = TRUE
  /\ UNCHANGED <<ctrlMode, fireCmd>>

PcField ==
  /\ pcStatus
  /\ \/ ctrlMode' \in CtrlModes /\ fireCmd' = fireCmd
     \/ fireCmd' \in Triggers /\ ctrlMode' = ctrlMode
  /\ UNCHANGED pcStatus

RecvVision ==
  /\ PcOnline \/ PcField
  /\ UNCHANGED <<portBusy, gIgnoreMouseInputFlag, outVars, targetVars, fire,
                 infantryVars, transmitVars>>

(* The listener enters the critical section for a byte, or leaves it.      *)
ListenThread ==
  /\ portBusy' = ~portBusy
  /\ UNCHANGED <<pcStatus, ctrlMode, fireCmd, gIgnoreMouseInputFlag, outVars,
                 targetVars, fire, infantryVars, transmitVars>>

(***************************************************************************)
(* Task_Infantry.  What it has read and will not use again (speed, online, *)
(* ignored) is set back, which only keeps the states few.                  *)
(***************************************************************************)
Infantry(from, to) == ipc = from /\ ipc' = to

(* The part of ChassisCtrl_Classdef::singleStepControl before the wheels:  *)
(* a number that is not one ends up as some huge int.                      *)
ChassisSpeeds(m) ==
  IF m \in {"NORMAL", "ASSIST", "TUNE_PID"} THEN Outputs
  ELSE IF m = "ROTATE" THEN {"num"}
  ELSE {"zero"}

(* The chassis steps with the mode of the step before.                     *)
Chassis ==
  /\ Infantry("delay", "wheels")
  /\ iat' = 0
  /\ speed' \in ChassisSpeeds(mode)
  /\ UNCHANGED <<inputVars, gIgnoreMouseInputFlag, outVars, targetVars, fire,
                 mode, online, ignored, transmitVars>>

(* Mutant of LastWheel: one wheel too many.                                *)
LastWheelLate(w) == w = MaxWheel + 1

LastWheel(w) == w = MaxWheel

(* Sums and differences of the three components: some may cancel.          *)
WheelOf(s) == IF s = "num" THEN {"zero", "num"} ELSE {s}

ChassisWheel ==
  /\ Infantry("wheels", IF LastWheel(iat) THEN "status" ELSE "wheels")
  /\ iat' = IF LastWheel(iat) THEN 0 ELSE iat + 1
  /\ \E v \in WheelOf(speed) : wheelSpeed' = [wheelSpeed EXCEPT ![iat] = v]
  /\ speed' = IF LastWheel(iat) THEN "zero" ELSE speed
  /\ UNCHANGED <<inputVars, gIgnoreMouseInputFlag, outData, targetVars, fire,
                 mode, online, ignored, transmitVars>>

ReadStatus ==
  /\ online' = pcStatus
  /\ \/ ~pcStatus /\ Infantry("status", "gimbal") /\ mode' = "NORMAL"
     \/ pcStatus /\ Infantry("status", "mode") /\ mode' = mode
  /\ UNCHANGED <<inputVars, gIgnoreMouseInputFlag, outVars, targetVars, fire,
                 iat, speed, ignored, transmitVars>>

ReadMode ==
  /\ Infantry("mode", "gimbal")
  /\ mode' = ctrlMode
  /\ UNCHANGED <<inputVars, gIgnoreMouseInputFlag, outVars, targetVars, fire,
                 iat, speed, online, ignored, transmitVars>>

(* Mutant of GimbalOut: RUNAWAY only stops the axis written first.         *)
GimbalOutFirst(m, i) == IF m = "RUNAWAY" /\ i = 0 THEN {"zero"} ELSE Outputs

GimbalOut(m, i) == IF m = "RUNAWAY" THEN {"zero"} ELSE Outputs

(* yawOutData = pitchOutData = 0 writes pitch first; a step, yaw first.    *)
AxisAt(m, i) == IF (m = "RUNAWAY") = (i = 0) THEN "PITCH" ELSE "YAW"

(* GimbalCtrl_Classdef::singleStepControl, its two writes.                 *)
Gimbal ==
  /\ Infantry("gimbal", IF iat = 1 THEN "fire" ELSE "gimbal")
  /\ iat' = 1 - iat
  /\ \E v \in GimbalOut(mode, iat) :
       outData' = [outData EXCEPT ![AxisAt(mode, iat)] = v]
  /\ UNCHANGED <<inputVars, gIgnoreMouseInputFlag, wheelSpeed, targetVars,
                 fire, mode, speed, online, ignored, transmitVars>>

FireOnline ==
  /\ online
  /\ Infantry("fire", "send")
  /\ fire' = fireCmd
  /\ online' = FALSE
  /\ UNCHANGED <<inputVars, gIgnoreMouseInputFlag, outVars, targetVars,
                 mode, iat, speed, ignored, transmitVars>>

ReadFlag ==
  /\ ~online
  /\ Infantry("fire", "mouse")
  /\ ignored' = gIgnoreMouseInputFlag
  /\ UNCHANGED <<inputVars, gIgnoreMouseInputFlag, outVars, targetVars, fire,
                 mode, iat, speed, online, transmitVars>>

(* Mutant of FireMouse: with the mouse ignored the trigger keeps its value.*)
FireKept == IF ignored THEN {fire} ELSE Triggers

FireMouse == IF ignored THEN {FALSE} ELSE Triggers

FireOffline ==
  /\ Infantry("mouse", "send")
  /\ fire' \in FireMouse
  /\ ignored' = FALSE
  /\ UNCHANGED <<inputVars, gIgnoreMouseInputFlag, outVars, targetVars,
                 mode, iat, speed, online, transmitVars>>

Control ==
  \/ Chassis \/ ChassisWheel \/ ReadStatus \/ ReadMode \/ Gimbal
  \/ FireOnline \/ ReadFlag \/ FireOffline

(* BuffSend: the task gets into the critical section, and writes.          *)
Send ==
  /\ ~portBusy
  /\ Infantry("send", "delay")
  /\ UNCHANGED <<inputVars, gIgnoreMouseInputFlag, outVars, targetVars, fire,
                 mode, iat, speed, online, ignored, transmitVars>>

TaskInfantry == Control \/ Send

(***************************************************************************)
(* Task_Transmit.                                                          *)
(***************************************************************************)
Transmit(from, to) == tpc = from /\ tpc' = to

CopyWheel ==
  /\ Transmit("delay", IF LastWheel(tat) THEN "PITCH" ELSE "delay")
  /\ tat' = IF LastWheel(tat) THEN 0 ELSE tat + 1
  /\ wheelTarget' = [wheelTarget EXCEPT ![tat] = wheelSpeed[tat]]
  /\ UNCHANGED <<inputVars, gIgnoreMouseInputFlag, outVars, torque, fire,
                 infantryVars>>

After(a) == IF a = "PITCH" THEN "YAW" ELSE "key"

(* Mutant of Passes: if (out), so that zero is taken for nothing to send.  *)
PassesNonZero(v) == v # "zero"

Passes(v) == v # "nan"

(* if (fabs(out) <= 2): the first of three reads.                          *)
CheckAxis(a) ==
  /\ Transmit(a, IF Passes(outData[a]) THEN "torque" ELSE After(a))
  /\ tat' = IF a = "PITCH" THEN 0 ELSE 1
  /\ UNCHANGED <<inputVars, gIgnoreMouseInputFlag, outVars, targetVars, fire,
                 infantryVars>>

(* The third; the second only chooses the sign of a velocity.              *)
CopyTorque ==
  LET a == IF tat = 0 THEN "PITCH" ELSE "YAW" IN
  /\ Transmit("torque", After(a))
  /\ torque' = [torque EXCEPT ![a] = outData[a]]
  /\ UNCHANGED <<inputVars, gIgnoreMouseInputFlag, outVars, wheelTarget, fire,
                 infantryVars, tat>>

(* The key P: toggle, and sleep for a second.                              *)
KeyP ==
  /\ Transmit("key", "sleep")
  /\ gIgnoreMouseInputFlag' = ~gIgnoreMouseInputFlag
  /\ tat' = 0
  /\ UNCHANGED <<inputVars, outVars, targetVars, fire, infantryVars>>

EndTransmit ==
  /\ Transmit("key", "delay") \/ Transmit("sleep", "delay")
  /\ tat' = 0
  /\ UNCHANGED <<inputVars, gIgnoreMouseInputFlag, outVars, targetVars, fire,
                 infantryVars>>

TaskTransmit ==
  \/ CopyWheel \/ (\E a \in Axes : CheckAxis(a)) \/ CopyTorque
  \/ KeyP \/ EndTransmit

Next == RecvVision \/ ListenThread \/ TaskInfantry \/ TaskTransmit

Spec == Init /\ [][Next]_vars

(* Tasks of one priority share the processor tick by tick, and the write   *)
(* gets into a critical section that is free again and again.  Nothing     *)
(* makes the listener leave it: it may wait there for a byte for ever.     *)
Fairness == WF_vars(Control) /\ SF_vars(Send) /\ WF_vars(TaskTransmit)

-------------------------------------------------------------------------------
(* Types. *)
TypeOK ==
  /\ pcStatus \in BOOLEAN
  /\ fireCmd \in BOOLEAN
  /\ portBusy \in BOOLEAN
  /\ gIgnoreMouseInputFlag \in BOOLEAN
  /\ fire \in BOOLEAN
  /\ online \in BOOLEAN
  /\ ignored \in BOOLEAN
  /\ ctrlMode \in CtrlModes \cup {"NORMAL"}
  /\ mode \in Modes
  /\ wheelSpeed \in [Wheels -> {"zero", "num", "nan"}]
  /\ wheelTarget \in [Wheels -> {"zero", "num", "nan"}]
  /\ outData \in [Axes -> Outputs]
  /\ torque \in [Axes -> Outputs]
  /\ speed \in {"zero", "num", "nan"}
  /\ ipc \in {"delay", "wheels", "status", "mode", "gimbal", "fire", "mouse",
             "send"}
  /\ tpc \in {"delay", "PITCH", "YAW", "torque", "key", "sleep"}
  /\ iat \in Wheels \cup {0, 1}
  /\ tat \in Wheels \cup {0, 1}

(* The control task waits for the listener, which never gets its byte.     *)
HangsInSend == <>[](ipc = "send" /\ portBusy)

(* Once RUNAWAY is, for good, the last mode the PC has sent, everything    *)
(* the simulator is told to move comes to rest and stays there, whatever a *)
(* PID has put out before, and however often the key P stalls              *)
(* Task_Transmit, unless the control task hangs in its write to the PC.    *)
RunawayStops ==
  <>[](pcStatus /\ ctrlMode = "RUNAWAY") =>
    \/ <>[](/\ \A w \in Wheels : wheelTarget[w] = "zero"
            /\ \A a \in Axes : torque[a] = "zero")
    \/ HangsInSend

(* Without a vision PC the key P ends the firing for good, unless the      *)
(* control task hangs.                                                     *)
FireStopsAfterP ==
  <>[](~pcStatus /\ gIgnoreMouseInputFlag) => <>[](~fire) \/ HangsInSend
===============================================================================
