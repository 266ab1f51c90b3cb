---------------------------- MODULE ActuationProofs ----------------------------
(***************************************************************************)
(* Theorems about Actuation: that RUNAWAY stops every wheel and both axes  *)
(* within two control steps and a round of Task_Transmit, for any number   *)
(* of wheels and whatever the PIDs put out.                                *)
(***************************************************************************)
EXTENDS RunawayStop, TLAPS

Still(f, S) == \A x \in S : f[x] = "zero"

(* Where the loops of the two tasks may be.                                *)
Places ==
  /\ ipc = "wheels" => iat \in Wheels
  /\ ipc = "gimbal" => iat \in {0, 1}
  /\ ipc \notin {"wheels", "gimbal"} => iat = 0
  /\ tpc = "delay" => tat \in Wheels
  /\ tpc = "torque" => tat \in {0, 1}

(* What RUNAWAY has stopped, from the step that reads it on.               *)
GimbalStill ==
  /\ runs > 0 => mode = "RUNAWAY" /\ Still(outData, Axes)
  /\ mode = "RUNAWAY" =>
       /\ runs > 0 \/ ipc \in {"gimbal", "fire", "mouse", "send"}
       /\ ipc = "gimbal" /\ iat = 1 => outData["PITCH"] = "zero"
       /\ ipc \in {"fire", "mouse", "send"} => Still(outData, Axes)

ChassisStill ==
  /\ runs > 0 /\ ipc = "wheels" =>
       /\ speed = "zero"
       /\ \A w \in Wheels : w < iat => wheelSpeed[w] = "zero"
  /\ runs > 0 /\ ipc \notin {"delay", "wheels"} => Still(wheelSpeed, Wheels)
  /\ runs = 2 => Still(wheelSpeed, Wheels)

(* What a round that began afterwards has copied.                          *)
Copied ==
  /\ begun \/ finished => runs = 2
  /\ begun /\ tpc = "delay" => \A w \in Wheels : w < tat => wheelTarget[w] = "zero"
  /\ begun /\ tpc # "delay" => Still(wheelTarget, Wheels)
  /\ begun /\ (tpc \in {"YAW", "key", "sleep"} \/ (tpc = "torque" /\ tat = 1))
       => torque["PITCH"] = "zero"
  /\ begun /\ tpc \in {"key", "sleep"} => torque["YAW"] = "zero"

StopInv ==
  /\ RecordTypeOK
  /\ Places
  /\ GimbalStill
  /\ ChassisStill
  /\ Copied
  /\ StopsInTime
-------------------------------------------------------------------------------
(* The parts of the invariant, one action at a time.                       *)
LEMMA TypeStep ==
  ASSUME StopInv, Next /\ Record
  PROVE  RecordTypeOK'
<1> USE ActuationAssumption
   DEF ActuationAssumption, StopInv, RecordTypeOK, TypeOK, Wheels, Axes, Modes,
       Places, inputVars, outVars, targetVars, infantryVars, transmitVars, Record
<1>1. CASE RecvVision
  <2>1. fireCmd' \in BOOLEAN
    BY <1>1, Zenon DEF RecvVision, PcOnline, PcField
  <2>2. pcStatus' \in BOOLEAN
    BY <1>1, Zenon DEF RecvVision, PcOnline, PcField
  <2>3. QED
    BY <1>1, <2>1, <2>2 DEF RecvVision, PcOnline, PcField
<1>2. CASE Chassis
  BY <1>2 DEF Chassis, Infantry, ChassisSpeeds
<1>3. CASE ChassisWheel
  BY <1>3 DEF ChassisWheel, Infantry, LastWheel, WheelOf
<1>4. CASE ReadStatus
  BY <1>4 DEF ReadStatus, Infantry
<1>5. CASE ReadMode
  BY <1>5 DEF ReadMode, Infantry
<1>6. CASE Gimbal
  BY <1>6 DEF Gimbal, Infantry, GimbalOut, AxisAt
<1>7. CASE FireOnline
  <2>1. fire' \in BOOLEAN /\ online' \in BOOLEAN
    BY <1>7, Zenon DEF FireOnline
  <2>2. QED
    BY <1>7, <2>1 DEF FireOnline, Infantry
<1>8. CASE ReadFlag
  BY <1>8 DEF ReadFlag, Infantry
<1>9. CASE FireOffline
  <2>1. fire' \in BOOLEAN /\ ignored' \in BOOLEAN
    BY <1>9, Zenon DEF FireOffline, FireMouse
  <2>2. QED
    BY <1>9, <2>1 DEF FireOffline, Infantry
<1>10. CASE CopyWheel
  BY <1>10 DEF CopyWheel, Transmit, LastWheel
<1>11. ASSUME NEW a \in Axes, CheckAxis(a) PROVE RecordTypeOK'
  BY <1>11 DEF CheckAxis, Transmit, Passes, After
<1>12. CASE CopyTorque
  BY <1>12 DEF CopyTorque, Transmit, After
<1>13. CASE KeyP
  BY <1>13 DEF KeyP, Transmit
<1>14. CASE EndTransmit
  BY <1>14 DEF EndTransmit, Transmit
<1>15. CASE ListenThread
  BY <1>15 DEF ListenThread
<1>16. CASE Send
  BY <1>16 DEF Send, Infantry
<1>17. QED
  BY <1>1, <1>2, <1>3, <1>4, <1>5, <1>6, <1>7, <1>8, <1>9, <1>10, <1>11, <1>12,
     <1>13, <1>14, <1>15, <1>16 DEF Next, TaskInfantry, Control, TaskTransmit

LEMMA PlacesStep ==
  ASSUME StopInv, Next /\ Record
  PROVE  Places'
<1> USE ActuationAssumption
   DEF ActuationAssumption, StopInv, RecordTypeOK, TypeOK, Wheels, Axes, Places,
       inputVars, outVars, targetVars, infantryVars, transmitVars, Record
<1>1. CASE RecvVision
  BY <1>1 DEF RecvVision, PcOnline, PcField
<1>2. CASE Chassis
  BY <1>2 DEF Chassis, Infantry, ChassisSpeeds
<1>3. CASE ChassisWheel
  BY <1>3 DEF ChassisWheel, Infantry, LastWheel, WheelOf
<1>4. CASE ReadStatus
  BY <1>4 DEF ReadStatus, Infantry
<1>5. CASE ReadMode
  BY <1>5 DEF ReadMode, Infantry
<1>6. CASE Gimbal
  BY <1>6 DEF Gimbal, Infantry, GimbalOut, AxisAt
<1>7. CASE FireOnline
  BY <1>7 DEF FireOnline, Infantry
<1>8. CASE ReadFlag
  BY <1>8 DEF ReadFlag, Infantry
<1>9. CASE FireOffline
  BY <1>9 DEF FireOffline, Infantry, FireMouse
<1>10. CASE CopyWheel
  BY <1>10 DEF CopyWheel, Transmit, LastWheel
<1>11. ASSUME NEW a \in Axes, CheckAxis(a) PROVE Places'
  BY <1>11 DEF CheckAxis, Transmit, Passes, After
<1>12. CASE CopyTorque
  BY <1>12 DEF CopyTorque, Transmit, After
<1>13. CASE KeyP
  BY <1>13 DEF KeyP, Transmit
<1>14. CASE EndTransmit
  BY <1>14 DEF EndTransmit, Transmit
<1>15. CASE ListenThread
  BY <1>15 DEF ListenThread
<1>16. CASE Send
  BY <1>16 DEF Send, Infantry
<1>17. QED
  BY <1>1, <1>2, <1>3, <1>4, <1>5, <1>6, <1>7, <1>8, <1>9, <1>10, <1>11, <1>12,
     <1>13, <1>14, <1>15, <1>16 DEF Next, TaskInfantry, Control, TaskTransmit

LEMMA GimbalStep ==
  ASSUME StopInv, Next /\ Record
  PROVE  GimbalStill'
<1> USE ActuationAssumption
   DEF ActuationAssumption, StopInv, RecordTypeOK, TypeOK, Wheels, Axes, Places,
       GimbalStill, Still, StepEnds, RoundEnds,
       inputVars, outVars, targetVars, infantryVars, transmitVars, Record
<1>1. CASE RecvVision
  BY <1>1 DEF RecvVision, PcOnline, PcField
<1>2. CASE Chassis
  BY <1>2 DEF Chassis, Infantry, ChassisSpeeds
<1>3. CASE ChassisWheel
  BY <1>3 DEF ChassisWheel, Infantry, LastWheel, WheelOf
<1>4. CASE ReadStatus
  BY <1>4 DEF ReadStatus, Infantry
<1>5. CASE ReadMode
  BY <1>5 DEF ReadMode, Infantry
<1>6. CASE Gimbal
  BY <1>6 DEF Gimbal, Infantry, GimbalOut, AxisAt
<1>7. CASE FireOnline
  BY <1>7 DEF FireOnline, Infantry
<1>8. CASE ReadFlag
  BY <1>8 DEF ReadFlag, Infantry
<1>9. CASE FireOffline
  BY <1>9 DEF FireOffline, Infantry, FireMouse
<1>10. CASE CopyWheel
  BY <1>10 DEF CopyWheel, Transmit, LastWheel
<1>11. ASSUME NEW a \in Axes, CheckAxis(a) PROVE GimbalStill'
  BY <1>11 DEF CheckAxis, Transmit, Passes, After
<1>12. CASE CopyTorque
  BY <1>12 DEF CopyTorque, Transmit, After
<1>13. CASE KeyP
  BY <1>13 DEF KeyP, Transmit
<1>14. CASE EndTransmit
  BY <1>14 DEF EndTransmit, Transmit
<1>15. CASE ListenThread
  BY <1>15 DEF ListenThread
<1>16. CASE Send
  BY <1>16 DEF Send, Infantry
<1>17. QED
  BY <1>1, <1>2, <1>3, <1>4, <1>5, <1>6, <1>7, <1>8, <1>9, <1>10, <1>11, <1>12,
     <1>13, <1>14, <1>15, <1>16 DEF Next, TaskInfantry, Control, TaskTransmit

LEMMA ChassisStep ==
  ASSUME StopInv, Next /\ Record
  PROVE  ChassisStill'
<1> USE ActuationAssumption
   DEF ActuationAssumption, StopInv, RecordTypeOK, TypeOK, Wheels, Axes, Places,
       GimbalStill, ChassisStill, Still, StepEnds, RoundEnds,
       inputVars, outVars, targetVars, infantryVars, transmitVars, Record
<1>1. CASE RecvVision
  BY <1>1 DEF RecvVision, PcOnline, PcField
<1>2. CASE Chassis
  BY <1>2 DEF Chassis, Infantry, ChassisSpeeds
<1>3. CASE ChassisWheel
  BY <1>3 DEF ChassisWheel, Infantry, LastWheel, WheelOf
<1>4. CASE ReadStatus
  BY <1>4 DEF ReadStatus, Infantry
<1>5. CASE ReadMode
  BY <1>5 DEF ReadMode, Infantry
<1>6. CASE Gimbal
  BY <1>6 DEF Gimbal, Infantry, GimbalOut, AxisAt
<1>7. CASE FireOnline
  BY <1>7 DEF FireOnline, Infantry
<1>8. CASE ReadFlag
  BY <1>8 DEF ReadFlag, Infantry
<1>9. CASE FireOffline
  BY <1>9 DEF FireOffline, Infantry, FireMouse
<1>10. CASE CopyWheel
  BY <1>10 DEF CopyWheel, Transmit, LastWheel
<1>11. ASSUME NEW a \in Axes, CheckAxis(a) PROVE ChassisStill'
  BY <1>11 DEF CheckAxis, Transmit, Passes, After
<1>12. CASE CopyTorque
  BY <1>12 DEF CopyTorque, Transmit, After
<1>13. CASE KeyP
  BY <1>13 DEF KeyP, Transmit
<1>14. CASE EndTransmit
  BY <1>14 DEF EndTransmit, Transmit
<1>15. CASE ListenThread
  BY <1>15 DEF ListenThread
<1>16. CASE Send
  BY <1>16 DEF Send, Infantry
<1>17. QED
  BY <1>1, <1>2, <1>3, <1>4, <1>5, <1>6, <1>7, <1>8, <1>9, <1>10, <1>11, <1>12,
     <1>13, <1>14, <1>15, <1>16 DEF Next, TaskInfantry, Control, TaskTransmit

LEMMA CopiedStep ==
  ASSUME StopInv, Next /\ Record
  PROVE  Copied'
<1> USE ActuationAssumption
   DEF ActuationAssumption, StopInv, RecordTypeOK, TypeOK, Wheels, Axes, Places,
       GimbalStill, ChassisStill, Copied, Still, StepEnds, RoundEnds,
       inputVars, outVars, targetVars, infantryVars, transmitVars, Record
<1>1. CASE RecvVision
  BY <1>1 DEF RecvVision, PcOnline, PcField
<1>2. CASE Chassis
  BY <1>2 DEF Chassis, Infantry, ChassisSpeeds
<1>3. CASE ChassisWheel
  BY <1>3 DEF ChassisWheel, Infantry, LastWheel, WheelOf
<1>4. CASE ReadStatus
  BY <1>4 DEF ReadStatus, Infantry
<1>5. CASE ReadMode
  BY <1>5 DEF ReadMode, Infantry
<1>6. CASE Gimbal
  BY <1>6 DEF Gimbal, Infantry, GimbalOut, AxisAt
<1>7. CASE FireOnline
  BY <1>7 DEF FireOnline, Infantry
<1>8. CASE ReadFlag
  BY <1>8 DEF ReadFlag, Infantry
<1>9. CASE FireOffline
  BY <1>9 DEF FireOffline, Infantry, FireMouse
<1>10. CASE CopyWheel
  BY <1>10 DEF CopyWheel, Transmit, LastWheel
<1>11. ASSUME NEW a \in Axes, CheckAxis(a) PROVE Copied'
  BY <1>11 DEF CheckAxis, Transmit, Passes, After
<1>12. CASE CopyTorque
  BY <1>12 DEF CopyTorque, Transmit, After
<1>13. CASE KeyP
  BY <1>13 DEF KeyP, Transmit
<1>14. CASE EndTransmit
  BY <1>14 DEF EndTransmit, Transmit
<1>15. CASE ListenThread
  BY <1>15 DEF ListenThread
<1>16. CASE Send
  BY <1>16 DEF Send, Infantry
<1>17. QED
  BY <1>1, <1>2, <1>3, <1>4, <1>5, <1>6, <1>7, <1>8, <1>9, <1>10, <1>11, <1>12,
     <1>13, <1>14, <1>15, <1>16 DEF Next, TaskInfantry, Control, TaskTransmit

LEMMA StopStep ==
  ASSUME StopInv, Next /\ Record
  PROVE  StopsInTime'
<1> USE ActuationAssumption
   DEF ActuationAssumption, StopInv, RecordTypeOK, TypeOK, Wheels, Axes, Places,
       GimbalStill, ChassisStill, Copied, StopsInTime, Still, StepEnds, RoundEnds,
       inputVars, outVars, targetVars, infantryVars, transmitVars, Record
<1>1. CASE RecvVision
  BY <1>1 DEF RecvVision, PcOnline, PcField
<1>2. CASE Chassis
  BY <1>2 DEF Chassis, Infantry, ChassisSpeeds
<1>3. CASE ChassisWheel
  BY <1>3 DEF ChassisWheel, Infantry, LastWheel, WheelOf
<1>4. CASE ReadStatus
  BY <1>4 DEF ReadStatus, Infantry
<1>5. CASE ReadMode
  BY <1>5 DEF ReadMode, Infantry
<1>6. CASE Gimbal
  BY <1>6 DEF Gimbal, Infantry, GimbalOut, AxisAt
<1>7. CASE FireOnline
  BY <1>7 DEF FireOnline, Infantry
<1>8. CASE ReadFlag
  BY <1>8 DEF ReadFlag, Infantry
<1>9. CASE FireOffline
  BY <1>9 DEF FireOffline, Infantry, FireMouse
<1>10. CASE CopyWheel
  BY <1>10 DEF CopyWheel, Transmit, LastWheel
<1>11. ASSUME NEW a \in Axes, CheckAxis(a) PROVE StopsInTime'
  BY <1>11 DEF CheckAxis, Transmit, Passes, After
<1>12. CASE CopyTorque
  BY <1>12 DEF CopyTorque, Transmit, After
<1>13. CASE KeyP
  BY <1>13 DEF KeyP, Transmit
<1>14. CASE EndTransmit
  BY <1>14 DEF EndTransmit, Transmit
<1>15. CASE ListenThread
  BY <1>15 DEF ListenThread
<1>16. CASE Send
  BY <1>16 DEF Send, Infantry
<1>17. QED
  BY <1>1, <1>2, <1>3, <1>4, <1>5, <1>6, <1>7, <1>8, <1>9, <1>10, <1>11, <1>12,
     <1>13, <1>14, <1>15, <1>16 DEF Next, TaskInfantry, Control, TaskTransmit

LEMMA StopInit == RecordInit => StopInv
<1> SUFFICES ASSUME RecordInit PROVE StopInv
  OBVIOUS
<1> USE ActuationAssumption DEF ActuationAssumption, RecordInit, Init
<1>1. RecordTypeOK /\ Places
  <2>1. TypeOK
    BY DEF TypeOK, Wheels, Axes, Modes
  <2>2. begun \in BOOLEAN /\ finished \in BOOLEAN
    BY Zenon
  <2>3. QED
    BY <2>1, <2>2 DEF RecordTypeOK, Places, Wheels
<1>2. GimbalStill /\ ChassisStill /\ Copied /\ StopsInTime
  BY DEF GimbalStill, ChassisStill, Copied, StopsInTime, Still
<1>3. QED
  BY <1>1, <1>2 DEF StopInv

LEMMA StopStutter ==
  ASSUME StopInv, UNCHANGED <<vars, recordVars>>
  PROVE  StopInv'
BY DEF StopInv, RecordTypeOK, TypeOK, Places, GimbalStill, ChassisStill, Copied,
   StopsInTime, Still, vars, recordVars, inputVars, outVars, targetVars,
   infantryVars, transmitVars

LEMMA StopInductive == RecordSpec => []StopInv
<1>1. ASSUME StopInv, [Next /\ Record]_<<vars, recordVars>>
      PROVE  StopInv'
  <2>1. CASE Next /\ Record
    BY <1>1, <2>1, TypeStep, PlacesStep, GimbalStep, ChassisStep, CopiedStep,
       StopStep DEF StopInv
  <2>2. CASE UNCHANGED <<vars, recordVars>>
    BY <1>1, <2>2, StopStutter
  <2>3. QED
    BY <1>1, <2>1, <2>2
<1>2. QED
  BY <1>1, StopInit, PTL DEF RecordSpec

(* Types: the tasks only ever use wheels and axes that exist.              *)
THEOREM ActuationTypeOK == RecordSpec => []RecordTypeOK
<1>1. StopInv => RecordTypeOK
  BY DEF StopInv
<1>2. QED
  BY <1>1, StopInductive, PTL

(* Two control steps in RUNAWAY and one whole round of Task_Transmit after *)
(* them stop every wheel and both axes of the gimbal.                      *)
THEOREM ActuationStopsInTime == RecordSpec => []StopsInTime
<1>1. StopInv => StopsInTime
  BY DEF StopInv
<1>2. QED
  BY <1>1, StopInductive, PTL
===============================================================================
