------------------------------ MODULE RunawayStop ------------------------------
(***************************************************************************)
(* How soon RUNAWAY stops the robot: Actuation with a record of what has   *)
(* happened since Task_Infantry took that mode.  The record changes        *)
(* nothing.  The gimbal stops in the control step that reads RUNAWAY; the  *)
(* chassis steps with the mode of the step before, so it stops in the next *)
(* one; and Task_Transmit, which may sleep for a second after the key P,   *)
(* needs one round that begins after that.                                 *)
(***************************************************************************)
EXTENDS Actuation

VARIABLES
  runs,      \* control steps that ended in RUNAWAY, in a row: 0 .. 2
  begun,     \* whether the round of Task_Transmit began with two of them
  finished   \* whether one that did has ended

recordVars == <<runs, begun, finished>>

RecordInit == Init /\ runs = 0 /\ begun = FALSE /\ finished = FALSE

StepEnds == ipc # "delay" /\ ipc' = "delay"
RoundEnds == tpc # "delay" /\ tpc' = "delay"

Record ==
  /\ runs' = IF mode' # "RUNAWAY" THEN 0
             ELSE IF StepEnds /\ runs < 2 THEN runs + 1
             ELSE runs
  /\ begun' = (runs' = 2 /\ (begun \/ RoundEnds))
  /\ finished' = (runs' = 2 /\ (finished \/ (begun /\ RoundEnds)))

RecordSpec == RecordInit /\ [][Next /\ Record]_<<vars, recordVars>>

RecordFairSpec == RecordSpec /\ Fairness

-------------------------------------------------------------------------------
RecordTypeOK ==
  /\ TypeOK
  /\ runs \in 0 .. 2
  /\ begun \in BOOLEAN
  /\ finished \in BOOLEAN

(* After two control steps in RUNAWAY and one whole round of Task_Transmit *)
(* the simulator is told to stop every wheel and both axes, and nothing a  *)
(* step or a round was in the middle of when the mode changed comes after. *)
StopsInTime ==
  finished => /\ \A w \in Wheels : wheelTarget[w] = "zero"
              /\ \A a \in Axes : torque[a] = "zero"
===============================================================================
