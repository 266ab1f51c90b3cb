-------------------------------- MODULE Startup --------------------------------
(***************************************************************************)
(* What main() does with the serial ports and the simulator before the     *)
(* scheduler runs (System_Tasks_Init, Usr/System_Config.cpp): the owner of *)
(* ListenThreads initialises both ports, opens both listeners, connects to *)
(* the simulator, adds the objects, and either creates the tasks or calls  *)
(* exit(0), which destroys the ports in the reverse order, while their     *)
(* listeners may still be there.  No result on the way is looked at but the   *)
(* handles of the objects, at the very end.                                *)
(***************************************************************************)
EXTENDS ListenThreads

CONSTANTS
  SerialPort,         \* the port of the upper monitor
  SerialPort_Vision,  \* the port of the vision PC
  Objects,            \* the joints, the body and the collisions: asked for
  Signals,            \* the signals: made by the client itself
  Unchecked           \* the handles that the memory check leaves out

ASSUME StartupAssumption ==
  /\ SerialPort # SerialPort_Vision
  /\ Ports = {SerialPort, SerialPort_Vision}
  /\ Objects # {}
  /\ Unchecked \subseteq Signals
  /\ Signals \cap Objects = {}

VARIABLES
  stage,      \* how far System_Tasks_Init is
  clientID,   \* -1 without a connection
  missing     \* the objects whose handle is nullptr

startVars == <<stage, clientID, missing>>
allVars == <<vars, startVars>>

InOrder == <<SerialPort, SerialPort_Vision>>
Connecting == 5
Adding == 6
Checking == 7
Exiting == 8        \* and 9: the two destructors
Exited == 10
Running == 11

-------------------------------------------------------------------------------
StartInit ==
  /\ Init
  /\ stage = 1
  /\ clientID = -1
  /\ missing = {}

Then(s) == stage' = s

(* Service_SerialPortCom_Init.                                             *)
InitPorts ==
  /\ stage \in 1 .. 2
  /\ OpenPort("configure", InOrder[stage])
  /\ Then(stage + 1)
  /\ UNCHANGED <<clientID, missing>>

OpenListeners ==
  /\ stage \in 3 .. 4
  /\ OpenListenThread(InOrder[stage - 2])
  /\ Then(stage + 1)
  /\ UNCHANGED <<clientID, missing>>

(* Service_CoppeliaSim_Init: the result of Start() is ignored.             *)
Connect ==
  /\ stage = Connecting
  /\ opc = "idle"
  /\ clientID' \in {-1, 0}
  /\ Then(Adding)
  /\ UNCHANGED <<vars, missing>>

(* Mutant of MayMiss: signals, too, are asked for.                         *)
MissSignals == Objects \cup Signals

(* What Add_Object may fail to find; a signal needs no answer.             *)
MayMiss == Objects

(* Add_Object for every handle: without a connection none is found, with   *)
(* one any of them may be absent from the scene, or the server be gone.    *)
AddObjects ==
  /\ stage = Adding
  /\ missing' \in (IF clientID = -1 THEN {MayMiss} ELSE SUBSET MayMiss)
  /\ Then(Checking)
  /\ UNCHANGED <<vars, clientID>>

(* The "terrible memory check".  It names imuPitchVel twice and            *)
(* imuPitchAngle, a signal, never.                                         *)
Suspicious == missing \ Unchecked # {}

CheckObjects ==
  /\ stage = Checking
  /\ Then(IF Suspicious THEN Exiting ELSE Running)
  /\ UNCHANGED <<vars, clientID, missing>>

(* exit(0): the destructors of the static objects, last one first.         *)
Exit ==
  /\ stage \in Exiting .. Exiting + 1
  /\ Destroy(InOrder[Exiting + 2 - stage])
  /\ Then(stage + 1)
  /\ UNCHANGED <<clientID, missing>>

Main ==
  \/ InitPorts \/ OpenListeners \/ Connect \/ AddObjects \/ CheckObjects \/ Exit
  \/ OwnerGoesOn /\ UNCHANGED startVars

(* The process is over when the last destructor has returned.              *)
Over == stage = Exited /\ opc = "idle"

StartNext == Main \/ (~Over /\ Others /\ UNCHANGED startVars)

StartSpec == StartInit /\ [][StartNext]_allVars

StartFairSpec ==
  /\ StartSpec
  /\ WF_allVars(~ClosePending /\ Main)
  /\ \A t \in Threads : WF_allVars(Runs(t) /\ UNCHANGED startVars)
  /\ \A t \in Threads :
       SF_allVars(cs[server[t]] = Free /\ Enter(t) /\ UNCHANGED startVars)

-------------------------------------------------------------------------------
(* Types. *)
StartTypeOK ==
  /\ TypeOK
  /\ stage \in 1 .. Running
  /\ clientID \in {-1, 0}
  /\ missing \subseteq Objects \cup Signals

(* Although nobody looks at the result of Start(), and the check leaves    *)
(* imuPitchAngle out, tasks only ever run with a connection and with every *)
(* handle they dereference.                                                *)
TasksHaveScene == stage = Running => clientID # -1 /\ missing = {}

(* As long as reads succeed, no listener is ever in ReadFile without a     *)
(* byte to return with, wherever main() is: so neither CloseHandle nor a   *)
(* caller of the critical section waits for the PC to send.                *)
ReadersHaveBytes ==
  ~ReadFails => \A t \in Threads : lpc[t] = "read" => waiting[server[t]] > 0

(* Start-up then comes to an end, in the tasks or in exit(0), whichever    *)
(* port or connection fails to open, wherever the listeners are, and       *)
(* although exit(0) closes handles that are being read.                    *)
StartupDecides == <>(stage = Running \/ Over)
===============================================================================
