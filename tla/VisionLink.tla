------------------------------- MODULE VisionLink -------------------------------
(***************************************************************************)
(* The way of a vision command from the serial port to the gun: the        *)
(* listener thread calls VisionSerial_RxCpltCallback, which notifies       *)
(* Recv_Vision (Usr/User_Task.cpp) with the address of its buffer;         *)
(* Recv_Vision takes the notification and lets Vision_Classdef::           *)
(* dataCapture (Usr/Infantry/vision.cpp) copy the pack; Task_Infantry      *)
(* reads the copy, field by field, in every control step.                  *)
(*                                                                         *)
(* The listener is a thread of Windows, not one of the kernel's: it runs   *)
(* in parallel with the tasks, on any core, and                            *)
(* portSET_INTERRUPT_MASK_FROM_ISR() is empty in this port, so neither its *)
(* own "interrupt mask" nor a task's critical section keeps the other one  *)
(* out.  Every access of either side to the notification fields of the     *)
(* task is therefore a step of its own; so is every access to the shared   *)
(* pack, since the tasks are preempted at any point.                       *)
(*                                                                         *)
(* A buffer is known by its number, counted from 1 in the order of         *)
(* delivery, and a field of a pack by the number of the buffer it was      *)
(* copied from: 0 stands for the zeros of static storage, and as an        *)
(* address for NULL.  A chunk shorter than a pack changes nothing: the     *)
(* callback drops it.                                                      *)
(***************************************************************************)
EXTENDS Integers, Sequences

CONSTANT MaxPacks   \* bound: the number of chunks the listener delivers

ASSUME VisionLinkAssumption == MaxPacks \in Nat

VARIABLES
  handle,          \* VisionRecv_Handle # NULL: the task was created
  packs,           \* the chunks delivered so far, each in a new buffer
  sof,             \* those that begin with SOF, 0x33
  lpc,             \* where the listener is
  ulNotifiedValue, \* TCB of Recv_Vision: the notification value
  ucNotifyState,   \* TCB of Recv_Vision: the notification state
  rpc,             \* where Recv_Vision is
  old,             \* operand of its `ulNotifiedValue &= ...' in flight
  pc_pack,         \* its static pointer
  captured,        \* the last buffer it passed to dataCapture ...
  calls,           \* ... and how often it has called dataCapture
  pcStatus,        \* vision.pcStatus
  pcRxPack,        \* vision.pcRxPack: for each field, where it is from
  toCopy,          \* the fields dataCapture has still to copy
  ipc,             \* where Task_Infantry is
  aim,             \* vision.yawPID.Out and pitchPID.Out: where they are from
  applied          \* for each field, what the last control step made of it

listenerVars == <<packs, sof, lpc>>
notifyVars   == <<ulNotifiedValue, ucNotifyState>>
readerVars   == <<rpc, old, pc_pack, captured, calls, pcStatus, pcRxPack,
                  toCopy>>
infantryVars == <<ipc, aim, applied>>
vars == <<handle, packs, sof, lpc, ulNotifiedValue, ucNotifyState, rpc, old,
          pc_pack, captured, calls, pcStatus, pcRxPack, toCopy, ipc, aim,
          applied>>

NULL  == 0
Mouse == -1   \* the origin of a command that is not from a pack

(* The fields Task_Infantry uses, in the order in which it reads them:     *)
(* yawDelta and pitchDelta, then pcStatus, ctrlMode, fireCmd, bulletSpeed. *)
Aim    == 1
Mode   == 2
Fire   == 3
Speed  == 4
Fields == {Aim, Mode, Fire, Speed}

(* A NULL buffer was read: Windows ends the process.                       *)
Running == rpc # "fault"

-------------------------------------------------------------------------------
Init ==
  /\ handle = FALSE
  /\ packs = 0
  /\ sof = {}
  /\ lpc = "listen"
  /\ ulNotifiedValue = 0
  /\ ucNotifyState = "NOT_WAITING"
  /\ rpc = "created"
  /\ old = 0
  /\ pc_pack = NULL
  /\ captured = 0
  /\ calls = 0
  /\ pcStatus = "OFFLINE"
  /\ pcRxPack = [f \in Fields |-> 0]
  /\ toCopy = {}
  /\ ipc = "aim"
  /\ aim = 0
  /\ applied = [f \in Fields |-> Mouse]

(* User_Tasks_Init, after the listener was started.                        *)
CreateTask ==
  /\ ~handle
  /\ handle' = TRUE
  /\ rpc' = "enter"
  /\ UNCHANGED <<listenerVars, notifyVars, old, pc_pack, captured, calls, pcStatus,
                 pcRxPack, toCopy, infantryVars>>

-------------------------------------------------------------------------------
(* The listener thread.                                                    *)

(* A chunk of at least one pack was read: the callback.                    *)
Callback ==
  /\ Running
  /\ lpc = "listen"
  /\ packs < MaxPacks
  /\ packs' = packs + 1
  /\ sof' \in {sof, sof \cup {packs'}}
  /\ lpc' = IF handle THEN "mark" ELSE "listen"
  /\ UNCHANGED <<handle, notifyVars, readerVars, infantryVars>>

(* xTaskGenericNotifyFromISR: the state first ...                          *)
NotifyMark ==
  /\ Running
  /\ lpc = "mark"
  /\ ucNotifyState' = "RECEIVED"
  /\ lpc' = "store"
  /\ UNCHANGED <<handle, packs, sof, ulNotifiedValue, readerVars, infantryVars>>

(* ... then eSetValueWithOverwrite.  Had the state been WAITING the task   *)
(* would be put into the ready list, where it is already: it never blocks. *)
NotifyStore ==
  /\ Running
  /\ lpc = "store"
  /\ ulNotifiedValue' = packs
  /\ lpc' = "listen"
  /\ UNCHANGED <<handle, packs, sof, ucNotifyState, readerVars, infantryVars>>

Listener == Callback \/ NotifyMark \/ NotifyStore

-------------------------------------------------------------------------------
(* Recv_Vision: xTaskNotifyWait(0, 0xFFFFFFFF, &pc_pack, 0).               *)

(* Mutant of WaitEnter: a notification that is pending already is not      *)
(* looked for.                                                             *)
WaitEnterAlways ==
  /\ rpc = "enter"
  /\ rpc' = "load"
  /\ UNCHANGED <<handle, listenerVars, notifyVars, old, pc_pack, captured,
                 calls, pcStatus, pcRxPack, toCopy, infantryVars>>

(* The first critical section: is a notification pending?                  *)
WaitEnter ==
  /\ rpc = "enter"
  /\ rpc' = IF ucNotifyState = "RECEIVED" THEN "read" ELSE "load"
  /\ UNCHANGED <<handle, listenerVars, notifyVars, old, pc_pack, captured,
                 calls, pcStatus, pcRxPack, toCopy, infantryVars>>

(* If not, ulNotifiedValue &= ~0, a load and a store, ...                  *)
WaitLoad ==
  /\ rpc = "load"
  /\ old' = ulNotifiedValue
  /\ rpc' = "store"
  /\ UNCHANGED <<handle, listenerVars, notifyVars, pc_pack, captured, calls, pcStatus,
                 pcRxPack, toCopy, infantryVars>>

WaitStore ==
  /\ rpc = "store"
  /\ ulNotifiedValue' = old
  /\ old' = 0
  /\ rpc' = "waiting"
  /\ UNCHANGED <<handle, listenerVars, ucNotifyState, pc_pack, captured,
                 calls, pcStatus, pcRxPack, toCopy, infantryVars>>

(* ... and the task is marked as waiting, although it does not block.      *)
WaitMark ==
  /\ rpc = "waiting"
  /\ ucNotifyState' = "WAITING"
  /\ rpc' = "read"
  /\ UNCHANGED <<handle, listenerVars, ulNotifiedValue, old, pc_pack, captured,
                 calls, pcStatus, pcRxPack, toCopy, infantryVars>>

(* The second critical section: the value is passed out, ...               *)
WaitRead ==
  /\ rpc = "read"
  /\ pc_pack' = ulNotifiedValue
  /\ rpc' = "check"
  /\ UNCHANGED <<handle, listenerVars, notifyVars, old, captured, calls, pcStatus,
                 pcRxPack, toCopy, infantryVars>>

(* ... the state decides between pdTRUE and pdFALSE, ...                   *)
WaitCheck ==
  /\ rpc = "check"
  /\ rpc' = IF ucNotifyState = "RECEIVED" THEN "clear" ELSE "miss"
  /\ UNCHANGED <<handle, listenerVars, notifyVars, old, pc_pack, captured,
                 calls, pcStatus, pcRxPack, toCopy, infantryVars>>

(* Mutant of WaitClear: ulBitsToClearOnExit is 0.                          *)
WaitClearNothing ==
  /\ rpc = "clear"
  /\ rpc' = "hit"
  /\ UNCHANGED <<handle, listenerVars, notifyVars, old, pc_pack, captured,
                 calls, pcStatus, pcRxPack, toCopy, infantryVars>>

(* ... on pdTRUE all bits of the value are cleared, ...                    *)
WaitClear ==
  /\ rpc = "clear"
  /\ ulNotifiedValue' = 0
  /\ rpc' = "hit"
  /\ UNCHANGED <<handle, listenerVars, ucNotifyState, old, pc_pack, captured,
                 calls, pcStatus, pcRxPack, toCopy, infantryVars>>

(* ... and in either case the state goes back to not waiting.  On pdFALSE  *)
(* Recv_Vision delays; on pdTRUE it calls dataCapture, which dereferences  *)
(* its argument at once.                                                   *)
WaitReturn ==
  /\ rpc \in {"hit", "miss"}
  /\ ucNotifyState' = "NOT_WAITING"
  /\ IF rpc = "miss"
       THEN rpc' = "delay" /\ UNCHANGED <<captured, calls>>
       ELSE IF pc_pack = NULL
         THEN rpc' = "fault" /\ UNCHANGED <<captured, calls>>
         ELSE /\ captured' = pc_pack
              /\ calls' = calls + 1
              /\ rpc' = IF pc_pack \in sof THEN "online" ELSE "delay"
  /\ UNCHANGED <<handle, listenerVars, ulNotifiedValue, old, pc_pack, pcStatus,
                 pcRxPack, toCopy, infantryVars>>

(* dataCapture: the status is set before the pack is copied.               *)
CaptureStatus ==
  /\ rpc = "online"
  /\ pcStatus' = "ONLINE"
  /\ toCopy' = Fields
  /\ rpc' = "copy"
  /\ UNCHANGED <<handle, listenerVars, notifyVars, old, pc_pack, captured,
                 calls, pcRxPack, infantryVars>>

(* The structure assignment, in whatever order the compiler copies it.     *)
CaptureField(f) ==
  /\ rpc = "copy"
  /\ f \in toCopy
  /\ pcRxPack' = [pcRxPack EXCEPT ![f] = pc_pack]
  /\ toCopy' = toCopy \ {f}
  /\ rpc' = IF toCopy' = {} THEN "delay" ELSE "copy"
  /\ UNCHANGED <<handle, listenerVars, notifyVars, old, pc_pack, captured,
                 calls, pcStatus, infantryVars>>

(* vTaskDelayUntil has returned.                                           *)
Wake ==
  /\ rpc = "delay"
  /\ rpc' = "enter"
  /\ UNCHANGED <<handle, listenerVars, notifyVars, old, pc_pack, captured,
                 calls, pcStatus, pcRxPack, toCopy, infantryVars>>

RecvVision ==
  \/ WaitEnter \/ WaitLoad \/ WaitStore \/ WaitMark
  \/ WaitRead \/ WaitCheck \/ WaitClear \/ WaitReturn
  \/ CaptureStatus \/ \E f \in Fields : CaptureField(f)
  \/ Wake

-------------------------------------------------------------------------------
(* Task_Infantry, one control step: what it takes from the pack.           *)

(* The vision controllers run on the pack, whatever the status is.         *)
InfantryAim ==
  /\ Running
  /\ ipc = "aim"
  /\ aim' = pcRxPack[Aim]
  /\ ipc' = "status"
  /\ UNCHANGED <<handle, listenerVars, notifyVars, readerVars, applied>>

(* Mutants of InfantryStatus: the status is not looked at; a pack that is  *)
(* being copied is not used; the outputs of the controllers are set to the *)
(* mouse's.                                                                *)
InfantryAlwaysVision ==
  /\ Running
  /\ ipc = "status"
  /\ ipc' = "mode"
  /\ UNCHANGED <<handle, listenerVars, notifyVars, readerVars, aim, applied>>

InfantryAvoidsTornPack ==
  /\ Running
  /\ ipc = "status"
  /\ IF pcStatus = "ONLINE" /\ toCopy = {}
       THEN ipc' = "mode" /\ UNCHANGED applied
       ELSE ipc' = "aim" /\ applied' = [f \in Fields |-> Mouse]
  /\ UNCHANGED <<handle, listenerVars, notifyVars, readerVars, aim>>

InfantryMouseAim ==
  /\ Running
  /\ ipc = "status"
  /\ IF pcStatus = "ONLINE"
       THEN ipc' = "mode" /\ UNCHANGED <<aim, applied>>
       ELSE /\ ipc' = "aim"
            /\ aim' = Mouse
            /\ applied' = [f \in Fields |-> Mouse]
  /\ UNCHANGED <<handle, listenerVars, notifyVars, readerVars>>

(* Online, the step goes on with the pack; else with mouse and keyboard.   *)
InfantryStatus ==
  /\ Running
  /\ ipc = "status"
  /\ IF pcStatus = "ONLINE"
       THEN ipc' = "mode" /\ UNCHANGED applied
       ELSE ipc' = "aim" /\ applied' = [f \in Fields |-> Mouse]
  /\ UNCHANGED <<handle, listenerVars, notifyVars, readerVars, aim>>

(* The gimbal steps in the pack's mode with the controllers' outputs.      *)
InfantryMode ==
  /\ Running
  /\ ipc = "mode"
  /\ applied' = [applied EXCEPT ![Mode] = pcRxPack[Mode], ![Aim] = aim]
  /\ ipc' = "fire"
  /\ UNCHANGED <<handle, listenerVars, notifyVars, readerVars, aim>>

InfantryFire ==
  /\ Running
  /\ ipc = "fire"
  /\ applied' = [applied EXCEPT ![Fire] = pcRxPack[Fire]]
  /\ ipc' = "speed"
  /\ UNCHANGED <<handle, listenerVars, notifyVars, readerVars, aim>>

InfantrySpeed ==
  /\ Running
  /\ ipc = "speed"
  /\ applied' = [applied EXCEPT ![Speed] = pcRxPack[Speed]]
  /\ ipc' = "aim"
  /\ UNCHANGED <<handle, listenerVars, notifyVars, readerVars, aim>>

TaskInfantry ==
  InfantryAim \/ InfantryStatus \/ InfantryMode \/ InfantryFire \/ InfantrySpeed

-------------------------------------------------------------------------------
Next == CreateTask \/ Listener \/ RecvVision \/ TaskInfantry

Spec == Init /\ [][Next]_vars

(* Tasks of one priority share the processor tick by tick; the listener is *)
(* a running thread that ends the call it has begun.                       *)
FairSpec ==
  /\ Spec
  /\ WF_vars(CreateTask)
  /\ WF_vars(NotifyMark \/ NotifyStore)
  /\ WF_vars(RecvVision)
  /\ WF_vars(TaskInfantry)

-------------------------------------------------------------------------------
(* Types. *)
TypeOK ==
  /\ handle \in BOOLEAN
  /\ packs \in Nat
  /\ sof \subseteq 1 .. packs
  /\ lpc \in {"listen", "mark", "store"}
  /\ ulNotifiedValue \in Nat
  /\ ucNotifyState \in {"NOT_WAITING", "WAITING", "RECEIVED"}
  /\ rpc \in {"created", "enter", "load", "store", "waiting", "read", "check",
              "clear", "hit", "miss", "online", "copy", "delay", "fault"}
  /\ old \in Nat
  /\ pc_pack \in Nat
  /\ captured \in Nat
  /\ calls \in Nat
  /\ pcStatus \in {"OFFLINE", "ONLINE"}
  /\ pcRxPack \in [Fields -> Nat]
  /\ toCopy \subseteq Fields
  /\ ipc \in {"aim", "status", "mode", "fire", "speed"}
  /\ aim \in Nat
  /\ applied \in [Fields -> Nat \cup {Mouse}]

(* The buffers on their way to Recv_Vision are newer than the one it took  *)
(* last, and the one the listener is announcing is newer than all of them: *)
(* whatever the races lose, nothing is taken twice or out of order.        *)
Fresh(n) == n = NULL \/ captured < n

InFlightFresh ==
  /\ ~handle => rpc = "created"
  /\ Fresh(ulNotifiedValue)
  /\ Fresh(old)
  /\ rpc # "store" => old = NULL
  /\ rpc \in {"check", "clear", "hit"} => Fresh(pc_pack)
  /\ rpc = "hit" /\ pc_pack # NULL =>
       ulNotifiedValue = NULL \/ pc_pack < ulNotifiedValue
  /\ ulNotifiedValue <= packs /\ old <= packs /\ pc_pack <= packs
  /\ captured <= packs
  /\ lpc # "listen" =>
       /\ captured < packs /\ ulNotifiedValue < packs /\ old < packs
       /\ rpc \in {"check", "clear", "hit"} => pc_pack < packs

(* The copy the control task reads is never ahead of the last pack taken,  *)
(* and what the control task does is never ahead of the copy, nor taken    *)
(* from it while the PC is offline.                                        *)
CopiesBehind ==
  /\ rpc \in {"online", "copy"} => pc_pack = captured
  /\ pcStatus = "OFFLINE" =>
       /\ ipc \in {"aim", "status"}
       /\ \A f \in Fields : applied[f] = Mouse
  /\ \A f \in Fields : pcRxPack[f] <= captured
  /\ \A f \in Fields : applied[f] <= pcRxPack[f]
  /\ aim <= pcRxPack[Aim]
  /\ applied[Aim] <= aim

(* No field of a control step is older than the same field of the step     *)
(* before, through lost notifications, torn copies and preemptions; and a  *)
(* robot that has obeyed the PC never falls back to the mouse.             *)
NeverRollsBack == [][\A f \in Fields : applied'[f] >= applied[f]]_vars

(* The path implements the lossy mailbox: every call of dataCapture gets a *)
(* pack that the listener has delivered and none has got before, in order. *)
Box == INSTANCE Mailbox WITH put <- packs, taken <- captured,
                              calls <- calls
BoxSpec == Box!Spec

(* A notification that was complete while Recv_Vision slept is acted on:   *)
(* this pack or a later one is taken (or the process ends on NULL).        *)
QuietNotifyIsTaken ==
  \A n \in 1 .. MaxPacks :
    (/\ rpc = "delay" /\ lpc = "listen"
     /\ ucNotifyState = "RECEIVED" /\ ulNotifiedValue = n)
      ~> (captured >= n \/ rpc = "fault")

(* task.h: "If a notification is pending or received before the calling    *)
(* task exits the xTaskNotifyWait() function then the task's notification  *)
(* value is passed out": dataCapture gets a buffer whenever it is called.  *)
ValuePassedOut == rpc # "fault"
===============================================================================
