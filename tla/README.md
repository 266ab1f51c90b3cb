# A verification project for the CoppeliaSim infantry robot

The program is a robot controller that runs on a PC: FreeRTOS tasks in the
Windows simulator port steer an infantry robot and an energy rune inside
CoppeliaSim, and a vision PC sends commands over a serial port. This directory
holds TLA+ models of its core, the TLC runs that check them, and proofs that
TLAPS checks. Source paths below are relative to the repository.

## 1. The system

| Component | State | Operations | Talks to |
|---|---|---|---|
| Rune (`Usr/Rune`) | `armorList` (activated plates and the waiting one), `isSucceed`, ticks | `scan`, `light`, `generate`, `reset`, `motor` | called by `Task_Referee`; reads the simulator's time stamp |
| Vision link (`Usr/Infantry/vision`) | `pcStatus`, `pcRxPack`, `pcTxPack`, two PIDs | `dataCapture`, `dataTX`, `checkLink` (never called) | `Recv_Vision` writes it, `Task_Infantry` reads it |
| User tasks (`Usr/User_Task.cpp`) | wake times, the static `mode`, `armor_state`, `gIgnoreMouseInputFlag` | `Task_Infantry`, `Task_Referee`, `Task_Transmit`, `Recv_Vision`, the serial callback | everything, through global objects without locks |
| Serial port (`Usr/SerialPort`) | handle, listener thread, critical section, the static `s_bExit` | init, listen, read, write, close | calls back into `User_Task.cpp` from its own thread |
| Kernel notifications (`FreeRTOS/tasks.c`) | `ulNotifiedValue`, `ucNotifyState` | `xTaskNotifyWait`, `xTaskNotifyFromISR` | the listener and `Recv_Vision` |
| CoppeliaSim client (`Usr/SimInterface`) | connection, object lists, `simTick` | `Start`, `Add_Object`, `ComWithServer`, destructor | `Task_Sim` every 5 ms; global handles for all tasks |
| Chassis, gimbal | set points, PIDs, outputs | `singleStepControl`, `write...Data` | `Task_Infantry` steps them, `Task_Transmit` feeds and reads them |
| PID, filters (`SRML`) | time stamp, integrator, last error | `Adjust` | chassis, gimbal, vision |
| DR16 (`SRML/dr16`) | keys, status | `DataCapture`, `Key_Process`, `Check_Link` (never called) | `Task_Infantry` |
| Start-up (`main.c`, `System_Config.cpp`) | handles of objects and tasks | resource, service and task init, `exit(0)` | all of the above |
| Vendored | FreeRTOS kernel and heap, `remoteApi/extApi.c` | | |

### Concurrency

* `PrioritySuperHigh` is 7 and `configMAX_PRIORITIES` is 7, so the kernel caps
  it to 6, which is also `PriorityHigh`: **all five tasks have one priority**
  and are time-sliced. A task may be preempted between any two accesses.
* The **listener of a serial port is a Windows thread**, not a task. It is not
  pinned to the core the tasks run on, and `portSET_INTERRUPT_MASK_FROM_ISR()`
  is empty in this port (`FreeRTOS/include/FreeRTOS.h:265-270`); a task's
  critical section only keeps the kernel's own simulated interrupts out. Every
  access of the listener to a task control block races with the task.
* The serial port has no time-outs (`SerialPort.cpp:77-87`), and `ReadFile` and
  `WriteFile` run inside one critical section: a read without a byte blocks
  `Task_Infantry`, which writes in every control step.
* The rune lives on two clocks: the simulator's time stamp (`getTick()`), and
  the wall clock that seeds `rand()` once per second.

The list of what is hard to test, each at its line, is under `hazards` in
`PROJECT.json`, with the properties that cover it or the reason none does.

### What makes each component correct

* Rune: one target at a time; a plate is won only by a hit on the target
  within the limit; anything else restarts; the lamps tell the game; the busy
  wait ends; the list never holds a plate twice nor grows beyond its capacity.
* Vision link: no pack is acted on twice or out of order; what is lost is only
  what a later pack has replaced; the robot never acts on older data than it
  has already acted on.
* Serial port: bytes are neither lost nor doubled except by a purge; what is
  taken for a pack is a pack; no thread blocks for ever with the lock.
* Life cycle of the ports: a listener told to stop ends or can move no more; a
  listener that reads has its byte, so that closing its port returns.
* Start-up: it always decides, and tasks only run with a connected scene.
* Actuation: RUNAWAY stops every motor within a bounded number of steps,
  wherever the two tasks are; the trigger is released for good.
* PIDs of the gimbal: a value that is not a number does not stay in the output,
  whatever floats the PC sends. (It does stay in the heading, in the integrator
  of pitch, and in the target yaw keeps in TUNE_PID.)
* Delays of the kernel: every task wakes in exactly its tick, across the wrap of
  the counter, and lateness does not shift its grid.

## 2. Modules

| Module | Models | Source |
|---|---|---|
| `RuneGame` | abstract: the game the player sees | |
| `Rune` | the rune with `Task_Referee`, the simulator's clock and the wall clock | `rune_ctrl.h`, `rune_ctrl.cpp`, `User_Task.cpp:120-153`, `CoppeliaSim.cpp:284-307`, `extApi.c:2146-2193` |
| `RuneProofs` | theorems about `Rune` | |
| `Mailbox` | abstract: a lossy, ordered mailbox | |
| `VisionLink` | listener callback, notification, `Recv_Vision`, `dataCapture`, what `Task_Infantry` takes | `User_Task.cpp:46-118, 211-243`, `vision.cpp`, `tasks.c:4634-4707, 4828-4950` |
| `VisionLinkProofs` | theorems about `VisionLink` | |
| `SerialPort` | listener loop, `ReadChar`, `WriteData`, the driver's buffer | `SerialPort.cpp:235-360` |
| `SerialPortProofs` | theorems about `SerialPort` | |
| `ListenThreads` | two ports and the life cycle of their listeners | `SerialPort.cpp:29-320` |
| `Startup` | `ListenThreads` under `System_Tasks_Init` | `System_Config.cpp:61-148`, `win32_support.cpp:120-158`, `simulation.cpp:7-11` |
| `StartupProofs` | theorems about `ListenThreads` and `Startup` | |
| `Actuation` | `Task_Infantry`, `Task_Transmit` and what they share | `User_Task.cpp:54-209`, `chassis_ctrl.cpp`, `gimbal_ctrl.cpp` |
| `RunawayStop` | `Actuation` with a record of how long RUNAWAY has lasted | |
| `ActuationProofs` | theorems about `RunawayStop` | |
| `PidTimer` | the time stamp of a PID over the wrap of its counter | `PID.cpp:58-90` |
| `PidTimerProofs` | the theorem about `PidTimer` | |
| `FloatPid` | a PID and its filters as to values that are no numbers | `PID.cpp:51-173`, `filters.cpp:47-56` |
| `GimbalAxis` | the chain of PIDs of one axis | `gimbal_ctrl.cpp:18-48`, `User_Task.cpp:83-97` |
| `GimbalAxisProofs` | theorems about `GimbalAxis` and `FloatPid` | |
| `PeriodicTimer` | abstract: periodic due times without a counter | |
| `TaskDelay` | the tick, the delayed lists, `vTaskDelayUntil`, `xTaskResumeAll` | `tasks.c:1249-1312, 2174-2256, 2665-2818, 5081-5151` |
| `TaskDelayProofs` | theorems about `TaskDelay` | |
| `MC*` | the instances for TLC | |

### Rune

`pc` is where `Task_Referee` stands: `input` (reads the collision flags),
`scan` (at element `elem` of its loop), `generate` (in the busy wait, to return
to `resume`), `light`. One element of the scan is one action, because
`generate()` in its middle may wait for the wall clock. `armorList` is the
vector; only the tick of its last entry is ever read, so it is the variable
`backTick`. `draw` is the plate `rrand()` returns in the present second.
`NewSecond` changes it. `spc` is where `Task_Sim` is in the three calls of
`ComWithServer`: `Trigger`, `Ping` or `PingTimesOut`, and `Fetch` or `FetchStale`.
The simulator's `SimStep` comes at any time after a trigger, and every other task
may run between two of the calls. The stamp of an answered ping may be of before
the step that was triggered, and one more step may follow until it is used; an
unanswered one (`answered` is false) leaves the stamp of any earlier answer, up to
`MaxAge` old.
A collision flag is 0, 1 or undefined (2: `collision_state` is not initialised
and the stream's first answer may be outstanding); an undefined one ends the
input loop, so the readings behind it are old.

Left out: `motor()` (a speed computed from the tick), the two early returns of
`scan()` and `light()`, which are never taken (`isAvailable` is never cleared,
and the capacity is `RUNE_ARMOR_NUM` as long as the list never outgrows it,
which is part of `ListOK`), and the leak of the replaced entry.

### VisionLink

A buffer is the number of the chunk it holds (each chunk is a new array), 0 is
NULL; a field of a pack is the number of the buffer it came from. So "older"
and "newer" are `<` and `>`. `lpc` is the listener (`listen`, `mark` after the
callback decided to notify, `store` after `ucNotifyState` was written), `rpc`
is `Recv_Vision` inside `xTaskNotifyWait` and `dataCapture`, `ipc` is
`Task_Infantry`. Every access to a shared location is one action; `&=` on
entry is a load and a store (`old`). The fields of the pack are copied one by
one in any order, and `Task_Infantry` reads them one by one. `fault` is the
end of the process on a NULL buffer.

### SerialPort

Bytes are numbered in the order of the wire. `head` is the first one the driver
still holds, `left` the listener's `BytesInQue`, `chunk` its `Recved`, `lock`
the critical section. `ReadByte` is enabled only when a byte waits: that is the
blocking `ReadFile`. `ReadFails` and `WriteFails` say whether the system's
calls may fail; a failure purges the input buffer. `Alias` is the set of places
in a pack where the payload happens to hold `0x33`. The callback of the port is
`dataCapture`'s acceptance test.

### ListenThreads and Startup

`ListenThreads` is the class from the side of its owner, a thread that calls
its operations on two ports in any order, and of up to `MaxThreads` listener
threads (`lpc[t]`). Only the number of bytes counts here. `s_bExit` is one
variable, because it is a static member. `cs[p]` is the critical section of a
port: free, held by a listener, kept by the owner (`InitPort` with a DCB returns
from its middle when `SetCommState` fails) or deleted. `m_hListenThread` is
`InvalidHandle`, a thread, or `NoThread` = 0, which is what a failed
`_beginthreadex` leaves and which is not `InvalidHandle`. The `Sleep(10)` in
`CloseListenTread` waits for nobody: its owner goes on (`CloseEnd`,
`DestroyClose`) wherever the listener is. So the destructor may close a handle
that is being read, and delete a section that is held or waited for. To enter a
deleted section is undefined: `Enter` may take the step into `ReadFile`, and
nothing makes it. `CloseHandle` on a synchronous handle may wait for the
`ReadFile` pending on it: `ClosePending` says when, and no fairness is assumed of
the owner then.

`Startup` extends it: the owner is now `System_Tasks_Init`, which opens two
ports and two listeners, connects, adds the objects, checks the handles and
either goes on to the tasks or calls `exit(0)`. No result but the handles is
looked at. `Exit` runs the two destructors while listeners may still be there.

### Actuation and RunawayStop

`ipc` and `iat` say where `Task_Infantry` is and at which wheel or axis, `tpc`
and `tat` the same for `Task_Transmit`; every access to what they share is a
step of its own, the three reads of a gimbal output by `Task_Transmit` included.
A control step ends with `Send`, the write to the vision PC, which needs the
port's critical section; `portBusy` is the listener in it (`ListenThread`), where
it may wait for a byte for ever. What a step has read and will not use again is
set back to one value.
A speed or torque is `zero`, `num` or `nan`. `mode` is the static variable of
`Task_Infantry`: the chassis steps with that of the previous control step, the
gimbal with the new one. `RunawayStop` adds three history variables that count
control steps in RUNAWAY (`runs`) and the round of `Task_Transmit` that began
after two of them (`begun`, `finished`); they restrict nothing.

### PidTimer, FloatPid, GimbalAxis

`PidTimer` is the arithmetic of `UpdataTimeStamp`. `FloatPid` says what one call
of `Adjust` does to the class of each stored value (`num`, `huge`: so large that a
sum or a product of it may overflow, `inf`, `nan`), with IEEE 754's rules and the
code's comparisons, which are false for `nan`. In `GimbalAxis` a control step of
an `axis` is the PID on the aim, the mode, the PID on the angle or the encoder,
and the PID on the speed, each with an arbitrary time stamp. `Aim` takes any
float: the bytes of a pack are copied to `yawDelta` and `pitchDelta` and looked at
by nobody. `calm` counts the control steps since the last stamp of zero, `aimed`
the calls of the aim since the last with a stamp of zero or a float that was no
ordinary number.

### TaskDelay

The two delayed lists are sets with the wake times in `wakeTime`; a list is
only ever asked for its head and for the tasks up to a time. `phase` is the
state of the scheduler: `run`, `suspended` inside `vTaskDelayUntil`, `unwind`
while `xTaskResumeAll` takes the ticks that were pended. `Punctual` keeps a
ready task from being a whole turn of the counter (49 days) late, when
`vTaskDelayUntil` cannot tell. `PeriodicTimer` has no counter: `due` is relative
to the present, and the refinement mapping `Due` computes it from the lists.

## 3. Runs

| Run | Shows |
|---|---|
| `rune` | In asynchronous mode, as the program starts the simulator, with a clock that stands still: `ListOK`, `GenerateCanFinish`, `LampsTellTheGame`, and the refinement of `RuneGame`, its safety (`GameSafe`) and its liveness (`GameSpec`: a next target always appears) |
| `rune_timed` | In synchronous mode, with the trigger, the ping and the fetch of the time as calls of their own: `LateHitNeverCounts`, if the ping was answered, measured on the simulator's own clock with two ticks of slack for the stamp; `SlowRuneRestarts`, if pings are answered from some time on; `ListOK` and `GameSafe` through every restart |
| `rune_shown` | **violated**: `ShownBeforeActive`. A plate drawn in the middle of `scan()` is won by an old reading before its lamp showed it |
| `vision` | `InFlightFresh`, `CopiesBehind`, `NeverRollsBack`, `BoxSpec`, the refinement of `Mailbox`, through every race of the listener with the task; `QuietNotifyIsTaken`: the last pack before a silence is taken, if it arrives while `Recv_Vision` sleeps in its wait |
| `vision_null` | **violated**: `ValuePassedOut`. Mark, take, store: `Recv_Vision` gets pdTRUE and NULL |
| `serial` | With calls that fail and an alias of the start of frame: `Accounted`, `NeverStarved`, `CapturedInARow`, `WriteHangsOnlyBehindPurge` |
| `listen` | `StopHeard`: once told to stop for good, a listener ends or can be moved by nothing but a byte or the holder of its critical section, under any owner and with calls that fail |
| `listen_shared` | **violated**: `RefusedMeansListening`. Closing one port ends the listener of the other, which then refuses to listen again |
| `startup` | `TasksHaveScene`, although one handle is never checked; `ReadersHaveBytes`: while reads succeed, no listener is in `ReadFile` without a byte; `StartupDecides`: so start-up ends, although `exit(0)` closes handles that are being read |
| `actuation` | `StopsInTime`: two control steps in RUNAWAY and one whole round of `Task_Transmit` stop everything; `RunawayStops` and `FireStopsAfterP` under fairness, unless `Task_Infantry` hangs for ever in its write to the PC |
| `gimbal` | On both axes: `OutRecovers`: after five control steps without a dt of zero the output is a number, if the mode sets the speed to follow (yaw in TUNE_PID does not), if the heading is a number where the mode follows it, and if the integrator that pitch has is one; `HeadingLostOnlyInAssist` |
| `delay` | `ListsOK`, `NothingLeftBehind` (a `configASSERT` of the kernel), `TimerSpec`, the refinement of `PeriodicTimer`, and `Wakes` |

`NeverRollsBack` deserves a word: a control step may mix fields of two packs (a
torn pack), and a notification may be lost, yet no field ever goes back in
time. `WriteHangsOnlyBehindPurge` says what a hanging control task means: a
failed call has purged bytes that the listener had counted, and the PC is
silent. `HeadingLostOnlyInAssist` locates the one way the heading is lost for
good, since it is only ever moved by increments and `resetGimbal` is never called:
in ASSIST, by what the aim puts out in a call with a dt of zero or with a float
from the PC that is no number or huge, or in the three calls after it. Its bound
and the five steps of `OutRecovers` are tight: with one less either is violated.
`LateHitNeverCounts` claims two ticks and not one, because the simulator may step
after the ping and again before the stamp is used.

Seen while modelling, and not the subject of a run:

* `simulation.cpp:9` starts the client in asynchronous mode, in which `simTick`
  is never fetched: `getTick()` stays 0, no limit of the rune is enforced and
  its motor turns at a constant speed. That is why the two properties about
  time are checked in synchronous mode (`rune_timed`).
* `xTaskNotifyWait` may return pdFALSE and wipe a notification completed in the
  meantime (`tasks.c:4702`). A pack that precedes a silence, and arrives while
  the task sleeps, does not suffer from it (`QuietNotifyIsTaken`).
* `Task_Transmit` tests one read of an output against the limit and sends
  another; `Actuation` lets the two differ.
* `Sleep(10)` in `CloseListenTread` (`SerialPort.cpp:225-226`) waits for nobody. A
  listener that takes longer, for instance in `ReadFile`, still reads when the
  destructor closes the handle, and may enter the section after
  `DeleteCriticalSection`, which is undefined.
* `TUNE_PID` has no case in the switch of yaw (`gimbal_ctrl.cpp:20-39`): the
  target of the speed stays what the mode before left. If that is not a number,
  the output is none until the mode changes, even with a sound heading.
* The PID on the speed of pitch integrates, and its integrator never gets rid of
  a NaN. Its term is left out while the error is beyond `I_SeparThresh`, 0.5
  (`PID.cpp:146-155`, `System_Config.cpp:78`): then the output is a number, and
  none again as soon as the error is smaller.
* `Task_Infantry` ends each control step with a write to the vision PC
  (`User_Task.cpp:114`, `SerialPort.cpp:333`). If it hangs there, RUNAWAY is not
  acted on; `serial` shows when that can be.

### Bounds

* Rune: three plates in `rune` (one before, at and after the target in the order
  of the scan), two in `rune_timed`; there a limit of 0 and a counter modulo 7,
  which wraps. `MaxAge` = 3 bounds how far the simulator's clock runs ahead of the
  waiting plate, and of the stamp the program holds. It keeps both below half of
  the counter's range; the code has the same need with 2^31 ms. It is enough for
  a hit before, at and after the limit, beyond the two ticks of slack, and for the
  time-out.
* VisionLink: `MaxPacks` = 3: one pack torn or lost, one that overwrites it,
  and one that arrives meanwhile.
* SerialPort: packs of three bytes and 8 bytes: more than two packs, cut
  anywhere.
* ListenThreads: two ports share the flag, and two threads in all let one port
  lose its listener through the other. One byte may wait.
* Startup: two objects of the scene, two signals, one of them unchecked; two bytes
  may wait, so that a port is closed in the middle of a count. Reads of an open
  port succeed (`ReadFails` is false): with a failed one a listener may sit in
  `ReadFile` without a byte, and `CloseHandle` behind it.
* Actuation: two wheels, so that one is copied before and one after the chassis
  stops; the modes NORMAL, in which every output may be anything, and
  RUNAWAY; outputs `zero` and `nan`, the one
  `Task_Transmit` treats differently.
* GimbalAxis: both axes and every kind of mode; `Long` = 6 steps exceed the five
  and the four calls that are claimed. The counter of `PidTimer` has 16 values.
* TaskDelay: three tasks, a counter of 8 values, increments of 1, 3 and 7 (the
  whole range), up to two pended ticks. Nothing bounds the number of wraps.

### Fairness

* `WF(TaskReferee)`, `WF(TaskSim)`, `WF(RecvVision)`, `WF(Control)`,
  `WF(TaskTransmit)`: tasks of one priority share the processor tick by tick, and
  none of these steps waits for ever (a ping times out, the Sleep after the key P
  ends). `WF(SimStep)`: a simulator that was triggered steps.
* `SF(Send)`: `Task_Infantry` gets into the critical section if it is free again
  and again, and `WriteFile` returns. Nothing makes the listener leave the
  section, so the task may hang (`HangsInSend`), and the two properties of
  `actuation` under fairness say so.
* `WF(NewSecond(p))` for every `p`, `SF(Generate)`: the wall clock goes on, the
  generator seeded with successive seconds draws every plate again and again,
  and the loop of `generate()` turns thousands of times a second, so it sees a
  draw that would do before the second is over.
* `WF(NotifyMark \/ NotifyStore)`: the listener ends the call it has begun.
  Nothing makes the PC send.
* `SF(ReadEnter)`, `SF(WriteEnter)`, `SF(Enter(t))`: a thread that waits for a
  critical section gets it when it is free again and again, although the other one
  enters it in between. Windows does not promise first come, first served, but
  boosts starved threads.
* ListenThreads: every thread runs and the owner ends the call it is in, unless it
  closes a handle that is being read; it is never made to call anything, and
  `ReadFile` returns only when a byte waits. Startup: `main` goes on in the same
  sense, and every listener thread runs.
* TaskDelay: `WF(Tick)`, `WF(ResumeAll)`, `WF(UnwindTick)`: the timer thread of
  the port keeps ticking and a call of the kernel comes to its end; `SF(Call(t))`:
  a ready task gets time slices although the scheduler is suspended now and then.

Deadlock is checked in the rune, actuation, gimbal and delay runs. It is
switched off where the system may stop: in `VisionLink` after the NULL fault
ends the process; in `SerialPort` where the listener sits in `ReadFile` with the
lock and the PC sends no more; in `ListenThreads` when both ports are destroyed;
in `Startup` when the process is over.

## 4. Proofs

All theorems hold for every value of the constants that the named assumptions
admit (`RuneAssumption`, `VisionLinkAssumption`, `SerialPortAssumption`,
`ListenThreadsAssumption`, `StartupAssumption`, `ActuationAssumption`,
`TaskDelayAssumption`, `PidTimerAssumption`, `GimbalAxisAssumption`: numbers are
naturals, modes and outputs are among those of the code, limit and bounds are
small against the counter). None takes a hypothesis of its own.

| Theorem | States |
|---|---|
| `RuneTypeOK`, `RuneListOK` | `Spec => []TypeOK`, `Spec => []ListOK` |
| `RuneGenerateCanFinish` | `Spec => []GenerateCanFinish` |
| `RuneLampsTellTheGame` | `Spec => []LampsTellTheGame` |
| `RuneImplementsGame` | `Spec => GameSafe` |
| `RuneLateHitNeverCounts` | `Spec => LateHitNeverCounts` |
| `VisionLinkTypeOK`, `VisionLinkInFlightFresh`, `VisionLinkCopiesBehind` | the three invariants of `VisionLink` |
| `VisionNeverRollsBack` | `Spec => NeverRollsBack` |
| `VisionLinkImplementsMailbox` | `Spec => BoxSpec` |
| `SerialPortTypeOK`, `SerialPortAccounted` | `Spec => []TypeOK`, `Spec => []Accounted` |
| `SerialPortNeverStarved` | `Spec => []NeverStarved` |
| `SerialPortCapturedInARow` | `Spec => []CapturedInARow` |
| `ListenThreadsTypeOK` | `Spec => []TypeOK`, for an owner that calls in any order |
| `StartupTypeOK`, `StartupTasksHaveScene` | `StartSpec => []StartTypeOK`, `StartSpec => []TasksHaveScene` |
| `StartupImplementsOwner` | `StartSpec => Spec` of `ListenThreads` |
| `StartupReadersHaveBytes` | `StartSpec => []ReadersHaveBytes` |
| `ActuationTypeOK`, `ActuationStopsInTime` | `RecordSpec => []RecordTypeOK`, `RecordSpec => []StopsInTime` |
| `TaskDelayTypeOK`, `TaskDelayListsOK`, `TaskDelayNothingLeftBehind` | the three invariants of `TaskDelay` |
| `TaskDelayImplementsTimer` | `Spec => TimerSpec` |
| `PidTimeIsMeasured` | `TimeIsMeasured` |
| `GimbalAxisTypeOK` | `Spec => []TypeOK` |
| `GimbalHeadingLostOnlyInAssist` | `Spec => HeadingLostOnlyInAssist` |
| `GimbalOutRecovers` | `Spec => []OutRecovers` |

* **Rune.** `TypeOK /\ ListOK` is inductive. The delicate part is `reset()`
  inside `scan()`: the list is empty while `generate()` waits, and
  `RoomToGenerate` carries what the other actions need. That the busy wait can
  end is a pigeonhole argument: distinct entries, fewer than `RUNE_ARMOR_NUM`,
  hence an unlisted plate (`FiniteSetTheorems`). The lamps follow because
  nothing but `LightUp` changes them and `LightUp` ends the round. The
  refinement maps `Accept` to `Activate`, `Generate` to `Light`, a wrong or late
  hit to `Restart`, and every step after success to a stutter.
  `RuneLateHitNeverCounts` needs `AgeInv`: the simulator's clock is at most
  `MaxAge` ahead of the lighting of the waiting plate and of the stamp. And
  `AnsweredInv`: the stamp of an answered ping is at most two ticks behind that
  clock, a step that is still pending counted in, and never behind the lighting;
  `FetchInv` says the same of a ping whose answer is not yet fetched. Then the
  signed difference the code computes is the true age less the lag, although both
  clocks wrap; `RemainderUnique`, `Elapsed`, `NextTick` and the lemmas about `Since`
  are the arithmetic modulo a parameter that this takes.
* **VisionLink.** `InFlightFresh` orders everything on its way by age; the
  conjunct about `lpc # "listen"` says the chunk being announced is newer than
  all of it, which is why a stale `&=` can resurrect a value but never one that
  was taken. `CopiesBehind` is a chain: applied field, copy, last pack taken.
  Both action properties follow from them.
* **SerialPort.** The three properties need four more facts: while nothing has
  been purged the chunk is the last `Len(chunk)` bytes before `head` (`InARow`)
  and what is left of the count still waits (`NoStarve`); the count is positive
  inside the loop (`Counting`); the chunk is empty when the listener counts
  (`Fresh`). A failed read always purges, so it ends what the first two promise.
* **ListenThreads and Startup.** `TypeOK` is inductive as it stands. That
  `System_Tasks_Init` is one of the owners `ListenThreads` admits (`MainIsOwner`)
  gives the refinement. `ReadersHaveBytes` needs `SInv`, in three parts besides the
  types: in which stage each call of the owner may be (`CallsInOrder`, so that no
  port is purged under its listener), one listener per port, so that nobody else
  takes its bytes, and bytes behind every count (`BytesAreThere`). A failed read
  purges, leaves a count without bytes, and the listener stays in `ReadFile`: that
  is why the property excludes it.
* **Actuation.** `StopInv` says, place by place, what RUNAWAY has stopped:
  `GimbalStill` from the control step that reads the mode, `ChassisStill` from
  the wheels of the next step on, one wheel after the other, and `Copied` for
  the wheels and axes that a round of `Task_Transmit` begun afterwards has
  passed. `Places` keeps the two loop counters where the program may be.
* **TaskDelay.** `TypeOK /\ ListsOK` needs `Pending`: a ready task is never so
  late that the ticks already pended make it a whole turn late. The refinement
  goes by the action: a tick the scheduler takes is a `Tick` of the timer
  whether or not the lists change places in it, a pended tick and the end of a
  call are stutters, `DelayUntil` is `Call`.
* **GimbalAxis.** A call of `Adjust` never hands on an infinite value
  (`AdjustSound`), because `Constrain` catches it. `RecoverInv` follows a value that
  is no number out of the controllers while `TargetSound` holds: a call with a time
  overwrites `now_error`, then `pre_error`, then `now_d`, then `Out`, one call after
  the other, first in the PID on the angle or the encoder (`SourceInv`), then in
  that on the speed (`SpeedInv`); `AngleCalls` and `SpeedCalls` count these calls
  between two control steps. An integrator is not overwritten, so that of pitch is a
  precondition. `AimInv` is the same for the PID on the aim, with `aimed` for the
  count, and bounds when it can lose the heading.
* **PidTimer.** `DtAfter` computes dt with and without a wrap. That a wrap never
  gives a dt of zero needs the clock to move by more than one tick.

Every invariant and every action property that a passing run checks has a
theorem. Only model-checked is what holds under fairness (`SlowRuneRestarts`,
`GameSpec`, `QuietNotifyIsTaken`, `WriteHangsOnlyBehindPurge`, `StopHeard`,
`StartupDecides`, `RunawayStops`, `FireStopsAfterP`, `Wakes`),
since liveness and ENABLED are out of the prover's reach.

## 5. How the project was ordered

The abstract specifications (`RuneGame`, `Mailbox`, `PeriodicTimer`) came before
the modules that implement them. First the three components that carry the
program's own logic (rune, vision link, serial port), then what composes with
them: the life cycle of the ports and start-up, the two control tasks, the
PIDs behind the gimbal, and last the delays of the kernel, on which the period
of every task rests.

## 6. Not modelled

* Floating-point formulas: the kinematics of the chassis, the values of the PIDs
  and filters, `motor()`. What of them matters to control flow (zero, a number,
  not a number) is in `Actuation` and `FloatPid`. `FuzzyPID` is not used.
* Keyboard, mouse and log output: I/O; the trigger and the key P are inputs.
* DR16: `DataCapture` copies the keys; the click callbacks and the link check
  are used by nothing under `src/Usr`.
* The object lists and the multi-client mode of the CoppeliaSim client: the
  first pass floats through, the second is never started.
* The heap and the unused parts of the kernel: vendored.
* The ready list that `xTaskGenericNotifyFromISR` changes from a thread that no
  critical section keeps out: two threads write the pointers of one doubly
  linked list, and what is left of it is corrupted memory rather than a state.
* The remote API library and the simulator, whose answers are inputs. Of the
  library the trigger, the ping and the time stamp of the last answer are in
  `Rune`.
* The static initialisation order of `rune` and `CoppeliaSim`, a matter of the
  link.
