--------------------------------- MODULE Rune ---------------------------------
(***************************************************************************)
(* The energy rune: class RuneCtrl_Classdef (Usr/Rune) as Task_Referee     *)
(* (Usr/User_Task.cpp) drives it every 5 ms.                               *)
(*                                                                         *)
(* Three actors share the state:                                           *)
(*   - Task_Referee reads the collision flags, scans them, lets the rune   *)
(*     draw its next plate, and sets the lamps.  generate() busy-waits on  *)
(*     the wall clock, so it is a step of its own;                         *)
(*   - Task_Sim (CoppeliaSim_Client::ComWithServer) triggers the           *)
(*     simulator, pings it and fetches the time stamp that getTick()       *)
(*     returns, in three calls between which the simulator and the other   *)
(*     task go on;                                                         *)
(*   - the wall clock seeds rand(): within one second every draw of        *)
(*     rrand() is the same plate.                                          *)
(*                                                                         *)
(* isAvailable is TRUE from the constructor on and the capacity of the     *)
(* vector is RUNE_ARMOR_NUM from its first reserve() on (ListOK: it never  *)
(* grows), so the two early returns of scan() and light() are never taken. *)
(***************************************************************************)
EXTENDS Integers, Sequences

CONSTANTS
  RUNE_ARMOR_NUM,    \* the number of plates, 5 in rune_ctrl.h
  RESET_TIME,        \* RESET_TIME_MS, in ticks of the model
  TickMod,           \* the tick counter wraps at TickMod (2^32 in the code)
  MaxAge,            \* bound: the simulator is never this far ahead of the
                     \* waiting plate, or of the stamp that the program holds
  StartModes         \* how CoppeliaSim_Client may be started: of BOOLEAN

ASSUME RuneAssumption ==
  /\ RUNE_ARMOR_NUM \in Nat \ {0}
  /\ RESET_TIME \in Nat
  /\ MaxAge \in Nat
  /\ TickMod \in Nat
  /\ RESET_TIME + 2 < MaxAge
  /\ 2 * MaxAge < TickMod
  /\ StartModes \subseteq BOOLEAN

VARIABLES
  simTime,      \* the simulator's own clock
  triggered,    \* whether it has accepted a trigger and not yet stepped
  cmdTime,      \* _commandReceived_simulationTime: the stamp of the last answer
  simTick,      \* CoppeliaSim_Client::simTick, what getTick() returns
  answered,     \* whether the ping before the last fetch was answered
  spc,          \* where Task_Sim is in ComWithServer
  synchronous_mode,  \* of CoppeliaSim_Client, set by Start()
  draw,         \* rand() % capacity under the seed of the present second
  armor_state,  \* the collision flags as Task_Referee read them
  armorList,    \* the activated plates and the waiting one, oldest first
  backTick,     \* collidingTick of armorList.back(); no other is ever read
  isSucceed,
  target,       \* RuneLight[i]->target, the lamps
  pc,           \* where Task_Referee is
  elem,         \* the first element scan() has not looked at
  resume        \* where generate() returns to

simVars  == <<simTime, triggered, cmdTime, simTick, answered, spc, synchronous_mode>>
listVars == <<armorList, backTick, isSucceed>>
vars == <<simVars, draw, armor_state, armorList, backTick,
          isSucceed, target, pc, elem, resume>>

Plates == 0 .. RUNE_ARMOR_NUM - 1

(* ArmorState_Typedef, without the tick; the two values of activeState.    *)
Waiting   == 1
Activated == 2
Armor == [armorNum : Plates, activeState : {Waiting, Activated}]

Back == armorList[Len(armorList)]
Listed == {armorList[k].armorNum : k \in 1 .. Len(armorList)}

(* The ticks from then until now, on a counter that wraps.                 *)
Since(then, now) == (now - then) % TickMod

(* startTick is taken in the constructor, when simTick is still 0.         *)
getTick == simTick

(* scan() compares the age of a hit as a signed long ...                   *)
SignedAge ==
  LET d == Since(backTick, getTick)
  IN  IF 2 * d < TickMod THEN d ELSE d - TickMod

(* ... and the age of the waiting plate as an unsigned one.                *)
UnsignedAge == Since(backTick, getTick)

-------------------------------------------------------------------------------
Init ==
  /\ simTime = 0 /\ triggered = FALSE
  /\ cmdTime = 0 /\ simTick = 0 /\ answered = TRUE
  /\ spc = "trigger"
  /\ synchronous_mode \in StartModes
  /\ draw \in Plates
  /\ armor_state = [p \in Plates |-> 0]
  /\ armorList = <<[armorNum |-> draw, activeState |-> Waiting]>>
  /\ backTick = 0
  /\ isSucceed = FALSE
  /\ target = [p \in Plates |-> 0]
  /\ pc = "input"
  /\ elem = 0
  /\ resume = "scan"

(* A second passes on the wall clock: srand(time(NULL)) draws afresh.      *)
NewSecond(p) ==
  /\ draw # p
  /\ draw' = p
  /\ UNCHANGED <<simVars, armor_state, listVars, target, pc, elem, resume>>

rest == <<synchronous_mode, draw, armor_state, listVars, target, pc, elem, resume>>

(* The simulator steps once for a trigger.  (In asynchronous mode it steps *)
(* by itself, on a clock that nobody asks for.)                            *)
SimStep ==
  /\ triggered
  /\ Since(backTick, simTime) < MaxAge
  /\ Since(simTick, simTime) < MaxAge
  /\ simTime' = (simTime + 1) % TickMod
  /\ triggered' = FALSE
  /\ UNCHANGED <<cmdTime, simTick, answered, spc, rest>>

(* ComWithServer does none of this in asynchronous mode.                   *)
Sync(from, to) == synchronous_mode /\ spc = from /\ spc' = to

(* simxSynchronousTrigger: a trigger that is pending already stays one.    *)
Trigger ==
  /\ Sync("trigger", "ping")
  /\ triggered' = TRUE
  /\ UNCHANGED <<simTime, cmdTime, simTick, answered, rest>>

(* simxGetPingTime blocks for an answer, which carries the simulator's     *)
(* time, before or after the step; its result is not looked at.            *)
Ping ==
  /\ Sync("ping", "fetch")
  /\ cmdTime' = simTime
  /\ UNCHANGED <<simTime, triggered, simTick, answered, rest>>

PingTimesOut ==
  /\ Sync("ping", "stale")
  /\ UNCHANGED <<simTime, triggered, cmdTime, simTick, answered, rest>>

(* simxGetLastCmdTime.                                                     *)
Fetch ==
  /\ Sync("fetch", "trigger")
  /\ simTick' = cmdTime
  /\ answered' = TRUE
  /\ UNCHANGED <<simTime, triggered, cmdTime, rest>>

(* Without an answer it is the stamp of an earlier one, that of any value  *)
(* that a command of ComWithServer has streamed.                           *)
FetchStale ==
  /\ Sync("stale", "trigger")
  /\ \E lag \in 0 .. MaxAge : cmdTime' = (simTime - lag) % TickMod
  /\ simTick' = cmdTime'
  /\ answered' = FALSE
  /\ UNCHANGED <<simTime, triggered, rest>>

TaskSim == Trigger \/ Ping \/ PingTimesOut \/ Fetch \/ FetchStale

(* Mutant of Input: the test collision_state > 1 is dropped.               *)
InputUnguarded ==
  /\ pc = "input"
  /\ armor_state' \in [Plates -> 0 .. 2]
  /\ pc' = "scan"
  /\ elem' = 0
  /\ UNCHANGED <<simVars, draw, listVars, target, resume>>

(* The flags are whatever the simulator streams, and undefined (2 here)    *)
(* until its first answer: from such a flag on the old readings stay.      *)
Input ==
  /\ pc = "input"
  /\ \E flag \in [Plates -> 0 .. 2] :
       armor_state' = [p \in Plates |->
         IF \E q \in 0 .. p : flag[q] > 1 THEN armor_state[p] ELSE flag[p]]
  /\ pc' = "scan"
  /\ elem' = 0
  /\ UNCHANGED <<simVars, draw, listVars, target, resume>>

(* scan() is at its next element with a collision.                         *)
ScanAt(p) ==
  /\ pc = "scan"
  /\ p >= elem
  /\ armor_state[p] # 0
  /\ \A q \in elem .. p - 1 : armor_state[q] = 0
  /\ elem' = p + 1

(* Mutant of InTime: the age of the hit is not looked at.                  *)
InTimeAnyAge(p) == p = Back.armorNum

InTime(p) == p = Back.armorNum /\ SignedAge <= RESET_TIME

(* Mutants of Accept: the size of the list is not looked at before the     *)
(* next plate is drawn; no next plate is drawn.                            *)
AcceptAlwaysGenerates(p) ==
  /\ ScanAt(p)
  /\ InTime(p)
  /\ armorList' = [armorList EXCEPT ![Len(armorList)].activeState = Activated]
  /\ backTick' = getTick
  /\ pc' = "generate" /\ resume' = "scan"
  /\ UNCHANGED <<simVars, draw, armor_state, isSucceed, target>>

AcceptNoNext(p) ==
  /\ ScanAt(p)
  /\ InTime(p)
  /\ armorList' = [armorList EXCEPT ![Len(armorList)].activeState = Activated]
  /\ backTick' = getTick
  /\ isSucceed' = (Len(armorList) = RUNE_ARMOR_NUM)
  /\ UNCHANGED <<simVars, draw, armor_state, target, pc, resume>>

(* The waiting plate is hit in time: it turns activated, and either the    *)
(* list is full or the next plate has to be drawn.                         *)
Accept(p) ==
  /\ ScanAt(p)
  /\ InTime(p)
  /\ armorList' = [armorList EXCEPT ![Len(armorList)].activeState = Activated]
  /\ backTick' = getTick
  /\ IF Len(armorList) = RUNE_ARMOR_NUM
       THEN isSucceed' = TRUE /\ UNCHANGED <<pc, resume>>
       ELSE pc' = "generate" /\ resume' = "scan" /\ UNCHANGED isSucceed
  /\ UNCHANGED <<simVars, draw, armor_state, target>>

(* reset(): the list is emptied; generate() follows, then the caller.      *)
Reset(caller) ==
  /\ armorList' = << >>
  /\ pc' = "generate"
  /\ resume' = caller
  /\ UNCHANGED <<backTick, isSucceed>>

(* Any other hit, also one on a plate that is active already.              *)
Fail(p) ==
  /\ ScanAt(p)
  /\ ~InTime(p)
  /\ Reset("scan")
  /\ UNCHANGED <<simVars, draw, armor_state, target>>

(* Mutant of ScanEnd: no time-out.                                         *)
ScanEndNoTimeout ==
  /\ pc = "scan"
  /\ \A p \in Plates : p >= elem => armor_state[p] = 0
  /\ pc' = "light"
  /\ UNCHANGED <<simVars, draw, armor_state, listVars, target, elem, resume>>

(* The loop of scan() is over: the test for a rune left alone too long.    *)
ScanEnd ==
  /\ pc = "scan"
  /\ \A p \in Plates : p >= elem => armor_state[p] = 0
  /\ IF UnsignedAge > RESET_TIME
       THEN Reset("light")
       ELSE pc' = "light" /\ UNCHANGED <<listVars, resume>>
  /\ elem' = 0
  /\ UNCHANGED <<simVars, draw, armor_state, target>>

(* Mutant of Generate: find_if is not consulted.                           *)
GenerateAnyPlate ==
  /\ pc = "generate"
  /\ armorList' = Append(armorList, [armorNum |-> draw, activeState |-> Waiting])
  /\ backTick' = getTick
  /\ pc' = resume
  /\ UNCHANGED <<simVars, draw, armor_state, isSucceed, target, elem, resume>>

(* The iteration of generate() that leaves its loop.  Those before it draw *)
(* a listed plate and change nothing.                                      *)
Generate ==
  /\ pc = "generate"
  /\ draw \notin Listed
  /\ armorList' = Append(armorList, [armorNum |-> draw, activeState |-> Waiting])
  /\ backTick' = getTick
  /\ pc' = resume
  /\ resume' = "scan"
  /\ UNCHANGED <<simVars, draw, armor_state, isSucceed, target, elem>>

(* Mutant of LampOf: the branch for isSucceed is missing.                  *)
LampOfList(p) ==
  IF p \in Listed
    THEN armorList[CHOOSE k \in 1 .. Len(armorList) :
                     armorList[k].armorNum = p].activeState
    ELSE 0

(* light() and the loop that copies its result to the lamps.               *)
LampOf(p) ==
  IF isSucceed THEN Activated
  ELSE IF p \in Listed
       THEN armorList[CHOOSE k \in 1 .. Len(armorList) :
                        armorList[k].armorNum = p].activeState
       ELSE 0

LightUp ==
  /\ pc = "light"
  /\ target' = [p \in Plates |-> LampOf(p)]
  /\ pc' = "input"
  /\ UNCHANGED <<simVars, draw, armor_state, listVars, elem, resume>>

TaskReferee ==
  \/ Input
  \/ \E p \in Plates : Accept(p) \/ Fail(p)
  \/ ScanEnd
  \/ Generate
  \/ LightUp

Next == TaskReferee \/ TaskSim \/ SimStep \/ \E p \in Plates : NewSecond(p)

Spec == Init /\ [][Next]_vars

(* The scheduler serves Task_Referee and Task_Sim, which have the same     *)
(* priority, in turn, and no call of Task_Sim waits for ever (the ping     *)
(* times out); the simulator steps when it was triggered; the wall clock   *)
(* draws every plate again and again; and the busy wait of generate(),     *)
(* thousands of turns a second, sees a draw that would do before the       *)
(* second is over.                                                         *)
FairSpec ==
  /\ Spec
  /\ WF_vars(TaskReferee)
  /\ SF_vars(Generate)
  /\ WF_vars(TaskSim)
  /\ WF_vars(SimStep)
  /\ \A p \in Plates : WF_vars(NewSecond(p))
-------------------------------------------------------------------------------
(* Types. *)
TypeOK ==
  /\ simTime \in 0 .. TickMod - 1
  /\ triggered \in BOOLEAN
  /\ cmdTime \in 0 .. TickMod - 1
  /\ simTick \in 0 .. TickMod - 1
  /\ answered \in BOOLEAN
  /\ spc \in {"trigger", "ping", "fetch", "stale"}
  /\ synchronous_mode \in StartModes
  /\ draw \in Plates
  /\ armor_state \in [Plates -> 0 .. 1]
  /\ armorList \in Seq(Armor)
  /\ backTick \in 0 .. TickMod - 1
  /\ isSucceed \in BOOLEAN
  /\ target \in [Plates -> {0, Waiting, Activated}]
  /\ pc \in {"input", "scan", "generate", "light"}
  /\ elem \in 0 .. RUNE_ARMOR_NUM
  /\ resume \in {"scan", "light"}

(* The shape of armorList: no plate twice (so it never outgrows its        *)
(* capacity), only the last entry may still wait, and it does whenever     *)
(* generate() is not running, unless the rune is complete.                 *)
Distinct ==
  \A j, k \in 1 .. Len(armorList) :
    armorList[j].armorNum = armorList[k].armorNum => j = k

OnlyBackWaits ==
  \A k \in 1 .. Len(armorList) - 1 : armorList[k].activeState = Activated

RoomToGenerate ==
  pc = "generate" =>
    /\ Len(armorList) < RUNE_ARMOR_NUM
    /\ armorList # << >> => Back.activeState = Activated

BackWaits ==
  pc # "generate" =>
    /\ armorList # << >>
    /\ Len(armorList) <= RUNE_ARMOR_NUM
    /\ Back.activeState = Activated =>
         isSucceed /\ Len(armorList) = RUNE_ARMOR_NUM

ListOK == Distinct /\ OnlyBackWaits /\ RoomToGenerate /\ BackWaits

(* The busy wait of generate() can always end: some plate is not listed.   *)
(* (The "infinite loop bug" of the change log of rune_ctrl.cpp is the      *)
(* opposite: drawing the next plate when the list is full.)                *)
GenerateCanFinish == pc = "generate" => \E p \in Plates : p \notin Listed

ActivatedPlates ==
  {armorList[k].armorNum :
     k \in {j \in 1 .. Len(armorList) : armorList[j].activeState = Activated}}

LampsOn == \E p \in Plates : target[p] # 0

(* What the lamps show between two rounds of Task_Referee is the state of  *)
(* the game, whatever hits, failures and delays the round went through:    *)
(* the plates won so far, and exactly one target until the rune is done.   *)
LampsTellTheGame ==
  (pc = "input" /\ LampsOn) =>
    IF isSucceed
      THEN \A p \in Plates : target[p] = Activated
      ELSE /\ {p \in Plates : target[p] = Activated} = ActivatedPlates
           /\ {p \in Plates : target[p] = Waiting} = {Back.armorNum}

(* A waiting plate turns activated in this step. *)
NewlyActive ==
  \E k \in 1 .. Len(armorList) :
    /\ armorList[k].activeState = Waiting
    /\ k <= Len(armorList')
    /\ armorList'[k].activeState = Activated

(* In synchronous mode, with a stamp from an answered ping, a plate is won *)
(* at most RESET_TIME and two ticks after it was lit, on the simulator's   *)
(* own clock: it may have stepped after the ping, and once more since.     *)
LateHitNeverCounts ==
  [][synchronous_mode /\ answered /\ NewlyActive
       => Since(backTick, simTime) <= RESET_TIME + 2]_vars

(* "1, waiting to be activated; 2, has been activated" (rune_ctrl.h): once *)
(* the lamps are on, a plate is won only while its lamp shows it waiting.  *)
ShownBeforeActive ==
  [][LampsOn /\ NewlyActive => target[Back.armorNum] = Waiting]_vars

(* In synchronous mode a rune with some plates won is not left like that   *)
(* for ever, if the simulator answers from some time on: it is completed,  *)
(* or the time-out of scan() takes it back.                                *)
SlowRuneRestarts ==
  (synchronous_mode /\ <>[]answered) =>
    (ActivatedPlates # {} /\ ~isSucceed) ~> (ActivatedPlates = {} \/ isSucceed)

(* The refinement: a complete rune stays complete for the player (light()  *)
(* shows nothing else), although scan() goes on underneath.                *)
NoPlate == -1
Won == IF isSucceed THEN Plates ELSE ActivatedPlates
Lit == IF ~isSucceed /\ armorList # << >> /\ Back.activeState = Waiting
         THEN Back.armorNum ELSE NoPlate

Game == INSTANCE RuneGame WITH
  None <- NoPlate, activated <- Won, waiting <- Lit, done <- isSucceed

(* Every step of the code is a step of the game or invisible to it.        *)
GameSafe == Game!Safe

(* ... and the next target always appears in the end.                      *)
GameSpec == Game!Spec
===============================================================================
