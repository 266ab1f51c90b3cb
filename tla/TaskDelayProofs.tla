---------------------------- MODULE TaskDelayProofs ----------------------------
(***************************************************************************)
(* Theorems about TaskDelay: for every range of the tick counter, the two  *)
(* delayed lists and the wake times that wrap implement a timer that knows *)
(* no counter.                                                             *)
(***************************************************************************)
EXTENDS TaskDelay, TLAPS

(* When ticks wait, and how late a ready task may be once they are taken.  *)
Pending ==
  /\ phase = "run" => uxPendedTicks = 0
  /\ phase = "unwind" => uxPendedTicks > 0
  /\ \A t \in Tasks \ Blocked : Late(t) + uxPendedTicks <= MAX_DELAY

Inv == TypeOK /\ ListsOK /\ Pending

(* Nobody is a whole turn late before a tick that the scheduler takes.     *)
Able == \A t \in Tasks \ Blocked : Late(t) < MAX_DELAY

LEMMA LateType ==
  ASSUME TypeOK, NEW t \in Tasks
  PROVE  Late(t) \in 0 .. MAX_DELAY
BY TaskDelayAssumption DEF TaskDelayAssumption, TypeOK, Late

LEMMA TickTypes ==
  ASSUME Inv, IncrementTick
  PROVE  /\ xTickCount' \in 0 .. MAX_DELAY
         /\ xNextTaskUnblockTime' \in 0 .. MAX_DELAY
         /\ delayed' \subseteq Tasks
         /\ overflow' \subseteq Tasks
         /\ wakeTime' = wakeTime
<1> USE TaskDelayAssumption DEF TaskDelayAssumption, Inv, TypeOK
<1>1. wakeTime' = wakeTime /\ xTickCount' \in 0 .. MAX_DELAY
  BY DEF IncrementTick, Wrapped
<1>2. ASSUME NEW list \in SUBSET Tasks, NEW v, IsHeadTime(list, v)
      PROVE  v \in 0 .. MAX_DELAY
  BY <1>2 DEF IsHeadTime
<1>3. ASSUME NEW list \in SUBSET Tasks, NEW now, NEW next \in 0 .. MAX_DELAY,
             Unblock(list, now, next)
      PROVE  /\ delayed' \subseteq Tasks
             /\ xNextTaskUnblockTime' \in 0 .. MAX_DELAY
  <2>1. CASE now >= next
    <3>1. /\ delayed' = list \ Expired(list, now)
          /\ IsHeadTime(list \ Expired(list, now), xNextTaskUnblockTime')
      BY <1>3, <2>1 DEF Unblock
    <3>2. list \ Expired(list, now) \in SUBSET Tasks
      OBVIOUS
    <3> QED BY <3>1, <3>2, <1>2
  <2>2. CASE ~(now >= next)
    BY <1>3, <2>2 DEF Unblock
  <2> QED BY <2>1, <2>2
<1>4. delayed' \subseteq Tasks /\ xNextTaskUnblockTime' \in 0 .. MAX_DELAY
  <2>1. CASE Unblock(delayed, Wrapped(xTickCount + 1), xNextTaskUnblockTime)
    BY <2>1, <1>3
  <2>2. CASE \E next \in 0 .. MAX_DELAY : Unblock(overflow, Wrapped(xTickCount + 1), next)
    BY <2>2, <1>3
  <2> QED BY <2>1, <2>2 DEF IncrementTick
<1>5. overflow' \subseteq Tasks
  BY DEF IncrementTick
<1> QED BY <1>1, <1>4, <1>5

(* Which tasks a tick leaves in the lists.                                 *)
LEMMA TickLists ==
  ASSUME Inv, IncrementTick
  PROVE  \/ /\ xTickCount < MAX_DELAY
            /\ xTickCount' = xTickCount + 1
            /\ delayed' = {t \in delayed : wakeTime[t] > xTickCount'}
            /\ overflow' = overflow
            /\ \A t \in delayed' : xNextTaskUnblockTime' <= wakeTime[t]
         \/ /\ xTickCount = MAX_DELAY
            /\ xTickCount' = 0
            /\ delayed = {}
            /\ delayed' = {t \in overflow : wakeTime[t] > 0}
            /\ overflow' = {}
            /\ \A t \in delayed' : xNextTaskUnblockTime' <= wakeTime[t]
<1> USE TaskDelayAssumption DEF TaskDelayAssumption, Inv, TypeOK
<1>1. ASSUME NEW list \in SUBSET Tasks, NEW now \in 0 .. MAX_DELAY,
             NEW next \in 0 .. MAX_DELAY, Unblock(list, now, next),
             \A t \in list : next <= wakeTime[t]
      PROVE  /\ delayed' = {t \in list : wakeTime[t] > now}
             /\ \A t \in delayed' : xNextTaskUnblockTime' <= wakeTime[t]
  <2>1. CASE now >= next
    <3>1. delayed' = list \ Expired(list, now)
      BY <1>1, <2>1 DEF Unblock
    <3>2. delayed' = {t \in list : wakeTime[t] > now}
      BY <3>1 DEF Expired
    <3>3. IsHeadTime(delayed', xNextTaskUnblockTime')
      BY <1>1, <2>1, <3>1 DEF Unblock
    <3>4. \A t \in delayed' : xNextTaskUnblockTime' <= wakeTime[t]
      BY <3>2, <3>3 DEF IsHeadTime
    <3> QED BY <3>2, <3>4
  <2>2. CASE ~(now >= next)
    BY <1>1, <2>2 DEF Unblock
  <2> QED BY <2>1, <2>2
<1>2. CASE Wrapped(xTickCount + 1) # 0
  <2>1. /\ xTickCount < MAX_DELAY /\ xTickCount' = xTickCount + 1
        /\ Wrapped(xTickCount + 1) = xTickCount'
    BY <1>2 DEF IncrementTick, Wrapped
  <2>2. /\ Unblock(delayed, xTickCount', xNextTaskUnblockTime)
        /\ overflow' = overflow
    BY <1>2, <2>1 DEF IncrementTick
  <2> QED BY <2>1, <2>2, <1>1 DEF ListsOK
<1>3. CASE Wrapped(xTickCount + 1) = 0
  <2>1. /\ xTickCount = MAX_DELAY /\ xTickCount' = 0
        /\ Wrapped(xTickCount + 1) = xTickCount'
    BY <1>3 DEF IncrementTick, Wrapped
  <2>2. delayed = {}
    BY <2>1 DEF ListsOK
  <2>3. PICK next \in 0 .. MAX_DELAY :
          IsHeadTime(overflow, next) /\ Unblock(overflow, 0, next)
    BY <1>3 DEF IncrementTick
  <2>4. \A t \in overflow : next <= wakeTime[t]
    BY <2>3 DEF IsHeadTime
  <2>5. /\ delayed' = {t \in overflow : wakeTime[t] > 0}
        /\ \A t \in delayed' : xNextTaskUnblockTime' <= wakeTime[t]
    BY <2>3, <2>4, <1>1
  <2>6. overflow' = {}
    BY <1>3, <2>2 DEF IncrementTick
  <2> QED BY <2>1, <2>2, <2>5, <2>6
<1> QED BY <1>2, <1>3

(* A tick brings every due time nearer by one, and wakes who has reached   *)
(* it.                                                                     *)
LEMMA TickDue ==
  ASSUME Inv, IncrementTick, Able, NEW t \in Tasks
  PROVE  /\ Due(t)' = Due(t) - 1
         /\ t \in Blocked' <=> t \in Blocked /\ Due(t)' > 0
         /\ t \notin Blocked' => Late(t)' \in Nat /\ Due(t)' = 0 - Late(t)'
<1> USE TaskDelayAssumption DEF TaskDelayAssumption, Inv, TypeOK
<1>1. /\ wakeTime' = wakeTime /\ xTickCount' \in 0 .. MAX_DELAY
      /\ wakeTime[t] \in 0 .. MAX_DELAY
  BY TickTypes
<1>2. CASE t \in delayed
  BY <1>1, <1>2, TickLists DEF ListsOK, Due, Blocked, Late
<1>3. CASE t \in overflow
  BY <1>1, <1>3, TickLists DEF ListsOK, Due, Blocked, Late
<1>4. CASE t \notin Blocked
  <2>1. Late(t) < MAX_DELAY
    BY <1>4 DEF Able
  <2>2. t \notin Blocked' /\ t \notin delayed /\ t \notin overflow
    BY <1>4, TickLists DEF Blocked
  <2>3. Late(t)' = Late(t) + 1
    BY <1>1, <2>1, TickLists DEF Late
  <2> QED BY <1>1, <2>2, <2>3, LateType DEF Due, Blocked
<1> QED BY <1>2, <1>3, <1>4 DEF Blocked

(* What a call of vTaskDelayUntil does to the due time of its task.        *)
LEMMA CallDue ==
  ASSUME Inv, NEW t \in Tasks, NEW inc \in Increments, DelayUntil(t, inc)
  PROVE  /\ Due(t)' = Due(t) + inc
         /\ Blocked' = IF Due(t) + inc > 0 THEN Blocked \cup {t} ELSE Blocked
         /\ t \notin Blocked' => Late(t)' = Late(t) - inc
         /\ TypeOK'
         /\ ListsOK'
<1> USE TaskDelayAssumption DEF TaskDelayAssumption, Inv, TypeOK
<1> DEFINE wake == Wrapped(wakeTime[t] + inc)
<1>1. /\ wakeTime[t] \in 0 .. MAX_DELAY
      /\ inc \in 1 .. MAX_DELAY
      /\ wake \in 0 .. MAX_DELAY
      /\ \/ wake = wakeTime[t] + inc
         \/ wake = wakeTime[t] + inc - (MAX_DELAY + 1) /\ wake < wakeTime[t]
  BY DEF Wrapped
<1>2. /\ t \notin Blocked /\ t \notin delayed /\ t \notin overflow
      /\ Due(t) = 0 - Late(t)
      /\ xTickCount' = xTickCount /\ uxPendedTicks' = uxPendedTicks
      /\ phase' = "suspended"
      /\ wakeTime' = [wakeTime EXCEPT ![t] = wake]
  BY DEF DelayUntil, Blocked, Due
<1>3. ShouldDelay(wakeTime[t], wake) <=> inc > Late(t)
  BY <1>1 DEF ShouldDelay, Late
<1> HIDE DEF wake
<1>4. CASE inc > Late(t)
  <2>1. AddToDelayedList(t, wake)
    BY <1>3, <1>4 DEF DelayUntil, wake
  <2>2. wake # xTickCount
    BY <1>1, <1>4 DEF Late
  <2>3. CASE wake < xTickCount
    <3>1. /\ overflow' = overflow \cup {t} /\ delayed' = delayed
          /\ xNextTaskUnblockTime' = xNextTaskUnblockTime
      BY <2>1, <2>3 DEF AddToDelayedList, Overflows
    <3>2. Due(t)' = Due(t) + inc
      BY <1>1, <1>2, <1>4, <2>3, <3>1 DEF Due, Late
    <3>3. TypeOK' /\ ListsOK'
      BY <1>1, <1>2, <2>3, <3>1 DEF ListsOK
    <3>4. Blocked' = Blocked \cup {t}
      BY <3>1 DEF Blocked
    <3> QED BY <1>1, <1>2, <1>4, <3>2, <3>3, <3>4, LateType
  <2>4. CASE wake > xTickCount
    <3>1. /\ delayed' = delayed \cup {t} /\ overflow' = overflow
          /\ xNextTaskUnblockTime' = SoonerOf(wake)
      BY <1>1, <2>1, <2>4 DEF AddToDelayedList, Overflows
    <3>2. Due(t)' = Due(t) + inc
      BY <1>1, <1>2, <1>4, <2>4, <3>1 DEF Due, Late
    <3>3. TypeOK' /\ ListsOK'
      BY <1>1, <1>2, <2>4, <3>1 DEF ListsOK, SoonerOf
    <3>4. Blocked' = Blocked \cup {t}
      BY <3>1 DEF Blocked
    <3> QED BY <1>1, <1>2, <1>4, <3>2, <3>3, <3>4, LateType
  <2> QED BY <1>1, <2>2, <2>3, <2>4
<1>5. CASE ~(inc > Late(t))
  <2>1. UNCHANGED <<delayed, overflow, xNextTaskUnblockTime>>
    BY <1>3, <1>5 DEF DelayUntil, wake
  <2>2. Late(t)' = Late(t) - inc
    BY <1>1, <1>2, <1>5 DEF Late
  <2>3. Due(t)' = Due(t) + inc
    BY <1>1, <1>2, <2>1, <2>2, LateType DEF Due
  <2>4. TypeOK' /\ ListsOK'
    BY <1>1, <1>2, <2>1 DEF ListsOK
  <2>5. Blocked' = Blocked
    BY <2>1 DEF Blocked
  <2> QED BY <1>1, <1>2, <1>5, <2>2, <2>3, <2>4, <2>5, LateType
<1> QED BY <1>4, <1>5

-------------------------------------------------------------------------------
LEMMA InvStep ==
  ASSUME Inv, [Next]_vars
  PROVE  Inv'
<1> USE TaskDelayAssumption DEF TaskDelayAssumption
<1>1. ASSUME IncrementTick, Able,
             phase' \in {"run", "unwind"}, uxPendedTicks' \in 0 .. MaxPended,
             phase' = "run" => uxPendedTicks' = 0,
             phase' = "unwind" => uxPendedTicks' > 0,
             \A t \in Tasks \ Blocked : Late(t) + uxPendedTicks' < MAX_DELAY
      PROVE  Inv'
  <2>1. TypeOK'
    BY <1>1, TickTypes DEF Inv, TypeOK
  <2>2. ListsOK'
    BY <1>1, TickTypes, TickLists DEF Inv, TypeOK, ListsOK
  <2>3. ASSUME NEW t \in Tasks, t \notin Blocked'
        PROVE  Late(t)' + uxPendedTicks' <= MAX_DELAY
    <3>1. CASE t \in Blocked
      <4>1. Due(t)' = 0 /\ Late(t)' = 0
        <5>1. Due(t) > 0 /\ Due(t) \in Int
          BY <3>1, <2>3 DEF Due, Blocked, Inv, TypeOK, ListsOK
        <5> QED BY <5>1, <3>1, <2>3, <1>1, TickDue
      <4>2. uxPendedTicks' \in 0 .. MAX_DELAY
        BY <1>1
      <4> HIDE TaskDelayAssumption
      <4> QED BY <4>1, <4>2
    <3>2. CASE t \notin Blocked
      <4>1. Due(t) = 0 - Late(t)
        BY <3>2 DEF Due, Blocked
      <4>2. Late(t)' = Late(t) + 1
        BY <4>1, <2>3, <1>1, TickDue, LateType DEF Inv
      <4> QED BY <4>2, <3>2, <1>1, LateType DEF Inv
    <3> QED BY <3>1, <3>2
  <2> QED BY <1>1, <2>1, <2>2, <2>3 DEF Inv, Pending
<1>2. CASE Tick
  <2>1. uxPendedTicks = 0 /\ uxPendedTicks' = 0 /\ phase' = "run" /\ IncrementTick
    BY <1>2 DEF Tick, Inv, Pending
  <2>2. \A t \in Tasks \ Blocked : Late(t) + uxPendedTicks' < MAX_DELAY
    BY <1>2, <2>1 DEF Tick, Punctual
  <2>3. Able
    BY <2>1, <2>2, LateType DEF Able, Inv
  <2> QED BY <1>1, <2>1, <2>2, <2>3
<1>3. CASE UnwindTick
  <2>1. /\ uxPendedTicks \in 1 .. MaxPended /\ uxPendedTicks' = uxPendedTicks - 1
        /\ IncrementTick
        /\ phase' = IF uxPendedTicks = 1 THEN "run" ELSE "unwind"
    BY <1>3 DEF UnwindTick, Inv, Pending, TypeOK
  <2>2. \A t \in Tasks \ Blocked : Late(t) + uxPendedTicks' < MAX_DELAY
    BY <2>1, LateType DEF Inv, Pending
  <2>3. Able
    BY <2>1, <2>2, LateType DEF Able, Inv
  <2> QED BY <1>1, <2>1, <2>2, <2>3
<1>4. CASE PendTick
  BY <1>4, LateType DEF PendTick, Punctual, kernelVars, Inv, TypeOK, ListsOK, Pending,
     Blocked, Late
<1>5. ASSUME NEW t \in Tasks, Call(t)
      PROVE  Inv'
  <2>1. PICK inc \in Increments : DelayUntil(t, inc)
    BY <1>5 DEF Call
  <2>2. TypeOK' /\ ListsOK'
    BY <2>1, CallDue
  <2>3. ASSUME NEW u \in Tasks, u \notin Blocked'
        PROVE  Late(u)' + uxPendedTicks' <= MAX_DELAY
    <3>1. uxPendedTicks' = 0
      BY <2>1 DEF DelayUntil, Inv, Pending
    <3> QED BY <3>1, <2>2, LateType DEF TypeOK, Late
  <2> QED BY <2>1, <2>2, <2>3 DEF DelayUntil, Inv, Pending
<1>6. CASE ResumeAll
  BY <1>6 DEF ResumeAll, kernelVars, Inv, TypeOK, ListsOK, Pending, Blocked, Late
<1>7. CASE UNCHANGED vars
  BY <1>7 DEF vars, kernelVars, Inv, TypeOK, ListsOK, Pending, Blocked, Late
<1> QED BY <1>2, <1>3, <1>4, <1>5, <1>6, <1>7 DEF Next

LEMMA InvInit == Init => Inv
BY TaskDelayAssumption
   DEF TaskDelayAssumption, Init, Inv, TypeOK, ListsOK, Pending, Blocked, Late

LEMMA TaskDelayInv == Spec => []Inv
BY InvInit, InvStep, PTL DEF Spec

(* Type correctness of the kernel's clock, for every range of the counter  *)
(* and every set of tasks and increments.                                  *)
THEOREM TaskDelayTypeOK == Spec => []TypeOK
<1>1. Inv => TypeOK
  BY DEF Inv
<1> QED BY <1>1, TaskDelayInv, PTL

(* Every sleeping task is in the list of the turn in which it is to wake.  *)
THEOREM TaskDelayListsOK == Spec => []ListsOK
<1>1. Inv => ListsOK
  BY DEF Inv
<1> QED BY <1>1, TaskDelayInv, PTL

(* The configASSERT of taskSWITCH_DELAYED_LISTS never fires.               *)
THEOREM TaskDelayNothingLeftBehind == Spec => []NothingLeftBehind
<1>1. Inv => NothingLeftBehind
  BY DEF Inv, TypeOK, ListsOK, NothingLeftBehind
<1> QED BY <1>1, TaskDelayInv, PTL

-------------------------------------------------------------------------------
LEMMA TimerStep ==
  ASSUME Inv, [Next]_vars
  PROVE  [Timer!Next]_<<[t \in Tasks |-> Due(t)], Blocked>>
<1> USE DEF Timer!Next
<1> DEFINE d == [t \in Tasks |-> Due(t)]
<1>1. ASSUME IncrementTick, Able
      PROVE  Timer!Tick
  <2>1. d' = [t \in Tasks |-> d[t] - 1]
    BY <1>1, TickDue
  <2>2. Blocked \subseteq Tasks /\ Blocked' \subseteq Tasks
    BY <1>1, TickTypes DEF Blocked, Inv, TypeOK
  <2>3. Blocked' = {t \in Blocked : d'[t] > 0}
    <3>1. \A t \in Tasks : t \in Blocked' <=> t \in Blocked /\ Due(t)' > 0
      BY <1>1, TickDue
    <3>2. \A t \in Tasks : d'[t] = Due(t)'
      OBVIOUS
    <3> QED BY <2>2, <3>1, <3>2
  <2> QED BY <2>1, <2>3 DEF Timer!Tick
<1>2. CASE Tick
  <2>1. \A t \in Tasks \ Blocked : Late(t) < MAX_DELAY
    BY <1>2, LateType, TaskDelayAssumption
       DEF TaskDelayAssumption, Tick, Punctual, Inv, TypeOK
  <2> QED BY <1>1, <1>2, <2>1 DEF Tick, Able
<1>3. CASE UnwindTick
  <2>1. \A t \in Tasks \ Blocked : Late(t) < MAX_DELAY
    BY <1>3, LateType, TaskDelayAssumption
       DEF TaskDelayAssumption, UnwindTick, Inv, TypeOK, Pending
  <2> QED BY <1>1, <1>3, <2>1 DEF UnwindTick, Able
<1>4. ASSUME NEW t \in Tasks, Call(t)
      PROVE  Timer!Next
  <2>1. PICK inc \in Increments : DelayUntil(t, inc)
    BY <1>4 DEF Call
  <2>2. \A u \in Tasks \ {t} : Due(u)' = Due(u)
    BY <2>1 DEF DelayUntil, AddToDelayedList, Due, Late, Inv, TypeOK
  <2>3. d' = [d EXCEPT ![t] = @ + inc]
    BY <2>1, <2>2, CallDue
  <2>4. Blocked' = IF d[t] + inc > 0 THEN Blocked \cup {t} ELSE Blocked
    BY <2>1, CallDue
  <2>5. t \notin Blocked
    BY <2>1 DEF DelayUntil
  <2>6. Timer!Call(t, inc)
    BY <2>3, <2>4, <2>5 DEF Timer!Call
  <2> QED BY <2>6
<1>5. ASSUME PendTick \/ ResumeAll \/ UNCHANGED vars
      PROVE  UNCHANGED <<d, Blocked>>
  BY <1>5 DEF PendTick, ResumeAll, vars, kernelVars, Due, Late, Blocked
<1> QED BY <1>1, <1>2, <1>3, <1>4, <1>5 DEF Next

(* The kernel's lists and wrapping times implement the timer without a     *)
(* counter: no task wakes early or late, a late one catches up on its own  *)
(* grid, and a call sleeps exactly when its due time is still to come.     *)
THEOREM TaskDelayImplementsTimer == Spec => TimerSpec
<1>1. Init => Timer!Init
  <2>1. ASSUME Init, NEW t \in Tasks
        PROVE  Due(t) = 0
    <3>1. wakeTime[t] = 0 /\ xTickCount = 0 /\ t \notin delayed /\ t \notin overflow
      BY <2>1 DEF Init
    <3>2. Due(t) = 0 - Late(t)
      BY <3>1 DEF Due
    <3>3. Late(t) = 0
      BY <3>1 DEF Late
    <3> QED BY <3>2, <3>3
  <2> QED BY <2>1 DEF Init, Timer!Init, Blocked
<1> QED BY <1>1, TimerStep, TaskDelayInv, PTL DEF Spec, TimerSpec, Timer!Spec
===============================================================================
