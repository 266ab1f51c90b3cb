---------------------------- MODULE VisionLinkProofs ----------------------------
(***************************************************************************)
(* What VisionLink keeps through its races, for every number of packs.     *)
(*                                                                         *)
(* The invariant orders the numbers of the buffers along the path:         *)
(*                                                                         *)
(*   applied <= pcRxPack <= captured < value in flight < packs announced   *)
(*                                                                         *)
(* (InFlightFresh, CopiesBehind).  A lost notification skips numbers, a    *)
(* torn copy mixes them, none turns them round.                            *)
(***************************************************************************)
EXTENDS VisionLink, TLAPS

IInv == TypeOK /\ InFlightFresh /\ CopiesBehind

-------------------------------------------------------------------------------
(* The invariant holds at the start.                                       *)
LEMMA InitIInv == Init => IInv
<1> SUFFICES ASSUME Init PROVE IInv OBVIOUS
<1> USE DEF Init, NULL, Mouse
<1>1. TypeOK BY DEF TypeOK
<1>2. InFlightFresh BY DEF InFlightFresh, Fresh
<1>3. CopiesBehind BY DEF CopiesBehind, Fields, Aim, Mode, Fire, Speed
<1> QED BY <1>1, <1>2, <1>3 DEF IInv

(* The steps of the listener: what it announces is the newest.             *)
LEMMA ListenerIInv ==
  ASSUME IInv, Listener
  PROVE  IInv'
<1> USE DEF IInv
<1>1. UNCHANGED <<readerVars, infantryVars, handle>>
  BY DEF Listener, Callback, NotifyMark, NotifyStore
<1>2. CopiesBehind' BY <1>1 DEF CopiesBehind, readerVars, infantryVars
<1>3. CASE Callback
  <2>1. packs \in Nat /\ packs' = packs + 1 BY <1>3 DEF Callback, TypeOK
  <2>2. sof' \subseteq 1 .. packs'
    BY <1>3, <2>1 DEF Callback, TypeOK
  <2>3. TypeOK'
    BY <1>1, <1>3, <2>1, <2>2
    DEF Callback, TypeOK, readerVars, infantryVars, notifyVars
  <2>4. InFlightFresh'
    BY <1>1, <1>3, <2>1
    DEF Callback, TypeOK, InFlightFresh, Fresh, readerVars, notifyVars
  <2> QED BY <1>2, <2>3, <2>4
<1>4. CASE NotifyMark
  <2>1. TypeOK'
    BY <1>1, <1>4 DEF NotifyMark, TypeOK, readerVars, infantryVars
  <2>2. InFlightFresh'
    BY <1>1, <1>4 DEF NotifyMark, InFlightFresh, Fresh, readerVars
  <2> QED BY <1>2, <2>1, <2>2
<1>5. CASE NotifyStore
  <2>1. TypeOK'
    BY <1>1, <1>5 DEF NotifyStore, TypeOK, readerVars, infantryVars
  <2>2. InFlightFresh'
    BY <1>1, <1>5 DEF NotifyStore, TypeOK, InFlightFresh, Fresh, readerVars
  <2> QED BY <1>2, <2>1, <2>2
<1> QED BY <1>3, <1>4, <1>5 DEF Listener

(* The steps of xTaskNotifyWait and of the task around it.                 *)
LEMMA WaitIInv ==
  ASSUME IInv,
         \/ WaitEnter \/ WaitLoad \/ WaitStore \/ WaitMark
         \/ WaitRead \/ WaitCheck \/ WaitClear \/ Wake \/ CreateTask
  PROVE  IInv'
<1> USE DEF IInv, listenerVars, notifyVars, infantryVars
<1>1. CASE WaitEnter
  <2>1. TypeOK' BY <1>1 DEF WaitEnter, TypeOK
  <2>2. InFlightFresh' BY <1>1 DEF WaitEnter, TypeOK, InFlightFresh, Fresh
  <2>3. CopiesBehind' BY <1>1 DEF WaitEnter, CopiesBehind
  <2> QED BY <2>1, <2>2, <2>3
<1>2. CASE WaitLoad
  <2>1. TypeOK' BY <1>2 DEF WaitLoad, TypeOK
  <2>2. InFlightFresh' BY <1>2 DEF WaitLoad, TypeOK, InFlightFresh, Fresh
  <2>3. CopiesBehind' BY <1>2 DEF WaitLoad, CopiesBehind
  <2> QED BY <2>1, <2>2, <2>3
<1>3. CASE WaitStore
  <2>1. TypeOK' BY <1>3 DEF WaitStore, TypeOK
  <2>2. InFlightFresh' BY <1>3 DEF WaitStore, TypeOK, InFlightFresh, Fresh, NULL
  <2>3. CopiesBehind' BY <1>3 DEF WaitStore, CopiesBehind
  <2> QED BY <2>1, <2>2, <2>3
<1>4. CASE WaitMark
  <2>1. TypeOK' BY <1>4 DEF WaitMark, TypeOK
  <2>2. InFlightFresh' BY <1>4 DEF WaitMark, TypeOK, InFlightFresh, Fresh
  <2>3. CopiesBehind' BY <1>4 DEF WaitMark, CopiesBehind
  <2> QED BY <2>1, <2>2, <2>3
<1>5. CASE WaitRead
  <2>1. TypeOK' BY <1>5 DEF WaitRead, TypeOK
  <2>2. InFlightFresh' BY <1>5 DEF WaitRead, TypeOK, InFlightFresh, Fresh
  <2>3. CopiesBehind' BY <1>5 DEF WaitRead, CopiesBehind
  <2> QED BY <2>1, <2>2, <2>3
<1>6. CASE WaitCheck
  <2>1. TypeOK' BY <1>6 DEF WaitCheck, TypeOK
  <2>2. InFlightFresh' BY <1>6 DEF WaitCheck, TypeOK, InFlightFresh, Fresh
  <2>3. CopiesBehind' BY <1>6 DEF WaitCheck, CopiesBehind
  <2> QED BY <2>1, <2>2, <2>3
<1>7. CASE WaitClear
  <2>1. TypeOK' BY <1>7 DEF WaitClear, TypeOK
  <2>2. InFlightFresh' BY <1>7 DEF WaitClear, TypeOK, InFlightFresh, Fresh, NULL
  <2>3. CopiesBehind' BY <1>7 DEF WaitClear, CopiesBehind
  <2> QED BY <2>1, <2>2, <2>3
<1>8. CASE Wake
  <2>1. TypeOK' BY <1>8 DEF Wake, TypeOK
  <2>2. InFlightFresh' BY <1>8 DEF Wake, TypeOK, InFlightFresh, Fresh
  <2>3. CopiesBehind' BY <1>8 DEF Wake, CopiesBehind
  <2> QED BY <2>1, <2>2, <2>3
<1>9. CASE CreateTask
  <2>1. TypeOK' BY <1>9 DEF CreateTask, TypeOK
  <2>2. InFlightFresh' BY <1>9 DEF CreateTask, TypeOK, InFlightFresh, Fresh
  <2>3. CopiesBehind' BY <1>9 DEF CreateTask, CopiesBehind
  <2> QED BY <2>1, <2>2, <2>3
<1> QED BY <1>1, <1>2, <1>3, <1>4, <1>5, <1>6, <1>7, <1>8, <1>9

(* The call returns: what it hands over leaves only newer ones behind.     *)
LEMMA WaitReturnIInv ==
  ASSUME IInv, WaitReturn
  PROVE  IInv'
<1> USE DEF IInv, listenerVars, infantryVars
<1>1. CASE rpc = "miss"
  BY <1>1 DEF WaitReturn, TypeOK, InFlightFresh, CopiesBehind, Fresh
<1>2. CASE rpc = "hit" /\ pc_pack = NULL
  BY <1>2 DEF WaitReturn, TypeOK, InFlightFresh, CopiesBehind, Fresh
<1>3. CASE rpc = "hit" /\ pc_pack # NULL
  <2>1. /\ captured' = pc_pack /\ captured < pc_pack /\ calls' = calls + 1
        /\ rpc' \in {"online", "delay"}
    BY <1>3 DEF WaitReturn, InFlightFresh, Fresh
  <2>2. UNCHANGED <<packs, sof, lpc, ulNotifiedValue, old, pc_pack, pcStatus,
                    pcRxPack, toCopy, ipc, aim, applied, handle>>
        /\ ucNotifyState' = "NOT_WAITING"
    BY <1>3 DEF WaitReturn
  <2>3. TypeOK' BY <2>1, <2>2 DEF TypeOK
  <2>4. InFlightFresh'
    BY <1>3, <2>1, <2>2 DEF TypeOK, InFlightFresh, Fresh, NULL
  <2>5. \A f \in Fields : pcRxPack[f] \in Nat /\ captured \in Nat
                         /\ pc_pack \in Nat
    BY DEF TypeOK
  <2>6. CopiesBehind' BY <2>1, <2>2, <2>5 DEF CopiesBehind
  <2> QED BY <2>3, <2>4, <2>6
<1> QED BY <1>1, <1>2, <1>3 DEF WaitReturn

(* dataCapture copies the buffer that was taken last.                      *)
LEMMA CaptureIInv ==
  ASSUME IInv, CaptureStatus \/ \E f \in Fields : CaptureField(f)
  PROVE  IInv'
<1> USE DEF IInv, listenerVars, notifyVars, infantryVars
<1>1. CASE CaptureStatus
  BY <1>1 DEF CaptureStatus, TypeOK, InFlightFresh, CopiesBehind, Fresh
<1>2. ASSUME NEW f \in Fields, CaptureField(f) PROVE IInv'
  <2>1. pc_pack = captured /\ rpc = "copy" /\ rpc' \in {"copy", "delay"}
    BY <1>2 DEF CaptureField, CopiesBehind
  <2>2. UNCHANGED <<packs, sof, lpc, ulNotifiedValue, ucNotifyState, old,
                    pc_pack, captured, calls, pcStatus, ipc, aim, applied,
                    handle>>
    BY <1>2 DEF CaptureField
  <2>3. \A g \in Fields :
          pcRxPack'[g] = IF g = f THEN captured ELSE pcRxPack[g]
    BY <1>2, <2>1 DEF CaptureField, TypeOK
  <2>4. pcRxPack' \in [Fields -> Nat] /\ toCopy' \subseteq Fields
    BY <1>2 DEF CaptureField, TypeOK
  <2>5. TypeOK' BY <2>1, <2>2, <2>4 DEF TypeOK
  <2>6. InFlightFresh' BY <2>1, <2>2 DEF InFlightFresh, Fresh
  <2>7. \A g \in Fields :
          /\ captured \in Nat /\ pcRxPack[g] \in Nat /\ aim \in Nat
          /\ applied[g] \in Int
    BY DEF TypeOK, Mouse
  <2>8. Aim \in Fields BY DEF Fields
  <2>9. CopiesBehind' BY <2>1, <2>2, <2>3, <2>7, <2>8 DEF CopiesBehind
  <2> QED BY <2>5, <2>6, <2>9
<1> QED BY <1>1, <1>2

(* A control step only reads the copy.                                     *)
LEMMA InfantryFacts ==
  ASSUME IInv, TaskInfantry
  PROVE  IInv' /\ \A f \in Fields : applied'[f] >= applied[f]
<1> USE DEF IInv
<1>1. UNCHANGED <<handle, packs, sof, lpc, ulNotifiedValue, ucNotifyState, rpc,
                  old, pc_pack, captured, calls, pcStatus, pcRxPack, toCopy>>
  BY DEF TaskInfantry, InfantryAim, InfantryStatus, InfantryMode, InfantryFire,
         InfantrySpeed, listenerVars, notifyVars, readerVars
<1>2. InFlightFresh' BY <1>1 DEF InFlightFresh, Fresh
<1>3. \A f \in Fields :
        /\ pcRxPack[f] \in Nat /\ applied[f] \in Nat \cup {-1}
        /\ applied[f] \in Int
  BY DEF TypeOK, Mouse
<1>4. aim \in Nat /\ applied \in [Fields -> Nat \cup {Mouse}]
  BY DEF TypeOK
<1>5. Aim \in Fields /\ Mode \in Fields /\ Fire \in Fields /\ Speed \in Fields
      /\ Aim # Mode
  BY DEF Fields, Aim, Mode, Fire, Speed
<1>6. CASE InfantryAim
  <2>1. TypeOK' BY <1>1, <1>3, <1>5, <1>6 DEF InfantryAim, TypeOK
  <2>2. CopiesBehind'
    BY <1>1, <1>3, <1>4, <1>5, <1>6 DEF InfantryAim, CopiesBehind
  <2> QED BY <1>2, <1>3, <1>6, <2>1, <2>2 DEF InfantryAim
<1>7. CASE InfantryStatus
  <2>1. TypeOK' BY <1>1, <1>7 DEF InfantryStatus, TypeOK
  <2>2. applied' = applied \/ \A f \in Fields : applied'[f] = applied[f]
    BY <1>7 DEF InfantryStatus, CopiesBehind, TypeOK
  <2>3. pcStatus = "OFFLINE" => ipc' = "aim"
    BY <1>7 DEF InfantryStatus
  <2>4. aim' = aim BY <1>7 DEF InfantryStatus
  <2>5. CopiesBehind'
    BY <1>1, <1>5, <2>2, <2>3, <2>4 DEF CopiesBehind
  <2> QED BY <1>2, <1>3, <2>1, <2>2, <2>5
<1>8. CASE InfantryMode
  <2>1. \A f \in Fields :
          applied'[f] = IF f = Aim THEN aim
                        ELSE IF f = Mode THEN pcRxPack[Mode] ELSE applied[f]
    BY <1>4, <1>5, <1>8 DEF InfantryMode
  <2>2. TypeOK' BY <1>1, <1>3, <1>4, <1>5, <1>8 DEF InfantryMode, TypeOK
  <2>3. pcStatus # "OFFLINE" /\ aim' = aim
    BY <1>8 DEF InfantryMode, CopiesBehind
  <2>4. CopiesBehind' BY <1>1, <1>3, <1>4, <1>5, <2>1, <2>3 DEF CopiesBehind
  <2>5. \A f \in Fields : applied'[f] >= applied[f]
    BY <1>3, <1>4, <1>5, <2>1 DEF CopiesBehind
  <2> QED BY <1>2, <2>2, <2>4, <2>5
<1>9. ASSUME NEW g \in {Fire, Speed}, pcStatus # "OFFLINE", aim' = aim,
             applied' = [applied EXCEPT ![g] = pcRxPack[g]],
             ipc' \in {"speed", "aim"}
      PROVE  IInv' /\ \A f \in Fields : applied'[f] >= applied[f]
  <2>1. \A f \in Fields :
          applied'[f] = IF f = g THEN pcRxPack[g] ELSE applied[f]
    BY <1>4, <1>5, <1>9
  <2>2. TypeOK' BY <1>1, <1>3, <1>4, <1>5, <1>9 DEF TypeOK
  <2>3. g # Aim /\ g \in Fields BY DEF Fields, Aim, Fire, Speed
  <2>4. CopiesBehind'
    BY <1>1, <1>3, <1>4, <1>5, <1>9, <2>1, <2>3 DEF CopiesBehind
  <2>5. \A f \in Fields : applied'[f] >= applied[f]
    BY <1>3, <2>1, <2>3 DEF CopiesBehind
  <2> QED BY <1>2, <2>2, <2>4, <2>5
<1>10. CASE InfantryFire
  BY <1>9, <1>10 DEF InfantryFire, CopiesBehind
<1>11. CASE InfantrySpeed
  BY <1>9, <1>11 DEF InfantrySpeed, CopiesBehind
<1> QED BY <1>6, <1>7, <1>8, <1>10, <1>11 DEF TaskInfantry

(* The invariant is inductive.                                             *)
LEMMA NextIInv == IInv /\ [Next]_vars => IInv'
<1> SUFFICES ASSUME IInv, [Next]_vars PROVE IInv' OBVIOUS
<1>1. CASE UNCHANGED vars
  BY <1>1 DEF vars, IInv, TypeOK, InFlightFresh, CopiesBehind, Fresh
<1>2. CASE Next
  BY <1>2, ListenerIInv, WaitIInv, WaitReturnIInv, CaptureIInv, InfantryFacts
  DEF Next, RecvVision
<1> QED BY <1>1, <1>2

(* The variables of the path keep their types.                             *)
THEOREM VisionLinkTypeOK == Spec => []TypeOK
<1>1. IInv => TypeOK BY DEF IInv
<1> QED BY <1>1, InitIInv, NextIInv, PTL DEF Spec

(* What is on its way to Recv_Vision is newer than what it took last, so   *)
(* no race makes it take a buffer twice or out of order.                   *)
THEOREM VisionLinkInFlightFresh == Spec => []InFlightFresh
<1>1. IInv => InFlightFresh BY DEF IInv
<1> QED BY <1>1, InitIInv, NextIInv, PTL DEF Spec

(* The control task's copy is never ahead of the pack that was taken.      *)
THEOREM VisionLinkCopiesBehind == Spec => []CopiesBehind
<1>1. IInv => CopiesBehind BY DEF IInv
<1> QED BY <1>1, InitIInv, NextIInv, PTL DEF Spec

(* No control step applies an older field than the step before.            *)
THEOREM VisionNeverRollsBack == Spec => NeverRollsBack
<1>1. IInv /\ [Next]_vars => [\A f \in Fields : applied'[f] >= applied[f]]_vars
  <2> SUFFICES ASSUME IInv, Next
               PROVE  \A f \in Fields : applied'[f] >= applied[f]
    OBVIOUS
  <2>1. CASE TaskInfantry BY <2>1, InfantryFacts
  <2>2. CASE ~TaskInfantry
    <3>1. applied' = applied
      BY <2>2
      DEF Next, CreateTask, Listener, Callback, NotifyMark, NotifyStore,
          RecvVision, WaitEnter, WaitLoad, WaitStore, WaitMark, WaitRead,
          WaitCheck, WaitClear, WaitReturn, CaptureStatus, CaptureField, Wake,
          infantryVars
    <3>2. \A f \in Fields : applied[f] \in Int BY DEF IInv, TypeOK, Mouse
    <3> QED BY <3>1, <3>2
  <2> QED BY <2>1, <2>2
<1> QED BY <1>1, InitIInv, NextIInv, PTL DEF Spec, NeverRollsBack

(* Every step of the path is one of the lossy mailbox.                     *)
THEOREM VisionLinkImplementsMailbox == Spec => BoxSpec
<1>1. Init => Box!Init BY DEF Init, Box!Init
<1>2. IInv /\ [Next]_vars => [Box!Next]_Box!vars
  <2> SUFFICES ASSUME IInv, [Next]_vars PROVE [Box!Next]_Box!vars OBVIOUS
  <2> USE DEF IInv
  <2>1. CASE Callback
    <3>1. packs' = packs + 1 /\ UNCHANGED <<captured, calls>>
      BY <2>1 DEF Callback, readerVars
    <3> QED BY <3>1 DEF Box!Next, Box!Put
  <2>2. CASE WaitReturn
    <3>1. packs' = packs BY <2>2 DEF WaitReturn, listenerVars
    <3>2. \/ UNCHANGED <<captured, calls>>
          \/ /\ captured' = pc_pack /\ calls' = calls + 1
             /\ captured < pc_pack /\ pc_pack <= packs
      BY <2>2 DEF WaitReturn, InFlightFresh, Fresh
    <3>3. captured \in Nat /\ packs \in Nat /\ pc_pack \in Nat BY DEF TypeOK
    <3> QED BY <3>1, <3>2, <3>3 DEF Box!Next, Box!Take, Box!vars
  <2>3. CASE ~Callback /\ ~WaitReturn
    <3>1. UNCHANGED <<packs, captured, calls>>
      BY <2>3
      DEF Next, CreateTask, Listener, NotifyMark, NotifyStore,
          RecvVision, WaitEnter, WaitLoad, WaitStore, WaitMark, WaitRead,
          WaitCheck, WaitClear, CaptureStatus, CaptureField, Wake,
          TaskInfantry, InfantryAim, InfantryStatus, InfantryMode,
          InfantryFire, InfantrySpeed, listenerVars, readerVars, vars
    <3> QED BY <3>1 DEF Box!vars
  <2> QED BY <2>1, <2>2, <2>3
<1> QED BY <1>1, <1>2, InitIInv, NextIInv, PTL DEF Spec, BoxSpec, Box!Spec
===============================================================================
