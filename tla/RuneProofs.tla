------------------------------ MODULE RuneProofs ------------------------------
(***************************************************************************)
(* What Rune promises for every number of plates, every time-out, every    *)
(* width of the clock and both modes of the simulator.                     *)
(*                                                                         *)
(* IInv == TypeOK /\ ListOK is inductive.  The arithmetic of plates rests  *)
(* on one fact: the entries of armorList are distinct, so they are as many *)
(* as its length says (ListedCardinality); a list shorter than the rune    *)
(* leaves a plate to draw, a list as long as the rune names every plate.   *)
(***************************************************************************)
EXTENDS Rune, FiniteSetTheorems, TLAPS

IInv == TypeOK /\ ListOK

-------------------------------------------------------------------------------
(* The facts about armorList.                                              *)

(* The back of a list that is not empty is a proper entry.                 *)
LEMMA BackFacts ==
  ASSUME TypeOK, armorList # << >>
  PROVE  /\ Len(armorList) \in Nat \ {0}
         /\ Len(armorList) \in 1 .. Len(armorList)
         /\ Back \in Armor
         /\ Back.armorNum \in Plates
         /\ Back.activeState \in {Waiting, Activated}
<1>1. armorList \in Seq(Armor) BY DEF TypeOK
<1>2. Len(armorList) \in Nat \ {0} BY <1>1
<1>3. Back \in Armor BY <1>1, <1>2 DEF Back
<1> QED BY <1>2, <1>3 DEF Armor

(* The list names plates, the activated ones among them.                   *)
LEMMA ListedFacts ==
  ASSUME TypeOK
  PROVE  /\ Listed \subseteq Plates
         /\ ActivatedPlates \subseteq Listed
<1>1. armorList \in Seq(Armor) BY DEF TypeOK
<1>2. \A k \in 1 .. Len(armorList) : armorList[k] \in Armor BY <1>1
<1>3. \A k \in 1 .. Len(armorList) : armorList[k].armorNum \in Plates
  BY <1>2 DEF Armor
<1>4. Listed \subseteq Plates BY <1>3 DEF Listed
<1>5. ActivatedPlates \subseteq Listed BY DEF Listed, ActivatedPlates
<1> QED BY <1>4, <1>5

(* The entries of the list are as many as the plates it names.             *)
LEMMA ListedCardinality ==
  ASSUME TypeOK, Distinct
  PROVE  IsFiniteSet(Listed) /\ Cardinality(Listed) = Len(armorList)
<1> DEFINE D == 1 .. Len(armorList)
           num == [k \in D |-> armorList[k].armorNum]
<1>1. Len(armorList) \in Nat BY DEF TypeOK
<1>2. IsFiniteSet(D) /\ Cardinality(D) = Len(armorList)
  BY <1>1, FS_Interval, 0 \in Int, 1 \in Int
<1>3. num \in Bijection(D, Listed)
  <2>1. num \in [D -> Listed] BY DEF Listed
  <2>2. \A a, b \in D : num[a] = num[b] => a = b BY DEF Distinct
  <2>3. \A p \in Listed : \E k \in D : num[k] = p BY DEF Listed
  <2> HIDE DEF num
  <2>4. num \in Injection(D, Listed)
    BY <2>1, <2>2 DEF Injection, IsInjective
  <2>5. num \in Surjection(D, Listed) BY <2>1, <2>3 DEF Surjection
  <2> QED BY <2>4, <2>5 DEF Bijection
<1>4. ExistsBijection(D, Listed) BY <1>3 DEF ExistsBijection
<1> QED BY <1>2, <1>4, FS_Bijection

(* There are RUNE_ARMOR_NUM plates.                                        *)
LEMMA PlatesCardinality ==
  IsFiniteSet(Plates) /\ Cardinality(Plates) = RUNE_ARMOR_NUM
<1>1. RUNE_ARMOR_NUM \in Nat \ {0} BY RuneAssumption
<1> QED BY <1>1, FS_Interval, 0 \in Int, RUNE_ARMOR_NUM - 1 \in Int DEF Plates

(* A shorter list leaves a plate; a full one names them all.               *)
LEMMA RoomLeft ==
  ASSUME TypeOK, Distinct, Len(armorList) < RUNE_ARMOR_NUM
  PROVE  \E p \in Plates : p \notin Listed
<1>1. SUFFICES ASSUME Plates \subseteq Listed PROVE FALSE OBVIOUS
<1>2. Plates = Listed BY <1>1, ListedFacts
<1>3. Len(armorList) = RUNE_ARMOR_NUM
  BY <1>2, ListedCardinality, PlatesCardinality
<1>4. Len(armorList) \in Nat /\ RUNE_ARMOR_NUM \in Nat
  BY RuneAssumption DEF TypeOK
<1> QED BY <1>3, <1>4

LEMMA FullListed ==
  ASSUME TypeOK, Distinct, Len(armorList) = RUNE_ARMOR_NUM
  PROVE  Listed = Plates
<1>1. Listed \in SUBSET Plates BY ListedFacts
<1>2. Cardinality(Listed) = Cardinality(Plates)
  BY ListedCardinality, PlatesCardinality
<1> QED BY <1>1, <1>2, PlatesCardinality, FS_Subset

(* What Accept does to the list: the back turns activated, nothing else.   *)
LEMMA AcceptList ==
  ASSUME TypeOK, armorList # << >>,
         armorList' = [armorList EXCEPT ![Len(armorList)].activeState = Activated]
  PROVE  /\ armorList' \in Seq(Armor)
         /\ Len(armorList') = Len(armorList)
         /\ \A k \in 1 .. Len(armorList) :
              /\ armorList'[k].armorNum = armorList[k].armorNum
              /\ armorList'[k].activeState =
                   IF k = Len(armorList) THEN Activated
                                         ELSE armorList[k].activeState
<1> DEFINE n == Len(armorList)
           back == [armorList[n] EXCEPT !.activeState = Activated]
<1>1. armorList \in Seq(Armor) /\ n \in Nat \ {0} BY DEF TypeOK
<1>2. armorList[n] \in Armor BY <1>1
<1>3. back \in Armor BY <1>2 DEF Armor
<1>4. back.armorNum = armorList[n].armorNum /\ back.activeState = Activated
  BY <1>2 DEF Armor
<1>5. armorList' = [armorList EXCEPT ![n] = back] OBVIOUS
<1> HIDE DEF back
<1>6. armorList' \in Seq(Armor) /\ Len(armorList') = n
  BY <1>1, <1>3, <1>5
<1>7. \A k \in 1 .. n :
        armorList'[k] = IF k = n THEN back ELSE armorList[k]
  BY <1>1, <1>5
<1> QED BY <1>1, <1>4, <1>6, <1>7

-------------------------------------------------------------------------------
(* The invariant is inductive.                                             *)

LEMMA InitIInv == Init => IInv
<1> SUFFICES ASSUME Init PROVE IInv OBVIOUS
<1> USE DEF Init, Waiting, Activated
<1>1. armorList \in Seq(Armor) /\ Len(armorList) = 1 BY DEF Armor
<1>2. TypeOK
  <2>1. 0 \in 0 .. TickMod - 1 /\ 0 \in 0 .. RUNE_ARMOR_NUM
    BY RuneAssumption
  <2>2. armor_state \in [Plates -> 0 .. 1] OBVIOUS
  <2>3. target \in [Plates -> {0, Waiting, Activated}] OBVIOUS
  <2> QED BY <1>1, <2>1, <2>2, <2>3 DEF TypeOK
<1>3. Back.activeState = Waiting BY <1>1 DEF Back
<1>4. ListOK
  BY <1>1, <1>3, RuneAssumption
  DEF ListOK, Distinct, OnlyBackWaits, RoomToGenerate, BackWaits
<1> QED BY <1>2, <1>4 DEF IInv

(* The steps that leave the list and generate() alone.                     *)
LEMMA ListKept ==
  ASSUME ListOK, UNCHANGED listVars,
         (pc = "generate") <=> (pc' = "generate")
  PROVE  ListOK'
BY DEF ListOK, listVars, Distinct, OnlyBackWaits, RoomToGenerate, BackWaits,
       Back

LEMMA NewSecondIInv ==
  ASSUME IInv, NEW p \in Plates, NewSecond(p)
  PROVE  IInv'
<1> USE DEF IInv, NewSecond, simVars
<1>1. TypeOK' BY DEF TypeOK, listVars
<1>2. ListOK' BY ListKept
<1> QED BY <1>1, <1>2

(* The ticks from one reading of the clock to another are a reading too.   *)
LEMMA ReadingsWrap ==
  /\ \A n \in Int : n % TickMod \in 0 .. TickMod - 1
  /\ MaxAge \in Nat /\ TickMod \in Nat
<1>1. TickMod \in Nat \ {0} BY RuneAssumption
<1> QED BY <1>1, RuneAssumption

(* The steps that only move the clock and Task_Sim.                        *)
LEMMA SimKeepsRest ==
  ASSUME SimStep \/ TaskSim
  PROVE  UNCHANGED rest
BY DEF SimStep, TaskSim, Trigger, Ping, PingTimesOut, Fetch, FetchStale

LEMMA SimIInv ==
  ASSUME IInv, SimStep \/ TaskSim
  PROVE  IInv'
<1> USE DEF IInv, rest, listVars
<1>1. UNCHANGED rest BY SimKeepsRest
<1>2. /\ simTime' \in 0 .. TickMod - 1 /\ cmdTime' \in 0 .. TickMod - 1
      /\ simTick' \in 0 .. TickMod - 1
  <2>1. simTime \in Int /\ simTime + 1 \in Int BY DEF TypeOK
  <2>2. CASE SimStep BY <2>1, <2>2, ReadingsWrap DEF SimStep, TypeOK
  <2>3. CASE FetchStale
    <3>1. PICK lag \in 0 .. MaxAge : cmdTime' = (simTime - lag) % TickMod
      BY <2>3 DEF FetchStale
    <3>2. simTime - lag \in Int BY <2>1
    <3> QED BY <2>3, <3>1, <3>2, ReadingsWrap DEF FetchStale, TypeOK
  <2>4. CASE Trigger \/ Ping \/ PingTimesOut \/ Fetch
    BY <2>4 DEF Trigger, Ping, PingTimesOut, Fetch, TypeOK
  <2> QED BY <2>2, <2>3, <2>4 DEF TaskSim
<1>3. /\ triggered' \in BOOLEAN /\ answered' \in BOOLEAN
      /\ spc' \in {"trigger", "ping", "fetch", "stale"}
  BY DEF SimStep, TaskSim, Trigger, Ping, PingTimesOut, Fetch, FetchStale,
         Sync, TypeOK
<1>4. TypeOK' BY <1>1, <1>2, <1>3 DEF TypeOK
<1>5. ListOK' BY <1>1, ListKept
<1> QED BY <1>4, <1>5

LEMMA InputIInv ==
  ASSUME IInv, Input
  PROVE  IInv'
<1> USE DEF IInv, Input, simVars
<1>1. armor_state' \in [Plates -> 0 .. 1]
  <2>1. PICK flag \in [Plates -> 0 .. 2] :
          armor_state' = [p \in Plates |->
            IF \E q \in 0 .. p : flag[q] > 1 THEN armor_state[p] ELSE flag[p]]
    OBVIOUS
  <2>2. ASSUME NEW p \in Plates, ~ \E q \in 0 .. p : flag[q] > 1
        PROVE  flag[p] \in 0 .. 1
    <3>1. p \in 0 .. p BY DEF Plates
    <3>2. flag[p] \in 0 .. 2 OBVIOUS
    <3> QED BY <2>2, <3>1, <3>2
  <2>3. \A p \in Plates : armor_state[p] \in 0 .. 1 BY DEF TypeOK
  <2> QED BY <2>1, <2>2, <2>3
<1>2. 0 \in 0 .. RUNE_ARMOR_NUM BY RuneAssumption
<1>3. TypeOK' BY <1>1, <1>2 DEF TypeOK, listVars
<1>4. ListOK' BY ListKept
<1> QED BY <1>3, <1>4

LEMMA AcceptIInv ==
  ASSUME IInv, NEW p \in Plates, Accept(p)
  PROVE  IInv'
<1> USE DEF IInv, simVars
<1>1. pc = "scan" /\ elem' = p + 1 BY DEF Accept, ScanAt
<1>2. armorList # << >> BY <1>1 DEF ListOK, BackWaits
<1>3. armorList' \in Seq(Armor) /\ Len(armorList') = Len(armorList)
  BY <1>2, AcceptList DEF Accept
<1>4. \A k \in 1 .. Len(armorList) :
        /\ armorList'[k].armorNum = armorList[k].armorNum
        /\ armorList'[k].activeState =
             IF k = Len(armorList) THEN Activated
                                   ELSE armorList[k].activeState
  BY <1>2, AcceptList DEF Accept
<1>5. Len(armorList) \in Nat \ {0} BY <1>2, BackFacts
<1>6. TypeOK'
  <2>1. elem' \in 0 .. RUNE_ARMOR_NUM BY <1>1, RuneAssumption DEF Plates
  <2>2. backTick' \in 0 .. TickMod - 1 BY DEF Accept, getTick, TypeOK
  <2>3. isSucceed' \in BOOLEAN /\ pc' \in {"scan", "generate"}
        /\ resume' \in {"scan", "light"}
    BY <1>1 DEF Accept, TypeOK
  <2> QED BY <1>3, <2>1, <2>2, <2>3 DEF Accept, TypeOK
<1>7. Distinct' BY <1>3, <1>4 DEF ListOK, Distinct
<1>8. OnlyBackWaits'
  BY <1>3, <1>4, <1>5 DEF ListOK, OnlyBackWaits
<1>9. Back'.activeState = Activated BY <1>3, <1>4, <1>5 DEF Back
<1>10. armorList' # << >> BY <1>3, <1>5
<1>11. Len(armorList) <= RUNE_ARMOR_NUM BY <1>1 DEF ListOK, BackWaits
<1>12. CASE Len(armorList) = RUNE_ARMOR_NUM
  <2>1. pc' = "scan" /\ isSucceed' = TRUE BY <1>1, <1>12 DEF Accept
  <2>2. RoomToGenerate' BY <2>1 DEF RoomToGenerate
  <2>3. BackWaits' BY <1>3, <1>10, <1>12, <2>1, RuneAssumption DEF BackWaits
  <2> QED BY <1>6, <1>7, <1>8, <2>2, <2>3 DEF ListOK
<1>13. CASE Len(armorList) # RUNE_ARMOR_NUM
  <2>1. pc' = "generate" BY <1>13 DEF Accept
  <2>2. RoomToGenerate'
    BY <1>3, <1>5, <1>9, <1>11, <1>13, RuneAssumption DEF RoomToGenerate
  <2>3. BackWaits' BY <2>1 DEF BackWaits
  <2> QED BY <1>6, <1>7, <1>8, <2>2, <2>3 DEF ListOK
<1> QED BY <1>12, <1>13

LEMMA ResetListOK ==
  ASSUME NEW caller, Reset(caller)
  PROVE  ListOK'
<1>1. armorList' = << >> /\ Len(armorList') = 0 /\ pc' = "generate"
  BY DEF Reset
<1>2. 0 < RUNE_ARMOR_NUM BY RuneAssumption
<1> QED
  BY <1>1, <1>2 DEF ListOK, Distinct, OnlyBackWaits, RoomToGenerate, BackWaits

LEMMA FailIInv ==
  ASSUME IInv, NEW p \in Plates, Fail(p)
  PROVE  IInv'
<1> USE DEF IInv, Fail, simVars
<1>1. elem' \in 0 .. RUNE_ARMOR_NUM BY RuneAssumption DEF ScanAt, Plates
<1>2. armorList' \in Seq(Armor) BY DEF Reset
<1>3. TypeOK' BY <1>1, <1>2 DEF TypeOK, Reset
<1>4. ListOK' BY ResetListOK
<1> QED BY <1>3, <1>4

LEMMA ScanEndIInv ==
  ASSUME IInv, ScanEnd
  PROVE  IInv'
<1> USE DEF IInv, simVars
<1>0. 0 \in 0 .. RUNE_ARMOR_NUM BY RuneAssumption
<1>1. CASE UnsignedAge > RESET_TIME
  <2>1. Reset("light") BY <1>1 DEF ScanEnd
  <2>2. armorList' \in Seq(Armor) BY <2>1 DEF Reset
  <2>3. TypeOK' BY <1>0, <2>1, <2>2 DEF ScanEnd, TypeOK, Reset
  <2> QED BY <2>1, <2>3, ResetListOK
<1>2. CASE ~(UnsignedAge > RESET_TIME)
  <2>1. pc = "scan" /\ pc' = "light" /\ UNCHANGED <<listVars, resume>>
    BY <1>2 DEF ScanEnd
  <2>2. TypeOK' BY <1>0, <2>1 DEF ScanEnd, TypeOK, listVars
  <2>3. ListOK' BY <2>1, ListKept
  <2> QED BY <2>2, <2>3
<1> QED BY <1>1, <1>2

LEMMA GenerateIInv ==
  ASSUME IInv, Generate
  PROVE  IInv'
<1> DEFINE n == Len(armorList)
           new == [armorNum |-> draw, activeState |-> Waiting]
<1> USE DEF IInv, Generate, simVars
<1>1. pc' \in {"scan", "light"} BY DEF TypeOK
<1>2. new \in Armor BY DEF TypeOK, Armor
<1>3. armorList \in Seq(Armor) /\ n \in Nat BY DEF TypeOK
<1>4. armorList' \in Seq(Armor) /\ Len(armorList') = n + 1 BY <1>2, <1>3
<1>5. \A k \in 1 .. n + 1 :
        armorList'[k] = IF k = n + 1 THEN new ELSE armorList[k]
  BY <1>2, <1>3
<1>6. n < RUNE_ARMOR_NUM BY DEF ListOK, RoomToGenerate
<1>7. TypeOK' BY <1>1, <1>4 DEF TypeOK, getTick
<1>8. Distinct'
  <2>1. \A k \in 1 .. n : armorList[k].armorNum # draw BY DEF Listed
  <2>2. \A k \in 1 .. n + 1 : k # n + 1 => k \in 1 .. n BY <1>3
  <2>3. \A k \in 1 .. n + 1 :
          armorList'[k].armorNum =
            IF k = n + 1 THEN draw ELSE armorList[k].armorNum
    BY <1>5
  <2> QED BY <1>4, <2>1, <2>2, <2>3 DEF ListOK, Distinct
<1>9. OnlyBackWaits'
  <2>1. \A k \in 1 .. n : armorList[k].activeState = Activated
    <3>1. CASE armorList = << >> BY <3>1
    <3>2. CASE armorList # << >>
      <4>1. Back.activeState = Activated /\ n # 0
        BY <1>3, <3>2 DEF ListOK, RoomToGenerate
      <4>2. \A k \in 1 .. n : k = n \/ k \in 1 .. n - 1 BY <1>3
      <4> QED BY <4>1, <4>2 DEF ListOK, OnlyBackWaits, Back
    <3> QED BY <3>1, <3>2
  <2>2. \A k \in 1 .. n : k \in 1 .. n + 1 /\ k # n + 1 BY <1>3
  <2>3. Len(armorList') - 1 = n BY <1>3, <1>4
  <2> QED BY <1>5, <2>1, <2>2, <2>3 DEF OnlyBackWaits
<1>10. RoomToGenerate' BY <1>1 DEF RoomToGenerate
<1>11. BackWaits'
  <2>1. Back' = new BY <1>3, <1>4, <1>5 DEF Back
  <2>2. Back'.activeState # Activated BY <2>1 DEF Waiting, Activated
  <2>3. Len(armorList') <= RUNE_ARMOR_NUM
    BY <1>3, <1>4, <1>6, RuneAssumption
  <2>4. armorList' # << >> BY <1>3, <1>4
  <2> QED BY <2>2, <2>3, <2>4 DEF BackWaits
<1> QED BY <1>7, <1>8, <1>9, <1>10, <1>11 DEF ListOK

LEMMA LightUpIInv ==
  ASSUME IInv, LightUp
  PROVE  IInv'
<1> USE DEF IInv, LightUp, simVars
<1>1. pc = "light" /\ pc' = "input" OBVIOUS
<1>2. \A p \in Plates : LampOf(p) \in {0, Waiting, Activated}
  <2> SUFFICES ASSUME NEW p \in Plates, ~isSucceed, p \in Listed
               PROVE  LampOf(p) \in {Waiting, Activated}
    BY DEF LampOf
  <2> DEFINE hit == CHOOSE k \in 1 .. Len(armorList) : armorList[k].armorNum = p
  <2>1. hit \in 1 .. Len(armorList) BY DEF Listed
  <2>2. armorList[hit] \in Armor BY <2>1 DEF TypeOK
  <2> QED BY <2>2 DEF LampOf, Armor
<1>3. TypeOK' BY <1>1, <1>2 DEF TypeOK, listVars
<1>4. ListOK' BY <1>1, ListKept
<1> QED BY <1>3, <1>4

LEMMA NextIInv == IInv /\ [Next]_vars => IInv'
<1> SUFFICES ASSUME IInv, [Next]_vars PROVE IInv' OBVIOUS
<1>1. ASSUME Input PROVE IInv' BY <1>1, InputIInv
<1>2. ASSUME NEW p \in Plates, Accept(p) PROVE IInv' BY <1>2, AcceptIInv
<1>3. ASSUME NEW p \in Plates, Fail(p) PROVE IInv' BY <1>3, FailIInv
<1>4. ASSUME ScanEnd PROVE IInv' BY <1>4, ScanEndIInv
<1>5. ASSUME Generate PROVE IInv' BY <1>5, GenerateIInv
<1>6. ASSUME LightUp PROVE IInv' BY <1>6, LightUpIInv
<1>7. ASSUME SimStep \/ TaskSim PROVE IInv' BY <1>7, SimIInv
<1>8. ASSUME NEW p \in Plates, NewSecond(p) PROVE IInv'
  BY <1>8, NewSecondIInv
<1>9. ASSUME UNCHANGED vars PROVE IInv'
  <2>1. UNCHANGED listVars /\ UNCHANGED pc BY <1>9 DEF vars, listVars
  <2>2. ListOK' BY <2>1, ListKept DEF IInv
  <2>3. TypeOK' BY <1>9 DEF IInv, TypeOK, vars, simVars
  <2> QED BY <2>2, <2>3 DEF IInv
<1> QED
  BY <1>1, <1>2, <1>3, <1>4, <1>5, <1>6, <1>7, <1>8, <1>9
  DEF Next, TaskReferee

(* The variables of the rune and of the task that drives it keep their     *)
(* types: armorList never holds a number that is no plate.                 *)
THEOREM RuneTypeOK == Spec => []TypeOK
<1>1. IInv => TypeOK BY DEF IInv
<1> QED BY <1>1, InitIInv, NextIInv, PTL DEF Spec

(* armorList keeps its shape: no plate twice, only the last one waits, and *)
(* there is room for every plate generate() adds.                          *)
THEOREM RuneListOK == Spec => []ListOK
<1>1. IInv => ListOK BY DEF IInv
<1> QED BY <1>1, InitIInv, NextIInv, PTL DEF Spec

(* The busy wait of generate() always has a plate to stop at.              *)
THEOREM RuneGenerateCanFinish == Spec => []GenerateCanFinish
<1>1. TypeOK /\ ListOK => GenerateCanFinish
  BY RoomLeft DEF ListOK, RoomToGenerate, GenerateCanFinish
<1> QED BY <1>1, RuneTypeOK, RuneListOK, PTL

-------------------------------------------------------------------------------
(* The lamps between two rounds.                                           *)

(* light() shows each listed plate in the state its one entry has.         *)
LEMMA LampOfEntry ==
  ASSUME TypeOK, Distinct, ~isSucceed, NEW k \in 1 .. Len(armorList)
  PROVE  LampOf(armorList[k].armorNum) = armorList[k].activeState
<1> DEFINE p == armorList[k].armorNum
           hit == CHOOSE j \in 1 .. Len(armorList) : armorList[j].armorNum = p
<1>1. hit \in 1 .. Len(armorList) /\ armorList[hit].armorNum = p OBVIOUS
<1>2. hit = k BY <1>1 DEF Distinct
<1>3. p \in Listed BY DEF Listed
<1> HIDE DEF hit
<1>4. LampOf(p) = armorList[hit].activeState BY <1>3 DEF LampOf, hit
<1> QED BY <1>2, <1>4

LEMMA LightUpLamps ==
  ASSUME IInv, LightUp
  PROVE  LampsTellTheGame'
<1> USE DEF IInv
<1>1. armorList' = armorList /\ isSucceed' = isSucceed
  BY DEF LightUp, listVars
<1>2. Back' = Back /\ ActivatedPlates' = ActivatedPlates
  BY <1>1 DEF Back, ActivatedPlates
<1>3. \A p \in Plates : target'[p] = LampOf(p) BY DEF LightUp
<1>4. CASE isSucceed
  BY <1>1, <1>3, <1>4 DEF LampsTellTheGame, LampOf
<1>5. CASE ~isSucceed
  <2>1. armorList # << >> /\ Back.activeState # Activated
    BY <1>5 DEF LightUp, ListOK, BackWaits
  <2>2. Back.activeState = Waiting /\ Len(armorList) \in 1 .. Len(armorList)
        /\ Len(armorList) \in Nat
    BY <2>1, BackFacts
  <2>3. Waiting # 0 /\ Activated # 0 /\ Waiting # Activated
    BY DEF Waiting, Activated
  <2>4. ASSUME NEW p \in Plates, LampOf(p) # 0
        PROVE  \E k \in 1 .. Len(armorList) :
                 p = armorList[k].armorNum /\ LampOf(p) = armorList[k].activeState
    <3>1. p \in Listed BY <1>5, <2>4 DEF LampOf
    <3>2. PICK k \in 1 .. Len(armorList) : p = armorList[k].armorNum
      BY <3>1 DEF Listed
    <3> QED BY <1>5, <3>2, LampOfEntry DEF ListOK
  <2>5. \A k \in 1 .. Len(armorList) :
          /\ armorList[k].armorNum \in Plates
          /\ LampOf(armorList[k].armorNum) = armorList[k].activeState
    <3>1. \A k \in 1 .. Len(armorList) : armorList[k].armorNum \in Plates
      BY ListedFacts DEF Listed
    <3> QED BY <1>5, <3>1, LampOfEntry DEF ListOK
  <2>6. {p \in Plates : target'[p] = Activated} = ActivatedPlates
    BY <1>3, <2>3, <2>4, <2>5 DEF ActivatedPlates
  <2>7. {p \in Plates : target'[p] = Waiting} = {Back.armorNum}
    <3>1. \A k \in 1 .. Len(armorList) :
            armorList[k].activeState = Waiting => k = Len(armorList)
      <4>1. \A k \in 1 .. Len(armorList) :
              k = Len(armorList) \/ k \in 1 .. Len(armorList) - 1
        BY <2>2
      <4> QED BY <2>3, <4>1 DEF ListOK, OnlyBackWaits
    <3> QED BY <1>3, <2>2, <2>3, <2>4, <2>5, <3>1 DEF Back
  <2> QED BY <1>1, <1>2, <1>5, <2>6, <2>7 DEF LampsTellTheGame
<1> QED BY <1>4, <1>5

LEMMA NextLamps ==
  ASSUME IInv, LampsTellTheGame, [Next]_vars
  PROVE  LampsTellTheGame'
<1> USE DEF IInv
<1>1. CASE LightUp BY <1>1, LightUpLamps
<1>2. CASE \/ SimStep \/ TaskSim
           \/ \E p \in Plates : NewSecond(p)
           \/ UNCHANGED vars
  <2>1. UNCHANGED <<pc, target, armorList, isSucceed>>
    BY <1>2, SimKeepsRest DEF rest, NewSecond, listVars, vars
  <2> QED BY <2>1 DEF LampsTellTheGame, LampsOn, ActivatedPlates, Back
<1>3. CASE \/ Input \/ ScanEnd \/ Generate
           \/ \E p \in Plates : Accept(p) \/ Fail(p)
  <2>1. pc' # "input"
    BY <1>3 DEF Input, ScanEnd, Generate, Accept, Fail, Reset, ScanAt, TypeOK
  <2> QED BY <2>1 DEF LampsTellTheGame
<1> QED BY <1>1, <1>2, <1>3 DEF Next, TaskReferee

(* Between two rounds the lamps show the plates won and the one target.    *)
THEOREM RuneLampsTellTheGame == Spec => []LampsTellTheGame
<1>1. Init => LampsTellTheGame BY DEF Init, LampsTellTheGame, LampsOn
<1>2. IInv /\ LampsTellTheGame /\ [Next]_vars => LampsTellTheGame'
  BY NextLamps
<1> QED BY <1>1, <1>2, InitIInv, NextIInv, PTL DEF Spec

-------------------------------------------------------------------------------
(* Every step of the code is a step of the game.                           *)

(* The first state is one of the game.                                     *)
LEMMA GameInit == Init => Game!Init
<1> SUFFICES ASSUME Init PROVE Game!Init OBVIOUS
<1> USE DEF Init, Waiting, Activated
<1>1. Len(armorList) = 1 /\ armorList # << >> /\ Back.activeState = Waiting
      /\ Back.armorNum = draw
  BY DEF Back
<1>2. ActivatedPlates = {} BY <1>1 DEF ActivatedPlates, Back
<1> QED BY <1>1, <1>2 DEF Game!Init, Won, Lit

(* A step that leaves the list alone is invisible.                         *)
LEMMA GameStutter ==
  ASSUME UNCHANGED listVars
  PROVE  UNCHANGED Game!vars
BY DEF listVars, Game!vars, Won, Lit, ActivatedPlates, Back

(* An emptied list: the game restarts, unless it is over.                  *)
LEMMA GameReset ==
  ASSUME NEW caller, Reset(caller), isSucceed \in BOOLEAN
  PROVE  [Game!Next]_Game!vars
<1>1. armorList' = << >> /\ isSucceed' = isSucceed BY DEF Reset
<1>2. ActivatedPlates' = {} BY <1>1 DEF ActivatedPlates
<1>3. CASE isSucceed BY <1>1, <1>3 DEF Game!vars, Won, Lit
<1>4. CASE ~isSucceed BY <1>1, <1>2, <1>4 
  DEF Game!Next, Game!Restart, Won, Lit
<1> QED BY <1>3, <1>4

(* With all but the back activated, the back completes the list.           *)
LEMMA ActivatedAndBack ==
  ASSUME TypeOK, OnlyBackWaits, armorList # << >>
  PROVE  ActivatedPlates \cup {Back.armorNum} = Listed
<1>1. Len(armorList) \in Nat /\ Len(armorList) \in 1 .. Len(armorList)
  BY BackFacts
<1>2. \A k \in 1 .. Len(armorList) :
        k = Len(armorList) \/ k \in 1 .. Len(armorList) - 1
  BY <1>1
<1> QED BY <1>1, <1>2 DEF OnlyBackWaits, ActivatedPlates, Listed, Back

LEMMA GameAccept ==
  ASSUME IInv, NEW p \in Plates, Accept(p)
  PROVE  [Game!Next]_Game!vars
<1> USE DEF IInv
<1>1. armorList # << >> /\ Len(armorList) <= RUNE_ARMOR_NUM
  BY DEF Accept, ScanAt, ListOK, BackWaits
<1>2. Len(armorList') = Len(armorList)
      /\ \A k \in 1 .. Len(armorList) :
           /\ armorList'[k].armorNum = armorList[k].armorNum
           /\ armorList'[k].activeState =
                IF k = Len(armorList) THEN Activated
                                      ELSE armorList[k].activeState
  BY <1>1, AcceptList DEF Accept
<1>3. Len(armorList) \in 1 .. Len(armorList)
      /\ Len(armorList) \in Nat /\ Back.armorNum \in Plates
  BY <1>1, BackFacts
<1>4. ActivatedPlates' = ActivatedPlates \cup {Back.armorNum}
  BY <1>2, <1>3 DEF ActivatedPlates, Back
<1>5. Back'.activeState # Waiting
  BY <1>2, <1>3 DEF Back, Waiting, Activated
<1>6. ActivatedPlates' = Listed
  BY <1>1, <1>4, ActivatedAndBack DEF ListOK
<1>7. CASE isSucceed
  <2>1. isSucceed' = TRUE BY <1>7 DEF Accept, TypeOK
  <2> QED BY <1>7, <2>1 DEF Game!vars, Won, Lit
<1>8. CASE ~isSucceed
  <2>1. Back.activeState = Waiting
    <3>1. Back.activeState # Activated
      BY <1>8 DEF Accept, ScanAt, ListOK, BackWaits
    <3> QED BY <1>1, <3>1, BackFacts
  <2>2. Lit = Back.armorNum /\ Lit # NoPlate
    BY <1>1, <1>3, <1>8, <2>1 DEF Lit, NoPlate, Plates
  <2>3. Lit' = NoPlate BY <1>5 DEF Lit
  <2>4. Won = ActivatedPlates BY <1>8 DEF Won
  <2>5. CASE Len(armorList) = RUNE_ARMOR_NUM
    <3>1. isSucceed' = TRUE BY <2>5 DEF Accept
    <3>2. ActivatedPlates' = Plates BY <1>6, <2>5, FullListed DEF ListOK
    <3> QED BY <1>4, <1>8, <2>2, <2>3, <2>4, <3>1, <3>2
            DEF Game!Next, Game!Activate, Won, Lit
  <2>6. CASE Len(armorList) # RUNE_ARMOR_NUM
    <3>1. isSucceed' = FALSE BY <1>8, <2>6 DEF Accept, TypeOK
    <3>2. Len(armorList) < RUNE_ARMOR_NUM
      BY <1>1, <1>3, <2>6, RuneAssumption
    <3>3. ActivatedPlates' # Plates BY <1>6, <3>2, RoomLeft DEF ListOK
    <3> QED BY <1>4, <1>8, <2>2, <2>3, <2>4, <3>1, <3>3
            DEF Game!Next, Game!Activate, Won, Lit
  <2> QED BY <2>5, <2>6
<1> QED BY <1>7, <1>8 DEF TypeOK

LEMMA GameGenerate ==
  ASSUME IInv, Generate
  PROVE  [Game!Next]_Game!vars
<1> DEFINE n == Len(armorList)
           new == [armorNum |-> draw, activeState |-> Waiting]
<1> USE DEF IInv
<1>1. armorList \in Seq(Armor) /\ n \in Nat /\ new \in Armor
  BY DEF TypeOK, Armor
<1>2. Len(armorList') = n + 1 BY <1>1 DEF Generate
<1>3. \A k \in 1 .. n + 1 :
        armorList'[k] = IF k = n + 1 THEN new ELSE armorList[k]
  BY <1>1 DEF Generate
<1>4. ActivatedPlates' = ActivatedPlates
  <2>1. \A k \in 1 .. n + 1 : k # n + 1 => k \in 1 .. n BY <1>1
  <2>2. \A k \in 1 .. n : k \in 1 .. n + 1 /\ k # n + 1 BY <1>1
  <2>3. new.activeState # Activated BY DEF Waiting, Activated
  <2> QED BY <1>2, <1>3, <2>1, <2>2, <2>3 DEF ActivatedPlates
<1>5. armorList' # << >> /\ Back' = new BY <1>1, <1>2, <1>3 DEF Back
<1>6. isSucceed' = isSucceed BY DEF Generate
<1>7. CASE isSucceed BY <1>6, <1>7 DEF Game!vars, Won, Lit
<1>8. CASE ~isSucceed
  <2>1. draw \in Plates \ ActivatedPlates
    BY ListedFacts DEF Generate, TypeOK
  <2>2. Lit = NoPlate
    BY DEF Lit, Generate, ListOK, RoomToGenerate, Waiting, Activated
  <2>3. Lit' = draw BY <1>5, <1>6, <1>8 DEF Lit
  <2> QED BY <1>4, <1>6, <1>8, <2>1, <2>2, <2>3
          DEF Game!Next, Game!Light, Won, Lit
<1> QED BY <1>7, <1>8 DEF TypeOK

LEMMA GameNext ==
  ASSUME IInv, [Next]_vars
  PROVE  [Game!Next]_Game!vars
<1> USE DEF IInv
<1>1. CASE Input \/ LightUp \/ SimStep \/ TaskSim \/ UNCHANGED vars
           \/ \E p \in Plates : NewSecond(p)
  <2>1. UNCHANGED listVars
    BY <1>1, SimKeepsRest DEF Input, LightUp, rest, NewSecond, vars, listVars
  <2> QED BY <2>1, GameStutter
<1>2. ASSUME NEW p \in Plates, Accept(p) PROVE [Game!Next]_Game!vars
  BY <1>2, GameAccept
<1>3. ASSUME NEW p \in Plates, Fail(p) PROVE [Game!Next]_Game!vars
  BY <1>3, GameReset DEF Fail, TypeOK
<1>4. CASE ScanEnd
  <2>1. CASE UnsignedAge > RESET_TIME
    BY <1>4, <2>1, GameReset DEF ScanEnd, TypeOK
  <2>2. CASE ~(UnsignedAge > RESET_TIME)
    BY <1>4, <2>2, GameStutter DEF ScanEnd
  <2> QED BY <2>1, <2>2
<1>5. CASE Generate BY <1>5, GameGenerate
<1> QED BY <1>1, <1>2, <1>3, <1>4, <1>5 DEF Next, TaskReferee

(* The rune of the code plays the game of RuneGame.                        *)
THEOREM RuneImplementsGame == Spec => GameSafe
<1>1. Init => Game!Init BY GameInit
<1>2. IInv /\ [Next]_vars => [Game!Next]_Game!vars BY GameNext
<1> QED BY <1>1, <1>2, InitIInv, NextIInv, PTL DEF Spec, GameSafe, Game!Safe

-------------------------------------------------------------------------------
(* The age of a hit, and what the clock of the simulator says of it.       *)

(* A quotient and a remainder in range are the quotient and the remainder. *)
LEMMA RemainderUnique ==
  ASSUME NEW W \in Nat \ {0}, NEW x \in Int, NEW k \in Int,
         NEW s \in 0 .. W - 1, x = W * k + s
  PROVE  x % W = s
<1> DEFINE q == x \div W
           r == x % W
<1>1. x = W * q + r /\ r \in 0 .. W - 1 /\ q \in Int OBVIOUS
<1> HIDE DEF q, r
<1>2. W * (q - k) = s - r BY <1>1
<1>3. q - k < 1
  <2> SUFFICES ASSUME q - k >= 1 PROVE FALSE BY <1>1
  <2>1. W * (q - k) >= W BY <1>1
  <2> QED BY <1>1, <1>2, <2>1
<1>4. q - k > -1
  <2> SUFFICES ASSUME q - k <= -1 PROVE FALSE BY <1>1
  <2>1. W * (q - k) <= -W BY <1>1
  <2> QED BY <1>1, <1>2, <2>1
<1>5. q = k BY <1>1, <1>3, <1>4
<1> QED BY <1>1, <1>5 DEF r

(* The time between two readings of the clock, across a wrap or not.       *)
LEMMA Elapsed ==
  ASSUME NEW a \in 0 .. TickMod - 1, NEW b \in 0 .. TickMod - 1
  PROVE  (a - b) % TickMod = IF b <= a THEN a - b ELSE a - b + TickMod
<1>1. TickMod \in Nat \ {0} BY RuneAssumption
<1>2. CASE b <= a
  <2>1. a - b \in 0 .. TickMod - 1 /\ a - b = TickMod * 0 + (a - b) BY <1>1, <1>2
  <2> QED BY <1>1, <1>2, <2>1, RemainderUnique
<1>3. CASE ~(b <= a)
  <2> DEFINE s == a - b + TickMod
  <2>1. s \in 0 .. TickMod - 1 /\ a - b = TickMod * (-1) + s BY <1>1, <1>3
  <2>2. -1 \in Int /\ a - b \in Int BY <1>1
  <2> HIDE DEF s
  <2>3. (a - b) % TickMod = s BY <1>1, <2>1, <2>2, RemainderUnique
  <2> QED BY <1>3, <2>3 DEF s
<1> QED BY <1>2, <1>3

(* The next reading of the clock.                                          *)
LEMMA NextTick ==
  ASSUME NEW a \in 0 .. TickMod - 1
  PROVE  (a + 1) % TickMod = IF a + 1 = TickMod THEN 0 ELSE a + 1
<1>1. TickMod \in Nat \ {0} BY RuneAssumption
<1>2. CASE a + 1 = TickMod
  <2>1. 0 \in 0 .. TickMod - 1 /\ a + 1 = TickMod * 1 + 0 BY <1>1, <1>2
  <2> QED BY <1>1, <1>2, <2>1, RemainderUnique
<1>3. CASE a + 1 # TickMod
  <2>1. a + 1 \in 0 .. TickMod - 1 /\ a + 1 = TickMod * 0 + (a + 1)
    BY <1>1, <1>3
  <2> QED BY <1>1, <1>3, <2>1, RemainderUnique
<1> QED BY <1>2, <1>3

(* How old the waiting plate is, and how far the stamps that getTick() and *)
(* the last answer hold are behind; a pending trigger is a step to come.   *)
Age == Since(backTick, simTime)
Lag == Since(simTick, simTime)
CmdLag == Since(cmdTime, simTime)
Pending == IF triggered THEN 1 ELSE 0

(* Whoever holds a stamp from an answered ping is two ticks behind at most,*)
(* counting the step to come, and never so far that the stamp lies before  *)
(* the tick the plate was lit at.  Of a stamp that came without an answer  *)
(* nothing is known but the bound of the model; yet the answer that a      *)
(* fetch is about to take is no older, which is why one answered round is  *)
(* enough to be back.                                                      *)
AnsweredInv ==
  answered =>
    /\ Lag <= Age
    /\ Lag + Pending <= (IF spc = "trigger" THEN 1 ELSE 2)

FetchInv ==
  spc = "fetch" => CmdLag + Pending <= 1 /\ CmdLag <= Lag /\ CmdLag <= Age

AgeInv == Age <= MaxAge /\ Lag <= MaxAge /\ AnsweredInv /\ FetchInv

(* The ticks between two stamps as a difference, which is what SMT can     *)
(* calculate with.                                                         *)
LEMMA SinceFacts ==
  ASSUME NEW then \in 0 .. TickMod - 1, NEW now \in 0 .. TickMod - 1
  PROVE  /\ Since(then, now) = IF then <= now THEN now - then
                                              ELSE now - then + TickMod
         /\ Since(then, now) \in 0 .. TickMod - 1
<1>1. TickMod \in Nat BY RuneAssumption
<1>2. Since(then, now) = IF then <= now THEN now - then
                                        ELSE now - then + TickMod
  BY Elapsed DEF Since
<1> QED BY <1>1, <1>2

(* A tick later everything is a tick older, unless it was a turn ago.      *)
LEMMA SinceNextTick ==
  ASSUME NEW then \in 0 .. TickMod - 1, NEW now \in 0 .. TickMod - 1,
         Since(then, now) < TickMod - 1
  PROVE  Since(then, (now + 1) % TickMod) = Since(then, now) + 1
<1> DEFINE next == (now + 1) % TickMod
<1>1. next = (IF now + 1 = TickMod THEN 0 ELSE now + 1) BY NextTick
<1>2. TickMod \in Nat \ {0} BY RuneAssumption
<1> HIDE DEF next
<1>3. next \in 0 .. TickMod - 1 BY <1>1, <1>2
<1>4. Since(then, next) = IF then <= next THEN next - then
                                          ELSE next - then + TickMod
  BY <1>3, SinceFacts
<1>5. Since(then, now) = IF then <= now THEN now - then
                                        ELSE now - then + TickMod
  BY SinceFacts
<1>6. Since(then, next) = Since(then, now) + 1
  BY <1>1, <1>2, <1>4, <1>5
<1> QED BY <1>6 DEF next

(* A stamp of lag ticks ago is lag ticks old.                              *)
LEMMA SinceLag ==
  ASSUME NEW now \in 0 .. TickMod - 1, NEW lag \in 0 .. MaxAge
  PROVE  Since((now - lag) % TickMod, now) = lag
<1>1. TickMod \in Nat \ {0} /\ MaxAge \in Nat /\ 2 * MaxAge < TickMod
  BY RuneAssumption
<1>2. lag \in 0 .. TickMod - 1 BY <1>1
<1>3. (now - lag) % TickMod = IF lag <= now THEN now - lag
                                            ELSE now - lag + TickMod
  BY <1>2, Elapsed
<1> DEFINE then == (now - lag) % TickMod
<1>4. then \in 0 .. TickMod - 1 BY <1>1, <1>2, <1>3
<1>5. Since(then, now) = IF then <= now THEN now - then
                                        ELSE now - then + TickMod
  BY <1>4, SinceFacts
<1> QED BY <1>1, <1>2, <1>3, <1>5

LEMMA StampTypes ==
  ASSUME TypeOK
  PROVE  /\ simTime \in 0 .. TickMod - 1 /\ simTick \in 0 .. TickMod - 1
         /\ backTick \in 0 .. TickMod - 1 /\ cmdTime \in 0 .. TickMod - 1
         /\ Age \in Nat /\ Lag \in Nat /\ CmdLag \in Nat
         /\ Pending \in 0 .. 1
         /\ TickMod \in Nat /\ MaxAge \in Nat /\ RESET_TIME \in Nat
         /\ RESET_TIME + 2 < MaxAge /\ 2 * MaxAge < TickMod
<1>1. /\ simTime \in 0 .. TickMod - 1 /\ simTick \in 0 .. TickMod - 1
      /\ backTick \in 0 .. TickMod - 1 /\ cmdTime \in 0 .. TickMod - 1
  BY DEF TypeOK
<1>2. Age \in Nat BY <1>1, SinceFacts, RuneAssumption DEF Age
<1>3. Lag \in Nat BY <1>1, SinceFacts, RuneAssumption DEF Lag
<1>4. CmdLag \in Nat BY <1>1, SinceFacts, RuneAssumption DEF CmdLag
<1>5. Pending \in 0 .. 1 BY DEF Pending
<1> QED BY <1>1, <1>2, <1>3, <1>4, <1>5, RuneAssumption

(* scan() sees the age of the plate less the lag, and never a negative one.*)
LEMMA SignedAgeAnswered ==
  ASSUME TypeOK, AgeInv, answered
  PROVE  SignedAge = Age - Lag
<1>1. Lag <= Age /\ Age <= MaxAge BY DEF AgeInv, AnsweredInv
<1>2. UnsignedAge = Age - Lag
  <2>1. Age = IF backTick <= simTime THEN simTime - backTick
                                     ELSE simTime - backTick + TickMod
    BY StampTypes, SinceFacts DEF Age
  <2>2. Lag = IF simTick <= simTime THEN simTime - simTick
                                    ELSE simTime - simTick + TickMod
    BY StampTypes, SinceFacts DEF Lag
  <2>3. UnsignedAge = IF backTick <= simTick THEN simTick - backTick
                                             ELSE simTick - backTick + TickMod
    BY StampTypes, SinceFacts DEF UnsignedAge, getTick
  <2> QED BY <1>1, <2>1, <2>2, <2>3, StampTypes
<1>3. 2 * UnsignedAge < TickMod BY <1>1, <1>2, StampTypes
<1>4. SignedAge = UnsignedAge BY <1>3 DEF SignedAge, UnsignedAge
<1> QED BY <1>2, <1>4

LEMMA InitAgeInv == Init => AgeInv
<1> SUFFICES ASSUME Init PROVE AgeInv OBVIOUS
<1>1. TypeOK BY InitIInv DEF IInv
<1>2. 0 \in 0 .. TickMod - 1 BY RuneAssumption
<1>3. Age = 0 /\ Lag = 0 BY <1>2, SinceFacts DEF Init, Age, Lag
<1>4. Pending = 0 BY DEF Init, Pending
<1> QED
  BY <1>3, <1>4, RuneAssumption DEF Init, AgeInv, AnsweredInv, FetchInv

LEMMA SimStepAgeInv ==
  ASSUME TypeOK, AgeInv, SimStep
  PROVE  AgeInv'
<1>1. /\ simTime' = (simTime + 1) % TickMod
      /\ UNCHANGED <<simTick, cmdTime, backTick, answered, spc>>
      /\ Pending = 1 /\ Pending' = 0
  BY DEF SimStep, rest, listVars, Pending
<1>2. Age < MaxAge /\ Lag < MaxAge BY DEF SimStep, Age, Lag
<1>3. Age' = Age + 1
  BY <1>1, <1>2, StampTypes, SinceNextTick DEF Age
<1>4. Lag' = Lag + 1
  BY <1>1, <1>2, StampTypes, SinceNextTick DEF Lag
<1>5. ASSUME spc = "fetch" PROVE CmdLag' = CmdLag + 1
  <2>1. CmdLag <= Lag BY <1>5 DEF AgeInv, FetchInv
  <2> QED BY <1>1, <1>2, <2>1, StampTypes, SinceNextTick DEF CmdLag
<1>6. AnsweredInv'
  BY <1>1, <1>3, <1>4, StampTypes DEF AgeInv, AnsweredInv
<1>7. FetchInv'
  BY <1>1, <1>3, <1>4, <1>5, StampTypes DEF AgeInv, FetchInv
<1> QED BY <1>2, <1>3, <1>4, <1>6, <1>7, StampTypes DEF AgeInv

(* Task_Sim: the trigger, the ping with and without an answer, the fetch.  *)
LEMMA TaskSimAgeInv ==
  ASSUME TypeOK, AgeInv, TaskSim
  PROVE  AgeInv'
<1>1. UNCHANGED <<simTime, backTick>> /\ Age' = Age
  <2>1. UNCHANGED <<simTime, backTick>>
    BY SimKeepsRest
    DEF rest, listVars, TaskSim, Trigger, Ping, PingTimesOut, Fetch, FetchStale
  <2> QED BY <2>1 DEF Age
<1>2. CASE Trigger
  <2>1. /\ UNCHANGED <<simTick, answered>>
        /\ spc = "trigger" /\ spc' = "ping" /\ Pending' = 1
    BY <1>2 DEF Trigger, Sync, Pending
  <2>2. Lag' = Lag BY <1>1, <2>1 DEF Lag
  <2> QED
    BY <1>1, <2>1, <2>2, StampTypes DEF AgeInv, AnsweredInv, FetchInv
<1>3. CASE Ping
  <2>1. /\ UNCHANGED <<simTick, answered, triggered>> /\ cmdTime' = simTime
        /\ spc = "ping" /\ spc' = "fetch"
    BY <1>3 DEF Ping, Sync
  <2>2. Lag' = Lag /\ Pending' = Pending BY <1>1, <2>1 DEF Lag, Pending
  <2>3. CmdLag' = 0
    BY <1>1, <2>1, StampTypes, SinceFacts DEF CmdLag
  <2> QED
    BY <1>1, <2>1, <2>2, <2>3, StampTypes DEF AgeInv, AnsweredInv, FetchInv
<1>4. CASE PingTimesOut
  <2>1. /\ UNCHANGED <<simTick, answered, triggered>>
        /\ spc = "ping" /\ spc' = "stale"
    BY <1>4 DEF PingTimesOut, Sync
  <2>2. Lag' = Lag /\ Pending' = Pending BY <1>1, <2>1 DEF Lag, Pending
  <2> QED
    BY <1>1, <2>1, <2>2, StampTypes DEF AgeInv, AnsweredInv, FetchInv
<1>5. CASE Fetch
  <2>1. /\ UNCHANGED triggered /\ simTick' = cmdTime
        /\ spc = "fetch" /\ spc' = "trigger"
    BY <1>5 DEF Fetch, Sync
  <2>2. Lag' = CmdLag /\ Pending' = Pending
    BY <1>1, <2>1 DEF Lag, CmdLag, Pending
  <2> QED
    BY <1>1, <2>1, <2>2, StampTypes DEF AgeInv, AnsweredInv, FetchInv
<1>6. CASE FetchStale
  <2>1. answered' = FALSE /\ spc' = "trigger" /\ simTick' = cmdTime'
    BY <1>6 DEF FetchStale, Sync
  <2>2. PICK lag \in 0 .. MaxAge : cmdTime' = (simTime - lag) % TickMod
    BY <1>6 DEF FetchStale
  <2>3. Lag' = lag BY <1>1, <2>1, <2>2, StampTypes, SinceLag DEF Lag
  <2>4. Lag' <= MaxAge BY <2>3, StampTypes
  <2> QED BY <1>1, <2>1, <2>4 DEF AgeInv, AnsweredInv, FetchInv
<1> QED BY <1>2, <1>3, <1>4, <1>5, <1>6 DEF TaskSim

LEMMA NextAgeInv ==
  ASSUME IInv, AgeInv, [Next]_vars
  PROVE  AgeInv'
<1>1. CASE SimStep BY <1>1, SimStepAgeInv DEF IInv
<1>2. CASE TaskSim BY <1>2, TaskSimAgeInv DEF IInv
<1>3. CASE UNCHANGED <<simVars, backTick>>
  BY <1>3 DEF AgeInv, AnsweredInv, FetchInv, Age, Lag, CmdLag, Pending, simVars
<1>4. CASE UNCHANGED simVars /\ backTick' = getTick
  <2>1. /\ Age' = Lag /\ Lag' = Lag /\ CmdLag' = CmdLag /\ Pending' = Pending
        /\ UNCHANGED <<answered, spc>>
    BY <1>4 DEF Age, Lag, CmdLag, Pending, getTick, simVars
  <2> QED BY <2>1, StampTypes DEF AgeInv, AnsweredInv, FetchInv, IInv
<1>5. CASE Input \/ LightUp \/ ScanEnd \/ UNCHANGED vars
           \/ \E p \in Plates : Fail(p) \/ NewSecond(p)
  <2>1. UNCHANGED <<simVars, backTick>>
    BY <1>5 DEF Input, LightUp, ScanEnd, Fail, Reset, NewSecond, listVars, vars
  <2> QED BY <1>3, <2>1
<1>6. CASE Generate \/ \E p \in Plates : Accept(p)
  BY <1>4, <1>6 DEF Generate, Accept
<1> QED BY <1>1, <1>2, <1>5, <1>6 DEF Next, TaskReferee

(* A plate is only ever won by Accept.                                     *)
LEMMA OnlyAcceptActivates ==
  ASSUME IInv, [Next]_vars, NewlyActive
  PROVE  \E p \in Plates : Accept(p)
<1>1. armorList \in Seq(Armor) /\ Len(armorList) \in Nat
  BY DEF IInv, TypeOK
<1>2. PICK k \in 1 .. Len(armorList) :
        /\ armorList[k].activeState = Waiting
        /\ k <= Len(armorList')
        /\ armorList'[k].activeState = Activated
  BY DEF NewlyActive
<1>3. Waiting # Activated BY DEF Waiting, Activated
<1>4. armorList' # armorList BY <1>2, <1>3
<1>5. armorList' # << >> BY <1>1, <1>2
<1>6. ~Generate
  <2> SUFFICES ASSUME Generate PROVE FALSE OBVIOUS
  <2> DEFINE new == [armorNum |-> draw, activeState |-> Waiting]
  <2>1. armorList' = Append(armorList, new) BY DEF Generate
  <2> HIDE DEF new
  <2>2. armorList'[k] = armorList[k] BY <1>1, <2>1
  <2> QED BY <1>2, <1>3, <2>2
<1>7. ~Input /\ ~LightUp /\ ~SimStep /\ ~TaskSim
      /\ (\A p \in Plates : ~NewSecond(p)) /\ ~UNCHANGED vars
  BY <1>4, SimKeepsRest DEF Input, LightUp, rest, NewSecond, listVars, vars
<1>8. ~ScanEnd /\ (\A p \in Plates : ~Fail(p))
  BY <1>4, <1>5 DEF ScanEnd, Fail, Reset, listVars
<1> QED BY <1>6, <1>7, <1>8 DEF Next, TaskReferee

(* With a stamp from an answered ping no plate is won later than           *)
(* RESET_TIME and two ticks after it was lit, wherever Task_Sim is between *)
(* its trigger and its fetch, and however the clock wraps.                 *)
THEOREM RuneLateHitNeverCounts == Spec => LateHitNeverCounts
<1>1. IInv /\ AgeInv /\ [Next]_vars =>
        [synchronous_mode /\ answered /\ NewlyActive
           => Since(backTick, simTime) <= RESET_TIME + 2]_vars
  <2> SUFFICES ASSUME IInv, AgeInv, [Next]_vars, answered, NewlyActive
               PROVE  Age <= RESET_TIME + 2
    BY DEF Age
  <2>1. SignedAge <= RESET_TIME
    BY OnlyAcceptActivates DEF Accept, InTime
  <2>2. SignedAge = Age - Lag BY SignedAgeAnswered DEF IInv
  <2>3. Lag <= 2 BY StampTypes DEF AgeInv, AnsweredInv, IInv
  <2> QED BY <2>1, <2>2, <2>3, StampTypes DEF IInv
<1>2. IInv /\ AgeInv /\ [Next]_vars => AgeInv' BY NextAgeInv
<1> QED
  BY <1>1, <1>2, InitIInv, NextIInv, InitAgeInv, PTL
  DEF Spec, LateHitNeverCounts
===============================================================================
