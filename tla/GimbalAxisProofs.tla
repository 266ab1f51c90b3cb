---------------------------- MODULE GimbalAxisProofs ----------------------------
(***************************************************************************)
(* What one axis of the gimbal promises for either axis, any modes, any    *)
(* pattern of calls within one millisecond and any floats from the PC.     *)
(*                                                                         *)
(* The arguments follow a value that is no number out of the controllers.  *)
(* A call with a time overwrites now_error and now_d by what it was given, *)
(* so what a disturbed call left behind is gone from now_error, pre_error, *)
(* now_d and Out, in this order, after one call more each; aimed and calm  *)
(* count these calls.  Only an integrator never forgets.                   *)
(***************************************************************************)
EXTENDS GimbalAxis, TLAPS

-------------------------------------------------------------------------------
(* One call of Adjust.                                                     *)

LEMMA PlusFacts ==
  ASSUME NEW x \in Floats, NEW y \in Floats
  PROVE  /\ Plus({x, y}) \in Floats
         /\ x = "num" /\ y = "num" => Plus({x, y}) = "num"
BY DEF Plus, Floats

LEMMA GainFacts ==
  ASSUME NEW nonzero, NEW x \in Floats
  PROVE  /\ Gain(nonzero, x) \in Floats
         /\ x = "num" => Gain(nonzero, x) = "num"
BY DEF Gain, Floats

LEMMA LowPassFacts ==
  ASSUME NEW last \in Floats, NEW now \in Floats
  PROVE  /\ LowPass(last, now) \in Floats
         /\ last = "num" /\ now = "num" => LowPass(last, now) = "num"
<1>1. /\ Gain(FALSE, last) \in Floats
      /\ last = "num" => Gain(FALSE, last) = "num"
  BY GainFacts
<1> QED BY <1>1, PlusFacts DEF LowPass

LEMMA QuotientFacts ==
  ASSUME NEW x \in Floats, NEW stamp
  PROVE  /\ Quotient(x, stamp = "zero") \subseteq Floats
         /\ stamp # "zero" /\ x = "num" => Quotient(x, stamp = "zero") = {"num"}
BY DEF Quotient, Floats

LEMMA SumFacts ==
  ASSUME NEW x \in Floats, NEW y \in Floats, NEW z \in Floats
  PROVE  /\ Constrain(Plus({x, y, z})) \in {"num", "nan"}
         /\ x = "num" /\ y = "num" /\ z = "num" => Constrain(Plus({x, y, z})) = "num"
BY DEF Plus, Constrain, Floats

(* What a call with a time leaves in the controller.                       *)
Measured(p, q, Ki, stamp) ==
  /\ q \in Pids /\ q.Current = p.Current /\ q.Target = p.Target
  /\ q.now_error = Plus({p.Target, p.Current})
  /\ q.Out \in {"num", "nan"}
  /\ q.now_error = "num" /\ p.now_error = "num" => q.pre_error = "num"
  /\ stamp # "zero" /\ q.pre_error = "num" /\ p.pre_error = "num" => q.now_d = "num"
  /\ (Ki => q.integral_e = "num")
       /\ q.pre_error = "num" /\ q.now_d = "num" /\ p.now_d = "num" => q.Out = "num"

LEMMA MeasureFacts ==
  ASSUME NEW p \in Pids, NEW Ki, NEW Kd, NEW stamp, NEW near,
         NEW q \in Measure(p, Ki, Kd, stamp = "zero", near)
  PROVE  Measured(p, q, Ki, stamp)
<1> DEFINE raw == Plus({p.Target, p.Current})
           Error == LowPass(p.now_error, raw)
           integral == IF Ki THEN Plus({p.integral_e, Gain(FALSE, Error)}) ELSE "num"
           I_Term == IF near /\ Error = "num" THEN integral ELSE "num"
           D_Term(d) == Gain(Kd, LowPass(p.now_d, d))
<1>1. /\ p.Target \in Floats /\ p.Current \in Floats /\ p.now_error \in Floats
      /\ p.pre_error \in Floats /\ p.integral_e \in Floats /\ p.now_d \in Floats
  BY DEF Pids
<1>2. raw \in Floats BY <1>1, PlusFacts
<1>3. Error \in Floats /\ (raw = "num" /\ p.now_error = "num" => Error = "num")
  BY <1>1, <1>2, LowPassFacts
<1>4. /\ integral \in Floats /\ I_Term \in Floats
      /\ (Ki => integral = "num") => I_Term = "num"
  <2>1. Gain(FALSE, Error) \in Floats BY <1>3, GainFacts
  <2>2. Plus({p.integral_e, Gain(FALSE, Error)}) \in Floats BY <1>1, <2>1, PlusFacts
  <2>3. integral \in Floats BY <2>2 DEF Floats
  <2> QED BY <2>3 DEF Floats
<1> HIDE DEF raw, Error, integral, I_Term
<1>5. PICK d \in Quotient(Plus({Error, p.pre_error}), stamp = "zero") :
        q = [p EXCEPT !.now_error = raw, !.pre_error = Error,
                      !.integral_e = integral, !.now_d = d,
                      !.Out = Constrain(Plus({Error, I_Term, D_Term(d)}))]
  BY DEF Measure, Kept, raw, Error, integral, I_Term
<1>6. d \in Floats
      /\ (stamp # "zero" /\ Error = "num" /\ p.pre_error = "num" => d = "num")
  <2>1. Plus({Error, p.pre_error}) \in Floats
        /\ (Error = "num" /\ p.pre_error = "num" => Plus({Error, p.pre_error}) = "num")
    BY <1>1, <1>3, PlusFacts
  <2>2. /\ d \in Floats
        /\ stamp # "zero" /\ Plus({Error, p.pre_error}) = "num" => d = "num"
    BY <2>1, QuotientFacts
  <2> QED BY <2>1, <2>2
<1>7. D_Term(d) \in Floats /\ (d = "num" /\ p.now_d = "num" => D_Term(d) = "num")
  <2>1. LowPass(p.now_d, d) \in Floats
        /\ (d = "num" /\ p.now_d = "num" => LowPass(p.now_d, d) = "num")
    BY <1>1, <1>6, LowPassFacts
  <2> QED BY <2>1, GainFacts
<1> HIDE DEF D_Term
<1>8. /\ q.now_error = raw /\ q.pre_error = Error /\ q.now_d = d
      /\ q.integral_e = integral
      /\ q.Target = p.Target /\ q.Current = p.Current
      /\ q.Out = Constrain(Plus({Error, I_Term, D_Term(d)}))
  BY <1>5 DEF Pids
<1>9. q.Out \in {"num", "nan"}
      /\ (Error = "num" /\ I_Term = "num" /\ D_Term(d) = "num" => q.Out = "num")
  BY <1>3, <1>4, <1>7, <1>8, SumFacts
<1>10. q \in Pids
  BY <1>1, <1>2, <1>3, <1>4, <1>5, <1>6, <1>8, <1>9 DEF Pids, Floats
<1>11. q.now_error = Plus({p.Target, p.Current}) BY <1>8 DEF raw
<1>12. (Ki => q.integral_e = "num") /\ q.pre_error = "num" /\ q.now_d = "num"
         /\ p.now_d = "num" => q.Out = "num"
  <2> SUFFICES ASSUME Ki => q.integral_e = "num", q.pre_error = "num",
                      q.now_d = "num", p.now_d = "num"
               PROVE  q.Out = "num"
    OBVIOUS
  <2>1. Ki => integral = "num" BY <1>8
  <2>2. I_Term = "num" BY <1>4, <2>1
  <2> QED BY <1>7, <1>8, <1>9, <2>2
<1> QED BY <1>3, <1>6, <1>8, <1>9, <1>10, <1>11, <1>12 DEF Measured

(* No controller is given or hands on a value that is not finite but       *)
(* "nan".                                                                  *)
PidSound(p) ==
  /\ p \in Pids
  /\ p.Target \in {"num", "nan"} /\ p.Out \in {"num", "nan"}

(* What a dt of zero never reaches, if target and measurement are numbers. *)
Steady(p) ==
  p.Target = "num" /\ p.Current = "num" /\ p.now_error = "num" /\ p.pre_error = "num"

(* What no call changes, and what every call keeps.                        *)
Keeps(p, q) ==
  /\ q.Target = p.Target /\ q.Current = p.Current
  /\ Steady(p) => Steady(q)

(* An undisturbed call on numbers: each field follows the one before.      *)
Recovers(p, q) ==
  /\ q.now_error = "num"
  /\ p.now_error = "num" => q.pre_error = "num"
  /\ p.now_error = "num" /\ p.pre_error = "num" => q.now_d = "num"
OutRecovered(p, q, Ki) ==
  Steady(p) /\ p.now_d = "num" /\ (Ki => q.integral_e = "num") => q.Out = "num"

LEMMA AdjustSound ==
  ASSUME NEW p, PidSound(p), NEW Ki, NEW Kd, NEW stamp, NEW near,
         NEW q \in Adjust(p, Ki, Kd, stamp, near)
  PROVE  PidSound(q) /\ Returned(q, stamp) \in {"num", "nan"} /\ Keeps(p, q)
<1>1. CASE stamp = "unset"
  <2>1. q = p BY <1>1 DEF Adjust
  <2> QED BY <1>1, <2>1 DEF Returned, Keeps
<1>2. CASE stamp # "unset"
  <2>1. q \in Measure(p, Ki, Kd, stamp = "zero", near) BY <1>2 DEF Adjust
  <2>2. p \in Pids BY DEF PidSound
  <2>3. Measured(p, q, Ki, stamp) BY <2>1, <2>2, MeasureFacts
  <2>4. p.Target = "num" /\ p.Current = "num" => q.now_error = "num"
    BY <2>3, PlusFacts DEF Measured, Floats
  <2> QED BY <1>2, <2>3, <2>4 DEF Measured, PidSound, Steady, Returned, Keeps
<1> QED BY <1>1, <1>2

LEMMA AdjustRecovers ==
  ASSUME NEW p, PidSound(p), p.Target = "num", p.Current = "num",
         NEW Ki, NEW Kd, NEW near, NEW stamp, stamp = "positive",
         NEW q \in Adjust(p, Ki, Kd, stamp, near)
  PROVE  Recovers(p, q) /\ Returned(q, stamp) = q.Out /\ OutRecovered(p, q, Ki)
<1>1. q \in Measure(p, Ki, Kd, stamp = "zero", near) BY DEF Adjust
<1>2. p \in Pids BY DEF PidSound
<1>3. Measured(p, q, Ki, stamp) BY <1>1, <1>2, MeasureFacts
<1>4. q.now_error = "num" BY <1>3, PlusFacts DEF Measured, Floats
<1>5. Returned(q, stamp) = q.Out BY DEF Returned
<1>6. Recovers(p, q) BY <1>3, <1>4 DEF Measured, Recovers
<1>7. OutRecovered(p, q, Ki)
  BY <1>3, <1>6 DEF Measured, OutRecovered, Recovers, Steady
<1> QED BY <1>5, <1>6, <1>7

-------------------------------------------------------------------------------
(* Types.                                                                  *)

PidsSound ==
  PidSound(aim) /\ PidSound(enc) /\ PidSound(angle) /\ PidSound(speed)

TInv == TypeOK /\ PidsSound

LEMMA InitTInv == Init => TInv
<1>1. PidSound(NewPid) BY DEF PidSound, Pids, NewPid, Floats
<1>2. 0 \in -1 .. Long /\ 0 \in 0 .. Long BY GimbalAxisAssumption
<1> QED BY <1>1, <1>2 DEF Init, TInv, TypeOK, PidsSound, PidSound

(* A count stays one, whatever the step does with it.                      *)
LEMMA CountFacts ==
  ASSUME calm \in -1 .. Long, aimed \in 0 .. Long
  PROVE  /\ \A stamp : Disturb(stamp) => calm' \in -1 .. Long
         /\ UpToLong(calm) \in -1 .. Long
         /\ UpToLong(aimed) \in 0 .. Long /\ 0 \in 0 .. Long
BY GimbalAxisAssumption DEF Disturb, UpToLong

(* The heading is limited in ASSIST and kept in every other mode.          *)
LEMMA HeadingFacts ==
  ASSUME PidSound(aim), PidSound(angle), NEW m
  PROVE  /\ Heading(m, angle.Target) \in {"num", "nan"}
         /\ m # "ASSIST" => Heading(m, angle.Target) = angle.Target
         /\ aim.Out = "num" /\ angle.Target = "num" => Heading(m, angle.Target) = "num"
         /\ angle.Target # "num" => Heading(m, angle.Target) # "num"
<1>1. angle.Target \in {"num", "nan"} /\ aim.Out \in {"num", "nan"}
  BY DEF PidSound
<1> QED BY <1>1 DEF Heading, Plus, Constrain

(* The aim with the float of the last pack.                                *)
LEMMA AimedAt ==
  ASSUME NEW delta \in Floats, PidSound(aim)
  PROVE  LET p == [aim EXCEPT !.Current = delta] IN
         /\ PidSound(p) /\ p.Current = delta /\ p.Target = aim.Target
         /\ p.now_error = aim.now_error /\ p.pre_error = aim.pre_error
         /\ p.now_d = aim.now_d
BY DEF PidSound, Pids

LEMMA NextTInv == TInv /\ [Next]_vars => TInv'
<1> SUFFICES ASSUME TInv, [Next]_vars PROVE TInv' OBVIOUS
<1> USE DEF TInv, PidsSound, TypeOK
<1>0. PidsSound' => /\ ({aim, enc, angle, speed} \subseteq Pids)'
                    /\ (\A p \in {aim, enc, angle, speed} :
                          {p.Out, p.Target} \subseteq {"num", "nan"})'
  BY DEF PidSound
<1>1. CASE Aim
  <2>1. PICK delta \in Floats, stamp \in Stamps, near \in BOOLEAN :
          /\ aim' \in Adjust([aim EXCEPT !.Current = delta], FALSE, TRUE, stamp, near)
          /\ aimed' = IF delta = "num" /\ stamp = "positive" THEN UpToLong(aimed) ELSE 0
    BY <1>1 DEF Aim
  <2>2. PidSound(aim') BY <2>1, AdjustSound, AimedAt
  <2>3. PidsSound' BY <1>1, <2>2 DEF Aim
  <2>4. aimed' \in 0 .. Long BY <2>1, CountFacts
  <2> QED BY <1>0, <1>1, <2>3, <2>4 DEF Aim
<1>2. CASE TakeMode
  <2>1. angle' = [angle EXCEPT !.Target = Heading(mode', @)]
        /\ UNCHANGED <<aim, enc, speed>>
    BY <1>2 DEF TakeMode
  <2>2. PidSound(angle') BY <2>1, HeadingFacts DEF PidSound, Pids, Floats
  <2>3. PidsSound' BY <2>1, <2>2
  <2>4. calm' \in -1 .. Long BY <1>2, GimbalAxisAssumption DEF TakeMode
  <2> QED BY <1>0, <1>2, <2>3, <2>4 DEF TakeMode
<1>3. CASE AdjustAngle
  <2>1. PICK stamp \in Stamps, near \in BOOLEAN :
          /\ angle' \in Adjust(angle, FALSE, FALSE, stamp, near)
          /\ Disturb(stamp)
          /\ speed' = [speed EXCEPT !.Target = Returned(angle', stamp)]
    BY <1>3 DEF AdjustAngle
  <2>2. PidSound(angle') /\ Returned(angle', stamp) \in {"num", "nan"}
    BY <2>1, AdjustSound
  <2>3. PidSound(speed') BY <2>1, <2>2 DEF PidSound, Pids, Floats
  <2>4. PidsSound' BY <1>3, <2>2, <2>3 DEF AdjustAngle
  <2> QED BY <1>0, <1>3, <2>1, <2>4, CountFacts DEF AdjustAngle
<1>4. CASE AdjustEnc
  <2>1. PICK stamp \in Stamps, near \in BOOLEAN :
          /\ enc' \in Adjust(enc, FALSE, FALSE, stamp, near)
          /\ Disturb(stamp)
          /\ speed' = [speed EXCEPT !.Target = Returned(enc', stamp)]
    BY <1>4 DEF AdjustEnc
  <2>2. PidSound(enc') /\ Returned(enc', stamp) \in {"num", "nan"}
    BY <2>1, AdjustSound
  <2>3. PidSound(speed') BY <2>1, <2>2 DEF PidSound, Pids, Floats
  <2>4. PidsSound' BY <1>4, <2>2, <2>3 DEF AdjustEnc
  <2> QED BY <1>0, <1>4, <2>1, <2>4, CountFacts DEF AdjustEnc
<1>5. CASE AdjustSpeed
  <2>1. PICK stamp \in Stamps, near \in BOOLEAN :
          /\ speed' \in Adjust(speed, SpeedKi, FALSE, stamp, near)
          /\ Disturb(stamp)
          /\ outData' = Returned(speed', stamp)
    BY <1>5 DEF AdjustSpeed
  <2>2. PidSound(speed') /\ outData' \in {"num", "nan"} BY <2>1, AdjustSound
  <2>3. PidsSound' BY <1>5, <2>2 DEF AdjustSpeed
  <2> QED BY <1>0, <1>5, <2>1, <2>2, <2>3, CountFacts DEF AdjustSpeed
<1>6. CASE KeepTarget \/ End
  <2>1. UNCHANGED <<axis, aim, enc, angle, speed, outData, mode, aimed>>
        /\ calm' \in -1 .. Long
    BY <1>6, CountFacts DEF KeepTarget, End
  <2>2. PidsSound' BY <2>1
  <2> QED BY <1>0, <1>6, <2>1, <2>2 DEF KeepTarget, End
<1>7. CASE UNCHANGED vars BY <1>7 DEF vars
<1> QED BY <1>1, <1>2, <1>3, <1>4, <1>5, <1>6, <1>7 DEF Next

(* Whatever is called within one millisecond and whatever the PC sends,    *)
(* the controllers hand on numbers or "not a number", never an infinite    *)
(* value.                                                                  *)
THEOREM GimbalAxisTypeOK == Spec => []TypeOK
<1>1. TInv => TypeOK BY DEF TInv
<1> QED BY <1>1, InitTInv, NextTInv, PTL DEF Spec

-------------------------------------------------------------------------------
(* The heading.                                                            *)

(* The aim forgets a disturbed call field by field.                        *)
AimInv ==
  /\ aim.Target = "num"
  /\ aimed >= 1 => aim.now_error = "num"
  /\ aimed >= 2 => aim.pre_error = "num"
  /\ aimed >= 3 => aim.now_d = "num"
  /\ aimed >= 4 => aim.Out = "num"

LEMMA NextAimInv ==
  ASSUME TInv, AimInv, [Next]_vars
  PROVE  AimInv'
<1>1. aimed \in Int /\ PidSound(aim)
  BY GimbalAxisAssumption DEF TInv, TypeOK, PidsSound
<1>2. CASE Aim
  <2>1. PICK delta \in Floats, stamp \in Stamps, near \in BOOLEAN :
          /\ aim' \in Adjust([aim EXCEPT !.Current = delta], FALSE, TRUE, stamp, near)
          /\ aimed' = IF delta = "num" /\ stamp = "positive" THEN UpToLong(aimed) ELSE 0
    BY <1>2 DEF Aim
  <2> DEFINE p == [aim EXCEPT !.Current = delta]
  <2>2. /\ PidSound(p) /\ p.Current = delta /\ p.Target = aim.Target
        /\ p.now_error = aim.now_error /\ p.pre_error = aim.pre_error
        /\ p.now_d = aim.now_d
    BY <1>1, AimedAt
  <2>3. aim' \in Adjust(p, FALSE, TRUE, stamp, near) BY <2>1
  <2> HIDE DEF p
  <2>4. aim'.Target = "num"
    <3>1. Keeps(p, aim') BY <2>2, <2>3, AdjustSound
    <3> QED BY <2>2, <3>1 DEF AimInv, Keeps
  <2>5. CASE delta = "num" /\ stamp = "positive"
    <3>1. p.Target = "num" /\ p.Current = "num" BY <2>2, <2>5 DEF AimInv
    <3>2. Recovers(p, aim') /\ OutRecovered(p, aim', FALSE)
      BY <2>2, <2>3, <2>5, <3>1, AdjustRecovers
    <3>3. aimed' \in Int /\ aimed' <= aimed + 1
      BY <1>1, <2>1, <2>5, GimbalAxisAssumption DEF UpToLong
    <3>4. /\ aim'.now_error = "num"
          /\ aimed >= 1 => aim'.pre_error = "num"
          /\ aimed >= 2 => aim'.now_d = "num"
      BY <1>1, <2>2, <3>2 DEF Recovers, AimInv
    <3>5. aimed >= 3 => aim'.Out = "num"
      BY <1>1, <2>2, <3>1, <3>2 DEF OutRecovered, AimInv, Steady
    <3> QED BY <1>1, <2>4, <3>3, <3>4, <3>5 DEF AimInv
  <2>6. CASE ~(delta = "num" /\ stamp = "positive")
    <3>1. aimed' = 0 BY <2>1, <2>6
    <3> QED BY <2>4, <3>1 DEF AimInv
  <2> QED BY <2>5, <2>6
<1>3. CASE ~Aim
  <2>1. aim' = aim /\ aimed' = aimed
    BY <1>3 DEF Next, TakeMode, AdjustAngle, AdjustEnc, KeepTarget, AdjustSpeed,
                End, vars
  <2> QED BY <2>1 DEF AimInv
<1> QED BY <1>2, <1>3

LEMMA InitAimInv == Init => AimInv
BY DEF Init, AimInv, NewPid

(* Only TakeMode moves the heading.                                        *)
LEMMA HeadingSteps ==
  ASSUME TInv, [Next]_vars
  PROVE  /\ HeadingKept' => HeadingKept
         /\ HeadingKept /\ ~TakeMode => HeadingKept'
<1>1. PidSound(aim) /\ PidSound(angle) BY DEF TInv, PidsSound
<1>2. CASE TakeMode
  <2>1. angle' = [angle EXCEPT !.Target = Heading(mode', @)] BY <1>2 DEF TakeMode
  <2>2. angle'.Target = Heading(mode', angle.Target)
    BY <1>1, <2>1 DEF PidSound, Pids
  <2> QED BY <1>1, <1>2, <2>2, HeadingFacts DEF HeadingKept
<1>3. CASE AdjustAngle
  <2>1. PICK stamp \in Stamps, near \in BOOLEAN :
          angle' \in Adjust(angle, FALSE, FALSE, stamp, near)
    BY <1>3 DEF AdjustAngle
  <2>2. Keeps(angle, angle') BY <1>1, <2>1, AdjustSound
  <2> QED BY <2>2 DEF HeadingKept, Keeps
<1>4. CASE ~TakeMode /\ ~AdjustAngle
  <2>1. angle' = angle
    BY <1>4 DEF Next, Aim, AdjustEnc, KeepTarget, AdjustSpeed, End, vars
  <2> QED BY <2>1 DEF HeadingKept
<1> QED BY <1>2, <1>3, <1>4

(* Whatever the PC sends, the heading is only lost in ASSIST, by the call  *)
(* of the aim that had a dt of zero or a float that is no number or huge,  *)
(* or by one of the three calls after it.                                  *)
THEOREM GimbalHeadingLostOnlyInAssist == Spec => HeadingLostOnlyInAssist
<1>1. TInv /\ AimInv /\ [Next]_vars =>
        [HeadingKept /\ ~HeadingKept' => mode' = "ASSIST" /\ aimed < 4]_vars
  <2> SUFFICES ASSUME TInv, AimInv, [Next]_vars, HeadingKept, ~HeadingKept'
               PROVE  mode' = "ASSIST" /\ aimed < 4
    OBVIOUS
  <2>1. TakeMode BY HeadingSteps
  <2>2. PidSound(aim) /\ PidSound(angle) /\ aimed \in Int
    BY GimbalAxisAssumption DEF TInv, TypeOK, PidsSound
  <2>3. angle'.Target = Heading(mode', angle.Target)
    BY <2>1, <2>2 DEF TakeMode, PidSound, Pids
  <2>4. Heading(mode', angle.Target) # "num" /\ angle.Target = "num"
    BY <2>3 DEF HeadingKept
  <2>5. mode' = "ASSIST" /\ aim.Out # "num" BY <2>2, <2>4, HeadingFacts
  <2> QED BY <2>2, <2>5 DEF AimInv
<1>2. TInv /\ AimInv /\ [Next]_vars => AimInv' BY NextAimInv
<1> QED
  BY <1>1, <1>2, InitTInv, NextTInv, InitAimInv, PTL
  DEF Spec, HeadingLostOnlyInAssist

-------------------------------------------------------------------------------
(* The way back to a number.                                               *)

(* How many undisturbed calls in a row the PID on the angle, and the PID   *)
(* on the speed, have had.                                                 *)
AngleCalls == IF pc \in {"speed", "end"} THEN calm + 1 ELSE calm
SpeedCalls == IF pc = "end" THEN calm + 1 ELSE calm

(* The PID on the angle forgets a dt of zero in one call and hands the     *)
(* speed a number from the second on.                                      *)
SourceInv ==
  TargetSound =>
    /\ Source(mode) = "angle" /\ AngleCalls >= 1 => angle.now_d = "num"
    /\ Source(mode) = "enc" /\ AngleCalls >= 1 => enc.now_d = "num"
    /\ AngleCalls >= 2 => speed.Target = "num"

(* Given one, the PID on the speed forgets in four.                        *)
SpeedInv ==
  TargetSound =>
    /\ SpeedCalls >= 2 => speed.now_error = "num"
    /\ SpeedCalls >= 3 => speed.pre_error = "num"
    /\ SpeedCalls >= 4 => speed.now_d = "num"
    /\ SpeedCalls >= 5 /\ (SpeedKi => speed.integral_e = "num") => outData = "num"

RecoverInv ==
  /\ Steady(enc) /\ speed.Current = "num" /\ angle.Current = "num"
  /\ HeadingKept => Steady(angle)
  /\ SourceInv
  /\ SpeedInv

LEMMA InitRecoverInv == Init => RecoverInv
BY DEF Init, RecoverInv, SourceInv, SpeedInv, Steady, NewPid, HeadingKept,
       AngleCalls, SpeedCalls

(* A step that leaves the PIDs on the angle and the speed alone, and does  *)
(* not count more calls.                                                   *)
LEMMA CountsOnlyFall ==
  ASSUME TInv, RecoverInv, UNCHANGED <<axis, enc, angle, speed, outData, mode>>,
         SpeedCalls' <= SpeedCalls, SpeedCalls' \in Int, SpeedCalls \in Int,
         AngleCalls \in Int, AngleCalls' \in Int,
         AngleCalls' <= AngleCalls \/ Source(mode) \notin {"angle", "enc"}
  PROVE  RecoverInv'
<1>1. /\ HeadingKept' = HeadingKept /\ Source(mode)' = Source(mode)
      /\ TargetSound' => TargetSound /\ Source(mode) \in {"angle", "enc"}
      /\ SpeedKi => SpeedKi'
  BY DEF HeadingKept, Source, TargetSound, SpeedKi
<1>2. SourceInv'
  BY <1>1 DEF SourceInv, RecoverInv
<1>3. SpeedInv' BY <1>1 DEF SpeedInv, RecoverInv
<1> QED BY <1>1, <1>2, <1>3 DEF RecoverInv, Steady

LEMMA TakeModeRecoverInv ==
  ASSUME TInv, RecoverInv, TakeMode
  PROVE  RecoverInv'
<1>1. /\ pc = "mode" /\ calm \in Int /\ PidSound(angle)
  BY GimbalAxisAssumption DEF TakeMode, TInv, TypeOK, PidsSound
<1>2. /\ UNCHANGED <<axis, aim, enc, speed>>
      /\ pc' = (IF mode' = "RUNAWAY" THEN "end" ELSE "angle")
      /\ outData' = (IF mode' = "RUNAWAY" THEN "num" ELSE outData)
      /\ calm' = (IF Source(mode') = Source(mode) \/ calm < 0 THEN calm ELSE 0)
  BY DEF TakeMode
<1>3. HeadingKept' => HeadingKept BY HeadingSteps DEF Next
<1>4. /\ HeadingKept' /\ Steady(angle) => Steady(angle')
      /\ angle'.now_d = angle.now_d /\ angle'.Current = angle.Current
  <2>1. angle' = [angle EXCEPT !.Target = Heading(mode', @)] BY DEF TakeMode
  <2>2. /\ angle'.now_error = angle.now_error /\ angle'.pre_error = angle.pre_error
        /\ angle'.now_d = angle.now_d /\ angle'.Current = angle.Current
    BY <1>1, <2>1 DEF PidSound, Pids
  <2> QED BY <2>2 DEF Steady, HeadingKept
<1>5. CASE mode' = "RUNAWAY"
  <2>1. ~TargetSound' BY <1>5 DEF TargetSound, Source
  <2> QED BY <1>2, <1>3, <1>4, <2>1 DEF RecoverInv, SourceInv, SpeedInv, Steady
<1>6. CASE mode' # "RUNAWAY"
  <2>1. AngleCalls = calm /\ SpeedCalls = calm
        /\ AngleCalls' = calm' /\ SpeedCalls' = calm'
    BY <1>1, <1>2, <1>6 DEF AngleCalls, SpeedCalls
  <2>2. calm' \in Int BY <1>1, <1>2
  <2>3. CASE calm' >= 1
    <3>1. calm' = calm /\ Source(mode') = Source(mode) BY <1>1, <1>2, <2>3
    <3>2. Source(mode)' = Source(mode) BY <1>2, <3>1 DEF Source
    <3>3. TargetSound' => TargetSound BY <1>3, <3>2 DEF TargetSound
    <3>4. SourceInv' BY <1>2, <1>4, <2>1, <3>1, <3>2, <3>3 DEF SourceInv, RecoverInv
    <3>5. SpeedKi => SpeedKi' BY <1>2 DEF SpeedKi
    <3>6. SpeedInv'
      BY <1>2, <1>6, <2>1, <3>1, <3>3, <3>5 DEF SpeedInv, RecoverInv
    <3> QED BY <1>2, <1>3, <1>4, <3>4, <3>6 DEF RecoverInv, Steady
  <2>4. CASE ~(calm' >= 1)
    <3>1. SourceInv' /\ SpeedInv' BY <2>1, <2>2, <2>4 DEF SourceInv, SpeedInv
    <3> QED BY <1>2, <1>3, <1>4, <3>1 DEF RecoverInv, Steady
  <2> QED BY <2>3, <2>4
<1> QED BY <1>5, <1>6

(* The PID on the angle is called: the source of the mode gains a call.    *)
LEMMA AdjustAngleRecoverInv ==
  ASSUME TInv, RecoverInv, AdjustAngle
  PROVE  RecoverInv'
<1>1. PICK stamp \in Stamps, near \in BOOLEAN :
        /\ angle' \in Adjust(angle, FALSE, FALSE, stamp, near)
        /\ Disturb(stamp)
        /\ speed' = [speed EXCEPT !.Target = Returned(angle', stamp)]
  BY DEF AdjustAngle
<1>2. /\ pc = "angle" /\ pc' = "speed" /\ Source(mode) = "angle"
      /\ UNCHANGED <<axis, enc, outData, mode>>
      /\ calm \in Int /\ PidSound(angle) /\ PidSound(speed)
  BY GimbalAxisAssumption DEF AdjustAngle, TInv, TypeOK, PidsSound
<1>3. AngleCalls = calm /\ SpeedCalls = calm
      /\ AngleCalls' = calm' + 1 /\ SpeedCalls' = calm'
  BY <1>2 DEF AngleCalls, SpeedCalls
<1>4. Keeps(angle, angle') BY <1>1, <1>2, AdjustSound
<1>5. /\ HeadingKept' => HeadingKept
      /\ Source(mode)' = "angle" /\ (TargetSound' => HeadingKept) /\ TargetSound = HeadingKept
      /\ SpeedKi => SpeedKi'
  <2>1. Source(mode)' = Source(mode) BY <1>2 DEF Source
  <2>2. HeadingKept' => HeadingKept BY <1>4 DEF Keeps, HeadingKept
  <2>3. TargetSound' => HeadingKept BY <1>2, <2>1, <2>2 DEF TargetSound
  <2>4. TargetSound = HeadingKept BY <1>2 DEF TargetSound, HeadingKept
  <2> QED BY <1>2, <2>1, <2>2, <2>3, <2>4 DEF SpeedKi
<1>6. speed'.Target = Returned(angle', stamp)
      /\ speed'.now_error = speed.now_error /\ speed'.pre_error = speed.pre_error
      /\ speed'.now_d = speed.now_d /\ speed'.integral_e = speed.integral_e
      /\ speed'.Current = speed.Current
  BY <1>1, <1>2 DEF PidSound, Pids
<1>7. /\ Steady(enc') /\ speed'.Current = "num" /\ angle'.Current = "num"
      /\ HeadingKept' => Steady(angle')
  BY <1>2, <1>4, <1>5, <1>6 DEF RecoverInv, Keeps
<1>8. CASE ~HeadingKept
  BY <1>5, <1>7, <1>8 DEF RecoverInv, SourceInv, SpeedInv
<1>9. CASE HeadingKept /\ stamp = "positive"
  <2>1. calm' = calm BY <1>1, <1>9 DEF Disturb
  <2>2. Steady(angle) /\ SourceInv /\ SpeedInv BY <1>9 DEF RecoverInv
  <2>3. Recovers(angle, angle') /\ OutRecovered(angle, angle', FALSE)
    BY <1>1, <1>2, <1>9, <2>2, AdjustRecovers DEF Steady
  <2>4. Returned(angle', stamp) = angle'.Out BY <1>9 DEF Returned
  <2>5. angle'.now_d = "num" BY <2>2, <2>3 DEF Recovers, Steady
  <2>6. calm >= 1 => speed'.Target = "num"
    BY <1>2, <1>3, <1>5, <1>6, <1>9, <2>2, <2>3, <2>4 DEF SourceInv, OutRecovered
  <2>7. SourceInv' BY <1>2, <1>3, <1>5, <2>1, <2>5, <2>6 DEF SourceInv
  <2>8. SpeedInv' BY <1>2, <1>3, <1>5, <1>6, <1>9, <2>1, <2>2 DEF SpeedInv
  <2> QED BY <1>7, <2>7, <2>8 DEF RecoverInv
<1>10. CASE HeadingKept /\ stamp # "positive"
  <2>1. calm' = -1 BY <1>1, <1>10 DEF Disturb
  <2>2. SourceInv' /\ SpeedInv' BY <1>3, <2>1 DEF SourceInv, SpeedInv
  <2> QED BY <1>7, <2>2 DEF RecoverInv
<1> QED BY <1>8, <1>9, <1>10

(* The PID fed by the encoder is called: the same, with no heading.        *)
LEMMA AdjustEncRecoverInv ==
  ASSUME TInv, RecoverInv, AdjustEnc
  PROVE  RecoverInv'
<1>1. PICK stamp \in Stamps, near \in BOOLEAN :
        /\ enc' \in Adjust(enc, FALSE, FALSE, stamp, near)
        /\ Disturb(stamp)
        /\ speed' = [speed EXCEPT !.Target = Returned(enc', stamp)]
  BY DEF AdjustEnc
<1>2. /\ pc = "angle" /\ pc' = "speed" /\ Source(mode) = "enc"
      /\ UNCHANGED <<axis, angle, outData, mode>>
      /\ calm \in Int /\ PidSound(enc) /\ PidSound(speed)
  BY GimbalAxisAssumption DEF AdjustEnc, TInv, TypeOK, PidsSound
<1>3. AngleCalls = calm /\ SpeedCalls = calm
      /\ AngleCalls' = calm' + 1 /\ SpeedCalls' = calm'
  BY <1>2 DEF AngleCalls, SpeedCalls
<1>4. Steady(enc) /\ Steady(enc')
  BY <1>1, <1>2, AdjustSound DEF Keeps, RecoverInv
<1>5. /\ Source(mode)' = "enc" /\ TargetSound /\ (SpeedKi => SpeedKi')
      /\ HeadingKept' => HeadingKept
  <2>1. Source(mode)' = Source(mode) BY <1>2 DEF Source
  <2> QED BY <1>2, <2>1 DEF TargetSound, SpeedKi, HeadingKept
<1>6. speed'.Target = Returned(enc', stamp)
      /\ speed'.now_error = speed.now_error /\ speed'.pre_error = speed.pre_error
      /\ speed'.now_d = speed.now_d /\ speed'.integral_e = speed.integral_e
      /\ speed'.Current = speed.Current
  BY <1>1, <1>2 DEF PidSound, Pids
<1>7. /\ Steady(enc') /\ speed'.Current = "num" /\ angle'.Current = "num"
      /\ HeadingKept' => Steady(angle')
  BY <1>2, <1>4, <1>5, <1>6 DEF RecoverInv
<1>8. CASE stamp = "positive"
  <2>1. calm' = calm BY <1>1, <1>8 DEF Disturb
  <2>2. SourceInv /\ SpeedInv BY DEF RecoverInv
  <2>3. Recovers(enc, enc') /\ OutRecovered(enc, enc', FALSE)
    BY <1>1, <1>2, <1>4, <1>8, AdjustRecovers DEF Steady
  <2>4. Returned(enc', stamp) = enc'.Out BY <1>8 DEF Returned
  <2>5. enc'.now_d = "num" BY <1>4, <2>3 DEF Recovers, Steady
  <2>6. calm >= 1 => speed'.Target = "num"
    BY <1>2, <1>3, <1>4, <1>5, <1>6, <2>2, <2>3, <2>4 DEF SourceInv, OutRecovered
  <2>7. SourceInv' BY <1>2, <1>3, <1>5, <2>1, <2>5, <2>6 DEF SourceInv
  <2>8. SpeedInv' BY <1>2, <1>3, <1>5, <1>6, <2>1, <2>2 DEF SpeedInv
  <2> QED BY <1>7, <2>7, <2>8 DEF RecoverInv
<1>9. CASE stamp # "positive"
  <2>1. calm' = -1 BY <1>1, <1>9 DEF Disturb
  <2>2. SourceInv' /\ SpeedInv' BY <1>3, <2>1 DEF SourceInv, SpeedInv
  <2> QED BY <1>7, <2>2 DEF RecoverInv
<1> QED BY <1>8, <1>9

(* The PID on the speed is called.                                         *)
LEMMA AdjustSpeedRecoverInv ==
  ASSUME TInv, RecoverInv, AdjustSpeed
  PROVE  RecoverInv'
<1>1. PICK stamp \in Stamps, near \in BOOLEAN :
        /\ speed' \in Adjust(speed, SpeedKi, FALSE, stamp, near)
        /\ Disturb(stamp)
        /\ outData' = Returned(speed', stamp)
  BY DEF AdjustSpeed
<1>2. /\ pc = "speed" /\ pc' = "end"
      /\ UNCHANGED <<axis, enc, angle, mode>>
      /\ calm \in Int /\ PidSound(speed)
  BY GimbalAxisAssumption DEF AdjustSpeed, TInv, TypeOK, PidsSound
<1>3. AngleCalls = calm + 1 /\ SpeedCalls = calm
      /\ AngleCalls' = calm' + 1 /\ SpeedCalls' = calm' + 1
  BY <1>2 DEF AngleCalls, SpeedCalls
<1>4. /\ Source(mode)' = Source(mode)
      /\ TargetSound' => TargetSound
      /\ SpeedKi => SpeedKi'
      /\ HeadingKept' => HeadingKept
  BY <1>2 DEF Source, TargetSound, HeadingKept, SpeedKi
<1>5. Keeps(speed, speed') BY <1>1, <1>2, AdjustSound
<1>6. /\ Steady(enc') /\ speed'.Current = "num" /\ angle'.Current = "num"
      /\ HeadingKept' => Steady(angle')
  BY <1>2, <1>4, <1>5 DEF RecoverInv, Keeps
<1>7. CASE ~TargetSound
  BY <1>4, <1>6, <1>7 DEF RecoverInv, SourceInv, SpeedInv
<1>8. CASE TargetSound /\ stamp = "positive"
  <2>1. calm' = calm BY <1>1, <1>8 DEF Disturb
  <2>2. SourceInv /\ SpeedInv BY DEF RecoverInv
  <2>3. SourceInv'
    BY <1>2, <1>3, <1>4, <1>5, <2>1, <2>2 DEF SourceInv, Keeps
  <2>4. SpeedInv'
    <3>1. CASE calm >= 1
      <4>1. speed.Target = "num" /\ speed.Current = "num"
        BY <1>2, <1>3, <1>8, <2>2, <3>1 DEF SourceInv, RecoverInv
      <4>2. Recovers(speed, speed') /\ OutRecovered(speed, speed', SpeedKi)
        BY <1>1, <1>2, <1>8, <4>1, AdjustRecovers
      <4>3. outData' = speed'.Out BY <1>1, <1>8 DEF Returned
      <4>4. /\ speed'.now_error = "num"
            /\ calm >= 2 => speed'.pre_error = "num"
            /\ calm >= 3 => speed'.now_d = "num"
        BY <1>2, <1>3, <1>8, <2>2, <4>2 DEF SpeedInv, Recovers
      <4>5. calm >= 4 /\ (SpeedKi => speed'.integral_e = "num") => outData' = "num"
        BY <1>2, <1>3, <1>8, <2>2, <4>1, <4>2, <4>3
        DEF SpeedInv, OutRecovered, Steady
      <4> QED BY <1>2, <1>3, <1>4, <2>1, <4>4, <4>5 DEF SpeedInv
    <3>2. CASE ~(calm >= 1) BY <1>2, <1>3, <2>1, <3>2 DEF SpeedInv
    <3> QED BY <3>1, <3>2
  <2> QED BY <1>6, <2>3, <2>4 DEF RecoverInv
<1>9. CASE TargetSound /\ stamp # "positive"
  <2>1. calm' = -1 BY <1>1, <1>9 DEF Disturb
  <2>2. SourceInv' /\ SpeedInv' BY <1>3, <2>1 DEF SourceInv, SpeedInv
  <2> QED BY <1>6, <2>2 DEF RecoverInv
<1> QED BY <1>7, <1>8, <1>9

LEMMA NextRecoverInv ==
  ASSUME TInv, RecoverInv, [Next]_vars
  PROVE  RecoverInv'
<1>1. calm \in Int /\ calm \in -1 .. Long /\ Long \in Int
  BY GimbalAxisAssumption DEF TInv, TypeOK
<1>2. CASE Aim
  BY <1>1, <1>2, CountsOnlyFall DEF Aim, AngleCalls, SpeedCalls
<1>3. CASE KeepTarget
  BY <1>1, <1>3, CountsOnlyFall DEF KeepTarget, AngleCalls, SpeedCalls
<1>4. CASE End
  <2>1. calm' \in Int /\ calm' <= calm + 1 BY <1>1, <1>4 DEF End, UpToLong
  <2> QED BY <1>1, <1>4, <2>1, CountsOnlyFall DEF End, AngleCalls, SpeedCalls
<1>5. CASE UNCHANGED vars
  BY <1>1, <1>5, CountsOnlyFall DEF vars, AngleCalls, SpeedCalls
<1> QED
  BY <1>2, <1>3, <1>4, <1>5, TakeModeRecoverInv, AdjustAngleRecoverInv,
     AdjustEncRecoverInv, AdjustSpeedRecoverInv
  DEF Next

(* On either axis, five control steps without a dt of zero bring the       *)
(* output back to a number, whatever happened before and whatever the PC   *)
(* sends, if the mode sets the speed to follow, the heading is a number    *)
(* where the mode follows it and the integrator, where there is one, is.   *)
THEOREM GimbalOutRecovers == Spec => []OutRecovers
<1>1. TInv /\ RecoverInv => OutRecovers
  <2> SUFFICES ASSUME TInv, RecoverInv, calm >= 5, pc = "aim", TargetSound,
                      SpeedKi => speed.integral_e = "num"
               PROVE  outData = "num"
    BY DEF OutRecovers
  <2>1. SpeedCalls = calm /\ calm \in Int
    BY GimbalAxisAssumption DEF SpeedCalls, TInv, TypeOK
  <2> QED BY <2>1 DEF RecoverInv, SpeedInv
<1>2. TInv /\ RecoverInv /\ [Next]_vars => RecoverInv' BY NextRecoverInv
<1> QED
  BY <1>1, <1>2, InitTInv, NextTInv, InitRecoverInv, PTL DEF Spec
===============================================================================
