----------------------------- MODULE PidTimerProofs ----------------------------
(***************************************************************************)
(* What UpdataTimeStamp measures, for every range of the counter and every *)
(* resolution of the clock above one tick.                                 *)
(***************************************************************************)
EXTENDS PidTimer, TLAPS

(* Without a wrap dt is the time that has passed, with one a tick less.    *)
LEMMA DtAfter ==
  ASSUME NEW last_time \in Ticks, NEW elapsed \in Ticks
  PROVE  Dt(last_time, SystemTick(last_time, elapsed)) =
           IF last_time + elapsed < TickMod THEN elapsed ELSE elapsed - 1
<1> USE PidTimerAssumption DEF Ticks
<1>1. CASE last_time + elapsed < TickMod
  <2>1. SystemTick(last_time, elapsed) = last_time + elapsed
    BY <1>1 DEF SystemTick
  <2> QED BY <1>1, <2>1 DEF Dt
<1>2. CASE ~(last_time + elapsed < TickMod)
  <2>1. SystemTick(last_time, elapsed) = last_time + elapsed - TickMod
    BY <1>2 DEF SystemTick
  <2>2. last_time + elapsed - TickMod < last_time OBVIOUS
  <2> QED BY <1>2, <2>1, <2>2 DEF Dt
<1> QED BY <1>1, <1>2

(* The time between two calls is measured across the wrap of the counter,  *)
(* and only a clock that has not moved gives a controller a dt of zero.    *)
THEOREM PidTimeIsMeasured == TimeIsMeasured
<1> SUFFICES ASSUME NEW last_time \in Ticks, NEW elapsed \in Ticks
             PROVE  LET now_time == SystemTick(last_time, elapsed) IN
                    /\ elapsed - 1 <= Dt(last_time, now_time)
                    /\ Dt(last_time, now_time) <= elapsed
                    /\ last_time # 0 /\ (elapsed = 0 \/ Resolution <= elapsed) =>
                         (UpdataTimeStamp(last_time, now_time) = "zero"
                            <=> elapsed = 0)
  BY DEF TimeIsMeasured
<1> DEFINE now_time == SystemTick(last_time, elapsed)
<1>1. Dt(last_time, now_time) =
        IF last_time + elapsed < TickMod THEN elapsed ELSE elapsed - 1
  BY DtAfter
<1>2. last_time \in Int /\ last_time < TickMod /\ elapsed \in Int /\ elapsed >= 0
  BY PidTimerAssumption DEF Ticks
<1>3. elapsed - 1 <= Dt(last_time, now_time) /\ Dt(last_time, now_time) <= elapsed
  BY <1>1, <1>2
<1>4. elapsed = 0 \/ Resolution <= elapsed =>
        (Dt(last_time, now_time) = 0 <=> elapsed = 0)
  BY <1>1, <1>2, PidTimerAssumption
<1>5. last_time # 0 =>
        (UpdataTimeStamp(last_time, now_time) = "zero"
           <=> Dt(last_time, now_time) = 0)
  BY DEF UpdataTimeStamp
<1> QED BY <1>3, <1>4, <1>5
===============================================================================
