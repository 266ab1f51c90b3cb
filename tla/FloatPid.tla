------------------------------- MODULE FloatPid --------------------------------
(***************************************************************************)
(* myPID::Adjust (SRML/PID.cpp) and LowPassFilter (SRML/filters.cpp) as to *)
(* what becomes of values that are no numbers.  A float (IEEE 754) is      *)
(* "num", zero included, "inf", "nan" or "huge": a finite value, as it may *)
(* come off the wire, so large that it overflows when it is divided by a   *)
(* dt.  Nothing else overflows.  The infinite arguments of a sum have one  *)
(* sign: an infinite error makes the derivative infinite with it, and the  *)
(* error of the call after it is no number.                                *)
(*                                                                         *)
(* A controller is a record of what a call leaves for the next one: the    *)
(* raw inputs of the two filters, whose trust is 1 (now_error, now_d), the *)
(* previous error, the integrator and the output.  DeadZone is 0 and       *)
(* D_of_Current is off, as they are in this program.                       *)
(***************************************************************************)
EXTENDS PidTimer

Floats == {"num", "huge", "inf", "nan"}

Pids == [Target : Floats, Current : Floats, Out : Floats, now_error : Floats,
         pre_error : Floats, integral_e : Floats, now_d : Floats]

NewPid == [Target |-> "num", Current |-> "num", Out |-> "num",
           now_error |-> "num", pre_error |-> "num", integral_e |-> "num",
           now_d |-> "num"]

Plus(S) ==
  IF "nan" \in S THEN "nan"
  ELSE IF "inf" \in S THEN "inf"
  ELSE IF "huge" \in S THEN "huge" ELSE "num"

(* A gain that may be zero: 0 * inf is not a number.                       *)
Gain(nonzero, x) ==
  IF nonzero THEN x ELSE IF x \in {"inf", "nan"} THEN "nan" ELSE "num"

(* A difference over dt: 0 / 0 is not a number, any other x / 0 is         *)
(* infinite.  Of two huge values the difference may be 0.                  *)
Quotient(x, dtIsZero) ==
  CASE x \in {"inf", "nan"} -> {x}
    [] x \in {"num", "huge"} /\ dtIsZero -> {"inf", "nan"}
    [] x = "huge" /\ ~dtIsZero -> {"num", "inf"}
    [] x = "num" /\ ~dtIsZero -> {"num"}

(* now * 1 + last * 0.                                                     *)
LowPass(last, now) == Plus({now, Gain(FALSE, last)})

(* Mutant of Kept: the filter keeps what it returned.                      *)
KeptFiltered(raw, filtered) == filtered

(* What the filter keeps for its next call.                                *)
Kept(raw, filtered) == raw

(* Mutant of Constrain: no limit.                                          *)
ConstrainNone(x) == x

(* _pid_Constrain and _angle_Constrain: comparisons with nan are false.    *)
Constrain(x) == IF x = "nan" THEN "nan" ELSE "num"

(* The outcomes of a call with a time.  near: the error is within          *)
(* I_SeparThresh.  An error that is no number makes I_VarSpeedf zero, and  *)
(* 0 * nan is nan.                                                         *)
Measure(p, Ki, Kd, dtIsZero, near) ==
  LET raw == Plus({p.Target, p.Current})
      Error == LowPass(p.now_error, raw)
      integral == IF Ki THEN Plus({p.integral_e, Gain(FALSE, Error)}) ELSE "num"
      I_Term == IF near /\ Error = "num" THEN integral ELSE "num"
  IN {[p EXCEPT !.now_error = Kept(raw, Error),
                !.pre_error = Error,
                !.integral_e = integral,
                !.now_d = Kept(d, LowPass(p.now_d, d)),
                !.Out = Constrain(Plus({Error, I_Term,
                                        Gain(Kd, LowPass(p.now_d, d))}))] :
         d \in Quotient(Plus({Error, p.pre_error}), dtIsZero)}

(* A call: it returns Out, but without a last time 0, and Out stays.       *)
Adjust(p, Ki, Kd, stamp, near) ==
  IF stamp = "unset" THEN {p} ELSE Measure(p, Ki, Kd, stamp = "zero", near)

Returned(p, stamp) == IF stamp = "unset" THEN "num" ELSE p.Out
===============================================================================
