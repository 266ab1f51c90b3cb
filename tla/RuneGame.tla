------------------------------- MODULE RuneGame -------------------------------
(***************************************************************************)
(* What the energy rune promises the robot that shoots at it, without the  *)
(* code's list, clock, lamps or task structure.                            *)
(*                                                                         *)
(* One plate at a time waits to be hit.  A hit on it activates it and the  *)
(* next plate, one that is not active yet, lights up; a wrong or a late    *)
(* hit puts the whole rune back to nothing.  When every plate is active    *)
(* the rune is done, and it stays done.                                    *)
(*                                                                         *)
(* Rune.tla implements this module: see Game there.                        *)
(***************************************************************************)
CONSTANTS Plates,  \* the armour plates of the rune
          None     \* no plate waits (the next one has not been drawn yet)

VARIABLES activated,  \* the plates that have been hit
          waiting,    \* the plate whose turn it is, or None
          done        \* every plate was activated

vars == <<activated, waiting, done>>

Init ==
  /\ activated = {}
  /\ waiting \in Plates
  /\ done = FALSE

(* The next plate is drawn among those that are not active. *)
Light ==
  /\ ~done
  /\ waiting = None
  /\ waiting' \in Plates \ activated
  /\ UNCHANGED <<activated, done>>

(* The waiting plate is hit; the last one completes the rune. *)
Activate ==
  /\ ~done
  /\ waiting # None
  /\ activated' = activated \cup {waiting}
  /\ waiting' = None
  /\ done' = (activated' = Plates)

(* A wrong hit, or none for too long: all over again. *)
Restart ==
  /\ ~done
  /\ activated' = {}
  /\ waiting' = None
  /\ UNCHANGED done

Next == Light \/ Activate \/ Restart

(* Safety alone, and with the promise that a target always reappears. *)
Safe == Init /\ [][Next]_vars
Spec == Safe /\ WF_vars(Light)
===============================================================================
