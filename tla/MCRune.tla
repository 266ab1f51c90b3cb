-------------------------------- MODULE MCRune --------------------------------
(***************************************************************************)
(* Rune on small runes: three plates in the mode the program runs in, with *)
(* a clock that stands still, and two in synchronous mode, with the clock. *)
(* More plates show nothing three do not: one before, at and after the     *)
(* waiting one.  More ticks show nothing a limit of 0 and stamps up to 3   *)
(* ticks old do not: a hit before (the stamp is older than the plate), at  *)
(* and after the limit, by more than the two ticks that are allowed for.   *)
(***************************************************************************)
EXTENDS Rune
===============================================================================
