-------------------------------- MODULE Mailbox --------------------------------
(***************************************************************************)
(* What the path from the serial listener to Recv_Vision promises: a       *)
(* mailbox that may lose packs but neither invents, repeats nor reorders   *)
(* them.  Packs are numbered in the order in which the listener hands them *)
(* over.  VisionLink.tla implements this module.                           *)
(***************************************************************************)
EXTENDS Naturals

VARIABLES put,    \* the packs handed over so far
          taken,  \* the last one the task took; the ones in between are lost
          calls   \* how often the task took one

vars == <<put, taken, calls>>

Init == put = 0 /\ taken = 0 /\ calls = 0

Put == put' = put + 1 /\ UNCHANGED <<taken, calls>>

Take ==
  /\ taken' \in taken + 1 .. put
  /\ calls' = calls + 1
  /\ UNCHANGED put

Next == Put \/ Take

Spec == Init /\ [][Next]_vars
===============================================================================
