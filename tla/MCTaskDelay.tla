------------------------------ MODULE MCTaskDelay ------------------------------
(***************************************************************************)
(* TaskDelay with three tasks, a short, a middle and a long increment, and *)
(* a counter that wraps after a few of them.                               *)
(***************************************************************************)
EXTENDS TaskDelay
===============================================================================
