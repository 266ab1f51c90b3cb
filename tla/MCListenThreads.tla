---------------------------- MODULE MCListenThreads ----------------------------
(***************************************************************************)
(* ListenThreads with two ports that share s_bExit and as many threads as  *)
(* it takes to close a listener and open a second one.                     *)
(***************************************************************************)
EXTENDS ListenThreads
===============================================================================
