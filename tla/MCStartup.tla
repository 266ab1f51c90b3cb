------------------------------- MODULE MCStartup -------------------------------
(***************************************************************************)
(* Startup with two objects of the scene, one listener per port and up to  *)
(* two bytes waiting: enough for a listener that is in the middle of its   *)
(* count, at every place of the read, when exit(0) closes its port.        *)
(***************************************************************************)
EXTENDS Startup
===============================================================================
