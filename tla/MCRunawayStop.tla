----------------------------- MODULE MCRunawayStop -----------------------------
(***************************************************************************)
(* RunawayStop with two wheels, so that Task_Transmit may copy one before  *)
(* and one after the chassis stops, outputs that are not numbers, and a PC *)
(* that may take RUNAWAY back.                                             *)
(***************************************************************************)
EXTENDS RunawayStop
===============================================================================
