----------------------------- MODULE MCGimbalAxis ------------------------------
(***************************************************************************)
(* GimbalAxis for yaw and for pitch and one mode of each kind.             *)
(***************************************************************************)
EXTENDS GimbalAxis

(* TLC evaluates it for the counter of the configuration; it is proved for *)
(* every counter in PidTimerProofs.                                        *)
ASSUME TimeIsMeasuredHere == TimeIsMeasured
===============================================================================
