------------------------------ MODULE MCVisionLink ------------------------------
(***************************************************************************)
(* VisionLink with a few packs: one to be lost, one to be torn by the next *)
(* one, and one after which the link is silent.                            *)
(***************************************************************************)
EXTENDS VisionLink
===============================================================================
