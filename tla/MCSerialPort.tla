------------------------------ MODULE MCSerialPort ------------------------------
(***************************************************************************)
(* SerialPort with packs of three bytes, up to three of them: enough for a *)
(* chunk that ends inside a pack, one that begins inside a pack, and one   *)
(* that holds a pack and a half.                                           *)
(***************************************************************************)
EXTENDS SerialPort
===============================================================================
