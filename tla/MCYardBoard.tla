---------------------------- MODULE MCYardBoard -----------------------------
(* Instance of YardBoard for TLC. *)
EXTENDS YardBoard, TLC
=============================================================================
