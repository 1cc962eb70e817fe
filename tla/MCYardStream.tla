---------------------------- MODULE MCYardStream ----------------------------
(* Instance of YardStream for TLC. *)
EXTENDS YardStream, TLC
=============================================================================
