----------------------------- MODULE MCYardPoll -----------------------------
(* Instance of YardPoll for TLC. *)
EXTENDS YardPoll, TLC
=============================================================================
