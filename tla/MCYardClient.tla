---------------------------- MODULE MCYardClient ----------------------------
(* Instance of YardClient for TLC: intervals of which one is none. *)
EXTENDS YardClient, TLC

CONSTANTS MaxSeq, Beats

MCPayloads == [seq : 0..MaxSeq, heartbeatMs : Beats]
=============================================================================
