----------------------------- MODULE MCWatchCI ------------------------------
(* Instance of WatchCI for TLC.                                             *)
EXTENDS WatchCI, TLC
=============================================================================
