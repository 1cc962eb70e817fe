----------------------------- MODULE YardMirror -----------------------------
(***************************************************************************)
(* What the yard board promises, apart from how: a screen that mirrors a   *)
(* store.  The store changes; the screen jumps, now and then, to a state   *)
(* of the store that is newer than the one it shows and that the store has *)
(* really had.  It never goes back and never shows what never was.         *)
(***************************************************************************)
EXTENDS Integers

VARIABLES
    truth,  \* how often the store has changed
    shown   \* the state on the screen: -1 blank, 0 "never polled"

vars == <<truth, shown>>

Init == truth = 1 /\ shown = -1

Change ==
    /\ truth' = truth + 1
    /\ UNCHANGED shown

Show ==
    /\ shown' \in (shown + 1)..truth
    /\ UNCHANGED truth

Next == Change \/ Show

Spec == Init /\ [][Next]_vars
=============================================================================
