----------------------------- MODULE YardClient -----------------------------
(***************************************************************************)
(* The browser (board/web/js/app.js with ingest.js and the watchdog of     *)
(* sse-protocol.js): it fetches the schema and a first snapshot, then      *)
(* reads the event stream for ever, reconnecting a while after each end.   *)
(* A payload that fails validation is discarded and disclosed; a valid one *)
(* is applied only if its seq exceeds the last applied; a watchdog marks   *)
(* the board disconnected after two heartbeat intervals without a frame.   *)
(*                                                                         *)
(* A valid payload is a record with its seq, the heartbeat interval of its *)
(* config and the content it shows; what is not JSON or fails the schema   *)
(* is Invalid.  A chunk with several frames is several frames in a row.    *)
(* JavaScript runs a handler to its end, so each action is one turn of the *)
(* event loop; a timer fires when it is due (Tick waits for it).  `silent' *)
(* counts the time since the last frame or connection and only serves the  *)
(* properties.                                                             *)
(***************************************************************************)
EXTENDS Integers

CONSTANTS
    Payloads,     \* valid payloads: records with fields seq and heartbeatMs
    Invalid,      \* any payload that does not validate
    DefaultBeat,  \* the 5000 ms of streamLoop, in units of the clock
    Nil           \* null

ASSUME ClientAssumption ==
    /\ \A p \in Payloads : p.seq \in Nat /\ p.heartbeatMs \in Nat
    /\ Invalid \notin Payloads
    /\ Nil \notin Payloads /\ Nil \notin Nat
    /\ Nil \notin [snapshot : Payloads, conditions : BOOLEAN, connected : BOOLEAN]
    /\ DefaultBeat \in Nat \ {0}

VARIABLES
    phase,        \* where main() and streamLoop stand
    ingestState,  \* the module variable of that name
    connected,    \* the module variable of that name
    beat,         \* the interval the watchdog was created with, Nil before
    timer,        \* time until the watchdog's timer fires, Nil if none is armed
    painted,      \* what renderBoard was last called with, Nil before
    silent        \* time since noteFrame was last called

vars == <<phase, ingestState, connected, beat, timer, painted, silent>>

Grace == 2 * beat

initialIngestState ==
    [snapshot |-> Nil, lastAppliedSeq |-> -1, markedStale |-> FALSE, clientConditions |-> FALSE]

-----------------------------------------------------------------------------
(* ingest.js *)

\* A slip in applyIncomingPayload: every valid payload is applied.
applyAnyPayload(state, p) ==
    IF p = Invalid
    THEN [state EXCEPT !.markedStale = TRUE, !.clientConditions = TRUE]
    ELSE [snapshot |-> p, lastAppliedSeq |-> p.seq, markedStale |-> FALSE, clientConditions |-> FALSE]

applyIncomingPayload(state, p) ==
    IF p = Invalid
    THEN [state EXCEPT !.markedStale = TRUE, !.clientConditions = TRUE]
    ELSE IF p.seq <= state.lastAppliedSeq THEN state
    ELSE [snapshot |-> p, lastAppliedSeq |-> p.seq, markedStale |-> FALSE, clientConditions |-> FALSE]

-----------------------------------------------------------------------------
(* app.js *)

\* What the board looks like for an ingest state and a connection flag.
View(state, isConnected) ==
    [snapshot |-> state.snapshot, conditions |-> state.clientConditions, connected |-> isConnected]

\* Slips in repaint: the guard on the first snapshot is gone; the connection flag
\* is not passed on.
repaintAlways(state, isConnected) == painted' = View(state, isConnected)
repaintOldFlag(state, isConnected) ==
    painted' = IF state.snapshot = Nil THEN painted ELSE View(state, connected)

\* repaint(), called with the state as the turn leaves it; before the first
\* valid payload there is nothing to paint.
repaint(state, isConnected) ==
    painted' = IF state.snapshot = Nil THEN painted ELSE View(state, isConnected)

\* A slip in noteFrame: an armed timer is left running.
noteFrameKeepsTimer ==
    /\ timer' = IF timer = Nil THEN Grace ELSE timer
    /\ silent' = 0

\* watchdog.noteFrame(): clear the timer and arm it anew.
noteFrame ==
    /\ timer' = Grace
    /\ silent' = 0

\* streamLoop() makes its watchdog once, of the first snapshot's config.
createWatchdog(state) ==
    beat' = IF state.snapshot = Nil \/ state.snapshot.heartbeatMs = 0 THEN DefaultBeat
            ELSE state.snapshot.heartbeatMs

handlePayload(p, isConnected) ==
    /\ ingestState' = applyIncomingPayload(ingestState, p)
    /\ repaint(ingestState', isConnected)

Init ==
    /\ phase = "schema"
    /\ ingestState = initialIngestState
    /\ connected = FALSE
    /\ beat = Nil
    /\ timer = Nil
    /\ painted = Nil
    /\ silent = 0

\* main() awaits the schema, then firstPaint awaits /api/snapshot.
FetchSchema ==
    /\ phase = "schema"
    /\ phase' = "firstPaint"
    /\ UNCHANGED <<ingestState, connected, beat, timer, painted, silent>>

\* Either fetch rejects: main() rejects with it and streamLoop never starts.
MainFails ==
    /\ phase \in {"schema", "firstPaint"}
    /\ phase' = "dead"
    /\ UNCHANGED <<ingestState, connected, beat, timer, painted, silent>>

FirstPaint(p) ==
    /\ phase = "firstPaint"
    /\ phase' = "connecting"
    /\ handlePayload(p, connected)
    /\ createWatchdog(ingestState')
    /\ UNCHANGED <<connected, timer, silent>>

\* fetch('/api/stream') resolves.
Connect ==
    /\ phase = "connecting"
    /\ phase' = "reading"
    /\ connected' = TRUE
    /\ noteFrame
    /\ repaint(ingestState, TRUE)
    /\ UNCHANGED <<ingestState, beat>>

\* fetch or reader.read() rejects: the catch clause.
StreamThrows ==
    /\ phase \in {"connecting", "reading"}
    /\ phase' = "backoff"
    /\ connected' = FALSE
    /\ repaint(ingestState, FALSE)
    /\ UNCHANGED <<ingestState, beat, timer, silent>>

\* reader.read() reports done: the inner loop ends, nothing else happens.
StreamEnds ==
    /\ phase = "reading"
    /\ phase' = "backoff"
    /\ UNCHANGED <<ingestState, connected, beat, timer, painted, silent>>

\* A heartbeat, or an event of another name.
OtherFrame ==
    /\ phase = "reading"
    /\ noteFrame
    /\ connected' = TRUE
    /\ IF connected THEN UNCHANGED painted ELSE repaint(ingestState, TRUE)
    /\ UNCHANGED <<phase, ingestState, beat>>

\* A frame of the event SSE_EVENT_NAME.
YardFrame(p) ==
    /\ phase = "reading"
    /\ noteFrame
    /\ connected' = TRUE
    /\ handlePayload(p, TRUE)
    /\ UNCHANGED <<phase, beat>>

\* The pause of one second is over.
Retry ==
    /\ phase = "backoff"
    /\ phase' = "connecting"
    /\ UNCHANGED <<ingestState, connected, beat, timer, painted, silent>>

\* The watchdog's timer: onDisconnect.
WatchdogFires ==
    /\ timer = 0
    /\ timer' = Nil
    /\ connected' = FALSE
    /\ repaint(ingestState, FALSE)
    /\ UNCHANGED <<phase, ingestState, beat, silent>>

\* Time passes; `silent' saturates just past the grace period, and before there is a
\* watchdog nothing is measured.
Tick ==
    /\ timer # 0
    /\ timer' = IF timer = Nil THEN Nil ELSE timer - 1
    /\ silent' = IF beat = Nil THEN 0 ELSE IF silent > Grace THEN silent ELSE silent + 1
    /\ UNCHANGED <<phase, ingestState, connected, beat, painted>>

Stream(p) == FirstPaint(p) \/ YardFrame(p)

Loop == FetchSchema \/ MainFails \/ Connect \/ StreamThrows \/ StreamEnds \/ OtherFrame \/ Retry

Next == \/ Loop \/ WatchdogFires \/ Tick
        \/ \E p \in Payloads \cup {Invalid} : Stream(p)

Spec == Init /\ [][Next]_vars

-----------------------------------------------------------------------------
(* Properties.                                                             *)

TypeOK ==
    /\ phase \in {"schema", "firstPaint", "dead", "connecting", "reading", "backoff"}
    /\ ingestState \in [snapshot : Payloads \cup {Nil}, lastAppliedSeq : Nat \cup {-1},
                        markedStale : BOOLEAN, clientConditions : BOOLEAN]
    /\ connected \in BOOLEAN
    /\ beat \in Nat \cup {Nil}
    /\ beat = Nil <=> phase \in {"schema", "firstPaint", "dead"}
    /\ timer \in Nat \cup {Nil}
    /\ painted \in [snapshot : Payloads, conditions : BOOLEAN, connected : BOOLEAN] \cup {Nil}
    /\ silent \in Nat

\* What is on the screen is what the state says: no path changes the snapshot,
\* the disclosed condition or the connection flag without a repaint.
ScreenIsTrue ==
    IF ingestState.snapshot = Nil THEN painted = Nil ELSE painted = View(ingestState, connected)

\* A silent connection is disclosed, and no other: past two heartbeat intervals without a
\* frame the board does not claim to be connected, whichever way the stream died
\* (gating-matrix, disconnect row); and while a stream is being read it says
\* disconnected only after two whole intervals without one.  The interval is
\* the one the watchdog was made with, whatever later pictures, of a server
\* started anew, say of theirs; it is never zero.
SilenceDisclosed ==
    /\ connected => silent <= Grace /\ timer # Nil
    /\ phase = "reading" => Grace > 0 /\ (~connected => silent >= Grace)

\* The screen never rolls back and never goes blank: only a picture with a greater
\* seq takes the place of one, through reconnects, duplicates, reordered frames and
\* discarded payloads; and the disclosure of a discarded payload goes only when one
\* that validates comes, not with a reconnect, a heartbeat or the watchdog.  (Which
\* valid payload it goes with is another matter: only one with a greater seq.)
NeverRollsBack ==
    [][painted # Nil =>
          /\ painted' # Nil
          /\ painted'.snapshot # painted.snapshot => painted'.snapshot.seq > painted.snapshot.seq
          /\ painted.conditions /\ ~painted'.conditions => \E p \in Payloads : YardFrame(p)]_vars
=============================================================================
