-------------------------- MODULE YardClientProofs --------------------------
(***************************************************************************)
(* Proofs about YardClient, for any payloads and heartbeat intervals: the  *)
(* screen follows the state, a silent connection is disclosed, and the     *)
(* view never rolls back.                                                  *)
(***************************************************************************)
EXTENDS YardClient, TLAPS

LEMMA NilFacts == Nil \notin Nat /\ Nil \notin Payloads /\ Invalid \notin Payloads /\ DefaultBeat \in Nat \ {0}
  BY ClientAssumption DEF ClientAssumption

LEMMA PayloadFacts == ASSUME NEW p \in Payloads PROVE p.seq \in Nat /\ p.heartbeatMs \in Nat
  BY ClientAssumption DEF ClientAssumption

IngestStates == [snapshot : Payloads \cup {Nil}, lastAppliedSeq : Nat \cup {-1},
                 markedStale : BOOLEAN, clientConditions : BOOLEAN]

-----------------------------------------------------------------------------
(* What the reducer of ingest.js keeps.                                    *)

\* A payload leaves the state one of its kind, and once there is a picture there
\* always is one.
LEMMA ApplyKeepsType ==
  ASSUME NEW state \in IngestStates, NEW p \in Payloads \cup {Invalid}
  PROVE  /\ applyIncomingPayload(state, p) \in IngestStates
         /\ state.snapshot # Nil => applyIncomingPayload(state, p).snapshot # Nil
<1>1. CASE p = Invalid
  BY <1>1 DEF applyIncomingPayload, IngestStates
<1>2. CASE p # Invalid
  <2>1. p \in Payloads /\ p.seq \in Nat
    BY <1>2, PayloadFacts
  <2>2. CASE p.seq <= state.lastAppliedSeq
    BY <1>2, <2>2 DEF applyIncomingPayload
  <2>3. CASE ~(p.seq <= state.lastAppliedSeq)
    <3>1. applyIncomingPayload(state, p) =
              [snapshot |-> p, lastAppliedSeq |-> p.seq, markedStale |-> FALSE, clientConditions |-> FALSE]
      BY <1>2, <2>3 DEF applyIncomingPayload
    <3>2. QED
      BY <2>1, <3>1, NilFacts DEF IngestStates
  <2>4. QED
    BY <2>2, <2>3
<1>3. QED
  BY <1>1, <1>2

\* The last seq applied is that of the picture held.
SeqOfPicture(state) == state.snapshot # Nil => state.lastAppliedSeq = state.snapshot.seq

\* A payload leaves the picture and the disclosure alone, or is valid, has a greater
\* seq and becomes the picture.
LEMMA ApplyNeverRollsBack ==
  ASSUME NEW state \in IngestStates, NEW p \in Payloads \cup {Invalid}, SeqOfPicture(state)
  PROVE  LET after == applyIncomingPayload(state, p)
         IN  /\ SeqOfPicture(after)
             /\ \/ after.snapshot = state.snapshot /\ (state.clientConditions => after.clientConditions)
                \/ p \in Payloads /\ after.snapshot = p /\ p.seq > state.lastAppliedSeq
<1>1. CASE p = Invalid
  BY <1>1 DEF applyIncomingPayload, IngestStates, SeqOfPicture
<1>2. CASE p # Invalid
  BY <1>2, PayloadFacts DEF applyIncomingPayload, IngestStates, SeqOfPicture
<1>3. QED
  BY <1>1, <1>2

\* A repaint of a typed state paints a picture, if there is one to paint.
LEMMA RepaintKeepsType ==
  ASSUME NEW state \in IngestStates, NEW flag \in BOOLEAN, repaint(state, flag),
         painted \in [snapshot : Payloads, conditions : BOOLEAN, connected : BOOLEAN] \cup {Nil}
  PROVE  painted' \in [snapshot : Payloads, conditions : BOOLEAN, connected : BOOLEAN] \cup {Nil}
  BY DEF repaint, View, IngestStates

-----------------------------------------------------------------------------
(* Type correctness.                                                       *)

LEMMA InitTypeOK == Init => TypeOK
<1> SUFFICES ASSUME Init PROVE TypeOK
  OBVIOUS
<1>1. ingestState \in IngestStates
  BY DEF Init, initialIngestState, IngestStates
<1>2. connected \in BOOLEAN
  BY Zenon DEF Init
<1>3. QED
  BY <1>1, <1>2 DEF Init, TypeOK, IngestStates

LEMMA NextTypeOK == TypeOK /\ [Next]_vars => TypeOK'
<1> SUFFICES ASSUME TypeOK, [Next]_vars PROVE TypeOK'
  OBVIOUS
<1>0. ingestState \in IngestStates /\ connected \in BOOLEAN
  BY DEF TypeOK, IngestStates
<1>1. CASE FetchSchema \/ MainFails \/ Retry \/ StreamEnds
  BY <1>1 DEF FetchSchema, MainFails, Retry, StreamEnds, TypeOK
<1>2. ASSUME NEW p \in Payloads \cup {Invalid}, FirstPaint(p) PROVE TypeOK'
  <2>1. ingestState' \in IngestStates /\ connected' = connected
    BY <1>0, <1>2, ApplyKeepsType DEF FirstPaint, handlePayload
  <2>2. beat' \in Nat
    <3>1. CASE ingestState'.snapshot = Nil
      BY <1>2, <3>1, NilFacts DEF FirstPaint, createWatchdog
    <3>2. CASE ingestState'.snapshot # Nil
      <4>1. ingestState'.snapshot \in Payloads
        BY <2>1, <3>2 DEF IngestStates
      <4>2. QED
        BY <1>2, <4>1, NilFacts, PayloadFacts DEF FirstPaint, createWatchdog
    <3>3. QED
      BY <3>1, <3>2
  <2>3. painted' \in [snapshot : Payloads, conditions : BOOLEAN, connected : BOOLEAN] \cup {Nil}
    BY <1>0, <1>2, <2>1, RepaintKeepsType DEF FirstPaint, handlePayload, TypeOK
  <2>4. QED
    BY <1>2, <2>1, <2>2, <2>3, NilFacts DEF FirstPaint, TypeOK, IngestStates
<1>3. CASE Connect \/ OtherFrame
  <2>1. beat \in Nat
    BY <1>3 DEF Connect, OtherFrame, TypeOK
  <2>2. noteFrame /\ connected' = TRUE /\ UNCHANGED <<ingestState, beat>> /\ phase' = "reading"
    BY <1>3 DEF Connect, OtherFrame
  <2>3. timer' \in Nat /\ silent' \in Nat
    BY <2>1, <2>2 DEF noteFrame, Grace
  <2>4. painted' = painted \/ repaint(ingestState, TRUE)
    BY <1>3 DEF Connect, OtherFrame
  <2>5. painted' \in [snapshot : Payloads, conditions : BOOLEAN, connected : BOOLEAN] \cup {Nil}
    BY <1>0, <2>4, RepaintKeepsType DEF TypeOK
  <2>6. QED
    BY <2>1, <2>2, <2>3, <2>5, NilFacts DEF TypeOK
<1>4. ASSUME NEW p \in Payloads \cup {Invalid}, YardFrame(p) PROVE TypeOK'
  <2>1. beat \in Nat
    BY <1>4 DEF YardFrame, TypeOK
  <2>2. timer' \in Nat /\ silent' \in Nat
    BY <1>4, <2>1 DEF YardFrame, noteFrame, Grace
  <2>3. ingestState' \in IngestStates
    BY <1>0, <1>4, ApplyKeepsType DEF YardFrame, handlePayload
  <2>4. painted' \in [snapshot : Payloads, conditions : BOOLEAN, connected : BOOLEAN] \cup {Nil}
    BY <1>4, <2>3, RepaintKeepsType DEF YardFrame, handlePayload, TypeOK
  <2>5. QED
    BY <1>4, <2>2, <2>3, <2>4 DEF YardFrame, TypeOK, IngestStates
<1>5. CASE StreamThrows \/ WatchdogFires
  <2>1. painted' \in [snapshot : Payloads, conditions : BOOLEAN, connected : BOOLEAN] \cup {Nil}
    BY <1>0, <1>5, RepaintKeepsType DEF StreamThrows, WatchdogFires, TypeOK
  <2>2. QED
    BY <1>5, <2>1 DEF StreamThrows, WatchdogFires, TypeOK
<1>6. CASE Tick
  <2>1. timer' \in Nat \cup {Nil} /\ silent' \in Nat
    BY <1>6 DEF Tick, TypeOK
  <2>2. QED
    BY <1>6, <2>1 DEF Tick, TypeOK
<1>7. CASE UNCHANGED vars
  BY <1>7 DEF vars, TypeOK
<1>8. QED
  BY <1>1, <1>2, <1>3, <1>4, <1>5, <1>6, <1>7 DEF Next, Loop, Stream

\* Every variable of the tab keeps its type; in particular there is a watchdog
\* exactly from the first paint on, and only valid payloads are ever painted.
THEOREM ClientTypeCorrect == Spec => []TypeOK
<1>1. Init => TypeOK
  BY InitTypeOK
<1>2. TypeOK /\ [Next]_vars => TypeOK'
  BY NextTypeOK
<1>3. QED
  BY <1>1, <1>2, PTL DEF Spec

-----------------------------------------------------------------------------
(* The screen.                                                             *)

LEMMA NextScreenIsTrue == TypeOK /\ ScreenIsTrue /\ [Next]_vars => ScreenIsTrue'
<1> SUFFICES ASSUME TypeOK, ScreenIsTrue, [Next]_vars PROVE ScreenIsTrue'
  OBVIOUS
<1>0. ingestState \in IngestStates
  BY DEF TypeOK, IngestStates
<1>1. CASE FetchSchema \/ MainFails \/ Retry \/ StreamEnds \/ Tick
  BY <1>1 DEF FetchSchema, MainFails, Retry, StreamEnds, Tick, ScreenIsTrue
<1>2. ASSUME NEW p \in Payloads \cup {Invalid}, Stream(p) PROVE ScreenIsTrue'
  <2>1. /\ ingestState' = applyIncomingPayload(ingestState, p)
        /\ repaint(ingestState', connected')
    BY <1>2 DEF Stream, FirstPaint, YardFrame, handlePayload
  <2>2. ingestState.snapshot # Nil => ingestState'.snapshot # Nil
    BY <1>0, <2>1, ApplyKeepsType
  <2>3. QED
    BY <2>1, <2>2 DEF repaint, ScreenIsTrue
<1>3. CASE Connect \/ StreamThrows \/ WatchdogFires
  BY <1>3 DEF Connect, StreamThrows, WatchdogFires, repaint, ScreenIsTrue
<1>4. CASE OtherFrame
  <2>1. CASE connected = TRUE
    BY <1>4, <2>1 DEF OtherFrame, ScreenIsTrue
  <2>2. CASE connected = FALSE
    BY <1>4, <2>2 DEF OtherFrame, repaint, ScreenIsTrue
  <2>3. QED
    BY <2>1, <2>2 DEF TypeOK
<1>5. CASE UNCHANGED vars
  BY <1>5 DEF vars, ScreenIsTrue
<1>6. QED
  BY <1>1, <1>2, <1>3, <1>4, <1>5 DEF Next, Loop

\* Whatever the order of frames, ends, errors and timers, the screen shows what
\* the state of app.js says.
THEOREM ScreenFollowsState == Spec => []ScreenIsTrue
<1>1. Init => ScreenIsTrue
  BY DEF Init, initialIngestState, ScreenIsTrue
<1>2. QED
  BY <1>1, NextScreenIsTrue, ClientTypeCorrect, PTL DEF Spec

-----------------------------------------------------------------------------
(* The watchdog.                                                           *)

\* An armed timer and the silence share the grace period between them; a
\* connection that is claimed has an armed timer, and one that is not, while
\* its stream is read, has been silent for the whole of it.
WatchdogInv ==
    /\ beat = Nil => ~connected /\ timer = Nil /\ silent = 0
    /\ beat # Nil => beat > 0
    /\ timer # Nil => timer + silent = Grace
    /\ connected => timer # Nil
    /\ phase = "reading" /\ ~connected => silent >= Grace

LEMMA NextWatchdogInv == TypeOK /\ WatchdogInv /\ [Next]_vars => WatchdogInv'
<1> SUFFICES ASSUME TypeOK, WatchdogInv, [Next]_vars PROVE WatchdogInv'
  OBVIOUS
<1> USE NilFacts DEF Grace
<1>0. /\ beat \in Nat \cup {Nil} /\ timer \in Nat \cup {Nil} /\ silent \in Nat
      /\ connected \in BOOLEAN /\ ingestState \in IngestStates
  BY DEF TypeOK, IngestStates
<1>1. CASE FetchSchema \/ MainFails \/ Retry \/ StreamEnds \/ StreamThrows
  <2>1. /\ UNCHANGED <<beat, timer, silent>> /\ phase' # "reading"
        /\ connected' = connected \/ connected' = FALSE
    BY <1>1 DEF FetchSchema, MainFails, Retry, StreamEnds, StreamThrows
  <2>2. QED
    BY <2>1 DEF WatchdogInv
<1>2. ASSUME NEW p \in Payloads \cup {Invalid}, FirstPaint(p) PROVE WatchdogInv'
  <2>1. beat = Nil
    BY <1>2 DEF FirstPaint, TypeOK
  <2>2. ingestState' \in IngestStates
    BY <1>0, <1>2, ApplyKeepsType DEF FirstPaint, handlePayload
  <2>3. beat' \in Nat \ {0}
    <3>1. ingestState'.snapshot # Nil => ingestState'.snapshot.heartbeatMs \in Nat
      BY <2>2, PayloadFacts DEF IngestStates
    <3>2. QED
      BY <1>2, <3>1 DEF FirstPaint, createWatchdog
  <2>4. QED
    BY <1>2, <2>1, <2>3 DEF FirstPaint, WatchdogInv
<1>3. ASSUME phase \in {"connecting", "reading"}, noteFrame, beat' = beat, connected' = TRUE PROVE WatchdogInv'
  <2>1. beat \in Nat
    BY <1>3 DEF TypeOK
  <2>2. beat > 0
    BY <2>1 DEF WatchdogInv
  <2>3. timer' = 2 * beat /\ silent' = 0
    BY <1>3 DEF noteFrame
  <2>4. QED
    BY <1>3, <2>1, <2>2, <2>3 DEF WatchdogInv
<1>4. CASE Connect \/ OtherFrame
  BY <1>3, <1>4 DEF Connect, OtherFrame
<1>5. ASSUME NEW p \in Payloads \cup {Invalid}, YardFrame(p) PROVE WatchdogInv'
  BY <1>3, <1>5 DEF YardFrame
<1>6. CASE WatchdogFires
  BY <1>0, <1>6 DEF WatchdogFires, WatchdogInv
<1>7. CASE Tick
  <2>1. CASE beat = Nil
    BY <1>7, <2>1 DEF Tick, WatchdogInv
  <2>2. CASE beat # Nil
    BY <1>0, <1>7, <2>2 DEF Tick, WatchdogInv
  <2>3. QED
    BY <2>1, <2>2
<1>8. CASE UNCHANGED vars
  BY <1>8 DEF vars, WatchdogInv
<1>9. QED
  BY <1>1, <1>2, <1>4, <1>5, <1>6, <1>7, <1>8 DEF Next, Loop, Stream

LEMMA WatchdogDiscloses == TypeOK /\ WatchdogInv => SilenceDisclosed
<1> SUFFICES ASSUME TypeOK, WatchdogInv PROVE SilenceDisclosed
  OBVIOUS
<1>1. ASSUME connected PROVE silent <= Grace /\ timer # Nil
  <2>1. beat \in Nat /\ timer \in Nat /\ silent \in Nat /\ timer + silent = Grace
    BY <1>1, NilFacts DEF WatchdogInv, TypeOK
  <2>2. QED
    BY <2>1, NilFacts DEF Grace
<1>2. ASSUME phase = "reading" PROVE Grace > 0 /\ (~connected => silent >= Grace)
  <2>1. beat \in Nat /\ beat > 0
    BY <1>2 DEF WatchdogInv, TypeOK
  <2>2. QED
    BY <1>2, <2>1 DEF WatchdogInv, Grace
<1>3. QED
  BY <1>1, <1>2 DEF SilenceDisclosed

\* Past two heartbeat intervals without a frame no board claims to be connected, and
\* no stream that is read is called disconnected before.
THEOREM SilenceIsDisclosed == Spec => []SilenceDisclosed
<1>1. Init => WatchdogInv
  BY DEF Init, WatchdogInv
<1>2. QED
  BY <1>1, NextWatchdogInv, WatchdogDiscloses, ClientTypeCorrect, PTL DEF Spec

-----------------------------------------------------------------------------
(* The view.                                                               *)

\* Every step runs the reducer on a payload it reads, or leaves its state alone.
LEMMA IngestStep ==
    ASSUME [Next]_vars, ingestState' # ingestState
    PROVE  \E p \in Payloads \cup {Invalid} :
               Stream(p) /\ ingestState' = applyIncomingPayload(ingestState, p)
<1>1. ~ (Loop \/ WatchdogFires \/ Tick \/ UNCHANGED vars)
  BY DEF Loop, FetchSchema, MainFails, Connect, StreamThrows, StreamEnds, OtherFrame, Retry,
         WatchdogFires, Tick, vars
<1>2. PICK p \in Payloads \cup {Invalid} : Stream(p)
  BY <1>1 DEF Next
<1>3. ingestState' = applyIncomingPayload(ingestState, p)
  BY <1>2 DEF Stream, FirstPaint, YardFrame, handlePayload
<1>4. QED
  BY <1>2, <1>3

\* The picture goes with its seq, and there is none before the first paint.
PictureInv ==
    /\ SeqOfPicture(ingestState)
    /\ phase \in {"schema", "firstPaint"} => ingestState.snapshot = Nil

LEMMA NextPictureInv == TypeOK /\ PictureInv /\ [Next]_vars => PictureInv'
<1> SUFFICES ASSUME TypeOK, PictureInv, [Next]_vars PROVE PictureInv'
  OBVIOUS
<1>1. CASE ingestState' = ingestState
  <2>1. phase' \in {"schema", "firstPaint"} => phase \in {"schema", "firstPaint"}
    BY DEF Next, Loop, Stream, FetchSchema, MainFails, FirstPaint, Connect, StreamThrows, StreamEnds,
           OtherFrame, YardFrame, Retry, WatchdogFires, Tick, vars
  <2>2. QED
    BY <1>1, <2>1 DEF PictureInv, SeqOfPicture
<1>2. CASE ingestState' # ingestState
  <2>1. PICK p \in Payloads \cup {Invalid} :
            Stream(p) /\ ingestState' = applyIncomingPayload(ingestState, p)
    BY <1>2, IngestStep
  <2>2. ingestState \in IngestStates
    BY DEF TypeOK, IngestStates
  <2>3. phase' \notin {"schema", "firstPaint"}
    BY <2>1 DEF Stream, FirstPaint, YardFrame
  <2>4. QED
    BY <2>1, <2>2, <2>3, ApplyNeverRollsBack DEF PictureInv
<1>3. QED
  BY <1>1, <1>2

\* What one step may do to a screen that shows something.
LEMMA ScreenStep ==
    ASSUME TypeOK, ScreenIsTrue, PictureInv, [Next]_vars, painted # Nil
    PROVE  /\ painted' # Nil
           /\ painted'.snapshot # painted.snapshot => painted'.snapshot.seq > painted.snapshot.seq
           /\ painted.conditions /\ ~painted'.conditions => \E p \in Payloads : YardFrame(p)
<1>1. ingestState.snapshot # Nil /\ painted = View(ingestState, connected)
  BY DEF ScreenIsTrue
<1>2. ScreenIsTrue' /\ TypeOK'
  BY NextTypeOK, NextScreenIsTrue
<1>3. ingestState \in IngestStates /\ ingestState' \in IngestStates /\ connected' \in BOOLEAN
  BY <1>2 DEF TypeOK, IngestStates
<1>4. painted.snapshot = ingestState.snapshot /\ painted.conditions = ingestState.clientConditions
  BY <1>1 DEF View
<1>5. CASE ingestState' = ingestState
  <2>1. painted' = View(ingestState, connected')
    BY <1>1, <1>2, <1>5 DEF ScreenIsTrue
  <2>2. painted' # Nil
    BY <1>1, <1>3, <2>1, ClientAssumption DEF View, IngestStates, ClientAssumption
  <2>3. QED
    BY <1>4, <2>1, <2>2 DEF View
<1>6. CASE ingestState' # ingestState
  <2>1. PICK p \in Payloads \cup {Invalid} :
            Stream(p) /\ ingestState' = applyIncomingPayload(ingestState, p)
    BY <1>6, IngestStep
  <2>2. ingestState'.snapshot # Nil
    BY <1>1, <1>3, <2>1, ApplyKeepsType
  <2>3. painted' = View(ingestState', connected')
    BY <1>2, <2>2 DEF ScreenIsTrue
  <2>4. painted' # Nil
    BY <1>3, <2>2, <2>3, ClientAssumption DEF View, IngestStates, ClientAssumption
  <2>5. painted'.snapshot = ingestState'.snapshot /\ painted'.conditions = ingestState'.clientConditions
    BY <2>3 DEF View
  <2>6. \/ /\ ingestState'.snapshot = ingestState.snapshot
           /\ ingestState.clientConditions => ingestState'.clientConditions
        \/ p \in Payloads /\ ingestState'.snapshot = p /\ p.seq > ingestState.lastAppliedSeq
    BY <1>3, <2>1, ApplyNeverRollsBack DEF PictureInv
  <2>7. YardFrame(p)
    <3>1. phase # "firstPaint"
      BY <1>1 DEF PictureInv
    <3>2. QED
      BY <2>1, <3>1 DEF Stream, FirstPaint
  <2>8. ingestState.lastAppliedSeq = painted.snapshot.seq
    BY <1>1, <1>4 DEF PictureInv, SeqOfPicture
  <2>9. QED
    BY <1>4, <2>4, <2>5, <2>6, <2>7, <2>8, Zenon
<1>7. QED
  BY <1>5, <1>6

\* A screen that shows something goes on doing so, never an older picture, and keeps
\* its disclosure until a valid payload comes.
THEOREM ScreenNeverRollsBack == Spec => NeverRollsBack
<1>1. TypeOK /\ ScreenIsTrue /\ PictureInv /\ [Next]_vars =>
          [painted # Nil =>
              /\ painted' # Nil
              /\ painted'.snapshot # painted.snapshot => painted'.snapshot.seq > painted.snapshot.seq
              /\ painted.conditions /\ ~painted'.conditions => \E p \in Payloads : YardFrame(p)]_vars
  BY ScreenStep
<1>2. Init => PictureInv
  BY DEF Init, initialIngestState, PictureInv, SeqOfPicture
<1>3. QED
  BY <1>1, <1>2, NextPictureInv, ClientTypeCorrect, ScreenFollowsState, PTL DEF Spec, NeverRollsBack
=============================================================================
