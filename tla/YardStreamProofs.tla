-------------------------- MODULE YardStreamProofs --------------------------
(***************************************************************************)
(* Proofs about YardStream: type correctness, the inductive invariant by   *)
(* which no connection misses the latest snapshot, and that no send meets  *)
(* a closed channel.                                                       *)
(***************************************************************************)
EXTENDS YardStream, TLAPS

LEMMA NilFacts == Nil \notin Nat /\ Nil \notin Handlers
  BY StreamAssumption DEF StreamAssumption

-----------------------------------------------------------------------------
(* Type correctness.                                                       *)

LEMMA InitTypeOK == Init => TypeOK
<1> SUFFICES ASSUME Init PROVE TypeOK
  OBVIOUS
<1>1. muHeld \in BOOLEAN /\ panicked \in BOOLEAN /\ closed \in [Handlers -> BOOLEAN]
  BY Zenon DEF Init
<1>2. best \in [Handlers -> Nat \cup {-1}] /\ current \in Nat
  BY DEF Init
<1>3. QED
  BY <1>1, <1>2 DEF Init, TypeOK

LEMMA NextTypeOK == TypeOK /\ RegistryMatches /\ [Next]_vars => TypeOK'
<1> SUFFICES ASSUME TypeOK, RegistryMatches, [Next]_vars PROVE TypeOK'
  OBVIOUS
<1> USE DEF TypeOK, castVars, chanVars, connVars
<1>1. CASE Publish \/ Lock \/ Unlock
  <2>1. muHeld' \in BOOLEAN
    BY <1>1, Zenon DEF Publish, Lock, Unlock
  <2>2. QED
    BY <1>1, <2>1 DEF Publish, Lock, Unlock
<1>2. ASSUME NEW h \in Handlers, SendRoom(h) \/ SendFull(h) PROVE TypeOK'
  BY <1>2 DEF SendRoom, SendFull, Send
<1>3. ASSUME NEW h \in Handlers, Drain(h) \/ Resend(h) PROVE TypeOK'
  BY <1>3 DEF Drain, Drained, Resend, Send
<1>4. ASSUME NEW h \in Handlers, Register(h) PROVE TypeOK'
  BY <1>4 DEF Register
<1>5. ASSUME NEW h \in Handlers, ReadCurrent(h) \/ Receive(h) PROVE TypeOK'
  BY <1>5, NilFacts DEF ReadCurrent, Receive
<1>6. ASSUME NEW h \in Handlers, Write(h) PROVE TypeOK'
  <2>1. held[h] \in Nat
    BY <1>6 DEF Write, RegistryMatches
  <2>2. QED
    BY <1>6, <2>1 DEF Write
<1>7. ASSUME NEW h \in Handlers, Leave(h) \/ Departure(h) PROVE TypeOK'
  BY <1>7 DEF Leave, Departure, Unregister, Close
<1>8. CASE UNCHANGED vars
  BY <1>8 DEF vars
<1>9. QED
  BY <1>1, <1>2, <1>3, <1>4, <1>5, <1>6, <1>7, <1>8 DEF Next, Broadcaster, Handler

-----------------------------------------------------------------------------
(* The inductive invariant.                                                *)

LEMMA InitStreamInv == Init => StreamInv
  BY NilFacts
     DEF Init, StreamInv, LockHeld, RegistryMatches, NothingFromTheFuture, ResendHasRoom,
         NoLostLatest

\* The broadcast steps leave the lock, the registry and the handlers consistent.
LEMMA NextLockHeld == TypeOK /\ StreamInv /\ [Next]_vars => LockHeld'
<1> SUFFICES ASSUME TypeOK, StreamInv, [Next]_vars PROVE LockHeld'
  OBVIOUS
<1> USE DEF StreamInv, LockHeld, castVars, chanVars, connVars
<1>1. CASE Publish \/ Lock \/ Unlock
  BY <1>1, NilFacts DEF Publish, Lock, Unlock, TypeOK
<1>2. ASSUME NEW h \in Handlers, SendRoom(h) \/ SendFull(h) PROVE LockHeld'
  BY <1>2, NilFacts DEF SendRoom, SendFull
<1>3. ASSUME NEW h \in Handlers, Drain(h) \/ Resend(h) PROVE LockHeld'
  BY <1>3, NilFacts DEF Drain, Resend
<1>4. ASSUME NEW h \in Handlers, Register(h) PROVE LockHeld'
  BY <1>4 DEF Register
<1>5. ASSUME NEW h \in Handlers, Unregister(h) PROVE LockHeld'
  BY <1>5 DEF Unregister, TypeOK
<1>6. ASSUME NEW h \in Handlers, Handler(h) \/ Leave(h) \/ Close(h) PROVE LockHeld'
  BY <1>6 DEF Handler, ReadCurrent, Write, Receive, Leave, Close
<1>7. CASE UNCHANGED vars
  BY <1>7 DEF vars
<1>8. QED
  BY <1>1, <1>2, <1>3, <1>4, <1>5, <1>6, <1>7 DEF Next, Broadcaster, Departure

LEMMA NextRegistryMatches == TypeOK /\ StreamInv /\ [Next]_vars => RegistryMatches'
<1> SUFFICES ASSUME TypeOK, StreamInv, [Next]_vars PROVE RegistryMatches'
  OBVIOUS
<1> USE NilFacts DEF StreamInv, RegistryMatches, TypeOK, castVars, chanVars, connVars
<1>1. CASE Publish \/ Broadcaster
  BY <1>1 DEF Publish, Broadcaster, Lock, Unlock, SendRoom, SendFull, Drain, Resend
<1>2. ASSUME NEW h \in Handlers, Register(h) PROVE RegistryMatches'
  BY <1>2 DEF Register
<1>3. ASSUME NEW h \in Handlers, Handler(h) PROVE RegistryMatches'
  BY <1>3 DEF Handler, ReadCurrent, Write, Receive
<1>4. ASSUME NEW h \in Handlers, Leave(h) \/ Departure(h) PROVE RegistryMatches'
  BY <1>4 DEF Leave, Departure, Unregister, Close
<1>5. CASE UNCHANGED vars
  BY <1>5 DEF vars
<1>6. QED
  BY <1>1, <1>2, <1>3, <1>4, <1>5 DEF Next

LEMMA NextNothingFromTheFuture ==
    TypeOK /\ StreamInv /\ [Next]_vars => NothingFromTheFuture'
<1> SUFFICES ASSUME TypeOK, StreamInv, [Next]_vars PROVE NothingFromTheFuture'
  OBVIOUS
<1> USE NilFacts DEF StreamInv, NothingFromTheFuture, TypeOK, castVars, chanVars, connVars
<1>1. CASE Publish \/ Lock \/ Unlock
  BY <1>1 DEF Publish, Lock, Unlock
<1>2. ASSUME NEW h \in Handlers, SendRoom(h) \/ SendFull(h) PROVE NothingFromTheFuture'
  BY <1>2 DEF SendRoom, SendFull, Send
<1>3. ASSUME NEW h \in Handlers, Drain(h) \/ Resend(h) PROVE NothingFromTheFuture'
  BY <1>3 DEF Drain, Drained, Resend, Send
<1>4. ASSUME NEW h \in Handlers, Register(h) PROVE NothingFromTheFuture'
  BY <1>4 DEF Register
<1>5. ASSUME NEW h \in Handlers, Handler(h) PROVE NothingFromTheFuture'
  <2>1. CASE ReadCurrent(h)
    BY <2>1 DEF ReadCurrent
  <2>2. CASE Write(h)
    <3>1. held[h] \in Nat
      BY <2>2 DEF Write, RegistryMatches
    <3>2. QED
      BY <2>2, <3>1 DEF Write
  <2>3. CASE Receive(h)
    BY <2>3 DEF Receive
  <2>4. QED
    BY <1>5, <2>1, <2>2, <2>3 DEF Handler
<1>6. ASSUME NEW h \in Handlers, Leave(h) \/ Departure(h) PROVE NothingFromTheFuture'
  BY <1>6 DEF Leave, Departure, Unregister, Close
<1>7. CASE UNCHANGED vars
  BY <1>7 DEF vars
<1>8. QED
  BY <1>1, <1>2, <1>3, <1>4, <1>5, <1>6, <1>7 DEF Next, Broadcaster

\* Only the broadcaster fills a slot, so one it has drained stays empty.
LEMMA NextResendHasRoom == TypeOK /\ StreamInv /\ [Next]_vars => ResendHasRoom'
<1> SUFFICES ASSUME TypeOK, StreamInv, [Next]_vars PROVE ResendHasRoom'
  OBVIOUS
<1> USE NilFacts DEF StreamInv, LockHeld, ResendHasRoom, TypeOK, castVars, chanVars, connVars
<1>1. CASE Publish \/ Lock \/ Unlock
  BY <1>1 DEF Publish, Lock, Unlock
<1>2. ASSUME NEW h \in Handlers, SendRoom(h) \/ SendFull(h) PROVE ResendHasRoom'
  BY <1>2 DEF SendRoom, SendFull
<1>3. ASSUME NEW h \in Handlers, Drain(h) \/ Resend(h) PROVE ResendHasRoom'
  BY <1>3 DEF Drain, Drained, Resend
<1>4. ASSUME NEW h \in Handlers, Register(h) \/ Leave(h) \/ Departure(h) PROVE ResendHasRoom'
  BY <1>4 DEF Register, Leave, Departure, Unregister, Close
<1>5. ASSUME NEW h \in Handlers, Handler(h) PROVE ResendHasRoom'
  BY <1>5 DEF Handler, ReadCurrent, Write, Receive
<1>6. CASE UNCHANGED vars
  BY <1>6 DEF vars
<1>7. QED
  BY <1>1, <1>2, <1>3, <1>4, <1>5, <1>6 DEF Next, Broadcaster

\* Whatever a broadcast hands over is in the slot, in the handler's hands or on
\* the connection, and moves between the three without being lost.
LEMMA NextNoLostLatest == TypeOK /\ StreamInv /\ [Next]_vars => NoLostLatest'
<1> SUFFICES ASSUME TypeOK, StreamInv, [Next]_vars PROVE NoLostLatest'
  OBVIOUS
<1> USE NilFacts DEF castVars, chanVars, connVars
<1>0. /\ current \in Nat
      /\ \A h \in Handlers : slot[h] \in Nat \cup {Nil} /\ held[h] \in Nat \cup {Nil}
                             /\ best[h] \in Nat \cup {-1}
  BY DEF TypeOK
<1>1. CASE Publish
  <2>1. /\ bpc = "idle" /\ todo = {} /\ current' = current + 1 /\ bpc' = "lock"
        /\ UNCHANGED <<todo, visiting, slot, hpc, held, best>>
    BY <1>1 DEF Publish, StreamInv, LockHeld
  <2>2. QED
    BY <1>0, <2>1 DEF StreamInv, NoLostLatest, Told, OnItsWay
<1>2. CASE Lock
  <2>1. \A h \in Handlers : hpc[h] \in {"writing", "select"} => h \in subs
    BY DEF StreamInv, RegistryMatches
  <2>2. QED
    BY <1>0, <1>2, <2>1 DEF Lock, StreamInv, NoLostLatest, Told, OnItsWay
<1>3. CASE Unlock
  BY <1>0, <1>3 DEF Unlock, StreamInv, NoLostLatest, Told, OnItsWay
<1>4. ASSUME NEW h \in Handlers, SendRoom(h) PROVE NoLostLatest'
  <2>1. closed[h] = FALSE
    BY <1>4 DEF SendRoom, StreamInv, LockHeld, RegistryMatches, TypeOK
  <2>2. slot' = [slot EXCEPT ![h] = current] /\ todo' = todo \ {h} /\ slot[h] = Nil
    BY <1>4, <2>1 DEF SendRoom, Send
  <2>3. UNCHANGED <<current, bpc, visiting, hpc, held, best>> /\ bpc = "range"
    BY <1>4 DEF SendRoom
  <2>4. slot \in [Handlers -> Nat \cup {Nil}]
    BY DEF TypeOK
  <2>5. QED
    BY <1>0, <2>2, <2>3, <2>4 DEF StreamInv, NoLostLatest, Told, OnItsWay
<1>5. ASSUME NEW h \in Handlers, SendFull(h) PROVE NoLostLatest'
  BY <1>0, <1>5 DEF SendFull, StreamInv, NoLostLatest, Told, OnItsWay
<1>6. ASSUME NEW h \in Handlers, Drain(h) PROVE NoLostLatest'
  <2>1. /\ slot' = [slot EXCEPT ![h] = Nil] /\ bpc' = "resend" /\ visiting' = h /\ bpc = "drain"
        /\ UNCHANGED <<current, todo, hpc, held, best>>
    BY <1>6 DEF Drain, Drained
  <2>2. slot \in [Handlers -> Nat \cup {Nil}]
    BY DEF TypeOK
  <2>3. QED
    BY <1>0, <2>1, <2>2 DEF StreamInv, NoLostLatest, Told, OnItsWay
<1>7. ASSUME NEW h \in Handlers, Resend(h) PROVE NoLostLatest'
  <2>1. closed[h] = FALSE
    BY <1>7 DEF Resend, StreamInv, LockHeld, RegistryMatches, TypeOK
  <2>2. slot' = [slot EXCEPT ![h] = current] /\ todo' = todo \ {h}
    BY <1>7, <2>1 DEF Resend, Send, StreamInv, ResendHasRoom
  <2>3. /\ bpc = "resend" /\ bpc' = "range" /\ visiting = h
        /\ UNCHANGED <<current, hpc, held, best>>
    BY <1>7 DEF Resend
  <2>4. slot \in [Handlers -> Nat \cup {Nil}]
    BY DEF TypeOK
  <2>5. QED
    BY <1>0, <2>2, <2>3, <2>4 DEF StreamInv, NoLostLatest, Told, OnItsWay
<1>8. ASSUME NEW h \in Handlers, Register(h) PROVE NoLostLatest'
  BY <1>0, <1>8 DEF Register, TypeOK, StreamInv, NoLostLatest, Told, OnItsWay
<1>9. ASSUME NEW h \in Handlers, ReadCurrent(h) PROVE NoLostLatest'
  BY <1>0, <1>9 DEF ReadCurrent, TypeOK, StreamInv, NoLostLatest, Told, OnItsWay
<1>10. ASSUME NEW h \in Handlers, Write(h) PROVE NoLostLatest'
  <2>1. held[h] \in Nat /\ held[h] <= current /\ best[h] <= current
    BY <1>0, <1>10 DEF Write, StreamInv, RegistryMatches, NothingFromTheFuture
  <2>2. \A g \in Handlers \ {h} : best'[g] = best[g] /\ held'[g] = held[g] /\ hpc'[g] = hpc[g]
    BY <1>10 DEF Write, TypeOK
  <2>3. best'[h] = IF held[h] > best[h] THEN held[h] ELSE best[h]
    BY <1>10 DEF Write, TypeOK
  <2>4. UNCHANGED <<current, bpc, todo, visiting, slot>>
    BY <1>10 DEF Write
  <2>5. hpc[h] = "writing"
    BY <1>10 DEF Write
  <2>6. Told(h) \in {current - 1, current} /\ Told(h)' = Told(h)
    BY <2>4 DEF Told
  <2>7. ASSUME ~(bpc = "resend" /\ visiting = h)
        PROVE  (OnItsWay(h, Told(h)) \/ OnItsWay(h, current))'
    <3>1. OnItsWay(h, Told(h)) \/ OnItsWay(h, current)
      BY <2>5, <2>7 DEF StreamInv, NoLostLatest
    <3>2. CASE slot[h] = Told(h) \/ slot[h] = current
      BY <3>2, <2>4, <2>6 DEF OnItsWay
    <3>3. CASE slot[h] # Told(h) /\ slot[h] # current
      <4>1. best'[h] \in {current - 1, current} /\ (best'[h] = Told(h) \/ best'[h] = current)
        BY <1>0, <2>1, <2>3, <2>6, <3>1, <3>3 DEF OnItsWay
      <4>2. QED
        BY <4>1, <2>4, <2>6 DEF OnItsWay
    <3>4. QED
      BY <3>2, <3>3
  <2>8. ASSUME NEW g \in Handlers \ {h}, hpc[g] \in {"writing", "select"},
               ~(bpc = "resend" /\ visiting = g)
        PROVE  (OnItsWay(g, Told(g)) \/ OnItsWay(g, current))'
    BY <2>2, <2>4, <2>8 DEF StreamInv, NoLostLatest, OnItsWay, Told
  <2>9. QED
    BY <2>2, <2>4, <2>7, <2>8 DEF NoLostLatest
<1>11. ASSUME NEW h \in Handlers, Receive(h) PROVE NoLostLatest'
  <2>1. ~(bpc = "resend" /\ visiting = h)
    BY <1>11 DEF Receive, StreamInv, ResendHasRoom
  <2>2. held[h] = Nil /\ hpc[h] = "select"
    BY <1>11, <1>0 DEF Receive, StreamInv, RegistryMatches
  <2>3. QED
    BY <1>0, <1>11, <2>1, <2>2 DEF Receive, TypeOK, StreamInv, NoLostLatest, Told, OnItsWay
<1>12. ASSUME NEW h \in Handlers, Leave(h) \/ Departure(h) PROVE NoLostLatest'
  BY <1>0, <1>12 DEF Leave, Departure, Unregister, Close, TypeOK, StreamInv, NoLostLatest,
                     Told, OnItsWay
<1>13. CASE UNCHANGED vars
  BY <1>13 DEF vars, StreamInv, NoLostLatest, Told, OnItsWay
<1>14. QED
  BY <1>1, <1>2, <1>3, <1>4, <1>5, <1>6, <1>7, <1>8, <1>9, <1>10, <1>11, <1>12, <1>13
     DEF Next, Broadcaster, Handler

LEMMA StreamInductive ==
    /\ Init => TypeOK /\ StreamInv
    /\ TypeOK /\ StreamInv /\ [Next]_vars => (TypeOK /\ StreamInv)'
<1>1. StreamInv => RegistryMatches
  BY DEF StreamInv
<1>2. TypeOK /\ StreamInv /\ [Next]_vars => StreamInv'
  BY NextLockHeld, NextRegistryMatches, NextNothingFromTheFuture, NextResendHasRoom,
     NextNoLostLatest DEF StreamInv
<1>3. QED
  BY <1>1, <1>2, InitTypeOK, InitStreamInv, NextTypeOK

\* Every variable of the registry, its channels and its handlers keeps its type.
THEOREM StreamTypeCorrect == Spec => []TypeOK
  BY StreamInductive, PTL DEF Spec

\* No connection misses the latest snapshot, for any number of connections and
\* any interleaving of broadcasts, registrations, reads and departures.
THEOREM NoConnectionMissesLatest == Spec => []StreamInv
  BY StreamInductive, PTL DEF Spec

\* No send of a broadcast ever meets a channel its handler has closed.
THEOREM SendsNeverPanic == Spec => []NeverPanics
<1>1. Init => NeverPanics
  BY DEF Init, NeverPanics
<1>2. TypeOK /\ StreamInv /\ NeverPanics /\ [Next]_vars => NeverPanics'
  <2> SUFFICES ASSUME TypeOK, StreamInv, NeverPanics, [Next]_vars PROVE NeverPanics'
    OBVIOUS
  <2>1. \A h \in todo : closed[h] = FALSE
    BY DEF StreamInv, LockHeld, RegistryMatches, TypeOK
  <2>2. bpc = "resend" => visiting \in todo
    BY DEF StreamInv, LockHeld
  <2>3. ASSUME NEW h \in Handlers, SendRoom(h) PROVE NeverPanics'
    BY <2>1, <2>3 DEF SendRoom, Send, NeverPanics
  <2>4. ASSUME NEW h \in Handlers, Resend(h) PROVE NeverPanics'
    BY <2>1, <2>2, <2>4 DEF Resend, Send, NeverPanics
  <2>5. ASSUME UNCHANGED panicked PROVE NeverPanics'
    BY <2>5 DEF NeverPanics
  <2>6. QED
    BY <2>3, <2>4, <2>5
       DEF Next, Broadcaster, Publish, Lock, Unlock, SendFull, Drain, Register, Handler,
           ReadCurrent, Write, Receive, Leave, Departure, Unregister, Close, vars, chanVars
<1>3. QED
  BY <1>1, <1>2, StreamInductive, PTL DEF Spec
=============================================================================
