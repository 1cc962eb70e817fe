----------------------------- MODULE YardStream -----------------------------
(***************************************************************************)
(* How a published snapshot reaches the connected browsers                 *)
(* (board/server/sse.go and handleStream of board/server/handlers.go): a   *)
(* registry of one-slot channels under a mutex, a broadcast that fills the *)
(* slots and drains the full ones, and one handler goroutine per           *)
(* connection that registers, sends the current snapshot, then forwards    *)
(* what arrives on its channel until the connection goes.                  *)
(*                                                                         *)
(* A snapshot is its seq.  Polls are serialised by the in-flight guard     *)
(* (PollsSerialised in YardPollProofs), so there is one broadcaster.  A    *)
(* heartbeat frame carries no snapshot; only its write error matters here. *)
(***************************************************************************)
EXTENDS Integers

CONSTANTS
    Handlers,  \* connections that can be open at once
    Stalled,   \* those of them whose browser may stop reading for ever
    MaxSeq,    \* bound on how many snapshots are published
    Nil        \* an empty channel slot, no channel

ASSUME StreamAssumption ==
    /\ Stalled \subseteq Handlers
    /\ MaxSeq \in Nat
    /\ Nil \notin Nat /\ Nil \notin Handlers

VARIABLES
    current,   \* seq of s.lastSnapshot
    bpc,       \* where the poll goroutine stands in broadcast
    todo,      \* channels the range loop has still to visit
    visiting,  \* the channel a full slot is being replaced in
    muHeld,    \* whether the broadcast holds r.mu
    subs,      \* r.subs
    slot,      \* the channel of each connection, capacity one
    closed,    \* whether that channel is closed
    panicked,  \* whether a send hit a closed channel
    hpc,       \* where each handler goroutine stands
    held,      \* the frame the handler is about to write
    best       \* highest seq written to the connection so far, -1 if none

castVars == <<current, bpc, todo, visiting, muHeld>>
chanVars == <<subs, slot, closed, panicked>>
connVars == <<hpc, held, best>>
vars     == <<castVars, chanVars, connVars>>

Seqs == 0..MaxSeq

Init ==
    /\ current = 0 /\ bpc = "idle" /\ todo = {} /\ visiting = Nil /\ muHeld = FALSE
    /\ subs = {}
    /\ slot = [h \in Handlers |-> Nil]
    /\ closed = [h \in Handlers |-> FALSE]
    /\ panicked = FALSE
    /\ hpc = [h \in Handlers |-> "off"]
    /\ held = [h \in Handlers |-> Nil]
    /\ best = [h \in Handlers |-> -1]

-----------------------------------------------------------------------------
(* The poll goroutine.                                                     *)

\* PollOnce makes a new snapshot current under s.mu.
Publish ==
    /\ bpc = "idle" /\ current < MaxSeq
    /\ current' = current + 1
    /\ bpc' = "lock"
    /\ UNCHANGED <<todo, visiting, muHeld, chanVars, connVars>>

\* broadcast takes r.mu and starts to range over the registry.
Lock ==
    /\ bpc = "lock"
    /\ muHeld' = TRUE
    /\ todo' = subs
    /\ bpc' = "range"
    /\ UNCHANGED <<current, visiting, chanVars, connVars>>

\* ch <- data: a send on a closed channel panics.
Send(h) ==
    IF closed[h] THEN panicked' = TRUE /\ UNCHANGED slot
                 ELSE slot' = [slot EXCEPT ![h] = current] /\ UNCHANGED panicked

\* The first select: the slot has room.
SendRoom(h) ==
    /\ bpc = "range" /\ h \in todo /\ slot[h] = Nil
    /\ Send(h)
    /\ todo' = todo \ {h}
    /\ UNCHANGED <<current, bpc, visiting, muHeld, subs, closed, connVars>>

\* Slips in SendFull: the send waits for room; the full slot is left as it is.
SendFullWaits(h) == FALSE /\ UNCHANGED vars
SendFullDrops(h) ==
    /\ bpc = "range" /\ h \in todo /\ slot[h] # Nil
    /\ todo' = todo \ {h}
    /\ UNCHANGED <<current, bpc, visiting, muHeld, chanVars, connVars>>

\* The first select: the slot is full, take the default branch.
SendFull(h) ==
    /\ bpc = "range" /\ h \in todo /\ slot[h] # Nil
    /\ bpc' = "drain"
    /\ visiting' = h
    /\ UNCHANGED <<current, todo, muHeld, chanVars, connVars>>

\* Slips in Drained: nothing is received; the channel is forgotten.
DrainedNothing(h) == slot
DrainedForgotten(h) == [g \in subs \ {h} |-> slot[g]]

Drained(h) == [slot EXCEPT ![h] = Nil]

\* The second select: receive what the slot holds, unless the handler just did.
Drain(h) ==
    /\ bpc = "drain" /\ visiting = h
    /\ slot' = Drained(h)
    /\ bpc' = "resend"
    /\ UNCHANGED <<current, todo, visiting, muHeld, subs, closed, panicked, connVars>>

\* The third select: send into the slot, or give up if it is full again.
Resend(h) ==
    /\ bpc = "resend" /\ visiting = h
    /\ IF slot[h] = Nil THEN Send(h) ELSE UNCHANGED <<slot, panicked>>
    /\ todo' = todo \ {h}
    /\ visiting' = Nil
    /\ bpc' = "range"
    /\ UNCHANGED <<current, muHeld, subs, closed, connVars>>

\* The range loop ends and the deferred Unlock runs.
Unlock ==
    /\ bpc = "range" /\ todo = {}
    /\ bpc' = "idle"
    /\ muHeld' = FALSE
    /\ UNCHANGED <<current, todo, visiting, chanVars, connVars>>

-----------------------------------------------------------------------------
(* One handler goroutine.                                                  *)

\* A browser connects: a fresh channel, registered before anything is read.
Register(h) ==
    /\ hpc[h] = "off" /\ ~muHeld
    /\ subs' = subs \cup {h}
    /\ slot' = [slot EXCEPT ![h] = Nil]
    /\ closed' = [closed EXCEPT ![h] = FALSE]
    /\ best' = [best EXCEPT ![h] = -1]
    /\ hpc' = [hpc EXCEPT ![h] = "registered"]
    /\ UNCHANGED <<castVars, panicked, held>>

\* CurrentSnapshot, under s.mu.
ReadCurrent(h) ==
    /\ hpc[h] = "registered"
    /\ held' = [held EXCEPT ![h] = current]
    /\ hpc' = [hpc EXCEPT ![h] = "writing"]
    /\ UNCHANGED <<castVars, chanVars, best>>

\* writeSSEFrame and Flush, for the initial snapshot and for every later one.
Write(h) ==
    /\ hpc[h] = "writing"
    /\ best' = [best EXCEPT ![h] = IF held[h] > best[h] THEN held[h] ELSE best[h]]
    /\ held' = [held EXCEPT ![h] = Nil]
    /\ hpc' = [hpc EXCEPT ![h] = "select"]
    /\ UNCHANGED <<castVars, chanVars>>

\* The select of the loop receives a frame.
Receive(h) ==
    /\ hpc[h] = "select" /\ slot[h] # Nil
    /\ held' = [held EXCEPT ![h] = slot[h]]
    /\ slot' = [slot EXCEPT ![h] = Nil]
    /\ hpc' = [hpc EXCEPT ![h] = "writing"]
    /\ UNCHANGED <<castVars, subs, closed, panicked, best>>

\* ctx.Done, or a frame or heartbeat whose write fails.
Leave(h) ==
    /\ hpc[h] \in {"select", "writing"}
    /\ hpc' = [hpc EXCEPT ![h] = "leaving"]
    /\ held' = [held EXCEPT ![h] = Nil]
    /\ UNCHANGED <<castVars, chanVars, best>>

\* A slip in Unregister: the registry is changed without r.mu.
UnregisterUnlocked(h) ==
    /\ hpc[h] = "leaving"
    /\ subs' = subs \ {h}
    /\ hpc' = [hpc EXCEPT ![h] = "closing"]
    /\ UNCHANGED <<castVars, slot, closed, panicked, held, best>>

\* The deferred unregister: delete under r.mu, and only then ...
Unregister(h) ==
    /\ hpc[h] = "leaving" /\ ~muHeld
    /\ subs' = subs \ {h}
    /\ hpc' = [hpc EXCEPT ![h] = "closing"]
    /\ UNCHANGED <<castVars, slot, closed, panicked, held, best>>

\* ... close(ch).  The connection slot is free for another browser.
Close(h) ==
    /\ hpc[h] = "closing"
    /\ closed' = [closed EXCEPT ![h] = TRUE]
    /\ hpc' = [hpc EXCEPT ![h] = "off"]
    /\ UNCHANGED <<castVars, subs, slot, panicked, held, best>>

-----------------------------------------------------------------------------
Broadcaster ==
    \/ Lock \/ Unlock
    \/ \E h \in Handlers : SendRoom(h) \/ SendFull(h) \/ Drain(h) \/ Resend(h)

Handler(h) == ReadCurrent(h) \/ Write(h) \/ Receive(h)

Departure(h) == Unregister(h) \/ Close(h)

Next == \/ Publish \/ Broadcaster
        \/ \E h \in Handlers : Register(h) \/ Handler(h) \/ Leave(h) \/ Departure(h)

Spec == Init /\ [][Next]_vars

\* The scheduler runs the poll goroutine and the handlers; select picks at
\* random among its ready cases, so a ready frame is not passed over for ever.
\* A stalled browser may block its handler in a write for ever.
Fairness ==
    /\ WF_vars(Broadcaster)
    /\ \A h \in Handlers \ Stalled : WF_vars(Handler(h)) /\ WF_vars(Departure(h))

FairSpec == Spec /\ Fairness

-----------------------------------------------------------------------------
(* Properties.                                                             *)

TypeOK ==
    /\ current \in Nat
    /\ bpc \in {"idle", "lock", "range", "drain", "resend"}
    /\ todo \in SUBSET Handlers /\ visiting \in Handlers \cup {Nil}
    /\ muHeld \in BOOLEAN
    /\ subs \in SUBSET Handlers
    /\ slot \in [Handlers -> Nat \cup {Nil}]
    /\ closed \in [Handlers -> BOOLEAN]
    /\ panicked \in BOOLEAN
    /\ hpc \in [Handlers -> {"off", "registered", "writing", "select", "leaving", "closing"}]
    /\ held \in [Handlers -> Nat \cup {Nil}]
    /\ best \in [Handlers -> Nat \cup {-1}]

\* The lock is held for the whole range loop, which visits registered channels.
LockHeld ==
    /\ muHeld <=> bpc \in {"range", "drain", "resend"}
    /\ todo \subseteq subs /\ visiting \in todo \cup {Nil}
    /\ bpc \in {"idle", "lock"} => todo = {}
    /\ visiting # Nil <=> bpc \in {"drain", "resend"}

\* A channel is in the registry exactly while its handler runs, and is open then.
RegistryMatches ==
    \A h \in Handlers :
        /\ h \in subs <=> hpc[h] \in {"registered", "writing", "select", "leaving"}
        /\ closed[h] => hpc[h] = "off"
        /\ held[h] # Nil <=> hpc[h] = "writing"

\* A send never meets a closed channel: close(ch) follows the delete, and the
\* delete waits for a running broadcast (sse.go:55-69).
NeverPanics == ~panicked

\* The third select of a broadcast always has room (sse.go:77-80, "unreachable
\* in practice"): only the broadcaster fills a slot, and it holds the lock.
ResendHasRoom == bpc = "resend" => slot[visiting] = Nil

\* The newest seq on its way to, or already on, a connection.
OnItsWay(h, n) == best[h] = n \/ held[h] = n \/ slot[h] = n

\* The snapshot the last broadcast pass over h was about.
Told(h) == IF bpc = "lock" \/ h \in todo THEN current - 1 ELSE current

\* No connection misses the latest snapshot: whatever broadcast has handed to a
\* registered connection that has read its initial snapshot, the connection has
\* that snapshot or a newer one, or is about to write it (#51 C3 and C5).
NoLostLatest ==
    \A h \in Handlers :
        hpc[h] \in {"writing", "select"} /\ ~(bpc = "resend" /\ visiting = h) =>
            OnItsWay(h, Told(h)) \/ OnItsWay(h, current)

\* Nothing on its way is newer than the current snapshot.
NothingFromTheFuture ==
    \A h \in Handlers :
        /\ best[h] <= current
        /\ held[h] # Nil => held[h] <= current
        /\ slot[h] # Nil => slot[h] <= current

\* The inductive invariant of the proofs.
StreamInv ==
    /\ LockHeld
    /\ RegistryMatches
    /\ NothingFromTheFuture
    /\ ResendHasRoom
    /\ NoLostLatest

\* A broadcast never waits for a browser: it ends even if handlers are stuck in
\* a write (sse.go:9-13, "never blocking on a slow reader").
BroadcastEnds == bpc # "idle" ~> bpc = "idle"

Connected(h) == hpc[h] \in {"registered", "writing", "select"}

\* A browser that stays connected and keeps reading is shown the latest snapshot.
CatchesUp ==
    \A h \in Handlers \ Stalled : <>[]Connected(h) => <>[](best[h] = current)
=============================================================================
