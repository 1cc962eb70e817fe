----------------------------- MODULE YardBoard ------------------------------
(***************************************************************************)
(* The yard board end to end: the artifact store, the server process (its  *)
(* poll loop, YardStream's broadcast and handlers) and one browser tab     *)
(* (YardClient), joined by one connection at a time.  The server process   *)
(* may be interrupted (main.go) and started again, the connection may      *)
(* break at any point, the tab reconnects.  The pieces are the modules of  *)
(* their own names; what is added here is what joins them.                 *)
(*                                                                         *)
(* The store's state is a version: what a scan would make a snapshot of.   *)
(* Version 0 is the never-polled snapshot of a server that has not scanned *)
(* yet.  A payload carries the process it came from, its seq and the       *)
(* version it shows.  The failed scans are YardPoll's, the watchdog's      *)
(* clock and the invalid payloads YardClient's; none of them is taken up   *)
(* again here.                                                             *)
(***************************************************************************)
EXTENDS Integers, Sequences

CONSTANTS
    Handlers,     \* connections the server can have open at once
    MaxSeq,       \* bound on the snapshots one process publishes
    MaxVersion,   \* bound on the changes of the store
    MaxRestarts,  \* bound on the restarts of the server
    MaxDrops,     \* bound on the connections that break
    MaxPipe,      \* frames a connection holds before a write blocks
    Invalid,      \* the payload that does not validate; never sent here
    Gone,         \* a connection whose server end is gone
    Nil

ASSUME BoardAssumption ==
    /\ {MaxSeq, MaxRestarts, MaxDrops} \subseteq Nat
    /\ {MaxVersion, MaxPipe} \subseteq Nat \ {0}
    /\ Gone \notin Handlers /\ Gone # Nil
    /\ Nil \notin Nat /\ Nil \notin Handlers

VARIABLES current, bpc, todo, visiting, muHeld, subs, slot, closed, panicked, hpc, held, best
VARIABLES phase, ingestState, connected, beat, timer, painted, silent
VARIABLES
    version,   \* the state of the store
    scanned,   \* the version the running poll has read, Nil between polls
    content,   \* the version each seq of this process shows
    epoch,     \* which server process this is
    server,    \* where run() stands: up, interrupted or down
    conn,      \* the handler at the server end of the tab's connection, Gone or Nil
    pipe,      \* frames sent to the tab and not yet read by it
    drops      \* how many connections have broken

Payloads == [epoch : 0..MaxRestarts, seq : 0..MaxSeq, ver : 0..MaxVersion, heartbeatMs : {1}]

\* Nil is neither a payload nor a picture that is painted, Invalid no payload that validates.
ASSUME PayloadAssumption ==
    /\ Nil \notin Payloads \cup [snapshot : Payloads, conditions : BOOLEAN, connected : BOOLEAN]
    /\ Invalid \notin Payloads

Stream == INSTANCE YardStream WITH Stalled <- {}
Client == INSTANCE YardClient WITH DefaultBeat <- 1

streamVars == <<current, bpc, todo, visiting, muHeld, subs, slot, closed, panicked, hpc, held, best>>
clientVars == <<phase, ingestState, connected, beat, timer, painted, silent>>
linkVars   == <<conn, pipe, drops>>
storeVars  == <<version, scanned, content, epoch, server>>
vars       == <<streamVars, clientVars, linkVars, storeVars>>

Payload(n) == [epoch |-> epoch, seq |-> n, ver |-> content[n], heartbeatMs |-> 1]

\* The listener is open until Shutdown closes it.
Listening == server # "down"

Init ==
    /\ Stream!Init
    /\ Client!Init
    /\ version = 1 /\ scanned = Nil /\ content = [n \in 0..MaxSeq |-> 0] /\ epoch = 0 /\ server = "up"
    /\ conn = Nil /\ pipe = <<>> /\ drops = 0

-----------------------------------------------------------------------------
(* The store and the poll goroutine.                                       *)

\* A producer writes a record, or time moves a lane to another freshness.
StoreChanges ==
    /\ version < MaxVersion
    /\ version' = version + 1
    /\ UNCHANGED <<streamVars, clientVars, linkVars, scanned, content, epoch, server>>

\* A poll scans the store; polls are serialised, broadcast included.  A tick that is
\* due when the context is done may be taken once more.
Scan ==
    /\ Listening
    /\ scanned = Nil /\ bpc = "idle"
    /\ scanned' = version
    /\ UNCHANGED <<streamVars, clientVars, linkVars, version, content, epoch, server>>

\* A slip in Changed: the scan is compared with the store instead.
ChangedFromStore == scanned # version

\* Change detection.
Changed == scanned # content[current]

\* The snapshot shows something new: it becomes current and is broadcast.
Publish ==
    /\ scanned # Nil /\ Changed
    /\ Stream!Publish
    /\ content' = [content EXCEPT ![current'] = scanned]
    /\ scanned' = Nil
    /\ UNCHANGED <<clientVars, linkVars, version, epoch, server>>

PublishNothing ==
    /\ scanned # Nil /\ ~Changed
    /\ scanned' = Nil
    /\ UNCHANGED <<streamVars, clientVars, linkVars, version, content, epoch, server>>

Broadcaster ==
    /\ Stream!Broadcaster
    /\ UNCHANGED <<clientVars, linkVars, storeVars>>

-----------------------------------------------------------------------------
(* The server end of a connection.                                         *)

\* A GET /api/stream of the tab reaches handler h.
Request(h) ==
    /\ phase = "connecting" /\ conn = Nil /\ Listening
    /\ Stream!Register(h)
    /\ conn' = h
    /\ UNCHANGED <<clientVars, pipe, drops, storeVars>>

\* A frame is written: into the tab's connection, if it is still this one.
Write(h) ==
    /\ Stream!Write(h)
    /\ IF conn = h THEN /\ Len(pipe) < MaxPipe
                        /\ pipe' = Append(pipe, Payload(held[h]))
                   ELSE UNCHANGED pipe
    /\ UNCHANGED <<clientVars, conn, drops, storeVars>>

Serve(h) ==
    \/ Write(h)
    \/ /\ Stream!ReadCurrent(h) \/ Stream!Receive(h)
       /\ UNCHANGED <<clientVars, linkVars, storeVars>>

\* The handler notices that its tab is gone, and leaves.
Depart(h) ==
    /\ conn # h
    /\ Stream!Leave(h) \/ Stream!Departure(h)
    /\ UNCHANGED <<clientVars, linkVars, storeVars>>

-----------------------------------------------------------------------------
(* The tab.                                                                *)

\* main() up to the stream; the snapshot is the one current when asked.
FetchSchema ==
    /\ Listening
    /\ Client!FetchSchema
    /\ UNCHANGED <<streamVars, linkVars, storeVars>>

FirstPaint ==
    /\ Listening
    /\ Client!FirstPaint(Payload(current))
    /\ UNCHANGED <<streamVars, linkVars, storeVars>>

\* A fetch that nothing listens to: of the schema or the snapshot, and the tab is dead;
\* of the stream, and it tries again.
Refused ==
    /\ ~Listening
    /\ Client!MainFails \/ (phase = "connecting" /\ conn = Nil /\ Client!StreamThrows)
    /\ UNCHANGED <<streamVars, linkVars, storeVars>>

\* The response's headers go out with the first frame.
Connect ==
    /\ pipe # <<>>
    /\ Client!Connect
    /\ UNCHANGED <<streamVars, linkVars, storeVars>>

ReadFrame ==
    /\ pipe # <<>>
    /\ Client!YardFrame(Head(pipe))
    /\ pipe' = Tail(pipe)
    /\ UNCHANGED <<streamVars, conn, drops, storeVars>>

Retry ==
    /\ Client!Retry
    /\ UNCHANGED <<streamVars, linkVars, storeVars>>

-----------------------------------------------------------------------------
(* What goes wrong.                                                        *)

\* The tab sees its connection break, or its request refused.
Break ==
    /\ Client!StreamThrows
    /\ conn' = Nil /\ pipe' = <<>>
    /\ UNCHANGED <<streamVars, storeVars>>

Drop ==
    /\ drops < MaxDrops
    /\ drops' = drops + 1
    /\ \/ Break
       \/ Client!MainFails /\ UNCHANGED <<streamVars, conn, pipe, storeVars>>

\* The server end is gone: what was sent may still be read, then the stream
\* ends or throws.
Orphaned ==
    /\ conn = Gone
    /\ \/ Break /\ UNCHANGED drops
       \/ /\ pipe = <<>>
          /\ Client!StreamEnds
          /\ conn' = Nil
          /\ UNCHANGED <<streamVars, pipe, drops, storeVars>>

\* os.Interrupt: the context is done, the poll loop takes no more ticks.
Interrupt ==
    /\ server = "up" /\ epoch < MaxRestarts
    /\ server' = "interrupted"
    /\ UNCHANGED <<streamVars, clientVars, linkVars, version, scanned, content, epoch>>

\* A slip in Shutdown: the context is not wired to the HTTP server.
ShutdownNever == FALSE

\* The watcher of the context closes the listener, Serve returns at once, run() and
\* main() with it: the poll, the broadcast and the handlers in flight, which
\* Shutdown would wait for, are cut off where they are.
Shutdown ==
    /\ server = "interrupted"
    /\ server' = "down"
    /\ current' = 0 /\ bpc' = "idle" /\ todo' = {} /\ visiting' = Nil /\ muHeld' = FALSE
    /\ subs' = {}
    /\ slot' = [h \in Handlers |-> Nil]
    /\ closed' = [h \in Handlers |-> FALSE]
    /\ hpc' = [h \in Handlers |-> "off"]
    /\ held' = [h \in Handlers |-> Nil]
    /\ best' = [h \in Handlers |-> -1]
    /\ UNCHANGED panicked
    /\ content' = [n \in 0..MaxSeq |-> 0]
    /\ scanned' = Nil
    /\ conn' = IF conn = Nil THEN Nil ELSE Gone
    /\ UNCHANGED <<clientVars, pipe, drops, version, epoch>>

\* A new process (NewServer): seq, snapshot and registry are fresh; the store stays.
Start ==
    /\ server = "down"
    /\ server' = "up"
    /\ epoch' = epoch + 1
    /\ UNCHANGED <<streamVars, clientVars, linkVars, version, scanned, content>>

Process == Interrupt \/ Shutdown \/ Start

-----------------------------------------------------------------------------
Poll == Scan \/ Publish \/ PublishNothing \/ Broadcaster

Handler(h) == Serve(h) \/ Depart(h)

Tab == FetchSchema \/ FirstPaint \/ Refused \/ Connect \/ ReadFrame \/ Retry \/ Orphaned

Next == \/ StoreChanges \/ Poll \/ Tab \/ Drop \/ Process
        \/ \E h \in Handlers : Request(h) \/ Handler(h)

Spec == Init /\ [][Next]_vars

\* The ticker fires and the goroutines run (YardStream); the tab's event loop
\* turns, the network carries what is sent, and a dead connection is reported; an
\* interrupted server takes no tick that it need not, and goes through run() to its
\* end.  Nobody has to start it again.
Fairness ==
    /\ WF_vars(Poll /\ (server = "up" \/ scanned # Nil \/ bpc # "idle"))
    /\ WF_vars(Tab)
    /\ WF_vars(Shutdown)
    /\ WF_vars(\E h \in Handlers : Request(h))
    /\ \A h \in Handlers : WF_vars(Handler(h))

FairSpec == Spec /\ Fairness

-----------------------------------------------------------------------------
(* Properties.                                                             *)

\* The version on the screen.
OnScreen == IF painted = Nil THEN -1 ELSE painted.snapshot.ver

\* The board is a mirror: through polls, broadcasts, slow readers, broken
\* connections and restarts the screen only ever moves forward to a state the
\* store has had.
Mirror == INSTANCE YardMirror WITH truth <- version, shown <- OnScreen

MirrorSpec == Mirror!Spec

\* The server has published the store as it is and has nothing left to do, and
\* the tab reads a stream in which nothing is left to read.
Quiet ==
    /\ scanned = Nil /\ content[current] = version /\ bpc = "idle"
    /\ phase = "reading" /\ conn \in Handlers /\ hpc[conn] = "select" /\ slot[conn] = Nil
    /\ pipe = <<>>

\* The tab holds a picture of an earlier process whose seq the current one has
\* not passed: every frame is refused until it has (ingest.js:59).
Masked == painted # Nil /\ painted.snapshot.epoch < epoch /\ current <= ingestState.lastAppliedSeq

\* No silent staleness: when nothing is left to do or to read, the screen shows
\* the store as it is, unless a restart masks it.
QuietIsCurrent == Quiet => OnScreen = version \/ Masked

\* A tab comes to show the store as it is, for good, once the store, the network and
\* the process stay as they are, unless a restart masks it: reconnecting is
\* enough, no reload is needed; and if the server stays down the page says that it is
\* disconnected, or is blank.  An interrupted server does not linger, connected and
\* no longer polling, whatever streams are open or stuck (main.go:26-35).  Only a tab whose very first fetches failed stays
\* blank when the server is back (app.js:115: nothing tries them again).
ComesToShow ==
    <>[](IF server = "down" THEN painted = Nil \/ ~painted.connected
         ELSE OnScreen = version \/ Masked \/ phase = "dead")

\* docs/contracts/state-ledger.md: a reconnecting client judges freshness by the
\* lane data, "never a raw seq comparison across a server restart".
RestartNeverHides == Quiet => OnScreen = version
=============================================================================
