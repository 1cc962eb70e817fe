-------------------------- MODULE YardBoardProofs ---------------------------
(***************************************************************************)
(* Proofs about YardBoard: the screen is a mirror of the store, and when   *)
(* nothing is left to do it shows the store as it is, for any number of    *)
(* connections, snapshots, restarts and breaks.  What YardStreamProofs and *)
(* YardClientProofs show of the server's broadcast and of the tab is used  *)
(* here through their INSTANCEs; what is added is what the two have to     *)
(* know of each other across a connection and a restart.                   *)
(***************************************************************************)
EXTENDS YardBoard, TLAPS

S == INSTANCE YardStreamProofs WITH Stalled <- {}
C == INSTANCE YardClientProofs WITH DefaultBeat <- 1

-----------------------------------------------------------------------------
(* The inductive invariant.                                                *)

\* The picture of the tab, and what is on its way to it.
Pictures == {ingestState.snapshot} \ {Nil}
Frames   == {pipe[i] : i \in DOMAIN pipe}
Received == Pictures \cup Frames

JoinTypeOK ==
    /\ current \in 0..MaxSeq
    /\ version \in 1..MaxVersion
    /\ scanned \in (0..version) \cup {Nil}
    /\ content \in [0..MaxSeq -> 0..MaxVersion]
    /\ epoch \in 0..MaxRestarts
    /\ server \in {"up", "interrupted", "down"}
    /\ server # "up" => epoch < MaxRestarts
    /\ conn \in Handlers \cup {Gone, Nil}
    /\ pipe \in Seq(Payloads)

\* A server that is down does nothing, and holds no end of the tab's connection.
DownIsIdle ==
    server = "down" =>
        /\ current = 0 /\ scanned = Nil /\ bpc = "idle" /\ conn \notin Handlers
        /\ \A h \in Handlers : hpc[h] = "off"

\* The tab has a connection only while it waits for one or reads it, and what is in it
\* is of one process, the current one as long as the server holds its end, and
\* not older than the picture; before the first paint there is no picture.
OneConnection ==
    /\ pipe # <<>> => conn # Nil
    /\ conn # Nil => phase \in {"connecting", "reading"}
    /\ phase \in {"schema", "firstPaint", "dead"} => ingestState.snapshot = Nil
    /\ \A p, q \in Frames : p.epoch = q.epoch
    /\ \A p \in Frames : (conn \in Handlers => p.epoch = epoch)
    /\ \A p \in Pictures, q \in Frames : p.epoch <= q.epoch

\* The last seq the tab has applied is that of its picture.
AppliedIsPicture ==
    ingestState.lastAppliedSeq = IF ingestState.snapshot = Nil THEN -1 ELSE ingestState.snapshot.seq

\* The snapshots of this process, in the order of their seqs, show the store going
\* forward, up to what the running poll has scanned.
ContentGrows ==
    /\ content[0] = 0
    /\ \A n \in 0..current :
           /\ content[n] <= version
           /\ scanned # Nil => content[n] <= scanned
           /\ \A m \in 0..n : content[m] <= content[n]

\* What the tab has received: of this process, it is what that published under its
\* seq; of an earlier one, it is not newer than anything this one publishes.
ReceivedWasCurrent ==
    \A p \in Received :
        /\ p.epoch <= epoch /\ p.ver <= version
        /\ IF p.epoch = epoch /\ server # "down"
           THEN p.seq <= current /\ p.ver = content[p.seq]
           ELSE /\ scanned # Nil => p.ver <= scanned
                /\ \A n \in 1..current : p.ver <= content[n]

\* Of two that the tab has received, the later one shows the later version.
ReceivedInOrder ==
    \A p, q \in Received :
        \/ p.epoch = q.epoch /\ p.seq <= q.seq
        \/ p.epoch < q.epoch /\ 0 < q.seq
        => p.ver <= q.ver

\* The newest frame that a handler has written for the tab is still on its way, or
\* the tab has got as far.
WrittenArrives ==
    conn \in Handlers =>
        \/ best[conn] <= ingestState.lastAppliedSeq
        \/ \E p \in Frames : p.seq = best[conn]

BoardInv ==
    /\ JoinTypeOK /\ DownIsIdle /\ OneConnection /\ AppliedIsPicture
    /\ ContentGrows /\ ReceivedWasCurrent /\ ReceivedInOrder /\ WrittenArrives
    /\ C!TypeOK /\ C!ScreenIsTrue
    /\ S!TypeOK /\ S!StreamInv

-----------------------------------------------------------------------------
(* The constants, and the assumptions of the two modules.                  *)

LEMMA NilFacts ==
    /\ Nil \notin Nat /\ Nil \notin Handlers /\ Nil \notin Payloads /\ Nil # Gone
    /\ Gone \notin Handlers /\ Invalid \notin Payloads
    /\ Nil \notin [snapshot : Payloads, conditions : BOOLEAN, connected : BOOLEAN]
    /\ {MaxSeq, MaxRestarts, MaxDrops} \subseteq Nat /\ MaxVersion \in Nat \ {0}
  BY BoardAssumption, PayloadAssumption DEF BoardAssumption, PayloadAssumption

LEMMA PayloadFacts ==
    ASSUME NEW p \in Payloads
    PROVE  /\ p.epoch \in 0..MaxRestarts /\ p.seq \in 0..MaxSeq /\ p.ver \in 0..MaxVersion
           /\ p.heartbeatMs = 1
           /\ p.epoch \in Nat /\ p.seq \in Nat /\ p.ver \in Nat
  BY NilFacts DEF Payloads

LEMMA StreamAssumed == S!StreamAssumption
  BY NilFacts DEF S!StreamAssumption

LEMMA ClientAssumed == C!ClientAssumption
  BY NilFacts, PayloadFacts DEF C!ClientAssumption

\* What the server makes of a seq it has is a payload.
LEMMA PayloadType ==
    ASSUME JoinTypeOK, NEW n \in 0..MaxSeq
    PROVE  /\ Payload(n) \in Payloads
           /\ Payload(n).epoch = epoch /\ Payload(n).seq = n /\ Payload(n).ver = content[n]
  BY DEF JoinTypeOK, Payload, Payloads

-----------------------------------------------------------------------------
(* Every step is a step of the server's broadcast or leaves it alone, and  *)
(* a step of the tab or leaves it alone; only Shutdown starts the former   *)
(* anew.                                                                   *)

\* What a frame that is about to be written shows.
LEMMA HeldType ==
    ASSUME BoardInv, NEW h \in Handlers, Stream!Write(h)
    PROVE  held[h] \in 0..current /\ held[h] \in 0..MaxSeq /\ server # "down"
<1>1. hpc[h] = "writing" /\ current \in 0..MaxSeq
  BY DEF Stream!Write, BoardInv, JoinTypeOK
<1>2. held[h] \in Nat
  BY <1>1 DEF BoardInv, S!StreamInv, S!RegistryMatches, S!TypeOK
<1>3. held[h] <= current
  BY <1>2, NilFacts DEF BoardInv, S!StreamInv, S!NothingFromTheFuture
<1>4. server # "down"
  BY <1>1 DEF BoardInv, DownIsIdle
<1>5. QED
  BY <1>1, <1>2, <1>3, <1>4, NilFacts

LEMMA StreamUnchanged == UNCHANGED streamVars => UNCHANGED S!vars
  BY DEF streamVars, S!vars, S!castVars, S!chanVars, S!connVars

LEMMA ClientUnchanged == UNCHANGED clientVars => UNCHANGED C!vars
  BY DEF clientVars, C!vars

LEMMA StreamSteps ==
    /\ Stream!Publish => S!Publish
    /\ Stream!Broadcaster => S!Broadcaster
    /\ \A h \in Handlers :
           /\ Stream!Register(h) => S!Register(h)
           /\ Stream!Write(h) => S!Write(h)
           /\ Stream!ReadCurrent(h) => S!ReadCurrent(h)
           /\ Stream!Receive(h) => S!Receive(h)
           /\ Stream!Leave(h) => S!Leave(h)
           /\ Stream!Departure(h) => S!Departure(h)
<1> USE DEF Stream!castVars, Stream!chanVars, Stream!connVars, S!castVars, S!chanVars, S!connVars
<1>1. Stream!Publish => S!Publish
  BY DEF Stream!Publish, S!Publish
<1>2. Stream!Broadcaster => S!Broadcaster
  BY DEF Stream!Broadcaster, S!Broadcaster, Stream!Lock, S!Lock, Stream!Unlock, S!Unlock,
         Stream!SendRoom, S!SendRoom, Stream!SendFull, S!SendFull, Stream!Drain, S!Drain,
         Stream!Resend, S!Resend, Stream!Send, S!Send, Stream!Drained, S!Drained
<1>3. ASSUME NEW h \in Handlers
      PROVE  /\ Stream!Register(h) => S!Register(h)
             /\ Stream!Write(h) => S!Write(h)
             /\ Stream!ReadCurrent(h) => S!ReadCurrent(h)
             /\ Stream!Receive(h) => S!Receive(h)
             /\ Stream!Leave(h) => S!Leave(h)
             /\ Stream!Departure(h) => S!Departure(h)
  BY DEF Stream!Register, S!Register, Stream!Write, S!Write, Stream!ReadCurrent, S!ReadCurrent,
         Stream!Receive, S!Receive, Stream!Leave, S!Leave, Stream!Departure, S!Departure,
         Stream!Unregister, S!Unregister, Stream!Close, S!Close
<1>4. QED
  BY <1>1, <1>2, <1>3

LEMMA ClientSteps ==
    /\ Client!FetchSchema => C!FetchSchema
    /\ Client!MainFails => C!MainFails
    /\ Client!Connect => C!Connect
    /\ Client!StreamThrows => C!StreamThrows
    /\ Client!StreamEnds => C!StreamEnds
    /\ Client!Retry => C!Retry
    /\ \A p \in Payloads : /\ Client!FirstPaint(p) => C!FirstPaint(p)
                           /\ Client!YardFrame(p) => C!YardFrame(p)
  BY DEF Client!FetchSchema, C!FetchSchema, Client!MainFails, C!MainFails, Client!Connect, C!Connect,
         Client!StreamThrows, C!StreamThrows, Client!StreamEnds, C!StreamEnds, Client!Retry, C!Retry,
         Client!FirstPaint, C!FirstPaint, Client!YardFrame, C!YardFrame,
         Client!noteFrame, C!noteFrame, Client!Grace, C!Grace, Client!repaint, C!repaint,
         Client!View, C!View, Client!createWatchdog, C!createWatchdog,
         Client!handlePayload, C!handlePayload, Client!applyIncomingPayload, C!applyIncomingPayload

\* The steps of the process that the tab sees nothing of and the broadcast neither.
LEMMA TabLeavesStream ==
    StoreChanges \/ Scan \/ PublishNothing \/ Tab \/ Drop \/ Interrupt \/ Start => UNCHANGED streamVars
  BY DEF StoreChanges, Scan, PublishNothing, Tab, FetchSchema, FirstPaint, Refused, Connect, ReadFrame,
         Retry, Orphaned, Break, Drop, Interrupt, Start

LEMMA NextOfStream == [Next]_vars => [S!Next]_(S!vars) \/ Shutdown
<1> SUFFICES ASSUME [Next]_vars, ~Shutdown PROVE [S!Next]_(S!vars)
  OBVIOUS
<1>1. CASE StoreChanges \/ Scan \/ PublishNothing \/ Tab \/ Drop \/ Interrupt \/ Start
  BY <1>1, TabLeavesStream, StreamUnchanged
<1>2. CASE Publish \/ Broadcaster
  BY <1>2, StreamSteps DEF Publish, Broadcaster, S!Next
<1>3. ASSUME NEW h \in Handlers, Request(h) \/ Handler(h) PROVE S!Next
  BY <1>3, StreamSteps DEF Request, Handler, Serve, Write, Depart, S!Next, S!Handler
<1>4. CASE UNCHANGED vars
  BY <1>4, StreamUnchanged DEF vars
<1>5. QED
  BY <1>1, <1>2, <1>3, <1>4 DEF Next, Poll, Process

LEMMA NextOfClient == BoardInv /\ [Next]_vars => [C!Next]_(C!vars)
<1> SUFFICES ASSUME BoardInv, [Next]_vars PROVE [C!Next]_(C!vars)
  OBVIOUS
<1> USE DEF C!Next, C!Loop, C!Stream
<1>1. CASE StoreChanges \/ Poll \/ Process
  BY <1>1, ClientUnchanged
     DEF StoreChanges, Poll, Scan, Publish, PublishNothing, Broadcaster, Process, Interrupt, Shutdown, Start
<1>2. ASSUME NEW h \in Handlers, Request(h) \/ Handler(h) PROVE UNCHANGED C!vars
  BY <1>2, ClientUnchanged DEF Request, Handler, Serve, Write, Depart
<1>3. CASE FetchSchema \/ Refused \/ Connect \/ Retry \/ Orphaned \/ Drop
  BY <1>3, ClientSteps DEF FetchSchema, Refused, Connect, Retry, Orphaned, Drop, Break
<1>4. CASE FirstPaint
  <2>1. Payload(current) \in Payloads
    BY PayloadType DEF BoardInv, JoinTypeOK
  <2>2. QED
    BY <1>4, <2>1, ClientSteps DEF FirstPaint
<1>5. CASE ReadFrame
  <2>1. Head(pipe) \in Payloads
    BY <1>5 DEF ReadFrame, BoardInv, JoinTypeOK
  <2>2. QED
    BY <1>5, <2>1, ClientSteps DEF ReadFrame
<1>6. CASE UNCHANGED vars
  BY <1>6, ClientUnchanged DEF vars
<1>7. QED
  BY <1>1, <1>2, <1>3, <1>4, <1>5, <1>6 DEF Next, Tab

\* A new process starts where the broadcast may.
LEMMA ShutdownStartsAnew == S!TypeOK /\ Shutdown => S!TypeOK' /\ S!StreamInv'
<1> SUFFICES ASSUME S!TypeOK, Shutdown PROVE S!TypeOK' /\ S!StreamInv'
  OBVIOUS
<1>1. S!TypeOK'
  <2>1. muHeld' \in BOOLEAN /\ panicked' \in BOOLEAN /\ closed' \in [Handlers -> BOOLEAN]
    BY Zenon DEF Shutdown, S!TypeOK
  <2>2. best' \in [Handlers -> Nat \cup {-1}] /\ current' \in Nat
    BY DEF Shutdown
  <2>3. QED
    BY <2>1, <2>2 DEF Shutdown, S!TypeOK
<1>2. S!StreamInv'
  BY NilFacts DEF Shutdown, S!StreamInv, S!LockHeld, S!RegistryMatches, S!NothingFromTheFuture,
                  S!ResendHasRoom, S!NoLostLatest
<1>3. QED
  BY <1>1, <1>2

LEMMA NextParts ==
    BoardInv /\ [Next]_vars => S!TypeOK' /\ S!StreamInv' /\ C!TypeOK' /\ C!ScreenIsTrue'
<1> SUFFICES ASSUME BoardInv, [Next]_vars PROVE S!TypeOK' /\ S!StreamInv' /\ C!TypeOK' /\ C!ScreenIsTrue'
  OBVIOUS
<1>1. S!TypeOK' /\ S!StreamInv'
  BY NextOfStream, StreamAssumed, ShutdownStartsAnew, S!StreamInductive DEF BoardInv
<1>2. C!TypeOK' /\ C!ScreenIsTrue'
  BY NextOfClient, ClientAssumed, C!NextTypeOK, C!NextScreenIsTrue DEF BoardInv
<1>3. QED
  BY <1>1, <1>2

-----------------------------------------------------------------------------
(* What the steps do to the tab's picture and to the frames on their way.  *)

LEMMA TailElements ==
    ASSUME NEW X, NEW s \in Seq(X), s # <<>>
    PROVE  /\ Head(s) \in X /\ Tail(s) \in Seq(X)
           /\ {s[i] : i \in DOMAIN s} = {Head(s)} \cup {Tail(s)[i] : i \in DOMAIN Tail(s)}
<1>1. Len(s) \in Nat \ {0} /\ Head(s) = s[1] /\ DOMAIN s = 1..Len(s) /\ DOMAIN Tail(s) = 1..(Len(s) - 1)
  OBVIOUS
<1>2. \A i \in 1..(Len(s) - 1) : Tail(s)[i] = s[i + 1]
  OBVIOUS
<1>3. ASSUME NEW i \in DOMAIN s PROVE s[i] \in {Head(s)} \cup {Tail(s)[j] : j \in DOMAIN Tail(s)}
  <2>1. CASE i = 1
    BY <1>1, <2>1
  <2>2. CASE i # 1
    <3>1. i - 1 \in DOMAIN Tail(s) /\ Tail(s)[i - 1] = s[i]
      BY <1>1, <1>2, <1>3, <2>2
    <3>2. QED
      BY <3>1
  <2>3. QED
    BY <2>1, <2>2
<1>4. QED
  BY <1>1, <1>2, <1>3

LEMMA AppendElements ==
    ASSUME NEW X, NEW s \in Seq(X), NEW x \in X
    PROVE  /\ Append(s, x) \in Seq(X)
           /\ {Append(s, x)[i] : i \in DOMAIN Append(s, x)} = {s[i] : i \in DOMAIN s} \cup {x}
<1>1. Len(s) \in Nat /\ DOMAIN s = 1..Len(s) /\ DOMAIN Append(s, x) = 1..(Len(s) + 1)
  OBVIOUS
<1>2. /\ \A i \in 1..Len(s) : Append(s, x)[i] = s[i]
      /\ Append(s, x)[Len(s) + 1] = x
  OBVIOUS
<1>3. QED
  BY <1>1, <1>2

LEMMA FirstPaintEffect ==
    ASSUME BoardInv, FirstPaint
    PROVE  /\ ingestState'.snapshot = Payload(current) /\ ingestState'.lastAppliedSeq = current
           /\ ingestState.snapshot = Nil /\ pipe = <<>> /\ conn = Nil
           /\ phase' = "connecting" /\ server # "down"
<1>1. phase = "firstPaint" /\ server # "down" /\ phase' = "connecting"
  BY DEF FirstPaint, Listening, Client!FirstPaint
<1>2. conn = Nil /\ pipe = <<>> /\ ingestState.snapshot = Nil
  BY <1>1 DEF BoardInv, OneConnection
<1>3. Payload(current) \in Payloads /\ Payload(current).seq = current /\ current \in Nat
  BY PayloadType, NilFacts DEF BoardInv, JoinTypeOK
<1>4. ingestState.lastAppliedSeq = -1
  BY <1>2 DEF BoardInv, AppliedIsPicture
<1>5. ingestState' = Client!applyIncomingPayload(ingestState, Payload(current))
  BY DEF FirstPaint, Client!FirstPaint, Client!handlePayload
<1>6. Payload(current) # Invalid /\ ~(Payload(current).seq <= ingestState.lastAppliedSeq)
  BY <1>3, <1>4, NilFacts
<1>7. ingestState'.snapshot = Payload(current) /\ ingestState'.lastAppliedSeq = current
  BY <1>3, <1>5, <1>6 DEF Client!applyIncomingPayload
<1>8. QED
  BY <1>1, <1>2, <1>7

LEMMA ReadFrameEffect ==
    ASSUME BoardInv, ReadFrame
    PROVE  \E p \in Frames :
               /\ p \in Payloads
               /\ Frames = {p} \cup Frames' /\ pipe' \in Seq(Payloads)
               /\ phase = "reading" /\ phase' = "reading"
               /\ \/ /\ p.seq <= ingestState.lastAppliedSeq
                     /\ ingestState' = ingestState
                  \/ /\ p.seq > ingestState.lastAppliedSeq
                     /\ ingestState'.snapshot = p /\ ingestState'.lastAppliedSeq = p.seq
<1>1. pipe \in Seq(Payloads) /\ pipe # <<>> /\ pipe' = Tail(pipe)
  BY DEF ReadFrame, BoardInv, JoinTypeOK
<1>2. /\ Head(pipe) \in Payloads /\ pipe' \in Seq(Payloads)
      /\ Frames = {Head(pipe)} \cup Frames'
  BY <1>1, TailElements DEF Frames
<1>3. /\ phase = "reading" /\ phase' = "reading"
      /\ ingestState' = Client!applyIncomingPayload(ingestState, Head(pipe))
  BY DEF ReadFrame, Client!YardFrame, Client!handlePayload
<1>4. Head(pipe).seq \in Nat /\ Head(pipe) # Invalid
  BY <1>2, PayloadFacts, NilFacts
<1>5. ingestState.lastAppliedSeq \in Nat \cup {-1}
  BY DEF BoardInv, C!TypeOK
<1>6. \/ Head(pipe).seq <= ingestState.lastAppliedSeq /\ ingestState' = ingestState
      \/ /\ Head(pipe).seq > ingestState.lastAppliedSeq
         /\ ingestState'.snapshot = Head(pipe) /\ ingestState'.lastAppliedSeq = Head(pipe).seq
  BY <1>3, <1>4, <1>5 DEF Client!applyIncomingPayload
<1>7. QED
  BY <1>2, <1>3, <1>6

LEMMA WriteEffect ==
    ASSUME BoardInv, NEW h \in Handlers, Write(h), conn = h
    PROVE  /\ Payload(held[h]) \in Payloads
           /\ Payload(held[h]).epoch = epoch /\ Payload(held[h]).seq = held[h]
           /\ Payload(held[h]).ver = content[held[h]]
           /\ held[h] \in 0..current /\ server # "down"
           /\ Frames' = Frames \cup {Payload(held[h])} /\ pipe' \in Seq(Payloads)
<1>1. held[h] \in 0..current /\ held[h] \in 0..MaxSeq /\ server # "down"
  BY HeldType DEF Write
<1>2. /\ Payload(held[h]) \in Payloads
      /\ Payload(held[h]).epoch = epoch /\ Payload(held[h]).seq = held[h]
      /\ Payload(held[h]).ver = content[held[h]]
  BY <1>1, PayloadType DEF BoardInv
<1>3. pipe \in Seq(Payloads) /\ pipe' = Append(pipe, Payload(held[h]))
  BY DEF Write, BoardInv, JoinTypeOK
<1>4. Frames' = Frames \cup {Payload(held[h])} /\ pipe' \in Seq(Payloads)
  BY <1>2, <1>3, AppendElements DEF Frames
<1>5. QED
  BY <1>1, <1>2, <1>4

\* The connection breaks: nothing of it is left, the picture stays.
LEMMA BreakEffect ==
    Break => /\ conn' = Nil /\ pipe' = <<>> /\ UNCHANGED <<streamVars, storeVars, ingestState>>
             /\ phase \in {"connecting", "reading"} /\ phase' = "backoff"
  BY DEF Break, Client!StreamThrows

\* The steps that move neither the store, nor the tab's picture, nor the connection.
Aside ==
    \/ Broadcaster
    \/ \E h \in Handlers : (Serve(h) /\ ~(Write(h) /\ conn = h)) \/ Depart(h)
    \/ FetchSchema \/ Refused \/ Connect \/ Retry
    \/ Drop /\ ~Break
    \/ UNCHANGED vars

LEMMA AsideEffect ==
    Aside => UNCHANGED <<current, version, scanned, content, epoch, server, conn, pipe, ingestState>>
<1>1. Broadcaster => UNCHANGED <<current, version, scanned, content, epoch, server, conn, pipe, ingestState>>
  BY DEF Broadcaster, linkVars, storeVars, clientVars, Stream!Broadcaster, Stream!Lock, Stream!Unlock,
         Stream!SendRoom, Stream!SendFull, Stream!Drain, Stream!Resend
<1>2. ASSUME NEW h \in Handlers, (Serve(h) /\ ~(Write(h) /\ conn = h)) \/ Depart(h)
      PROVE  UNCHANGED <<current, version, scanned, content, epoch, server, conn, pipe, ingestState>>
  BY <1>2 DEF Serve, Write, Depart, linkVars, storeVars, clientVars, Stream!castVars, Stream!ReadCurrent,
              Stream!Receive, Stream!Write, Stream!Leave, Stream!Departure, Stream!Unregister, Stream!Close
<1>3. FetchSchema \/ Refused \/ Connect \/ Retry \/ (Drop /\ ~Break) =>
          UNCHANGED <<current, version, scanned, content, epoch, server, conn, pipe, ingestState>>
  BY DEF FetchSchema, Refused, Connect, Retry, Drop, linkVars, storeVars, streamVars, Client!FetchSchema,
         Client!MainFails, Client!StreamThrows, Client!Connect, Client!Retry
<1>4. UNCHANGED vars => UNCHANGED <<current, version, scanned, content, epoch, server, conn, pipe, ingestState>>
  BY DEF vars, linkVars, storeVars, streamVars, clientVars
<1>5. QED
  BY <1>1, <1>2, <1>3, <1>4 DEF Aside

LEMMA StepKinds ==
    ASSUME [Next]_vars
    PROVE  \/ Aside
           \/ StoreChanges \/ Scan \/ Publish \/ PublishNothing
           \/ \E h \in Handlers : Request(h) \/ (Write(h) /\ conn = h)
           \/ FirstPaint \/ ReadFrame \/ Orphaned \/ (Drop /\ Break)
           \/ Interrupt \/ Shutdown \/ Start
  BY DEF Next, Poll, Tab, Process, Handler, Aside, Serve

\* The steps of the store and the poll: the tab and its connection stay as they are.
LEMMA PollEffect ==
    StoreChanges \/ Scan \/ Publish \/ PublishNothing =>
        UNCHANGED <<epoch, server, conn, pipe, ingestState, phase, best, hpc>>
  BY DEF StoreChanges, Scan, Publish, PublishNothing, streamVars, linkVars, clientVars, Stream!Publish,
         Stream!connVars

LEMMA PublishEffect ==
    ASSUME BoardInv, Publish
    PROVE  /\ current \in Nat /\ current' = current + 1 /\ current' \in 1..MaxSeq
           /\ scanned \in 0..version /\ scanned' = Nil /\ scanned # Nil /\ version' = version
           /\ content' = [content EXCEPT ![current + 1] = scanned]
           /\ server # "down"
<1>1. current \in 0..MaxSeq /\ MaxSeq \in Nat
  BY NilFacts DEF BoardInv, JoinTypeOK
<1>2. current' = current + 1 /\ current < MaxSeq
  BY DEF Publish, Stream!Publish
<1>3. scanned # Nil /\ scanned' = Nil /\ version' = version /\ content' = [content EXCEPT ![current + 1] = scanned]
  BY <1>2 DEF Publish
<1>4. scanned \in 0..version /\ server # "down"
  BY <1>3 DEF BoardInv, JoinTypeOK, DownIsIdle
<1>5. QED
  BY <1>1, <1>2, <1>3, <1>4

LEMMA OrphanedEffect ==
    ASSUME BoardInv, Orphaned
    PROVE  /\ conn' = Nil /\ pipe' = <<>> /\ UNCHANGED <<streamVars, storeVars, ingestState>>
           /\ phase' = "backoff"
  BY BreakEffect DEF Orphaned, Client!StreamEnds

LEMMA RequestEffect ==
    ASSUME NEW h \in Handlers, Request(h)
    PROVE  /\ phase = "connecting" /\ phase' = "connecting" /\ conn = Nil /\ conn' = h /\ server # "down"
           /\ UNCHANGED <<current, bpc, version, scanned, content, epoch, server, pipe, ingestState>>
           /\ best' = [best EXCEPT ![h] = -1]
  BY DEF Request, Listening, clientVars, storeVars, Stream!Register, Stream!castVars

LEMMA ShutdownEffect ==
    ASSUME Shutdown
    PROVE  /\ server = "interrupted" /\ server' = "down"
           /\ current' = 0 /\ scanned' = Nil /\ bpc' = "idle" /\ content' = [n \in 0..MaxSeq |-> 0]
           /\ \A h \in Handlers : hpc'[h] = "off"
           /\ conn' = IF conn = Nil THEN Nil ELSE Gone
           /\ UNCHANGED <<phase, ingestState, pipe, version, epoch>>
  BY DEF Shutdown, clientVars

-----------------------------------------------------------------------------
(* The conjuncts, one after the other.                                     *)

LEMMA NextJoinTypeOK == BoardInv /\ [Next]_vars => JoinTypeOK'
<1> SUFFICES ASSUME BoardInv, [Next]_vars PROVE JoinTypeOK'
  OBVIOUS
<1> USE NilFacts
<1>0. JoinTypeOK
  BY DEF BoardInv
<1>1. CASE Aside
  BY <1>0, <1>1, AsideEffect DEF JoinTypeOK
<1>2. CASE StoreChanges
  <2>1. version' = version + 1 /\ version < MaxVersion /\ UNCHANGED <<current, scanned, content>>
    BY <1>2 DEF StoreChanges, streamVars
  <2>2. QED
    BY <1>0, <1>2, <2>1, PollEffect DEF JoinTypeOK
<1>3. CASE Scan \/ PublishNothing
  <2>1. (scanned' = version \/ scanned' = Nil) /\ UNCHANGED <<current, version, content>>
    BY <1>3 DEF Scan, PublishNothing, streamVars
  <2>2. QED
    BY <1>0, <1>3, <2>1, PollEffect DEF JoinTypeOK
<1>4. CASE Publish
  <2>1. content' \in [0..MaxSeq -> 0..MaxVersion]
    BY <1>0, <1>4, PublishEffect DEF JoinTypeOK
  <2>2. QED
    BY <1>0, <1>4, <2>1, PublishEffect, PollEffect DEF JoinTypeOK
<1>5. ASSUME NEW h \in Handlers, Request(h) PROVE JoinTypeOK'
  BY <1>0, <1>5, RequestEffect DEF JoinTypeOK
<1>6. ASSUME NEW h \in Handlers, Write(h), conn = h PROVE JoinTypeOK'
  <2>1. pipe' \in Seq(Payloads)
    BY <1>6, WriteEffect
  <2>2. UNCHANGED <<current, version, scanned, content, epoch, server, conn>>
    BY <1>6 DEF Write, storeVars, Stream!Write, Stream!castVars
  <2>3. QED
    BY <1>0, <2>1, <2>2 DEF JoinTypeOK
<1>7. CASE FirstPaint \/ ReadFrame
  <2>1. pipe' \in Seq(Payloads)
    BY <1>0, <1>7, ReadFrameEffect DEF FirstPaint, linkVars, JoinTypeOK
  <2>2. UNCHANGED <<current, version, scanned, content, epoch, server, conn>>
    BY <1>7 DEF FirstPaint, ReadFrame, linkVars, storeVars, streamVars
  <2>3. QED
    BY <1>0, <2>1, <2>2 DEF JoinTypeOK
<1>8. CASE Orphaned \/ (Drop /\ Break)
  <2>1. conn' = Nil /\ pipe' = <<>> /\ UNCHANGED <<streamVars, storeVars>>
    BY <1>8, OrphanedEffect, BreakEffect
  <2>2. QED
    BY <1>0, <2>1 DEF JoinTypeOK, streamVars, storeVars
<1>9. CASE Interrupt
  BY <1>0, <1>9 DEF Interrupt, JoinTypeOK, streamVars, linkVars
<1>10. CASE Shutdown
  <2>1. content' \in [0..MaxSeq -> 0..MaxVersion]
    BY <1>10, ShutdownEffect
  <2>2. QED
    BY <1>0, <1>10, <2>1, ShutdownEffect DEF JoinTypeOK
<1>11. CASE Start
  BY <1>0, <1>11 DEF Start, JoinTypeOK, streamVars, linkVars
<1>12. QED
  BY <1>1, <1>2, <1>3, <1>4, <1>5, <1>6, <1>7, <1>8, <1>9, <1>10, <1>11, StepKinds

LEMMA NextDownIsIdle == BoardInv /\ [Next]_vars => DownIsIdle'
<1> SUFFICES ASSUME BoardInv, [Next]_vars, server' = "down"
             PROVE  (current = 0 /\ scanned = Nil /\ bpc = "idle" /\ conn \notin Handlers
                     /\ \A h \in Handlers : hpc[h] = "off")'
  BY DEF DownIsIdle
<1>1. CASE Shutdown
  BY <1>1, ShutdownEffect, NilFacts
<1>2. CASE ~Shutdown
  <2>1. server = "down"
    BY <1>2 DEF Next, Poll, Tab, Process, Handler, Serve, vars, storeVars, StoreChanges, Scan, Publish,
                PublishNothing, Broadcaster, Request, Write, Depart, FetchSchema, FirstPaint, Refused, Connect,
                ReadFrame, Retry, Break, Drop, Orphaned, Interrupt, Start
  <2>2. /\ current = 0 /\ scanned = Nil /\ bpc = "idle" /\ conn \notin Handlers
        /\ \A h \in Handlers : hpc[h] = "off"
    BY <2>1 DEF BoardInv, DownIsIdle
  <2>3. ~Scan /\ ~Publish /\ ~PublishNothing /\ ~Interrupt /\ ~Start /\ ~FirstPaint /\ ~Broadcaster
    BY <2>1, <2>2, FirstPaintEffect
       DEF Scan, Listening, Publish, PublishNothing, Interrupt, Start, Broadcaster, Stream!Broadcaster,
           Stream!Lock, Stream!Unlock, Stream!SendRoom, Stream!SendFull, Stream!Drain, Stream!Resend
  <2>4. ASSUME NEW h \in Handlers PROVE ~Request(h) /\ ~Serve(h) /\ ~Depart(h)
    BY <2>1, <2>2 DEF Request, Listening, Serve, Write, Depart, Stream!Write, Stream!ReadCurrent,
                      Stream!Receive, Stream!Leave, Stream!Departure, Stream!Unregister, Stream!Close
  <2>5. StoreChanges \/ Tab \/ Drop \/ UNCHANGED vars
    BY <1>2, <2>3, <2>4 DEF Next, Poll, Process, Handler
  <2>6. UNCHANGED streamVars /\ UNCHANGED scanned /\ (conn' = conn \/ conn' = Nil)
    BY <2>5 DEF StoreChanges, Tab, FetchSchema, FirstPaint, Refused, Connect, ReadFrame, Retry, Orphaned,
                Break, Drop, vars, storeVars, linkVars
  <2>7. QED
    BY <2>2, <2>6, NilFacts DEF streamVars
<1>3. QED
  BY <1>1, <1>2

\* Where the tab stands after a step that moves neither its picture nor its connection.
LEMMA AsidePhase ==
    ASSUME Aside
    PROVE  \/ phase' = phase
           \/ phase = "schema" /\ phase' = "firstPaint"
           \/ phase \in {"schema", "firstPaint"} /\ phase' = "dead"
           \/ conn = Nil /\ phase = "connecting" /\ phase' = "backoff"
           \/ phase = "connecting" /\ phase' = "reading"
           \/ phase = "backoff" /\ phase' = "connecting"
  BY DEF Aside, Broadcaster, Serve, Write, Depart, FetchSchema, Refused, Connect, Retry, Drop, vars, clientVars,
         Client!FetchSchema, Client!MainFails, Client!StreamThrows, Client!Connect, Client!Retry

LEMMA NextOneConnection == BoardInv /\ [Next]_vars => OneConnection'
<1> SUFFICES ASSUME BoardInv, [Next]_vars PROVE OneConnection'
  OBVIOUS
<1>0. OneConnection /\ (conn \in Handlers => server # "down")
  BY DEF BoardInv, DownIsIdle
<1>1. ASSUME UNCHANGED <<epoch, conn, pipe, ingestState>>, Aside \/ phase' = phase PROVE OneConnection'
  <2>1. Pictures' = Pictures /\ Frames' = Frames
    BY <1>1 DEF Pictures, Frames
  <2>2. CASE phase' = phase
    BY <1>0, <1>1, <2>1, <2>2 DEF OneConnection
  <2>3. CASE Aside /\ phase' # phase
    BY <1>0, <1>1, <2>1, <2>3, AsidePhase DEF OneConnection
  <2>4. QED
    BY <1>1, <2>2, <2>3
<1>2. CASE Aside
  BY <1>1, <1>2, AsideEffect
<1>3. CASE StoreChanges \/ Scan \/ Publish \/ PublishNothing
  BY <1>1, <1>3, PollEffect
<1>4. CASE Interrupt
  BY <1>1, <1>4 DEF Interrupt, linkVars, clientVars
<1>5. ASSUME NEW h \in Handlers, Request(h) PROVE OneConnection'
  <2>1. pipe = <<>> /\ pipe' = <<>> /\ ingestState' = ingestState
    BY <1>0, <1>5, RequestEffect DEF OneConnection
  <2>2. Frames' = {} /\ Pictures' = Pictures
    BY <2>1 DEF Frames, Pictures
  <2>3. phase' = "connecting"
    BY <1>5, RequestEffect
  <2>4. QED
    BY <2>1, <2>2, <2>3 DEF OneConnection
<1>6. ASSUME NEW h \in Handlers, Write(h), conn = h PROVE OneConnection'
  <2>1. UNCHANGED <<conn, phase, ingestState, epoch>> /\ Pictures' = Pictures
    BY <1>6 DEF Write, clientVars, storeVars, Pictures
  <2>2. Frames' = Frames \cup {Payload(held[h])} /\ Payload(held[h]).epoch = epoch
    BY <1>6, WriteEffect
  <2>3. \A p \in Pictures : p.epoch <= epoch
    BY DEF BoardInv, ReceivedWasCurrent, Received
  <2>4. \A p \in Frames : p.epoch = epoch
    BY <1>0, <1>6 DEF OneConnection
  <2>5. conn # Nil
    BY <1>6, NilFacts
  <2>6. QED
    BY <1>0, <1>6, <2>1, <2>2, <2>3, <2>4, <2>5 DEF OneConnection
<1>7. CASE FirstPaint
  <2>1. conn' = Nil /\ pipe' = <<>> /\ phase' = "connecting"
    BY <1>7, FirstPaintEffect DEF FirstPaint, linkVars
  <2>2. Frames' = {}
    BY <2>1 DEF Frames
  <2>3. QED
    BY <2>1, <2>2 DEF OneConnection
<1>8. CASE ReadFrame
  <2>1. PICK p \in Frames :
            /\ p \in Payloads /\ Frames = {p} \cup Frames'
            /\ phase = "reading" /\ phase' = "reading"
            /\ ingestState' = ingestState \/ ingestState'.snapshot = p
    BY <1>8, ReadFrameEffect
  <2>2. Pictures' = Pictures \/ Pictures' \subseteq {p}
    BY <2>1 DEF Pictures
  <2>3. UNCHANGED <<conn, epoch>> /\ conn # Nil
    BY <1>0, <1>8 DEF ReadFrame, storeVars, OneConnection
  <2>4. \A q \in Frames' : q \in Frames /\ q.epoch = p.epoch /\ p.epoch <= q.epoch
    BY <1>0, <2>1, PayloadFacts DEF OneConnection
  <2>5. QED
    BY <1>0, <2>1, <2>2, <2>3, <2>4 DEF OneConnection
<1>9. CASE Orphaned \/ (Drop /\ Break)
  <2>1. conn' = Nil /\ pipe' = <<>> /\ phase' = "backoff" /\ UNCHANGED ingestState
    BY <1>9, OrphanedEffect, BreakEffect
  <2>2. Frames' = {}
    BY <2>1 DEF Frames
  <2>3. QED
    BY <2>1, <2>2, NilFacts DEF OneConnection
<1>10. CASE Shutdown
  <2>1. /\ conn' = IF conn = Nil THEN Nil ELSE Gone
        /\ UNCHANGED <<phase, ingestState, pipe, epoch>>
    BY <1>10, ShutdownEffect
  <2>2. Frames' = Frames /\ Pictures' = Pictures
    BY <2>1 DEF Frames, Pictures
  <2>3. QED
    BY <1>0, <2>1, <2>2, NilFacts DEF OneConnection
<1>11. CASE Start
  <2>1. conn \notin Handlers /\ UNCHANGED <<phase, ingestState, pipe, conn>>
    BY <1>0, <1>11 DEF Start, clientVars, linkVars
  <2>2. Frames' = Frames /\ Pictures' = Pictures
    BY <2>1 DEF Frames, Pictures
  <2>3. QED
    BY <1>0, <2>1, <2>2 DEF OneConnection
<1>12. QED
  BY <1>2, <1>3, <1>4, <1>5, <1>6, <1>7, <1>8, <1>9, <1>10, <1>11, StepKinds

\* The picture is only changed by FirstPaint and ReadFrame.
LEMMA PictureStays ==
    ASSUME BoardInv, [Next]_vars, ~FirstPaint, ~ReadFrame
    PROVE  ingestState' = ingestState
<1>1. CASE Aside
  BY <1>1, AsideEffect
<1>2. CASE StoreChanges \/ Scan \/ Publish \/ PublishNothing
  BY <1>2, PollEffect
<1>3. ASSUME NEW h \in Handlers, Request(h) \/ (Write(h) /\ conn = h) PROVE ingestState' = ingestState
  BY <1>3, RequestEffect DEF Write, clientVars
<1>4. CASE Orphaned \/ (Drop /\ Break)
  BY <1>4, OrphanedEffect, BreakEffect
<1>5. CASE Interrupt \/ Shutdown \/ Start
  BY <1>5 DEF Interrupt, Shutdown, Start, clientVars
<1>6. QED
  BY <1>1, <1>2, <1>3, <1>4, <1>5, StepKinds

LEMMA NextAppliedIsPicture == BoardInv /\ [Next]_vars => AppliedIsPicture'
<1> SUFFICES ASSUME BoardInv, [Next]_vars PROVE AppliedIsPicture'
  OBVIOUS
<1>0. AppliedIsPicture
  BY DEF BoardInv
<1>1. CASE FirstPaint
  <2>1. Payload(current) \in Payloads /\ Payload(current).seq = current
    BY PayloadType DEF BoardInv, JoinTypeOK
  <2>2. QED
    BY <1>1, <2>1, FirstPaintEffect, NilFacts DEF AppliedIsPicture
<1>2. CASE ReadFrame
  BY <1>0, <1>2, ReadFrameEffect, NilFacts DEF AppliedIsPicture
<1>3. CASE ~FirstPaint /\ ~ReadFrame
  BY <1>0, <1>3, PictureStays DEF AppliedIsPicture
<1>4. QED
  BY <1>1, <1>2, <1>3

\* What the server has published is only changed by the store, the poll and Shutdown.
LEMMA ContentStays ==
    ASSUME BoardInv, [Next]_vars, ~StoreChanges, ~Scan, ~Publish, ~PublishNothing, ~Shutdown
    PROVE  UNCHANGED <<current, version, scanned, content>>
<1>1. CASE Aside
  BY <1>1, AsideEffect
<1>2. ASSUME NEW h \in Handlers, Request(h) PROVE UNCHANGED <<current, version, scanned, content>>
  BY <1>2, RequestEffect
<1>3. ASSUME NEW h \in Handlers, Write(h) PROVE UNCHANGED <<current, version, scanned, content>>
  BY <1>3 DEF Write, storeVars, Stream!Write, Stream!castVars
<1>4. CASE FirstPaint \/ ReadFrame
  BY <1>4 DEF FirstPaint, ReadFrame, storeVars, streamVars
<1>5. CASE Orphaned \/ (Drop /\ Break)
  BY <1>5, OrphanedEffect, BreakEffect DEF storeVars, streamVars
<1>6. CASE Interrupt \/ Start
  BY <1>6 DEF Interrupt, Start, streamVars
<1>7. QED
  BY <1>1, <1>2, <1>3, <1>4, <1>5, <1>6, StepKinds

LEMMA NextContentGrows == BoardInv /\ [Next]_vars => ContentGrows'
<1> SUFFICES ASSUME BoardInv, [Next]_vars PROVE ContentGrows'
  OBVIOUS
<1>0. ContentGrows /\ JoinTypeOK
  BY DEF BoardInv
<1> USE NilFacts
<1>1. CASE StoreChanges
  <2>1. version' = version + 1 /\ UNCHANGED <<current, scanned, content>>
    BY <1>1 DEF StoreChanges, streamVars
  <2>2. ASSUME NEW n \in 0..current PROVE content[n] <= version + 1
    <3>1. n \in 0..MaxSeq /\ content[n] \in Nat /\ version \in Nat
      BY <1>0 DEF JoinTypeOK
    <3>2. content[n] <= version
      BY <1>0 DEF ContentGrows
    <3>3. QED
      BY <3>1, <3>2
  <2>3. QED
    BY <1>0, <2>1, <2>2 DEF ContentGrows, JoinTypeOK
<1>2. CASE Scan \/ PublishNothing
  <2>1. (scanned' = version \/ scanned' = Nil) /\ UNCHANGED <<current, version, content>>
    BY <1>2 DEF Scan, PublishNothing, streamVars
  <2>2. QED
    BY <1>0, <2>1 DEF ContentGrows, JoinTypeOK
<1>3. CASE Publish
  <2>1. /\ current \in Nat /\ current' = current + 1 /\ current + 1 \in 0..MaxSeq
        /\ scanned \in 0..version /\ scanned' = Nil /\ version' = version /\ scanned # Nil
        /\ content' = [content EXCEPT ![current + 1] = scanned]
    BY <1>3, PublishEffect
  <2>2. content'[current + 1] = scanned /\ \A n \in 0..current : content'[n] = content[n]
    BY <1>0, <2>1 DEF JoinTypeOK
  <2>3. /\ scanned <= version /\ 0 \in 0..current /\ 0 \in 0..MaxSeq
        /\ \A n \in 0..current : content[n] <= scanned /\ content[n] <= version
    BY <1>0, <2>1 DEF ContentGrows
  <2>4. ASSUME NEW n \in 0..(current + 1)
        PROVE  /\ content'[n] <= version
               /\ \A m \in 0..n : content'[m] <= content'[n]
    <3>1. CASE n \in 0..current
      BY <1>0, <2>1, <2>2, <3>1 DEF ContentGrows
    <3>2. CASE n = current + 1
      BY <2>1, <2>2, <2>3, <3>2
    <3>3. QED
      BY <2>1, <2>4, <3>1, <3>2
  <2>5. QED
    BY <1>0, <2>1, <2>2, <2>3, <2>4 DEF ContentGrows
<1>4. CASE Shutdown
  <2>1. current' = 0 /\ scanned' = Nil /\ content'[0] = 0 /\ version' = version
    BY <1>4, ShutdownEffect
  <2>2. QED
    BY <1>0, <2>1 DEF ContentGrows, JoinTypeOK
<1>5. CASE ~StoreChanges /\ ~Scan /\ ~Publish /\ ~PublishNothing /\ ~Shutdown
  BY <1>0, <1>5, ContentStays DEF ContentGrows
<1>6. QED
  BY <1>1, <1>2, <1>3, <1>4, <1>5

LEMMA NextReceivedWasCurrent == BoardInv /\ [Next]_vars => ReceivedWasCurrent'
<1> SUFFICES ASSUME BoardInv, [Next]_vars PROVE ReceivedWasCurrent'
  OBVIOUS
<1> USE NilFacts
<1>0. ReceivedWasCurrent /\ ContentGrows /\ JoinTypeOK /\ Received \subseteq Payloads
  <2>1. Pictures \subseteq Payloads
    BY DEF BoardInv, C!TypeOK, Pictures
  <2>2. Frames \subseteq Payloads
    BY DEF BoardInv, JoinTypeOK, Frames
  <2>3. QED
    BY <2>1, <2>2 DEF BoardInv, Received
<1>1. \A p \in Received : /\ p.epoch \in Nat /\ p.seq \in Nat /\ p.ver \in Nat
                          /\ p.epoch <= epoch /\ p.ver <= version
  BY <1>0, PayloadFacts DEF ReceivedWasCurrent
<1>2. ASSUME UNCHANGED <<epoch, server, current, version, scanned, content>>,
             Received' \subseteq Received
                  \cup {Payload(n) : n \in {m \in 0..current : server # "down" /\ Payload(m) \in Payloads}}
      PROVE  ReceivedWasCurrent'
  <2>1. ASSUME NEW n \in 0..current, server # "down"
        PROVE  Payload(n).epoch = epoch /\ Payload(n).seq = n /\ Payload(n).ver = content[n]
               /\ content[n] <= version
    BY <1>0, <2>1 DEF Payload, ContentGrows
  <2>2. current \in Nat /\ epoch \in Nat
    BY <1>0 DEF JoinTypeOK
  <2>3. ASSUME NEW p \in Received'
        PROVE  /\ p.epoch <= epoch /\ p.ver <= version
               /\ IF p.epoch = epoch /\ server # "down"
                  THEN p.seq <= current /\ p.ver = content[p.seq]
                  ELSE /\ scanned # Nil => p.ver <= scanned
                       /\ \A n \in 1..current : p.ver <= content[n]
    <3>1. CASE p \in Received
      BY <1>0, <3>1 DEF ReceivedWasCurrent
    <3>2. CASE p \notin Received
      <4>1. PICK n \in 0..current : p = Payload(n) /\ server # "down"
        BY <1>2, <2>3, <3>2
      <4>2. QED
        BY <2>1, <2>2, <4>1
    <3>3. QED
      BY <3>1, <3>2
  <2>4. QED
    BY <1>2, <2>3 DEF ReceivedWasCurrent
<1>3. ASSUME UNCHANGED <<ingestState, pipe>> PROVE Received' = Received
  BY <1>3 DEF Received, Pictures, Frames
<1>4. CASE Aside
  BY <1>2, <1>3, <1>4, AsideEffect
<1>5. CASE StoreChanges
  <2>1. version' = version + 1 /\ UNCHANGED <<current, scanned, content, epoch, server>> /\ Received' = Received
    BY <1>3, <1>5, PollEffect DEF StoreChanges, streamVars
  <2>2. \A p \in Received : p.ver <= version + 1
    BY <1>0, <1>1 DEF JoinTypeOK
  <2>3. QED
    BY <1>0, <2>1, <2>2 DEF ReceivedWasCurrent
<1>6. CASE Scan \/ PublishNothing
  <2>1. /\ scanned' = version \/ scanned' = Nil
        /\ UNCHANGED <<current, version, content, epoch, server>> /\ Received' = Received
    BY <1>3, <1>6, PollEffect DEF Scan, PublishNothing, streamVars
  <2>2. QED
    BY <1>0, <1>1, <2>1 DEF ReceivedWasCurrent
<1>7. CASE Publish
  <2>1. /\ current \in Nat /\ current' = current + 1 /\ current + 1 \in 0..MaxSeq
        /\ scanned # Nil /\ scanned' = Nil /\ version' = version
        /\ content' = [content EXCEPT ![current + 1] = scanned]
        /\ UNCHANGED <<epoch, server>> /\ Received' = Received
    BY <1>3, <1>7, PublishEffect, PollEffect
  <2>2. content'[current + 1] = scanned /\ \A n \in 0..current : content'[n] = content[n]
    BY <1>0, <2>1 DEF JoinTypeOK
  <2>3. ASSUME NEW p \in Received
        PROVE  IF p.epoch = epoch /\ server # "down"
               THEN p.seq <= current + 1 /\ p.ver = content'[p.seq]
               ELSE \A n \in 1..(current + 1) : p.ver <= content'[n]
    <3>1. CASE p.epoch = epoch /\ server # "down"
      BY <1>0, <1>1, <2>1, <2>2, <3>1 DEF ReceivedWasCurrent
    <3>2. CASE ~(p.epoch = epoch /\ server # "down")
      <4>1. p.ver <= scanned /\ \A n \in 1..current : p.ver <= content[n]
        BY <1>0, <2>1, <3>2 DEF ReceivedWasCurrent
      <4>2. QED
        BY <2>1, <2>2, <3>2, <4>1
    <3>3. QED
      BY <3>1, <3>2
  <2>4. QED
    BY <1>1, <2>1, <2>3 DEF ReceivedWasCurrent
<1>8. ASSUME NEW h \in Handlers, Request(h) PROVE ReceivedWasCurrent'
  BY <1>2, <1>3, <1>8, RequestEffect
<1>9. ASSUME NEW h \in Handlers, Write(h), conn = h PROVE ReceivedWasCurrent'
  <2>1. /\ Frames' = Frames \cup {Payload(held[h])} /\ Payload(held[h]) \in Payloads
        /\ held[h] \in 0..current /\ server # "down"
    BY <1>9, WriteEffect
  <2>2. UNCHANGED <<epoch, server, current, version, scanned, content, ingestState>>
    BY <1>9 DEF Write, storeVars, clientVars, Stream!Write, Stream!castVars
  <2>3. Received' = Received \cup {Payload(held[h])}
    BY <2>1, <2>2 DEF Received, Pictures
  <2>4. QED
    BY <1>2, <2>1, <2>2, <2>3
<1>10. CASE FirstPaint
  <2>1. /\ UNCHANGED <<epoch, server, current, version, scanned, content, pipe>>
        /\ ingestState'.snapshot = Payload(current) /\ server # "down"
    BY <1>10, FirstPaintEffect DEF FirstPaint, storeVars, streamVars, linkVars
  <2>2. current \in 0..current /\ Payload(current) \in Payloads
    BY <1>0, PayloadType DEF JoinTypeOK
  <2>3. Received' \subseteq Received \cup {Payload(current)}
    BY <2>1 DEF Received, Pictures, Frames
  <2>4. QED
    BY <1>2, <2>1, <2>2, <2>3
<1>11. CASE ReadFrame
  <2>1. UNCHANGED <<epoch, server, current, version, scanned, content>>
    BY <1>11 DEF ReadFrame, storeVars, streamVars
  <2>2. Received' \subseteq Received
    BY <1>11, ReadFrameEffect DEF Received, Pictures
  <2>3. QED
    BY <1>2, <2>1, <2>2
<1>12. CASE Orphaned \/ (Drop /\ Break)
  <2>1. pipe' = <<>> /\ UNCHANGED <<epoch, server, current, version, scanned, content, ingestState>>
    BY <1>12, OrphanedEffect, BreakEffect DEF storeVars, streamVars
  <2>2. Received' \subseteq Received
    BY <2>1 DEF Received, Pictures, Frames
  <2>3. QED
    BY <1>2, <2>1, <2>2
<1>13. CASE Interrupt
  <2>1. /\ server' # "down" /\ server = "up" /\ UNCHANGED <<epoch, current, version, scanned, content>>
        /\ Received' = Received
    BY <1>3, <1>13 DEF Interrupt, streamVars, clientVars, linkVars
  <2>2. QED
    BY <1>0, <2>1 DEF ReceivedWasCurrent
<1>14. CASE Shutdown
  <2>1. server' = "down" /\ current' = 0 /\ scanned' = Nil /\ UNCHANGED <<version, epoch>> /\ Received' = Received
    BY <1>3, <1>14, ShutdownEffect
  <2>2. QED
    BY <1>1, <2>1 DEF ReceivedWasCurrent
<1>15. CASE Start
  <2>1. /\ epoch' = epoch + 1 /\ epoch \in Nat /\ current' = 0 /\ scanned' = Nil /\ version' = version
        /\ Received' = Received
    BY <1>0, <1>3, <1>15 DEF Start, JoinTypeOK, BoardInv, DownIsIdle, streamVars, clientVars, linkVars
  <2>2. \A p \in Received : p.epoch <= epoch + 1 /\ p.epoch # epoch + 1
    BY <1>1, <2>1
  <2>3. QED
    BY <1>1, <2>1, <2>2 DEF ReceivedWasCurrent
<1>16. QED
  BY <1>4, <1>5, <1>6, <1>7, <1>8, <1>9, <1>10, <1>11, <1>12, <1>13, <1>14, <1>15, StepKinds

\* What the server makes of a seq it has is not older than anything the tab has.
LEMMA NewestPayload ==
    ASSUME BoardInv, server # "down", NEW n \in 0..current, NEW p \in Received
    PROVE  /\ p.epoch = epoch /\ p.seq <= n => p.ver <= content[n]
           /\ p.epoch = epoch /\ n <= p.seq => content[n] <= p.ver
           /\ p.epoch < epoch /\ 0 < n => p.ver <= content[n]
           /\ p.epoch <= epoch
<1>1. p \in Payloads
  BY DEF BoardInv, C!TypeOK, JoinTypeOK, Received, Pictures, Frames
<1>2. p.epoch \in Nat /\ p.seq \in Nat /\ p.ver \in Nat /\ epoch \in Nat /\ current \in Nat
  BY <1>1, PayloadFacts, NilFacts DEF BoardInv, JoinTypeOK
<1>3. /\ p.epoch <= epoch
      /\ p.epoch = epoch => p.seq <= current /\ p.ver = content[p.seq]
      /\ p.epoch # epoch => \A m \in 1..current : p.ver <= content[m]
  BY DEF BoardInv, ReceivedWasCurrent
<1>4. \A i, j \in 0..current : i <= j => content[i] <= content[j]
  BY <1>2 DEF BoardInv, ContentGrows
<1>5. QED
  BY <1>2, <1>3, <1>4

LEMMA NextReceivedInOrder == BoardInv /\ [Next]_vars => ReceivedInOrder'
<1> SUFFICES ASSUME BoardInv, [Next]_vars PROVE ReceivedInOrder'
  OBVIOUS
<1>0. ReceivedInOrder
  BY DEF BoardInv
<1>1. ASSUME Received' \subseteq Received PROVE ReceivedInOrder'
  BY <1>0, <1>1 DEF ReceivedInOrder
<1>2. ASSUME NEW n \in 0..current, server # "down", Received' \subseteq Received \cup {Payload(n)}
      PROVE  ReceivedInOrder'
  <2>1. Payload(n).epoch = epoch /\ Payload(n).seq = n /\ Payload(n).ver = content[n]
    BY DEF Payload
  <2>2. n \in Nat /\ epoch \in Nat /\ content[n] \in Nat
    BY NilFacts DEF BoardInv, JoinTypeOK
  <2>3. \A p \in Received : /\ p.epoch = epoch /\ p.seq <= n => p.ver <= content[n]
                            /\ p.epoch = epoch /\ n <= p.seq => content[n] <= p.ver
                            /\ p.epoch < epoch /\ 0 < n => p.ver <= content[n]
                            /\ p.epoch <= epoch /\ p.epoch \in Nat
    <3>1. Received \subseteq Payloads
      BY DEF BoardInv, C!TypeOK, JoinTypeOK, Received, Pictures, Frames
    <3>2. QED
      BY <1>2, <3>1, NewestPayload, PayloadFacts
  <2>4. ASSUME NEW p \in Received', NEW q \in Received',
               \/ p.epoch = q.epoch /\ p.seq <= q.seq
               \/ p.epoch < q.epoch /\ 0 < q.seq
        PROVE  p.ver <= q.ver
    <3>1. CASE p \in Received /\ q \in Received
      BY <1>0, <2>4, <3>1 DEF ReceivedInOrder
    <3>2. CASE p \in Received /\ q = Payload(n)
      BY <2>1, <2>3, <2>4, <3>2
    <3>3. CASE p = Payload(n) /\ q \in Received
      BY <2>1, <2>2, <2>3, <2>4, <3>3
    <3>4. CASE p = Payload(n) /\ q = Payload(n)
      BY <2>1, <2>2, <3>4
    <3>5. QED
      BY <1>2, <2>4, <3>1, <3>2, <3>3, <3>4
  <2>5. QED
    BY <2>4 DEF ReceivedInOrder
<1>3. CASE FirstPaint
  <2>1. current \in 0..current
    BY NilFacts DEF BoardInv, JoinTypeOK
  <2>2. Received' \subseteq Received \cup {Payload(current)}
    BY <1>3, FirstPaintEffect DEF FirstPaint, linkVars, Received, Pictures, Frames
  <2>3. QED
    BY <1>2, <1>3, <2>1, <2>2, FirstPaintEffect
<1>4. CASE ReadFrame
  BY <1>1, <1>4, ReadFrameEffect DEF Received, Pictures
<1>5. ASSUME NEW h \in Handlers, Write(h), conn = h PROVE ReceivedInOrder'
  <2>1. ingestState' = ingestState
    BY <1>5 DEF Write, clientVars
  <2>2. Received' \subseteq Received \cup {Payload(held[h])}
    BY <1>5, <2>1, WriteEffect DEF Received, Pictures
  <2>3. QED
    BY <1>2, <1>5, <2>2, WriteEffect
<1>6. ASSUME ~FirstPaint, ~ReadFrame, ~ \E h \in Handlers : Write(h) /\ conn = h PROVE ReceivedInOrder'
  <2>1. ingestState' = ingestState
    BY <1>6, PictureStays
  <2>2. pipe' = pipe \/ pipe' = <<>>
    <3>1. Aside \/ StoreChanges \/ Scan \/ Publish \/ PublishNothing => pipe' = pipe
      BY AsideEffect, PollEffect
    <3>2. \A h \in Handlers : Request(h) => pipe' = pipe
      BY RequestEffect
    <3>3. Orphaned \/ (Drop /\ Break) => pipe' = <<>>
      BY OrphanedEffect, BreakEffect
    <3>4. Interrupt \/ Shutdown \/ Start => pipe' = pipe
      BY DEF Interrupt, Shutdown, Start, linkVars
    <3>5. QED
      BY <1>6, <3>1, <3>2, <3>3, <3>4, StepKinds
  <2>3. Received' \subseteq Received
    BY <2>1, <2>2 DEF Received, Pictures, Frames
  <2>4. QED
    BY <1>1, <2>3
<1>7. QED
  BY <1>3, <1>4, <1>5, <1>6

\* Steps of other connections and of the broadcast write nothing for the tab.
LEMMA AsideKeepsBest ==
    ASSUME BoardInv, Aside
    PROVE  \A h \in Handlers : h = conn => best'[h] = best[h]
<1>1. ASSUME NEW h \in Handlers, (Serve(h) /\ ~(Write(h) /\ conn = h)) \/ Depart(h)
      PROVE  \A g \in Handlers : g = conn => best'[g] = best[g]
  <2>1. CASE Write(h)
    <3>1. best' = [best EXCEPT ![h] = IF held[h] > best[h] THEN held[h] ELSE best[h]]
      BY <2>1 DEF Write, Stream!Write
    <3>2. conn # h
      BY <1>1, <2>1 DEF Depart
    <3>3. QED
      BY <3>1, <3>2 DEF BoardInv, S!TypeOK
  <2>2. CASE ~Write(h)
    <3>1. UNCHANGED best
      BY <1>1, <2>2 DEF Serve, Depart, Stream!ReadCurrent, Stream!Receive, Stream!Leave, Stream!Departure,
                        Stream!Unregister, Stream!Close
    <3>2. QED
      BY <3>1
  <2>3. QED
    BY <2>1, <2>2
<1>2. Broadcaster => UNCHANGED best
  BY DEF Broadcaster, Stream!Broadcaster, Stream!Lock, Stream!Unlock, Stream!SendRoom, Stream!SendFull,
         Stream!Drain, Stream!Resend, Stream!connVars
<1>3. FetchSchema \/ Refused \/ Connect \/ Retry \/ (Drop /\ ~Break) \/ UNCHANGED vars => UNCHANGED best
  BY DEF FetchSchema, Refused, Connect, Retry, Drop, vars, streamVars
<1>4. QED
  BY <1>1, <1>2, <1>3 DEF Aside

LEMMA NextWrittenArrives == BoardInv /\ [Next]_vars => WrittenArrives'
<1> SUFFICES ASSUME BoardInv, [Next]_vars PROVE WrittenArrives'
  OBVIOUS
<1>0. /\ WrittenArrives /\ best \in [Handlers -> Nat \cup {-1}]
      /\ ingestState.lastAppliedSeq \in Nat \cup {-1}
  BY DEF BoardInv, S!TypeOK, C!TypeOK
<1>1. ASSUME UNCHANGED <<conn, ingestState, pipe>>,
             conn \in Handlers => best'[conn] = best[conn]
      PROVE  WrittenArrives'
  <2>1. Frames' = Frames
    BY <1>1 DEF Frames
  <2>2. QED
    BY <1>0, <1>1, <2>1 DEF WrittenArrives
<1>2. CASE Aside
  BY <1>1, <1>2, AsideEffect, AsideKeepsBest
<1>3. CASE StoreChanges \/ Scan \/ Publish \/ PublishNothing
  BY <1>1, <1>3, PollEffect
<1>4. ASSUME NEW h \in Handlers, Request(h) PROVE WrittenArrives'
  <2>1. conn' = h /\ best'[h] = -1 /\ ingestState' = ingestState
    BY <1>0, <1>4, RequestEffect
  <2>2. QED
    BY <1>0, <2>1 DEF WrittenArrives
<1>5. ASSUME NEW h \in Handlers, Write(h), conn = h PROVE WrittenArrives'
  <2>1. /\ conn' = h /\ ingestState' = ingestState
        /\ best' = [best EXCEPT ![h] = IF held[h] > best[h] THEN held[h] ELSE best[h]]
    BY <1>5 DEF Write, clientVars, Stream!Write
  <2>2. best'[h] = held[h] \/ best'[h] = best[h]
    BY <1>0, <2>1
  <2>3. Frames' = Frames \cup {Payload(held[h])} /\ Payload(held[h]).seq = held[h]
    BY <1>5, WriteEffect
  <2>4. QED
    BY <1>0, <1>5, <2>1, <2>2, <2>3 DEF WrittenArrives
<1>6. CASE FirstPaint
  BY <1>6, FirstPaintEffect, NilFacts DEF FirstPaint, linkVars, WrittenArrives
<1>7. CASE ReadFrame
  <2>1. UNCHANGED <<conn, best>>
    BY <1>7 DEF ReadFrame, streamVars
  <2>2. PICK p \in Frames :
            /\ p \in Payloads /\ Frames = {p} \cup Frames'
            /\ \/ p.seq <= ingestState.lastAppliedSeq /\ ingestState' = ingestState
               \/ /\ p.seq > ingestState.lastAppliedSeq
                  /\ ingestState'.lastAppliedSeq = p.seq
    BY <1>7, ReadFrameEffect
  <2>3. p.seq \in Nat
    BY <2>2, PayloadFacts
  <2>4. /\ p.seq <= ingestState'.lastAppliedSeq
        /\ ingestState.lastAppliedSeq <= ingestState'.lastAppliedSeq
        /\ ingestState'.lastAppliedSeq \in Nat \cup {-1}
    BY <1>0, <2>2, <2>3
  <2>5. ASSUME conn \in Handlers
        PROVE  best[conn] <= ingestState'.lastAppliedSeq \/ \E q \in Frames' : q.seq = best[conn]
    <3>1. CASE best[conn] <= ingestState.lastAppliedSeq
      BY <1>0, <2>4, <2>5, <3>1
    <3>2. ASSUME NEW q \in Frames, q.seq = best[conn]
          PROVE  best[conn] <= ingestState'.lastAppliedSeq \/ q \in Frames'
      BY <2>2, <2>4, <3>2
    <3>3. QED
      BY <1>0, <2>5, <3>1, <3>2 DEF WrittenArrives
  <2>6. QED
    BY <2>1, <2>5 DEF WrittenArrives
<1>8. CASE Orphaned \/ (Drop /\ Break)
  BY <1>8, OrphanedEffect, BreakEffect, NilFacts DEF WrittenArrives
<1>9. CASE Interrupt \/ Start
  BY <1>1, <1>9 DEF Interrupt, Start, streamVars, clientVars, linkVars
<1>10. CASE Shutdown
  BY <1>10, ShutdownEffect, NilFacts DEF WrittenArrives
<1>11. QED
  BY <1>2, <1>3, <1>4, <1>5, <1>6, <1>7, <1>8, <1>9, <1>10, StepKinds

LEMMA InitBoardInv == Init => BoardInv
<1> SUFFICES ASSUME Init PROVE BoardInv
  OBVIOUS
<1> USE NilFacts
<1>1. S!Init /\ C!Init
  BY DEF Init, Stream!Init, S!Init, Client!Init, C!Init, Client!initialIngestState, C!initialIngestState
<1>2. S!TypeOK /\ S!StreamInv
  BY <1>1, StreamAssumed, S!StreamInductive
<1>3. C!TypeOK /\ C!ScreenIsTrue
  <2>1. C!TypeOK
    BY <1>1, ClientAssumed, C!InitTypeOK
  <2>2. C!ScreenIsTrue
    BY <1>1 DEF C!Init, C!initialIngestState, C!ScreenIsTrue
  <2>3. QED
    BY <2>1, <2>2
<1>4. /\ phase = "schema" /\ ingestState.snapshot = Nil /\ ingestState.lastAppliedSeq = -1 /\ current = 0
      /\ version = 1 /\ scanned = Nil /\ content = [n \in 0..MaxSeq |-> 0] /\ epoch = 0 /\ server = "up"
      /\ conn = Nil /\ pipe = <<>>
  BY <1>1 DEF Init, C!Init, C!initialIngestState, S!Init
<1>5. Pictures = {} /\ Frames = {} /\ Received = {}
  BY <1>4 DEF Pictures, Frames, Received
<1>6. JoinTypeOK
  BY <1>4 DEF JoinTypeOK
<1>7. DownIsIdle /\ AppliedIsPicture /\ WrittenArrives
  BY <1>4 DEF DownIsIdle, AppliedIsPicture, WrittenArrives
<1>8. OneConnection /\ ReceivedWasCurrent /\ ReceivedInOrder
  BY <1>4, <1>5 DEF OneConnection, ReceivedWasCurrent, ReceivedInOrder
<1>9. ContentGrows
  BY <1>4 DEF ContentGrows
<1>10. QED
  BY <1>2, <1>3, <1>6, <1>7, <1>8, <1>9 DEF BoardInv

LEMMA NextBoardInv == BoardInv /\ [Next]_vars => BoardInv'
  BY NextParts, NextJoinTypeOK, NextDownIsIdle, NextOneConnection, NextAppliedIsPicture, NextContentGrows,
     NextReceivedWasCurrent, NextReceivedInOrder, NextWrittenArrives DEF BoardInv

\* The tab and the server agree, across connections and restarts, on what the tab
\* has received: the inductive invariant of the two theorems below.
THEOREM BoardAgrees == Spec => []BoardInv
  BY InitBoardInv, NextBoardInv, PTL DEF Spec

\* A picture that the tab holds is on its screen.
LEMMA PictureIsPainted ==
    ASSUME BoardInv, ingestState.snapshot # Nil
    PROVE  painted # Nil /\ painted.snapshot = ingestState.snapshot
<1>1. painted = C!View(ingestState, connected)
  BY DEF BoardInv, C!ScreenIsTrue
<1>2. /\ ingestState.snapshot \in Payloads /\ ingestState.clientConditions \in BOOLEAN
      /\ connected \in BOOLEAN
  BY DEF BoardInv, C!TypeOK
<1>3. painted \in [snapshot : Payloads, conditions : BOOLEAN, connected : BOOLEAN]
  BY <1>1, <1>2 DEF C!View
<1>4. QED
  BY <1>1, <1>3, NilFacts DEF C!View

-----------------------------------------------------------------------------
(* No silent staleness.                                                    *)

LEMMA QuietShowsCurrent == BoardInv => QuietIsCurrent
<1> SUFFICES ASSUME BoardInv, Quiet, ~Masked PROVE OnScreen = version
  BY DEF QuietIsCurrent
<1> USE NilFacts
<1>1. /\ conn \in Handlers /\ hpc[conn] = "select" /\ slot[conn] = Nil /\ bpc = "idle" /\ pipe = <<>>
      /\ content[current] = version
  BY DEF Quiet
<1>2. todo = {} /\ held[conn] = Nil /\ current \in Nat
  BY <1>1 DEF BoardInv, S!StreamInv, S!LockHeld, S!RegistryMatches, S!TypeOK
<1>3. best[conn] = current
  BY <1>1, <1>2 DEF BoardInv, S!StreamInv, S!NoLostLatest, S!Told, S!OnItsWay
<1>4. current <= ingestState.lastAppliedSeq
  <2>1. Frames = {}
    BY <1>1 DEF Frames
  <2>2. QED
    BY <1>1, <1>3, <2>1 DEF BoardInv, WrittenArrives
<1>5. ingestState.snapshot # Nil /\ ingestState.lastAppliedSeq = ingestState.snapshot.seq
  BY <1>2, <1>4 DEF BoardInv, AppliedIsPicture
<1>6. painted # Nil /\ painted.snapshot = ingestState.snapshot
  BY <1>5, PictureIsPainted
<1>7. ingestState.snapshot \in Received /\ ingestState.snapshot \in Payloads
  BY <1>5 DEF BoardInv, C!TypeOK, Received, Pictures
<1>8. ingestState.snapshot.epoch = epoch
  <2>1. ingestState.snapshot.epoch <= epoch
    BY <1>7 DEF BoardInv, ReceivedWasCurrent
  <2>2. ~(ingestState.snapshot.epoch < epoch)
    BY <1>4, <1>6 DEF Masked
  <2>3. ingestState.snapshot.epoch \in Nat /\ epoch \in Nat
    BY <1>7, PayloadFacts DEF BoardInv, JoinTypeOK
  <2>4. QED
    BY <2>1, <2>2, <2>3
<1>9. server # "down"
  BY <1>1 DEF BoardInv, DownIsIdle
<1>10. ingestState.snapshot.seq <= current /\ ingestState.snapshot.ver = content[ingestState.snapshot.seq]
  BY <1>7, <1>8, <1>9 DEF BoardInv, ReceivedWasCurrent
<1>11. ingestState.snapshot.seq = current
  BY <1>2, <1>4, <1>5, <1>7, <1>10, PayloadFacts
<1>12. QED
  BY <1>1, <1>6, <1>10, <1>11 DEF OnScreen

\* When the server has published the store as it is and nothing is left to write or
\* to read, the screen shows the store as it is, unless a restart masks it.
THEOREM QuietBoardIsCurrent == Spec => []QuietIsCurrent
  BY BoardAgrees, QuietShowsCurrent, PTL

-----------------------------------------------------------------------------
(* The refinement.                                                         *)

\* What is on the screen is the version of the tab's picture.
ScreenShowsPicture ==
    OnScreen = IF ingestState.snapshot = Nil THEN -1 ELSE ingestState.snapshot.ver

LEMMA ScreenIsPicture == BoardInv => ScreenShowsPicture
<1> SUFFICES ASSUME BoardInv PROVE ScreenShowsPicture
  OBVIOUS
<1>1. CASE ingestState.snapshot = Nil
  BY <1>1 DEF BoardInv, C!ScreenIsTrue, OnScreen, ScreenShowsPicture
<1>2. CASE ingestState.snapshot # Nil
  BY <1>2, PictureIsPainted DEF OnScreen, ScreenShowsPicture
<1>3. QED
  BY <1>1, <1>2

LEMMA MirrorInit == Init => Mirror!Init
  BY DEF Init, Client!Init, Mirror!Init, OnScreen

LEMMA MirrorStep == BoardInv /\ BoardInv' /\ [Next]_vars => [Mirror!Next]_(Mirror!vars)
<1> SUFFICES ASSUME BoardInv, BoardInv', [Next]_vars PROVE [Mirror!Next]_(Mirror!vars)
  OBVIOUS
<1> USE NilFacts
<1>0. /\ OnScreen = IF ingestState.snapshot = Nil THEN -1 ELSE ingestState.snapshot.ver
      /\ OnScreen' = IF ingestState'.snapshot = Nil THEN -1 ELSE ingestState'.snapshot.ver
  <2>1. ScreenShowsPicture /\ ScreenShowsPicture'
    BY ScreenIsPicture, PTL
  <2>2. QED
    BY <2>1 DEF ScreenShowsPicture
<1>1. CASE FirstPaint
  <2>1. OnScreen = -1 /\ version' = version
    BY <1>0, <1>1, FirstPaintEffect DEF FirstPaint, storeVars
  <2>2. OnScreen' = content[current] /\ content[current] \in 0..version
    <3>1. Payload(current).ver = content[current] /\ Payload(current) \in Payloads
      BY PayloadType DEF BoardInv, JoinTypeOK
    <3>2. content[current] \in Nat /\ content[current] <= version /\ version \in Nat
      <4>1. current \in 0..current /\ content[current] \in Nat /\ version \in Nat
        BY DEF BoardInv, JoinTypeOK
      <4>2. QED
        BY <4>1 DEF BoardInv, ContentGrows
    <3>3. QED
      BY <1>0, <1>1, <3>1, <3>2, FirstPaintEffect
  <2>3. QED
    BY <2>1, <2>2 DEF Mirror!Next, Mirror!Show, BoardInv, JoinTypeOK
<1>2. CASE ReadFrame
  <2>1. version' = version /\ version \in Nat
    BY <1>2 DEF ReadFrame, storeVars, BoardInv, JoinTypeOK
  <2>2. PICK p \in Frames :
            /\ p \in Payloads
            /\ \/ ingestState' = ingestState
               \/ /\ p.seq > ingestState.lastAppliedSeq
                  /\ ingestState'.snapshot = p
    BY <1>2, ReadFrameEffect
  <2>3. CASE ingestState' = ingestState
    BY <1>0, <2>1, <2>3 DEF Mirror!vars
  <2>4. CASE ingestState' # ingestState
    <3>1. /\ p.seq > ingestState.lastAppliedSeq /\ p.seq \in Nat /\ p.ver \in Nat /\ p.epoch \in Nat
          /\ OnScreen' = p.ver
      BY <1>0, <2>2, <2>4, PayloadFacts
    <3>2. p.ver <= version /\ p \in Received
      BY <2>2 DEF BoardInv, ReceivedWasCurrent, Received
    <3>3. OnScreen <= p.ver
      <4>1. CASE ingestState.snapshot = Nil
        BY <1>0, <3>1, <4>1
      <4>2. CASE ingestState.snapshot # Nil
        <5>1. ingestState.snapshot \in Pictures /\ ingestState.snapshot \in Payloads
          BY <4>2 DEF BoardInv, C!TypeOK, Pictures
        <5>2. ingestState.snapshot.epoch <= p.epoch
          BY <2>2, <5>1 DEF BoardInv, OneConnection
        <5>3. ingestState.snapshot.seq < p.seq
          BY <3>1, <4>2 DEF BoardInv, AppliedIsPicture
        <5>4. ingestState.snapshot.seq \in Nat /\ ingestState.snapshot.epoch \in Nat
          BY <5>1, PayloadFacts
        <5>5. ingestState.snapshot.ver <= p.ver
          BY <3>1, <3>2, <5>1, <5>2, <5>3, <5>4 DEF BoardInv, ReceivedInOrder, Received
        <5>6. QED
          BY <1>0, <4>2, <5>5
      <4>3. QED
        BY <4>1, <4>2
    <3>4. OnScreen \in Nat \cup {-1}
      BY <1>0, PayloadFacts DEF BoardInv, C!TypeOK
    <3>5. QED
      BY <2>1, <3>1, <3>2, <3>3, <3>4 DEF Mirror!Next, Mirror!Show, Mirror!vars
  <2>5. QED
    BY <2>3, <2>4
<1>3. CASE ~FirstPaint /\ ~ReadFrame
  <2>1. OnScreen' = OnScreen
    BY <1>0, <1>3, PictureStays
  <2>2. version' = version \/ version' = version + 1
    <3>1. ~StoreChanges /\ ~Scan /\ ~Publish /\ ~PublishNothing /\ ~Shutdown => version' = version
      BY ContentStays
    <3>2. StoreChanges \/ Scan \/ Publish \/ PublishNothing \/ Shutdown =>
              version' = version \/ version' = version + 1
      BY DEF StoreChanges, Scan, Publish, PublishNothing, Shutdown
    <3>3. QED
      BY <3>1, <3>2
  <2>3. QED
    BY <2>1, <2>2 DEF Mirror!Next, Mirror!Change, Mirror!vars
<1>4. QED
  BY <1>1, <1>2, <1>3

\* Through polls, broadcasts, slow readers, broken connections and restarts, the
\* screen only ever moves forward, to a state the store has had.
THEOREM BoardIsMirror == Spec => MirrorSpec
<1>1. Spec => Mirror!Init /\ [][Mirror!Next]_(Mirror!vars)
  BY MirrorInit, MirrorStep, BoardAgrees, PTL DEF Spec
<1>2. QED
  BY <1>1 DEF MirrorSpec, Mirror!Spec
=============================================================================
