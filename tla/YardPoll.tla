------------------------------ MODULE YardPoll ------------------------------
(***************************************************************************)
(* The poll side of the yard-board server (board/server/poll.go): a ticker *)
(* starts at most one poll goroutine at a time; the goroutine reads the    *)
(* clock, scans the artifact store, builds a candidate snapshot (which     *)
(* writes the last-good maps with no lock held), publishes it under s.mu   *)
(* when it differs from the current one, hands it to the subscribers and   *)
(* releases the in-flight guard.                                           *)
(*                                                                         *)
(* Abstractions.  The three live lanes are filled from one scan and carry  *)
(* one freshness, so a snapshot has one `freshness' and one `data'; the    *)
(* dark and bagged lanes never change and are left out, as is the config.  *)
(* Lane data is what Fold and Assemble compute from the surviving records: *)
(* here the records themselves and the elapsed time of every subject that  *)
(* is still out (the one part of it that depends on the clock).  A record  *)
(* stands for its file, whose name is made of the same three fields; what  *)
(* else the file holds is left out.  `board' keeps the quarantine          *)
(* conditions of store.Scan: the text of one for a record dated ahead      *)
(* names the instant of the scan, that of one for a file that cannot be    *)
(* read or parsed does not.  (all-records-quarantined follows from them.)  *)
(* Conditions of the vocabulary files are the same on every poll, a failed *)
(* scan always fails for the same reason, and so does the read of a file.  *)
(* One unit of time stands for one second of the timestamps.  The wall     *)
(* clock is assumed not to step back; the clocks of producers may run      *)
(* ahead.  Files are added and rewritten, never deleted.                   *)
(***************************************************************************)
EXTENDS Integers, FiniteSets

CONSTANTS
    Pollers,       \* goroutines RunPollLoop can have running at once
    Subjects,      \* subjects records are about
    StalenessMs,   \* cfg.StalenessMs, in units of the model's clock
    AgeBucketMs,   \* ageBucketMsGranularity, in units of the model's clock
    MaxTime,       \* bound on the clock
    MaxOutages,    \* bound on how often the store becomes unreadable
    MaxFaults,     \* bound on how often a single file becomes unreadable
    MaxSkew,       \* bound on how far a producer's clock is ahead
    Nil            \* Go's nil, for timestamps and lane data

ASSUME PollAssumption ==
    /\ Pollers # {}
    /\ StalenessMs \in Nat
    /\ AgeBucketMs \in Nat \ {0}
    /\ MaxTime \in Nat
    /\ MaxOutages \in Nat
    /\ MaxFaults \in Nat
    /\ MaxSkew \in Nat
    /\ Nil \notin Nat
    /\ Nil \notin Pollers

VARIABLES
    now,              \* the wall clock
    store,            \* the records on disk
    readable,         \* whether the store directory can be walked
    outages,          \* how often it has become unreadable
    unread,           \* the files that cannot be read or parsed
    faults,           \* how often a file has become so
    pc,               \* where each poll goroutine stands
    pollNow,          \* the instant each goroutine's PollOnce was given
    scan,             \* each goroutine's scan: the files found and those of them put
                      \* aside unread, or Nil for scanErr
    candidate,        \* each goroutine's candidate snapshot
    pollInFlight,     \* s.pollInFlight
    seq,              \* s.seq
    lastSnapshot,     \* s.lastSnapshot
    lastCompareBytes, \* s.lastCompareBytes
    lastPollAt,       \* s.lastPollAt
    lastGoodAsOf,     \* s.lastGoodAsOf["live"]
    lastGoodLaneData, \* s.lastGoodLaneData
    broadcasted,      \* seq of the last snapshot given to subs.broadcast
    shownGood,        \* history: data of the last snapshot published after a good scan
    everShown         \* history: the records any published snapshot showed

envVars  == <<now, store, readable, outages, unread, faults>>
pollVars == <<pc, pollNow, scan, candidate>>
goodVars == <<lastGoodAsOf, lastGoodLaneData>>
pubVars  == <<seq, lastSnapshot, lastCompareBytes, lastPollAt, shownGood, everShown>>
vars     == <<envVars, pollVars, goodVars, pubVars, pollInFlight, broadcasted>>

Time   == 0..MaxTime
Record == [subject : Subjects, kind : {"dispatched", "returned"}, at : Time]

-----------------------------------------------------------------------------
(* What a snapshot is made of.                                             *)

\* What a scan finds: the files, and which of them readOne cannot read or parse.
OnDisk == [files |-> store, unread |-> unread]

\* store.Scan keeps what it can read and whose `at' is not after now, and puts the
\* rest aside.
Surviving(found, t) == {r \in found.files \ found.unread : r.at <= t}

\* The condition of each file put aside; that of a record dated ahead carries the
\* scan's now.
Quarantined(found, t) ==
    {[record |-> r, scanAt |-> IF r \in found.unread THEN Nil ELSE t] :
        r \in found.files \ Surviving(found, t)}

\* Subjects whose latest word is still a dispatched record.
Out(recs) ==
    {s \in Subjects : /\ \E r \in recs : r.subject = s
                      /\ \A r \in recs : r.subject = s => r.kind = "dispatched"}

Newest(ats) == CHOOSE t \in ats : \A u \in ats : u <= t

AtsOf(recs, s) == {r.at : r \in {q \in recs : q.subject = s}}

LaneData(recs, t) ==
    [records |-> recs,
     elapsed |-> [s \in Subjects |-> IF s \in Out(recs) THEN t - Newest(AtsOf(recs, s)) ELSE Nil]]

NeverPolled == [kind |-> "never-polled", asOf |-> Nil, ageBucketMs |-> Nil, lastGoodAsOf |-> Nil]

\* An empty store is fresh; otherwise the age of the newest record decides.
computeLiveFreshness(recs, t) ==
    LET age    == t - Newest({r.at : r \in recs})
        isFresh == recs = {} \/ age <= StalenessMs
    IN  [kind         |-> IF isFresh THEN "fresh" ELSE "stale",
         asOf         |-> t,
         ageBucketMs  |-> IF isFresh THEN Nil ELSE (age \div AgeBucketMs) * AgeBucketMs,
         lastGoodAsOf |-> Nil]

FailedFreshness ==
    [kind |-> "failed", asOf |-> Nil, ageBucketMs |-> Nil, lastGoodAsOf |-> lastGoodAsOf]

\* Slips in RetainedData: the failed lane shows nothing; it shows an empty payload.
RetainedDataDropped == Nil
RetainedDataEmpty == [records |-> {}, elapsed |-> <<>>]

\* The payload a lane keeps showing when its scan failed.
RetainedData == lastGoodLaneData

GoodSnapshot(found, t) ==
    LET kept == Surviving(found, t)
    IN  [seq |-> 0, asOf |-> Nil, board |-> Quarantined(found, t),
         freshness |-> computeLiveFreshness(kept, t), data |-> LaneData(kept, t)]

FailedSnapshot ==
    [seq |-> 0, asOf |-> Nil, board |-> {}, freshness |-> FailedFreshness, data |-> RetainedData]

\* A slip in mustMarshalStripped: the freshness keeps its timestamp.
mustMarshalStrippedButAsOf(snap) == [snap EXCEPT !.seq = 0, !.asOf = Nil, !.freshness.lastGoodAsOf = Nil]

\* mustMarshalStripped: what change detection compares.
mustMarshalStripped(snap) ==
    [snap EXCEPT !.seq = 0, !.asOf = Nil,
                 !.freshness.asOf = Nil, !.freshness.lastGoodAsOf = Nil]

\* What PollOnce does to a candidate that becomes current.
Numbered(snap, n, t) ==
    [seq |-> n, asOf |-> t, board |-> snap.board, freshness |-> snap.freshness, data |-> snap.data]

InitialSnapshot ==
    [seq |-> 0, asOf |-> Nil, board |-> {}, freshness |-> NeverPolled, data |-> Nil]

\* The records a snapshot shows, and those its board names as put aside.
Shown(snap) == IF snap.data = Nil THEN {} ELSE snap.data.records

PutAside(snap) == {c.record : c \in snap.board}

-----------------------------------------------------------------------------
(* NewServer.                                                              *)

Init ==
    /\ now = 0 /\ store = {} /\ readable = TRUE /\ outages = 0 /\ unread = {} /\ faults = 0
    /\ pc = [g \in Pollers |-> "idle"]
    /\ pollNow = [g \in Pollers |-> 0]
    /\ scan = [g \in Pollers |-> Nil]
    /\ candidate = [g \in Pollers |-> InitialSnapshot]
    /\ pollInFlight = FALSE
    /\ seq = 0
    /\ lastSnapshot = InitialSnapshot
    /\ lastCompareBytes = mustMarshalStripped(InitialSnapshot)
    /\ lastPollAt = Nil
    /\ lastGoodAsOf = Nil
    /\ lastGoodLaneData = Nil
    /\ broadcasted = 0
    /\ shownGood = Nil
    /\ everShown = {}

-----------------------------------------------------------------------------
(* The environment: the clock, the producers, the disk.                    *)

Tick ==
    /\ now < MaxTime
    /\ now' = now + 1
    /\ UNCHANGED <<store, readable, outages, unread, faults, pollVars, goodVars, pubVars,
                   pollInFlight, broadcasted>>

\* scripts/Produce-Artifact.ps1 adds a record; the store is append-only.  A
\* migrated verdict carries an `at' in the past.
Produce ==
    /\ \E r \in Record \ store :
          /\ r.at <= now + MaxSkew
          /\ ~ \E q \in store : q.subject = r.subject /\ q.kind = r.kind
          /\ store' = store \cup {r}
    /\ UNCHANGED <<now, readable, outages, unread, faults, pollVars, goodVars, pubVars,
                   pollInFlight, broadcasted>>

StoreLost ==
    /\ readable /\ outages < MaxOutages
    /\ readable' = FALSE
    /\ outages' = outages + 1
    /\ UNCHANGED <<now, store, unread, faults, pollVars, goodVars, pubVars, pollInFlight, broadcasted>>

StoreBack ==
    /\ ~readable
    /\ readable' = TRUE
    /\ UNCHANGED <<now, store, outages, unread, faults, pollVars, goodVars, pubVars,
                   pollInFlight, broadcasted>>

\* One file cannot be read, or is torn: just written, or written again in the second
\* its name was made in.  The scan around it succeeds.
FileLost ==
    /\ faults < MaxFaults
    /\ \E r \in store \ unread : unread' = unread \cup {r}
    /\ faults' = faults + 1
    /\ UNCHANGED <<now, store, readable, outages, pollVars, goodVars, pubVars, pollInFlight, broadcasted>>

FileBack ==
    /\ \E r \in unread : unread' = unread \ {r}
    /\ UNCHANGED <<now, store, readable, outages, faults, pollVars, goodVars, pubVars,
                   pollInFlight, broadcasted>>

-----------------------------------------------------------------------------
(* One poll.                                                               *)

\* A slip in TryBeginPoll: polls may overlap.
TryBeginPollAlways == pollInFlight' = TRUE

\* The compare-and-swap of the in-flight guard.
TryBeginPoll ==
    /\ ~pollInFlight
    /\ pollInFlight' = TRUE

\* A slip in EndPoll: the guard is never given back.
EndPollKept == UNCHANGED pollInFlight

EndPoll == pollInFlight' = FALSE

\* A tick of RunPollLoop that gets the guard starts a goroutine, which reads
\* the clock; a tick that does not get it is skipped.
StartPoll(g) ==
    /\ pc[g] = "idle"
    /\ TryBeginPoll
    /\ pc' = [pc EXCEPT ![g] = "scan"]
    /\ pollNow' = [pollNow EXCEPT ![g] = now]
    /\ UNCHANGED <<envVars, scan, candidate, goodVars, pubVars, broadcasted>>

\* s.adapter.Scan, no lock held.
Scan(g) ==
    /\ pc[g] = "scan"
    /\ pc' = [pc EXCEPT ![g] = "build"]
    /\ scan' = [scan EXCEPT ![g] = IF readable THEN OnDisk ELSE Nil]
    /\ UNCHANGED <<envVars, pollNow, candidate, goodVars, pubVars, pollInFlight, broadcasted>>

\* buildSnapshot after a scan that succeeded: the last-good maps are written here.
BuildGood(g) ==
    /\ pc[g] = "build" /\ scan[g] # Nil
    /\ pc' = [pc EXCEPT ![g] = "publish"]
    /\ candidate' = [candidate EXCEPT ![g] = GoodSnapshot(scan[g], pollNow[g])]
    /\ lastGoodAsOf' = pollNow[g]
    /\ lastGoodLaneData' = LaneData(Surviving(scan[g], pollNow[g]), pollNow[g])
    /\ UNCHANGED <<envVars, pollNow, scan, pubVars, pollInFlight, broadcasted>>

\* buildSnapshot after a scan that failed.
BuildFailed(g) ==
    /\ pc[g] = "build" /\ scan[g] = Nil
    /\ pc' = [pc EXCEPT ![g] = "publish"]
    /\ candidate' = [candidate EXCEPT ![g] = FailedSnapshot]
    /\ UNCHANGED <<envVars, pollNow, scan, goodVars, pubVars, pollInFlight, broadcasted>>

\* The critical section of PollOnce, candidate equal to the current snapshot.
PublishSame(g) ==
    /\ pc[g] = "publish"
    /\ mustMarshalStripped(candidate[g]) = lastCompareBytes
    /\ pc' = [pc EXCEPT ![g] = "end"]
    /\ lastPollAt' = pollNow[g]
    /\ UNCHANGED <<envVars, pollNow, scan, candidate, goodVars, seq, lastSnapshot,
                   lastCompareBytes, shownGood, everShown, pollInFlight, broadcasted>>

\* The critical section of PollOnce, candidate changed: seq is assigned after
\* the comparison and the candidate becomes current.
PublishChanged(g) ==
    LET published == Numbered(candidate[g], seq + 1, pollNow[g]) IN
    /\ pc[g] = "publish"
    /\ mustMarshalStripped(candidate[g]) # lastCompareBytes
    /\ pc' = [pc EXCEPT ![g] = "broadcast"]
    /\ seq' = seq + 1
    /\ candidate' = [candidate EXCEPT ![g] = published]
    /\ lastSnapshot' = published
    /\ lastCompareBytes' = mustMarshalStripped(published)
    /\ lastPollAt' = pollNow[g]
    /\ shownGood' = IF published.freshness.kind = "failed" THEN shownGood ELSE published.data
    /\ everShown' = everShown \cup Shown(published)
    /\ UNCHANGED <<envVars, pollNow, scan, goodVars, pollInFlight, broadcasted>>

\* s.subs.broadcast(snap); its own steps are in YardStream.
Broadcast(g) ==
    /\ pc[g] = "broadcast"
    /\ pc' = [pc EXCEPT ![g] = "end"]
    /\ broadcasted' = candidate[g].seq
    /\ UNCHANGED <<envVars, pollNow, scan, candidate, goodVars, pubVars, pollInFlight>>

\* The deferred EndPoll; the goroutine is gone and its locals with it.
Finish(g) ==
    /\ pc[g] = "end"
    /\ EndPoll
    /\ pc' = [pc EXCEPT ![g] = "idle"]
    /\ pollNow' = [pollNow EXCEPT ![g] = 0]
    /\ scan' = [scan EXCEPT ![g] = Nil]
    /\ candidate' = [candidate EXCEPT ![g] = InitialSnapshot]
    /\ UNCHANGED <<envVars, goodVars, pubVars, broadcasted>>

-----------------------------------------------------------------------------
Environment == Tick \/ Produce \/ StoreLost \/ StoreBack \/ FileLost \/ FileBack

Poll(g) == \/ StartPoll(g)   \/ Scan(g)        \/ BuildGood(g) \/ BuildFailed(g)
           \/ PublishSame(g) \/ PublishChanged(g)
           \/ Broadcast(g)   \/ Finish(g)

Next == Environment \/ \E g \in Pollers : Poll(g)

\* The ticker keeps firing and the Go scheduler runs every goroutine; the
\* environment owes nothing.
Fairness == WF_vars(\E g \in Pollers : Poll(g))

Spec == Init /\ [][Next]_vars

FairSpec == Spec /\ Fairness

-----------------------------------------------------------------------------
(* Properties.                                                             *)

Freshnesses ==
    [kind : {"never-polled", "fresh", "stale", "failed"}, asOf : Nat \cup {Nil},
     ageBucketMs : Int \cup {Nil}, lastGoodAsOf : Nat \cup {Nil}]

LaneDatas == [records : SUBSET Record, elapsed : [Subjects -> Int \cup {Nil}]]

Scans == [files : SUBSET Record, unread : SUBSET Record]

\* Neither a payload nor what a scan found is Go's nil.
ASSUME LaneAssumption == Nil \notin LaneDatas \cup Scans

Conditions == [record : Record, scanAt : Nat \cup {Nil}]

Snapshots ==
    [seq : Nat, asOf : Nat \cup {Nil}, board : SUBSET Conditions,
     freshness : Freshnesses, data : LaneDatas \cup {Nil}]

\* Every variable has its type; a failed scan is Nil, never an empty one.
TypeOK ==
    /\ now \in Nat /\ store \in SUBSET Record /\ readable \in BOOLEAN /\ outages \in Nat
    /\ unread \in SUBSET store /\ faults \in Nat /\ everShown \in SUBSET Record
    /\ pc \in [Pollers -> {"idle", "scan", "build", "publish", "broadcast", "end"}]
    /\ pollNow \in [Pollers -> Nat]
    /\ scan \in [Pollers -> Scans \cup {Nil}]
    /\ candidate \in [Pollers -> Snapshots]
    /\ pollInFlight \in BOOLEAN
    /\ seq \in Nat /\ broadcasted \in Nat
    /\ lastSnapshot \in Snapshots /\ lastCompareBytes \in Snapshots
    /\ lastPollAt \in Nat \cup {Nil} /\ lastGoodAsOf \in Nat \cup {Nil}
    /\ lastGoodLaneData \in LaneDatas \cup {Nil} /\ shownGood \in LaneDatas \cup {Nil}

Running(g) == pc[g] # "idle"

\* The guard is held exactly while a poll runs, and only one runs.
GuardHeld == pollInFlight <=> \E g \in Pollers : Running(g)
OnePoll   == \A g, h \in Pollers : Running(g) /\ Running(h) => g = h

\* Outside the broadcast step nothing published is waiting to be handed out;
\* in it exactly one snapshot is, the current one.
BroadcastPending ==
    IF \E g \in Pollers : pc[g] = "broadcast"
    THEN broadcasted + 1 = seq /\ \A g \in Pollers : pc[g] = "broadcast" => candidate[g] = lastSnapshot
    ELSE broadcasted = seq

CurrentIsSeq ==
    /\ lastSnapshot.seq = seq
    /\ lastCompareBytes = mustMarshalStripped(lastSnapshot)

\* What the last-good maps hold while no goroutine is between building and
\* publishing is what the last good snapshot published showed.
RetainedIsShown ==
    (\A g \in Pollers : pc[g] # "publish") => lastGoodLaneData = shownGood

\* A candidate about to be published carries what the last-good maps hold.
CandidateIsRetained ==
    \A g \in Pollers : pc[g] = "publish" =>
        /\ candidate[g].data = lastGoodLaneData
        /\ candidate[g].freshness.kind = "failed" => lastGoodLaneData = shownGood

\* The current snapshot shows the last good payload published, failed or not.
ShownIsCurrent == lastSnapshot.data = shownGood

\* The polls are serialised by the in-flight guard (poll.go TryBeginPoll,
\* skip-not-queue), the current snapshot carries the server's seq and the bytes
\* it is compared by, and what it shows and what is retained for a failed scan
\* agree.  This is the inductive invariant of the proofs.
PollInv ==
    /\ GuardHeld
    /\ OnePoll
    /\ BroadcastPending
    /\ CurrentIsSeq
    /\ RetainedIsShown
    /\ CandidateIsRetained
    /\ ShownIsCurrent

\* A failed scan never changes what the lanes show: the payload is that of the
\* last good snapshot published, however many polls and outages lie between
\* (design section 6 row 1, "Lane failed, coded reason, lastGood visibly marked").
FailedKeepsShown ==
    lastSnapshot.freshness.kind = "failed" => lastSnapshot.data = shownGood

\* A record that was ever shown does not go without a word: after every scan that
\* succeeds the current snapshot shows it or names its file as put aside, whatever
\* outages, unreadable files and overlapping ticks lie between; no older view is
\* published over a newer one.  (After a scan that fails FailedKeepsShown holds; the
\* conditions of the scan before it are then not repeated, poll.go:228-234.)
NeverUnshows ==
    lastSnapshot.freshness.kind # "failed" =>
        everShown \subseteq Shown(lastSnapshot) \cup PutAside(lastSnapshot)

\* Subscribers are handed every published snapshot, in seq order.
BroadcastsInOrder == [][broadcasted' # broadcasted => broadcasted' = broadcasted + 1]_vars

\* Time alone does not move seq: only a record shown or put aside, a freshness kind or
\* an age bucket does (mustMarshalStripped).  The exceptions are two: the elapsed
\* time of a subject that is out (issue #27), and a record dated ahead, whose
\* condition names the instant of the scan and so differs at each (store.go:298).  A
\* file that stays unreadable is no such exception.
NoIdleBump ==
    [][seq' # seq /\ Out(Shown(lastSnapshot')) = {} =>
          \/ Shown(lastSnapshot') # Shown(lastSnapshot)
          \/ PutAside(lastSnapshot') # PutAside(lastSnapshot)
          \/ /\ lastSnapshot'.board # lastSnapshot.board
             /\ \E c \in lastSnapshot.board \cup lastSnapshot'.board : c.scanAt # Nil
          \/ lastSnapshot'.freshness.kind # lastSnapshot.freshness.kind
          \/ lastSnapshot'.freshness.ageBucketMs # lastSnapshot.freshness.ageBucketMs]_vars

\* The current snapshot tells the truth about the store at this instant.
Settled ==
    LET age(r) == now - r.at
        live   == Surviving(OnDisk, now)
        f      == lastSnapshot.freshness
    IN  /\ broadcasted = seq
        /\ lastSnapshot.data # Nil
        /\ lastSnapshot.data.records = live
        /\ lastSnapshot.board = Quarantined(OnDisk, now)
        /\ f.kind \in {"fresh", "stale"}
        /\ f.kind = "stale" <=> live # {} /\ \A r \in live : age(r) > StalenessMs
        /\ f.kind = "stale" => /\ \A r \in live : f.ageBucketMs <= age(r)
                               /\ \E r \in live : age(r) < f.ageBucketMs + AgeBucketMs
        /\ \A s \in Out(live) : \E r \in live :
               r.subject = s /\ lastSnapshot.data.elapsed[s] = age(r)

\* Once the store can be walked for good and the environment rests, the board comes
\* to show the store as it is, with the freshness it deserves and the files that
\* cannot be read put aside by name.
Converges == <>[]readable => <>[]Settled

\* schema/yard-snapshot.schema.json describes asOf as the most recent SUCCESSFUL
\* store scan; on a failed lane that is what lastGoodAsOf names.
AsOfIsLastSuccess ==
    lastSnapshot.freshness.kind = "failed" => lastSnapshot.asOf = lastSnapshot.freshness.lastGoodAsOf
=============================================================================
