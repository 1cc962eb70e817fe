--------------------------- MODULE YardPollProofs ---------------------------
(***************************************************************************)
(* Proofs about YardPoll: type correctness, the inductive invariant that   *)
(* serialises the polls, and what follows from it for a failed lane and    *)
(* for the order of broadcasts.                                            *)
(***************************************************************************)
EXTENDS YardPoll, WellFoundedInduction, TLAPS

\* A nonempty set of instants has a newest one: what computeLiveFreshness finds.
LEMMA NewestIsMax ==
    ASSUME NEW ats, ats \subseteq Time, ats # {}
    PROVE  Newest(ats) \in ats /\ \A u \in ats : u <= Newest(ats)
<1> DEFINE gap == {MaxTime - t : t \in ats}
<1>0. MaxTime \in Nat
  BY PollAssumption DEF PollAssumption
<1>1. gap \subseteq Nat
  BY <1>0 DEF Time
<1>2. gap # {}
  OBVIOUS
<1>3. PICK m \in gap : \A y \in gap : ~ (<<y, m>> \in OpToRel(<, Nat))
  <2> HIDE DEF gap
  <2> QED BY <1>1, <1>2, NatLessThanWellFounded, WFMin
<1>4. PICK t \in ats : m = MaxTime - t
  OBVIOUS
<1>5. \A u \in ats : u <= t
  <2>1. TAKE u \in ats
  <2>2. MaxTime - u \in gap /\ MaxTime - u \in Nat /\ m \in Nat
    BY <1>1
  <2>3. ~ (MaxTime - u < m)
    BY <1>3, <2>2 DEF OpToRel
  <2>4. QED
    BY <2>3, <1>0, <1>4 DEF Time
<1>6. QED
  BY <1>4, <1>5 DEF Newest

-----------------------------------------------------------------------------
(* The pieces of a snapshot are well typed.                                *)

LEMMA TimeInNat == Time \subseteq Nat
  BY PollAssumption DEF PollAssumption, Time

\* Lane data computed from records is a payload.
LEMMA LaneDataType ==
    ASSUME NEW recs \in SUBSET Record, NEW t \in Nat
    PROVE  LaneData(recs, t) \in LaneDatas
<1>1. ASSUME NEW s \in Out(recs)
      PROVE  Newest(AtsOf(recs, s)) \in Nat
  <2>1. AtsOf(recs, s) \subseteq Time /\ AtsOf(recs, s) # {}
    BY DEF AtsOf, Out, Record
  <2>2. QED
    BY <2>1, NewestIsMax, TimeInNat
<1>2. QED
  BY <1>1 DEF LaneData, LaneDatas

\* computeLiveFreshness returns one of the freshness variants.
LEMMA LiveFreshnessType ==
    ASSUME NEW recs \in SUBSET Record, NEW t \in Nat
    PROVE  computeLiveFreshness(recs, t) \in Freshnesses
<1> DEFINE age == t - Newest({r.at : r \in recs})
<1>1. CASE recs = {}
  BY <1>1 DEF computeLiveFreshness, Freshnesses
<1>2. CASE recs # {}
  <2>1. {r.at : r \in recs} \subseteq Time /\ {r.at : r \in recs} # {}
    BY <1>2 DEF Record
  <2>2. age \in Int
    BY <2>1, NewestIsMax, TimeInNat
  <2>3. (age \div AgeBucketMs) * AgeBucketMs \in Int
    <3> HIDE DEF age
    <3> QED BY <2>2, PollAssumption DEF PollAssumption
  <2>4. QED
    BY <2>3 DEF computeLiveFreshness, Freshnesses
<1>3. QED
  BY <1>1, <1>2

LEMMA SurvivingType ==
    ASSUME NEW found \in Scans, NEW t \in Nat
    PROVE  /\ Surviving(found, t) \in SUBSET Record
           /\ Quarantined(found, t) \in SUBSET Conditions
<1>1. found.files \in SUBSET Record
  BY DEF Scans
<1>2. QED
  BY <1>1 DEF Surviving, Quarantined, Conditions

LEMMA GoodSnapshotType ==
    ASSUME NEW found \in Scans, NEW t \in Nat
    PROVE  GoodSnapshot(found, t) \in Snapshots
  BY SurvivingType, LaneDataType, LiveFreshnessType DEF GoodSnapshot, Snapshots

LEMMA StrippedType ==
    ASSUME NEW snap \in Snapshots
    PROVE  mustMarshalStripped(snap) \in Snapshots
  BY DEF mustMarshalStripped, Snapshots, Freshnesses

\* Two snapshots that compare equal show the same payload.
LEMMA StrippedKeepsData ==
    ASSUME NEW a \in Snapshots, NEW b \in Snapshots,
           mustMarshalStripped(a) = mustMarshalStripped(b)
    PROVE  a.data = b.data
<1>1. mustMarshalStripped(a).data = a.data /\ mustMarshalStripped(b).data = b.data
  BY Zenon DEF mustMarshalStripped, Snapshots
<1>2. QED
  BY <1>1

\* Assigning seq and asOf leaves a snapshot a snapshot, and its payload alone.
LEMMA NumberedType ==
    ASSUME NEW snap \in Snapshots, NEW n \in Nat, NEW t \in Nat
    PROVE  /\ Numbered(snap, n, t) \in Snapshots
           /\ Numbered(snap, n, t).data \in LaneDatas \cup {Nil}
  BY DEF Numbered, Snapshots

LEMMA ShownType ==
    ASSUME NEW snap \in Snapshots
    PROVE  Shown(snap) \in SUBSET Record
  BY DEF Shown, Snapshots, LaneDatas

LEMMA InitialSnapshotType == InitialSnapshot \in Snapshots
  BY DEF InitialSnapshot, NeverPolled, Snapshots, Freshnesses

-----------------------------------------------------------------------------
(* Type correctness.                                                       *)

LEMMA InitTypeOK == Init => TypeOK
<1> SUFFICES ASSUME Init PROVE TypeOK
  OBVIOUS
<1>1. mustMarshalStripped(InitialSnapshot) \in Snapshots
  BY InitialSnapshotType, StrippedType
<1>2. QED
  BY <1>1, InitialSnapshotType DEF Init, TypeOK

LEMMA NextTypeOK == TypeOK /\ [Next]_vars => TypeOK'
<1> SUFFICES ASSUME TypeOK, [Next]_vars PROVE TypeOK'
  OBVIOUS
<1> USE DEF TypeOK, envVars, pollVars, goodVars, pubVars
<1>1. CASE Tick
  BY <1>1 DEF Tick
<1>2. CASE Produce
  BY <1>2 DEF Produce
<1>3. CASE StoreLost \/ StoreBack \/ FileLost \/ FileBack
  <2>1. readable' \in BOOLEAN
    BY <1>3, Zenon DEF StoreLost, StoreBack, FileLost, FileBack
  <2>2. outages' \in Nat /\ faults' \in Nat /\ unread' \in SUBSET store
    BY <1>3 DEF StoreLost, StoreBack, FileLost, FileBack
  <2>3. UNCHANGED <<now, store, pollVars, goodVars, pubVars, pollInFlight, broadcasted>>
    BY <1>3 DEF StoreLost, StoreBack, FileLost, FileBack
  <2>4. QED
    BY <2>1, <2>2, <2>3
<1>4. ASSUME NEW g \in Pollers, StartPoll(g) PROVE TypeOK'
  BY <1>4 DEF StartPoll, TryBeginPoll
<1>5. ASSUME NEW g \in Pollers, Scan(g) PROVE TypeOK'
  <2>1. OnDisk \in Scans
    BY DEF OnDisk, Scans
  <2>2. QED
    BY <1>5, <2>1 DEF Scan
<1>6. ASSUME NEW g \in Pollers, BuildGood(g) PROVE TypeOK'
  <2>1. scan[g] \in Scans /\ pollNow[g] \in Nat
    BY <1>6 DEF BuildGood
  <2>2. GoodSnapshot(scan[g], pollNow[g]) \in Snapshots
    BY <2>1, GoodSnapshotType
  <2>3. LaneData(Surviving(scan[g], pollNow[g]), pollNow[g]) \in LaneDatas
    BY <2>1, SurvivingType, LaneDataType
  <2>4. QED
    BY <1>6, <2>1, <2>2, <2>3 DEF BuildGood
<1>7. ASSUME NEW g \in Pollers, BuildFailed(g) PROVE TypeOK'
  <2>1. FailedSnapshot \in Snapshots
    BY DEF FailedSnapshot, FailedFreshness, RetainedData, Snapshots, Freshnesses
  <2>2. QED
    BY <1>7, <2>1 DEF BuildFailed
<1>8. ASSUME NEW g \in Pollers, PublishSame(g) PROVE TypeOK'
  BY <1>8 DEF PublishSame
<1>9. ASSUME NEW g \in Pollers, PublishChanged(g) PROVE TypeOK'
  <2> DEFINE published == Numbered(candidate[g], seq + 1, pollNow[g])
  <2>1. published \in Snapshots /\ published.data \in LaneDatas \cup {Nil}
    <3>1. candidate[g] \in Snapshots /\ seq + 1 \in Nat /\ pollNow[g] \in Nat
      OBVIOUS
    <3>2. QED
      BY <3>1, NumberedType
  <2>2. mustMarshalStripped(published) \in Snapshots
    BY <2>1, StrippedType
  <2>3. /\ candidate' = [candidate EXCEPT ![g] = published]
        /\ lastSnapshot' = published
        /\ lastCompareBytes' = mustMarshalStripped(published)
        /\ shownGood' = IF published.freshness.kind = "failed" THEN shownGood ELSE published.data
        /\ everShown' = everShown \cup Shown(published)
        /\ pc' = [pc EXCEPT ![g] = "broadcast"] /\ seq' = seq + 1 /\ lastPollAt' = pollNow[g]
        /\ UNCHANGED <<envVars, pollNow, scan, goodVars, pollInFlight, broadcasted>>
    BY <1>9 DEF PublishChanged
  <2>4. Shown(published) \in SUBSET Record
    BY <2>1, ShownType
  <2> HIDE DEF published
  <2>5. QED
    BY <2>1, <2>2, <2>3, <2>4
<1>10. ASSUME NEW g \in Pollers, Broadcast(g) PROVE TypeOK'
  BY <1>10 DEF Broadcast, Snapshots
<1>11. ASSUME NEW g \in Pollers, Finish(g) PROVE TypeOK'
  BY <1>11, InitialSnapshotType DEF Finish, EndPoll
<1>12. CASE UNCHANGED vars
  BY <1>12 DEF vars
<1>13. QED
  BY <1>1, <1>2, <1>3, <1>4, <1>5, <1>6, <1>7, <1>8, <1>9, <1>10, <1>11, <1>12
     DEF Next, Environment, Poll

\* Every variable of the poll side keeps its type, whatever the clock, the
\* producers and the disk do.
THEOREM PollTypeCorrect == Spec => []TypeOK
  BY InitTypeOK, NextTypeOK, PTL DEF Spec

-----------------------------------------------------------------------------
(* The inductive invariant: the guard serialises the polls, so what one     *)
(* goroutine builds, publishes and hands out no other can get in between.  *)

LEMMA InitPollInv == Init => PollInv
  BY DEF Init, PollInv, GuardHeld, OnePoll, Running, BroadcastPending, CurrentIsSeq,
         RetainedIsShown, CandidateIsRetained, ShownIsCurrent, InitialSnapshot

\* While one goroutine is past the guard, every other is idle.
LEMMA OthersIdle ==
    ASSUME TypeOK, PollInv, NEW g \in Pollers, pc[g] # "idle"
    PROVE  pollInFlight /\ \A h \in Pollers \ {g} : pc[h] = "idle"
  BY DEF PollInv, GuardHeld, OnePoll, Running

LEMMA NextPollInv == TypeOK /\ PollInv /\ [Next]_vars => PollInv'
<1> SUFFICES ASSUME TypeOK, PollInv, [Next]_vars PROVE PollInv'
  OBVIOUS
<1> USE DEF envVars, pollVars, goodVars, pubVars
<1>0. pc \in [Pollers -> {"idle", "scan", "build", "publish", "broadcast", "end"}]
  BY DEF TypeOK
<1>1. CASE Environment \/ UNCHANGED vars
  <2>1. UNCHANGED <<pollVars, goodVars, pubVars, pollInFlight, broadcasted>>
    BY <1>1 DEF Environment, Tick, Produce, StoreLost, StoreBack, FileLost, FileBack, vars
  <2>2. QED
    BY <2>1 DEF PollInv, GuardHeld, OnePoll, Running, BroadcastPending, CurrentIsSeq,
                RetainedIsShown, CandidateIsRetained, ShownIsCurrent
<1>2. ASSUME NEW g \in Pollers, StartPoll(g) PROVE PollInv'
  <2>1. \A h \in Pollers : pc[h] = "idle"
    BY <1>2 DEF StartPoll, TryBeginPoll, PollInv, GuardHeld, Running
  <2>2. pc' = [h \in Pollers |-> IF h = g THEN "scan" ELSE "idle"] /\ pollInFlight'
    BY <1>0, <1>2, <2>1 DEF StartPoll, TryBeginPoll
  <2>3. UNCHANGED <<candidate, goodVars, pubVars, broadcasted>>
    BY <1>2 DEF StartPoll
  <2>4. QED
    BY <2>1, <2>2, <2>3
       DEF PollInv, GuardHeld, OnePoll, Running, BroadcastPending, CurrentIsSeq,
           RetainedIsShown, CandidateIsRetained, ShownIsCurrent
<1>3. ASSUME NEW g \in Pollers, Scan(g) PROVE PollInv'
  <2>1. pollInFlight /\ \A h \in Pollers \ {g} : pc[h] = "idle"
    BY <1>3, OthersIdle DEF Scan
  <2>2. pc[g] = "scan" /\ pc' = [h \in Pollers |-> IF h = g THEN "build" ELSE "idle"]
    BY <1>0, <1>3, <2>1 DEF Scan
  <2>3. UNCHANGED <<candidate, goodVars, pubVars, pollInFlight, broadcasted>>
    BY <1>3 DEF Scan
  <2>4. QED
    BY <2>1, <2>2, <2>3
       DEF PollInv, GuardHeld, OnePoll, Running, BroadcastPending, CurrentIsSeq,
           RetainedIsShown, CandidateIsRetained, ShownIsCurrent
<1>4. ASSUME NEW g \in Pollers, BuildGood(g) PROVE PollInv'
  <2>1. pollInFlight /\ \A h \in Pollers \ {g} : pc[h] = "idle"
    BY <1>4, OthersIdle DEF BuildGood
  <2>2. pc[g] = "build" /\ pc' = [h \in Pollers |-> IF h = g THEN "publish" ELSE "idle"]
    BY <1>0, <1>4, <2>1 DEF BuildGood
  <2>3. UNCHANGED <<pubVars, pollInFlight, broadcasted>>
    BY <1>4 DEF BuildGood
  <2>4. candidate'[g].data = lastGoodLaneData' /\ candidate'[g].freshness.kind # "failed"
    BY <1>4 DEF BuildGood, TypeOK, GoodSnapshot, computeLiveFreshness
  <2>5. QED
    BY <2>1, <2>2, <2>3, <2>4
       DEF PollInv, GuardHeld, OnePoll, Running, BroadcastPending, CurrentIsSeq,
           RetainedIsShown, CandidateIsRetained, ShownIsCurrent
<1>5. ASSUME NEW g \in Pollers, BuildFailed(g) PROVE PollInv'
  <2>1. pollInFlight /\ \A h \in Pollers \ {g} : pc[h] = "idle"
    BY <1>5, OthersIdle DEF BuildFailed
  <2>2. pc[g] = "build" /\ pc' = [h \in Pollers |-> IF h = g THEN "publish" ELSE "idle"]
    BY <1>0, <1>5, <2>1 DEF BuildFailed
  <2>3. UNCHANGED <<goodVars, pubVars, pollInFlight, broadcasted>>
    BY <1>5 DEF BuildFailed
  <2>4. candidate'[g].data = lastGoodLaneData
    BY <1>5 DEF BuildFailed, TypeOK, FailedSnapshot, RetainedData
  <2>5. lastGoodLaneData = shownGood
    BY <2>1, <2>2 DEF PollInv, RetainedIsShown
  <2>6. QED
    BY <2>1, <2>2, <2>3, <2>4, <2>5
       DEF PollInv, GuardHeld, OnePoll, Running, BroadcastPending, CurrentIsSeq,
           RetainedIsShown, CandidateIsRetained, ShownIsCurrent
<1>6. ASSUME NEW g \in Pollers, PublishSame(g) PROVE PollInv'
  <2>1. pollInFlight /\ \A h \in Pollers \ {g} : pc[h] = "idle"
    BY <1>6, OthersIdle DEF PublishSame
  <2>2. pc[g] = "publish" /\ pc' = [h \in Pollers |-> IF h = g THEN "end" ELSE "idle"]
    BY <1>0, <1>6, <2>1 DEF PublishSame
  <2>3. UNCHANGED <<candidate, goodVars, seq, lastSnapshot, lastCompareBytes, shownGood,
                    pollInFlight, broadcasted>>
    BY <1>6 DEF PublishSame
  <2>4. candidate[g].data = lastSnapshot.data
    <3>1. mustMarshalStripped(candidate[g]) = mustMarshalStripped(lastSnapshot)
      BY <1>6 DEF PublishSame, PollInv, CurrentIsSeq
    <3>2. candidate[g] \in Snapshots /\ lastSnapshot \in Snapshots
      BY DEF TypeOK
    <3>3. QED
      BY <3>1, <3>2, StrippedKeepsData
  <2>5. lastGoodLaneData = shownGood
    BY <2>2, <2>4 DEF PollInv, CandidateIsRetained, ShownIsCurrent
  <2>6. QED
    BY <2>1, <2>2, <2>3, <2>5
       DEF PollInv, GuardHeld, OnePoll, Running, BroadcastPending, CurrentIsSeq,
           RetainedIsShown, CandidateIsRetained, ShownIsCurrent
<1>7. ASSUME NEW g \in Pollers, PublishChanged(g) PROVE PollInv'
  <2>1. pollInFlight /\ \A h \in Pollers \ {g} : pc[h] = "idle"
    BY <1>7, OthersIdle DEF PublishChanged
  <2>2. pc[g] = "publish" /\ pc' = [h \in Pollers |-> IF h = g THEN "broadcast" ELSE "idle"]
    BY <1>0, <1>7, <2>1 DEF PublishChanged
  <2>3. /\ lastSnapshot' = Numbered(candidate[g], seq + 1, pollNow[g])
        /\ candidate'[g] = lastSnapshot' /\ seq' = seq + 1
        /\ lastCompareBytes' = mustMarshalStripped(lastSnapshot')
        /\ shownGood' = IF lastSnapshot'.freshness.kind = "failed" THEN shownGood ELSE lastSnapshot'.data
        /\ UNCHANGED <<goodVars, pollInFlight, broadcasted>>
    BY <1>7 DEF PublishChanged, TypeOK
  <2>4. /\ lastSnapshot'.seq = seq' /\ lastSnapshot'.data = candidate[g].data
        /\ lastSnapshot'.freshness = candidate[g].freshness
    BY <2>3 DEF Numbered
  <2>5. lastSnapshot'.data = shownGood' /\ lastGoodLaneData' = shownGood'
    BY <2>2, <2>3, <2>4 DEF PollInv, CandidateIsRetained
  <2>6. broadcasted' + 1 = seq'
    BY <2>1, <2>2, <2>3 DEF PollInv, BroadcastPending
  <2>7. QED
    BY <2>1, <2>2, <2>3, <2>4, <2>5, <2>6
       DEF PollInv, GuardHeld, OnePoll, Running, BroadcastPending, CurrentIsSeq,
           RetainedIsShown, CandidateIsRetained, ShownIsCurrent
<1>8. ASSUME NEW g \in Pollers, Broadcast(g) PROVE PollInv'
  <2>1. pollInFlight /\ \A h \in Pollers \ {g} : pc[h] = "idle"
    BY <1>8, OthersIdle DEF Broadcast
  <2>2. pc[g] = "broadcast" /\ pc' = [h \in Pollers |-> IF h = g THEN "end" ELSE "idle"]
    BY <1>0, <1>8, <2>1 DEF Broadcast
  <2>3. broadcasted' = seq /\ UNCHANGED <<candidate, goodVars, pubVars, pollInFlight>>
    BY <1>8, <2>2 DEF Broadcast, PollInv, BroadcastPending, CurrentIsSeq
  <2>4. QED
    BY <2>1, <2>2, <2>3
       DEF PollInv, GuardHeld, OnePoll, Running, BroadcastPending, CurrentIsSeq,
           RetainedIsShown, CandidateIsRetained, ShownIsCurrent
<1>9. ASSUME NEW g \in Pollers, Finish(g) PROVE PollInv'
  <2>1. pollInFlight /\ \A h \in Pollers \ {g} : pc[h] = "idle"
    BY <1>9, OthersIdle DEF Finish
  <2>2. pc[g] = "end" /\ pc' = [h \in Pollers |-> "idle"] /\ ~pollInFlight'
    BY <1>0, <1>9, <2>1 DEF Finish, EndPoll
  <2>3. UNCHANGED <<goodVars, pubVars, broadcasted>>
    BY <1>9 DEF Finish
  <2>4. QED
    BY <2>1, <2>2, <2>3
       DEF PollInv, GuardHeld, OnePoll, Running, BroadcastPending, CurrentIsSeq,
           RetainedIsShown, CandidateIsRetained, ShownIsCurrent
<1>10. QED
  BY <1>1, <1>2, <1>3, <1>4, <1>5, <1>6, <1>7, <1>8, <1>9 DEF Next, Poll

\* The in-flight guard serialises the polls, for any number of goroutines.
THEOREM PollsSerialised == Spec => []PollInv
  BY InitTypeOK, NextTypeOK, InitPollInv, NextPollInv, PTL DEF Spec

\* A lane whose scan failed keeps showing the last good payload published.
THEOREM FailedLaneKeepsShown == Spec => []FailedKeepsShown
<1>1. PollInv => FailedKeepsShown
  BY DEF PollInv, ShownIsCurrent, FailedKeepsShown
<1>2. QED
  BY <1>1, PollsSerialised, PTL

\* Every published snapshot is handed to the subscribers, in seq order.
THEOREM BroadcastOrder == Spec => BroadcastsInOrder
<1>1. PollInv /\ TypeOK /\ [Next]_vars =>
          [broadcasted' # broadcasted => broadcasted' = broadcasted + 1]_vars
  <2> SUFFICES ASSUME PollInv, TypeOK, Next, broadcasted' # broadcasted
               PROVE  broadcasted' = broadcasted + 1
    OBVIOUS
  <2>1. PICK g \in Pollers : Broadcast(g)
    BY DEF Next, Environment, Tick, Produce, StoreLost, StoreBack, FileLost, FileBack, Poll, StartPoll, Scan,
           BuildGood, BuildFailed, PublishSame, PublishChanged, Finish
  <2>2. QED
    BY <2>1 DEF Broadcast, PollInv, BroadcastPending, CurrentIsSeq
<1>2. QED
  BY <1>1, PollTypeCorrect, PollsSerialised, PTL DEF Spec, BroadcastsInOrder

-----------------------------------------------------------------------------
(* What was shown is found again, and seq moves only for a reason.  A later *)
(* scan finds the files an earlier one found, read or not: files are not   *)
(* deleted, and the guard puts the polls one after the other.              *)

Recs(data) == IF data = Nil THEN {} ELSE data.records

\* The records a snapshot accounts for: shown, or named as put aside.
Accounted(snap) == Shown(snap) \cup PutAside(snap)

\* What was ever shown is on disk; a scan that succeeded has found it, read or not,
\* and the snapshot made of that scan accounts for it.
ShownIsFound ==
    /\ everShown \subseteq store /\ Recs(lastGoodLaneData) \subseteq store
    /\ \A g \in Pollers : pc[g] = "build" /\ scan[g] # Nil =>
           everShown \subseteq scan[g].files /\ scan[g].files \subseteq store
    /\ \A g \in Pollers : pc[g] = "publish" /\ candidate[g].freshness.kind # "failed" =>
           everShown \subseteq Accounted(candidate[g])
    /\ NeverUnshows

\* A payload tells the elapsed time of the subjects that are out, and of no other.
OnlyOutTimed(data) ==
    data # Nil => \A s \in Subjects : s \notin Out(data.records) => data.elapsed[s] = Nil

\* Fresh and stale are said of a payload, and of one that was scanned.
KindFits ==
    /\ OnlyOutTimed(lastGoodLaneData) /\ OnlyOutTimed(shownGood)
    /\ \A g \in Pollers : pc[g] = "publish" =>
           \/ candidate[g].freshness.kind = "failed"
           \/ candidate[g].freshness.kind \in {"fresh", "stale"} /\ candidate[g].data # Nil
    /\ lastSnapshot.freshness.kind \in {"fresh", "stale"} => lastSnapshot.data # Nil

ViewInv == ShownIsFound /\ KindFits

LEMMA InitViewInv == Init => ViewInv
  BY DEF Init, ViewInv, ShownIsFound, NeverUnshows, KindFits, Recs, OnlyOutTimed, InitialSnapshot, NeverPolled

\* The payload of a scan: the records that survive, timed only if they are out.
LEMMA LaneDataIs ==
    ASSUME NEW recs \in SUBSET Record, NEW t \in Nat
    PROVE  /\ LaneData(recs, t) # Nil /\ Recs(LaneData(recs, t)) = recs
           /\ OnlyOutTimed(LaneData(recs, t))
<1>1. LaneData(recs, t) # Nil
  BY LaneDataType, LaneAssumption DEF LaneAssumption
<1>2. LaneData(recs, t).records = recs
  BY DEF LaneData
<1>3. OnlyOutTimed(LaneData(recs, t))
  BY DEF LaneData, OnlyOutTimed
<1>4. QED
  BY <1>1, <1>2, <1>3 DEF Recs

\* The snapshot of a scan that succeeded accounts for every file the scan found.
LEMMA GoodAccounts ==
    ASSUME NEW found \in Scans, NEW t \in Nat
    PROVE  found.files \subseteq Accounted(GoodSnapshot(found, t))
<1> DEFINE kept == Surviving(found, t)
           snap == GoodSnapshot(found, t)
<1>1. kept \in SUBSET Record
  BY SurvivingType
<1>2. snap.data = LaneData(kept, t) /\ snap.board = Quarantined(found, t)
  BY DEF GoodSnapshot
<1>3. Shown(snap) = kept
  <2>1. Recs(snap.data) = kept
    <3> HIDE DEF kept, snap
    <3> QED BY <1>1, <1>2, LaneDataIs
  <2>2. QED
    BY <2>1 DEF Shown, Recs
<1>4. PutAside(snap) = found.files \ kept
  <2>1. \A c \in Quarantined(found, t) : c.record \in found.files \ kept
    BY DEF Quarantined
  <2>2. ASSUME NEW r \in found.files \ kept
        PROVE  \E c \in Quarantined(found, t) : c.record = r
    <3> DEFINE cond == [record |-> r, scanAt |-> IF r \in found.unread THEN Nil ELSE t]
    <3>1. cond \in Quarantined(found, t)
      BY Zenon DEF Quarantined
    <3>2. cond.record = r
      OBVIOUS
    <3> HIDE DEF cond
    <3>3. QED
      BY <3>1, <3>2
  <2>3. PutAside(snap) = {c.record : c \in Quarantined(found, t)}
    BY <1>2 DEF PutAside
  <2> HIDE DEF kept, snap
  <2>4. QED
    BY <2>1, <2>2, <2>3
<1>5. QED
  BY <1>3, <1>4 DEF Accounted

\* Every step of a poll but the four below moves nothing that is compared here.
LEMMA QuietPollStep ==
    ASSUME TypeOK, ViewInv, NEW g \in Pollers,
           Broadcast(g) \/ Finish(g) \/ PublishSame(g) \/ StartPoll(g)
    PROVE  /\ UNCHANGED <<store, lastGoodLaneData, lastSnapshot, shownGood, everShown>>
           /\ \A h \in Pollers : pc'[h] \in {"build", "publish"} =>
                  pc'[h] = pc[h] /\ candidate'[h] = candidate[h] /\ scan'[h] = scan[h]
<1>1. UNCHANGED <<store, lastGoodLaneData, lastSnapshot, shownGood, everShown>>
  BY DEF Broadcast, Finish, PublishSame, StartPoll, envVars, pubVars, goodVars
<1>2. PICK to \in {"end", "idle", "scan"} : pc' = [pc EXCEPT ![g] = to]
  BY DEF Broadcast, Finish, PublishSame, StartPoll
<1>3. \A h \in Pollers : pc'[h] = IF h = g THEN to ELSE pc[h]
  BY <1>2 DEF TypeOK
<1>4. \A h \in Pollers \ {g} : scan'[h] = scan[h] /\ candidate'[h] = candidate[h]
  BY DEF Broadcast, Finish, PublishSame, StartPoll, TypeOK
<1>5. QED
  BY <1>1, <1>3, <1>4

LEMMA NextViewInv ==
    ASSUME TypeOK, PollInv, ViewInv, [Next]_vars
    PROVE  ViewInv'
<1> USE DEF ViewInv
<1>1. CASE Environment \/ UNCHANGED vars
  <2>1. UNCHANGED <<pollVars, goodVars, pubVars>> /\ store \subseteq store'
    BY <1>1 DEF Environment, Tick, Produce, StoreLost, StoreBack, FileLost, FileBack, vars, envVars
  <2>2. UNCHANGED <<pc, scan, candidate, lastGoodLaneData, lastSnapshot, shownGood, everShown>>
    BY <2>1 DEF pollVars, goodVars, pubVars
  <2>3. ShownIsFound'
    BY <2>1, <2>2 DEF ShownIsFound, NeverUnshows
  <2>4. KindFits'
    BY <2>2 DEF KindFits
  <2>5. QED
    BY <2>3, <2>4
<1>2. ASSUME NEW g \in Pollers, Broadcast(g) \/ Finish(g) \/ PublishSame(g) \/ StartPoll(g)
      PROVE  ViewInv'
  <2>1. /\ UNCHANGED <<store, lastGoodLaneData, lastSnapshot, shownGood, everShown>>
        /\ \A h \in Pollers : pc'[h] \in {"build", "publish"} =>
               pc'[h] = pc[h] /\ candidate'[h] = candidate[h] /\ scan'[h] = scan[h]
    BY <1>2, QuietPollStep
  <2>2. ShownIsFound'
    BY <2>1 DEF ShownIsFound, NeverUnshows
  <2>3. KindFits'
    BY <2>1 DEF KindFits
  <2>4. QED
    BY <2>2, <2>3
<1>3. ASSUME NEW g \in Pollers, Scan(g) PROVE ViewInv'
  <2>1. /\ UNCHANGED <<store, candidate, lastGoodLaneData, lastSnapshot, shownGood, everShown>>
        /\ \A h \in Pollers : pc'[h] = IF h = g THEN "build" ELSE pc[h]
        /\ \A h \in Pollers : scan'[h] = IF h = g THEN (IF readable THEN OnDisk ELSE Nil) ELSE scan[h]
    BY <1>3 DEF Scan, TypeOK, envVars, goodVars, pubVars
  <2>2. OnDisk.files = store
    BY DEF OnDisk
  <2>3. ShownIsFound'
    BY <2>1, <2>2 DEF ShownIsFound, NeverUnshows
  <2>4. KindFits'
    BY <2>1 DEF KindFits
  <2>5. QED
    BY <2>3, <2>4
<1>4. ASSUME NEW g \in Pollers, BuildGood(g) PROVE ViewInv'
  <2> DEFINE kept == Surviving(scan[g], pollNow[g])
             data == LaneData(kept, pollNow[g])
  <2>1. /\ pc[g] = "build" /\ scan[g] # Nil /\ scan[g] \in Scans /\ pollNow[g] \in Nat
        /\ \A h \in Pollers \ {g} : pc[h] = "idle"
    BY <1>4, OthersIdle DEF BuildGood, TypeOK
  <2>2. /\ UNCHANGED <<store, scan, lastSnapshot, shownGood, everShown>>
        /\ lastGoodLaneData' = data
        /\ \A h \in Pollers : pc'[h] = IF h = g THEN "publish" ELSE "idle"
        /\ candidate'[g] = GoodSnapshot(scan[g], pollNow[g])
    BY <1>4, <2>1 DEF BuildGood, TypeOK, envVars, pubVars
  <2>3. kept \in SUBSET Record /\ kept \subseteq scan[g].files
    BY <2>1, SurvivingType DEF Surviving
  <2>4. Recs(data) = kept /\ OnlyOutTimed(data) /\ data # Nil
    BY <2>1, <2>3, LaneDataIs
  <2>5. everShown \subseteq scan[g].files /\ scan[g].files \subseteq store
    BY <2>1 DEF ShownIsFound
  <2>6. /\ candidate'[g].freshness.kind \in {"fresh", "stale"} /\ candidate'[g].data = data
    BY <2>2 DEF GoodSnapshot, computeLiveFreshness
  <2>7. scan[g].files \subseteq Accounted(candidate'[g])
    BY <2>1, <2>2, GoodAccounts
  <2> HIDE DEF data, kept
  <2>8. ShownIsFound'
    BY <2>2, <2>3, <2>4, <2>5, <2>7 DEF ShownIsFound, NeverUnshows
  <2>9. KindFits'
    BY <2>2, <2>4, <2>6 DEF KindFits
  <2>10. QED
    BY <2>8, <2>9
<1>5. ASSUME NEW g \in Pollers, BuildFailed(g) PROVE ViewInv'
  <2>1. /\ pc[g] = "build" /\ UNCHANGED <<store, scan, lastGoodLaneData, lastSnapshot, shownGood, everShown>>
        /\ \A h \in Pollers : pc'[h] = IF h = g THEN "publish" ELSE pc[h]
        /\ \A h \in Pollers : candidate'[h] = IF h = g THEN FailedSnapshot ELSE candidate[h]
    BY <1>5 DEF BuildFailed, TypeOK, envVars, goodVars, pubVars
  <2>2. FailedSnapshot.freshness.kind = "failed"
    BY DEF FailedSnapshot, FailedFreshness
  <2>3. ShownIsFound'
    BY <2>1, <2>2 DEF ShownIsFound, NeverUnshows
  <2>4. KindFits'
    BY <2>1, <2>2 DEF KindFits
  <2>5. QED
    BY <2>3, <2>4
<1>6. ASSUME NEW g \in Pollers, PublishChanged(g) PROVE ViewInv'
  <2>1. /\ pc[g] = "publish" /\ UNCHANGED <<store, scan, lastGoodLaneData>>
        /\ \A h \in Pollers : pc'[h] = IF h = g THEN "broadcast" ELSE pc[h]
        /\ \A h \in Pollers \ {g} : candidate'[h] = candidate[h] /\ pc[h] = "idle"
        /\ lastSnapshot' = Numbered(candidate[g], seq + 1, pollNow[g])
        /\ everShown' = everShown \cup Shown(lastSnapshot')
        /\ shownGood' \in {shownGood, lastSnapshot'.data}
    BY <1>6, OthersIdle DEF PublishChanged, TypeOK, envVars, goodVars
  <2>2. /\ lastSnapshot'.data = candidate[g].data /\ lastSnapshot'.freshness = candidate[g].freshness
        /\ lastSnapshot'.board = candidate[g].board
    BY <2>1 DEF Numbered
  <2>3. candidate[g].data = lastGoodLaneData
    BY <2>1 DEF PollInv, CandidateIsRetained
  <2>4. Shown(lastSnapshot') = Recs(lastGoodLaneData) /\ Accounted(lastSnapshot') = Accounted(candidate[g])
    BY <2>2, <2>3 DEF Shown, Recs, Accounted, PutAside
  <2>5. ShownIsFound'
    <3>1. everShown' \subseteq store /\ Recs(lastGoodLaneData) \subseteq store
      BY <2>1, <2>4 DEF ShownIsFound
    <3>2. NeverUnshows'
      <4> SUFFICES ASSUME lastSnapshot'.freshness.kind # "failed"
                   PROVE  everShown' \subseteq Accounted(lastSnapshot')
        BY DEF NeverUnshows, Accounted
      <4>1. everShown \subseteq Accounted(lastSnapshot')
        BY <2>1, <2>2, <2>4 DEF ShownIsFound
      <4>2. Shown(lastSnapshot') \subseteq Accounted(lastSnapshot')
        BY DEF Accounted
      <4>3. QED
        BY <2>1, <4>1, <4>2
    <3>3. QED
      BY <2>1, <3>1, <3>2 DEF ShownIsFound
  <2>6. KindFits'
    <3>1. OnlyOutTimed(lastGoodLaneData)' /\ OnlyOutTimed(shownGood)'
      BY <2>1, <2>2, <2>3 DEF KindFits, OnlyOutTimed
    <3>2. lastSnapshot'.freshness.kind \in {"fresh", "stale"} => lastSnapshot'.data # Nil
      BY <2>1, <2>2 DEF KindFits
    <3>3. QED
      BY <2>1, <3>1, <3>2 DEF KindFits
  <2>7. QED
    BY <2>5, <2>6
<1>7. QED
  BY <1>1, <1>2, <1>3, <1>4, <1>5, <1>6, Zenon DEF Next, Poll

LEMMA PollAndView == Spec => [](TypeOK /\ PollInv /\ ViewInv)
  BY InitTypeOK, NextTypeOK, InitPollInv, NextPollInv, InitViewInv, NextViewInv, PTL DEF Spec

\* A snapshot that becomes current is the candidate of the one poll there is.
LEMMA SnapshotStep ==
    ASSUME TypeOK, [Next]_vars, lastSnapshot' # lastSnapshot \/ seq' # seq
    PROVE  \E g \in Pollers : PublishChanged(g)
<1>1. CASE Environment \/ UNCHANGED vars
  BY <1>1 DEF Environment, Tick, Produce, StoreLost, StoreBack, FileLost, FileBack, vars, pubVars
<1>2. ASSUME NEW g \in Pollers, Poll(g), ~PublishChanged(g) PROVE FALSE
  BY <1>2 DEF Poll, StartPoll, Scan, BuildGood, BuildFailed, PublishSame, Broadcast, Finish, pubVars
<1>3. QED
  BY <1>1, <1>2 DEF Next

\* A record ever shown is shown or named as put aside after every scan that succeeds.
THEOREM ShownIsAccountedFor == Spec => []NeverUnshows
<1>1. ViewInv => NeverUnshows
  BY DEF ViewInv, ShownIsFound
<1>2. QED
  BY <1>1, PollAndView, PTL

\* Two snapshots alike in all this are equal to mustMarshalStripped.
LEMMA StrippedAlike ==
    ASSUME NEW a \in Snapshots, NEW b \in Snapshots, a.board = b.board, a.data = b.data,
           a.freshness.kind = b.freshness.kind, a.freshness.ageBucketMs = b.freshness.ageBucketMs
    PROVE  mustMarshalStripped(a) = mustMarshalStripped(b)
<1>1. ASSUME NEW s \in Snapshots
      PROVE  /\ mustMarshalStripped(s).seq = 0 /\ mustMarshalStripped(s).asOf = Nil
             /\ mustMarshalStripped(s).board = s.board /\ mustMarshalStripped(s).data = s.data
             /\ mustMarshalStripped(s).freshness.asOf = Nil /\ mustMarshalStripped(s).freshness.lastGoodAsOf = Nil
             /\ mustMarshalStripped(s).freshness.kind = s.freshness.kind
             /\ mustMarshalStripped(s).freshness.ageBucketMs = s.freshness.ageBucketMs
  BY DEF mustMarshalStripped, Snapshots, Freshnesses
<1> DEFINE sa == mustMarshalStripped(a)
           sb == mustMarshalStripped(b)
<1>2. /\ sa \in Snapshots /\ sb \in Snapshots
      /\ sa.seq = sb.seq /\ sa.asOf = sb.asOf /\ sa.board = sb.board /\ sa.data = sb.data
      /\ sa.freshness.asOf = sb.freshness.asOf /\ sa.freshness.lastGoodAsOf = sb.freshness.lastGoodAsOf
      /\ sa.freshness.kind = sb.freshness.kind /\ sa.freshness.ageBucketMs = sb.freshness.ageBucketMs
  BY <1>1, StrippedType
<1> HIDE DEF sa, sb
<1>3. sa.freshness = sb.freshness
  BY <1>2 DEF Snapshots, Freshnesses
<1>4. sa = sb
  BY <1>2, <1>3 DEF Snapshots
<1>5. QED
  BY <1>4 DEF sa, sb

\* Payloads of the same records differ in the elapsed time of who is out, or not at all.
LEMMA SameRecordsSameData ==
    ASSUME NEW a \in LaneDatas, NEW b \in LaneDatas, OnlyOutTimed(a), OnlyOutTimed(b),
           a.records = b.records, Out(b.records) = {}
    PROVE  a = b
<1>1. a # Nil /\ b # Nil
  BY LaneAssumption DEF LaneAssumption
<1>2. \A s \in Subjects : a.elapsed[s] = Nil /\ b.elapsed[s] = Nil
  BY <1>1 DEF OnlyOutTimed
<1>3. a.elapsed \in [Subjects -> Int \cup {Nil}] /\ b.elapsed \in [Subjects -> Int \cup {Nil}]
  BY DEF LaneDatas
<1>4. a.elapsed = b.elapsed
  BY <1>2, <1>3
<1>5. QED
  BY <1>4 DEF LaneDatas

\* Boards that name the same files, none of them dated ahead, are the same.
LEMMA SameNamesSameBoard ==
    ASSUME NEW a \in SUBSET Conditions, NEW b \in SUBSET Conditions,
           {x.record : x \in a} = {x.record : x \in b},
           \A x \in a : x.scanAt = Nil, \A x \in b : x.scanAt = Nil
    PROVE  a = b
<1>1. \A x \in Conditions, y \in Conditions : x.record = y.record /\ x.scanAt = y.scanAt => x = y
  BY DEF Conditions
<1>2. ASSUME NEW x \in a PROVE x \in b
  <2>1. PICK y \in b : y.record = x.record
    OBVIOUS
  <2>2. QED
    BY <1>1, <2>1
<1>3. ASSUME NEW x \in b PROVE x \in a
  <2>1. PICK y \in a : y.record = x.record
    OBVIOUS
  <2>2. QED
    BY <1>1, <2>1
<1>4. QED
  BY <1>2, <1>3

\* What distinguishes the snapshot that follows, in the words of NoIdleBump.
Differs ==
    \/ Shown(lastSnapshot') # Shown(lastSnapshot)
    \/ PutAside(lastSnapshot') # PutAside(lastSnapshot)
    \/ /\ lastSnapshot'.board # lastSnapshot.board
       /\ \E c \in lastSnapshot.board \cup lastSnapshot'.board : c.scanAt # Nil
    \/ lastSnapshot'.freshness.kind # lastSnapshot.freshness.kind
    \/ lastSnapshot'.freshness.ageBucketMs # lastSnapshot.freshness.ageBucketMs

LEMMA BumpDiffers ==
    ASSUME TypeOK, PollInv, ViewInv, [Next]_vars, seq' # seq, Out(Shown(lastSnapshot')) = {}, ~Differs
    PROVE  FALSE
<1>1. PICK g \in Pollers : PublishChanged(g)
  BY SnapshotStep
<1> DEFINE c == candidate[g]
<1>2. /\ pc[g] = "publish" /\ mustMarshalStripped(c) # mustMarshalStripped(lastSnapshot)
      /\ lastSnapshot'.data = c.data /\ lastSnapshot'.board = c.board /\ lastSnapshot'.freshness = c.freshness
      /\ c \in Snapshots /\ lastSnapshot \in Snapshots
  BY <1>1 DEF PublishChanged, Numbered, PollInv, CurrentIsSeq, TypeOK
<1>3. c.data = lastGoodLaneData /\ lastSnapshot.data = shownGood
  BY <1>2 DEF PollInv, CandidateIsRetained, ShownIsCurrent
<1>4. c.freshness.kind = lastSnapshot.freshness.kind /\ c.freshness.ageBucketMs = lastSnapshot.freshness.ageBucketMs
  BY <1>2 DEF Differs
<1>5. c.board = lastSnapshot.board
  <2>1. CASE \E x \in lastSnapshot.board \cup lastSnapshot'.board : x.scanAt # Nil
    BY <1>2, <2>1, Zenon DEF Differs
  <2>2. CASE ~ \E x \in lastSnapshot.board \cup lastSnapshot'.board : x.scanAt # Nil
    <3>1. {x.record : x \in c.board} = {x.record : x \in lastSnapshot.board}
      BY <1>2 DEF Differs, PutAside
    <3>2. /\ \A x \in c.board : x.scanAt = Nil
          /\ \A x \in lastSnapshot.board : x.scanAt = Nil
      BY <1>2, <2>2
    <3>3. c.board \in SUBSET Conditions /\ lastSnapshot.board \in SUBSET Conditions
      BY <1>2 DEF Snapshots
    <3>4. QED
      BY <3>1, <3>2, <3>3, SameNamesSameBoard
  <2>3. QED
    BY <2>1, <2>2
<1>6. c.data = lastSnapshot.data
  <2>1. CASE c.freshness.kind = "failed"
    BY <1>2, <1>3, <2>1 DEF PollInv, CandidateIsRetained
  <2>2. CASE c.freshness.kind # "failed"
    <3>1. c.data # Nil /\ lastSnapshot.data # Nil
      BY <1>2, <1>4, <2>2 DEF ViewInv, KindFits
    <3>2. c.data \in LaneDatas /\ lastSnapshot.data \in LaneDatas
      BY <1>3, <3>1 DEF TypeOK
    <3>3. c.data.records = lastSnapshot.data.records /\ Out(c.data.records) = {}
      BY <1>2, <3>1 DEF Differs, Shown
    <3>4. OnlyOutTimed(c.data) /\ OnlyOutTimed(lastSnapshot.data)
      BY <1>3 DEF ViewInv, KindFits
    <3>5. QED
      BY <3>2, <3>3, <3>4, SameRecordsSameData
  <2>3. QED
    BY <2>1, <2>2
<1>7. QED
  BY <1>2, <1>4, <1>5, <1>6, StrippedAlike

\* Time alone does not move seq, but for the two exceptions the property names.
THEOREM SeqMovesForAReason == Spec => NoIdleBump
<1>1. TypeOK /\ PollInv /\ ViewInv /\ [Next]_vars =>
          [seq' # seq /\ Out(Shown(lastSnapshot')) = {} => Differs]_vars
  BY BumpDiffers
<1>2. QED
  BY <1>1, PollAndView, PTL DEF Spec, NoIdleBump, Differs
=============================================================================
