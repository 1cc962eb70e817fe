---------------------------- MODULE WatchCIProofs ---------------------------
(***************************************************************************)
(* Proofs about WatchCI, for any timeout, interval and set of conclusions: *)
(* green and red are facts about the run the watcher chose, and what is on *)
(* file is never replaced by what an older run says.                       *)
(***************************************************************************)
EXTENDS WatchCI, TLAPS

RunRecords == [ours : BOOLEAN, made : 0..MaxTime, done : Seq(Conclusions), open : BOOLEAN]

LEMMA ConstantFacts ==
    /\ Timeout \in Nat /\ Interval \in Nat /\ MaxTime \in Nat /\ MaxWatches \in Nat
    /\ MaxRuns \in Nat
    /\ Nil \notin Nat /\ Nil \notin Conclusions /\ Nil \notin {"green", "red", "unobserved"}
    /\ Nil \notin [run : Nat, conclusion : Conclusions]
  BY WatchAssumption DEF WatchAssumption

LEMMA ElementOfSeq ==
    ASSUME NEW X, NEW s \in Seq(X), NEW i \in 1..Len(s)
    PROVE  s[i] \in X
  OBVIOUS

LEMMA AppendKeepsElements ==
    ASSUME NEW X, NEW s \in Seq(X), NEW x \in X
    PROVE  /\ Append(s, x) \in Seq(X) /\ Append(s, x) # <<>>
           /\ Len(Append(s, x)) = Len(s) + 1
           /\ \A i \in DOMAIN s : i \in DOMAIN Append(s, x) /\ Append(s, x)[i] = s[i]
           /\ \A i \in DOMAIN Append(s, x) : i \in DOMAIN s \/ Append(s, x)[i] = x
           /\ ToSet(s) \subseteq ToSet(Append(s, x))
<1>1. /\ Append(s, x) \in Seq(X) /\ Append(s, x) # <<>> /\ Len(Append(s, x)) = Len(s) + 1
      /\ \A i \in DOMAIN s : i \in DOMAIN Append(s, x) /\ Append(s, x)[i] = s[i]
      /\ \A i \in DOMAIN Append(s, x) : i \in DOMAIN s \/ Append(s, x)[i] = x
  OBVIOUS
<1>2. QED
  BY <1>1, Zenon DEF ToSet

LEMMA LastIsElement ==
    ASSUME NEW X, NEW s \in Seq(X), s # <<>>
    PROVE  Last(s) \in X /\ Last(s) \in ToSet(s)
  BY DEF Last, ToSet

-----------------------------------------------------------------------------
(* The inductive invariant.                                                *)

\* The script has chosen a run.
Watching == pc \in {"watch", "final", "record"} \/ (pc = "sleep" /\ back = "watch")

\* The run it watches is one of ours, the most recent there was when it was chosen,
\* and what it is about to record is a conclusion of that run.
ChosenRun ==
    /\ Watching \/ Observed => runId # Nil
    /\ pc = "record" => seen \in ToSet(runs[runId].done)
    /\ runId # Nil => /\ runId <= known /\ runs[runId].ours
                      /\ \A i \in 1..known : runs[i].ours => runs[i].made <= runs[runId].made
    /\ \A i \in DOMAIN runs : ~runs[i].open => runs[i].done # <<>>

\* What is on file is of one of ours that was there when the watched run was chosen.
OnFile ==
    record # Nil => /\ runs[record.run].ours
                    /\ runId # Nil => record.run <= known

WatchInv == TypeOK /\ ChosenRun /\ OnFile /\ Honest

LEMMA RunsAre ==
    ASSUME TypeOK
    PROVE  /\ runs \in Seq(RunRecords) /\ Len(runs) \in Nat /\ DOMAIN runs = 1..Len(runs)
           /\ \A i \in DOMAIN runs : runs[i] \in RunRecords
<1>1. runs \in Seq(RunRecords)
  BY DEF TypeOK, RunRecords
<1>2. ASSUME NEW i \in 1..Len(runs) PROVE runs[i] \in RunRecords
  BY <1>1, ElementOfSeq, Zenon
<1>3. QED
  BY <1>1, <1>2

-----------------------------------------------------------------------------
(* GitHub's runs only grow: a run keeps what it is and what it has said.   *)

Grown ==
    /\ runs' \in Seq(RunRecords)
    /\ Len(runs) <= Len(runs')
    /\ \A i \in DOMAIN runs :
           /\ i \in DOMAIN runs'
           /\ runs'[i].ours = runs[i].ours /\ runs'[i].made = runs[i].made
           /\ ToSet(runs[i].done) \subseteq ToSet(runs'[i].done)
    /\ \A i \in DOMAIN runs' : ~runs'[i].open => runs'[i].done # <<>>

LEMMA RunMadeGrows ==
    ASSUME TypeOK, ChosenRun, NEW ours \in BOOLEAN, RunMade(ours)
    PROVE  Grown
<1> DEFINE r == [ours |-> ours, made |-> now, done |-> <<>>, open |-> TRUE]
<1>1. runs' = Append(runs, r) /\ r \in RunRecords /\ r.open
  BY DEF RunMade, RunRecords, TypeOK
<1>2. \A i \in DOMAIN runs : ~runs[i].open => runs[i].done # <<>>
  BY DEF ChosenRun
<1> HIDE DEF r
<1>3. /\ runs' \in Seq(RunRecords) /\ Len(runs') = Len(runs) + 1
      /\ \A i \in DOMAIN runs : i \in DOMAIN runs' /\ runs'[i] = runs[i]
      /\ \A i \in DOMAIN runs' : i \in DOMAIN runs \/ runs'[i] = r
  BY <1>1, RunsAre, AppendKeepsElements
<1>4. \A i \in DOMAIN runs' : ~runs'[i].open => runs'[i].done # <<>>
  BY <1>1, <1>2, <1>3
<1>5. QED
  BY <1>3, <1>4, RunsAre DEF Grown

LEMMA RunEndsGrows ==
    ASSUME TypeOK, ChosenRun, NEW i \in Nat, NEW c \in Conclusions, RunEnds(i, c)
    PROVE  Grown
<1> DEFINE r == runs'[i]
<1>1. i \in DOMAIN runs /\ runs' = [[runs EXCEPT ![i].done = Append(@, c)] EXCEPT ![i].open = FALSE]
  BY DEF RunEnds
<1>2. runs[i] \in RunRecords
  BY <1>1, RunsAre
<1>3. runs[i].done \in Seq(Conclusions)
  BY <1>2 DEF RunRecords
<1>4. /\ Append(runs[i].done, c) \in Seq(Conclusions) /\ Append(runs[i].done, c) # <<>>
      /\ ToSet(runs[i].done) \subseteq ToSet(Append(runs[i].done, c))
  BY <1>3, AppendKeepsElements
<1>5. /\ runs' = [runs EXCEPT ![i] = r]
      /\ r = [[runs[i] EXCEPT !.done = Append(runs[i].done, c)] EXCEPT !.open = FALSE]
  BY <1>1
<1>6. r \in RunRecords /\ r.ours = runs[i].ours /\ r.made = runs[i].made /\ r.done = Append(runs[i].done, c)
  <2> HIDE DEF r
  <2> QED BY <1>5, <1>2, <1>4 DEF RunRecords
<1>7. ToSet(runs[i].done) \subseteq ToSet(r.done) /\ r.done # <<>>
  BY <1>4, <1>6
<1> HIDE DEF r
<1>8. i \in DOMAIN runs
  BY <1>1
<1>9. runs' \in Seq(RunRecords) /\ Len(runs') = Len(runs) /\ DOMAIN runs' = DOMAIN runs /\ runs'[i] = r
  <2>1. runs' = [runs EXCEPT ![i] = r] /\ r \in RunRecords
    BY <1>5, <1>6
  <2>2. QED
    BY <2>1, <1>8, RunsAre
<1>10. \A j \in DOMAIN runs : j # i => runs'[j] = runs[j]
  BY <1>5
<1>11. \A j \in DOMAIN runs' : ~runs'[j].open => runs'[j].done # <<>>
  BY <1>7, <1>9, <1>10 DEF ChosenRun
<1>12. \A j \in DOMAIN runs : /\ runs'[j].ours = runs[j].ours /\ runs'[j].made = runs[j].made
                              /\ ToSet(runs[j].done) \subseteq ToSet(runs'[j].done)
  BY <1>6, <1>7, <1>9, <1>10
<1>13. Len(runs) <= Len(runs')
  BY <1>9, RunsAre
<1>14. QED
  BY <1>9, <1>11, <1>12, <1>13, Zenon DEF Grown

LEMMA RunAgainGrows ==
    ASSUME TypeOK, ChosenRun, NEW i \in Nat, RunAgain(i)
    PROVE  Grown
<1> DEFINE r == [runs[i] EXCEPT !.open = TRUE]
<1>1. i \in DOMAIN runs /\ runs' = [runs EXCEPT ![i] = r]
  BY DEF RunAgain
<1>2. runs[i] \in RunRecords
  BY <1>1, RunsAre
<1>3. r \in RunRecords /\ r.ours = runs[i].ours /\ r.made = runs[i].made /\ r.done = runs[i].done /\ r.open
  BY <1>2 DEF RunRecords
<1> HIDE DEF r
<1>4. runs' \in Seq(RunRecords) /\ Len(runs') = Len(runs) /\ DOMAIN runs' = DOMAIN runs /\ runs'[i] = r
  BY <1>1, <1>3, RunsAre
<1>5. \A j \in DOMAIN runs : j # i => runs'[j] = runs[j]
  BY <1>1
<1>6. \A j \in DOMAIN runs' : ~runs'[j].open => runs'[j].done # <<>>
  BY <1>3, <1>4, <1>5 DEF ChosenRun
<1>7. \A j \in DOMAIN runs : /\ runs'[j].ours = runs[j].ours /\ runs'[j].made = runs[j].made
                             /\ runs'[j].done = runs[j].done
  BY <1>3, <1>4, <1>5
<1>8. QED
  BY <1>4, <1>6, <1>7, RunsAre DEF Grown

\* A step that is not GitHub's leaves the runs alone.
LEMMA RunsStand ==
    ASSUME TypeOK, ChosenRun, UNCHANGED runs
    PROVE  Grown
<1>1. \A i \in DOMAIN runs : ~runs[i].open => runs[i].done # <<>>
  BY DEF ChosenRun
<1>2. QED
  BY <1>1, RunsAre DEF Grown

ScriptStands == UNCHANGED <<now, pc, back, wake, deadline, runId, seen, record, exit, watches, known>>

LEMMA GitHubGrows ==
    ASSUME TypeOK, ChosenRun, GitHub
    PROVE  Grown /\ pushed' \in BOOLEAN /\ ScriptStands
<1>1. CASE Push
  BY <1>1, RunsStand DEF Push, scriptVars, ScriptStands
<1>2. ASSUME NEW ours \in BOOLEAN, RunMade(ours) PROVE Grown /\ pushed' \in BOOLEAN /\ ScriptStands
  BY <1>2, RunMadeGrows DEF RunMade, scriptVars, ScriptStands, TypeOK
<1>3. ASSUME NEW i \in 1..MaxRuns, RunAgain(i) PROVE Grown /\ pushed' \in BOOLEAN /\ ScriptStands
  <2>1. i \in Nat
    BY ConstantFacts
  <2>2. QED
    BY <1>3, <2>1, RunAgainGrows DEF RunAgain, scriptVars, ScriptStands, TypeOK
<1>4. ASSUME NEW i \in 1..MaxRuns, NEW c \in Conclusions, RunEnds(i, c)
      PROVE  Grown /\ pushed' \in BOOLEAN /\ ScriptStands
  <2>1. i \in Nat
    BY ConstantFacts
  <2>2. QED
    BY <1>4, <2>1, RunEndsGrows DEF RunEnds, scriptVars, ScriptStands, TypeOK
<1>5. QED
  BY <1>1, <1>2, <1>3, <1>4, Zenon DEF GitHub

\* What is said of the runs stays true while they grow and the script stands.
LEMMA GitHubKeeps ==
    ASSUME WatchInv, Grown, pushed' \in BOOLEAN, ScriptStands
    PROVE  WatchInv'
<1> USE DEF WatchInv, ScriptStands
<1>0. /\ runs' \in Seq(RunRecords) /\ Len(runs) <= Len(runs')
      /\ DOMAIN runs = 1..Len(runs) /\ DOMAIN runs' = 1..Len(runs') /\ Len(runs) \in Nat /\ Len(runs') \in Nat
  BY RunsAre DEF Grown
<1>1. TypeOK'
  <2>1. known' \in 0..Len(runs')
    BY <1>0 DEF TypeOK
  <2>2. runId' \in {Nil} \cup DOMAIN runs'
    BY <1>0 DEF TypeOK
  <2>3. record' \in {Nil} \cup [run : DOMAIN runs', conclusion : Conclusions]
    BY <1>0 DEF TypeOK
  <2>4. QED
    BY <1>0, <2>1, <2>2, <2>3 DEF TypeOK, RunRecords
<1>2. \A i \in 1..known : i \in DOMAIN runs /\ runs'[i].ours = runs[i].ours /\ runs'[i].made = runs[i].made
  <2>1. TAKE i \in 1..known
  <2>2. i \in DOMAIN runs
    BY <1>0 DEF TypeOK
  <2>3. QED
    BY <2>2 DEF Grown
<1>3. runId # Nil => /\ runId \in DOMAIN runs
                     /\ runs'[runId].ours = runs[runId].ours /\ runs'[runId].made = runs[runId].made
                     /\ ToSet(runs[runId].done) \subseteq ToSet(runs'[runId].done)
  BY DEF Grown, TypeOK
<1>4. ChosenRun'
  <2>1. (Watching \/ Observed => runId # Nil)'
    BY DEF ChosenRun, Watching, Observed
  <2>2. (pc = "record" => seen \in ToSet(runs[runId].done))'
    BY <1>3 DEF ChosenRun, Watching
  <2>3. (runId # Nil => /\ runId <= known /\ runs[runId].ours
                        /\ \A i \in 1..known : runs[i].ours => runs[i].made <= runs[runId].made)'
    BY <1>2, <1>3 DEF ChosenRun
  <2>4. (\A i \in DOMAIN runs : ~runs[i].open => runs[i].done # <<>>)'
    BY DEF Grown
  <2>5. QED
    BY <2>1, <2>2, <2>3, <2>4 DEF ChosenRun
<1>5. OnFile'
  <2>1. record # Nil => record.run \in DOMAIN runs
    BY DEF TypeOK
  <2>2. QED
    BY <2>1 DEF OnFile, Grown
<1>6. Honest'
  <2>1. Observed => runId # Nil
    BY DEF ChosenRun
  <2>2. QED
    BY <2>1, <1>2, <1>3 DEF Honest, Observed
<1>7. QED
  BY <1>1, <1>4, <1>5, <1>6

-----------------------------------------------------------------------------
(* The script's steps.                                                     *)

LEMMA InitWatchInv ==
    ASSUME Init
    PROVE  WatchInv
<1>1. DOMAIN <<>> = {} /\ Len(<<>>) = 0
  OBVIOUS
<1>2. TypeOK
  <2>1. runs \in Seq([ours : BOOLEAN, made : 0..MaxTime, done : Seq(Conclusions), open : BOOLEAN])
    BY DEF Init
  <2>2. known \in 0..Len(runs)
    BY <1>1 DEF Init
  <2>3. now \in 0..MaxTime /\ watches \in 0..MaxWatches
    BY ConstantFacts DEF Init
  <2>4. QED
    BY <2>1, <2>2, <2>3 DEF Init, TypeOK
<1>3. ChosenRun /\ OnFile /\ Honest
  BY ConstantFacts, <1>1 DEF Init, ChosenRun, OnFile, Honest, Watching, Observed
<1>4. QED
  BY <1>2, <1>3 DEF WatchInv

\* Starting over: nothing is chosen, nothing is said, what is on file stays.
LEMMA ParityKeeps ==
    ASSUME WatchInv, Parity
    PROVE  WatchInv'
<1> USE DEF WatchInv
<1>0. UNCHANGED <<now, pushed, runs, record>> /\ runId' = Nil /\ seen' = Nil /\ known' = 0
  BY DEF Parity, ghVars
<1>1. /\ pc' \in {"off", "appear"} /\ back' \in {"appear", "watch"} /\ exit' \in {Nil, "unobserved"}
      /\ exit' # Nil => pc' = "off"
      /\ deadline' \in Nat /\ wake' \in Nat /\ watches' \in 0..MaxWatches
  BY ConstantFacts DEF Parity, Exits, TypeOK
<1>2. TypeOK'
  BY <1>0, <1>1, RunsAre DEF TypeOK
<1>3. ~Watching' /\ ~Observed'
  BY <1>1, ConstantFacts DEF Watching, Observed
<1>4. QED
  BY <1>0, <1>1, <1>2, <1>3 DEF ChosenRun, OnFile, Honest

\* What every other step of the script leaves alone, and who may take one.
ScriptFrame ==
    /\ UNCHANGED <<now, pushed, runs, watches>>
    /\ pc # "off"
    /\ pc' \in {"off", "appear", "sleep", "watch", "final", "record"} /\ back' \in {"appear", "watch"}
    /\ wake' \in Nat /\ deadline' \in Nat

\* A step that leaves the choice and the record alone.
LEMMA QuietStepKeeps ==
    ASSUME WatchInv, ScriptFrame, UNCHANGED <<runId, record, known>>,
           Watching' => Watching,
           exit' \in {Nil, "unobserved"}, exit' # Nil => pc' = "off",
           seen' \in {Nil} \cup Conclusions,
           pc' = "record" => seen' \in ToSet(runs[runId].done)
    PROVE  WatchInv'
<1> USE DEF WatchInv
<1>1. TypeOK'
  BY DEF TypeOK, ScriptFrame
<1>2. ~Observed'
  BY ConstantFacts DEF Observed
<1>3. ChosenRun'
  BY <1>2 DEF ChosenRun, ScriptFrame
<1>4. OnFile' /\ Honest'
  BY <1>2 DEF OnFile, Honest, ScriptFrame
<1>5. QED
  BY <1>1, <1>3, <1>4

LEMMA SleepKeeps ==
    ASSUME WatchInv, ListFindsNone \/ WatchAgain
    PROVE  WatchInv'
<1> USE DEF WatchInv
<1>1. pc \in {"appear", "watch"} /\ pc' = "sleep" /\ back' = pc /\ wake' = now + Interval
  BY DEF ListFindsNone, WatchAgain, Sleep
<1>2. UNCHANGED <<now, pushed, runs, watches, deadline, runId, seen, record, exit, known>>
  BY DEF ListFindsNone, WatchAgain, ghVars
<1>3. ScriptFrame
  BY <1>1, <1>2, ConstantFacts DEF ScriptFrame, TypeOK
<1>4. exit = Nil /\ seen \in {Nil} \cup Conclusions
  BY <1>1 DEF TypeOK
<1>5. QED
  BY <1>1, <1>2, <1>3, <1>4, QuietStepKeeps DEF Watching

LEMMA WakeKeeps ==
    ASSUME WatchInv, Wake
    PROVE  WatchInv'
<1> USE DEF WatchInv
<1>1. pc = "sleep" /\ pc' = back /\ wake' = 0 /\ back' = back
  BY DEF Wake
<1>2. UNCHANGED <<now, pushed, runs, watches, deadline, runId, seen, record, exit, known>>
  BY DEF Wake, ghVars
<1>3. ScriptFrame
  BY <1>1, <1>2 DEF ScriptFrame, TypeOK
<1>4. exit = Nil /\ seen \in {Nil} \cup Conclusions /\ back \in {"appear", "watch"}
  BY <1>1 DEF TypeOK
<1>5. QED
  BY <1>1, <1>2, <1>3, <1>4, QuietStepKeeps DEF Watching

LEMMA WatchEndsKeeps ==
    ASSUME WatchInv, WatchEnds
    PROVE  WatchInv'
<1> USE DEF WatchInv
<1>1. pc = "watch" /\ pc' = "final"
  BY DEF WatchEnds
<1>2. UNCHANGED <<now, pushed, runs, watches, back, wake, deadline, runId, seen, record, exit, known>>
  BY DEF WatchEnds, ghVars
<1>3. ScriptFrame
  BY <1>1, <1>2 DEF ScriptFrame, TypeOK
<1>4. exit = Nil /\ seen \in {Nil} \cup Conclusions
  BY <1>1 DEF TypeOK
<1>5. QED
  BY <1>1, <1>2, <1>3, <1>4, QuietStepKeeps DEF Watching

\* The ways to end without having seen a conclusion, or without recording it.
LEMMA UnobservedKeeps ==
    ASSUME WatchInv, NoRunAppeared \/ ViewFails \/ TimedOut \/ RecordFails
    PROVE  WatchInv'
<1> USE DEF WatchInv
<1>1. pc \in {"appear", "watch", "final", "record"} /\ Exits("unobserved")
  BY DEF NoRunAppeared, ViewFails, TimedOut, RecordFails
<1>2. UNCHANGED <<now, pushed, runs, watches, runId, seen, record, known>>
  BY DEF NoRunAppeared, ViewFails, TimedOut, RecordFails, ghVars
<1>3. pc' = "off" /\ exit' = "unobserved" /\ deadline' = 0 /\ wake' = 0 /\ back' = "appear"
  BY <1>1 DEF Exits
<1>4. ScriptFrame
  BY <1>1, <1>2, <1>3 DEF ScriptFrame
<1>5. seen \in {Nil} \cup Conclusions
  BY DEF TypeOK
<1>6. QED
  BY <1>2, <1>3, <1>4, <1>5, QuietStepKeeps DEF Watching

LEMMA ConcludesKeeps ==
    ASSUME WatchInv, Concludes
    PROVE  WatchInv'
<1> USE DEF WatchInv
<1>1. pc = "final" /\ pc' = "record" /\ ~runs[runId].open /\ seen' = Last(runs[runId].done)
  BY DEF Concludes, Terminal, Completed
<1>2. UNCHANGED <<now, pushed, runs, watches, back, wake, deadline, runId, record, exit, known>>
  BY DEF Concludes, ghVars
<1>3. ScriptFrame
  BY <1>1, <1>2 DEF ScriptFrame, TypeOK
<1>4. runId \in DOMAIN runs /\ exit = Nil
  BY <1>1 DEF TypeOK, ChosenRun, Watching
<1>5. runs[runId].done \in Seq(Conclusions) /\ runs[runId].done # <<>>
  <2>1. runs[runId] \in RunRecords
    BY <1>4, RunsAre
  <2>2. QED
    BY <2>1, <1>1, <1>4 DEF RunRecords, ChosenRun
<1>6. seen' \in Conclusions /\ seen' \in ToSet(runs[runId].done)
  BY <1>1, <1>5, LastIsElement
<1>7. QED
  BY <1>1, <1>2, <1>3, <1>4, <1>6, QuietStepKeeps DEF Watching

\* The run that is chosen is the most recent of ours at that moment.
LEMMA ListFindsRunKeeps ==
    ASSUME WatchInv, ListFindsRun
    PROVE  WatchInv'
<1> USE DEF WatchInv
<1>1. pc = "appear" /\ pc' = "watch" /\ known' = Len(runs)
  BY DEF ListFindsRun
<1>2. UNCHANGED <<now, pushed, runs, watches, back, wake, deadline, seen, record, exit>>
  BY DEF ListFindsRun, ghVars
<1>3. /\ runId' \in DOMAIN runs /\ runs[runId'].ours
      /\ \A j \in DOMAIN runs : runs[j].ours => runs[runId'].made >= runs[j].made
  BY DEF ListFindsRun, MostRecent, mine
<1>4. DOMAIN runs = 1..Len(runs) /\ Len(runs) \in Nat /\ \A j \in DOMAIN runs : runs[j].made \in Int
  BY RunsAre, ConstantFacts DEF RunRecords
<1>5. exit' = Nil /\ ~Observed'
  BY <1>1, <1>2, ConstantFacts DEF TypeOK, Observed
<1>6. TypeOK'
  BY <1>1, <1>2, <1>3, <1>4, <1>5 DEF TypeOK
<1>7. runId' # Nil /\ runId' <= known'
  BY <1>1, <1>3, <1>4, ConstantFacts
<1>8. \A j \in 1..known' : runs'[j].ours => runs'[j].made <= runs'[runId'].made
  BY <1>1, <1>2, <1>3, <1>4
<1>9. ChosenRun'
  BY <1>1, <1>2, <1>3, <1>5, <1>7, <1>8 DEF ChosenRun, Watching
<1>10. OnFile'
  <2>1. record # Nil => record.run \in DOMAIN runs
    BY DEF TypeOK
  <2>2. QED
    BY <2>1, <1>1, <1>2, <1>4 DEF OnFile
<1>11. QED
  BY <1>5, <1>6, <1>9, <1>10 DEF Honest

LEMMA RecordEffect ==
    ASSUME WatchInv, Record
    PROVE  /\ pc = "record" /\ UNCHANGED <<now, pushed, runs, watches, runId, seen, known>>
           /\ runId # Nil /\ runId \in DOMAIN runs /\ seen \in ToSet(runs[runId].done) /\ seen \in Conclusions
           /\ record' = [run |-> runId, conclusion |-> seen]
           /\ pc' = "off" /\ deadline' = 0 /\ wake' = 0 /\ back' = "appear"
           /\ exit' = IF seen = "success" THEN "green" ELSE "red"
<1> USE DEF WatchInv
<1>1. pc = "record" /\ runId # Nil /\ runId \in DOMAIN runs /\ seen \in ToSet(runs[runId].done)
  BY DEF Record, ChosenRun, Watching, TypeOK
<1>2. seen \in Conclusions
  <2>1. runs[runId] \in RunRecords
    BY <1>1, RunsAre
  <2>2. runs[runId].done \in Seq(Conclusions)
    BY <2>1 DEF RunRecords
  <2>3. QED
    BY <2>2, <1>1 DEF ToSet
<1>3. QED
  BY <1>1, <1>2 DEF Record, Exits, ghVars

LEMMA RecordKeeps ==
    ASSUME WatchInv, Record
    PROVE  WatchInv'
<1> USE DEF WatchInv
<1>0. \/ exit' = "green" /\ seen = "success"
      \/ exit' = "red" /\ seen # "success"
  BY RecordEffect
<1>1. TypeOK'
  <2>1. record' \in [run : DOMAIN runs', conclusion : Conclusions]
    BY RecordEffect
  <2>2. QED
    BY <1>0, <2>1, RecordEffect DEF TypeOK
<1>2. record' # Nil /\ record'.run = runId
  <2>1. record' \in [run : Nat, conclusion : Conclusions] /\ record'.run = runId
    BY RecordEffect, RunsAre
  <2>2. QED
    BY <2>1, ConstantFacts
<1>3. ChosenRun'
  BY RecordEffect DEF ChosenRun, Watching
<1>4. OnFile'
  BY <1>2, RecordEffect DEF OnFile, ChosenRun
<1>5. Honest'
  BY <1>0, RecordEffect DEF Honest, ChosenRun
<1>6. QED
  BY <1>1, <1>3, <1>4, <1>5

LEMMA TickKeeps ==
    ASSUME WatchInv, Tick
    PROVE  WatchInv'
<1>1. now' \in 0..MaxTime /\ UNCHANGED <<ghVars, scriptVars>>
  BY ConstantFacts DEF Tick, WatchInv, TypeOK
<1>2. QED
  BY <1>1 DEF WatchInv, TypeOK, ChosenRun, OnFile, Honest, Watching, Observed, ghVars, scriptVars

LEMMA NextWatchInv ==
    ASSUME WatchInv, [Next]_vars
    PROVE  WatchInv'
<1>1. CASE Tick
  BY <1>1, TickKeeps
<1>2. CASE GitHub
  BY <1>2, GitHubGrows, GitHubKeeps DEF WatchInv
<1>3. CASE Parity
  BY <1>3, ParityKeeps
<1>4. CASE Script
  BY <1>4, ListFindsRunKeeps, SleepKeeps, WakeKeeps, WatchEndsKeeps, UnobservedKeeps, ConcludesKeeps, RecordKeeps, Zenon
     DEF Script
<1>5. CASE UNCHANGED vars
  BY <1>5 DEF vars, ghVars, scriptVars, WatchInv, TypeOK, ChosenRun, OnFile, Honest, Watching, Observed
<1>6. QED
  BY <1>1, <1>2, <1>3, <1>4, <1>5, Zenon DEF Next

LEMMA WatchInvHolds == Spec => []WatchInv
  BY InitWatchInv, NextWatchInv, PTL DEF Spec

-----------------------------------------------------------------------------
(* The theorems.                                                           *)

\* The watcher's state stays of its types, and a script that has ended has said how.
THEOREM WatchTypeCorrect == Spec => []TypeOK
<1>1. WatchInv => TypeOK
  BY DEF WatchInv
<1>2. QED
  BY <1>1, WatchInvHolds, PTL

\* Green and red are facts: about a run of this commit and this workflow, the most
\* recent there was when it was chosen, with a conclusion that run has had, and on file.
THEOREM ObservedIsHonest == Spec => []Honest
<1>1. WatchInv => Honest
  BY DEF WatchInv
<1>2. QED
  BY <1>1, WatchInvHolds, PTL

RecordStep == record # Nil => runs[record'.run].made >= runs[record.run].made

LEMMA RecordStepHolds ==
    ASSUME WatchInv, [Next]_vars
    PROVE  [RecordStep]_vars
<1>1. CASE Record
  <2>1. CASE record # Nil
    <3>1. /\ record'.run = runId /\ runId \in DOMAIN runs /\ runId # Nil
          /\ record.run \in DOMAIN runs /\ record.run <= known /\ runs[record.run].ours
      BY <1>1, <2>1, RecordEffect DEF OnFile, WatchInv, TypeOK
    <3>2. record.run \in 1..known
      BY <3>1, RunsAre DEF WatchInv, TypeOK
    <3>3. runs[record.run].made <= runs[runId].made
      BY <3>1, <3>2 DEF ChosenRun, WatchInv
    <3>4. QED
      BY <3>1, <3>3 DEF RecordStep
  <2>2. QED
    BY <2>1 DEF RecordStep
<1>2. CASE ~Record
  <2>1. UNCHANGED record
    BY <1>2 DEF Next, Tick, GitHub, Push, RunMade, RunEnds, RunAgain, Parity, Script, ListFindsRun, ListFindsNone,
                Wake, NoRunAppeared, WatchAgain, WatchEnds, ViewFails, TimedOut, Concludes, RecordFails,
                vars, scriptVars
  <2>2. CASE record # Nil
    <3>1. record.run \in DOMAIN runs
      BY <2>2 DEF WatchInv, TypeOK
    <3>2. runs[record.run].made \in Int
      BY <3>1, RunsAre, ConstantFacts DEF WatchInv, RunRecords
    <3>3. QED
      BY <2>1, <3>2 DEF RecordStep
  <2>3. QED
    BY <2>2 DEF RecordStep
<1>3. QED
  BY <1>1, <1>2

\* What is on file is never replaced by what an older run says, whatever is run
\* again, however often the script is started.
THEOREM RecordNeverGoesBack == Spec => RecordNeverBack
  BY WatchInvHolds, RecordStepHolds, PTL DEF Spec, RecordNeverBack, RecordStep
=============================================================================
