------------------------------ MODULE WatchCI -------------------------------
(***************************************************************************)
(* scripts/Watch-CI.ps1: one watcher that looks for the CI run of a pushed *)
(* commit, watches it to a conclusion and records what it saw, against a   *)
(* GitHub on which runs appear, end and are run again while it sleeps.     *)
(*                                                                         *)
(* GitHub's runs of the branch are a sequence in the order they were made; *)
(* one is `ours' if its commit and its workflow are the ones looked for.   *)
(* A run that is run again keeps its id and gets a further conclusion.     *)
(* A step of the script is a call of gh and what it does with the answer;  *)
(* a call may fail, which the script meets as an answer with nothing in    *)
(* it.  Legs, the observer's name and the wording are left out, and git    *)
(* itself is assumed to answer.                                            *)
(***************************************************************************)
EXTENDS Integers, Sequences, SequencesExt

CONSTANTS
    Timeout,      \* -TimeoutMinutes, in ticks
    Interval,     \* -IntervalSeconds, in ticks
    Conclusions,  \* what a run may end with, "success" among them
    MaxRuns,      \* bound on the runs of the branch
    MaxAttempts,  \* bound on the times one run is run
    MaxTime,      \* bound on the clock
    MaxWatches,   \* bound on the invocations of the script
    Nil

ASSUME WatchAssumption ==
    /\ Timeout \in Nat /\ Interval \in Nat \ {0}
    /\ "success" \in Conclusions
    /\ Nil \notin Nat \cup Conclusions \cup {"green", "red", "unobserved"}
    /\ Nil \notin [run : Nat, conclusion : Conclusions]
    /\ MaxRuns \in Nat /\ MaxAttempts \in Nat /\ MaxTime \in Nat /\ MaxWatches \in Nat

VARIABLES
    now,
    pushed,    \* the commit is on the remote branch
    runs,      \* the runs of the branch
    pc,        \* where the script stands
    back,      \* the loop a sleep returns to
    wake,      \* when the sleep ends
    deadline,
    runId,
    seen,      \* the conclusion of the last look
    record,    \* the file under .ci-checks, or Nil
    exit,      \* how the script ended: green, red, unobserved, or Nil
    watches,   \* invocations begun
    known      \* history: the runs there were when runId was chosen

ghVars     == <<pushed, runs>>
scriptVars == <<pc, back, wake, deadline, runId, seen, record, exit, watches, known>>
vars       == <<now, ghVars, scriptVars>>

Completed(r) == ~r.open

Init ==
    /\ now = 0
    /\ pushed = FALSE /\ runs = <<>>
    /\ pc = "off" /\ back = "appear" /\ wake = 0 /\ deadline = 0
    /\ runId = Nil /\ seen = Nil /\ record = Nil /\ exit = Nil
    /\ watches = 0 /\ known = 0

-----------------------------------------------------------------------------
(* GitHub and the clock.                                                   *)

Tick ==
    /\ now < MaxTime
    /\ now' = now + 1
    /\ UNCHANGED <<ghVars, scriptVars>>

Push ==
    /\ ~pushed
    /\ pushed' = TRUE
    /\ UNCHANGED <<now, runs, scriptVars>>

\* A run is made; one of ours needs the commit.
RunMade(ours) ==
    /\ Len(runs) < MaxRuns /\ (ours => pushed)
    /\ runs' = Append(runs, [ours |-> ours, made |-> now, done |-> <<>>, open |-> TRUE])
    /\ UNCHANGED <<now, pushed, scriptVars>>

RunEnds(i, c) ==
    /\ i \in DOMAIN runs /\ runs[i].open
    /\ runs' = [runs EXCEPT ![i].done = Append(@, c), ![i].open = FALSE]
    /\ UNCHANGED <<now, pushed, scriptVars>>

RunAgain(i) ==
    /\ i \in DOMAIN runs /\ Completed(runs[i]) /\ Len(runs[i].done) < MaxAttempts
    /\ runs' = [runs EXCEPT ![i].open = TRUE]
    /\ UNCHANGED <<now, pushed, scriptVars>>

-----------------------------------------------------------------------------
(* The script.                                                             *)

\* A slip in Exits: the message without the exit.
Says(how) == pc' = pc /\ exit' = how /\ UNCHANGED <<deadline, wake, back>>

\* What only the process knows goes with it.
Exits(how) == pc' = "off" /\ exit' = how /\ deadline' = 0 /\ wake' = 0 /\ back' = "appear"

\* Push parity, and the deadline both loops share.
Parity ==
    /\ pc = "off" /\ watches < MaxWatches
    /\ now + Timeout + Interval <= MaxTime
    /\ watches' = watches + 1
    /\ runId' = Nil /\ seen' = Nil
    /\ IF pushed
       THEN pc' = "appear" /\ deadline' = now + Timeout /\ exit' = Nil /\ UNCHANGED <<back, wake>>
       ELSE Exits("unobserved")
    /\ known' = 0
    /\ UNCHANGED <<now, ghVars, record>>

\* Start-Sleep, in the loop the script is in.
Sleep == pc' = "sleep" /\ back' = pc /\ wake' = now + Interval

\* A slip in mine: the workflow's name is not looked at.
mineOrAnyones == DOMAIN runs

\* gh lists the 30 newest runs of the branch, which here are all there are.
mine == {i \in DOMAIN runs : runs[i].ours}

\* A slip in MostRecent: the list is not sorted.
Unsorted(S) == S

MostRecent(S) == {i \in S : \A j \in S : runs[i].made >= runs[j].made}

ListFindsRun ==
    /\ pc = "appear" /\ now < deadline
    /\ \E i \in MostRecent(mine) : runId' = i
    /\ pc' = "watch" /\ known' = Len(runs)
    /\ UNCHANGED <<now, ghVars, back, wake, deadline, seen, record, exit, watches>>

\* There is no run yet, or gh failed: both leave the list empty.
ListFindsNone ==
    /\ pc = "appear" /\ now < deadline
    /\ Sleep
    /\ UNCHANGED <<now, ghVars, deadline, runId, seen, record, exit, watches, known>>

Wake ==
    /\ pc = "sleep" /\ now >= wake
    /\ pc' = back /\ wake' = 0
    /\ UNCHANGED <<now, ghVars, back, deadline, runId, seen, record, exit, watches, known>>

NoRunAppeared ==
    /\ pc = "appear" /\ now >= deadline
    /\ Exits("unobserved")
    /\ UNCHANGED <<now, ghVars, runId, seen, record, watches, known>>

\* A slip in LeavesLoop: the loop does not look at the clock.
LeavesLoopCompleted == Completed(runs[runId])

LeavesLoop == now >= deadline \/ Completed(runs[runId])

WatchAgain ==
    /\ pc = "watch" /\ ~LeavesLoop
    /\ Sleep
    /\ UNCHANGED <<now, ghVars, deadline, runId, seen, record, exit, watches, known>>

WatchEnds ==
    /\ pc = "watch" /\ LeavesLoop
    /\ pc' = "final"
    /\ UNCHANGED <<now, ghVars, back, wake, deadline, runId, seen, record, exit, watches, known>>

\* gh run view fails: the empty answer has no status, and strict mode throws.
ViewFails ==
    /\ pc = "final" \/ (pc = "watch" /\ now < deadline)
    /\ Exits("unobserved")
    /\ UNCHANGED <<now, ghVars, runId, seen, record, watches, known>>

Terminal(r) == Completed(r)

\* The second look, after the loop: nothing but a completed run is a conclusion.
TimedOut ==
    /\ pc = "final" /\ ~Terminal(runs[runId])
    /\ Exits("unobserved")
    /\ UNCHANGED <<now, ghVars, runId, seen, record, watches, known>>

Concludes ==
    /\ pc = "final" /\ Terminal(runs[runId])
    /\ seen' = Last(runs[runId].done)
    /\ pc' = "record"
    /\ UNCHANGED <<now, ghVars, back, wake, deadline, runId, record, exit, watches, known>>

Record ==
    /\ pc = "record"
    /\ record' = [run |-> runId, conclusion |-> seen]
    /\ Exits(IF seen = "success" THEN "green" ELSE "red")
    /\ UNCHANGED <<now, ghVars, runId, seen, watches, known>>

RecordFails ==
    /\ pc = "record"
    /\ Exits("unobserved")
    /\ UNCHANGED <<now, ghVars, runId, seen, record, watches, known>>

Script ==
    \/ ListFindsRun \/ ListFindsNone \/ Wake \/ NoRunAppeared
    \/ WatchAgain \/ WatchEnds \/ ViewFails \/ TimedOut \/ Concludes \/ Record \/ RecordFails

GitHub ==
    \/ Push
    \/ \E ours \in BOOLEAN : RunMade(ours)
    \/ \E i \in 1..MaxRuns : RunAgain(i) \/ \E c \in Conclusions : RunEnds(i, c)

Next == Tick \/ GitHub \/ Parity \/ Script

\* The clock goes on and the script is scheduled; GitHub owes nothing.
Fairness == WF_vars(Tick) /\ WF_vars(Script)

Spec == Init /\ [][Next]_vars /\ Fairness

-----------------------------------------------------------------------------
(* Properties.                                                             *)

\* The types; and who has ended does nothing more.
TypeOK ==
    /\ now \in 0..MaxTime /\ pushed \in BOOLEAN
    /\ runs \in Seq([ours : BOOLEAN, made : 0..MaxTime, done : Seq(Conclusions), open : BOOLEAN])
    /\ pc \in {"off", "appear", "sleep", "watch", "final", "record"} /\ back \in {"appear", "watch"}
    /\ wake \in Nat /\ deadline \in Nat /\ watches \in 0..MaxWatches /\ known \in 0..Len(runs)
    /\ runId \in {Nil} \cup DOMAIN runs /\ seen \in {Nil} \cup Conclusions
    /\ exit \in {Nil, "green", "red", "unobserved"} /\ (exit # Nil => pc = "off")
    /\ record \in {Nil} \cup [run : DOMAIN runs, conclusion : Conclusions]

Observed == exit \in {"green", "red"}

\* Green or red is a fact about a run of this commit and this workflow, which
\* has had that conclusion and was, when it was chosen, the most recent such run
\* GitHub had; it is the fact on file.  A bot's green does not stand for CI, nor
\* an old run for a newer one.
Honest ==
    Observed =>
        /\ runs[runId].ours
        /\ seen \in ToSet(runs[runId].done) /\ (exit = "green" <=> seen = "success")
        /\ \A i \in 1..known : runs[i].ours => runs[i].made <= runs[runId].made
        /\ record = [run |-> runId, conclusion |-> seen]

\* What is on file for a commit is never replaced by the conclusion of an older run.
RecordNeverBack ==
    [][record # Nil => runs[record'.run].made >= runs[record.run].made]_vars

\* However GitHub behaves, a watch comes to an end.
Ends == (pc = "appear") ~> (pc = "off")
=============================================================================
