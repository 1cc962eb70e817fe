------------------------------- MODULE Detect -------------------------------
(***************************************************************************)
(* The other reader of the store: scripts/Detect-Dispatches.ps1 folds the  *)
(* same files as board/fold, in PowerShell and with loaders of its own.    *)
(* It has no quarantine: a record that fails the schema, or has an `at'    *)
(* without a zone or in the future, is folded with the others, as far as   *)
(* it parses.  Its strings match without regard to case.  Its list of      *)
(* files has an order of its own, so where newest records tie any of them  *)
(* may win.                                                                *)
(***************************************************************************)
EXTENDS YardFold

CONSTANT Lower  \* every spelling of a subject, kind or outcome, in lower case

ASSUME DetectAssumption ==
    \A r \in Pool \cup BadShape \cup BadAt : {r.subject, r.kind, r.outcome} \ {Nil} \subseteq DOMAIN Lower

-----------------------------------------------------------------------------
(* Detect-Dispatches.ps1.                                                  *)

Parsed == store \ Torn

\* A property that is missing, or empty, is false.
Grouped(f) == {f.subject, f.kind} \cap {Nil, ""} = {}

FilesOf(s, kinds) == {f \in Parsed : Grouped(f) /\ Lower[f.subject] = Lower[s] /\ Lower[f.kind] \in kinds}

\* Get-AtInstant throws on any of these, and with it the whole run.
ThrowsOn == {f \in Parsed \cap BadAt : Grouped(f) /\ Lower[f.kind] \in DispatchKinds \cup {"intent"}}

Beats(f, g) ==
    \/ precedence(Lower[f.kind]) > precedence(Lower[g.kind])
    \/ precedence(Lower[f.kind]) = precedence(Lower[g.kind]) /\ f.at > g.at

\* Those a stable sort may put first, whatever the order of the files.
Firsts(S) == {f \in S : \A g \in S : ~Beats(g, f)}

\* Under strict mode a key that is missing throws, as a file that is does.
detectorDefault == IF shop.defaults \in {Unreadable, Keyless} THEN Nil ELSE shop.defaults

\* A slip in detectorBudget: PowerShell takes a budget of 0 for none.
detectorBudgetTruthy(f) == IF f.budget \notin {Nil, 0} THEN f.budget ELSE detectorDefault

detectorBudget(f) == IF f.budget # Nil THEN f.budget ELSE detectorDefault

detectorEntry(f, superseded) ==
    LET kind   == Lower[f.kind]
        budget == IF kind = "dispatched" THEN detectorBudget(f) ELSE Nil
    IN  [state        |-> IF budget # Nil /\ now - f.at > budget THEN "overdue" ELSE f.kind,
         at           |-> AtString(f),
         outcome      |-> IF kind = "returned" THEN f.outcome ELSE Nil,
         elapsed      |-> IF kind = "dispatched" THEN now - f.at ELSE Nil,
         budget       |-> budget,
         budgetSource |-> IF budget = Nil THEN Nil ELSE IF f.budget # Nil THEN "record" ELSE "default",
         superseded   |-> superseded]

Rest(S, w) == {[kind |-> f.kind, at |-> AtString(f)] : f \in S \ {w}}

detectorDispatch(s) ==
    LET S == FilesOf(s, DispatchKinds)
    IN  {detectorEntry(w, Rest(S, w)) : w \in Firsts(S)}

detectorIntent(s) ==
    LET S == FilesOf(s, {"intent"})
    IN  {[at |-> AtString(w), superseded |-> Rest(S, w)] : w \in Firsts(S)}

detectorVocabOk == {Unreadable, {}} \cap {shop.kinds, shop.outcomes} = {}

detectorFaults ==
    {"vocab" : f \in {shop.kinds, shop.outcomes} \cap {Unreadable, {}}}
    \cup {"defaults" : f \in {shop.defaults} \cap {Unreadable, Keyless}}
    \cup {"record" : f \in store \cap Torn}

detectorDiscoveries ==
    IF ~detectorVocabOk THEN {}
    ELSE {<<"kind", f.kind>> : f \in {g \in Parsed : g.kind \notin {Nil, ""} /\ Lower[g.kind] \notin shop.kinds}}
         \cup {<<"outcome", f.outcome>> : f \in {g \in Parsed : g.outcome \notin {Nil, ""} /\ Lower[g.outcome] \notin shop.outcomes}}

-----------------------------------------------------------------------------
(* Properties.                                                             *)

\* Nothing of this subject is put aside by the scan, or is in another case.
Plain(s) ==
    \A f \in Parsed : Grouped(f) /\ Lower[f.subject] = Lower[s] =>
        Survives(f) /\ f.subject = s /\ Lower[f.kind] = f.kind

\* A defaults file without its key: a budget of 0 to one reader, none to the other.
OwnPatience(s) ==
    shop.defaults = Keyless => \A f \in Parsed : f.subject = s /\ f.kind = "dispatched" => f.budget # Nil

\* What the board says of a dispatch, what was superseded as a set.
Unordered(d) ==
    [state |-> d.state, at |-> d.at, outcome |-> d.outcome, elapsed |-> d.elapsed, budget |-> d.budget,
     budgetSource |-> d.budgetSource, superseded |-> ToSet(d.superseded)]

\* The two folds agree (Detect-Dispatches.ps1:34-43): unless a bad `at' stops the
\* detector, and then the board names that file, what it says of a subject is what the board says, state, instant,
\* outcome, patience and what was superseded, whatever is wrong with the records of
\* other subjects; the exceptions are the records the scan alone puts aside, spellings
\* the board alone tells apart, and a shop default without its key.  What the board has
\* discovered the detector has too, but for such spellings; and where one of them
\* reports nothing to be wrong with the vocabulary, so does the other.
DetectorAgrees ==
    LET out     == Out
        Other(s) == {[kind |-> "intent", at |-> a] : a \in ToSet(out.intents[s].superseded)}
    IN  IF ThrowsOn # {} THEN \A f \in ThrowsOn : <<"record-quarantined", f>> \in Board.conditions
        ELSE
            /\ \A s \in {r.subject : r \in Pool} \ {""} : Plain(s) =>
                   /\ s \in DOMAIN out.dispatches <=> detectorDispatch(s) # {}
                   /\ s \in DOMAIN out.dispatches /\ OwnPatience(s) => Unordered(out.dispatches[s]) \in detectorDispatch(s)
                   /\ s \in DOMAIN out.intents <=> detectorIntent(s) # {}
                   /\ s \in DOMAIN out.intents =>
                          [at |-> out.intents[s].at, superseded |-> Other(s)] \in detectorIntent(s)
            /\ {d \in out.discoveries : Lower[d[2]] = d[2]} \subseteq detectorDiscoveries
            /\ out.faults = {} <=> "vocab" \notin detectorFaults
=============================================================================
