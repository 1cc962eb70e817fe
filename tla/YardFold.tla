------------------------------ MODULE YardFold ------------------------------
(***************************************************************************)
(* What the files of the store become on the lanes: board/store/store.go   *)
(* keeps those it trusts, board/fold/algorithm.go folds them by subject,   *)
(* board/assemble/assemble.go makes dispatches, gates and trains of the    *)
(* fold and of the raw manifests.  All of it is a pure function of the     *)
(* files, their names, the shop's own data files and the clock; these are  *)
(* the state, so that what a later file or a later poll may change can be  *)
(* said.                                                                   *)
(*                                                                         *)
(* A file is the record it holds.  A timestamp is an instant and the hours *)
(* its zone is ahead; instants are compared, strings are matched.  Titles, *)
(* costs, gate names and the wording of conditions are left out; a         *)
(* condition is its code and what it names.  Nil is a key that is missing. *)
(* What is passed on in the order of the paths is a set, in the order of   *)
(* `naming'; a list taken from the members of a manifest keeps the places  *)
(* they have there.                                                        *)
(***************************************************************************)
EXTENDS Integers, Sequences, FiniteSets, SequencesExt

CONSTANTS
    Pool,        \* files that pass the scan once their time has come
    Torn,        \* files that do not parse
    BadAt,       \* records whose `at' has no zone
    BadShape,    \* records that fail the schema and have a good `at'
    Namings,     \* orders the names of the files may put them in
    Shops,       \* what kinds.json, outcomes.json, the defaults and the defs may hold
    Trains,      \* subjects with the train: prefix
    MaxFiles,    \* bound on the files in the store
    MaxTime,     \* bound on the clock
    Unreadable,  \* a data file that is missing or does not parse
    Keyless,     \* a defaults file without dispatch_budget_seconds
    Nil

Damaged == Torn \cup BadAt \cup BadShape

\* What schema/vocab/kinds.json holds or may come to hold of it.
Kinds == {"dispatched", "returned", "presumed-lost", "intent", "ruling"}

\* The schema asks a record for subject and kind, a returned one for its outcome; a
\* path occurs once.
ASSUME FoldAssumption ==
    /\ Pool \cap Damaged = {}
    /\ \A r \in Pool :
           /\ r.at \in Nat /\ r.budget \in Int \cup {Nil}
           /\ Nil \notin {r.subject, r.kind} /\ (r.kind = "returned" => r.outcome # Nil)
    /\ \A r \in BadShape : r.at \in Nat
    /\ \A n \in Namings : n \in Seq(Pool \cup Damaged) /\ IsInjective(n) /\ ToSet(n) = Pool \cup Damaged
    /\ \A s \in Shops :
           /\ s.kinds \in {Unreadable} \cup SUBSET Kinds
           /\ s.defaults \in Int \cup {Unreadable, Keyless}
    /\ MaxFiles \in Nat /\ MaxTime \in Nat

\* A missing key is none of the values a key may have.
ASSUME NilAssumption ==
    /\ Nil \notin Int /\ Nil \notin {"record", "default"}
    /\ Unreadable \notin Int /\ Keyless \notin Int /\ Unreadable # Keyless
    /\ "" \notin Trains

VARIABLES
    store,   \* the files in the store
    now,     \* the instant the poll was given
    naming,  \* the order of their paths
    shop     \* the shop's data files, as they were when the server started

vars == <<store, now, naming, shop>>

AtString(r) == <<r.at, r.zone>>

-----------------------------------------------------------------------------
(* store.go: what survives the scan.                                       *)

Survives(f) == f \notin Damaged /\ f.at <= now

Kept == {f \in store : Survives(f)}

\* The order in which the scan lists them.
Place(f) == CHOOSE i \in DOMAIN naming : naming[i] = f
Before(f, g) == Place(f) < Place(g)

Scan ==
    [records    |-> Kept,
     conditions |->
         {<<"record-quarantined", f>> : f \in {g \in store : ~Survives(g)}}
         \cup {<<"record-unrecognised-fields", f>> : f \in {g \in store : Survives(g) /\ g.extra}}
         \cup {<<"all-records-quarantined", n>> : n \in IF Kept = {} THEN {Cardinality(store)} \ {0} ELSE {}}]

-----------------------------------------------------------------------------
(* loaders.go and NewServer: read once, when the server starts.            *)

LoadVocab ==
    IF Unreadable \in {shop.kinds, shop.outcomes} THEN [kinds |-> {}, outcomes |-> {}]
    ELSE [kinds |-> shop.kinds, outcomes |-> shop.outcomes]

\* A key that is missing decodes to zero.
LoadDefaultBudget ==
    CASE shop.defaults = Unreadable -> Nil
      [] shop.defaults = Keyless    -> 0
      [] OTHER                      -> shop.defaults

StartConditions ==
    {<<"recognition-vocabulary-unreadable", f>> : f \in {Unreadable} \cap {shop.kinds, shop.outcomes}}
    \cup {<<"shop-default-budget-unreadable", f>> : f \in {Unreadable} \cap {shop.defaults}}

-----------------------------------------------------------------------------
(* algorithm.go *)

\* A slip in DispatchKinds: an intent is taken for a dispatch.
DispatchKindsAll == {"dispatched", "returned", "presumed-lost", "intent"}

DispatchKinds == {"dispatched", "returned", "presumed-lost"}

precedence(kind) == CASE kind = "returned" -> 3 [] kind = "presumed-lost" -> 2 [] OTHER -> 1

\* A slip in Later: timestamps are compared as strings.
LaterAsString(r, q) == r.at + r.zone > q.at + q.zone

Later(r, q) == r.at > q.at

\* A slip in Ahead: the latest record wins whatever its kind.
AheadByTime(r, q) == Later(r, q)

\* The order of foldDispatchSubject: precedence, then the later instant.
Ahead(r, q) ==
    \/ precedence(r.kind) > precedence(q.kind)
    \/ precedence(r.kind) = precedence(q.kind) /\ Later(r, q)

\* sort.SliceStable: by ahead, a relation, and as listed where that has no say; the
\* place of a record is the number of those that precede it.
Precedes(r, q, ahead) == <<r, q>> \in ahead \/ (<<q, r>> \notin ahead /\ Before(r, q))

Rank(r, S, ahead) == Cardinality({q \in S : Precedes(q, r, ahead)}) + 1

StableSort(S, ahead) == [k \in 1..Cardinality(S) |-> CHOOSE r \in S : Rank(r, S, ahead) = k]

\* The grouping by subject; a record without one is passed over.
Subjects(recs, kinds) == {r.subject : r \in {q \in recs : q.kind \in kinds}} \ {""}

OfSubject(recs, s, kinds) == {r \in recs : r.subject = s /\ r.kind \in kinds}

budgetOf(r) == IF r.budget # Nil THEN r.budget ELSE LoadDefaultBudget

\* A slip in isOverdue: the budget is over when it is used up.
isOverdueAtBudget(r) == budgetOf(r) # Nil /\ now - r.at >= budgetOf(r)

isOverdue(r) == budgetOf(r) # Nil /\ now - r.at > budgetOf(r)

\* Outcome goes with a returned winner, the patience with a dispatched one.
foldDispatchSubject(own) ==
    LET ranked == StableSort(own, {p \in own \X own : Ahead(p[1], p[2])})
        winner == ranked[1]
        out    == winner.kind = "dispatched"
    IN  [state        |-> IF out /\ isOverdue(winner) THEN "overdue" ELSE winner.kind,
         at           |-> AtString(winner),
         outcome      |-> IF winner.kind = "returned" THEN winner.outcome ELSE Nil,
         elapsed      |-> IF out THEN now - winner.at ELSE Nil,
         budget       |-> IF out THEN budgetOf(winner) ELSE Nil,
         budgetSource |-> IF ~out \/ budgetOf(winner) = Nil THEN Nil
                          ELSE IF winner.budget # Nil THEN "record" ELSE "default",
         superseded   |-> [k \in 1..(Cardinality(own) - 1) |->
                              [kind |-> ranked[k + 1].kind, at |-> AtString(ranked[k + 1])]]]

foldIntentSubject(own) ==
    LET ranked == StableSort(own, {p \in own \X own : Later(p[1], p[2])})
    IN  [at         |-> AtString(ranked[1]),
         superseded |-> [k \in 1..(Cardinality(own) - 1) |-> AtString(ranked[k + 1])]]

emptyVocabFiles == {f \in {"kinds", "outcomes"} : LoadVocab[f] = {}}

\* A slip in Discoveries: only outcomes are looked up.
DiscoveriesOfOutcomes(recs) ==
    {<<"outcome", o>> : o \in {r.outcome : r \in recs} \ (LoadVocab.outcomes \cup {Nil, ""})}

Discoveries(recs) ==
    {<<"kind", k>> : k \in {r.kind : r \in recs} \ (LoadVocab.kinds \cup {""})}
    \cup {<<"outcome", o>> : o \in {r.outcome : r \in recs} \ (LoadVocab.outcomes \cup {Nil, ""})}

Dispatches(recs) ==
    [s \in Subjects(recs, DispatchKinds) |-> foldDispatchSubject(OfSubject(recs, s, DispatchKinds))]

Fold(recs) ==
    [faults      |-> emptyVocabFiles,
     discoveries |-> IF emptyVocabFiles = {} THEN Discoveries(recs) ELSE {},
     dispatches  |-> Dispatches(recs),
     intents     |-> [s \in Subjects(recs, {"intent"}) |->
                         foldIntentSubject(OfSubject(recs, s, {"intent"}))]]

-----------------------------------------------------------------------------
(* assemble.go *)

\* A slip in findRawIntentRecord: any manifest of the train will do.
findRawIntentRecordAny(recs, t, at) == OfSubject(recs, t, {"intent"})

\* The raw records the fold may have meant; the first of them is taken.
findRawIntentRecord(recs, t, at) == {r \in OfSubject(recs, t, {"intent"}) : AtString(r) = at}

FirstListed(S) == CHOOSE r \in S : \A q \in S \ {r} : Before(r, q)

\* Members without a subject are left out.
manifestPayload(r) == [i \in {j \in DOMAIN r.members : r.members[j].subject # ""} |-> r.members[i]]

\* A slip in Car: the car shows what was declared, not what was observed.
CarWithoutState(m, dispatches) == [subject |-> m.subject, role |-> m.role, state |-> "dispatched", outcome |-> Nil]

Car(m, dispatches) ==
    LET d == dispatches[m.subject]
    IN  [subject |-> m.subject, role |-> m.role, state |-> d.state, outcome |-> d.outcome]

Train(members, dispatches) ==
    LET observed == {i \in DOMAIN members : members[i].subject \in DOMAIN dispatches}
    IN  [cars                |-> [i \in observed |-> Car(members[i], dispatches)],
         declaredNotObserved |-> [i \in DOMAIN members \ observed |-> members[i]]]

\* Who claims a member, and how often.
Claims(members, s) == {c \in UNION {{t} \X DOMAIN members[t] : t \in DOMAIN members} : members[c[1]][c[2]].subject = s}

Assemble(recs, out) ==
    LET manifests == DOMAIN out.intents \cap Trains
        raw       == [t \in manifests |-> findRawIntentRecord(recs, t, out.intents[t].at)]
        found     == {t \in manifests : raw[t] # {}}
        readable  == {t \in found : FirstListed(raw[t]).members # Nil}
        members   == [t \in readable |-> manifestPayload(FirstListed(raw[t]))]
        assigned  == UNION {{m.subject : m \in ToSet(members[t])} : t \in readable}
        trains    == [t \in readable |-> Train(members[t], out.dispatches)]
        gates     == UNION {{c \in ToSet(trains[t].cars) : c.role = "gate" /\ c.state = "returned"} : t \in readable}
    IN  [conditions |->
             {<<"subject-namespace-collision", s>> : s \in DOMAIN out.dispatches \cap DOMAIN out.intents}
             \cup {<<"manifest-record-not-found", t>> : t \in manifests \ found}
             \cup {<<"manifest-payload-unreadable", t>> : t \in found \ readable}
             \cup {<<"manifest-membership-collision", s>> :
                       s \in {m \in assigned : Cardinality(Claims(members, m)) > 1}},
         trains     |-> trains,
         gates      |-> {[subject |-> g.subject, outcome |-> g.outcome] : g \in gates},
         dispatches |-> [s \in DOMAIN out.dispatches |->
                            [entry |-> out.dispatches[s], assigned |-> s \in assigned]]]

Out == Fold(Scan.records)

\* What poll.go publishes of a scan that succeeded.
Board ==
    LET scan  == Scan
        out   == Fold(scan.records)
        lanes == Assemble(scan.records, out)
    IN  [lanes EXCEPT !.conditions =
            @ \cup StartConditions \cup scan.conditions
              \cup {<<"fold-fault", fs>> : fs \in {out.faults} \ {{}}}
              \cup {<<"discovery", d>> : d \in out.discoveries}]

-----------------------------------------------------------------------------
Init ==
    /\ store = {} /\ now = 0
    /\ naming \in Namings
    /\ shop \in Shops

Tick ==
    /\ now < MaxTime
    /\ now' = now + 1
    /\ UNCHANGED <<store, naming, shop>>

\* A file turns up: a record, late or dated ahead, or a damaged one.
Arrive(f) ==
    /\ Cardinality(store) < MaxFiles
    /\ f \notin store
    /\ store' = store \cup {f}
    /\ UNCHANGED <<now, naming, shop>>

Next == Tick \/ \E f \in Pool \cup Damaged : Arrive(f)

Spec == Init /\ [][Next]_vars

-----------------------------------------------------------------------------
(* Properties.                                                             *)

\* What the lanes are made of: a dispatch has a liveness state, an outcome
\* exactly when it has returned, and a source of its patience exactly when it
\* has one; a train's cars are subjects that have dispatched.
TypeOK ==
    LET board == Board
    IN  /\ store \subseteq Pool \cup Damaged /\ now \in Nat
        /\ \A s \in DOMAIN board.dispatches :
               LET d == board.dispatches[s].entry
               IN  /\ d.state \in {"dispatched", "overdue", "presumed-lost", "returned"}
                   /\ d.outcome # Nil <=> d.state = "returned"
                   /\ d.budgetSource # Nil <=> d.budget # Nil
        /\ \A t \in DOMAIN board.trains : \A c \in ToSet(board.trains[t].cars) : c.subject \in DOMAIN board.dispatches

InStore(s, kind) == {r \in store : Survives(r) /\ r.subject = s /\ r.kind = kind}
Newest(S) == {r \in S : \A q \in S : q.at <= r.at}

\* The patience a dispatch is given: its own, else the shop's; a shop whose
\* number cannot be read gives none, and so nothing is ever overdue by it.
Patience(r) == IF r.budget # Nil THEN r.budget
               ELSE CASE shop.defaults = Keyless -> 0 [] shop.defaults = Unreadable -> MaxTime [] OTHER -> shop.defaults

\* The state of a subject, said without an order of the records: returned beats
\* presumed lost beats dispatched, and the newest dispatch decides on overdue.
\* Where the newest records tie, either may speak.
FoldIsReference ==
    LET dispatches == Out.dispatches
    IN  \A s \in DOMAIN dispatches :
            LET d == dispatches[s]
            IN  IF InStore(s, "returned") # {}
                THEN /\ d.state = "returned"
                     /\ \E r \in Newest(InStore(s, "returned")) : d.outcome = r.outcome /\ d.at = AtString(r)
                ELSE IF InStore(s, "presumed-lost") # {} THEN d.state = "presumed-lost"
                ELSE \E r \in Newest(InStore(s, "dispatched")) :
                        d.state = IF r.at + Patience(r) < now THEN "overdue" ELSE "dispatched"

\* How far along a subject is.
Stage(state) ==
    CASE state \in {"dispatched", "overdue"} -> 1 [] state = "presumed-lost" -> 2 [] OTHER -> 3

\* A subject never goes back: neither a late record, a re-dispatch, a damaged
\* file nor the passing of time takes back that it returned or was given up; and
\* an overdue mark goes only with another dispatch of that subject, at least as new as the
\* one the mark was about, or of that very second with another budget.
NeverBack ==
    [][\A before \in {Dispatches(Kept)}, after \in {Dispatches(Kept)'} :
           \A s \in DOMAIN before :
               /\ s \in DOMAIN after
               /\ Stage(after[s].state) >= Stage(before[s].state)
               /\ before[s].state = "overdue" /\ after[s].state = "dispatched" =>
                      /\ after[s].at[1] >= before[s].at[1]
                      /\ after[s].at # before[s].at \/ after[s].budget # before[s].budget]_vars

\* The lanes tell one story.  A train is made of a manifest none of that train's is newer
\* than (the fold sorts by instant, assemble looks the record up by its string), or is not
\* shown, and the board says so, if that manifest's payload cannot be read: its
\* members are its cars, which show the state and outcome their dispatches show, and
\* those not observed.  A dispatch is assigned iff some train has it as a car, and a
\* collision iff it is a car more than once; the gates are the gate members that have
\* returned, with what their dispatches say.
LanesAgree ==
    LET board    == Board
        trains   == board.trains
        AllCars  == UNION {{t} \X DOMAIN trains[t].cars : t \in DOMAIN trains}
        Shown(s) == {c \in AllCars : trains[c[1]].cars[c[2]].subject = s}
        Named(m) == <<m.subject, m.role>>
        Gating(t) == {m.subject : m \in {x \in ToSet(trains[t].cars) : x.role = "gate"}}
        Dark(t)   == <<"manifest-payload-unreadable", t>> \in board.conditions
    IN  /\ \A t \in Trains : InStore(t, "intent") # {} <=> t \in DOMAIN trains \/ Dark(t)
        /\ \A t \in Trains : Dark(t) => t \notin DOMAIN trains /\ \E r \in Newest(InStore(t, "intent")) : r.members = Nil
        /\ \A t \in DOMAIN trains :
               /\ \E r \in Newest(InStore(t, "intent")) :
                      r.members # Nil /\ {Named(m) : m \in {x \in ToSet(r.members) : x.subject # ""}} =
                          {Named(c) : c \in ToSet(trains[t].cars) \cup ToSet(trains[t].declaredNotObserved)}
               /\ \A c \in ToSet(trains[t].cars) :
                      /\ c.state = board.dispatches[c.subject].entry.state
                      /\ c.outcome = board.dispatches[c.subject].entry.outcome
               /\ {m.subject : m \in ToSet(trains[t].declaredNotObserved)} \cap DOMAIN board.dispatches = {}
        /\ \A s \in DOMAIN board.dispatches :
               /\ board.dispatches[s].assigned <=> Shown(s) # {}
               /\ <<"manifest-membership-collision", s>> \in board.conditions <=> Cardinality(Shown(s)) > 1
        /\ board.gates =
               {[subject |-> s, outcome |-> board.dispatches[s].entry.outcome] :
                    s \in {g \in UNION {Gating(t) : t \in DOMAIN trains} : InStore(g, "returned") # {}}}

\* A manifest is on the trains lane with all it names, or the board says why it is not.
IsDrawn(f, board) ==
    IF f.members = Nil
    THEN <<"manifest-payload-unreadable", f.subject>> \in board.conditions
    ELSE /\ f.subject \in DOMAIN board.trains
         /\ \A m \in {x \in ToSet(f.members) : x.subject # ""} :
                \E c \in ToSet(board.trains[f.subject].cars) \cup ToSet(board.trains[f.subject].declaredNotObserved) :
                    <<c.subject, c.role>> = <<m.subject, m.role>>

\* What the board says of the files of the store (Law 2): a file the scan put aside is
\* named; a dispatch record has won or is listed as superseded, once; of the manifest of a
\* train that no other is as new as, every member that has a subject is drawn, or the board
\* says that its payload cannot be read; a manifest of a dispatch's subject is named as a
\* collision; and a kind the shop does not recognise is named, or the vocabulary itself as a
\* fault.  Not on the board, and on purpose not asked for: an intent whose subject is no
\* train, an older manifest or one of the same second as another (no lane lists what a
\* manifest superseded), a ruling, and a record without a subject or kind.
NothingHidden ==
    LET board == Board
    IN  \A f \in store :
            CASE ~Survives(f) -> <<"record-quarantined", f>> \in board.conditions
              [] Survives(f) /\ "" \in {f.subject, f.kind} -> TRUE
              [] OTHER ->
                    /\ f.extra => <<"record-unrecognised-fields", f>> \in board.conditions
                    /\ CASE f.kind \in DispatchKinds ->
                               LET d == board.dispatches[f.subject].entry
                               IN  /\ AtString(f) # d.at =>
                                          [kind |-> f.kind, at |-> AtString(f)] \in ToSet(d.superseded)
                                   /\ Len(d.superseded) + 1 = Cardinality(UNION {InStore(f.subject, k) : k \in DispatchKinds})
                         [] f.kind = "intent" ->
                               /\ f.subject \in DOMAIN board.dispatches =>
                                      <<"subject-namespace-collision", f.subject>> \in board.conditions
                               /\ f.subject \in Trains /\ Newest(InStore(f.subject, "intent")) = {f} => IsDrawn(f, board)
                         [] OTHER ->
                               \/ <<"discovery", <<"kind", f.kind>>>> \in board.conditions
                               \/ \E c \in board.conditions : c[1] = "fold-fault"
                               \/ f.kind = "ruling"
=============================================================================
