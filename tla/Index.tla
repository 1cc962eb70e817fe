------------------------------- MODULE Index --------------------------------
(***************************************************************************)
(* The third reader of the store: scripts/New-ArtifactIndex.ps1 writes the *)
(* committed index, a row for every file, the ledger a stranger reads.     *)
(* Like the detector it puts nothing aside: a file that does not parse, an *)
(* `at' without a zone, a subject or kind that is missing stops it before  *)
(* it has written anything; a record that fails the schema otherwise, or   *)
(* is dated ahead, has its row.  Subject and file, by which it orders rows *)
(* of one instant, stand together as the order of the names.               *)
(***************************************************************************)
EXTENDS Detect

\* The files it cannot read on.
StopsIndex == {f \in store : f \in Torn \cup BadAt \/ Nil \in {f.subject, f.kind}}

\* A slip in RowBefore: `at' is sorted as the string it is.
RowBeforeAsString(f, g) == f.at + f.zone < g.at + g.zone

RowBefore(f, g) == f.at < g.at

IndexRows ==
    LET sorted == StableSort(store, {p \in store \X store : RowBefore(p[1], p[2])})
    IN  [k \in DOMAIN sorted |-> [subject |-> sorted[k].subject, kind |-> sorted[k].kind,
                                  at |-> AtString(sorted[k]), outcome |-> sorted[k].outcome]]

\* The ledger and the board tell one story.  What stops the ledger is named on the
\* board, which a stranger who finds the ledger old can look at; and otherwise
\* the last row of a subject is the one the board speaks from, among the rows of
\* the kind the board says it is in: same instant, and some row of that instant has
\* the board's timestamp and, of one that has returned, its outcome (New-ArtifactIndex.ps1:70-80);
\* an outcome that another record carries, as the schema lets it, is in the ledger alone.
IndexAgrees ==
    IF StopsIndex # {} THEN \A f \in StopsIndex : <<"record-quarantined", f>> \in Board.conditions
    ELSE \A dispatches \in {Dispatches(Kept)} : \A s \in DOMAIN dispatches : Plain(s) =>
             LET d    == dispatches[s]
                 kind == IF d.state = "overdue" THEN "dispatched" ELSE d.state
                 rows == IndexRows
                 Of   == {k \in DOMAIN rows : rows[k].subject = s /\ rows[k].kind = kind}
             IN  /\ \E k \in Of : (\A j \in Of : j <= k) /\ rows[k].at[1] = d.at[1]
                 /\ \E k \in Of : rows[k].at = d.at /\ (kind = "returned" => rows[k].outcome = d.outcome)
=============================================================================
