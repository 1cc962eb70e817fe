------------------------------ MODULE Verdict -------------------------------
(***************************************************************************)
(* The verdicts of record: scripts/Land-Verdict.ps1 takes the last result  *)
(* of a dispatch out of a transcript and lands it under an integrity line; *)
(* scripts/Verify-Verdict.ps1 recomputes that line; Migrate-Verdicts.ps1   *)
(* moves what the retired docs/reviews/ still holds to artifacts/reviews/  *)
(* and writes a record for each.  In between the files are edited, or their *)
(* line ends converted by git, and the migration may stop half-way.        *)
(*                                                                         *)
(* A document is the verdict its header claims, a body and its line ends.  *)
(* The hash is taken to tell any two texts apart, so the claim in the      *)
(* integrity line is the text itself.  A landing rewrites paths in the body *)
(* alone, those of the repository and, on a machine that sets USERPROFILE, *)
(* those of the operator's home; the header stands as it was given, and    *)
(* the verdict in it stands for the rest of it.  Provenance, titles and    *)
(* dates are left out; git's repository is there and Land's -Out is a file *)
(* of one of the two directories.  A landing or a check is one step; a     *)
(* migration has the rest of the world in between its steps.               *)
(***************************************************************************)
EXTENDS Integers, Sequences

CONSTANTS
    Names,      \* names of verdict files
    Tasks,      \* task ids
    Results,    \* <result> blocks, as they are in a transcript
    Portable,   \* a result as a machine that does, or does not, know a home rewrites it
    Verdicts,   \* what a header may claim
    Outcome,    \* what a text's envelope fence says, or Nil: no usable fence
    Old,        \* files docs/reviews/ may hold when this begins
    Historied,  \* names git log knows in docs/reviews/
    MaxResults, \* bound on the results in the transcript
    MaxEdits,   \* bound on the edits
    Nil

Texts == DOMAIN Outcome

Docs  == [verdict : Verdicts \cup {Nil}, body : Texts, eol : {"LF", "CRLF"}]
Files == [claim : Docs \cup {Nil}, doc : Docs] \cup {Nil}

ASSUME VerdictAssumption ==
    /\ Portable \in [BOOLEAN -> [Results -> Texts]]
    /\ Historied \subseteq Names
    /\ Nil \notin Verdicts \cup Texts \cup Names \cup Docs
    /\ Nil \notin [claim : Docs \cup {Nil}, doc : Docs] \cup [verdict : Verdicts \cup {Nil}, body : Texts]
    /\ \A S \in SUBSET Names : S # Nil
    /\ MaxResults \in Nat /\ MaxEdits \in Nat

VARIABLES
    transcript, \* results, in the order they were notified
    docs,       \* docs/reviews/
    reviews,    \* artifacts/reviews/*.md
    records,    \* artifacts/reviews/*.json, by the outcome they carry
    todo,       \* files the running migration has still to visit, or Nil
    moved,      \* the file it has moved and not yet recorded, or Nil
    errorsList, \* names it has noted an error for
    edits,      \* edits so far
    asLanded,   \* history: verdict and body of each file as Land wrote them
    migrated,   \* history: names that came from docs/reviews/
    excused     \* history: names a migration reported, or was killed over

migration == <<todo, moved, errorsList>>
vars == <<transcript, docs, reviews, records, migration, edits, asLanded, migrated, excused>>

-----------------------------------------------------------------------------
(* Hash, landing and verification.                                         *)

\* A slip in HashedPart: the body alone is hashed.
HashedBody(doc) == [doc EXCEPT !.verdict = Nil]

HashedPart(doc) == doc

ToLF(doc) == [doc EXCEPT !.eol = "LF"]

IntegrityLine(doc) == HashedPart(ToLF(doc))

\* What docs/reviews/ holds is hand-written, or as it was landed.
ASSUME OldAssumption == \A f \in Old : f \in Files \ {Nil} /\ f.claim \in {Nil, IntegrityLine(f.doc)}

TestOneVerdict(file) == file.claim # Nil /\ file.claim = IntegrityLine(file.doc)

ResultsOf(t) == {i \in DOMAIN transcript : transcript[i].task = t}

\* The last one: a dispatch that was resumed returns more than once.
GetResultBlockForTask(t) ==
    transcript[CHOOSE i \in ResultsOf(t) : \A j \in ResultsOf(t) : j <= i].text

Text(file) == [verdict |-> file.doc.verdict, body |-> file.doc.body]

\* A slip in Refused: any name may be written anywhere.
RefusedNever(dir, n, force) == FALSE

\* The retired directory is refused, and a file that is there without -Force.
Refused(dir, n, force) == dir = "docs" \/ (reviews[n] # Nil /\ ~force)

Landed(t, v, home) ==
    LET doc == [verdict |-> v, body |-> Portable[home][GetResultBlockForTask(t)], eol |-> "LF"]
    IN  [claim |-> IntegrityLine(doc), doc |-> doc]

Land(dir, n, t, v, home, force) ==
    /\ ResultsOf(t) # {}
    /\ ~Refused(dir, n, force)
    /\ IF dir = "docs"
       THEN docs' = [docs EXCEPT ![n] = Landed(t, v, home)] /\ UNCHANGED <<reviews, asLanded>>
       ELSE /\ reviews' = [reviews EXCEPT ![n] = Landed(t, v, home)]
            /\ asLanded' = [asLanded EXCEPT ![n] = Text(Landed(t, v, home))]
            /\ UNCHANGED docs
    /\ UNCHANGED <<transcript, records, migration, edits, migrated, excused>>

-----------------------------------------------------------------------------
(* The world.                                                              *)

Init ==
    /\ transcript = <<>>
    /\ docs \in [Names -> Old \cup {Nil}]
    /\ reviews = [n \in Names |-> Nil] /\ records = [n \in Names |-> Nil]
    /\ todo = Nil /\ moved = Nil /\ errorsList = {}
    /\ edits = 0
    /\ asLanded = [n \in Names |-> IF docs[n] # Nil /\ docs[n].claim # Nil THEN Text(docs[n]) ELSE Nil]
    /\ migrated = {} /\ excused = {}

\* A dispatch returns, or returns again after it was resumed.
Notified(t, r) ==
    /\ Len(transcript) < MaxResults
    /\ transcript' = Append(transcript, [task |-> t, text |-> r])
    /\ UNCHANGED <<docs, reviews, records, migration, edits, asLanded, migrated, excused>>

EditsDoc(n, doc) ==
    /\ reviews[n] # Nil
    /\ reviews' = [reviews EXCEPT ![n] = [@ EXCEPT !.doc = doc]]
    /\ UNCHANGED <<transcript, docs, records, migration, asLanded, migrated, excused>>

Edit(n) ==
    /\ edits < MaxEdits /\ edits' = edits + 1
    /\ \/ \E v \in Verdicts : EditsDoc(n, [reviews[n].doc EXCEPT !.verdict = v])
       \/ \E b \in Texts : EditsDoc(n, [reviews[n].doc EXCEPT !.body = b])

\* core.autocrlf, an editor.
LineEnds(n) == \E e \in {"LF", "CRLF"} : EditsDoc(n, [reviews[n].doc EXCEPT !.eol = e]) /\ UNCHANGED edits

-----------------------------------------------------------------------------
(* Migrate-Verdicts.ps1; it visits the files by name, which is any order.   *)

Held == {n \in Names : docs[n] # Nil}

\* Without a file in docs/reviews/ there is nothing to do.
MigrateBegins ==
    /\ todo = Nil /\ Held # {}
    /\ todo' = Held /\ errorsList' = {}
    /\ UNCHANGED <<transcript, docs, reviews, records, moved, edits, asLanded, migrated, excused>>

\* A slip in Noted: the catch clause drops the error.
Dropped(n) == UNCHANGED errorsList

Noted(n) == errorsList' = errorsList \cup {n}

\* A slip in MayMove: git mv -f.
MayMoveOver(n) == n \in Historied

\* git mv refuses a destination that exists.
MayMove(n) == n \in Historied /\ reviews[n] = Nil

\* A slip in NotMoved: the exit code of git mv is not looked at.
NotMovedUnchecked(n) ==
    /\ todo # Nil /\ moved = Nil /\ n \in todo /\ ~MayMove(n)
    /\ moved' = n
    /\ UNCHANGED <<transcript, docs, reviews, records, todo, errorsList, edits, asLanded, migrated, excused>>

NotMoved(n) ==
    /\ todo # Nil /\ moved = Nil /\ n \in todo /\ ~MayMove(n)
    /\ Noted(n)
    /\ todo' = todo \ {n}
    /\ UNCHANGED <<transcript, docs, reviews, records, moved, edits, asLanded, migrated, excused>>

Move(n) ==
    /\ todo # Nil /\ moved = Nil /\ n \in todo /\ MayMove(n)
    /\ docs' = [docs EXCEPT ![n] = Nil]
    /\ reviews' = [reviews EXCEPT ![n] = docs[n]]
    /\ moved' = n /\ migrated' = migrated \cup {n}
    /\ UNCHANGED <<transcript, records, todo, errorsList, edits, asLanded, excused>>

\* The envelope's outcome, or else the header's verdict, or else an error.
Fence(file) == Outcome[file.doc.body]
Describable(file) == Fence(file) # Nil \/ file.doc.verdict # Nil
OutcomeOf(file) == IF Fence(file) # Nil THEN Fence(file) ELSE file.doc.verdict

RecordWritten(n) ==
    /\ moved = n /\ Describable(reviews[n])
    /\ records' = [records EXCEPT ![n] = OutcomeOf(reviews[n])]
    /\ moved' = Nil /\ todo' = todo \ {n}
    /\ UNCHANGED <<transcript, docs, reviews, errorsList, edits, asLanded, migrated, excused>>

\* There is nothing to make a record of, or it cannot be written.
NotRecorded(n) ==
    /\ moved = n
    /\ Noted(n)
    /\ moved' = Nil /\ todo' = todo \ {n}
    /\ UNCHANGED <<transcript, docs, reviews, records, edits, asLanded, migrated, excused>>

\* The summary names every error; exit 1 if there is one.
MigrateEnds ==
    /\ todo = {}
    /\ excused' = excused \cup errorsList
    /\ todo' = Nil /\ errorsList' = {}
    /\ UNCHANGED <<transcript, docs, reviews, records, moved, edits, asLanded, migrated>>

MigrateKilled ==
    /\ todo # Nil
    /\ excused' = excused \cup errorsList \cup ({moved} \ {Nil})
    /\ todo' = Nil /\ moved' = Nil /\ errorsList' = {}
    /\ UNCHANGED <<transcript, docs, reviews, records, edits, asLanded, migrated>>

Migrate ==
    \/ MigrateBegins \/ MigrateEnds \/ MigrateKilled
    \/ \E n \in Names : NotMoved(n) \/ Move(n) \/ RecordWritten(n) \/ NotRecorded(n)

Next ==
    \/ \E t \in Tasks, r \in Results : Notified(t, r)
    \/ \E dir \in {"docs", "artifacts"}, n \in Names, t \in Tasks, v \in Verdicts, home, force \in BOOLEAN :
           Land(dir, n, t, v, home, force)
    \/ \E n \in Names : Edit(n) \/ LineEnds(n)
    \/ Migrate

Spec == Init /\ [][Next]_vars

-----------------------------------------------------------------------------
(* Properties.                                                             *)

\* The types; a file a migration stands at is one it has moved and has still to visit;
\* a record has its body.
TypeOK ==
    /\ transcript \in Seq([task : Tasks, text : Results])
    /\ docs \in [Names -> Files] /\ reviews \in [Names -> Files]
    /\ todo \in {Nil} \cup SUBSET Names /\ errorsList \in SUBSET Names
    /\ moved \in Names \cup {Nil} /\ (moved # Nil => moved \in todo /\ moved \in migrated)
    /\ \A n \in Names : records[n] # Nil => reviews[n] # Nil /\ n \in migrated

\* Verification passes for a file exactly when header and body are as they were
\* landed: it notices an edited header as well as an edited body, and takes no
\* conversion of line ends and no move for an edit.
VerifiedAsLanded ==
    \A n \in Names :
        reviews[n] # Nil => (TestOneVerdict(reviews[n]) <=> Text(reviews[n]) = asLanded[n])

\* The migration loses nothing: a file leaves docs/reviews/ only for a free place
\* in artifacts/reviews/, byte for byte, whatever was landed meanwhile, and no
\* script puts a verdict where verification no longer looks.
NoVerdictLost ==
    [][\A n \in Names :
          /\ docs[n] # Nil => docs'[n] = docs[n] \/ (docs'[n] = Nil /\ reviews[n] = Nil /\ reviews'[n] = docs[n])
          /\ docs[n] = Nil => docs'[n] = Nil
          /\ reviews[n] # Nil => reviews'[n] # Nil]_vars

\* A verdict that was migrated without a record has been reported by the run that
\* moved it, or that run was killed over it; no later run will come back to it.
OrphanOnlyByFault ==
    \A n \in migrated : records[n] = Nil => moved = n \/ n \in excused \cup errorsList
=============================================================================
