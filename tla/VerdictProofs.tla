---------------------------- MODULE VerdictProofs ---------------------------
(***************************************************************************)
(* Proofs about Verdict, for any names, tasks, results and verdicts: a     *)
(* file verifies exactly while it is as it was landed, a migration loses   *)
(* none, and none stays without a record unless somebody was told.         *)
(***************************************************************************)
EXTENDS Verdict, WellFoundedInduction, TLAPS

Claims   == Docs \cup {Nil}
WrittenFiles == [claim : Claims, doc : Docs]   \* a file that is there
TextPairs == [verdict : Verdicts \cup {Nil}, body : Texts]

LEMMA NilFacts ==
    /\ Nil \notin Verdicts /\ Nil \notin Texts /\ Nil \notin Names /\ Nil \notin Docs
    /\ Nil \notin WrittenFiles /\ Nil \notin TextPairs /\ Nil \notin SUBSET Names
  BY VerdictAssumption DEF VerdictAssumption, WrittenFiles, Claims, TextPairs

LEMMA FilesAre == Files = WrittenFiles \cup {Nil}
  BY DEF Files, WrittenFiles, Claims

-----------------------------------------------------------------------------
(* What is landed.                                                         *)

LEMMA ElementOfSeq ==
    ASSUME NEW X, NEW s \in Seq(X), NEW i \in 1..Len(s)
    PROVE  s[i] \in X
  OBVIOUS

\* The result that is taken is one of the transcript's.
LEMMA ResultTaken ==
    ASSUME transcript \in Seq([task : Tasks, text : Results]), NEW t \in Tasks, ResultsOf(t) # {}
    PROVE  GetResultBlockForTask(t) \in Results
<1> DEFINE later == {Len(transcript) - i : i \in ResultsOf(t)}
<1>0. Len(transcript) \in Nat /\ DOMAIN transcript = 1..Len(transcript) /\ ResultsOf(t) \subseteq 1..Len(transcript)
  BY DEF ResultsOf
<1>9. ASSUME NEW i \in 1..Len(transcript) PROVE transcript[i].text \in Results
  <2>1. transcript[i] \in [task : Tasks, text : Results]
    BY ElementOfSeq, Zenon
  <2>2. QED
    BY <2>1
<1>1. later \subseteq Nat /\ later # {}
  BY <1>0
<1>2. PICK m \in later : \A y \in later : ~ (<<y, m>> \in OpToRel(<, Nat))
  <2> HIDE DEF later
  <2> QED BY <1>1, NatLessThanWellFounded, WFMin
<1>3. PICK i \in ResultsOf(t) : m = Len(transcript) - i
  OBVIOUS
<1>4. \A j \in ResultsOf(t) : j <= i
  <2>1. TAKE j \in ResultsOf(t)
  <2>2. Len(transcript) - j \in later /\ Len(transcript) - j \in Nat /\ m \in Nat
    BY <1>1
  <2>3. ~ (Len(transcript) - j < m)
    BY <1>2, <2>2 DEF OpToRel
  <2>4. QED
    BY <2>3, <1>0, <1>3
<1> DEFINE last == CHOOSE k \in ResultsOf(t) : \A j \in ResultsOf(t) : j <= k
<1>5. last \in ResultsOf(t)
  BY <1>3, <1>4, Zenon
<1>6. transcript[last].text \in Results
  <2> HIDE DEF last
  <2> QED BY <1>0, <1>9, <1>5
<1>7. GetResultBlockForTask(t) = transcript[last].text
  BY Zenon DEF GetResultBlockForTask
<1>8. QED
  BY <1>6, <1>7

LEMMA HashType ==
    ASSUME NEW doc \in Docs
    PROVE  /\ IntegrityLine(doc) \in Docs
           /\ IntegrityLine(doc) = [verdict |-> doc.verdict, body |-> doc.body, eol |-> "LF"]
  BY DEF Docs, IntegrityLine, HashedPart, ToLF

LEMMA LandedType ==
    ASSUME transcript \in Seq([task : Tasks, text : Results]), NEW t \in Tasks, ResultsOf(t) # {},
           NEW v \in Verdicts, NEW home \in BOOLEAN
    PROVE  /\ Landed(t, v, home) \in WrittenFiles
           /\ Landed(t, v, home).claim = IntegrityLine(Landed(t, v, home).doc)
<1>1. Portable[home][GetResultBlockForTask(t)] \in Texts
  BY ResultTaken, VerdictAssumption DEF VerdictAssumption
<1> DEFINE doc == [verdict |-> v, body |-> Portable[home][GetResultBlockForTask(t)], eol |-> "LF"]
<1>2. doc \in Docs
  BY <1>1 DEF Docs
<1>3. Landed(t, v, home) = [claim |-> IntegrityLine(doc), doc |-> doc]
  BY DEF Landed
<1>4. IntegrityLine(doc) \in Docs
  BY <1>2, HashType
<1>5. QED
  BY <1>2, <1>3, <1>4 DEF WrittenFiles, Claims

LEMMA TextType == ASSUME NEW f \in WrittenFiles PROVE Text(f) \in TextPairs
  BY DEF WrittenFiles, Docs, Text, TextPairs

-----------------------------------------------------------------------------
(* The inductive invariant.                                                *)

RecordTypes == {Outcome[b] : b \in Texts} \cup Verdicts \cup {Nil}

\* The types of what TypeOK says nothing of; a migration that does not run stands
\* nowhere, and one that does has what it has listed before it, or has just moved it.
MoreTypeOK ==
    /\ records \in [Names -> RecordTypes]
    /\ asLanded \in [Names -> TextPairs \cup {Nil}]
    /\ migrated \subseteq Names
    /\ todo = Nil => moved = Nil /\ errorsList = {}
    /\ moved # Nil => reviews[moved] # Nil
    /\ \A n \in Names : todo # Nil /\ n \in todo /\ n # moved => docs[n] # Nil

\* The integrity line of a file is that of the text it was landed with, and a file
\* that was never landed has none.
Claimed(n, file) ==
    file.claim = IF asLanded[n] = Nil THEN Nil
                 ELSE [verdict |-> asLanded[n].verdict, body |-> asLanded[n].body, eol |-> "LF"]

\* A verdict that waits in docs/reviews/ while its place is taken is nobody's: it
\* will not be moved.
ClaimsAsLanded ==
    \A n \in Names :
        /\ reviews[n] # Nil => Claimed(n, reviews[n])
        /\ reviews[n] = Nil /\ docs[n] # Nil => Claimed(n, docs[n])

VerdictInv == TypeOK /\ MoreTypeOK /\ ClaimsAsLanded /\ OrphanOnlyByFault

LEMMA InitVerdictInv == Init => VerdictInv
<1> SUFFICES ASSUME Init PROVE VerdictInv
  OBVIOUS
<1>1. docs \in [Names -> Files] /\ \A n \in Names : docs[n] # Nil => docs[n] \in Old /\ docs[n] \in WrittenFiles
  BY OldAssumption, FilesAre DEF OldAssumption, Init
<1>2. asLanded \in [Names -> TextPairs \cup {Nil}]
  BY <1>1, TextType DEF Init
<1>3. TypeOK
  BY <1>1 DEF Init, TypeOK, Files
<1>4. MoreTypeOK
  BY <1>2 DEF Init, MoreTypeOK, RecordTypes
<1>5. ASSUME NEW n \in Names, docs[n] # Nil PROVE Claimed(n, docs[n])
  <2>1. docs[n].doc \in Docs /\ docs[n].claim \in {Nil, IntegrityLine(docs[n].doc)}
    BY <1>1, <1>5, OldAssumption DEF OldAssumption, WrittenFiles
  <2>2. asLanded[n] = IF docs[n].claim # Nil THEN Text(docs[n]) ELSE Nil
    BY <1>5 DEF Init
  <2>3. docs[n].claim # Nil => asLanded[n] = Text(docs[n]) /\ asLanded[n] # Nil
    BY <1>1, <1>5, <2>2, TextType, NilFacts
  <2>4. QED
    BY <2>1, <2>2, <2>3, HashType DEF Claimed, Text
<1>6. ClaimsAsLanded
  BY <1>5 DEF Init, ClaimsAsLanded
<1>7. OrphanOnlyByFault
  BY DEF Init, OrphanOnlyByFault
<1>8. QED
  BY <1>3, <1>4, <1>6, <1>7 DEF VerdictInv

\* What Land does, in the one directory it writes to.
LEMMA LandEffect ==
    ASSUME VerdictInv,
           NEW dir \in {"docs", "artifacts"}, NEW n \in Names, NEW t \in Tasks, NEW v \in Verdicts,
           NEW home \in BOOLEAN, NEW force \in BOOLEAN, Land(dir, n, t, v, home, force)
    PROVE  /\ reviews' = [reviews EXCEPT ![n] = Landed(t, v, home)]
           /\ asLanded' = [asLanded EXCEPT ![n] = Text(Landed(t, v, home))]
           /\ Landed(t, v, home) \in WrittenFiles /\ Landed(t, v, home).claim = IntegrityLine(Landed(t, v, home).doc)
           /\ UNCHANGED <<transcript, docs, records, migration, edits, migrated, excused>>
<1>1. dir # "docs"
  BY DEF Land, Refused
<1>2. transcript \in Seq([task : Tasks, text : Results]) /\ ResultsOf(t) # {}
  BY DEF Land, VerdictInv, TypeOK
<1>3. QED
  BY <1>1, <1>2, LandedType DEF Land

\* An edit, by hand or of the line ends, leaves the claim as it is.
LEMMA EditEffect ==
    ASSUME VerdictInv, NEW n \in Names, Edit(n) \/ LineEnds(n)
    PROVE  /\ reviews[n] \in WrittenFiles
           /\ \E doc \in Docs : reviews' = [reviews EXCEPT ![n] = [claim |-> reviews[n].claim, doc |-> doc]]
           /\ UNCHANGED <<transcript, docs, records, migration, asLanded, migrated, excused>>
<1>1. PICK doc : /\ EditsDoc(n, doc)
                 /\ \/ \E v \in Verdicts : doc = [reviews[n].doc EXCEPT !.verdict = v]
                    \/ \E b \in Texts : doc = [reviews[n].doc EXCEPT !.body = b]
                    \/ \E e \in {"LF", "CRLF"} : doc = [reviews[n].doc EXCEPT !.eol = e]
  BY DEF Edit, LineEnds
<1>2. reviews[n] \in WrittenFiles
  BY <1>1, FilesAre DEF EditsDoc, VerdictInv, TypeOK
<1>3. doc \in Docs
  <2>1. reviews[n].doc \in Docs
    BY <1>2 DEF WrittenFiles
  <2>2. QED
    BY <1>1, <2>1 DEF Docs
<1>4. reviews' = [reviews EXCEPT ![n] = [reviews[n] EXCEPT !.doc = doc]]
  BY <1>1 DEF EditsDoc
<1>5. [reviews[n] EXCEPT !.doc = doc] = [claim |-> reviews[n].claim, doc |-> doc]
  BY <1>2 DEF WrittenFiles
<1>6. QED
  BY <1>1, <1>2, <1>3, <1>4, <1>5 DEF EditsDoc

LEMMA NextTypes == VerdictInv /\ [Next]_vars => TypeOK' /\ MoreTypeOK'
<1> SUFFICES ASSUME VerdictInv, [Next]_vars PROVE TypeOK' /\ MoreTypeOK'
  OBVIOUS
<1> USE NilFacts
<1>0. TypeOK /\ MoreTypeOK
  BY DEF VerdictInv
<1>1. ASSUME NEW t \in Tasks, NEW r \in Results, Notified(t, r) PROVE TypeOK' /\ MoreTypeOK'
  BY <1>0, <1>1 DEF Notified, migration, TypeOK, MoreTypeOK
<1>2. ASSUME NEW n \in Names, NEW file \in WrittenFiles, reviews' = [reviews EXCEPT ![n] = file],
             asLanded' \in [Names -> TextPairs \cup {Nil}],
             UNCHANGED <<transcript, docs, records, migration, migrated>>
      PROVE  TypeOK' /\ MoreTypeOK'
  <2>1. reviews' \in [Names -> Files] /\ \A m \in Names : reviews[m] # Nil => reviews'[m] # Nil
    BY <1>0, <1>2, FilesAre DEF TypeOK
  <2>2. QED
    BY <1>0, <1>2, <2>1 DEF migration, TypeOK, MoreTypeOK
<1>3. ASSUME NEW dir \in {"docs", "artifacts"}, NEW n \in Names, NEW t \in Tasks, NEW v \in Verdicts,
             NEW home \in BOOLEAN, NEW force \in BOOLEAN, Land(dir, n, t, v, home, force)
      PROVE  TypeOK' /\ MoreTypeOK'
  <2>1. asLanded' \in [Names -> TextPairs \cup {Nil}]
    BY <1>0, <1>3, LandEffect, TextType DEF MoreTypeOK
  <2>2. QED
    BY <1>2, <1>3, <2>1, LandEffect
<1>4. ASSUME NEW n \in Names, Edit(n) \/ LineEnds(n) PROVE TypeOK' /\ MoreTypeOK'
  <2>1. PICK doc \in Docs : reviews' = [reviews EXCEPT ![n] = [claim |-> reviews[n].claim, doc |-> doc]]
    BY <1>4, EditEffect
  <2>2. [claim |-> reviews[n].claim, doc |-> doc] \in WrittenFiles
    BY <1>4, EditEffect DEF WrittenFiles
  <2>3. UNCHANGED <<transcript, docs, records, migration, asLanded, migrated>>
    BY <1>4, EditEffect
  <2>4. asLanded' \in [Names -> TextPairs \cup {Nil}]
    BY <1>0, <2>3 DEF MoreTypeOK
  <2>5. QED
    BY <1>2, <2>1, <2>2, <2>3, <2>4
<1>5. CASE MigrateBegins \/ MigrateEnds \/ MigrateKilled
  BY <1>0, <1>5 DEF MigrateBegins, MigrateEnds, MigrateKilled, Held, TypeOK, MoreTypeOK
<1>6. ASSUME NEW n \in Names, NotMoved(n) \/ NotRecorded(n) PROVE TypeOK' /\ MoreTypeOK'
  <2>1. /\ todo # Nil /\ todo \in SUBSET Names /\ todo' = todo \ {n} /\ errorsList' = errorsList \cup {n}
        /\ moved \in {Nil, n} /\ moved' = Nil
        /\ UNCHANGED <<transcript, docs, reviews, records, asLanded, migrated>>
    BY <1>0, <1>6 DEF NotMoved, NotRecorded, Noted, TypeOK, MoreTypeOK
  <2>2. todo' \in SUBSET Names /\ errorsList' \in SUBSET Names
    BY <1>0, <2>1 DEF TypeOK
  <2>3. TypeOK'
    BY <1>0, <2>1, <2>2 DEF TypeOK
  <2>4. MoreTypeOK'
    BY <1>0, <2>1, <2>2, NilFacts DEF MoreTypeOK
  <2>5. QED
    BY <2>3, <2>4
<1>7. ASSUME NEW n \in Names, Move(n) PROVE TypeOK' /\ MoreTypeOK'
  <2>1. todo # Nil /\ n \in todo /\ moved' = n /\ reviews[n] = Nil
    BY <1>7 DEF Move, MayMove
  <2>2. /\ docs' \in [Names -> Files] /\ reviews' \in [Names -> Files]
        /\ \A m \in Names : reviews[m] # Nil => reviews'[m] # Nil
        /\ \A m \in Names \ {n} : docs'[m] = docs[m]
        /\ reviews'[n] = docs[n]
    BY <1>0, <1>7, <2>1 DEF Move, TypeOK, Files
  <2>3. docs[n] # Nil /\ moved = Nil
    BY <1>0, <1>7, <2>1 DEF Move, MoreTypeOK
  <2>4. TypeOK'
    BY <1>0, <1>7, <2>1, <2>2 DEF Move, TypeOK
  <2>5. MoreTypeOK'
    BY <1>0, <1>7, <2>1, <2>2, <2>3 DEF Move, MoreTypeOK
  <2>6. QED
    BY <2>4, <2>5
<1>8. ASSUME NEW n \in Names, RecordWritten(n) PROVE TypeOK' /\ MoreTypeOK'
  <2>1. moved = n /\ n \in migrated /\ todo # Nil /\ todo \in SUBSET Names
    BY <1>0, <1>8 DEF RecordWritten, TypeOK, MoreTypeOK
  <2>2. reviews[n] \in WrittenFiles
    BY <1>0, <2>1, FilesAre DEF TypeOK, MoreTypeOK
  <2>3. OutcomeOf(reviews[n]) \in RecordTypes
    BY <2>2 DEF OutcomeOf, Fence, RecordTypes, WrittenFiles, Docs
  <2>4. /\ records' = [records EXCEPT ![n] = OutcomeOf(reviews[n])] /\ moved' = Nil /\ todo' = todo \ {n}
        /\ UNCHANGED <<transcript, docs, reviews, errorsList, asLanded, migrated>>
    BY <1>8 DEF RecordWritten
  <2>5. TypeOK'
    BY <1>0, <2>1, <2>2, <2>4 DEF TypeOK, MoreTypeOK
  <2>6. MoreTypeOK'
    BY <1>0, <2>1, <2>3, <2>4 DEF MoreTypeOK
  <2>7. QED
    BY <2>5, <2>6
<1>9. CASE UNCHANGED vars
  BY <1>0, <1>9 DEF vars, migration, TypeOK, MoreTypeOK
<1>10. QED
  BY <1>1, <1>3, <1>4, <1>5, <1>6, <1>7, <1>8, <1>9 DEF Next, Migrate

\* Whatever happens to a file, the line in it stays that of the text it was landed with.
LEMMA NextClaims == VerdictInv /\ [Next]_vars => ClaimsAsLanded'
<1> SUFFICES ASSUME VerdictInv, [Next]_vars PROVE ClaimsAsLanded'
  OBVIOUS
<1> USE NilFacts
<1>0. /\ ClaimsAsLanded
      /\ docs \in [Names -> Files] /\ reviews \in [Names -> Files]
      /\ asLanded \in [Names -> TextPairs \cup {Nil}]
  BY DEF VerdictInv, TypeOK, MoreTypeOK
<1>1. ASSUME UNCHANGED <<docs, reviews, asLanded>> PROVE ClaimsAsLanded'
  BY <1>0, <1>1 DEF ClaimsAsLanded, Claimed
<1>2. ASSUME NEW dir \in {"docs", "artifacts"}, NEW n \in Names, NEW t \in Tasks, NEW v \in Verdicts,
             NEW home \in BOOLEAN, NEW force \in BOOLEAN, Land(dir, n, t, v, home, force)
      PROVE  ClaimsAsLanded'
  <2> DEFINE file == Landed(t, v, home)
  <2>1. /\ reviews' = [reviews EXCEPT ![n] = file] /\ asLanded' = [asLanded EXCEPT ![n] = Text(file)]
        /\ file \in WrittenFiles /\ file.claim = IntegrityLine(file.doc) /\ docs' = docs
    BY <1>2, LandEffect
  <2> HIDE DEF file
  <2>2. Text(file) \in TextPairs /\ Text(file).verdict = file.doc.verdict /\ Text(file).body = file.doc.body
    BY <2>1, TextType DEF Text
  <2>3. file.claim = [verdict |-> file.doc.verdict, body |-> file.doc.body, eol |-> "LF"]
    BY <2>1, HashType DEF WrittenFiles
  <2>4. asLanded'[n] = Text(file) /\ reviews'[n] = file
    BY <1>0, <2>1
  <2>5. \A m \in Names \ {n} : asLanded'[m] = asLanded[m] /\ reviews'[m] = reviews[m]
    BY <1>0, <2>1
  <2>6. Claimed(n, reviews[n])'
    BY <2>2, <2>3, <2>4 DEF Claimed
  <2>7. ASSUME NEW m \in Names \ {n}
        PROVE  /\ reviews'[m] # Nil => Claimed(m, reviews[m])'
               /\ reviews'[m] = Nil /\ docs'[m] # Nil => Claimed(m, docs[m])'
    BY <1>0, <2>1, <2>5 DEF ClaimsAsLanded, Claimed
  <2>8. reviews'[n] # Nil
    BY <2>1, <2>4
  <2>9. QED
    BY <2>6, <2>7, <2>8 DEF ClaimsAsLanded
<1>3. ASSUME NEW n \in Names, Edit(n) \/ LineEnds(n) PROVE ClaimsAsLanded'
  <2>1. PICK doc \in Docs : reviews' = [reviews EXCEPT ![n] = [claim |-> reviews[n].claim, doc |-> doc]]
    BY <1>3, EditEffect
  <2>2. UNCHANGED <<docs, asLanded>> /\ reviews[n] # Nil
    BY <1>3, EditEffect
  <2>3. reviews'[n].claim = reviews[n].claim /\ \A m \in Names \ {n} : reviews'[m] = reviews[m]
    BY <1>0, <2>1
  <2>4. Claimed(n, reviews[n])'
    BY <1>0, <2>2, <2>3 DEF ClaimsAsLanded, Claimed
  <2>5. reviews'[n] # Nil
    <3>1. reviews'[n] = [claim |-> reviews[n].claim, doc |-> doc]
      BY <1>0, <2>1
    <3>2. reviews'[n] \in WrittenFiles
      BY <1>3, <3>1, EditEffect DEF WrittenFiles
    <3>3. QED
      BY <3>2
  <2>6. QED
    BY <1>0, <2>2, <2>3, <2>4, <2>5 DEF ClaimsAsLanded, Claimed
<1>4. ASSUME NEW n \in Names, Move(n) PROVE ClaimsAsLanded'
  <2>1. /\ docs' = [docs EXCEPT ![n] = Nil] /\ reviews' = [reviews EXCEPT ![n] = docs[n]]
        /\ reviews[n] = Nil /\ asLanded' = asLanded
    BY <1>4 DEF Move, MayMove
  <2>2. /\ docs'[n] = Nil /\ reviews'[n] = docs[n]
        /\ \A m \in Names \ {n} : docs'[m] = docs[m] /\ reviews'[m] = reviews[m]
    BY <1>0, <2>1
  <2>3. QED
    BY <1>0, <2>1, <2>2 DEF ClaimsAsLanded, Claimed
<1>5. CASE MigrateBegins \/ MigrateEnds \/ MigrateKilled
  BY <1>1, <1>5 DEF MigrateBegins, MigrateEnds, MigrateKilled
<1>6. ASSUME NEW n \in Names, NotMoved(n) \/ RecordWritten(n) \/ NotRecorded(n) PROVE ClaimsAsLanded'
  BY <1>1, <1>6 DEF NotMoved, RecordWritten, NotRecorded
<1>7. ASSUME NEW t \in Tasks, NEW r \in Results, Notified(t, r) PROVE ClaimsAsLanded'
  BY <1>1, <1>7 DEF Notified
<1>8. CASE UNCHANGED vars
  BY <1>1, <1>8 DEF vars
<1>9. QED
  BY <1>2, <1>3, <1>4, <1>5, <1>6, <1>7, <1>8 DEF Next, Migrate

LEMMA NextOrphan == VerdictInv /\ [Next]_vars => OrphanOnlyByFault'
<1> SUFFICES ASSUME VerdictInv, [Next]_vars PROVE OrphanOnlyByFault'
  OBVIOUS
<1> USE NilFacts
<1>0. TypeOK /\ MoreTypeOK /\ OrphanOnlyByFault
  BY DEF VerdictInv
<1>1. ASSUME UNCHANGED <<records, moved, errorsList, migrated, excused>> PROVE OrphanOnlyByFault'
  BY <1>0, <1>1 DEF OrphanOnlyByFault
<1>2. ASSUME NEW dir \in {"docs", "artifacts"}, NEW n \in Names, NEW t \in Tasks, NEW v \in Verdicts,
             NEW home \in BOOLEAN, NEW force \in BOOLEAN, Land(dir, n, t, v, home, force)
      PROVE  OrphanOnlyByFault'
  BY <1>1, <1>2 DEF Land, migration
<1>3. ASSUME NEW n \in Names, Edit(n) \/ LineEnds(n) PROVE OrphanOnlyByFault'
  BY <1>1, <1>3, EditEffect DEF migration
<1>4. ASSUME NEW t \in Tasks, NEW r \in Results, Notified(t, r) PROVE OrphanOnlyByFault'
  BY <1>1, <1>4 DEF Notified, migration
<1>5. CASE MigrateBegins
  <2>1. moved = Nil /\ errorsList = {} /\ errorsList' = {} /\ UNCHANGED <<records, moved, migrated, excused>>
    BY <1>0, <1>5 DEF MigrateBegins, MoreTypeOK
  <2>2. QED
    BY <1>1, <2>1
<1>6. ASSUME NEW n \in Names, NotMoved(n) \/ NotRecorded(n) PROVE OrphanOnlyByFault'
  <2>1. /\ errorsList' = errorsList \cup {n} /\ UNCHANGED <<records, migrated, excused>>
        /\ moved' = moved \/ moved = n
    BY <1>6 DEF NotMoved, NotRecorded, Noted
  <2>2. QED
    BY <1>0, <2>1 DEF OrphanOnlyByFault
<1>7. ASSUME NEW n \in Names, Move(n) PROVE OrphanOnlyByFault'
  <2>1. moved = Nil /\ moved' = n /\ migrated' = migrated \cup {n} /\ UNCHANGED <<records, errorsList, excused>>
    BY <1>7 DEF Move
  <2>2. \A m \in migrated : m # Nil
    BY <1>0 DEF MoreTypeOK
  <2>3. QED
    BY <1>0, <2>1, <2>2 DEF OrphanOnlyByFault
<1>8. ASSUME NEW n \in Names, RecordWritten(n) PROVE OrphanOnlyByFault'
  <2>1. OutcomeOf(reviews[n]) # Nil
    BY <1>8 DEF RecordWritten, Describable, OutcomeOf
  <2>2. records'[n] # Nil /\ \A m \in Names \ {n} : records'[m] = records[m]
    BY <1>0, <1>8, <2>1 DEF RecordWritten, MoreTypeOK
  <2>3. moved = n /\ UNCHANGED <<errorsList, migrated, excused>>
    BY <1>8 DEF RecordWritten
  <2>4. QED
    BY <1>0, <2>2, <2>3 DEF OrphanOnlyByFault, MoreTypeOK
<1>9. CASE MigrateEnds
  <2>1. todo = {} /\ excused' = excused \cup errorsList /\ UNCHANGED <<records, moved, migrated>>
    BY <1>9 DEF MigrateEnds
  <2>2. QED
    BY <1>0, <2>1 DEF OrphanOnlyByFault
<1>10. CASE MigrateKilled
  <2>1. excused' = excused \cup errorsList \cup ({moved} \ {Nil}) /\ UNCHANGED <<records, migrated>>
    BY <1>10 DEF MigrateKilled
  <2>2. \A m \in migrated : m # Nil
    BY <1>0 DEF MoreTypeOK
  <2>3. QED
    BY <1>0, <2>1, <2>2 DEF OrphanOnlyByFault
<1>11. CASE UNCHANGED vars
  BY <1>1, <1>11 DEF vars, migration
<1>12. QED
  BY <1>2, <1>3, <1>4, <1>5, <1>6, <1>7, <1>8, <1>9, <1>10, <1>11 DEF Next, Migrate

LEMMA VerdictInductive ==
    /\ Init => VerdictInv
    /\ VerdictInv /\ [Next]_vars => VerdictInv'
  BY InitVerdictInv, NextTypes, NextClaims, NextOrphan DEF VerdictInv

-----------------------------------------------------------------------------
(* The theorems.                                                           *)

\* Every variable keeps its type; a migration stands only at a file it has moved, and a
\* record has its body.
THEOREM VerdictTypeCorrect == Spec => []TypeOK
<1>1. VerdictInv => TypeOK
  BY DEF VerdictInv
<1>2. QED
  BY <1>1, VerdictInductive, PTL DEF Spec

\* A file verifies exactly while its header and body are as they were landed, through
\* edits, conversions of the line ends, forced landings and the migration.
THEOREM VerifiesAsLanded == Spec => []VerifiedAsLanded
<1>1. VerdictInv => VerifiedAsLanded
  <2> SUFFICES ASSUME VerdictInv, NEW n \in Names, reviews[n] # Nil
               PROVE  TestOneVerdict(reviews[n]) <=> Text(reviews[n]) = asLanded[n]
    BY DEF VerifiedAsLanded
  <2>1. reviews[n] \in WrittenFiles /\ reviews[n].doc \in Docs
    BY FilesAre DEF VerdictInv, TypeOK, WrittenFiles
  <2>2. IntegrityLine(reviews[n].doc) =
            [verdict |-> reviews[n].doc.verdict, body |-> reviews[n].doc.body, eol |-> "LF"]
    BY <2>1, HashType
  <2>3. Claimed(n, reviews[n])
    BY DEF VerdictInv, ClaimsAsLanded
  <2>4. CASE asLanded[n] = Nil
    <3>1. Text(reviews[n]) # Nil
      BY <2>1, TextType, NilFacts
    <3>2. reviews[n].claim = Nil
      BY <2>3, <2>4 DEF Claimed
    <3>3. QED
      BY <2>4, <3>1, <3>2 DEF TestOneVerdict
  <2>5. CASE asLanded[n] # Nil
    <3>1. asLanded[n] \in TextPairs
      BY <2>5 DEF VerdictInv, MoreTypeOK
    <3>2. reviews[n].claim = [verdict |-> asLanded[n].verdict, body |-> asLanded[n].body, eol |-> "LF"]
      BY <2>3, <2>5 DEF Claimed
    <3>3. reviews[n].claim # Nil
      BY <3>1, <3>2, NilFacts DEF Docs, TextPairs
    <3>4. Text(reviews[n]) = asLanded[n] <=>
              reviews[n].doc.verdict = asLanded[n].verdict /\ reviews[n].doc.body = asLanded[n].body
      BY <3>1 DEF Text, TextPairs
    <3>5. reviews[n].claim = IntegrityLine(reviews[n].doc) <=>
              reviews[n].doc.verdict = asLanded[n].verdict /\ reviews[n].doc.body = asLanded[n].body
      BY <2>2, <3>2
    <3>6. QED
      BY <3>3, <3>4, <3>5 DEF TestOneVerdict
  <2>6. QED
    BY <2>4, <2>5
<1>2. QED
  BY <1>1, VerdictInductive, PTL DEF Spec

\* A verdict that was migrated without a record has been reported by the run that moved
\* it, or that run was killed over it.
THEOREM OrphansAreReported == Spec => []OrphanOnlyByFault
<1>1. VerdictInv => OrphanOnlyByFault
  BY DEF VerdictInv
<1>2. QED
  BY <1>1, VerdictInductive, PTL DEF Spec

\* A file leaves docs/reviews/ only for a free place in artifacts/reviews/, as it is, and
\* no file of artifacts/reviews/ ever disappears.
THEOREM MigrationLosesNothing == Spec => NoVerdictLost
<1> DEFINE Kept(n) ==
        /\ docs[n] # Nil => docs'[n] = docs[n] \/ (docs'[n] = Nil /\ reviews[n] = Nil /\ reviews'[n] = docs[n])
        /\ docs[n] = Nil => docs'[n] = Nil
        /\ reviews[n] # Nil => reviews'[n] # Nil
<1>1. ASSUME VerdictInv, [Next]_vars, NEW n \in Names PROVE Kept(n)
  <2>0. docs \in [Names -> Files] /\ reviews \in [Names -> Files]
    BY <1>1 DEF VerdictInv, TypeOK
  <2>1. ASSUME UNCHANGED <<docs, reviews>> PROVE Kept(n)
    BY <2>1
  <2>2. ASSUME NEW m \in Names, NEW file \in WrittenFiles, reviews' = [reviews EXCEPT ![m] = file], docs' = docs
        PROVE  Kept(n)
    BY <2>0, <2>2, NilFacts
  <2>3. ASSUME NEW dir \in {"docs", "artifacts"}, NEW m \in Names, NEW t \in Tasks, NEW v \in Verdicts,
               NEW home \in BOOLEAN, NEW force \in BOOLEAN, Land(dir, m, t, v, home, force)
        PROVE  Kept(n)
    BY <1>1, <2>2, <2>3, LandEffect
  <2>4. ASSUME NEW m \in Names, Edit(m) \/ LineEnds(m) PROVE Kept(n)
    <3>1. PICK doc \in Docs : reviews' = [reviews EXCEPT ![m] = [claim |-> reviews[m].claim, doc |-> doc]]
      BY <1>1, <2>4, EditEffect
    <3>2. [claim |-> reviews[m].claim, doc |-> doc] \in WrittenFiles
      BY <1>1, <2>4, EditEffect DEF WrittenFiles
    <3>3. QED
      BY <1>1, <2>2, <2>4, <3>1, <3>2, EditEffect
  <2>5. ASSUME NEW m \in Names, Move(m) PROVE Kept(n)
    <3>1. /\ docs' = [docs EXCEPT ![m] = Nil] /\ reviews' = [reviews EXCEPT ![m] = docs[m]]
          /\ reviews[m] = Nil
      BY <2>5 DEF Move, MayMove
    <3>2. QED
      BY <2>0, <3>1
  <2>6. CASE MigrateBegins \/ MigrateEnds \/ MigrateKilled
    BY <2>1, <2>6 DEF MigrateBegins, MigrateEnds, MigrateKilled
  <2>7. ASSUME NEW m \in Names, NotMoved(m) \/ RecordWritten(m) \/ NotRecorded(m) PROVE Kept(n)
    BY <2>1, <2>7 DEF NotMoved, RecordWritten, NotRecorded
  <2>8. ASSUME NEW t \in Tasks, NEW r \in Results, Notified(t, r) PROVE Kept(n)
    BY <2>1, <2>8 DEF Notified
  <2>9. CASE UNCHANGED vars
    BY <2>1, <2>9 DEF vars
  <2>10. QED
    BY <1>1, <2>3, <2>4, <2>5, <2>6, <2>7, <2>8, <2>9 DEF Next, Migrate
<1>2. VerdictInv /\ [Next]_vars => [\A n \in Names : Kept(n)]_vars
  BY <1>1
<1>3. QED
  BY <1>2, VerdictInductive, PTL DEF Spec, NoVerdictLost
=============================================================================
