------------------------ MODULE ArtifactStoreProofs -------------------------
(***************************************************************************)
(* Proofs about ArtifactStore, for any invocations, subjects, clock and    *)
(* number of attempts: what an exit says is so on disk and in the commit,  *)
(* a scan misses no record that was there, and two dispatches of a subject *)
(* are open together only if their producers overlapped.                   *)
(***************************************************************************)
EXTENDS ArtifactStore, TLAPS

Contents == Invocations \cup {Torn, Nil}

\* An invocation has no path before its intake, and none if it ended there.
NoPath == {"off", "skipped", "failed"}

\* It has written its record; it is past the duplicate-dispatch guard.
Written == {"add", "commit", "committing", "unsaved", "saved"}
Past    == Written \cup {"create", "fill"}

\* Killed, it may have written it.
Placed == Written \cup {"killed"}

Stands == Past \cup Placed \cup NoPath \cup {"guard", "refused"}

LEMMA ConstantFacts ==
    /\ Nil \notin Invocations /\ Torn \notin Invocations /\ Torn # Nil /\ Nil \notin Path
    /\ MaxAttempts \in Nat /\ MaxAttempts >= 1 /\ MaxTime \in Nat
    /\ Path = [subject : Subjects, kind : {"dispatched", "returned"}, at : 0..MaxTime]
  BY StoreAssumption, PathAssumption DEF StoreAssumption, PathAssumption, Path

LEMMA StandsAre ==
    Stands = Ends \cup {"off", "guard", "create", "fill", "add", "commit", "committing"}
  BY DEF Stands, Past, Placed, Written, NoPath, Ends

-----------------------------------------------------------------------------
(* The inductive invariant.                                                *)

PathsKept == \A i \in Invocations : path[i] = Nil <=> pc[i] \in NoPath

\* A file has an invocation that names it, and one that is complete is its writer's.
DiskOwned ==
    \A p \in Path :
        /\ disk[p] # Nil => \E i \in Invocations : path[i] = p
        /\ disk[p] \in Invocations => path[disk[p]] = p /\ pc[disk[p]] \in Placed

\* Nobody but its writer changes a file that one invocation alone names.
OwnFile ==
    \A i \in Invocations : Alone(i) =>
        /\ pc[i] \in Written => disk[path[i]] = i
        /\ pc[i] = "saved" => head[path[i]] = i

\* What a commit has taken is a record whose invocation says so, or of a shared file.
HeadOwned ==
    \A p \in Path : head[p] # Nil =>
        \/ \E i \in Invocations : head[p] = i /\ path[i] = p /\ pc[i] = "saved"
        \/ \E i, j \in Invocations : i # j /\ path[i] = p /\ path[j] = p

\* The dispatches an invocation came after are still there.
AfterKnown ==
    \A i \in Invocations : \A j \in after[i] :
        path[j] \in Path /\ path[j].kind = "dispatched" /\ disk[path[j]] # Nil

\* A dispatch is past the guard, or has its record, only if those it came after
\* had returned.
GuardHeld ==
    \A i \in Invocations :
        /\ path[i] # Nil /\ path[i].kind = "dispatched"
        /\ pc[i] \in Past \/ disk[path[i]] = i
        => \A j \in after[i] : path[j].subject = path[i].subject =>
               Named(path[i].subject, "returned") # {}

\* What was there when the scan began is still there ...
StillThere ==
    spc # "idle" => \A r \in before :
        /\ path[r.by] = r.path /\ pc[r.by] \in Placed
        /\ Alone(r.by) => disk[r.path] = r.by

\* ... and is read, or going to be.
StillListed ==
    \A r \in before : r.path.at <= scanNow /\ Alone(r.by) =>
        /\ spc = "read" => r.path \in todo \/ r \in survivors
        /\ spc = "returned" => r \in survivors

StoreInv ==
    /\ TypeOK /\ PathsKept /\ DiskOwned /\ OwnFile /\ HeadOwned
    /\ AfterKnown /\ GuardHeld /\ StillThere /\ StillListed

LEMMA InitStoreInv ==
    ASSUME Init
    PROVE  StoreInv
<1>1. TypeOK
  <2>1. now \in 0..MaxTime /\ scanNow \in 0..MaxTime /\ attempt \in [Invocations -> 1..MaxAttempts]
    BY ConstantFacts DEF Init
  <2>2. QED
    BY <2>1 DEF Init, TypeOK
<1>2. PathsKept /\ OwnFile
  BY ConstantFacts DEF Init, PathsKept, OwnFile, NoPath, Written
<1>3. DiskOwned /\ HeadOwned
  BY ConstantFacts DEF Init, DiskOwned, HeadOwned
<1>4. AfterKnown /\ GuardHeld /\ StillThere /\ StillListed
  BY DEF Init, AfterKnown, GuardHeld, StillThere, StillListed
<1>5. QED
  BY <1>1, <1>2, <1>3, <1>4 DEF StoreInv

-----------------------------------------------------------------------------
(* What a step may do.                                                     *)

\* Files are written, never removed, and only by who names them; commits take
\* what is on disk; a path, once settled, stays; and nobody goes back.
Moves ==
    /\ \A p \in Path : disk[p] # Nil => disk'[p] # Nil
    /\ \A p \in Path : disk'[p] # disk[p] => \E i \in Invocations :
           /\ path[i] = p
           /\ \/ pc[i] = "create" /\ disk'[p] = Torn
              \/ pc[i] = "fill" /\ pc'[i] = "add" /\ disk'[p] = i
    /\ \A p \in Path : head'[p] # head[p] => \E i \in Invocations :
           path[i] = p /\ pc[i] = "committing" /\ pc'[i] = "saved" /\ head'[p] = disk[p]
    /\ \A i \in Invocations :
           /\ path[i] # Nil => path'[i] = path[i] /\ after'[i] = after[i]
           /\ path[i] = Nil => /\ pc'[i] \in NoPath \cup {"guard"}
                               /\ after'[i] = after[i] \/ after'[i] \subseteq {w.by : w \in DispatchedWhole}
           /\ path'[i] = Nil <=> pc'[i] \in NoPath
           /\ pc[i] \in Placed => pc'[i] \in Placed
           /\ pc'[i] \in Past => \/ pc[i] \in Past
                                 \/ pc[i] = "guard" /\ ~(path[i].kind = "dispatched" /\ Open(path[i].subject))
           /\ pc'[i] \in Written => pc[i] \in Written \/ (pc[i] = "fill" /\ disk'[path[i]] = i)
           /\ pc[i] = "saved" => pc'[i] = "saved"
           /\ pc'[i] = "saved" => pc[i] = "saved" \/ (pc[i] = "committing" /\ head'[path[i]] = disk[path[i]])

\* Steps that move no file and settle no path.
PcMoves(i, to) ==
    /\ UNCHANGED <<disk, head, path, after>>
    /\ pc' = [pc EXCEPT ![i] = to]

LEMMA PcMovesIsMove ==
    ASSUME TypeOK, PathsKept, NEW i \in Invocations, NEW to, PcMoves(i, to),
           pc[i] \in NoPath <=> to \in NoPath,
           pc[i] \in Placed => to \in Placed,
           to \in Past => \/ pc[i] \in Past
                          \/ pc[i] = "guard" /\ ~(path[i].kind = "dispatched" /\ Open(path[i].subject)),
           to \in Written => pc[i] \in Written,
           pc[i] = "saved" => to = "saved", to = "saved" => pc[i] = "saved"
    PROVE  Moves
<1>1. \A j \in Invocations : pc'[j] = IF j = i THEN to ELSE pc[j]
  BY DEF PcMoves, TypeOK
<1>2. UNCHANGED <<disk, head, path, after>>
  BY DEF PcMoves
<1>3. ASSUME NEW j \in Invocations
      PROVE  /\ path[j] # Nil => path'[j] = path[j] /\ after'[j] = after[j]
             /\ path[j] = Nil => pc'[j] \in NoPath \cup {"guard"} /\ after'[j] = after[j]
             /\ path'[j] = Nil <=> pc'[j] \in NoPath
             /\ pc[j] \in Placed => pc'[j] \in Placed
             /\ pc'[j] \in Past => \/ pc[j] \in Past
                                   \/ pc[j] = "guard" /\ ~(path[j].kind = "dispatched" /\ Open(path[j].subject))
             /\ pc'[j] \in Written => pc[j] \in Written
             /\ pc[j] = "saved" => pc'[j] = "saved"
             /\ pc'[j] = "saved" => pc[j] = "saved"
  BY <1>1, <1>2 DEF PathsKept
<1>4. QED
  BY <1>2, <1>3, Zenon DEF Moves

LEMMA HookMoves ==
    ASSUME TypeOK, PathsKept, NEW i \in Invocations, Hook(i)
    PROVE  TypeOK' /\ Moves /\ UNCHANGED scanVars
<1>1. CASE Skip(i) \/ Reject(i)
  <2>1. PICK to \in {"skipped", "failed"} : PcMoves(i, to)
    BY <1>1 DEF Skip, Reject, Throw, PcMoves, gitVars
  <2>2. pc[i] = "off" /\ UNCHANGED <<now, lock, attempt, scanVars>>
    BY <1>1 DEF Skip, Reject, gitVars
  <2>3. Moves
    BY <2>1, <2>2, PcMovesIsMove DEF NoPath, Placed, Past, Written
  <2>4. TypeOK'
    BY <2>1, <2>2 DEF TypeOK, PcMoves, Ends, scanVars
  <2>5. QED
    BY <2>2, <2>3, <2>4
<1>2. ASSUME NEW s \in Subjects, NEW k \in {"dispatched", "returned"}, Begin(i, s, k)
      PROVE  TypeOK' /\ Moves /\ UNCHANGED scanVars
  <2> DEFINE p == [subject |-> s, kind |-> k, at |-> now]
             came == IF k = "dispatched" THEN {w.by : w \in DispatchedWhole} ELSE {}
  <2>1. pc[i] = "off" /\ UNCHANGED <<now, disk, head, lock, attempt, scanVars>>
    BY <1>2 DEF Begin, gitVars
  <2>2. /\ pc' = [pc EXCEPT ![i] = "guard"] /\ path' = [path EXCEPT ![i] = p]
        /\ after' = [after EXCEPT ![i] = came]
    BY <1>2 DEF Begin
  <2>3. p \in Path /\ p # Nil
    BY ConstantFacts DEF TypeOK
  <2>4. came \in SUBSET Invocations /\ came \subseteq {w.by : w \in DispatchedWhole}
    BY DEF DispatchedWhole, Whole
  <2> HIDE DEF p, came
  <2>5. TypeOK'
    BY <2>1, <2>2, <2>3, <2>4 DEF TypeOK, scanVars
  <2>6. path[i] = Nil
    BY <2>1 DEF PathsKept, NoPath
  <2>7. \A j \in Invocations :
            /\ pc'[j] = IF j = i THEN "guard" ELSE pc[j]
            /\ path'[j] = IF j = i THEN p ELSE path[j]
            /\ after'[j] = IF j = i THEN came ELSE after[j]
    BY <2>2 DEF TypeOK
  <2>8. ASSUME NEW j \in Invocations
        PROVE  /\ path[j] # Nil => path'[j] = path[j] /\ after'[j] = after[j]
               /\ path[j] = Nil => /\ pc'[j] \in NoPath \cup {"guard"}
                                   /\ after'[j] = after[j] \/ after'[j] \subseteq {w.by : w \in DispatchedWhole}
               /\ path'[j] = Nil <=> pc'[j] \in NoPath
               /\ pc[j] \in Placed => pc'[j] \in Placed
               /\ pc'[j] \in Past => pc[j] \in Past
               /\ pc'[j] \in Written => pc[j] \in Written
               /\ pc[j] = "saved" => pc'[j] = "saved"
               /\ pc'[j] = "saved" => pc[j] = "saved"
    <3>1. CASE j = i
      BY <3>1, <2>1, <2>3, <2>4, <2>6, <2>7 DEF NoPath, Placed, Past, Written
    <3>2. CASE j # i
      BY <3>2, <2>7 DEF PathsKept
    <3>3. QED
      BY <3>1, <3>2
  <2>9. Moves
    <3>1. disk' = disk /\ head' = head
      BY <2>1
    <3>2. QED
      BY <3>1, <2>8, Zenon DEF Moves
  <2>10. QED
    BY <2>1, <2>5, <2>9
<1>3. QED
  BY <1>1, <1>2 DEF Hook

\* The steps of git that change no file, no commit: the index lock, another attempt.
LEMMA AttemptMoves ==
    ASSUME TypeOK, PathsKept, NEW i \in Invocations, Add(i) \/ Commit(i) \/ Guard(i)
    PROVE  TypeOK' /\ Moves /\ UNCHANGED scanVars
<1>1. UNCHANGED <<now, disk, head, path, after, scanVars>>
  BY DEF Add, Commit, Guard, gitVars
<1>2. CASE Guard(i)
  <2>1. PICK to \in {"refused", "create"} : PcMoves(i, to)
    BY <1>1, <1>2 DEF Guard, Throw, PcMoves
  <2>2. pc[i] = "guard" /\ UNCHANGED <<lock, attempt>>
    BY <1>2 DEF Guard, gitVars
  <2>3. to = "create" => ~(path[i].kind = "dispatched" /\ Open(path[i].subject))
    <3>1. pc'[i] = to
      BY <2>1 DEF PcMoves, TypeOK
    <3>2. QED
      BY <3>1, <1>2 DEF Guard, Throw, TypeOK
  <2>4. Moves
    BY <2>1, <2>2, <2>3, PcMovesIsMove DEF NoPath, Placed, Past, Written
  <2>5. TypeOK'
    BY <1>1, <2>1, <2>2 DEF TypeOK, PcMoves, Ends, scanVars
  <2>6. QED
    BY <1>1, <2>4, <2>5
<1>3. CASE Add(i) \/ Commit(i)
  <2>1. PICK to \in {"add", "commit", "committing", "unsaved"} : PcMoves(i, to)
    BY <1>1, <1>3 DEF Add, Commit, AttemptFails, Throw, PcMoves
  <2>2. pc[i] \in {"add", "commit"} /\ lock' \in {lock, i}
    BY <1>3 DEF Add, Commit, gitVars
  <2>3. attempt' \in [Invocations -> 1..MaxAttempts]
    <3>1. \/ UNCHANGED attempt
          \/ attempt[i] # MaxAttempts /\ attempt' = [attempt EXCEPT ![i] = attempt[i] + 1]
      BY <1>3 DEF Add, Commit, AttemptFails
    <3>2. attempt[i] \in 1..MaxAttempts
      BY DEF TypeOK
    <3>3. attempt[i] # MaxAttempts => attempt[i] + 1 \in 1..MaxAttempts
      BY <3>2, ConstantFacts
    <3>4. QED
      BY <3>1, <3>3 DEF TypeOK
  <2>4. Moves
    BY <2>1, <2>2, PcMovesIsMove DEF NoPath, Placed, Past, Written
  <2>5. TypeOK'
    BY <1>1, <2>1, <2>2, <2>3 DEF TypeOK, PcMoves, Ends, scanVars
  <2>6. QED
    BY <1>1, <2>4, <2>5
<1>4. QED
  BY <1>2, <1>3

LEMMA KillMoves ==
    ASSUME TypeOK, PathsKept, NEW i \in Invocations, Kill(i)
    PROVE  TypeOK' /\ Moves /\ UNCHANGED scanVars
<1>1. PcMoves(i, "killed") /\ UNCHANGED <<now, lock, attempt, scanVars>>
  BY DEF Kill, PcMoves, gitVars
<1>2. pc[i] \notin NoPath /\ pc[i] # "saved"
  BY DEF Kill, Running, Ends, NoPath
<1>3. Moves
  BY <1>1, <1>2, PcMovesIsMove DEF NoPath, Placed, Past, Written
<1>4. TypeOK'
  BY <1>1 DEF TypeOK, PcMoves, Ends, scanVars
<1>5. QED
  BY <1>1, <1>3, <1>4

\* Who is about to write, or to commit, has a path.
LEMMA PathOfRunning ==
    ASSUME TypeOK, PathsKept, NEW i \in Invocations, pc[i] \in {"create", "fill"} \cup Written
    PROVE  path[i] \in Path /\ path[i] # Nil
  BY ConstantFacts DEF TypeOK, PathsKept, NoPath, Written

LEMMA WriteMoves ==
    ASSUME TypeOK, PathsKept, NEW i \in Invocations, Create(i) \/ Fill(i)
    PROVE  TypeOK' /\ Moves /\ UNCHANGED scanVars
<1>1. PICK what \in {Torn, i} :
        /\ disk' = [disk EXCEPT ![path[i]] = what]
        /\ \/ pc[i] = "create" /\ what = Torn /\ pc' = [pc EXCEPT ![i] = "fill"]
           \/ pc[i] = "fill" /\ what = i /\ pc' = [pc EXCEPT ![i] = "add"]
  BY DEF Create, Fill
<1>2. UNCHANGED <<now, head, lock, path, attempt, after, scanVars>>
  BY DEF Create, Fill, gitVars
<1>3. path[i] \in Path /\ path[i] # Nil
  BY <1>1, PathOfRunning
<1>4. \A p \in Path : disk'[p] = IF p = path[i] THEN what ELSE disk[p]
  BY <1>1 DEF TypeOK
<1>5. what # Nil
  BY ConstantFacts
<1>6. \A j \in Invocations : j # i => pc'[j] = pc[j]
  BY <1>1 DEF TypeOK
<1>7. \/ pc[i] = "create" /\ what = Torn /\ pc'[i] = "fill"
      \/ pc[i] = "fill" /\ what = i /\ pc'[i] = "add"
  BY <1>1 DEF TypeOK
<1>8. TypeOK'
  BY <1>1, <1>2 DEF TypeOK, scanVars
<1>9. \A p \in Path : disk[p] # Nil => disk'[p] # Nil
  BY <1>4, <1>5
<1>10. \A p \in Path : disk'[p] # disk[p] => \E j \in Invocations :
           /\ path[j] = p
           /\ \/ pc[j] = "create" /\ disk'[p] = Torn
              \/ pc[j] = "fill" /\ pc'[j] = "add" /\ disk'[p] = j
  BY <1>4, <1>7
<1>11. ASSUME NEW j \in Invocations
       PROVE  /\ path[j] = Nil => pc'[j] \in NoPath \cup {"guard"}
              /\ path'[j] = Nil <=> pc'[j] \in NoPath
              /\ pc[j] \in Placed => pc'[j] \in Placed
              /\ pc'[j] \in Past => pc[j] \in Past
              /\ pc'[j] \in Written => pc[j] \in Written \/ (pc[j] = "fill" /\ disk'[path[j]] = j)
              /\ pc[j] = "saved" <=> pc'[j] = "saved"
  <2>1. CASE j = i
    BY <2>1, <1>2, <1>3, <1>4, <1>7 DEF NoPath, Placed, Past, Written
  <2>2. CASE j # i
    BY <2>2, <1>2, <1>6 DEF PathsKept
  <2>3. QED
    BY <2>1, <2>2
<1>12. Moves
  BY <1>2, <1>9, <1>10, <1>11, Zenon DEF Moves
<1>13. QED
  BY <1>2, <1>8, <1>12

LEMMA CommittingMoves ==
    ASSUME TypeOK, PathsKept, NEW i \in Invocations, Committing(i)
    PROVE  TypeOK' /\ Moves /\ UNCHANGED scanVars
<1>1. pc[i] = "committing" /\ UNCHANGED <<now, disk, path, after, scanVars>> /\ lock' = Nil
  BY DEF Committing
<1>2. head' = [head EXCEPT ![path[i]] = disk[path[i]]]
  BY DEF Committing, Committed
<1>3. path[i] \in Path /\ path[i] # Nil
  BY <1>1, PathOfRunning DEF Written
<1>4. PICK to \in {"add", "unsaved", "saved"} :
        /\ pc' = [pc EXCEPT ![i] = to]
        /\ to = "saved" <=> head[path[i]] # disk[path[i]]
        /\ \/ UNCHANGED attempt
           \/ attempt[i] # MaxAttempts /\ attempt' = [attempt EXCEPT ![i] = attempt[i] + 1]
  <2>1. CASE head[path[i]] = disk[path[i]]
    BY <2>1 DEF Committing, AttemptFails, Throw
  <2>2. CASE head[path[i]] # disk[path[i]]
    BY <2>2 DEF Committing
  <2>3. QED
    BY <2>1, <2>2
<1>5. attempt' \in [Invocations -> 1..MaxAttempts]
  <2>1. attempt[i] \in 1..MaxAttempts
    BY DEF TypeOK
  <2>2. attempt[i] # MaxAttempts => attempt[i] + 1 \in 1..MaxAttempts
    BY <2>1, ConstantFacts
  <2>3. QED
    BY <1>4, <2>2 DEF TypeOK
<1>6. /\ \A p \in Path : head'[p] = IF p = path[i] THEN disk[p] ELSE head[p]
      /\ \A j \in Invocations : pc'[j] = IF j = i THEN to ELSE pc[j]
  BY <1>2, <1>4 DEF TypeOK
<1>7. TypeOK'
  <2>1. disk[path[i]] \in Invocations \cup {Torn, Nil}
    BY <1>3 DEF TypeOK
  <2>2. head' \in [Path -> Invocations \cup {Torn, Nil}]
    BY <1>2, <2>1 DEF TypeOK
  <2>3. pc' \in [Invocations -> Ends \cup {"off", "guard", "create", "fill", "add", "commit", "committing"}]
    BY <1>4 DEF TypeOK, Ends
  <2>4. QED
    BY <1>1, <1>5, <2>2, <2>3 DEF TypeOK, scanVars
<1>8. \A p \in Path : head'[p] # head[p] => \E j \in Invocations :
          path[j] = p /\ pc[j] = "committing" /\ pc'[j] = "saved" /\ head'[p] = disk[p]
  BY <1>1, <1>4, <1>6
<1>9. ASSUME NEW j \in Invocations
      PROVE  /\ path[j] = Nil => pc'[j] \in NoPath \cup {"guard"}
             /\ path'[j] = Nil <=> pc'[j] \in NoPath
             /\ pc[j] \in Placed => pc'[j] \in Placed
             /\ pc'[j] \in Past => pc[j] \in Past
             /\ pc'[j] \in Written => pc[j] \in Written
             /\ pc[j] = "saved" => pc'[j] = "saved"
             /\ pc'[j] = "saved" => pc[j] = "saved" \/ (pc[j] = "committing" /\ head'[path[j]] = disk[path[j]])
  <2>1. CASE j = i
    BY <2>1, <1>1, <1>3, <1>6 DEF NoPath, Placed, Past, Written
  <2>2. CASE j # i
    BY <2>2, <1>1, <1>6 DEF PathsKept
  <2>3. QED
    BY <2>1, <2>2
<1>10. Moves
  BY <1>1, <1>8, <1>9, Zenon DEF Moves
<1>11. QED
  BY <1>1, <1>7, <1>10

\* The scan and the clock move nothing of the producers'.
Rests == UNCHANGED <<disk, head, lock, pc, path, attempt, after>>

LEMMA RestsIsMove ==
    ASSUME TypeOK, PathsKept, Rests
    PROVE  Moves
  BY Zenon DEF Rests, Moves, PathsKept

LEMMA ScanType ==
    ASSUME TypeOK, Scan
    PROVE  TypeOK' /\ Rests
<1>1. Rests
  BY DEF Scan, ScanBegin, Walk, ReadOne, Return, Rests, gitVars, prodVars
<1>2. now' = now
  BY DEF Scan, ScanBegin, Walk, ReadOne, Return
<1>3. Whole \in SUBSET [path : Path, by : Invocations]
  BY DEF Whole
<1>4. /\ spc' \in {"idle", "walk", "read", "returned"} /\ scanNow' \in 0..MaxTime
      /\ todo' \in SUBSET Path
      /\ survivors' \in SUBSET [path : Path, by : Invocations]
      /\ before' \in SUBSET [path : Path, by : Invocations]
  <2>1. CASE ScanBegin
    BY <2>1, <1>3 DEF ScanBegin, TypeOK
  <2>2. CASE Walk
    BY <2>2 DEF Walk, Listed, TypeOK
  <2>3. CASE Return
    BY <2>3 DEF Return, TypeOK
  <2>4. ASSUME NEW p \in Path, ReadOne(p)
        PROVE  /\ survivors' \in SUBSET [path : Path, by : Invocations]
               /\ todo' \in SUBSET Path /\ UNCHANGED <<spc, scanNow, before>>
    BY <2>4 DEF ReadOne, Accepts, TypeOK
  <2>5. QED
    BY <2>1, <2>2, <2>3, <2>4 DEF Scan, TypeOK
<1>5. QED
  BY <1>1, <1>2, <1>4 DEF TypeOK, Rests

LEMMA NextMoves ==
    ASSUME TypeOK, PathsKept, [Next]_vars
    PROVE  TypeOK' /\ Moves /\ (UNCHANGED scanVars \/ (Scan /\ Rests))
<1>1. CASE Tick
  <2>1. now' \in 0..MaxTime /\ Rests /\ UNCHANGED scanVars
    BY <1>1, ConstantFacts DEF Tick, Rests, gitVars, prodVars, TypeOK
  <2>2. QED
    BY <2>1, RestsIsMove DEF TypeOK, Rests, scanVars
<1>2. CASE Scan
  BY <1>2, ScanType, RestsIsMove
<1>3. ASSUME NEW i \in Invocations, Hook(i) \/ Produce(i) \/ Kill(i)
      PROVE  TypeOK' /\ Moves /\ UNCHANGED scanVars
  BY <1>3, HookMoves, AttemptMoves, WriteMoves, CommittingMoves, KillMoves, Zenon DEF Produce
<1>4. CASE UNCHANGED vars
  <2>1. Rests /\ UNCHANGED scanVars /\ now' = now
    BY <1>4 DEF vars, gitVars, prodVars, Rests
  <2>2. QED
    BY <2>1, RestsIsMove DEF TypeOK, Rests, scanVars
<1>5. QED
  BY <1>1, <1>2, <1>3, <1>4, Zenon DEF Next

-----------------------------------------------------------------------------
(* Each part of the invariant is kept by whatever moves like that.         *)

LEMMA PathsStay ==
    ASSUME PathsKept, Moves
    PROVE  PathsKept'
  BY DEF PathsKept, Moves

\* A file one invocation alone names was its alone before.
LEMMA AloneBefore ==
    ASSUME TypeOK, Moves, NEW i \in Invocations, path[i] # Nil, Alone(i)'
    PROVE  Alone(i)
<1>1. ASSUME NEW j \in Invocations \ {i}, path[j] = path[i] PROVE FALSE
  <2>1. path'[i] = path[i] /\ path'[j] = path[j]
    BY <1>1, Zenon DEF Moves
  <2>2. path'[j] # path'[i]
    BY DEF Alone
  <2>3. QED
    BY <1>1, <2>1, <2>2
<1>2. QED
  BY <1>1 DEF Alone

\* Nobody writes to such a file but its invocation, before its record is in it.
LEMMA OwnFileKept ==
    ASSUME TypeOK, Moves, NEW i \in Invocations, path[i] \in Path, Alone(i), pc[i] \in Placed
    PROVE  disk'[path[i]] = disk[path[i]]
<1>1. ASSUME NEW j \in Invocations, path[j] = path[i], pc[j] \in {"create", "fill"} PROVE FALSE
  BY <1>1 DEF Alone, Placed, Written
<1>2. QED
  BY <1>1 DEF Moves

LEMMA DiskStaysOwned ==
    ASSUME TypeOK, DiskOwned, Moves
    PROVE  DiskOwned'
<1>1. SUFFICES ASSUME NEW p \in Path
               PROVE  /\ disk'[p] # Nil => \E i \in Invocations : path'[i] = p
                      /\ disk'[p] \in Invocations => path'[disk'[p]] = p /\ pc'[disk'[p]] \in Placed
  BY DEF DiskOwned
<1>2. p # Nil
  BY ConstantFacts
<1>3. \A i \in Invocations : path[i] = p => path'[i] = p
  BY <1>2, Zenon DEF Moves
<1>4. CASE disk'[p] = disk[p]
  BY <1>3, <1>4 DEF DiskOwned, Moves
<1>5. CASE disk'[p] # disk[p]
  <2>1. PICK i \in Invocations :
            /\ path[i] = p
            /\ \/ disk'[p] = Torn
               \/ pc'[i] = "add" /\ disk'[p] = i
    BY <1>5 DEF Moves
  <2>2. QED
    BY <1>3, <2>1, ConstantFacts DEF Placed, Written
<1>6. QED
  BY <1>4, <1>5

LEMMA OwnFileStays ==
    ASSUME TypeOK, PathsKept, OwnFile, Moves
    PROVE  OwnFile'
<1>1. SUFFICES ASSUME NEW i \in Invocations, Alone(i)'
               PROVE  /\ pc'[i] \in Written => disk'[path'[i]] = i
                      /\ pc'[i] = "saved" => head'[path'[i]] = i
  BY DEF OwnFile
<1>2. CASE pc'[i] \in Written
  <2>1. pc[i] \in Written \/ (pc[i] = "fill" /\ disk'[path[i]] = i)
    BY <1>2, Zenon DEF Moves
  <2>2. path[i] \in Path /\ path[i] # Nil
    BY <2>1, PathOfRunning
  <2>3. path'[i] = path[i] /\ Alone(i)
    <3>1. path'[i] = path[i]
      BY <2>2, Zenon DEF Moves
    <3>2. QED
      BY <1>1, <2>2, <3>1, AloneBefore
  <2>4. pc[i] \in Written => disk'[path[i]] = i
    BY <2>2, <2>3, OwnFileKept DEF OwnFile, Placed
  <2>5. pc'[i] = "saved" => head'[path[i]] = i
    <3>1. CASE pc[i] = "saved"
      <4>1. head[path[i]] = i
        BY <2>3, <3>1 DEF OwnFile
      <4>2. ASSUME NEW j \in Invocations, path[j] = path[i], pc[j] = "committing" PROVE FALSE
        BY <2>3, <3>1, <4>2 DEF Alone
      <4>3. head'[path[i]] = head[path[i]]
        BY <2>2, <4>2 DEF Moves
      <4>4. QED
        BY <4>1, <4>3
    <3>2. CASE pc[i] = "committing" /\ head'[path[i]] = disk[path[i]]
      BY <2>3, <3>2 DEF OwnFile, Written
    <3>3. QED
      BY <3>1, <3>2 DEF Moves
  <2>6. QED
    BY <2>1, <2>3, <2>4, <2>5
<1>3. QED
  BY <1>2 DEF Written

LEMMA HeadStaysOwned ==
    ASSUME TypeOK, OwnFile, HeadOwned, Moves
    PROVE  HeadOwned'
<1>1. SUFFICES ASSUME NEW p \in Path, head'[p] # Nil
               PROVE  \/ \E i \in Invocations : head'[p] = i /\ path'[i] = p /\ pc'[i] = "saved"
                      \/ \E i, j \in Invocations : i # j /\ path'[i] = p /\ path'[j] = p
  BY DEF HeadOwned
<1>2. p # Nil
  BY ConstantFacts
<1>3. \A i \in Invocations : path[i] = p => path'[i] = p
  BY <1>2, Zenon DEF Moves
<1>4. CASE head'[p] = head[p]
  <2>1. \A i \in Invocations : pc[i] = "saved" => pc'[i] = "saved"
    BY Zenon DEF Moves
  <2>2. QED
    BY <1>1, <1>3, <1>4, <2>1 DEF HeadOwned
<1>5. CASE head'[p] # head[p]
  <2>1. PICK i \in Invocations : path[i] = p /\ pc[i] = "committing" /\ pc'[i] = "saved" /\ head'[p] = disk[p]
    BY <1>5, Zenon DEF Moves
  <2>2. CASE Alone(i)
    BY <1>3, <2>1, <2>2 DEF OwnFile, Written
  <2>3. CASE ~Alone(i)
    BY <1>3, <2>1, <2>3 DEF Alone
  <2>4. QED
    BY <2>2, <2>3
<1>6. QED
  BY <1>4, <1>5

LEMMA AfterStaysKnown ==
    ASSUME TypeOK, DiskOwned, AfterKnown, Moves
    PROVE  AfterKnown'
<1>1. SUFFICES ASSUME NEW i \in Invocations, NEW j \in after'[i]
               PROVE  path'[j] \in Path /\ path'[j].kind = "dispatched" /\ disk'[path'[j]] # Nil
  BY DEF AfterKnown
<1>2. j \in Invocations /\ path[j] \in Path /\ path[j].kind = "dispatched" /\ disk[path[j]] # Nil
  <2>1. CASE j \in after[i]
    BY <2>1 DEF AfterKnown, TypeOK
  <2>2. CASE j \notin after[i]
    <3>1. after'[i] \subseteq {w.by : w \in DispatchedWhole}
      BY <2>2, Zenon DEF Moves
    <3>2. PICK w \in DispatchedWhole : j = w.by
      BY <3>1
    <3>3. w.path \in Path /\ disk[w.path] = j /\ j \in Invocations /\ w.path.kind = "dispatched"
      BY <3>2 DEF DispatchedWhole, Whole
    <3>4. path[j] = w.path
      BY <3>3 DEF DiskOwned
    <3>5. QED
      BY <3>3, <3>4, ConstantFacts
  <2>3. QED
    BY <2>1, <2>2
<1>3. path'[j] = path[j] /\ disk'[path[j]] # Nil
  BY <1>2, ConstantFacts DEF Moves
<1>4. QED
  BY <1>2, <1>3

LEMMA GuardStaysHeld ==
    ASSUME TypeOK, TypeOK', PathsKept, DiskOwned', AfterKnown, GuardHeld, Moves
    PROVE  GuardHeld'
<1>1. SUFFICES ASSUME NEW i \in Invocations, path'[i] # Nil, path'[i].kind = "dispatched",
                      pc'[i] \in Past \/ disk'[path'[i]] = i,
                      NEW j \in after'[i], path'[j].subject = path'[i].subject
               PROVE  Named(path[i].subject, "returned")' # {}
  BY DEF GuardHeld
<1>2. path[i] # Nil
  <2>1. ASSUME path[i] = Nil PROVE FALSE
    <3>1. pc'[i] \in NoPath \cup {"guard"}
      BY <2>1, Zenon DEF Moves
    <3>2. pc'[i] \notin Past \cup Placed
      BY <3>1 DEF Past, Placed, Written, NoPath
    <3>3. path'[i] \in Path
      BY <1>1 DEF TypeOK
    <3>4. QED
      BY <1>1, <3>2, <3>3 DEF DiskOwned
  <2>2. QED
    BY <2>1
<1>3. path'[i] = path[i] /\ after'[i] = after[i] /\ path[i] \in Path
  BY <1>2 DEF Moves, TypeOK
<1>4. path[j] \in Path /\ path[j].kind = "dispatched" /\ disk[path[j]] # Nil /\ j \in Invocations
  BY <1>3 DEF AfterKnown, TypeOK
<1>5. path[j].subject = path[i].subject
  <2>1. path'[j] = path[j]
    BY <1>4, ConstantFacts DEF Moves
  <2>2. QED
    BY <1>1, <1>3, <2>1
<1>6. \/ pc[i] \in Past \/ disk[path[i]] = i
      \/ pc[i] = "guard" /\ ~Open(path[i].subject)
  <2>1. CASE pc'[i] \in Past
    BY <1>1, <1>3, <2>1 DEF Moves
  <2>2. CASE disk'[path[i]] = i /\ disk[path[i]] # i
    <3>1. PICK k \in Invocations :
              /\ \/ disk'[path[i]] = Torn
                 \/ pc[k] = "fill" /\ disk'[path[i]] = k
      BY <1>3, <2>2 DEF Moves
    <3>2. pc[i] = "fill"
      BY <2>2, <3>1, ConstantFacts
    <3>3. QED
      BY <3>2 DEF Past
  <2>3. QED
    BY <1>1, <1>3, <2>1, <2>2
<1>7. Named(path[i].subject, "returned") # {}
  <2>1. CASE pc[i] \in Past \/ disk[path[i]] = i
    BY <1>1, <1>2, <1>3, <1>5, <2>1 DEF GuardHeld
  <2>2. CASE ~Open(path[i].subject)
    <3>1. path[j] \in Named(path[i].subject, "dispatched")
      BY <1>4, <1>5 DEF Named
    <3>2. QED
      BY <2>2, <3>1 DEF Open
  <2>3. QED
    BY <1>6, <2>1, <2>2
<1>8. PICK p \in Named(path[i].subject, "returned") : TRUE
  BY <1>7
<1>9. p \in Path /\ p.subject = path'[i].subject /\ p.kind = "returned" /\ disk'[p] # Nil
  BY <1>3, <1>8 DEF Named, Moves
<1>10. QED
  BY <1>9 DEF Named

-----------------------------------------------------------------------------
(* The scan.                                                               *)

LEMMA WholeIs ==
    ASSUME TypeOK, DiskOwned, NEW r \in Whole
    PROVE  /\ r.path \in Path /\ r.by \in Invocations /\ disk[r.path] = r.by
           /\ path[r.by] = r.path /\ pc[r.by] \in Placed
<1>1. r.path \in Path /\ r.by \in Invocations /\ disk[r.path] = r.by
  BY DEF Whole
<1>2. QED
  BY <1>1 DEF DiskOwned

LEMMA StaysThere ==
    ASSUME TypeOK, DiskOwned, StillThere, Moves, UNCHANGED scanVars \/ (Scan /\ Rests)
    PROVE  StillThere'
<1>1. CASE spc = "idle"
  <2>1. CASE UNCHANGED scanVars
    BY <1>1, <2>1 DEF StillThere, scanVars
  <2>2. CASE Scan /\ Rests
    <3>1. before' = Whole
      BY <1>1, <2>2 DEF Scan, ScanBegin, Walk, ReadOne, Return
    <3>2. QED
      BY <2>2, <3>1, WholeIs DEF StillThere, Rests, Alone
  <2>3. QED
    BY <2>1, <2>2
<1>2. CASE spc # "idle"
  <2>1. before' = before
    BY <1>2 DEF Scan, ScanBegin, Walk, ReadOne, Return, scanVars
  <2>2. SUFFICES ASSUME NEW r \in before
                 PROVE  /\ path'[r.by] = r.path /\ pc'[r.by] \in Placed
                        /\ Alone(r.by)' => disk'[r.path] = r.by
    BY <2>1 DEF StillThere
  <2>3. /\ r.by \in Invocations /\ r.path \in Path /\ r.path # Nil
        /\ path[r.by] = r.path /\ pc[r.by] \in Placed
        /\ Alone(r.by) => disk[r.path] = r.by
    BY <1>2, ConstantFacts DEF StillThere, TypeOK
  <2>4. path'[r.by] = r.path /\ pc'[r.by] \in Placed
    <3>1. path[r.by] # Nil
      BY <2>3
    <3>2. path'[r.by] = path[r.by] /\ pc'[r.by] \in Placed
      BY <2>3, <3>1, Zenon DEF Moves
    <3>3. QED
      BY <2>3, <3>2
  <2>5. ASSUME Alone(r.by)' PROVE disk'[r.path] = r.by
    <3>1. Alone(r.by)
      <4>1. path[r.by] # Nil /\ r.by \in Invocations
        BY <2>3
      <4>2. QED
        BY <2>5, <4>1, AloneBefore, Zenon
    <3>2. QED
      BY <2>3, <3>1, OwnFileKept
  <2>6. QED
    BY <2>4, <2>5
<1>3. QED
  BY <1>1, <1>2

LEMMA StaysListed ==
    ASSUME TypeOK, StillThere, StillListed, Moves, UNCHANGED scanVars \/ (Scan /\ Rests)
    PROVE  StillListed'
<1>1. CASE UNCHANGED scanVars
  <2>1. UNCHANGED <<spc, scanNow, todo, survivors, before>>
    BY <1>1 DEF scanVars
  <2>2. SUFFICES ASSUME NEW r \in before, Alone(r.by)', spc # "idle" PROVE Alone(r.by)
    BY <2>1 DEF StillListed
  <2>3. r.by \in Invocations /\ path[r.by] # Nil
    BY <2>2, ConstantFacts DEF StillThere, TypeOK
  <2>4. QED
    BY <2>2, <2>3, AloneBefore
<1>2. CASE Scan /\ Rests
  <2>1. \A i : Alone(i)' <=> Alone(i)
    BY <1>2 DEF Rests, Alone
  <2>2. CASE ScanBegin
    BY <2>2 DEF ScanBegin, StillListed
  <2>3. CASE Walk
    <3>1. spc' = "read" /\ todo' = Listed /\ before' = before /\ spc # "idle"
      BY <2>3 DEF Walk
    <3>2. ASSUME NEW r \in before, Alone(r.by) PROVE r.path \in Listed
      <4>1. r.path \in Path /\ disk[r.path] = r.by /\ r.by \in Invocations
        BY <3>1, <3>2 DEF StillThere, TypeOK
      <4>2. QED
        BY <4>1, ConstantFacts DEF Listed
    <3>3. QED
      BY <3>1, <3>2, <2>1 DEF StillListed
  <2>4. ASSUME NEW p \in Path, ReadOne(p) PROVE StillListed'
    <3>1. /\ spc = "read" /\ UNCHANGED <<spc, scanNow, before>> /\ todo' = todo \ {p}
          /\ survivors \subseteq survivors'
          /\ disk[p] \in Invocations /\ p.at <= scanNow => [path |-> p, by |-> disk[p]] \in survivors'
      BY <2>4 DEF ReadOne, Accepts
    <3>2. SUFFICES ASSUME NEW r \in before, r.path.at <= scanNow, Alone(r.by)
                   PROVE  r.path \in todo' \/ r \in survivors'
      BY <2>1, <3>1 DEF StillListed
    <3>3. r \in [path : Path, by : Invocations] /\ disk[r.path] = r.by
      BY <3>1, <3>2 DEF StillThere, TypeOK
    <3>4. r = [path |-> r.path, by |-> r.by] /\ r.by \in Invocations
      BY <3>3
    <3>5. r.path = p => r \in survivors'
      BY <3>1, <3>2, <3>3, <3>4
    <3>6. r.path \in todo \/ r \in survivors
      BY <3>1, <3>2 DEF StillListed
    <3>7. QED
      BY <3>1, <3>5, <3>6
  <2>5. CASE Return
    <3>1. spc = "read" /\ spc' = "returned" /\ todo = {} /\ UNCHANGED <<scanNow, survivors, before>>
      BY <2>5 DEF Return
    <3>2. QED
      BY <2>1, <3>1 DEF StillListed
  <2>6. QED
    BY <1>2, <2>2, <2>3, <2>4, <2>5 DEF Scan
<1>3. QED
  BY <1>1, <1>2

-----------------------------------------------------------------------------
(* The theorems.                                                           *)

LEMMA NextStoreInv ==
    ASSUME StoreInv, [Next]_vars
    PROVE  StoreInv'
<1> USE DEF StoreInv
<1>1. TypeOK' /\ Moves /\ (UNCHANGED scanVars \/ (Scan /\ Rests))
  BY NextMoves
<1>2. PathsKept' /\ DiskOwned' /\ OwnFile' /\ HeadOwned'
  BY <1>1, PathsStay, DiskStaysOwned, OwnFileStays, HeadStaysOwned
<1>3. AfterKnown' /\ GuardHeld'
  BY <1>1, <1>2, AfterStaysKnown, GuardStaysHeld
<1>4. StillThere' /\ StillListed'
  BY <1>1, StaysThere, StaysListed
<1>5. QED
  BY <1>1, <1>2, <1>3, <1>4

LEMMA StoreInvHolds == Spec => []StoreInv
  BY InitStoreInv, NextStoreInv, PTL DEF Spec

\* The store, its producers and its scan stay of their types.
THEOREM StoreTypeCorrect == Spec => []TypeOK
<1>1. StoreInv => TypeOK
  BY DEF StoreInv
<1>2. QED
  BY <1>1, StoreInvHolds, PTL

LEMMA InvAccounts ==
    ASSUME StoreInv
    PROVE  AccountedFor
<1> USE DEF StoreInv
<1>1. ASSUME NEW i \in Invocations, pc[i] = "saved", Alone(i)
      PROVE  disk[path[i]] = i /\ head[path[i]] = i
  BY <1>1 DEF OwnFile, Written
<1>2. ASSUME NEW i \in Invocations, pc[i] = "unsaved", Alone(i)
      PROVE  disk[path[i]] = i /\ head[path[i]] = Nil
  <2>1. path[i] \in Path
    BY <1>2, PathOfRunning DEF Written
  <2>2. head[path[i]] = Nil
    <3>1. ASSUME NEW j \in Invocations, path[j] = path[i], j # i PROVE FALSE
      BY <1>2, <3>1 DEF Alone
    <3>2. QED
      BY <1>2, <2>1, <3>1 DEF HeadOwned
  <2>3. QED
    BY <1>2, <2>2 DEF OwnFile, Written
<1>3. ASSUME NEW i \in Invocations, pc[i] \in {"failed", "refused"}, NEW p \in Path
      PROVE  disk[p] # i
  BY <1>3 DEF DiskOwned, Placed, Written
<1>4. QED
  BY <1>1, <1>2, <1>3, Zenon DEF AccountedFor, HeadOwned

\* Nothing disappears without a word: what an invocation's exit says of its record
\* is so, on disk and in the last commit, whoever else runs, fails or is killed.
THEOREM NothingDisappears == Spec => []AccountedFor
  BY InvAccounts, StoreInvHolds, PTL

LEMMA InvMissesNone ==
    ASSUME StoreInv
    PROVE  NoneMissed
  BY DEF StoreInv, StillListed, NoneMissed

\* A scan returns every record that was there, and was its writer's alone, when it
\* began, whatever is written while it lists and reads.
THEOREM ScanMissesNone == Spec => []NoneMissed
  BY InvMissesNone, StoreInvHolds, PTL

LEMMA InvOpensByRace ==
    ASSUME StoreInv
    PROVE  OpenOnlyByRace
<1> USE DEF StoreInv
<1>1. ASSUME NEW a \in DispatchedWhole, NEW b \in DispatchedWhole,
             a.path.subject = b.path.subject, Named(a.path.subject, "returned") = {}
      PROVE  a.by \notin after[b.by]
  <2>1. /\ path[a.by] = a.path /\ path[b.by] = b.path /\ disk[b.path] = b.by
        /\ b.by \in Invocations /\ b.path \in Path /\ b.path.kind = "dispatched"
    BY WholeIs DEF DispatchedWhole
  <2>2. QED
    BY <1>1, <2>1, ConstantFacts DEF GuardHeld
<1>2. QED
  BY <1>1 DEF OpenOnlyByRace

\* Two dispatches of one subject are open together only if neither producer could
\* have seen the other's file: the guard fails only by a race.
THEOREM DuplicateOnlyByRace == Spec => []OpenOnlyByRace
  BY InvOpensByRace, StoreInvHolds, PTL

OwnRecordStands == \A p \in Path : disk[p] \in Invocations /\ Alone(disk[p]) => disk'[p] = disk[p]

LEMMA StepLeavesOwnRecords ==
    ASSUME StoreInv, [Next]_vars
    PROVE  OwnRecordStands
<1> USE DEF StoreInv
<1>1. SUFFICES ASSUME NEW p \in Path, disk[p] \in Invocations, Alone(disk[p]) PROVE disk'[p] = disk[p]
  BY DEF OwnRecordStands
<1>2. path[disk[p]] = p /\ pc[disk[p]] \in Placed
  BY <1>1 DEF DiskOwned
<1>3. QED
  BY <1>1, <1>2, NextMoves, OwnFileKept

\* Append-only, as far as it goes: the record of a path no other invocation names is
\* never edited.  (Of a shared path it is: NothingEdited has a counterexample.)
THEOREM OwnRecordNeverEdited == Spec => [][OwnRecordStands]_vars
  BY StoreInvHolds, StepLeavesOwnRecords, PTL DEF Spec
=============================================================================
