--------------------------- MODULE ArtifactStore ----------------------------
(***************************************************************************)
(* The artifact store as its writers and its reader meet in it: concurrent *)
(* hook invocations of scripts/Produce-Artifact.ps1, each of which stamps  *)
(* a record with the second it started in, checks for an open dispatch,    *)
(* writes one file and commits it with at most three attempts on the git   *)
(* index; and the scan of board/store/store.go, which lists the files and  *)
(* then reads them one by one.                                             *)
(*                                                                         *)
(* A file is named by subject, kind and second; its content is the         *)
(* invocation that wrote it, or Torn while the write is under way.  A      *)
(* record a producer writes passes every check of the scan but the ones    *)
(* that can fail on timing: the parse, while it is torn, and the check for *)
(* a future `at'.  The store is a directory inside a git repository that   *)
(* can be written; the text of a record (transcript, envelope, paths) is   *)
(* left out.  A failed invocation has left a line in _faults.log (Throw).  *)
(***************************************************************************)
EXTENDS Integers, FiniteSets

CONSTANTS
    Invocations,  \* runs of the producer
    Subjects,     \* subjects records are about
    MaxTime,      \* bound on the clock, in seconds
    MaxAttempts,  \* attempts of the commit loop (3 in the script)
    MaxKills,     \* bound on the invocations killed half-way
    Torn,         \* the content of a file whose write is under way
    Nil           \* no file, no path, no holder

ASSUME StoreAssumption ==
    /\ IsFiniteSet(Invocations)
    /\ MaxTime \in Nat /\ MaxKills \in Nat
    /\ MaxAttempts \in Nat \ {0}
    /\ Torn \notin Invocations /\ Nil \notin Invocations /\ Torn # Nil

Path == [subject : Subjects, kind : {"dispatched", "returned"}, at : 0..MaxTime]

ASSUME PathAssumption == Nil \notin Path

VARIABLES
    now,       \* the clock, in the seconds of the record's `at'
    disk,      \* content of every path
    head,      \* content of every path in the last commit
    lock,      \* who holds the git index lock
    pc,        \* where each invocation stands, or how it ended
    path,      \* the file it writes
    attempt,   \* $attempt
    after,     \* history: the dispatches on disk when this dispatch began
    spc,       \* where the scan stands
    scanNow,   \* the instant the scan was given
    todo,      \* paths listed and not yet read
    survivors, \* records the scan has accepted so far
    before     \* history: the records on disk when the scan began

gitVars  == <<head, lock>>
prodVars == <<pc, path, attempt, after>>
scanVars == <<spc, scanNow, todo, survivors, before>>
vars     == <<now, disk, gitVars, prodVars, scanVars>>

Ends == {"skipped", "failed", "refused", "unsaved", "saved", "killed"}

Running(i) == pc[i] \notin Ends \cup {"off"}

\* The records that are complete on disk, with their writers.
Whole == {[path |-> p, by |-> disk[p]] : p \in {q \in Path : disk[q] \in Invocations}}

DispatchedWhole == {w \in Whole : w.path.kind = "dispatched"}

Init ==
    /\ now = 0
    /\ disk = [p \in Path |-> Nil] /\ head = [p \in Path |-> Nil]
    /\ lock = Nil
    /\ pc = [i \in Invocations |-> "off"]
    /\ path = [i \in Invocations |-> Nil]
    /\ attempt = [i \in Invocations |-> 1]
    /\ after = [i \in Invocations |-> {}]
    /\ spc = "idle" /\ scanNow = 0 /\ todo = {} /\ survivors = {} /\ before = {}

Tick ==
    /\ now < MaxTime
    /\ now' = now + 1
    /\ UNCHANGED <<disk, gitVars, prodVars, scanVars>>

-----------------------------------------------------------------------------
(* One invocation of Produce-Artifact.ps1.                                 *)

\* A payload no adapter recognises: a visible skip, exit 0, nothing written.
Skip(i) ==
    /\ pc[i] = "off"
    /\ pc' = [pc EXCEPT ![i] = "skipped"]
    /\ UNCHANGED <<now, disk, gitVars, path, attempt, after, scanVars>>

\* The catch clause: a line in _faults.log, exit 1.
Throw(i, how) == pc' = [pc EXCEPT ![i] = how]

\* A payload without subject or session, a subject unfit for a path.
Reject(i) ==
    /\ pc[i] = "off"
    /\ Throw(i, "failed")
    /\ UNCHANGED <<now, disk, gitVars, path, attempt, after, scanVars>>

\* Intake: the subject, the kind and the stamp are settled.  An unreadable
\* transcript or budget default is logged and does not stop the invocation.
Begin(i, s, k) ==
    /\ pc[i] = "off"
    /\ pc' = [pc EXCEPT ![i] = "guard"]
    /\ path' = [path EXCEPT ![i] = [subject |-> s, kind |-> k, at |-> now]]
    /\ after' = [after EXCEPT ![i] = IF k = "dispatched" THEN {w.by : w \in DispatchedWhole} ELSE {}]
    /\ UNCHANGED <<now, disk, gitVars, attempt, scanVars>>

Named(s, k) == {p \in Path : p.subject = s /\ p.kind = k /\ disk[p] # Nil}

\* A slip in Open: nothing is open.
OpenNever(s) == FALSE

\* A dispatched file and no returned one, whatever is in them.
Open(s) == Named(s, "dispatched") # {} /\ Named(s, "returned") = {}

\* The duplicate-dispatch guard.
Guard(i) ==
    /\ pc[i] = "guard"
    /\ IF path[i].kind = "dispatched" /\ Open(path[i].subject)
       THEN Throw(i, "refused")
       ELSE pc' = [pc EXCEPT ![i] = "create"]
    /\ UNCHANGED <<now, disk, gitVars, path, attempt, after, scanVars>>

\* WriteAllText creates or truncates the file ...
Create(i) ==
    /\ pc[i] = "create"
    /\ disk' = [disk EXCEPT ![path[i]] = Torn]
    /\ pc' = [pc EXCEPT ![i] = "fill"]
    /\ UNCHANGED <<now, gitVars, path, attempt, after, scanVars>>

\* ... and fills it.
Fill(i) ==
    /\ pc[i] = "fill"
    /\ disk' = [disk EXCEPT ![path[i]] = i]
    /\ pc' = [pc EXCEPT ![i] = "add"]
    /\ UNCHANGED <<now, gitVars, path, attempt, after, scanVars>>

\* Slips in AttemptFails: giving up is taken for success; one attempt too many.
AttemptFailsSilently(i) ==
    IF attempt[i] = MaxAttempts
    THEN pc' = [pc EXCEPT ![i] = "saved"] /\ UNCHANGED attempt
    ELSE /\ attempt' = [attempt EXCEPT ![i] = attempt[i] + 1]
         /\ pc' = [pc EXCEPT ![i] = "add"]
AttemptFailsLate(i) ==
    IF attempt[i] > MaxAttempts
    THEN Throw(i, "unsaved") /\ UNCHANGED attempt
    ELSE /\ attempt' = [attempt EXCEPT ![i] = attempt[i] + 1]
         /\ pc' = [pc EXCEPT ![i] = "add"]

\* A git command failed: pause and try again, or give up after the last attempt.
AttemptFails(i) ==
    IF attempt[i] = MaxAttempts
    THEN Throw(i, "unsaved") /\ UNCHANGED attempt
    ELSE /\ attempt' = [attempt EXCEPT ![i] = attempt[i] + 1]
         /\ pc' = [pc EXCEPT ![i] = "add"]

\* git add: needs the index lock.
Add(i) ==
    /\ pc[i] = "add"
    /\ IF lock = Nil THEN pc' = [pc EXCEPT ![i] = "commit"] /\ UNCHANGED attempt
                     ELSE AttemptFails(i)
    /\ UNCHANGED <<now, disk, gitVars, path, after, scanVars>>

\* git commit --only takes the index lock, or fails.
Commit(i) ==
    /\ pc[i] = "commit"
    /\ IF lock = Nil
       THEN lock' = i /\ pc' = [pc EXCEPT ![i] = "committing"] /\ UNCHANGED attempt
       ELSE AttemptFails(i) /\ UNCHANGED lock
    /\ UNCHANGED <<now, disk, head, path, after, scanVars>>

\* A slip in Committed: the commit takes every file on disk.
CommittedAll(i) == disk

\* What the commit makes of the tree: this path as it is on disk, no other.
Committed(i) == [head EXCEPT ![path[i]] = disk[path[i]]]

\* The commit ends; git fails when it has nothing to commit.
Committing(i) ==
    /\ pc[i] = "committing"
    /\ lock' = Nil
    /\ head' = Committed(i)
    /\ IF head[path[i]] = disk[path[i]]
       THEN AttemptFails(i)
       ELSE pc' = [pc EXCEPT ![i] = "saved"] /\ UNCHANGED attempt
    /\ UNCHANGED <<now, disk, path, after, scanVars>>

\* The hook is killed; a git command under way runs to its end first.
Kill(i) ==
    /\ Running(i) /\ pc[i] # "committing"
    /\ Cardinality({j \in Invocations : pc[j] = "killed"}) < MaxKills
    /\ pc' = [pc EXCEPT ![i] = "killed"]
    /\ UNCHANGED <<now, disk, gitVars, path, attempt, after, scanVars>>

-----------------------------------------------------------------------------
(* One scan; nothing is carried from a scan to the next.                   *)

\* PollOnce reads the clock and calls Scan.
ScanBegin ==
    /\ spc = "idle"
    /\ spc' = "walk"
    /\ scanNow' = now
    /\ before' = Whole
    /\ UNCHANGED <<now, disk, gitVars, prodVars, todo, survivors>>

\* A slip in Listed: only committed files are listed.
ListedCommitted == {p \in Path : head[p] # Nil}

Listed == {p \in Path : disk[p] # Nil}

\* filepath.WalkDir lists the .json files.
Walk ==
    /\ spc = "walk"
    /\ spc' = "read"
    /\ todo' = Listed
    /\ UNCHANGED <<now, disk, gitVars, prodVars, scanNow, survivors, before>>

\* readOne: a torn file does not parse, a future `at' is quarantined.
Accepts(p) == disk[p] \in Invocations /\ p.at <= scanNow

\* The loop over the sorted paths reads the next one.
ReadOne(p) ==
    /\ spc = "read" /\ p \in todo
    /\ todo' = todo \ {p}
    /\ survivors' = IF Accepts(p) THEN survivors \cup {[path |-> p, by |-> disk[p]]} ELSE survivors
    /\ UNCHANGED <<now, disk, gitVars, prodVars, spc, scanNow, before>>

\* Every path is read: Scan returns.
Return ==
    /\ spc = "read" /\ todo = {}
    /\ spc' = "returned"
    /\ UNCHANGED <<now, disk, gitVars, prodVars, scanNow, todo, survivors, before>>

-----------------------------------------------------------------------------
Produce(i) == Guard(i) \/ Create(i) \/ Fill(i) \/ Add(i) \/ Commit(i) \/ Committing(i)

Hook(i) == Skip(i) \/ Reject(i) \/ \E s \in Subjects, k \in {"dispatched", "returned"} : Begin(i, s, k)

Scan == ScanBegin \/ Walk \/ Return \/ \E p \in Path : ReadOne(p)

Next == Tick \/ Scan \/ \E i \in Invocations : Hook(i) \/ Produce(i) \/ Kill(i)

Spec == Init /\ [][Next]_vars

-----------------------------------------------------------------------------
(* Properties.                                                             *)

TypeOK ==
    /\ now \in 0..MaxTime
    /\ disk \in [Path -> Invocations \cup {Torn, Nil}]
    /\ head \in [Path -> Invocations \cup {Torn, Nil}]
    /\ lock \in Invocations \cup {Nil}
    /\ pc \in [Invocations -> Ends \cup {"off", "guard", "create", "fill", "add", "commit", "committing"}]
    /\ path \in [Invocations -> Path \cup {Nil}]
    /\ attempt \in [Invocations -> 1..MaxAttempts]
    /\ after \in [Invocations -> SUBSET Invocations]
    /\ spc \in {"idle", "walk", "read", "returned"}
    /\ scanNow \in 0..MaxTime
    /\ todo \in SUBSET Path
    /\ survivors \in SUBSET [path : Path, by : Invocations]
    /\ before \in SUBSET [path : Path, by : Invocations]

\* No other invocation names the file this one writes: another subject, kind or second.
Alone(i) == \A j \in Invocations \ {i} : path[j] # path[i]

\* Nothing disappears without a word (Law 4): an invocation that names a file of
\* its own and exits 0 has its record on disk and in the last commit from then
\* on; one that fails to commit has left it on disk, outside every commit; one
\* that fails before the write has left nothing.  And a commit never takes half a
\* record, nor one whose own invocation has not got that far, unless two
\* invocations share a file (git commit --only).
AccountedFor ==
    /\ \A i \in Invocations :
           /\ pc[i] = "saved" /\ Alone(i) => disk[path[i]] = i /\ head[path[i]] = i
           /\ pc[i] = "unsaved" /\ Alone(i) => disk[path[i]] = i /\ head[path[i]] = Nil
           /\ pc[i] \in {"failed", "refused"} => \A p \in Path : disk[p] # i
    /\ \A p \in Path : head[p] # Nil =>
           \/ \E i \in Invocations : head[p] = i /\ path[i] = p /\ pc[i] = "saved"
           \/ \E i, j \in Invocations : i # j /\ path[i] = p /\ path[j] = p

\* A record that was on disk when a poll began, not future-dated for it and on a
\* path no other invocation has taken, is in what the scan returns: writers that
\* come and go while the scan lists and reads do not hide it.
NoneMissed ==
    spc = "returned" =>
        \A r \in before : r.path.at <= scanNow /\ Alone(r.by) => r \in survivors

\* Two dispatches of one subject are open together only if their producers
\* overlapped: one that starts after the other's file is complete is refused.
OpenOnlyByRace ==
    \A a, b \in DispatchedWhole :
        /\ a.by # b.by /\ a.path.subject = b.path.subject
        /\ Named(a.path.subject, "returned") = {}
        => a.by \notin after[b.by] /\ b.by \notin after[a.by]

\* scripts/Produce-Artifact.ps1: "Uniqueness at the mint boundary is MECHANICAL":
\* a second dispatched record of a subject without a returned one is refused.
OneOpenDispatch ==
    \A s \in Subjects :
        Open(s) => Cardinality({p \in Named(s, "dispatched") : disk[p] \in Invocations}) <= 1

\* docs/contracts/state-ledger.md: every artifact is a new file, "nothing is edited
\* or removed in place".
NothingEdited == [][\A p \in Path : disk[p] \in Invocations => disk'[p] = disk[p]]_vars
=============================================================================
