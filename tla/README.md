# A verification of the StarCar yard board

StarCar runs work as *dispatches*: a harness hook writes one JSON record per event
(`dispatched`, `returned`, ...) into a git-tracked store, and the *yard board*, a Go server
with a browser page, shows what the store says. Its promise is honesty: a failed scan, a
discarded payload, a lost connection or an unknown word is disclosed, and nothing is shown
that the store has not said. These modules model the code that has to keep that promise.

## 1. Inventory

| Part | Code | State | Operations | What makes it right |
|---|---|---|---|---|
| Producer | `scripts/Produce-Artifact.ps1` | the store directory, the git index, `_faults.log` | one run per hook: intake, duplicate guard, write, commit with three attempts | a record is committed or accounted for; no foreign file in a commit; one open dispatch per subject |
| Scan | `board/store/store.go` | none between scans | list, read, quarantine | a complete record is not missed, a torn or future one is not used |
| Fold, assembly | `board/fold/`, `board/assemble/` | none (pure) | `Fold`, `Assemble` | order of files does not matter, lanes agree, what is put aside or superseded is named, no return is taken back |
| Poll loop | `board/server/poll.go` | `seq`, `lastSnapshot`, `lastCompareBytes`, last-good maps, `pollInFlight` | tick, scan, build, publish | one poll at a time, failures keep what was shown, `seq` moves with the content |
| Event stream | `board/server/sse.go`, `handlers.go` | registry, one-slot channels | register, send, drain and resend, unregister | no browser misses the latest snapshot, none holds up another, no send on a closed channel |
| Browser | `board/web/js/app.js`, `ingest.js`, `sse-protocol.js` | `ingestState`, `connected`, the watchdog's timer, the screen | first paint, stream loop, frames, retry, watchdog | the screen follows the state, silence is disclosed, the screen never rolls back |
| Process | `board/server/main.go` | none across restarts | start, interrupt, shutdown | an interrupted process ends, its tabs say so, a restart does not hide anything |
| Loaders | `board/fold/loaders.go`, `board/assemble/boarddefs.go` | vocabularies and default budget, read once | `LoadVocab`, `LoadDefaultBudget`, `LoadVocabularies` | a data file that is missing, empty or wrong is named and blanks nothing else |
| Rendering | `render.js`, `compose.js`, `lanes.js`, `vocab.js`, `dom-writer.js` | the DOM | pure functions of a snapshot | the page is calm exactly when nothing is wrong |
| Detector | `scripts/Detect-Dispatches.ps1` | none (one run) | read, group, rank, render | it says what the board says of a dispatch |
| Index | `scripts/New-ArtifactIndex.ps1` | the committed ledger | read, sort, write | its last word on a subject is the board's |
| Verdicts | `scripts/Land-Verdict.ps1`, `Verify-Verdict.ps1`, `Migrate-Verdicts.ps1` | `artifacts/reviews/`, `docs/reviews/` | land, verify, migrate | an altered file is noticed and no other, no verdict is lost, none is left without a record unreported |
| CI watcher | `scripts/Watch-CI.ps1` | the deadline, the run, `.ci-checks/` | wait for a run, watch it, record it | green and red are facts about the right run; every watch ends |
| Ticket board | `board.ps1`, `Board.psm1` | GitHub's | one call per command | not modelled |

The parts of the board meet in four places. Producers and the scan share the *directory*, with no lock
between them. Polls and handlers share `s.mu` and the *current snapshot*. The poll goroutine
and the handlers share the *registry* and the channels. Server and browser share a *connection*
which can break, and `GET /api/snapshot`. The scripts meet one another only in files, and meet git and GitHub by
calls that may fail. Hard to test are the interleavings at these places,
the failed scan between good ones, the restart under an open tab, and the boundaries of age and
budget; `PROJECT.json` lists each at its line under `hazards`.

## 2. Modules

    YardPoll                            ArtifactStore   Verdict   WatchCI
    YardStream
    YardClient                          YardFold <- Detect <- Index <- Render
    YardBoard = store versions + process + YardStream + YardClient, implements YardMirror

    YardPollProofs, YardStreamProofs, YardClientProofs, ArtifactStoreProofs, VerdictProofs, WatchCIProofs
                     extend the module they are named after
    YardBoardProofs  extends YardBoard and uses YardStreamProofs and YardClientProofs by INSTANCE
    YardFoldProofs   extends Render, and so all four modules of its chain

`MC*.tla` and `MC*.cfg` are the instances for TLC. Beside a definition of the code there may be a
*slip* of it (`TryBeginPollAlways`, ...): a plausible error, used to see that a property
notices it, and never part of a specification.

**YardPoll** (`poll.go`). A goroutine's program counter `pc[g]` goes `scan`, `build`, `publish`,
`broadcast`, `end`; a step is what runs between two points at which another goroutine can be
seen: `StartPoll` is the tick with the compare-and-swap and the reading of the clock, `Scan` the
unlocked scan, `BuildGood`/`BuildFailed` the unlocked `buildSnapshot` with its writes of the
last-good maps, `PublishSame`/`PublishChanged` the critical section, `Broadcast` and `Finish` the
rest. The three live lanes come from one scan, so one `data` and one `freshness` stand for them.
Lane data keeps what depends on the clock (`elapsed_seconds` of a subject that is out), since
change detection compares it, and the quarantine conditions keep the instant their text names.
The store's environment is `Produce` (with clocks up to `MaxSkew` ahead), `StoreLost`, `StoreBack`, and for a single file
`FileLost`, `FileBack`: `readOne` puts a file that it cannot read or parse aside, in a scan that succeeds. A record
stands for its file, whose name is made of the same three fields; `everShown` is history.

**YardStream** (`sse.go`, `handleStream`). A snapshot is its `seq`; a channel is a `slot` that is
empty or full, and `closed` or not. `broadcast` is cut at every channel operation, because
handlers receive without the lock: `Lock`, `SendRoom`, `SendFull` (the `default` branch), `Drain`,
`Resend`, `Unlock`. A handler goes `registered`, `writing`, `select`, `leaving`, `closing`.
`Stalled` browsers may never take a frame again: their handlers have no fairness.

**YardClient** (`app.js`, `ingest.js`, watchdog). JavaScript runs to completion, so an action is a turn
of the event loop, and `repaint` is part of the turns that call it. `timer` counts down with
`Tick`, which waits for a timer that is due. A payload that is not JSON and one that fails the
schema have the same effect, and are `Invalid`. `beat` is the interval `createWatchdog` took from the first
snapshot, or its default; the snapshots of a restarted server may name another, to no effect.

**YardBoard** joins YardStream and YardClient by `INSTANCE` with a `pipe` of frames, one
connection of the tab at a time, a store reduced to a version number, a poll that reads the
version and publishes it when it differs, and `Drop`. The process goes `up`, `interrupted` (the context
is done), `down`: `Shutdown` closes the listener, `Serve` returns at once and `run` and `main` with it, so
that whatever is in flight, a poll, a broadcast, a handler, is cut off where it stands; `Start` is a new
`NewServer` with `seq` 0 and an empty registry. While it is down requests are refused (`Refused`): of the
stream, and the tab tries again; of the schema or the first snapshot, and it never does.
**YardMirror** says what this is for: a screen that only moves forward among the
states the store has really had. `Mirror == INSTANCE YardMirror WITH truth <- version, shown <-
OnScreen` is checked as the property `MirrorSpec`.

**ArtifactStore** (`Produce-Artifact.ps1`, `Scan`). A path is subject, kind and second; the content is
the invocation that wrote it, or `Torn` during the write. `Guard` and `Create` are two steps, as
are `Create` and `Fill`, `Add` and `Commit`; `attempt` is the loop of three. `head` is the last
commit, `lock` the git index lock. `Kill` ends an invocation between any two steps. A scan lists
first and reads file by file, with writers in between.

**YardFold** (`store.go`, `loaders.go`, `algorithm.go`, `assemble.go`, `NewServer`). Operators, not recursive,
one per function or loop of the code; the state is their input: the files of the store, the order their names
put them in, the shop's own data files (vocabularies, default budget, definitions, each of which may be
unreadable, empty or lack its key) and the clock, so that the effect of a later file can be stated. A file is
the record it holds, or `Torn`, `BadAt` (an `at` without a zone) or `BadShape` (fails the schema). `Scan` is
the quarantine, `Fold` and `Assemble` follow the code, `Board` is what `buildSnapshot` publishes of them.
What the code passes on in the order of the paths is a set here, in the order of `naming` (`Before`): the stable
sorts are `StableSort`, by the number of records that come before one, and the first match of a loop is `FirstListed`. A list
made of the members of a manifest is a function on the places they have there, so that a place can be claimed twice.

**Detect** (`Detect-Dispatches.ps1`) extends YardFold with the second reader. It puts nothing aside, so it reads the
damaged and future-dated files as far as they parse, and an `at` without a zone throws (`ThrowsOn`).
Case-insensitive matching is the function `Lower`; the order of the detector's list of files is not the scan's,
so where newest records tie, any of them may be its winner.

**Index** (`New-ArtifactIndex.ps1`) extends Detect with the third: which files stop it (`StopsIndex`), its rows and their order.

**Render** (`boarddefs.go`, `computeLiveFreshness`, and `vocab.js`, `compose.js`, `lanes.js`, `render.js`) extends Index
with the colours: every lane has the most severe register of its position, its freshness and what the page can draw, every word that of its definition.
Definitions that cannot be read are no lists at all (`null` on the wire), and the page discards the payload.

**Verdict** (`Land-Verdict`, `Verify-Verdict`, `Migrate-Verdicts`). A file is a claim (its integrity line) and a
document: header's verdict, body, line ends. A landing and a check are one step each. A landing rewrites paths in the
body only, those of the home only where `USERPROFILE` is set (`Portable[home]`); the header stands as it was given. The migration is cut
between any two of its effects: `Move` is `git mv`, `RecordWritten` and `NotRecorded` are what follows, and
`MigrateKilled` may come at any time; landings, edits and git's line-end conversion go on in between. `excused` is
history: the names a migration has reported, or was killed over.

**WatchCI** (`Watch-CI.ps1`). `GitHub` makes, ends and repeats runs of ours and of other workflows while the
script goes through `appear`, `sleep`, `watch`, `final`, `record`. Every call of `gh` is a step with the answer
of that moment, or fails: a failed list is an empty one, and a failed view throws under strict mode.

## 3. Runs

| Run | Question | Bounds |
|---|---|---|
| `poll` | are polls serialised, failures honest, and does the board converge? | 2 goroutines (overlap is the question, and two suffice to overlap), 1 subject with up to two records, 3 instants with staleness 0 and buckets of 2 (fresh, stale, and an age inside and at the edge of a bucket), 1 outage, 1 file that becomes unreadable, clock 1 ahead |
| `stream` | does every browser get the latest? | 2 connections, one stalled; 3 snapshots (one in the slot, one in the handler's hands, one being sent) |
| `client` | does the tab tell the truth? | seq up to 3; snapshots that name a heartbeat of 0, 1 or 3, default 2, so that a tab may meet a slower and a quicker server than its first |
| `board` | does the whole mirror the store? | 2 handlers (an old one may linger), 2 versions, 2 snapshots per process, 1 interrupt and restart, 1 dropped connection, 1 frame in flight (a second waits in the handler, a third in the slot) |
| `store` | is every record accounted for? | 3 invocations, 2 seconds, 1 subject, 1 kill, one scan; invocations are symmetric. `MaxAttempts` 2 for the script's 3: the cases are a first, a repeated and a last attempt |
| `fold` | do the lanes say what the records say, do the other readers say what the lanes say, and is the page calm when it should be? | up to 3 of 22 files (four of them damaged, one without a subject, one without a kind, one with an empty outcome), two orders of names (one the reverse of the other), 4 shops (in order; an outcome without definition; empty outcomes, unreadable budget and definitions; unreadable kinds, a keyless budget, a bad row), 3 instants, staleness 1; ties, zones, an unknown kind, two trains sharing a member, one spelling in another case. Three files suffice for two manifests, or a manifest, and a member's records; every exception of a property names at most two files |
| `watch_ci` | is what is reported a fact, and does a watch end? | 2 watches, 2 runs (ours and another's, or an old and a newer), each run twice, a deadline of 2 looks. A third run would add only another that is not the newest |
| `verdict` | is a record of a verdict what was landed, and is none lost? | 2 names (one known to git's history, one not), 1 task, 2 results (one with a path of the operator's home, one without a usable fence), a home that is known or not, 1 edit; any number of landings, line-end conversions and migrations |

The runs `store`, `fold`, `watch_ci` and `verdict` do not check deadlock: a store in which every invocation
has ended and the scan has returned, a full store of files at the last instant, the last watch at its end and
a repository at its bounds are ends. Elsewhere deadlock is checked.
The bounds on clock, seq, versions, outages, restarts, drops and kills are the constants `Max...`.

What the passing runs show, beside the type invariants:

* `PollInv`, `BroadcastsInOrder`: the guard alone keeps the unlocked maps and the order of broadcasts
  right; without it (the mutant) all of this fails.
* `FailedKeepsShown`: while scans fail the lanes show what the last good snapshot showed. `NeverUnshows`: after every scan that
  succeeds, what was ever shown is shown, or its file is named as put aside. It does not say that a record stays: a file
  that cannot be read for a moment, or is being written again (the run `store_overwrite`), takes its record off the board
  until it can be read, and a failed scan after that one does not repeat its conditions (`poll.go:228-234`).
* `NoIdleBump`: time alone moves `seq` only through the elapsed seconds of a subject that is out, freshness kind and
  age bucket, and the text that names a future-dated record. `Converges`: once the directory can be walked, the board shows every file
  as it is, or names it as put aside.
* `StreamInv`, `NeverPanics`, `BroadcastEnds`, `CatchesUp`: the registration before the first read, and the drain and
  resend under the lock, are enough; a stalled browser harms nobody else.
* `ScreenIsTrue`, `SilenceDisclosed`, `NeverRollsBack`: the tab; the second also says that nothing but silence is
  called so. The last one is of the painted screen: it never goes blank again, a picture gives way only to one with a greater
  `seq`, and the disclosure of a discarded payload goes only with a payload that is valid, not with a reconnection or heartbeat.
* `MirrorSpec`, `QuietIsCurrent`, `ComesToShow`: end to end. The last two have one exception, `Masked`: a restarted
  server whose `seq` has not passed what the tab holds. `ComesToShow` also says that an interrupted server does not
  linger and that a tab nobody serves says so; a tab whose first fetches were refused stays blank, and no other.
* `AccountedFor`, `NoneMissed`, `OpenOnlyByRace`: the store, unless two invocations name one file; a commit
  holds its own file, which is part of the first.
* `FoldIsReference` compares with a definition that has no order; `LanesAgree`, `NothingHidden`, `NeverBack`
  relate the lanes to one another, to the files and to earlier and later stores. `NothingHidden` is of the board, not of what
  the fold passes on; it excepts what the board leaves out (see the list below): intents of no train, all but the sole newest
  manifest of a train, rulings, and records without subject or kind.
* `DetectorAgrees`: the two folds, written in two languages, tell one story of every subject whose files are
  all undamaged, due and spelled as the vocabulary has them, with two exceptions that are the code's: the shop's default
  without its key, and the run that a bad `at` stops, where the board names the file. Outside of this they differ: the
  detector counts a record that the scan puts aside, and takes `Returned` for `returned`.
* `IndexAgrees`: the ledger's last row of a subject is what the board speaks from, and what stops the ledger is named on the board.
* `CalmIffWell`: no file, word, definition, data file or age that is wrong leaves the page without `needs-attention`, and
  nothing else gives it one. `Well` is said of files and words, without the conditions the code raises. A car's empty outcome
  is drawn nowhere (`types.go:17` leaves it out), and so the page is calm over it; a gate's is looked up, and is hot.
* `Honest`, `RecordNeverBack`, `Ends`: a green or red is the conclusion of a run of this commit and workflow that was the
  newest when it was chosen, and what is on file never goes back to an older run's.
* `VerifiedAsLanded`: verification notices an edit of header or body, and takes no conversion or move for one.
  `NoVerdictLost`: a file leaves `docs/reviews/` only for a free place. `OrphanOnlyByFault`: a verdict migrated without a
  record was named in that run's report, or that run was killed.

Four runs show a disagreement between the code and what the repository says of it, with the
quotations in `PROJECT.json`: `poll_asof`, `board_restart`, `store_duplicate`, `store_overwrite`.

Others were seen while modelling. They are in the modules as the code has them, and have no run:

* `store.go:298` names the scan's `now` in the condition of a future-dated record, so that `seq` moves on every
  poll, where `docs/contracts/state-ledger.md:102` says "never on the bare passage of time".
* `ingest.js:59` leaves the mark of a discarded payload when the next valid payload's `seq` is not new (the current snapshot
  again, after a reconnection), where `state-ledger.md:133` says "cleared by the next VALID payload". `NeverRollsBack` takes
  no side: it says that the mark does not go without a valid payload, which the code and the ledger agree on, and not
  that it goes with the first.
* `assemble.go:58-60` speaks of "more than one DIFFERENT train" where one manifest naming a member twice also
  counts as a collision; and a record of a recognised kind without a lane (`ruling`) is on no lane and in no condition.
* A defaults file without `dispatch_budget_seconds` is a budget of 0 to `loaders.go:58-70`; the detector has a fault and a null.
* `boarddefs.go:42` returns nil slices for an unreadable `board-defs.json`; they go out as `null`, the wire schema wants
  arrays, and the browser discards every snapshot, where `boarddefs.go:32-34` says "non-fatal".
* An unreadable vocabulary gives two conditions, the second ("valid but empty") untrue, where `poll.go:244` says "ONE board condition".
* A record with an empty subject or kind passes the scan and is on no lane and in no condition. Nor is an intent whose subject
  is not a train (`assemble.go:65-67`), unless it collides with a dispatch, nor a superseded one: the fold lists them, and
  nothing puts them on the wire.
* The record schema lets an outcome be empty; on a car it is then no outcome and calm, on a gate a word without definition.
* A file rewritten in the second it was named for, or unreadable for a moment, is put aside by a scan that succeeds, so that its
  record leaves the lanes (`store.go:232-235`), while an outage of the whole directory takes nothing off them.
* `Land-Verdict.ps1:174-176, 214` makes the paths of the body portable and leaves the header's fields as given, and knows a home
  by `USERPROFILE` alone, which only Windows sets; `Produce-Artifact.ps1:303` falls back to `HOME`. So no property says that a
  landed file holds no path of its operator.
* The schema lets a record that has not returned carry an outcome. The ledger shows it, the board does not (a failed proof of
  `IndexAgrees` found this); the property therefore compares outcomes of `returned` rows.
* `Fold` has lanes for four kinds. A kind added to `kinds.json` alone would be recognised, and so no discovery, and on no
  lane, as `ruling` is now; `Kinds` in YardFold is what the file holds today.
* The dispatches lane colours states only: an unassigned dispatch that returned `error` is calm.
* A live lane before the first poll has nothing to draw and is `needs-attention`, which hides the `in-progress` of `never-polled`.
* `main.go:20-23` says that `shutdownGraceMs` bounds how long `run` waits; `run` returns as soon as `Serve` does, and waits for nothing.
* `config.go` takes any integer for `STARCAR_POLL_MS` and `STARCAR_HEARTBEAT_MS`; one that is not positive makes `time.NewTicker` panic.
* `Sort-Object` compares subject and file without regard to case, where `New-ArtifactIndex.ps1:71-72` speaks of a total order.
* `Watch-CI.ps1` stays with the run it found, so a newer run made during the watch is not noticed, which its
  comment at 75 leaves open; and a failed `gh run view` ends the watch while a failed `gh run list` is tried again.
* `Migrate-Verdicts.ps1`, run again after a failure past `git mv`, ends with exit 0 over a verdict without a record.

## 4. Fairness

* YardPoll: weak fairness of the polls together. The ticker fires for ever and Go runs a runnable
  goroutine. The environment is not fair: the store need not become readable again, which is why
  `Converges` assumes it.
* YardStream: the broadcaster, and each handler whose browser reads. `select` chooses among its ready
  cases at random, so a frame that stays ready is taken. A stalled handler has none, and no browser
  ever has to leave.
* YardBoard: poll (of a server that is not interrupted; an interrupted one need not take another tick), handlers and
  the tab's event loop, that a request reaches a handler, and that an interrupted server goes on to its end. Dropped
  connections, interrupts, starts and changes of the store happen or do not.
* WatchCI: the clock goes on, and the script is scheduled whenever it has a step to take. GitHub has no fairness:
  a run need not appear, nor end.
* YardClient, ArtifactStore, YardFold with Detect, Index and Render, and Verdict are checked for safety only.

## 5. Proofs

Every safety invariant and every action property that a passing run checks is a theorem of the specification, for every
value of the constants that meets the module's assumptions; so is the refinement `MirrorSpec`. TLC evaluates
the assumptions on every run. They say no more than this:

* the bounds are numbers, and `Nil`, `Invalid`, `Torn`, `Gone` differ from what they stand beside (all modules);
* the environment variables that must be positive are (`PollAssumption`, `ClientAssumption`, `WatchAssumption`);
* `StoreAssumption`: there are finitely many invocations, and at least one attempt is made;
* `VerdictAssumption`, `OldAssumption`: a file that claims an integrity line before the first landing claims the right one;
* `FoldAssumption`: what passes the scan has what the schema asks of it (an `at`, a subject, a kind, an outcome when
  returned), a list of names has every file once, and `kinds.json` holds no kind but the five it has;
* `DetectAssumption`: `Lower` is defined on the words that occur; `RenderAssumption`: the list of definitions is a list, its
  registers are the closed set's (`boarddefs.go` drops others), a manifest has finitely many members.

The proofs, and what their invariants are for:

*YardPoll.* `PollTypeCorrect` needs that the newest of a set of instants exists (`NewestIsMax`, by
well-foundedness of `<` on the naturals). `PollsSerialised` is by the inductive invariant
`TypeOK /\ PollInv`: `GuardHeld` and `OnePoll` say that at most one goroutine runs and that the guard is
held then; from this, while a goroutine is between building and publishing nobody else touches the
last-good maps (`RetainedIsShown`, `CandidateIsRetained`), and so the current snapshot always shows the last
good payload (`ShownIsCurrent`), failed or not. `FailedLaneKeepsShown` alone is not inductive: a step that
publishes a failed candidate needs to know that the maps still hold what was shown. One step needs that
equal comparison bytes imply equal data (`StrippedKeepsData`): a poll that publishes nothing has still
rewritten the maps. `BroadcastOrder` follows from the conjunct `BroadcastPending`. `ShownIsAccountedFor` and
`SeqMovesForAReason` add `ViewInv`: what was ever shown is on disk and among the files every running poll's scan has found, so that a good
snapshot built of them shows each or puts it aside (`GoodAccounts`), and a payload's freshness and elapsed times fit its records.

*YardStream.* `NoConnectionMissesLatest` is by `TypeOK /\ StreamInv`: the lock is held for the range loop, the
registry holds exactly the handlers that have not left, only the broadcaster fills a slot so that the third
select has room, and the snapshot last handed out is in the slot, in the handler's hands or written.
`SendsNeverPanic` follows: a channel that is visited is registered, and a registered one is open.

*YardClient.* `SilenceIsDisclosed` is by `WatchdogInv`: an armed timer and the silence always add up to the grace period,
a claimed connection has an armed timer, and there is no watchdog before the first paint; `SilenceDisclosed` alone says
nothing of the timer and is not inductive. `ScreenFollowsState` needs that a picture, once there, is never taken
away (`ApplyKeepsType`), and `ScreenNeverRollsBack` is the lemma `ApplyNeverRollsBack` about the
reducer, carried to the screen by `ScreenIsTrue` and `PictureInv`: the tab's `seq` is that of its picture, and there is none before the first paint.

*YardBoard.* `BoardAgrees` is the inductive invariant `BoardInv`. It takes the invariants of the stream and of the tab from
their own proofs, through `INSTANCE`, and adds what the two must know of each other: within a process `seq` and version grow together
(`ContentGrows`); a picture or frame of this process is one of its snapshots and no newer than the current, one of an earlier process shows a
version no newer than any this one publishes (`ReceivedWasCurrent`); what is under way is in order (`ReceivedInOrder`); and the last
frame a handler wrote is applied, or in the pipe (`WrittenArrives`). `BoardIsMirror` maps initial states to initial states and every
step to a step of YardMirror or a stutter; only a frame or a first snapshot moves the screen. `QuietBoardIsCurrent` is
`WrittenArrives` and `ReceivedWasCurrent` with the stream's invariant, where nothing is under way.

*ArtifactStore.* All four invariants are by `StoreInv`: a file on disk belongs to an invocation that names it, and so does a file in
a commit (`DiskOwned`, `HeadOwned`, `OwnFile`); the dispatches an invocation came after are still on disk, and it is past its guard only
if those of its subject had returned (`AfterKnown`, `GuardHeld`); a record that was complete when the scan began is still there, and to be
read or read (`StillThere`, `StillListed`). The case analysis over the actions is done once, in `NextMoves`: what any
step may do to disk, paths and commits; each conjunct is then preserved by every such move. `OwnRecordNeverEdited`
is the part of the refuted `NothingEdited` (run `store_overwrite`) that does hold: only an invocation that names the same file changes one.

*Verdict.* `VerdictInv` adds to the types that a file whose header claims an integrity line claims that of what was landed there
(`ClaimsAsLanded`), in `artifacts/reviews/` and, where its place there is free, in `docs/reviews/`, and that a migration has before it
only files that are there (`MoreTypeOK`). `MigrationLosesNothing` is an action property, by cases over the steps.

*WatchCI.* `WatchInv` adds that the run chosen exists and was the newest of ours when it was chosen (`ChosenRun`) and that what
is on file came from one of ours that was there by then (`OnFile`). GitHub's steps are dealt with by `Grown`: a run keeps what it
is and what it has said.

*YardFold, Detect, Index, Render.* The lanes are functions of the state, so that the inductive invariant is only `Filed`: finitely many
files of those there may be, and a shop, clock and order that the program may find. The work is in the operators, for any
number of files. `SortIsPermutation`, `SortHead` and `SortIsSorted` say that `StableSort` lists every record once, has
first the one that nothing precedes, and respects its order (the rank of a record is a cardinality, so this is by lemmas on finite sets). From these
come what the winner of a subject is, that a first place exists, and what is superseded; then `FoldMeetsReference` and
`FoldNeverGoesBack`, since the records of a subject only become more. `StoreIsNotHidden` needs that every record but the
winner is listed after it, and that the manifest the assembly finds is the sole newest one, whose members all become cars or
declared ones (`ManifestIsFound`, `MembersAre`); `LanesTellOneStory` that the raw record the assembly looks up by its string is always found and is a
newest manifest (`ManifestIsFound`). `DetectorTellsTheSame` shows the two rankings, one by a sort and one by what nothing beats,
to agree on files spelled as the vocabulary has them: the board's winner is one of those the detector may choose;
`IndexTellsTheSame` that the row nothing comes after is of that winner. `PageIsCalmIffWell` takes the conditions one by one
(`NoCondition`, `FilesInOrder`, `ShopInOrder`, `SpacesInOrder`, `ManifestsInOrder`, `MembersInOrder`: each is raised exactly for
what `Well` says is wrong) and then the colours (`HotWins`: the most severe register of a set is needs-attention iff it is in it;
`DefsAre`, `LanesInOrder`, `BodiesInOrder`). `NamesDoNotMatter` is about two states that differ in `naming` alone, so no run checks it:
where no two records of one subject and kind are of one instant (`Untied`), the sorts are by key alone (`SortsByKey`), the raw
manifest is the only one of its string, and the whole board is the same. Where they do tie, the properties of the run `fold` say which choices are open.

Some definitions were given their present form by these proofs. The lists of YardFold became sets in the order of `naming`, since what
the folds of the sequence modules compute needs an induction the provers do not do. A missing subject or kind of a surviving record,
and an outcome on a record that has not returned, were cases the properties had passed over.

Only model-checked: liveness (`Converges`, `BroadcastEnds`, `CatchesUp`, `ComesToShow`, `Ends`), which rests on fairness
and ENABLED and is out of these provers' reach. The four refuted properties have no proof, of course.

## 6. Not modelled

Validation by JSON Schema and `re2.go` (third-party code: a payload or record passes or does not); the
parsing of transcripts and envelopes, paths and hashing in the producer; texts, labels, roles and the DOM writer
(`Render` has the colours); environment overrides, the search for the repository root and the display of the store's path
(pure, read once); the probes; and the ticket board's command (single calls to GitHub, no state of its own).
The definitions of words are read at every poll and taken as constant here; vocabularies and default budget are read once by the code.
The hash of a verdict is taken to tell any two texts apart, and git itself to answer. A call of `gh` that
itself never returns is not modelled: it answers or fails. The wall clock is assumed not to step back. The heartbeat carries no state. A commit that git itself leaves half-done, with a stale index lock, is not modelled.

## 7. Plan

1. Done: poll loop, event stream, browser, the composition with the process's life and its abstract specification,
   producer and scan, fold and assembly with the loaders, detector, index, rendering, verdicts, CI watcher; proofs of every
   safety property of the passing runs and of the refinement.
2. Next proofs: that what `NothingEdited` and `OneOpenDispatch` say holds of invocations that do not overlap, or are of different
   seconds; and what keeps `Ends` from failing at a deadline, as an invariant of the watcher's clock.
3. Left over: spend and titles in the fold and the detector, and the environment overrides of the configuration.
