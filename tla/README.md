# Verification project for CSA-codex

CSA-codex produces patched releases of the Codex CLI.  The repository holds two
kinds of program:

* the **payload**, `payload/codex/native-join-p16`: patches that add exact-run
  joining of sub-agents to the Codex core and a live sub-agent panel to its
  terminal UI (Rust, as patch files; p10 to p15 are earlier revisions);
* the **producer**, `scripts/` and `.github/workflows/`: the tools that port,
  register, build, test, accept, publish and repair compatibilities, and the
  recovery tool for users' migration databases (Python, shell, workflows).

The modules here model the parts in which order, concurrency and failure decide
what happens.  They are written from the code; where a doc, a comment or a test
says otherwise, section 7 tells.

Abbreviations: `P10` = `native-join-p16/shared/additions/0010-core-owned-files.patch`,
`ADP` = `…/bindings/rust-v0.156.1-native-join-p16/patches/1000-core-adapter.patch`,
`TUI` = `…/shared/additions/0020-tui-owned-files.patch`,
`TAD` = `…/patches/1100-tui-adapter.patch`,
`REL` = `.github/workflows/release-patched-codex.yml`,
`CAT` = `scripts/compat_catalog.py`, `SQ` = `scripts/recover_sqlite_migrations.py`,
`CR` = `scripts/compat_release.py`, `VPP` = `scripts/verify_patch_payload.py`,
`WAT` = `.github/workflows/watch-codex-release.yml`.

## 1. Inventory

### 1.1 The payload

| part | state | operations | what is hard | what makes it correct |
|---|---|---|---|---|
| completion registry (`P10`, completion.rs) | exact run → watch channel | `register_running`, `complete`, `subscribe` | late registration, duplicate and conflicting completion | a receipt is written once and never lost |
| `join_one` future | receiver, last version seen | borrow, `changed().await`, drop | completion or loss of the source between two looks | the answer is the run's receipt; no wake-up is lost |
| `spawn_agent` (`ADP`) | child, submitted message, registered run | submit, register, return the run id | the child ends, or the parent is interrupted, in between | an id that a parent has is joinable |
| terminal-turn hook (`ADP`) | recorded terminal error | take the error, publish the receipt, notify the parent | order of error, event, receipt and notification | every run ends with one receipt that tells the outcome, before the parent hears of it |
| `join_agent`, `join_agents` (`P10`) | one pending call | validate, started item, join all, completed item, reply | batches, interruption, circular waits | exact replies; a parked parent returns |
| live panel state (`TUI`, subagent_live.rs) | rows, archived agents | one reducer per notification, request, reconciliation | events in any order, after the end, for agents gone | finished batches leave at once; a row says what its agent does |
| panel event loop (`TAD`, App) | queue, ownership, redraws | handle a notification, reconcile, draw | reconciliation overtakes queued notifications | once caught up, the panel shows who works |
| rendering, mouse capture (`TUI`) | scroll, animation | draw | – | not modelled |

The core and the UI interact only through the app server's notifications, which
`SubagentFeed` takes as one ordered queue.

### 1.2 The producer

| part | state | operations | what is hard | what makes it correct |
|---|---|---|---|---|
| migration recovery (`SQ`) | a private stage, one output directory | list, hash, copy, inspect, repair, report, rename | SQLite writes meanwhile; another recovery; death anywhere | a copy of one moment, repaired entirely or not published |
| compatibility catalog (`CAT`) | the index, authority files bound by hash | resolve, candidate, stage-candidate, accept | edits between check and use; death between two files; wrong paths | only what was built and tested from the files that are there can be released; an acceptance is final |
| release publication (`REL`, job publish) | tag, release, its assets | catalog, tag, draft, delete, upload, verify, publish | every API call can be the last; re-runs; other runs | a published release is whole and of its tag |
| release plan, build broker (`REL`, jobs plan, build, bundle) | request id, child runs, artifacts of the run | bind, dispatch or reuse, watch, view, download, verify, bundle, re-run | lost answers, unreadable status, artifacts of earlier attempts, ids typed by hand | one child per target and attempt; a bundle is of one request and source; every run ends |
| build shard (`build-patched-codex-target.yml`) | compiler cache, one artifact | patch, compile, pack, upload | cancelled builds | the artifact's record names target, request and source |
| payload authoring (`CR`) | family index, bound manifests, staged files | port, finalize, pack, verify-target | several files written one after the other, undone on failure, killed anywhere | between commands every binding loads; a failed write restores; what a kill leaves can be mended |
| patch families, audit, payload verification (`patch_family.py`, `compatibility_audit.py`, `VPP`) | none: pure checks of files | verify_family, audit, drift report, verify | bindings share patches | what is merged never breaks a binding that verified |
| contract runner | a report between two phases | tests, build | the sources change between the phases | not modelled |
| cold-unplug driver | report, evidence | run servers and terminals | process cleanup | the report binds the files it was made with |
| watcher (`WAT`, `CR` detect and blocker) | branches, pull requests, one issue | detect, port, push, open a request; rewrite or open the blocker | many queries while everything moves; runs that die or are repeated with an old target; a listing that fails unnoticed | one blocker but for lost listings; a candidate under review stays; every release is answered |
| diagnostics, notes, CI | none | reports | – | – |

Interactions: the watcher ports the patches to a new release and proposes that;
`port` adds a binding to the family and `stage-candidate` enters it in the
catalog; the broker has children build it; the build resolves the catalog and
writes the candidate record; the cold-unplug driver tests the executable;
`accept` binds all of that; publication resolves the catalog again, and tags,
fills and publishes.

`PROJECT.json` lists every component with its sources, and every hazard at its line.

## 2. Modules

| module | models | state ↔ code | actions ↔ code |
|---|---|---|---|
| `JoinContract` | what joining promises, abstractly | one receipt per run, one answer per question | `Publish`, `Ask`, `Answer`, `Refuse`, `Abandon`, `Close` |
| `RunCompletion` | registry and `join_one` | `phase`/`version`: value and version of a watch channel; `fut`: a future and where it is suspended; `closed`: all senders dropped | `Register`, `Publish`: registry calls under the mutex; `JoinOne`: subscribe; `Check`, `Changed…`: one poll; `Drop`, `DropSource` |
| `NativeJoin` | agents that spawn, run turns and join; uses the registry and futures of `RunCompletion` | `runs`, `busy`: turns; `spawn`: a spawn_agent call; `call`, `item`: a join; `terminalError`, `ending`, `settling`, `notified`: the hook; `told` (history): who learnt a receipt from a message | spawning (`ADP` 205–240, 1667–1699), turn end and hook (`ADP` 465–544), join tools (`P10` 389–777) |
| `SqliteRecovery` | recover and audit next to SQLite | `disk`: file contents as versions; `pc`, `rec`, `snap`, `work`, `report`: one run's stage; `output` | one action per step of `recover()` (`SQ` 241–315); `Writer`: what SQLite does to the files |
| `SubagentLive` | the panel's rows | `rows`: `agents`; `archived`; `batch`: rows just sent to the transcript; `missed`, `frame`: rows drawn out of date with no redraw asked for, and the redraw that is | one action per reducer |
| `SubagentFeed` | the panel fed by a server; extends `SubagentLive` | `server`: the threads; `queue`; `tracked`; `reading`, `read`: a reconciliation | server events (external), `Handle`, `ReadThread`, `FinishReading`, `AbandonReading` |
| `ReleasePublish` | runs of the publish job | `tag`, `release`: GitHub's; `run`: a job's progress; `payload`, `recipe`: what a commit holds; `overlapped` (history): whether two runs were ever in progress at once | one action per API call |
| `BuildBroker` | runs of the release workflow up to the bundle, and their children | `child`: child runs in the order of their ids; `run`: plan and bundle; `job`: one build job per target; `upload`: artifacts the run holds; `inputs`: a commit's build inputs, by the first commit that has the same | plan (`REL` 96–183), one action per step or API call of a build job (`REL` 338–462, verify-target `CR` 412–515), `Bundle` (464–521), `Rerun`; children and lost answers are external |
| `PatchFamily` | a family's files, port and finalize; what loads, verifies, may be merged | `disk`: the work tree with staged files; `main`: what is merged; `cmd`: the command under way and what it will undo; `killed` | one action per write of a command or of its undoing (`CR` 639–857); `Verifies` (`VPP`), `VerifyFamily` (patch_family.py), `CheckImmutability` and `Unchanged` (compatibility_audit.py); edits, kills and merges are external |
| `UpstreamWatch` | runs of the watcher | `upstream`, `head`, `tagged`, `published`; `branch`, `pulls`, `blocker`; `pending`, `run`: the concurrency group; `failed`: what a repeated run starts from; `unlisted` (history): repeated runs that lost the listing of the blockers | one action per query or write of the jobs (`WAT` 22–391, `CR` 241–291) |
| `CompatCatalog` | the catalog's files and commands | `entry`, `current`: the index; `file`, `manifest`, `profile`: authority files by content; `built`: candidate records; `gated`: the compatibilities from p14 on, which need a report; `cmd`: the command under way | one action per check or write of stage-candidate and accept; edits of reviewed files |

Each `MC…` module names the model values of the runs.  Each `…_proofs` module
holds the theorems about the module it is named after (`SubagentFeed_proofs`:
about `SubagentLive` and `SubagentFeed`; `CompatRelease_proofs`: about
`PatchFamily` and `UpstreamWatch`, the two modules of compat_release.py), with the
inductive invariants; section 5 tells what they establish.  `CompatRelease_proofs`
extends two modules, which is why `UpstreamWatch` has a `WatchInit`, a `WatchNext`
and so on.  `PROJECT.json` maps every
definition that stands for code to its lines.

Composition: `NativeJoin` instantiates `RunCompletion`, and `join_reuse` checks
that it uses it as its specification allows (`UsesRegistry`); `RunCompletion` is
shown to implement `JoinContract`, by TLC and by proof.  So what `JoinContract`
says holds of the joins of `NativeJoin`.  `SubagentFeed` extends `SubagentLive`:
every step of the feed calls the reducers of the panel.  `ReleasePublish` begins
where `BuildBroker` ends.

An invariant that a run checks may be the conjunction of several, which are
properties of one hazard each and have their own definitions and comments:
`JoinsAreExact` is `RepliesAreExact`, `ReceiptsAreKnown` and
`ReceiptBeforeNotification`; `RowsAreCoherent` is `RowIsCoherent`,
`ArchivedIsHidden` and `FinishedBatchIsTaken`; `PanelAgrees` is `RunningIsShown`
and `NoGhosts`; `PublishedIsSound` is `PublishedIsWhole` and `PublishedIsTagged`.
Each contains its module's `TypeOK`
(`WatchTypeOK`).

## 3. Runs

| run | asks | instance | distinct states |
|---|---|---|---|
| `registry` | registry and futures: answers, wake-ups, finality, the contract, liveness | 2 runs, 2 joiners, 2 receipts | 5.6 k |
| `join_reuse` | exact replies, errors are failures, receipt before notification, parked parents return, use of the registry | 1 child used for 2 turns, 2 joins of up to 2 ids, made-up ids, all abort reasons, shared receipts | 203 k |
| `join_tree` | the same replies; no circular wait; every run gets a receipt, those of parked children too | 2 children that spawn, fork and join each other, batches of 2, interruption at any point | 345 k |
| `recovery` | copies are of one moment; what is published is repaired; nothing is repaired before all is understood; the first output stays | 2 databases, 5 files; 1 run next to 3 writes in both journal modes, or 2 runs over any mixture of checksums | 2.17 M |
| `live` | rows under every event in every order; no handler forgets a redraw | 2 threads, 2 items, 2 requests, 1 recent item, totals 0 and 1 | 132 k |
| `feed` | the panel shows who works | 2 threads, 2 turns each, queue of 3, one thread with late news | 1.74 M |
| `feed_stats` | finding: token statistics of a second turn | 1 thread, 2 turns | violation |
| `release` | whole, tagged, final | 2 runs of any triggers, 2 commits, 2 payloads, 2 recipes; two re-runs, or one overlap | 3.69 M |
| `broker` | one build per bundle, one child per attempt, true verdicts, every run ends | 1 run with 2 attempts, 2 targets, 2 commits, 2 children made by hand, 2 watches, 1 fault | 645 k |
| `catalog` | released is tested, acceptance is final, commands break nothing | current compatibility and a candidate that needs a report or none, 4 paths, 2 versions, 2 artifacts, 2 stamps | 1.10 M |
| `family` | whole between commands, restored after failed writes, mendable after kills; merges break nothing; where the drift report agrees with the verifier | 2 bindings and a third release, 3 patches each, 5 texts, 1 executable, 1 edit, 1 kill | 1.07 M |
| `watch` | one blocker but for lost listings, candidates stay, every release is answered | 3 releases, 2 issues, 1 death or lost listing, 1 repeated run, 2 manual interventions | 837 k |

Every property of a passing run has a mutant, a version of one operator with a
plausible mistake, under which the run finds it violated.

**Why the bounds are enough.**  Two runs, two joiners and two receipts give
every duplicate, conflict and race of a channel: joiners meet only through one
run's entry.  (For the safety properties the theorems of section 5 lift the bounds; here is why
the runs can meet the interesting cases.)  Two children and
the root are the fewest agents that can wait in a circle and that make a batch
with one failing member; reuse needs one child with two runs.  Three writes let
a checkpoint or a rollback fall between the two hashes of a file and a commit
between two files; the second database shows that one explained database does
not carry the other.  Two recoveries suffice for the race, since the output has
one first owner.  Two threads let one be archived or dropped while the other
works; two requests and two items with a list of one item force replacement and
eviction; two turns are needed for what a turn inherits from the one before.
Two release runs over two commits give a repair by a later commit with equal and
with different payload, an interrupted run that is repeated before or after
another, and two of different groups that overlap at any point (`MaxTrouble`:
a re-run counts 1, an entry beside another run 2 more).  The broker
needs one run only: a run looks at no children but those it dispatched or was
given, and the children that maintainers dispatched before it began stand for
those of other runs; two commits make an input that changed, two targets let one
be built while the other is not, and two watches (five in the code) contain a
repeated one and the last one.  In the family two bindings share an addition and
an exact patch, which is what an edit for one of them can break in the other;
the third release takes the adapter of one of them and not that of the other, so
that a port succeeds and fails; a fourth adapter touches one path fewer, so that
an edit makes a manifest name a path too many or too few; and one kill before
the tree is clean again leaves a staged index that refuses the next command.
Three releases let the watcher be overtaken by a
release twice, so that a blocker is opened for one, rewritten for the next and
stays for the last; one fault and one repeated run are what a second blocker
takes.  In the catalog two contents of each file are enough to edit
and to revert between two steps, two stamps to repeat a command on another day,
and four paths to give a command a free path, an own one and one of another
compatibility.

`CHECK_DEADLOCK FALSE` everywhere: all these systems may rest (no agent joins,
no command runs), and the bounds on turns, writes and attempts end behaviours.

## 4. Fairness

* `RunCompletion`: weak fairness of `Step(w)`: a future whose wake-up condition
  holds is polled again, which is what the executor guarantees for a woken task.
  Nothing is assumed of completions, drops or the loss of the source.
* `NativeJoin`: the same for the futures; the hook that has been started runs to
  its end (`PublishTerminal`, `NotifyParent`, `RegisterSpawned`, `ReturnSpawned`
  are straight-line async code); a turn that is not parked in a tool call ends
  sooner or later (`CompleteTurn`), which is the model's part and without which no
  join can promise anything.  A parked turn is not assumed to end.
* `BuildBroker`: the runners work through their steps (`JobStep`, `Bundle`), and a
  child ends, at the latest by its time limit (`REL:320` and the children's own).
  Nothing is assumed of status requests: `WatchBreaks` may happen always, and
  `RunEnds` holds nevertheless since the watches are counted.
* `UpstreamWatch`: runs are triggered every hour (`WAT:5`), start when the one
  before has ended (the concurrency group, `WAT:8`), and go on (`RunStep`).
  Nobody has to merge, tag, publish or repair anything.  That a run dies, that a
  failed run is repeated and that maintainers interfere is bounded
  (`MaxFaults`, `MaxReruns`, `MaxManual`): `ReleaseIsAnswered` speaks of what
  happens once that stops.
* The other modules state safety only.  The recovery, the catalog's and the
  family's commands and the publication may always stop half-way, so no progress
  is promised.

## 5. What is proved

The `…_proofs` modules prove, for every value of the constants, all the safety
properties that the passing runs check.  TLC checked each inductive invariant on
the module's run before it was proved.

| module (obligations) | theorem | says |
|---|---|---|
| `RunCompletion_proofs` (362) | `TypeCorrect` | `Spec => []TypeOK` |
| | `AnswersAreReceipts` | an answered join carries the receipt of its run, and "source closed" is never said of a run with a receipt |
| | `NoWakeupIsLost` | a suspended join of a completed run has an unseen version |
| | `ReceiptsAreFinal` | no step changes a receipt or forgets a run |
| | `Implements` | `Spec => JoinContract!Spec` under the refinement mapping |
| `NativeJoin_proofs` (1232) | `JoinsAreAnswered` | replies are exact, ids that a parent has are registered, receipts precede notifications |
| | `ErrorsAreFailures` | a receipt tells what became of its run |
| | `NobodyWaitsInACircle` | in every circle of joins there is an agent that learnt a run id from a message |
| | `RegistryIsUsed` | every step of the handlers is one of the registry or leaves it alone: `Spec => Registry!Spec` |
| `SubagentFeed_proofs` (2650) | `RowsStayCoherent` | rows are coherent, archived agents hidden, finished batches taken at once |
| | `ScreenStaysCurrent` | whatever is drawn out of date has a redraw coming, but for a row that a total of zero has just entered |
| | `FirstOutcomesWin` | the outcome of a terminal row stays |
| | `WaitingItemsAreApproved` | no step but a reconciliation leaves an item waiting for an approval that is not open |
| | `PanelShowsWhoWorks` | once the loop has caught up, the panel shows at work exactly the threads that are |
| `SqliteRecovery_proofs` (1395) | `SnapshotsArePointsInTime` | what is published or reported on is the source at one moment |
| | `PublicationsAreRepaired` | an output has a report of success and only official checksums |
| | `RepairsFollowInspection` | nothing is repaired before all is understood, and an audit repairs nothing |
| | `OutputsAreFinal` | the first output stays |
| `CompatCatalog_proofs` (887) | `ReleasesAreTested` | what may be released was built, and from p14 on tested, from the files that are there |
| | `AcceptancesAreFinal` | no step changes an accepted entry |
| | `CommandsAreHarmless` | no command makes a compatibility unresolvable, unless it accepts one of before p14 with a manifest that was another when it was hashed |
| `ReleasePublish_proofs` (861) | `PublicationsAreSound` | a published release is of its tag, and the whole of one build unless runs have overlapped |
| | `PublicationsAreFinal` | a tag never moves, and only a repair takes a published release down unless runs have overlapped |
| `BuildBroker_proofs` (914) | `BundlesAreOfOneBuild` | a bundle has a good build for every target, of one request and source |
| | `DispatchesAreSingle` | one child per target and attempt at most, although answers are lost |
| | `VerdictsAreTrue` | "failed" is said of failed children only, "unknown" only after all the watches |
| `CompatRelease_proofs` (2437) | `CommandsUndoThemselves` | a family at rest that no kill has hit is whole and loads |
| | `KillsAreMended` | a kill outside an undo leaves an index that matches, or one staged that does |
| | `FailuresRestore` | a command that fails at one of its writes leaves the work tree it found |
| | `MergesKeepVerified` | what the audit lets in breaks no merged binding that verifies |
| | `DriftIsVerification` | a merged binding that verifies is not called changed; one called unchanged verifies, or is wrong about a path that it does not declare absent |
| | `BlockersAreSearched` | at most one blocker more is open than repeated runs have lost the listing |
| | `CandidatesAreFinal` | a candidate under review is not replaced |

**Assumptions.**  The constants are arbitrary sets and numbers.  The modules
assume of them that bounds are numbers, that the values that stand for "none"
are none of the values they stand beside (`PhasesDistinct`, `ValuesDistinct`,
`NothingAssumption`, `AbsentAssumption`, parts of `BoundAssumption`), that
every database has a main file in `FileOrder` (`SQ` looks for no other), that
patches touch paths of the sources (`PatchAssumption`), and that the family that
is first committed passes the audit, the family gate and the verifier
(`SeedAssumption`; test_producer_tools.py:132-136 runs the gate on the committed
families).  TLC evaluates them in every run.  No theorem has a hypothesis of its own: where
the code rests on something that it does not ensure, the property names the case
that is left over, by what happened in it:

* `NoCircularWait`: `join_agent` takes any well-formed id (`P10:414` excludes
  only the caller's own), so agents that tell each other their ids can wait in a
  circle.  `told` are the agents that have learnt an id so; every circle has one.
* `ScreenIsCurrent`: a first total of zero enters a row and asks for no redraw
  (`TUI:407-420`).
* `PublishedIsWhole` and the second half of `PublicationIsFinal`: the concurrency
  group of a run does not keep the other runs of its compatibility away
  (`REL:36`).  `overlapped` says whether two were ever in progress at once.  The
  rest holds then too: a published asset is of the tagged commit, and the tag
  stays.
* `CommandsBreakNothing`: `BindsAnother` is an acceptance without a report whose
  manifest was edited and restored; section 7 again.
* `OneBlocker`: `unlisted` counts the repeated runs that lost a listing (`WAT:367`).
* `DriftReportAgrees`: `Misnamed` are the paths that a manifest names and its
  patches do not touch, or the other way round.

**The inductive invariants.**  None of the properties is inductive by itself.
Each `IInv` adds to the type invariant what the actors know while they are under
way, one predicate per part of the state:

* `RunCompletion`: `WellFormed` (a future's record) and `Informed` (what it knows of
  its channel: `seen <= version`; awaiting and completed means unseen; done means
  equal to the receipt, or closed without one).  `RegistryForward` (entries only
  move forward, and not at all once closed) gives finality too; `ContractStep`
  maps every step to one of the contract or to a stutter.
* `NativeJoin`: `PhaseHolds` (a receipt is of its own run; only the first turn is
  registered as running), `SpawnHolds`, `AgentHolds` (what an agent knows is
  registered; what it joins it knows or made up), `SlotHolds` (the future of each
  id of a call) and `HooksHold` (what the hook has settled has a receipt).  For
  circles, `NoCircleForms`: in every non-empty set of agents that nobody told
  anything there is one that may come to await none of the set.  A new agent keeps this true, since it may
  await at most what its parent knew when it forked, and only its parent may
  await it.
* `SubagentLive`: `RowHolds` of every shown row.  The proof has one lemma
  per reducer of a row (`…Holds`), then one per reducer of the panel
  (`…Reduces`), which all hand a `Sound` set of rows to `finish_change`.  That a
  waiting item has its approval needs `TracedInv` besides: an approval that found
  its item in no list, or closed, has left none behind that shows as waiting.
* `SubagentFeed`: `FeedInv` adds `ThreadHolds` for each thread.  Of a thread that
  works (`BusyHolds`): its row is at work and nothing that ends it waits in the
  queue, or a turn notification that the loop will own waits and nothing after it
  ends the row; the reading under way, if any, does not say that it rests.  Of a
  thread at rest (`RestHolds`) the dual, with the late news of `LateHints` and
  `LateTokens` excepted.  So the panel is right whenever the queue is empty
  and no reading is under way.
* `SqliteRecovery`: `WritersHold` (what SQLite keeps: a journal excludes a WAL, a
  main file is kept aside only with a journal), `CopyHolds` (what was copied is
  what was recorded, database by database), `RecheckHolds`, `RepairHolds`,
  `OutputHolds`.  That a copy is of one moment rests on `Doomed`: once a
  content that was recorded is `Gone` from the disk it never returns, as
  contents are numbered, and the second hash will notice.  So when that finds
  all as recorded, all was there together at the second listing.
* `CompatCatalog`: `EntryHolds` (an accepted entry is `Evident`: the builds and
  reports it names exist), `StagingHolds` and `AcceptingHolds` (what a command under
  way has checked of the files it is about to bind, and which of it edits can
  have changed since).
* `ReleasePublish`: `TInv`, which overlapping runs keep too (`Bears`: what a run knows
  of the tag once it has read it; `Sourced`: no asset is of another commit than the
  tagged one), and, until runs overlap, `Alone`: `Excluded`, `Knows` (what the
  active run knows of release and assets at each step) and `Public` (what a
  published release is), which it may break only after it has made the release a
  draft.
* `BuildBroker`: `PlanHolds`, `JobHolds` (a finished job has put the artifact of a
  verified child of its own target, request and source into the run, and re-runs keep
  it) and `OnceHolds` (a job that has still to dispatch has
  fewer children than the run has attempts).
* `PatchFamily`: `FamilyHolds` (every manifest that is there is `Faithful`: it uses
  shared patches and its own only; and its patch files are there), `StartHolds` (what a command knows of the
  family it found), `WorkHolds` (what of it each write has changed, as a
  function of the step it is at), `UndoHolds` (what `Differs` from the family found
  is still on the list of things to undo, and a truncated file is written again
  before the list ends) and `RestHolds`.  From `WorkHolds` follows both that the
  list made at a failure is complete (`UndoneMends`) and which index a kill
  leaves (`IndexIsNewOrOld`).  That a merge breaks nothing needs of the
  application of a series of patches only that it depends on nothing but the
  patches and the sources, so the proof never opens `Apply`.
* `UpstreamWatch`: `RunsHold`, `BlockersHold` (while a run is about to open a blocker
  none is open but those that lost listings account for) and `CandidatesHold` (a request under review has its branch).

**Composition.**  `RegistryIsUsed` says that `NativeJoin` implements the
specification of `RunCompletion` with its own futures as waiters, and
`RunCompletion_proofs!Implements` that this implements `JoinContract` for every
set of runs, waiters and receipts.  The conclusion, that native joins keep the
contract, is by substituting the one into the other; tlapm cannot cite a theorem
of an instantiated module, so that last step is said here and not in a module.

**Only model-checked.**
* Liveness, since leads-to under fairness and `ENABLED` are out of the prover's
  reach: `JoinResolves` and `CloseReleasesJoins` (registry), `ParkedJoinReturns` and
  `EveryRunGetsReceipt` (`join_reuse`, `join_tree`), `RunEnds` (broker), `ReleaseIsAnswered` (watch).
* What `Apply` computes for a series of patches: it is a fold, and what a fold computes
  for every series needs induction over data.  No theorem depends on it.

No module uses `RECURSIVE`.

## 6. What the models leave out

* **RunCompletion, NativeJoin**: texts, schemas and telemetry; the fork history.
  A process restart empties the registry; nothing is promised then.
  `join_tree` keeps receipts out of messages (`ShareReceipts = FALSE`), since its
  liveness rests on there being no circle; with them `NoCircularWait` holds as
  well, by its theorem.  A submission that never becomes a turn is not modelled:
  its run has no receipt until the source is closed.
* **SqliteRecovery**: what SQLite stores is a version number; what
  `inspect_database` checks besides the checksums is one flag per database; files
  of other names are ignored as the code ignores them.
* **SubagentLive, SubagentFeed**: labels, instants, drawing.  `feed` excludes the
  threads of `LateHints` and `LateTokens` from `NoGhosts`: a spawn announced, or a
  total reported, after a turn was archived enters a row that never ends
  (`TAD:3301`).  `hydrate_agent` clears approvals and leaves
  their items "awaiting" (`TUI:771`), which `WaitingItemIsApproved` allows for
  reconciliations only.  Reconciliation drops finished rows without archiving
  them (`TUI:635`).
* **ReleasePublish**: plans that the workflow refuses are no steps; prereleases
  and notes are left out; reused builds are `BuildBroker`'s; the catalog that a
  re-run builds is taken to be that of the first attempt.  The branch of the tag step
  that leaves a tag of an older commit alone (`REL:690`) cannot be reached, as
  the install catalog refuses first (`CAT:1110`).
* **CompatCatalog**: one command at a time; one target; `resolve` is one step; a
  file that its validator refuses counts as drifted; a candidate record is made in
  the checkout it was resolved in; contents of evidence other than what it binds.
  The install catalog is a guard of `ReleasePublish`; `list` and the release
  guard only print.  An accept
  that died before the index and is repeated on another day is refused, since the
  record carries the date (`CAT:1487`).  Editing the build profile makes every
  compatibility of the target unresolvable, by design.  From p14 on acceptance
  asks for provider `github` (`CAT:633`), which neither workflow writes
  (`REL:568` writes `github-actions`); the model keeps both values.
* **BuildBroker**: maintainers commit and dispatch children before the run
  begins; what an archive contains is its target record, which names target,
  request, source and (by construction) the child; how many targets there are is
  a constant. A failed child may be re-run under its id after the job gave it
  up.
* **PatchFamily**: schema 1; the syntax of patches and manifests (a patch is
  what it does to each path: the blobs it applies to and the blob it gives); one
  family; one artifact per binding.  `Merge` demands what the audit and
  `verify_family` accept; no workflow runs either on a change.  The audit checks
  what CONTRIBUTING.md:10-11 asks of a contributor, and the tests run
  `verify_family` on the p10 and p14 families (test_producer_tools.py:132-136).
  An edit ends when digests of index and manifests are consistent, as hand work
  that loads again is; whether the paths that a manifest names follow is open.  A
  kill in the middle of an undo can leave a truncated manifest or index, of which
  nothing is claimed but what a new checkout mends.  `finalize` takes any executable
  of the right name (`CR:811`), so `BeginFinalize` takes any.  `pack` is not modelled.
* **UpstreamWatch**: what the port does to files is `PatchFamily`'s, here it
  succeeds or fails; logs and texts of issues; other labels.

Left for people, and stated by no property: a recovery that dies between report
and rename leaves a report that says "recovered" in a temporary directory
(`SQ:300`); a repair of a published release makes it a draft first and, if it
stops, only a re-run publishes it again (`REL:735`).

Not modelled at all, with the reasons in `PROJECT.json`: the contract runner, the
cold-unplug driver beyond its preparation, diagnostics and notes, rendering, CI,
and the earlier payloads.

## 7. Findings

* `feed_stats`: the tokens of the second turn of an archived agent are reported as
  the total of both turns, because `start_turn` enters a new row without the
  baseline (`TUI:363`); the test `terminal_stats_are_scoped_to_the_current_turn`
  covers only a row that was not archived in between.

Observations that no run records as a finding:

* The concurrency group of the release workflow is named after the selector as
  it was written (`REL:36`), so `current`, the exact id and the pushed tag of
  one compatibility do not exclude each other.  Without `~overlapped` in
  `PublishedIsWhole` and `PublicationIsFinal` TLC finds both violated: a published
  release can lose assets or mix two builds.
* `port` copies the adapters of the base byte for byte, and `verify_family`
  refuses two bindings with equal adapters (patch_family.py:449-452): a port
  cannot pass the gate until its adapter is changed by hand.  The two rules meet
  in `AdaptersDiffer`.
* `port` makes its temporary directory before it looks for a leftover
  `family.toml.next`, and outside the part that removes it again (`CR:661-667`):
  refused because of one, it leaves `.<compat_id>.…` in `bindings/`
  (`RefusePort`).  `FailureRestores` speaks of commands that have begun to write.
* Nothing but the verifier compares the paths that patches touch with those that
  a manifest names: an edit that makes an adapter touch one more path and
  refreshes the digests only passes audit and family gate, is reported
  `unchanged`, and fails verification (`Misnamed`).
* A listing of blockers that fails is taken for an empty one (`WAT:367`: the shell
  does not look at the status of a process substitution).  In a repeated run it
  opens a second blocker, with which every later run ends with an error until
  somebody closes one (`CR:302`).
* A total of zero of a thread that has no row enters one without asking for a
  redraw (`TUI:407-420`): the row appears with the next one.
* A compatibility from p14 on cannot be accepted with a record that the tools
  write, since they write provider `github-actions` (`REL:568`) and acceptance asks
  for `github` (`CAT:633`).
* A compatibility that is accepted without a report (p13 and earlier) is checked
  against the manifest of its entry when the record is read (`CAT:1427`), and
  its authority binds the manifest as it is when it is assembled (`CAT:1484`,
  `CAT:1497`).  Were a manifest edited in between and then restored, the
  acceptance would make its compatibility unresolvable (`BindsAnother`), though
  never released.  The index still has such candidates (p11 to p13 and before).
* The cold-unplug driver takes histories and the canonical state after the
  candidate's last turn (verify_cold_unplug.py:723-726): what the candidate
  itself lost before is in neither of the two states it compares.

## 8. Plan

Done, in this order: `JoinContract`, `RunCompletion` and its proofs, `NativeJoin`,
`SqliteRecovery`, `SubagentLive`, `SubagentFeed`, `ReleasePublish`,
`CompatCatalog`, `PatchFamily`, `UpstreamWatch`, `BuildBroker`.

Next: `ContractRun`, the two phases of `run_patch_contract.py` over sources that
may change between them.

Proved since: the safety properties of all of them.

Theorems worth adding: that `BuildBroker` and `ReleasePublish` together publish
the bundle of the run that built it, which asks for one module that joins the
two; and the safety of `ContractRun` once it is there.
