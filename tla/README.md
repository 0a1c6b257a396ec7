# A verified model of the Dropbox to Proton Drive mirror

The program mirrors a Dropbox account into one Proton Drive folder, night after night. Its
one promise is at the top of its README: "After each run Proton Drive holds what Dropbox
held at listing time", and "nothing is recorded as mirrored until Proton's own upload summary
has accounted for it". The only durable state is one SQLite database in a bucket. Everything
that makes this hard is between those sentences: Dropbox is edited while the run goes on, the
Proton CLI refuses files or dies, its summary names files by basename only, the machine may
be lost at any step with whatever was not pushed, and the weekly check of Proton's own
listing is a parallel walk that may take several runs and shares one rotating session token
between processes.

This directory has TLA+ modules of that, the TLC runs that check them on small instances, and
proofs checked by TLAPS for every value of the constants. Paths of the source are given
below `src/migrator/`; the README quoted is the repository's.

## The system

| Component | State it keeps | Operations | Interacts with | What is hard | What makes it correct |
|---|---|---|---|---|---|
| Pipeline (`Taskfile.yml`) | none | the phases in order; the report of a run that died | one process per phase | a run may die in any phase | a failed phase stops the run, the report still pushes |
| Commands (`commands.py`) | `.run/clock.json` | clock, session, state, rollback, seal | bucket, state | the first run ever against a lost state | a lost state never looks like an empty mirror |
| Phase runner (`runner.py`) | `phase_runs` | start, complete, fail | every phase | killed without a handler | what the next run starts from does not depend on the row |
| State database (`state.py`) | all tables | transactions, snapshot | every phase | what is on disk is not durable | only a push counts |
| State file and bucket (`statefile.py`, `store.py`) | canonical key, dated copies | fetch, push, rollback | S3 API | death between put and copy | a killed run repeats at most one batch |
| Dropbox inventory (`p10_inventory.py`, `dropbox_api.py`) | `dropbox_objects`, cursor | pages, upsert, recase, prune | Dropbox | a listing is not of one moment | a later run corrects what a listing missed |
| Delta (`p20_delta.py`) | `delta_changed`, `delta_deleted` | compare, floor | inventory, mirror | truncated listings | never a trash list out of a truncated listing |
| Plan (`p30_plan.py`) | `batches`, `batch_items` | pack, cap, disk | delta | sizes at their limits | every changed file that fits is in one batch |
| Batch loop (`p40_batches.py`) | `remaining_batches`, `chain` | start, stop, fail | clock, steps | budget against failure | trash and reconcile see what is left |
| Batch steps (`batch.py`) | item statuses, staging, summary | fetch, verify, upload, confirm, checkpoint | Dropbox, CLI, bucket | edits in mid-batch, partial uploads | only what Proton holds is recorded |
| Trash (`p50_trash.py`) | `deletions` | list, trash, drop rows | CLI, bucket | listings that fail, half-done trash calls | only what left Dropbox, only after the batches |
| Reconcile (`p60_reconcile.py`) | snapshot, folders, nodes | walk, drop rows, trash strays | walk, bucket | a walk of several runs | rows and Proton agree afterwards |
| Walk (`proton_cli.py`) | folder queues, workers | dispatch, collect, drain, rescue | CLI processes | workers stealing, failing, deadline | the whole tree exactly, and progress |
| Session (`session.py`, `WorkerSessions`) | main, copies, sealed bundle | restore, write back, promote, reseed, seal | CLI, bucket | token rotation by concurrent processes | the bucket has the token the server accepts |
| Report (`p70_report.py`) | run status, chain marker | figures, finish, push | state | runs that died | the status of a run is the truth |
| Downloads (`dropbox_api.py`) | temporary files, attempts | ask, write, rename, retry | Dropbox, staging | a pool, a retry after half a file | staging holds what was verified, and a fetch ends |
| Auth, hashing, crypt, config, logging | files, counters | see PROJECT.json | every phase | | a failure stops the phase |

The hazards this list leads to, each at its line with the properties that watch it, are in
`PROJECT.json`.

## Modules

    Confirm ── Mirror ── MirrorProperties ─┬─ MCMirror                       (TLC)
                                           └─ MirrorProofs ── RunProofs
    RunLedger ── LedgerProperties ─┬─ MCRunLedger                            (TLC)
                                   └─ LedgerProofs ── HandOverProofs
    SessionWalk ── WalkProperties ─┬─ MCSessionWalk                          (TLC)
         │ INSTANCE                └─ WalkProofs
     FolderQueue   (abstract)
    Packing ─┬─ FetchPool ── PoolProperties ── MCFetchPool                   (TLC)
             └─ PackingProofs ── PoolProofs (with PoolProperties)
    ProtonTree ── TreeProperties ─┬─ MCProtonTree                            (TLC)
                                  └─ TreeProofs

Mirror is the composition: every phase of a run, run after run, with the world around it. The
other four each open up one part of it that Mirror keeps closed, and close the rest in turn:

| Module | Opens up | Keeps closed |
|---|---|---|
| Mirror | what a run does to Proton and to the rows | paths are names, one node each; one dated copy; a fetch has an outcome; the walk is sequential |
| RunLedger | what a run knows of the runs before it | a batch, a trash and a walk are figures |
| ProtonTree | nodes, names, casings, folders, UIDs | a run lands its batches; one walk at a time, no sessions |
| FetchPool, Packing | the plan, the pool, the staging directory | an upload lands |
| SessionWalk | workers, queues, session tokens | what is done with the nodes found |

**Confirm** is the verdict of `batch.confirm`: a pure function of the batch and the CLI's
summary. `Accounted`, `Errors`, `FailedRows`, `Confirmed` are the local variables of that
function, `Verdict` the statuses it writes.

**Mirror** is one run of the pipeline after another. `pc` is the step taken next; each action
is one phase, one step of a batch, one remote call, or one fault:

| Code | Actions |
|---|---|
| `commands.state`, `statefile.fetch` | `StartRun`; `Rollback` for `task state-rollback` |
| `dropbox_api.inventory` | `ListEntry`: each entry is read at a moment of its own |
| `p20_delta.run` | `Delta`, `RefuseListing` |
| `p30_plan.run` | `Plan`: any split into batches |
| `p40_batches.run` | `StartBatch`, `EndBatches`, `FailBatch`, `Landed` |
| `batch.fetch`, `verify`, `upload`, `confirm`, `checkpoint` | `FetchItem`, `FetchFails`, `FetchCorrupt`; `Verify`, `VerifyFails`; `Upload`, `SkipUpload`, `UploadDies`; `Settle`; `Checkpoint` |
| `p50_trash.run` | `SkipTrash`, `StartTrash`, `TrashFolder`, `ListingFails`, `TrashDies`, `EndTrash` |
| `p60_reconcile.run` | `SkipReconcile`, `StartWalk`, `ListFolder`, `StopWalk`, `Correct`, `TrashStrays`, `StraysDie` |
| `p70_report.run` | `Report` |
| `statefile.push` | `Put` then `Copy`, `PushFails`; a push returns to the step in `after` |
| the world | `Edit`, `HandUpload`, `Crash`, `PhaseFails` |

A content (size, hash and digests) is one value; `Opaque` is a file that is listed but not
downloadable or without a hash; `Oversized` contents are left out of every plan. `Home` and
`Within` give the tree: an upload creates the folders on the way and may be refused at one of
them, in which case nothing below it is attempted. The local variables are lost at the end of
a run and at a crash, as the work directory of a CI job is; `canon` and `history` are what
the bucket has. `Outcomes` is all that is assumed of the CLI's upload: what it counts as
transferred or skipped is in Proton, what it counts as failed is not, and below a refused
directory nothing was attempted. It may print a detail with a name, one without, or none for
an item it refused.

**RunLedger** is what outlives a run: the rows of `runs` and `phase_runs`, the report and the
chain marker in `.run`, the state object and all its dated copies. `at` is the task of
`Taskfile.yml`, `stage` how far its process is, `broken` that this is the failure path.

| Code | Actions |
|---|---|
| the workflow, `task sync`, `clock` | `Dispatch`, `Chained`, `Clock` |
| `session-restore`, `_fetch_state`, `state` | `RestoreSession`, `SessionFails`; `FetchState`, `FetchFails`, then `StartRun`; `StateDies` before, between or after them |
| `runner.run_phase`, `start_phase`, `complete_phase` | `Enter`, `NoRun`, `Pass`, `Raise`; `Killed` when no handler runs |
| `report-mirror` | `Break`: the report, unless there is one, and never a second time |
| phases 10 to 30, 40 | `Prepare`; `Checkpoint`, `FailBatch`, `EndBatches` |
| phases 50, 60, 70 | `SkipTrash`, `Trash`; `SkipReconcile`, `Reconcile`; `WriteReport`, `FinishRun`; `Close` |
| `statefile.push`, `rollback` | `Push`, `Put`, `Copy`; `Rollback` to any dated copy |
| `task status` on a laptop | `Status`, at any moment of a run elsewhere |
| the world | `HostLost`, `Lose` |

A batch is only counted here: which files of it were refused by name is in Mirror. Runs do
not overlap, which the workflow's concurrency group enforces and the repository's README asks
of a laptop's owner.

**ProtonTree** is about names. Dropbox entries keep their `path_lower` and may be recased;
Proton's nodes have a UID, a path as it was uploaded and a content. `DisplayPath` is
`recase_display_paths` with `display_paths`, `Fold` is `comparison_key` name by name.

| Code | Actions |
|---|---|
| phases 10 to 30 | `StartRun`: the listing, with ancestors cased as each entry pleases |
| `batch.upload`, `confirm`, `checkpoint` | `Upload`: the missing folders one by one, then the file |
| `p50_trash.run` | `StartTrash`, `TrashGroup` (with `Choice`), `ListingFails`, `EndTrash` |
| `proton_cli.inventory` | `OpenWalk`, `ListFolder`, `WalkFails`, `StopWalk` |
| `_correct_mirror`, `p60_reconcile.run`, `_stray_folders` | `Correct`, `TrashStrays`, `TrashRaises`, `TrashFolders`, `FoldersRaise` (with `Occupied`, `StrayFolders`) |
| the world | `Write`, `Recase`, `Delete`, `Duplicate`, `Discard` |

The owner acts between runs only: what a run does depends on its own listing, and changes
under a running batch are the subject of Mirror.

**FetchPool** is a run up to its uploads. **Packing** has the pure functions of
`p30_plan` (`FileCap`, `Needed`, `Pack`) as recursive functions of how many of the changed
files have been looked at. The staging directory
has names and files: `Open` empties whatever the temporary name refers to, `Complete` renames
whatever has the name, as `open("wb")` and `os.replace` do.

| Code | Actions |
|---|---|
| `p30_plan.run` | `Plan`, `RefusePlan` |
| `batch.fetch` | `StartBatch`, `Collect`, `EndFetch` |
| the pool, `dropbox_api.download`, `_open` | `Take`, `Open`, `NotFound`, `Refused`, `Throttled`, `Drops`, `Complete` |
| `batch.verify` | `Verify`, `VerifyFails` |
| the rest of a batch | `Land`, `EndBatches` |

**SessionWalk** is `_Walk.run` with `WorkerSessions` and `session.py`: the main thread's loop
(`Dispatch`, `Dispatched`, `Collect`, `Drain`, `CollectRaises`, `Decide`, `Rescue`, `GiveUp`,
`Adopt`), the workers' processes (`Call`, `CallFails`), the run around it (`StartRun`, `CheckRoot`, `Open`,
`Finish`, `Stop`, `Fail`, `Crash`) and the server and operator (`Lapse`, `Seal`). Tokens are
numbered in the order of their issue. The server is taken to rotate strictly: it refreshes the
newest token only and signs out a copy that tries an older one, which is what the docstring of
`WorkerSessions` describes. `promote` takes the copy written last; since a refresh is what
writes a copy, that is the highest number. `CheckRoot` stands for every call the main thread
makes from the main session before the walk. `CollectRaises` is all that leaves `_collect` by an
exception: of a set of results it has taken some in, in any order, and the walk fails with the
rest. Queues are sets: which waiting folder a worker
takes first does not matter to any property.

**FolderQueue** is what the walk promises, without workers, sessions or deadlines: a durable
queue of folders that starts at the root, only lists what it knows of, and completes when all
is listed. `WalksOneQueue` says that SessionWalk implements it, under the identity mapping of
`status`, `pending`, `listed` and `saved`.

The modules named `...Properties` state the properties; the definitions that follow a comment
`Mutant:` are slips the properties must catch, and are used in no behaviour. They also hold the
inductive invariants of the proofs, where TLC can check them.

## Runs

| Run | Bounds | Shows |
|---|---|---|
| `steady` | 3 files, 3 contents (one oversized), a file without a hash, 2 edits, 1 refusal, no fault | `MirrorIsProton`, `RunHoldsListing`, `NeverTrashListed`, `TrashAfterBatches` without faults, and `Steady`, the second invariant of RunProofs |
| `faults` | 2 files, 2 contents, 2 edits, 1 refusal, 1 fault | `TypeOK`, `KilledRunRepeatsOneBatch`, `ReconcileRepairs`, `NothingRecordedUnheld`, `NeverTrashListed`, and `InOrder` and `Held`, the invariants of the proofs |
| `converge` | 2 files, 2 edits, 1 fault, walks may be stopped and may find a file without a size | `DropsOnlyContradicted`, `Convergence` |
| `walk` | 2 workers, 4 folders, 2 lapses, 1 rescue, 2 listings that fail or raise, 1 crash, deadline | `TypeOK`, `FolderInOnePlace`, `WholeTree`, `LapsesAreRescued`, `CompletionKeepsSession`, `WalksOneQueue`, `WalkCompletes` |
| `ledger` | Actions starts runs, a laptop looks; 2 batches, 5 epochs in days of 3, 2 faults | `TypeOK`, `OneCurrentRun`, `OneBeginning`, `CanonHasCopy`, `NothingForgotten`, `DatedNeverRewritten`, `MarkerMeansProgress`, `ReconcileOncePerDay`, `ChainDrains` |
| `tree` | 2 files in 2 nested folders, 9 UIDs; 1 edit, 1 recasing, 1 meddling in Proton, 1 fault; deadline; a file without a size instead of the edit | `TypeOK`, `OneNodePerKey`, `KnownFilesStay`, `TrashesTheRecorded`, `Settles` |
| `pool` | 3 files of 4 sizes, among them x and x.part; 2 workers, 2 attempts, 3 disks | `TypeOK`, `StagedIsVerified`, `BatchesFit`, `EveryFilePlanned`, `FetchEnds` |
| `lost_session` | 1 lapse, 1 failed listing | `SessionKept` is violated |
| `laptop` | runs started from both hosts, 1 fault | `NothingForgotten` is violated |
| `weekly` | no fault | `WeeklyWalk` is violated |
| `hidden` | two names that fold alike, 1 edit | `DropsOnlyLacking` is violated |
| `part` | as `pool` | `FetchedIsStaged` is violated |

Why these bounds are enough to be of interest. In Mirror two files give a batch with a success
and a failure, two batches, and a move (one path deleted, the other created); one is in a
folder and one in the root, so a folder may be refused and trash has two groups. Two contents
of one size are what a digest tells apart and a size does not. The third file of `steady` is
needed for a deletion beside two batches. Two edits are a change and its reversal in mid-run.
One fault at any step, followed by any number of clean runs, is every single point of failure.

In the ledger two batches are one that a run completes and one it leaves, so a chain has two
runs or more. The epochs are two days, the first of them the weekday of the reconcile run, the
second with a start that is forced; several starts of one day are possible, and chained runs
go on after the last start from outside. Two faults are the least for a rollback after a kill, and for
a lost object after a death between put and copy. In the tree the folder that is recased has
another in it, so a key has three parts, a casing is inherited, and a stray folder may hold a
folder that is occupied. With one of each outside event every pair of them is met, before,
between and after runs and stopped walks; no step within these bounds
lacks one of 9 UIDs. In the pool the limits (batch 3, file 5, headroom 1) lie between the sizes 1, 2, 4 and
6, so a file may be alone over a batch, over the cap by configuration or by disk; two attempts
are a retry and its exhaustion. In the walk a folder is found while its sibling is listed, and
an idle worker takes from another's queue and finds nothing.

A node without a size (`p60_reconcile.py:60`, from `_commit_listing` when there is no active
revision) is charged to `MaxEdits`: it has the effect of an edit, in that a row is dropped and
the file uploaded again, and unbounded it would happen on every walk.

Symmetry of the two contents is used in `faults` alone, where both files may hold either and
no liveness is checked. Deadlock is checked but in `ledger`, `laptop` and `weekly`: there the
bounded calendar is over, and nothing starts another run. The bounds are `MaxEdits`,
`MaxFaults`, `MaxRefusals`, `MaxLapses`, `MaxErrors`, `MaxCrashes`, `MaxRecases`, `MaxMeddles`,
`LastDispatch`, `LastEpoch`, `Fresh` and `MaxAttempts`, the last of which the code has too;
once the others are used up the system goes on without those events.

### What the passing runs assume

* `NothingRecordedUnheld` takes it that the CLI names the items it gives details of (`Details`
  without `"nameless"`). `confirm` counts a failure without a name in `len(failures)` and drops
  it from the names to match: with such a failure the file it is about is recorded as mirrored.
* `MirrorIsProton` and `RunHoldsListing` are of runs without a fault, and of files whose
  basenames differ. An upload that lands without its summary, or one of two files of one name
  that lands while the other is refused, leaves an old row; when the owner returns to that old
  revision nothing is uploaded, until the weekly walk compares Proton's listing.
* `RunHoldsListing` excepts, beside what the run counts as set aside, an upload by hand that the
  run cannot see (`UnseenHandUpload`). README.md:26-28 advises to upload files that are too
  large by hand. If the owner does so and then puts the file back to the revision on record, or
  deletes it before a row exists, the delta finds nothing to do: Proton keeps the large
  revision, and the report counts nothing. That is not what README.md:6 says; the
  next walk drops the row (the sizes differ) or trashes the stray, and the run after it
  repairs the rest.
* A walk resumed from an earlier run drops rows of files uploaded since, hence `~resumed` in
  `ReconcileRepairs` and `DropsOnlyContradicted`. The source says so at `p60_reconcile.py:188`.
* `DropsOnlyContradicted` excepts a file whose node the walk found without a size: the code
  takes that for a mismatch and gives up the row of a file Proton holds. It is uploaded again
  (`Convergence` has such walks).
* `DatedNeverRewritten` excepts one copy. The state step writes the fetched database and then,
  in another transaction, the row of its run. If it dies in between (`StateDies`), the failure
  path (`Taskfile.yml:119`) reports on an earlier run's database, and if that run died between
  the put and the copy of its own report push, its dated report copy is written a second time,
  from the state the bucket had meanwhile. Another run's copy never is.
* `Convergence` admits `Refused`: when the owner deletes more than the floor allows, every run
  refuses the listing by design.
* `Settles` admits `Stuck`: a folder that was pending when a walk was stopped, and was then
  discarded in Proton, fails its listing in every later run, and the phase with it. It admits
  `Shadowed` too: the folder a row names is discarded, its file is there in a folder of another
  casing, and leaves Dropbox. The trash cannot list the folder that has gone and keeps the row,
  run after run; the walk finds a file of the row's key and content and keeps both. It needs one
  more outside event than `tree` has, so the run does not reach it.
* `ChainDrains` is of batches that land whole; files refused by name come back another night.

### What the violations show

* `lost_session`: a worker refreshed, another worker's listing exhausted its retries: the walk
  raises before `promote`, the refreshed copy is deleted, and the next run finds itself signed
  out. What does hold is `CompletionKeepsSession`. With a deadline `SessionKept` also fails
  without a failed listing, when the deadline passes between the two places that read it: the
  listings under way are not drained, and one that refreshes after `promote` takes the token
  with it.
* `laptop`: `task status` on a laptop, while Actions runs, leaves a database there in which that
  run is RUNNING. A later `task sync` that fails before its state step goes to the failure
  path, whose report meets a run in progress, finishes it and pushes that old database over
  all that was recorded since. In `ledger` the laptop only looks, and nothing is forgotten.
* `weekly`: the first run of the weekday stops at its budget, so it skips the walk, and the run
  it chains is not the first of the day. Nothing failed and no run of the day walks.
* `hidden`: Dropbox keeps apart two names that casefold alike ("strasse" with and without a
  sharp s). Their nodes have one comparison key, the dictionary by key keeps one, and the row
  of the other is dropped although Proton holds the file.
* `part`: of x and x.part in one batch, the temporary file of the first is the target of the
  second. One download may rename or remove the other's file; a file recorded as FETCHED is
  not in staging, and verify fails the batch. What is uploaded is still what was verified
  (`StagedIsVerified` holds with these names).

### Fairness

`Convergence` assumes weak fairness of the pipeline's own steps (a phase that can go on does,
as a sequential process), strong fairness of starting a run that reconciles (the scheduler
starts a run every night and `is_reconcile_run` makes one a week such a run), and weak
fairness of the operator's rollback, which the error message of `statefile.fetch` asks for.
Nothing is assumed of edits and faults, which are bounded. `WalkCompletes` assumes weak
fairness of the main thread and of each worker's process (`command_timeout_seconds` ends a
process that hangs), and strong fairness of `Seal`: the operator signs in when the session is
refused. The deadline needs no fairness, and may pass in every run: it is looked at only after
a listing was collected, so each run makes progress.

`ChainDrains` assumes weak fairness of the pipeline's steps and of `Chained`, the workflow's
own start of a run that was asked for, and of nothing else: no nightly start is counted on,
so that the chain alone must drain the tree. `Settles` assumes weak fairness of the steps of a
run and of starting one, and strong fairness of `OpenWalk`, the choice of a run to reconcile.
`FetchEnds` assumes weak fairness of the main thread and of each download: requests have
timeouts, and the pool's threads run.

## Proofs

Every theorem below holds for all values of the constants that satisfy the named assumptions
of the modules, and whatever else it says it supposes. The assumptions of the modules say that
the values that stand for absence differ from the others, that the bounds are numbers, that
files, folders and workers are finitely many, that the folders of the walk and the entries of
Dropbox are trees below their roots (`WalkAssumption`, `TreeAssumption`), that no two entries of
one folder can have the same name, and that the files of a pool are listed once and each has a
temporary name of its own (`PoolAssumption`; it may be the name of another file). Numbers of
files, edits, refusals, faults, lapses, workers, batches, days and attempts are arbitrary.

Each invariant here was checked by TLC before it was proved, on the constants of the run of
its module.

### Batches and rows: MirrorProofs

`InOrder` is inductive (`BatchesInOrder`, and `TypeCorrect` from it). `TypeOK` alone says
nothing of order, and `KilledRunRepeatsOneBatch` is not inductive: that the rows of earlier
batches are in the bucket depends on the push between two batches having copied *this*
database, hence `Durable` (`pc = "copy"` implies `history = Image`; a checkpointed row is in
the database, and in the bucket outside the push). That a later batch does not disturb it
needs that none of its files has been touched (`LaterWait`), that the files planned are those
listed as downloadable (`PlansListed`), and that no file is ahead of the step of its batch
(`StepsInOrder`). From it:

* `RepeatsOneBatch`: `Spec => []KilledRunRepeatsOneBatch`.
* `ConfirmsTheSent`, `RecordsOnlyHeld`: if `"nameless" \notin Details`, that is, if the CLI
  names the items it gives details of, then `Spec => []Held` and `Spec => NothingRecordedUnheld`.
  The heart is `ConfirmedWasSent`: a batch whose counts add up, whose failures are all
  detailed, and whose names all match files of the batch, sent every file it does not mark as
  failed. It is an argument by counting: `landed + failed` equal to the number of files and
  folders means every item is in `sent` or `refused`, so nothing was hidden below a refused
  directory, and each refused item has its name among the failures. With a nameless detail
  the property fails, so the supposition is needed.

### What is removed: RunProofs

`InOrder /\ Careful` is inductive (`RunsAreCareful`). It supposes nothing. The reconcile
removes what has a node but no row, so it must be known that every file this run listed was
attempted: `AllAttempted` (from the trash on, with no batch left, no file is still planned),
which rests on batches being numbered without gaps and worked off in order (`Attempted`).
`Doomed` says that neither list of removals has a file that was listed, `TrashedGone` that a
deletion recorded as done is one, `WalkedNow` that a walk not resumed has what Proton holds.
From it:

* `KeepsWhatIsListed`: `Spec => NeverTrashListed`.
* `TrashesLast`: `Spec => TrashAfterBatches`.
* `DropsAreContradicted`: `Spec => DropsOnlyContradicted`, which says nothing of rows compared
  with a walk an earlier run began, and excepts files the walk found without a size.
* `RowsRepaired`: `Spec => []ReconcileRepairs`.

### Runs that go well: RunProofs

`RunsAreSteady` proves `Spec => [](InOrder /\ Careful /\ Held /\ (faults = 0 => Steady))` under
`Plainly`, and from it:

* `RowsAreProton`: `Spec => []MirrorIsProton`, but for files of an upload or trash under way and
  uploads made by hand.
* `HoldsTheListing`: `Spec => [](faults = 0 => RunHoldsListing)`. This is the promise at the top
  of the repository's README, but for what the run counts as set aside and `UnseenHandUpload`.

`Plainly` supposes that the CLI names what it refuses and refuses no directory, that no two
files share a basename, that no walk is stopped by the budget, and that every walk finds every
file's size.

`RowsAgree` says where rows and Proton may differ: from an upload to its confirmation by the
files sent, from confirm to merge by the files confirmed, in the trash by the files trashed. It
needs `SentIsConfirmed`, the converse of `ConfirmedWasSent`: a file that was sent is confirmed.
`BatchesEnd`, `ListedHasRow` and `RowIsListed` follow a file through the phases: listed, its row
is right, or it is planned, and then it is checkpointed or set aside by name; not listed, it has
no row, or it is to be deleted, and then it is gone or its folder could not be listed.

Each part of `Plainly` is a case in which the code gives less. With two files of one basename,
a twin that landed is marked as failed with the other. With a refused directory the counts do
not add up, and all files of the batch are marked as failed, those that were sent included.
With a walk resumed in a later run, rows are dropped for files uploaded since, and with one
that lacks a size the row of a file that is there. And with one
fault, an upload that landed may have lost its summary. In all of these a row lags behind
Proton until the weekly walk; `ReconcileRepairs` is what is proved of those runs.

### The hand-over from run to run: LedgerProofs, HandOverProofs

`InOrder` of LedgerProperties is inductive (`LedgerInOrder`, `LedgerTypes`). `StatesSound` says
of every state, in the bucket, among its copies and on a host, that its runs began before now,
that only the last may be RUNNING, and that a second reconcile run of a day was forced;
`Positioned` says what the newest row looks like at each task. From it, without suppositions:

* `NoSecondCurrentRun`: `Spec => []OneCurrentRun`.
* `OneReconcileADay`: `Spec => []ReconcileOncePerDay`.

The rest supposes `OnlyActions`, that runs start only on machines that keep nothing. The run
`laptop` shows that `NothingForgotten` needs it; with a second fault `DatedNeverRewritten` fails
on a laptop likewise. `HandedOver` is the invariant (`RunsHandOver`): the labels of this run's
pushes so far are the only ones with its epoch (`LabelsFresh`), the database on the host is that
of the run that fetched it (`OwnRun`), every state in the bucket begins with the same run and
what a run has fetched knows what the bucket knows (`Descends`), and a chain was asked for only
with a batch of one's own in the bucket (`ProgressKept`). A host whose state step died after the
fetch has an earlier run's database: `FinishesEarlier` says how far its failure path can be, and
`AsksWithCause` that a state in the bucket that wants a chain has the batch to show for it. From it:

* `CopiesStayTheirRuns`: `Spec => DatedNeverRewritten`: another run's dated copy is never written
  over, and a run's own only as said above.
* `PushesAdd`: `Spec => NothingForgotten`.
* `CanonIsDated`, `OneFirstRun`, `ChainsWithProgress`: `CanonHasCopy`, `OneBeginning` and
  `MarkerMeansProgress` always hold.

### The walk: WalkProofs

`WalkInOrder` is inductive (`WalkKept`, `WalkTypes`). `TreeKnown` says that what is pending or
listed is the root and the children of what is listed; `OnePlace` is `FolderInOnePlace` without
counting; `TokensKept` says that every token held is the newest or has lapsed, and that some
worker has the newest; `LapsesCounted` that `rescues`, a copy left behind and a lapse not yet met
together are no more than the lapses; `EndsKept` that a walk that was not stopped ends with all
workers idle and the newest token sealed. From it:

* `FoldersKept`, `CompleteIsWhole`, `OneRescuePerLapse`: `FolderInOnePlace`, `WholeTree` and
  `LapsesAreRescued` always hold. `CompleteIsWhole` uses that a set of folders that has the
  root and is closed under children has all of them, which `WalkAssumption` says of the tree.
* `CompletedKeepsSession`: `Spec => CompletionKeepsSession`.
* `WalkIsOneQueue`: `Spec => WalksOneQueue`. SessionWalk implements FolderQueue: opening a walk
  and committing a collected listing are its steps, and every other action is a stutter.

### The plan and the pool: PackingProofs, PoolProofs

* `PlansFit`: for any files, sizes, budget and disk, the batches hold every file that fits once
  and in order, each is within `batch_files` and, unless it is one file, `batch_gb`, and each fits
  on the disk beside the headroom when the plan is not refused.
* `FetchesInOrder`, `PoolTypes`: `Spec => [](TypeOK /\ Fetching)`. `Fetching` says that only
  files of the batch are downloaded, that what was collected has ended and how (`Results`), and
  that a name in staging is the temporary one of a download still writing or the target of one
  that is complete (`Staged`). No supposition is made of the temporary names.
* `StagesOnlyVerified`: `Spec => []StagedIsVerified`.
* `EachBatchFits`, `PlansEveryFile`: `Spec => []BatchesFit` and `Spec => []EveryFilePlanned`, from
  `PlansFit` and that the plan does not change after it is made.

### Names, duplicates and folders: TreeProofs

`TreeInOrder` is inductive (`TreeIsInOrder`, and `TreeTyped` from it). `Spelled` gives each entry
the paths it may have: a path of its folder, in any casing, and a name of its own. `OneEntry`
says that no two entries share a path, so a path says whether it is a file's or a folder's.
`WellNamed` says that every path in the listing, the rows, Proton and the walk is one of these;
`StaysPut` that a node a walk has seen is where it was or has gone, for which no UID is used
twice; `StraysUnknown` that what is left to trash after the comparison has keys nobody knows.
That every node is in a live folder (in `TypeOK`) needs `WellNamed`: what lies where an upload
wants a folder is one. From it:

* `KnownFilesKept`: `Spec => KnownFilesStay`. A stray folder above a known file would have a key
  that is a beginning of the file's key, and so be in `Occupied`, however both are cased.
* `RecordedGoes`: `Spec => TrashesTheRecorded`.
* `NodesApart`: `FoldsApart => (Spec => []OneNodePerKey)`. `FoldsApart` supposes that names of
  one folder differ after normalising and casefolding. Dropbox does not promise it (the run
  `hidden` has two names that fold alike), and without it two files may share a key with no
  duplicate anywhere. `Plain` has the one path each entry has while nothing is recased.

### Induction over data

The library's induction theorems cannot be used with these provers, as they are over
operators. `SetInduction` of PackingProofs does it with a set: a subset of `Nat` that has 0 and
is closed under successor is all of it. It is proved from the library's theorem on
injections between finite sets, and is why the functions of Packing are functions of a count.
For trees the assumptions say it: a set of entries that has an entry whenever it has the folder
it is in, or the folder is the root, has all of them. `TreeRecursion` gets from it that a
function defined from the root down exists (`DisplayPath`, `Inside`, `Spelled`): of the relations
that contain what the equations give, the least is a function.

### What the proofs showed of the model

* The plan's part of `Attempted` (`batch = 1` and nothing planned before the plan) was missing,
  and TLC finds the step that needs it: a first batch with a number left over.
* A file that is deleted and created again under another casing is recased like a renamed one:
  its old node and its new one are of one key until reconcile. ProtonTree let `Write` do this
  without counting it, so `OneNodePerKey` was false with three edits, more than the run `tree` has.
  `Write` takes from the same bound as `Recase` now (`Recasing`).
* `Duplicate` and `Upload` took a UID even when none was left. They have a guard (`Unused`);
  within the bounds of `tree` it is never the one that stops a step.
* `Pushed` has a disjunct guarded by an implication; without the junction list the guard took in
  the disjuncts after it, and `LabelsFresh` said nothing.
* `Pack`, `Fitting` and `Bytes` were folds of the community modules; their definitions reach
  parameters that are operators, and nothing can be proved of them by induction.

### Only model-checked

* `Convergence`, `WalkCompletes`, `ChainDrains`, `Settles` and `FetchEnds`, which are liveness
  under fairness and out of the prover's reach.

## Not modelled

* Waiting times: how long a retry backs off. How many retries there are is in FetchPool; of
  the CLI and the bucket a call has an outcome, whatever it took.
* The pages of the Dropbox listing and their cursor: the listing is resumed inside one run and
  one process. That its entries are of different moments is in Mirror. Pruning removes rows of
  earlier inventories, which no phase reads.
* `task state-push`, which no other task calls, and the read-only pipeline of `task plan`.
* The expiry of dated copies in the bucket.
* Escaping and parsing of CLI paths, and NFC beyond what `Fold` maps together.
* The figures of the report, artifacts and events other than the figures of a walk; the
  `ceiling_gb` of the plan. A phase may raise for any of them (`PhaseFails`, `Raise`).
* A failing write-back of the session, and folders that come and go under a parallel walk
  (between two runs of a walk they do, in ProtonTree).
* Dropbox authentication, hashing, encryption, configuration, logging, the toolbox. A failure
  of any of them is a phase that raises.
* `empty-trash`: no module keeps the trash.

## Plan

Every safety property the passing runs check is a theorem now, some under the suppositions
named above. What would say more of the system:

* the pages of the Dropbox inventory, with an entry that moves between two of them;
* the expiry of dated copies in the bucket, against a rollback to one of them;
* that SessionWalk and the walks of Mirror and ProtonTree find the same nodes, as a refinement
  of one abstract walk.
