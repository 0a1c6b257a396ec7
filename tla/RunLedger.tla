------------------------------ MODULE RunLedger ------------------------------
(***************************************************************************)
(* How one run of the pipeline hands over to the next: the rows of runs    *)
(* and phase_runs, the files .run/report.md and .run/chain, and the state  *)
(* object with its dated copies in the bucket.  A run takes the state from *)
(* the bucket, each phase is a process that opens a row, works, pushes and *)
(* closes the row; the report finishes the run and asks for the next one.  *)
(* What a batch, the trash and the walk do to Proton is module Mirror; here *)
(* they are a count of the batches mirrored and the runs that walked.      *)
(*                                                                         *)
(* at is the step of the Taskfile's pipeline, stage where its process is:  *)
(* enter (no row yet), body, finish (the report only), put, copy (a push), *)
(* close (the row is about to be completed), raise (after the push of a    *)
(* failed batch).                                                          *)
(***************************************************************************)
EXTENDS Integers, Sequences, FiniteSets

CONSTANTS
    Host,                     \* where the migrator is used
    Starts,                   \* hosts that start runs; the others only look at the status
    Kept,                     \* hosts whose .run outlives the run: a laptop, not Actions
    Work,                     \* the batches the whole tree makes
    DayLength,                \* epochs in a day
    ReconcileDays,            \* days of the configured weekday
    ForcedAt,                 \* starts with RECONCILE=true
    None,                     \* no such object in the bucket
    LastDispatch, LastEpoch,  \* bounds: the last start from outside, and of any run
    MaxFaults                 \* bound of failures, losses and rollbacks together

ASSUME LedgerAssumption ==
    /\ Kept \subseteq Host /\ Starts \subseteq Host /\ Starts # {}
    /\ {Work, LastDispatch, LastEpoch, MaxFaults} \subseteq Nat /\ DayLength \in Nat \ {0}
    /\ ReconcileDays \subseteq Nat /\ ForcedAt \subseteq Nat

Phase == {"inventory", "delta", "plan", "batches", "trash", "reconcile", "report"}

\* The order of the Taskfile.
Then == [inventory |-> "delta", delta |-> "plan", plan |-> "batches", batches |-> "trash",
         trash |-> "reconcile", reconcile |-> "report", report |-> "idle"]

Runs == [epoch : Nat, reconcile : BOOLEAN, status : {"RUNNING", "INTERRUPTED", "SUCCESS", "FAIL"},
         chain : BOOLEAN, planned : 0..Work, done : 0..Work, remaining : -1..Work]
\* The latest row of each phase number; nothing reads the older ones.
PhaseRuns == [run : Nat, status : {"NONE", "RUNNING", "PASS", "FAIL"}]
\* runs, phase_runs, mirror_objects and the figures events of walks.
States == [runs : Seq(Runs), phases : [Phase -> PhaseRuns], mirrored : 0..Work, walks : SUBSET Nat]
ASSUME NoneAssumption == None \notin States
Labels == Nat \X {"batch", "trash", "reconcile", "report"} \X Nat

Empty == [runs |-> << >>, phases |-> [p \in Phase |-> [run |-> 0, status |-> "NONE"]],
          mirrored |-> 0, walks |-> {}]

VARIABLES
    canon,      \* the bucket's state object
    dated,      \* its dated copies, by label
    db,         \* each host's .run/state.sqlite
    report,     \* the run its .run/report.md is of, 0 for no report
    marker,     \* whether its .run/chain exists
    host,       \* the host of the run under way, or of the last one
    epoch,      \* when that run started
    at, stage, label,
    broken,     \* a step of the pipeline failed: this is the failure path
    now, faults

bucket   == <<canon, dated>>
files    == <<report, marker>>
position == <<at, stage, broken>>
vars == <<bucket, db, files, host, epoch, position, label, now, faults>>

D          == db[host]
Running(s) == {i \in DOMAIN s.runs : s.runs[i].status = "RUNNING"}
Current(s) == CHOOSE i \in Running(s) : \A j \in Running(s) : j <= i
Run        == D.runs[Current(D)]
Day(e)     == e \div DayLength

TypeOK ==
    /\ canon \in States \cup {None}
    /\ DOMAIN dated \subseteq Labels /\ \A l \in DOMAIN dated : dated[l] \in States
    /\ db \in [Host -> States] /\ report \in [Host -> Nat] /\ marker \in [Host -> BOOLEAN]
    /\ host \in Host /\ epoch \in Nat /\ now \in Nat /\ faults \in Nat
    /\ at \in Phase \cup {"idle", "session", "state"}
    /\ stage \in {"enter", "body", "finish", "put", "copy", "close", "raise"}
    /\ label \in Labels /\ broken \in BOOLEAN

Init ==
    /\ canon = None /\ dated = << >>
    /\ db = [h \in Host |-> Empty] /\ report = [h \in Host |-> 0]
    /\ marker = [h \in Host |-> FALSE]
    /\ host \in Starts /\ epoch = 0 /\ now = 0 /\ faults = 0
    /\ at = "idle" /\ stage = "enter" /\ label = <<0, "batch", 0>> /\ broken = FALSE

InPhase(p, part) == at = p /\ stage = part
Goto(step, part) == at' = step /\ stage' = part /\ UNCHANGED broken
Save(s) == db' = [db EXCEPT ![host] = s]
Fault == faults < MaxFaults /\ faults' = faults + 1

\* A step of the pipeline fails: the toolbox stops it and calls report-mirror, which runs the
\* report phase unless there is a report; there is no second call.
Break ==
    /\ broken' = TRUE /\ stage' = "enter"
    /\ at' = IF broken \/ report[host] # 0 THEN "idle" ELSE "report"
-----------------------------------------------------------------------------
\* Starts: one run at a time.  Actions queues them, and the README forbids a laptop's run
\* while one of Actions may be in progress.

\* clock: staging, the report and the chain marker of an earlier run go, its database stays.
Clock(h, e) ==
    /\ at = "idle"
    /\ host' = h /\ epoch' = e /\ now' = e + 1
    /\ db' = IF h \in Kept THEN db ELSE [db EXCEPT ![h] = Empty]
    /\ report' = [report EXCEPT ![h] = 0] /\ marker' = [marker EXCEPT ![h] = FALSE]
    /\ at' = "session" /\ stage' = "enter" /\ broken' = FALSE
    /\ UNCHANGED <<bucket, label, faults>>

\* The nightly dispatch, or an operator: today or on a later day.
Dispatch(h) ==
    \E e \in {now, DayLength * (Day(now) + 1)} : e <= LastDispatch /\ Clock(h, e)

\* The workflow queues the next run when the run left the marker.
Chained == host \notin Kept /\ marker[host] /\ now <= LastEpoch /\ Clock(host, now)

\* `task state-rollback -- <key>`.
Rollback(l) ==
    /\ at = "idle" /\ Fault /\ l \in DOMAIN dated
    /\ canon' = dated[l]
    /\ UNCHANGED <<dated, db, files, host, epoch, position, label, now>>

\* The state object is lost, its dated copies are not.
Lose ==
    /\ at = "idle" /\ Fault /\ canon # None
    /\ canon' = None
    /\ UNCHANGED <<dated, db, files, host, epoch, position, label, now>>

\* `task status` on a laptop, whatever runs elsewhere: its database becomes the bucket's.
Status(h) ==
    /\ h \in Kept /\ (at = "idle" \/ host # h)
    /\ db' = [db EXCEPT ![h] = IF canon = None THEN Empty ELSE canon]
    /\ UNCHANGED <<bucket, files, host, epoch, position, label, now, faults>>
-----------------------------------------------------------------------------
\* session and state.

RestoreSession ==
    /\ at = "session" /\ Goto("state", "enter")
    /\ UNCHANGED <<bucket, db, files, host, epoch, label, now, faults>>

SessionFails ==
    /\ at = "session" /\ Fault /\ Break
    /\ UNCHANGED <<bucket, db, files, host, epoch, label, now>>

\* Mutant: a missing state object is an empty mirror.
LostNever == FALSE

\* statefile.fetch: a missing object is an empty mirror only when there is no history.
Lost == canon = None /\ DOMAIN dated # {}

\* Mutant: the database of the work directory is taken as it is.
FetchedLocal == D

Fetched == IF canon = None THEN Empty ELSE canon

\* Mutant: every run of the weekday.
IsReconcileRunAny(s) == epoch \in ForcedAt \/ Day(epoch) \in ReconcileDays

\* RECONCILE=true, or the first run that starts on the configured weekday.
IsReconcileRun(s) ==
    \/ epoch \in ForcedAt
    \/ /\ Day(epoch) \in ReconcileDays
       /\ \A i \in DOMAIN s.runs :
            s.runs[i].epoch < DayLength * Day(epoch) \/ s.runs[i].epoch >= epoch

NewRun(s) == [epoch |-> epoch, reconcile |-> IsReconcileRun(s), status |-> "RUNNING",
              chain |-> FALSE, planned |-> 0, done |-> 0, remaining |-> -1]

\* Mutant: the run a crash left RUNNING stays so.
StartedBeside(s) == [s EXCEPT !.runs = Append(@, NewRun(s))]

\* start_run: whatever an earlier run left RUNNING was interrupted.
Started(s) ==
    [s EXCEPT !.runs = Append([i \in DOMAIN @ |->
       IF @[i].status = "RUNNING" THEN [@[i] EXCEPT !.status = "INTERRUPTED"] ELSE @[i]],
       NewRun(s))]

\* The old database is unlinked and the bucket's takes its place.
FetchState ==
    /\ InPhase("state", "enter") /\ ~Lost
    /\ Save(Fetched)
    /\ Goto("state", "body")
    /\ UNCHANGED <<bucket, files, host, epoch, label, now, faults>>

\* A fetch that fails or refuses leaves no database, or none that opens.
FetchFails ==
    /\ InPhase("state", "enter")
    /\ \/ Lost /\ UNCHANGED faults
       \/ Fault
    /\ Save(Empty) /\ Break
    /\ UNCHANGED <<bucket, files, host, epoch, label, now>>

\* The row of the run, in one transaction.
StartRun ==
    /\ InPhase("state", "body")
    /\ Save(Started(D))
    /\ Goto("inventory", "enter")
    /\ UNCHANGED <<bucket, files, host, epoch, label, now, faults>>

\* The process is killed or raises before the unlink, or after the fetch and before the row:
\* what the failure path finds is an earlier run's database.
StateDies ==
    /\ at = "state" /\ Fault /\ Break
    /\ UNCHANGED <<bucket, db, files, host, epoch, label, now>>
-----------------------------------------------------------------------------
\* The runner.

Closed(s, p, status) == [s EXCEPT !.phases[p].status = status]

\* start_phase, under the run in progress; RUNNING rows of the phase are superseded.
Enter ==
    /\ at \in Phase /\ stage = "enter" /\ Running(D) # {}
    /\ Save([D EXCEPT !.phases[at] = [run |-> Current(D), status |-> "RUNNING"]])
    /\ Goto(at, "body")
    /\ UNCHANGED <<bucket, files, host, epoch, label, now, faults>>

\* "no run is in progress": only the failure path can meet it.
NoRun ==
    /\ at \in Phase /\ stage = "enter" /\ Running(D) = {}
    /\ Break
    /\ UNCHANGED <<bucket, db, files, host, epoch, label, now, faults>>

\* The phase passes with the database s.
Pass(s) == Save(Closed(s, at, "PASS")) /\ Goto(Then[at], "enter")

\* The push under way is that of a failed batch.
BatchFailed == label[3] > Run.done

\* A batch that did not reach the end of its push does not count as completed.
Completed == IF stage \in {"put", "copy"} /\ ~BatchFailed THEN Run.done - 1 ELSE Run.done

\* An exception: the row says FAIL, and the batches phase leaves what remains, unless it raised
\* before its first batch.
Raise ==
    /\ at \in Phase
    /\ \/ stage \in {"body", "put", "copy"} /\ Fault
       \/ stage = "raise" /\ UNCHANGED faults
    /\ IF at # "batches" THEN Save(Closed(D, at, "FAIL")) ELSE
       \E left \in {Run.planned - Completed}
                     \cup (IF stage = "body" /\ Run.done = 0 THEN {-1} ELSE {}) :
         Save(Closed([D EXCEPT !.runs[Current(D)].remaining = left,
                               !.runs[Current(D)].chain = FALSE], at, "FAIL"))
    /\ Break
    /\ UNCHANGED <<bucket, files, host, epoch, label, now>>

\* The process is killed and the pipeline is not: no handler runs, the row stays RUNNING.
Killed ==
    /\ at \in Phase /\ Fault /\ Break
    /\ UNCHANGED <<bucket, db, files, host, epoch, label, now>>

\* The machine is lost, or the job with its failure path.
HostLost ==
    /\ at # "idle" /\ Fault
    /\ at' = "idle" /\ stage' = "enter" /\ UNCHANGED broken
    /\ UNCHANGED <<bucket, db, files, host, epoch, label, now>>
-----------------------------------------------------------------------------
\* statefile.push.

\* Mutant: dated copies are named by the run's id.
HistoryLabelById(step, n) == <<Current(D), step, n>>

\* By the start of the run: "unique across runs even after a rollback re-issues run ids".
HistoryLabel(step, n) == <<Run.epoch, step, n>>

Push(s, step, n) ==
    /\ Save(s) /\ label' = HistoryLabel(step, n)
    /\ Goto(at, "put")

\* Mutant: the state object first.
PutCanon ==
    /\ stage = "put"
    /\ canon' = D
    /\ Goto(at, "copy")
    /\ UNCHANGED <<dated, db, files, host, epoch, label, now, faults>>

Put ==
    /\ stage = "put"
    /\ dated' = [l \in DOMAIN dated \cup {label} |-> IF l = label THEN D ELSE dated[l]]
    /\ Goto(at, "copy")
    /\ UNCHANGED <<canon, db, files, host, epoch, label, now, faults>>

\* Copied inside the bucket.
Copy ==
    /\ stage = "copy"
    /\ canon' = dated[label]
    /\ Goto(at, IF at # "batches" THEN "close" ELSE IF BatchFailed THEN "raise" ELSE "body")
    /\ UNCHANGED <<dated, db, files, host, epoch, label, now, faults>>
-----------------------------------------------------------------------------
\* The phases.

\* Mutant: the plan packs every file of the listing.
PrepareAll ==
    /\ at \in {"inventory", "delta", "plan"} /\ stage = "body"
    /\ Pass(IF at = "plan" THEN [D EXCEPT !.runs[Current(D)].planned = Work] ELSE D)
    /\ UNCHANGED <<bucket, files, host, epoch, label, now, faults>>

\* Inventory and delta end; the plan packs what is not mirrored.
Prepare ==
    /\ at \in {"inventory", "delta", "plan"} /\ stage = "body"
    /\ Pass(IF at = "plan" THEN [D EXCEPT !.runs[Current(D)].planned = Work - D.mirrored]
            ELSE D)
    /\ UNCHANGED <<bucket, files, host, epoch, label, now, faults>>

\* One batch, its rows merged and pushed.
Checkpoint ==
    /\ InPhase("batches", "body") /\ Run.done < Run.planned
    /\ Push([D EXCEPT !.mirrored = @ + 1, !.runs[Current(D)].done = @ + 1],
            "batch", Run.done + 1)
    /\ UNCHANGED <<bucket, files, host, epoch, now, faults>>

\* A batch that fails confirmation is pushed, as what it is, before the phase fails.
FailBatch ==
    /\ InPhase("batches", "body") /\ Run.done < Run.planned /\ Fault
    /\ Push(D, "batch", Run.done + 1)
    /\ UNCHANGED <<bucket, files, host, epoch, now>>

\* Mutant: one batch left is not worth a run.
WantsChainMore(r) == r.planned - r.done > 1

\* Batches are left and this run completed some.
WantsChain(r) == r.planned - r.done > 0 /\ r.done > 0

\* Every batch is done, or the budget is; the first batch always runs.
EndBatches ==
    /\ InPhase("batches", "body") /\ (Run.done = Run.planned \/ Run.done > 0)
    /\ Pass([D EXCEPT !.runs[Current(D)].remaining = Run.planned - Run.done,
                      !.runs[Current(D)].chain = WantsChain(Run)])
    /\ UNCHANGED <<bucket, files, host, epoch, label, now, faults>>

\* Batches remain, or no file was deleted.
SkipTrash ==
    /\ InPhase("trash", "body") /\ Pass(D)
    /\ UNCHANGED <<bucket, files, host, epoch, label, now, faults>>

Trash ==
    /\ InPhase("trash", "body") /\ Run.remaining = 0
    /\ Push(D, "trash", 0)
    /\ UNCHANGED <<bucket, files, host, epoch, now, faults>>

SkipReconcile ==
    /\ InPhase("reconcile", "body") /\ (~Run.reconcile \/ Run.remaining # 0)
    /\ Pass(D)
    /\ UNCHANGED <<bucket, files, host, epoch, label, now, faults>>

\* A walk, which may drop rows.
Reconcile ==
    /\ InPhase("reconcile", "body") /\ Run.reconcile /\ Run.remaining = 0
    /\ \E dropped \in {0, 1} :
         /\ dropped <= D.mirrored
         /\ Push([D EXCEPT !.mirrored = @ - dropped], "reconcile", 0)
    /\ UNCHANGED <<bucket, files, host, epoch, now, faults>>

\* The row is completed after the push; the walk's figures are logged in between, and the
\* report's row has the status of the run it finished.
Close ==
    /\ at \in {"trash", "reconcile", "report"} /\ stage = "close"
    /\ Goto(Then[at], "enter")
    /\ LET status == IF at = "report" /\ D.runs[D.phases[at].run].status = "FAIL" THEN "FAIL"
                     ELSE "PASS"
       IN  Save(Closed(IF at = "reconcile" THEN [D EXCEPT !.walks = @ \cup {Run.epoch}] ELSE D,
                       at, status))
    /\ UNCHANGED <<bucket, files, host, epoch, label, now, faults>>

\* Phases of this run whose latest row is FAIL; a RUNNING row is not looked at.
FailedPhases == {p \in Phase : D.phases[p] = [run |-> Current(D), status |-> "FAIL"]}

\* Mutant: the marker is written for whatever run has batches left.
AsksForMore(r) == r.planned > r.done

Asks(r) == r.chain

\* The report and, of a run without a failed phase that wants another, the chain marker.
WriteReport ==
    /\ InPhase("report", "body")
    /\ report' = [report EXCEPT ![host] = Current(D)]
    /\ marker' = [marker EXCEPT ![host] = Asks(Run) /\ FailedPhases = {}]
    /\ Goto("report", "finish")
    /\ UNCHANGED <<bucket, db, host, epoch, label, now, faults>>

FinishRun ==
    /\ InPhase("report", "finish")
    /\ Push([D EXCEPT !.runs[Current(D)].status = IF FailedPhases = {} THEN "SUCCESS" ELSE "FAIL"],
            "report", 0)
    /\ UNCHANGED <<bucket, files, host, epoch, now, faults>>
-----------------------------------------------------------------------------
Pipeline ==
    \/ RestoreSession \/ FetchState \/ (Lost /\ FetchFails) \/ StartRun \/ Enter \/ NoRun
    \/ Prepare \/ Checkpoint \/ EndBatches \/ SkipTrash \/ Trash \/ SkipReconcile \/ Reconcile
    \/ (stage = "raise" /\ Raise) \/ WriteReport \/ FinishRun \/ Put \/ Copy \/ Close
Failure ==
    \/ SessionFails \/ FetchFails \/ StateDies \/ FailBatch \/ Raise \/ Killed \/ HostLost \/ Lose
    \/ \E l \in DOMAIN dated : Rollback(l)

Next == (\E h \in Starts : Dispatch(h)) \/ (\E h \in Host : Status(h)) \/ Chained \/ Pipeline \/ Failure

Spec == Init /\ [][Next]_vars
=============================================================================
