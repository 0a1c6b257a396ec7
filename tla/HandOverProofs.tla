--------------------------- MODULE HandOverProofs ---------------------------
(***************************************************************************)
(* Proofs about RunLedger when every run starts on a machine that keeps    *)
(* nothing of the one before: what the bucket holds, and what a chain of   *)
(* runs is worth.                                                          *)
(***************************************************************************)
EXTENDS LedgerProofs

\* Each of these steps amends the database as its lemma says; the others keep the figures of
\* the newest run.
LEMMA FiguresKept ==
  ASSUME InOrder, Writing
  PROVE  \/ Prepare \/ Checkpoint \/ EndBatches
         \/ at = "batches" /\ Raise
         \/ /\ Last(D').done = Last(D).done /\ Last(D').planned = Last(D).planned
            /\ Last(D').chain = Last(D).chain
<1>1. CASE Enter \/ FailBatch \/ SkipTrash \/ Trash \/ SkipReconcile \/ Reconcile \/ Close
           \/ (Raise /\ at # "batches")
  <2>1. Last(D') = Last(D)
    BY <1>1, Enters, Fails, Skips, Trashes, Reconciles, Closes, Raises
  <2>2. QED
    BY <2>1
<1>2. CASE FinishRun
  <2>1. Running(D) # {}
    BY <1>2 DEF FinishRun, InPhase, InOrder, Positioned, Phase
  <2>2. Last(D) \in Runs
    BY <2>1, CurrentIsLast, StateParts DEF InOrder
  <2>3. QED
    BY <1>2, <2>2, Finishes DEF Runs
<1>3. QED
  BY <1>1, <1>2 DEF Writing

\* No copy has the label of a push of the run that started last.
LEMMA FreshLabel ==
  ASSUME InOrder, LabelsFresh, stage = "put"
  PROVE  /\ label[1] = epoch => label \notin DOMAIN dated
         /\ at \in {"batches", "trash", "reconcile", "report"} /\ label \in Labels
<1>1. at \in {"batches", "trash", "reconcile", "report"} /\ label \in Labels
      /\ epoch \in Nat
  BY DEF InOrder, TypeOK, Positioned, Stages, Phase
<1>2. label[2] = (IF at = "batches" THEN "batch" ELSE at)
  BY DEF LabelsFresh
<1>3. label[3] \in Nat
  BY <1>1 DEF Labels
<1>4. ~(epoch < epoch) /\ ~(label[3] < label[3])
  BY <1>1, <1>3
<1>5. label[1] = epoch => ~Pushed(label)
  BY <1>1, <1>2, <1>4 DEF Pushed
<1>6. QED
  BY <1>1, <1>5 DEF LabelsFresh, Phase

\* Where a copy has it, the push is of an earlier run that the failure path finishes again,
\* and the state object is not that copy.
LEMMA TakenLabel ==
  ASSUME InOrder, LabelsFresh, OwnRun, Descends, stage = "put", label \in DOMAIN dated
  PROVE  /\ label[2] = "report" /\ broken /\ Last(D).epoch < epoch
         /\ Last(dated[label]).epoch = Last(D).epoch
         /\ canon # None /\ canon # dated[label]
<1>1. label[1] # epoch /\ at \in Phase
  BY FreshLabel DEF Phase
<1>2. label[1] = Last(D).epoch /\ label[2] = (IF at = "batches" THEN "batch" ELSE at)
      /\ Last(dated[label]).epoch = label[1]
  BY DEF LabelsFresh
<1>3. FinishesEarlier
  BY <1>1, <1>2 DEF OwnRun, Descends
<1>4. label[2] = "report" /\ Running(dated[label]) = {}
  BY <1>2, <1>3 DEF FinishesEarlier, Descends
<1>5. QED
  BY <1>2, <1>3, <1>4 DEF FinishesEarlier

LEMMA HandedOverInit ==
  ASSUME Init
  PROVE  CanonHasCopy /\ LabelsFresh /\ OwnRun /\ Descends /\ ProgressKept
<1>1. canon = None /\ DOMAIN dated = {} /\ at = "idle" /\ stage = "enter" /\ host \in Starts
  BY DEF Init
<1>2. CanonHasCopy
  BY <1>1 DEF CanonHasCopy
<1>3. LabelsFresh
  BY <1>1 DEF LabelsFresh, Phase
<1>4. OwnRun
  BY <1>1 DEF OwnRun, Phase
<1>5. Descends
  BY <1>1 DEF Descends
<1>6. ProgressKept
  BY <1>1 DEF ProgressKept, Early, InPhase
<1>7. QED
  BY <1>2, <1>3, <1>4, <1>5, <1>6

-----------------------------------------------------------------------------
\* The bucket.

\* Who writes to the bucket.
LEMMA BucketSteps ==
  ASSUME InOrder, [Next]_vars
  PROVE  UNCHANGED bucket \/ Put \/ Copy \/ Lose \/ \E l \in DOMAIN dated : Rollback(l)
<1> USE DEF bucket, files, position
<1>1. ASSUME NEW h, Dispatch(h) PROVE UNCHANGED bucket
  BY <1>1 DEF Dispatch, Clock
<1>2. Chained => UNCHANGED bucket
  BY DEF Chained, Clock
<1>3. ASSUME NEW h, Status(h) PROVE UNCHANGED bucket
  BY <1>3 DEF Status
<1>4. Writing => UNCHANGED bucket
  BY WritingAmends
<1>5. UNCHANGED vars \/ RestoreSession \/ FetchState \/ FetchFails \/ StartRun \/ StateDies
      \/ NoRun \/ SessionFails \/ Killed \/ HostLost \/ WriteReport => UNCHANGED bucket
  BY DEF vars, RestoreSession, FetchState, FetchFails, StartRun, StateDies, NoRun, SessionFails,
         Killed, HostLost, WriteReport
<1>6. QED
  BY <1>1, <1>2, <1>3, <1>4, <1>5, Zenon DEF Next, Pipeline, Failure, Writing

LEMMA DatedStays ==
  ASSUME InOrder, [Next]_vars, ~Put
  PROVE  dated' = dated
BY BucketSteps DEF bucket, Copy, Lose, Rollback

LEMMA CanonStays ==
  ASSUME InOrder, [Next]_vars, at # "idle", ~Copy
  PROVE  canon' = canon
BY BucketSteps DEF bucket, Put, Lose, Rollback

LEMMA CopyNext ==
  ASSUME InOrder, CanonHasCopy, LabelsFresh, OwnRun, Descends, [Next]_vars
  PROVE  CanonHasCopy'
<1>1. CASE UNCHANGED bucket
  BY <1>1 DEF CanonHasCopy, bucket
<1>2. CASE Put
  <2>1. canon' = canon /\ stage = "put"
    BY <1>2 DEF Put
  <2>2. \A l \in DOMAIN dated : dated[l] = canon => l \in DOMAIN dated' /\ dated'[l] = dated[l]
    BY <1>2, <2>1, TakenLabel DEF Put
  <2>3. QED
    BY <2>1, <2>2 DEF CanonHasCopy
<1>3. CASE Copy
  BY <1>3 DEF Copy, CanonHasCopy, InOrder, Positioned
<1>4. CASE Lose \/ \E l \in DOMAIN dated : Rollback(l)
  BY <1>4 DEF Lose, Rollback, CanonHasCopy
<1>5. QED
  BY <1>1, <1>2, <1>3, <1>4, BucketSteps

\* Labels of earlier runs are not in the way of any step of this one.
LEMMA LabelTypes ==
  ASSUME InOrder
  PROVE  /\ epoch \in Nat /\ now \in Nat
         /\ \A l \in DOMAIN dated : l \in Labels /\ l[1] \in Nat /\ l[3] \in Nat
BY DEF InOrder, TypeOK, Labels

LEMMA PushedWriting ==
  ASSUME InOrder, OwnRun, Writing, NEW l \in DOMAIN dated, Pushed(l), at' \in Phase
  PROVE  Pushed(l)'
<1>0. at \in Phase /\ epoch' = epoch /\ l[1] \in Nat /\ l[3] \in Nat
      /\ stage \in Stages[at] /\ stage' \in Stages[at']
  BY WritingAmends, WritingGoes, LabelTypes DEF InOrder, Positioned
<1>1. CASE Enter
  <2>1. at' = at /\ stage = "enter" /\ stage' = "body" /\ Last(D') = Last(D)
    BY <1>1, Enters DEF Enter, Goto
  <2>2. QED
    BY <1>0, <2>1 DEF Pushed
<1>2. CASE Prepare
  <2>1. at \in Early
    BY <1>2 DEF Prepare, Early
  <2>2. l[1] < epoch
    BY <2>1 DEF Pushed, Early
  <2>3. QED
    BY <1>0, <2>2 DEF Pushed
<1>3. CASE Checkpoint \/ FailBatch
  <2>1. at = "batches" /\ at' = at /\ stage = "body" /\ stage' = "put"
        /\ label'[3] = Last(D).done + 1
    BY <1>3, Checkpoints, Fails DEF Checkpoint, FailBatch, Push, Goto, InPhase
  <2>2. Last(D).done \in Nat
    BY <1>0, <2>1, CurrentIsLast, StateParts DEF InOrder, Positioned, Last
  <2>3. CASE l[1] < epoch
    BY <1>0, <2>3 DEF Pushed
  <2>4. CASE ~(l[1] < epoch)
    <3>1. l[1] = epoch /\ l[2] = "batch" /\ l[3] <= Last(D).done
      BY <2>1, <2>4 DEF Pushed
    <3>2. l[3] < label'[3]
      BY <1>0, <2>1, <2>2, <3>1
    <3>3. QED
      BY <1>0, <2>1, <3>1, <3>2 DEF Pushed
  <2>5. QED
    BY <2>3, <2>4
<1>4. CASE EndBatches
  <2>1. at = "batches" /\ at' = "trash" /\ stage' = "enter"
    BY <1>4 DEF EndBatches, Pass, Goto, InPhase, Then
  <2>2. QED
    BY <1>0, <2>1 DEF Pushed
<1>5. CASE SkipTrash \/ SkipReconcile \/ Close
  <2>1. at \in {"trash", "reconcile"} /\ at' = Then[at] /\ stage' = "enter"
    BY <1>5 DEF SkipTrash, SkipReconcile, Close, Pass, Goto, InPhase, Phase, Then
  <2>2. QED
    BY <1>0, <2>1 DEF Pushed, Then
<1>6. CASE Trash \/ Reconcile \/ FinishRun
  <2>1. at \in {"trash", "reconcile", "report"} /\ at' = at /\ stage' = "put"
        /\ stage \in {"body", "finish"}
    BY <1>6 DEF Trash, Reconcile, FinishRun, Push, Goto, InPhase
  <2>2. QED
    BY <1>0, <2>1 DEF Pushed
<1>7. CASE Raise
  <2>1. at' = "report" /\ stage' = "enter" /\ report[host] = 0
    BY <1>7, Zenon DEF Raise, Break, Phase
  <2>2. at = "report" => stage \in {"enter", "body"}
    BY <1>0, <2>1 DEF OwnRun
  <2>3. QED
    BY <1>0, <2>1, <2>2 DEF Pushed, Phase
<1>8. QED
  BY <1>1, <1>2, <1>3, <1>4, <1>5, <1>6, <1>7 DEF Writing

LEMMA LabelsWriting ==
  ASSUME InOrder, OwnRun, LabelsFresh, Writing
  PROVE  LabelsFresh'
<1>0. /\ UNCHANGED <<dated, epoch, now>> /\ at \in Phase
      /\ at' \in Phase \cup {"idle"} /\ stage' \in Stages[at']
  BY WritingAmends, WritingGoes DEF bucket
<1>1. stage' \in {"put", "copy"} =>
        label'[1] = Last(D').epoch /\ label'[2] = (IF at' = "batches" THEN "batch" ELSE at')
  <2>1. CASE Checkpoint \/ FailBatch \/ Trash \/ Reconcile \/ FinishRun
    <3>1. at' = at /\ Running(D) # {}
      BY <2>1 DEF Checkpoint, FailBatch, Trash, Reconcile, FinishRun, Push, Goto, InPhase,
                  InOrder, Positioned, Phase
    <3>2. Last(D').epoch = Last(D).epoch
      BY <3>1, RunGoesOn
    <3>3. CASE Checkpoint \/ FailBatch
      <4>1. at = "batches" /\ label' = <<Last(D).epoch, "batch", Last(D).done + 1>>
        BY <3>3, Checkpoints, Fails DEF Checkpoint, FailBatch, InPhase
      <4>2. QED
        BY <3>1, <3>2, <4>1
    <3>4. CASE Trash
      BY <3>1, <3>2, <3>4, Trashes DEF Trash, InPhase
    <3>5. CASE Reconcile
      BY <3>1, <3>2, <3>5, Reconciles DEF Reconcile, InPhase
    <3>6. CASE FinishRun
      BY <3>1, <3>2, <3>6, Finishes DEF FinishRun, InPhase
    <3>7. QED
      BY <2>1, <3>3, <3>4, <3>5, <3>6
  <2>2. CASE Enter \/ Prepare \/ EndBatches \/ SkipTrash \/ SkipReconcile \/ Close \/ Raise
    <3>1. stage' \in {"enter", "body"}
      BY <2>2, Breaks DEF Enter, Prepare, EndBatches, SkipTrash, SkipReconcile, Close, Raise,
                          Pass, Goto
    <3>2. QED
      BY <3>1
  <2>3. QED
    BY <2>1, <2>2 DEF Writing
<1>2. at' \in Phase => \A l \in DOMAIN dated : Pushed(l)'
  BY <1>0, PushedWriting DEF LabelsFresh
<1>3. \A l \in DOMAIN dated : l[1] < now /\ Last(dated[l]).epoch = l[1]
  BY DEF LabelsFresh
<1>4. QED
  BY <1>0, <1>1, <1>2, <1>3, Zenon DEF LabelsFresh, Phase

LEMMA LabelsNext ==
  ASSUME InOrder, OwnRun, LabelsFresh, Descends, [Next]_vars
  PROVE  LabelsFresh'
<1> USE DEF bucket, files, position
<1>0. /\ TypeOK /\ Positioned /\ stage \in Stages[at]
      /\ epoch \in Nat /\ now \in Nat
      /\ \A l \in DOMAIN dated : l \in Labels /\ l[1] \in Nat /\ l[3] \in Nat
  BY LabelTypes DEF InOrder, Positioned
<1>1. CASE UNCHANGED <<dated, db, host, epoch, position, label, now>>
  <2>1. D' = D /\ Last(D') = Last(D)
    BY <1>1 DEF D
  <2>2. \A l \in DOMAIN dated : Pushed(l) => Pushed(l)'
    BY <1>1, <2>1 DEF Pushed
  <2>3. QED
    BY <1>1, <2>1, <2>2 DEF LabelsFresh
<1>2. CASE (\E h \in Starts : Dispatch(h)) \/ Chained
  <2>1. PICK h \in Host, e \in Nat : e >= now /\ Clock(h, e)
    BY <1>2, RunStarts
  <2>2. /\ UNCHANGED dated /\ epoch' = e /\ now' = e + 1 /\ at' = "session" /\ stage' = "enter"
    BY <2>1 DEF Clock
  <2>3. \A l \in DOMAIN dated : l[1] < e /\ l[1] < e + 1 /\ Last(dated[l]).epoch = l[1]
    BY <1>0, <2>1 DEF LabelsFresh
  <2>4. QED
    BY <2>2, <2>3 DEF LabelsFresh, Phase
<1>3. ASSUME NEW h \in Host, Status(h) PROVE LabelsFresh'
  <2>1. CASE at = "idle"
    BY <1>0, <1>3, <2>1 DEF Status, LabelsFresh, Phase, Stages
  <2>2. CASE host # h
    <3>1. D' = D /\ UNCHANGED <<dated, host, epoch, position, label, now>>
      BY <1>0, <1>3, <2>2 DEF Status, D, TypeOK
    <3>2. Last(D') = Last(D)
      BY <3>1
    <3>3. \A l \in DOMAIN dated : Pushed(l) => Pushed(l)'
      BY <3>1, <3>2 DEF Pushed
    <3>4. QED
      BY <3>1, <3>3 DEF LabelsFresh
  <2>3. QED
    BY <1>3, <2>1, <2>2 DEF Status
<1>4. CASE RestoreSession
  BY <1>0, <1>4 DEF RestoreSession, Goto, LabelsFresh, Phase
<1>5. CASE at \in {"session", "state"}
           /\ (FetchFails \/ StartRun \/ StateDies \/ SessionFails \/ HostLost)
  <2>1. UNCHANGED <<dated, epoch, now>> /\ stage' = "enter" /\ at' \in Phase \cup {"idle"}
    BY <1>5, Breaks DEF FetchFails, StartRun, StateDies, SessionFails, HostLost, Goto, Phase
  <2>2. \A l \in DOMAIN dated : l[1] < epoch
    BY <1>5 DEF LabelsFresh
  <2>3. \A l \in DOMAIN dated : Pushed(l)'
    BY <2>1, <2>2 DEF Pushed
  <2>4. QED
    BY <2>1, <2>3, <1>0, Zenon DEF LabelsFresh, Phase
<1>12. CASE FetchState
  BY <1>0, <1>12, Fetches DEF LabelsFresh, Phase
<1>6. CASE at \notin {"session", "state"} /\ (NoRun \/ Killed \/ HostLost)
  <2>1. UNCHANGED <<dated, epoch, now>> /\ stage' = "enter" /\ at' \in {"report", "idle"}
        /\ at \in Phase
    BY <1>0, <1>6, Breaks DEF NoRun, Killed, HostLost, TypeOK
  <2>2. at' = "report" => at # "report" \/ stage \in {"enter", "body"}
    <3>1. at' = "report" => report[host] = 0
      BY <1>6, Zenon DEF NoRun, Killed, HostLost, Break
    <3>2. QED
      BY <2>1, <3>1 DEF OwnRun
  <2>3. \A l \in DOMAIN dated : at' = "report" => Pushed(l)'
    BY <1>0, <2>1, <2>2 DEF LabelsFresh, Pushed, Phase
  <2>4. QED
    BY <2>1, <2>3 DEF LabelsFresh, Phase
<1>7. CASE Writing
  BY <1>7, LabelsWriting
<1>8. CASE WriteReport
  <2>1. at = "report" /\ stage = "body" /\ at' = at /\ stage' = "finish"
        /\ UNCHANGED <<dated, epoch, now>>
    BY <1>8 DEF WriteReport, InPhase, Goto
  <2>2. \A l \in DOMAIN dated : Pushed(l)'
    BY <2>1 DEF LabelsFresh, Pushed, Phase
  <2>3. QED
    BY <2>1, <2>2 DEF LabelsFresh
<1>9. CASE Put
  <2>1. stage = "put" /\ at' = at /\ stage' = "copy" /\ DOMAIN dated' = DOMAIN dated \cup {label}
        /\ UNCHANGED <<epoch, now, label, db, host>>
    BY <1>9 DEF Put, Goto
  <2>2. at \in {"batches", "trash", "reconcile", "report"} /\ label \in Labels /\ label[3] \in Nat
    BY <2>1, FreshLabel DEF Labels
  <2>3. label[1] = Last(D).epoch /\ label[2] = (IF at = "batches" THEN "batch" ELSE at)
        /\ now = epoch + 1 /\ (label[1] = epoch \/ label[1] < epoch)
    <3>1. D.runs # << >> /\ at \in Phase
      BY <2>1, <2>2 DEF Descends, Phase
    <3>2. Last(D).epoch = epoch \/ Last(D).epoch < epoch
      BY <3>1 DEF OwnRun, FinishesEarlier
    <3>3. QED
      BY <1>0, <2>1, <2>2, <3>2 DEF LabelsFresh, Positioned
  <2>4. \A l \in DOMAIN dated : Pushed(l)'
    BY <1>0, <2>1, <2>2 DEF LabelsFresh, Pushed, Phase
  <2>5. Pushed(label)'
    BY <1>0, <2>1, <2>2, <2>3 DEF Pushed
  <2>6. D' = D /\ Last(D') = Last(D)
    BY <2>1 DEF D
  <2>7. \A l \in DOMAIN dated' : l[1] < now /\ Last(dated'[l]).epoch = l[1]
    <3>1. \A l \in DOMAIN dated' : dated'[l] = IF l = label THEN D ELSE dated[l]
      BY <1>9 DEF Put
    <3>2. label[1] < now
      BY <1>0, <2>2, <2>3 DEF Labels
    <3>3. QED
      BY <2>1, <2>3, <3>1, <3>2 DEF LabelsFresh
  <2>8. QED
    BY <1>0, <2>1, <2>2, <2>3, <2>4, <2>5, <2>6, <2>7 DEF LabelsFresh, Phase
<1>10. CASE Copy
  <2>1. stage = "copy" /\ at' = at /\ D' = D
        /\ UNCHANGED <<epoch, now, label, dated>> /\ Last(D') = Last(D)
        /\ stage' \in (IF at # "batches" THEN {"close"} ELSE {"raise", "body"})
    BY <1>10, <1>12, Zenon DEF Copy, Goto, D
  <2>2. at \in {"batches", "trash", "reconcile", "report"} /\ label \in Labels /\ label[3] \in Nat
    BY <1>0, <2>1 DEF Stages, TypeOK, Phase, Labels
  <2>3. stage' = "body" => label[3] <= Last(D).done /\ Last(D).done \in Nat
    <3>1. stage' = "body" => at = "batches" /\ ~BatchFailed
      BY <1>10, <2>1, Zenon DEF Copy, Goto
    <3>2. at = "batches" => Run = Last(D) /\ Last(D).done \in Nat
      BY <1>0, <2>1, CurrentIsLast, StateParts DEF InOrder, Positioned, Phase, Last
    <3>3. QED
      BY <2>2, <3>1, <3>2 DEF BatchFailed
  <2>4. ASSUME NEW l \in DOMAIN dated PROVE Pushed(l)'
    <3>1. Pushed(l)
      BY <2>2 DEF LabelsFresh, Phase
    <3>2. CASE at = "batches" /\ stage' = "body"
      <4>1. l[1] < epoch \/ (l[1] = epoch /\ l[2] = "batch" /\ l[3] <= label[3])
        BY <2>1, <3>1, <3>2 DEF Pushed
      <4>2. l[1] < epoch \/ (l[1] = epoch /\ l[2] = "batch" /\ l[3] <= Last(D).done)
        BY <1>0, <2>2, <2>3, <3>2, <4>1
      <4>3. QED
        BY <2>1, <3>2, <4>2 DEF Pushed
    <3>3. CASE ~(at = "batches" /\ stage' = "body")
      BY <2>1, <2>2, <3>1, <3>3 DEF Pushed
    <3>4. QED
      BY <3>2, <3>3
  <2>5. QED
    BY <2>1, <2>2, <2>4 DEF LabelsFresh
<1>11. QED
  <2>1. UNCHANGED vars \/ Lose \/ (\E l \in DOMAIN dated : Rollback(l)) => LabelsFresh'
    BY <1>1, Zenon DEF vars, Lose, Rollback
  <2>2. FetchFails \/ StartRun \/ StateDies \/ SessionFails => LabelsFresh'
    BY <1>5 DEF FetchFails, StartRun, StateDies, SessionFails, InPhase
  <2>3. NoRun \/ Killed \/ HostLost => LabelsFresh'
    BY <1>5, <1>6 DEF NoRun, Killed, Phase
  <2>4. QED
    BY <2>1, <2>2, <2>3, <1>2, <1>3, <1>4, <1>7, <1>8, <1>9, <1>10, <1>12, Zenon
       DEF Next, Pipeline, Failure, Writing

-----------------------------------------------------------------------------
\* The run and its database.

\* A run starts with nothing but what the bucket holds.
LEMMA StartsEmpty ==
  ASSUME OnlyActions, InOrder, OwnRun, (\E h \in Starts : Dispatch(h)) \/ Chained
  PROVE  /\ host' \in Starts /\ D' = Empty /\ at' = "session" /\ stage' = "enter"
         /\ report'[host'] = 0 /\ marker'[host'] = FALSE /\ UNCHANGED bucket
<1>1. PICK h \in Host, e \in Nat : Clock(h, e) /\ (h \in Starts \/ h = host)
  BY RunStarts
<1>2. h \in Starts /\ h \notin Kept
  BY <1>1 DEF OwnRun, OnlyActions
<1>3. host' = h /\ db' = [db EXCEPT ![h] = Empty] /\ report' = [report EXCEPT ![h] = 0]
      /\ marker' = [marker EXCEPT ![h] = FALSE] /\ at' = "session" /\ stage' = "enter"
      /\ UNCHANGED bucket
  BY <1>1, <1>2 DEF Clock
<1>4. D' = Empty
  BY <1>1, <1>3 DEF D, InOrder, TypeOK
<1>5. report'[host'] = 0
  BY <1>1, <1>3 DEF InOrder, TypeOK
<1>6. marker'[host'] = FALSE
  BY <1>1, <1>3, Zenon DEF InOrder, TypeOK
<1>7. QED
  BY <1>2, <1>3, <1>4, <1>5, <1>6

\* A status command is of another host than the run's.
LEMMA StatusElsewhere ==
  ASSUME OnlyActions, InOrder, OwnRun, NEW h \in Host, Status(h)
  PROVE  D' = D /\ UNCHANGED <<bucket, files, host, epoch, position, label, now>>
<1>1. h # host
  BY DEF Status, OnlyActions, OwnRun
<1>2. QED
  BY <1>1 DEF Status, D, InOrder, TypeOK

\* A failure leads to the report only while there is none.
LEMMA BreaksTo ==
  ASSUME InOrder, OwnRun, Break
  PROVE  /\ stage' = "enter" /\ at' \in {"idle", "report"}
         /\ at' = "report" => report[host] = 0
BY Zenon DEF Break

LEMMA OwnWriting ==
  ASSUME InOrder, OwnRun, Writing
  PROVE  OwnRun'
<1>0. /\ at \in Phase /\ at' \in Phase \cup {"idle"} /\ stage' \in Stages[at']
      /\ stage \in Stages[at]
      /\ Amends(D', D) /\ UNCHANGED <<files, host, epoch>> /\ D \in States
  BY WritingAmends, WritingGoes, HostTypes DEF InOrder, Positioned
<1>1. D'.runs # << >> => D.runs # << >> /\ Last(D').epoch = Last(D).epoch
  <2>1. D.runs = << >> => D'.runs = << >>
    BY <1>0, EmptySeq, StateParts DEF Amends
  <2>2. QED
    BY <1>0, <2>1, NewestRuns
<1>2. at' \in Phase /\ D'.runs # << >> => Last(D').epoch = epoch' \/ FinishesEarlier'
  <2>1. SUFFICES ASSUME at' \in Phase, D'.runs # << >>, FinishesEarlier
                 PROVE  FinishesEarlier'
    BY <1>0, <1>1 DEF OwnRun
  <2>2. at = "report" /\ broken /\ Last(D').epoch < epoch' /\ canon' = canon
    BY <1>0, <1>1, <2>1, WritingAmends DEF FinishesEarlier, bucket
  <2>3. CASE Enter \/ FinishRun
    <3>1. Running(D) # {} /\ stage \in {"enter", "finish"}
      BY <2>2, <2>3 DEF Enter, FinishRun, InPhase, InOrder, Positioned, Phase
    <3>2. at' = at /\ broken' = broken
      BY <2>3 DEF Enter, FinishRun, Push, Goto
    <3>3. canon # None /\ Running(canon) # {}
      BY <2>1, <3>1 DEF FinishesEarlier
    <3>4. QED
      BY <2>2, <3>2, <3>3 DEF FinishesEarlier
  <2>4. CASE Raise
    <3>1. at' = "idle"
      BY <2>2, <2>4, Zenon DEF Raise, Break
    <3>2. QED
      BY <2>1, <3>1 DEF Phase
  <2>5. CASE Close
    BY <2>1, <2>2, <2>5 DEF Close, Goto, Then, Phase
  <2>6. QED
    BY <2>2, <2>3, <2>4, <2>5
       DEF Writing, Prepare, Checkpoint, FailBatch, EndBatches, SkipTrash, Trash, SkipReconcile,
           Reconcile, InPhase
<1>3. at' \in Phase => (report[host] # 0 <=> at' = "report" /\ stage' \notin {"enter", "body"})
  <2>1. CASE Raise
    BY <1>0, <2>1, BreaksTo DEF Raise, Phase
  <2>2. CASE Enter
    BY <1>0, <2>2 DEF Enter, Goto, OwnRun
  <2>3. CASE Prepare \/ EndBatches \/ SkipTrash \/ SkipReconcile \/ Close
    <3>1. at' = Then[at] /\ stage' = "enter"
      BY <2>3 DEF Prepare, EndBatches, SkipTrash, SkipReconcile, Close, Pass, Goto
    <3>2. at = "report" => at' = "idle"
      BY <3>1 DEF Then
    <3>3. at # "report" => report[host] = 0
      BY <1>0 DEF OwnRun, Phase
    <3>4. at' \in Phase => report[host] = 0 /\ stage' = "enter"
      BY <3>1, <3>2, <3>3 DEF Phase
    <3>5. QED
      BY <3>4
  <2>4. CASE Checkpoint \/ FailBatch \/ Trash \/ Reconcile \/ FinishRun
    <3>1. at' = at /\ stage' = "put" /\ (at = "report" => stage = "finish")
      BY <2>4 DEF Checkpoint, FailBatch, Trash, Reconcile, FinishRun, Push, Goto, InPhase
    <3>2. QED
      BY <1>0, <3>1 DEF OwnRun
  <2>5. QED
    BY <2>1, <2>2, <2>3, <2>4 DEF Writing
<1>4. QED
  BY <1>0, <1>2, <1>3 DEF OwnRun, Phase, files

LEMMA OwnNext ==
  ASSUME OnlyActions, InOrder, OwnRun, [Next]_vars
  PROVE  OwnRun'
<1> USE DEF bucket, files, position
<1>0. /\ TypeOK /\ Positioned /\ stage \in Stages[at] /\ D \in States
  BY HostTypes DEF InOrder, Positioned
<1>1. ASSUME D' = D, UNCHANGED <<report, host, epoch, at, stage, broken>>,
             canon' = canon \/ at = "idle"
      PROVE  OwnRun'
  BY <1>1 DEF OwnRun, FinishesEarlier, Last, Phase
<1>2. CASE (\E h \in Starts : Dispatch(h)) \/ Chained
  BY <1>2, StartsEmpty DEF OwnRun, Phase
<1>3. ASSUME NEW h \in Host, Status(h) PROVE OwnRun'
  BY <1>1, <1>3, StatusElsewhere
<1>4. CASE RestoreSession
  BY <1>0, <1>4 DEF RestoreSession, Goto, OwnRun, Phase, D
<1>5. CASE FetchState
  BY <1>5, Fetches DEF OwnRun, Phase, files
<1>12. CASE StartRun
  <2>1. Last(D').epoch = epoch
    BY <1>12, StartsRun, FetchedSound, StartedSound DEF NewRun
  <2>2. QED
    BY <1>12, <2>1, StartsRun DEF OwnRun, files
<1>6. CASE FetchFails \/ SessionFails \/ NoRun \/ Killed \/ StateDies
  <2>1. Break /\ UNCHANGED <<canon, report, host, epoch>>
        /\ (at \in {"session", "state"} \/ at \in Phase)
    BY <1>6 DEF FetchFails, NoRun, SessionFails, Killed, StateDies, InPhase
  <2>2. ASSUME at' = "report", D'.runs # << >>
        PROVE  Last(D').epoch = epoch \/ FinishesEarlier'
    <3>1. ~broken /\ report[host] = 0
      BY <2>1, <2>2, Zenon DEF Break
    <3>2. CASE FetchFails \/ SessionFails
      BY <1>0, <2>2, <3>2, Saves, EmptyState DEF FetchFails, SessionFails, OwnRun, D
    <3>3. CASE NoRun \/ Killed
      <4>1. D' = D /\ at \in Phase
        BY <3>3 DEF NoRun, Killed, D
      <4>2. QED
        BY <2>2, <3>1, <4>1 DEF OwnRun, FinishesEarlier, Last
    <3>4. CASE StateDies
      <4>1. D' = D /\ at = "state" /\ stage \in {"enter", "body"}
        BY <1>0, <3>4 DEF StateDies, D, Stages
      <4>2. stage = "body" /\ D = Fetched
        BY <1>0, <2>2, <4>1, EmptyState DEF OwnRun, Positioned
      <4>3. canon # None /\ D = canon
        BY <2>2, <4>1, <4>2, EmptyState DEF Fetched
      <4>4. Last(D).epoch < epoch
        BY <2>2, <4>1, <4>2, FetchedSound, StateParts DEF Sound, Last
      <4>5. broken' /\ stage' = "enter"
        BY <2>1, Breaks
      <4>6. QED
        BY <2>1, <2>2, <4>1, <4>3, <4>4, <4>5 DEF FinishesEarlier, Last
    <3>5. QED
      BY <1>6, <3>2, <3>3, <3>4
  <2>3. QED
    BY <2>1, <2>2, BreaksTo DEF OwnRun, Phase
<1>7. CASE HostLost
  BY <1>7 DEF HostLost, OwnRun, Phase
<1>8. CASE Writing
  BY <1>8, OwnWriting
<1>9. CASE WriteReport
  <2>1. at = "report" /\ stage = "body" /\ at' = at /\ stage' = "finish" /\ D' = D
        /\ UNCHANGED <<host, epoch>> /\ report' = [report EXCEPT ![host] = Current(D)]
    BY <1>9 DEF WriteReport, InPhase, Goto, D
  <2>2. Current(D) # 0
    BY <1>0, <2>1, CurrentIsLast, StateParts DEF InOrder, Positioned, Phase
  <2>3. report'[host] # 0
    BY <1>0, <2>1, <2>2 DEF TypeOK
  <2>4. FinishesEarlier => FinishesEarlier'
    BY <1>9, <2>1 DEF WriteReport, Goto, FinishesEarlier, Last
  <2>5. QED
    BY <2>1, <2>3, <2>4 DEF OwnRun, Phase, Last
<1>10. CASE Put \/ Copy
  <2>1. stage \in {"put", "copy"} /\ at' = at /\ D' = D /\ UNCHANGED <<report, host, epoch>>
        /\ stage' \in (IF at # "batches" THEN {"copy", "close"} ELSE {"copy", "raise", "body"})
    BY <1>10, <1>12, Zenon DEF Put, Copy, Goto, D
  <2>2. broken' = broken
    BY <1>10 DEF Put, Copy, Goto
  <2>3. at = "report" => stage' \in {"copy", "close"}
    BY <2>1
  <2>4. FinishesEarlier => FinishesEarlier'
    BY <2>1, <2>2, <2>3 DEF FinishesEarlier, Last
  <2>5. QED
    BY <1>0, <2>1, <2>4 DEF OwnRun, Stages, TypeOK, Phase, Last
<1>11. QED
  <2>1. UNCHANGED vars \/ Lose \/ (\E l \in DOMAIN dated : Rollback(l)) => OwnRun'
    BY <1>1 DEF vars, Lose, Rollback, D
  <2>2. QED
    BY <2>1, <1>2, <1>3, <1>4, <1>5, <1>6, <1>7, <1>8, <1>9, <1>10, <1>12, Zenon
       DEF Next, Pipeline, Failure, Writing

\* Whoever writes to the run's database only adds to what it knows.
LEMMA AmendsKnows ==
  ASSUME NEW s \in States, NEW t, Amends(t, s), NEW u \in States, Knows(s, u)
  PROVE  Knows(t, u)
<1> SUFFICES ASSUME NEW i \in DOMAIN u.runs
             PROVE  /\ i \in DOMAIN t.runs /\ t.runs[i].epoch = u.runs[i].epoch
                    /\ t.runs[i].done >= u.runs[i].done
  BY DEF Knows
<1>1. t \in States /\ DOMAIN t.runs = DOMAIN s.runs
  BY StateParts DEF Amends
<1>2. /\ i \in DOMAIN s.runs /\ s.runs[i].epoch = u.runs[i].epoch
      /\ s.runs[i].done >= u.runs[i].done
  BY DEF Knows
<1>3. t.runs[i].epoch = s.runs[i].epoch /\ t.runs[i].done >= s.runs[i].done
  BY <1>2 DEF Amends
<1>4. t.runs[i].done \in Nat /\ s.runs[i].done \in Nat /\ u.runs[i].done \in Nat
  BY <1>1, <1>2, StateParts
<1>5. QED
  BY <1>1, <1>2, <1>3, <1>4

LEMMA KnowsItself ==
  ASSUME NEW s \in States
  PROVE  Knows(s, s)
BY StateParts DEF Knows

\* The bucket's history has one beginning, and the database under way descends from it.
LEMMA FetchedDescends ==
  ASSUME InOrder, CanonHasCopy, Descends, FetchState
  PROVE  /\ \A l \in DOMAIN dated : D'.runs # << >> => dated[l].runs[1].epoch = D'.runs[1].epoch
         /\ canon # None => Knows(D', canon)
<1>1. D' = Fetched /\ at = "state"
  BY Fetches
<1>2. CASE canon = None
  BY <1>1, <1>2, EmptyState DEF Fetched
<1>3. CASE canon # None
  <2>1. Fetched = canon /\ Fetched \in States
    BY <1>1, <1>3, FetchedSound DEF Fetched
  <2>2. PICK k \in DOMAIN dated : dated[k] = canon
    BY <1>3 DEF CanonHasCopy
  <2>3. QED
    BY <1>1, <2>1, <2>2, KnowsItself DEF Descends
<1>4. QED
  BY <1>2, <1>3

LEMMA StartedDescends ==
  ASSUME InOrder, CanonHasCopy, Descends, StartRun
  PROVE  /\ D'.runs # << >>
         /\ \A l \in DOMAIN dated : dated[l].runs[1].epoch = D'.runs[1].epoch
         /\ canon # None => Knows(D', canon)
<1>1. at = "state" /\ ~Lost /\ D' = Started(Fetched)
  BY StartsRun
<1>2. /\ Fetched \in States /\ D' \in States /\ Len(D'.runs) = Len(Fetched.runs) + 1
      /\ \A i \in 1..Len(Fetched.runs) : /\ D'.runs[i].epoch = Fetched.runs[i].epoch
                                         /\ D'.runs[i].done = Fetched.runs[i].done
  BY <1>1, FetchedSound, StartedSound
<1>3. /\ Len(Fetched.runs) \in Nat /\ DOMAIN Fetched.runs = 1..Len(Fetched.runs)
      /\ DOMAIN D'.runs = 1..Len(D'.runs)
  BY <1>2, StateParts
<1>4. D'.runs # << >>
  BY <1>2, <1>3
<1>5. CASE canon = None
  <2>1. DOMAIN dated = {}
    BY <1>1, <1>5 DEF Lost
  <2>2. QED
    BY <1>4, <1>5, <2>1
<1>6. CASE canon # None
  <2>1. Fetched = canon
    BY <1>6 DEF Fetched
  <2>2. PICK k \in DOMAIN dated : dated[k] = canon
    BY <1>6 DEF CanonHasCopy
  <2>3. canon.runs # << >> /\ 1 \in 1..Len(canon.runs)
    BY <1>2, <1>3, <2>1, <2>2, StateParts DEF Descends
  <2>4. \A l \in DOMAIN dated : dated[l].runs[1].epoch = D'.runs[1].epoch
    BY <1>2, <2>1, <2>2, <2>3 DEF Descends
  <2>5. \A i \in 1..Len(canon.runs) : D'.runs[i].done >= canon.runs[i].done
    BY <1>2, <1>3, <2>1, StateParts
  <2>6. Knows(D', canon)
    BY <1>2, <1>3, <2>1, <2>5 DEF Knows
  <2>7. QED
    BY <1>4, <2>4, <2>6
<1>7. QED
  BY <1>5, <1>6

LEMMA FinishesRunning ==
  ASSUME InOrder, FinishRun
  PROVE  Running(D') = {}
<1>1. at = "report" /\ stage = "finish" /\ Running(D) # {}
  BY DEF FinishRun, InPhase, InOrder, Positioned, Phase
<1>2. D \in States /\ D.runs # << >> /\ Running(D) = {Len(D.runs)} /\ Last(D) \in Runs
  BY <1>1, CurrentIsLast, StateParts DEF InOrder
<1>3. Last(D').status # "RUNNING" /\ Amends(D', D)
  BY <1>2, Finishes DEF Runs
<1>4. D' \in States /\ Len(D'.runs) = Len(D.runs) /\ DOMAIN D'.runs = DOMAIN D.runs
  BY <1>2, <1>3, StateParts DEF Amends
<1>5. Running(D') \subseteq Running(D)
  BY <1>3, <1>4 DEF Amends, Running
<1>6. QED
  BY <1>2, <1>3, <1>4, <1>5 DEF Running, Last

LEMMA DescendsNext ==
  ASSUME OnlyActions, InOrder, CanonHasCopy, LabelsFresh, OwnRun, Descends, [Next]_vars
  PROVE  Descends'
<1> USE DEF bucket, files, position
<1>0. /\ TypeOK /\ Positioned /\ stage \in Stages[at] /\ D \in States
  BY HostTypes DEF InOrder, Positioned
<1>1. ASSUME D' = D \/ D' = Empty, UNCHANGED bucket, stage' \notin {"put", "copy"},
             at' # "idle" => at # "idle"
      PROVE  Descends'
  BY <1>1, EmptyState DEF Descends, Knows
<1>2. ASSUME D' = D, UNCHANGED <<bucket, stage, at>> PROVE Descends'
  BY <1>2 DEF Descends, Knows
<1>3. CASE (\E h \in Starts : Dispatch(h)) \/ Chained
  BY <1>3, StartsEmpty, EmptyState DEF Descends
<1>4. ASSUME NEW h \in Host, Status(h) PROVE Descends'
  BY <1>2, <1>4, StatusElsewhere
<1>5. CASE RestoreSession \/ FetchFails \/ StateDies \/ NoRun \/ SessionFails \/ Killed
           \/ HostLost
  <2>1. D' = D \/ D' = Empty
    BY <1>0, <1>5, Saves
       DEF RestoreSession, FetchFails, StateDies, NoRun, SessionFails, Killed, HostLost, D
  <2>2. UNCHANGED bucket /\ at # "idle" /\ stage' = "enter"
    BY <1>5, BreaksTo, Breaks
       DEF RestoreSession, FetchFails, StateDies, NoRun, SessionFails, Killed, HostLost, Goto,
           Phase, InPhase
  <2>3. QED
    BY <1>1, <2>1, <2>2
<1>6. CASE FetchState \/ StartRun
  <2>1. UNCHANGED bucket /\ stage' \in {"enter", "body"}
    BY <1>6, Fetches, StartsRun
  <2>2. QED
    BY <1>6, <2>1, FetchedDescends, StartedDescends DEF Descends, Knows
<1>7. CASE Writing
  <2>1. Amends(D', D) /\ UNCHANGED bucket /\ at \in Phase /\ D' \in States
    BY <1>7, WritingAmends DEF Amends
  <2>2. Len(D'.runs) = Len(D.runs) /\ DOMAIN D'.runs = DOMAIN D.runs
    BY <1>0, <2>1, StateParts DEF Amends
  <2>3. D'.runs # << >> <=> D.runs # << >>
    BY <1>0, <2>1, <2>2, EmptySeq, StateParts
  <2>4. D.runs # << >> => D'.runs[1].epoch = D.runs[1].epoch
    BY <1>0, <2>1, StateParts DEF Amends
  <2>5. D.runs # << >> /\ canon # None => Knows(D', canon)
    BY <1>0, <2>1, AmendsKnows DEF Descends, TypeOK, Phase
  <2>9. stage' \in {"put", "copy"} /\ at' = "report" => Running(D') = {}
    <3>1. CASE FinishRun
      BY <3>1, FinishesRunning
    <3>2. CASE Checkpoint \/ FailBatch \/ Trash \/ Reconcile
      BY <3>2 DEF Checkpoint, FailBatch, Trash, Reconcile, Push, Goto, InPhase
    <3>3. CASE Enter \/ Prepare \/ EndBatches \/ SkipTrash \/ SkipReconcile \/ Close \/ Raise
      BY <3>3, Breaks DEF Enter, Prepare, EndBatches, SkipTrash, SkipReconcile, Close, Raise,
                          Pass, Goto
    <3>4. QED
      BY <1>7, <3>1, <3>2, <3>3 DEF Writing
  <2>6. stage' \in {"put", "copy"} => D'.runs # << >>
    <3>1. CASE Checkpoint \/ FailBatch \/ Trash \/ Reconcile \/ FinishRun
      <4>1. Running(D) # {}
        BY <3>1 DEF Checkpoint, FailBatch, Trash, Reconcile, FinishRun, InPhase, InOrder,
                    Positioned, Phase
      <4>2. QED
        BY <2>3, <4>1, CurrentIsLast DEF InOrder
    <3>2. CASE Enter \/ Prepare \/ EndBatches \/ SkipTrash \/ SkipReconcile \/ Close \/ Raise
      <4>1. stage' \in {"enter", "body"}
        BY <3>2, Breaks DEF Enter, Prepare, EndBatches, SkipTrash, SkipReconcile, Close, Raise,
                            Pass, Goto
      <4>2. QED
        BY <4>1
    <3>3. QED
      BY <1>7, <3>1, <3>2 DEF Writing
  <2>7. at # "idle"
    BY <2>1 DEF Phase
  <2>8. QED
    BY <2>1, <2>3, <2>4, <2>5, <2>6, <2>7, <2>9 DEF Descends, Knows
<1>8. CASE WriteReport
  <2>1. D' = D /\ UNCHANGED bucket /\ stage' = "finish" /\ at # "idle"
    BY <1>8 DEF WriteReport, Goto, InPhase, D
  <2>2. QED
    BY <1>1, <2>1
<1>9. CASE Put
  <2>1. D' = D /\ UNCHANGED <<canon, at>> /\ stage = "put" /\ stage' = "copy" /\ at # "idle"
    BY <1>0, <1>9 DEF Put, Goto, D, Stages
  <2>2. DOMAIN dated' = DOMAIN dated \cup {label}
        /\ \A l \in DOMAIN dated' : dated'[l] = IF l = label THEN D ELSE dated[l]
    BY <1>9 DEF Put
  <2>3. D.runs # << >> /\ \A l \in DOMAIN dated : /\ dated[l].runs # << >>
                                                  /\ dated[l].runs[1].epoch = D.runs[1].epoch
    BY <2>1 DEF Descends
  <2>4. \A l \in DOMAIN dated' : dated'[l].runs # << >>
                                 /\ dated'[l].runs[1].epoch = D.runs[1].epoch
    BY <2>2, <2>3
  <2>5. canon # None => Knows(D, canon)
    BY <2>1, <2>3 DEF Descends
  <2>6. label[2] = "report" => Running(D) = {}
    BY <2>1 DEF LabelsFresh, Descends
  <2>7. \A l \in DOMAIN dated' : l[2] = "report" => Running(dated'[l]) = {}
    BY <2>2, <2>6 DEF Descends
  <2>8. at = "report" => Running(D) = {}
    BY <2>1 DEF Descends
  <2>9. QED
    BY <2>1, <2>3, <2>4, <2>5, <2>7, <2>8 DEF Descends, Knows
<1>10. CASE Copy
  <2>1. D' = D /\ UNCHANGED <<dated, at>> /\ stage = "copy" /\ canon' = D /\ at # "idle"
        /\ stage' \notin {"put", "copy"}
    <3>1. stage' \in {"close", "raise", "body"}
      BY <1>10, Zenon DEF Copy, Goto
    <3>2. QED
      BY <1>0, <1>10, <3>1 DEF Copy, Goto, D, Stages, Positioned
  <2>2. Knows(D, D)
    BY <1>0, KnowsItself
  <2>3. QED
    BY <2>1, <2>2 DEF Descends, Knows
<1>11. CASE Lose \/ \E l \in DOMAIN dated : Rollback(l)
  <2>1. D' = D /\ UNCHANGED <<dated, at, stage>> /\ at = "idle"
    BY <1>11 DEF Lose, Rollback, D
  <2>2. QED
    BY <2>1 DEF Descends
<1>12. QED
  <2>1. UNCHANGED vars => Descends'
    BY <1>2 DEF vars, D
  <2>2. QED
    BY <2>1, <1>3, <1>4, <1>5, <1>6, <1>7, <1>8, <1>9, <1>10, <1>11, Zenon
       DEF Next, Pipeline, Failure, Writing

-----------------------------------------------------------------------------
\* The chain.

\* A step that leaves the bucket alone, the length of the state and the figures of its newest
\* run, leaves the state object as up to date as it was.
LEMMA StaysUpToDate ==
  ASSUME UpToDate, canon' = canon, Len(D'.runs) = Len(D.runs),
         Last(D').done = Last(D).done, Last(D').planned = Last(D).planned
  PROVE  UpToDate'
BY DEF UpToDate, Last

LEMMA CopiesUpToDate ==
  ASSUME canon' = D, D' = D, D \in States
  PROVE  UpToDate'
BY NoneAssumption DEF UpToDate, Last

LEMMA ProgressWriting ==
  ASSUME InOrder, OwnRun, ProgressKept, Writing
  PROVE  ProgressKept'
<1>0. /\ Positioned /\ at \in Phase /\ at' \in Phase \cup {"idle"} /\ stage' \in Stages[at']
      /\ stage \in Stages[at] /\ D \in States /\ D' \in States
      /\ Amends(D', D) /\ UNCHANGED <<canon, report, marker, host>>
  BY WritingAmends, WritingGoes, HostTypes DEF InOrder, Positioned, Amends, bucket, files
<1>1. Len(D'.runs) = Len(D.runs) /\ (D.runs = << >> <=> D'.runs = << >>)
  BY <1>0, EmptySeq, StateParts DEF Amends
<1> DEFINE C1 == InPhase("batches", "body")' /\ Last(D').done > 0 => UpToDate'
           C2 == at' \in Early \cup {"batches"} => ~Last(D').chain
           C3 == at' # "idle" /\ D'.runs # << >> /\ Last(D').chain => UpToDate'
           C4 == at' # "idle" /\ marker[host] =>
                   /\ report[host] # 0 /\ report[host] = Len(D'.runs) /\ Last(D').chain
<1>8. /\ canon' # None => AsksWithCause(canon')
      /\ \A l \in DOMAIN dated' : AsksWithCause(dated'[l])
  BY <1>0, WritingAmends DEF ProgressKept, bucket
<1>9. at # "idle"
  BY <1>0 DEF Phase
<1>2. C1
  <2>1. CASE Enter /\ at = "batches"
    <3>1. Last(D') = Last(D) /\ Last(D).done = 0
      BY <1>0, <2>1, Enters DEF Enter, Positioned
    <3>2. QED
      BY <3>1
  <2>2. CASE ~(Enter /\ at = "batches")
    <3>1. ~(at' = "batches" /\ stage' = "body")
      <4>1. CASE Enter
        BY <2>2, <4>1 DEF Enter, Goto
      <4>2. CASE Raise
        BY <4>2, Breaks DEF Raise
      <4>3. CASE Prepare \/ EndBatches \/ SkipTrash \/ SkipReconcile \/ Close
        BY <4>3 DEF Prepare, EndBatches, SkipTrash, SkipReconcile, Close, Pass, Goto
      <4>4. CASE Checkpoint \/ FailBatch \/ Trash \/ Reconcile \/ FinishRun
        BY <4>4 DEF Checkpoint, FailBatch, Trash, Reconcile, FinishRun, Push, Goto
      <4>5. QED
        BY <4>1, <4>2, <4>3, <4>4 DEF Writing
    <3>2. QED
      BY <3>1 DEF InPhase
  <2>3. QED
    BY <2>1, <2>2
<1>3. CASE Prepare \/ Checkpoint
  <2>1. at \in Early \cup {"batches"} /\ Running(D) # {}
    BY <1>0, <1>3 DEF Prepare, Checkpoint, InPhase, Early, Positioned
  <2>2. ~Last(D).chain /\ Last(D) \in Runs
    BY <2>1, CurrentIsLast, StateParts DEF ProgressKept, InOrder
  <2>3. ~Last(D').chain
    BY <1>3, <2>2, Prepares, Checkpoints DEF Runs
  <2>4. ~marker[host]
    BY <1>0, <2>1, <2>2 DEF ProgressKept, Phase
  <2>5. QED
    BY <1>0, <1>2, <1>8, <2>3, <2>4 DEF ProgressKept, AsksWithCause
<1>4. CASE EndBatches
  <2>1. at = "batches" /\ stage = "body" /\ at' = "trash" /\ Running(D) # {}
    BY <1>0, <1>4 DEF EndBatches, Pass, Goto, InPhase, Then, Positioned
  <2>2. Last(D) \in Runs /\ Last(D).done \in Nat /\ Last(D).planned \in Nat
    <3>1. Last(D) \in Runs
      BY <2>1, CurrentIsLast, StateParts DEF InOrder
    <3>2. QED
      BY <3>1, LedgerAssumption DEF Runs
  <2>3. Last(D').done = Last(D).done /\ Last(D').planned = Last(D).planned
        /\ Last(D').chain = WantsChain(Last(D))
    BY <1>4, <2>2, Ends DEF Runs
  <2>4. C3
    <3>1. SUFFICES ASSUME WantsChain(Last(D))
                   PROVE  UpToDate'
      BY <2>3
    <3>2. Last(D).done > 0 /\ Last(D).done < Last(D).planned
      BY <2>2, <3>1 DEF WantsChain
    <3>3. UpToDate
      BY <2>1, <3>2 DEF ProgressKept, InPhase
    <3>4. QED
      BY <1>0, <1>1, <2>3, <3>2, <3>3, StaysUpToDate
  <2>5. ~marker[host]
    BY <1>0, <2>1 DEF ProgressKept, OwnRun, Phase
  <2>6. AsksWithCause(D')
    <3>1. WantsChain(Last(D)) => Last(D).done > 0 /\ Last(D).done < Last(D).planned
      BY <2>2 DEF WantsChain
    <3>2. Last(D').chain => WantsChain(Last(D))
      BY <2>3
    <3>3. QED
      BY <2>3, <3>1, <3>2 DEF AsksWithCause
  <2>7. QED
    BY <1>0, <1>2, <1>8, <2>1, <2>4, <2>5, <2>6 DEF ProgressKept, Early
<1>5. CASE Raise
  <2>1. at' \in {"idle", "report"} /\ (at' = "report" => report[host] = 0)
    BY <1>5, BreaksTo DEF Raise
  <2>2. CASE at = "batches"
    <3>1. ~Last(D').chain
      BY <1>5, <2>2, Raises
    <3>2. QED
      BY <1>0, <1>2, <1>8, <2>1, <2>2, <3>1 DEF ProgressKept, AsksWithCause, Early, Phase
  <2>3. CASE at # "batches"
    <3>1. Last(D') = Last(D)
      BY <1>5, <2>3, Raises
    <3>2. C3
      BY <1>0, <1>1, <3>1, StaysUpToDate DEF ProgressKept, Phase
    <3>3. AsksWithCause(D')
      BY <1>1, <1>9, <3>1 DEF ProgressKept, AsksWithCause
    <3>4. QED
      BY <1>0, <1>2, <1>8, <2>1, <3>2, <3>3 DEF ProgressKept, Early, Phase
  <2>4. QED
    BY <2>2, <2>3
<1>6. CASE ~(Prepare \/ Checkpoint \/ EndBatches \/ Raise)
  <2>1. Last(D').done = Last(D).done /\ Last(D').planned = Last(D).planned
        /\ Last(D').chain = Last(D).chain
    BY <1>6, FiguresKept
  <2>2. C3
    BY <1>0, <1>1, <2>1, StaysUpToDate DEF ProgressKept, Phase
  <2>3. C2
    <3>1. at' \in Early \cup {"batches"} => at' = at
      <4>1. CASE SkipTrash \/ SkipReconcile \/ Close
        BY <1>0, <4>1 DEF SkipTrash, SkipReconcile, Close, Pass, Goto, InPhase, Then, Early
      <4>2. CASE Enter \/ FailBatch \/ Trash \/ Reconcile \/ FinishRun
        BY <4>2 DEF Enter, FailBatch, Trash, Reconcile, FinishRun, Push, Goto
      <4>3. QED
        BY <1>6, <4>1, <4>2 DEF Writing
    <3>2. QED
      BY <2>1, <3>1 DEF ProgressKept
  <2>4. C4
    BY <1>0, <1>1, <2>1 DEF ProgressKept, Phase
  <2>5. AsksWithCause(D')
    BY <1>1, <1>9, <2>1 DEF ProgressKept, AsksWithCause
  <2>6. QED
    BY <1>0, <1>2, <1>8, <2>2, <2>3, <2>4, <2>5 DEF ProgressKept
<1>7. QED
  BY <1>3, <1>4, <1>5, <1>6

LEMMA ProgressNext ==
  ASSUME OnlyActions, InOrder, OwnRun, ProgressKept, [Next]_vars
  PROVE  ProgressKept'
<1> USE DEF bucket, files, position
<1>0. /\ TypeOK /\ Positioned /\ stage \in Stages[at] /\ D \in States
  BY HostTypes DEF InOrder, Positioned
<1>1. ASSUME D' = D, UNCHANGED <<canon, dated, files, host>>, at' # "idle" => at # "idle",
             at' \in Early \cup {"batches"} => at' = at,
             InPhase("batches", "body")' => InPhase("batches", "body")
      PROVE  ProgressKept'
  BY <1>1, Zenon DEF ProgressKept, AsksWithCause, UpToDate, Last
<1>2. CASE (\E h \in Starts : Dispatch(h)) \/ Chained
  BY <1>2, StartsEmpty, EmptyState DEF ProgressKept, AsksWithCause, InPhase, Early
<1>3. ASSUME NEW h \in Host, Status(h) PROVE ProgressKept'
  BY <1>1, <1>3, StatusElsewhere DEF InPhase
<1>4. CASE RestoreSession
  BY <1>1, <1>4 DEF RestoreSession, Goto, InPhase, Early, D
<1>5. CASE FetchState
  <2>1. /\ D' = Fetched /\ at = "state" /\ stage = "enter" /\ at' = at
        /\ UNCHANGED <<bucket, files, host>>
    BY <1>5, Fetches
  <2>2. Fetched.runs # << >> => canon # None /\ Fetched = canon
    BY EmptyState DEF Fetched
  <2>3. AsksWithCause(D')
    BY <2>1, <2>2 DEF ProgressKept, AsksWithCause
  <2>4. D'.runs # << >> => UpToDate'
    BY <2>1, <2>2 DEF UpToDate, Last
  <2>5. ~marker[host]
    BY <2>1 DEF ProgressKept, OwnRun
  <2>6. QED
    BY <2>1, <2>3, <2>4, <2>5 DEF ProgressKept, InPhase, Early
<1>14. CASE StartRun
  <2>1. /\ D' = Started(Fetched) /\ at = "state" /\ at' = "inventory" /\ stage' = "enter"
        /\ UNCHANGED <<bucket, files, host>>
    BY <1>14, StartsRun
  <2>2. Last(D').chain = FALSE
    BY <2>1, FetchedSound, StartedSound DEF NewRun
  <2>3. ~marker[host]
    BY <2>1 DEF ProgressKept, OwnRun
  <2>4. QED
    BY <2>1, <2>2, <2>3 DEF ProgressKept, AsksWithCause, InPhase
<1>6. CASE FetchFails
  <2>1. D' = Empty /\ at = "state" /\ at' \in {"idle", "report"} /\ UNCHANGED <<bucket, files, host>>
    BY <1>0, <1>6, Saves, Breaks DEF FetchFails, InPhase
  <2>2. ~marker[host]
    BY <2>1 DEF ProgressKept, OwnRun
  <2>3. QED
    BY <2>1, <2>2, EmptyState DEF ProgressKept, AsksWithCause, InPhase, Early
<1>7. CASE NoRun \/ SessionFails \/ StateDies \/ Killed \/ HostLost
  <2>1. D' = D /\ UNCHANGED <<bucket, files, host>> /\ at # "idle" /\ at' \in {"idle", "report"}
    BY <1>7, Breaks DEF NoRun, SessionFails, StateDies, Killed, HostLost, Phase, D
  <2>2. QED
    BY <1>1, <2>1 DEF InPhase, Early
<1>8. CASE Writing
  BY <1>8, ProgressWriting
<1>9. CASE WriteReport
  <2>1. /\ at = "report" /\ stage = "body" /\ at' = at /\ stage' = "finish" /\ D' = D
        /\ UNCHANGED <<bucket, host>> /\ report' = [report EXCEPT ![host] = Current(D)]
        /\ marker' = [marker EXCEPT ![host] = Asks(Run) /\ FailedPhases = {}]
    BY <1>9 DEF WriteReport, InPhase, Goto, D
  <2>2. /\ Current(D) = Len(D.runs) /\ Run = Last(D) /\ D.runs # << >> /\ Len(D.runs) # 0
    BY <1>0, <2>1, CurrentIsLast, StateParts DEF InOrder, Positioned, Phase
  <2>3. report'[host] = Len(D.runs)
    BY <1>0, <2>1, <2>2 DEF TypeOK
  <2>4. marker'[host] => Last(D).chain
    <3>1. marker'[host] = (Asks(Run) /\ FailedPhases = {})
      BY <1>0, <2>1, Zenon DEF TypeOK
    <3>2. QED
      BY <2>2, <3>1, Zenon DEF Asks
  <2>5. D.runs # << >> /\ Last(D).chain => UpToDate
    BY <2>1 DEF ProgressKept
  <2>6. UpToDate' = UpToDate /\ Last(D') = Last(D)
    BY <2>1 DEF UpToDate, Last
  <2>7. QED
    BY <2>1, <2>2, <2>3, <2>4, <2>5, <2>6 DEF ProgressKept, AsksWithCause, InPhase, Early
<1>10. CASE Put
  <2>1. D' = D /\ UNCHANGED <<canon, files, host, at>> /\ stage = "put" /\ stage' = "copy"
        /\ at # "idle"
    BY <1>0, <1>10 DEF Put, Goto, D, Stages
  <2>2. \A l \in DOMAIN dated' : dated'[l] = D \/ (l \in DOMAIN dated /\ dated'[l] = dated[l])
    BY <1>10 DEF Put
  <2>3. UpToDate' = UpToDate /\ AsksWithCause(D') /\ Last(D') = Last(D)
    BY <2>1 DEF ProgressKept, AsksWithCause, UpToDate, Last
  <2>4. \A l \in DOMAIN dated' : AsksWithCause(dated'[l])
    BY <2>1, <2>2 DEF ProgressKept
  <2>5. QED
    BY <2>1, <2>3, <2>4 DEF ProgressKept, InPhase, Early
<1>11. CASE Copy
  <2>1. D' = D /\ UNCHANGED <<dated, files, host, at>> /\ stage = "copy" /\ canon' = D
        /\ at # "idle"
    BY <1>0, <1>11 DEF Copy, Goto, D, Positioned, Stages
  <2>2. UpToDate' /\ Last(D') = Last(D)
    BY <1>0, <2>1, CopiesUpToDate
  <2>3. QED
    BY <2>1, <2>2 DEF ProgressKept, AsksWithCause
<1>12. CASE Lose \/ \E l \in DOMAIN dated : Rollback(l)
  <2>1. UNCHANGED <<at, stage, dated>> /\ at = "idle"
        /\ (canon' = None \/ \E l \in DOMAIN dated : canon' = dated[l])
    BY <1>12 DEF Lose, Rollback
  <2>2. QED
    BY <2>1 DEF ProgressKept, InPhase, Early
<1>13. QED
  <2>1. UNCHANGED vars => ProgressKept'
    BY <1>1 DEF vars, InPhase, D
  <2>2. QED
    BY <2>1, <1>2, <1>3, <1>4, <1>5, <1>6, <1>7, <1>8, <1>9, <1>10, <1>11, <1>12, <1>14, Zenon
       DEF Next, Pipeline, Failure, Writing

LEMMA HandedOverNext ==
  ASSUME OnlyActions, HandedOver, [Next]_vars
  PROVE  HandedOver'
BY InOrderNext, CopyNext, LabelsNext, OwnNext, DescendsNext, ProgressNext, Zenon DEF HandedOver

\* Between runs of Actions, whatever of them is killed or lost and whatever the state is rolled
\* back to: the invariant the theorems below follow from.
THEOREM RunsHandOver == ASSUME OnlyActions PROVE Spec => []HandedOver
<1>1. Init => HandedOver
  BY InOrderInit, HandedOverInit DEF HandedOver
<1>2. HandedOver /\ [Next]_vars => HandedOver'
  BY HandedOverNext
<1>3. QED
  BY <1>1, <1>2, PTL DEF Spec

\* README.md:63: the state object is at every moment one of its dated copies.
THEOREM CanonIsDated == ASSUME OnlyActions PROVE Spec => []CanonHasCopy
<1>1. HandedOver => CanonHasCopy
  BY DEF HandedOver
<1>2. QED
  BY <1>1, RunsHandOver, PTL

\* statefile.fetch: all the bucket ever holds descends from one first run.
THEOREM OneFirstRun == ASSUME OnlyActions PROVE Spec => []OneBeginning
<1>1. HandedOver => OneBeginning
  BY DEF HandedOver, Descends, OneBeginning
<1>2. QED
  BY <1>1, RunsHandOver, PTL

\* A run that leaves the chain marker has a batch of its own in the bucket and batches left.
THEOREM ChainsWithProgress == ASSUME OnlyActions PROVE Spec => []MarkerMeansProgress
<1>1. ASSUME HandedOver PROVE MarkerMeansProgress
  <2>1. SUFFICES ASSUME marker[host], at # "idle"
                 PROVE  /\ canon # None /\ report[host] = Len(canon.runs)
                        /\ Last(canon).done > 0 /\ Last(canon).done < Last(canon).planned
    BY DEF MarkerMeansProgress
  <2>2. report[host] # 0 /\ report[host] = Len(D.runs) /\ Last(D).chain
    BY <1>1, <2>1 DEF HandedOver, ProgressKept
  <2>3. D.runs # << >>
    BY <1>1, <2>2, HostTypes, StateParts, EmptySeq DEF HandedOver, InOrder
  <2>4. UpToDate /\ Last(D).done > 0 /\ Last(D).done < Last(D).planned
    BY <1>1, <2>1, <2>2, <2>3 DEF HandedOver, ProgressKept, AsksWithCause
  <2>5. QED
    BY <2>2, <2>4 DEF UpToDate
<1>2. QED
  BY <1>1, RunsHandOver, PTL

\* batch.history_label: no push of a run that starts where no database is kept writes over
\* another run's dated copy, nor over one of its own while it is the run that started last; a
\* report copy is written again only where a later start died with the fetched state and the
\* failure path finishes that copy's run once more.
THEOREM CopiesStayTheirRuns == ASSUME OnlyActions PROVE Spec => DatedNeverRewritten
<1> DEFINE Stays(l) ==
             \/ dated'[l] = dated[l]
             \/ /\ l[2] = "report" /\ broken
                /\ Last(dated'[l]).epoch = Last(dated[l]).epoch /\ Last(dated[l]).epoch < epoch
<1>1. ASSUME HandedOver, [Next]_vars
      PROVE  [\A l \in DOMAIN dated : Stays(l)]_dated
  <2>1. CASE Put
    <3>1. SUFFICES ASSUME NEW l \in DOMAIN dated, l = label
                   PROVE  Stays(l)
      BY <2>1 DEF Put
    <3>2. dated'[l] = D /\ stage = "put"
      BY <2>1, <3>1 DEF Put
    <3>3. QED
      BY <1>1, <3>1, <3>2, TakenLabel DEF HandedOver
  <2>2. CASE ~Put
    BY <1>1, <2>2, DatedStays DEF HandedOver
  <2>3. QED
    BY <2>1, <2>2
<1>2. QED
  BY <1>1, RunsHandOver, PTL DEF Spec, DatedNeverRewritten

\* A push replaces the state object by one that knows at least as much.
THEOREM PushesAdd == ASSUME OnlyActions PROVE Spec => NothingForgotten
<1>1. ASSUME HandedOver, [Next]_vars
      PROVE  [stage = "copy" /\ canon # None /\ canon' # None => Knows(canon', canon)]_canon
  <2>1. SUFFICES ASSUME stage = "copy", canon # None, canon' # canon
                 PROVE  Knows(canon', canon)
    OBVIOUS
  <2>2. at # "idle" /\ D.runs # << >>
    BY <1>1, <2>1 DEF HandedOver, InOrder, Positioned, Stages, Descends
  <2>3. Copy
    BY <1>1, <2>1, <2>2, CanonStays DEF HandedOver
  <2>4. canon' = D
    BY <1>1, <2>3 DEF Copy, HandedOver, InOrder, Positioned
  <2>5. QED
    BY <1>1, <2>1, <2>2, <2>4 DEF HandedOver, Descends
<1>2. QED
  BY <1>1, RunsHandOver, PTL DEF Spec, NothingForgotten
=============================================================================
