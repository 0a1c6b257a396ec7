------------------------------ MODULE RunProofs ------------------------------
(***************************************************************************)
(* Proofs about the runs of Mirror.  First what they remove, from Proton   *)
(* and from the rows, whatever fails.  Then, while nothing fails but what  *)
(* the CLI refuses by name: the rows are what Proton holds, and a run that *)
(* ends well leaves Proton with what it listed.                            *)
(***************************************************************************)
EXTENDS MirrorProofs

USE DEF cloud, bucket, spent, database, deltaVars, batchVars, lateVars

\* Nothing of the run under way changes.
Rests ==
    /\ UNCHANGED <<mirror, walk, deltaVars, batchVars, lateVars, failed, after, pc>>
    /\ proton' = proton \/ pc = "idle"

\* The run goes to its report, or to a push with nothing but the report after it.
Leaves ==
    /\ pc' = "report" \/ (pc' \in {"put", "copy"} /\ after' \in {"report", "idle"})
    /\ UNCHANGED <<deltaVars, batchOf, status, strays>>

Inventories == (\E r \in BOOLEAN : StartRun(r)) \/ (\E p \in Path : ListEntry(p)) \/ Delta \/ Plan
Carries == StartBatch \/ (\E p \in Path : FetchItem(p) \/ FetchCorrupt(p)) \/ Verify
          \/ Upload \/ SkipUpload \/ Settle \/ Checkpoint \/ (Landed /\ pc' = "next")
Empties == SkipTrash \/ StartTrash \/ EndTrash
           \/ \E d \in Folder \cup {Root} : TrashFolder(d) \/ ListingFails(d)
Compares == StartWalk \/ Correct \/ \E d \in Folder \cup {Root} : ListFolder(d)

LEMMA FailBatchLeaves == FailBatch => Leaves
BY Zenon DEF FailBatch, Halt, Leaves

LEMMA EndsOrGoes ==
  ASSUME InOrder, Copy
  PROVE  EndRun \/ Leaves \/ (Copy /\ after \in {"landed", "reconcile"})
<1>1. CASE after = "idle"
  BY <1>1 DEF Copy
<1>2. CASE after = "report"
  BY <1>2 DEF Copy, Goto, Leaves
<1>3. QED
  BY <1>1, <1>2 DEF InOrder, TypeOK

LEMMA StepKinds ==
  ASSUME InOrder, [Next]_vars
  PROVE  \/ Rests \/ EndRun \/ Leaves \/ Inventories \/ Carries \/ EndBatches \/ Empties
         \/ Compares
         \/ ((Put \/ Copy) /\ after \in {"landed", "reconcile"})
<1> DEFINE Goal == \/ Rests \/ EndRun \/ Leaves \/ Inventories \/ Carries \/ EndBatches
                   \/ Empties \/ Compares
                   \/ ((Put \/ Copy) /\ after \in {"landed", "reconcile"})
<1>1. UNCHANGED vars \/ Rollback => Rests
  BY Zenon DEF vars, Rollback, Rests
<1>2. ASSUME NEW p \in Path, NEW v \in EditValues[p], Edit(p, v) PROVE Rests
  BY <1>2, Zenon DEF Edit, Rests
<1>3. ASSUME NEW p \in Path, HandUpload(p) PROVE Rests
  BY <1>3, Zenon DEF HandUpload, Rests
<1>4. Crash => EndRun
  BY Zenon DEF Crash
<1>5. RefuseListing => Leaves
  BY Zenon DEF RefuseListing, Halt, Leaves
<1>6. ASSUME NEW p \in Path, FetchFails(p) PROVE Leaves
  BY <1>6, FailBatchLeaves DEF FetchFails
<1>7. VerifyFails => Leaves
  BY FailBatchLeaves DEF VerifyFails
<1>8. UploadDies \/ StraysDie => Leaves
  BY Zenon DEF UploadDies, StraysDie, Halt, Leaves
<1>9. ASSUME NEW d \in Folder \cup {Root}, TrashDies(d) PROVE Leaves
  BY <1>9, Zenon DEF TrashDies, Halt, Leaves
<1>10. PushFails => EndRun \/ Leaves
  BY Zenon DEF PushFails, Halt, Leaves
<1>11. PhaseFails => Leaves
  BY FailBatchLeaves, Zenon DEF PhaseFails, Halt, Leaves
<1>12. Landed => Leaves \/ (Landed /\ pc' = "next")
  BY Zenon DEF Landed, Halt, Goto, Leaves
<1>13. SkipReconcile \/ StopWalk \/ TrashStrays \/ Report => Leaves
  BY DEF SkipReconcile, StopWalk, TrashStrays, Report, Goto, Push, Leaves
<1>14. Put => Leaves \/ (Put /\ after \in {"landed", "reconcile"})
  BY DEF Put, Goto, Leaves, InOrder, TypeOK
<1>15. Copy => EndRun \/ Leaves \/ (Copy /\ after \in {"landed", "reconcile"})
  BY EndsOrGoes
<1>16. QED
  BY <1>1, <1>2, <1>3, <1>4, <1>5, <1>6, <1>7, <1>8, <1>9, <1>10, <1>11, <1>12, <1>13,
     <1>14, <1>15, Zenon
     DEF Next, Outside, Pipeline, Failure, Inventories, Carries, Empties, Compares
-----------------------------------------------------------------------------
LEMMA CarefulInit == Init => Careful
BY DEF Init, Careful, Doomed, Attempted, AllAttempted, TrashedGone, WalkedNow,
       ReconcileRepairs, Late, Batching, BatchStep, Planned, Downloadable

\* What a step of a batch does to the files that wait.
LEMMA CarriesOn ==
  ASSUME InOrder, Careful, Carries
  PROVE  /\ Batching /\ Batching' /\ UNCHANGED <<deltaVars, lateVars, batchOf>>
         /\ \A p \in Path : status'[p] = "PLANNED" => status[p] = "PLANNED"
         /\ batch' = batch \/ (pc = "landed" /\ batch' = batch + 1)
         /\ pc' \in {"next", "fetch"} \/ Being("PLANNED") = {}
              \/ \E p \in Path : Being("PLANNED") = {p} /\ status'[p] # "PLANNED"
<1> USE DEF Batching, BatchStep, InOrder, TypeOK
<1> DEFINE Goal ==
         /\ Batching /\ Batching' /\ UNCHANGED <<deltaVars, lateVars, batchOf>>
         /\ \A p \in Path : status'[p] = "PLANNED" => status[p] = "PLANNED"
         /\ batch' = batch \/ (pc = "landed" /\ batch' = batch + 1)
         /\ pc' \in {"next", "fetch"} \/ Being("PLANNED") = {}
              \/ \E p \in Path : Being("PLANNED") = {p} /\ status'[p] # "PLANNED"
<1>0. Batching => pc \in {"next", "fetch"} \/ Being("PLANNED") = {}
  BY DEF Careful, Attempted
<1>1. CASE StartBatch
  BY <1>1 DEF StartBatch, Goto
<1>2. ASSUME NEW p \in Path, FetchItem(p) PROVE Goal
  BY <1>2 DEF FetchItem
<1>3. ASSUME NEW p \in Path, FetchCorrupt(p) PROVE Goal
  BY <1>3 DEF FetchCorrupt
<1>4. CASE Verify
  BY <1>0, <1>4 DEF Verify, Goto
<1>5. CASE Upload
  BY <1>0, <1>5 DEF Upload, Goto
<1>6. CASE SkipUpload
  BY <1>0, <1>6 DEF SkipUpload, Goto
<1>7. CASE Settle
  BY <1>0, <1>7 DEF Settle, Goto, Verdict
<1>8. CASE Checkpoint
  BY <1>0, <1>8 DEF Checkpoint, Push, On
<1>9. CASE Landed /\ pc' = "next"
  BY <1>9 DEF Landed, Goto, Halt
<1>10. QED
  BY <1>1, <1>2, <1>3, <1>4, <1>5, <1>6, <1>7, <1>8, <1>9 DEF Carries

LEMMA DoomedNext == InOrder /\ Careful /\ [Next]_vars => Doomed'
<1> SUFFICES ASSUME InOrder, Careful, [Next]_vars PROVE Doomed'
  OBVIOUS
<1> USE DEF Careful, Doomed, Downloadable
<1>1. CASE Rests
  BY <1>1 DEF Rests
<1>2. CASE EndRun
  BY <1>2 DEF EndRun
<1>3. CASE Leaves
  BY <1>3 DEF Leaves
<1>4. ASSUME NEW r \in BOOLEAN, StartRun(r) PROVE Doomed'
  BY <1>4 DEF StartRun, Goto
<1>5. ASSUME NEW p \in Path, ListEntry(p) PROVE Doomed'
  BY <1>5 DEF ListEntry
<1>6. CASE Delta
  BY <1>6 DEF Delta, Goto
<1>7. CASE Plan
  BY <1>7, Zenon DEF Plan, Goto
<1>8. CASE Carries
  BY <1>8, CarriesOn DEF Batching, BatchStep
<1>9. CASE EndBatches
  BY <1>9 DEF EndBatches, Goto
<1>10. CASE Empties
  BY <1>10 DEF Empties, SkipTrash, StartTrash, EndTrash, TrashFolder, ListingFails, Goto, Push
<1>11. CASE Compares
  BY <1>11 DEF Compares, StartWalk, Correct, ListFolder, Goto
<1>12. CASE (Put \/ Copy) /\ after \in {"landed", "reconcile"}
  BY <1>12 DEF Put, Copy, Goto
<1>13. QED
  BY <1>1, <1>2, <1>3, <1>4, <1>5, <1>6, <1>7, <1>8, <1>9, <1>10, <1>11, <1>12, StepKinds
     DEF Inventories

LEMMA AttemptedNext == InOrder /\ Careful /\ [Next]_vars => Attempted'
<1> SUFFICES ASSUME InOrder, Careful, [Next]_vars PROVE Attempted'
  OBVIOUS
<1> USE DEF Careful, Attempted
<1>1. ASSUME UNCHANGED <<batchOf, batch, status>>, Batching' => Batching /\ pc \notin {"next", "fetch"},
             pc' \in {"idle", "inventory", "delta", "plan"} =>
               pc \in {"idle", "inventory", "delta", "plan"}
      PROVE  Attempted'
  BY <1>1 DEF Planned, Batches, Being
<1>2. CASE Rests
  <2>1. UNCHANGED <<batchOf, batch, status, pc, after>>
    BY <1>2 DEF Rests
  <2>2. QED
    BY <2>1 DEF Planned, Batches, Being, Batching
<1>3. CASE EndRun
  BY <1>3 DEF EndRun, Planned, Batching, BatchStep
<1>4. CASE Leaves
  BY <1>4 DEF Leaves, Planned, Batching, BatchStep
<1>5. ASSUME NEW r \in BOOLEAN, StartRun(r) PROVE Attempted'
  BY <1>1, <1>5 DEF StartRun, Goto, Batching, BatchStep
<1>6. ASSUME NEW p \in Path, ListEntry(p) PROVE Attempted'
  BY <1>1, <1>6 DEF ListEntry, Batching, BatchStep
<1>7. CASE Delta
  BY <1>1, <1>7 DEF Delta, Goto, Batching, BatchStep
<1>8. CASE Plan
  <2> DEFINE fits == {p \in changed : listing[p] \notin Oversized}
  <2>1. PICK n \in 0..Cardinality(fits) : \E number \in [fits -> 1..n] :
          /\ \A k \in 1..n : \E p \in fits : number[p] = k
          /\ batchOf' = [p \in Path |-> IF p \in fits THEN number[p] ELSE 0]
          /\ status' = On(status, fits, "PLANNED")
    BY <1>8, Zenon DEF Plan
  <2>2. PICK number \in [fits -> 1..n] :
          /\ \A k \in 1..n : \E p \in fits : number[p] = k
          /\ batchOf' = [p \in Path |-> IF p \in fits THEN number[p] ELSE 0]
          /\ status' = On(status, fits, "PLANNED")
    BY <2>1
  <2>3. pc = "plan" /\ pc' = "next" /\ batch' = batch
    BY <1>8, Zenon DEF Plan, Goto
  <2>4. fits \subseteq Path /\ n \in Nat
    <3>1. fits \subseteq Path /\ IsFiniteSet(fits)
      BY ItemAssumption, FS_Subset DEF InOrder, TypeOK
    <3>2. QED
      BY <3>1, FS_CardinalityType
  <2>5. Planned' = fits
    BY <2>2, <2>4 DEF Planned
  <2>6. {batchOf'[p] : p \in Planned'} = 1..n
    BY <2>2, <2>4, <2>5
  <2>7. Batches' = n
    <3>1. Cardinality(1..n) = n
      BY <2>4, FS_Interval
    <3>2. QED
      BY <2>6, <3>1 DEF Batches
  <2>8. \A p \in Path : status'[p] = "PLANNED" => p \in Planned'
    BY <2>2, <2>3, <2>5 DEF On, InOrder, TypeOK, Planned
  <2>9. \A p \in Planned' : ~(batchOf'[p] < batch')
    BY <2>2, <2>3, <2>4, <2>5
  <2>10. QED
    BY <2>3, <2>6, <2>7, <2>8, <2>9
<1>9. CASE Carries
  <2>1. Planned' = Planned /\ Batches' = Batches /\ UNCHANGED batchOf
    BY <1>9, CarriesOn DEF Planned, Batches
  <2>2. \A p \in Path : status'[p] = "PLANNED" => p \in Planned'
    BY <1>9, <2>1, CarriesOn
  <2>3. {batchOf'[p] : p \in Planned'} = 1..Batches'
    BY <1>9, <2>1, CarriesOn
  <2>4. \A p \in Planned' : batchOf'[p] < batch' => status'[p] # "PLANNED"
    BY <1>9, <2>1, CarriesOn DEF Being, InOrder, TypeOK, Planned
  <2>5. pc' \notin {"next", "fetch"} => Being("PLANNED")' = {}
    <3>1. ASSUME pc' \notin {"next", "fetch"} PROVE batch' = batch
      BY <1>9, <3>1, CarriesOn DEF Carries, StartBatch, FetchItem, FetchCorrupt, Verify,
         Upload, SkipUpload, Settle, Checkpoint
    <3>2. QED
      BY <1>9, <2>1, <3>1, CarriesOn DEF Being, Planned
  <2>6. pc' \notin {"idle", "inventory", "delta", "plan"}
    BY <1>9, CarriesOn DEF Batching, BatchStep
  <2>7. QED
    BY <2>2, <2>3, <2>4, <2>5, <2>6
<1>10. CASE EndBatches
  BY <1>1, <1>10 DEF EndBatches, Goto, Batching, BatchStep
<1>11. CASE Empties
  <2>1. UNCHANGED <<batchOf, batch, status>> /\ pc' \in {"trashing", "reconcile", "put"}
        /\ (pc' = "put" => after' = "reconcile")
    BY <1>11 DEF Empties, SkipTrash, StartTrash, EndTrash, TrashFolder, ListingFails, Goto, Push
  <2>2. QED
    BY <1>1, <2>1 DEF Batching, BatchStep
<1>12. CASE Compares
  <2>1. UNCHANGED <<batchOf, batch, status>> /\ pc' \in {"walk", "walking", "strays"}
    BY <1>12 DEF Compares, StartWalk, Correct, ListFolder, Goto
  <2>2. QED
    BY <1>1, <2>1 DEF Batching, BatchStep
<1>13. CASE (Put \/ Copy) /\ after \in {"landed", "reconcile"}
  BY <1>1, <1>13 DEF Put, Copy, Goto, Batching, BatchStep
<1>14. QED
  BY <1>2, <1>3, <1>4, <1>5, <1>6, <1>7, <1>8, <1>9, <1>10, <1>11, <1>12, <1>13, StepKinds
     DEF Inventories

LEMMA AllAttemptedNext == InOrder /\ Careful /\ [Next]_vars => AllAttempted'
<1> SUFFICES ASSUME InOrder, Careful, [Next]_vars PROVE AllAttempted'
  OBVIOUS
<1> USE DEF Careful, AllAttempted, Late
<1>1. ASSUME UNCHANGED <<status, remaining>>, Late' => Late,
             pc' \in {"trashing", "walk", "walking", "strays"} => remaining = 0
      PROVE  AllAttempted'
  BY <1>1
<1>2. ASSUME ~Late' PROVE AllAttempted'
  BY <1>2
<1>3. CASE Rests
  BY <1>3 DEF Rests
<1>4. CASE EndRun
  BY <1>2, <1>4 DEF EndRun
<1>5. CASE Leaves
  BY <1>2, <1>5 DEF Leaves
<1>6. CASE Inventories
  BY <1>2, <1>6 DEF Inventories, StartRun, ListEntry, Delta, Plan, Goto
<1>7. CASE Carries
  BY <1>2, <1>7, CarriesOn DEF Batching, BatchStep
<1>8. CASE EndBatches
  <2>1. pc = "next" /\ pc' = "trash" /\ remaining' = Left /\ UNCHANGED <<batchOf, status>>
    BY <1>8 DEF EndBatches, Goto
  <2>2. Batches \in Nat /\ batch \in Nat
    BY LeftType DEF InOrder, TypeOK
  <2>3. Batching
    BY <2>1 DEF Batching, BatchStep
  <2>4. ASSUME remaining' = 0, NEW p \in Path, status[p] = "PLANNED" PROVE FALSE
    <3>1. batch = Batches + 1
      BY <2>1, <2>2, <2>4 DEF Left
    <3>2. p \in Planned
      BY <2>4 DEF Attempted
    <3>3. batchOf[p] \in 1..Batches
      BY <2>3, <3>2 DEF Attempted
    <3>4. batchOf[p] < batch
      BY <2>2, <3>1, <3>3
    <3>5. QED
      BY <2>3, <2>4, <3>2, <3>4 DEF Attempted
  <2>5. QED
    BY <2>1, <2>4
<1>9. CASE Empties
  BY <1>1, <1>9 DEF Empties, SkipTrash, StartTrash, EndTrash, TrashFolder, ListingFails, Goto,
                    Push
<1>10. CASE Compares
  BY <1>1, <1>10 DEF Compares, StartWalk, Correct, ListFolder, Goto
<1>11. CASE (Put \/ Copy) /\ after \in {"landed", "reconcile"}
  BY <1>1, <1>11 DEF Put, Copy, Goto
<1>12. QED
  BY <1>3, <1>4, <1>5, <1>6, <1>7, <1>8, <1>9, <1>10, <1>11, StepKinds

LEMMA TrashedGoneNext == InOrder /\ Careful /\ [Next]_vars => TrashedGone'
<1> SUFFICES ASSUME InOrder, Careful, [Next]_vars PROVE TrashedGone'
  OBVIOUS
<1> USE DEF Careful, TrashedGone
<1> DEFINE Early == pc \in {"idle", "inventory", "delta", "plan", "trash"} \/ Batching
<1>1. ASSUME UNCHANGED deletion, Early, pc' # "trashing" PROVE TrashedGone'
  BY <1>1
<1>2. ASSUME ~Early', pc' # "trashing" PROVE TrashedGone'
  BY <1>2
<1>3. CASE Rests
  <2>1. UNCHANGED <<deletion, pc, after>> /\ (proton' = proton \/ pc # "trashing")
    BY <1>3 DEF Rests
  <2>2. Batching' = Batching
    BY <2>1 DEF Batching
  <2>3. QED
    BY <2>1, <2>2
<1>4. CASE EndRun
  BY <1>4 DEF EndRun
<1>5. CASE Leaves
  BY <1>2, <1>5 DEF Leaves, Batching, BatchStep
<1>6. CASE Inventories
  BY <1>1, <1>6 DEF Inventories, StartRun, ListEntry, Delta, Plan, Goto
<1>7. CASE Carries
  BY <1>1, <1>7, CarriesOn DEF Batching, BatchStep
<1>8. CASE EndBatches
  BY <1>1, <1>8 DEF EndBatches, Goto, Batching, BatchStep
<1>9. CASE SkipTrash \/ EndTrash
  BY <1>2, <1>9 DEF SkipTrash, EndTrash, Goto, Push, Batching, BatchStep
<1>10. CASE StartTrash
  BY <1>10 DEF StartTrash, Goto, Batching, BatchStep
<1>11. ASSUME NEW d \in Folder \cup {Root}, TrashFolder(d) PROVE TrashedGone'
  <2>1. /\ pc' = "trashing" /\ pc = "trashing"
        /\ proton' = Trashed(Found(d))
        /\ deletion' = [p \in Path |-> CASE p \in Found(d) -> "TRASHED"
                                         [] p \in Group(d) \ Found(d) -> "NOT_FOUND"
                                         [] OTHER -> deletion[p]]
    BY <1>11 DEF TrashFolder
  <2>2. ASSUME NEW p \in Path, deletion'[p] \in {"TRASHED", "NOT_FOUND"}
        PROVE  proton'[p] = Absent
    <3>1. CASE p \in Group(d)
      BY <2>1, <3>1 DEF Found, Trashed, On, InOrder, TypeOK, Rows
    <3>2. CASE p \notin Group(d)
      <4>1. deletion'[p] = deletion[p]
        BY <2>1, <3>2 DEF Found
      <4>2. QED
        BY <2>1, <2>2, <4>1 DEF Trashed, On, InOrder, TypeOK, Rows
    <3>3. QED
      BY <3>1, <3>2
  <2>3. QED
    BY <2>1, <2>2 DEF Batching, BatchStep
<1>12. ASSUME NEW d \in Folder \cup {Root}, ListingFails(d) PROVE TrashedGone'
  BY <1>12 DEF ListingFails, On, InOrder, TypeOK, Batching, BatchStep
<1>13. CASE Compares
  BY <1>2, <1>13 DEF Compares, StartWalk, Correct, ListFolder, Goto, Batching, BatchStep
<1>14. CASE (Put \/ Copy) /\ after \in {"landed", "reconcile"}
  BY <1>1, <1>2, <1>14 DEF Put, Copy, Goto, Batching, BatchStep
<1>15. QED
  BY <1>3, <1>4, <1>5, <1>6, <1>7, <1>8, <1>9, <1>10, <1>11, <1>12, <1>13, <1>14, StepKinds
     DEF Empties

LEMMA WalkedNowNext == InOrder /\ Careful /\ [Next]_vars => WalkedNow'
<1> SUFFICES ASSUME InOrder, Careful, [Next]_vars PROVE WalkedNow'
  OBVIOUS
<1> USE DEF Careful, WalkedNow
<1>1. ASSUME pc' \notin {"walk", "walking"} PROVE WalkedNow'
  BY <1>1
<1>2. CASE Rests
  BY <1>2 DEF Rests
<1>3. CASE EndRun \/ Leaves \/ Inventories
  BY <1>1, <1>3 DEF EndRun, Leaves, Inventories, StartRun, ListEntry, Delta, Plan, Goto
<1>4. CASE Carries
  BY <1>1, <1>4, CarriesOn DEF Batching, BatchStep
<1>5. CASE EndBatches \/ Empties
  BY <1>1, <1>5 DEF EndBatches, Empties, SkipTrash, StartTrash, EndTrash, TrashFolder,
                    ListingFails, Goto, Push
<1>6. CASE StartWalk
  <2>1. ~resumed' => walk'.pending = Folder \cup {Root}
    BY <1>6 DEF StartWalk
  <2>2. \A p \in Path : Home[p] \in Folder \cup {Root}
    BY MirrorAssumption DEF Item
  <2>3. QED
    BY <2>1, <2>2
<1>7. ASSUME NEW d \in Folder \cup {Root}, ListFolder(d) PROVE WalkedNow'
  <2>1. pc \in {"walk", "walking"} /\ UNCHANGED <<proton, resumed>>
    BY <1>7 DEF ListFolder
  <2>2. walk \in Walks /\ TypeOK
    BY DEF InOrder, TypeOK
  <2>3. walk'.pending = walk.pending \ {d}
    BY <1>7, <2>2, ListsFolder DEF Walks
  <2>4. \A p \in Path :
          IF Home[p] # d THEN walk'.nodes[p] = walk.nodes[p]
          ELSE \/ walk'.nodes[p] = proton[p]
               \/ MayLackSize /\ walk'.nodes[p] = Sizeless /\ proton[p] # Absent
    BY <1>7, <2>2, ListsFolder
  <2>5. QED
    BY <2>1, <2>3, <2>4
<1>8. CASE Correct
  BY <1>1, <1>8 DEF Correct, Goto
<1>9. CASE (Put \/ Copy) /\ after \in {"landed", "reconcile"}
  BY <1>1, <1>9 DEF Put, Copy, Goto
<1>10. QED
  BY <1>2, <1>3, <1>4, <1>5, <1>6, <1>7, <1>8, <1>9, StepKinds DEF Compares

LEMMA ReconcileRepairsNext == InOrder /\ Careful /\ [Next]_vars => ReconcileRepairs'
<1> SUFFICES ASSUME InOrder, Careful, [Next]_vars PROVE ReconcileRepairs'
  OBVIOUS
<1>1. ASSUME pc' # "strays" PROVE ReconcileRepairs'
  BY <1>1 DEF ReconcileRepairs
<1>2. CASE Rests
  BY <1>2 DEF Rests, Careful, ReconcileRepairs, Recorded
<1>3. CASE EndRun \/ Leaves \/ Inventories
  BY <1>1, <1>3 DEF EndRun, Leaves, Inventories, StartRun, ListEntry, Delta, Plan, Goto
<1>4. CASE Carries
  BY <1>1, <1>4, CarriesOn DEF Batching, BatchStep
<1>5. CASE EndBatches \/ Empties
  BY <1>1, <1>5 DEF EndBatches, Empties, SkipTrash, StartTrash, EndTrash, TrashFolder,
                    ListingFails, Goto, Push
<1>6. CASE StartWalk \/ \E d \in Folder \cup {Root} : ListFolder(d)
  BY <1>1, <1>6 DEF StartWalk, ListFolder, Goto
<1>7. CASE Correct
  <2>1. PICK u \in SUBSET (IF MayLackDigest THEN Path ELSE {}) :
          mirror' = On(mirror, {p \in Recorded : ~Matches(p, u)}, Absent)
    BY <1>7, Zenon DEF Correct
  <2>2. /\ pc \in {"walk", "walking"} /\ walk.pending = {} /\ UNCHANGED <<proton, resumed>>
    BY <1>7 DEF Correct
  <2>3. ASSUME NEW p \in Recorded', ~resumed' PROVE
          /\ proton'[p] # Absent
          /\ Size[proton'[p]] = Size[mirror'[p]]
          /\ ~MayLackDigest => proton'[p] = mirror'[p]
    <3>1. p \in Recorded /\ Matches(p, u) /\ mirror'[p] = mirror[p]
      BY <2>1, <2>3 DEF Recorded, On, InOrder, TypeOK, Rows
    <3>2. walk.nodes[p] = proton[p]
      BY <2>2, <2>3, <3>1 DEF Careful, WalkedNow, Recorded, Matches
    <3>3. QED
      BY <2>1, <2>2, <3>1, <3>2 DEF Matches
  <2>4. QED
    BY <2>3, Zenon DEF ReconcileRepairs
<1>8. CASE (Put \/ Copy) /\ after \in {"landed", "reconcile"}
  BY <1>1, <1>8 DEF Put, Copy, Goto
<1>9. QED
  BY <1>2, <1>3, <1>4, <1>5, <1>6, <1>7, <1>8, StepKinds DEF Compares

LEMMA CarefulNext == InOrder /\ Careful /\ [Next]_vars => Careful'
BY DoomedNext, AttemptedNext, AllAttemptedNext, TrashedGoneNext, WalkedNowNext,
   ReconcileRepairsNext, Zenon DEF Careful

\* A run trashes nothing its listing has, plans in numbered batches, trashes and walks only
\* when they are all done, and compares rows with what Proton held when it was walked.
THEOREM RunsAreCareful == Spec => [](InOrder /\ Careful)
<1>1. Init => InOrder /\ Careful
  BY InOrderInit, CarefulInit
<1>2. InOrder /\ Careful /\ [Next]_vars => (InOrder /\ Careful)'
  BY TypeNext, OrderNext, CarefulNext, Zenon DEF InOrder, Order
<1>3. QED
  BY <1>1, <1>2, PTL DEF Spec

\* README.md:74 "compares Proton's own listing against the state independently of anything a
\* batch claimed": after a walk begun and ended by one run every row left is of a file Proton
\* holds, with its size, and with its content when Proton always lists a digest.
THEOREM RowsRepaired == Spec => []ReconcileRepairs
<1>1. Careful => ReconcileRepairs
  BY DEF Careful
<1>2. QED
  BY <1>1, RunsAreCareful, PTL
-----------------------------------------------------------------------------
\* The steps that write to Proton, and those that write rows in the middle of a run.
Writes == \/ \E p \in Path : HandUpload(p)
          \/ Upload \/ UploadDies \/ TrashStrays \/ StraysDie
          \/ \E d \in Folder \cup {Root} : TrashFolder(d) \/ TrashDies(d)

LEMMA ProtonKept == [Next]_vars => UNCHANGED proton \/ Writes
<1>1. UNCHANGED vars => UNCHANGED proton
  BY Zenon DEF vars
<1>2. ASSUME (\E p \in Path : \E v \in EditValues[p] : Edit(p, v)) \/ Rollback
      PROVE  UNCHANGED proton
  BY <1>2, Zenon DEF Edit, Rollback
<1>3. (\E r \in BOOLEAN : StartRun(r)) \/ Delta \/ RefuseListing \/ Plan => UNCHANGED proton
  BY Zenon DEF StartRun, Delta, RefuseListing, Plan
<1>4. ASSUME NEW p \in Path, ListEntry(p) \/ FetchItem(p) \/ FetchFails(p) \/ FetchCorrupt(p)
      PROVE  UNCHANGED proton
  BY <1>4, Zenon DEF ListEntry, FetchItem, FetchFails, FetchCorrupt, FailBatch
<1>5. \/ EndBatches \/ StartBatch \/ Verify \/ VerifyFails \/ SkipUpload \/ Settle
      \/ Checkpoint \/ Landed
      => UNCHANGED proton
  BY Zenon DEF EndBatches, StartBatch, Verify, VerifyFails, FailBatch, SkipUpload, Settle,
               Checkpoint, Landed
<1>6. SkipTrash \/ StartTrash \/ EndTrash => UNCHANGED proton
  BY Zenon DEF SkipTrash, StartTrash, EndTrash
<1>7. ASSUME NEW d \in Folder \cup {Root}, ListFolder(d) \/ ListingFails(d)
      PROVE  UNCHANGED proton
  BY <1>7, Zenon DEF ListFolder, ListingFails
<1>8. SkipReconcile \/ StartWalk \/ StopWalk \/ Correct \/ Report => UNCHANGED proton
  BY Zenon DEF SkipReconcile, StartWalk, StopWalk, Correct, Report
<1>9. Put \/ Copy \/ Crash \/ PhaseFails \/ PushFails => UNCHANGED proton
  BY Zenon DEF Put, Copy, Crash, PhaseFails, FailBatch, PushFails
<1>10. QED
  BY <1>1, <1>2, <1>3, <1>4, <1>5, <1>6, <1>7, <1>8, <1>9, Zenon
     DEF Next, Outside, Pipeline, Failure, Writes

\* Only the trash and the strays take a file out of Proton.
LEMMA Removals ==
  ASSUME InOrder, [Next]_vars, NEW p \in Path, proton[p] # Absent, proton'[p] = Absent
  PROVE  \/ pc = "trashing" /\ p \in deleted
         \/ pc = "strays" /\ p \in strays
<1> DEFINE Goal == \/ pc = "trashing" /\ p \in deleted
                   \/ pc = "strays" /\ p \in strays
<1> USE DEF InOrder, TypeOK, Rows
\* What lands is what was listed.
<1>1. ASSUME NEW files, proton' = Lands(files), pc = "upload",
             files \cap Path \subseteq Being("VERIFIED")
      PROVE  FALSE
  <2>1. p \in files /\ staged[p] = Absent
    BY <1>1 DEF Lands
  <2>2. staged[p] = listing[p] /\ p \in Planned
    BY <1>1, <2>1 DEF StepsInOrder, Being
  <2>3. listing[p] \in Content
    BY <2>2 DEF PlansListed, Downloadable
  <2>4. QED
    BY <2>1, <2>2, <2>3, MirrorAssumption
<1>2. ASSUME NEW files, proton' = Trashed(files) PROVE p \in files
  BY <1>2 DEF Trashed, On
<1>3. ASSUME NEW q \in Path, HandUpload(q) PROVE FALSE
  BY <1>3, MirrorAssumption DEF HandUpload
<1>4. ASSUME Upload PROVE FALSE
  <2>1. PICK o \in Outcomes(Being("VERIFIED")) : proton' = Lands(o.sent)
    BY <1>4, Zenon DEF Upload
  <2>2. o.sent \cap Path \subseteq Being("VERIFIED")
    BY MirrorAssumption, ItemAssumption DEF Outcomes, Staging, Being, Planned, Item
  <2>3. QED
    BY <1>1, <1>4, <2>1, <2>2 DEF Upload
<1>5. ASSUME UploadDies PROVE FALSE
  BY <1>1, <1>5 DEF UploadDies
<1>6. ASSUME NEW d \in Folder \cup {Root}, TrashFolder(d) \/ TrashDies(d) PROVE Goal
  BY <1>2, <1>6 DEF TrashFolder, TrashDies, Found, Group
<1>7. CASE TrashStrays \/ StraysDie
  BY <1>2, <1>7 DEF TrashStrays, StraysDie
<1>8. QED
  BY <1>3, <1>4, <1>5, <1>6, <1>7, ProtonKept DEF Writes

\* No file that this run's listing has as downloadable leaves Proton, whether by the trash or
\* as a stray, whatever failed before and whatever Dropbox has come to since.
THEOREM KeepsWhatIsListed == Spec => NeverTrashListed
<1>1. InOrder /\ Careful /\ [Next]_vars =>
        [\A p \in Path : proton[p] # Absent /\ proton'[p] = Absent
                           => listing[p] \notin Content]_vars
  BY Removals DEF Careful, Doomed, Downloadable
<1>2. QED
  BY <1>1, RunsAreCareful, PTL DEF Spec, NeverTrashListed

\* README.md:64: a file leaves Proton only in a run that has attempted every file it planned,
\* so that a file moved in Dropbox has its new copy tried before the old one goes.
THEOREM TrashesLast == Spec => TrashAfterBatches
<1>1. InOrder /\ Careful /\ [Next]_vars =>
        [(\E p \in Path : proton[p] # Absent /\ proton'[p] = Absent) =>
           \A q \in Path : status[q] # "PLANNED"]_vars
  BY Removals DEF Careful, AllAttempted, Late
<1>2. QED
  BY <1>1, RunsAreCareful, PTL DEF Spec, TrashAfterBatches
-----------------------------------------------------------------------------
\* The steps that may change a row in the middle of a run.
LEMMA RowsKept ==
  [Next]_vars =>
    \/ UNCHANGED mirror \/ pc = "idle" \/ pc' = "idle"
    \/ Checkpoint \/ EndTrash \/ Correct
<1> DEFINE Kept == UNCHANGED mirror \/ pc = "idle" \/ pc' = "idle"
<1>1. UNCHANGED vars => Kept
  BY Zenon DEF vars
<1>2. ASSUME \/ \E p \in Path : HandUpload(p) \/ \E v \in EditValues[p] : Edit(p, v)
             \/ Rollback
      PROVE  Kept
  BY <1>2, Zenon DEF Edit, HandUpload, Rollback
<1>3. (\E r \in BOOLEAN : StartRun(r)) \/ Delta \/ RefuseListing \/ Plan => Kept
  BY Zenon DEF StartRun, Delta, RefuseListing, Plan
<1>4. ASSUME NEW p \in Path, ListEntry(p) \/ FetchItem(p) \/ FetchFails(p) \/ FetchCorrupt(p)
      PROVE  Kept
  BY <1>4, Zenon DEF ListEntry, FetchItem, FetchFails, FetchCorrupt, FailBatch
<1>5. \/ EndBatches \/ StartBatch \/ Verify \/ VerifyFails \/ Upload \/ SkipUpload \/ UploadDies
      \/ Settle \/ Landed
      => Kept
  BY Zenon DEF EndBatches, StartBatch, Verify, VerifyFails, FailBatch, Upload, SkipUpload,
               UploadDies, Settle, Landed
<1>6. SkipTrash \/ StartTrash => Kept
  BY Zenon DEF SkipTrash, StartTrash
<1>7. ASSUME NEW d \in Folder \cup {Root},
             TrashFolder(d) \/ TrashDies(d) \/ ListFolder(d) \/ ListingFails(d)
      PROVE  Kept
  BY <1>7, Zenon DEF TrashFolder, TrashDies, ListFolder, ListingFails
<1>8. SkipReconcile \/ StartWalk \/ StopWalk \/ TrashStrays \/ StraysDie \/ Report => Kept
  BY Zenon DEF SkipReconcile, StartWalk, StopWalk, TrashStrays, StraysDie, Report
<1>9. Put \/ Copy \/ Crash \/ PhaseFails \/ PushFails => Kept
  BY Zenon DEF Put, Copy, Crash, PhaseFails, FailBatch, PushFails, EndRun
<1>10. QED
  BY <1>1, <1>2, <1>3, <1>4, <1>5, <1>6, <1>7, <1>8, <1>9, Zenon
     DEF Next, Outside, Pipeline, Failure

LEMMA Drops ==
  ASSUME InOrder, Careful, [Next]_vars, pc # "idle", pc' # "idle", ~resumed,
         NEW p \in Path, mirror'[p] # mirror[p], mirror'[p] = Absent
  PROVE  proton[p] # mirror[p] \/ (pc \in {"walk", "walking"} /\ walk.nodes[p] = Sizeless)
<1> USE DEF InOrder, TypeOK, Rows
<1>1. CASE Checkpoint
  <2>1. p \in Being("CONFIRMED") /\ listing[p] = Absent
    BY <1>1 DEF Checkpoint
  <2>2. listing[p] \in Content
    BY <2>1 DEF PlansListed, Downloadable, Being
  <2>3. QED
    BY <2>1, <2>2, MirrorAssumption
<1>2. CASE EndTrash
  BY <1>2 DEF EndTrash, On, Careful, TrashedGone
<1>3. CASE Correct
  <2>1. PICK u \in SUBSET (IF MayLackDigest THEN Path ELSE {}) :
          mirror' = On(mirror, {q \in Recorded : ~Matches(q, u)}, Absent)
    BY <1>3, Zenon DEF Correct
  <2>2. p \in Recorded /\ ~Matches(p, u)
    BY <2>1 DEF On
  <2>3. pc \in {"walk", "walking"} /\ (walk.nodes[p] = proton[p] \/ walk.nodes[p] = Sizeless)
    BY <1>3 DEF Correct, Careful, WalkedNow
  <2>4. QED
    BY <2>2, <2>3 DEF Matches, Recorded
<1>4. QED
  BY <1>1, <1>2, <1>3, RowsKept

\* A run gives up a row only when Proton does not hold what it says, or when its walk found the
\* file without a size, unless it compares the rows with a walk that an earlier run began.
THEOREM DropsAreContradicted == Spec => DropsOnlyContradicted
<1>1. InOrder /\ Careful /\ [Next]_vars =>
        [pc # "idle" /\ pc' # "idle" /\ ~resumed =>
           \A p \in Path : mirror'[p] # mirror[p] /\ mirror'[p] = Absent
             => proton[p] # mirror[p] \/ (pc \in {"walk", "walking"} /\ walk.nodes[p] = Sizeless)]_vars
  BY Drops
<1>2. QED
  BY <1>1, RunsAreCareful, PTL DEF Spec, DropsOnlyContradicted
-----------------------------------------------------------------------------
\* Runs that go well.

\* A step outside the run, or none.
Still == UNCHANGED <<proton, bucket, mirror, walk, deltaVars, batchVars, lateVars, failed,
                     after, pc>>

\* A phase raises without a fault: the listing is refused, a fetch or a batch fails.
Raises ==
    /\ pc \in {"delta", "fetch", "verify", "landed"} /\ pc' = "report" /\ failed' = TRUE
    /\ UNCHANGED <<proton, bucket, mirror, walk, deltaVars, lateVars>>

Removes == SkipTrash \/ StartTrash \/ EndTrash \/ \E d \in Folder \cup {Root} : TrashFolder(d)
Walking == StartWalk \/ Correct \/ TrashStrays \/ \E d \in Folder \cup {Root} : ListFolder(d)
Reports == SkipReconcile \/ Report \/ Put \/ Copy

LEMMA FailuresFault == Failure => Fault
<1>1. Crash \/ UploadDies \/ StraysDie => Fault
  BY DEF Crash, UploadDies, StraysDie
<1>2. PhaseFails \/ PushFails => Fault
  BY DEF PhaseFails, PushFails
<1>3. ASSUME NEW p \in Path, FetchCorrupt(p) PROVE Fault
  BY <1>3 DEF FetchCorrupt
<1>4. ASSUME NEW d \in Folder \cup {Root}, ListingFails(d) \/ TrashDies(d) PROVE Fault
  BY <1>4 DEF ListingFails, TrashDies
<1>5. QED
  BY <1>1, <1>2, <1>3, <1>4, Zenon DEF Failure

LEMMA FaultsKept == [Next]_vars => UNCHANGED faults \/ Failure
<1>1. UNCHANGED vars => UNCHANGED faults
  BY Zenon DEF vars
<1>2. ASSUME NEW p \in Path, HandUpload(p) \/ \E v \in EditValues[p] : Edit(p, v)
      PROVE  UNCHANGED faults
  BY <1>2, Zenon DEF Edit, HandUpload
<1>3. Rollback \/ (\E r \in BOOLEAN : StartRun(r)) \/ Delta \/ RefuseListing \/ Plan
      => UNCHANGED faults
  BY Zenon DEF Rollback, StartRun, Delta, RefuseListing, Plan
<1>4. ASSUME NEW p \in Path, ListEntry(p) \/ FetchItem(p) \/ FetchFails(p)
      PROVE  UNCHANGED faults
  BY <1>4, Zenon DEF ListEntry, FetchItem, FetchFails
<1>5. \/ EndBatches \/ StartBatch \/ Verify \/ VerifyFails \/ Upload \/ SkipUpload \/ Settle
      \/ Checkpoint \/ Landed \/ SkipTrash \/ StartTrash \/ EndTrash
      => UNCHANGED faults
  BY Zenon DEF EndBatches, StartBatch, Verify, VerifyFails, Upload, SkipUpload, Settle,
               Checkpoint, Landed, SkipTrash, StartTrash, EndTrash
<1>6. ASSUME NEW d \in Folder \cup {Root}, TrashFolder(d) \/ ListFolder(d)
      PROVE  UNCHANGED faults
  BY <1>6, Zenon DEF TrashFolder, ListFolder
<1>7. SkipReconcile \/ StartWalk \/ StopWalk \/ Correct \/ TrashStrays \/ Report \/ Put \/ Copy
      => UNCHANGED faults
  BY Zenon DEF SkipReconcile, StartWalk, StopWalk, Correct, TrashStrays, Report, Put, Copy
<1>8. QED
  BY <1>1, <1>2, <1>3, <1>4, <1>5, <1>6, <1>7, Zenon DEF Next, Outside, Pipeline

\* No fault so far: none before, and the step is none.
LEMMA SteadyKinds ==
  ASSUME InOrder, Plainly, [Next]_vars, faults' = 0
  PROVE  /\ faults = 0
         /\ \/ Still \/ (\E p \in Path : HandUpload(p)) \/ Rollback \/ Raises
            \/ Inventories \/ Carries \/ EndBatches \/ Removes \/ Walking \/ Reports
<1>1. ~Failure
  BY FailuresFault DEF Fault, InOrder, TypeOK
<1>2. faults = 0
  BY <1>1, FaultsKept
<1>3. UNCHANGED vars => Still
  BY Zenon DEF vars, Still
<1>4. ASSUME NEW p \in Path, NEW v \in EditValues[p], Edit(p, v) PROVE Still
  BY <1>4, Zenon DEF Edit, Still
<1>5. RefuseListing => Raises
  BY Zenon DEF RefuseListing, Halt, Raises
<1>6. ASSUME NEW p \in Path, FetchFails(p) PROVE Raises
  BY <1>6, Zenon DEF FetchFails, FailBatch, Halt, Raises
<1>7. VerifyFails => Raises
  BY Zenon DEF VerifyFails, FailBatch, Halt, Raises
<1>8. Landed => Raises \/ (Landed /\ pc' = "next")
  BY Zenon DEF Landed, Halt, Goto, Raises
<1>9. ~StopWalk
  BY DEF StopWalk, Plainly
<1>10. QED
  BY <1>1, <1>2, <1>3, <1>4, <1>5, <1>6, <1>7, <1>8, <1>9, Zenon
     DEF Next, Outside, Pipeline, Inventories, Carries, Removes, Walking, Reports
-----------------------------------------------------------------------------
\* batch.confirm.  When the CLI refuses files only and names them, and their names tell them
\* apart, every file that was sent is confirmed: the counts add up, and the rows that carry a
\* failed name are the refused files.
LEMMA SentIsConfirmed ==
  ASSUME Plainly, NEW V \in SUBSET Path, NEW o \in Outcomes(V), Explains(o),
         NEW p \in V, p \in o.sent
  PROVE  Verdict(V, Staging(V), summary)[p] = "CONFIRMED"
<1> DEFINE D == Staging(V)
           all == V \cup D
<1>1. /\ D \subseteq Folder /\ V \cap D = {}
      /\ o.sent \subseteq all /\ o.refused \subseteq V /\ o.sent \cap o.refused = {}
  BY MirrorAssumption, ItemAssumption DEF Staging, Outcomes, Item, Plainly
<1>2. IsFiniteSet(V) /\ IsFiniteSet(D)
  BY <1>1, ItemAssumption, FS_Subset
<1>3. Cardinality(all) = Cardinality(V) + Cardinality(D)
  BY <1>1, <1>2, DisjointCardinality
<1>4. IsFiniteSet(o.sent) /\ IsFiniteSet(o.refused)
  BY <1>1, <1>2, DisjointCardinality, FS_Subset
<1>5. PICK detail \in [o.refused -> Details] : summary = Printed(o, detail)
  BY DEF Explains
<1>6. \A i \in o.refused : detail[i] = "named"
  BY DEF Plainly
<1>7. {j \in o.refused : detail[j] # "missing"} = o.refused
  BY <1>6
<1>8. /\ summary.landed = Cardinality(o.sent) /\ summary.failed = Cardinality(o.refused)
      /\ summary.failures = [i \in o.refused |-> Base[i]]
  BY <1>5, <1>6, <1>7 DEF Printed
\* Nothing is below a refused file.
<1>9. o.sent \cup o.refused = all
  <2>1. ASSUME NEW x \in all PROVE x \in o.sent \cup o.refused
    <3>1. Within[x] \cap o.refused = {}
      BY <1>1, MirrorAssumption, ItemAssumption DEF Item
    <3>2. QED
      BY <3>1 DEF Outcomes
  <2>2. QED
    BY <1>1, <2>1
<1>10. Accounted(V, D, summary)
  BY <1>1, <1>3, <1>4, <1>8, <1>9, DisjointCardinality DEF Accounted
<1>11. Errors(summary) = {Base[i] : i \in o.refused}
  BY <1>1, <1>8, ItemAssumption DEF Errors, Name, Item
<1>12. FailedRows(V, summary) = o.refused
  BY <1>1, <1>11 DEF FailedRows, Plainly
<1>13. Confirmed(V, D, summary)
  BY <1>8, <1>10, <1>11, <1>12 DEF Confirmed
<1>14. QED
  BY <1>1, <1>12, <1>13 DEF Verdict
-----------------------------------------------------------------------------
LEMMA SteadyInit == Init => Steady
<1> SUFFICES ASSUME Init PROVE Steady
  OBVIOUS
<1>1. RowsAgree
  BY DEF Init, RowsAgree, Rowed
<1>2. WalksEnd /\ Emptied
  BY DEF Init, WalksEnd, Emptied, NoWalk
<1>3. BatchesEnd /\ ListedHasRow /\ RowIsListed
  BY DEF Init, BatchesEnd, ListedHasRow, RowIsListed, Batching, BatchStep, Whole, Late
<1>4. QED
  BY <1>1, <1>2, <1>3 DEF Steady
-----------------------------------------------------------------------------
\* The step of a run without a fault, and what is known before it.
Clean == InOrder /\ Careful /\ Held /\ Steady /\ [Next]_vars /\ faults' = 0

\* Where the steps of each kind lead.
LEMMA SteadyMoves ==
  ASSUME Plainly, Clean
  PROVE  /\ Raises => pc' = "report" /\ failed'
         /\ Inventories => /\ pc \in {"idle", "inventory", "delta", "plan"}
                           /\ pc' \in {"inventory", "delta", "plan", "next"}
         /\ Carries => /\ Batching /\ Batching'
                       /\ UNCHANGED <<walk, bucket, deltaVars, lateVars, batchOf>>
         /\ EndBatches => pc = "next" /\ pc' = "trash"
         /\ Removes => /\ pc \in {"trash", "trashing"}
                       /\ pc' \in {"trashing", "reconcile"} \/ (pc' = "put" /\ after' = "reconcile")
         /\ Walking => /\ pc \in {"reconcile", "walk", "walking", "strays"}
                       /\ pc' \in {"walk", "walking", "strays"} \/ (pc' = "put" /\ after' = "report")
         /\ Reports => /\ pc \in {"reconcile", "report", "put", "copy"}
                       /\ \/ pc' = "report" /\ pc # "report"
                          \/ pc' \in {"put", "copy"} /\ (after' = after \/ after' = "idle")
                          \/ pc' = after /\ pc = "copy" /\ after # "idle"
                          \/ pc' = "idle"
<1>1. Raises => pc' = "report" /\ failed'
  BY DEF Raises
<1>2. Inventories => /\ pc \in {"idle", "inventory", "delta", "plan"}
                     /\ pc' \in {"inventory", "delta", "plan", "next"}
  BY DEF Inventories, StartRun, ListEntry, Delta, Plan, Goto
<1>3. ASSUME Carries PROVE UNCHANGED <<walk, bucket>>
  BY <1>3 DEF Carries, StartBatch, FetchItem, FetchCorrupt, Verify, Upload, SkipUpload, Settle,
              Checkpoint, Landed
<1>4. Carries => /\ Batching /\ Batching'
                 /\ UNCHANGED <<walk, bucket, deltaVars, lateVars, batchOf>>
  BY <1>3, CarriesOn DEF Clean
<1>5. EndBatches => pc = "next" /\ pc' = "trash"
  BY DEF EndBatches, Goto
<1>6. Removes => /\ pc \in {"trash", "trashing"}
                 /\ pc' \in {"trashing", "reconcile"} \/ (pc' = "put" /\ after' = "reconcile")
  BY DEF Removes, SkipTrash, StartTrash, EndTrash, TrashFolder, Goto, Push
<1>7. Walking => /\ pc \in {"reconcile", "walk", "walking", "strays"}
                 /\ pc' \in {"walk", "walking", "strays"} \/ (pc' = "put" /\ after' = "report")
  BY DEF Walking, StartWalk, Correct, TrashStrays, ListFolder, Goto, Push
<1>8. Reports => /\ pc \in {"reconcile", "report", "put", "copy"}
                 /\ \/ pc' = "report" /\ pc # "report"
                    \/ pc' \in {"put", "copy"} /\ (after' = after \/ after' = "idle")
                    \/ pc' = after /\ pc = "copy" /\ after # "idle"
                    \/ pc' = "idle"
  BY DEF Reports, SkipReconcile, Report, Put, Copy, EndRun, Goto, Push
<1>9. QED
  BY <1>1, <1>2, <1>4, <1>5, <1>6, <1>7, <1>8

LEMMA WalksEndNext == ASSUME Plainly, Clean PROVE WalksEnd'
<1> USE DEF WalksEnd
<1>0. /\ Steady /\ WalksEnd /\ InOrder
      /\ \/ Still \/ (\E p \in Path : HandUpload(p)) \/ Rollback \/ Raises
         \/ Inventories \/ Carries \/ EndBatches \/ Removes \/ Walking \/ Reports
  BY SteadyKinds DEF Clean, Steady
<1>1. ASSUME UNCHANGED <<walk, bucket, resumed>>, pc \notin {"walk", "walking", "copy"}
      PROVE  WalksEnd'
  BY <1>0, <1>1
<1>2. CASE Still
  BY <1>0, <1>2 DEF Still
<1>3. ASSUME NEW p \in Path, HandUpload(p) PROVE WalksEnd'
  BY <1>1, <1>3 DEF HandUpload
<1>4. CASE Rollback
  BY <1>0, <1>4 DEF Rollback
<1>5. CASE Raises
  BY <1>1, <1>5 DEF Raises
<1>6. ASSUME NEW r \in BOOLEAN, StartRun(r) PROVE WalksEnd'
  BY <1>0, <1>6 DEF StartRun, Goto, NoWalk
<1>7. CASE (\E p \in Path : ListEntry(p)) \/ Delta \/ Plan
  BY <1>1, <1>7 DEF ListEntry, Delta, Plan
<1>8. CASE Carries
  <2>1. UNCHANGED <<walk, bucket, resumed>> /\ Batching
    BY <1>8, SteadyMoves
  <2>2. pc # "copy"
    BY <1>8 DEF Carries, StartBatch, FetchItem, FetchCorrupt, Verify, Upload, SkipUpload,
                Settle, Checkpoint, Landed
  <2>3. QED
    BY <1>1, <2>1, <2>2 DEF Batching, BatchStep
<1>9. CASE EndBatches \/ Removes
  BY <1>1, <1>9 DEF EndBatches, Removes, SkipTrash, StartTrash, EndTrash, TrashFolder
<1>10. CASE Walking
  <2>1. ASSUME StartWalk PROVE WalksEnd'
    BY <1>0, <2>1 DEF StartWalk, Goto
  <2>2. ASSUME Correct PROVE WalksEnd'
    <3>1. pc \in {"walk", "walking"} /\ walk' = Compared /\ UNCHANGED <<bucket, resumed>>
      BY <2>2 DEF Correct
    <3>2. walk'.status # "running"
      BY <3>1 DEF Compared
    <3>3. QED
      BY <1>0, <3>1, <3>2
  <2>3. ASSUME TrashStrays PROVE WalksEnd'
    BY <1>1, <2>3 DEF TrashStrays
  <2>4. ASSUME NEW d \in Folder \cup {Root}, ListFolder(d) PROVE WalksEnd'
    BY <1>0, <2>4 DEF ListFolder, Goto
  <2>5. QED
    BY <1>10, <2>1, <2>2, <2>3, <2>4 DEF Walking
<1>11. CASE SkipReconcile \/ Report
  BY <1>1, <1>11 DEF SkipReconcile, Report
<1>12. CASE Put
  <2>1. history' = Image /\ pc = "put" /\ pc' = "copy" /\ UNCHANGED <<canon, walk, resumed>>
    BY <1>12 DEF Put, Goto
  <2>2. Image.walk.status # "running"
    BY <1>0, <2>1 DEF Image
  <2>3. QED
    BY <1>0, <2>1, <2>2
<1>13. CASE Copy
  <2>1. canon' = history /\ UNCHANGED history /\ pc = "copy"
    BY <1>13 DEF Copy
  <2>2. (UNCHANGED <<walk, resumed>> /\ pc # "idle") \/ (walk' = NoWalk /\ resumed' = FALSE)
    BY <1>13 DEF Copy, EndRun
  <2>3. walk'.status # "running" /\ ~resumed'
    BY <1>0, <2>1, <2>2 DEF NoWalk
  <2>4. QED
    BY <1>0, <2>1, <2>3
<1>14. QED
  BY <1>0, <1>2, <1>3, <1>4, <1>5, <1>6, <1>7, <1>8, <1>9, <1>10, <1>11, <1>12, <1>13
     DEF Inventories, Reports

LEMMA EmptiedNext == ASSUME Plainly, Clean PROVE Emptied'
<1> USE DEF Emptied
<1>0. /\ Steady /\ Emptied /\ InOrder /\ Careful
      /\ \/ Still \/ (\E p \in Path : HandUpload(p)) \/ Rollback \/ Raises
         \/ Inventories \/ Carries \/ EndBatches \/ Removes \/ Walking \/ Reports
  BY SteadyKinds DEF Clean, Steady
<1>1. ASSUME pc' \notin {"trashing", "strays"} PROVE Emptied'
  BY <1>1
<1>2. CASE Still
  BY <1>0, <1>2 DEF Still
<1>3. CASE (\E p \in Path : HandUpload(p)) \/ Rollback
  BY <1>1, <1>3 DEF HandUpload, Rollback
<1>4. CASE Raises \/ Inventories \/ EndBatches
  BY <1>1, <1>4, SteadyMoves
<1>5. CASE Carries
  BY <1>1, <1>5, SteadyMoves DEF Batching, BatchStep
<1>6. CASE SkipTrash \/ EndTrash
  BY <1>1, <1>6 DEF SkipTrash, EndTrash, Goto, Push
<1>7. CASE StartTrash
  <2>1. /\ pc = "trash" /\ pc' = "trashing" /\ dirs' = {Home[p] : p \in deleted}
        /\ UNCHANGED <<deleted, deletion>>
    BY <1>7 DEF StartTrash, Goto
  <2>2. \A p \in Path : deletion[p] = "NONE"
    BY <1>0, <2>1 DEF Careful, TrashedGone
  <2>3. QED
    BY <2>1, <2>2
<1>8. ASSUME NEW d \in Folder \cup {Root}, TrashFolder(d) PROVE Emptied'
  <2>1. /\ pc = "trashing" /\ pc' = pc /\ dirs' = dirs \ {d} /\ UNCHANGED deleted
        /\ deletion' = [p \in Path |-> CASE p \in Found(d) -> "TRASHED"
                                         [] p \in Group(d) \ Found(d) -> "NOT_FOUND"
                                         [] OTHER -> deletion[p]]
    BY <1>8 DEF TrashFolder
  <2>2. ASSUME NEW p \in Path
        PROVE  /\ deletion'[p] = "TRASHED" => Home[p] \notin dirs'
               /\ p \in deleted' /\ deletion'[p] = "NONE" => Home[p] \in dirs'
    BY <1>0, <2>1 DEF Found, Group
  <2>3. QED
    BY <2>1, <2>2
<1>9. CASE StartWalk \/ TrashStrays \/ \E d \in Folder \cup {Root} : ListFolder(d)
  BY <1>1, <1>9 DEF StartWalk, TrashStrays, ListFolder, Goto, Push
<1>10. CASE Correct
  <2>1. /\ pc' = "strays"
        /\ strays' = {p \in Path : walk.nodes[p] # Absent} \ (Recorded \cup Downloadable)
    BY <1>10 DEF Correct, Goto
  <2>2. PICK u \in SUBSET (IF MayLackDigest THEN Path ELSE {}) :
          mirror' = On(mirror, {p \in Recorded : ~Matches(p, u)}, Absent)
    BY <1>10, Zenon DEF Correct
  <2>3. QED
    BY <1>0, <2>1, <2>2 DEF On, Recorded, InOrder, TypeOK, Rows
<1>11. CASE Reports
  BY <1>0, <1>1, <1>11, SteadyMoves DEF InOrder, TypeOK
<1>12. QED
  BY <1>0, <1>2, <1>3, <1>4, <1>5, <1>6, <1>7, <1>8, <1>9, <1>10, <1>11 DEF Removes, Walking

LEMMA BatchesEndNext == ASSUME Plainly, Clean PROVE BatchesEnd'
<1> USE DEF BatchesEnd
<1>0. /\ Steady /\ BatchesEnd /\ InOrder /\ Careful
      /\ \/ Still \/ (\E p \in Path : HandUpload(p)) \/ Rollback \/ Raises
         \/ Inventories \/ Carries \/ EndBatches \/ Removes \/ Walking \/ Reports
  BY SteadyKinds DEF Clean, Steady
<1>1. ASSUME ~Batching' PROVE BatchesEnd'
  BY <1>1
<1>2. ASSUME UNCHANGED <<batchOf, batch, status>>, Batching,
             \/ pc' = pc
             \/ pc' \in {"next", "fetch", "verify"}
             \/ pc \notin {"next", "fetch", "verify", "upload", "confirm", "merge"}
      PROVE  BatchesEnd'
  <2>1. Planned' = Planned
    BY <1>2, Zenon DEF Planned
  <2>2. \A s \in ItemStatus : Being(s)' = Being(s)
    BY <1>2, <2>1, Zenon DEF Being
  <2>3. QED
    BY <1>0, <1>2, <2>1, <2>2 DEF ItemStatus
<1>3. CASE Still \/ (\E p \in Path : HandUpload(p)) \/ Rollback
  <2>1. UNCHANGED <<batchOf, batch, status, pc, after>>
    BY <1>3 DEF Still, HandUpload, Rollback
  <2>2. Batching' = Batching
    BY <2>1 DEF Batching
  <2>3. QED
    BY <1>1, <1>2, <2>1, <2>2
<1>4. CASE Raises \/ EndBatches \/ Removes \/ Walking
  BY <1>1, <1>4, SteadyMoves DEF Batching, BatchStep
<1>5. CASE (\E r \in BOOLEAN : StartRun(r)) \/ (\E p \in Path : ListEntry(p)) \/ Delta
  BY <1>1, <1>5 DEF StartRun, ListEntry, Delta, Goto, Batching, BatchStep
<1>6. CASE Plan
  <2> DEFINE fits == {p \in changed : listing[p] \notin Oversized}
  <2>1. PICK n \in 0..Cardinality(fits) : \E number \in [fits -> 1..n] :
          /\ batchOf' = [p \in Path |-> IF p \in fits THEN number[p] ELSE 0]
          /\ status' = On(status, fits, "PLANNED")
    BY <1>6, Zenon DEF Plan
  <2>2. PICK number \in [fits -> 1..n] :
          /\ batchOf' = [p \in Path |-> IF p \in fits THEN number[p] ELSE 0]
          /\ status' = On(status, fits, "PLANNED")
    BY <2>1
  <2>3. pc = "plan" /\ pc' = "next" /\ batch' = 1
    BY <1>0, <1>6 DEF Plan, Goto, Careful, Attempted
  <2>4. \A p \in Planned' : p \in fits /\ number[p] \in 1..n
    BY <2>2 DEF Planned
  <2>5. fits \subseteq Path /\ n \in Nat
    <3>1. fits \subseteq Path /\ IsFiniteSet(fits)
      BY <1>0, ItemAssumption, FS_Subset DEF InOrder, TypeOK
    <3>2. QED
      BY <3>1, FS_CardinalityType
  <2>6. \A p \in Planned' : ~(batchOf'[p] < batch') /\ status'[p] = "PLANNED"
    BY <1>0, <2>2, <2>3, <2>4, <2>5 DEF On, InOrder, TypeOK
  <2>7. QED
    BY <2>3, <2>6
<1>7. CASE StartBatch
  BY <1>2, <1>7 DEF StartBatch, Goto, Batching, BatchStep
<1>8. ASSUME NEW p \in Path,
             pc = "fetch", p \in Being("PLANNED"), NEW s \in {"VANISHED", "FETCHED"},
             status' = [status EXCEPT ![p] = s], pc' \in {"fetch", "verify"},
             UNCHANGED <<batchOf, batch>>
      PROVE  BatchesEnd'
  <2>1. Planned' = Planned
    BY <1>8, Zenon DEF Planned
  <2>2. p \in Path /\ batchOf[p] = batch /\ batch \in Nat
    BY <1>0, <1>8 DEF Being, InOrder, TypeOK
  <2>3. QED
    BY <1>0, <1>8, <2>1, <2>2 DEF InOrder, TypeOK, Batching, BatchStep
<1>9. ASSUME NEW p \in Path, FetchItem(p) \/ FetchCorrupt(p) PROVE BatchesEnd'
  <2>1. /\ pc = "fetch" /\ p \in Being("PLANNED") /\ pc' \in {"fetch", "verify"}
        /\ UNCHANGED <<batchOf, batch>>
        /\ \E s \in {"VANISHED", "FETCHED"} : status' = [status EXCEPT ![p] = s]
    BY <1>9 DEF FetchItem, FetchCorrupt
  <2>2. QED
    BY <1>8, <2>1
<1>10. CASE Verify
  <2>1. /\ pc = "verify" /\ pc' = "upload" /\ UNCHANGED <<batchOf, batch>>
        /\ status' = [p \in Path |-> CASE p \in Mismatched -> "HASH_MISMATCH"
                                       [] p \in Being("FETCHED") \ Mismatched -> "VERIFIED"
                                       [] OTHER -> status[p]]
    BY <1>10 DEF Verify, Goto
  <2>2. Planned' = Planned /\ Mismatched \subseteq Being("FETCHED")
    BY <2>1, Zenon DEF Planned, Mismatched
  <2>3. ASSUME NEW p \in Planned, p \notin Being("FETCHED") PROVE status'[p] = status[p]
    BY <2>1, <2>2, <2>3 DEF Planned
  <2>4. ASSUME NEW p \in Being("FETCHED")
        PROVE  status'[p] \in {"HASH_MISMATCH", "VERIFIED"} /\ batchOf[p] = batch
    BY <2>1, <2>2 DEF Being, Planned
  <2>5. Being("FETCHED")' = {}
    BY <2>1, <2>2, <2>3, <2>4 DEF Being, Planned
  <2>6. ASSUME NEW p \in Planned'
        PROVE  /\ status'[p] # "NONE"
               /\ batchOf'[p] < batch' => status'[p] \in SetAside \cup {"CHECKPOINTED"}
    <3>1. batchOf[p] \in Nat /\ batch \in Nat /\ Batching
      BY <1>0, <2>1, <2>2 DEF InOrder, TypeOK, Planned, Batching, BatchStep
    <3>2. QED
      BY <1>0, <2>1, <2>2, <2>3, <2>4, <3>1
  <2>7. QED
    BY <2>1, <2>5, <2>6
<1>11. CASE Upload \/ SkipUpload
  <2>1. /\ UNCHANGED <<batchOf, batch, status>> /\ pc = "upload"
        /\ pc' = "confirm" \/ (pc' = "merge" /\ Being("VERIFIED") = {})
    BY <1>11 DEF Upload, SkipUpload, Goto
  <2>2. Planned' = Planned /\ \A s \in ItemStatus : Being(s)' = Being(s)
    BY <2>1, Zenon DEF Being, Planned
  <2>3. QED
    BY <1>0, <2>1, <2>2 DEF ItemStatus, Batching, BatchStep
<1>12. CASE Settle
  <2> DEFINE V == Being("VERIFIED")
  <2>1. /\ pc = "confirm" /\ pc' = "merge" /\ UNCHANGED <<batchOf, batch>>
        /\ status' = [p \in Path |-> IF p \in V THEN Verdict(V, Staging(V), summary)[p]
                                     ELSE status[p]]
    BY <1>12 DEF Settle, Goto
  <2>2. Planned' = Planned /\ Being("FETCHED") = {} /\ Batching
    BY <1>0, <2>1 DEF Planned, Batching, BatchStep
  <2>3. ASSUME NEW p \in V
        PROVE  status'[p] \in {"CONFIRMED", "CONFIRM_FAILED"} /\ batchOf[p] = batch
    BY <2>1 DEF Being, Planned, Verdict
  <2>4. \A p \in Planned \ V : status'[p] = status[p]
    BY <2>1 DEF Planned
  <2>5. Being("FETCHED")' = {} /\ Being("VERIFIED")' = {}
    BY <2>1, <2>2, <2>3, <2>4 DEF Being, Planned
  <2>6. ASSUME NEW p \in Planned'
        PROVE  /\ status'[p] # "NONE"
               /\ batchOf'[p] < batch' => status'[p] \in SetAside \cup {"CHECKPOINTED"}
    <3>1. batchOf[p] \in Nat /\ batch \in Nat
      BY <1>0, <2>2 DEF InOrder, TypeOK, Planned
    <3>2. QED
      BY <1>0, <2>1, <2>2, <2>3, <2>4, <3>1
  <2>7. QED
    BY <2>1, <2>5, <2>6
<1>13. CASE Checkpoint
  <2> DEFINE C == Being("CONFIRMED")
  <2>1. /\ pc = "merge" /\ pc' = "put" /\ UNCHANGED <<batchOf, batch>>
        /\ status' = On(status, C, "CHECKPOINTED")
    BY <1>13 DEF Checkpoint, Push
  <2>2. Planned' = Planned /\ Being("FETCHED") = {} /\ Being("VERIFIED") = {} /\ Batching
    BY <1>0, <2>1 DEF Planned, Batching, BatchStep
  <2>3. \A p \in Planned : status'[p] = IF p \in C THEN "CHECKPOINTED" ELSE status[p]
    BY <1>0, <2>1 DEF On, InOrder, TypeOK, Planned
  <2>4. Being("FETCHED")' = {} /\ Being("VERIFIED")' = {} /\ Being("CONFIRMED")' = {}
    BY <2>1, <2>2, <2>3 DEF Being
  <2>5. QED
    BY <1>0, <2>1, <2>2, <2>3, <2>4
<1>14. CASE Landed /\ pc' = "next"
  <2>1. /\ pc = "landed" /\ batch' = batch + 1 /\ UNCHANGED <<batchOf, status>>
    BY <1>14 DEF Landed, Halt, Goto
  <2>2. Planned' = Planned /\ Batching
    BY <2>1 DEF Planned, Batching, BatchStep
  <2>3. ASSUME NEW p \in Planned, batchOf[p] = batch
        PROVE  status[p] \in SetAside \cup {"CHECKPOINTED"}
    <3>1. status[p] \in ItemStatus /\ status[p] # "NONE"
      BY <1>0, <2>2 DEF InOrder, TypeOK, Planned
    <3>2. Being("PLANNED") = {}
      BY <1>0, <2>1, <2>2 DEF Careful, Attempted
    <3>3. Being("FETCHED") = {} /\ Being("VERIFIED") = {} /\ Being("CONFIRMED") = {}
      BY <1>0, <2>1, <2>2
    <3>4. status[p] \notin {"PLANNED", "FETCHED", "VERIFIED", "CONFIRMED"}
      BY <2>3, <3>2, <3>3 DEF Being
    <3>5. QED
      BY <3>1, <3>4 DEF ItemStatus, SetAside
  <2>4. ASSUME NEW p \in Planned, batchOf[p] < batch + 1
        PROVE  status[p] \in SetAside \cup {"CHECKPOINTED"}
    <3>1. batchOf[p] \in Nat /\ batch \in Nat
      BY <1>0 DEF InOrder, TypeOK, Planned
    <3>2. QED
      BY <1>0, <2>2, <2>3, <2>4, <3>1
  <2>5. QED
    BY <1>0, <1>14, <2>1, <2>2, <2>4
<1>15. CASE SkipReconcile \/ Report
  BY <1>1, <1>15 DEF SkipReconcile, Report, Goto, Push, Batching, BatchStep
<1>16. CASE Put
  BY <1>1, <1>2, <1>16 DEF Put, Goto, Batching, BatchStep
<1>17. CASE Copy
  <2>1. CASE after = "landed"
    BY <1>2, <1>17, <2>1 DEF Copy, Goto, Batching, BatchStep
  <2>2. CASE after # "landed"
    BY <1>0, <1>1, <1>17, <2>2 DEF Copy, Goto, EndRun, Batching, BatchStep, InOrder, TypeOK
  <2>3. QED
    BY <2>1, <2>2
<1>18. QED
  BY <1>0, <1>3, <1>4, <1>5, <1>6, <1>7, <1>9, <1>10, <1>11, <1>12, <1>13, <1>14, <1>15, <1>16,
     <1>17 DEF Inventories, Carries, Reports

\* What the trash and the reconcile leave alone.
LEMMA LateMoves ==
  ASSUME Plainly, Clean, Removes \/ Walking
  PROVE  /\ Late /\ ~Batching' /\ pc' # "plan"
         /\ UNCHANGED <<deltaVars, status, failed, remaining, canon, history>>
         /\ \A p \in Downloadable : proton'[p] = proton[p] /\ deletion'[p] = deletion[p]
         /\ \A p \in Path : proton'[p] \in {proton[p], Absent}
         /\ \A p \in Path \ deleted : mirror'[p] = mirror[p] \/ Correct
<1> DEFINE Goal == /\ UNCHANGED <<deltaVars, status, failed, remaining, canon, history>>
                   /\ \A p \in Downloadable : proton'[p] = proton[p] /\ deletion'[p] = deletion[p]
                   /\ \A p \in Path : proton'[p] \in {proton[p], Absent}
                   /\ \A p \in Path \ deleted : mirror'[p] = mirror[p] \/ Correct
<1>0. InOrder /\ Careful
  BY DEF Clean
<1>1. Late /\ ~Batching' /\ pc' # "plan"
  BY SteadyMoves DEF Late, Batching, BatchStep
<1>2. SkipTrash \/ StartTrash \/ StartWalk => Goal
  BY DEF SkipTrash, StartTrash, StartWalk, Goto
<1>3. ASSUME NEW d \in Folder \cup {Root}, ListFolder(d) PROVE Goal
  BY <1>3 DEF ListFolder, Goto
<1>4. EndTrash => Goal
  BY <1>0 DEF EndTrash, Push, On, InOrder, TypeOK, Rows
<1>5. ASSUME NEW d \in Folder \cup {Root}, TrashFolder(d) PROVE Goal
  <2>1. /\ proton' = Trashed(Found(d)) /\ mirror' = mirror
        /\ UNCHANGED <<deltaVars, status, failed, remaining, canon, history>>
    BY <1>5 DEF TrashFolder
  <2>2. Found(d) \subseteq Group(d) /\ Group(d) \cap Downloadable = {}
    BY <1>0 DEF Found, Group, Careful, Doomed
  <2>3. \A p \in Path : /\ proton'[p] \in {proton[p], Absent}
                        /\ p \notin Found(d) => proton'[p] = proton[p]
    BY <1>0, <2>1 DEF Trashed, On, InOrder, TypeOK, Rows
  <2>4. \A p \in Downloadable : deletion'[p] = deletion[p]
    BY <1>5, <2>2 DEF TrashFolder, Downloadable
  <2>5. QED
    BY <2>1, <2>2, <2>3, <2>4 DEF Downloadable
<1>6. Correct => Goal
  BY DEF Correct, Goto
<1>7. TrashStrays => Goal
  BY <1>0 DEF TrashStrays, Push, Trashed, On, InOrder, TypeOK, Rows, Downloadable, Careful, Doomed
<1>8. QED
  BY <1>1, <1>2, <1>3, <1>4, <1>5, <1>6, <1>7 DEF Removes, Walking

\* The steps of a batch but its checkpoint leave the rows alone.
LEMMA CarriesRows ==
  ASSUME Carries
  PROVE  /\ UNCHANGED mirror \/ Checkpoint
         /\ UNCHANGED proton \/ Upload
BY DEF Carries, StartBatch, FetchItem, FetchCorrupt, Verify, Upload, SkipUpload, Settle, Landed,
       Checkpoint

LEMMA ReportMoves ==
  ASSUME Plainly, Clean, Reports
  PROVE  \/ EndRun /\ pc = "copy" /\ after = "idle"
         \/ /\ UNCHANGED <<mirror, proton, deltaVars, batchVars, lateVars, failed>>
            /\ pc' \notin {"plan", "trashing", "trash", "idle", "confirm", "merge", "strays"}
            /\ pc \notin {"plan", "trashing", "trash", "idle", "confirm", "merge"}
            /\ Batching' => Batching
            /\ Whole' => Whole
            /\ Whole' /\ reconciling /\ ~Late' => ~Late
<1>0. InOrder
  BY DEF Clean
<1>1. CASE SkipReconcile
  BY <1>1 DEF SkipReconcile, Goto, Batching, BatchStep, Whole, Late
<1>2. CASE Report
  BY <1>2 DEF Report, Push, Batching, BatchStep, Whole, Late
<1>3. CASE Put
  BY <1>3 DEF Put, Goto, Batching, BatchStep, Whole, Late
<1>4. CASE Copy
  <2>1. CASE after = "idle"
    BY <1>4, <2>1 DEF Copy
  <2>2. CASE after # "idle"
    <3>1. /\ UNCHANGED <<mirror, proton, deltaVars, batchVars, lateVars, failed>>
          /\ pc = "copy" /\ pc' = after /\ after' = after
      BY <1>4, <2>2 DEF Copy, Goto
    <3>2. after \in {"landed", "reconcile", "report"}
      BY <1>0, <2>2 DEF InOrder, TypeOK
    <3>3. QED
      BY <3>1, <3>2 DEF Batching, BatchStep, Whole, Late
  <2>3. QED
    BY <2>1, <2>2
<1>5. QED
  BY <1>1, <1>2, <1>3, <1>4 DEF Reports

LEMMA Fits ==
  ASSUME InOrder, Plan
  PROVE  /\ Planned' = {p \in changed : listing[p] \notin Oversized}
         /\ pc = "plan" /\ pc' = "next" /\ UNCHANGED <<mirror, proton, deltaVars, lateVars>>
<1> DEFINE fits == {p \in changed : listing[p] \notin Oversized}
<1>1. PICK n \in 0..Cardinality(fits) : \E number \in [fits -> 1..n] :
        batchOf' = [p \in Path |-> IF p \in fits THEN number[p] ELSE 0]
  BY Zenon DEF Plan
<1>2. PICK number \in [fits -> 1..n] :
        batchOf' = [p \in Path |-> IF p \in fits THEN number[p] ELSE 0]
  BY <1>1
<1>3. fits \subseteq Path /\ n \in Nat
  <2>1. fits \subseteq Path /\ IsFiniteSet(fits)
    BY ItemAssumption, FS_Subset DEF InOrder, TypeOK
  <2>2. QED
    BY <2>1, FS_CardinalityType
<1>4. Planned' = fits
  BY <1>2, <1>3 DEF Planned
<1>5. QED
  BY <1>4, Zenon DEF Plan, Goto

\* A step of a batch moves no file that is recorded, and records what Proton holds.
LEMMA RecordedStays ==
  ASSUME Plainly, Clean, Carries, NEW p \in Path, p \in Planned, status'[p] = "CHECKPOINTED",
         status[p] = "CHECKPOINTED" => proton[p] = listing[p]
  PROVE  proton'[p] = listing[p]
<1>0. InOrder /\ Held
  BY DEF Clean
<1> USE DEF InOrder, TypeOK
<1>1. CASE Checkpoint
  <2>1. UNCHANGED proton /\ pc = "merge"
        /\ status' = On(status, Being("CONFIRMED"), "CHECKPOINTED")
    BY <1>1 DEF Checkpoint
  <2>2. status[p] = "CHECKPOINTED" \/ p \in Being("CONFIRMED")
    BY <1>0, <2>1 DEF On
  <2>3. QED
    BY <1>0, <2>1, <2>2 DEF Held
<1>2. CASE Upload
  <2>1. PICK o \in Outcomes(Being("VERIFIED")) : proton' = Lands(o.sent)
    BY <1>2 DEF Upload
  <2>2. status[p] = "CHECKPOINTED" /\ p \notin Being("VERIFIED")
    BY <1>2 DEF Upload, Being
  <2>3. o.sent \subseteq Being("VERIFIED") \cup Staging(Being("VERIFIED"))
    BY DEF Outcomes
  <2>4. p \notin Staging(Being("VERIFIED"))
    BY MirrorAssumption, ItemAssumption DEF Staging, Being, Planned, Item
  <2>5. QED
    BY <2>1, <2>2, <2>3, <2>4 DEF Lands
<1>3. CASE ~Checkpoint /\ ~Upload
  <2>1. UNCHANGED proton
    BY <1>3, CarriesRows
  <2>2. status[p] = "CHECKPOINTED"
    <3>1. ASSUME NEW q \in Path, FetchItem(q) \/ FetchCorrupt(q) PROVE status[p] = "CHECKPOINTED"
      BY <1>0, <3>1 DEF FetchItem, FetchCorrupt
    <3>2. ASSUME Verify PROVE status[p] = "CHECKPOINTED"
      BY <3>2 DEF Verify
    <3>3. ASSUME Settle PROVE status[p] = "CHECKPOINTED"
      BY <3>3 DEF Settle, Verdict
    <3>4. ASSUME StartBatch \/ SkipUpload \/ Landed PROVE status[p] = "CHECKPOINTED"
      BY <3>4 DEF StartBatch, SkipUpload, Landed
    <3>5. QED
      BY <1>3, <3>1, <3>2, <3>3, <3>4 DEF Carries
  <2>3. QED
    BY <2>1, <2>2
<1>4. QED
  BY <1>1, <1>2, <1>3

LEMMA ListedHasRowNext == ASSUME Plainly, Clean PROVE ListedHasRow'
<1>0. /\ Steady /\ ListedHasRow /\ InOrder /\ Careful
      /\ \/ Still \/ (\E p \in Path : HandUpload(p)) \/ Rollback \/ Raises
         \/ Inventories \/ Carries \/ EndBatches \/ Removes \/ Walking \/ Reports
  BY SteadyKinds DEF Clean, Steady
<1>1. ASSUME pc' # "plan", ~Batching', ~Whole' PROVE ListedHasRow'
  BY <1>1 DEF ListedHasRow
<1>2. CASE Still
  <2>1. UNCHANGED <<proton, mirror, listing, changed, batchOf, status, deletion, failed,
                    remaining, pc, after>>
    BY <1>2 DEF Still
  <2>2. /\ Downloadable' = Downloadable /\ Planned' = Planned /\ Batching' = Batching
        /\ Whole' = Whole /\ \A p \in Path : Counted(p)' = Counted(p)
    BY <2>1, Zenon DEF Downloadable, Planned, Batching, Whole, Late, Counted
  <2>3. QED
    BY <1>0, <2>1, <2>2 DEF ListedHasRow, Downloadable
<1>3. CASE (\E p \in Path : HandUpload(p)) \/ Rollback
  BY <1>1, <1>3 DEF HandUpload, Rollback, Batching, BatchStep, Whole, Late
<1>4. CASE Raises
  BY <1>1, <1>4 DEF Raises, Batching, BatchStep, Whole
<1>5. CASE (\E r \in BOOLEAN : StartRun(r)) \/ \E p \in Path : ListEntry(p)
  BY <1>1, <1>5 DEF StartRun, ListEntry, Goto, Batching, BatchStep, Whole, Late
<1>6. CASE Delta
  <2>1. /\ pc' = "plan" /\ changed' = {p \in Downloadable : mirror[p] # listing[p]}
        /\ UNCHANGED <<mirror, listing>>
    BY <1>6 DEF Delta, Goto
  <2>2. QED
    BY <2>1 DEF ListedHasRow, Downloadable, Batching, BatchStep, Whole, Late
<1>7. CASE Plan
  <2>1. /\ Planned' = {p \in changed : listing[p] \notin Oversized}
        /\ pc = "plan" /\ pc' = "next" /\ UNCHANGED <<mirror, listing, changed>>
    BY <1>0, <1>7, Fits
  <2>2. \A p \in Planned' : status'[p] = "PLANNED"
    BY <1>0, <1>7, <2>1 DEF Plan, On, InOrder, TypeOK
  <2>3. Downloadable' = Downloadable
    BY <2>1, Zenon DEF Downloadable
  <2>4. ~Whole' /\ Batching'
    BY <2>1 DEF Batching, BatchStep, Whole, Late
  <2>5. QED
    BY <1>0, <2>1, <2>2, <2>3, <2>4 DEF ListedHasRow, Downloadable
<1>8. CASE Carries
  <2>1. Batching /\ Batching' /\ UNCHANGED <<listing, changed, batchOf>>
    BY <1>8, SteadyMoves
  <2>2. Downloadable' = Downloadable /\ Planned' = Planned
    BY <2>1, Zenon DEF Downloadable, Planned
  <2>3. pc' # "plan" /\ ~Whole'
    BY <2>1 DEF Batching, BatchStep, Whole, Late
  <2>4. ASSUME NEW p \in Downloadable PROVE mirror'[p] = listing[p] \/ p \in changed
    <3>1. CASE UNCHANGED mirror
      BY <1>0, <2>1, <2>4, <3>1 DEF ListedHasRow
    <3>2. CASE Checkpoint
      BY <1>0, <2>1, <2>4, <3>2 DEF ListedHasRow, Checkpoint, Being, Downloadable
    <3>3. QED
      BY <1>8, <3>1, <3>2, CarriesRows
  <2>5. ASSUME NEW p \in Downloadable, p \in Planned, status'[p] = "CHECKPOINTED"
        PROVE  proton'[p] = listing[p]
    <3>1. status[p] = "CHECKPOINTED" => proton[p] = listing[p]
      BY <1>0, <2>1, <2>5 DEF ListedHasRow
    <3>2. QED
      BY <1>8, <2>5, <3>1, RecordedStays DEF Downloadable
  <2>6. QED
    BY <1>0, <2>1, <2>2, <2>3, <2>4, <2>5 DEF ListedHasRow
<1>9. CASE EndBatches
  <2>1. /\ pc = "next" /\ pc' = "trash" /\ remaining' = Left
        /\ UNCHANGED <<mirror, proton, listing, changed, status, deletion>>
    BY <1>9 DEF EndBatches, Goto
  <2>2. Batches \in Nat /\ batch \in Nat /\ Batching
    BY <1>0, <2>1, LeftType DEF InOrder, TypeOK, Batching, BatchStep
  <2>3. ASSUME remaining' = 0, NEW p \in Downloadable
        PROVE  \/ proton[p] = listing[p] \/ Counted(p)
               \/ proton[p] \in Oversized /\ p \notin changed
    <3>0. p \in Path
      BY DEF Downloadable
    <3>1. CASE p \in Planned
      <4>1. batch = Batches + 1
        BY <2>1, <2>2, <2>3 DEF Left
      <4>2. batchOf[p] \in 1..Batches
        BY <1>0, <2>2, <3>1 DEF Careful, Attempted
      <4>3. batchOf[p] < batch
        BY <2>2, <4>1, <4>2
      <4>4. status[p] \in SetAside \cup {"CHECKPOINTED"}
        BY <1>0, <2>2, <3>1, <4>3 DEF Steady, BatchesEnd
      <4>5. status[p] = "CHECKPOINTED" => proton[p] = listing[p]
        BY <1>0, <2>2, <2>3, <3>1 DEF ListedHasRow
      <4>6. QED
        BY <4>4, <4>5 DEF Counted, SetAside
    <3>2. CASE p \notin Planned /\ p \in changed
      BY <1>0, <2>2, <2>3, <3>2 DEF ListedHasRow, Counted
    <3>3. CASE p \notin changed
      <4>1. mirror[p] = listing[p]
        BY <1>0, <2>2, <2>3, <3>3 DEF ListedHasRow
      <4>2. Agrees(p)
        BY <1>0, <2>1, <3>0 DEF Steady, RowsAgree
      <4>3. QED
        BY <3>3, <4>1, <4>2 DEF Agrees
    <3>4. QED
      BY <3>1, <3>2, <3>3
  <2>4. Downloadable' = Downloadable /\ \A p \in Path : Counted(p)' = Counted(p)
    BY <2>1, Zenon DEF Downloadable, Counted
  <2>5. Whole' => remaining' = 0
    BY DEF Whole
  <2>6. pc' # "plan" /\ ~Batching'
    BY <2>1 DEF Batching, BatchStep
  <2>7. QED
    BY <2>1, <2>3, <2>4, <2>5, <2>6 DEF ListedHasRow, Downloadable
<1>10. CASE Removes \/ Walking
  <2>1. /\ Late /\ ~Batching' /\ pc' # "plan"
        /\ UNCHANGED <<listing, changed, status, failed, remaining>>
        /\ \A p \in Downloadable : proton'[p] = proton[p] /\ deletion'[p] = deletion[p]
    BY <1>10, LateMoves
  <2>2. Downloadable' = Downloadable
    BY <2>1, Zenon DEF Downloadable
  <2>3. Whole' => Whole
    BY <2>1 DEF Whole
  <2>4. \A p \in Downloadable : Counted(p) => Counted(p)'
    BY <2>1 DEF Counted
  <2>5. QED
    BY <1>0, <2>1, <2>2, <2>3, <2>4 DEF ListedHasRow
<1>11. CASE Reports
  <2>1. CASE EndRun
    BY <1>1, <2>1 DEF EndRun, Batching, BatchStep, Whole, Late
  <2>2. CASE /\ UNCHANGED <<mirror, proton, deltaVars, batchVars, lateVars, failed>>
             /\ pc' # "plan" /\ (Batching' => Batching) /\ (Whole' => Whole)
    <3>1. /\ Downloadable' = Downloadable /\ Planned' = Planned
          /\ \A p \in Path : Counted(p)' = Counted(p)
      BY <2>2, Zenon DEF Downloadable, Planned, Counted
    <3>2. QED
      BY <1>0, <2>2, <3>1 DEF ListedHasRow, Downloadable
  <2>3. QED
    BY <1>11, <2>1, <2>2, ReportMoves
<1>12. QED
  BY <1>0, <1>2, <1>3, <1>4, <1>5, <1>6, <1>7, <1>8, <1>9, <1>10, <1>11 DEF Inventories

\* Correct leaves a row or drops it.
LEMMA CorrectDrops ==
  ASSUME InOrder, Careful, Plainly, Correct, ~resumed, NEW p \in Path
  PROVE  \/ mirror'[p] = mirror[p]
         \/ mirror'[p] = Absent /\ mirror[p] # proton[p]
<1>1. PICK u \in SUBSET (IF MayLackDigest THEN Path ELSE {}) :
        mirror' = On(mirror, {q \in Recorded : ~Matches(q, u)}, Absent)
  BY Zenon DEF Correct
<1>2. CASE p \notin Recorded \/ Matches(p, u)
  BY <1>1, <1>2 DEF On, InOrder, TypeOK, Rows
<1>3. CASE p \in Recorded /\ ~Matches(p, u)
  <2>1. mirror'[p] = Absent
    BY <1>1, <1>3 DEF On, InOrder, TypeOK, Rows
  <2>2. walk.nodes[p] = proton[p]
    BY DEF Correct, Careful, WalkedNow, Plainly
  <2>3. proton[p] # Sizeless
    BY MirrorAssumption DEF InOrder, TypeOK, Rows
  <2>4. QED
    BY <1>3, <2>1, <2>2, <2>3 DEF Matches, Recorded
<1>4. QED
  BY <1>2, <1>3

LEMMA RowIsListedNext == ASSUME Plainly, Clean PROVE RowIsListed'
<1>0. /\ Steady /\ RowIsListed /\ InOrder /\ Careful
      /\ \/ Still \/ (\E p \in Path : HandUpload(p)) \/ Rollback \/ Raises
         \/ Inventories \/ Carries \/ EndBatches \/ Removes \/ Walking \/ Reports
  BY SteadyKinds DEF Clean, Steady
<1>1. ASSUME pc' \notin {"plan", "trash", "trashing", "strays"}, ~Batching', ~Whole' PROVE RowIsListed'
  BY <1>1 DEF RowIsListed
<1>2. CASE Still
  <2>1. UNCHANGED <<proton, mirror, reconciling, listing, deleted, deletion, strays, failed,
                    remaining, pc, after>>
    BY <1>2 DEF Still
  <2>2. /\ Downloadable' = Downloadable /\ Batching' = Batching /\ Whole' = Whole
        /\ Late' = Late
    BY <2>1, Zenon DEF Downloadable, Batching, Whole, Late
  <2>3. QED
    BY <1>0, <2>1, <2>2 DEF RowIsListed
<1>3. CASE (\E p \in Path : HandUpload(p)) \/ Rollback
  BY <1>1, <1>3 DEF HandUpload, Rollback, Batching, BatchStep, Whole, Late
<1>4. CASE Raises
  BY <1>1, <1>4 DEF Raises, Batching, BatchStep, Whole
<1>5. CASE (\E r \in BOOLEAN : StartRun(r)) \/ \E p \in Path : ListEntry(p)
  BY <1>1, <1>5 DEF StartRun, ListEntry, Goto, Batching, BatchStep, Whole, Late
<1>6. CASE Delta
  <2>1. /\ pc' = "plan" /\ deleted' = Recorded \ Downloadable /\ UNCHANGED <<mirror, listing>>
    BY <1>6 DEF Delta, Goto
  <2>2. QED
    BY <2>1 DEF RowIsListed, Recorded, Downloadable, Whole, Late
<1>7. CASE Plan
  <2>1. pc = "plan" /\ pc' = "next" /\ UNCHANGED <<mirror, listing, deleted>>
    BY <1>0, <1>7, Fits
  <2>2. QED
    BY <1>0, <2>1 DEF RowIsListed, Downloadable, Whole, Late
<1>8. CASE Carries
  <2>1. Batching /\ Batching' /\ UNCHANGED <<listing, deleted>>
    BY <1>8, SteadyMoves
  <2>2. Downloadable' = Downloadable
    BY <2>1, Zenon DEF Downloadable
  <2>3. ~Whole' /\ pc' # "strays"
    BY <2>1 DEF Batching, BatchStep, Whole, Late
  <2>4. ASSUME NEW p \in Path \ Downloadable PROVE mirror'[p] = mirror[p]
    <3>1. p \notin Being("CONFIRMED")
      BY <1>0, <2>4 DEF InOrder, PlansListed, Being
    <3>2. Checkpoint => mirror'[p] = mirror[p]
      BY <3>1 DEF Checkpoint
    <3>3. QED
      BY <1>8, <3>2, CarriesRows
  <2>5. QED
    BY <1>0, <2>1, <2>2, <2>3, <2>4 DEF RowIsListed
<1>9. CASE EndBatches
  <2>1. pc = "next" /\ pc' = "trash" /\ UNCHANGED <<mirror, listing, deleted>>
    BY <1>9 DEF EndBatches, Goto
  <2>2. Batching
    BY <2>1 DEF Batching, BatchStep
  <2>3. QED
    BY <1>0, <2>1, <2>2 DEF RowIsListed, Downloadable, Late
<1>10. CASE SkipTrash
  <2>1. /\ pc = "trash" /\ pc' = "reconcile" /\ UNCHANGED <<mirror, listing, deleted, remaining>>
        /\ remaining # 0 \/ deleted = {}
    BY <1>10 DEF SkipTrash, Goto
  <2>2. QED
    BY <1>0, <2>1 DEF RowIsListed, Downloadable, Batching, BatchStep, Whole, Late
<1>11. CASE StartTrash \/ \E d \in Folder \cup {Root} : TrashFolder(d)
  <2>1. pc \in {"trash", "trashing"} /\ pc' = "trashing" /\ UNCHANGED <<mirror, listing, deleted>>
    BY <1>11 DEF StartTrash, TrashFolder, Goto
  <2>2. QED
    BY <1>0, <2>1 DEF RowIsListed, Downloadable, Late
<1>12. CASE EndTrash
  <2>1. /\ pc = "trashing" /\ pc' = "put" /\ after' = "reconcile" /\ dirs = {}
        /\ UNCHANGED <<proton, listing, deleted, deletion>>
        /\ mirror' = On(mirror, {p \in deleted : deletion[p] \in {"TRASHED", "NOT_FOUND"}}, Absent)
    BY <1>12 DEF EndTrash, Push
  <2>2. ASSUME NEW p \in Path \ Downloadable
        PROVE  IF p \in deleted THEN proton[p] = Absent \/ deletion[p] = "LISTING_FAILED"
                                ELSE mirror'[p] = Absent
    <3>1. CASE p \in deleted
      <4>1. deletion[p] # "NONE"
        BY <1>0, <2>1, <2>2, <3>1 DEF Steady, Emptied
      <4>2. deletion[p] \in {"NONE", "TRASHED", "NOT_FOUND", "LISTING_FAILED"}
        BY <1>0, <2>2 DEF InOrder, TypeOK, DeleteStatus
      <4>3. deletion[p] \in {"TRASHED", "NOT_FOUND"} => proton[p] = Absent
        BY <1>0, <2>1, <2>2 DEF Careful, TrashedGone
      <4>4. QED
        BY <3>1, <4>1, <4>2, <4>3
    <3>2. CASE p \notin deleted
      <4>1. mirror[p] = Absent
        BY <1>0, <2>1, <2>2, <3>2 DEF RowIsListed
      <4>2. QED
        BY <1>0, <2>1, <2>2, <3>2, <4>1 DEF On, InOrder, TypeOK, Rows
    <3>3. QED
      BY <3>1, <3>2
  <2>3. QED
    BY <2>1, <2>2 DEF RowIsListed, Downloadable, Batching, BatchStep, Late
<1>13. CASE Walking
  <2>1. /\ Late /\ ~Batching' /\ UNCHANGED <<deltaVars, failed, remaining>>
        /\ pc' \notin {"plan", "trash", "trashing"} /\ pc \notin {"trash", "trashing"}
        /\ \A p \in Path : proton'[p] \in {proton[p], Absent}
    BY <1>13, LateMoves, SteadyMoves
  <2>2. UNCHANGED deletion /\ (UNCHANGED mirror \/ Correct)
    BY <1>13 DEF Walking, StartWalk, Correct, TrashStrays, ListFolder
  <2>3. Downloadable' = Downloadable /\ (Whole' => Whole)
    BY <2>1, Zenon DEF Downloadable, Whole
  <2>4. \A p \in Path : mirror'[p] \in {mirror[p], Absent}
    BY <1>0, <2>2, CorrectDrops DEF Steady, WalksEnd
  <2>5. ASSUME NEW p \in Path \ (Downloadable \cup deleted)
        PROVE  /\ pc' = "strays" /\ ~failed' => proton'[p] = Absent \/ p \in strays'
               /\ Whole' /\ ~Late' => proton'[p] = Absent
    <3>1. CASE Correct
      <4>1. pc' = "strays" /\ UNCHANGED <<proton, resumed>> /\ walk.pending = {}
            /\ strays' = {q \in Path : walk.nodes[q] # Absent} \ (Recorded \cup Downloadable)
            /\ pc \in {"walk", "walking"}
        BY <3>1 DEF Correct, Goto
      <4>2. walk.nodes[p] = proton[p]
        BY <1>0, <2>5, <4>1 DEF Careful, WalkedNow, Plainly, Steady, WalksEnd
      <4>3. remaining = 0 /\ Late
        BY <1>0, <4>1 DEF Careful, AllAttempted, Late
      <4>4. ~failed => mirror[p] = Absent
        BY <1>0, <2>5, <4>1, <4>3 DEF RowIsListed, Whole
      <4>5. ~failed => p \notin Recorded
        BY <4>4 DEF Recorded
      <4>6. QED
        BY <2>1, <2>5, <4>1, <4>2, <4>5 DEF Late
    <3>2. CASE TrashStrays
      <4>1. /\ pc = "strays" /\ proton' = Trashed(strays) /\ pc' # "strays"
        BY <3>2 DEF TrashStrays, Push
      <4>2. QED
        BY <1>0, <2>1, <2>5, <4>1 DEF RowIsListed, Trashed, On, InOrder, TypeOK, Rows, Whole
    <3>3. CASE StartWalk \/ \E d \in Folder \cup {Root} : ListFolder(d)
      BY <3>3 DEF StartWalk, ListFolder, Goto, Late
    <3>4. QED
      BY <1>13, <3>1, <3>2, <3>3 DEF Walking
  <2>6. QED
    BY <1>0, <2>1, <2>2, <2>3, <2>4, <2>5 DEF RowIsListed
<1>14. CASE Reports
  <2>1. CASE EndRun
    BY <1>1, <2>1 DEF EndRun, Batching, BatchStep, Whole, Late
  <2>2. CASE /\ UNCHANGED <<mirror, proton, deltaVars, batchVars, lateVars, failed>>
             /\ pc' \notin {"plan", "trashing", "trash", "strays"} /\ pc \notin {"trashing", "trash"}
             /\ (Batching' => Batching) /\ (Whole' => Whole)
             /\ Whole' /\ reconciling /\ ~Late' => ~Late
    <3>1. Downloadable' = Downloadable
      BY <2>2, Zenon DEF Downloadable
    <3>2. QED
      BY <1>0, <2>2, <3>1 DEF RowIsListed
  <2>3. QED
    BY <1>14, <2>1, <2>2, ReportMoves
<1>15. QED
  BY <1>0, <1>2, <1>3, <1>4, <1>5, <1>6, <1>7, <1>8, <1>9, <1>10, <1>11, <1>12, <1>13, <1>14
     DEF Inventories, Removes

LEMMA RowsAgreeNext == ASSUME Plainly, Clean PROVE RowsAgree'
<1>0. /\ Steady /\ RowsAgree /\ InOrder /\ Careful /\ Held
      /\ \/ Still \/ (\E p \in Path : HandUpload(p)) \/ Rollback \/ Raises
         \/ Inventories \/ Carries \/ EndBatches \/ Removes \/ Walking \/ Reports
  BY SteadyKinds DEF Clean, Steady
<1>1. ASSUME \A p \in Path : Agrees(p)', pc' # "idle", pc' # "confirm" PROVE RowsAgree'
  BY <1>1 DEF RowsAgree
<1>2. ASSUME UNCHANGED <<mirror, proton>>, pc' # "idle", pc' # "confirm",
             pc \notin {"idle", "confirm", "merge", "trashing"}
      PROVE  RowsAgree'
  BY <1>0, <1>1, <1>2 DEF RowsAgree, Agrees
<1>3. CASE Still
  <2>1. UNCHANGED <<mirror, proton, canon, pc, deleted, deletion, batchOf, batch, status, summary>>
    BY <1>3 DEF Still
  <2>2. Being("VERIFIED")' = Being("VERIFIED") /\ Being("CONFIRMED")' = Being("CONFIRMED")
    BY <2>1, Zenon DEF Being, Planned
  <2>3. \A p \in Path : Agrees(p)' = Agrees(p) /\ Rowed' = Rowed
    BY <2>1, Zenon DEF Agrees, Rowed
  <2>4. \A o : Explains(o)' = Explains(o)
    BY <2>1, Zenon DEF Explains
  <2>5. QED
    BY <1>0, <2>1, <2>2, <2>3, <2>4, Zenon DEF RowsAgree
<1>4. ASSUME NEW q \in Path, HandUpload(q) PROVE RowsAgree'
  <2>1. /\ pc = "idle" /\ pc' = "idle" /\ UNCHANGED canon /\ dropbox[q] \in Oversized
        /\ proton' = [proton EXCEPT ![q] = dropbox[q]]
    BY <1>4 DEF HandUpload
  <2>2. Rowed' = Rowed
    BY <2>1 DEF Rowed
  <2>3. \A p \in Path : Rowed[p] = proton'[p] \/ proton'[p] \in Oversized
    BY <1>0, <2>1 DEF RowsAgree, InOrder, TypeOK, Rows
  <2>4. QED
    BY <2>1, <2>2, <2>3 DEF RowsAgree
<1>5. CASE Rollback
  BY <1>0, <1>5 DEF Rollback, Steady, WalksEnd
<1>6. CASE Raises
  BY <1>2, <1>6 DEF Raises
<1>7. ASSUME NEW r \in BOOLEAN, StartRun(r) PROVE RowsAgree'
  <2>1. pc = "idle" /\ pc' = "inventory" /\ mirror' = Rowed /\ proton' = proton
    BY <1>7 DEF StartRun, Goto, Rowed
  <2>2. QED
    BY <1>0, <1>1, <2>1 DEF RowsAgree, Agrees
<1>8. CASE (\E p \in Path : ListEntry(p)) \/ Delta \/ Plan \/ EndBatches
  BY <1>2, <1>8, Zenon DEF ListEntry, Delta, Plan, EndBatches, Goto
<1>9. CASE StartBatch \/ Verify \/ (Landed /\ pc' = "next")
  BY <1>2, <1>9 DEF StartBatch, Verify, Landed, Goto
<1>10. ASSUME NEW p \in Path, FetchItem(p) \/ FetchCorrupt(p) PROVE RowsAgree'
  BY <1>2, <1>10 DEF FetchItem, FetchCorrupt
<1>11. CASE SkipUpload
  BY <1>2, <1>11 DEF SkipUpload, Goto
<1>12. CASE Upload
  <2>1. PICK o \in Outcomes(Being("VERIFIED")) : \E detail \in [o.refused -> Details] :
           proton' = Lands(o.sent) /\ summary' = Printed(o, detail)
    BY <1>12, Zenon DEF Upload
  <2>2. pc = "upload" /\ pc' = "confirm" /\ UNCHANGED <<mirror, batchOf, batch, status>>
    BY <1>12 DEF Upload, Goto
  <2>3. Being("VERIFIED")' = Being("VERIFIED")
    BY <2>2, Zenon DEF Being, Planned
  <2>4. Explains(o)'
    BY <2>1, Zenon DEF Explains
  <2>5. ASSUME NEW p \in Path \ o.sent PROVE Agrees(p)'
    <3>1. proton'[p] = proton[p]
      BY <2>1, <2>5 DEF Lands
    <3>2. QED
      BY <1>0, <2>2, <2>5, <3>1 DEF RowsAgree, Agrees
  <2>6. o \in Outcomes(Being("VERIFIED"))'
    BY <2>3 DEF Outcomes, Staging
  <2>7. QED
    BY <2>2, <2>4, <2>5, <2>6 DEF RowsAgree
<1>13. CASE Settle
  <2> DEFINE V == Being("VERIFIED")
  <2>1. PICK o \in Outcomes(V) : Explains(o) /\ \A p \in Path \ o.sent : Agrees(p)
    BY <1>0, <1>13, Zenon DEF Settle, RowsAgree
  <2>2. /\ pc' = "merge" /\ UNCHANGED <<mirror, proton, batchOf, batch>>
        /\ status' = [p \in Path |-> IF p \in V THEN Verdict(V, Staging(V), summary)[p]
                                     ELSE status[p]]
    BY <1>13 DEF Settle, Goto
  <2>3. V \subseteq Path /\ o.sent \cap Path \subseteq V
    BY MirrorAssumption, ItemAssumption DEF Outcomes, Staging, Being, Planned, Item
  <2>4. ASSUME NEW p \in Path \cap o.sent PROVE p \in Being("CONFIRMED")'
    <3>1. p \in V
      BY <2>3
    <3>2. status'[p] = "CONFIRMED"
      BY <2>1, <2>2, <2>3, <3>1, SentIsConfirmed
    <3>3. QED
      BY <2>2, <3>1, <3>2 DEF Being, Planned
  <2>5. \A p \in Path \ Being("CONFIRMED")' : Agrees(p)'
    BY <2>1, <2>2, <2>4 DEF Agrees
  <2>6. QED
    BY <2>2, <2>5 DEF RowsAgree
<1>14. CASE Checkpoint
  <2>1. /\ pc = "merge" /\ pc' = "put" /\ UNCHANGED proton
        /\ mirror' = [p \in Path |-> IF p \in Being("CONFIRMED") THEN listing[p] ELSE mirror[p]]
    BY <1>14 DEF Checkpoint, Push
  <2>2. ASSUME NEW p \in Path PROVE Agrees(p)'
    BY <1>0, <2>1 DEF RowsAgree, Agrees, Held
  <2>3. QED
    BY <1>1, <2>1, <2>2
<1>15. CASE SkipTrash \/ SkipReconcile \/ StartWalk \/ Report
  BY <1>2, <1>15 DEF SkipTrash, SkipReconcile, StartWalk, Report, Goto, Push
<1>16. CASE StartTrash
  BY <1>2, <1>16 DEF StartTrash, Goto
<1>17. ASSUME NEW d \in Folder \cup {Root}, TrashFolder(d) PROVE RowsAgree'
  <2>1. /\ pc = "trashing" /\ pc' = pc /\ d \in dirs /\ proton' = Trashed(Found(d))
        /\ UNCHANGED <<mirror, deleted>>
        /\ deletion' = [p \in Path |-> CASE p \in Found(d) -> "TRASHED"
                                         [] p \in Group(d) \ Found(d) -> "NOT_FOUND"
                                         [] OTHER -> deletion[p]]
    BY <1>17 DEF TrashFolder
  <2>2. ASSUME NEW p \in Path
        PROVE  Agrees(p)' \/ (p \in deleted' /\ deletion'[p] = "TRASHED")
    <3>1. CASE p \in Found(d)
      BY <2>1, <3>1 DEF Found, Group
    <3>2. CASE p \notin Found(d)
      <4>1. Agrees(p)' = Agrees(p)
        BY <1>0, <2>1, <3>2 DEF Agrees, Trashed, On, InOrder, TypeOK, Rows
      <4>2. deletion[p] = "TRASHED" => p \notin Group(d)
        BY <1>0, <2>1 DEF Steady, Emptied, Group
      <4>3. deletion[p] = "TRASHED" => deletion'[p] = "TRASHED"
        BY <2>1, <3>2, <4>2
      <4>4. QED
        BY <1>0, <2>1, <4>1, <4>3 DEF RowsAgree
    <3>3. QED
      BY <3>1, <3>2
  <2>3. QED
    BY <2>1, <2>2 DEF RowsAgree
<1>18. CASE EndTrash
  <2>1. /\ pc = "trashing" /\ pc' = "put" /\ UNCHANGED proton
        /\ mirror' = On(mirror, {p \in deleted : deletion[p] \in {"TRASHED", "NOT_FOUND"}}, Absent)
    BY <1>18 DEF EndTrash, Push
  <2>2. ASSUME NEW p \in Path PROVE Agrees(p)'
    <3>1. CASE p \in deleted /\ deletion[p] \in {"TRASHED", "NOT_FOUND"}
      <4>1. proton[p] = Absent
        BY <1>0, <2>1, <3>1 DEF Careful, TrashedGone
      <4>2. mirror'[p] = Absent
        BY <1>0, <2>1, <3>1 DEF On, InOrder, TypeOK, Rows
      <4>3. QED
        BY <2>1, <4>1, <4>2 DEF Agrees
    <3>2. CASE ~(p \in deleted /\ deletion[p] \in {"TRASHED", "NOT_FOUND"})
      <4>1. Agrees(p)
        BY <1>0, <2>1, <3>2 DEF RowsAgree
      <4>2. mirror'[p] = mirror[p]
        BY <1>0, <2>1, <3>2 DEF On, InOrder, TypeOK, Rows
      <4>3. QED
        BY <2>1, <4>1, <4>2 DEF Agrees
    <3>3. QED
      BY <3>1, <3>2
  <2>3. QED
    BY <1>1, <2>1, <2>2
<1>19. ASSUME NEW d \in Folder \cup {Root}, ListFolder(d) PROVE RowsAgree'
  BY <1>2, <1>19 DEF ListFolder, Goto
<1>20. CASE Correct
  <2>1. pc \in {"walk", "walking"} /\ pc' = "strays" /\ UNCHANGED proton
    BY <1>20 DEF Correct, Goto
  <2>2. ASSUME NEW p \in Path PROVE Agrees(p)'
    <3>1. mirror'[p] = mirror[p] \/ mirror[p] # proton[p]
      BY <1>0, <1>20, CorrectDrops DEF Steady, WalksEnd
    <3>2. Agrees(p)
      BY <1>0, <2>1 DEF RowsAgree
    <3>3. QED
      BY <2>1, <3>1, <3>2 DEF Agrees
  <2>3. QED
    BY <1>1, <2>1, <2>2
<1>21. CASE TrashStrays
  <2>1. pc = "strays" /\ pc' = "put" /\ UNCHANGED mirror /\ proton' = Trashed(strays)
    BY <1>21 DEF TrashStrays, Push
  <2>2. ASSUME NEW p \in Path PROVE Agrees(p)'
    <3>1. p \in strays => mirror[p] = Absent
      BY <1>0, <2>1 DEF Steady, Emptied
    <3>2. Agrees(p)
      BY <1>0, <2>1 DEF RowsAgree
    <3>3. proton'[p] = IF p \in strays THEN Absent ELSE proton[p]
      BY <1>0, <2>1 DEF Trashed, On, InOrder, TypeOK, Rows
    <3>4. QED
      BY <2>1, <3>1, <3>2, <3>3 DEF Agrees
  <2>3. QED
    BY <1>1, <2>1, <2>2
<1>22. CASE Put
  BY <1>2, <1>22 DEF Put, Goto
<1>23. CASE Copy
  <2>1. CASE after = "idle"
    <3>1. pc' = "idle" /\ pc = "copy" /\ canon' = history /\ proton' = proton
      BY <1>23, <2>1 DEF Copy, EndRun
    <3>2. history = Image
      BY <1>0, <3>1 DEF InOrder, Durable
    <3>3. canon' # NoImage /\ canon'.mirror = mirror
      <4>1. Image \in Images
        BY <1>0 DEF InOrder, TypeOK, Image, Images
      <4>2. QED
        BY <3>1, <3>2, <4>1, MirrorAssumption DEF Image
    <3>4. Rowed' = mirror
      BY <3>1, <3>3 DEF Rowed
    <3>5. QED
      BY <1>0, <3>1, <3>4 DEF RowsAgree, Agrees
  <2>2. CASE after # "idle"
    <3>1. UNCHANGED <<mirror, proton>> /\ pc = "copy" /\ pc' = after
      BY <1>23, <2>2 DEF Copy, Goto
    <3>2. after \in {"landed", "reconcile", "report"}
      BY <1>0, <2>2 DEF InOrder, TypeOK
    <3>3. QED
      BY <1>2, <3>1, <3>2
  <2>3. QED
    BY <2>1, <2>2
<1>24. QED
  BY <1>0, <1>3, <1>4, <1>5, <1>6, <1>7, <1>8, <1>9, <1>10, <1>11, <1>12, <1>13, <1>14, <1>15,
     <1>16, <1>17, <1>18, <1>19, <1>20, <1>21, <1>22, <1>23
     DEF Inventories, Carries, Removes, Walking, Reports
-----------------------------------------------------------------------------
\* While no fault has come, rows and Proton differ only by what is under way, no walk is left
\* to a later run, each batch comes to an end for each of its files, and every file listed or
\* recorded is accounted for.
THEOREM RunsAreSteady ==
  ASSUME Plainly
  PROVE  Spec => [](InOrder /\ Careful /\ Held /\ (faults = 0 => Steady))
<1> DEFINE Inv == InOrder /\ Careful /\ Held /\ (faults = 0 => Steady)
<1>0. "nameless" \notin Details
  BY DEF Plainly
<1>1. Init => Inv
  BY InOrderInit, CarefulInit, SteadyInit, Zenon DEF Init, Held
<1>2. Inv /\ [Next]_vars => Inv'
  <2> SUFFICES ASSUME Inv, [Next]_vars PROVE Inv'
    OBVIOUS
  <2>1. InOrder'
    BY TypeNext, OrderNext, Zenon DEF InOrder, Order
  <2>2. Careful' /\ Held'
    BY <1>0, CarefulNext, HeldNext
  <2>3. ASSUME faults' = 0 PROVE Steady'
    <3>1. faults = 0
      BY <2>3, SteadyKinds
    <3>2. Clean
      BY <2>3, <3>1, Zenon DEF Clean
    <3>3. QED
      BY <3>2, RowsAgreeNext, WalksEndNext, EmptiedNext, BatchesEndNext, ListedHasRowNext,
         RowIsListedNext, Zenon DEF Steady
  <2>4. QED
    BY <2>1, <2>2, <2>3, Zenon
<1>3. QED
  BY <1>1, <1>2, PTL DEF Spec

\* mirror_objects is Proton's listing at every moment of every run without a fault, but for the
\* files of an upload or trash under way and the uploads made by hand, whatever is edited in
\* Dropbox meanwhile, refused by name or put off by the budget: while the CLI refuses no
\* directory, no two files share a basename, and no walk is stopped or lacks a size (Plainly).
THEOREM RowsAreProton == ASSUME Plainly PROVE Spec => []MirrorIsProton
<1>1. InOrder /\ Careful /\ Held /\ (faults = 0 => Steady) => MirrorIsProton
  <2> SUFFICES ASSUME InOrder, faults = 0, RowsAgree, NEW p \in Path
               PROVE  Rowed[p] = proton[p] \/ InFlight(p) \/ proton[p] \in Oversized
    BY Zenon DEF Steady, MirrorIsProton
  <2>1. CASE pc = "idle"
    BY <2>1 DEF RowsAgree
  <2>2. CASE pc = "confirm"
    <3>1. PICK o \in Outcomes(Being("VERIFIED")) : \A q \in Path \ o.sent : Agrees(q)
      BY <2>2, Zenon DEF RowsAgree
    <3>2. p \in o.sent => p \in Being("VERIFIED")
      BY MirrorAssumption, ItemAssumption DEF Outcomes, Staging, Being, Planned, Item
    <3>3. QED
      BY <2>2, <3>1, <3>2 DEF Agrees, InFlight, Rowed
  <2>3. CASE pc \notin {"idle", "confirm"}
    BY <2>3 DEF RowsAgree, Agrees, InFlight, Rowed
  <2>4. QED
    BY <2>1, <2>2, <2>3
<1>2. QED
  BY <1>1, RunsAreSteady, PTL

\* README.md:6 "After each run Proton Drive holds what Dropbox held at listing time": when a
\* run in which no phase failed and no batch is left comes to its report, every file is in
\* Proton as it was listed and no other is, but for the files the run counts as set aside
\* and the uploads made by hand that it cannot see.  The CLI names what it refuses, refuses
\* no directory, no two files share a basename, and walks end and find every size (Plainly).
THEOREM HoldsTheListing == ASSUME Plainly PROVE Spec => [](faults = 0 => RunHoldsListing)
<1>1. InOrder /\ Careful /\ Held /\ (faults = 0 => Steady) => (faults = 0 => RunHoldsListing)
  <2> SUFFICES ASSUME InOrder, Careful, Steady, pc = "report", ~failed, remaining = 0, NEW p \in Path
               PROVE  \/ proton[p] = IF listing[p] \in Content THEN listing[p] ELSE Absent
                      \/ Counted(p) \/ UnseenHandUpload(p)
    BY Zenon DEF RunHoldsListing
  <2>1. Whole /\ ~Late
    BY DEF Whole, Late
  <2>2. Agrees(p)
    BY DEF Steady, RowsAgree
  <2>3. CASE p \in Downloadable
    <3>1. p \notin deleted /\ listing[p] \in Content
      BY <2>3 DEF Careful, Doomed, Downloadable
    <3>2. \/ proton[p] = listing[p] \/ Counted(p)
          \/ proton[p] \in Oversized /\ p \notin changed
      BY <2>1, <2>3 DEF Steady, ListedHasRow
    <3>3. QED
      BY <2>3, <3>1, <3>2 DEF UnseenHandUpload
  <2>4. CASE p \notin Downloadable
    <3>1. p \notin changed /\ listing[p] \notin Content
      BY <2>4 DEF InOrder, PlansListed, Downloadable
    <3>2. CASE p \in deleted
      BY <2>1, <2>4, <3>1, <3>2 DEF Steady, RowIsListed, Counted
    <3>3. CASE p \notin deleted
      <4>1. mirror[p] = Absent /\ (reconciling => proton[p] = Absent)
        BY <2>1, <2>4, <3>3 DEF Steady, RowIsListed
      <4>2. QED
        BY <2>2, <3>1, <3>3, <4>1 DEF Agrees, UnseenHandUpload
    <3>4. QED
      BY <3>2, <3>3
  <2>5. QED
    BY <2>3, <2>4
<1>2. QED
  BY <1>1, RunsAreSteady, PTL
=============================================================================
