---------------------------- MODULE MirrorProofs ----------------------------
(***************************************************************************)
(* Proofs about Mirror, for every value of its constants.                  *)
(***************************************************************************)
EXTENDS MirrorProperties, TLAPS, FiniteSetTheorems

LEMMA TypeInit == Init => TypeOK
<1> SUFFICES ASSUME Init PROVE TypeOK
  OBVIOUS
<1>1. dropbox \in Rows(Content \cup {Opaque}) /\ proton \in Rows(Content)
  BY DEF Init, Rows, NoRows
<1>2. mirror \in Rows(Content) /\ walk \in Walks
  BY DEF Init, Rows, NoRows, Walks, NoWalk
<1>3. /\ listing \in Rows(Content \cup {Opaque, Unlisted})
      /\ staged \in Rows(Content \cup {Opaque})
      /\ batchOf \in [Path -> Nat] /\ status \in [Path -> ItemStatus]
      /\ deletion \in [Path -> DeleteStatus]
  BY DEF Init, Rows, NoRows, ItemStatus, DeleteStatus
<1>4. pc \in Step /\ after \in {"landed", "reconcile", "report", "idle"} /\ remaining \in Int
  BY DEF Init, Step
<1>5. QED
  BY <1>1, <1>2, <1>3, <1>4, Zenon DEF Init, TypeOK

\* What a phase that ends the run leaves behind has the types of a fresh one.
LEMMA EndRunTypes ==
  ASSUME EndRun
  PROVE  /\ mirror' \in Rows(Content) /\ walk' \in Walks
         /\ reconciling' \in BOOLEAN
         /\ listing' \in Rows(Content \cup {Opaque, Unlisted})
         /\ changed' \subseteq Path /\ deleted' \subseteq Path
         /\ batchOf' \in [Path -> Nat] /\ batch' \in Nat
         /\ status' \in [Path -> ItemStatus]
         /\ staged' \in Rows(Content \cup {Opaque})
         /\ summary' \in Summary \cup {NoSummary}
         /\ remaining' \in Int
         /\ dirs' \subseteq Folder \cup {Root} /\ deletion' \in [Path -> DeleteStatus]
         /\ strays' \subseteq Path /\ resumed' \in BOOLEAN
         /\ failed' \in BOOLEAN /\ after' = "idle" /\ pc' = "idle"
<1>1. /\ mirror' \in Rows(Content) /\ walk' \in Walks
      /\ listing' \in Rows(Content \cup {Opaque, Unlisted})
      /\ staged' \in Rows(Content \cup {Opaque})
  BY DEF EndRun, Rows, NoRows, NoWalk, Walks
<1>2. /\ batchOf' \in [Path -> Nat] /\ status' \in [Path -> ItemStatus]
      /\ deletion' \in [Path -> DeleteStatus]
  BY DEF EndRun, ItemStatus, DeleteStatus
<1>3. remaining' \in Int /\ batch' \in Nat
  BY DEF EndRun
<1>4. QED
  BY <1>1, <1>2, <1>3, Zenon DEF EndRun

\* Overwriting part of a table keeps its type.
LEMMA OnType ==
  ASSUME NEW T, NEW f \in [Path -> T], NEW S, NEW v \in T
  PROVE  On(f, S, v) \in [Path -> T]
BY DEF On

LEMMA LeftType ==
  ASSUME TypeOK
  PROVE  Batches \in Nat /\ Left \in Int
<1> DEFINE f == [p \in Planned |-> batchOf[p]]
           N == {batchOf[p] : p \in Planned}
<1>1. IsFiniteSet(Planned)
  BY ItemAssumption, FS_Subset DEF Planned
<1>2. f \in Surjection(Planned, N)
  BY DEF Surjection
<1>3. IsFiniteSet(N)
  BY <1>1, <1>2, FS_Surjection
<1>4. Batches \in Nat
  BY <1>3, FS_CardinalityType DEF Batches
<1>5. QED
  BY <1>4 DEF Left, TypeOK

USE DEF cloud, bucket, spent, database, deltaVars, batchVars, lateVars

LEMMA Steps ==
  /\ "next" \in Step /\ "fetch" \in Step /\ "verify" \in Step /\ "upload" \in Step
  /\ "confirm" \in Step /\ "merge" \in Step /\ "landed" \in Step /\ "idle" \in Step
  /\ "inventory" \in Step /\ "delta" \in Step /\ "plan" \in Step /\ "trash" \in Step
  /\ "trashing" \in Step /\ "reconcile" \in Step /\ "walk" \in Step
  /\ "walking" \in Step /\ "strays" \in Step /\ "report" \in Step /\ "put" \in Step
  /\ "copy" \in Step
BY DEF Step, BatchStep

LEMMA FaultType ==
  ASSUME TypeOK, Fault
  PROVE  faults' \in Nat
BY DEF TypeOK, Fault

LEMMA GotoTypes ==
  ASSUME TypeOK, NEW s \in Step, Goto(s)
  PROVE  pc' \in Step /\ failed' \in BOOLEAN /\ after' \in {"landed", "reconcile", "report", "idle"}
BY Zenon DEF TypeOK, Goto

LEMMA HaltTypes ==
  ASSUME TypeOK, Halt
  PROVE  pc' \in Step /\ failed' \in BOOLEAN /\ after' \in {"landed", "reconcile", "report", "idle"}
<1>1. "report" \in Step
  BY DEF Step
<1>2. QED
  BY <1>1, Zenon DEF TypeOK, Halt

LEMMA PushTypes ==
  ASSUME TypeOK, NEW r \in {"landed", "reconcile", "report", "idle"}, Push(r)
  PROVE  pc' \in Step /\ failed' \in BOOLEAN /\ after' \in {"landed", "reconcile", "report", "idle"}
<1>1. "put" \in Step
  BY DEF Step
<1>2. QED
  BY <1>1, Zenon DEF TypeOK, Push

LEMMA UploadTypes ==
  ASSUME TypeOK, StepsInOrder, PlansListed, Upload
  PROVE  proton' \in Rows(Content) /\ refusals' \in Nat /\ summary' \in Summary
<1> DEFINE V == Being("VERIFIED")
<1>1. PICK o \in Outcomes(V) : \E detail \in [o.refused -> Details] :
         /\ refusals' = refusals + Cardinality(o.refused)
         /\ proton' = Lands(o.sent)
         /\ summary' = Printed(o, detail)
  BY Zenon DEF Upload
<1>2. PICK detail \in [o.refused -> Details] :
         /\ refusals' = refusals + Cardinality(o.refused)
         /\ proton' = Lands(o.sent)
         /\ summary' = Printed(o, detail)
  BY <1>1
<1>3. /\ V \subseteq Path /\ Staging(V) \subseteq Folder
      /\ o.sent \subseteq V \cup Staging(V) /\ o.refused \subseteq V \cup Staging(V)
  BY MirrorAssumption DEF Outcomes, Being, Planned, Staging, Item
<1>4. /\ IsFiniteSet(o.sent) /\ IsFiniteSet(o.refused)
      /\ o.refused \subseteq Item
  <2>1. IsFiniteSet(Path \cup Folder)
    BY ItemAssumption, FS_Union
  <2>2. QED
    BY <1>3, <2>1, FS_Subset DEF Item
<1>5. Cardinality(o.sent) \in Nat /\ Cardinality(o.refused) \in Nat
  BY <1>4, FS_CardinalityType
<1>6. refusals' \in Nat
  BY <1>2, <1>5 DEF TypeOK
<1>7. summary' \in Summary
  <2> DEFINE named == {j \in o.refused : detail[j] # "missing"}
             f == [i \in named |-> IF detail[i] = "named" THEN Base[i] ELSE NoName]
  <2>1. named \in SUBSET Item
    BY <1>4
  <2>2. f \in [named -> Name \cup {NoName}]
    BY <2>1 DEF Name
  <2>3. f \in UNION {[X -> Name \cup {NoName}] : X \in SUBSET Item}
    BY <2>1, <2>2, Zenon
  <2>4. summary' = [landed |-> Cardinality(o.sent), failed |-> Cardinality(o.refused),
                    failures |-> f]
    BY <1>2, Zenon DEF Printed
  <2>5. QED
    BY <2>3, <2>4, <1>5 DEF Summary
<1>8. proton' \in Rows(Content)
  <2>1. ASSUME NEW p \in o.sent \cap Path PROVE staged[p] \in Content
    <3>1. p \in V
      BY <1>3, ItemAssumption
    <3>2. staged[p] = listing[p] /\ p \in Planned
      BY <3>1 DEF StepsInOrder, Being, Upload
    <3>3. QED
      BY <3>2 DEF PlansListed, Downloadable
  <2>2. QED
    BY <1>2, <2>1 DEF Lands, TypeOK, Rows
<1>9. QED
  BY <1>6, <1>7, <1>8

\* What the walk finds in a folder: what Proton holds there, or a file without its size.
LEMMA ListsFolder ==
  ASSUME TypeOK, NEW d \in Folder \cup {Root}, ListFolder(d)
  PROVE  /\ walk' = [walk EXCEPT !.pending = walk.pending \ {d}, !.nodes = walk'.nodes]
         /\ walk'.nodes \in Rows(Content \cup {Sizeless})
         /\ \A p \in Path :
              IF Home[p] # d THEN walk'.nodes[p] = walk.nodes[p]
              ELSE \/ walk'.nodes[p] = proton[p]
                   \/ MayLackSize /\ walk'.nodes[p] = Sizeless /\ proton[p] # Absent
<1>1. PICK sizeless \in SUBSET (IF MayLackSize THEN {p \in Path : proton[p] # Absent} ELSE {}) :
        walk' = [walk EXCEPT
          !.pending = @ \ {d},
          !.nodes = [p \in Path |-> IF Home[p] # d THEN @[p]
                                    ELSE IF p \in sizeless THEN Sizeless ELSE proton[p]]]
  BY DEF ListFolder
<1> DEFINE nodes == [p \in Path |-> IF Home[p] # d THEN walk.nodes[p]
                                    ELSE IF p \in sizeless THEN Sizeless ELSE proton[p]]
<1>2. walk \in Walks /\ proton \in Rows(Content)
  BY DEF TypeOK
<1>3. nodes \in Rows(Content \cup {Sizeless})
  BY <1>2 DEF Walks, Rows
<1>4. walk' = [walk EXCEPT !.pending = walk.pending \ {d}, !.nodes = nodes]
  BY <1>1, <1>2 DEF Walks
<1>5. walk'.nodes = nodes
  BY <1>2, <1>4 DEF Walks
<1>6. QED
  BY <1>3, <1>4, <1>5

LEMMA TypeNext == InOrder /\ [Next]_vars => TypeOK'
<1> SUFFICES ASSUME TypeOK, PlansListed, StepsInOrder, Durable, [Next]_vars PROVE TypeOK'
  BY DEF InOrder
<1> USE DEF TypeOK
<1>1. CASE UNCHANGED vars
  BY <1>1, Zenon DEF vars
<1>2. ASSUME NEW p \in Path, NEW v \in EditValues[p], Edit(p, v) PROVE TypeOK'
  <2>1. v \in Content \cup {Opaque, Absent}
    BY MirrorAssumption
  <2>2. dropbox' \in Rows(Content \cup {Opaque}) /\ edits' \in Nat
    BY <1>2, <2>1 DEF Edit, Rows
  <2>3. QED
    BY <1>2, <2>2, Zenon DEF Edit
<1>3. ASSUME NEW p \in Path, HandUpload(p) PROVE TypeOK'
  <2>1. dropbox[p] \in Content
    BY <1>3, MirrorAssumption DEF HandUpload
  <2>2. proton' \in Rows(Content)
    BY <1>3, <2>1 DEF HandUpload, Rows
  <2>3. QED
    BY <1>3, <2>2, Zenon DEF HandUpload
<1>4. CASE Rollback
  BY <1>4, Zenon DEF Rollback
<1>5. CASE Crash
  <2>1. faults' \in Nat
    BY <1>5, FaultType DEF Crash
  <2>2. pc' \in Step /\ after' \in {"landed", "reconcile", "report", "idle"}
    BY <1>5 DEF Crash, EndRun, Step
  <2>3. EndRun /\ UNCHANGED <<cloud, bucket, edits, refusals>>
    BY <1>5, Zenon DEF Crash
  <2>4. QED
    BY <2>1, <2>2, <2>3, EndRunTypes, Zenon
<1>6. ASSUME NEW r \in BOOLEAN, StartRun(r) PROVE TypeOK'
  <2>1. mirror' \in Rows(Content) /\ walk' \in Walks
    BY <1>6 DEF StartRun, Images, NoWalk, NoRows, Rows, Walks
  <2>2. pc' \in Step
    BY <1>6 DEF StartRun, Goto, Step
  <2>3. QED
    BY <1>6, <2>1, <2>2, Zenon DEF StartRun, Goto
<1>7. ASSUME NEW p \in Path, ListEntry(p) PROVE TypeOK'
  <2>1. listing' \in Rows(Content \cup {Opaque, Unlisted}) /\ pc' \in Step
    BY <1>7 DEF ListEntry, Rows, Step
  <2>2. QED
    BY <1>7, <2>1, Zenon DEF ListEntry
<1>8. CASE Delta
  <2>1. changed' \subseteq Path /\ deleted' \subseteq Path /\ pc' \in Step
    BY <1>8 DEF Delta, Goto, Recorded, Downloadable, Step
  <2>2. QED
    BY <1>8, <2>1, Zenon DEF Delta, Goto
<1>9. CASE RefuseListing
  <2>1. pc' \in Step /\ failed' \in BOOLEAN
    BY <1>9, HaltTypes DEF RefuseListing
  <2>2. QED
    BY <1>9, <2>1, Zenon DEF RefuseListing, Halt
<1>10. CASE Plan
  <2>1. batchOf' \in [Path -> Nat] /\ status' \in [Path -> ItemStatus]
    <3> DEFINE fits == {p \in changed : listing[p] \notin Oversized}
    <3>0. PICK n \in 0..Cardinality(fits) : \E number \in [fits -> 1..n] :
            /\ batchOf' = [p \in Path |-> IF p \in fits THEN number[p] ELSE 0]
            /\ status' = On(status, fits, "PLANNED")
      BY <1>10, Zenon DEF Plan
    <3>1. PICK number \in [fits -> 1..n] :
            /\ batchOf' = [p \in Path |-> IF p \in fits THEN number[p] ELSE 0]
            /\ status' = On(status, fits, "PLANNED")
      BY <3>0
    <3>2. fits \subseteq Path /\ IsFiniteSet(fits)
      BY ItemAssumption, FS_Subset
    <3>3. n \in Nat
      BY <3>2, FS_CardinalityType
    <3>4. batchOf' \in [Path -> Nat]
      BY <3>1, <3>3
    <3>5. "PLANNED" \in ItemStatus
      BY DEF ItemStatus
    <3>6. QED
      BY <3>1, <3>4, <3>5, OnType, Zenon
  <2>2. pc' \in Step
    BY <1>10, Steps, Zenon DEF Plan, Goto
  <2>3. QED
    BY <1>10, <2>1, <2>2, Zenon DEF Plan, Goto
<1>11. CASE EndBatches
  <2>1. remaining' \in Int /\ pc' \in Step
    BY <1>11, LeftType DEF EndBatches, Goto, Step
  <2>2. QED
    BY <1>11, <2>1, Zenon DEF EndBatches, Goto
<1>12. CASE StartBatch
  <2>1. NoRows \in Rows(Content \cup {Opaque})
    BY DEF NoRows, Rows
  <2>2. QED
    BY <1>12, <2>1, Steps, Zenon DEF StartBatch, Goto
<1>13. ASSUME NEW p \in Path, FetchItem(p) PROVE TypeOK'
  <2>1. staged' \in Rows(Content \cup {Opaque})
    BY <1>13 DEF FetchItem, Rows
  <2>2. status' \in [Path -> ItemStatus]
    BY <1>13 DEF FetchItem, ItemStatus
  <2>3. pc' \in Step
    BY <1>13, Steps, Zenon DEF FetchItem
  <2>4. QED
    BY <1>13, <2>1, <2>2, <2>3, Zenon DEF FetchItem
<1>14. ASSUME FailBatch, faults' \in Nat PROVE TypeOK'
  BY <1>14, LeftType, Steps, Zenon DEF FailBatch, Halt
<1>15. ASSUME NEW p \in Path, FetchFails(p) PROVE TypeOK'
  BY <1>14, <1>15, Zenon DEF FetchFails
<1>16. ASSUME NEW p \in Path, FetchCorrupt(p) PROVE TypeOK'
  <2>1. staged' \in Rows(Content \cup {Opaque})
    BY <1>16 DEF FetchCorrupt, Rows
  <2>2. status' \in [Path -> ItemStatus]
    BY <1>16 DEF FetchCorrupt, ItemStatus
  <2>3. pc' \in Step /\ faults' \in Nat
    BY <1>16, Steps, FaultType, Zenon DEF FetchCorrupt
  <2>4. QED
    BY <1>16, <2>1, <2>2, <2>3, Zenon DEF FetchCorrupt
<1>17. CASE Verify
  <2>1. status' \in [Path -> ItemStatus]
    BY <1>17 DEF Verify, ItemStatus
  <2>2. staged' \in Rows(Content \cup {Opaque})
    BY <1>17 DEF Verify, On, Rows
  <2>3. QED
    BY <1>17, <2>1, <2>2, Steps, Zenon DEF Verify, Goto
<1>18. CASE VerifyFails
  BY <1>14, <1>18, Zenon DEF VerifyFails
<1>19. CASE Upload
  BY <1>19, UploadTypes, Steps, Zenon DEF Upload, Goto
<1>20. CASE SkipUpload
  BY <1>20, Steps, Zenon DEF SkipUpload, Goto
<1>21. CASE UploadDies
  <2>1. PICK sent \in SUBSET Being("VERIFIED") : proton' = Lands(sent)
    BY <1>21, Zenon DEF UploadDies
  <2>2. proton' \in Rows(Content)
    <3>1. ASSUME NEW p \in sent PROVE staged[p] \in Content
      BY <1>21 DEF UploadDies, StepsInOrder, PlansListed, Downloadable, Being
    <3>2. QED
      BY <2>1, <3>1 DEF Lands, Rows
  <2>3. faults' \in Nat
    BY <1>21, FaultType, Zenon DEF UploadDies
  <2>4. QED
    BY <1>21, <2>2, <2>3, LeftType, Steps, Zenon DEF UploadDies, Halt
<1>22. CASE Settle
  <2>1. status' \in [Path -> ItemStatus]
    BY <1>22 DEF Settle, Verdict, ItemStatus
  <2>2. QED
    BY <1>22, <2>1, Steps, Zenon DEF Settle, Goto
<1>23. CASE Checkpoint
  <2>1. mirror' \in Rows(Content)
    BY <1>23 DEF Checkpoint, Rows, Being, PlansListed, Downloadable
  <2>2. "CHECKPOINTED" \in ItemStatus
    BY DEF ItemStatus
  <2>3. status' \in [Path -> ItemStatus]
    BY <1>23, <2>2, OnType, Zenon DEF Checkpoint
  <2>4. QED
    BY <1>23, <2>1, <2>3, Steps, Zenon DEF Checkpoint, Push
<1>24. CASE Landed
  <2>1. staged' \in Rows(Content \cup {Opaque})
    BY <1>24 DEF Landed, NoRows, Rows
  <2>2. batch' \in Nat
    BY <1>24 DEF Landed
  <2>3. remaining' \in Int
    BY <1>24, LeftType DEF Landed
  <2>4. pc' \in Step /\ failed' \in BOOLEAN /\ after' \in {"landed", "reconcile", "report", "idle"}
    BY <1>24, Steps, Zenon DEF Landed, Halt, Goto
  <2>5. QED
    BY <1>24, <2>1, <2>2, <2>3, <2>4, Zenon DEF Landed
<1>25. CASE SkipTrash
  BY <1>25, Steps, Zenon DEF SkipTrash, Goto
<1>26. CASE StartTrash
  <2>1. dirs' \subseteq Folder \cup {Root}
    BY <1>26, MirrorAssumption DEF StartTrash, Item
  <2>2. QED
    BY <1>26, <2>1, Steps, Zenon DEF StartTrash, Goto
<1>27. ASSUME NEW d \in Folder \cup {Root}, TrashFolder(d) PROVE TypeOK'
  <2>1. proton' \in Rows(Content) /\ dirs' \subseteq Folder \cup {Root}
    BY <1>27 DEF TrashFolder, Trashed, On, Rows
  <2>2. deletion' \in [Path -> DeleteStatus]
    BY <1>27 DEF TrashFolder, DeleteStatus
  <2>3. QED
    BY <1>27, <2>1, <2>2, Zenon DEF TrashFolder
<1>28. ASSUME NEW d \in Folder \cup {Root}, ListingFails(d) PROVE TypeOK'
  <2>1. dirs' \subseteq Folder \cup {Root} /\ faults' \in Nat
    BY <1>28, FaultType DEF ListingFails
  <2>2. deletion' \in [Path -> DeleteStatus]
    BY <1>28 DEF ListingFails, On, DeleteStatus
  <2>3. QED
    BY <1>28, <2>1, <2>2, Zenon DEF ListingFails
<1>29. ASSUME NEW d \in Folder \cup {Root}, TrashDies(d) PROVE TypeOK'
  <2>1. proton' \in Rows(Content)
    BY <1>29 DEF TrashDies, Trashed, On, Rows
  <2>2. faults' \in Nat
    BY <1>29, FaultType DEF TrashDies
  <2>3. QED
    BY <1>29, <2>1, <2>2, Steps, Zenon DEF TrashDies, Halt
<1>30. CASE EndTrash
  <2>1. mirror' \in Rows(Content)
    BY <1>30 DEF EndTrash, On, Rows
  <2>2. QED
    BY <1>30, <2>1, Steps, Zenon DEF EndTrash, Push
<1>31. CASE SkipReconcile
  BY <1>31, Steps, Zenon DEF SkipReconcile, Goto
<1>32. CASE StartWalk
  <2>1. walk' \in Walks
    BY <1>32 DEF StartWalk, Walks, NoRows, Rows
  <2>2. resumed' \in BOOLEAN
    BY <1>32 DEF StartWalk
  <2>3. QED
    BY <1>32, <2>1, <2>2, Steps, Zenon DEF StartWalk, Goto
<1>33. ASSUME NEW d \in Folder \cup {Root}, ListFolder(d) PROVE TypeOK'
  <2>0. /\ walk' = [walk EXCEPT !.pending = walk.pending \ {d}, !.nodes = walk'.nodes]
        /\ walk'.nodes \in Rows(Content \cup {Sizeless})
    BY <1>33, ListsFolder, Zenon
  <2>1. walk' \in Walks
    BY <2>0 DEF Walks
  <2>2. QED
    BY <1>33, <2>1, Steps, Zenon DEF ListFolder, Goto
<1>34. CASE StopWalk
  BY <1>34, Steps, Zenon DEF StopWalk, Push
<1>35. CASE Correct
  <2>1. mirror' \in Rows(Content) /\ strays' \subseteq Path
    BY <1>35 DEF Correct, On, Rows
  <2>2. walk' \in Walks
    BY <1>35 DEF Correct, Compared, Walks, NoRows, Rows
  <2>3. QED
    BY <1>35, <2>1, <2>2, Steps, Zenon DEF Correct, Goto
<1>36. CASE TrashStrays
  <2>1. proton' \in Rows(Content)
    BY <1>36 DEF TrashStrays, Trashed, On, Rows
  <2>2. QED
    BY <1>36, <2>1, Steps, Zenon DEF TrashStrays, Push
<1>37. CASE StraysDie
  <2>1. proton' \in Rows(Content)
    BY <1>37 DEF StraysDie, Trashed, On, Rows
  <2>2. faults' \in Nat
    BY <1>37, FaultType DEF StraysDie
  <2>3. QED
    BY <1>37, <2>1, <2>2, Steps, Zenon DEF StraysDie, Halt
<1>38. CASE Report
  BY <1>38, Steps, Zenon DEF Report, Push
<1>39. CASE Put
  <2>1. history' \in Images \cup {NoImage}
    BY <1>39 DEF Put, Image, Images
  <2>2. QED
    BY <1>39, <2>1, Steps, Zenon DEF Put, Goto
<1>40. ASSUME EndRun, dropbox' \in Rows(Content \cup {Opaque}), proton' \in Rows(Content),
              canon' \in Images \cup {NoImage}, history' \in Images \cup {NoImage},
              edits' \in Nat, faults' \in Nat, refusals' \in Nat
       PROVE TypeOK'
  BY <1>40, EndRunTypes, Steps, Zenon
<1>41. CASE Copy
  <2>1. CASE after = "idle"
    BY <1>41, <2>1, <1>40, Zenon DEF Copy
  <2>2. CASE after # "idle"
    <3>1. after \in Step
      BY Steps
    <3>2. QED
      BY <1>41, <2>2, <3>1, Zenon DEF Copy, Goto
  <2>3. QED
    BY <2>1, <2>2
<1>42. CASE PushFails
  <2>1. faults' \in Nat
    BY <1>42, FaultType DEF PushFails
  <2>2. CASE after = "idle"
    BY <1>42, <2>1, <2>2, <1>40, Zenon DEF PushFails
  <2>3. CASE after = "landed"
    <3>1. /\ remaining' = Left /\ Halt /\ UNCHANGED <<cloud, bucket, edits, refusals>>
          /\ UNCHANGED <<database, deltaVars, batchOf, batch, status, staged, summary,
                         lateVars>>
      BY <1>42, <2>3 DEF PushFails
    <3>2. QED
      BY <2>1, <3>1, LeftType, Steps, Zenon DEF Halt
  <2>4. CASE after \notin {"idle", "landed"}
    <3>1. /\ Halt /\ UNCHANGED <<cloud, bucket, edits, refusals>>
          /\ UNCHANGED <<database, deltaVars, batchVars, lateVars>>
      BY <1>42, <2>4 DEF PushFails
    <3>2. QED
      BY <2>1, <3>1, Steps, Zenon DEF Halt
  <2>5. QED
    BY <2>2, <2>3, <2>4
<1>43. CASE PhaseFails
  <2>1. faults' \in Nat
    BY <1>43, FaultType DEF PhaseFails
  <2>2. CASE FailBatch
    BY <1>14, <2>1, <2>2
  <2>3. CASE /\ Halt
             /\ UNCHANGED <<cloud, bucket, edits, refusals, database, deltaVars, batchVars,
                            lateVars>>
    BY <2>1, <2>3, Steps, Zenon DEF Halt
  <2>4. QED
    BY <1>43, <2>2, <2>3, Zenon DEF PhaseFails
<1>50. QED
  BY <1>1, <1>2, <1>3, <1>4, <1>5, <1>6, <1>7, <1>8, <1>9, <1>10, <1>11, <1>12, <1>13,
     <1>15, <1>16, <1>17, <1>18, <1>19, <1>20, <1>21, <1>22, <1>23, <1>24, <1>25, <1>26,
     <1>27, <1>28, <1>29, <1>30, <1>31, <1>32, <1>33, <1>34, <1>35, <1>36, <1>37, <1>38,
     <1>39, <1>41, <1>42, <1>43, Zenon DEF Next, Outside, Pipeline, Failure
\* The part of InOrder beyond the types.
Order == PlansListed /\ LaterWait /\ StepsInOrder /\ Durable

LEMMA OrderNext == InOrder /\ [Next]_vars => Order'
<1> SUFFICES ASSUME InOrder, [Next]_vars PROVE Order'
  OBVIOUS
<1> USE DEF InOrder, BatchStep
<1>1. ASSUME UNCHANGED <<listing, changed, batchOf, batch, status, staged, mirror, walk, canon,
                        history, pc, after>>
      PROVE  Order'
  BY <1>1 DEF Order, PlansListed, LaterWait, StepsInOrder, Durable, Batching, Planned, Being,
              Downloadable, Image
\* A step that leaves the batches alone and does not go on with them.
<1>2. ASSUME UNCHANGED <<listing, changed, batchOf, batch, status, staged>>,
             pc' \notin BatchStep \cup {"copy", "idle", "inventory"},
             pc' = "put" => after' # "landed"
      PROVE  Order'
  BY <1>2 DEF Order, PlansListed, LaterWait, StepsInOrder, Durable, Batching, Planned, Being,
              Downloadable
<1>3. ASSUME EndRun PROVE Order'
  BY <1>3 DEF Order, PlansListed, LaterWait, StepsInOrder, Durable, Batching, Planned, Being,
              Downloadable, EndRun
<1>4. CASE UNCHANGED vars
  BY <1>1, <1>4, Zenon DEF vars
<1>5. ASSUME NEW p \in Path, NEW v \in EditValues[p], Edit(p, v) PROVE Order'
  BY <1>1, <1>5, Zenon DEF Edit
<1>6. ASSUME NEW p \in Path, HandUpload(p) PROVE Order'
  BY <1>1, <1>6, Zenon DEF HandUpload
<1>7. CASE Rollback
  BY <1>7 DEF Rollback, Order, PlansListed, LaterWait, StepsInOrder, Durable, Batching, Planned,
              Being, Downloadable
<1>8. CASE Crash
  BY <1>3, <1>8, Zenon DEF Crash
<1>9. ASSUME NEW r \in BOOLEAN, StartRun(r) PROVE Order'
  BY <1>9 DEF StartRun, Goto, Order, PlansListed, LaterWait, StepsInOrder, Durable, Batching,
              Planned, Being, Downloadable
<1>10. ASSUME NEW p \in Path, ListEntry(p) PROVE Order'
  BY <1>10 DEF ListEntry, Order, PlansListed, LaterWait, StepsInOrder, Durable, Batching,
               Planned, Being, Downloadable
<1>11. CASE Delta
  BY <1>11 DEF Delta, Goto, Order, PlansListed, LaterWait, StepsInOrder, Durable, Batching,
               Planned, Being, Downloadable
<1>12. CASE RefuseListing
  BY <1>2, <1>12 DEF RefuseListing, Halt
<1>13. CASE Plan
  <2> DEFINE fits == {p \in changed : listing[p] \notin Oversized}
  <2>1. PICK n \in 0..Cardinality(fits) : \E number \in [fits -> 1..n] :
          /\ batchOf' = [p \in Path |-> IF p \in fits THEN number[p] ELSE 0]
          /\ status' = On(status, fits, "PLANNED")
    BY <1>13, Zenon DEF Plan
  <2>2. \A p \in Path : batchOf'[p] # 0 => p \in fits
    BY <2>1
  <2>3. Planned' \subseteq fits
    BY <2>2 DEF Planned
  <2>4. \A p \in Planned' : status'[p] = "PLANNED"
    BY <2>1, <2>3 DEF On, TypeOK
  <2>5. /\ pc' = "next" /\ pc = "plan"
        /\ UNCHANGED <<listing, changed, batch>>
    BY <1>13, Zenon DEF Plan, Goto
  <2>6. PlansListed'
    BY <2>3, <2>5 DEF PlansListed, Downloadable
  <2>7. QED
    BY <2>4, <2>5, <2>6 DEF Order, LaterWait, StepsInOrder, Durable
<1>14. CASE EndBatches
  BY <1>2, <1>14 DEF EndBatches, Goto
<1>15. CASE StartBatch
  <2>1. Being("VERIFIED") = {} /\ Being("CONFIRMED") = {}
    BY <1>15 DEF StartBatch, LaterWait, Batching, Being
  <2>2. QED
    BY <1>15, <2>1 DEF StartBatch, Goto, Order, PlansListed, LaterWait, StepsInOrder, Durable,
                       Batching, Planned, Being, Downloadable
<1>16. ASSUME NEW p \in Path, FetchItem(p) PROVE Order'
  BY <1>16 DEF FetchItem, Order, PlansListed, LaterWait, StepsInOrder, Durable, Batching,
               Planned, Being, Downloadable, TypeOK
<1>17. ASSUME FailBatch PROVE Order'
  BY <1>2, <1>17 DEF FailBatch, Halt
<1>18. ASSUME NEW p \in Path, FetchFails(p) PROVE Order'
  BY <1>17, <1>18 DEF FetchFails
<1>19. ASSUME NEW p \in Path, FetchCorrupt(p) PROVE Order'
  BY <1>19 DEF FetchCorrupt, Order, PlansListed, LaterWait, StepsInOrder, Durable, Batching,
               Planned, Being, Downloadable, TypeOK
<1>20. CASE Verify
  <2>1. /\ pc = "verify" /\ pc' = "upload"
        /\ UNCHANGED <<listing, changed, batchOf, batch, mirror, canon, history, walk>>
    BY <1>20, Zenon DEF Verify, Goto
  <2>2. \A p \in Path :
          \/ status'[p] = status[p] /\ p \notin Mismatched
          \/ p \in Being("FETCHED") /\ status'[p] = "HASH_MISMATCH"
          \/ p \in Being("FETCHED") /\ p \notin Mismatched /\ status'[p] = "VERIFIED"
    BY <1>20 DEF Verify, Mismatched
  <2>3. \A p \in Path : p \notin Mismatched => staged'[p] = staged[p]
    BY <1>20 DEF Verify, On, TypeOK, Rows
  <2>4. PlansListed'
    BY <2>1 DEF PlansListed, Planned, Downloadable
  <2>5. LaterWait'
    BY <2>1, <2>2 DEF LaterWait, Batching, Planned, Being
  <2>6. \A p \in Path : p \in Being("VERIFIED")' => staged'[p] = listing'[p]
    BY <2>1, <2>2, <2>3 DEF StepsInOrder, Being, Planned, Mismatched
  <2>7. Being("CONFIRMED")' = {}
    BY <2>1, <2>2 DEF StepsInOrder, Being, Planned
  <2>8. StepsInOrder'
    BY <2>1, <2>6, <2>7 DEF StepsInOrder, Being, Planned
  <2>9. Durable'
    BY <2>1, <2>2 DEF Durable, Batching, Planned
  <2>10. QED
    BY <2>4, <2>5, <2>8, <2>9 DEF Order
<1>21. CASE VerifyFails
  BY <1>17, <1>21 DEF VerifyFails
<1>22. CASE Upload
  BY <1>22, Zenon DEF Upload, Goto, Order, PlansListed, LaterWait, StepsInOrder, Durable,
               Batching, Planned, Being, Downloadable
<1>23. CASE SkipUpload
  BY <1>23 DEF SkipUpload, Goto, Order, PlansListed, LaterWait, StepsInOrder, Durable,
               Batching, Planned, Being, Downloadable
<1>24. CASE UploadDies
  BY <1>2, <1>24 DEF UploadDies, Halt
<1>25. CASE Settle
  BY <1>25 DEF Settle, Verdict, Goto, Order, PlansListed, LaterWait, StepsInOrder, Durable,
               Batching, Planned, Being, Downloadable, TypeOK
<1>26. CASE Checkpoint
  BY <1>26 DEF Checkpoint, Push, On, Order, PlansListed, LaterWait, StepsInOrder, Durable,
               Batching, Planned, Being, Downloadable, TypeOK, Rows
<1>27. CASE Landed
  BY <1>2, <1>27 DEF Landed, Halt, Goto, Order, PlansListed, LaterWait, StepsInOrder, Durable,
               Batching, Planned, Being, Downloadable, TypeOK
<1>28. CASE SkipTrash
  BY <1>2, <1>28 DEF SkipTrash, Goto
<1>29. CASE StartTrash
  BY <1>2, <1>29 DEF StartTrash, Goto
<1>30. ASSUME NEW d \in Folder \cup {Root}, TrashFolder(d) PROVE Order'
  BY <1>2, <1>30 DEF TrashFolder
<1>31. ASSUME NEW d \in Folder \cup {Root}, ListingFails(d) PROVE Order'
  BY <1>2, <1>31 DEF ListingFails
<1>32. ASSUME NEW d \in Folder \cup {Root}, TrashDies(d) PROVE Order'
  BY <1>2, <1>32 DEF TrashDies, Halt
<1>33. CASE EndTrash
  BY <1>2, <1>33 DEF EndTrash, Push
<1>34. CASE SkipReconcile
  BY <1>2, <1>34 DEF SkipReconcile, Goto
<1>35. CASE StartWalk
  BY <1>2, <1>35 DEF StartWalk, Goto
<1>36. ASSUME NEW d \in Folder \cup {Root}, ListFolder(d) PROVE Order'
  BY <1>2, <1>36 DEF ListFolder, Goto
<1>37. CASE StopWalk
  BY <1>2, <1>37 DEF StopWalk, Push
<1>38. CASE Correct
  BY <1>2, <1>38 DEF Correct, Goto
<1>39. CASE TrashStrays
  BY <1>2, <1>39 DEF TrashStrays, Push
<1>40. CASE StraysDie
  BY <1>2, <1>40 DEF StraysDie, Halt
<1>41. CASE Report
  BY <1>2, <1>41 DEF Report, Push
<1>42. CASE Put
  BY <1>42 DEF Put, Goto, Order, PlansListed, LaterWait, StepsInOrder, Durable, Batching,
               Planned, Being, Downloadable, Image
<1>43. CASE Copy
  <2>1. CASE after = "idle"
    BY <1>3, <1>43, <2>1 DEF Copy
  <2>2. CASE after # "idle"
    <3>1. /\ pc = "copy" /\ pc' = after /\ canon' = history
          /\ UNCHANGED <<listing, changed, batchOf, batch, status, staged, mirror, walk, after>>
      BY <1>43, <2>2, Zenon DEF Copy, Goto
    <3>2. CASE after = "landed"
      <4>1. history = Image /\ history # NoImage /\ history.mirror = mirror
        BY <3>1, MirrorAssumption DEF Durable, Image, Images, TypeOK
      <4>2. QED
        BY <3>1, <3>2, <4>1 DEF Order, PlansListed, LaterWait, StepsInOrder, Durable, Batching,
                                Planned, Being, Downloadable
    <3>3. CASE after # "landed"
      BY <1>2, <2>2, <3>1, <3>3 DEF TypeOK
    <3>4. QED
      BY <3>2, <3>3
  <2>3. QED
    BY <2>1, <2>2
<1>44. CASE PushFails
  <2>1. CASE after = "idle"
    BY <1>3, <1>44, <2>1 DEF PushFails
  <2>2. CASE after # "idle"
    BY <1>2, <1>44, <2>2 DEF PushFails, Halt
  <2>3. QED
    BY <2>1, <2>2
<1>45. CASE PhaseFails
  BY <1>2, <1>17, <1>45 DEF PhaseFails, Halt
<1>50. QED
  BY <1>4, <1>5, <1>6, <1>7, <1>8, <1>9, <1>10, <1>11, <1>12, <1>13, <1>14, <1>15, <1>16,
     <1>18, <1>19, <1>20, <1>21, <1>22, <1>23, <1>24, <1>25, <1>26, <1>27, <1>28, <1>29,
     <1>30, <1>31, <1>32, <1>33, <1>34, <1>35, <1>36, <1>37, <1>38, <1>39, <1>40, <1>41,
     <1>42, <1>43, <1>44, <1>45, Zenon DEF Next, Outside, Pipeline, Failure

LEMMA InOrderInit == Init => InOrder
<1> SUFFICES ASSUME Init PROVE InOrder
  OBVIOUS
<1>1. PlansListed /\ LaterWait /\ StepsInOrder /\ Durable
  BY DEF Init, PlansListed, LaterWait, StepsInOrder, Durable, Batching, BatchStep, Planned,
         Being, Downloadable
<1>2. QED
  BY <1>1, TypeInit DEF InOrder

\* Every step keeps the types and the order of the batches.
THEOREM BatchesInOrder == Spec => []InOrder
<1>1. Init => InOrder
  BY InOrderInit
<1>2. InOrder /\ [Next]_vars => InOrder'
  BY TypeNext, OrderNext, Zenon DEF InOrder, Order
<1>3. QED
  BY <1>1, <1>2, PTL DEF Spec

\* The database, the bucket, the clouds and the tables of a run keep their types.
THEOREM TypeCorrect == Spec => []TypeOK
<1>1. InOrder => TypeOK
  BY DEF InOrder
<1>2. QED
  BY <1>1, BatchesInOrder, PTL

\* README.md:63 "so a killed run repeats at most one" batch, for any tree, plan and
\* interleaving of edits, refusals and failures.
THEOREM RepeatsOneBatch == Spec => []KilledRunRepeatsOneBatch
<1>1. InOrder => KilledRunRepeatsOneBatch
  BY DEF InOrder, Durable, Batching, KilledRunRepeatsOneBatch
<1>2. QED
  BY <1>1, BatchesInOrder, PTL
-----------------------------------------------------------------------------
LEMMA DisjointCardinality ==
  ASSUME NEW S, NEW T, IsFiniteSet(S), IsFiniteSet(T), S \cap T = {}
  PROVE  IsFiniteSet(S \cup T) /\ Cardinality(S \cup T) = Cardinality(S) + Cardinality(T)
<1>1. /\ IsFiniteSet(S \cup T)
      /\ Cardinality(S \cup T) = Cardinality(S) + Cardinality(T) - Cardinality(S \cap T)
  BY FS_Union
<1>2. Cardinality(S \cap T) = 0 /\ Cardinality(S) \in Nat /\ Cardinality(T) \in Nat
  BY FS_EmptySet, FS_CardinalityType
<1>3. QED
  BY <1>1, <1>2

\* When the CLI names every item it gives details of, a file confirm records was sent:
\* the counts must account for every item, and every refused file must be explained by
\* its name.  Two files of one basename only make it more careful.
LEMMA ConfirmedWasSent ==
  ASSUME NEW V \in SUBSET Path, NEW o \in Outcomes(V), Explains(o),
         "nameless" \notin Details, TypeOK,
         NEW p \in V, Verdict(V, Staging(V), summary)[p] = "CONFIRMED"
  PROVE  p \in o.sent
<1> DEFINE D == Staging(V)
           all == V \cup D
<1>1. /\ D \subseteq Folder /\ V \cap D = {}
      /\ o.sent \subseteq all /\ o.refused \subseteq all /\ o.sent \cap o.refused = {}
  BY MirrorAssumption, ItemAssumption DEF Staging, Outcomes, Item
<1>2. IsFiniteSet(V) /\ IsFiniteSet(D)
  BY <1>1, ItemAssumption, FS_Subset
<1>3. IsFiniteSet(all) /\ Cardinality(all) = Cardinality(V) + Cardinality(D)
  BY <1>1, <1>2, DisjointCardinality
<1>4. IsFiniteSet(o.sent) /\ IsFiniteSet(o.refused)
  BY <1>1, <1>3, FS_Subset
<1>5. PICK detail \in [o.refused -> Details] : summary = Printed(o, detail)
  BY DEF Explains
<1> DEFINE told == {j \in o.refused : detail[j] # "missing"}
<1>6. /\ summary.landed = Cardinality(o.sent) /\ summary.failed = Cardinality(o.refused)
      /\ summary.failures = [i \in told |-> IF detail[i] = "named" THEN Base[i] ELSE NoName]
  BY <1>5 DEF Printed
<1>7. Confirmed(V, D, summary) /\ p \notin FailedRows(V, summary)
  BY DEF Verdict
<1>8. o.sent \cup o.refused = all
  <2>1. Cardinality(o.sent \cup o.refused) = Cardinality(o.sent) + Cardinality(o.refused)
    BY <1>1, <1>4, DisjointCardinality
  <2>2. Cardinality(o.sent \cup o.refused) = Cardinality(all)
    BY <1>3, <1>6, <1>7, <2>1 DEF Confirmed, Accounted
  <2>3. o.sent \cup o.refused \subseteq all
    BY <1>1
  <2>4. QED
    BY <1>3, <2>2, <2>3, FS_Subset
<1>9. told = o.refused
  <2>1. told \subseteq o.refused /\ DOMAIN summary.failures = told
    BY <1>6
  <2>2. Cardinality(told) = Cardinality(o.refused)
    BY <1>6, <1>7, <2>1 DEF Confirmed
  <2>3. QED
    BY <1>4, <2>1, <2>2, FS_Subset
<1>10. ASSUME p \in o.refused PROVE FALSE
  <2>1. detail[p] = "named"
    BY <1>9, <1>10, MirrorAssumption
  <2>2. summary.failures[p] = Base[p] /\ p \in DOMAIN summary.failures
    BY <1>6, <1>9, <1>10, <2>1
  <2>3. Base[p] # NoName
    BY ItemAssumption DEF Name, Item
  <2>4. p \in FailedRows(V, summary)
    BY <2>2, <2>3 DEF FailedRows, Errors
  <2>5. QED
    BY <1>7, <2>4
<1>11. QED
  BY <1>8, <1>10

LEMMA HeldNext ==
  ASSUME "nameless" \notin Details
  PROVE  InOrder /\ Held /\ [Next]_vars => Held'
<1> SUFFICES ASSUME InOrder, Held, [Next]_vars PROVE Held'
  OBVIOUS
<1>1. ASSUME UNCHANGED <<proton, listing, batchOf, batch, status, summary, pc>> PROVE Held'
  <2>1. Being("VERIFIED")' = Being("VERIFIED") /\ Being("CONFIRMED")' = Being("CONFIRMED")
    BY <1>1, Zenon DEF Being, Planned
  <2>2. QED
    BY <1>1, <2>1, Zenon DEF Held, Explains
<1>2. ASSUME pc' \notin {"confirm", "merge"} PROVE Held'
  BY <1>2, Zenon DEF Held
<1>3. CASE UNCHANGED vars
  BY <1>1, <1>3, Zenon DEF vars
<1>4. ASSUME NEW p \in Path, NEW v \in EditValues[p], Edit(p, v) PROVE Held'
  BY <1>1, <1>4, Zenon DEF Edit
<1>5. CASE Upload
  <2>1. PICK o \in Outcomes(Being("VERIFIED")) : \E detail \in [o.refused -> Details] :
           proton' = Lands(o.sent) /\ summary' = Printed(o, detail)
    BY <1>5, Zenon DEF Upload
  <2>2. PICK detail \in [o.refused -> Details] :
           proton' = Lands(o.sent) /\ summary' = Printed(o, detail)
    BY <2>1
  <2>3. pc' = "confirm" /\ UNCHANGED <<listing, batchOf, batch, status, staged>>
    BY <1>5, Zenon DEF Upload, Goto
  <2>4. \A p \in Being("VERIFIED") \cap o.sent : proton'[p] = listing'[p]
    BY <1>5, <2>2, <2>3 DEF InOrder, StepsInOrder, Lands, Upload, Being, Planned
  <2>5. Being("VERIFIED")' = Being("VERIFIED")
    BY <2>3, Zenon DEF Being, Planned
  <2>6. o \in Outcomes(Being("VERIFIED")')
    BY <2>5
  <2>7. Explains(o)'
    BY <2>2 DEF Explains
  <2>8. QED
    BY <2>3, <2>4, <2>5, <2>6, <2>7 DEF Held, Outcomes, Staging
<1>6. CASE SkipUpload
  <2>1. Being("CONFIRMED")' = {}
    BY <1>6 DEF SkipUpload, InOrder, StepsInOrder, Being, Planned
  <2>2. QED
    BY <1>6, <2>1 DEF SkipUpload, Goto, Held
<1>7. CASE Settle
  <2> DEFINE V == Being("VERIFIED")
  <2>1. PICK o \in Outcomes(V) : Explains(o) /\ \A p \in V \cap o.sent : proton[p] = listing[p]
    BY <1>7, Zenon DEF Settle, Held
  <2>2. /\ pc = "confirm" /\ pc' = "merge" /\ UNCHANGED <<proton, listing, batchOf, batch>>
        /\ status' = [p \in Path |-> IF p \in V THEN Verdict(V, Staging(V), summary)[p]
                                     ELSE status[p]]
    BY <1>7, Zenon DEF Settle, Goto
  <2>3. ASSUME NEW p \in Being("CONFIRMED")' PROVE proton'[p] = listing'[p]
    <3>1. p \in Path /\ p \notin Being("CONFIRMED") /\ p \in Planned /\ batchOf[p] = batch
          /\ status'[p] = "CONFIRMED"
      BY <2>2, <2>3 DEF InOrder, StepsInOrder, Being, Planned
    <3>2. p \in V /\ Verdict(V, Staging(V), summary)[p] = "CONFIRMED"
      BY <2>2, <3>1 DEF Being
    <3>3. V \in SUBSET Path
      BY DEF Being, Planned
    <3>4. p \in o.sent
      BY <2>1, <3>2, <3>3, ConfirmedWasSent DEF InOrder
    <3>5. QED
      BY <2>1, <2>2, <3>2, <3>4
  <2>4. QED
    BY <2>2, <2>3, Zenon DEF Held
\* Every other step goes on elsewhere.
<1>8. ASSUME NEW p \in Path, HandUpload(p) PROVE Held'
  BY <1>2, <1>8 DEF HandUpload
<1>9. CASE Rollback
  BY <1>2, <1>9 DEF Rollback
<1>10. CASE Crash
  BY <1>2, <1>10 DEF Crash, EndRun
<1>11. ASSUME NEW r \in BOOLEAN, StartRun(r) PROVE Held'
  BY <1>2, <1>11 DEF StartRun, Goto
<1>12. ASSUME NEW p \in Path, ListEntry(p) PROVE Held'
  BY <1>2, <1>12 DEF ListEntry
<1>13. CASE Delta
  BY <1>2, <1>13 DEF Delta, Goto
<1>14. CASE RefuseListing
  BY <1>2, <1>14 DEF RefuseListing, Halt
<1>15. CASE Plan
  BY <1>2, <1>15 DEF Plan, Goto
<1>16. CASE EndBatches
  BY <1>2, <1>16 DEF EndBatches, Goto
<1>17. CASE StartBatch
  BY <1>2, <1>17 DEF StartBatch, Goto
<1>18. ASSUME NEW p \in Path, FetchItem(p) PROVE Held'
  BY <1>2, <1>18 DEF FetchItem
<1>19. ASSUME NEW p \in Path, FetchFails(p) PROVE Held'
  BY <1>2, <1>19 DEF FetchFails, FailBatch, Halt
<1>20. ASSUME NEW p \in Path, FetchCorrupt(p) PROVE Held'
  BY <1>2, <1>20 DEF FetchCorrupt
<1>21. CASE Verify
  BY <1>2, <1>21 DEF Verify, Goto
<1>22. CASE VerifyFails
  BY <1>2, <1>22 DEF VerifyFails, FailBatch, Halt
<1>23. CASE UploadDies
  BY <1>2, <1>23 DEF UploadDies, Halt
<1>24. CASE Checkpoint
  BY <1>2, <1>24 DEF Checkpoint, Push
<1>25. CASE Landed
  BY <1>2, <1>25 DEF Landed, Halt, Goto
<1>26. CASE SkipTrash
  BY <1>2, <1>26 DEF SkipTrash, Goto
<1>27. CASE StartTrash
  BY <1>2, <1>27 DEF StartTrash, Goto
<1>28. ASSUME NEW d \in Folder \cup {Root}, TrashFolder(d) PROVE Held'
  BY <1>2, <1>28 DEF TrashFolder
<1>29. ASSUME NEW d \in Folder \cup {Root}, ListingFails(d) PROVE Held'
  BY <1>2, <1>29 DEF ListingFails
<1>30. ASSUME NEW d \in Folder \cup {Root}, TrashDies(d) PROVE Held'
  BY <1>2, <1>30 DEF TrashDies, Halt
<1>31. CASE EndTrash
  BY <1>2, <1>31 DEF EndTrash, Push
<1>32. CASE SkipReconcile
  BY <1>2, <1>32 DEF SkipReconcile, Goto
<1>33. CASE StartWalk
  BY <1>2, <1>33 DEF StartWalk, Goto
<1>34. ASSUME NEW d \in Folder \cup {Root}, ListFolder(d) PROVE Held'
  BY <1>2, <1>34 DEF ListFolder, Goto
<1>35. CASE StopWalk
  BY <1>2, <1>35 DEF StopWalk, Push
<1>36. CASE Correct
  BY <1>2, <1>36 DEF Correct, Goto
<1>37. CASE TrashStrays
  BY <1>2, <1>37 DEF TrashStrays, Push
<1>38. CASE StraysDie
  BY <1>2, <1>38 DEF StraysDie, Halt
<1>39. CASE Report
  BY <1>2, <1>39 DEF Report, Push
<1>40. CASE Put
  BY <1>2, <1>40 DEF Put, Goto
<1>41. CASE Copy
  BY <1>2, <1>41 DEF Copy, EndRun, Goto, InOrder, TypeOK
<1>42. CASE PushFails
  BY <1>2, <1>42 DEF PushFails, EndRun, Halt
<1>43. CASE PhaseFails
  BY <1>2, <1>43 DEF PhaseFails, FailBatch, Halt
<1>44. QED
  BY <1>3, <1>4, <1>5, <1>6, <1>7, <1>8, <1>9, <1>10, <1>11, <1>12, <1>13, <1>14, <1>15,
     <1>16, <1>17, <1>18, <1>19, <1>20, <1>21, <1>22, <1>23, <1>24, <1>25, <1>26, <1>27,
     <1>28, <1>29, <1>30, <1>31, <1>32, <1>33, <1>34, <1>35, <1>36, <1>37, <1>38, <1>39,
     <1>40, <1>41, <1>42, <1>43, Zenon DEF Next, Outside, Pipeline, Failure

\* A step that writes the mirror: to empty it, to record a batch, or to drop rows.
LEMMA RowsChange ==
  ASSUME InOrder, Held, [Next]_vars, pc # "idle", NEW q \in Path
  PROVE  mirror'[q] \in {mirror[q], Absent, proton[q]}
<1> DEFINE Goal == mirror'[q] \in {mirror[q], Absent, proton[q]}
<1>1. ASSUME mirror' = mirror PROVE Goal
  BY <1>1
<1>2. ASSUME EndRun PROVE Goal
  BY <1>2 DEF EndRun, NoRows
<1>3. ASSUME NEW S, mirror' = On(mirror, S, Absent) PROVE Goal
  BY <1>3 DEF On, InOrder, TypeOK, Rows
<1>4. CASE UNCHANGED vars
  BY <1>1, <1>4, Zenon DEF vars
<1>5. CASE Crash
  BY <1>2, <1>5, Zenon DEF Crash
<1>6. ASSUME NEW r \in BOOLEAN, StartRun(r) PROVE Goal
  BY <1>6 DEF StartRun
<1>7. CASE Checkpoint
  <2>1. mirror' = [p \in Path |-> IF p \in Being("CONFIRMED") THEN listing[p] ELSE mirror[p]]
    BY <1>7, Zenon DEF Checkpoint
  <2>2. \A p \in Being("CONFIRMED") : proton[p] = listing[p]
    BY <1>7, Zenon DEF Checkpoint, Held
  <2>3. QED
    BY <2>1, <2>2
<1>8. CASE EndTrash
  BY <1>3, <1>8, Zenon DEF EndTrash
<1>9. CASE Correct
  <2>1. PICK u \in SUBSET (IF MayLackDigest THEN Path ELSE {}) :
          mirror' = On(mirror, {p \in Recorded : ~Matches(p, u)}, Absent)
    BY <1>9, Zenon DEF Correct
  <2>2. QED
    BY <1>3, <2>1
<1>10. CASE Copy
  BY <1>1, <1>2, <1>10 DEF Copy
<1>11. CASE PushFails
  BY <1>1, <1>2, <1>11 DEF PushFails
<1>12. ASSUME NEW p \in Path, NEW v \in EditValues[p], Edit(p, v) PROVE Goal
  BY <1>1, <1>12, Zenon DEF Edit
<1>13. ASSUME NEW p \in Path, HandUpload(p) PROVE Goal
  BY <1>1, <1>13, Zenon DEF HandUpload
<1>14. CASE Rollback
  BY <1>1, <1>14, Zenon DEF Rollback
<1>15. ASSUME NEW p \in Path, ListEntry(p) PROVE Goal
  BY <1>1, <1>15, Zenon DEF ListEntry
<1>16. CASE Delta
  BY <1>1, <1>16, Zenon DEF Delta
<1>17. CASE RefuseListing
  BY <1>1, <1>17, Zenon DEF RefuseListing
<1>18. CASE Plan
  BY <1>1, <1>18, Zenon DEF Plan
<1>19. CASE EndBatches
  BY <1>1, <1>19, Zenon DEF EndBatches
<1>20. CASE StartBatch
  BY <1>1, <1>20, Zenon DEF StartBatch
<1>21. ASSUME NEW p \in Path, FetchItem(p) PROVE Goal
  BY <1>1, <1>21, Zenon DEF FetchItem
<1>22. ASSUME NEW p \in Path, FetchFails(p) PROVE Goal
  BY <1>1, <1>22, Zenon DEF FetchFails, FailBatch
<1>23. ASSUME NEW p \in Path, FetchCorrupt(p) PROVE Goal
  BY <1>1, <1>23, Zenon DEF FetchCorrupt
<1>24. CASE Verify
  BY <1>1, <1>24, Zenon DEF Verify
<1>25. CASE VerifyFails
  BY <1>1, <1>25, Zenon DEF VerifyFails, FailBatch
<1>26. CASE Upload
  BY <1>1, <1>26, Zenon DEF Upload
<1>27. CASE SkipUpload
  BY <1>1, <1>27, Zenon DEF SkipUpload
<1>28. CASE UploadDies
  BY <1>1, <1>28, Zenon DEF UploadDies
<1>29. CASE Settle
  BY <1>1, <1>29, Zenon DEF Settle
<1>30. CASE Landed
  BY <1>1, <1>30, Zenon DEF Landed
<1>31. CASE SkipTrash
  BY <1>1, <1>31, Zenon DEF SkipTrash
<1>32. CASE StartTrash
  BY <1>1, <1>32, Zenon DEF StartTrash
<1>33. ASSUME NEW d \in Folder \cup {Root}, TrashFolder(d) PROVE Goal
  BY <1>1, <1>33, Zenon DEF TrashFolder
<1>34. ASSUME NEW d \in Folder \cup {Root}, ListingFails(d) PROVE Goal
  BY <1>1, <1>34, Zenon DEF ListingFails
<1>35. ASSUME NEW d \in Folder \cup {Root}, TrashDies(d) PROVE Goal
  BY <1>1, <1>35, Zenon DEF TrashDies
<1>36. CASE SkipReconcile
  BY <1>1, <1>36, Zenon DEF SkipReconcile
<1>37. CASE StartWalk
  BY <1>1, <1>37, Zenon DEF StartWalk
<1>38. ASSUME NEW d \in Folder \cup {Root}, ListFolder(d) PROVE Goal
  BY <1>1, <1>38, Zenon DEF ListFolder
<1>39. CASE StopWalk
  BY <1>1, <1>39, Zenon DEF StopWalk
<1>40. CASE TrashStrays
  BY <1>1, <1>40, Zenon DEF TrashStrays
<1>41. CASE StraysDie
  BY <1>1, <1>41, Zenon DEF StraysDie
<1>42. CASE Report
  BY <1>1, <1>42, Zenon DEF Report
<1>43. CASE Put
  BY <1>1, <1>43, Zenon DEF Put
<1>44. CASE PhaseFails
  BY <1>1, <1>44, Zenon DEF PhaseFails, FailBatch
<1>45. QED
  BY <1>4, <1>5, <1>6, <1>7, <1>8, <1>9, <1>10, <1>11, <1>12, <1>13, <1>14, <1>15, <1>16,
     <1>17, <1>18, <1>19, <1>20, <1>21, <1>22, <1>23, <1>24, <1>25, <1>26, <1>27, <1>28,
     <1>29, <1>30, <1>31, <1>32, <1>33, <1>34, <1>35, <1>36, <1>37, <1>38, <1>39, <1>40,
     <1>41, <1>42, <1>43, <1>44, Zenon DEF Next, Outside, Pipeline, Failure

\* Between the upload and the checkpoint the summary is that of an upload whose sent files are
\* in Proton, and confirm picks its files among those.
THEOREM ConfirmsTheSent ==
  ASSUME "nameless" \notin Details
  PROVE  Spec => []Held
<1>1. Init => InOrder /\ Held
  BY InOrderInit, Zenon DEF Init, Held
<1>2. InOrder /\ Held /\ [Next]_vars => (InOrder /\ Held)'
  BY TypeNext, OrderNext, HeldNext, Zenon DEF InOrder, Order
<1>3. QED
  BY <1>1, <1>2, PTL DEF Spec

\* Nothing enters mirror_objects that Proton does not hold at that path, whatever the CLI
\* refuses, as long as it names what it refuses when it gives details of it: two files of
\* one basename in a batch cannot make confirm record a file that failed.
THEOREM RecordsOnlyHeld ==
  ASSUME "nameless" \notin Details
  PROVE  Spec => NothingRecordedUnheld
<1>1. Init => InOrder /\ Held
  BY InOrderInit, Zenon DEF Init, Held
<1>2. InOrder /\ Held /\ [Next]_vars => (InOrder /\ Held)'
  BY TypeNext, OrderNext, HeldNext, Zenon DEF InOrder, Order
<1>3. InOrder /\ Held /\ [Next]_vars =>
        [pc # "idle" => \A p \in Path : mirror'[p] \in {mirror[p], Absent, proton[p]}]_vars
  BY RowsChange
<1>4. QED
  BY <1>1, <1>2, <1>3, PTL DEF Spec, NothingRecordedUnheld
=============================================================================
