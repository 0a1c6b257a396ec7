------------------------------- MODULE Mirror -------------------------------
(***************************************************************************)
(* The nightly mirror: one run of the pipeline after another, each phase a *)
(* process of its own working on one SQLite database that is fetched from  *)
(* the bucket at the start of the run and pushed back after every batch,   *)
(* after the trash, after the reconcile and after the report.  Dropbox is  *)
(* edited while the run goes on; the Proton CLI may refuse items or die;   *)
(* any phase may fail, and the machine may be lost at any step with        *)
(* everything that was not pushed.                                         *)
(*                                                                         *)
(* pc names the step the pipeline takes next:                              *)
(*   idle, inventory, delta, plan,                                         *)
(*   next, fetch, verify, upload, confirm, merge, landed     (batches)     *)
(*   trash, trashing, reconcile, walk, walking, strays, report                 *)
(*   put, copy                          (a push, returning to after)       *)
(***************************************************************************)
EXTENDS Confirm, Integers

CONSTANTS
    Content,         \* contents a file may have: size and hash, as one value
    Size,            \* the size of each content
    Oversized,       \* contents above max_file_gb or the free disk
    Absent,          \* no file, no row
    Opaque,          \* listed, but not downloadable or without a content hash
    Unlisted,        \* not yet reported by the inventory
    Sizeless,        \* a node the walk found without a claimed size
    NoImage,         \* no such object in the bucket
    NoSummary,       \* no upload summary read
    Home,            \* the folder a file or directory is in, or Root
    Within,          \* every directory below Root on the way to an item
    Root,            \* the destination folder
    EditValues,      \* what the owner may put at each path: Content, Absent, Opaque
    Refusable,       \* the items the CLI may refuse
    Details,         \* what the CLI may say of a refused item: its name, a detail
                     \* without a name, or nothing
    Weekly,          \* whether some runs reconcile
    Deadline,        \* whether the budget may stop a walk before its end
    MayLackDigest,   \* whether Proton may list a file without its SHA-1,
    MayLackSize,     \* and without the size its uploader claimed
    FloorNum, FloorDen,                       \* listing_floor_ratio
    MaxEdits, MaxFaults, MaxRefusals          \* bounds of the model

Rows(values)  == [Path -> values \cup {Absent}]
Walks         == [status : {"none", "running", "complete"},
                  pending : SUBSET (Folder \cup {Root}), nodes : Rows(Content \cup {Sizeless})]
Images        == [mirror : Rows(Content), walk : Walks]

ASSUME MirrorAssumption ==
    /\ {Absent, Opaque, Unlisted, Sizeless} \cap Content = {}
    /\ Absent # Opaque /\ Absent # Unlisted /\ Opaque # Unlisted /\ Absent # Sizeless
    /\ Oversized \subseteq Content
    /\ Size \in [Content -> Nat]
    /\ Root \notin Folder
    /\ Home \in [Item -> Folder \cup {Root}]
    /\ Within \in [Item -> SUBSET Folder]
    /\ \A x \in Item : Home[x] \in Within[x] \cup {Root}
    /\ EditValues \in [Path -> SUBSET (Content \cup {Absent, Opaque})]
    /\ Refusable \subseteq Item
    /\ Details \subseteq {"named", "nameless", "missing"}
    /\ {Weekly, Deadline, MayLackDigest, MayLackSize} \subseteq BOOLEAN
    /\ {FloorNum, FloorDen, MaxEdits, MaxFaults, MaxRefusals} \subseteq Nat
    /\ FloorDen > 0
    /\ NoSummary \notin Summary
    /\ NoImage \notin Images

ItemStatus    == {"NONE", "PLANNED", "VANISHED", "FETCHED", "HASH_MISMATCH", "VERIFIED",
                  "CONFIRMED", "CONFIRM_FAILED", "CHECKPOINTED"}
DeleteStatus  == {"NONE", "TRASHED", "NOT_FOUND", "LISTING_FAILED"}
BatchStep     == {"next", "fetch", "verify", "upload", "confirm", "merge", "landed"}
Step          == BatchStep \cup {"idle", "inventory", "delta", "plan", "trash", "trashing",
                  "reconcile", "walk", "walking", "strays", "report", "put", "copy"}

VARIABLES
    dropbox,      \* what Dropbox holds
    proton,       \* the live files under the destination in Proton Drive
    canon,        \* the bucket's canonical state object
    history,      \* the bucket's newest dated copy of it
    edits, faults, refusals,   \* how much of each bound is used
    mirror,       \* mirror_objects of the local database
    walk,         \* proton_snapshots, proton_folders and proton_nodes
    reconciling,  \* runs.reconcile
    listing,      \* dropbox_objects of this run's inventory
    changed,      \* delta_changed
    deleted,      \* delta_deleted
    batchOf,      \* the batch number of each planned file, 0 for the others
    batch,        \* the batch under way
    status,       \* batch_items.status
    staged,       \* the staging directory
    summary,      \* the upload summary of the batch
    remaining,    \* runs.remaining_batches, -1 for NULL
    dirs,         \* trash: the folders still to be visited
    deletion,     \* deletions.status of this run
    strays,       \* reconcile: the nodes it is about to trash
    resumed,      \* reconcile: whether it continues an earlier run's walk
    failed,       \* whether a phase of this run failed
    after,        \* where a push returns to
    pc

cloud     == <<dropbox, proton>>
bucket    == <<canon, history>>
spent     == <<edits, faults, refusals>>
database  == <<mirror, walk>>
deltaVars == <<reconciling, listing, changed, deleted>>
batchVars == <<batchOf, batch, status, staged, summary, remaining>>
lateVars  == <<dirs, deletion, strays, resumed>>
vars == <<cloud, bucket, spent, database, deltaVars, batchVars, lateVars,
          failed, after, pc>>

NoRows == [p \in Path |-> Absent]
NoWalk == [status |-> "none", pending |-> {}, nodes |-> NoRows]
Image  == [mirror |-> mirror, walk |-> walk]

Downloadable == {p \in Path : listing[p] \in Content}
Recorded     == {p \in Path : mirror[p] # Absent}
Planned      == {p \in Path : batchOf[p] # 0}
Batches      == Cardinality({batchOf[p] : p \in Planned})
Being(s)     == {p \in Planned : batchOf[p] = batch /\ status[p] = s}
Staging(V)   == UNION {Within[p] : p \in V}

TypeOK ==
    /\ dropbox \in Rows(Content \cup {Opaque}) /\ proton \in Rows(Content)
    /\ canon \in Images \cup {NoImage} /\ history \in Images \cup {NoImage}
    /\ edits \in Nat /\ faults \in Nat /\ refusals \in Nat
    /\ mirror \in Rows(Content) /\ walk \in Walks
    /\ reconciling \in BOOLEAN /\ listing \in Rows(Content \cup {Opaque, Unlisted})
    /\ changed \subseteq Path /\ deleted \subseteq Path
    /\ batchOf \in [Path -> Nat] /\ batch \in Nat
    /\ status \in [Path -> ItemStatus]
    /\ staged \in Rows(Content \cup {Opaque})
    /\ summary \in Summary \cup {NoSummary}
    /\ remaining \in Int
    /\ dirs \subseteq Folder \cup {Root} /\ deletion \in [Path -> DeleteStatus]
    /\ strays \subseteq Path /\ resumed \in BOOLEAN
    /\ failed \in BOOLEAN /\ after \in {"landed", "reconcile", "report", "idle"}
    /\ pc \in Step

Init ==
    /\ dropbox \in {f \in Rows(Content \cup {Opaque}) : \A p \in Path : f[p] \in EditValues[p]}
    /\ proton = NoRows
    /\ canon = NoImage /\ history = NoImage
    /\ edits = 0 /\ faults = 0 /\ refusals = 0
    /\ mirror = NoRows /\ walk = NoWalk
    /\ reconciling = FALSE /\ listing = [p \in Path |-> Unlisted]
    /\ changed = {} /\ deleted = {}
    /\ batchOf = [p \in Path |-> 0] /\ batch = 1
    /\ status = [p \in Path |-> "NONE"] /\ staged = NoRows
    /\ summary = NoSummary /\ remaining = -1
    /\ dirs = {} /\ deletion = [p \in Path |-> "NONE"]
    /\ strays = {} /\ resumed = FALSE
    /\ failed = FALSE /\ after = "idle" /\ pc = "idle"

\* f with v on S.
On(f, S, v) == [p \in DOMAIN f |-> IF p \in S THEN v ELSE f[p]]

Goto(step) == pc' = step /\ UNCHANGED <<failed, after>>

\* A phase raises: the pipeline stops and its failure path builds the report.
Halt == failed' = TRUE /\ pc' = "report" /\ UNCHANGED after

\* statefile.push, called as the last thing of a phase or a batch.
Push(return) == pc' = "put" /\ after' = return /\ UNCHANGED failed

\* A fault of the machine, the network or the CLI.
Fault == faults < MaxFaults /\ faults' = faults + 1

\* The next run starts from the bucket: nothing local outlives this one.
EndRun ==
    /\ mirror' = NoRows /\ walk' = NoWalk
    /\ reconciling' = FALSE /\ listing' = [p \in Path |-> Unlisted]
    /\ changed' = {} /\ deleted' = {}
    /\ batchOf' = [p \in Path |-> 0] /\ batch' = 1
    /\ status' = [p \in Path |-> "NONE"] /\ staged' = NoRows
    /\ summary' = NoSummary /\ remaining' = -1
    /\ dirs' = {} /\ deletion' = [p \in Path |-> "NONE"]
    /\ strays' = {} /\ resumed' = FALSE
    /\ failed' = FALSE /\ after' = "idle" /\ pc' = "idle"
-----------------------------------------------------------------------------
\* The owner and the operator.

Edit(p, value) ==
    /\ edits < MaxEdits /\ value # dropbox[p]
    /\ dropbox' = [dropbox EXCEPT ![p] = value]
    /\ edits' = edits + 1
    /\ UNCHANGED <<proton, bucket, faults, refusals, database, deltaVars, batchVars,
                   lateVars, failed, after, pc>>

\* A file too large to stage may be uploaded by hand, between runs.
HandUpload(p) ==
    /\ pc = "idle" /\ dropbox[p] \in Oversized /\ proton[p] # dropbox[p]
    /\ proton' = [proton EXCEPT ![p] = dropbox[p]]
    /\ UNCHANGED <<dropbox, bucket, spent, database, deltaVars, batchVars, lateVars,
                   failed, after, pc>>

\* `task state-rollback` with the newest dated copy, when the state object is missing.
Rollback ==
    /\ pc = "idle" /\ canon = NoImage /\ history # NoImage
    /\ canon' = history
    /\ UNCHANGED <<cloud, history, spent, database, deltaVars, batchVars, lateVars,
                   failed, after, pc>>

\* The machine is lost in the middle of a run.
Crash ==
    /\ pc # "idle" /\ Fault /\ EndRun
    /\ UNCHANGED <<cloud, bucket, edits, refusals>>

-----------------------------------------------------------------------------
\* state, inventory, delta and plan.

\* A missing state object is an empty mirror only when the history is empty too.
StartRun(reconcile) ==
    /\ pc = "idle" /\ reconcile \in {FALSE, Weekly}
    /\ canon = NoImage => history = NoImage
    /\ mirror' = IF canon = NoImage THEN NoRows ELSE canon.mirror
    /\ walk' = IF canon = NoImage THEN NoWalk ELSE canon.walk
    /\ reconciling' = reconcile
    /\ Goto("inventory")
    /\ UNCHANGED <<cloud, bucket, spent, listing, changed, deleted, batchVars, lateVars>>

\* Pages are fetched one by one, so two entries may be of different moments.
ListEntry(p) ==
    /\ pc = "inventory" /\ listing[p] = Unlisted
    /\ listing' = [listing EXCEPT ![p] = dropbox[p]]
    /\ pc' = IF \A q \in Path \ {p} : listing[q] # Unlisted THEN "delta" ELSE "inventory"
    /\ UNCHANGED <<cloud, bucket, spent, database, reconciling, changed, deleted,
                   batchVars, lateVars, failed, after>>

Floor == LET share == (Cardinality(Recorded) * FloorNum) \div FloorDen
         IN  IF share > 1 THEN share ELSE 1
UnderFloor == Recorded # {} /\ Cardinality(Downloadable) < Floor

\* Mutant: a file that is listed but not downloadable counts as still there.
DeltaAbsentOnly ==
    /\ pc = "delta" /\ ~UnderFloor
    /\ changed' = {p \in Downloadable : mirror[p] # listing[p]}
    /\ deleted' = {p \in Recorded : listing[p] = Absent}
    /\ Goto("plan")
    /\ UNCHANGED <<cloud, bucket, spent, database, reconciling, listing, batchVars, lateVars>>

Delta ==
    /\ pc = "delta" /\ ~UnderFloor
    /\ changed' = {p \in Downloadable : mirror[p] # listing[p]}
    /\ deleted' = Recorded \ Downloadable
    /\ Goto("plan")
    /\ UNCHANGED <<cloud, bucket, spent, database, reconciling, listing, batchVars, lateVars>>

RefuseListing ==
    /\ pc = "delta" /\ UnderFloor
    /\ Halt
    /\ UNCHANGED <<cloud, bucket, spent, database, deltaVars, batchVars, lateVars>>

\* Any split of the files that fit into non-empty batches numbered from 1; which split
\* pack() chooses only depends on sizes.
Plan ==
    /\ pc = "plan"
    /\ LET fits == {p \in changed : listing[p] \notin Oversized}
       IN  \E n \in 0..Cardinality(fits) : \E number \in [fits -> 1..n] :
             /\ \A k \in 1..n : \E p \in fits : number[p] = k
             /\ batchOf' = [p \in Path |-> IF p \in fits THEN number[p] ELSE 0]
             /\ status' = On(status, fits, "PLANNED")
    /\ Goto("next")
    /\ UNCHANGED <<cloud, bucket, spent, database, deltaVars, batch, staged, summary,
                   remaining, lateVars>>
-----------------------------------------------------------------------------
\* batches: the loop and its five steps.

Left == Batches - (batch - 1)

\* Every planned batch is done, or the budget ends before another one; the first always starts.
EndBatches ==
    /\ pc = "next" /\ (batch > Batches \/ batch > 1)
    /\ remaining' = Left
    /\ Goto("trash")
    /\ UNCHANGED <<cloud, bucket, spent, database, deltaVars, batchOf, batch, status,
                   staged, summary, lateVars>>

StartBatch ==
    /\ pc = "next" /\ batch <= Batches
    /\ staged' = NoRows /\ summary' = NoSummary
    /\ Goto("fetch")
    /\ UNCHANGED <<cloud, bucket, spent, database, deltaVars, batchOf, batch, status,
                   remaining, lateVars>>

\* A pooled download, in any order; the file may have changed since it was listed.
FetchItem(p) ==
    /\ pc = "fetch" /\ p \in Being("PLANNED")
    /\ staged' = [staged EXCEPT ![p] = dropbox[p]]
    /\ status' = [status EXCEPT ![p] = IF dropbox[p] = Absent THEN "VANISHED" ELSE "FETCHED"]
    /\ pc' = IF Being("PLANNED") = {p} THEN "verify" ELSE "fetch"
    /\ UNCHANGED <<cloud, bucket, spent, database, deltaVars, batchOf, batch, summary,
                   remaining, lateVars, failed, after>>

\* An exception in a batch: the batch is FAILED, nothing after it is attempted.
FailBatch ==
    /\ remaining' = Left /\ Halt
    /\ UNCHANGED <<cloud, bucket, edits, refusals, database, deltaVars, batchOf, batch,
                   status, staged, summary, lateVars>>

\* A file that stopped being downloadable is an error, not a vanished file.
FetchFails(p) ==
    /\ pc = "fetch" /\ p \in Being("PLANNED") /\ dropbox[p] = Opaque
    /\ FailBatch /\ UNCHANGED faults

\* The bytes that arrive are not the file's: they hash to nothing the listing holds.
FetchCorrupt(p) ==
    /\ pc = "fetch" /\ p \in Being("PLANNED") /\ dropbox[p] \in Content /\ Fault
    /\ staged' = [staged EXCEPT ![p] = Opaque]
    /\ status' = [status EXCEPT ![p] = "FETCHED"]
    /\ pc' = IF Being("PLANNED") = {p} THEN "verify" ELSE "fetch"
    /\ UNCHANGED <<cloud, bucket, edits, refusals, database, deltaVars, batchOf, batch,
                   summary, remaining, lateVars, failed, after>>

\* Mutant: the downloads are not compared with the listing.
MismatchedNever == {}

Mismatched == {p \in Being("FETCHED") : staged[p] # listing[p]}

Verify ==
    /\ pc = "verify" /\ (Mismatched = {} \/ Mismatched # Being("FETCHED"))
    /\ status' = [p \in Path |-> CASE p \in Mismatched -> "HASH_MISMATCH"
                                   [] p \in Being("FETCHED") \ Mismatched -> "VERIFIED"
                                   [] OTHER -> status[p]]
    /\ staged' = On(staged, Mismatched, Absent)
    /\ Goto("upload")
    /\ UNCHANGED <<cloud, bucket, spent, database, deltaVars, batchOf, batch, summary,
                   remaining, lateVars>>

\* Every staged file mismatching fails the batch.
VerifyFails ==
    /\ pc = "verify" /\ Mismatched # {} /\ Mismatched = Being("FETCHED")
    /\ FailBatch /\ UNCHANGED faults

Lands(files) == [p \in Path |-> IF p \in files THEN staged[p] ELSE proton[p]]

\* What an upload of V may come to: sent items are in Proton, refused ones failed, and
\* whatever is below a refused directory was never attempted.
Outcomes(V) ==
    LET all == V \cup Staging(V)
    IN  {o \in [sent : SUBSET all, refused : SUBSET (all \cap Refusable)] :
           /\ o.sent \cap o.refused = {}
           /\ \A x \in all : IF Within[x] \cap o.refused # {}
                             THEN x \notin o.sent \cup o.refused
                             ELSE x \in o.sent \cup o.refused}

\* The last JSON line of the CLI: what it counts, and what it says of the items refused.
Printed(o, detail) ==
    [landed |-> Cardinality(o.sent), failed |-> Cardinality(o.refused),
     failures |-> [i \in {j \in o.refused : detail[j] # "missing"} |->
                     IF detail[i] = "named" THEN Base[i] ELSE NoName]]

Upload ==
    /\ pc = "upload" /\ Being("VERIFIED") # {}
    /\ \E o \in Outcomes(Being("VERIFIED")) : \E detail \in [o.refused -> Details] :
         /\ refusals + Cardinality(o.refused) <= MaxRefusals
         /\ refusals' = refusals + Cardinality(o.refused)
         /\ proton' = Lands(o.sent)
         /\ summary' = Printed(o, detail)
    /\ Goto("confirm")
    /\ UNCHANGED <<dropbox, bucket, edits, faults, database, deltaVars, batchOf, batch,
                   status, staged, remaining, lateVars>>

\* Nothing verified: the CLI is not called and confirm has nothing to settle.
SkipUpload ==
    /\ pc = "upload" /\ Being("VERIFIED") = {}
    /\ Goto("merge")
    /\ UNCHANGED <<cloud, bucket, spent, database, deltaVars, batchVars, lateVars>>

\* The CLI times out or signs out: part of the batch is in Proton, no summary is.
UploadDies ==
    /\ pc = "upload" /\ Being("VERIFIED") # {} /\ Fault
    /\ \E sent \in SUBSET Being("VERIFIED") : proton' = Lands(sent)
    /\ remaining' = Left /\ Halt
    /\ UNCHANGED <<dropbox, bucket, edits, refusals, database, deltaVars, batchOf, batch,
                   status, staged, summary, lateVars>>

Settle ==
    /\ pc = "confirm"
    /\ LET V == Being("VERIFIED")
       IN  status' = [p \in Path |-> IF p \in V THEN Verdict(V, Staging(V), summary)[p]
                                     ELSE status[p]]
    /\ Goto("merge")
    /\ UNCHANGED <<cloud, bucket, spent, database, deltaVars, batchOf, batch, staged,
                   summary, remaining, lateVars>>

\* Mutant: every file of the batch is recorded.
CheckpointAll ==
    /\ pc = "merge"
    /\ mirror' = [p \in Path |-> IF p \in Planned /\ batchOf[p] = batch THEN listing[p]
                                 ELSE mirror[p]]
    /\ status' = On(status, Being("CONFIRMED"), "CHECKPOINTED")
    /\ Push("landed")
    /\ UNCHANGED <<cloud, bucket, spent, walk, deltaVars, batchOf, batch, staged, summary,
                   remaining, lateVars>>

\* Mutant: the database is not pushed after a batch.
CheckpointLocal ==
    /\ pc = "merge"
    /\ mirror' = [p \in Path |-> IF p \in Being("CONFIRMED") THEN listing[p] ELSE mirror[p]]
    /\ status' = On(status, Being("CONFIRMED"), "CHECKPOINTED")
    /\ Goto("landed")
    /\ UNCHANGED <<cloud, bucket, spent, walk, deltaVars, batchOf, batch, staged, summary,
                   remaining, lateVars>>

\* checkpoint: the confirmed rows enter the mirror, then the database is pushed.
Checkpoint ==
    /\ pc = "merge"
    /\ mirror' = [p \in Path |-> IF p \in Being("CONFIRMED") THEN listing[p] ELSE mirror[p]]
    /\ status' = On(status, Being("CONFIRMED"), "CHECKPOINTED")
    /\ Push("landed")
    /\ UNCHANGED <<cloud, bucket, spent, walk, deltaVars, batchOf, batch, staged, summary,
                   remaining, lateVars>>

\* A batch that recorded nothing and had failures fails the run.
BatchFailed == Being("CONFIRM_FAILED") # {} /\ Being("CHECKPOINTED") = {}

\* Mutant: the batch counter stands still.
LandedAgain ==
    /\ pc = "landed" /\ ~BatchFailed
    /\ staged' = NoRows
    /\ Goto("next")
    /\ UNCHANGED <<cloud, bucket, spent, database, deltaVars, batchOf, batch, status, summary,
                   remaining, lateVars>>

Landed ==
    /\ pc = "landed"
    /\ staged' = NoRows
    /\ \/ /\ BatchFailed /\ Halt
          /\ remaining' = Left /\ batch' = batch
       \/ /\ ~BatchFailed /\ Goto("next")
          /\ batch' = batch + 1 /\ UNCHANGED remaining
    /\ UNCHANGED <<cloud, bucket, spent, database, deltaVars, batchOf, status, summary,
                   lateVars>>
-----------------------------------------------------------------------------
\* trash.

Trashed(files) == On(proton, files, Absent)

SkipTrash ==
    /\ pc = "trash" /\ (remaining # 0 \/ deleted = {})
    /\ Goto("reconcile")
    /\ UNCHANGED <<cloud, bucket, spent, database, deltaVars, batchVars, lateVars>>

\* Mutant: the trash does not wait for the batches the budget put off.
StartTrashEarly ==
    /\ pc = "trash" /\ deleted # {}
    /\ dirs' = {Home[p] : p \in deleted}
    /\ Goto("trashing")
    /\ UNCHANGED <<cloud, bucket, spent, database, deltaVars, batchVars, deletion, strays,
                   resumed>>

StartTrash ==
    /\ pc = "trash" /\ remaining = 0 /\ deleted # {}
    /\ dirs' = {Home[p] : p \in deleted}
    /\ Goto("trashing")
    /\ UNCHANGED <<cloud, bucket, spent, database, deltaVars, batchVars, deletion, strays,
                   resumed>>

Group(d) == {p \in deleted : Home[p] = d}
Found(d) == {p \in Group(d) : proton[p] # Absent}

\* One listing and one trash call; a deleted file that is not there needs neither.
TrashFolder(d) ==
    /\ pc = "trashing" /\ d \in dirs
    /\ dirs' = dirs \ {d}
    /\ proton' = Trashed(Found(d))
    /\ deletion' = [p \in Path |-> CASE p \in Found(d) -> "TRASHED"
                                     [] p \in Group(d) \ Found(d) -> "NOT_FOUND"
                                     [] OTHER -> deletion[p]]
    /\ UNCHANGED <<dropbox, bucket, spent, database, deltaVars, batchVars, strays, resumed,
                   failed, after, pc>>

\* The listing exhausted its retries: its files keep their rows for tomorrow.
ListingFails(d) ==
    /\ pc = "trashing" /\ d \in dirs /\ Fault
    /\ dirs' = dirs \ {d}
    /\ deletion' = On(deletion, Group(d), "LISTING_FAILED")
    /\ UNCHANGED <<cloud, bucket, edits, refusals, database, deltaVars, batchVars, strays,
                   resumed, failed, after, pc>>

\* The trash call fails part of the way.
TrashDies(d) ==
    /\ pc = "trashing" /\ d \in dirs /\ Fault
    /\ \E gone \in SUBSET Found(d) : proton' = Trashed(gone)
    /\ Halt
    /\ UNCHANGED <<dropbox, bucket, edits, refusals, database, deltaVars, batchVars, lateVars>>

\* Mutant: rows are dropped whether their folder could be listed or not.
EndTrashAll ==
    /\ pc = "trashing" /\ dirs = {}
    /\ mirror' = On(mirror, deleted, Absent)
    /\ Push("reconcile")
    /\ UNCHANGED <<cloud, bucket, spent, walk, deltaVars, batchVars, lateVars>>

\* Mutant: the rows of what was trashed are left to the next reconcile.
EndTrashKeeps ==
    /\ pc = "trashing" /\ dirs = {}
    /\ Push("reconcile")
    /\ UNCHANGED <<cloud, bucket, spent, database, deltaVars, batchVars, lateVars>>

EndTrash ==
    /\ pc = "trashing" /\ dirs = {}
    /\ mirror' = On(mirror, {p \in deleted : deletion[p] \in {"TRASHED", "NOT_FOUND"}}, Absent)
    /\ Push("reconcile")
    /\ UNCHANGED <<cloud, bucket, spent, walk, deltaVars, batchVars, lateVars>>
-----------------------------------------------------------------------------
\* reconcile.

SkipReconcile ==
    /\ pc = "reconcile" /\ (~reconciling \/ remaining # 0)
    /\ Goto("report")
    /\ UNCHANGED <<cloud, bucket, spent, database, deltaVars, batchVars, lateVars>>

\* A walk an earlier run left behind is resumed.
StartWalk ==
    /\ pc = "reconcile" /\ reconciling /\ remaining = 0
    /\ resumed' = (walk.status = "running")
    /\ walk' = IF resumed' THEN walk
               ELSE [status |-> "running", pending |-> Folder \cup {Root}, nodes |-> NoRows]
    /\ Goto("walk")
    /\ UNCHANGED <<cloud, bucket, spent, mirror, deltaVars, batchVars, dirs, deletion, strays>>

\* The nodes of one folder; one without an active revision is listed without its size.
ListFolder(d) ==
    /\ pc \in {"walk", "walking"} /\ d \in walk.pending
    /\ \E sizeless \in SUBSET (IF MayLackSize THEN {p \in Path : proton[p] # Absent} ELSE {}) :
         walk' = [walk EXCEPT
           !.pending = @ \ {d},
           !.nodes = [p \in Path |-> IF Home[p] # d THEN @[p]
                                     ELSE IF p \in sizeless THEN Sizeless ELSE proton[p]]]
    /\ Goto("walking")
    /\ UNCHANGED <<cloud, bucket, spent, mirror, deltaVars, batchVars, lateVars>>

\* The deadline is looked at after a listing: a partial walk drops and trashes nothing, and
\* is pushed for the next one.
StopWalk ==
    /\ pc = "walking" /\ Deadline
    /\ Push("report")
    /\ UNCHANGED <<cloud, bucket, spent, database, deltaVars, batchVars, lateVars>>

\* Mutant: a node of the right name is enough.
MatchesByName(p, u) == walk.nodes[p] # Absent

\* Whether the node the walk found holds what the row says: without a size it does not,
\* without a digest (u being those nodes) the size is enough.
Matches(p, u) ==
    /\ walk.nodes[p] \notin {Absent, Sizeless}
    /\ IF p \in u THEN Size[walk.nodes[p]] = Size[mirror[p]] ELSE walk.nodes[p] = mirror[p]

\* A COMPLETE walk: nothing reads its nodes again, the next one prunes them.
Compared == [status |-> "complete", pending |-> {}, nodes |-> NoRows]

\* Mutant: whatever has no row is a stray.
CorrectRowsOnly ==
    /\ pc \in {"walk", "walking"} /\ walk.pending = {}
    /\ walk' = Compared
    /\ \E u \in SUBSET (IF MayLackDigest THEN Path ELSE {}) :
         mirror' = On(mirror, {p \in Recorded : ~Matches(p, u)}, Absent)
    /\ strays' = {p \in Path : walk.nodes[p] # Absent} \ Recorded
    /\ Goto("strays")
    /\ UNCHANGED <<cloud, bucket, spent, deltaVars, batchVars, dirs, deletion, resumed>>

\* The walk is complete: rows it contradicts are dropped, and nodes neither the rows nor
\* the listing know are strays.
Correct ==
    /\ pc \in {"walk", "walking"} /\ walk.pending = {}
    /\ walk' = Compared
    /\ \E u \in SUBSET (IF MayLackDigest THEN Path ELSE {}) :
         mirror' = On(mirror, {p \in Recorded : ~Matches(p, u)}, Absent)
    /\ strays' = {p \in Path : walk.nodes[p] # Absent} \ (Recorded \cup Downloadable)
    /\ Goto("strays")
    /\ UNCHANGED <<cloud, bucket, spent, deltaVars, batchVars, dirs, deletion, resumed>>

TrashStrays ==
    /\ pc = "strays"
    /\ proton' = Trashed(strays)
    /\ Push("report")
    /\ UNCHANGED <<dropbox, bucket, spent, database, deltaVars, batchVars, lateVars>>

StraysDie ==
    /\ pc = "strays" /\ Fault
    /\ \E gone \in SUBSET strays : proton' = Trashed(gone)
    /\ Halt
    /\ UNCHANGED <<dropbox, bucket, edits, refusals, database, deltaVars, batchVars, lateVars>>
-----------------------------------------------------------------------------
\* report, the push, and a phase that fails.

Report ==
    /\ pc = "report"
    /\ Push("idle")
    /\ UNCHANGED <<cloud, bucket, spent, database, deltaVars, batchVars, lateVars>>

\* The dated copy first,
Put ==
    /\ pc = "put"
    /\ history' = Image
    /\ Goto("copy")
    /\ UNCHANGED <<cloud, canon, spent, database, deltaVars, batchVars, lateVars>>

\* then the canonical key; the report's push is the end of the run.
Copy ==
    /\ pc = "copy"
    /\ canon' = history
    /\ IF after = "idle" THEN EndRun
       ELSE Goto(after) /\ UNCHANGED <<database, deltaVars, batchVars, lateVars>>
    /\ UNCHANGED <<cloud, history, spent>>

\* The bucket does not answer: the phase fails, and when it is the report the run is over.
PushFails ==
    /\ pc \in {"put", "copy"} /\ Fault
    /\ CASE after = "idle"   -> EndRun
         [] after = "landed" -> /\ remaining' = Left /\ Halt
                                /\ UNCHANGED <<database, deltaVars, batchOf, batch, status,
                                               staged, summary, lateVars>>
         [] OTHER            -> Halt /\ UNCHANGED <<database, deltaVars, batchVars, lateVars>>
    /\ UNCHANGED <<cloud, bucket, edits, refusals>>

\* Any phase may raise for a reason of its own.
PhaseFails ==
    \/ /\ pc \in BatchStep \ {"next"} /\ Fault /\ FailBatch
    \/ /\ pc \in {"inventory", "delta", "plan", "next", "trash", "trashing", "reconcile",
                  "walk", "walking", "strays"}
       /\ Fault /\ Halt
       /\ UNCHANGED <<cloud, bucket, edits, refusals, database, deltaVars, batchVars, lateVars>>
-----------------------------------------------------------------------------
Outside == (\E p \in Path : HandUpload(p) \/ \E v \in EditValues[p] : Edit(p, v)) \/ Rollback
Pipeline ==
    \/ \E p \in Path : ListEntry(p) \/ FetchItem(p) \/ FetchFails(p)
    \/ Delta \/ RefuseListing \/ Plan
    \/ EndBatches \/ StartBatch \/ Verify \/ VerifyFails \/ Upload \/ SkipUpload
    \/ Settle \/ Checkpoint \/ Landed
    \/ SkipTrash \/ StartTrash \/ EndTrash
    \/ \E d \in Folder \cup {Root} : TrashFolder(d) \/ ListFolder(d)
    \/ SkipReconcile \/ StartWalk \/ StopWalk \/ Correct \/ TrashStrays
    \/ Report \/ Put \/ Copy
Failure ==
    \/ Crash \/ PhaseFails \/ PushFails \/ UploadDies \/ StraysDie
    \/ \E p \in Path : FetchCorrupt(p)
    \/ \E d \in Folder \cup {Root} : ListingFails(d) \/ TrashDies(d)

Next == Outside \/ (\E r \in BOOLEAN : StartRun(r)) \/ Pipeline \/ Failure

Spec == Init /\ [][Next]_vars
=============================================================================
