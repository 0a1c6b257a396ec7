-------------------------- MODULE MirrorProperties --------------------------
(***************************************************************************)
(* What the mirror promises: the properties the runs of Mirror check.      *)
(***************************************************************************)
EXTENDS Mirror

\* The rows that count: the local database during a run, the bucket's between runs.
Rowed == IF pc # "idle" THEN mirror ELSE IF canon = NoImage THEN NoRows ELSE canon.mirror

\* Proton already changed, the row not yet: an upload or a trash under way.
InFlight(p) ==
    \/ p \in Being("VERIFIED") \cup Being("CONFIRMED")
    \/ pc = "trashing" /\ deletion[p] = "TRASHED"

\* While the machine, the network and the CLI behave, the CLI refuses files only and names
\* each by a basename no other file has, and every walk is finished by the run that began it
\* and finds each file's size, mirror_objects is Proton's listing: refusals, edits in mid-run
\* and budget stops leave no row stale and no node untracked, but for an upload or a trash
\* under way and an upload the owner made by hand.
MirrorIsProton ==
    faults = 0 => \A p \in Path : Rowed[p] = proton[p] \/ InFlight(p) \/ proton[p] \in Oversized

\* What the run itself sets aside and counts in its report: a file to be uploaded that is too
\* large, vanished, did not match or was not confirmed, a deletion whose folder was not listed.
Counted(p) ==
    \/ p \in changed /\ listing[p] \in Oversized
    \/ status[p] \in {"VANISHED", "HASH_MISMATCH", "CONFIRM_FAILED"}
    \/ deletion[p] = "LISTING_FAILED"

\* An upload by hand (README.md:26) the run cannot see, and does not count: a file too large
\* is in Proton, but Dropbox is back at the revision on record, or has no such file any more
\* and no row tells of it.  The second is found by the next walk and trashed as a stray; the
\* row of the first is dropped by it, for the run after to upload the file again.
UnseenHandUpload(p) ==
    /\ proton[p] \in Oversized /\ p \notin changed \cup deleted
    /\ reconciling => p \in Downloadable

\* README.md:6 "After each run Proton Drive holds what Dropbox held at listing time":
\* whenever a run in which no phase failed and no batch is left reaches its report, but for
\* the files it counts as set aside and for an upload by hand it cannot see.
RunHoldsListing ==
    pc = "report" /\ ~failed /\ remaining = 0 =>
      \A p \in Path :
        \/ proton[p] = IF listing[p] \in Content THEN listing[p] ELSE Absent
        \/ Counted(p) \/ UnseenHandUpload(p)

\* A row enters mirror_objects only while Proton holds exactly that content there: no
\* failed, partial or unaccounted upload is ever recorded (batch.confirm, checkpoint).
NothingRecordedUnheld ==
    [][pc # "idle" => \A p \in Path : mirror'[p] \in {mirror[p], Absent, proton[p]}]_vars

\* README.md:63 "so a killed run repeats at most one" batch: while the batches run, the
\* bucket already has the rows of every batch but the one under way.
KilledRunRepeatsOneBatch ==
    pc \in BatchStep => \A p \in Planned :
      batchOf[p] < batch /\ status[p] = "CHECKPOINTED" =>
        canon # NoImage /\ canon.mirror[p] = listing[p]

\* Nothing Dropbox listed as downloadable leaves Proton, by trash or as a stray.
NeverTrashListed ==
    [][\A p \in Path : proton[p] # Absent /\ proton'[p] = Absent => listing[p] \notin Content]_vars

\* A file moved in Dropbox is a deletion and a new file: the old copy goes to the trash only
\* when every planned file of the run has been attempted (README.md:64).
TrashAfterBatches ==
    [][(\E p \in Path : proton[p] # Absent /\ proton'[p] = Absent) =>
         \A q \in Path : status[q] # "PLANNED"]_vars

\* A row is given up only when Proton does not hold what it says, or when the walk now
\* compared found the file without a size (p60_reconcile.py:60); a walk an earlier run began
\* is left out.  A folder that could not be listed keeps its rows (p50_trash), a digest not
\* computed yet is no mismatch (p60_reconcile).
DropsOnlyContradicted ==
    [][pc # "idle" /\ pc' # "idle" /\ ~resumed =>
         \A p \in Path : mirror'[p] # mirror[p] /\ mirror'[p] = Absent =>
           proton[p] # mirror[p] \/ (pc \in {"walk", "walking"} /\ walk.nodes[p] = Sizeless)]_vars

\* README.md:74 "compares Proton's own listing against the state independently of anything a
\* batch claimed": after a walk of this run every row left is what Proton holds, whatever
\* crash or lost summary came before; without the digests, it has the size.
ReconcileRepairs ==
    pc = "strays" /\ ~resumed =>
      \A p \in Recorded : /\ proton[p] # Absent
                          /\ Size[proton[p]] = Size[mirror[p]]
                          /\ ~MayLackDigest => proton[p] = mirror[p]
-----------------------------------------------------------------------------
\* Liveness.  The scheduler starts a run every night and some of them reconcile; a run goes
\* on as long as nothing fails; the operator rolls a lost state object back.
Fairness ==
    /\ WF_vars(Pipeline)
    /\ WF_vars(Rollback)
    /\ SF_vars(StartRun(TRUE))
FairSpec == Spec /\ Fairness

Synced == \A p \in Path : proton[p] = IF dropbox[p] \in Content THEN dropbox[p] ELSE Absent

\* The owner deleted so much at once that every run refuses the listing.
Refused ==
    LET rows == {p \in Path : Rowed[p] # Absent}
        share == (Cardinality(rows) * FloorNum) \div FloorDen
    IN  rows # {} /\ Cardinality({p \in Path : dropbox[p] \in Content})
                       < (IF share > 1 THEN share ELSE 1)

\* When Dropbox, the failures and the refusals have come to rest, Proton Drive comes to hold
\* what Dropbox holds and keeps it, whatever was lost, repeated or half done before.
Convergence == <>[](pc = "idle" => Synced \/ Refused)
-----------------------------------------------------------------------------
\* The inductive invariant behind the theorems of MirrorProofs.

\* The batches phase, with the push that ends each batch.
Batching == pc \in BatchStep \/ (pc \in {"put", "copy"} /\ after = "landed")

\* Only what this run listed as downloadable is planned, and nothing before it is listed.
PlansListed ==
    /\ changed \cup Planned \subseteq Downloadable
    /\ pc \in {"idle", "inventory"} => changed \cup Planned = {}

\* Batches run in order: every file of a later batch still waits,
LaterWait ==
    Batching => \A p \in Planned :
      batchOf[p] > batch \/ (pc = "next" /\ batchOf[p] = batch) => status[p] = "PLANNED"

\* and the files of the batch under way are no further than its step: none is confirmed
\* before confirm, and a verified file is staged with the content that was listed.
StepsInOrder ==
    /\ pc \in {"fetch", "verify"} => Being("VERIFIED") = {}
    /\ pc \in {"fetch", "verify", "upload", "confirm"} => Being("CONFIRMED") = {}
    /\ pc \in {"upload", "confirm"} => \A p \in Being("VERIFIED") : staged[p] = listing[p]

\* A checkpointed row is in the database and, once its push is over, in the bucket.
Durable ==
    /\ pc = "copy" => history = Image
    /\ Batching => \A p \in Planned : status[p] = "CHECKPOINTED" =>
         /\ mirror[p] = listing[p]
         /\ pc \in BatchStep => canon # NoImage /\ canon.mirror[p] = listing[p]

\* Every step of a run keeps the types and, batch by batch, the order of the work.
InOrder == TypeOK /\ PlansListed /\ LaterWait /\ StepsInOrder /\ Durable

\* The summary is what the CLI prints of the outcome o.
Explains(o) == \E detail \in [o.refused -> Details] : summary = Printed(o, detail)

\* Between the upload and the checkpoint: the summary is that of an upload whose sent
\* files are in Proton, and every confirmed file is one of them.
Held ==
    /\ pc = "confirm" => \E o \in Outcomes(Being("VERIFIED")) :
         /\ Explains(o)
         /\ \A p \in Being("VERIFIED") \cap o.sent : proton[p] = listing[p]
    /\ pc = "merge" => \A p \in Being("CONFIRMED") : proton[p] = listing[p]
-----------------------------------------------------------------------------
\* What the trash and the reconcile rely on: the invariants behind the first theorems of RunProofs.

\* Nothing this run listed as downloadable is to leave Proton.
Doomed ==
    /\ (deleted \cup strays) \cap Downloadable = {}
    /\ pc \in {"idle", "inventory"} => deleted \cup strays = {}

\* Batches are numbered without gaps and worked off in order: a file still PLANNED is of a
\* batch to come, or of the one being fetched.
Attempted ==
    /\ \A p \in Path : status[p] = "PLANNED" => p \in Planned
    /\ pc \in {"idle", "inventory", "delta", "plan"} => Planned = {} /\ batch = 1
    /\ Batching => /\ {batchOf[p] : p \in Planned} = 1..Batches
                   /\ \A p \in Planned : batchOf[p] < batch => status[p] # "PLANNED"
                   /\ pc \notin {"next", "fetch"} => Being("PLANNED") = {}

\* From the trash on, a run without batches left has attempted every planned file; the trash
\* and the walk only begin in such a run.
Late == pc \in {"trash", "trashing", "reconcile", "walk", "walking", "strays"}
        \/ (pc \in {"put", "copy"} /\ after = "reconcile")
AllAttempted ==
    /\ Late /\ remaining = 0 => \A p \in Path : status[p] # "PLANNED"
    /\ pc \in {"trashing", "walk", "walking", "strays"} => remaining = 0

\* A deletion recorded as done is one: the file is not in Proton.
TrashedGone ==
    /\ pc \in {"idle", "inventory", "delta", "plan", "trash"} \/ Batching =>
         \A p \in Path : deletion[p] = "NONE"
    /\ pc = "trashing" =>
         \A p \in Path : deletion[p] \in {"TRASHED", "NOT_FOUND"} => proton[p] = Absent

\* A walk of this run has what Proton holds in every folder it has listed.
WalkedNow ==
    pc \in {"walk", "walking"} /\ ~resumed =>
      \A p \in Path : Home[p] \notin walk.pending =>
        \/ walk.nodes[p] = proton[p]
        \/ MayLackSize /\ walk.nodes[p] = Sizeless /\ proton[p] # Absent

Careful == Doomed /\ Attempted /\ AllAttempted /\ TrashedGone /\ WalkedNow /\ ReconcileRepairs
-----------------------------------------------------------------------------
\* Runs without a fault: the invariant behind the other theorems of RunProofs.

\* The CLI names each file it refuses by a basename no other file has, and refuses no
\* directory; every walk is finished by the run that began it, and finds each file's size.
Plainly ==
    /\ Details \subseteq {"named"} /\ Refusable \subseteq Path /\ ~Deadline /\ ~MayLackSize
    /\ \A p, q \in Path : Base[p] = Base[q] => p = q

\* The row is what Proton has there, but for an upload made by hand.
Agrees(p) == mirror[p] = proton[p] \/ proton[p] \in Oversized

\* Rows and Proton differ only between a change in Proton and the end of its batch or trash.
RowsAgree ==
    /\ pc = "idle" => \A p \in Path : Rowed[p] = proton[p] \/ proton[p] \in Oversized
    /\ pc = "confirm" => \E o \in Outcomes(Being("VERIFIED")) :
         Explains(o) /\ \A p \in Path \ o.sent : Agrees(p)
    /\ pc = "merge" => \A p \in Path \ Being("CONFIRMED") : Agrees(p)
    /\ pc = "trashing" => \A p \in Path :
         Agrees(p) \/ (p \in deleted /\ deletion[p] = "TRASHED")
    /\ pc \notin {"idle", "confirm", "merge", "trashing"} => \A p \in Path : Agrees(p)

\* No state anywhere has a walk to be resumed, and a bucket with a copy has the state.
WalksEnd ==
    /\ walk.status = "running" => pc \in {"walk", "walking"}
    /\ \A s \in {canon, history} \ {NoImage} : s.walk.status # "running"
    /\ ~resumed
    /\ canon = NoImage => history = NoImage \/ pc = "copy"

\* A folder is emptied once, of all that is to go; no stray has a row.
Emptied ==
    /\ pc = "trashing" => \A p \in Path :
         /\ deletion[p] = "TRASHED" => Home[p] \notin dirs
         /\ p \in deleted /\ deletion[p] = "NONE" => Home[p] \in dirs
    /\ pc = "strays" => \A p \in strays : mirror[p] = Absent

\* Every file of a batch that was worked off has come to an end, and each step leaves no
\* file of its batch in the state it takes it from.
SetAside == {"VANISHED", "HASH_MISMATCH", "CONFIRM_FAILED"}
BatchesEnd ==
    Batching =>
      /\ \A p \in Planned : /\ status[p] # "NONE"
                            /\ batchOf[p] < batch => status[p] \in SetAside \cup {"CHECKPOINTED"}
      /\ pc \notin {"next", "fetch", "verify"} => Being("FETCHED") = {}
      /\ pc \notin {"next", "fetch", "verify", "upload", "confirm"} => Being("VERIFIED") = {}
      /\ pc \notin {"next", "fetch", "verify", "upload", "confirm", "merge"} =>
           Being("CONFIRMED") = {}

\* The end of a run in which no phase failed and no batch is left.
Whole == ~failed /\ remaining = 0
         /\ (Late \/ pc = "report" \/ (pc \in {"put", "copy"} /\ after = "report"))

\* Every file listed has its row or is to be uploaded, unless it is too large, and what a batch
\* recorded is in Proton; at the end the file is in Proton, or counted, or hidden by an upload
\* made by hand.
ListedHasRow ==
    /\ pc = "plan" \/ Batching => \A p \in Downloadable : mirror[p] = listing[p] \/ p \in changed
    /\ Batching => \A p \in Downloadable :
         /\ p \in changed => listing[p] \in Oversized \/ p \in Planned
         /\ p \in Planned /\ status[p] = "CHECKPOINTED" => proton[p] = listing[p]
    /\ Whole => \A p \in Downloadable :
         \/ proton[p] = listing[p] \/ Counted(p)
         \/ proton[p] \in Oversized /\ p \notin changed

\* Every row of a file not listed is to be deleted, and then its file is gone or its folder was
\* not listed; a file without a row is a stray, if the run looks for strays.
RowIsListed ==
    /\ pc \in {"plan", "trash", "trashing"} \/ Batching =>
         \A p \in Path \ Downloadable : mirror[p] = Absent \/ p \in deleted
    /\ Whole /\ pc \notin {"trash", "trashing"} => \A p \in Path \ Downloadable :
         IF p \in deleted THEN proton[p] = Absent \/ deletion[p] = "LISTING_FAILED"
                          ELSE mirror[p] = Absent
    /\ pc = "strays" /\ ~failed => \A p \in Path \ (Downloadable \cup deleted) :
         proton[p] = Absent \/ p \in strays
    /\ Whole /\ reconciling /\ ~Late =>
         \A p \in Path \ (Downloadable \cup deleted) : proton[p] = Absent

Steady == RowsAgree /\ WalksEnd /\ Emptied /\ BatchesEnd /\ ListedHasRow /\ RowIsListed
=============================================================================
