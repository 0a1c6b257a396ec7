------------------------------ MODULE FetchPool ------------------------------
(***************************************************************************)
(* The batches of one run up to their upload: the plan packs the changed   *)
(* files, a pool of workers downloads a batch into the staging directory,  *)
(* the main thread collects the downloads in order, and verify compares    *)
(* what is staged with what was listed.                                    *)
(*                                                                         *)
(* A download writes to a temporary name beside its target and renames it  *)
(* when complete.  Staging is a directory in the sense of the file system: *)
(* names that refer to files (inodes, named here by the download that      *)
(* created them), and a file that lost its name lives on for the download  *)
(* that has it open.                                                       *)
(*                                                                         *)
(* pc is plan, next, fetch, verify, upload, done or failed.                *)
(***************************************************************************)
EXTENDS Packing, FiniteSets

CONSTANTS
    File,
    Order,         \* the files in the order of their paths
    Part,          \* the temporary name of each download
    Content, Size, \* what a file may hold when it is listed, and how large it is
    Other,         \* any other content
    Partial,       \* a file still being written
    None,
    Workers,       \* dropbox.download_workers
    MaxAttempts,   \* dropbox.max_attempts
    Disk           \* the bytes that may be free when the run plans

Name == File \cup {Part[f] : f \in File}

ASSUME PoolAssumption ==
    /\ Order \in Seq(File) /\ ToSet(Order) = File
    /\ \A i, j \in DOMAIN Order : Order[i] = Order[j] => i = j
    /\ \A f \in File : Part[f] # f
    /\ \A f, g \in File : Part[f] = Part[g] => f = g
    /\ Size \in [Content -> Nat] /\ Disk \subseteq Nat
    /\ Other \notin Content /\ Partial \notin Content /\ Other # Partial
    /\ None \notin Name
    /\ {Workers, MaxAttempts} \subseteq Nat \ {0}

VARIABLES
    listed,      \* the content each changed file was listed with
    free,        \* the bytes left on the disk
    batches, number,       \* the plan, and the batch under way
    status,      \* batch_items.status
    task,        \* how far each download is
    attempt,     \* how many of its requests failed
    handle,      \* the file each download has open
    names,       \* the staging directory: the file each name refers to
    data,        \* what each file holds
    collected,   \* how many downloads of the batch the main thread has collected
    error,       \* whether one of them raised
    pc

plan == <<listed, free, batches>>
pool == <<task, attempt, handle>>
disk == <<names, data>>
vars == <<plan, number, status, pool, disk, collected, error, pc>>

SizeOf  == [f \in File |-> Size[listed[f]]]
Batch   == IF number \in DOMAIN batches THEN batches[number] ELSE <<>>
Being(s) == {f \in ToSet(Batch) : status[f] = s}
Empty   == [n \in Name |-> None]

TypeOK ==
    /\ listed \in [File -> Content] /\ free \in Disk
    /\ batches \in Seq(Seq(File)) /\ number \in 1..(Len(batches) + 1)
    /\ status \in [File -> {"NONE", "PLANNED", "VANISHED", "FETCHED", "HASH_MISMATCH", "VERIFIED"}]
    /\ task \in [File -> {"idle", "queued", "asking", "writing", "done", "gone", "raised"}]
    /\ attempt \in [File -> 0..MaxAttempts]
    /\ handle \in [File -> File \cup {None}]
    /\ names \in [Name -> File \cup {None}]
    /\ data \in [File -> Content \cup {Other, Partial}]
    /\ collected \in 0..Len(Batch) /\ error \in BOOLEAN
    /\ pc \in {"plan", "next", "fetch", "verify", "upload", "done", "failed"}

Idle ==
    /\ task = [f \in File |-> "idle"] /\ attempt = [f \in File |-> 0]
    /\ handle = [f \in File |-> None]

Init ==
    /\ listed \in [File -> Content] /\ free \in Disk
    /\ batches = <<>> /\ number = 1
    /\ status = [f \in File |-> "NONE"]
    /\ Idle /\ names = Empty /\ data = [f \in File |-> Partial]
    /\ collected = 0 /\ error = FALSE /\ pc = "plan"
-----------------------------------------------------------------------------
\* plan.

Plan ==
    LET rows == Fitting(Order, SizeOf, free)
    IN  /\ pc = "plan"
        /\ Largest(rows, SizeOf) = 0 \/ free >= Needed(rows, SizeOf)
        /\ batches' = Pack(rows, SizeOf)
        /\ status' = [f \in File |-> IF f \in ToSet(rows) THEN "PLANNED" ELSE "NONE"]
        /\ pc' = "next"
        /\ UNCHANGED <<listed, free, number, pool, disk, collected, error>>

\* "disk cannot hold a batch"
RefusePlan ==
    LET rows == Fitting(Order, SizeOf, free)
    IN  /\ pc = "plan"
        /\ Largest(rows, SizeOf) # 0 /\ free < Needed(rows, SizeOf)
        /\ pc' = "failed"
        /\ UNCHANGED <<plan, number, status, pool, disk, collected, error>>

\* fetch owns staging: it clears it and queues every file of the batch.
StartBatch ==
    /\ pc = "next" /\ number <= Len(batches)
    /\ names' = Empty
    /\ task' = [f \in File |-> IF f \in ToSet(Batch) THEN "queued" ELSE "idle"]
    /\ attempt' = [f \in File |-> 0] /\ handle' = [f \in File |-> None]
    /\ collected' = 0 /\ error' = FALSE
    /\ pc' = "fetch"
    /\ UNCHANGED <<plan, number, status, data>>

EndBatches ==
    /\ pc = "next" /\ number > Len(batches)
    /\ pc' = "done"
    /\ UNCHANGED <<plan, number, status, pool, disk, collected, error>>
-----------------------------------------------------------------------------
\* The workers.  A download asks, writes and renames; it asks again when it is told to wait
\* or the connection drops, as often as max_attempts allows.

Busy == {f \in File : task[f] \in {"asking", "writing"}}

\* Submitted before every other download that no worker has taken.
NextQueued(f) == \E i \in DOMAIN Batch :
    /\ f = Batch[i] /\ task[f] = "queued"
    /\ \A j \in 1..(i - 1) : task[Batch[j]] # "queued"

Becomes(f, t) == task' = [task EXCEPT ![f] = t]
Pooled == UNCHANGED <<plan, number, status, collected, error, pc>>

\* A worker takes the downloads in the order they were submitted.
Take(f) ==
    /\ pc = "fetch" /\ NextQueued(f) /\ Cardinality(Busy) < Workers
    /\ Becomes(f, "asking")
    /\ UNCHANGED <<attempt, handle, disk>> /\ Pooled

\* The answer is 200: the temporary file is opened for writing, which empties the file that
\* has the name already.
Open(f) ==
    /\ task[f] = "asking"
    /\ handle' = [handle EXCEPT ![f] = IF names[Part[f]] = None THEN f ELSE names[Part[f]]]
    /\ names' = [names EXCEPT ![Part[f]] = handle'[f]]
    /\ data' = [data EXCEPT ![handle'[f]] = Partial]
    /\ Becomes(f, "writing")
    /\ UNCHANGED attempt /\ Pooled

NotFound(f) ==
    /\ task[f] = "asking" /\ Becomes(f, "gone")
    /\ UNCHANGED <<attempt, handle, disk>> /\ Pooled

\* An answer no retry helps against.
Refused(f) ==
    /\ task[f] = "asking" /\ Becomes(f, "raised")
    /\ UNCHANGED <<attempt, handle, disk>> /\ Pooled

\* Mutant: the attempts are not counted.
RetryForever(f) == Becomes(f, "asking") /\ UNCHANGED attempt

\* Mutant: one attempt too many.
RetryOnceMore(f) ==
    /\ attempt' = [attempt EXCEPT ![f] = @ + 1]
    /\ Becomes(f, IF attempt'[f] > MaxAttempts THEN "raised" ELSE "asking")

Retry(f) ==
    /\ attempt' = [attempt EXCEPT ![f] = @ + 1]
    /\ Becomes(f, IF attempt'[f] = MaxAttempts THEN "raised" ELSE "asking")

Throttled(f) ==
    /\ task[f] = "asking" /\ Retry(f)
    /\ UNCHANGED <<handle, disk>> /\ Pooled

\* Mutant: the half-written file is left where it is.
DropsLeaving(f) ==
    /\ task[f] = "writing" /\ Retry(f)
    /\ handle' = [handle EXCEPT ![f] = None]
    /\ UNCHANGED disk /\ Pooled

\* The connection drops in the middle: whatever has the temporary name is removed.
Drops(f) ==
    /\ task[f] = "writing" /\ Retry(f)
    /\ handle' = [handle EXCEPT ![f] = None]
    /\ names' = [names EXCEPT ![Part[f]] = None]
    /\ UNCHANGED data /\ Pooled

\* The last byte is written, and whatever has the temporary name takes the target's; when
\* nothing has it, os.replace raises.
Complete(f, c) ==
    /\ task[f] = "writing"
    /\ data' = [data EXCEPT ![handle[f]] = c]
    /\ handle' = [handle EXCEPT ![f] = None]
    /\ IF names[Part[f]] = None
       THEN Becomes(f, "raised") /\ UNCHANGED names
       ELSE /\ Becomes(f, "done")
            /\ names' = [names EXCEPT ![f] = names[Part[f]], ![Part[f]] = None]
    /\ UNCHANGED attempt /\ Pooled
-----------------------------------------------------------------------------
\* The main thread.

\* The next download in order has a result; an error waits until the pool has drained.
Collect ==
    /\ pc = "fetch" /\ collected < Len(Batch)
    /\ LET f == Batch[collected + 1]
       IN  /\ task[f] \in {"done", "gone", "raised"}
           /\ status' = [status EXCEPT ![f] = CASE task[f] = "done" -> "FETCHED"
                                                [] task[f] = "gone" -> "VANISHED"
                                                [] OTHER -> @]
           /\ error' = (error \/ task[f] = "raised")
    /\ collected' = collected + 1
    /\ UNCHANGED <<plan, number, pool, disk, pc>>

EndFetch ==
    /\ pc = "fetch" /\ collected = Len(Batch)
    /\ pc' = IF error THEN "failed" ELSE "verify"
    /\ UNCHANGED <<plan, number, status, pool, disk, collected, error>>

Lost       == {f \in Being("FETCHED") : names[f] = None}
Mismatched == {f \in Being("FETCHED") : names[f] # None /\ data[names[f]] # listed[f]}

Corrupt    == Mismatched # {} /\ Mismatched = Being("FETCHED")

\* Files are hashed in order, and what mismatches is removed, until one is not there.
Hashed == {Batch[i] : i \in {j \in DOMAIN Batch : \A k \in 1..j : Batch[k] \notin Lost}}
          \cap Being("FETCHED")
HashFiles ==
    /\ status' = [f \in File |-> CASE f \in Hashed \cap Mismatched -> "HASH_MISMATCH"
                                   [] f \in Hashed \ Mismatched -> "VERIFIED"
                                   [] OTHER -> status[f]]
    /\ names' = [n \in Name |-> IF n \in Hashed \cap Mismatched THEN None ELSE names[n]]
    /\ UNCHANGED <<plan, number, pool, data, collected, error>>

Verify ==
    /\ pc = "verify" /\ Lost = {} /\ ~Corrupt
    /\ HashFiles
    /\ pc' = "upload"

\* A fetched file is not there to be hashed, or every file of the batch mismatches.
VerifyFails ==
    /\ pc = "verify" /\ (Lost # {} \/ Corrupt)
    /\ HashFiles
    /\ pc' = "failed"

\* upload, confirm and checkpoint; what is staged is sent, then removed.
Land ==
    /\ pc = "upload"
    /\ number' = number + 1 /\ collected' = 0 /\ names' = Empty
    /\ pc' = "next"
    /\ UNCHANGED <<plan, status, pool, data, error>>

Ended == pc \in {"done", "failed"} /\ UNCHANGED vars
-----------------------------------------------------------------------------
Download(f) ==
    \/ Take(f) \/ Open(f) \/ NotFound(f) \/ Refused(f) \/ Throttled(f) \/ Drops(f)
    \/ Complete(f, listed[f]) \/ Complete(f, Other)
Main == Plan \/ RefusePlan \/ StartBatch \/ EndBatches \/ Collect \/ EndFetch \/ Verify
        \/ VerifyFails \/ Land
Next == (\E f \in File : Download(f)) \/ Main \/ Ended

Spec == Init /\ [][Next]_vars
=============================================================================
