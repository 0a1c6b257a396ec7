--------------------------- MODULE PoolProperties ---------------------------
(***************************************************************************)
(* What plan, fetch and verify promise: the properties the runs of         *)
(* FetchPool check.                                                        *)
(***************************************************************************)
EXTENDS FetchPool

\* upload hands the CLI whatever staging holds, and confirm counts it: it holds the verified
\* files with the content that was listed and nothing else, whatever was retried, dropped or
\* renamed by two downloads at once, and whatever the batch before left there.
StagedIsVerified ==
    pc = "upload" =>
      /\ {n \in Name : names[n] # None} = Being("VERIFIED")
      /\ \A f \in Being("VERIFIED") : data[names[f]] = listed[f]

\* "disk cannot hold a batch" (p30_plan) is found out before any batch starts: whatever the
\* plan makes of sizes and limits, each batch and the headroom fit on the disk, and no batch
\* is larger than batch_gb or batch_files but a single file.
BatchesFit ==
    \A k \in DOMAIN batches :
      /\ Bytes(batches[k], SizeOf) + Headroom <= free
      /\ Len(batches[k]) = 1 \/ Bytes(batches[k], SizeOf) <= BatchBytes
      /\ Len(batches[k]) \in 1..BatchFiles

\* Every changed file the disk can stage is in one batch, in the order of the paths.
EveryFilePlanned ==
    pc \notin {"plan", "failed"} =>
      LET all == FlattenSeq(batches)
    IN  /\ ToSet(all) = {f \in File : SizeOf[f] <= FileCap(free)}
        /\ \E at \in [DOMAIN all -> DOMAIN Order] :
             /\ \A i \in DOMAIN all : all[i] = Order[at[i]]
             /\ \A i, j \in DOMAIN all : i < j => at[i] < at[j]

\* "each lands at its path_display under staging" (batch.fetch): a file recorded as FETCHED
\* is there when verify comes to hash it.
FetchedIsStaged == pc = "verify" => Lost = {}
-----------------------------------------------------------------------------
\* Liveness.  The workers and the main thread go on; requests time out.
Fairness == WF_vars(Main) /\ \A f \in File : WF_vars(Download(f))
FairSpec == Spec /\ Fairness

\* However often the network drops and the service throttles, a batch's fetch ends: its
\* retries are counted, and an error never leaves the pool waiting.
FetchEnds == pc = "fetch" ~> pc # "fetch"
=============================================================================
