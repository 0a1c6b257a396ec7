--------------------------- MODULE WalkProperties ---------------------------
(***************************************************************************)
(* What the walk promises: the properties the runs of SessionWalk check.   *)
(***************************************************************************)
EXTENDS SessionWalk

\* The rows of proton_snapshots and proton_folders are the queue's state; queues, flights,
\* results and tokens are how the walk gets through it.
Queue == INSTANCE FolderQueue
         WITH status <- status, pending <- pending, listed <- listed, saved <- saved

\* The workers, their queues and their failures implement one queue of folders: whatever
\* is listed twice, taken from another worker or lost with the machine, a walk resumes
\* where the bucket left it and completes only with every folder listed
\* (proton_cli.inventory, proton_folders).
WalksOneQueue == Queue!Spec

Walking == pc \in {"dispatch", "wait", "drain", "decide", "adopt", "join", "fail"}

\* Every pending folder is in one worker's queue or under way with one worker, and no other
\* folder is: none is lost when its listing fails and none is listed by two workers, so
\* _close_snapshot never finds "Proton folder queue is incomplete".
FolderInOnePlace ==
    Walking => \A f \in Folder :
      Cardinality({w \in Worker : f \in queue[w]}) + Cardinality({w \in Worker : flight[w] = f})
        = IF f \in pending THEN 1 ELSE 0

\* A complete snapshot is of the whole tree: reconcile compares the rows with nothing less.
WholeTree == status = "complete" => listed = Folder

\* A token that lapses under the workers costs at most one rescue (_Walk.RESCUES = 3): the
\* walk is given up only for a listing that failed or for more lapses than rescues.
LapsesAreRescued ==
    /\ rescues <= lapses
    /\ pc = "fail" => errors > 0 \/ lapses > Rescues

\* The run leaves the bucket with the session the server accepts, whichever worker refreshed
\* it last: WorkerSessions, "the copy a successful refresh rewrote is adopted afterwards".
SessionKept == pc = "off" => sealed = valid

\* A walk that lists the last folder leaves it there whatever lapsed and was rescued on the
\* way; only a walk that is stopped, raises or is lost with its machine may not.
CompletionKeepsSession ==
    [][pc = "join" /\ status' = "complete" => sealed' = valid']_vars
-----------------------------------------------------------------------------
\* Liveness.  Runs reconcile again and again, their processes end, and the operator signs in
\* when run after run is refused.
Fairness ==
    /\ WF_vars(Main)
    /\ \A w \in Worker : WF_vars(Call(w))
    /\ SF_vars(Seal)
FairSpec == Spec /\ Fairness

\* README.md:65 "A walk that does not fit one run resumes on the next": however early every
\* run is stopped, the walk completes in the end, and so does the one after it.
WalkCompletes == []<>(status = "complete")
-----------------------------------------------------------------------------
\* The inductive invariant behind the theorems of WalkProofs.

\* Before the walk and after it nothing is under way, and no worker has a copy.
AtRest ==
    ~Walking =>
      /\ \A w \in Worker : /\ queue[w] = {} /\ flight[w] = Nothing
                           /\ result[w] = "none" /\ copies[w] = 0
      /\ rescues = 0 /\ outcome = "ok" /\ ~stopped
      /\ pc = "off" => main = 0

\* What a snapshot knows of the tree: the root and the subfolders of what is listed.
KnowsTree(s) ==
    /\ s.pending \cap s.listed = {}
    /\ s.status = "running" =>
         s.pending \cup s.listed = {Root} \cup UNION {Children[f] : f \in s.listed}
    /\ s.status = "complete" => s.listed = Folder

TreeKnown ==
    /\ KnowsTree(walk) /\ KnowsTree(saved)
    /\ Walking => status = "running"

\* FolderInOnePlace without counting.
OnePlace ==
    /\ \A w \in Worker : queue[w] \subseteq pending
    /\ \A w \in Worker : flight[w] # Nothing => flight[w] \in pending
    /\ \A w, v \in Worker : w # v => queue[w] \cap queue[v] = {}
    /\ \A w, v \in Worker : w # v /\ flight[w] # Nothing => flight[w] # flight[v]
    /\ \A w, v \in Worker : flight[w] \notin queue[v]
    /\ \A w \in Worker : result[w] # "none" => flight[w] # Nothing
    /\ Walking => \A f \in pending : \E w \in Worker : f \in queue[w] \/ flight[w] = f

\* A token somebody holds is the newest, or has lapsed.
Good(t) == t <= valid /\ (t = valid \/ t <= lapsed)

TokensKept ==
    /\ valid >= 1 /\ lapsed <= valid /\ (lapsed >= 1 => lapses >= 1)
    /\ Good(main) /\ Good(sealed) /\ \A w \in Worker : Good(copies[w])
    /\ pc = "open" => main = valid
    /\ Walking => \E w \in Worker : copies[w] = valid

\* Every rescue used up a lapse: a copy that is not the newest token is one that was left
\* behind by a refresh, and a refresh needs a lapse.
Behind == IF \E w \in Worker : copies[w] # valid THEN 1 ELSE 0
Due    == IF lapsed = valid THEN 1 ELSE 0

LapsesCounted == Walking => rescues + Behind + Due <= lapses

\* An outcome has its reason.
OutcomeExplained ==
    /\ \A w \in Worker : result[w] = "auth" => copies[w] = 0
    /\ \A w \in Worker : result[w] = "error" => errors > 0
    /\ outcome = "auth" => \E w \in Worker : copies[w] = 0
    /\ outcome = "failed" => errors > 0
    /\ pc = "decide" /\ outcome # "ok" => Idle = Worker
    /\ pc = "dispatch" => outcome = "ok"
    /\ pc = "fail" => errors > 0 \/ lapses > Rescues

\* A walk that ends because nothing is left ends with every worker idle and its session in
\* the bucket.
EndsKept ==
    /\ pc \in {"adopt", "join"} /\ ~stopped => Idle = Worker
    /\ pc = "join" /\ ~stopped => sealed = valid

WalkInOrder ==
    /\ TypeOK /\ AtRest /\ TreeKnown /\ OnePlace
    /\ TokensKept /\ LapsesCounted /\ OutcomeExplained /\ EndsKept
=============================================================================
