---------------------------- MODULE SessionWalk ----------------------------
(***************************************************************************)
(* The weekly walk of the Proton destination.  The main thread hands       *)
(* folders to workers; a worker lists one folder with one process of the   *)
(* Proton CLI, from a copy of the session of its own.  A process that      *)
(* finds its access token lapsed refreshes it, which rotates the token; a  *)
(* refresh with a token that was already rotated signs that copy out.      *)
(* Tokens are numbered in the order the server issues them, 0 standing for *)
(* no session.  The bucket has the session the next run starts from, and   *)
(* the queue of folders the next walk resumes.                             *)
(*                                                                         *)
(* pc is where the main thread is: off (no run), root, open, dispatch,     *)
(* wait, drain, decide, adopt (the walk's end), join, fail.                *)
(***************************************************************************)
EXTENDS Naturals, FiniteSets

CONSTANTS
    Worker,
    Folder, Root, Children,
    Shard,         \* the queue each folder is loaded to when a walk is resumed
    Nothing,       \* no folder under way
    Rescues,       \* _Walk.RESCUES
    Deadline,      \* whether the budget may stop a walk
    MaxLapses, MaxErrors, MaxCrashes      \* bounds of the model

ASSUME WalkAssumption ==
    /\ IsFiniteSet(Worker) /\ Worker # {}
    /\ IsFiniteSet(Folder) /\ Root \in Folder /\ Nothing \notin Folder
    /\ Children \in [Folder -> SUBSET (Folder \ {Root})]
    /\ \A f, g \in Folder : f # g => Children[f] \cap Children[g] = {}
    /\ \A known \in SUBSET Folder :      \* a tree: every folder is below the root
         Root \in known /\ (\A f \in known : Children[f] \subseteq known) => known = Folder
    /\ Shard \in [Folder -> Worker]
    /\ Rescues \in Nat /\ Deadline \in BOOLEAN
    /\ {MaxLapses, MaxErrors, MaxCrashes} \subseteq Nat

VARIABLES
    valid,      \* the newest token the server issued, the only one it refreshes
    lapsed,     \* tokens up to this one have lapsed
    main,       \* the token of the run's session directory
    copies,     \* the token of each worker's copy
    sealed,     \* the token of the session in the bucket
    status, pending, listed,      \* proton_snapshots.status, proton_folders
    saved,                        \* the same in the bucket's state
    queue,      \* the folders waiting for each worker
    flight,     \* the folder each worker is listing
    result,     \* what its process returned: none yet, ok, auth or error
    outcome,    \* what the main thread collected: ok, auth or failed
    rescues,
    late,       \* the deadline is past
    stopped,
    lapses, errors, crashes,      \* how much of each bound is used
    pc

session == <<valid, lapsed, main, copies, sealed>>
folders == <<status, pending, listed>>
work    == <<queue, flight, result>>
control == <<outcome, rescues, late, stopped>>
spent   == <<lapses, errors, crashes>>
vars == <<session, folders, saved, work, control, spent, pc>>

walk    == [status |-> status, pending |-> pending, listed |-> listed]
Walks   == [status : {"none", "running", "complete"}, pending : SUBSET Folder,
            listed : SUBSET Folder]
Idle    == {w \in Worker : flight[w] = Nothing}
Back    == {w \in Worker : result[w] # "none"}
Longest == {w \in Worker : \A v \in Worker : Cardinality(queue[w]) >= Cardinality(queue[v])}

TypeOK ==
    /\ {valid, lapsed, main, sealed, rescues, lapses, errors, crashes} \subseteq Nat
    /\ copies \in [Worker -> Nat]
    /\ walk \in Walks /\ saved \in Walks
    /\ queue \in [Worker -> SUBSET Folder]
    /\ flight \in [Worker -> Folder \cup {Nothing}]
    /\ result \in [Worker -> {"none", "ok", "auth", "error"}]
    /\ outcome \in {"ok", "auth", "failed"} /\ {late, stopped} \subseteq BOOLEAN
    /\ pc \in {"off", "root", "open", "dispatch", "wait", "drain", "decide", "adopt",
               "join", "fail"}

NoWork ==
    /\ queue' = [w \in Worker |-> {}] /\ flight' = [w \in Worker |-> Nothing]
    /\ result' = [w \in Worker |-> "none"] /\ copies' = [w \in Worker |-> 0]
    /\ outcome' = "ok" /\ rescues' = 0 /\ late' = FALSE /\ stopped' = FALSE

Init ==
    /\ valid = 1 /\ lapsed = 0 /\ main = 0 /\ sealed = 1
    /\ copies = [w \in Worker |-> 0]
    /\ status = "none" /\ pending = {} /\ listed = {} /\ saved = walk
    /\ queue = [w \in Worker |-> {}] /\ flight = [w \in Worker |-> Nothing]
    /\ result = [w \in Worker |-> "none"]
    /\ outcome = "ok" /\ rescues = 0 /\ late = FALSE /\ stopped = FALSE
    /\ lapses = 0 /\ errors = 0 /\ crashes = 0
    /\ pc = "off"
-----------------------------------------------------------------------------
\* Time, the server and the operator.

Lapse ==
    /\ lapses < MaxLapses /\ lapsed < valid
    /\ lapsed' = valid /\ lapses' = lapses + 1
    /\ UNCHANGED <<valid, main, copies, sealed, folders, saved, work, control, errors,
                   crashes, pc>>

DeadlinePasses ==
    /\ Deadline /\ ~late /\ pc # "off"
    /\ late' = TRUE
    /\ UNCHANGED <<session, folders, saved, work, outcome, rescues, stopped, spent, pc>>

\* `task session-seal` after a login, when the bucket's session is no longer accepted.
Seal ==
    /\ pc = "off" /\ sealed # valid /\ sealed <= lapsed
    /\ valid' = valid + 1 /\ sealed' = valid'
    /\ UNCHANGED <<lapsed, main, copies, folders, saved, work, control, spent, pc>>

\* What a CLI process does to the session it runs from: nothing while its token is good,
\* a refresh when it has lapsed and is the newest, else it signs the session out.
Token(t)  == IF t > lapsed THEN t ELSE IF t = valid THEN valid + 1 ELSE 0
Issued(t) == IF t <= lapsed /\ t = valid THEN valid + 1 ELSE valid

-----------------------------------------------------------------------------
\* A run up to its walk.

StartRun ==
    /\ pc = "off"
    /\ main' = sealed
    /\ status' = saved.status /\ pending' = saved.pending /\ listed' = saved.listed
    /\ pc' = "root"
    /\ UNCHANGED <<valid, lapsed, copies, sealed, saved, work, control, spent>>

\* root_uid: a call of the main thread, from the main session, written back after it.
CheckRoot ==
    /\ pc = "root"
    /\ main' = Token(main) /\ valid' = Issued(main)
    /\ \/ main' # 0 /\ sealed' = main' /\ pc' = "open"
       \/ main' = 0 /\ UNCHANGED sealed /\ pc' = "off"
    /\ UNCHANGED <<lapsed, copies, folders, saved, work, control, spent>>

\* The PENDING folders, spread over the queues.
Loaded(known) == [w \in Worker |-> {f \in known : Shard[f] = w}]

\* Mutant: every walk starts over at the root.
OpenAfresh ==
    /\ pc = "open"
    /\ status' = "running" /\ pending' = {Root} /\ listed' = {}
    /\ queue' = Loaded(pending')
    /\ copies' = [w \in Worker |-> main]
    /\ pc' = "dispatch"
    /\ UNCHANGED <<valid, lapsed, main, sealed, saved, flight, result, control, spent>>

\* A RUNNING snapshot is resumed, and every worker gets a copy of the session.
Open ==
    /\ pc = "open"
    /\ status' = "running"
    /\ pending' = IF status = "running" THEN pending ELSE {Root}
    /\ listed' = IF status = "running" THEN listed ELSE {}
    /\ queue' = Loaded(pending')
    /\ copies' = [w \in Worker |-> main]
    /\ pc' = "dispatch"
    /\ UNCHANGED <<valid, lapsed, main, sealed, saved, flight, result, control, spent>>
-----------------------------------------------------------------------------
\* The loop of the main thread, and the workers.

\* An idle worker takes a folder of its own queue, or of a longest one.
Dispatch(w, v, f) ==
    /\ pc = "dispatch" /\ w \in Idle /\ f \in queue[v]
    /\ IF queue[w] # {} THEN v = w ELSE v \in Longest
    /\ queue' = [queue EXCEPT ![v] = @ \ {f}]
    /\ flight' = [flight EXCEPT ![w] = f]
    /\ UNCHANGED <<session, folders, saved, result, control, spent, pc>>

Dispatched ==
    /\ pc = "dispatch" /\ (Idle = {} \/ \A w \in Worker : queue[w] = {})
    /\ pc' = IF Idle = Worker THEN "adopt" ELSE "wait"
    /\ UNCHANGED <<session, folders, saved, work, control, spent>>

Listing(w) == flight[w] # Nothing /\ result[w] = "none"

\* A worker's process ends; one that exhausted its retries may have refreshed before.
Call(w) ==
    /\ Listing(w)
    /\ copies' = [copies EXCEPT ![w] = Token(copies[w])]
    /\ valid' = Issued(copies[w])
    /\ result' = [result EXCEPT ![w] = IF copies'[w] = 0 THEN "auth" ELSE "ok"]
    /\ UNCHANGED <<lapsed, main, sealed, folders, saved, queue, flight, control, spent, pc>>

CallFails(w) ==
    /\ Listing(w) /\ errors < MaxErrors
    /\ copies' = [copies EXCEPT ![w] = Token(copies[w])]
    /\ copies'[w] # 0
    /\ valid' = Issued(copies[w])
    /\ result' = [result EXCEPT ![w] = "error"]
    /\ errors' = errors + 1
    /\ UNCHANGED <<lapsed, main, sealed, folders, saved, queue, flight, control, lapses,
                   crashes, pc>>

\* The folders listed are COMPLETE, and their subfolders are known.
CommitListing(good) ==
    /\ pending' = (pending \ good) \cup UNION {Children[f] : f \in good}
    /\ listed' = listed \cup good

\* Mutant: a folder whose listing failed is not queued again.
CommitOnce(done) ==
    LET good == {flight[w] : w \in {v \in done : result[v] = "ok"}}
    IN  /\ CommitListing(good)
        /\ queue' = [w \in Worker |->
             IF w \in done /\ result[w] = "ok" THEN queue[w] \cup Children[flight[w]]
             ELSE queue[w]]
        /\ flight' = [w \in Worker |-> IF w \in done THEN Nothing ELSE flight[w]]
        /\ result' = [w \in Worker |-> IF w \in done THEN "none" ELSE result[w]]

\* Mutant: the subfolders of a folder already known of are forgotten.
CommitFlat(done) ==
    LET good == {flight[w] : w \in {v \in done : result[v] = "ok"}}
    IN  /\ pending' = pending \ good
        /\ listed' = listed \cup good
        /\ queue' = [w \in Worker |->
             IF w \in done /\ result[w] # "ok" THEN queue[w] \cup {flight[w]} ELSE queue[w]]
        /\ flight' = [w \in Worker |-> IF w \in done THEN Nothing ELSE flight[w]]
        /\ result' = [w \in Worker |-> IF w \in done THEN "none" ELSE result[w]]

\* Listings that came back are committed, their folders' children queued to the same
\* worker; a folder that failed goes back to its queue.
Commit(done) ==
    LET good == {flight[w] : w \in {v \in done : result[v] = "ok"}}
    IN  /\ CommitListing(good)
        /\ queue' = [w \in Worker |->
             IF w \notin done THEN queue[w]
             ELSE queue[w] \cup IF result[w] = "ok" THEN Children[flight[w]] ELSE {flight[w]}]
        /\ flight' = [w \in Worker |-> IF w \in done THEN Nothing ELSE flight[w]]
        /\ result' = [w \in Worker |-> IF w \in done THEN "none" ELSE result[w]]

\* Mutant: the result of the process is passed on as it is.
CollectedRaw(done) ==
    IF \E w \in done : result[w] = "error" THEN "error"
    ELSE IF \A w \in done : result[w] = "ok" THEN "ok" ELSE "auth"

\* A failed listing outweighs a dead session.  (CollectRaises: what raises at once.)
Collected(done) ==
    CASE \E w \in done : result[w] = "error" -> "failed"
      [] \A w \in done : result[w] = "ok"    -> "ok"
      [] OTHER                               -> "auth"

Collect ==
    /\ pc = "wait" /\ Back # {}
    /\ Commit(Back)
    /\ outcome' = Collected(Back)
    /\ pc' = IF outcome' # "ok" \/ late THEN "drain" ELSE "decide"
    /\ UNCHANGED <<session, status, saved, rescues, late, stopped, spent>>

\* "Let the listings under way land before deciding anything."
Drain ==
    /\ pc = "drain" /\ \A w \in Worker : ~Listing(w)
    /\ Commit(Back)
    /\ outcome' = IF outcome # "ok" THEN outcome ELSE Collected(Back)
    /\ pc' = "decide"
    /\ UNCHANGED <<session, status, saved, rescues, late, stopped, spent>>

\* What _collect cannot take in raises at once: a worker's exception, output that is no JSON
\* array, a node without UID or name.  What it took from the set before is committed, the rest
\* is not, and no copy is adopted.  The folder that raised stays under way until the end.
CollectRaises ==
    /\ pc \in {"wait", "drain"} /\ errors < MaxErrors
    /\ \E w \in Back : /\ result[w] = "ok"
                       /\ \E done \in SUBSET (Back \ {w}) : Commit(done)
    /\ errors' = errors + 1
    /\ pc' = "fail"
    /\ UNCHANGED <<session, status, saved, control, lapses, crashes>>

Survivors == {w \in Worker : copies[w] # 0}
\* promote: the copy written last is the one refreshed last.
Promoted ==
    IF Survivors = {} THEN main
    ELSE CHOOSE t \in {copies[w] : w \in Survivors} : \A w \in Survivors : copies[w] <= t

\* A deadline that passes after Collect looked at it stops the walk here all the same.
Decide ==
    /\ pc = "decide" /\ outcome = "ok"
    /\ stopped' = late
    /\ pc' = IF late THEN "adopt" ELSE "dispatch"
    /\ UNCHANGED <<session, folders, saved, work, outcome, rescues, late, spent>>

\* Mutant: the workers keep the copies they have.
RescueUnseeded ==
    /\ pc = "decide" /\ outcome = "auth" /\ rescues < Rescues
    /\ rescues' = rescues + 1
    /\ main' = Promoted /\ sealed' = Promoted
    /\ outcome' = "ok" /\ stopped' = late
    /\ pc' = IF late THEN "adopt" ELSE "dispatch"
    /\ UNCHANGED <<valid, lapsed, copies, folders, saved, work, late, spent>>

\* The copy that won the refresh is adopted, written back, and seeds every worker.
Rescue ==
    /\ pc = "decide" /\ outcome = "auth" /\ rescues < Rescues
    /\ rescues' = rescues + 1
    /\ main' = Promoted /\ sealed' = Promoted
    /\ copies' = [w \in Worker |-> Promoted]
    /\ outcome' = "ok" /\ stopped' = late
    /\ pc' = IF late THEN "adopt" ELSE "dispatch"
    /\ UNCHANGED <<valid, lapsed, folders, saved, work, late, spent>>

\* A failed listing, or one rescue too many, raises out of the walk.
GiveUp ==
    /\ pc = "decide"
    /\ outcome = "failed" \/ (outcome = "auth" /\ rescues >= Rescues)
    /\ pc' = "fail"
    /\ UNCHANGED <<session, folders, saved, work, control, spent>>

\* Mutant: the walk ends without a look at the workers' copies.
AdoptNothing ==
    /\ pc = "adopt"
    /\ pc' = "join"
    /\ UNCHANGED <<session, folders, saved, work, control, spent>>

Adopt ==
    /\ pc = "adopt"
    /\ main' = Promoted /\ sealed' = Promoted
    /\ pc' = "join"
    /\ UNCHANGED <<valid, lapsed, copies, folders, saved, work, control, spent>>
-----------------------------------------------------------------------------
\* The pool is joined, the copies are removed, and the phase ends.

Joined == \A w \in Worker : ~Listing(w)

\* Mutant: a walk that ends early closes its snapshot too.
FinishAnyway ==
    /\ pc = "join" /\ Joined
    /\ NoWork /\ main' = 0
    /\ status' = "complete" /\ saved' = [walk EXCEPT !.status = "complete"]
    /\ pc' = "off"
    /\ UNCHANGED <<valid, lapsed, sealed, pending, listed, spent>>

\* A walk that emptied its queues closes its snapshot.  _close_snapshot raises when a folder
\* is not COMPLETE: FolderInOnePlace shows that none is left.
Finish ==
    /\ pc = "join" /\ Joined /\ ~stopped /\ pending = {}
    /\ NoWork /\ main' = 0
    /\ status' = "complete" /\ saved' = [walk EXCEPT !.status = "complete"]
    /\ pc' = "off"
    /\ UNCHANGED <<valid, lapsed, sealed, pending, listed, spent>>

Stop ==
    /\ pc = "join" /\ Joined /\ stopped
    /\ NoWork /\ main' = 0 /\ saved' = walk
    /\ pc' = "off"
    /\ UNCHANGED <<valid, lapsed, sealed, folders, spent>>

\* The phase fails; the report still pushes the state.
Fail ==
    /\ pc = "fail" /\ Joined
    /\ NoWork /\ main' = 0 /\ saved' = walk
    /\ pc' = "off"
    /\ UNCHANGED <<valid, lapsed, sealed, folders, spent>>

\* The machine is lost, with the copies and what was not pushed.
Crash ==
    /\ pc # "off" /\ crashes < MaxCrashes
    /\ crashes' = crashes + 1
    /\ NoWork /\ main' = 0
    /\ pc' = "off"
    /\ UNCHANGED <<valid, lapsed, sealed, folders, saved, lapses, errors>>
-----------------------------------------------------------------------------
Main ==
    \/ StartRun \/ CheckRoot \/ Open \/ Dispatched
    \/ \E w, v \in Worker : \E f \in Folder : Dispatch(w, v, f)
    \/ Collect \/ Drain \/ Decide \/ Rescue \/ GiveUp \/ Adopt \/ Finish \/ Stop \/ Fail
Calls == \E w \in Worker : Call(w)
Next ==
    \/ Main \/ Calls \/ Seal \/ Lapse \/ DeadlinePasses \/ Crash \/ CollectRaises
    \/ \E w \in Worker : CallFails(w)

Spec == Init /\ [][Next]_vars
=============================================================================
