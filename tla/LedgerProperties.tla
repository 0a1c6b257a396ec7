-------------------------- MODULE LedgerProperties --------------------------
(***************************************************************************)
(* What the hand-over from run to run promises: the properties the runs of *)
(* RunLedger check.                                                        *)
(***************************************************************************)
EXTENDS RunLedger

\* Every state there is: in the bucket, among its copies, on a host.
Everywhere == ({canon} \ {None}) \cup {dated[l] : l \in DOMAIN dated} \cup {db[h] : h \in Host}
Last(s)    == s.runs[Len(s.runs)]

\* state.current_run takes the newest RUNNING row: whatever was killed, lost or rolled back,
\* no state has two, and the one it has is of the run that started last.
OneCurrentRun == \A s \in Everywhere : Running(s) \subseteq {Len(s.runs)}

\* statefile.py:17 "A missing object is an empty mirror only on the first run ever": crashes
\* between the two objects of a push, a lost object and rollbacks included, everything in the
\* bucket descends from one first run.
OneBeginning ==
    \A s, t \in {dated[l] : l \in DOMAIN dated} : s.runs[1].epoch = t.runs[1].epoch

\* README.md:63 "a dated copy first and then the canonical key": the state object is at every
\* moment one that state-rollback can put back.
CanonHasCopy == canon = None \/ \E l \in DOMAIN dated : dated[l] = canon

\* batch.history_label "unique across runs even after a rollback re-issues run ids": no push
\* writes over another run's dated copy.  A run's own report copy is written again where its
\* push died after the put: the failure path of a later start, one that died with the fetched
\* state and no row yet, finishes that run a second time.
DatedNeverRewritten ==
    [][\A l \in DOMAIN dated :
         \/ dated'[l] = dated[l]
         \/ /\ l[2] = "report" /\ broken
            /\ Last(dated'[l]).epoch = Last(dated[l]).epoch /\ Last(dated[l]).epoch < epoch]_dated

\* What t knows, s knows: the runs of t, and no batch less for any of them.
Knows(s, t) ==
    \A i \in DOMAIN t.runs : /\ i \in DOMAIN s.runs
                             /\ s.runs[i].epoch = t.runs[i].epoch
                             /\ s.runs[i].done >= t.runs[i].done

\* Taskfile.yml:4 "R2 holds the only record of how far the mirror has got", README.md:194 "the
\* next one, wherever it runs, picks up from the state in the bucket": a push never replaces
\* the state object by one that knows less.
NothingForgotten ==
    [][stage = "copy" /\ canon # None /\ canon' # None => Knows(canon', canon)]_canon

\* README.md:220 "A run that checkpointed nothing does not chain": whoever killed which phase,
\* a run that leaves the chain marker has a batch of its own in the bucket, so a chain of
\* runs cannot go on without progress.
MarkerMeansProgress ==
    marker[host] /\ at # "idle" =>
      /\ canon # None /\ report[host] = Len(canon.runs)
      /\ Last(canon).done > 0 /\ Last(canon).done < Last(canon).planned

\* is_reconcile_run "the first run that starts on the configured UTC weekday": among the runs
\* of one state, a second reconcile run of a day was forced.
ReconcileOncePerDay ==
    \A s \in Everywhere : \A i, j \in DOMAIN s.runs :
      /\ i < j /\ s.runs[i].reconcile /\ s.runs[j].reconcile
      /\ Day(s.runs[i].epoch) = Day(s.runs[j].epoch)
      => s.runs[j].epoch \in ForcedAt

\* README.md:65 "On the first run of the configured weekday ...: a full Proton walk": a day
\* with a reconcile run whose batches were all landed in the end has its walk.
WeeklyWalk ==
    at = "idle" /\ canon # None /\ canon.runs # << >> =>
      LET today == {i \in DOMAIN canon.runs :
                      Day(canon.runs[i].epoch) = Day(Last(canon).epoch)}
      IN  /\ Last(canon).status = "SUCCESS" /\ Last(canon).remaining = 0
          /\ \E i \in today : canon.runs[i].reconcile
          => \E i \in today : canon.runs[i].epoch \in canon.walks
-----------------------------------------------------------------------------
\* Liveness.  A step of the pipeline ends unless something fails, and the workflow starts the
\* run that was asked for; no nightly start is counted on.
Fairness == WF_vars(Pipeline) /\ WF_vars(Chained)
FairSpec == Spec /\ Fairness

\* A run of Actions ends as a success with batches left.
LeavesWork ==
    /\ host \notin Kept /\ InPhase("report", "close")
    /\ Last(D).status = "SUCCESS" /\ Last(D).remaining > 0

\* README.md:164 "chains itself run after run until the tree is mirrored": unless something
\* fails again, one start is enough for a tree of any number of batches.
ChainDrains ==
    \A n \in 0..MaxFaults :
      LeavesWork /\ faults = n ~> faults > n \/ (canon # None /\ canon.mirrored = Work)
-----------------------------------------------------------------------------
\* The inductive invariants behind the theorems of LedgerProofs.

\* At time t a state is of runs that had started, the newest of them the one that may be
\* RUNNING, and a second reconcile run of a day was forced.
Sound(s, t) ==
    /\ Running(s) \subseteq {Len(s.runs)}
    /\ \A i \in DOMAIN s.runs : s.runs[i].epoch < t
    /\ \A i, j \in DOMAIN s.runs :
         /\ i < j /\ s.runs[i].reconcile /\ s.runs[j].reconcile
         /\ Day(s.runs[i].epoch) = Day(s.runs[j].epoch)
         => s.runs[j].epoch \in ForcedAt

\* The run under way is not in any state before it has fetched one.
Begun == IF at \in {"session", "state"} THEN epoch ELSE now

StatesSound ==
    /\ canon # None => Sound(canon, Begun)
    /\ \A l \in DOMAIN dated : Sound(dated[l], Begun)
    /\ \A h \in Host : Sound(db[h], Begun)

Early  == {"inventory", "delta", "plan"}
Stages ==
    [session |-> {"enter"}, state |-> {"enter", "body"}, idle |-> {"enter"},
     inventory |-> {"enter", "body"}, delta |-> {"enter", "body"}, plan |-> {"enter", "body"},
     batches |-> {"enter", "body", "put", "copy", "raise"},
     trash |-> {"enter", "body", "put", "copy", "close"},
     reconcile |-> {"enter", "body", "put", "copy", "close"},
     report |-> {"enter", "body", "finish", "put", "copy", "close"}]

\* Where the pipeline is says what the newest run of its database looks like.
Positioned ==
    /\ stage \in Stages[at]
    /\ at # "idle" => now = epoch + 1
    /\ at = "state" /\ stage = "body" => D = Fetched /\ ~Lost
    /\ at \in Phase /\ (at = "report" => stage \in {"body", "finish"}) => Running(D) # {}
    /\ at \in Phase \ {"report"} => Last(D).epoch = epoch
    /\ at \in Early => Last(D).done = 0
    /\ at = "batches" =>
         /\ D.mirrored + Last(D).planned = Work + Last(D).done
         /\ Last(D).done <= Last(D).planned
         /\ stage = "enter" => Last(D).done = 0
         /\ stage \in {"put", "copy"} => label[3] \in {Last(D).done, Last(D).done + 1} \ {0}
    /\ stage = "copy" => label \in DOMAIN dated /\ dated[label] = D

InOrder == TypeOK /\ StatesSound /\ Positioned

\* Runs start on the machines of Actions only, which keep nothing.
OnlyActions == Starts \cap Kept = {}

\* The labels the run under way may have pushed already.
Pushed(l) ==
    \/ l[1] < epoch
    \/ /\ l[1] = epoch
       /\ \/ /\ l[2] = "batch" /\ at \in {"batches", "trash", "reconcile", "report"}
             /\ at = "batches" =>
                  IF stage \in {"enter", "body"} THEN l[3] <= Last(D).done
                  ELSE IF stage = "put" THEN l[3] < label[3] ELSE l[3] <= label[3]
          \/ /\ l[2] = "trash" /\ at \in {"trash", "reconcile", "report"}
             /\ at = "trash" => stage \in {"copy", "close"}
          \/ /\ l[2] = "reconcile" /\ at \in {"reconcile", "report"}
             /\ at = "reconcile" => stage \in {"copy", "close"}
          \/ l[2] = "report" /\ at = "report" /\ stage \in {"copy", "close"}

LabelsFresh ==
    /\ \A l \in DOMAIN dated : l[1] < now /\ Last(dated[l]).epoch = l[1]
    /\ at \in {"session", "state"} => \A l \in DOMAIN dated : l[1] < epoch
    /\ at \in Phase => \A l \in DOMAIN dated : Pushed(l)
    /\ stage \in {"put", "copy"} =>
         label[1] = Last(D).epoch /\ label[2] = IF at = "batches" THEN "batch" ELSE at

\* The failure path of a run that died before its row finishes an earlier run, the one the
\* state object says is RUNNING until the push has replaced it.
FinishesEarlier ==
    /\ at = "report" /\ broken /\ Last(D).epoch < epoch
    /\ stage = "put" \/ (stage \in {"enter", "body", "finish"} /\ Running(D) # {}) =>
         canon # None /\ Running(canon) # {}

\* No database outlives its run where the runs are: what a run has is what it fetched.
OwnRun ==
    /\ host \in Starts
    /\ at = "session" \/ (at = "state" /\ stage = "enter") => D = Empty
    /\ at \in Phase /\ D.runs # << >> => Last(D).epoch = epoch \/ FinishesEarlier
    /\ at \in {"session", "state"} \cup Phase =>
         (report[host] # 0 <=> at = "report" /\ stage \notin {"enter", "body"})

Descends ==
    /\ \A l \in DOMAIN dated :
         dated[l].runs # << >> /\ (l[2] = "report" => Running(dated[l]) = {})
    /\ stage \in {"put", "copy"} => D.runs # << >> /\ (at = "report" => Running(D) = {})
    /\ \A l, k \in DOMAIN dated : dated[l].runs[1].epoch = dated[k].runs[1].epoch
    /\ at # "idle" /\ D.runs # << >> =>
         /\ \A l \in DOMAIN dated : dated[l].runs[1].epoch = D.runs[1].epoch
         /\ canon # None => Knows(D, canon)

\* The state object is of this run and as far as its database.
UpToDate ==
    /\ canon # None /\ Len(canon.runs) = Len(D.runs)
    /\ Last(canon).done = Last(D).done /\ Last(canon).planned = Last(D).planned

\* A state whose newest run asks for another has batches of it, and batches left.
AsksWithCause(s) ==
    s.runs # << >> /\ Last(s).chain => Last(s).done > 0 /\ Last(s).done < Last(s).planned

ProgressKept ==
    /\ canon # None => AsksWithCause(canon)
    /\ \A l \in DOMAIN dated : AsksWithCause(dated[l])
    /\ at # "idle" => AsksWithCause(D)
    /\ InPhase("batches", "body") /\ Last(D).done > 0 => UpToDate
    /\ at \in Early \cup {"batches"} => ~Last(D).chain
    /\ at # "idle" /\ D.runs # << >> /\ Last(D).chain => UpToDate
    /\ at # "idle" /\ marker[host] =>
         /\ report[host] # 0 /\ report[host] = Len(D.runs) /\ Last(D).chain

HandedOver == InOrder /\ CanonHasCopy /\ LabelsFresh /\ OwnRun /\ Descends /\ ProgressKept
=============================================================================
