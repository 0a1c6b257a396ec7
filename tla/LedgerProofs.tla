---------------------------- MODULE LedgerProofs ----------------------------
(***************************************************************************)
(* Proofs about RunLedger, for every value of its constants.               *)
(***************************************************************************)
EXTENDS LedgerProperties, TLAPS, SequenceTheorems

-----------------------------------------------------------------------------
\* Days.

LEMMA DayBounds ==
  ASSUME NEW e \in Nat
  PROVE  /\ Day(e) \in Nat
         /\ DayLength * Day(e) <= e
         /\ e < DayLength * (Day(e) + 1)
BY LedgerAssumption, SMTT(30) DEF Day

\* What started before a day began was of another day.
LEMMA BeforeTheDay ==
  ASSUME NEW d \in Nat, NEW e \in Nat, d < DayLength * Day(e)
  PROVE  Day(d) # Day(e)
BY DayBounds, LedgerAssumption DEF Day

LEMMA NextDay ==
  ASSUME NEW e \in Nat
  PROVE  DayLength * (Day(e) + 1) \in Nat /\ e < DayLength * (Day(e) + 1)
BY DayBounds, LedgerAssumption

-----------------------------------------------------------------------------
\* States of the database.

\* t has the runs of s, whose batches may have become more and whose status may have ended.
Amends(t, s) ==
    /\ t \in States /\ Len(t.runs) = Len(s.runs)
    /\ \A i \in DOMAIN s.runs :
         /\ t.runs[i].epoch = s.runs[i].epoch /\ t.runs[i].reconcile = s.runs[i].reconcile
         /\ t.runs[i].status = "RUNNING" => s.runs[i].status = "RUNNING"
         /\ t.runs[i].done >= s.runs[i].done

\* What is written is a state when its parts are of their types.
Formed(t) ==
    /\ t = [runs |-> t.runs, phases |-> t.phases, mirrored |-> t.mirrored, walks |-> t.walks]
    /\ t.phases \in [Phase -> PhaseRuns] /\ t.mirrored \in 0..Work /\ t.walks \in SUBSET Nat

LEMMA StateParts ==
  ASSUME NEW s \in States
  PROVE  /\ s.runs \in Seq(Runs) /\ Len(s.runs) \in Nat /\ DOMAIN s.runs = 1..Len(s.runs)
         /\ Formed(s)
         /\ s.runs # << >> => Len(s.runs) \in DOMAIN s.runs /\ Last(s) \in Runs
         /\ \A i \in DOMAIN s.runs : /\ s.runs[i] \in Runs /\ s.runs[i].epoch \in Nat
                                     /\ s.runs[i].done \in Nat
<1>1. s.runs \in Seq(Runs) /\ Formed(s)
  BY DEF States, Formed
<1>2. Len(s.runs) \in Nat /\ DOMAIN s.runs = 1..Len(s.runs)
  BY <1>1
<1>3. s.runs # << >> => Len(s.runs) \in DOMAIN s.runs
  BY <1>1, <1>2, EmptySeq
<1>4. \A i \in DOMAIN s.runs : s.runs[i] \in Runs
  BY <1>1
<1>5. \A i \in DOMAIN s.runs : s.runs[i].epoch \in Nat /\ s.runs[i].done \in Nat
  BY <1>4, LedgerAssumption DEF Runs
<1>6. QED
  BY <1>1, <1>2, <1>3, <1>4, <1>5 DEF Last

LEMMA RunAmended ==
  ASSUME NEW s \in States, s.runs # << >>, NEW r \in Runs,
         r.epoch = Last(s).epoch, r.reconcile = Last(s).reconcile, r.done >= Last(s).done,
         r.status = "RUNNING" => Last(s).status = "RUNNING",
         NEW t, Formed(t), t.runs = [s.runs EXCEPT ![Len(s.runs)] = r]
  PROVE  Amends(t, s) /\ Last(t) = r
<1> DEFINE n == Len(s.runs)
<1>1. s.runs \in Seq(Runs) /\ n \in Nat \ {0} /\ n \in DOMAIN s.runs
  BY EmptySeq DEF States
<1>2. /\ t.runs \in Seq(Runs) /\ Len(t.runs) = n /\ t.runs[n] = r
      /\ \A i \in 1..n : i # n => t.runs[i] = s.runs[i]
  BY <1>1, ExceptSeq
<1>3. t \in States
  BY <1>2 DEF Formed, States
<1>4. \A i \in DOMAIN s.runs : s.runs[i].done \in Nat
  BY StateParts
<1>5. QED
  BY <1>1, <1>2, <1>3, <1>4 DEF Amends, Last

LEMMA RowAmended ==
  ASSUME NEW s \in States, NEW t, Formed(t), t.runs = s.runs
  PROVE  Amends(t, s) /\ Last(t) = Last(s)
<1>1. t \in States
  BY DEF Formed, States
<1>2. QED
  BY <1>1, StateParts DEF Amends, Last

LEMMA SoundLater ==
  ASSUME NEW s \in States, NEW t \in Nat, NEW u \in Nat, t <= u, Sound(s, t)
  PROVE  Sound(s, u)
BY StateParts DEF Sound

LEMMA AmendsSound ==
  ASSUME NEW s \in States, NEW t, NEW n \in Nat, Amends(t, s), Sound(s, n)
  PROVE  Sound(t, n)
<1>1. t \in States /\ Len(t.runs) = Len(s.runs) /\ DOMAIN t.runs = DOMAIN s.runs
  BY StateParts DEF Amends
<1>2. QED
  BY <1>1 DEF Amends, Sound, Running

LEMMA EmptyState == Empty \in States /\ Empty.runs = << >> /\ \A t : Sound(Empty, t)
<1>1. Empty.phases \in [Phase -> PhaseRuns] /\ Empty.runs = << >>
  BY DEF Empty, PhaseRuns
<1>2. Empty \in States
  BY <1>1, EmptySeq, LedgerAssumption DEF Empty, States
<1>3. QED
  BY <1>1, <1>2 DEF Sound, Running

LEMMA HostTypes ==
  ASSUME TypeOK
  PROVE  D \in States /\ host \in Host
BY DEF TypeOK, D

\* While a run is in progress it is the newest one.
LEMMA CurrentIsLast ==
  ASSUME TypeOK, StatesSound, Running(D) # {}
  PROVE  /\ D \in States /\ D.runs # << >> /\ Running(D) = {Len(D.runs)}
         /\ Current(D) = Len(D.runs) /\ Run = Last(D) /\ Last(D).status = "RUNNING"
<1>1. D \in States /\ Sound(D, Begun)
  BY HostTypes DEF StatesSound, D
<1>2. Running(D) = {Len(D.runs)}
  BY <1>1 DEF Sound
<1>3. D.runs # << >>
  BY <1>1, <1>2, StateParts DEF Running
<1>4. Current(D) = Len(D.runs)
  BY <1>1, <1>2, StateParts DEF Current
<1>5. QED
  BY <1>1, <1>2, <1>3, <1>4 DEF Run, Last, Running

LEMMA Saves ==
  ASSUME TypeOK, NEW s, Save(s), host' = host
  PROVE  /\ D' = s /\ \A h \in Host : h # host => db'[h] = db[h]
         /\ s \in States => db' \in [Host -> States]
BY DEF TypeOK, D, Save

LEMMA BegunTypes ==
  ASSUME TypeOK, Positioned
  PROVE  Begun \in Nat /\ (at # "idle" => Begun <= epoch + 1 /\ now = epoch + 1)
BY DEF TypeOK, Positioned, Begun

LEMMA SoundKept ==
  ASSUME TypeOK, StatesSound, UNCHANGED bucket, host' = host, Begun \in Nat, Begun' \in Nat,
         Begun <= Begun', Amends(D', D), \A h \in Host : h # host => db'[h] = db[h]
  PROVE  StatesSound'
<1>1. canon # None => Sound(canon, Begun')
  BY SoundLater DEF TypeOK, StatesSound
<1>2. \A l \in DOMAIN dated : Sound(dated[l], Begun')
  BY SoundLater DEF TypeOK, StatesSound
<1>3. Sound(D', Begun')
  <2>1. D \in States /\ Sound(D, Begun)
    BY HostTypes DEF StatesSound, D
  <2>2. Sound(D, Begun')
    BY <2>1, SoundLater
  <2>3. QED
    BY <2>1, <2>2, AmendsSound
<1>4. \A h \in Host : Sound(db'[h], Begun')
  BY <1>3, SoundLater DEF TypeOK, StatesSound, D
<1>5. QED
  BY <1>1, <1>2, <1>4 DEF StatesSound, bucket
-----------------------------------------------------------------------------
\* What the steps of a phase write.

LEMMA PhaseRows ==
  ASSUME NEW s \in States, NEW p \in Phase, NEW x \in {"PASS", "FAIL"}
  PROVE  /\ Closed(s, p, x).phases \in [Phase -> PhaseRuns]
         /\ Closed(s, p, x).runs = s.runs /\ Closed(s, p, x).mirrored = s.mirrored
         /\ Formed(Closed(s, p, x)) /\ Closed(s, p, x) \in States
         /\ Amends(Closed(s, p, x), s) /\ Last(Closed(s, p, x)) = Last(s)
<1> DEFINE t == Closed(s, p, x)
<1>1. t.phases = [s.phases EXCEPT ![p].status = x] /\ t.runs = s.runs
      /\ t.mirrored = s.mirrored /\ t.walks = s.walks
  BY DEF Closed, States
<1>2. t = [runs |-> t.runs, phases |-> t.phases, mirrored |-> t.mirrored, walks |-> t.walks]
  BY DEF Closed, States
<1>3. s.phases \in [Phase -> PhaseRuns]
  BY DEF States
<1>4. t.phases \in [Phase -> PhaseRuns]
  BY <1>1, <1>3 DEF PhaseRuns
<1>5. Formed(t)
  BY <1>1, <1>2, <1>4, StateParts DEF Formed
<1>6. QED
  BY <1>1, <1>4, <1>5, RowAmended DEF Amends

LEMMA AmendsBoth ==
  ASSUME NEW s \in States, NEW t \in States, NEW u, Amends(t, s), Amends(u, t)
  PROVE  Amends(u, s)
BY StateParts DEF Amends

LEMMA Enters ==
  ASSUME InOrder, Enter
  PROVE  Amends(D', D) /\ Last(D') = Last(D) /\ D'.mirrored = D.mirrored
<1> DEFINE t == [D EXCEPT !.phases[at] = [run |-> Current(D), status |-> "RUNNING"]]
<1>1. D \in States /\ at \in Phase /\ Current(D) \in Nat
  BY CurrentIsLast, StateParts DEF InOrder, Enter
<1>2. t.phases = [D.phases EXCEPT ![at] = [run |-> Current(D), status |-> "RUNNING"]]
      /\ t.runs = D.runs /\ t.mirrored = D.mirrored /\ t.walks = D.walks
      /\ t = [runs |-> t.runs, phases |-> t.phases, mirrored |-> t.mirrored, walks |-> t.walks]
  BY <1>1 DEF States
<1>3. t.phases \in [Phase -> PhaseRuns]
  BY <1>1, <1>2 DEF States, PhaseRuns
<1>4. Formed(t)
  BY <1>1, <1>2, <1>3, StateParts DEF Formed
<1>5. D' = t
  BY Saves DEF InOrder, Enter
<1>6. QED
  BY <1>1, <1>2, <1>4, <1>5, RowAmended

\* The assignments to the row of the run.
LEMMA PlannedRow ==
  ASSUME NEW s \in States, s.runs # << >>, NEW x \in 0..Work
  PROVE  LET t == [s EXCEPT !.runs[Len(s.runs)].planned = x]
         IN  /\ Amends(t, s) /\ Last(t) = [Last(s) EXCEPT !.planned = x]
             /\ t.mirrored = s.mirrored
<1> DEFINE n == Len(s.runs)
           t == [s EXCEPT !.runs[n].planned = x]
           r == [Last(s) EXCEPT !.planned = x]
<1>1. Last(s) \in Runs /\ Last(s).done \in Nat
  BY StateParts DEF Last
<1>2. r \in Runs /\ r.epoch = Last(s).epoch /\ r.reconcile = Last(s).reconcile
      /\ r.done = Last(s).done /\ r.status = Last(s).status
  BY <1>1 DEF Runs
<1>3. t.runs = [s.runs EXCEPT ![n] = r]
  BY DEF States, Last
<1>4. t.phases = s.phases /\ t.mirrored = s.mirrored /\ t.walks = s.walks
      /\ t = [runs |-> t.runs, phases |-> t.phases, mirrored |-> t.mirrored, walks |-> t.walks]
  <2>1. t.phases = s.phases /\ t.walks = s.walks
    BY DEF States
  <2>2. t.mirrored = s.mirrored
    BY DEF States
  <2>3. ASSUME NEW u, u = t
        PROVE  u = [runs |-> u.runs, phases |-> u.phases, mirrored |-> u.mirrored,
                    walks |-> u.walks]
    BY <2>3 DEF States
  <2>4. QED
    BY <2>1, <2>2, <2>3
<1> HIDE DEF t, r
<1>5. Formed(t)
  BY <1>4, StateParts DEF Formed
<1>6. Amends(t, s) /\ Last(t) = r
  BY <1>1, <1>2, <1>3, <1>5, RunAmended
<1>7. QED
  BY <1>4, <1>6 DEF t, r

LEMMA DoneRow ==
  ASSUME NEW s \in States, s.runs # << >>, Last(s).done < Last(s).planned,
         s.mirrored < Work
  PROVE  LET t == [s EXCEPT !.mirrored = @ + 1, !.runs[Len(s.runs)].done = @ + 1]
         IN  /\ Amends(t, s) /\ Last(t) = [Last(s) EXCEPT !.done = @ + 1]
             /\ t.mirrored = s.mirrored + 1
<1> DEFINE n == Len(s.runs)
           t == [s EXCEPT !.mirrored = @ + 1, !.runs[n].done = @ + 1]
           r == [Last(s) EXCEPT !.done = @ + 1]
<1>1. Last(s) \in Runs /\ Last(s).done \in Nat /\ s.mirrored \in 0..Work
  BY StateParts DEF Last, Formed
<1>2. r \in Runs /\ r.epoch = Last(s).epoch /\ r.reconcile = Last(s).reconcile
      /\ r.done = Last(s).done + 1 /\ r.status = Last(s).status
  <2>1. Last(s).done + 1 \in 0..Work
    BY <1>1, LedgerAssumption DEF Runs
  <2>2. QED
    BY <1>1, <2>1 DEF Runs
<1>3. t.runs = [s.runs EXCEPT ![n] = r]
  BY DEF States, Last
<1>4. t.phases = s.phases /\ t.mirrored = s.mirrored + 1 /\ t.walks = s.walks
      /\ t = [runs |-> t.runs, phases |-> t.phases, mirrored |-> t.mirrored, walks |-> t.walks]
  <2>1. t.phases = s.phases /\ t.walks = s.walks
    BY DEF States
  <2>2. t.mirrored = s.mirrored + 1
    BY DEF States
  <2>3. ASSUME NEW u, u = t
        PROVE  u = [runs |-> u.runs, phases |-> u.phases, mirrored |-> u.mirrored,
                    walks |-> u.walks]
    BY <2>3 DEF States
  <2>4. QED
    BY <2>1, <2>2, <2>3
<1> HIDE DEF t, r
<1>5. Formed(t)
  BY <1>1, <1>4, StateParts, LedgerAssumption DEF Formed
<1>6. Amends(t, s) /\ Last(t) = r
  BY <1>1, <1>2, <1>3, <1>5, RunAmended
<1>7. QED
  BY <1>4, <1>6 DEF t, r

LEMMA EndedRow ==
  ASSUME NEW s \in States, s.runs # << >>, NEW x \in -1..Work, NEW y \in BOOLEAN
  PROVE  LET t == [s EXCEPT !.runs[Len(s.runs)].remaining = x, !.runs[Len(s.runs)].chain = y]
         IN  /\ Amends(t, s) /\ Last(t) = [Last(s) EXCEPT !.remaining = x, !.chain = y]
             /\ t.mirrored = s.mirrored
<1> DEFINE n == Len(s.runs)
           t == [s EXCEPT !.runs[n].remaining = x, !.runs[n].chain = y]
           r == [Last(s) EXCEPT !.remaining = x, !.chain = y]
<1>1. Last(s) \in Runs /\ Last(s).done \in Nat
  BY StateParts DEF Last
<1>2. r \in Runs /\ r.epoch = Last(s).epoch /\ r.reconcile = Last(s).reconcile
      /\ r.done = Last(s).done /\ r.status = Last(s).status
  BY <1>1 DEF Runs
<1>3. t.runs = [s.runs EXCEPT ![n] = r]
  BY DEF States, Last
<1>4. t.phases = s.phases /\ t.mirrored = s.mirrored /\ t.walks = s.walks
      /\ t = [runs |-> t.runs, phases |-> t.phases, mirrored |-> t.mirrored, walks |-> t.walks]
  <2>1. t.phases = s.phases /\ t.walks = s.walks
    BY DEF States
  <2>2. t.mirrored = s.mirrored
    BY DEF States
  <2>3. ASSUME NEW u, u = t
        PROVE  u = [runs |-> u.runs, phases |-> u.phases, mirrored |-> u.mirrored,
                    walks |-> u.walks]
    BY <2>3 DEF States
  <2>4. QED
    BY <2>1, <2>2, <2>3
<1> HIDE DEF t, r
<1>5. Formed(t)
  BY <1>4, StateParts DEF Formed
<1>6. Amends(t, s) /\ Last(t) = r
  BY <1>1, <1>2, <1>3, <1>5, RunAmended
<1>7. QED
  BY <1>4, <1>6 DEF t, r

LEMMA FinishedRow ==
  ASSUME NEW s \in States, s.runs # << >>, NEW x \in {"SUCCESS", "FAIL"}
  PROVE  LET t == [s EXCEPT !.runs[Len(s.runs)].status = x]
         IN  /\ Amends(t, s) /\ Last(t) = [Last(s) EXCEPT !.status = x]
             /\ t.mirrored = s.mirrored
<1> DEFINE n == Len(s.runs)
           t == [s EXCEPT !.runs[n].status = x]
           r == [Last(s) EXCEPT !.status = x]
<1>1. Last(s) \in Runs /\ Last(s).done \in Nat
  BY StateParts DEF Last
<1>2. r \in Runs /\ r.epoch = Last(s).epoch /\ r.reconcile = Last(s).reconcile
      /\ r.done = Last(s).done /\ r.status # "RUNNING"
  BY <1>1 DEF Runs
<1>3. t.runs = [s.runs EXCEPT ![n] = r]
  BY DEF States, Last
<1>4. t.phases = s.phases /\ t.mirrored = s.mirrored /\ t.walks = s.walks
      /\ t = [runs |-> t.runs, phases |-> t.phases, mirrored |-> t.mirrored, walks |-> t.walks]
  <2>1. t.phases = s.phases /\ t.walks = s.walks
    BY DEF States
  <2>2. t.mirrored = s.mirrored
    BY DEF States
  <2>3. ASSUME NEW u, u = t
        PROVE  u = [runs |-> u.runs, phases |-> u.phases, mirrored |-> u.mirrored,
                    walks |-> u.walks]
    BY <2>3 DEF States
  <2>4. QED
    BY <2>1, <2>2, <2>3
<1> HIDE DEF t, r
<1>5. Formed(t)
  BY <1>4, StateParts DEF Formed
<1>6. Amends(t, s) /\ Last(t) = r
  BY <1>1, <1>2, <1>3, <1>5, RunAmended
<1>7. QED
  BY <1>4, <1>6 DEF t, r

\* What each step leaves of the database, and of its newest run.
LEMMA Passes ==
  ASSUME InOrder, NEW s, Amends(s, D), Pass(s), host' = host, at \in Phase
  PROVE  Amends(D', D) /\ Last(D') = Last(s) /\ D'.mirrored = s.mirrored
<1>1. D \in States /\ s \in States
  BY HostTypes DEF InOrder, Amends
<1>2. D' = Closed(s, at, "PASS")
  BY Saves DEF InOrder, Pass
<1>3. Amends(D', s) /\ Last(D') = Last(s) /\ D'.mirrored = s.mirrored
  BY <1>1, <1>2, PhaseRows
<1>4. QED
  BY <1>1, <1>3, AmendsBoth

LEMMA Same ==
  ASSUME NEW s \in States
  PROVE  Amends(s, s)
BY RowAmended, StateParts

LEMMA Prepares ==
  ASSUME InOrder, Prepare
  PROVE  /\ Amends(D', D) /\ D'.mirrored = D.mirrored
         /\ Last(D') = IF at = "plan" THEN [Last(D) EXCEPT !.planned = Work - D.mirrored]
                       ELSE Last(D)
<1>1. Running(D) # {} /\ at \in Phase
  BY DEF Prepare, InOrder, Positioned, Phase
<1>2. D \in States /\ D.runs # << >> /\ Current(D) = Len(D.runs)
  BY <1>1, CurrentIsLast DEF InOrder
<1>3. Work - D.mirrored \in 0..Work
  BY <1>2, StateParts, LedgerAssumption DEF Formed
<1> DEFINE t == [D EXCEPT !.runs[Len(D.runs)].planned = Work - D.mirrored]
<1>4. Amends(t, D) /\ Last(t) = [Last(D) EXCEPT !.planned = Work - D.mirrored]
      /\ t.mirrored = D.mirrored
  BY <1>2, <1>3, PlannedRow
<1>5. CASE at = "plan"
  <2>1. Pass(t) /\ host' = host
    BY <1>2, <1>5 DEF Prepare
  <2> HIDE DEF t
  <2>2. QED
    BY <1>1, <1>4, <1>5, <2>1, Passes
<1>6. CASE at # "plan"
  <2>1. Pass(D) /\ host' = host
    BY <1>6 DEF Prepare
  <2>2. QED
    BY <1>1, <1>2, <1>6, <2>1, Same, Passes
<1>7. QED
  BY <1>5, <1>6

LEMMA Pushes ==
  ASSUME InOrder, NEW s, s \in States, NEW step, NEW n, Push(s, step, n), host' = host,
         Running(D) # {}
  PROVE  D' = s /\ label' = <<Last(D).epoch, step, n>> /\ at' = at /\ stage' = "put"
         /\ db' \in [Host -> States] /\ \A h \in Host : h # host => db'[h] = db[h]
BY Saves, CurrentIsLast DEF InOrder, Push, HistoryLabel, Goto

LEMMA Checkpoints ==
  ASSUME InOrder, Checkpoint
  PROVE  /\ Amends(D', D) /\ D'.mirrored = D.mirrored + 1
         /\ Last(D') = [Last(D) EXCEPT !.done = @ + 1]
         /\ label' = <<Last(D).epoch, "batch", Last(D).done + 1>>
<1>1. Running(D) # {} /\ at = "batches"
  BY DEF Checkpoint, InOrder, Positioned, Phase, InPhase
<1>2. D \in States /\ D.runs # << >> /\ Current(D) = Len(D.runs) /\ Run = Last(D)
  BY <1>1, CurrentIsLast DEF InOrder
<1>3. Last(D).done < Last(D).planned
  BY <1>2 DEF Checkpoint
<1>4. D.mirrored < Work
  <2>1. D.mirrored + Last(D).planned = Work + Last(D).done
    BY <1>1 DEF InOrder, Positioned
  <2>2. Last(D) \in Runs /\ D.mirrored \in 0..Work
    BY <1>2, StateParts DEF Formed
  <2>3. Last(D).planned \in Nat /\ Last(D).done \in Nat /\ D.mirrored \in Nat
    BY <2>2, LedgerAssumption DEF Runs
  <2>4. QED
    BY <1>3, <2>1, <2>3, LedgerAssumption
<1> DEFINE t == [D EXCEPT !.mirrored = @ + 1, !.runs[Len(D.runs)].done = @ + 1]
<1>5. Amends(t, D) /\ Last(t) = [Last(D) EXCEPT !.done = @ + 1] /\ t.mirrored = D.mirrored + 1
  BY <1>2, <1>3, <1>4, DoneRow
<1>6. Push(t, "batch", Run.done + 1) /\ host' = host
  BY <1>2 DEF Checkpoint
<1> HIDE DEF t
<1>7. D' = t /\ label' = <<Last(D).epoch, "batch", Last(D).done + 1>>
  BY <1>1, <1>2, <1>5, <1>6, Pushes DEF Amends
<1>8. QED
  BY <1>5, <1>7

LEMMA Ends ==
  ASSUME InOrder, EndBatches
  PROVE  /\ Amends(D', D) /\ D'.mirrored = D.mirrored
         /\ Last(D') = [Last(D) EXCEPT !.remaining = Last(D).planned - Last(D).done,
                                       !.chain = WantsChain(Last(D))]
<1>1. Running(D) # {} /\ at = "batches" /\ at \in Phase
  BY DEF EndBatches, InOrder, Positioned, Phase, InPhase
<1>2. D \in States /\ D.runs # << >> /\ Current(D) = Len(D.runs) /\ Run = Last(D)
  BY <1>1, CurrentIsLast DEF InOrder
<1> DEFINE x == Last(D).planned - Last(D).done
           y == WantsChain(Last(D))
           t == [D EXCEPT !.runs[Len(D.runs)].remaining = x, !.runs[Len(D.runs)].chain = y]
<1>3. x \in -1..Work
  <2>1. Last(D).done <= Last(D).planned
    BY <1>1 DEF InOrder, Positioned
  <2>2. Last(D) \in Runs
    BY <1>2, StateParts
  <2>3. QED
    BY <2>1, <2>2, LedgerAssumption DEF Runs
<1>4. y \in BOOLEAN
  BY DEF WantsChain
<1>5. Amends(t, D) /\ Last(t) = [Last(D) EXCEPT !.remaining = x, !.chain = y]
      /\ t.mirrored = D.mirrored
  <2> HIDE DEF x, y
  <2>1. QED
    BY <1>2, <1>3, <1>4, EndedRow
<1>6. Pass(t) /\ host' = host
  BY <1>2 DEF EndBatches
<1> HIDE DEF t
<1>7. QED
  BY <1>1, <1>5, <1>6, Passes

LEMMA Fails ==
  ASSUME InOrder, FailBatch
  PROVE  Amends(D', D) /\ D' = D /\ label' = <<Last(D).epoch, "batch", Last(D).done + 1>>
<1>1. Running(D) # {} /\ at = "batches"
  BY DEF FailBatch, InOrder, Positioned, Phase, InPhase
<1>2. D \in States /\ Run = Last(D)
  BY <1>1, CurrentIsLast DEF InOrder
<1>3. D' = D /\ label' = <<Last(D).epoch, "batch", Run.done + 1>>
  BY <1>1, <1>2, Pushes DEF FailBatch
<1>4. QED
  BY <1>2, <1>3, Same

LEMMA Skips ==
  ASSUME InOrder, SkipTrash \/ SkipReconcile
  PROVE  Amends(D', D) /\ Last(D') = Last(D) /\ D'.mirrored = D.mirrored
<1>1. Pass(D) /\ host' = host /\ at \in Phase
  BY DEF SkipTrash, SkipReconcile, InPhase, Phase
<1>2. D \in States
  BY HostTypes DEF InOrder
<1>3. QED
  BY <1>1, <1>2, Same, Passes

LEMMA Trashes ==
  ASSUME InOrder, Trash
  PROVE  Amends(D', D) /\ D' = D /\ label' = <<Last(D).epoch, "trash", 0>>
<1>1. Running(D) # {}
  BY DEF Trash, InOrder, Positioned, Phase, InPhase
<1>2. D \in States
  BY <1>1, CurrentIsLast DEF InOrder
<1>3. D' = D /\ label' = <<Last(D).epoch, "trash", 0>>
  BY <1>1, <1>2, Pushes DEF Trash
<1>4. QED
  BY <1>2, <1>3, Same

LEMMA Reconciles ==
  ASSUME InOrder, Reconcile
  PROVE  Amends(D', D) /\ Last(D') = Last(D) /\ label' = <<Last(D).epoch, "reconcile", 0>>
<1>1. Running(D) # {}
  BY DEF Reconcile, InOrder, Positioned, Phase, InPhase
<1>2. D \in States /\ D.mirrored \in Nat /\ D.mirrored <= Work
  BY <1>1, CurrentIsLast, StateParts, LedgerAssumption DEF InOrder, Formed
<1>3. PICK dropped \in {0, 1} :
        /\ dropped <= D.mirrored
        /\ Push([D EXCEPT !.mirrored = @ - dropped], "reconcile", 0)
  BY DEF Reconcile
<1> DEFINE t == [D EXCEPT !.mirrored = @ - dropped]
<1>4. t.runs = D.runs /\ t.phases = D.phases /\ t.walks = D.walks
      /\ t.mirrored = D.mirrored - dropped
  BY <1>2 DEF States
<1>5. t = [runs |-> t.runs, phases |-> t.phases, mirrored |-> t.mirrored, walks |-> t.walks]
  BY <1>2 DEF States
<1>6. D.mirrored - dropped \in 0..Work
  BY <1>2, <1>3, LedgerAssumption
<1>7. Formed(t)
  BY <1>2, <1>4, <1>5, <1>6, StateParts DEF Formed
<1>8. Amends(t, D) /\ Last(t) = Last(D) /\ t \in States
  BY <1>2, <1>4, <1>7, RowAmended DEF Amends
<1>9. Push(t, "reconcile", 0) /\ host' = host
  BY <1>3 DEF Reconcile
<1> HIDE DEF t
<1>10. D' = t /\ label' = <<Last(D).epoch, "reconcile", 0>>
  BY <1>1, <1>8, <1>9, Pushes
<1>11. QED
  BY <1>8, <1>10

LEMMA Closes ==
  ASSUME InOrder, Close
  PROVE  Amends(D', D) /\ Last(D') = Last(D) /\ D'.mirrored = D.mirrored
<1>1. D \in States /\ at \in Phase /\ host' = host
  BY HostTypes DEF InOrder, Close, Phase
<1> DEFINE x == IF at = "report" /\ D.runs[D.phases[at].run].status = "FAIL" THEN "FAIL"
                ELSE "PASS"
           t == IF at = "reconcile" THEN [D EXCEPT !.walks = @ \cup {Run.epoch}] ELSE D
<1>2. x \in {"PASS", "FAIL"}
  BY Zenon
<1>3. t \in States /\ Amends(t, D) /\ Last(t) = Last(D) /\ t.mirrored = D.mirrored
  <2>1. CASE at = "reconcile"
    <3>1. Run = Last(D) /\ Run.epoch \in Nat
      <4>1. Running(D) # {}
        BY <2>1 DEF InOrder, Positioned, Phase
      <4>2. QED
        BY <4>1, CurrentIsLast, StateParts DEF InOrder, Last
    <3> DEFINE u == [D EXCEPT !.walks = @ \cup {Run.epoch}]
    <3>2. u.runs = D.runs /\ u.phases = D.phases /\ u.mirrored = D.mirrored
          /\ u.walks = D.walks \cup {Run.epoch}
      BY <1>1 DEF States
    <3>3. ASSUME NEW v, v = u
          PROVE  v = [runs |-> v.runs, phases |-> v.phases, mirrored |-> v.mirrored,
                      walks |-> v.walks]
      BY <1>1, <3>3 DEF States
    <3>4. Formed(u)
      BY <1>1, <3>1, <3>2, <3>3, StateParts DEF Formed
    <3>5. Amends(u, D) /\ Last(u) = Last(D) /\ u \in States
      BY <1>1, <3>2, <3>4, RowAmended DEF Amends
    <3>6. QED
      BY <2>1, <3>2, <3>5
  <2>2. CASE at # "reconcile"
    BY <1>1, <2>2, Same
  <2>3. QED
    BY <2>1, <2>2
<1>4. Save(Closed(t, at, x))
  BY Zenon DEF Close
<1> HIDE DEF t, x
<1>5. D' = Closed(t, at, x)
  BY <1>1, <1>4, Saves DEF InOrder
<1>6. Amends(D', t) /\ Last(D') = Last(t) /\ D'.mirrored = t.mirrored
  BY <1>1, <1>2, <1>3, <1>5, PhaseRows
<1>7. QED
  BY <1>1, <1>3, <1>6, AmendsBoth

LEMMA Raises ==
  ASSUME InOrder, Raise
  PROVE  /\ Amends(D', D) /\ D'.mirrored = D.mirrored
         /\ at # "batches" => Last(D') = Last(D)
         /\ at = "batches" => ~Last(D').chain
<1>1. D \in States /\ at \in Phase /\ host' = host
  BY HostTypes DEF InOrder, Raise
<1>2. CASE at # "batches"
  <2>1. D' = Closed(D, at, "FAIL")
    BY <1>1, <1>2, Saves DEF InOrder, Raise
  <2>2. QED
    BY <1>1, <1>2, <2>1, PhaseRows
<1>3. CASE at = "batches"
  <2>1. Running(D) # {}
    BY <1>1, <1>3 DEF InOrder, Positioned
  <2>2. D.runs # << >> /\ Current(D) = Len(D.runs) /\ Run = Last(D)
    BY <2>1, CurrentIsLast DEF InOrder
  <2>3. /\ Last(D).done \in Nat /\ Last(D).planned \in Nat /\ Last(D).planned <= Work
        /\ Last(D).done <= Last(D).planned
    <3>1. Last(D) \in Runs
      BY <1>1, <2>2, StateParts
    <3>2. QED
      BY <1>3, <3>1, LedgerAssumption DEF Runs, InOrder, Positioned
  <2>4. Last(D).planned - Completed \in -1..Work
    <3>1. CASE Completed = Last(D).done
      BY <2>3, <3>1, LedgerAssumption
    <3>2. CASE Completed # Last(D).done
      <4>1. stage \in {"put", "copy"} /\ ~(label[3] > Last(D).done)
            /\ Completed = Last(D).done - 1
        BY <2>2, <3>2, Zenon DEF Completed, BatchFailed
      <4>2. label[3] \in {Last(D).done, Last(D).done + 1} \ {0}
        BY <1>3, <4>1 DEF InOrder, Positioned
      <4>3. Last(D).done >= 1
        BY <2>3, <4>1, <4>2
      <4>4. QED
        BY <2>3, <4>1, <4>3, LedgerAssumption
    <3>3. QED
      BY <3>1, <3>2
  <2>5. PICK left \in {Run.planned - Completed}
                        \cup (IF stage = "body" /\ Run.done = 0 THEN {-1} ELSE {}) :
          Save(Closed([D EXCEPT !.runs[Current(D)].remaining = left,
                                !.runs[Current(D)].chain = FALSE], at, "FAIL"))
    BY <1>3, Zenon DEF Raise
  <2>6. left \in -1..Work
    BY <2>2, <2>4, <2>5, LedgerAssumption
  <2> DEFINE t == [D EXCEPT !.runs[Len(D.runs)].remaining = left,
                            !.runs[Len(D.runs)].chain = FALSE]
  <2>7. Amends(t, D) /\ Last(t) = [Last(D) EXCEPT !.remaining = left, !.chain = FALSE]
        /\ t.mirrored = D.mirrored
    BY <1>1, <2>2, <2>6, EndedRow
  <2>8. Save(Closed(t, at, "FAIL"))
    BY <2>2, <2>5
  <2> HIDE DEF t
  <2>9. D' = Closed(t, at, "FAIL") /\ t \in States
    BY <1>1, <2>7, <2>8, Saves DEF InOrder, Amends
  <2>10. Amends(D', t) /\ Last(D') = Last(t) /\ D'.mirrored = t.mirrored
    BY <1>1, <2>9, PhaseRows
  <2>11. ~Last(D').chain
    <3>1. Last(D) \in Runs
      BY <1>1, <2>2, StateParts
    <3>2. QED
      BY <2>7, <2>10, <3>1 DEF Runs
  <2>12. QED
    BY <1>1, <1>3, <2>7, <2>9, <2>10, <2>11, AmendsBoth
<1>4. QED
  BY <1>2, <1>3

LEMMA Finishes ==
  ASSUME InOrder, FinishRun
  PROVE  /\ Amends(D', D) /\ D'.mirrored = D.mirrored
         /\ \E x \in {"SUCCESS", "FAIL"} : Last(D') = [Last(D) EXCEPT !.status = x]
         /\ label' = <<Last(D).epoch, "report", 0>>
<1>1. Running(D) # {} /\ host' = host
  BY DEF FinishRun, InOrder, Positioned, Phase, InPhase
<1>2. D \in States /\ D.runs # << >> /\ Current(D) = Len(D.runs)
  BY <1>1, CurrentIsLast DEF InOrder
<1> DEFINE x == IF FailedPhases = {} THEN "SUCCESS" ELSE "FAIL"
           t == [D EXCEPT !.runs[Len(D.runs)].status = x]
<1>3. x \in {"SUCCESS", "FAIL"}
  BY Zenon
<1>4. Push(t, "report", 0)
  BY <1>2 DEF FinishRun
<1>5. Amends(t, D) /\ Last(t) = [Last(D) EXCEPT !.status = x] /\ t.mirrored = D.mirrored
  <2> HIDE DEF x
  <2>1. QED
    BY <1>2, <1>3, FinishedRow
<1> HIDE DEF t
<1>6. D' = t /\ label' = <<Last(D).epoch, "report", 0>>
  BY <1>1, <1>4, <1>5, Pushes DEF Amends
<1>7. QED
  BY <1>3, <1>5, <1>6

\* A run that starts is the newest of its state, and reconciles only when no other run of the
\* day has, or when it is forced to.
LEMMA StartedSound ==
  ASSUME NEW s \in States, epoch \in Nat, Sound(s, epoch)
  PROVE  /\ Started(s) \in States /\ Sound(Started(s), epoch + 1)
         /\ Len(Started(s).runs) = Len(s.runs) + 1
         /\ Last(Started(s)) = NewRun(s) /\ NewRun(s).status = "RUNNING"
         /\ Running(Started(s)) = {Len(s.runs) + 1}
         /\ \A i \in 1..Len(s.runs) : /\ Started(s).runs[i].epoch = s.runs[i].epoch
                                      /\ Started(s).runs[i].done = s.runs[i].done
         /\ Started(s).mirrored = s.mirrored
<1> DEFINE n == Len(s.runs)
           kept == [i \in DOMAIN s.runs |->
                      IF s.runs[i].status = "RUNNING"
                      THEN [s.runs[i] EXCEPT !.status = "INTERRUPTED"] ELSE s.runs[i]]
           t == Started(s)
<1>1. /\ s.runs \in Seq(Runs) /\ n \in Nat /\ DOMAIN s.runs = 1..n
      /\ \A i \in 1..n : s.runs[i] \in Runs
  BY StateParts
<1>2. NewRun(s) \in Runs /\ NewRun(s).status = "RUNNING" /\ NewRun(s).epoch = epoch
      /\ NewRun(s).reconcile = IsReconcileRun(s)
  <2>1. IsReconcileRun(s) \in BOOLEAN
    BY DEF IsReconcileRun
  <2>2. QED
    BY <2>1, LedgerAssumption DEF NewRun, Runs
<1>3. \A i \in 1..n : /\ kept[i] \in Runs /\ kept[i].status # "RUNNING"
                      /\ kept[i].epoch = s.runs[i].epoch /\ kept[i].done = s.runs[i].done
                      /\ kept[i].reconcile = s.runs[i].reconcile
  BY <1>1 DEF Runs
<1>4. kept \in Seq(Runs) /\ Len(kept) = n
  <2>1. kept \in [1..n -> Runs]
    BY <1>1, <1>3
  <2>2. QED
    BY <1>1, <2>1, SeqDef
<1> HIDE DEF kept
<1>5. /\ t.runs = Append(kept, NewRun(s)) /\ t.phases = s.phases
      /\ t.mirrored = s.mirrored /\ t.walks = s.walks
  BY DEF Started, States, kept
<1>6. ASSUME NEW u, u = t
      PROVE  u = [runs |-> u.runs, phases |-> u.phases, mirrored |-> u.mirrored,
                  walks |-> u.walks]
  BY <1>6 DEF Started, States
<1>7. /\ t.runs \in Seq(Runs) /\ Len(t.runs) = n + 1 /\ t.runs[n + 1] = NewRun(s)
      /\ \A i \in 1..n : t.runs[i] = kept[i]
  BY <1>1, <1>2, <1>4, <1>5, AppendProperties
<1>8. t \in States
  <2>1. Formed(t)
    BY <1>5, <1>6, StateParts DEF Formed
  <2>2. QED
    BY <1>7, <2>1 DEF Formed, States
<1> HIDE DEF t
<1>9. Running(t) = {n + 1} /\ Last(t) = NewRun(s) /\ DOMAIN t.runs = 1..n + 1
  <2>1. Last(t) = NewRun(s)
    BY <1>7 DEF Last
  <2>2. DOMAIN t.runs = 1..n + 1
    BY <1>7, <1>8, StateParts
  <2>3. \A i \in 1..n : t.runs[i].status # "RUNNING"
    BY <1>3, <1>7
  <2>4. Running(t) \subseteq {n + 1}
    BY <1>1, <2>2, <2>3 DEF Running
  <2>5. n + 1 \in Running(t)
    BY <1>1, <1>2, <1>7, <2>2 DEF Running
  <2>6. QED
    BY <2>1, <2>2, <2>4, <2>5
<1>10. \A i \in 1..n + 1 : t.runs[i].epoch < epoch + 1
  <2>1. ASSUME NEW i \in 1..n PROVE t.runs[i].epoch < epoch + 1
    <3>1. t.runs[i].epoch = s.runs[i].epoch
      BY <1>3, <1>7
    <3>2. s.runs[i].epoch \in Nat /\ s.runs[i].epoch < epoch
      BY <1>1, StateParts DEF Sound
    <3>3. QED
      BY <3>1, <3>2
  <2>2. QED
    BY <1>1, <1>2, <1>7, <2>1
<1>11. \A i, j \in 1..n + 1 :
         /\ i < j /\ t.runs[i].reconcile /\ t.runs[j].reconcile
         /\ Day(t.runs[i].epoch) = Day(t.runs[j].epoch)
         => t.runs[j].epoch \in ForcedAt
  <2> SUFFICES ASSUME NEW i \in 1..n + 1, NEW j \in 1..n + 1, i < j, t.runs[i].reconcile,
                      t.runs[j].reconcile, Day(t.runs[i].epoch) = Day(t.runs[j].epoch)
               PROVE  t.runs[j].epoch \in ForcedAt
    OBVIOUS
  <2>1. i \in 1..n
    BY <1>1
  <2>2. CASE j \in 1..n
    <3>1. /\ t.runs[i].epoch = s.runs[i].epoch /\ t.runs[i].reconcile = s.runs[i].reconcile
          /\ t.runs[j].epoch = s.runs[j].epoch /\ t.runs[j].reconcile = s.runs[j].reconcile
      BY <1>3, <1>7, <2>1, <2>2
    <3>2. i \in DOMAIN s.runs /\ j \in DOMAIN s.runs
      BY <1>1, <2>1, <2>2
    <3>3. QED
      BY <3>1, <3>2 DEF Sound
  <2>3. CASE j = n + 1
    <3>1. t.runs[j].epoch = epoch /\ IsReconcileRun(s) /\ t.runs[i].epoch = s.runs[i].epoch
      BY <1>2, <1>3, <1>7, <2>1, <2>3
    <3>2. s.runs[i].epoch \in Nat /\ s.runs[i].epoch < epoch
      BY <1>1, <2>1, StateParts DEF Sound
    <3>3. ~(s.runs[i].epoch < DayLength * Day(epoch))
      BY <3>1, <3>2, BeforeTheDay
    <3>4. ~(s.runs[i].epoch >= epoch)
      BY <3>2
    <3>5. QED
      BY <1>1, <2>1, <3>1, <3>3, <3>4 DEF IsReconcileRun
  <2>4. QED
    BY <1>1, <2>2, <2>3
<1>12. Sound(t, epoch + 1)
  BY <1>7, <1>9, <1>10, <1>11 DEF Sound
<1>13. QED
  BY <1>3, <1>5, <1>7, <1>8, <1>9, <1>2, <1>12 DEF t
-----------------------------------------------------------------------------
\* The invariant of every host.

LEMMA InOrderInit == Init => InOrder
<1> SUFFICES ASSUME Init PROVE InOrder
  OBVIOUS
<1>1. TypeOK
  <2>1. host \in Host /\ db \in [Host -> States]
    BY LedgerAssumption, EmptyState DEF Init
  <2>2. marker \in [Host -> BOOLEAN] /\ broken \in BOOLEAN
    BY Zenon DEF Init
  <2>3. DOMAIN dated = {}
    BY DEF Init
  <2>4. label \in Labels
    BY DEF Init, Labels
  <2>5. report \in [Host -> Nat] /\ epoch \in Nat /\ now \in Nat /\ faults \in Nat
    BY DEF Init
  <2>6. QED
    BY <2>1, <2>2, <2>3, <2>4, <2>5, Zenon DEF Init, TypeOK
<1>2. StatesSound
  BY EmptyState DEF Init, StatesSound
<1>3. Positioned
  BY DEF Init, Positioned, Stages, Early, Phase
<1>4. QED
  BY <1>1, <1>2, <1>3 DEF InOrder

\* A run starts on one of the hosts, no earlier than the last one.
LEMMA RunStarts ==
  ASSUME InOrder, (\E h \in Starts : Dispatch(h)) \/ Chained
  PROVE  \E h \in Host : \E e \in Nat : /\ e >= now /\ Clock(h, e)
                                        /\ h \in Starts \/ h = host
<1>1. now \in Nat /\ host \in Host
  BY DEF InOrder, TypeOK
<1>2. ASSUME NEW h \in Starts, Dispatch(h)
      PROVE  h \in Host /\ \E e \in Nat : e >= now /\ Clock(h, e)
  <2>1. PICK e \in {now, DayLength * (Day(now) + 1)} : Clock(h, e)
    BY <1>2 DEF Dispatch
  <2>2. e \in Nat /\ e >= now
    BY <1>1, <2>1, NextDay
  <2>3. QED
    BY <2>1, <2>2, LedgerAssumption
<1>3. Chained => host \in Host /\ now >= now /\ Clock(host, now)
  BY <1>1 DEF Chained
<1>4. QED
  BY <1>1, <1>2, <1>3

\* The steps that write to the database of the run and leave the bucket alone.
Writing ==
    \/ Enter \/ Prepare \/ Checkpoint \/ FailBatch \/ EndBatches \/ SkipTrash \/ Trash
    \/ SkipReconcile \/ Reconcile \/ Close \/ Raise \/ FinishRun

LEMMA WritingAmends ==
  ASSUME InOrder, Writing
  PROVE  /\ Amends(D', D) /\ at \in Phase
         /\ db' \in [Host -> States] /\ \A h \in Host : h # host => db'[h] = db[h]
         /\ UNCHANGED <<bucket, files, host, epoch, now>>
<1>1. Amends(D', D)
  BY Enters, Prepares, Checkpoints, Fails, Ends, Skips, Trashes, Reconciles, Closes, Raises,
     Finishes, Zenon DEF Writing
<1>2. UNCHANGED <<bucket, files, host, epoch, now>>
  BY DEF Writing, Enter, Prepare, Checkpoint, FailBatch, EndBatches, SkipTrash, Trash,
     SkipReconcile, Reconcile, Close, Raise, FinishRun
<1>3. \E s : Save(s)
  BY Zenon DEF Writing, Enter, Prepare, Checkpoint, FailBatch, EndBatches, SkipTrash, Trash,
     SkipReconcile, Reconcile, Close, Raise, FinishRun, Pass, Push
<1>4. PICK s : Save(s)
  BY <1>3
<1>5. D' = s
  BY <1>2, <1>4, Saves DEF InOrder
<1>6. db' \in [Host -> States] /\ \A h \in Host : h # host => db'[h] = db[h]
  BY <1>1, <1>2, <1>4, <1>5, Saves DEF InOrder, Amends
<1>7. at \in Phase
  BY DEF Writing, Enter, Prepare, Checkpoint, FailBatch, EndBatches, SkipTrash, Trash,
     SkipReconcile, Reconcile, Close, Raise, FinishRun, InPhase, Phase
<1>8. QED
  BY <1>1, <1>2, <1>6, <1>7

LEMMA Breaks ==
  ASSUME Break
  PROVE  broken' = TRUE /\ stage' = "enter" /\ at' \in {"idle", "report"}
BY Zenon DEF Break

\* Where a writing step goes.
LEMMA WritingGoes ==
  ASSUME InOrder, Writing
  PROVE  /\ at' \in Phase \cup {"idle"} /\ stage' \in Stages[at']
         /\ broken' \in BOOLEAN /\ faults' \in Nat /\ label' \in Labels
<1>1. at \in Phase /\ stage \in Stages[at] /\ broken \in BOOLEAN /\ faults \in Nat
      /\ label \in Labels
  BY WritingAmends DEF InOrder, TypeOK, Positioned
<1>2. CASE Enter
  BY <1>1, <1>2 DEF Enter, Goto, Stages, Phase
<1>3. CASE Prepare \/ EndBatches \/ SkipTrash \/ SkipReconcile
  <2>1. at' = Then[at] /\ stage' = "enter" /\ UNCHANGED <<broken, faults, label>>
    BY <1>3 DEF Prepare, EndBatches, SkipTrash, SkipReconcile, Pass, Goto
  <2>2. QED
    BY <1>1, <2>1 DEF Stages, Phase, Then
<1>4. CASE Close
  BY <1>1, <1>4 DEF Close, Goto, Stages, Phase, Then
<1>5. CASE Raise
  <2>1. faults' \in Nat /\ label' = label
    <3>1. label' = label /\ (Fault \/ faults' = faults)
      BY <1>5, Zenon DEF Raise
    <3>2. QED
      BY <1>1, <3>1 DEF Fault
  <2>2. Break
    BY <1>5 DEF Raise
  <2>3. QED
    BY <1>1, <2>1, <2>2, Breaks DEF Stages, Phase
<1>6. CASE Checkpoint \/ FailBatch \/ Trash \/ Reconcile \/ FinishRun
  <2>1. at' = at /\ stage' = "put" /\ UNCHANGED broken
        /\ at \in {"batches", "trash", "reconcile", "report"}
    BY <1>6 DEF Checkpoint, FailBatch, Trash, Reconcile, FinishRun, Push, Goto, InPhase
  <2>2. faults' \in Nat
    BY <1>1, <1>6 DEF Checkpoint, FailBatch, Trash, Reconcile, FinishRun, Fault
  <2>3. label' \in Labels
    <3>1. Running(D) # {}
      BY <1>6 DEF Checkpoint, FailBatch, Trash, Reconcile, FinishRun, InPhase, InOrder,
                  Positioned, Phase
    <3>2. Last(D).epoch \in Nat /\ Last(D).done \in Nat
      BY <3>1, CurrentIsLast, StateParts DEF InOrder, Last
    <3>3. label' \in {<<Last(D).epoch, "batch", Last(D).done + 1>>, <<Last(D).epoch, "trash", 0>>,
                      <<Last(D).epoch, "reconcile", 0>>, <<Last(D).epoch, "report", 0>>}
      BY <1>6, Checkpoints, Fails, Trashes, Reconciles, Finishes, Zenon
    <3>4. QED
      BY <3>2, <3>3 DEF Labels
  <2>4. QED
    BY <1>1, <2>1, <2>2, <2>3 DEF Stages, Phase
<1>7. QED
  BY <1>2, <1>3, <1>4, <1>5, <1>6 DEF Writing

LEMMA FetchedSound ==
  ASSUME InOrder, at = "state"
  PROVE  /\ Fetched \in States /\ Sound(Fetched, epoch) /\ epoch \in Nat /\ now = epoch + 1
<1>1. epoch \in Nat /\ now = epoch + 1 /\ Begun = epoch
  BY DEF InOrder, TypeOK, Positioned, Begun
<1>2. CASE canon = None
  BY <1>1, <1>2, EmptyState DEF Fetched
<1>3. CASE canon # None
  BY <1>1, <1>3 DEF Fetched, InOrder, TypeOK, StatesSound
<1>4. QED
  BY <1>1, <1>2, <1>3

\* The state step: the bucket's state takes the place of the host's, then the row is added.
LEMMA Fetches ==
  ASSUME InOrder, FetchState
  PROVE  /\ D' = Fetched /\ ~Lost /\ at = "state" /\ stage = "enter" /\ at' = at /\ stage' = "body"
         /\ db' \in [Host -> States] /\ \A h \in Host : db'[h] = IF h = host THEN Fetched ELSE db[h]
         /\ UNCHANGED <<bucket, files, host, epoch, label, now, faults, broken>>
<1>1. /\ ~Lost /\ at = "state" /\ stage = "enter" /\ at' = at /\ stage' = "body" /\ Save(Fetched)
      /\ UNCHANGED <<bucket, files, host, epoch, label, now, faults, broken>>
  BY DEF FetchState, Goto, InPhase
<1>2. Fetched \in States
  BY <1>1, FetchedSound
<1>3. QED
  BY <1>1, <1>2, Saves DEF InOrder, D

LEMMA StartsRun ==
  ASSUME InOrder, StartRun
  PROVE  /\ D = Fetched /\ D' = Started(Fetched) /\ ~Lost
         /\ at = "state" /\ stage = "body" /\ at' = "inventory" /\ stage' = "enter"
         /\ db' \in [Host -> States]
         /\ \A h \in Host : db'[h] = IF h = host THEN Started(Fetched) ELSE db[h]
         /\ UNCHANGED <<bucket, files, host, epoch, label, now, faults, broken>>
<1>1. /\ at = "state" /\ stage = "body" /\ at' = "inventory" /\ stage' = "enter" /\ Save(Started(D))
      /\ UNCHANGED <<bucket, files, host, epoch, label, now, faults, broken>>
  BY DEF StartRun, Goto, InPhase
<1>2. D = Fetched /\ ~Lost
  BY <1>1 DEF InOrder, Positioned
<1>3. Started(Fetched) \in States
  BY <1>1, FetchedSound, StartedSound
<1>4. QED
  BY <1>1, <1>2, <1>3, Saves DEF InOrder, D

LEMMA TypeNext ==
  ASSUME InOrder, [Next]_vars
  PROVE  TypeOK'
<1> USE DEF bucket, files, position
<1>0. TypeOK /\ Positioned /\ D \in States
  BY HostTypes DEF InOrder
<1>1. CASE UNCHANGED vars
  BY <1>0, <1>1 DEF vars, TypeOK
<1>2. CASE (\E h \in Starts : Dispatch(h)) \/ Chained
  <2>1. PICK h \in Host, e \in Nat : e >= now /\ Clock(h, e)
    BY <1>2, RunStarts
  <2>2. db' \in [Host -> States]
    BY <1>0, <2>1, EmptyState DEF TypeOK, Clock
  <2>3. marker' \in [Host -> BOOLEAN] /\ broken' \in BOOLEAN
    <3>1. marker' = [marker EXCEPT ![h] = FALSE] /\ broken' = FALSE
      BY <2>1 DEF Clock
    <3>2. QED
      BY <1>0, <3>1, Zenon DEF TypeOK
  <2>4. report' \in [Host -> Nat]
    BY <1>0, <2>1 DEF TypeOK, Clock
  <2>5. QED
    BY <1>0, <2>1, <2>2, <2>3, <2>4 DEF TypeOK, Clock
<1>3. ASSUME NEW h \in Host, Status(h) PROVE TypeOK'
  <2>1. db' \in [Host -> States]
    BY <1>0, <1>3, EmptyState DEF TypeOK, Status
  <2>2. QED
    BY <1>0, <1>3, <2>1 DEF TypeOK, Status
<1>4. CASE RestoreSession
  BY <1>0, <1>4 DEF RestoreSession, Goto, TypeOK
<1>5. CASE FetchState \/ StartRun
  BY <1>0, <1>5, Fetches, StartsRun DEF TypeOK, Phase
<1>6. CASE FetchFails
  <2>1. db' \in [Host -> States]
    BY <1>0, <1>6, EmptyState, Saves DEF FetchFails
  <2>2. Break /\ UNCHANGED <<bucket, files, host, epoch, label, now>> /\ (Fault \/ faults' = faults)
    BY <1>6, Zenon DEF FetchFails
  <2>3. faults' \in Nat
    BY <1>0, <2>2 DEF Fault, TypeOK
  <2>4. QED
    BY <1>0, <2>1, <2>2, <2>3, Breaks DEF TypeOK, Phase
<1>7. CASE NoRun \/ SessionFails \/ StateDies \/ Killed
  <2>1. Break /\ UNCHANGED <<bucket, db, files, host, epoch, label, now>>
        /\ (Fault \/ faults' = faults)
    BY <1>7, Zenon DEF NoRun, SessionFails, StateDies, Killed
  <2>2. faults' \in Nat
    BY <1>0, <2>1 DEF Fault, TypeOK
  <2>3. QED
    BY <1>0, <2>1, <2>2, Breaks DEF TypeOK, Phase
<1>8. CASE Writing
  <2>1. at' \in Phase \cup {"idle"} /\ broken' \in BOOLEAN /\ faults' \in Nat /\ label' \in Labels
        /\ stage' \in {"enter", "body", "finish", "put", "copy", "close", "raise"}
    BY <1>8, WritingGoes DEF Stages, Phase
  <2>2. QED
    BY <1>0, <1>8, <2>1, WritingAmends DEF TypeOK
<1>9. CASE WriteReport
  <2>1. report' \in [Host -> Nat]
    <3>1. Current(D) \in Nat
      BY <1>9, CurrentIsLast, StateParts
         DEF WriteReport, InPhase, InOrder, Positioned, Phase
    <3>2. QED
      BY <1>0, <1>9, <3>1 DEF WriteReport, TypeOK
  <2>2. marker' \in [Host -> BOOLEAN]
    <3>1. PICK b \in BOOLEAN : marker' = [marker EXCEPT ![host] = b]
      <4>1. (Asks(Run) /\ FailedPhases = {}) \in BOOLEAN
        BY Zenon
      <4>2. QED
        BY <1>9, <4>1, Zenon DEF WriteReport
    <3>2. QED
      BY <1>0, <3>1, Zenon DEF TypeOK
  <2>3. UNCHANGED <<bucket, db, host, epoch, label, now, faults, broken>>
        /\ at' = "report" /\ stage' = "finish"
    BY <1>9, Zenon DEF WriteReport, Goto
  <2>4. QED
    BY <1>0, <2>1, <2>2, <2>3 DEF TypeOK, Phase
<1>10. CASE Put
  <2>1. DOMAIN dated' = DOMAIN dated \cup {label}
        /\ \A l \in DOMAIN dated' : dated'[l] = IF l = label THEN D ELSE dated[l]
    BY <1>10 DEF Put
  <2>2. DOMAIN dated' \subseteq Labels /\ \A l \in DOMAIN dated' : dated'[l] \in States
    BY <1>0, <2>1 DEF TypeOK
  <2>3. QED
    BY <1>0, <1>10, <2>2 DEF Put, Goto, TypeOK
<1>11. CASE Copy
  <2>1. canon' \in States
    BY <1>0, <1>11 DEF Copy, Positioned, TypeOK
  <2>2. stage' \in {"close", "raise", "body"} /\ at' = at /\ UNCHANGED broken
    BY <1>11, Zenon DEF Copy, Goto
  <2>3. QED
    BY <1>0, <1>11, <2>1, <2>2 DEF Copy, TypeOK
<1>12. CASE HostLost
  BY <1>0, <1>12 DEF HostLost, Fault, TypeOK
<1>13. CASE Lose \/ \E l \in DOMAIN dated : Rollback(l)
  <2>1. canon' \in States \cup {None}
    BY <1>0, <1>13 DEF Lose, Rollback, TypeOK
  <2>2. UNCHANGED <<dated, db, files, host, epoch, position, label, now>> /\ faults' \in Nat
    BY <1>0, <1>13 DEF Lose, Rollback, Fault, TypeOK
  <2>3. QED
    BY <1>0, <2>1, <2>2 DEF TypeOK
<1>14. QED
  BY <1>1, <1>2, <1>3, <1>4, <1>5, <1>6, <1>7, <1>8, <1>9, <1>10, <1>11, <1>12, <1>13, Zenon
     DEF Next, Pipeline, Failure, Writing

LEMMA SoundStays ==
  ASSUME TypeOK, StatesSound, UNCHANGED <<bucket, db>>, Begun \in Nat, Begun' \in Nat,
         Begun <= Begun'
  PROVE  StatesSound'
<1>1. canon # None => Sound(canon, Begun')
  BY SoundLater DEF TypeOK, StatesSound
<1>2. \A l \in DOMAIN dated : Sound(dated[l], Begun')
  BY SoundLater DEF TypeOK, StatesSound
<1>3. \A h \in Host : Sound(db[h], Begun')
  BY SoundLater DEF TypeOK, StatesSound
<1>4. QED
  BY <1>1, <1>2, <1>3 DEF StatesSound, bucket

LEMMA SoundNext ==
  ASSUME InOrder, [Next]_vars
  PROVE  StatesSound'
<1> USE DEF bucket, files, position
<1>0. /\ TypeOK /\ StatesSound /\ Positioned /\ D \in States
      /\ Begun \in Nat /\ now \in Nat /\ epoch \in Nat
  BY HostTypes, BegunTypes DEF InOrder, TypeOK
<1>1. CASE UNCHANGED vars
  BY <1>0, <1>1, SoundStays DEF vars, Begun
<1>2. CASE (\E h \in Starts : Dispatch(h)) \/ Chained
  <2>1. PICK h \in Host, e \in Nat : e >= now /\ Clock(h, e)
    BY <1>2, RunStarts
  <2>2. Begun = now /\ Begun' = e /\ UNCHANGED bucket
    BY <2>1 DEF Clock, Begun
  <2>3. (canon # None => Sound(canon, e)) /\ \A l \in DOMAIN dated : Sound(dated[l], e)
    BY <1>0, <2>1, <2>2, SoundLater DEF TypeOK, StatesSound
  <2>4. \A g \in Host : Sound(db[g], e)
    BY <1>0, <2>1, <2>2, SoundLater DEF TypeOK, StatesSound
  <2>5. \A g \in Host : db'[g] \in {db[g], Empty}
    BY <1>0, <2>1 DEF Clock, TypeOK
  <2>6. \A g \in Host : Sound(db'[g], e)
    BY <2>4, <2>5, EmptyState
  <2>7. QED
    BY <2>2, <2>3, <2>6 DEF StatesSound
<1>3. ASSUME NEW h \in Host, Status(h) PROVE StatesSound'
  <2>1. Begun' = Begun /\ UNCHANGED bucket
    BY <1>3 DEF Status, Begun
  <2>2. \A g \in Host : db'[g] = IF g = h THEN IF canon = None THEN Empty ELSE canon ELSE db[g]
    BY <1>0, <1>3 DEF Status, TypeOK
  <2>3. \A g \in Host : Sound(db'[g], Begun)
    BY <1>0, <2>2, EmptyState DEF StatesSound
  <2>4. QED
    BY <1>0, <2>1, <2>3 DEF StatesSound
<1>4. CASE RestoreSession
  BY <1>0, <1>4, SoundStays DEF RestoreSession, Goto, Begun
<1>5. CASE FetchState
  <2>1. Begun' = Begun /\ UNCHANGED bucket /\ \A g \in Host : db'[g] = IF g = host THEN Fetched ELSE db[g]
    BY <1>5, Fetches DEF Begun
  <2>2. Sound(Fetched, Begun)
    BY <1>5, Fetches, FetchedSound DEF Begun
  <2>3. QED
    BY <1>0, <2>1, <2>2 DEF StatesSound
<1>14. CASE StartRun
  <2>1. Sound(Started(Fetched), epoch + 1) /\ now = epoch + 1 /\ Begun = epoch /\ Begun' = epoch + 1
        /\ UNCHANGED bucket
    BY <1>14, StartsRun, FetchedSound, StartedSound DEF Begun
  <2>2. \A g \in Host : db'[g] = IF g = host THEN Started(Fetched) ELSE db[g]
    BY <1>14, StartsRun
  <2>3. /\ canon # None => Sound(canon, epoch + 1)
        /\ \A l \in DOMAIN dated : Sound(dated[l], epoch + 1)
        /\ \A g \in Host : Sound(db[g], epoch + 1)
    <3>1. epoch + 1 \in Nat /\ epoch <= epoch + 1
      BY <1>0
    <3>2. QED
      BY <1>0, <2>1, <3>1, SoundLater DEF TypeOK, StatesSound
  <2>4. \A g \in Host : Sound(db'[g], epoch + 1)
    BY <2>1, <2>2, <2>3
  <2>5. QED
    BY <2>1, <2>3, <2>4 DEF StatesSound
<1>6. CASE FetchFails
  <2>1. at = "state" /\ Break /\ UNCHANGED <<bucket, host, now>>
    BY <1>6, Zenon DEF FetchFails, InPhase
  <2>2. Begun = epoch /\ Begun' = now /\ now = epoch + 1
    BY <1>0, <2>1, Breaks DEF Begun, Positioned
  <2>3. \A g \in Host : db'[g] = IF g = host THEN Empty ELSE db[g]
    BY <1>0, <1>6 DEF FetchFails, Save, TypeOK
  <2>4. /\ canon # None => Sound(canon, now)
        /\ \A l \in DOMAIN dated : Sound(dated[l], now)
        /\ \A g \in Host : Sound(db[g], now)
    <3>1. epoch <= now
      BY <1>0, <2>2
    <3>2. QED
      BY <1>0, <2>2, <3>1, SoundLater DEF TypeOK, StatesSound
  <2>5. \A g \in Host : Sound(db'[g], now)
    BY <2>3, <2>4, EmptyState
  <2>6. QED
    BY <2>1, <2>2, <2>4, <2>5 DEF StatesSound
<1>7. CASE NoRun \/ SessionFails \/ StateDies \/ Killed \/ HostLost
  <2>1. at # "idle" /\ at' \in {"idle", "report"} /\ UNCHANGED <<bucket, db, epoch, now>>
    BY <1>7, Breaks DEF NoRun, SessionFails, StateDies, Killed, HostLost, Phase
  <2>2. Begun' = now /\ Begun <= now
    BY <1>0, <2>1, BegunTypes DEF Begun
  <2>3. QED
    BY <1>0, <2>1, <2>2, SoundStays
<1>8. CASE Writing
  <2>1. at \in Phase /\ at' \in Phase \cup {"idle"}
    BY <1>8, WritingAmends, WritingGoes
  <2>2. Begun' = Begun
    BY <1>8, <2>1, WritingAmends DEF Begun, Phase
  <2>3. QED
    BY <1>0, <1>8, <2>2, WritingAmends, SoundKept
<1>9. CASE WriteReport
  BY <1>0, <1>9, SoundStays DEF WriteReport, InPhase, Goto, Begun
<1>10. CASE Put
  <2>1. DOMAIN dated' = DOMAIN dated \cup {label}
        /\ \A l \in DOMAIN dated' : dated'[l] = IF l = label THEN D ELSE dated[l]
    BY <1>10 DEF Put
  <2>2. Begun' = Begun /\ UNCHANGED <<canon, db>>
    BY <1>10 DEF Put, Goto, Begun
  <2>3. Sound(D, Begun)
    BY <1>0, HostTypes DEF StatesSound, D
  <2>4. QED
    BY <1>0, <2>1, <2>2, <2>3 DEF StatesSound
<1>11. CASE Copy
  <2>1. Begun' = Begun /\ UNCHANGED <<dated, db>> /\ canon' = dated[label] /\ label \in DOMAIN dated
    BY <1>0, <1>11 DEF Copy, Goto, Begun, Positioned
  <2>2. QED
    BY <1>0, <2>1 DEF StatesSound
<1>12. CASE Lose \/ \E l \in DOMAIN dated : Rollback(l)
  <2>1. Begun' = Begun /\ UNCHANGED <<dated, db>>
        /\ (canon' = None \/ \E l \in DOMAIN dated : canon' = dated[l])
    BY <1>12 DEF Lose, Rollback, Begun
  <2>2. QED
    BY <1>0, <2>1 DEF StatesSound
<1>13. QED
  BY <1>1, <1>2, <1>3, <1>4, <1>5, <1>6, <1>7, <1>8, <1>9, <1>10, <1>11, <1>12, <1>14, Zenon
     DEF Next, Pipeline, Failure, Writing

LEMMA NewestRuns ==
  ASSUME NEW s \in States, NEW t, Amends(t, s), s.runs # << >>
  PROVE  /\ t.runs # << >> /\ Last(s) \in Runs /\ Last(t) \in Runs
         /\ Last(t).epoch = Last(s).epoch /\ Last(t).done >= Last(s).done
         /\ Last(t).status = "RUNNING" => Running(t) # {}
<1>1. t \in States /\ Len(t.runs) = Len(s.runs) /\ Len(s.runs) \in DOMAIN s.runs
      /\ DOMAIN t.runs = DOMAIN s.runs
  BY StateParts DEF Amends
<1>2. t.runs # << >>
  BY <1>1, EmptySeq
<1>3. QED
  BY <1>1, <1>2, StateParts DEF Amends, Last, Running

\* What a writing step keeps of the newest run.
LEMMA RunGoesOn ==
  ASSUME InOrder, Writing, Running(D) # {}
  PROVE  /\ Last(D).status = "RUNNING" /\ Last(D) \in Runs /\ Last(D') \in Runs
         /\ Last(D').epoch = Last(D).epoch
         /\ Last(D').status = "RUNNING" => Running(D') # {}
BY CurrentIsLast, WritingAmends, NewestRuns DEF InOrder

LEMMA PositionWriting ==
  ASSUME InOrder, Writing
  PROVE  Positioned'
<1>0. /\ Positioned /\ at \in Phase /\ now = epoch + 1 /\ UNCHANGED <<epoch, now>>
      /\ at' \in Phase \cup {"idle"} /\ stage' \in Stages[at'] /\ D \in States
  BY WritingAmends, WritingGoes, HostTypes DEF InOrder, Positioned, Phase
<1>1. CASE Enter
  <2>1. at' = at /\ stage' = "body" /\ Running(D) # {} /\ stage = "enter"
    BY <1>1 DEF Enter, Goto
  <2>2. Last(D') = Last(D) /\ D'.mirrored = D.mirrored
    BY <1>1, Enters
  <2>3. Running(D') # {}
    BY <1>1, <2>1, <2>2, RunGoesOn DEF Writing
  <2>4. QED
    BY <1>0, <2>1, <2>2, <2>3 DEF Positioned, Phase
<1>2. CASE Prepare
  <2>1. at \in Early /\ at' = Then[at] /\ stage' = "enter" /\ Running(D) # {}
    BY <1>0, <1>2 DEF Prepare, Pass, Goto, Early, Positioned
  <2>2. /\ Last(D) \in Runs /\ Last(D).status = "RUNNING" /\ Last(D').epoch = Last(D).epoch
        /\ Last(D').status = "RUNNING" => Running(D') # {}
    BY <1>2, <2>1, RunGoesOn DEF Writing
  <2>3. Last(D).epoch = epoch /\ Last(D).done = 0
    BY <1>0, <2>1 DEF Positioned, Early, Phase
  <2>4. CASE at = "plan"
    <3>1. at' = "batches" /\ Last(D') = [Last(D) EXCEPT !.planned = Work - D.mirrored]
          /\ D'.mirrored = D.mirrored
      BY <1>2, <2>1, <2>4, Prepares DEF Then
    <3>2. Last(D').planned = Work - D.mirrored /\ Last(D').done = 0
          /\ Last(D').status = "RUNNING"
      BY <2>2, <2>3, <3>1 DEF Runs
    <3>3. D.mirrored \in Nat /\ D.mirrored <= Work /\ Work \in Nat
      BY <1>0, StateParts, LedgerAssumption DEF Formed
    <3>4. D'.mirrored + Last(D').planned = Work + Last(D').done
          /\ Last(D').done <= Last(D').planned
      BY <3>1, <3>2, <3>3
    <3>5. QED
      BY <1>0, <2>1, <2>2, <2>3, <3>1, <3>2, <3>4 DEF Positioned, Early
  <2>5. CASE at # "plan"
    <3>1. at' \in Early \ {"inventory"} /\ Last(D') = Last(D)
      BY <1>2, <2>1, <2>5, Prepares DEF Then, Early
    <3>2. QED
      BY <1>0, <2>1, <2>2, <2>3, <3>1 DEF Positioned, Early
  <2>6. QED
    BY <2>4, <2>5
<1>3. CASE Checkpoint \/ FailBatch
  <2>1. at = "batches" /\ at' = at /\ stage' = "put" /\ Running(D) # {} /\ stage = "body"
        /\ Run.done < Run.planned
    BY <1>0, <1>3 DEF Checkpoint, FailBatch, Push, Goto, InPhase, Positioned
  <2>2. /\ Last(D) \in Runs /\ Last(D).status = "RUNNING" /\ Last(D').epoch = Last(D).epoch
        /\ Last(D').status = "RUNNING" => Running(D') # {}
    BY <1>3, <2>1, RunGoesOn DEF Writing
  <2>3. Last(D).done < Last(D).planned /\ Last(D).done \in Nat /\ Last(D).planned \in Nat
        /\ D.mirrored \in Nat /\ Work \in Nat
    BY <1>0, <2>1, <2>2, CurrentIsLast, StateParts, LedgerAssumption DEF InOrder, Runs, Formed
  <2>4. D.mirrored + Last(D).planned = Work + Last(D).done /\ Last(D).epoch = epoch
    BY <1>0, <2>1 DEF Positioned, Phase
  <2>5. CASE Checkpoint
    <3>1. D'.mirrored = D.mirrored + 1 /\ Last(D') = [Last(D) EXCEPT !.done = @ + 1]
          /\ label'[3] = Last(D).done + 1
      BY <2>5, Checkpoints
    <3>2. Last(D').done = Last(D).done + 1 /\ Last(D').planned = Last(D).planned
          /\ Last(D').status = "RUNNING"
      BY <2>2, <3>1 DEF Runs
    <3>3. D'.mirrored + Last(D').planned = Work + Last(D').done
          /\ Last(D').done <= Last(D').planned
          /\ label'[3] \in {Last(D').done, Last(D').done + 1} \ {0}
      BY <2>3, <2>4, <3>1, <3>2
    <3>4. QED
      BY <1>0, <2>1, <2>2, <2>4, <3>2, <3>3 DEF Positioned, Early
  <2>6. CASE FailBatch
    <3>1. D' = D /\ label'[3] = Last(D).done + 1
      BY <2>6, Fails
    <3>2. label'[3] \in {Last(D').done, Last(D').done + 1} \ {0}
      BY <2>3, <3>1
    <3>3. QED
      BY <1>0, <2>1, <2>2, <2>3, <2>4, <3>1, <3>2 DEF Positioned, Early
  <2>7. QED
    BY <1>3, <2>5, <2>6
<1>4. CASE EndBatches
  <2>1. at = "batches" /\ at' = "trash" /\ stage' = "enter" /\ Running(D) # {}
    BY <1>0, <1>4 DEF EndBatches, Pass, Goto, InPhase, Then, Positioned
  <2>2. /\ Last(D) \in Runs /\ Last(D).status = "RUNNING" /\ Last(D').epoch = Last(D).epoch
        /\ Last(D').status = "RUNNING" => Running(D') # {}
    BY <1>4, <2>1, RunGoesOn DEF Writing
  <2>3. Last(D').status = Last(D).status
    BY <1>4, <2>2, Ends DEF Runs
  <2>4. QED
    BY <1>0, <2>1, <2>2, <2>3 DEF Positioned, Early, Phase
<1>5. CASE SkipTrash \/ SkipReconcile \/ Close
  <2>1. at \in {"trash", "reconcile", "report"} /\ at' = Then[at] /\ stage' = "enter"
        /\ Last(D') = Last(D)
    BY <1>5, Skips, Closes DEF SkipTrash, SkipReconcile, Close, Pass, Goto, InPhase
  <2>2. CASE at = "trash"
    <3>1. at' = "reconcile" /\ Running(D) # {}
      BY <1>0, <2>1, <2>2 DEF Then, Positioned
    <3>2. Running(D') # {}
      BY <1>5, <2>1, <3>1, RunGoesOn DEF Writing
    <3>3. QED
      BY <1>0, <2>1, <2>2, <3>1, <3>2 DEF Positioned, Early
  <2>3. CASE at # "trash"
    <3>1. at' \in {"report", "idle"}
      BY <2>1, <2>3 DEF Then
    <3>2. QED
      BY <1>0, <2>1, <3>1 DEF Positioned, Early, Phase
  <2>4. QED
    BY <2>2, <2>3
<1>6. CASE Trash \/ Reconcile
  <2>1. at \in {"trash", "reconcile"} /\ at' = at /\ stage' = "put" /\ Running(D) # {}
        /\ Last(D') = Last(D)
    BY <1>0, <1>6, Trashes, Reconciles DEF Trash, Reconcile, Push, Goto, InPhase, Positioned
  <2>2. Running(D') # {}
    BY <1>6, <2>1, RunGoesOn DEF Writing
  <2>3. QED
    BY <1>0, <2>1, <2>2 DEF Positioned, Early
<1>7. CASE Raise \/ FinishRun
  <2>1. (at' = "idle" \/ at' = "report") /\ stage' \in {"enter", "put"}
    BY <1>7, Breaks DEF Raise, FinishRun, Push, Goto, InPhase
  <2>2. stage' # "copy"
    BY <1>0, <2>1 DEF Stages
  <2>3. QED
    BY <1>0, <2>1, <2>2 DEF Positioned, Early, Phase
<1>8. QED
  BY <1>1, <1>2, <1>3, <1>4, <1>5, <1>6, <1>7 DEF Writing

LEMMA PositionNext ==
  ASSUME InOrder, [Next]_vars
  PROVE  Positioned'
<1> USE DEF bucket, files, position
<1>0. TypeOK /\ StatesSound /\ Positioned /\ D \in States /\ stage \in Stages[at]
  BY HostTypes DEF InOrder, Positioned
<1>1. ASSUME UNCHANGED <<dated, db, host, epoch, position, label, now>>,
             canon' = canon \/ at = "idle"
      PROVE  Positioned'
  <2>1. D' = D /\ Last(D') = Last(D) /\ Running(D') = Running(D)
    BY <1>1 DEF D
  <2>2. at = "state" => Fetched' = Fetched /\ Lost' = Lost
    BY <1>1 DEF Fetched, Lost
  <2>3. QED
    BY <1>0, <1>1, <2>1, <2>2 DEF Positioned
<1>2. CASE (\E h \in Starts : Dispatch(h)) \/ Chained
  <2>1. PICK h \in Host, e \in Nat : Clock(h, e)
    BY <1>2, RunStarts
  <2>2. QED
    BY <2>1 DEF Clock, Positioned, Stages, Early, Phase
<1>3. ASSUME NEW h \in Host, Status(h) PROVE Positioned'
  <2>1. CASE at = "idle"
    BY <1>0, <1>3, <2>1 DEF Status, Positioned, Early, Phase, Stages
  <2>2. CASE host # h
    <3>1. D' = D /\ UNCHANGED <<dated, host, epoch, position, label, now>>
      BY <1>0, <1>3, <2>2 DEF Status, D, TypeOK
    <3>2. Last(D') = Last(D) /\ Running(D') = Running(D) /\ Fetched' = Fetched /\ Lost' = Lost
      BY <1>3, <3>1 DEF Status, Fetched, Lost
    <3>3. QED
      BY <1>0, <3>1, <3>2 DEF Positioned
  <2>3. QED
    BY <1>3, <2>1, <2>2 DEF Status
<1>4. CASE RestoreSession
  BY <1>0, <1>4 DEF RestoreSession, Goto, Positioned, Early, Phase, Stages
<1>5. CASE FetchState
  <2>1. Fetched' = Fetched /\ Lost' = Lost
    BY <1>5, Fetches DEF Fetched, Lost
  <2>2. QED
    BY <1>0, <1>5, <2>1, Fetches DEF Positioned, Early, Phase, Stages
<1>12. CASE StartRun
  <2>1. Last(D') = NewRun(Fetched) /\ Running(D') # {}
    BY <1>12, StartsRun, FetchedSound, StartedSound
  <2>2. Last(D').epoch = epoch /\ Last(D').done = 0
    BY <2>1 DEF NewRun
  <2>3. QED
    BY <1>0, <1>12, <2>1, <2>2, StartsRun DEF Positioned, Early, Stages
<1>6. CASE FetchFails \/ NoRun \/ SessionFails \/ StateDies \/ Killed \/ HostLost
  <2>1. at # "idle" /\ at' \in {"idle", "report"} /\ stage' = "enter" /\ UNCHANGED <<epoch, now>>
    BY <1>6, Breaks DEF FetchFails, NoRun, SessionFails, StateDies, Killed, HostLost, Phase, InPhase
  <2>2. QED
    BY <1>0, <2>1 DEF Positioned, Early, Phase, Stages
<1>7. CASE Writing
  BY <1>7, PositionWriting
<1>8. CASE WriteReport
  <2>1. at = "report" /\ stage = "body" /\ at' = at /\ stage' = "finish" /\ D' = D
        /\ UNCHANGED <<epoch, now>>
    BY <1>8 DEF WriteReport, InPhase, Goto, D
  <2>2. Running(D') # {}
    BY <1>0, <2>1 DEF Positioned, Phase
  <2>3. QED
    BY <1>0, <2>1, <2>2 DEF Positioned, Early, Stages
<1>9. CASE Put
  <2>1. stage = "put" /\ at' = at /\ stage' = "copy" /\ D' = D /\ Running(D') = Running(D)
        /\ UNCHANGED <<epoch, now, label>> /\ Last(D') = Last(D)
    BY <1>9 DEF Put, Goto, D
  <2>2. label \in DOMAIN dated' /\ dated'[label] = D
    BY <1>9 DEF Put
  <2>3. stage' \in Stages[at']
    BY <1>0, <2>1 DEF Stages, TypeOK, Phase
  <2>4. QED
    BY <1>0, <2>1, <2>2, <2>3 DEF Positioned, Early
<1>10. CASE Copy
  <2>1. stage = "copy" /\ at' = at /\ D' = D /\ Running(D') = Running(D)
        /\ UNCHANGED <<epoch, now, label>> /\ Last(D') = Last(D)
        /\ stage' \in (IF at # "batches" THEN {"close"} ELSE {"raise", "body"})
    BY <1>10, Zenon DEF Copy, Goto, D
  <2>2. stage' \in Stages[at']
    BY <1>0, <2>1 DEF Stages, TypeOK, Phase
  <2>3. QED
    BY <1>0, <2>1, <2>2 DEF Positioned, Early
<1>11. QED
  <2>1. UNCHANGED vars \/ Lose \/ (\E l \in DOMAIN dated : Rollback(l)) => Positioned'
    BY <1>1, Zenon DEF vars, Lose, Rollback
  <2>2. QED
    BY <2>1, <1>2, <1>3, <1>4, <1>5, <1>6, <1>7, <1>8, <1>9, <1>10, <1>12, Zenon
       DEF Next, Pipeline, Failure, Writing

LEMMA InOrderNext == InOrder /\ [Next]_vars => InOrder'
BY TypeNext, SoundNext, PositionNext DEF InOrder

\* Whatever is killed, lost, rolled back or looked at meanwhile, on any number of hosts, every
\* step meets the database in the shape the phase expects.
THEOREM LedgerInOrder == Spec => []InOrder
BY InOrderInit, InOrderNext, PTL DEF Spec

\* Every variable of RunLedger keeps its type: no arithmetic on batches leaves 0..Work.
THEOREM LedgerTypes == Spec => []TypeOK
<1>1. InOrder => TypeOK
  BY DEF InOrder
<1>2. QED
  BY <1>1, LedgerInOrder, PTL

LEMMA EverySound ==
  ASSUME InOrder, NEW s \in Everywhere
  PROVE  s \in States /\ Sound(s, Begun)
BY DEF InOrder, TypeOK, StatesSound, Everywhere

\* state.current_run: on any number of hosts, through kills, lost machines, rollbacks and
\* status commands, no state anywhere has a RUNNING row but its newest.
THEOREM NoSecondCurrentRun == Spec => []OneCurrentRun
<1>1. InOrder => OneCurrentRun
  BY EverySound DEF OneCurrentRun, Sound
<1>2. QED
  BY <1>1, LedgerInOrder, PTL

\* is_reconcile_run: of two reconcile runs of one day in one state, the later one was forced.
THEOREM OneReconcileADay == Spec => []ReconcileOncePerDay
<1>1. InOrder => ReconcileOncePerDay
  BY EverySound DEF ReconcileOncePerDay, Sound
<1>2. QED
  BY <1>1, LedgerInOrder, PTL
=============================================================================
