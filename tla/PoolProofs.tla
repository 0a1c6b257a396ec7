----------------------------- MODULE PoolProofs -----------------------------
(***************************************************************************)
(* Proofs about FetchPool, for any files, sizes, workers, attempts and     *)
(* temporary names, those that are another file's name included: what is   *)
(* staged when a batch is uploaded, and the plan.                          *)
(***************************************************************************)
EXTENDS PoolProperties, PackingProofs

Ready   == {"fetch", "verify", "upload"}
Over  == {"done", "gone", "raised"}

\* A batch is under way from fetch to upload, and none before the plan.
Turn ==
  /\ pc = "plan" => batches = <<>> /\ number = 1 /\ collected = 0
  /\ pc \in Ready => number <= Len(batches)

\* A download that asks or writes has an attempt left.
Tries == \A f \in File :
  /\ task[f] = "queued" => attempt[f] = 0
  /\ task[f] \in {"asking", "writing"} => attempt[f] < MaxAttempts

\* Only the files of the batch are downloaded, and only by fetch.
Under == \A f \in File :
  /\ pc # "fetch" => task[f] \in {"idle"} \cup Over
  /\ pc = "fetch" => f \in ToSet(Batch) \/ task[f] = "idle"

\* What the main thread has collected has ended, and its row or the error says how.
Result(f) ==
  /\ task[f] \in Over
  /\ task[f] = "done" => status[f] = "FETCHED"
  /\ task[f] = "gone" => status[f] = "VANISHED"
  /\ task[f] = "raised" => error
Results ==
  /\ pc \in {"fetch", "verify"} => \A i \in 1..collected : Result(Batch[i])
  /\ pc = "verify" => collected = Len(Batch) /\ ~error

\* A name in staging is the temporary one of a download that is writing, or the target of
\* one that is complete, whichever file it refers to.
Staged == pc \in {"fetch", "verify"} => \A n \in Name : names[n] # None =>
  \/ \E f \in File : n = Part[f] /\ task[f] = "writing"
  \/ n \in ToSet(Batch) /\ task[n] = "done"

\* The inductive invariant.
Fetching == Turn /\ Tries /\ Under /\ Results /\ Staged
-----------------------------------------------------------------------------
LEMMA Files ==
  /\ \A f \in File : f \in Name /\ Part[f] \in Name
  /\ TypeOK =>
       /\ Batch \in Seq(File) /\ Len(Batch) \in Nat /\ ToSet(Batch) \subseteq File
       /\ \A i \in 1..Len(Batch) : Batch[i] \in ToSet(Batch)
       /\ SizeOf \in [File -> Nat] /\ free \in Nat
<1>1. \A f \in File : f \in Name /\ Part[f] \in Name
  BY DEF Name
<1>2. ASSUME TypeOK
      PROVE  /\ Batch \in Seq(File) /\ Len(Batch) \in Nat /\ ToSet(Batch) \subseteq File
             /\ \A i \in 1..Len(Batch) : Batch[i] \in ToSet(Batch)
  <2>1. Batch \in Seq(File)
    <3>1. batches \in Seq(Seq(File)) /\ <<>> \in Seq(File)
      BY <1>2, EmptySeq DEF TypeOK
    <3>2. CASE number \in DOMAIN batches
      BY <3>1, <3>2 DEF Batch
    <3>3. CASE number \notin DOMAIN batches
      BY <3>1, <3>3 DEF Batch
    <3>4. QED
      BY <3>2, <3>3
  <2>2. Len(Batch) \in Nat /\ \A i \in 1..Len(Batch) : Batch[i] \in File
    BY <2>1, LenProperties, ElementOfSeq
  <2>3. ToSet(Batch) = {Batch[i] : i \in 1..Len(Batch)}
    BY <2>1, LenProperties DEF ToSet
  <2>4. QED
    BY <2>1, <2>2, <2>3
<1>3. ASSUME TypeOK PROVE SizeOf \in [File -> Nat] /\ free \in Nat
  BY <1>3, PoolAssumption DEF TypeOK, SizeOf
<1>4. QED
  BY <1>1, <1>2, <1>3

LEMMA InitFetching == Init => TypeOK /\ Fetching
<1> SUFFICES ASSUME Init PROVE TypeOK /\ Fetching
  OBVIOUS
<1>1. <<>> \in Seq(Seq(File)) /\ Len(<<>>) = 0
  BY EmptySeq
<1>2. collected \in 0..Len(Batch)
  BY <1>1, EmptySeq DEF Init, Batch
<1>3. TypeOK
  <2>1. /\ task \in [File -> {"idle"}] /\ attempt \in [File -> 0..MaxAttempts]
        /\ handle \in [File -> {None}] /\ names \in [Name -> {None}]
        /\ data \in [File -> {Partial}] /\ status \in [File -> {"NONE"}]
    BY PoolAssumption DEF Init, Idle, Empty
  <2>2. batches \in Seq(Seq(File)) /\ number \in 1..(Len(batches) + 1) /\ pc = "plan"
        /\ error = FALSE /\ listed \in [File -> Content] /\ free \in Disk
    BY <1>1 DEF Init
  <2>3. QED
    BY <1>2, <2>1, <2>2 DEF TypeOK
<1>4. Fetching
  BY PoolAssumption DEF Init, Idle, Fetching, Turn, Tries, Under, Results, Staged, Ready, Over
<1>5. QED
  BY <1>3, <1>4

\* A step of a download leaves the batch, its rows and the main thread alone.
LEMMA DownloadTypes ==
  ASSUME TypeOK, Fetching, NEW f \in File, Download(f)
  PROVE  /\ TypeOK' /\ Pooled
         /\ \A g \in File : g # f => task'[g] = task[g] /\ attempt'[g] = attempt[g]
         /\ task[f] \in {"queued", "asking", "writing"}
<1>1. /\ \A g \in File : g \in Name /\ Part[g] \in Name
      /\ MaxAttempts \in Nat \ {0}
  BY Files, PoolAssumption
<1>2. task \in [File -> {"idle", "queued", "asking", "writing", "done", "gone", "raised"}]
      /\ attempt \in [File -> 0..MaxAttempts]
      /\ handle \in [File -> File \cup {None}]
      /\ names \in [Name -> File \cup {None}]
      /\ data \in [File -> Content \cup {Other, Partial}]
  BY DEF TypeOK
<1>3. listed[f] \in Content
  BY DEF TypeOK
<1>4. \A g \in File : task[g] \in {"asking", "writing"} => attempt[g] < MaxAttempts
  BY DEF Fetching, Tries
<1> DEFINE Types ==
             /\ task' \in [File -> {"idle", "queued", "asking", "writing", "done", "gone", "raised"}]
             /\ attempt' \in [File -> 0..MaxAttempts]
             /\ handle' \in [File -> File \cup {None}]
             /\ names' \in [Name -> File \cup {None}]
             /\ data' \in [File -> Content \cup {Other, Partial}]
           Others == \A g \in File : g # f => task'[g] = task[g] /\ attempt'[g] = attempt[g]
           Going == task[f] \in {"queued", "asking", "writing"}
<1> SUFFICES Types /\ Pooled /\ Others /\ Going
  <2>1. ASSUME Types, Pooled PROVE TypeOK'
    <3>1. Batch' = Batch
      BY <2>1 DEF Pooled, Batch, plan
    <3>2. QED
      BY <2>1, <3>1 DEF TypeOK, Pooled, plan
  <2>2. QED
    BY <2>1
<1>5. ASSUME Retry(f), task[f] \in {"asking", "writing"}
      PROVE  /\ task' \in [File -> {"idle", "queued", "asking", "writing", "done", "gone", "raised"}]
             /\ attempt' \in [File -> 0..MaxAttempts] /\ Others
  BY <1>1, <1>2, <1>4, <1>5 DEF Retry, Becomes
<1>6. CASE Take(f)
  <2>1. task[f] = "queued"
    BY <1>6 DEF Take, NextQueued
  <2>2. QED
    BY <1>2, <1>6, <2>1 DEF Take, Becomes, disk
<1>7. CASE Open(f)
  <2>1. handle' \in [File -> File \cup {None}] /\ handle'[f] \in File
    BY <1>1, <1>2, <1>7 DEF Open
  <2>2. QED
    BY <1>1, <1>2, <1>7, <2>1 DEF Open, Becomes
<1>8. CASE NotFound(f) \/ Refused(f)
  BY <1>2, <1>8 DEF NotFound, Refused, Becomes, disk
<1>9. CASE Throttled(f)
  BY <1>2, <1>5, <1>9 DEF Throttled, disk
<1>10. CASE Drops(f)
  BY <1>1, <1>2, <1>5, <1>10 DEF Drops
<1>11. CASE Complete(f, listed[f]) \/ Complete(f, Other)
  <2>1. PICK c \in Content \cup {Other} : Complete(f, c)
    BY <1>3, <1>11
  <2>2. data' \in [File -> Content \cup {Other, Partial}]
        /\ handle' \in [File -> File \cup {None}] /\ attempt' = attempt
    BY <1>2, <2>1 DEF Complete
  <2>3. CASE names[Part[f]] = None
    BY <1>2, <2>1, <2>2, <2>3 DEF Complete, Becomes
  <2>4. CASE names[Part[f]] # None
    BY <1>1, <1>2, <2>1, <2>2, <2>4 DEF Complete, Becomes
  <2>5. QED
    BY <2>3, <2>4
<1>12. QED
  BY <1>6, <1>7, <1>8, <1>9, <1>10, <1>11 DEF Download

\* What is staged after a step of a download: another download's name is left as it was.
LEMMA DownloadStages ==
  ASSUME TypeOK, Fetching, NEW f \in File, Download(f), pc = "fetch"
  PROVE  \A n \in Name : names'[n] # None =>
           \/ \E g \in File : n = Part[g] /\ task'[g] = "writing"
           \/ n \in ToSet(Batch) /\ task'[n] = "done"
<1>1. /\ \A g \in File : g \in Name /\ Part[g] \in Name /\ Part[g] # g
      /\ ToSet(Batch) \subseteq File
  BY Files, PoolAssumption
<1>2. task \in [File -> {"idle", "queued", "asking", "writing", "done", "gone", "raised"}]
      /\ handle \in [File -> File \cup {None}]
      /\ names \in [Name -> File \cup {None}]
  BY DEF TypeOK
<1>3. f \in ToSet(Batch)
  BY DownloadTypes DEF Fetching, Under
<1>4. \A n \in Name : names[n] # None =>
           \/ \E g \in File : n = Part[g] /\ task[g] = "writing"
           \/ n \in ToSet(Batch) /\ task[n] = "done"
  BY DEF Fetching, Staged
<1>5. \A g \in File : g # f => task'[g] = task[g]
  BY DownloadTypes
<1>6. task[f] # "done"
  BY DownloadTypes
<1> SUFFICES ASSUME NEW n \in Name, names'[n] # None
             PROVE  \/ \E g \in File : n = Part[g] /\ task'[g] = "writing"
                    \/ n \in ToSet(Batch) /\ task'[n] = "done"
  OBVIOUS
\* A name that was there and is not the temporary one of f.
<1>7. ASSUME names[n] # None, n # Part[f] \/ task[f] # "writing" \/ task'[f] = "writing"
      PROVE  \/ \E g \in File : n = Part[g] /\ task'[g] = "writing"
             \/ n \in ToSet(Batch) /\ task'[n] = "done"
  <2>1. CASE n \in ToSet(Batch) /\ task[n] = "done"
    BY <1>1, <1>5, <1>6, <2>1
  <2>2. CASE \E g \in File : n = Part[g] /\ task[g] = "writing"
    <3>1. PICK g \in File : n = Part[g] /\ task[g] = "writing"
      BY <2>2
    <3>2. task'[g] = "writing"
      BY <1>5, <1>7, <3>1
    <3>3. QED
      BY <3>1, <3>2
  <2>3. QED
    BY <1>4, <1>7, <2>1, <2>2
<1>8. CASE Take(f)
  BY <1>7, <1>8 DEF Take, NextQueued, disk
<1>9. CASE Open(f)
  <2>1. task'[f] = "writing" /\ (n # Part[f] => names'[n] = names[n])
    BY <1>1, <1>2, <1>9 DEF Open, Becomes
  <2>2. QED
    BY <1>7, <2>1
<1>10. CASE NotFound(f) \/ Refused(f) \/ Throttled(f)
  BY <1>7, <1>10 DEF NotFound, Refused, Throttled, disk
<1>11. CASE Drops(f)
  <2>1. n # Part[f] /\ names'[n] = names[n]
    BY <1>1, <1>2, <1>11 DEF Drops
  <2>2. QED
    BY <1>7, <2>1
<1>12. CASE Complete(f, listed[f]) \/ Complete(f, Other)
  <2>1. PICK c : Complete(f, c)
    BY <1>12
  <2>2. CASE names[Part[f]] = None
    <3>1. names' = names
      BY <2>1, <2>2 DEF Complete
    <3>2. n # Part[f]
      BY <2>2, <3>1
    <3>3. QED
      BY <1>7, <3>1, <3>2
  <2>3. CASE names[Part[f]] # None
    <3>1. /\ task'[f] = "done"
          /\ names' = [names EXCEPT ![f] = names[Part[f]], ![Part[f]] = None]
      BY <1>2, <2>1, <2>3 DEF Complete, Becomes
    <3>2. n # Part[f] /\ (n # f => names'[n] = names[n])
      BY <1>1, <1>2, <3>1
    <3>3. CASE n = f
      BY <1>3, <3>1, <3>3
    <3>4. CASE n # f
      BY <1>7, <3>2, <3>4
    <3>5. QED
      BY <3>3, <3>4
  <2>4. QED
    BY <2>2, <2>3
<1>13. QED
  BY <1>8, <1>9, <1>10, <1>11, <1>12 DEF Download

LEMMA DownloadFetching ==
  ASSUME TypeOK, Fetching, NEW f \in File, Download(f)
  PROVE  TypeOK' /\ Fetching'
<1>1. /\ TypeOK' /\ Pooled
      /\ \A g \in File : g # f => task'[g] = task[g] /\ attempt'[g] = attempt[g]
      /\ task[f] \in {"queued", "asking", "writing"}
  BY DownloadTypes
<1>2. /\ pc' = pc /\ Batch' = Batch /\ collected' = collected /\ error' = error
      /\ status' = status /\ batches' = batches /\ number' = number
  BY <1>1 DEF Pooled, Batch, plan
<1>3. pc = "fetch"
  BY <1>1 DEF Fetching, Under, Over
<1>4. Turn'
  BY <1>2, <1>3 DEF Fetching, Turn, Ready
<1>5. Tries'
  <2>1. MaxAttempts \in Nat \ {0} /\ attempt[f] \in 0..MaxAttempts
        /\ task \in [File -> {"idle", "queued", "asking", "writing", "done", "gone", "raised"}]
        /\ attempt \in [File -> 0..MaxAttempts]
    BY PoolAssumption DEF TypeOK
  <2>2. /\ task[f] = "queued" => attempt[f] = 0
        /\ task[f] \in {"asking", "writing"} => attempt[f] < MaxAttempts
    BY DEF Fetching, Tries
  <2>3. \/ attempt' = attempt
        \/ attempt' = [attempt EXCEPT ![f] = @ + 1] /\
           task'[f] = IF attempt'[f] = MaxAttempts THEN "raised" ELSE "asking"
    BY <2>1 DEF Download, Take, Open, NotFound, Refused, Throttled, Drops, Complete,
                Retry, Becomes
  <2>4. task'[f] # "queued"
    BY <2>1 DEF Download, Take, Open, NotFound, Refused, Throttled, Drops, Complete,
                Retry, Becomes
  <2>5. task'[f] \in {"asking", "writing"} => attempt'[f] < MaxAttempts
    <3>1. CASE attempt' = attempt
      BY <2>1, <2>2, <1>1, <3>1
    <3>2. CASE attempt' = [attempt EXCEPT ![f] = @ + 1] /\
               task'[f] = IF attempt'[f] = MaxAttempts THEN "raised" ELSE "asking"
      <4>1. attempt'[f] = attempt[f] + 1
        BY <2>1, <3>2
      <4>2. task[f] = "queued" \/ attempt[f] < MaxAttempts
        BY <1>1, <2>2
      <4>3. attempt'[f] # MaxAttempts => attempt'[f] < MaxAttempts
        BY <2>1, <2>2, <4>1, <4>2
      <4>4. QED
        BY <3>2, <4>3
    <3>3. QED
      BY <2>3, <3>1, <3>2
  <2>6. QED
    BY <1>1, <2>4, <2>5 DEF Fetching, Tries
<1>6. Under'
  <2>1. f \in ToSet(Batch)
    BY <1>1, <1>3 DEF Fetching, Under
  <2>2. QED
    BY <1>1, <1>2, <1>3, <2>1 DEF Fetching, Under
<1>7. Results'
  <2>1. ASSUME NEW i \in 1..collected PROVE Result(Batch[i])'
    <3>1. Result(Batch[i])
      BY <1>3, <2>1 DEF Fetching, Results
    <3>2. Batch[i] # f
      BY <1>1, <3>1 DEF Result, Over
    <3>3. Batch[i] \in File
      <4>1. i \in 1..Len(Batch) /\ Len(Batch) \in Nat
        BY Files DEF TypeOK
      <4>2. QED
        BY <4>1, Files
    <3>4. task'[Batch[i]] = task[Batch[i]]
      BY <1>1, <3>2, <3>3
    <3>5. QED
      BY <1>2, <3>1, <3>4 DEF Result
  <2>2. QED
    BY <1>2, <1>3, <2>1 DEF Results
<1>8. Staged'
  BY <1>2, <1>3, DownloadStages DEF Staged
<1>9. QED
  BY <1>1, <1>4, <1>5, <1>6, <1>7, <1>8 DEF Fetching
-----------------------------------------------------------------------------
\* The main thread.

LEMMA PlanFetching ==
  ASSUME TypeOK, Fetching, Plan
  PROVE  TypeOK' /\ Fetching'
<1> DEFINE rows == Fitting(Order, SizeOf, free)
<1>0. SizeOf \in [File -> Nat] /\ free \in Nat
  BY Files, Zenon
<1>1. SizeOf \in [File -> Nat] /\ free \in Nat /\ Order \in Seq(File) /\ pc = "plan"
  BY <1>0, PoolAssumption, Zenon DEF Plan
<1>2. batches' = Pack(rows, SizeOf) /\ pc' = "next"
      /\ status' = [f \in File |-> IF f \in ToSet(rows) THEN "PLANNED" ELSE "NONE"]
      /\ UNCHANGED <<listed, free, number, pool, disk, collected, error>>
  BY DEF Plan
<1>3. Pack(rows, SizeOf) \in Seq(Seq(File))
  BY <1>1, PlansFit
<1> HIDE DEF rows
<1>4. number = 1 /\ collected = 0
  BY <1>1 DEF Fetching, Turn
<1>5. Len(batches') \in Nat /\ batches' \in Seq(Seq(File))
  BY <1>2, <1>3, LenProperties
<1>6. Len(Batch)' \in Nat
  <2>1. Batch' \in Seq(File)
    <3>1. CASE (number \in DOMAIN batches)'
      BY <1>5, <3>1 DEF Batch
    <3>2. CASE (number \notin DOMAIN batches)'
      BY <3>2, EmptySeq DEF Batch
    <3>3. QED
      BY <3>1, <3>2
  <2>2. QED
    BY <2>1, LenProperties
<1>7. TypeOK'
  <2>1. number' \in 1..(Len(batches') + 1) /\ collected' \in 0..Len(Batch)'
    BY <1>2, <1>4, <1>5, <1>6
  <2>2. status' \in [File -> {"NONE", "PLANNED", "VANISHED", "FETCHED", "HASH_MISMATCH", "VERIFIED"}]
    BY <1>2
  <2>3. QED
    BY <1>2, <1>5, <2>1, <2>2 DEF TypeOK, pool, disk
<1>8. Fetching'
  <2>1. task' = task /\ attempt' = attempt
    BY <1>2 DEF pool
  <2>2. QED
    BY <1>1, <1>2, <2>1 DEF Fetching, Turn, Tries, Under, Results, Staged, Ready
<1>9. QED
  BY <1>7, <1>8

LEMMA StartFetching ==
  ASSUME TypeOK, Fetching, StartBatch
  PROVE  TypeOK' /\ Fetching'
<1>1. /\ pc = "next" /\ number <= Len(batches) /\ pc' = "fetch"
      /\ names' = Empty /\ collected' = 0 /\ error' = FALSE
      /\ task' = [f \in File |-> IF f \in ToSet(Batch) THEN "queued" ELSE "idle"]
      /\ attempt' = [f \in File |-> 0] /\ handle' = [f \in File |-> None]
      /\ UNCHANGED <<plan, number, status, data>>
  BY DEF StartBatch
<1>2. Batch' = Batch /\ Len(Batch) \in Nat
  BY <1>1, Files DEF Batch, plan
<1>3. MaxAttempts \in Nat \ {0}
  BY PoolAssumption
<1>4. TypeOK'
  <2>1. /\ task' \in [File -> {"idle", "queued", "asking", "writing", "done", "gone", "raised"}]
        /\ attempt' \in [File -> 0..MaxAttempts]
        /\ handle' \in [File -> File \cup {None}]
        /\ names' \in [Name -> File \cup {None}]
    BY <1>1, <1>3 DEF Empty
  <2>2. collected' \in 0..Len(Batch)'
    BY <1>1, <1>2
  <2>3. error' \in BOOLEAN
    BY <1>1, Zenon
  <2>4. QED
    BY <1>1, <2>1, <2>2, <2>3 DEF TypeOK, plan
<1>5. Turn'
  BY <1>1 DEF Turn, plan
<1>6. Tries'
  BY <1>1 DEF Tries
<1>7. Under'
  BY <1>1, <1>2 DEF Under
<1>8. Results'
  BY <1>1 DEF Results
<1>9. Staged'
  BY <1>1 DEF Staged, Empty
<1>10. QED
  BY <1>4, <1>5, <1>6, <1>7, <1>8, <1>9 DEF Fetching

LEMMA CollectFetching ==
  ASSUME TypeOK, Fetching, Collect
  PROVE  TypeOK' /\ Fetching'
<1>0. PICK f : f = Batch[collected + 1]
  OBVIOUS
<1>1. /\ pc = "fetch" /\ collected < Len(Batch) /\ collected' = collected + 1
      /\ task[f] \in Over
      /\ status' = [status EXCEPT ![f] = CASE task[f] = "done" -> "FETCHED"
                                           [] task[f] = "gone" -> "VANISHED"
                                           [] OTHER -> @]
      /\ error' = (error \/ task[f] = "raised")
      /\ UNCHANGED <<plan, number, pool, disk, pc>>
  BY <1>0 DEF Collect, Over
<1>2. /\ Batch' = Batch /\ Len(Batch) \in Nat /\ collected \in 0..Len(Batch)
      /\ \A i \in 1..Len(Batch) : Batch[i] \in File
      /\ status \in [File -> {"NONE", "PLANNED", "VANISHED", "FETCHED", "HASH_MISMATCH", "VERIFIED"}]
      /\ error \in BOOLEAN
  BY <1>1, Files DEF Batch, plan, TypeOK
<1>3. f \in File /\ task' = task /\ attempt' = attempt /\ names' = names /\ pc' = pc
  BY <1>0, <1>1, <1>2 DEF pool, disk
<1>4. /\ status' \in [File -> {"NONE", "PLANNED", "VANISHED", "FETCHED", "HASH_MISMATCH", "VERIFIED"}]
      /\ task[f] = "done" => status'[f] = "FETCHED"
      /\ task[f] = "gone" => status'[f] = "VANISHED"
      /\ \A g \in File : g # f => status'[g] = status[g]
  BY <1>1, <1>2, <1>3
<1>5. error' \in BOOLEAN /\ (error => error') /\ (task[f] = "raised" => error')
  BY <1>1, <1>2, Zenon
<1>6. TypeOK'
  <2>1. collected' \in 0..Len(Batch)'
    BY <1>1, <1>2
  <2>2. QED
    BY <1>1, <1>4, <1>5, <2>1 DEF TypeOK, plan, pool, disk
<1>7. Results'
  <2>1. ASSUME NEW i \in 1..collected' PROVE Result(Batch[i])'
    <3>1. i \in 1..Len(Batch) /\ Batch[i] \in File
      BY <1>1, <1>2, <2>1
    <3>2. CASE Batch[i] = f
      <4>1. task'[f] \in Over
        BY <1>1, <1>3, Zenon
      <4>2. Result(f)'
        BY <1>3, <1>4, <1>5, <4>1, Zenon DEF Result
      <4>3. QED
        BY <1>2, <3>2, <4>2 DEF Result
    <3>3. CASE Batch[i] # f
      <4>1. i \in 1..collected
        BY <1>0, <1>1, <1>2, <2>1, <3>3
      <4>2. Result(Batch[i])
        BY <1>1, <4>1 DEF Fetching, Results
      <4>3. status'[Batch[i]] = status[Batch[i]]
        BY <1>4, <3>1, <3>3
      <4>4. QED
        BY <1>2, <1>3, <1>5, <4>2, <4>3, Zenon DEF Result
    <3>4. QED
      BY <3>2, <3>3
  <2>2. QED
    BY <1>1, <1>2, <1>3, <2>1 DEF Results
<1>8. Turn' /\ Tries'
  BY <1>1, <1>3 DEF Fetching, Turn, Tries, Ready, plan
<1>9. Under' /\ Staged'
  BY <1>1, <1>2, <1>3 DEF Fetching, Under, Staged
<1>10. QED
  BY <1>6, <1>7, <1>8, <1>9 DEF Fetching

LEMMA EndFetching ==
  ASSUME TypeOK, Fetching, EndFetch
  PROVE  TypeOK' /\ Fetching'
<1>1. /\ pc = "fetch" /\ collected = Len(Batch)
      /\ pc' = IF error THEN "failed" ELSE "verify"
      /\ UNCHANGED <<plan, number, status, pool, disk, collected, error>>
  BY DEF EndFetch
<1>2. /\ Batch' = Batch /\ task' = task /\ attempt' = attempt /\ names' = names
      /\ status' = status /\ error' = error /\ collected' = collected
  BY <1>1 DEF Batch, plan, pool, disk
<1>3. TypeOK'
  <2>1. pc' \in {"failed", "verify"}
    BY <1>1
  <2>2. QED
    BY <1>1, <1>2, <2>1 DEF TypeOK, plan, pool, disk
<1>4. Turn' /\ Tries'
  BY <1>1, <1>2 DEF Fetching, Turn, Tries, Ready, plan
<1>5. Under'
  <2>1. ASSUME NEW f \in File PROVE task[f] \in {"idle"} \cup Over
    <3>1. CASE f \in ToSet(Batch)
      <4>1. PICK i \in 1..Len(Batch) : f = Batch[i]
        BY <3>1, Files DEF ToSet
      <4>2. Result(Batch[i])
        BY <1>1, <4>1 DEF Fetching, Results
      <4>3. QED
        BY <4>1, <4>2 DEF Result
    <3>2. CASE f \notin ToSet(Batch)
      BY <1>1, <3>2 DEF Fetching, Under
    <3>3. QED
      BY <3>1, <3>2
  <2>2. pc' # "fetch"
    BY <1>1
  <2>3. QED
    BY <1>2, <2>1, <2>2 DEF Under
<1>6. Results'
  BY <1>1, <1>2 DEF Fetching, Results, Result
<1>7. Staged'
  BY <1>1, <1>2 DEF Fetching, Staged
<1>8. QED
  BY <1>3, <1>4, <1>5, <1>6, <1>7 DEF Fetching

\* Only rows, and names without a file, change when the batch is hashed.
LEMMA HashFetching ==
  ASSUME TypeOK, Fetching, pc = "verify", HashFiles, pc' \in {"upload", "failed"}
  PROVE  TypeOK' /\ Fetching'
<1>1. /\ UNCHANGED <<plan, number, pool, data, collected, error>>
      /\ status' = [f \in File |-> CASE f \in Hashed \cap Mismatched -> "HASH_MISMATCH"
                                     [] f \in Hashed \ Mismatched -> "VERIFIED"
                                     [] OTHER -> status[f]]
      /\ names' = [n \in Name |-> IF n \in Hashed \cap Mismatched THEN None ELSE names[n]]
  BY DEF HashFiles
<1>2. Batch' = Batch /\ task' = task /\ attempt' = attempt
  BY <1>1 DEF Batch, plan, pool
<1>3. TypeOK'
  <2>1. status' \in [File -> {"NONE", "PLANNED", "VANISHED", "FETCHED", "HASH_MISMATCH", "VERIFIED"}]
    BY <1>1 DEF TypeOK
  <2>2. names' \in [Name -> File \cup {None}]
    BY <1>1 DEF TypeOK
  <2>3. QED
    BY <1>1, <1>2, <2>1, <2>2 DEF TypeOK, plan, pool
<1>4. Turn' /\ Tries'
  BY <1>1, <1>2 DEF Fetching, Turn, Tries, Ready, plan
<1>5. Under' /\ Results' /\ Staged'
  BY <1>2 DEF Fetching, Under, Results, Staged
<1>6. QED
  BY <1>3, <1>4, <1>5 DEF Fetching

LEMMA LandFetching ==
  ASSUME TypeOK, Fetching, Land
  PROVE  TypeOK' /\ Fetching'
<1>1. /\ pc = "upload" /\ number' = number + 1 /\ collected' = 0 /\ names' = Empty
      /\ pc' = "next" /\ UNCHANGED <<plan, status, pool, data, error>>
  BY DEF Land
<1>2. number \in 1..(Len(batches) + 1) /\ number <= Len(batches)
      /\ batches' = batches /\ batches \in Seq(Seq(File)) /\ Len(batches) \in Nat
  BY <1>1, LenProperties DEF Fetching, Turn, Ready, TypeOK, plan
<1>3. Len(Batch') \in Nat
  <2>1. Batch' \in Seq(File)
    <3>1. CASE (number \in DOMAIN batches)'
      BY <1>2, <3>1 DEF Batch
    <3>2. CASE (number \notin DOMAIN batches)'
      BY <3>2, EmptySeq DEF Batch
    <3>3. QED
      BY <3>1, <3>2
  <2>2. QED
    BY <2>1, LenProperties
<1>4. TypeOK'
  <2>1. number' \in 1..(Len(batches') + 1) /\ collected' \in 0..Len(Batch)'
    BY <1>1, <1>2, <1>3
  <2>2. names' \in [Name -> File \cup {None}]
    BY <1>1 DEF Empty
  <2>3. QED
    BY <1>1, <2>1, <2>2 DEF TypeOK, plan, pool
<1>5. task' = task /\ attempt' = attempt
  BY <1>1 DEF pool
<1>6. QED
  BY <1>1, <1>4, <1>5 DEF Fetching, Turn, Tries, Under, Results, Staged, Ready

LEMMA FetchingStep == TypeOK /\ Fetching /\ [Next]_vars => (TypeOK /\ Fetching)'
<1> SUFFICES ASSUME TypeOK, Fetching, [Next]_vars PROVE TypeOK' /\ Fetching'
  OBVIOUS
<1>1. ASSUME NEW f \in File, Download(f) PROVE TypeOK' /\ Fetching'
  BY <1>1, DownloadFetching
<1>2. CASE Plan
  BY <1>2, PlanFetching
<1>3. CASE RefusePlan
  <2>1. TypeOK'
    BY <1>3 DEF RefusePlan, TypeOK, plan, pool, disk, Batch
  <2>2. task' = task /\ attempt' = attempt
    BY <1>3 DEF RefusePlan, pool
  <2>3. pc = "plan" /\ pc' = "failed"
    BY <1>3 DEF RefusePlan
  <2>4. QED
    BY <2>1, <2>2, <2>3 DEF Fetching, Turn, Tries, Under, Results, Staged, Ready
<1>4. CASE StartBatch
  BY <1>4, StartFetching
<1>5. CASE EndBatches
  <2>1. TypeOK'
    BY <1>5 DEF EndBatches, TypeOK, plan, pool, disk, Batch
  <2>2. task' = task /\ attempt' = attempt
    BY <1>5 DEF EndBatches, pool
  <2>3. pc = "next" /\ pc' = "done"
    BY <1>5 DEF EndBatches
  <2>4. QED
    BY <2>1, <2>2, <2>3 DEF Fetching, Turn, Tries, Under, Results, Staged, Ready
<1>6. CASE Collect
  BY <1>6, CollectFetching
<1>7. CASE EndFetch
  BY <1>7, EndFetching
<1>8. CASE Verify \/ VerifyFails
  BY <1>8, HashFetching DEF Verify, VerifyFails
<1>9. CASE Land
  BY <1>9, LandFetching
<1>10. CASE Ended \/ UNCHANGED vars
  <2>1. UNCHANGED <<listed, free, batches, number, status, task, attempt, handle, names, data,
                    collected, error, pc>>
    BY <1>10 DEF Ended, vars, plan, pool, disk
  <2>2. Batch' = Batch
    BY <2>1 DEF Batch
  <2>3. TypeOK'
    BY <2>1, <2>2 DEF TypeOK
  <2>4. Turn' /\ Tries' /\ Under' /\ Staged'
    BY <2>1, <2>2 DEF Fetching, Turn, Tries, Under, Staged
  <2>5. Results'
    BY <2>1, <2>2 DEF Fetching, Results, Result
  <2>6. QED
    BY <2>3, <2>4, <2>5 DEF Fetching
<1>11. QED
  BY <1>1, <1>2, <1>3, <1>4, <1>5, <1>6, <1>7, <1>8, <1>9, <1>10 DEF Next, Main

\* The inductive invariant of fetch: every collected download has its row, every name in
\* staging is a download's that writes or is complete, no attempt is counted past the last.
THEOREM FetchesInOrder == Spec => [](TypeOK /\ Fetching)
<1>1. Init => TypeOK /\ Fetching
  BY InitFetching
<1>2. TypeOK /\ Fetching /\ [Next]_vars => (TypeOK /\ Fetching)'
  BY FetchingStep
<1>3. QED
  BY <1>1, <1>2, PTL DEF Spec

\* The plan, the pool, the staging directory and the main thread keep their types.
THEOREM PoolTypes == Spec => []TypeOK
BY FetchesInOrder, PTL
-----------------------------------------------------------------------------
\* What verify leaves in staging when it passes.
LEMMA VerifyStages ==
  ASSUME TypeOK, Fetching, Verify
  PROVE  StagedIsVerified'
<1> DEFINE fetched == Being("FETCHED")
           bad == Mismatched
<1>1. /\ pc = "verify" /\ Lost = {} /\ UNCHANGED <<plan, number, pool, data>>
      /\ status' = [f \in File |-> CASE f \in Hashed \cap Mismatched -> "HASH_MISMATCH"
                                     [] f \in Hashed \ Mismatched -> "VERIFIED"
                                     [] OTHER -> status[f]]
      /\ names' = [n \in Name |-> IF n \in Hashed \cap Mismatched THEN None ELSE names[n]]
  BY DEF Verify, HashFiles
<1>2. /\ Batch' = Batch /\ ToSet(Batch) \subseteq File
      /\ \A f \in ToSet(Batch) : \E i \in 1..Len(Batch) : f = Batch[i]
      /\ \A f \in File : f \in Name
      /\ listed' = listed /\ data' = data
  BY <1>1, Files DEF Batch, plan, ToSet
<1>3. Hashed = fetched
  BY <1>1, <1>2 DEF Hashed, Being
<1>4. \A f \in ToSet(Batch) : Result(f) /\ ~error
  BY <1>1, <1>2 DEF Fetching, Results
<1>5. \A f \in ToSet(Batch) : status[f] \in {"FETCHED", "VANISHED"}
  BY <1>4 DEF Result, Over
<1>6. fetched \subseteq ToSet(Batch) /\ bad \subseteq fetched
      /\ fetched = {f \in ToSet(Batch) : status[f] = "FETCHED"}
  BY DEF Being, Mismatched
<1>7. \A f \in fetched : names[f] # None /\ (f \notin bad => data[names[f]] = listed[f])
  BY <1>1 DEF Lost, Mismatched
<1>8. \A n \in Name : names[n] # None => n \in fetched
  <2> SUFFICES ASSUME NEW n \in Name, names[n] # None PROVE n \in fetched
    OBVIOUS
  <2>1. \A f \in File : task[f] # "writing"
    BY <1>1 DEF Fetching, Under, Over
  <2>2. n \in ToSet(Batch) /\ task[n] = "done"
    BY <1>1, <2>1 DEF Fetching, Staged
  <2>3. QED
    BY <1>4, <1>6, <2>2 DEF Result
<1> DEFINE left == fetched \ bad
<1>9. Being("VERIFIED")' = left
  <2>1. Being("VERIFIED")' = {f \in ToSet(Batch) : status'[f] = "VERIFIED"}
    BY <1>2 DEF Being
  <2> HIDE DEF fetched, bad
  <2>2. \A f \in File : status'[f] = IF f \in bad THEN "HASH_MISMATCH"
                                     ELSE IF f \in fetched THEN "VERIFIED" ELSE status[f]
    BY <1>1, <1>3, <1>6 DEF bad
  <2>3. QED
    BY <1>2, <1>5, <1>6, <2>1, <2>2
<1>10. \A n \in Name : names'[n] = IF n \in bad THEN None ELSE names[n]
  BY <1>1, <1>3, <1>6
<1> HIDE DEF fetched, bad
<1>11. {n \in Name : names'[n] # None} = left
  BY <1>2, <1>6, <1>7, <1>8, <1>10
<1>12. \A f \in left : data'[names'[f]] = listed'[f]
  BY <1>2, <1>6, <1>7, <1>10
<1>13. QED
  BY <1>9, <1>11, <1>12 DEF StagedIsVerified

\* upload is handed the verified files of the batch with the content that was listed and
\* nothing else, however many workers download, retry, drop or rename over each other's
\* temporary names, whatever those names are, and whatever the batch before left.
THEOREM StagesOnlyVerified == Spec => []StagedIsVerified
<1>1. Init => StagedIsVerified
  BY DEF Init, StagedIsVerified
<1>2. ASSUME TypeOK, Fetching, StagedIsVerified, [Next]_vars PROVE StagedIsVerified'
  <2>1. ASSUME NEW f \in File, Download(f) PROVE StagedIsVerified'
    <3>1. pc = "fetch" /\ pc' = pc
      BY <1>2, <2>1, DownloadTypes DEF Fetching, Under, Over, Pooled
    <3>2. QED
      BY <3>1 DEF StagedIsVerified
  <2>2. CASE Verify
    BY <1>2, <2>2, VerifyStages
  <2>3. CASE Plan \/ RefusePlan \/ StartBatch \/ EndBatches \/ Collect \/ EndFetch
             \/ VerifyFails \/ Land
    <3>1. pc' # "upload"
      BY <2>3 DEF Plan, RefusePlan, StartBatch, EndBatches, Collect, EndFetch,
                  VerifyFails, Land
    <3>2. QED
      BY <3>1 DEF StagedIsVerified
  <2>4. CASE Ended \/ UNCHANGED vars
    BY <1>2, <2>4 DEF Ended, vars, plan, pool, disk, StagedIsVerified, Being, Batch
  <2>5. QED
    BY <1>2, <2>1, <2>2, <2>3, <2>4 DEF Next, Main
<1>3. QED
  BY <1>1, <1>2, FetchesInOrder, PTL DEF Spec
-----------------------------------------------------------------------------
\* The plan is made once.
LEMMA PlanStays ==
  ASSUME TypeOK, Fetching, [Next]_vars, ~Plan
  PROVE  UNCHANGED <<listed, free, batches>>
<1>1. ASSUME NEW f \in File, Download(f) PROVE UNCHANGED <<listed, free, batches>>
  BY <1>1, DownloadTypes DEF Pooled, plan
<1>2. CASE RefusePlan \/ StartBatch \/ EndBatches \/ Collect \/ EndFetch \/ Verify
           \/ VerifyFails \/ Land \/ Ended \/ UNCHANGED vars
  BY <1>2 DEF RefusePlan, StartBatch, EndBatches, Collect, EndFetch, Verify, VerifyFails,
              HashFiles, Land, Ended, vars, plan
<1>3. QED
  BY <1>1, <1>2 DEF Next, Main

\* "disk cannot hold a batch" is found out by the plan: each batch and the headroom fit on
\* the disk, and a batch over batch_gb is a single file, for any sizes, limits and disk.
THEOREM EachBatchFits == Spec => []BatchesFit
<1>1. Init => BatchesFit
  BY EmptySeq DEF Init, BatchesFit
<1>2. ASSUME TypeOK, Fetching, BatchesFit, [Next]_vars PROVE BatchesFit'
  <2>1. CASE Plan
    <3> DEFINE rows == Fitting(Order, SizeOf, free)
    <3>1. SizeOf \in [File -> Nat] /\ free \in Nat /\ Order \in Seq(File)
      BY <1>2, Files, PoolAssumption, Zenon
    <3>2. /\ batches' = Pack(rows, SizeOf) /\ UNCHANGED <<listed, free>>
          /\ Largest(rows, SizeOf) = 0 \/ free >= Needed(rows, SizeOf)
      BY <2>1 DEF Plan
    <3>3. SizeOf' = SizeOf
      BY <3>2 DEF SizeOf
    <3>4. /\ batches' \in Seq(Seq(File))
          /\ \A k \in 1..Len(batches') :
               /\ Len(batches'[k]) \in 1..BatchFiles
               /\ Len(batches'[k]) = 1 \/ Bytes(batches'[k], SizeOf) <= BatchBytes
               /\ Bytes(batches'[k], SizeOf) + Headroom <= free
      BY <3>1, <3>2, PlansFit
    <3> HIDE DEF rows
    <3>5. DOMAIN (batches') = 1..Len(batches')
      BY <3>4, LenProperties
    <3>6. QED
      BY <3>2, <3>3, <3>4, <3>5 DEF BatchesFit
  <2>2. CASE ~Plan
    <3>1. UNCHANGED <<listed, free, batches>>
      BY <1>2, <2>2, PlanStays
    <3>2. QED
      BY <1>2, <3>1 DEF BatchesFit, SizeOf
  <2>3. QED
    BY <2>1, <2>2
<1>3. QED
  BY <1>1, <1>2, FetchesInOrder, PTL DEF Spec

\* Every changed file the disk can stage is in one batch, in the order of the paths.
THEOREM PlansEveryFile == Spec => []EveryFilePlanned
<1>1. Init => EveryFilePlanned
  BY DEF Init, EveryFilePlanned
<1>2. ASSUME TypeOK, Fetching, EveryFilePlanned, [Next]_vars PROVE EveryFilePlanned'
  <2>1. CASE Plan
    <3> DEFINE rows == Fitting(Order, SizeOf, free)
               cap == FileCap(free)
    <3>1. SizeOf \in [File -> Nat] /\ free \in Nat /\ Order \in Seq(File)
      BY <1>2, Files, PoolAssumption, Zenon
    <3>2. /\ batches' = Pack(rows, SizeOf) /\ UNCHANGED <<listed, free>>
      BY <2>1 DEF Plan
    <3>3. SizeOf' = SizeOf
      BY <3>2 DEF SizeOf
    <3>4. FlattenSeq(batches') = rows
      BY <3>1, <3>2, PlansFit
    <3>5. Keeps(rows, File, SizeOf, cap, Order, Len(Order))
      BY <3>1, PlansFit
    <3> HIDE DEF rows
    <3>6. /\ rows \in Seq(File) /\ DOMAIN rows = 1..Len(rows) /\ DOMAIN Order = 1..Len(Order)
          /\ \A k \in 1..Len(rows) : rows[k] \in File
          /\ Len(rows) \in Nat /\ Len(Order) \in Nat
      BY <3>1, <3>5, LenProperties, ElementOfSeq DEF Keeps
    <3>7. ToSet(rows) = {rows[k] : k \in 1..Len(rows)} /\ File = {Order[i] : i \in 1..Len(Order)}
      BY <3>6, PoolAssumption DEF ToSet
    <3>8. /\ \A k \in 1..Len(rows) : SizeOf[rows[k]] <= cap
          /\ \A i \in 1..Len(Order) : SizeOf[Order[i]] <= cap =>
               \E k \in 1..Len(rows) : rows[k] = Order[i]
      BY <3>5 DEF Keeps
    <3>9. ToSet(rows) = {f \in File : SizeOf[f] <= cap}
      <4> HIDE DEF cap
      <4>1. QED
        BY <3>6, <3>7, <3>8
    <3>10. \E at \in [DOMAIN rows -> DOMAIN Order] :
             /\ \A i \in DOMAIN rows : rows[i] = Order[at[i]]
             /\ \A i, j \in DOMAIN rows : i < j => at[i] < at[j]
      BY <3>5, <3>6 DEF Keeps
    <3>11. QED
      BY <3>2, <3>3, <3>4, <3>9, <3>10 DEF EveryFilePlanned
  <2>2. CASE ~Plan
    <3>1. UNCHANGED <<listed, free, batches>>
      BY <1>2, <2>2, PlanStays
    <3>2. pc \in {"plan", "failed"} => pc' \in {"plan", "failed"}
      <4>1. ASSUME NEW f \in File, Download(f) PROVE pc' = pc
        BY <1>2, <4>1, DownloadTypes DEF Pooled
      <4>2. QED
        BY <1>2, <2>2, <4>1 DEF Next, Main, RefusePlan, StartBatch, EndBatches, Collect,
             EndFetch, Verify, VerifyFails, HashFiles, Land, Ended, vars
    <3>3. QED
      BY <1>2, <3>1, <3>2 DEF EveryFilePlanned, SizeOf
  <2>3. QED
    BY <2>1, <2>2
<1>3. QED
  BY <1>1, <1>2, FetchesInOrder, PTL DEF Spec
=============================================================================
