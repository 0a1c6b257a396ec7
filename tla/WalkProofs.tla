----------------------------- MODULE WalkProofs -----------------------------
(***************************************************************************)
(* Proofs about SessionWalk, for every value of its constants.             *)
(***************************************************************************)
EXTENDS WalkProperties, TLAPS, FiniteSetTheorems

USE DEF session, folders, work, control, spent, walk

LEMMA WalkInit == Init => WalkInOrder
<1> SUFFICES ASSUME Init PROVE WalkInOrder
  OBVIOUS
<1>1. TypeOK
  <2>1. late \in BOOLEAN /\ stopped \in BOOLEAN
    BY Zenon DEF Init
  <2>2. /\ copies \in [Worker -> Nat] /\ queue \in [Worker -> SUBSET Folder]
        /\ flight \in [Worker -> Folder \cup {Nothing}]
        /\ result \in [Worker -> {"none", "ok", "auth", "error"}]
    BY DEF Init
  <2>3. walk \in Walks /\ saved \in Walks
    BY DEF Init, Walks
  <2>4. {valid, lapsed, main, sealed, rescues, lapses, errors, crashes} \subseteq Nat
    BY DEF Init
  <2>5. QED
    BY <2>1, <2>2, <2>3, <2>4, Zenon DEF Init, TypeOK
<1>2. AtRest /\ OnePlace
  BY DEF Init, AtRest, OnePlace, Walking
<1>3. TreeKnown
  BY DEF Init, TreeKnown, KnowsTree, Walking
<1>4. TokensKept
  BY DEF Init, TokensKept, Good, Walking
<1>5. LapsesCounted /\ OutcomeExplained /\ EndsKept
  BY DEF Init, LapsesCounted, OutcomeExplained, EndsKept, Walking
<1>6. QED
  BY <1>1, <1>2, <1>3, <1>4, <1>5 DEF WalkInOrder

-----------------------------------------------------------------------------
\* Lemmas about tokens.

\* A process leaves its copy with the newest token, the same token, or none.
LEMMA TokenGood ==
  ASSUME valid \in Nat, lapsed \in Nat, valid >= 1, lapsed <= valid, NEW t \in Nat, Good(t)
  PROVE  /\ Token(t) \in Nat /\ Issued(t) \in Nat
         /\ Token(t) \in {0, Issued(t)}
         /\ Token(t) = 0 => Issued(t) = valid /\ t # valid
         /\ Token(t) = 0 <=> t # valid
         /\ Issued(t) \in {valid, valid + 1}
         /\ Issued(t) # valid => valid <= lapsed /\ t = valid
<1>1. CASE t > lapsed
  <2>1. t = valid /\ Token(t) = t /\ Issued(t) = valid
    BY <1>1 DEF Token, Issued, Good
  <2>2. QED
    BY <2>1
<1>2. CASE t <= lapsed /\ t = valid
  <2>1. Token(t) = valid + 1 /\ Issued(t) = valid + 1
    BY <1>2 DEF Token, Issued
  <2>2. QED
    BY <1>2, <2>1
<1>3. CASE t <= lapsed /\ t # valid
  <2>1. Token(t) = 0 /\ Issued(t) = valid
    BY <1>3 DEF Token, Issued
  <2>2. QED
    BY <1>3, <2>1
<1>4. QED
  BY <1>1, <1>2, <1>3

\* Tokens that are held stay good when a process refreshes another.
LEMMA GoodKept ==
  ASSUME valid \in Nat, lapsed \in Nat, NEW t \in Nat, Good(t), lapsed' = lapsed,
         \/ valid' = valid
         \/ valid' = valid + 1 /\ valid <= lapsed
  PROVE  t <= valid' /\ (t = valid' \/ t <= lapsed')
BY DEF Good

\* While one worker has the newest token, that is the one promoted.
LEMMA PromotesNewest ==
  ASSUME TypeOK, TokensKept, Walking
  PROVE  Promoted = valid
<1> DEFINE T == {copies[w] : w \in Survivors}
           Newest(t) == \A w \in Survivors : copies[w] <= t
<1>1. PICK v \in Worker : copies[v] = valid
  BY DEF TokensKept
<1>2. v \in Survivors /\ valid \in T /\ Newest(valid)
  BY <1>1 DEF TokensKept, Survivors, Good, TypeOK
<1>3. \A t \in T : Newest(t) => t = valid
  <2> SUFFICES ASSUME NEW t \in T, Newest(t) PROVE t = valid
    OBVIOUS
  <2>1. valid <= t /\ t <= valid /\ t \in Nat
    BY <1>1, <1>2 DEF Survivors, TokensKept, Good, TypeOK
  <2>2. QED
    BY <2>1 DEF TypeOK
<1>4. (CHOOSE t \in T : Newest(t)) = valid
  BY <1>2, <1>3
<1>5. QED
  BY <1>2, <1>4 DEF Promoted

-----------------------------------------------------------------------------
\* Types.

\* What Call and CallFails have in common.
Process(w) ==
    /\ Listing(w)
    /\ copies' = [copies EXCEPT ![w] = Token(copies[w])]
    /\ valid' = Issued(copies[w])
    /\ \/ /\ result' = [result EXCEPT ![w] = IF copies'[w] = 0 THEN "auth" ELSE "ok"]
          /\ errors' = errors
       \/ /\ copies'[w] # 0
          /\ result' = [result EXCEPT ![w] = "error"]
          /\ errors' = errors + 1
    /\ UNCHANGED <<lapsed, main, sealed, folders, saved, queue, flight, control, lapses,
                   crashes, pc>>

LEMMA ProcessEnds ==
  ASSUME NEW w \in Worker, Call(w) \/ CallFails(w)
  PROVE  Process(w)
BY Zenon DEF Call, CallFails, Process

LEMMA ProcessTokens ==
  ASSUME TypeOK, TokensKept, Walking, NEW w \in Worker, Process(w)
  PROVE  /\ copies' \in [Worker -> Nat] /\ valid' \in Nat
         /\ valid' \in {valid, valid + 1}
         /\ valid' # valid => valid <= lapsed /\ copies[w] = valid
         /\ copies'[w] \in {0, valid'}
         /\ copies'[w] = 0 <=> copies[w] # valid
         /\ \A v \in Worker : v # w => copies'[v] = copies[v]
<1>1. copies[w] \in Nat /\ Good(copies[w]) /\ valid \in Nat /\ lapsed \in Nat
  BY DEF TypeOK, TokensKept
<1>2. copies' = [copies EXCEPT ![w] = Token(copies[w])] /\ valid' = Issued(copies[w])
  BY DEF Process
<1>3. copies \in [Worker -> Nat]
  BY DEF TypeOK
<1> DEFINE c == copies[w]
<1>4. /\ Token(c) \in Nat /\ Issued(c) \in Nat
      /\ Token(c) \in {0, Issued(c)}
      /\ Token(c) = 0 <=> c # valid
      /\ Issued(c) \in {valid, valid + 1}
      /\ Issued(c) # valid => valid <= lapsed /\ c = valid
  BY <1>1, TokenGood DEF TokensKept
<1>5. QED
  BY <1>2, <1>3, <1>4

LEMMA NoWorkTypes ==
  ASSUME NoWork
  PROVE  /\ queue' \in [Worker -> SUBSET Folder]
         /\ flight' \in [Worker -> Folder \cup {Nothing}]
         /\ result' \in [Worker -> {"none", "ok", "auth", "error"}]
         /\ copies' \in [Worker -> Nat] /\ outcome' = "ok" /\ rescues' = 0
         /\ late' \in BOOLEAN /\ stopped' \in BOOLEAN
<1>1. late' \in BOOLEAN /\ stopped' \in BOOLEAN
  BY Zenon DEF NoWork
<1>2. QED
  BY <1>1 DEF NoWork

LEMMA CommitTypes ==
  ASSUME TypeOK, OnePlace, NEW done \in SUBSET Back, Commit(done)
  PROVE  /\ pending' \subseteq Folder /\ listed' \subseteq Folder
         /\ queue' \in [Worker -> SUBSET Folder]
         /\ flight' \in [Worker -> Folder \cup {Nothing}]
         /\ result' \in [Worker -> {"none", "ok", "auth", "error"}]
<1> DEFINE good == {flight[w] : w \in {v \in done : result[v] = "ok"}}
<1>1. \A w \in done : flight[w] \in Folder
  BY DEF TypeOK, OnePlace, Back
<1>2. good \subseteq Folder
  BY <1>1
<1>3. \A f \in Folder : Children[f] \subseteq Folder
  BY WalkAssumption
<1>4. pending \subseteq Folder /\ listed \subseteq Folder
  BY DEF TypeOK, Walks
<1>5. pending' \subseteq Folder /\ listed' \subseteq Folder
  <2>1. /\ pending' = (pending \ good) \cup UNION {Children[f] : f \in good}
        /\ listed' = listed \cup good
    BY Zenon DEF Commit, CommitListing
  <2>2. QED
    BY <1>2, <1>3, <1>4, <2>1
<1>6. /\ queue' \in [Worker -> SUBSET Folder]
      /\ flight' \in [Worker -> Folder \cup {Nothing}]
      /\ result' \in [Worker -> {"none", "ok", "auth", "error"}]
  <2>1. queue \in [Worker -> SUBSET Folder]
    BY DEF TypeOK
  <2>2. queue' \in [Worker -> SUBSET Folder]
    <3>1. queue' = [w \in Worker |->
             IF w \notin done THEN queue[w]
             ELSE queue[w] \cup IF result[w] = "ok" THEN Children[flight[w]] ELSE {flight[w]}]
      BY Zenon DEF Commit
    <3>2. \A w \in Worker : queue[w] \in SUBSET Folder
      BY <2>1
    <3>3. \A w \in done : Children[flight[w]] \in SUBSET Folder /\ {flight[w]} \in SUBSET Folder
      BY <1>1, <1>3
    <3>4. QED
      BY <3>1, <3>2, <3>3
  <2>3. QED
    BY <2>2 DEF Commit, TypeOK
<1>7. QED
  BY <1>5, <1>6

\* What an exception out of _collect leaves: part of what came back committed, the walk failed.
LEMMA RaisesCommit ==
  ASSUME CollectRaises
  PROVE  /\ Walking /\ Walking' /\ pc' = "fail" /\ errors' = errors + 1
         /\ UNCHANGED <<session, status, saved, control, lapses, crashes>>
         /\ \E done \in SUBSET Back : Commit(done)
<1>1. \E done \in SUBSET Back : Commit(done)
  <2>1. PICK w \in Back : \E done \in SUBSET (Back \ {w}) : Commit(done)
    BY Zenon DEF CollectRaises
  <2>2. \A done \in SUBSET (Back \ {w}) : done \in SUBSET Back
    OBVIOUS
  <2>3. QED
    BY <2>1, <2>2, Zenon
<1>2. Walking /\ Walking'
  BY Zenon DEF CollectRaises, Walking
<1>3. QED
  BY <1>1, <1>2, Zenon DEF CollectRaises

LEMMA TypeNext ==
  ASSUME WalkInOrder, [Next]_vars
  PROVE  TypeOK'
<1> USE DEF WalkInOrder
<1>1. CASE UNCHANGED vars
  BY <1>1 DEF vars, TypeOK, Walks
<1>2. ASSUME NEW w \in Worker, Process(w) PROVE TypeOK'
  <2>1. Walking
    BY <1>2 DEF Process, Listing, AtRest
  <2>2. copies' \in [Worker -> Nat] /\ valid' \in Nat
    BY <1>2, <2>1, ProcessTokens
  <2>3. errors' \in Nat
    BY <1>2 DEF Process, TypeOK
  <2>4. result' \in [Worker -> {"none", "ok", "auth", "error"}]
    BY <1>2 DEF Process, TypeOK
  <2>5. QED
    BY <1>2, <2>2, <2>3, <2>4 DEF Process, TypeOK
<1>3. CASE Lapse
  BY <1>3 DEF Lapse, TypeOK
<1>4. CASE DeadlinePasses
  <2>1. late' \in BOOLEAN
    BY <1>4, Zenon DEF DeadlinePasses
  <2>2. QED
    BY <1>4, <2>1 DEF DeadlinePasses, TypeOK
<1>5. CASE Seal
  BY <1>5 DEF Seal, TypeOK
<1>6. CASE StartRun
  BY <1>6 DEF StartRun, TypeOK, Walks
<1>7. CASE CheckRoot
  <2>1. main' \in Nat /\ valid' \in Nat
    BY <1>7, TokenGood DEF CheckRoot, TypeOK, TokensKept
  <2>2. QED
    BY <1>7, <2>1 DEF CheckRoot, TypeOK
<1>8. CASE Open
  BY <1>8, WalkAssumption DEF Open, TypeOK, Walks, Loaded
<1>9. ASSUME NEW w \in Worker, NEW v \in Worker, NEW f \in Folder, Dispatch(w, v, f) PROVE TypeOK'
  BY <1>9 DEF Dispatch, TypeOK
<1>10. CASE Dispatched
  BY <1>10 DEF Dispatched, TypeOK
<1>11. CASE Collect
  <2>1. outcome' \in {"ok", "auth", "failed"} /\ pc' \in {"drain", "decide"}
    BY <1>11, Zenon DEF Collect, Collected
  <2>2. QED
    BY <1>11, <2>1, CommitTypes DEF Collect, TypeOK, Walks
<1>12. CASE Drain
  <2>1. outcome' \in {"ok", "auth", "failed"} /\ pc' = "decide"
    BY <1>12, Zenon DEF Drain, Collected, TypeOK
  <2>2. QED
    BY <1>12, <2>1, CommitTypes DEF Drain, TypeOK, Walks
<1>13. CASE Decide
  <2>1. stopped' \in BOOLEAN
    BY <1>13, Zenon DEF Decide, TypeOK
  <2>2. QED
    BY <1>13, <2>1 DEF Decide, TypeOK
<1>14. CASE Rescue
  <2>1. stopped' \in BOOLEAN
    BY <1>14, Zenon DEF Rescue, TypeOK
  <2>2. Promoted = valid
    BY <1>14, PromotesNewest DEF Rescue, Walking
  <2>3. QED
    BY <1>14, <2>1, <2>2 DEF Rescue, TypeOK
<1>15. CASE GiveUp
  BY <1>15 DEF GiveUp, TypeOK
<1>16. CASE Adopt
  <2>1. Promoted = valid
    BY <1>16, PromotesNewest DEF Adopt, Walking
  <2>2. QED
    BY <1>16, <2>1 DEF Adopt, TypeOK
<1>17. CASE Finish
  BY <1>17, NoWorkTypes DEF Finish, TypeOK, Walks
<1>18. CASE Stop
  BY <1>18, NoWorkTypes DEF Stop, TypeOK, Walks
<1>19. CASE Fail
  BY <1>19, NoWorkTypes DEF Fail, TypeOK, Walks
<1>20. CASE Crash
  BY <1>20, NoWorkTypes DEF Crash, TypeOK, Walks
<1>21. CASE CollectRaises
  <2>1. PICK done \in SUBSET Back : Commit(done)
    BY <1>21, RaisesCommit, Zenon
  <2>2. /\ pending' \subseteq Folder /\ listed' \subseteq Folder
        /\ queue' \in [Worker -> SUBSET Folder]
        /\ flight' \in [Worker -> Folder \cup {Nothing}]
        /\ result' \in [Worker -> {"none", "ok", "auth", "error"}]
    BY <2>1, CommitTypes
  <2>3. pc' = "fail" /\ errors' = errors + 1
        /\ UNCHANGED <<session, status, saved, control, lapses, crashes>>
    BY <1>21, RaisesCommit
  <2>4. QED
    BY <2>2, <2>3 DEF TypeOK, Walks
<1>22. QED
  BY <1>1, <1>2, <1>3, <1>4, <1>5, <1>6, <1>7, <1>8, <1>9, <1>10, <1>11, <1>12, <1>13, <1>14,
     <1>15, <1>16, <1>17, <1>18, <1>19, <1>20, <1>21, ProcessEnds, Zenon DEF Next, Main, Calls

-----------------------------------------------------------------------------
\* A run begins and ends with nothing under way.

LEMMA RestNext ==
  ASSUME WalkInOrder, [Next]_vars
  PROVE  AtRest'
<1> USE DEF WalkInOrder
<1>1. ASSUME NoWork, main' = 0 PROVE AtRest'
  BY <1>1 DEF NoWork, AtRest
<1>2. ASSUME Walking' PROVE AtRest'
  BY <1>2 DEF AtRest
<1>3. CASE UNCHANGED vars
  BY <1>3 DEF vars, AtRest, Walking
<1>4. ASSUME NEW w \in Worker, Process(w) PROVE AtRest'
  BY <1>2, <1>4 DEF Process, Listing, AtRest, Walking
<1>5. CASE Lapse
  BY <1>5 DEF Lapse, AtRest, Walking
<1>6. CASE DeadlinePasses
  BY <1>6 DEF DeadlinePasses, AtRest, Walking
<1>7. CASE Seal
  BY <1>7 DEF Seal, AtRest, Walking
<1>8. CASE StartRun
  BY <1>8 DEF StartRun, AtRest, Walking
<1>9. CASE CheckRoot
  BY <1>9 DEF CheckRoot, AtRest, Walking
<1>10. CASE Open
  BY <1>2, <1>10 DEF Open, Walking
<1>11. ASSUME NEW w \in Worker, NEW v \in Worker, NEW f \in Folder, Dispatch(w, v, f) PROVE AtRest'
  BY <1>2, <1>11 DEF Dispatch, Walking
<1>12. CASE Dispatched
  BY <1>2, <1>12 DEF Dispatched, Walking
<1>13. CASE Collect
  BY <1>2, <1>13 DEF Collect, Walking
<1>14. CASE Drain
  BY <1>2, <1>14 DEF Drain, Walking
<1>15. CASE Decide
  BY <1>2, <1>15 DEF Decide, Walking
<1>16. CASE Rescue
  BY <1>2, <1>16 DEF Rescue, Walking
<1>17. CASE GiveUp
  BY <1>2, <1>17 DEF GiveUp, Walking
<1>18. CASE Adopt
  BY <1>2, <1>18 DEF Adopt, Walking
<1>19. CASE Finish
  BY <1>1, <1>19, Zenon DEF Finish
<1>20. CASE Stop
  BY <1>1, <1>20, Zenon DEF Stop
<1>21. CASE Fail
  BY <1>1, <1>21, Zenon DEF Fail
<1>22. CASE Crash
  BY <1>1, <1>22, Zenon DEF Crash
<1>23. CASE CollectRaises
  BY <1>2, <1>23, RaisesCommit
<1>24. QED
  BY <1>3, <1>4, <1>5, <1>6, <1>7, <1>8, <1>9, <1>10, <1>11, <1>12, <1>13, <1>14, <1>15, <1>16,
     <1>17, <1>18, <1>19, <1>20, <1>21, <1>22, <1>23, ProcessEnds, Zenon DEF Next, Main, Calls
-----------------------------------------------------------------------------
\* The tree.

\* The folders whose listings are committed, and their subfolders.
Landing(done) == {flight[w] : w \in {v \in done : result[v] = "ok"}}

LEMMA LandingPending ==
  ASSUME TypeOK, OnePlace, NEW done \in SUBSET Back
  PROVE  Landing(done) \subseteq pending /\ Landing(done) \subseteq Folder
BY DEF Landing, Back, OnePlace, TypeOK, Walks

\* The subfolders of a folder that is not listed are not known.
LEMMA ChildrenUnknown ==
  ASSUME NEW s \in Walks, KnowsTree(s), s.status = "running",
         NEW f \in s.pending, NEW c \in Children[f]
  PROVE  c \notin s.pending \cup s.listed
<1>1. f \in Folder /\ s.listed \subseteq Folder /\ f \notin s.listed
  BY DEF Walks, KnowsTree
<1>2. c # Root
  BY <1>1, WalkAssumption
<1>3. \A g \in s.listed : c \notin Children[g]
  BY <1>1, WalkAssumption
<1>4. QED
  BY <1>2, <1>3 DEF KnowsTree

LEMMA ChildrenOfBoth ==
  ASSUME NEW A, NEW B
  PROVE  UNION {Children[f] : f \in A \cup B}
           = (UNION {Children[f] : f \in A}) \cup UNION {Children[f] : f \in B}
<1> DEFINE Of(S) == UNION {Children[f] : f \in S}
<1>1. \A S, c : c \in Of(S) <=> \E f \in S : c \in Children[f]
  OBVIOUS
<1> HIDE DEF Of
<1>2. \A c : c \in Of(A \cup B) <=> c \in Of(A) \cup Of(B)
  BY <1>1
<1>3. Of(A \cup B) = Of(A) \cup Of(B)
  BY <1>2
<1>4. QED
  BY <1>3 DEF Of

LEMMA ListingKnowsTree ==
  ASSUME NEW s \in Walks, KnowsTree(s), s.status = "running",
         NEW done \in SUBSET s.pending, NEW t \in Walks, t.status = "running",
         t.pending = (s.pending \ done) \cup UNION {Children[f] : f \in done},
         t.listed = s.listed \cup done
  PROVE  KnowsTree(t)
<1>1. done \subseteq Folder
  BY DEF Walks
<1>2. t.pending \cap t.listed = {}
  <2>1. (s.pending \ done) \cap (s.listed \cup done) = {}
    BY DEF KnowsTree
  <2>2. \A f \in done : \A c \in Children[f] : c \notin s.listed \cup done
    BY ChildrenUnknown
  <2>3. QED
    BY <2>1, <2>2
<1>3. t.pending \cup t.listed = {Root} \cup UNION {Children[f] : f \in t.listed}
  <2>1. t.pending \cup t.listed
          = (s.pending \cup s.listed) \cup UNION {Children[f] : f \in done}
    <3> DEFINE found == UNION {Children[f] : f \in done}
    <3>1. /\ t.pending = (s.pending \ done) \cup found /\ t.listed = s.listed \cup done
          /\ done \subseteq s.pending
      OBVIOUS
    <3> HIDE DEF found
    <3>2. t.pending \cup t.listed = (s.pending \cup s.listed) \cup found
      BY <3>1
    <3>3. QED
      BY <3>2 DEF found
  <2>2. UNION {Children[f] : f \in t.listed}
          = (UNION {Children[f] : f \in s.listed}) \cup UNION {Children[f] : f \in done}
    BY ChildrenOfBoth
  <2>3. QED
    BY <2>1, <2>2 DEF KnowsTree
<1>4. QED
  BY <1>2, <1>3 DEF KnowsTree

\* A running walk with nothing pending has the whole tree.
LEMMA NothingPending ==
  ASSUME NEW s \in Walks, KnowsTree(s), s.status = "running", s.pending = {}
  PROVE  s.listed = Folder
<1>1. s.listed = {Root} \cup UNION {Children[f] : f \in s.listed}
  BY DEF KnowsTree
<1>2. Root \in s.listed /\ \A f \in s.listed : Children[f] \subseteq s.listed
  BY <1>1
<1>3. s.listed \in SUBSET Folder
  BY DEF Walks
<1>4. QED
  BY <1>2, <1>3, WalkAssumption

LEMMA CommitTree ==
  ASSUME WalkInOrder, Walking, NEW done \in SUBSET Back, Commit(done), status' = status, Walking', saved' = saved
  PROVE  TreeKnown'
<1> USE DEF WalkInOrder
<1>1. walk \in Walks /\ KnowsTree(walk) /\ status = "running"
  BY DEF TypeOK, TreeKnown
<1>2. /\ pending' = (pending \ Landing(done)) \cup UNION {Children[f] : f \in Landing(done)}
      /\ listed' = listed \cup Landing(done)
  BY Zenon DEF Commit, CommitListing, Landing
<1> DEFINE next == [status |-> "running", pending |-> pending', listed |-> listed']
<1>3. next \in Walks
  BY CommitTypes DEF Walks
<1>4. KnowsTree(next)
  BY <1>1, <1>2, <1>3, LandingPending, ListingKnowsTree
<1>5. QED
  BY <1>1, <1>4 DEF TreeKnown, KnowsTree

LEMMA TreeNext ==
  ASSUME WalkInOrder, [Next]_vars
  PROVE  TreeKnown'
<1> USE DEF WalkInOrder
<1>1. ASSUME UNCHANGED <<status, pending, listed, saved>>, Walking' => Walking PROVE TreeKnown'
  BY <1>1 DEF TreeKnown, KnowsTree
<1>2. CASE UNCHANGED vars
  BY <1>1, <1>2 DEF vars, Walking
<1>3. ASSUME NEW w \in Worker, Process(w) PROVE TreeKnown'
  BY <1>1, <1>3 DEF Process, Walking
<1>4. CASE Lapse
  BY <1>1, <1>4 DEF Lapse, Walking
<1>5. CASE DeadlinePasses
  BY <1>1, <1>5 DEF DeadlinePasses, Walking
<1>6. CASE Seal
  BY <1>1, <1>6 DEF Seal, Walking
<1>7. CASE StartRun
  BY <1>7 DEF StartRun, TreeKnown, KnowsTree, Walking
<1>8. CASE CheckRoot
  BY <1>1, <1>8 DEF CheckRoot, Walking
<1>9. CASE Open
  BY <1>9, WalkAssumption DEF Open, TreeKnown, KnowsTree, Walking
<1>10. ASSUME NEW w \in Worker, NEW v \in Worker, NEW f \in Folder, Dispatch(w, v, f) PROVE TreeKnown'
  BY <1>1, <1>10 DEF Dispatch, Walking
<1>11. CASE Dispatched
  BY <1>1, <1>11 DEF Dispatched, Walking
<1>12. CASE Collect
  BY <1>12, CommitTree DEF Collect, Walking
<1>13. CASE Drain
  BY <1>13, CommitTree DEF Drain, Walking
<1>14. CASE Decide
  BY <1>1, <1>14 DEF Decide, Walking
<1>15. CASE Rescue
  BY <1>1, <1>15 DEF Rescue, Walking
<1>16. CASE GiveUp
  BY <1>1, <1>16 DEF GiveUp, Walking
<1>17. CASE Adopt
  BY <1>1, <1>17 DEF Adopt, Walking
<1>18. CASE Finish
  <2>1. listed = Folder
    BY <1>18, NothingPending DEF Finish, TreeKnown, TypeOK, Walking
  <2>2. QED
    BY <1>18, <2>1 DEF Finish, TreeKnown, KnowsTree, Walking
<1>19. CASE Stop
  BY <1>19 DEF Stop, TreeKnown, KnowsTree, Walking
<1>20. CASE Fail
  BY <1>20 DEF Fail, TreeKnown, KnowsTree, Walking
<1>21. CASE Crash
  BY <1>1, <1>21 DEF Crash, Walking
<1>22. CASE CollectRaises
  BY <1>22, RaisesCommit, CommitTree
<1>23. QED
  BY <1>2, <1>3, <1>4, <1>5, <1>6, <1>7, <1>8, <1>9, <1>10, <1>11, <1>12, <1>13, <1>14, <1>15,
     <1>16, <1>17, <1>18, <1>19, <1>20, <1>21, <1>22, ProcessEnds, Zenon DEF Next, Main, Calls
-----------------------------------------------------------------------------
\* Every folder in one place.

\* What a commit adds to a worker's queue.
Gain(done, w) == IF w \notin done THEN {}
                 ELSE IF result[w] = "ok" THEN Children[flight[w]] ELSE {flight[w]}

LEMMA GainPlaces ==
  ASSUME WalkInOrder, Walking, NEW done \in SUBSET Back
  PROVE  /\ \A w \in Worker : Gain(done, w) \cap (UNION {queue[v] : v \in Worker}) = {}
         /\ \A w, v \in Worker : w # v => Gain(done, w) \cap Gain(done, v) = {}
         /\ \A w, v \in Worker : w \notin done => flight[w] \notin Gain(done, v)
         /\ \A w \in Worker : Gain(done, w) \subseteq Folder
<1> USE DEF WalkInOrder
<1>1. walk \in Walks /\ KnowsTree(walk) /\ walk.status = "running"
  BY DEF TypeOK, TreeKnown
<1>2. \A w \in done : w \in Worker /\ flight[w] \in pending /\ flight[w] \in Folder
  BY DEF Back, OnePlace, TypeOK, Walks
<1>3. \A w \in done : \A c \in Children[flight[w]] : c \notin pending /\ c \in Folder
  BY <1>1, <1>2, ChildrenUnknown, WalkAssumption
<1>4. \A w \in Worker : \A f \in Gain(done, w) : \/ w \in done /\ f = flight[w]
                                                 \/ w \in done /\ f \in Children[flight[w]]
  BY DEF Gain
<1>5. \A w, v \in Worker : Gain(done, w) \cap queue[v] = {}
  BY <1>2, <1>3, <1>4 DEF OnePlace
<1>6. ASSUME NEW w \in Worker, NEW v \in Worker, w # v PROVE Gain(done, w) \cap Gain(done, v) = {}
  <2> SUFFICES ASSUME NEW f \in Gain(done, w), f \in Gain(done, v) PROVE FALSE
    OBVIOUS
  <2>1. w \in done /\ v \in done
    BY <1>4
  <2>2. flight[w] # flight[v]
    BY <1>2, <1>6, <2>1, WalkAssumption DEF OnePlace
  <2>3. Children[flight[w]] \cap Children[flight[v]] = {}
    BY <1>2, <2>1, <2>2, WalkAssumption
  <2>4. QED
    BY <1>2, <1>3, <1>4, <2>1, <2>2, <2>3
<1>7. ASSUME NEW w \in Worker, NEW v \in Worker, w \notin done PROVE flight[w] \notin Gain(done, v)
  <2>1. CASE flight[w] = Nothing
    BY <1>2, <1>3, <1>4, <2>1, WalkAssumption
  <2>2. CASE flight[w] # Nothing
    <3>1. flight[w] \in pending
      BY <2>2 DEF OnePlace
    <3>2. v \in done => flight[w] # flight[v]
      BY <1>7, <2>2 DEF OnePlace
    <3>3. QED
      BY <1>3, <1>4, <3>1, <3>2
  <2>3. QED
    BY <2>1, <2>2
<1>8. \A w \in Worker : Gain(done, w) \subseteq Folder
  BY <1>2, <1>3, <1>4
<1>9. QED
  BY <1>5, <1>6, <1>7, <1>8

LEMMA CommitPlace ==
  ASSUME WalkInOrder, Walking, NEW done \in SUBSET Back, Commit(done)
  PROVE  OnePlace'
<1> USE DEF WalkInOrder
<1>1. /\ pending' = (pending \ Landing(done)) \cup UNION {Children[f] : f \in Landing(done)}
      /\ \A w \in Worker : queue'[w] = queue[w] \cup Gain(done, w)
      /\ \A w \in Worker : flight'[w] = IF w \in done THEN Nothing ELSE flight[w]
      /\ \A w \in Worker : result'[w] = IF w \in done THEN "none" ELSE result[w]
  <2>1. pending' = (pending \ Landing(done)) \cup UNION {Children[f] : f \in Landing(done)}
    BY Zenon DEF Commit, CommitListing, Landing
  <2>2. queue' = [w \in Worker |->
             IF w \notin done THEN queue[w]
             ELSE queue[w] \cup IF result[w] = "ok" THEN Children[flight[w]] ELSE {flight[w]}]
    BY Zenon DEF Commit
  <2>3. QED
    BY <2>1, <2>2 DEF Commit, Gain
<1>2. \A w \in done : w \in Worker /\ flight[w] \in pending /\ flight[w] # Nothing
  BY DEF Back, OnePlace
<1>3. \A w \in Worker : flight[w] \in Landing(done) => w \in done /\ result[w] = "ok"
  BY <1>2 DEF Landing, OnePlace
<1>4. \A w \in Worker : queue'[w] \subseteq pending'
  <2> SUFFICES ASSUME NEW w \in Worker, NEW f \in queue'[w] PROVE f \in pending'
    OBVIOUS
  <2>1. CASE f \in queue[w]
    BY <1>1, <2>1 DEF Landing, Back, OnePlace
  <2>2. CASE f \in Gain(done, w)
    <3>1. CASE w \in done /\ result[w] = "ok"
      BY <1>1, <2>2, <3>1 DEF Gain, Landing
    <3>2. CASE w \in done /\ result[w] # "ok"
      BY <1>1, <1>2, <1>3, <2>2, <3>2 DEF Gain
    <3>3. QED
      BY <2>2, <3>1, <3>2 DEF Gain
  <2>3. QED
    BY <1>1, <2>1, <2>2
<1>5. \A w \in Worker : flight'[w] # Nothing => flight'[w] \in pending'
  BY <1>1, <1>3 DEF OnePlace
<1>6. \A w, v \in Worker : w # v => queue'[w] \cap queue'[v] = {}
  <2>1. /\ \A w \in Worker : Gain(done, w) \cap (UNION {queue[v] : v \in Worker}) = {}
        /\ \A w, v \in Worker : w # v => Gain(done, w) \cap Gain(done, v) = {}
    BY GainPlaces
  <2>2. QED
    BY <1>1, <2>1 DEF OnePlace
<1>7. \A w, v \in Worker : w # v /\ flight'[w] # Nothing => flight'[w] # flight'[v]
  BY <1>1 DEF OnePlace
<1>8. \A w, v \in Worker : flight'[w] \notin queue'[v]
  <2> SUFFICES ASSUME NEW w \in Worker, NEW v \in Worker PROVE flight'[w] \notin queue'[v]
    OBVIOUS
  <2>1. CASE w \in done
    BY <1>1, <2>1, GainPlaces, WalkAssumption DEF TypeOK
  <2>2. CASE w \notin done
    <3>1. flight[w] \notin Gain(done, v)
      BY <2>2, GainPlaces
    <3>2. QED
      BY <1>1, <2>2, <3>1 DEF OnePlace
  <2>3. QED
    BY <2>1, <2>2
<1>9. \A w \in Worker : result'[w] # "none" => flight'[w] # Nothing
  BY <1>1 DEF OnePlace
<1>10. \A f \in pending' : \E w \in Worker : f \in queue'[w] \/ flight'[w] = f
  <2> SUFFICES ASSUME NEW f \in pending'
               PROVE  \E w \in Worker : f \in queue'[w] \/ flight'[w] = f
    OBVIOUS
  <2>1. CASE f \in pending \ Landing(done)
    <3>1. PICK w \in Worker : f \in queue[w] \/ flight[w] = f
      BY <2>1 DEF OnePlace
    <3>2. CASE f \in queue[w]
      BY <1>1, <3>2
    <3>3. CASE flight[w] = f /\ w \notin done
      BY <1>1, <3>3
    <3>4. CASE flight[w] = f /\ w \in done
      <4>1. f \in Gain(done, w)
        BY <2>1, <3>4 DEF Gain, Landing
      <4>2. QED
        BY <1>1, <4>1
    <3>5. QED
      BY <3>1, <3>2, <3>3, <3>4
  <2>2. CASE \E g \in Landing(done) : f \in Children[g]
    <3>1. PICK w \in done : result[w] = "ok" /\ f \in Children[flight[w]]
      BY <2>2 DEF Landing
    <3>2. f \in Gain(done, w) /\ w \in Worker
      BY <3>1 DEF Gain, Back
    <3>3. QED
      BY <1>1, <3>2
  <2>3. QED
    BY <1>1, <2>1, <2>2
<1>11. QED
  BY <1>4, <1>5, <1>6, <1>7, <1>8, <1>9, <1>10 DEF OnePlace

LEMMA PlaceNext ==
  ASSUME WalkInOrder, [Next]_vars
  PROVE  OnePlace'
<1> USE DEF WalkInOrder
<1>1. ASSUME UNCHANGED <<pending, queue, flight, result>>, Walking' => Walking PROVE OnePlace'
  BY <1>1 DEF OnePlace
<1>2. ASSUME \A w \in Worker : queue'[w] = {} /\ flight'[w] = Nothing /\ result'[w] = "none",
             ~Walking'
      PROVE  OnePlace'
  BY <1>2 DEF OnePlace
<1>3. CASE UNCHANGED vars
  BY <1>1, <1>3 DEF vars, Walking
<1>4. ASSUME NEW w \in Worker, Process(w) PROVE OnePlace'
  <2>1. \A v \in Worker : v # w => result'[v] = result[v]
    BY <1>4 DEF Process, TypeOK
  <2>2. QED
    BY <1>4, <2>1 DEF Process, Listing, OnePlace, Walking
<1>5. CASE Lapse
  BY <1>1, <1>5 DEF Lapse, Walking
<1>6. CASE DeadlinePasses
  BY <1>1, <1>6 DEF DeadlinePasses, Walking
<1>7. CASE Seal
  BY <1>1, <1>7 DEF Seal, Walking
<1>8. CASE StartRun
  BY <1>2, <1>8 DEF StartRun, AtRest, Walking
<1>9. CASE CheckRoot
  BY <1>1, <1>9 DEF CheckRoot, Walking
<1>10. CASE Open
  <2>1. /\ pending' \subseteq Folder
        /\ \A w \in Worker : /\ queue'[w] = {f \in pending' : Shard[f] = w}
                             /\ flight'[w] = Nothing /\ result'[w] = "none"
    BY <1>10, WalkAssumption DEF Open, Loaded, AtRest, TypeOK, Walks, Walking
  <2>2. QED
    BY <2>1, WalkAssumption DEF OnePlace
<1>11. ASSUME NEW w \in Worker, NEW v \in Worker, NEW f \in Folder, Dispatch(w, v, f) PROVE OnePlace'
  <2>1. /\ \A u \in Worker : queue'[u] = IF u = v THEN queue[v] \ {f} ELSE queue[u]
        /\ \A u \in Worker : flight'[u] = IF u = w THEN f ELSE flight[u]
        /\ UNCHANGED <<pending, result, pc>> /\ f \in queue[v] /\ flight[w] = Nothing
    BY <1>11 DEF Dispatch, TypeOK, Idle
  <2>2. \A u \in Worker : flight[u] # f
    BY <2>1 DEF OnePlace
  <2>3. \A u \in Worker : u # v => f \notin queue[u]
    BY <2>1 DEF OnePlace
  <2>4. f # Nothing /\ f \in pending
    BY <2>1, WalkAssumption DEF OnePlace
  <2>5. \A u \in Worker : queue'[u] \subseteq pending' /\ (flight'[u] # Nothing => flight'[u] \in pending')
    BY <2>1, <2>4 DEF OnePlace
  <2>6. \A u, x \in Worker : u # x => queue'[u] \cap queue'[x] = {}
    BY <2>1 DEF OnePlace
  <2>7. \A u, x \in Worker : u # x /\ flight'[u] # Nothing => flight'[u] # flight'[x]
    BY <2>1, <2>2 DEF OnePlace
  <2>8. \A u, x \in Worker : flight'[u] \notin queue'[x]
    BY <2>1, <2>2, <2>3 DEF OnePlace
  <2>9. \A u \in Worker : result'[u] # "none" => flight'[u] # Nothing
    BY <2>1, <2>4 DEF OnePlace
  <2>10. \A g \in pending' : \E u \in Worker : g \in queue'[u] \/ flight'[u] = g
    <3> SUFFICES ASSUME NEW g \in pending', g # f
                 PROVE  \E u \in Worker : g \in queue'[u] \/ flight'[u] = g
      BY <2>1
    <3>1. PICK u \in Worker : g \in queue[u] \/ flight[u] = g
      BY <1>11, <2>1 DEF OnePlace, Walking, Dispatch
    <3>2. g # Nothing
      BY <2>1, WalkAssumption DEF TypeOK, Walks
    <3>3. QED
      BY <2>1, <3>1, <3>2
  <2>11. QED
    BY <2>5, <2>6, <2>7, <2>8, <2>9, <2>10 DEF OnePlace
<1>12. CASE Dispatched
  BY <1>1, <1>12 DEF Dispatched, Walking
<1>13. CASE Collect
  BY <1>13, CommitPlace DEF Collect, Walking
<1>14. CASE Drain
  BY <1>14, CommitPlace DEF Drain, Walking
<1>15. CASE Decide
  BY <1>1, <1>15 DEF Decide, Walking
<1>16. CASE Rescue
  BY <1>1, <1>16 DEF Rescue, Walking
<1>17. CASE GiveUp
  BY <1>1, <1>17 DEF GiveUp, Walking
<1>18. CASE Adopt
  BY <1>1, <1>18 DEF Adopt, Walking
<1>19. CASE Finish
  BY <1>2, <1>19 DEF Finish, NoWork, Walking
<1>20. CASE Stop
  BY <1>2, <1>20 DEF Stop, NoWork, Walking
<1>21. CASE Fail
  BY <1>2, <1>21 DEF Fail, NoWork, Walking
<1>22. CASE Crash
  BY <1>2, <1>22 DEF Crash, NoWork, Walking
<1>23. CASE CollectRaises
  BY <1>23, RaisesCommit, CommitPlace
<1>24. QED
  BY <1>3, <1>4, <1>5, <1>6, <1>7, <1>8, <1>9, <1>10, <1>11, <1>12, <1>13, <1>14, <1>15, <1>16,
     <1>17, <1>18, <1>19, <1>20, <1>21, <1>22, <1>23, ProcessEnds, Zenon DEF Next, Main, Calls
-----------------------------------------------------------------------------
\* Tokens.

LEMMA ProcessGood ==
  ASSUME TypeOK, TokensKept, Walking, NEW w \in Worker, Process(w)
  PROVE  /\ valid' >= 1 /\ lapsed' <= valid' /\ (lapsed' >= 1 => lapses' >= 1)
         /\ Good(main)' /\ Good(sealed)' /\ \A v \in Worker : Good(copies[v])'
<1>1. /\ valid' \in {valid, valid + 1} /\ copies' \in [Worker -> Nat]
      /\ valid' # valid => valid <= lapsed
      /\ copies'[w] \in {0, valid'}
      /\ \A v \in Worker : v # w => copies'[v] = copies[v]
  BY ProcessTokens
<1>2. UNCHANGED <<lapsed, main, sealed, lapses>>
  BY DEF Process
<1>3. /\ valid \in Nat /\ lapsed \in Nat /\ main \in Nat /\ sealed \in Nat
      /\ \A v \in Worker : copies[v] \in Nat
  BY DEF TypeOK
<1>4. Good(main)' /\ Good(sealed)'
  BY <1>1, <1>2, <1>3 DEF TokensKept, Good
<1>5. \A v \in Worker : Good(copies[v])'
  <2> SUFFICES ASSUME NEW v \in Worker PROVE Good(copies[v])'
    OBVIOUS
  <2>1. CASE v = w
    BY <1>1, <1>2, <1>3, <2>1 DEF Good, TokensKept
  <2>2. CASE v # w
    BY <1>1, <1>2, <1>3, <2>2 DEF Good, TokensKept
  <2>3. QED
    BY <2>1, <2>2
<1>6. QED
  BY <1>1, <1>2, <1>3, <1>4, <1>5 DEF TokensKept

\* The main session is checked before the walk: it is the newest, or the run ends.
LEMMA RootTokens ==
  ASSUME TypeOK, TokensKept, CheckRoot
  PROVE  /\ valid' \in {valid, valid + 1}
         /\ valid' # valid => valid <= lapsed
         /\ main' \in {0, valid'} /\ (pc' = "open" => main' = valid')
         /\ sealed' \in {sealed, main'}
<1>1. main' = Token(main) /\ valid' = Issued(main) /\ (pc' = "open" => main' # 0)
      /\ sealed' \in {sealed, main'}
  BY DEF CheckRoot
<1>2. main \in Nat /\ valid \in Nat /\ lapsed \in Nat /\ Good(main) /\ valid >= 1 /\ lapsed <= valid
  BY DEF TypeOK, TokensKept
<1> DEFINE m == main
<1>3. /\ Token(m) \in {0, Issued(m)} /\ Issued(m) \in {valid, valid + 1}
      /\ Issued(m) # valid => valid <= lapsed
  BY <1>2, TokenGood
<1>4. QED
  BY <1>1, <1>3

LEMMA TokensNext ==
  ASSUME WalkInOrder, [Next]_vars
  PROVE  TokensKept'
<1> USE DEF WalkInOrder
<1> DEFINE Kept == UNCHANGED <<valid, lapsed, lapses>>
<1>1. ASSUME UNCHANGED <<valid, lapsed, main, copies, sealed, lapses>>,
             Walking' => Walking, pc' = "open" => pc = "open"
      PROVE  TokensKept'
  BY <1>1 DEF TokensKept, Good
<1>2. ASSUME Kept, UNCHANGED sealed, NoWork, main' = 0, pc' = "off" PROVE TokensKept'
  BY <1>2 DEF TokensKept, Good, NoWork, Walking, TypeOK
<1>3. CASE UNCHANGED vars
  BY <1>1, <1>3 DEF vars, Walking
<1>4. ASSUME NEW w \in Worker, Process(w) PROVE TokensKept'
  <2>1. Walking /\ Walking' /\ pc' # "open"
    BY <1>4 DEF Process, Listing, AtRest, Walking
  <2>2. \E v \in Worker : copies'[v] = valid'
    <3>1. PICK v \in Worker : copies[v] = valid
      BY <2>1 DEF TokensKept
    <3>2. CASE copies[w] = valid
      BY <1>4, <2>1, <3>2, ProcessTokens
    <3>3. CASE copies[w] # valid
      BY <1>4, <2>1, <3>1, <3>3, ProcessTokens
    <3>4. QED
      BY <3>2, <3>3
  <2>3. QED
    BY <1>4, <2>1, <2>2, ProcessGood DEF TokensKept
<1>5. CASE Lapse
  BY <1>5 DEF Lapse, TokensKept, Good, Walking, TypeOK
<1>6. CASE DeadlinePasses
  BY <1>1, <1>6 DEF DeadlinePasses, Walking
<1>7. CASE Seal
  BY <1>7 DEF Seal, TokensKept, Good, Walking, TypeOK, AtRest
<1>8. CASE StartRun
  BY <1>8 DEF StartRun, TokensKept, Good, Walking, TypeOK
<1>9. CASE CheckRoot
  <2>1. ~Walking' /\ UNCHANGED <<lapsed, lapses, copies>>
    BY <1>9 DEF CheckRoot, Walking
  <2>2. /\ valid \in Nat /\ lapsed \in Nat /\ sealed \in Nat
        /\ \A w \in Worker : copies[w] = 0
    BY <1>9 DEF TypeOK, AtRest, CheckRoot, Walking
  <2>3. /\ valid' \in {valid, valid + 1} /\ (valid' # valid => valid <= lapsed)
        /\ main' \in {0, valid'} /\ (pc' = "open" => main' = valid')
        /\ sealed' \in {sealed, main'}
    BY <1>9, RootTokens
  <2>4. valid' >= 1 /\ lapsed' <= valid' /\ (lapsed' >= 1 => lapses' >= 1) /\ Good(main)'
    BY <2>1, <2>2, <2>3 DEF TokensKept, Good
  <2>5. Good(sealed)' /\ \A w \in Worker : Good(copies[w])'
    BY <2>1, <2>2, <2>3, <2>4 DEF TokensKept, Good
  <2>6. QED
    BY <2>1, <2>3, <2>4, <2>5 DEF TokensKept
<1>10. CASE Open
  <2>1. Kept /\ UNCHANGED <<main, sealed>> /\ pc' = "dispatch" /\ \A w \in Worker : copies'[w] = valid
    BY <1>10 DEF Open, TokensKept
  <2>2. QED
    BY <2>1, WalkAssumption DEF TokensKept, Good, TypeOK
<1>11. ASSUME NEW w \in Worker, NEW v \in Worker, NEW f \in Folder, Dispatch(w, v, f)
       PROVE  TokensKept'
  BY <1>1, <1>11 DEF Dispatch, Walking
<1>12. CASE Dispatched
  BY <1>1, <1>12 DEF Dispatched, Walking
<1>13. CASE Collect
  BY <1>1, <1>13 DEF Collect, Walking
<1>14. CASE Drain
  BY <1>1, <1>14 DEF Drain, Walking
<1>15. CASE Decide
  BY <1>1, <1>15 DEF Decide, Walking
<1>16. CASE Rescue
  <2>1. Promoted = valid
    BY <1>16, PromotesNewest DEF Rescue, Walking
  <2>2. /\ Kept /\ main' = valid /\ sealed' = valid /\ pc' # "open"
        /\ \A w \in Worker : copies'[w] = valid
    BY <1>16, <2>1 DEF Rescue
  <2>3. QED
    BY <2>2, WalkAssumption DEF TokensKept, Good, TypeOK
<1>17. CASE GiveUp
  BY <1>1, <1>17 DEF GiveUp, Walking
<1>18. CASE Adopt
  <2>1. Promoted = valid
    BY <1>18, PromotesNewest DEF Adopt, Walking
  <2>2. Kept /\ UNCHANGED copies /\ main' = valid /\ sealed' = valid /\ pc' = "join" /\ Walking
    BY <1>18, <2>1 DEF Adopt, Walking
  <2>3. QED
    BY <2>2 DEF TokensKept, Good, TypeOK
<1>19. CASE Finish
  BY <1>2, <1>19, Zenon DEF Finish
<1>20. CASE Stop
  BY <1>2, <1>20, Zenon DEF Stop
<1>21. CASE Fail
  BY <1>2, <1>21, Zenon DEF Fail
<1>22. CASE Crash
  BY <1>2, <1>22, Zenon DEF Crash
<1>23. CASE CollectRaises
  BY <1>1, <1>23, RaisesCommit
<1>24. QED
  BY <1>3, <1>4, <1>5, <1>6, <1>7, <1>8, <1>9, <1>10, <1>11, <1>12, <1>13, <1>14, <1>15, <1>16,
     <1>17, <1>18, <1>19, <1>20, <1>21, <1>22, <1>23, ProcessEnds, Zenon DEF Next, Main, Calls
-----------------------------------------------------------------------------
\* Lapses and rescues.

\* A process that refreshes pays for the copies it leaves behind with the lapse it was due to.
LEMMA LapsesPaid ==
  \A r, l \in Nat : \A b, c, d, e \in {0, 1} :
    r + b + d <= l => /\ (b = 0 => c = 0) => (d = e => r + c + e <= l)
                      /\ d = 1 => (e = 0 => r + c + e <= l)
OBVIOUS

LEMMA ProcessLapses ==
  ASSUME WalkInOrder, NEW w \in Worker, Process(w)
  PROVE  LapsesCounted'
<1>1. Walking /\ UNCHANGED <<lapsed, lapses, rescues>>
  BY DEF WalkInOrder, Process, Listing, AtRest
<1>2. /\ valid' \in {valid, valid + 1}
      /\ valid' # valid => valid <= lapsed
      /\ copies'[w] \in {0, valid'}
      /\ copies'[w] = 0 <=> copies[w] # valid
      /\ \A v \in Worker : v # w => copies'[v] = copies[v]
  BY <1>1, ProcessTokens DEF WalkInOrder
<1>3. valid \in Nat /\ lapsed \in Nat /\ lapsed <= valid /\ rescues \in Nat /\ lapses \in Nat
  BY DEF WalkInOrder, TypeOK, TokensKept
<1>4. Behind \in {0, 1} /\ Behind' \in {0, 1} /\ Due \in {0, 1} /\ Due' \in {0, 1}
  BY Zenon DEF Behind, Due
<1>5. rescues + Behind + Due <= lapses
  BY <1>1 DEF WalkInOrder, LapsesCounted
<1>6. \/ (Behind = 0 => Behind' = 0) /\ Due = Due'
      \/ Due = 1 /\ Due' = 0
  <2>1. CASE valid' = valid
    <3>1. (\A v \in Worker : copies[v] = valid) => \A v \in Worker : copies'[v] = valid'
      BY <1>2, <1>3, <2>1
    <3>2. Behind = 0 => \A v \in Worker : copies[v] = valid
      BY DEF Behind
    <3>3. (\A v \in Worker : copies'[v] = valid') => Behind' = 0
      BY DEF Behind
    <3>4. Due = Due'
      BY <1>1, <2>1, Zenon DEF Due
    <3>5. QED
      BY <3>1, <3>2, <3>3, <3>4, Zenon
  <2>2. CASE valid' = valid + 1 /\ valid <= lapsed
    <3>1. Due = 1
      BY <1>3, <2>2 DEF Due
    <3>2. Due' = 0
      BY <1>1, <1>3, <2>2 DEF Due
    <3>3. QED
      BY <3>1, <3>2, Zenon
  <2>3. QED
    BY <1>2, <2>1, <2>2
<1>7. rescues + Behind' + Due' <= lapses
  <2>1. rescues \in Nat /\ lapses \in Nat
    BY <1>3
  <2>2. CASE (Behind = 0 => Behind' = 0) /\ Due = Due'
    BY <1>4, <1>5, <2>1, <2>2, LapsesPaid, Zenon
  <2>3. CASE Due = 1 /\ Due' = 0
    BY <1>4, <1>5, <2>1, <2>3, LapsesPaid, Zenon
  <2>4. QED
    BY <1>6, <2>2, <2>3, Zenon
<1>8. QED
  BY <1>1, <1>7, Zenon DEF LapsesCounted

LEMMA LapsesNext ==
  ASSUME WalkInOrder, [Next]_vars
  PROVE  LapsesCounted'
<1> USE DEF WalkInOrder
<1>1. ASSUME UNCHANGED <<valid, lapsed, copies, rescues, lapses>>, Walking' => Walking
      PROVE  LapsesCounted'
  BY <1>1 DEF LapsesCounted, Behind, Due
<1>2. ASSUME ~Walking' PROVE LapsesCounted'
  BY <1>2 DEF LapsesCounted
<1>3. CASE UNCHANGED vars
  BY <1>1, <1>3 DEF vars, Walking
<1>4. ASSUME NEW w \in Worker, Process(w) PROVE LapsesCounted'
  <2>1. WalkInOrder
    OBVIOUS
  <2> HIDE DEF WalkInOrder
  <2>2. QED
    BY <1>4, <2>1, ProcessLapses
<1>5. CASE Lapse
  <2>1. Due = 0 /\ Due' = 1 /\ Behind' = Behind /\ Behind \in {0, 1}
    BY <1>5 DEF Lapse, Due, Behind, TypeOK
  <2>2. UNCHANGED rescues /\ lapses' = lapses + 1 /\ rescues \in Nat /\ lapses \in Nat
        /\ (Walking' => Walking)
    BY <1>5 DEF Lapse, TypeOK, Walking
  <2>3. QED
    BY <2>1, <2>2 DEF LapsesCounted
<1>6. CASE DeadlinePasses
  BY <1>1, <1>6 DEF DeadlinePasses, Walking
<1>7. CASE Seal
  BY <1>2, <1>7 DEF Seal, Walking
<1>8. CASE StartRun
  BY <1>2, <1>8 DEF StartRun, Walking
<1>9. CASE CheckRoot
  BY <1>2, <1>9 DEF CheckRoot, Walking
<1>10. CASE Open
  <2>1. /\ UNCHANGED <<valid, lapsed, rescues, lapses>> /\ rescues = 0
        /\ \A w \in Worker : copies'[w] = valid
    BY <1>10 DEF Open, TokensKept, AtRest, Walking
  <2>2. Behind' = 0 /\ Due' = Due
    BY <2>1 DEF Behind, Due
  <2>3. Due <= lapses /\ Due \in {0, 1}
    BY DEF TokensKept, TypeOK, Due
  <2>4. QED
    BY <2>1, <2>2, <2>3 DEF LapsesCounted
<1>11. ASSUME NEW w \in Worker, NEW v \in Worker, NEW f \in Folder, Dispatch(w, v, f)
       PROVE  LapsesCounted'
  BY <1>1, <1>11 DEF Dispatch, Walking
<1>12. CASE Dispatched
  BY <1>1, <1>12 DEF Dispatched, Walking
<1>13. CASE Collect
  BY <1>1, <1>13 DEF Collect, Walking
<1>14. CASE Drain
  BY <1>1, <1>14 DEF Drain, Walking
<1>15. CASE Decide
  BY <1>1, <1>15 DEF Decide, Walking
<1>16. CASE Rescue
  <2>1. Walking
    BY <1>16 DEF Rescue, Walking
  <2>2. PICK w \in Worker : copies[w] = 0
    BY <1>16 DEF Rescue, OutcomeExplained
  <2>3. Behind = 1
    BY <2>2 DEF Behind, TokensKept, TypeOK
  <2>4. Promoted = valid
    BY <2>1, PromotesNewest
  <2>5. Behind' = 0 /\ Due' = Due /\ Due \in {0, 1} /\ lapses' = lapses /\ rescues' = rescues + 1
    BY <1>16, <2>4 DEF Rescue, Behind, Due
  <2>6. QED
    BY <2>1, <2>3, <2>5 DEF LapsesCounted, TypeOK
<1>17. CASE GiveUp
  BY <1>1, <1>17 DEF GiveUp, Walking
<1>18. CASE Adopt
  BY <1>1, <1>18 DEF Adopt, Walking
<1>19. CASE Finish
  BY <1>2, <1>19 DEF Finish, Walking
<1>20. CASE Stop
  BY <1>2, <1>20 DEF Stop, Walking
<1>21. CASE Fail
  BY <1>2, <1>21 DEF Fail, Walking
<1>22. CASE Crash
  BY <1>2, <1>22 DEF Crash, Walking
<1>23. CASE CollectRaises
  BY <1>1, <1>23, RaisesCommit
<1>24. QED
  BY <1>3, <1>4, <1>5, <1>6, <1>7, <1>8, <1>9, <1>10, <1>11, <1>12, <1>13, <1>14, <1>15, <1>16,
     <1>17, <1>18, <1>19, <1>20, <1>21, <1>22, <1>23, ProcessEnds, Zenon DEF Next, Main, Calls
-----------------------------------------------------------------------------
\* Outcomes, and the walk's end.

\* What was collected names its reason.
LEMMA CollectedExplained ==
  ASSUME TypeOK, OutcomeExplained
  PROVE  /\ Collected(Back) \in {"ok", "auth", "failed"}
         /\ Collected(Back) = "auth" => \E w \in Worker : copies[w] = 0
         /\ Collected(Back) = "failed" => errors > 0
<1>1. CASE \E w \in Back : result[w] = "error"
  <2>1. Collected(Back) = "failed"
    BY <1>1, Zenon DEF Collected
  <2>2. errors > 0
    BY <1>1 DEF OutcomeExplained, Back
  <2>3. QED
    BY <2>1, <2>2
<1>2. CASE ~\E w \in Back : result[w] = "error"
  <2>1. CASE \A w \in Back : result[w] = "ok"
    <3>1. Collected(Back) = "ok"
      BY <1>2, <2>1, Zenon DEF Collected
    <3>2. QED
      BY <3>1
  <2>2. CASE ~\A w \in Back : result[w] = "ok"
    <3>1. Collected(Back) = "auth"
      BY <1>2, <2>2, Zenon DEF Collected
    <3>2. PICK w \in Back : result[w] # "ok"
      BY <2>2
    <3>3. w \in Worker /\ result[w] = "auth"
      BY <1>2, <3>2 DEF Back, TypeOK
    <3>4. QED
      BY <3>1, <3>3 DEF OutcomeExplained
  <2>3. QED
    BY <2>1, <2>2
<1>3. QED
  BY <1>1, <1>2

LEMMA OutcomeNext ==
  ASSUME WalkInOrder, [Next]_vars
  PROVE  OutcomeExplained'
<1> USE DEF WalkInOrder
<1> DEFINE Same == UNCHANGED <<copies, flight, result, outcome, rescues, lapses, errors>>
<1>1. ASSUME Same, pc' = pc \/ pc' \notin {"decide", "dispatch", "fail"} PROVE OutcomeExplained'
  BY <1>1 DEF OutcomeExplained, Idle
<1>2. ASSUME NoWork, pc' = "off" PROVE OutcomeExplained'
  BY <1>2 DEF NoWork, OutcomeExplained
<1>3. CASE UNCHANGED vars
  BY <1>1, <1>3 DEF vars
<1>4. ASSUME NEW w \in Worker, Process(w) PROVE OutcomeExplained'
  <2>1. Walking /\ flight[w] # Nothing /\ UNCHANGED <<outcome, rescues, flight, lapses, pc>>
    BY <1>4 DEF Process, Listing, AtRest
  <2>2. /\ copies' \in [Worker -> Nat]
        /\ copies'[w] = 0 <=> copies[w] # valid
        /\ \A v \in Worker : v # w => copies'[v] = copies[v]
    BY <1>4, <2>1, ProcessTokens
  <2>3. /\ result'[w] \in {"ok", "auth", "error"}
        /\ result'[w] = "auth" => copies'[w] = 0
        /\ result'[w] = "error" => errors' > 0
        /\ \A v \in Worker : v # w => result'[v] = result[v]
        /\ errors > 0 => errors' > 0
    BY <1>4 DEF Process, TypeOK
  <2>4. \A v \in Worker : result'[v] = "auth" => copies'[v] = 0
    BY <2>2, <2>3 DEF OutcomeExplained
  <2>5. \A v \in Worker : result'[v] = "error" => errors' > 0
    BY <2>3 DEF OutcomeExplained
  <2>6. outcome' = "auth" => \E v \in Worker : copies'[v] = 0
    <3>1. \A v \in Worker : copies[v] = 0 => copies'[v] = 0
      BY <2>2 DEF TokensKept, TypeOK
    <3>2. QED
      BY <2>1, <3>1 DEF OutcomeExplained
  <2>7. w \notin Idle /\ Idle' = Idle
    BY <2>1 DEF Idle
  <2>8. QED
    BY <2>1, <2>3, <2>4, <2>5, <2>6, <2>7 DEF OutcomeExplained
<1>5. CASE Lapse
  <2>1. UNCHANGED <<copies, flight, result, outcome, errors, pc>> /\ lapses' = lapses + 1
    BY <1>5 DEF Lapse
  <2>2. lapses > Rescues => lapses' > Rescues
    BY <2>1, WalkAssumption DEF TypeOK
  <2>3. QED
    BY <2>1, <2>2 DEF OutcomeExplained, Idle
<1>6. CASE DeadlinePasses
  BY <1>1, <1>6 DEF DeadlinePasses
<1>7. CASE Seal
  BY <1>1, <1>7 DEF Seal
<1>8. CASE StartRun
  BY <1>1, <1>8 DEF StartRun
<1>9. CASE CheckRoot
  BY <1>1, <1>9 DEF CheckRoot
<1>10. CASE Open
  <2>1. /\ \A w \in Worker : result'[w] = "none"
        /\ outcome' = "ok" /\ pc' = "dispatch"
    BY <1>10 DEF Open, AtRest, Walking
  <2>2. QED
    BY <2>1 DEF OutcomeExplained
<1>11. ASSUME NEW w \in Worker, NEW v \in Worker, NEW f \in Folder, Dispatch(w, v, f)
       PROVE  OutcomeExplained'
  BY <1>11 DEF Dispatch, OutcomeExplained
<1>12. CASE Dispatched
  BY <1>1, <1>12 DEF Dispatched
<1>13. CASE Collect
  <2>1. /\ UNCHANGED <<copies, rescues, lapses, errors>>
        /\ outcome' = Collected(Back) /\ pc' \in {"drain", "decide"}
        /\ pc' = "decide" => outcome' = "ok"
    BY <1>13, Zenon DEF Collect
  <2>2. \A w \in Worker : result'[w] \in {"none", result[w]}
    BY <1>13 DEF Collect, Commit
  <2>3. \A w \in Worker : /\ result'[w] = "auth" => copies'[w] = 0
                          /\ result'[w] = "error" => errors' > 0
    BY <2>1, <2>2 DEF OutcomeExplained
  <2>4. QED
    BY <2>1, <2>3, CollectedExplained DEF OutcomeExplained
<1>14. CASE Drain
  <2>1. /\ UNCHANGED <<copies, rescues, lapses, errors>>
        /\ outcome' \in {outcome, Collected(Back)} /\ pc' = "decide"
    BY <1>14, Zenon DEF Drain
  <2>2. \A w \in Worker : result'[w] = "none" /\ flight'[w] = Nothing
    BY <1>14 DEF Drain, Commit, Back, Listing
  <2>3. Idle' = Worker
    BY <2>2 DEF Idle
  <2>4. (outcome' = "auth" => \E w \in Worker : copies'[w] = 0)
        /\ (outcome' = "failed" => errors' > 0)
    BY <2>1, CollectedExplained DEF OutcomeExplained
  <2>5. QED
    BY <2>1, <2>2, <2>3, <2>4 DEF OutcomeExplained
<1>15. CASE Decide
  BY <1>15 DEF Decide, OutcomeExplained
<1>16. CASE Rescue
  <2>1. \A w \in Worker : result'[w] = "none"
    BY <1>16 DEF Rescue, OutcomeExplained, OnePlace, Idle
  <2>2. outcome' = "ok" /\ pc' \in {"adopt", "dispatch"}
    BY <1>16, Zenon DEF Rescue
  <2>3. QED
    BY <2>1, <2>2 DEF OutcomeExplained
<1>17. CASE GiveUp
  <2>1. Same /\ pc' = "fail" /\ Walking
    BY <1>17 DEF GiveUp, Walking
  <2>2. errors > 0 \/ lapses > Rescues
    <3>1. CASE outcome = "failed"
      BY <3>1 DEF OutcomeExplained
    <3>2. CASE outcome = "auth" /\ rescues >= Rescues
      <4>1. PICK w \in Worker : copies[w] = 0
        BY <3>2 DEF OutcomeExplained
      <4>2. Behind = 1
        BY <4>1 DEF Behind, TokensKept, TypeOK
      <4>3. Due \in {0, 1}
        BY Zenon DEF Due
      <4>4. QED
        BY <2>1, <3>2, <4>2, <4>3, WalkAssumption DEF LapsesCounted, TypeOK
    <3>3. QED
      BY <1>17, <3>1, <3>2 DEF GiveUp
  <2>3. QED
    BY <2>1, <2>2 DEF OutcomeExplained
<1>18. CASE Adopt
  BY <1>1, <1>18 DEF Adopt
<1>19. CASE Finish
  BY <1>2, <1>19, Zenon DEF Finish
<1>20. CASE Stop
  BY <1>2, <1>20, Zenon DEF Stop
<1>21. CASE Fail
  BY <1>2, <1>21, Zenon DEF Fail
<1>22. CASE Crash
  BY <1>2, <1>22, Zenon DEF Crash
<1>23. CASE CollectRaises
  <2>1. PICK done \in SUBSET Back : Commit(done)
    BY <1>23, RaisesCommit, Zenon
  <2>2. /\ pc' = "fail" /\ errors' = errors + 1 /\ errors \in Nat
        /\ UNCHANGED <<copies, rescues, outcome, lapses>>
    BY <1>23, RaisesCommit DEF TypeOK
  <2>3. \A w \in Worker : result'[w] \in {"none", result[w]}
    BY <2>1 DEF Commit
  <2>4. QED
    BY <2>2, <2>3 DEF OutcomeExplained
<1>24. QED
  BY <1>3, <1>4, <1>5, <1>6, <1>7, <1>8, <1>9, <1>10, <1>11, <1>12, <1>13, <1>14, <1>15, <1>16,
     <1>17, <1>18, <1>19, <1>20, <1>21, <1>22, <1>23, ProcessEnds, Zenon DEF Next, Main, Calls

LEMMA EndsNext ==
  ASSUME WalkInOrder, [Next]_vars
  PROVE  EndsKept'
<1> USE DEF WalkInOrder
<1>1. ASSUME pc' \notin {"adopt", "join"} PROVE EndsKept'
  BY <1>1 DEF EndsKept
<1>2. ASSUME UNCHANGED <<flight, stopped, sealed, valid, pc>> PROVE EndsKept'
  BY <1>2 DEF EndsKept, Idle
<1>3. CASE UNCHANGED vars
  BY <1>2, <1>3 DEF vars
<1>4. ASSUME NEW w \in Worker, Process(w) PROVE EndsKept'
  <2>1. w \notin Idle /\ UNCHANGED <<stopped, pc>>
    BY <1>4 DEF Process, Listing, Idle
  <2>2. QED
    BY <2>1 DEF EndsKept
<1>5. CASE Lapse
  BY <1>2, <1>5 DEF Lapse
<1>6. CASE DeadlinePasses
  BY <1>2, <1>6 DEF DeadlinePasses
<1>7. CASE Seal
  BY <1>1, <1>7 DEF Seal
<1>8. CASE StartRun
  BY <1>1, <1>8 DEF StartRun
<1>9. CASE CheckRoot
  BY <1>1, <1>9 DEF CheckRoot
<1>10. CASE Open
  BY <1>1, <1>10 DEF Open
<1>11. ASSUME NEW w \in Worker, NEW v \in Worker, NEW f \in Folder, Dispatch(w, v, f) PROVE EndsKept'
  BY <1>1, <1>11 DEF Dispatch
<1>12. CASE Dispatched
  BY <1>12 DEF Dispatched, EndsKept, Idle
<1>13. CASE Collect
  BY <1>1, <1>13 DEF Collect
<1>14. CASE Drain
  BY <1>1, <1>14 DEF Drain
<1>15. CASE Decide
  BY <1>15 DEF Decide, EndsKept
<1>16. CASE Rescue
  BY <1>16 DEF Rescue, EndsKept
<1>17. CASE GiveUp
  BY <1>1, <1>17 DEF GiveUp
<1>18. CASE Adopt
  <2>1. Promoted = valid
    BY <1>18, PromotesNewest DEF Adopt, Walking
  <2>2. QED
    BY <1>18, <2>1 DEF Adopt, EndsKept, Idle
<1>19. CASE Finish
  BY <1>1, <1>19 DEF Finish
<1>20. CASE Stop
  BY <1>1, <1>20 DEF Stop
<1>21. CASE Fail
  BY <1>1, <1>21 DEF Fail
<1>22. CASE Crash
  BY <1>1, <1>22 DEF Crash
<1>23. CASE CollectRaises
  BY <1>1, <1>23, RaisesCommit
<1>24. QED
  BY <1>3, <1>4, <1>5, <1>6, <1>7, <1>8, <1>9, <1>10, <1>11, <1>12, <1>13, <1>14, <1>15, <1>16,
     <1>17, <1>18, <1>19, <1>20, <1>21, <1>22, <1>23, ProcessEnds, Zenon DEF Next, Main, Calls
-----------------------------------------------------------------------------
\* The theorems.

LEMMA WalkInOrderNext == WalkInOrder /\ [Next]_vars => WalkInOrder'
BY TypeNext, RestNext, TreeNext, PlaceNext, TokensNext, LapsesNext, OutcomeNext, EndsNext, Zenon
   DEF WalkInOrder

\* The inductive invariant: types, folders, tokens, lapses and outcomes together.
THEOREM WalkKept == Spec => []WalkInOrder
BY WalkInit, WalkInOrderNext, PTL DEF Spec

\* The walk, its session, its workers and the bucket keep their types.
THEOREM WalkTypes == Spec => []TypeOK
<1>1. WalkInOrder => TypeOK
  BY DEF WalkInOrder
<1>2. QED
  BY <1>1, WalkKept, PTL

LEMMA OneOrNone ==
  ASSUME NEW S, \A x, y \in S : x = y
  PROVE  Cardinality(S) = IF S # {} THEN 1 ELSE 0
<1>1. CASE S = {}
  BY <1>1, FS_EmptySet
<1>2. ASSUME NEW x \in S PROVE Cardinality(S) = 1
  <2>1. S = {x}
    OBVIOUS
  <2>2. QED
    BY <2>1, FS_Singleton
<1>3. QED
  BY <1>1, <1>2

\* No folder is lost and none is listed twice at once: each pending folder is with one
\* worker, in its queue or under way, and no other folder is, so the closing check of
\* _close_snapshot cannot raise.
THEOREM FoldersKept == Spec => []FolderInOnePlace
<1>1. WalkInOrder => FolderInOnePlace
  <2> SUFFICES ASSUME WalkInOrder, Walking, NEW f \in Folder
               PROVE  Cardinality({w \in Worker : f \in queue[w]})
                        + Cardinality({w \in Worker : flight[w] = f})
                        = IF f \in pending THEN 1 ELSE 0
    BY DEF FolderInOnePlace
  <2> DEFINE Queued == {w \in Worker : f \in queue[w]}
             Flown == {w \in Worker : flight[w] = f}
  <2>1. OnePlace /\ f # Nothing
    BY WalkAssumption DEF WalkInOrder
  <2>2. /\ \A w, v \in Queued : w = v
        /\ \A w, v \in Flown : w = v
        /\ Queued = {} \/ Flown = {}
        /\ f \in pending <=> Queued # {} \/ Flown # {}
    BY <2>1 DEF OnePlace
  <2> HIDE DEF Queued, Flown
  <2>3. Cardinality(Queued) = IF Queued # {} THEN 1 ELSE 0
    BY <2>2, OneOrNone
  <2>4. Cardinality(Flown) = IF Flown # {} THEN 1 ELSE 0
    BY <2>2, OneOrNone
  <2>5. Cardinality(Queued) + Cardinality(Flown) = IF f \in pending THEN 1 ELSE 0
    BY <2>2, <2>3, <2>4
  <2>6. QED
    BY <2>5 DEF Queued, Flown
<1>2. QED
  BY <1>1, WalkKept, PTL

\* A snapshot that says complete is of the whole tree, after any crash and any resume.
THEOREM CompleteIsWhole == Spec => []WholeTree
<1>1. WalkInOrder => WholeTree
  BY DEF WalkInOrder, TreeKnown, KnowsTree, WholeTree
<1>2. QED
  BY <1>1, WalkKept, PTL

\* However many workers hold a lapsed token when it is refreshed, one rescue per lapse is
\* enough: a walk is given up only for a listing that failed or for more lapses than
\* _Walk.RESCUES.
THEOREM OneRescuePerLapse == Spec => []LapsesAreRescued
<1>1. WalkInOrder => LapsesAreRescued
  <2> SUFFICES ASSUME WalkInOrder PROVE LapsesAreRescued
    OBVIOUS
  <2>1. rescues <= lapses
    <3>1. CASE Walking
      <4>1. rescues + Behind + Due <= lapses
        BY <3>1 DEF WalkInOrder, LapsesCounted
      <4>2. Behind \in Nat /\ Due \in Nat
        BY DEF Behind, Due
      <4>3. rescues \in Nat /\ lapses \in Nat
        BY DEF WalkInOrder, TypeOK
      <4>4. \A r, b, d, l \in Nat : r + b + d <= l => r <= l
        OBVIOUS
      <4>5. QED
        BY <4>1, <4>2, <4>3, <4>4, Zenon
    <3>2. CASE ~Walking
      BY <3>2 DEF WalkInOrder, AtRest, TypeOK
    <3>3. QED
      BY <3>1, <3>2
  <2>2. QED
    BY <2>1 DEF WalkInOrder, OutcomeExplained, LapsesAreRescued
<1>2. QED
  BY <1>1, WalkKept, PTL

\* The walk that lists the last folder leaves the newest session in the bucket, whichever
\* worker refreshed it and however often.
THEOREM CompletedKeepsSession == Spec => CompletionKeepsSession
<1>1. WalkInOrder /\ [Next]_vars => [pc = "join" /\ status' = "complete" => sealed' = valid']_vars
  <2> SUFFICES ASSUME WalkInOrder, Next, pc = "join", status' = "complete"
               PROVE  sealed' = valid'
    BY Zenon
  <2>1. status = "running" /\ status' # status
    BY DEF WalkInOrder, TreeKnown, Walking
  <2>2. ASSUME NEW w \in Worker, Process(w) PROVE FALSE
    BY <2>1, <2>2 DEF Process
  <2>3. Finish \/ Open \/ StartRun \/ ~(pc = "join")
    BY <2>1, <2>2, ProcessEnds, Zenon
       DEF Next, Main, Calls, Lapse, DeadlinePasses, Seal, CheckRoot, Dispatch, Dispatched,
           Collect, Drain, Decide, Rescue, GiveUp, Adopt, Stop, Fail, Crash, CollectRaises
  <2>4. Finish
    BY <2>3 DEF Open, StartRun
  <2>5. sealed = valid /\ UNCHANGED <<sealed, valid>>
    BY <2>4 DEF Finish, WalkInOrder, EndsKept
  <2>6. QED
    BY <2>5
<1>2. QED
  BY <1>1, WalkKept, PTL DEF Spec, CompletionKeepsSession
-----------------------------------------------------------------------------
\* The refinement.

LEMMA CommitLists ==
  ASSUME WalkInOrder, Walking, NEW done \in SUBSET Back, Commit(done), UNCHANGED <<status, saved>>
  PROVE  [Queue!Next]_(Queue!vars)
<1>1. /\ pending' = (pending \ Landing(done)) \cup UNION {Children[f] : f \in Landing(done)}
      /\ listed' = listed \cup Landing(done)
  BY Zenon DEF Commit, CommitListing, Landing
<1>2. Landing(done) \subseteq pending /\ Landing(done) \in SUBSET Folder /\ status = "running"
  BY LandingPending DEF WalkInOrder, TreeKnown
<1>3. CASE Landing(done) = {}
  <2>1. pending' = pending /\ listed' = listed
    BY <1>1, <1>3
  <2>2. QED
    BY <2>1 DEF Queue!vars
<1>4. CASE Landing(done) # {}
  <2>1. Queue!List(Landing(done))
    BY <1>1, <1>2, <1>4, Zenon DEF Queue!List
  <2>2. QED
    BY <1>2, <2>1, Zenon DEF Queue!Next
<1>5. QED
  BY <1>3, <1>4

\* The workers, their queues, the tokens and the failures implement one queue of folders:
\* every step begins, lists, completes, saves or forgets there, or changes nothing.
THEOREM WalkIsOneQueue == Spec => WalksOneQueue
<1>1. Init => Queue!Init
  BY DEF Init, Queue!Init, Queue!walk
<1>2. WalkInOrder /\ [Next]_vars => [Queue!Next]_(Queue!vars)
  <2> SUFFICES ASSUME WalkInOrder, [Next]_vars PROVE [Queue!Next]_(Queue!vars)
    OBVIOUS
  <2>1. ASSUME UNCHANGED <<folders, saved>> PROVE [Queue!Next]_(Queue!vars)
    BY <2>1 DEF Queue!vars
  <2>2. CASE UNCHANGED vars
    BY <2>1, <2>2 DEF vars
  <2>3. ASSUME NEW w \in Worker, Process(w) PROVE [Queue!Next]_(Queue!vars)
    BY <2>1, <2>3 DEF Process
  <2>4. CASE StartRun
    <3>1. Queue!Forget
      BY <2>4 DEF StartRun, Queue!Forget
    <3>2. QED
      BY <3>1, Zenon DEF Queue!Next
  <2>5. CASE Open
    <3>1. CASE status = "running"
      BY <2>5, <3>1 DEF Open, Queue!vars
    <3>2. CASE status # "running"
      <4>1. Queue!Begin
        BY <2>5, <3>2 DEF Open, Queue!Begin
      <4>2. QED
        BY <4>1, Zenon DEF Queue!Next
    <3>3. QED
      BY <3>1, <3>2
  <2>6. ASSUME NEW w \in Worker, NEW v \in Worker, NEW f \in Folder, Dispatch(w, v, f)
        PROVE  [Queue!Next]_(Queue!vars)
    BY <2>1, <2>6 DEF Dispatch
  <2>7. CASE Collect
    BY <2>7, CommitLists DEF Collect, Walking
  <2>8. CASE Drain
    BY <2>8, CommitLists DEF Drain, Walking
  <2>9. CASE Finish
    <3>1. status = "running"
      BY <2>9 DEF Finish, WalkInOrder, TreeKnown, Walking
    <3>2. Queue!Complete
      BY <2>9, <3>1 DEF Finish, Queue!Complete, Queue!walk
    <3>3. QED
      BY <3>2, Zenon DEF Queue!Next
  <2>10. CASE Stop \/ Fail
    <3>1. Queue!Save
      BY <2>10 DEF Stop, Fail, Queue!Save, Queue!walk
    <3>2. QED
      BY <3>1, Zenon DEF Queue!Next
  <2>11. CASE \/ Lapse \/ DeadlinePasses \/ Seal \/ CheckRoot \/ Dispatched \/ Decide
              \/ Rescue \/ GiveUp \/ Adopt \/ Crash
    BY <2>1, <2>11, Zenon
       DEF Lapse, DeadlinePasses, Seal, CheckRoot, Dispatched, Decide, Rescue, GiveUp, Adopt,
           Crash
  <2>12. CASE CollectRaises
    BY <2>12, RaisesCommit, CommitLists
  <2>13. QED
    BY <2>2, <2>3, <2>4, <2>5, <2>6, <2>7, <2>8, <2>9, <2>10, <2>11, <2>12, ProcessEnds, Zenon
       DEF Next, Main, Calls
<1>3. QED
  BY <1>1, <1>2, WalkKept, PTL DEF Spec, WalksOneQueue, Queue!Spec
=============================================================================
