----------------------------- MODULE TreeProofs -----------------------------
(***************************************************************************)
(* Proofs about ProtonTree, for any tree of entries, any names and any     *)
(* casings of them: which files leave Proton, and which nodes there are.   *)
(***************************************************************************)
EXTENDS TreeProperties, TLAPS, FiniteSetTheorems, SequenceTheorems

LEMMA Tree ==
  ASSUME NEW in \in SUBSET Entry, \A x \in Entry : Up[x] \in in \cup {Top} => x \in in
  PROVE  in = Entry
BY TreeAssumption

LEMMA UpIs == \A x \in Entry : Up[x] # Top => Up[x] \in Dir /\ Up[x] \in Entry
BY TreeAssumption DEF Entry

LEMMA UidFinite == IsFiniteSet(Uid)
<1>1. Fresh \in Int /\ 1 \in Int
  BY TreeAssumption
<1>2. QED
  BY <1>1, FS_Interval DEF Uid
-----------------------------------------------------------------------------
\* Recursion from the top of the tree down: the relations that hold what it gives have a
\* least one, and that is a function.
Closed(R, V, base, step) ==
  \A x \in Entry :
    IF Up[x] = Top THEN <<x, base[x]>> \in R
    ELSE \A v \in V : <<Up[x], v>> \in R => <<x, step[x][v]>> \in R

Recurses(f, base, step) ==
  \A x \in Entry : f[x] = IF Up[x] = Top THEN base[x] ELSE step[x][f[Up[x]]]

LEMMA TreeRecursion ==
  ASSUME NEW V, NEW base \in [Entry -> V], NEW step \in [Entry -> [V -> V]]
  PROVE  \E f \in [Entry -> V] : Recurses(f, base, step)
<1> DEFINE R == {r \in Entry \X V :
                   \A S \in SUBSET (Entry \X V) : Closed(S, V, base, step) => r \in S}
           From(x, v) == IF Up[x] = Top THEN v = base[x]
                         ELSE \E w \in V : <<Up[x], w>> \in R /\ v = step[x][w]
<1>1. Closed(R, V, base, step)
  <2>1. ASSUME NEW x \in Entry, Up[x] = Top PROVE <<x, base[x]>> \in R
    BY <2>1 DEF Closed
  <2>2. ASSUME NEW x \in Entry, Up[x] # Top, NEW v \in V, <<Up[x], v>> \in R
        PROVE  <<x, step[x][v]>> \in R
    <3>1. <<x, step[x][v]>> \in Entry \X V
      OBVIOUS
    <3>2. ASSUME NEW S \in SUBSET (Entry \X V), Closed(S, V, base, step)
          PROVE  <<x, step[x][v]>> \in S
      BY <2>2, <3>2 DEF Closed
    <3>3. QED
      BY <3>1, <3>2
  <2> HIDE DEF R
  <2>3. QED
    BY <2>1, <2>2 DEF Closed
<1>2. \A x \in Entry, v \in V : <<x, v>> \in R => From(x, v)
  <2> DEFINE S == {r \in R : From(r[1], r[2])}
  <2>1. Closed(S, V, base, step)
    <3>1. ASSUME NEW x \in Entry, Up[x] = Top PROVE <<x, base[x]>> \in S
      <4>1. <<x, base[x]>> \in R
        BY <1>1, <3>1 DEF Closed
      <4> HIDE DEF R
      <4>2. QED
        BY <3>1, <4>1
    <3>2. ASSUME NEW x \in Entry, Up[x] # Top, NEW v \in V, <<Up[x], v>> \in S
          PROVE  <<x, step[x][v]>> \in S
      <4>1. <<Up[x], v>> \in R
        BY <3>2
      <4>2. <<x, step[x][v]>> \in R
        BY <1>1, <3>2, <4>1 DEF Closed
      <4> HIDE DEF R
      <4>3. QED
        BY <3>2, <4>1, <4>2
    <3> HIDE DEF S
    <3>3. QED
      BY <3>1, <3>2 DEF Closed
  <2>2. S \in SUBSET (Entry \X V)
    OBVIOUS
  <2>3. ASSUME NEW x \in Entry, NEW v \in V, <<x, v>> \in R PROVE From(x, v)
    <3>1. <<x, v>> \in S
      <4> HIDE DEF S
      <4>1. QED
        BY <2>1, <2>2, <2>3
    <3>2. From(<<x, v>>[1], <<x, v>>[2])
      BY <3>1
    <3> HIDE DEF R, S
    <3>3. QED
      BY <3>2
  <2>4. QED
    BY <2>3
<1> DEFINE in == {x \in Entry : \E v \in V : /\ <<x, v>> \in R
                                           /\ \A w \in V : <<x, w>> \in R => w = v}
<1> HIDE DEF R
<1>3. in = Entry
  <2>1. ASSUME NEW x \in Entry, Up[x] = Top PROVE x \in in
    <3>1. base[x] \in V /\ <<x, base[x]>> \in R
      BY <1>1, <2>1 DEF Closed
    <3>2. \A w \in V : <<x, w>> \in R => w = base[x]
      BY <1>2, <2>1
    <3>3. QED
      BY <3>1, <3>2
  <2>2. ASSUME NEW x \in Entry, Up[x] # Top, Up[x] \in in PROVE x \in in
    <3>1. PICK v \in V : <<Up[x], v>> \in R /\ \A w \in V : <<Up[x], w>> \in R => w = v
      BY <2>2
    <3>2. step[x][v] \in V /\ <<x, step[x][v]>> \in R
      BY <1>1, <2>2, <3>1 DEF Closed
    <3>3. ASSUME NEW w \in V, <<x, w>> \in R PROVE w = step[x][v]
      <4>1. From(x, w)
        BY <1>2, <3>3
      <4>2. QED
        BY <2>2, <3>1, <4>1
    <3>4. QED
      BY <3>2, <3>3
  <2> HIDE DEF in
  <2>3. in \in SUBSET Entry
    BY DEF in
  <2>4. QED
    BY <2>1, <2>2, <2>3, Tree
<1> DEFINE f == [x \in Entry |-> CHOOSE v \in V : <<x, v>> \in R]
<1>4. \A x \in Entry : f[x] \in V /\ <<x, f[x]>> \in R /\ \A w \in V : <<x, w>> \in R => w = f[x]
  BY <1>3
<1>5. f \in [Entry -> V]
  BY <1>4
<1>6. ASSUME NEW x \in Entry
      PROVE  f[x] = IF Up[x] = Top THEN base[x] ELSE step[x][f[Up[x]]]
  <2> HIDE DEF f
  <2>1. CASE Up[x] = Top
    BY <1>2, <1>4, <2>1
  <2>2. CASE Up[x] # Top
    <3>1. PICK w \in V : <<Up[x], w>> \in R /\ f[x] = step[x][w]
      <4>1. From(x, f[x])
        <5>1. f[x] \in V /\ <<x, f[x]>> \in R
          BY <1>4
        <5> HIDE DEF From
        <5>2. QED
          BY <1>2, <5>1
      <4>2. QED
        BY <2>2, <4>1
    <3>2. w = f[Up[x]]
      BY <1>4, <2>2, <3>1, UpIs
    <3>3. QED
      BY <2>2, <3>1, <3>2
  <2>3. QED
    BY <2>1, <2>2
<1> HIDE DEF f
<1>7. QED
  BY <1>5, <1>6 DEF Recurses
-----------------------------------------------------------------------------
\* The recursive functions of ProtonTree are what their equations say.
LEMMA LongerIs ==
  ASSUME NEW paths, NEW names, NEW at
  PROVE  at \in Longer(paths, names) <=> \E a \in paths, n \in names : at = Append(a, n)
BY DEF Longer

LEMMA PathsDef ==
  ASSUME NEW names, NEW x \in Entry
  PROVE  Paths(names)[x] = IF Up[x] = Top THEN Longer({<<>>}, names[x])
                           ELSE Longer(Paths(names)[Up[x]], names[x])
<1> DEFINE W == UNION {names[y] : y \in Entry}
           V == SUBSET Seq(W)
           Equal(paths, y) == IF Up[y] = Top THEN Longer({<<>>}, names[y])
                              ELSE Longer(paths[Up[y]], names[y])
           Is(paths) == paths = [y \in Entry |-> Equal(paths, y)]
<1>1. \A y \in Entry, v \in V : Longer(v, names[y]) \in V
  <2> SUFFICES ASSUME NEW y \in Entry, NEW v \in V, NEW at \in Longer(v, names[y])
               PROVE  at \in Seq(W)
    OBVIOUS
  <2>1. PICK a \in v, n \in names[y] : at = Append(a, n)
    BY LongerIs
  <2>2. a \in Seq(W) /\ n \in W
    OBVIOUS
  <2> HIDE DEF W
  <2>3. QED
    BY <2>1, <2>2, AppendProperties
<1>2. {<<>>} \in V
  OBVIOUS
<1> HIDE DEF V
<1>3. PICK paths \in [Entry -> V] : \A y \in Entry : paths[y] = Equal(paths, y)
  <2> DEFINE base == [y \in Entry |-> Longer({<<>>}, names[y])]
             step == [y \in Entry |-> [v \in V |-> Longer(v, names[y])]]
  <2>1. base \in [Entry -> V] /\ step \in [Entry -> [V -> V]]
    BY <1>1, <1>2
  <2>2. /\ \A y \in Entry : base[y] = Longer({<<>>}, names[y])
        /\ \A y \in Entry, v \in V : step[y][v] = Longer(v, names[y])
    OBVIOUS
  <2> HIDE DEF base, step
  <2>3. PICK f \in [Entry -> V] : Recurses(f, base, step)
    BY <2>1, TreeRecursion
  <2>4. ASSUME NEW y \in Entry PROVE f[y] = Equal(f, y)
    BY <2>2, <2>3, UpIs DEF Recurses
  <2>5. QED
    BY <2>4
<1> HIDE DEF Equal
<1>4. Is(paths)
  BY <1>3
<1>5. \E f : Is(f)
  <2> HIDE DEF Is
  <2>1. QED
    BY <1>4
<1>6. Is(CHOOSE f : Is(f))
  <2> HIDE DEF Is
  <2>1. QED
    BY <1>5
<1>7. Paths(names) = CHOOSE f : Is(f)
  BY DEF Paths, Is, Equal
<1>8. Is(Paths(names))
  <2> HIDE DEF Is
  <2>1. QED
    BY <1>6, <1>7
<1>9. Paths(names)[x] = Equal(Paths(names), x)
  <2> DEFINE q == Paths(names)
  <2>1. q = [y \in Entry |-> Equal(q, y)]
    BY <1>8
  <2> HIDE DEF q
  <2>2. q[x] = Equal(q, x)
    BY <2>1, Zenon
  <2>3. QED
    BY <2>2 DEF q
<1>10. QED
  BY <1>9 DEF Equal

LEMMA DisplayPathDef ==
  ASSUME NEW own, NEW x \in Entry
  PROVE  DisplayPath(x, own) =
           IF Up[x] = Top THEN <<dropbox[x].name>>
           ELSE Append(DisplayPath(Up[x], own), dropbox[x].name)
<1> DEFINE W == {dropbox[y].name : y \in Entry}
           V == Seq(W)
           Equal(at, y) == IF Up[y] = Top THEN <<dropbox[y].name>>
                           ELSE Append(at[Up[y]], dropbox[y].name)
           Is(at) == at = [y \in Entry |-> Equal(at, y)]
<1>1. \A y \in Entry : /\ <<dropbox[y].name>> \in V
                       /\ \A v \in V : Append(v, dropbox[y].name) \in V
  <2> SUFFICES ASSUME NEW y \in Entry
               PROVE  /\ <<dropbox[y].name>> \in V
                      /\ \A v \in V : Append(v, dropbox[y].name) \in V
    OBVIOUS
  <2>1. dropbox[y].name \in W
    OBVIOUS
  <2> HIDE DEF W
  <2>2. QED
    BY <2>1, AppendProperties
<1> HIDE DEF V
<1>2. PICK at \in [Entry -> V] : \A y \in Entry : at[y] = Equal(at, y)
  <2> DEFINE base == [y \in Entry |-> <<dropbox[y].name>>]
             step == [y \in Entry |-> [v \in V |-> Append(v, dropbox[y].name)]]
  <2>1. base \in [Entry -> V] /\ step \in [Entry -> [V -> V]]
    BY <1>1
  <2>2. /\ \A y \in Entry : base[y] = <<dropbox[y].name>>
        /\ \A y \in Entry, v \in V : step[y][v] = Append(v, dropbox[y].name)
    OBVIOUS
  <2> HIDE DEF base, step
  <2>3. PICK f \in [Entry -> V] : Recurses(f, base, step)
    BY <2>1, TreeRecursion
  <2>4. ASSUME NEW y \in Entry PROVE f[y] = Equal(f, y)
    BY <2>2, <2>3, UpIs DEF Recurses
  <2>5. QED
    BY <2>4
<1> HIDE DEF Equal
<1>3. Is(at)
  BY <1>2
<1>4. \E f : Is(f)
  <2> HIDE DEF Is
  <2>1. QED
    BY <1>3
<1> DEFINE q == CHOOSE f : Is(f)
<1>5. Is(q)
  <2> HIDE DEF Is
  <2>1. QED
    BY <1>4
<1>6. \A y : DisplayPath(y, own) = q[y]
  BY DEF DisplayPath, Is, Equal
<1>7. q[x] = Equal(q, x)
  <2> HIDE DEF q
  <2>1. QED
    BY <1>5, Zenon
<1> HIDE DEF q
<1>8. QED
  BY <1>6, <1>7 DEF Equal

LEMMA InsideDef ==
  ASSUME NEW x \in Entry, NEW z \in Entry
  PROVE  z \in Inside(x) <=> z = x \/ (Up[z] # Top /\ Up[z] \in Inside(x))
<1> DEFINE Equal(in, y) == y = x \/ (Up[y] # Top /\ in[Up[y]])
           Is(in) == in = [y \in Entry |-> Equal(in, y)]
<1>1. PICK in \in [Entry -> BOOLEAN] : \A y \in Entry : in[y] = Equal(in, y)
  <2> DEFINE base == [y \in Entry |-> y = x]
             step == [y \in Entry |-> [v \in BOOLEAN |-> y = x \/ v]]
  <2>1. base \in [Entry -> BOOLEAN] /\ step \in [Entry -> [BOOLEAN -> BOOLEAN]]
    OBVIOUS
  <2>2. /\ \A y \in Entry : base[y] = (y = x)
        /\ \A y \in Entry, v \in BOOLEAN : step[y][v] = (y = x \/ v)
    OBVIOUS
  <2> HIDE DEF base, step
  <2>3. PICK f \in [Entry -> BOOLEAN] : Recurses(f, base, step)
    BY <2>1, TreeRecursion
  <2>4. ASSUME NEW y \in Entry PROVE f[y] = Equal(f, y)
    <3>1. CASE Up[y] = Top
      BY <2>2, <2>3, <3>1 DEF Recurses
    <3>2. CASE Up[y] # Top
      <4>1. f[Up[y]] \in BOOLEAN
        BY <3>2, UpIs
      <4>2. f[y] = step[y][f[Up[y]]]
        BY <2>3, <3>2 DEF Recurses
      <4>3. QED
        BY <2>2, <3>2, <4>1, <4>2
    <3>3. QED
      BY <3>1, <3>2
  <2>5. QED
    BY <2>4
<1> HIDE DEF Equal
<1>2. Is(in)
  BY <1>1
<1>3. \E f : Is(f)
  <2> HIDE DEF Is
  <2>1. QED
    BY <1>2
<1> DEFINE q == CHOOSE f : Is(f)
<1>4. Is(q)
  <2> HIDE DEF Is
  <2>1. QED
    BY <1>3
<1>5. Inside(x) = {y \in Entry : q[y]}
  BY DEF Inside, Is, Equal
<1>6. q[z] = Equal(q, z)
  <2> HIDE DEF q
  <2>1. QED
    BY <1>4, Zenon
<1> HIDE DEF q
<1>7. QED
  BY <1>5, <1>6, UpIs DEF Equal
-----------------------------------------------------------------------------
\* The paths of an entry: each is one of the folder it is in, and a name of its own.
LEMMA PathsFrom ==
  ASSUME NEW names, NEW x \in Entry, NEW at \in Paths(names)[x]
  PROVE  \E n \in names[x] :
           IF Up[x] = Top THEN at = Append(<<>>, n)
           ELSE \E a \in Paths(names)[Up[x]] : at = Append(a, n)
<1>1. CASE Up[x] = Top
  <2>1. at \in Longer({<<>>}, names[x])
    BY <1>1, PathsDef
  <2>2. PICK n \in names[x] : at = Append(<<>>, n)
    BY <2>1 DEF Longer
  <2>3. QED
    BY <1>1, <2>2
<1>2. CASE Up[x] # Top
  <2>1. at \in Longer(Paths(names)[Up[x]], names[x])
    BY <1>2, PathsDef
  <2>2. PICK a \in Paths(names)[Up[x]], n \in names[x] : at = Append(a, n)
    BY <2>1, LongerIs
  <2>3. QED
    BY <1>2, <2>2
<1>3. QED
  BY <1>1, <1>2

LEMMA PathsTo ==
  ASSUME NEW names, NEW x \in Entry, NEW n \in names[x]
  PROVE  /\ Up[x] = Top => Append(<<>>, n) \in Paths(names)[x]
         /\ \A a : Up[x] # Top /\ a \in Paths(names)[Up[x]] => Append(a, n) \in Paths(names)[x]
<1>1. ASSUME Up[x] = Top PROVE Append(<<>>, n) \in Paths(names)[x]
  <2>1. Append(<<>>, n) \in Longer({<<>>}, names[x])
    BY LongerIs
  <2>2. QED
    BY <1>1, <2>1, PathsDef
<1>2. ASSUME NEW a, Up[x] # Top, a \in Paths(names)[Up[x]]
      PROVE  Append(a, n) \in Paths(names)[x]
  <2>1. Append(a, n) \in Longer(Paths(names)[Up[x]], names[x])
    BY <1>2, LongerIs
  <2>2. QED
    BY <1>2, <2>1, PathsDef
<1>3. QED
  BY <1>1, <1>2

LEMMA PathsType ==
  ASSUME NEW names, NEW W, \A x \in Entry : names[x] \subseteq W
  PROVE  \A x \in Entry : Paths(names)[x] \subseteq Seq(W) \ {<<>>}
<1> DEFINE in == {x \in Entry : Paths(names)[x] \subseteq Seq(W) \ {<<>>}}
<1>1. ASSUME NEW x \in Entry, Up[x] \in in \cup {Top} PROVE x \in in
  <2>1. ASSUME NEW at \in Paths(names)[x] PROVE at \in Seq(W) \ {<<>>}
    <3>1. PICK n \in names[x] : IF Up[x] = Top THEN at = Append(<<>>, n)
                                ELSE \E a \in Paths(names)[Up[x]] : at = Append(a, n)
      BY PathsFrom
    <3>2. PICK a \in Seq(W) : at = Append(a, n)
      BY <1>1, <3>1, EmptySeq
    <3>3. n \in W
      OBVIOUS
    <3>4. QED
      BY <3>2, <3>3, AppendProperties
  <2>2. QED
    BY <2>1
<1>2. in \in SUBSET Entry
  OBVIOUS
<1> HIDE DEF in
<1>3. in = Entry
  BY <1>1, <1>2, Tree
<1>4. QED
  BY <1>3 DEF in

LEMMA SpelledType == \A x \in Entry : Spelled[x] \subseteq Path
<1>1. \A x \in Entry : Names[x] \subseteq Name
  BY DEF Name
<1>2. QED
  BY <1>1, PathsType DEF Spelled, Path

LEMMA PlainSpelled == \A x \in Entry : Plain[x] \subseteq Spelled[x]
<1> DEFINE in == {x \in Entry : Plain[x] \subseteq Spelled[x]}
           firsts == [x \in Entry |-> {First(x)}]
<1>1. \A x \in Entry : firsts[x] = {First(x)} /\ First(x) \in Names[x]
  BY TreeAssumption DEF First
<1> HIDE DEF firsts
<1>2. ASSUME NEW x \in Entry, Up[x] \in in \cup {Top} PROVE x \in in
  <2>1. ASSUME NEW at \in Paths(firsts)[x] PROVE at \in Paths(Names)[x]
    <3>1. PICK n \in firsts[x] : IF Up[x] = Top THEN at = Append(<<>>, n)
                                 ELSE \E a \in Paths(firsts)[Up[x]] : at = Append(a, n)
      BY PathsFrom
    <3>2. Up[x] # Top => Paths(firsts)[Up[x]] \subseteq Paths(Names)[Up[x]]
      BY <1>2 DEF Plain, Spelled, firsts
    <3>3. n \in Names[x]
      BY <1>1
    <3>4. QED
      BY <3>1, <3>2, <3>3, PathsTo
  <2>2. QED
    BY <2>1 DEF Plain, Spelled, firsts
<1>3. in \in SUBSET Entry
  OBVIOUS
<1> HIDE DEF in
<1>4. in = Entry
  BY <1>2, <1>3, Tree
<1>5. QED
  BY <1>4 DEF in

\* Two entries have no path in common, since two entries of one folder have no name in common.
LEMMA OneEntry ==
  ASSUME NEW x \in Entry, NEW y \in Entry, NEW at, at \in Spelled[x], at \in Spelled[y]
  PROVE  x = y
<1> DEFINE in == {z \in Entry : \A w \in Entry, b \in Path :
                    b \in Spelled[z] /\ b \in Spelled[w] => z = w}
<1>1. ASSUME NEW z \in Entry, Up[z] \in in \cup {Top} PROVE z \in in
  <2> SUFFICES ASSUME NEW w \in Entry, NEW b, b \in Spelled[z], b \in Spelled[w]
               PROVE  z = w
    OBVIOUS
  <2>1. PICK n \in Names[z] : IF Up[z] = Top THEN b = Append(<<>>, n)
                              ELSE \E a \in Spelled[Up[z]] : b = Append(a, n)
    BY PathsFrom DEF Spelled
  <2>2. PICK m \in Names[w] : IF Up[w] = Top THEN b = Append(<<>>, m)
                              ELSE \E a \in Spelled[Up[w]] : b = Append(a, m)
    BY PathsFrom DEF Spelled
  <2>3. PICK a : b = Append(a, n) /\ IF Up[z] = Top THEN a = <<>>
                                     ELSE a \in Spelled[Up[z]] /\ a \in Path
    BY <2>1, SpelledType, UpIs
  <2>4. PICK c : b = Append(c, m) /\ IF Up[w] = Top THEN c = <<>>
                                     ELSE c \in Spelled[Up[w]] /\ c \in Path
    BY <2>2, SpelledType, UpIs
  <2>5. a \in Seq(Name) /\ c \in Seq(Name) /\ n \in Name /\ m \in Name
    BY <2>3, <2>4, EmptySeq DEF Path, Name
  <2>6. a = c /\ n = m
    <3>1. Append(a, n) = Append(c, m)
      BY <2>3, <2>4
    <3>2. QED
      BY <2>5, <3>1, AppendInjective
  <2>7. Up[z] = Up[w]
    BY <1>1, <2>3, <2>4, <2>6, UpIs DEF Path
  <2>8. QED
    BY <2>6, <2>7, TreeAssumption
<1>2. in \in SUBSET Entry
  OBVIOUS
<1> HIDE DEF in
<1>3. in = Entry
  BY <1>1, <1>2, Tree
<1>4. at \in Path
  BY SpelledType
<1>5. QED
  BY <1>3, <1>4 DEF in

-----------------------------------------------------------------------------
LEMMA Start ==
  ASSUME NEW W, NEW s \in Seq(W), NEW n \in 0..Len(s)
  PROVE  LET t == SubSeq(s, 1, n)
         IN  t \in Seq(W) /\ Len(t) = n /\ \A i \in 1..n : t[i] = s[i]
<1> DEFINE t == SubSeq(s, 1, n)
<1>1. n \in Nat /\ \A i \in 1..n : s[i] \in W
  BY LenProperties, ElementOfSeq
<1>2. /\ t \in Seq(W) /\ Len(t) = IF 1 <= n THEN n - 1 + 1 ELSE 0
      /\ \A i \in 1..(n - 1 + 1) : t[i] = s[1 + i - 1]
  BY <1>1, SubSeqProperties
<1> HIDE DEF t
<1>3. Len(t) = n
  BY <1>1, <1>2
<1>4. ASSUME NEW i \in 1..n PROVE t[i] = s[i]
  <2>1. i \in 1..(n - 1 + 1) /\ 1 + i - 1 = i
    BY <1>1
  <2>2. QED
    BY <1>2, <2>1
<1>5. QED
  BY <1>2, <1>3, <1>4 DEF t

LEMMA AppendParts ==
  ASSUME NEW W, NEW a \in Seq(W), NEW n \in W
  PROVE  LET at == Append(a, n)
         IN  /\ Len(at) = Len(a) + 1 /\ Len(a) \in Nat /\ Front(at) = a
             /\ \A i \in 1..Len(a) : SubSeq(at, 1, i) = SubSeq(a, 1, i)
<1> DEFINE at == Append(a, n)
<1>1. Len(a) \in Nat /\ \A i \in 1..Len(a) : a[i] \in W
  BY LenProperties, ElementOfSeq
<1>2. at \in Seq(W) /\ Len(at) = Len(a) + 1 /\ \A i \in 1..Len(a) : at[i] = a[i]
  BY AppendProperties
<1> HIDE DEF at
<1>3. ASSUME NEW i \in 0..Len(a) PROVE SubSeq(at, 1, i) = SubSeq(a, 1, i)
  <2> DEFINE b == SubSeq(at, 1, i)
             c == SubSeq(a, 1, i)
  <2>1. i \in Nat /\ \A j \in 1..i : a[j] \in W /\ at[j] \in W /\ at[j] = a[j]
    BY <1>1, <1>2
  <2>2. b \in Seq(W) /\ Len(b) = i /\ \A j \in 1..i : b[j] = at[j]
    BY <1>1, <1>2, Start
  <2>3. c \in Seq(W) /\ Len(c) = i /\ \A j \in 1..i : c[j] = a[j]
    BY Start
  <2> HIDE DEF b, c
  <2>4. b = c
    BY <2>1, <2>2, <2>3, SeqEqual
  <2>5. QED
    BY <2>4 DEF b, c
<1>4. Front(at) = a
  <2>1. SubSeq(at, 1, Len(a)) = SubSeq(a, 1, Len(a))
    BY <1>1, <1>3
  <2>2. SubSeq(a, 1, Len(a)) = a
    BY SubSeqFull
  <2>3. Len(at) - 1 = Len(a)
    BY <1>1, <1>2
  <2>4. QED
    BY <2>1, <2>2, <2>3 DEF Front
<1>5. QED
  BY <1>1, <1>2, <1>3, <1>4 DEF at

\* A path is that of the folder it is in with a name after it, and its beginnings are those of
\* the folders around it.
Parts(names, x, at, a, n) ==
  /\ at = Append(a, n) /\ Front(at) = a /\ Len(at) = Len(a) + 1 /\ Len(a) \in Nat
  /\ \A i \in 1..Len(a) : SubSeq(at, 1, i) = SubSeq(a, 1, i)
  /\ IF Up[x] = Top THEN a = <<>> ELSE a \in Paths(names)[Up[x]] /\ a # <<>>

LEMMA PathParts ==
  ASSUME NEW names, NEW W, \A y \in Entry : names[y] \subseteq W,
         NEW x \in Entry, NEW at \in Paths(names)[x]
  PROVE  \E a \in Seq(W), n \in names[x] : Parts(names, x, at, a, n)
<1>1. PICK n \in names[x] : IF Up[x] = Top THEN at = Append(<<>>, n)
                            ELSE \E a \in Paths(names)[Up[x]] : at = Append(a, n)
  BY PathsFrom
<1>2. PICK a \in Seq(W) : /\ at = Append(a, n)
                          /\ IF Up[x] = Top THEN a = <<>>
                             ELSE a \in Paths(names)[Up[x]] /\ a # <<>>
  <2>1. CASE Up[x] = Top
    BY <1>1, <2>1, EmptySeq
  <2>2. CASE Up[x] # Top
    <3>1. PICK a \in Paths(names)[Up[x]] : at = Append(a, n)
      BY <1>1, <2>2
    <3>2. Paths(names)[Up[x]] \subseteq Seq(W) \ {<<>>}
      BY <2>2, PathsType, UpIs
    <3>3. QED
      BY <2>2, <3>1, <3>2
  <2>3. QED
    BY <2>1, <2>2
<1>3. n \in W
  OBVIOUS
<1>4. QED
  BY <1>2, <1>3, AppendParts DEF Parts

LEMMA Beginnings ==
  ASSUME NEW names, NEW W, \A y \in Entry : names[y] \subseteq W,
         NEW x \in Entry, NEW at \in Paths(names)[x], NEW i \in 1..(Len(at) - 1)
  PROVE  \E d \in Dir : SubSeq(at, 1, i) \in Paths(names)[d]
<1> DEFINE in == {y \in Entry : \A b \in Paths(names)[y] : \A j \in 1..(Len(b) - 1) :
                    \E d \in Dir : SubSeq(b, 1, j) \in Paths(names)[d]}
<1>1. ASSUME NEW y \in Entry, Up[y] \in in \cup {Top} PROVE y \in in
  <2> SUFFICES ASSUME NEW b \in Paths(names)[y], NEW j \in 1..(Len(b) - 1)
               PROVE  \E d \in Dir : SubSeq(b, 1, j) \in Paths(names)[d]
    OBVIOUS
  <2>0. PICK a \in Seq(W), n \in names[y] : Parts(names, y, b, a, n)
    BY PathParts
  <2>1. IF Up[y] = Top THEN a = <<>> ELSE a \in Paths(names)[Up[y]] /\ a # <<>>
    BY <2>0 DEF Parts
  <2>2. j \in 1..Len(a) /\ SubSeq(b, 1, j) = SubSeq(a, 1, j) /\ Len(a) \in Nat
    BY <2>0 DEF Parts
  <2>3. Up[y] # Top /\ Up[y] \in Dir /\ Up[y] \in in
    BY <1>1, <2>1, <2>2, UpIs, EmptySeq
  <2>4. CASE j = Len(a)
    <3>1. SubSeq(a, 1, j) = a
      BY <2>4, SubSeqFull
    <3>2. QED
      BY <2>1, <2>2, <2>3, <3>1
  <2>5. CASE j # Len(a)
    <3>1. j \in 1..(Len(a) - 1)
      BY <2>2, <2>5
    <3>2. QED
      BY <2>1, <2>2, <2>3, <3>1
  <2>6. QED
    BY <2>4, <2>5
<1>2. in \in SUBSET Entry
  OBVIOUS
<1> HIDE DEF in
<1>3. in = Entry
  BY <1>1, <1>2, Tree
<1>4. QED
  BY <1>3 DEF in

\* An entry that has one name, as have the folders around it, has one path.
LEMMA OnePlain ==
  ASSUME NEW x \in Entry, NEW at \in Plain[x], NEW b \in Plain[x]
  PROVE  at = b
<1> DEFINE firsts == [y \in Entry |-> {First(y)}]
           in == {y \in Entry : \A c, d \in Plain[y] : c = d}
<1>1. \A y \in Entry : firsts[y] = {First(y)}
  OBVIOUS
<1>2. Plain = Paths(firsts)
  BY DEF Plain
<1> HIDE DEF firsts
<1>3. ASSUME NEW y \in Entry, Up[y] \in in \cup {Top} PROVE y \in in
  <2> SUFFICES ASSUME NEW c \in Plain[y], NEW d \in Plain[y] PROVE c = d
    OBVIOUS
  <2>1. PICK n \in firsts[y] : IF Up[y] = Top THEN c = Append(<<>>, n)
                               ELSE \E a \in Plain[Up[y]] : c = Append(a, n)
    BY <1>2, PathsFrom
  <2>2. PICK m \in firsts[y] : IF Up[y] = Top THEN d = Append(<<>>, m)
                               ELSE \E a \in Plain[Up[y]] : d = Append(a, m)
    BY <1>2, PathsFrom
  <2>3. n = m
    BY <1>1
  <2>4. QED
    BY <1>3, <2>1, <2>2, <2>3
<1>4. in \in SUBSET Entry
  OBVIOUS
<1> HIDE DEF in
<1>5. in = Entry
  BY <1>3, <1>4, Tree
<1>6. QED
  BY <1>5 DEF in

LEMMA SpelledParts ==
  ASSUME NEW x \in Entry, NEW at \in Spelled[x]
  PROVE  /\ at \in Path /\ Len(at) \in Nat \ {0}
         /\ \E a \in Seq(Name), n \in Names[x] : Parts(Names, x, at, a, n)
<1>1. \A y \in Entry : Names[y] \subseteq Name
  BY DEF Name
<1>2. \E a \in Seq(Name), n \in Names[x] : Parts(Names, x, at, a, n)
  BY <1>1, PathParts DEF Spelled
<1>3. at \in Path
  BY SpelledType
<1>4. QED
  BY <1>2, <1>3 DEF Parts
-----------------------------------------------------------------------------
LEMMA KeyParts ==
  ASSUME NEW a \in Seq(Name), NEW b \in Seq(Name), NEW n \in Name, NEW m \in Name,
         Key(Append(a, n)) = Key(Append(b, m))
  PROVE  Key(a) = Key(b) /\ Fold[n] = Fold[m]
<1> DEFINE at == Append(a, n)
           bt == Append(b, m)
<1>1. /\ Len(a) \in Nat /\ DOMAIN a = 1..Len(a) /\ DOMAIN at = 1..(Len(a) + 1)
      /\ at[Len(a) + 1] = n /\ \A i \in 1..Len(a) : at[i] = a[i]
  BY AppendProperties, LenProperties
<1>2. /\ Len(b) \in Nat /\ DOMAIN b = 1..Len(b) /\ DOMAIN bt = 1..(Len(b) + 1)
      /\ bt[Len(b) + 1] = m /\ \A i \in 1..Len(b) : bt[i] = b[i]
  BY AppendProperties, LenProperties
<1> HIDE DEF at, bt
<1>3. DOMAIN at = DOMAIN bt /\ \A i \in DOMAIN at : Fold[at[i]] = Fold[bt[i]]
  <2>1. [i \in DOMAIN at |-> Fold[at[i]]] = [i \in DOMAIN bt |-> Fold[bt[i]]]
    BY DEF Key, at, bt
  <2>2. DOMAIN at = DOMAIN bt
    BY <2>1
  <2>3. QED
    BY <2>1, <2>2
<1>4. Len(a) = Len(b)
  <2>1. Len(a) + 1 \in 1..(Len(b) + 1) /\ Len(b) + 1 \in 1..(Len(a) + 1)
    BY <1>1, <1>2, <1>3
  <2>2. Len(a) \in Nat /\ Len(b) \in Nat
    BY <1>1, <1>2
  <2>3. QED
    BY <2>1, <2>2
<1>5. Fold[n] = Fold[m]
  BY <1>1, <1>2, <1>3, <1>4
<1>6. \A i \in 1..Len(a) : Fold[a[i]] = Fold[b[i]]
  <2> TAKE i \in 1..Len(a)
  <2>1. i \in 1..(Len(a) + 1)
    BY <1>1
  <2>2. QED
    BY <1>1, <1>2, <1>3, <1>4, <2>1
<1>7. Key(a) = Key(b)
  BY <1>1, <1>2, <1>4, <1>6 DEF Key
<1>8. QED
  BY <1>5, <1>7

\* Names that are apart in their folder make keys that are apart.
LEMMA KeysApart ==
  ASSUME FoldsApart, NEW x \in Entry, NEW y \in Entry, NEW at \in Spelled[x],
         NEW b \in Spelled[y], Key(at) = Key(b)
  PROVE  x = y
<1> DEFINE in == {z \in Entry : \A w \in Entry : \A c \in Spelled[z], d \in Spelled[w] :
                    Key(c) = Key(d) => z = w}
<1>1. ASSUME NEW z \in Entry, Up[z] \in in \cup {Top} PROVE z \in in
  <2> SUFFICES ASSUME NEW w \in Entry, NEW c \in Spelled[z], NEW d \in Spelled[w],
                      Key(c) = Key(d)
               PROVE  z = w
    OBVIOUS
  <2>1. PICK a1 \in Seq(Name), n \in Names[z] : Parts(Names, z, c, a1, n)
    BY SpelledParts
  <2>2. PICK a2 \in Seq(Name), m \in Names[w] : Parts(Names, w, d, a2, m)
    BY SpelledParts
  <2>3. n \in Name /\ m \in Name
    BY DEF Name
  <2>4. Key(a1) = Key(a2) /\ Fold[n] = Fold[m]
    <3>1. Key(Append(a1, n)) = Key(Append(a2, m))
      BY <2>1, <2>2 DEF Parts
    <3>2. QED
      BY <2>3, <3>1, KeyParts
  <2>5. a1 = <<>> <=> a2 = <<>>
    <3>1. DOMAIN a1 = DOMAIN a2
      <4>1. [i \in DOMAIN a1 |-> Fold[a1[i]]] = [i \in DOMAIN a2 |-> Fold[a2[i]]]
        BY <2>4 DEF Key
      <4>2. QED
        BY <4>1
    <3>2. Len(a1) \in Nat /\ DOMAIN a1 = 1..Len(a1) /\ Len(a2) \in Nat /\ DOMAIN a2 = 1..Len(a2)
      BY LenProperties
    <3>3. Len(a1) = 0 <=> Len(a2) = 0
      <4>1. 1 \in DOMAIN a1 <=> 1 \in DOMAIN a2
        BY <3>1
      <4>2. QED
        BY <3>2, <4>1
    <3>4. QED
      BY <3>3, EmptySeq
  <2>6. Up[z] = Up[w]
    <3>1. CASE a1 = <<>>
      BY <2>1, <2>2, <2>5, <3>1 DEF Parts
    <3>2. CASE a1 # <<>>
      <4>1. /\ Up[z] # Top /\ a1 \in Spelled[Up[z]]
            /\ Up[w] # Top /\ a2 \in Spelled[Up[w]]
        BY <2>1, <2>2, <2>5, <3>2 DEF Parts, Spelled
      <4>2. Up[z] \in in /\ Up[w] \in Entry
        BY <1>1, <4>1, UpIs
      <4>3. QED
        BY <2>4, <4>1, <4>2
    <3>3. QED
      BY <3>1, <3>2
  <2>7. QED
    BY <2>4, <2>6 DEF FoldsApart
<1>2. in \in SUBSET Entry
  OBVIOUS
<1> HIDE DEF in
<1>3. in = Entry
  BY <1>1, <1>2, Tree
<1>4. QED
  BY <1>3 DEF in

\* The key of a beginning of a path is a beginning of its key.
LEMMA KeyOf ==
  ASSUME NEW at \in Path, NEW i \in 1..Len(at)
  PROVE  /\ Len(at) \in Nat \ {0} /\ Len(Key(at)) = Len(at)
         /\ SubSeq(at, 1, i) \in Path /\ Len(SubSeq(at, 1, i)) = i
         /\ Key(SubSeq(at, 1, i)) = SubSeq(Key(at), 1, i)
<1> DEFINE F == {Fold[n] : n \in Name}
           k == Key(at)
           b == SubSeq(at, 1, i)
<1>1. at \in Seq(Name) /\ at # <<>>
  BY DEF Path
<1>2. /\ Len(at) \in Nat \ {0} /\ DOMAIN at = 1..Len(at) /\ i \in Nat \ {0}
      /\ \A j \in 1..Len(at) : at[j] \in Name
  BY <1>1, LenProperties, ElementOfSeq, EmptySeq
<1>3. k \in Seq(F) /\ Len(k) = Len(at) /\ \A j \in 1..Len(at) : k[j] = Fold[at[j]] /\ k[j] \in F
  <2>1. k = [j \in 1..Len(at) |-> Fold[at[j]]] /\ \A j \in 1..Len(at) : Fold[at[j]] \in F
    BY <1>2 DEF Key
  <2> HIDE DEF k, F
  <2>2. QED
    BY <1>2, <2>1, IsASeq
<1>4. b \in Seq(Name) /\ Len(b) = i /\ \A j \in 1..i : b[j] = at[j]
  BY <1>1, <1>2, Start
<1> DEFINE c == SubSeq(k, 1, i)
<1>5. c \in Seq(F) /\ Len(c) = i /\ \A j \in 1..i : c[j] = k[j]
  <2> HIDE DEF k, F
  <2>1. i \in 0..Len(k)
    BY <1>2, <1>3
  <2>2. QED
    BY <1>3, <2>1, Start
<1>6. b \in Path
  BY <1>2, <1>4, EmptySeq DEF Path
<1>7. Key(b) = c
  <2> HIDE DEF b, c, k, F
  <2>1. DOMAIN b = 1..i
    BY <1>4, LenProperties
  <2>2. Key(b) = [j \in 1..i |-> Fold[b[j]]]
    BY <2>1 DEF Key
  <2>3. \A j \in 1..i : Fold[b[j]] = c[j]
    BY <1>2, <1>3, <1>4, <1>5
  <2>4. c = [j \in 1..i |-> c[j]]
    BY <1>5, LenProperties
  <2>5. QED
    BY <2>2, <2>3, <2>4
<1>8. QED
  BY <1>2, <1>3, <1>4, <1>6, <1>7

LEMMA PrefixIs ==
  ASSUME NEW a \in Path, NEW b \in Path, IsPrefix(a, b), a # b
  PROVE  Len(a) \in 1..(Len(b) - 1) /\ a = SubSeq(b, 1, Len(a))
<1>1. a \in Seq(Name) /\ b \in Seq(Name) /\ Len(a) \in Nat \ {0} /\ Len(b) \in Nat
  <2>1. a \in Seq(Name) /\ b \in Seq(Name) /\ a # <<>>
    BY DEF Path
  <2>2. QED
    BY <2>1, LenProperties, EmptySeq
<1>2. SubSeq(a, 1, Len(a)) = a /\ SubSeq(b, 1, Len(b)) = b
  BY <1>1, SubSeqFull
<1>3. Len(a) <= Len(b) /\ a = SubSeq(b, 1, Len(a))
  BY <1>2 DEF IsPrefix
<1>4. Len(a) # Len(b)
  BY <1>2, <1>3
<1>5. QED
  BY <1>1, <1>3, <1>4

\* What is inside a folder is inside the folders around it.
LEMMA PrefixOfFront ==
  ASSUME NEW a \in Path, NEW at \in Path, Len(at) > 1, IsPrefix(a, Front(at))
  PROVE  IsPrefix(a, at)
<1> DEFINE b == Front(at)
<1>1. at \in Seq(Name) /\ a \in Seq(Name) /\ Len(at) \in Nat /\ Len(a) \in Nat \ {0}
      /\ \A i \in 1..Len(at) : at[i] \in Name
  BY LenProperties, EmptySeq, ElementOfSeq DEF Path
<1>2. b \in Seq(Name) /\ Len(b) = Len(at) - 1 /\ \A i \in 1..(Len(at) - 1) : b[i] = at[i]
  <2> DEFINE n == Len(at) - 1
  <2>1. n \in 0..Len(at) /\ b = SubSeq(at, 1, n)
    BY <1>1 DEF Front
  <2> HIDE DEF n, b
  <2>2. b \in Seq(Name) /\ Len(b) = n /\ \A i \in 1..n : b[i] = at[i]
    BY <1>1, <2>1, Start
  <2>3. QED
    BY <2>2 DEF n
<1>3. Len(a) <= Len(b) /\ SubSeq(a, 1, Len(a)) = SubSeq(b, 1, Len(a))
  BY DEF IsPrefix
<1> DEFINE c == SubSeq(b, 1, Len(a))
           d == SubSeq(at, 1, Len(a))
<1> HIDE DEF b
<1>4. c \in Seq(Name) /\ Len(c) = Len(a) /\ \A i \in 1..Len(a) : c[i] = b[i]
  <2>1. Len(a) \in 0..Len(b)
    BY <1>1, <1>2, <1>3
  <2>2. QED
    BY <1>2, <2>1, Start
<1>5. d \in Seq(Name) /\ Len(d) = Len(a) /\ \A i \in 1..Len(a) : d[i] = at[i]
  <2>1. Len(a) \in 0..Len(at)
    BY <1>1, <1>2, <1>3
  <2>2. QED
    BY <1>1, <2>1, Start
<1>6. c = d
  <2> HIDE DEF c, d
  <2>1. \A i \in 1..Len(a) : b[i] = at[i]
    BY <1>1, <1>2, <1>3
  <2>2. QED
    BY <1>4, <1>5, <2>1, SeqEqual
<1>7. Len(a) <= Len(at)
  BY <1>1, <1>2, <1>3
<1>8. QED
  BY <1>3, <1>6, <1>7 DEF IsPrefix

\* What the listing of a run shows is a path of the entry, in the names it has.
LEMMA Displays ==
  ASSUME NEW names, NEW own,
         \A x \in Entry : dropbox[x] # Absent =>
           dropbox[x].name \in names[x] /\ (Up[x] # Top => dropbox[Up[x]] # Absent)
  PROVE  \A x \in Entry : dropbox[x] # Absent => DisplayPath(x, own) \in Paths(names)[x]
<1> DEFINE in == {x \in Entry : dropbox[x] # Absent => DisplayPath(x, own) \in Paths(names)[x]}
<1>1. ASSUME NEW x \in Entry, Up[x] \in in \cup {Top} PROVE x \in in
  <2> SUFFICES ASSUME dropbox[x] # Absent PROVE DisplayPath(x, own) \in Paths(names)[x]
    OBVIOUS
  <2> DEFINE n == dropbox[x].name
  <2>1. n \in names[x]
    OBVIOUS
  <2>2. CASE Up[x] = Top
    <3>1. DisplayPath(x, own) = <<n>>
      BY <2>2, DisplayPathDef
    <3>2. Append(<<>>, n) = <<n>>
      OBVIOUS
    <3>3. QED
      BY <2>1, <2>2, <3>1, <3>2, PathsTo
  <2>3. CASE Up[x] # Top
    <3>1. DisplayPath(x, own) = Append(DisplayPath(Up[x], own), n)
      BY <2>3, DisplayPathDef
    <3>2. DisplayPath(Up[x], own) \in Paths(names)[Up[x]]
      BY <1>1, <2>3
    <3>3. QED
      BY <2>1, <2>3, <3>1, <3>2, PathsTo
  <2>4. QED
    BY <2>2, <2>3
<1>2. in \in SUBSET Entry
  OBVIOUS
<1> HIDE DEF in
<1>3. in = Entry
  BY <1>1, <1>2, Tree
<1>4. QED
  BY <1>3 DEF in
-----------------------------------------------------------------------------
\* What a step does to the nodes: it removes files or whole folders, adds a file beside one of
\* its name, adds the next node of the path of a file to be uploaded, or revises that file.
USE DEF cloud, run, spent

Removes(gone)   == nodes' = [u \in Uid |-> IF u \in gone THEN Absent ELSE nodes[u]]
Adds(node)      == Unused # {} /\ nodes' = [nodes EXCEPT ![New] = node]
Doubles(node)   == \E u \in Files(nodes) : node.at = nodes[u].at /\ node.what \in Content
Grows(p, node)  == \E i \in 1..Len(listing[p].at) :
  /\ node.at = SubSeq(listing[p].at, 1, i) /\ At(nodes, node.at) = {}
  /\ i > 1 => At(nodes, SubSeq(listing[p].at, 1, i - 1)) # {}
  /\ node.what = IF i = Len(listing[p].at) THEN listing[p].what ELSE Folder

RemovesFiles    == \E gone \in SUBSET Files(nodes) : Removes(gone)
RemovesTrees    == \E in \in SUBSET Path : Removes(UNION {Under(at) : at \in in})
AddsDouble      == UNCHANGED walk /\ meddles' = meddles + 1 /\ \E node \in Node : Adds(node) /\ Doubles(node)
AddsNext        == UNCHANGED walk /\ \E p \in changed : \E node \in Node : Adds(node) /\ Grows(p, node)
Revises         == \E p \in changed : \E u \in At(nodes, listing[p].at) :
                     nodes' = [nodes EXCEPT ![u].what = listing[p].what]

LEMMA LiveNodes ==
  ASSUME TypeOK
  PROVE  /\ \A u \in Live : u \in Uid /\ nodes[u] \in Node
         /\ \A p \in Listed : listing[p].at \in Path /\ listing[p].what \in Content
         /\ \A p \in Recorded : rows[p].at \in Path /\ rows[p].what \in Content
         /\ \A u \in Uid : walk.seen[u] # Absent => walk.seen[u] \in Node
         /\ \A u \in Uid : nodes[u] # Absent => nodes[u] \in Node
         /\ changed \subseteq Listed /\ Folder \notin Content /\ Absent \notin Node
BY TreeAssumption DEF TypeOK, Live, Nodes, Listed, Recorded

LEMMA StartsOf ==
  ASSUME NEW at \in Path, NEW i \in 1..Len(at)
  PROVE  /\ Len(at) \in Nat \ {0} /\ SubSeq(at, 1, i) \in Path /\ Len(SubSeq(at, 1, i)) = i
         /\ i > 1 => Front(SubSeq(at, 1, i)) = SubSeq(at, 1, i - 1)
         /\ SubSeq(at, 1, Len(at)) = at
<1>1. at \in Seq(Name) /\ SubSeq(at, 1, Len(at)) = at
  BY SubSeqFull DEF Path
<1>2. /\ Len(at) \in Nat \ {0} /\ SubSeq(at, 1, i) \in Path /\ Len(SubSeq(at, 1, i)) = i
  BY KeyOf
<1>3. ASSUME i > 1 PROVE Front(SubSeq(at, 1, i)) = SubSeq(at, 1, i - 1)
  <2> DEFINE s == SubSeq(at, 1, i)
             t == SubSeq(s, 1, i - 1)
             b == SubSeq(at, 1, i - 1)
  <2>1. i \in 0..Len(at) /\ i - 1 \in 0..Len(at) /\ i - 1 \in Nat
    BY <1>2
  <2>2. s \in Seq(Name) /\ Len(s) = i /\ \A j \in 1..i : s[j] = at[j]
    BY <1>1, <2>1, Start
  <2>3. b \in Seq(Name) /\ Len(b) = i - 1 /\ \A j \in 1..(i - 1) : b[j] = at[j]
    BY <1>1, <2>1, Start
  <2> HIDE DEF s, b
  <2>4. i - 1 \in 0..Len(s) /\ \A j \in 1..(i - 1) : j \in 1..i
    BY <2>1, <2>2
  <2>5. t \in Seq(Name) /\ Len(t) = i - 1 /\ \A j \in 1..(i - 1) : t[j] = s[j]
    BY <2>2, <2>4, Start
  <2> HIDE DEF t
  <2>6. \A j \in 1..(i - 1) : t[j] = b[j]
    BY <2>2, <2>3, <2>4, <2>5
  <2>7. t = b
    BY <2>3, <2>5, <2>6, SeqEqual
  <2>8. Front(s) = t
    BY <2>2 DEF Front, t
  <2>9. QED
    BY <2>7, <2>8 DEF b, s
<1>4. QED
  BY <1>1, <1>2, <1>3

LEMMA Smallest ==
  ASSUME NEW S \in SUBSET Nat, S # {}
  PROVE  \E j \in S : \A k \in S : j <= k
<1> DEFINE less == OpToRel(<, Nat)
<1>1. \A k, j \in Nat : <<k, j>> \in less <=> k < j
  BY DEF OpToRel
<1> HIDE DEF less
<1>2. IsWellFoundedOn(less, Nat)
  BY NatLessThanWellFounded DEF less
<1>3. PICK j \in S : \A k \in S : ~ (<<k, j>> \in less)
  BY <1>2, WFMin
<1>4. ASSUME NEW k \in S PROVE j <= k
  <2>1. j \in Nat /\ k \in Nat
    OBVIOUS
  <2>2. ~ (k < j)
    BY <1>1, <1>3, <2>1
  <2>3. QED
    BY <2>1, <2>2
<1>5. QED
  BY <1>4

LEMMA UploadGrows ==
  ASSUME TypeOK, NEW p \in File, Upload(p)
  PROVE  AddsNext \/ Revises
<1> DEFINE at == listing[p].at
<1>1. /\ p \in changed /\ p \in Listed /\ at \in Path /\ listing[p].what \in Content
      /\ UNCHANGED walk
  BY LiveNodes DEF Upload
<1>2. Len(at) \in Nat \ {0} /\ SubSeq(at, 1, Len(at)) = at
  <2>1. at \in Seq(Name) /\ at # <<>>
    BY <1>1 DEF Path
  <2>2. QED
    BY <2>1, SubSeqFull, LenProperties, EmptySeq
<1>3. CASE Missing(at) # {}
  <2> DEFINE i == CHOOSE j \in Missing(at) : \A k \in Missing(at) : j <= k
             node == [at |-> SubSeq(at, 1, i), what |-> Folder]
  <2>1. Missing(at) \subseteq 1..(Len(at) - 1)
    BY DEF Missing
  <2>2. i \in Missing(at) /\ \A k \in Missing(at) : i <= k
    <3>1. \E j \in Missing(at) : \A k \in Missing(at) : j <= k
      <4>1. Missing(at) \in SUBSET Nat
        BY <1>2, <2>1
      <4>2. QED
        BY <1>3, <4>1, Smallest
    <3>2. QED
      BY <3>1
  <2>3. Adds(node)
    BY <1>3 DEF Upload, Adds
  <2> HIDE DEF i
  <2>4. i \in 1..Len(at) /\ i # Len(at) /\ At(nodes, SubSeq(at, 1, i)) = {}
    BY <1>2, <2>1, <2>2 DEF Missing
  <2>5. i > 1 => At(nodes, SubSeq(at, 1, i - 1)) # {}
    <3>1. i > 1 => i - 1 \in 1..(Len(at) - 1) /\ ~(i <= i - 1)
      BY <1>2, <2>1, <2>2
    <3>2. QED
      BY <2>2, <3>1 DEF Missing
  <2>6. node \in Node /\ node.at = SubSeq(at, 1, i) /\ node.what = Folder
    BY <1>1, <2>4, StartsOf DEF Node
  <2> HIDE DEF node
  <2>7. Grows(p, node)
    BY <2>4, <2>5, <2>6 DEF Grows
  <2>8. QED
    BY <1>1, <2>3, <2>6, <2>7 DEF AddsNext
<1>4. CASE Missing(at) = {} /\ At(nodes, at) = {}
  <2> DEFINE node == [at |-> at, what |-> listing[p].what]
  <2>1. Adds(node)
    BY <1>4 DEF Upload, Adds
  <2>2. node \in Node /\ node.at = at /\ node.what = listing[p].what
    BY <1>1 DEF Node
  <2>3. Len(at) > 1 => At(nodes, SubSeq(at, 1, Len(at) - 1)) # {}
    <3>1. Len(at) > 1 => Len(at) - 1 \in 1..(Len(at) - 1)
      BY <1>2
    <3>2. QED
      BY <1>4, <3>1 DEF Missing
  <2> HIDE DEF node
  <2>4. Grows(p, node)
    <3>1. Len(at) \in 1..Len(at)
      BY <1>2
    <3>2. QED
      BY <1>2, <1>4, <2>2, <2>3, <3>1 DEF Grows
  <2>5. QED
    BY <1>1, <2>1, <2>2, <2>4 DEF AddsNext
<1>5. CASE Missing(at) = {} /\ At(nodes, at) # {}
  BY <1>1, <1>5 DEF Upload, Revises
<1>6. QED
  BY <1>3, <1>4, <1>5

LEMMA NodesChange ==
  ASSUME TypeOK, [Next]_vars
  PROVE  UNCHANGED nodes \/ RemovesFiles \/ RemovesTrees \/ AddsDouble \/ AddsNext \/ Revises
<1> DEFINE Goal == \/ UNCHANGED nodes \/ RemovesFiles \/ RemovesTrees
                   \/ AddsDouble \/ AddsNext \/ Revises
<1>1. UNCHANGED vars => Goal
  BY DEF vars
<1>2. ASSUME NEW x \in Entry, NEW n, NEW c, Delete(x) \/ Recase(x, n) \/ Write(x, n, c)
      PROVE  Goal
  BY <1>2 DEF Delete, Recase, Write
<1>3. ASSUME NEW u \in Uid, Discard(u) PROVE Goal
  <2> DEFINE in == {nodes[u].at}
  <2>1. in \in SUBSET Path
    BY <1>3, LiveNodes DEF Discard, Node
  <2>2. nodes' = [v \in Uid |-> IF v \in Under(nodes[u].at) THEN Absent ELSE nodes[v]]
    BY <1>3 DEF Discard
  <2>3. UNION {Under(at) : at \in in} = Under(nodes[u].at)
    OBVIOUS
  <2>4. QED
    BY <2>1, <2>2, <2>3 DEF RemovesTrees, Removes
<1>4. ASSUME NEW u \in Uid, NEW c \in Content, Duplicate(u, c) PROVE Goal
  <2> DEFINE node == [at |-> nodes[u].at, what |-> c]
  <2>1. u \in Files(nodes) /\ Adds(node) /\ meddles' = meddles + 1 /\ UNCHANGED walk
    BY <1>4 DEF Duplicate, Meddle, Adds
  <2>2. node \in Node /\ node.at = nodes[u].at /\ node.what \in Content
    BY <2>1, LiveNodes DEF Node, Files
  <2> HIDE DEF node
  <2>3. Doubles(node)
    BY <2>1, <2>2 DEF Doubles
  <2>4. QED
    BY <2>1, <2>2, <2>3 DEF AddsDouble
<1>5. StartRun => Goal
  BY DEF StartRun
<1>6. ASSUME NEW p \in File, Upload(p) PROVE Goal
  BY <1>6, UploadGrows
<1>7. StartTrash \/ EndTrash \/ OpenWalk \/ SkipReconcile \/ StopWalk \/ WalkFails \/ Correct => Goal
  BY DEF StartTrash, EndTrash, OpenWalk, SkipReconcile, StopWalk, WalkFails, Correct
<1>8. ASSUME NEW dir \in groups, TrashGroup(dir) PROVE Goal
  <2>1. PICK gone \in SUBSET UNION {Choice(p) : p \in Group(dir)} : Removes(gone)
    BY <1>8 DEF TrashGroup, Removes
  <2>2. \A p : Choice(p) \subseteq Files(nodes)
    BY DEF Choice
  <2>3. QED
    BY <2>1, <2>2 DEF RemovesFiles
<1>9. ASSUME NEW dir \in groups, ListingFails(dir) PROVE Goal
  BY <1>9 DEF ListingFails
<1>10. ASSUME NEW f \in Uid \cup {Top}, ListFolder(f) PROVE Goal
  BY <1>10 DEF ListFolder
<1>11. ASSUME TrashStrays \/ TrashRaises PROVE Goal
  <2>1. PICK gone \in SUBSET UNION {Resolved(t, Files(nodes)) : t \in strays} : Removes(gone)
    BY <1>11 DEF TrashStrays, TrashRaises, Removes
  <2>2. \A t : Resolved(t, Files(nodes)) \subseteq Files(nodes)
    BY DEF Resolved
  <2>3. QED
    BY <2>1, <2>2 DEF RemovesFiles
<1>12. ASSUME TrashFolders \/ FoldersRaise PROVE Goal
  <2>0. PICK going \in SUBSET Resolving : nodes' = Without(going)
    BY <1>12 DEF TrashFolders, FoldersRaise
  <2> DEFINE in == {walk.seen[v].at : v \in going}
             gone == UNION {Under(at) : at \in in}
  <2>1. going \subseteq Dirs(walk.seen)
    BY DEF Resolving, StrayFolders, StrayDirs
  <2>2. in \in SUBSET Path
    BY <2>1, LiveNodes DEF Dirs, Node
  <2>3. nodes' = [u \in Uid |-> IF \E v \in going : u \in Under(walk.seen[v].at)
                              THEN Absent ELSE nodes[u]]
    BY <2>0 DEF Without
  <2>4. \A u : u \in gone <=> \E v \in going : u \in Under(walk.seen[v].at)
    OBVIOUS
  <2> HIDE DEF gone
  <2>5. Removes(gone)
    BY <2>3, <2>4 DEF Removes
  <2>6. QED
    BY <2>2, <2>5 DEF RemovesTrees, gone
<1>13. QED
  BY <1>1, <1>2, <1>3, <1>4, <1>5, <1>6, <1>7, <1>8, <1>9, <1>10, <1>11, <1>12
     DEF Next, Outside, Steps

\* A node that is added is one that no node, row or walk has been.
LEMMA AddsOne ==
  ASSUME TypeOK, NEW node \in Node, Adds(node)
  PROVE  /\ nodes' \in Nodes
         /\ \E u \in Uid : /\ nodes[u] = Absent /\ walk.seen[u] = Absent /\ nodes'[u] = node
                           /\ \A v \in Uid \ {u} : nodes'[v] = nodes[v]
<1>1. New \in Uid /\ nodes[New] = Absent /\ walk.seen[New] = Absent
  BY DEF Adds, New, Unused, Live
<1>2. nodes \in Nodes
  BY DEF TypeOK
<1>3. nodes' = [nodes EXCEPT ![New] = node]
  BY DEF Adds
<1>4. QED
  BY <1>1, <1>2, <1>3 DEF Nodes

\* A revised node stays where it is, and a file.
LEMMA RevisesOne ==
  ASSUME TypeOK, WellNamed, Revises
  PROVE  /\ nodes' \in Nodes /\ Live' = Live /\ Files(nodes') = Files(nodes)
         /\ \A u \in Live : nodes'[u].at = nodes[u].at /\ (nodes'[u].what = Folder <=> nodes[u].what = Folder)
<1>0. PICK p \in changed : \E u \in At(nodes, listing[p].at) :
        nodes' = [nodes EXCEPT ![u].what = listing[p].what]
  BY DEF Revises
<1>1. PICK u \in At(nodes, listing[p].at) : nodes' = [nodes EXCEPT ![u].what = listing[p].what]
  BY <1>0
<1>2. /\ p \in Listed /\ listing[p].what \in Content /\ listing[p].what # Folder
      /\ u \in Live /\ nodes[u].at = listing[p].at
  BY <1>1, LiveNodes DEF At, Live
<1>3. nodes[u].what # Folder
  <2>1. PICK x \in Entry : nodes[u].at \in Spelled[x] /\ (nodes[u].what = Folder <=> x \in Dir)
    BY <1>2 DEF WellNamed, OfEntry, Live
  <2>2. p \in File /\ p \in Entry /\ listing[p].at \in Spelled[p]
    BY <1>2 DEF WellNamed, Listed, Entry
  <2>3. x = p
    BY <1>2, <2>1, <2>2, OneEntry
  <2>4. QED
    BY <2>1, <2>2, <2>3, TreeAssumption
<1>4. nodes \in [Uid -> Node \cup {Absent}] /\ u \in Uid /\ nodes[u] \in Node /\ Absent \notin Node
  BY <1>2, LiveNodes DEF TypeOK, Nodes
<1> DEFINE new == [nodes[u] EXCEPT !.what = listing[p].what]
<1>5. new \in Node /\ new.at = nodes[u].at /\ new.what = listing[p].what
  BY <1>2, <1>4 DEF Node
<1>6. nodes' = [nodes EXCEPT ![u] = new]
  BY <1>1, <1>4
<1> HIDE DEF new
<1>7. nodes' \in [Uid -> Node \cup {Absent}] /\ nodes'[u] = new
      /\ \A v \in Uid \ {u} : nodes'[v] = nodes[v]
  BY <1>4, <1>5, <1>6
<1>8. Live' = Live
  BY <1>2, <1>4, <1>5, <1>7 DEF Live
<1>9. Files(nodes') = Files(nodes)
  BY <1>2, <1>3, <1>4, <1>5, <1>7 DEF Files
<1>10. QED
  BY <1>2, <1>3, <1>5, <1>7, <1>8, <1>9 DEF Live, Nodes
-----------------------------------------------------------------------------
\* What a step may do to each of the other variables.
Owner == \E x \in Entry : \/ Delete(x)
                          \/ \E n \in Names[x] : \/ Recase(x, n)
                                                 \/ \E c \in Content \cup {Folder} : Write(x, n, c)
Uploads      == \E p \in File : Upload(p)
TrashesGroup == \E dir \in groups : TrashGroup(dir)
Lists        == \E f \in Uid \cup {Top} : ListFolder(f)
Ends         == EndRun /\ UNCHANGED rows

Frame ==
  /\ UNCHANGED dropbox \/ Owner
  /\ UNCHANGED rows \/ Uploads \/ EndTrash \/ Correct
  /\ UNCHANGED <<listing, changed>> \/ StartRun \/ Ends \/ (Uploads /\ UNCHANGED listing)
  /\ UNCHANGED settled \/ TrashesGroup \/ EndTrash \/ Ends
  /\ UNCHANGED <<known, strays>> \/ Correct \/ Ends
  /\ UNCHANGED walk \/ OpenWalk \/ Lists \/ Correct \/ walk' = NoWalk
  /\ \/ UNCHANGED <<settled, pc>> \/ pc' = "trash" \/ settled' = {}
     \/ pc # "trash" /\ UNCHANGED settled
  /\ pc' = "strays" => Correct \/ UNCHANGED <<pc, rows, listing, known, strays, walk>>
  /\ pc' = "folders" => \/ UNCHANGED <<pc, rows, listing, known, walk>>
                        \/ pc = "strays" /\ UNCHANGED <<rows, listing, known, walk>>
  /\ pc' \in {"idle", "upload", "trash", "reconcile", "walk", "walking", "strays", "folders", pc}
  /\ \A n \in {<<recases, recases'>>, <<meddles, meddles'>>, <<faults, faults'>>} :
       n[2] = n[1] \/ n[2] = n[1] + 1
  /\ edits' = edits \/ edits' = edits + 1 \/ Correct

LEMMA Framed ==
  ASSUME [Next]_vars
  PROVE  Frame
<1>1. UNCHANGED vars => Frame
  BY DEF vars, Frame
<1>2. ASSUME NEW x \in Entry, Delete(x) PROVE Frame
  BY <1>2 DEF Delete, Edit, Frame, Owner
<1>3. ASSUME NEW x \in Entry, NEW n \in Names[x], Recase(x, n) PROVE Frame
  <2>1. Owner
    BY <1>3 DEF Owner
  <2>2. recases' = recases + 1 /\ UNCHANGED <<nodes, rows, run, walk, edits, meddles, faults, pc>>
    BY <1>3 DEF Recase, Recasing
  <2>3. QED
    BY <2>1, <2>2 DEF Frame
<1>4. ASSUME NEW x \in Entry, NEW n \in Names[x], NEW c \in Content \cup {Folder}, Write(x, n, c)
      PROVE  Frame
  <2>1. Owner
    BY <1>4 DEF Owner
  <2>2. recases' = recases \/ recases' = recases + 1
    BY <1>4 DEF Write, Recasing
  <2>3. edits' = edits + 1 /\ UNCHANGED <<nodes, rows, run, walk, meddles, faults, pc>>
    BY <1>4 DEF Write, Edit
  <2>4. QED
    BY <2>1, <2>2, <2>3 DEF Frame
<1>5. ASSUME NEW u \in Uid, Discard(u) PROVE Frame
  BY <1>5 DEF Discard, Meddle, Frame
<1>6. ASSUME NEW u \in Uid, NEW c \in Content, Duplicate(u, c) PROVE Frame
  BY <1>6 DEF Duplicate, Meddle, Frame
<1>7. StartRun => Frame
  BY DEF StartRun, Frame
<1>8. ASSUME NEW p \in File, Upload(p) PROVE Frame
  <2>1. UNCHANGED <<dropbox, listing, folders, groups, settled, walk, known, strays, spent, pc>>
        /\ pc = "upload"
    BY <1>8 DEF Upload
  <2>2. Uploads
    BY <1>8 DEF Uploads
  <2>3. QED
    BY <2>1, <2>2 DEF Frame
<1>9. StartTrash => Frame
  BY DEF StartTrash, Frame
<1>10. ASSUME NEW dir \in groups, TrashGroup(dir) PROVE Frame
  <2>1. TrashesGroup
    BY <1>10 DEF TrashesGroup
  <2>2. /\ pc = "trash"
        /\ UNCHANGED <<dropbox, rows, listing, folders, changed, walk, known, strays, spent, pc>>
    BY <1>10 DEF TrashGroup
  <2>3. QED
    BY <2>1, <2>2 DEF Frame
<1>11. ASSUME NEW dir \in groups, ListingFails(dir) PROVE Frame
  BY <1>11 DEF ListingFails, Fault, Frame
<1>12. EndTrash => Frame
  BY DEF EndTrash, Frame
<1>13. SkipReconcile \/ StopWalk \/ WalkFails => Frame
  BY DEF SkipReconcile, StopWalk, WalkFails, EndRun, Ends, Frame
<1>14. OpenWalk => Frame
  BY DEF OpenWalk, Frame
<1>15. ASSUME NEW f \in Uid \cup {Top}, ListFolder(f) PROVE Frame
  <2>1. pc' = "walking" /\ UNCHANGED <<cloud, rows, run, spent>> /\ pc # "trash"
    BY <1>15 DEF ListFolder
  <2>2. Lists
    BY <1>15 DEF Lists
  <2>3. QED
    BY <2>1, <2>2 DEF Frame
<1>16. ASSUME Correct PROVE Frame
  <2>1. /\ pc # "trash" /\ pc' = "strays"
        /\ UNCHANGED <<dropbox, listing, folders, changed, settled, recases, meddles, faults>>
    BY <1>16 DEF Correct, cloud
  <2>2. QED
    BY <1>16, <2>1 DEF Frame
<1>17. TrashStrays => Frame
  BY DEF TrashStrays, Frame
<1>18. TrashRaises => Frame
  BY DEF TrashRaises, Fault, EndRun, Ends, Frame
<1>19. TrashFolders \/ FoldersRaise => Frame
  BY DEF TrashFolders, FoldersRaise, Fault, EndRun, Ends, Frame
<1>20. QED
  BY <1>1, <1>2, <1>3, <1>4, <1>5, <1>6, <1>7, <1>8, <1>9, <1>10, <1>11, <1>12, <1>13, <1>14,
     <1>15, <1>16, <1>17, <1>18, <1>19 DEF Next, Outside, Steps

\* The nodes the correction has a size for, and how many it has none for.
LEMMA SizedNodes ==
  ASSUME Correct
  PROVE  \E sized \in SUBSET Uid, n \in Nat :
           rows' = [q \in File |-> Corrected(q, sized)] /\ edits' = edits + n
<1>1. PICK shown \in Dictionaries :
        \E sized \in (IF MayLackSize THEN SUBSET shown ELSE {shown}) :
          edits' = edits + Cardinality(shown \ sized) /\ rows' = [p \in File |-> Corrected(p, sized)]
  BY DEF Correct
<1>2. shown \subseteq Uid
  BY DEF Dictionaries, Files
<1>3. PICK sized \in SUBSET shown :
        edits' = edits + Cardinality(shown \ sized) /\ rows' = [p \in File |-> Corrected(p, sized)]
  BY <1>1
<1>4. Cardinality(shown \ sized) \in Nat
  <2>1. IsFiniteSet(shown \ sized)
    BY <1>2, UidFinite, FS_Subset
  <2>2. QED
    BY <2>1, FS_CardinalityType
<1>5. QED
  BY <1>2, <1>3, <1>4

\* The rows: one is written as its file is uploaded, or dropped, or given another UID.
LEMMA RowsChange ==
  ASSUME TypeOK, [Next]_vars, NEW p \in File, rows'[p] # Absent
  PROVE  /\ rows'[p] \in [at : Path, what : Content, uid : Uid \cup {NoUid}]
         /\ \/ rows[p] # Absent /\ rows'[p].at = rows[p].at
            \/ p \in Listed /\ rows'[p].at = listing[p].at
<1> DEFINE Row  == [at : Path, what : Content, uid : Uid \cup {NoUid}]
           Goal == rows'[p] \in Row /\ \/ rows[p] # Absent /\ rows'[p].at = rows[p].at
                                       \/ p \in Listed /\ rows'[p].at = listing[p].at
<1>0. \A q \in File : rows[q] \in Row \cup {Absent}
  BY DEF TypeOK
<1>1. CASE UNCHANGED rows
  BY <1>0, <1>1
<1>2. ASSUME NEW q \in File, Upload(q) PROVE Goal
  <2>1. CASE UNCHANGED rows
    BY <1>0, <2>1
  <2>2. CASE ~ UNCHANGED rows
    <3> DEFINE row == [at |-> listing[q].at, what |-> listing[q].what,
                       uid |-> IF rows[q] = Absent THEN NoUid ELSE rows[q].uid]
    <3>1. q \in changed /\ rows' = [rows EXCEPT ![q] = row]
      BY <1>2, <2>2 DEF Upload
    <3>2. q \in Listed /\ listing[q].at \in Path /\ listing[q].what \in Content
      BY <3>1, LiveNodes
    <3>3. row \in Row /\ row.at = listing[q].at
      BY <1>0, <3>2
    <3> HIDE DEF row
    <3>4. rows \in [File -> Row \cup {Absent}]
      BY DEF TypeOK
    <3>5. IF p = q THEN rows'[p] = row ELSE rows'[p] = rows[p]
      BY <3>1, <3>4
    <3>6. QED
      BY <1>0, <3>2, <3>3, <3>5
  <2>3. QED
    BY <2>1, <2>2
<1>3. CASE EndTrash
  <2>1. rows' = [q \in File |-> IF q \in settled THEN Absent ELSE rows[q]]
    BY <1>3 DEF EndTrash
  <2>2. rows'[p] = rows[p]
    BY <2>1
  <2>3. QED
    BY <1>0, <2>2
<1>4. CASE Correct
  <2>1. PICK sized \in SUBSET Uid : rows' = [q \in File |-> Corrected(q, sized)]
    BY <1>4, SizedNodes
  <2>2. sized \subseteq Uid
    OBVIOUS
  <2> DEFINE found == {u \in sized : SeenKey(u) = RowKey(p) /\ walk.seen[u].what = rows[p].what}
             last  == CHOOSE u \in found : TRUE
  <2>3. /\ p \in Recorded /\ found # {}
        /\ rows'[p] = [rows[p] EXCEPT !.uid = last]
    BY <2>1 DEF Corrected
  <2>4. last \in Uid
    BY <2>2, <2>3
  <2>5. rows[p] \in Row /\ rows[p] # Absent
    BY <1>0, <2>3 DEF Recorded
  <2> HIDE DEF last
  <2>6. rows'[p] \in Row /\ rows'[p].at = rows[p].at
    BY <2>3, <2>4, <2>5
  <2>7. QED
    BY <2>5, <2>6
<1>5. QED
  BY <1>1, <1>2, <1>3, <1>4, Framed DEF Frame, Uploads

\* The walk: it finds a node where it is, or is forgotten.
LEMMA WalkChange ==
  ASSUME TypeOK, [Next]_vars, NEW u \in Uid
  PROVE  \/ walk'.seen[u] \in {walk.seen[u], Absent}
         \/ UNCHANGED nodes /\ u \in Live /\ walk'.seen[u] = nodes[u]
<1> DEFINE Goal == \/ walk'.seen[u] \in {walk.seen[u], Absent}
                   \/ UNCHANGED nodes /\ u \in Live /\ walk'.seen[u] = nodes[u]
<1>0. /\ walk \in [status : {"none", "running", "complete"},
                   pending : SUBSET (Uid \cup {Top}), seen : Nodes]
      /\ NoNodes[u] = Absent
  BY DEF TypeOK, NoNodes
<1>1. CASE UNCHANGED walk
  BY <1>1
<1>2. CASE OpenWalk
  BY <1>0, <1>2 DEF OpenWalk
<1>3. ASSUME NEW f \in Uid \cup {Top}, ListFolder(f) PROVE Goal
  <2> DEFINE seen == [v \in Uid |-> IF v \in Children(f) THEN nodes[v] ELSE walk.seen[v]]
  <2>1. walk'.seen = seen /\ UNCHANGED nodes
    BY <1>0, <1>3 DEF ListFolder
  <2>2. seen[u] = IF u \in Children(f) THEN nodes[u] ELSE walk.seen[u]
    OBVIOUS
  <2>3. QED
    BY <2>1, <2>2 DEF Children
<1>4. CASE Correct
  BY <1>0, <1>4 DEF Correct
<1>5. CASE walk' = NoWalk
  BY <1>0, <1>5 DEF NoWalk
<1>6. QED
  BY <1>1, <1>2, <1>3, <1>4, <1>5, Framed DEF Frame, Lists

\* The listing: the one there was, none, or the one a run starts with.
LEMMA ListingChange ==
  ASSUME TypeOK, [Next]_vars, NEW p \in File, listing'[p] # Absent
  PROVE  \/ listing'[p] = listing[p]
         \/ /\ dropbox[p] # Absent /\ UNCHANGED dropbox /\ p \in Entry
            /\ \E own : listing'[p] = [at |-> DisplayPath(p, own), what |-> dropbox[p].what]
<1>1. CASE UNCHANGED listing
  BY <1>1
<1>2. CASE Ends
  BY <1>2 DEF Ends, EndRun
<1>3. CASE StartRun
  <2>1. PICK own \in OwnCasings :
          listing' = [q \in File |-> IF dropbox[q] = Absent THEN Absent
                        ELSE [at |-> DisplayPath(q, own), what |-> dropbox[q].what]]
    BY <1>3 DEF StartRun
  <2> DEFINE shows(q) == [at |-> DisplayPath(q, own), what |-> dropbox[q].what]
  <2> HIDE DEF shows
  <2>2. listing'[p] = IF dropbox[p] = Absent THEN Absent ELSE shows(p)
    BY <2>1 DEF shows
  <2>3. dropbox[p] # Absent /\ listing'[p] = shows(p)
    BY <2>2
  <2>4. UNCHANGED dropbox /\ p \in Entry
    BY <1>3 DEF StartRun, Entry
  <2>5. QED
    BY <2>3, <2>4 DEF shows
<1>4. QED
  BY <1>1, <1>2, <1>3, Framed DEF Frame
-----------------------------------------------------------------------------
\* The parts of the invariant, one after the other.

\* Dropbox is a tree of the entries that are there.
DropboxInOrder ==
  /\ dropbox \in [Entry -> Named \cup {Absent}]
  /\ \A x \in Entry : dropbox[x] # Absent =>
       /\ dropbox[x].name \in Names[x] /\ (dropbox[x].what = Folder <=> x \in Dir)
       /\ Up[x] # Top => dropbox[Up[x]] # Absent

LEMMA DropboxNext ==
  ASSUME TypeOK, [Next]_vars
  PROVE  DropboxInOrder'
<1>0. DropboxInOrder
  BY DEF TypeOK, DropboxInOrder
<1>1. CASE UNCHANGED dropbox
  BY <1>0, <1>1 DEF DropboxInOrder
<1>2. ASSUME NEW x \in Entry, NEW n \in Names[x], NEW entry \in Named,
             dropbox' = [dropbox EXCEPT ![x] = entry], entry.name = n,
             entry.what = Folder <=> x \in Dir, Up[x] # Top => dropbox[Up[x]] # Absent
      PROVE  DropboxInOrder'
  <2>1. entry # Absent
    BY TreeAssumption
  <2>2. \A y \in Entry : dropbox'[y] = IF y = x THEN entry ELSE dropbox[y]
    BY <1>0, <1>2 DEF DropboxInOrder
  <2>3. dropbox' \in [Entry -> Named \cup {Absent}]
    BY <1>0, <1>2 DEF DropboxInOrder
  <2>4. ASSUME NEW y \in Entry, dropbox'[y] # Absent
        PROVE  /\ dropbox'[y].name \in Names[y] /\ (dropbox'[y].what = Folder <=> y \in Dir)
               /\ Up[y] # Top => dropbox'[Up[y]] # Absent
    <3>1. CASE y = x
      BY <1>2, <2>1, <2>2, <3>1, UpIs
    <3>2. CASE y # x
      <4>1. dropbox'[y] = dropbox[y] /\ dropbox[y] # Absent
        BY <2>2, <2>4, <3>2
      <4>2. Up[y] # Top => dropbox[Up[y]] # Absent /\ Up[y] \in Entry
        BY <1>0, <4>1, UpIs DEF DropboxInOrder
      <4>3. Up[y] # Top => dropbox'[Up[y]] # Absent
        BY <2>1, <2>2, <4>2
      <4>4. QED
        BY <1>0, <4>1, <4>3 DEF DropboxInOrder
    <3>3. QED
      BY <3>1, <3>2
  <2>5. QED
    BY <2>3, <2>4 DEF DropboxInOrder
<1>3. ASSUME NEW x \in Entry, NEW n \in Names[x], NEW c \in Content \cup {Folder}, Write(x, n, c)
      PROVE  DropboxInOrder'
  <2> DEFINE entry == [name |-> n, what |-> c]
  <2>1. dropbox' = [dropbox EXCEPT ![x] = entry]
    BY <1>3 DEF Write
  <2>2. entry \in Named /\ entry.name = n /\ entry.what = c
    BY DEF Named, Name
  <2>3. c = Folder <=> x \in Dir
    <3>1. c \in IF x \in Dir THEN {Folder} ELSE Values[x]
      BY <1>3 DEF Write
    <3>2. x \notin Dir => Values[x] \subseteq Content
      BY TreeAssumption DEF Entry
    <3>3. QED
      BY <3>1, <3>2, TreeAssumption
  <2>4. Up[x] # Top => dropbox[Up[x]] # Absent
    BY <1>0, <1>3 DEF Write, DropboxInOrder
  <2> HIDE DEF entry
  <2>5. QED
    BY <1>2, <2>1, <2>2, <2>3, <2>4
<1>4. ASSUME NEW x \in Entry, NEW n \in Names[x], Recase(x, n) PROVE DropboxInOrder'
  <2> DEFINE entry == [dropbox[x] EXCEPT !.name = n]
  <2>1. dropbox[x] \in Named /\ dropbox[x] # Absent
    BY <1>0, <1>4 DEF Recase, DropboxInOrder
  <2>2. entry \in Named /\ entry.name = n /\ entry.what = dropbox[x].what
    BY <2>1 DEF Named, Name
  <2>3. dropbox' = [dropbox EXCEPT ![x] = entry]
    BY <1>0, <1>4 DEF Recase, DropboxInOrder
  <2> HIDE DEF entry
  <2>4. (entry.what = Folder <=> x \in Dir) /\ (Up[x] # Top => dropbox[Up[x]] # Absent)
    BY <1>0, <2>1, <2>2 DEF DropboxInOrder
  <2>5. QED
    BY <1>2, <2>2, <2>3, <2>4
<1>5. ASSUME NEW x \in Entry, Delete(x) PROVE DropboxInOrder'
  <2>1. dropbox' = [y \in Entry |-> IF y \in Inside(x) THEN Absent ELSE dropbox[y]]
    BY <1>5 DEF Delete
  <2>2. \A y \in Entry : dropbox'[y] = IF y \in Inside(x) THEN Absent ELSE dropbox[y]
    BY <2>1
  <2>3. dropbox' \in [Entry -> Named \cup {Absent}]
    BY <1>0, <2>1 DEF DropboxInOrder
  <2>4. ASSUME NEW y \in Entry, dropbox'[y] # Absent
        PROVE  /\ dropbox'[y].name \in Names[y] /\ (dropbox'[y].what = Folder <=> y \in Dir)
               /\ Up[y] # Top => dropbox'[Up[y]] # Absent
    <3>1. dropbox'[y] = dropbox[y] /\ dropbox[y] # Absent /\ y \notin Inside(x)
      BY <2>2, <2>4
    <3>2. Up[y] # Top => Up[y] \notin Inside(x) /\ Up[y] \in Entry /\ dropbox[Up[y]] # Absent
      BY <1>0, <3>1, InsideDef, UpIs DEF DropboxInOrder
    <3>3. QED
      BY <1>0, <2>2, <3>1, <3>2 DEF DropboxInOrder
  <2>5. QED
    BY <2>3, <2>4 DEF DropboxInOrder
<1>6. QED
  BY <1>1, <1>3, <1>4, <1>5, Framed DEF Frame, Owner

\* Every node is in a folder that is there too.
NodesInOrder ==
  /\ nodes \in Nodes
  /\ \A u \in Live : Len(nodes[u].at) > 1 =>
       \E v \in Dirs(nodes) : nodes[v].at = Front(nodes[u].at)

LEMMA Removed ==
  ASSUME TypeOK, NEW gone, Removes(gone)
  PROVE  /\ nodes' \in Nodes /\ \A u \in Uid : nodes'[u] = IF u \in gone THEN Absent ELSE nodes[u]
         /\ Live' = Live \ gone
<1>1. nodes \in Nodes
  BY DEF TypeOK
<1>2. QED
  BY <1>1 DEF Removes, Nodes, Live

\* An added node is in a folder that is there, and the other nodes stay in theirs.
LEMMA AddedNode ==
  ASSUME TypeOK, NEW node \in Node, Adds(node),
         Len(node.at) > 1 => \E v \in Dirs(nodes) : nodes[v].at = Front(node.at)
  PROVE  NodesInOrder'
<1>1. PICK n \in Uid : /\ nodes[n] = Absent /\ walk.seen[n] = Absent /\ nodes'[n] = node
                       /\ \A v \in Uid \ {n} : nodes'[v] = nodes[v]
  BY AddsOne
<1>2. \A v \in Dirs(nodes) : v \in Dirs(nodes') /\ nodes'[v].at = nodes[v].at
  BY <1>1 DEF Dirs
<1>3. ASSUME NEW u \in Live', Len(nodes'[u].at) > 1
      PROVE  \E v \in Dirs(nodes') : nodes'[v].at = Front(nodes'[u].at)
  <2>1. \E v \in Dirs(nodes) : nodes[v].at = Front(nodes'[u].at)
    <3>1. CASE u = n
      BY <1>1, <1>3, <3>1
    <3>2. CASE u # n
      <4>1. u \in Live /\ nodes'[u] = nodes[u]
        BY <1>1, <3>2 DEF Live
      <4>2. QED
        BY <1>3, <4>1 DEF TypeOK
    <3>3. QED
      BY <3>1, <3>2
  <2>2. QED
    BY <1>2, <2>1
<1>4. QED
  BY <1>3, AddsOne DEF NodesInOrder

LEMMA NodesNext ==
  ASSUME TypeOK, WellNamed, [Next]_vars
  PROVE  NodesInOrder'
<1>0. NodesInOrder
  BY DEF TypeOK, NodesInOrder
<1>1. CASE UNCHANGED nodes
  BY <1>0, <1>1 DEF NodesInOrder, Live, Dirs
<1>2. ASSUME NEW gone, Removes(gone),
             \A u \in Live : \A v \in Dirs(nodes) :
               v \in gone /\ Len(nodes[u].at) > 1 /\ nodes[v].at = Front(nodes[u].at) => u \in gone
      PROVE  NodesInOrder'
  <2>1. ASSUME NEW u \in Live', Len(nodes'[u].at) > 1
        PROVE  \E v \in Dirs(nodes') : nodes'[v].at = Front(nodes'[u].at)
    <3>1. u \in Live \ gone /\ nodes'[u] = nodes[u]
      BY <1>2, Removed DEF Live
    <3>2. PICK v \in Dirs(nodes) : nodes[v].at = Front(nodes[u].at)
      BY <1>0, <2>1, <3>1 DEF NodesInOrder
    <3>3. v \notin gone /\ v \in Uid
      BY <1>2, <2>1, <3>1, <3>2 DEF Dirs
    <3>4. nodes'[v] = nodes[v]
      BY <1>2, <3>3, Removed
    <3>5. v \in Dirs(nodes')
      BY <3>2, <3>4 DEF Dirs
    <3>6. QED
      BY <3>1, <3>2, <3>4, <3>5
  <2>2. QED
    BY <1>2, <2>1, Removed DEF NodesInOrder
<1>3. CASE RemovesFiles
  <2>1. PICK gone \in SUBSET Files(nodes) : Removes(gone)
    BY <1>3 DEF RemovesFiles
  <2>2. \A v \in Dirs(nodes) : v \notin gone
    BY DEF Dirs, Files
  <2>3. QED
    BY <1>2, <2>1, <2>2
<1>4. CASE RemovesTrees
  <2>1. PICK in \in SUBSET Path : Removes(UNION {Under(at) : at \in in})
    BY <1>4 DEF RemovesTrees
  <2> DEFINE gone == UNION {Under(at) : at \in in}
  <2>2. ASSUME NEW u \in Live, NEW v \in Dirs(nodes), v \in gone,
               Len(nodes[u].at) > 1, nodes[v].at = Front(nodes[u].at)
        PROVE  u \in gone
    <3>1. PICK at \in in : v \in Under(at)
      BY <2>2
    <3>2. IsPrefix(at, Front(nodes[u].at))
      BY <2>2, <3>1 DEF Under
    <3>3. nodes[u].at \in Path /\ at \in Path
      BY LiveNodes DEF Node
    <3>4. u \in Under(at)
      BY <2>2, <3>2, <3>3, PrefixOfFront DEF Under
    <3>5. QED
      BY <3>4
  <2> HIDE DEF gone
  <2>3. Removes(gone)
    BY <2>1 DEF gone
  <2>4. QED
    BY <1>2, <2>2, <2>3
<1>5. CASE AddsDouble
  <2>1. PICK node \in Node : Adds(node) /\ Doubles(node)
    BY <1>5 DEF AddsDouble
  <2>2. PICK u \in Files(nodes) : node.at = nodes[u].at
    BY <2>1 DEF Doubles
  <2>3. u \in Live
    BY DEF Files, Live
  <2>4. Len(node.at) > 1 => \E v \in Dirs(nodes) : nodes[v].at = Front(node.at)
    BY <1>0, <2>2, <2>3 DEF NodesInOrder
  <2>5. QED
    BY <2>1, <2>4, AddedNode
<1>6. CASE AddsNext
  <2>1. PICK p \in changed : \E node \in Node : Adds(node) /\ Grows(p, node)
    BY <1>6 DEF AddsNext
  <2>2. PICK node \in Node : Adds(node) /\ Grows(p, node)
    BY <2>1
  <2> DEFINE at == listing[p].at
  <2>3. p \in Listed /\ at \in Path
    BY LiveNodes
  <2>4. PICK i \in 1..Len(at) : /\ node.at = SubSeq(at, 1, i)
                                /\ i > 1 => At(nodes, SubSeq(at, 1, i - 1)) # {}
    BY <2>2 DEF Grows
  <2>5. ASSUME Len(node.at) > 1 PROVE \E v \in Dirs(nodes) : nodes[v].at = Front(node.at)
    <3>1. i > 1 /\ Len(at) \in Nat \ {0} /\ Front(node.at) = SubSeq(at, 1, i - 1)
      BY <2>3, <2>4, <2>5, StartsOf
    <3>2. PICK v \in At(nodes, SubSeq(at, 1, i - 1)) : TRUE
      BY <2>4, <3>1
    <3>3. v \in Uid /\ nodes[v] # Absent /\ nodes[v].at = SubSeq(at, 1, i - 1)
      BY <3>2 DEF At
    <3>4. PICK x \in Entry : nodes[v].at \in Spelled[x] /\ (nodes[v].what = Folder <=> x \in Dir)
      BY <3>3 DEF WellNamed, OfEntry
    <3>5. i - 1 \in 1..(Len(at) - 1) /\ p \in Entry /\ at \in Spelled[p]
      BY <2>3, <2>4, <3>1 DEF WellNamed, Listed, Entry
    <3>6. \A y \in Entry : Names[y] \subseteq Name
      BY DEF Name
    <3>7. PICK d \in Dir : SubSeq(at, 1, i - 1) \in Spelled[d]
      BY <3>5, <3>6, Beginnings DEF Spelled
    <3>8. x = d
      BY <3>3, <3>4, <3>7, OneEntry DEF Entry
    <3>9. v \in Dirs(nodes)
      BY <3>3, <3>4, <3>8 DEF Dirs
    <3>10. QED
      BY <3>1, <3>3, <3>9
  <2>6. QED
    BY <2>2, <2>5, AddedNode
<1>7. CASE Revises
  <2>1. /\ nodes' \in Nodes /\ Live' = Live
        /\ \A u \in Live : /\ nodes'[u].at = nodes[u].at
                           /\ nodes'[u].what = Folder <=> nodes[u].what = Folder
    BY <1>7, RevisesOne
  <2>2. \A v \in Dirs(nodes) : v \in Dirs(nodes')
    BY <2>1 DEF Dirs, Live
  <2>3. \A v \in Dirs(nodes) : v \in Live
    BY DEF Dirs, Live
  <2>4. ASSUME NEW u \in Live', Len(nodes'[u].at) > 1
        PROVE  \E v \in Dirs(nodes') : nodes'[v].at = Front(nodes'[u].at)
    BY <1>0, <2>1, <2>2, <2>3, <2>4 DEF NodesInOrder
  <2>5. QED
    BY <2>1, <2>4 DEF NodesInOrder
<1>8. QED
  BY <1>1, <1>3, <1>4, <1>5, <1>6, <1>7, NodesChange

LEMMA ListingNext ==
  ASSUME TypeOK, WellNamed, [Next]_vars
  PROVE  /\ listing' \in [File -> [at : Path, what : Content] \cup {Absent}]
         /\ \A p \in Listed' : listing'[p].at \in Spelled[p]
<1>1. ASSUME NEW p \in File, listing'[p] # Absent
      PROVE  listing'[p] \in [at : Path, what : Content] /\ listing'[p].at \in Spelled[p]
  <2>1. CASE listing'[p] = listing[p]
    <3>1. p \in Listed
      BY <1>1, <2>1 DEF Listed
    <3>2. QED
      BY <2>1, <3>1 DEF TypeOK, WellNamed, Listed
  <2>2. CASE listing'[p] # listing[p]
    <3>1. dropbox[p] # Absent /\ p \in Entry
      BY <1>1, <2>2, ListingChange
    <3>2. PICK own : listing'[p] = [at |-> DisplayPath(p, own), what |-> dropbox[p].what]
      BY <1>1, <2>2, ListingChange
    <3>3. DisplayPath(p, own) \in Spelled[p]
      <4>1. \A x \in Entry : dropbox[x] # Absent =>
              dropbox[x].name \in Names[x] /\ (Up[x] # Top => dropbox[Up[x]] # Absent)
        BY DEF TypeOK
      <4>2. QED
        BY <3>1, <4>1, Displays DEF Spelled
    <3>4. DisplayPath(p, own) \in Path
      BY <3>1, <3>3, SpelledType
    <3>5. dropbox[p].what \in Content
      <4>1. dropbox[p] \in Named /\ (dropbox[p].what = Folder <=> p \in Dir)
        BY <3>1 DEF TypeOK
      <4>2. p \notin Dir
        BY TreeAssumption
      <4>3. QED
        BY <4>1, <4>2 DEF Named
    <3>6. QED
      BY <3>2, <3>3, <3>4, <3>5
  <2>3. QED
    BY <2>1, <2>2
<1>2. \E S : listing' \in [File -> S]
  <2>1. CASE UNCHANGED listing
    BY <2>1 DEF TypeOK
  <2>2. CASE Ends
    BY <2>2 DEF Ends, EndRun
  <2>3. CASE StartRun
    <3>1. PICK own \in OwnCasings :
            listing' = [q \in File |-> IF dropbox[q] = Absent THEN Absent
                          ELSE [at |-> DisplayPath(q, own), what |-> dropbox[q].what]]
      BY <2>3 DEF StartRun
    <3> DEFINE S == {listing'[q] : q \in File}
               shown(q) == IF dropbox[q] = Absent THEN Absent
                           ELSE [at |-> DisplayPath(q, own), what |-> dropbox[q].what]
    <3> HIDE DEF shown
    <3>2. listing' = [q \in File |-> shown(q)]
      BY <3>1 DEF shown
    <3>3. listing' \in [File -> S]
      BY <3>2
    <3>4. QED
      BY <3>3
  <2>4. QED
    BY <2>1, <2>2, <2>3, Framed DEF Frame
<1>3. PICK S : listing' \in [File -> S]
  BY <1>2
<1>4. QED
  BY <1>1, <1>3 DEF Listed

LEMMA RowsNext ==
  ASSUME TypeOK, WellNamed, StraysUnknown, [Next]_vars
  PROVE  /\ rows' \in [File -> [at : Path, what : Content, uid : Uid \cup {NoUid}] \cup {Absent}]
         /\ \A p \in Recorded' : rows'[p].at \in Spelled[p]
         /\ changed' \subseteq Listed' /\ settled' \subseteq Recorded'
<1> DEFINE Row == [at : Path, what : Content, uid : Uid \cup {NoUid}]
<1>0. rows \in [File -> Row \cup {Absent}]
  BY DEF TypeOK
<1>1. \A p \in File : rows'[p] \in Row \cup {Absent}
  BY RowsChange
<1>2. \E S : rows' \in [File -> S]
  <2>1. CASE UNCHANGED rows
    BY <1>0, <2>1
  <2>2. CASE Uploads
    <3>1. PICK p \in File : Upload(p)
      BY <2>2 DEF Uploads
    <3> DEFINE row == [at |-> listing[p].at, what |-> listing[p].what,
                       uid |-> IF rows[p] = Absent THEN NoUid ELSE rows[p].uid]
    <3>2. UNCHANGED rows \/ rows' = [rows EXCEPT ![p] = row]
      BY <3>1 DEF Upload
    <3> HIDE DEF row
    <3>3. rows' \in [File -> Row \cup {Absent, row}]
      BY <1>0, <3>2
    <3>4. QED
      BY <3>3
  <2>3. CASE EndTrash
    <3>1. rows' = [q \in File |-> IF q \in settled THEN Absent ELSE rows[q]]
      BY <2>3 DEF EndTrash
    <3>2. rows' \in [File -> Row \cup {Absent}]
      BY <1>0, <3>1
    <3>3. QED
      BY <3>2
  <2>4. CASE Correct
    <3>1. PICK sized \in SUBSET Uid : rows' = [q \in File |-> Corrected(q, sized)]
      BY <2>4, SizedNodes
    <3> DEFINE S == {rows'[q] : q \in File}
    <3>2. rows' \in [File -> S]
      BY <3>1
    <3>3. QED
      BY <3>2
  <2>5. QED
    BY <2>1, <2>2, <2>3, <2>4, Framed DEF Frame
<1>3. rows' \in [File -> Row \cup {Absent}]
  BY <1>1, <1>2
<1>4. \A p \in Recorded' : rows'[p].at \in Spelled[p]
  <2> SUFFICES ASSUME NEW p \in File, rows'[p] # Absent PROVE rows'[p].at \in Spelled[p]
    BY DEF Recorded
  <2>1. QED
    BY RowsChange DEF WellNamed, Recorded, Listed
<1>5. changed' \subseteq Listed'
  <2>1. CASE UNCHANGED <<listing, changed>>
    BY <2>1 DEF TypeOK, Listed
  <2>2. CASE StartRun
    BY <2>2 DEF StartRun, Listed
  <2>3. CASE Ends
    BY <2>3 DEF Ends, EndRun
  <2>4. CASE Uploads /\ UNCHANGED listing
    BY <2>4 DEF Uploads, Upload, TypeOK, Listed
  <2>5. QED
    BY <2>1, <2>2, <2>3, <2>4, Framed DEF Frame
<1>6. settled' \subseteq Recorded'
  <2>1. CASE UNCHANGED <<rows, settled>>
    BY <2>1 DEF TypeOK, Recorded
  <2>2. CASE settled' = {}
    BY <2>2
  <2>3. CASE TrashesGroup
    BY <2>3 DEF TrashesGroup, TrashGroup, TypeOK, Recorded, Group, Deleted
  <2>4. CASE Uploads
    <3>1. pc = "upload" /\ UNCHANGED settled
      BY <2>4 DEF Uploads, Upload
    <3>2. QED
      BY <3>1 DEF StraysUnknown
  <2>5. CASE Correct
    <3>1. pc \in {"walk", "walking"} /\ UNCHANGED settled
      BY <2>5 DEF Correct
    <3>2. QED
      BY <3>1 DEF StraysUnknown
  <2>6. settled' = {} \/ UNCHANGED settled \/ TrashesGroup
    <3>1. Ends \/ EndTrash => settled' = {}
      BY DEF Ends, EndRun, EndTrash
    <3>2. QED
      BY <3>1, Framed DEF Frame
  <2>7. UNCHANGED rows \/ Uploads \/ Correct \/ settled' = {}
    <3>1. EndTrash => settled' = {}
      BY DEF EndTrash
    <3>2. QED
      BY <3>1, Framed DEF Frame
  <2>8. QED
    BY <2>1, <2>2, <2>3, <2>4, <2>5, <2>6, <2>7
<1>7. QED
  BY <1>3, <1>4, <1>5, <1>6

LEMMA WalkNext ==
  ASSUME TypeOK, WellNamed, [Next]_vars
  PROVE  /\ walk' \in [status : {"none", "running", "complete"},
                       pending : SUBSET (Uid \cup {Top}), seen : Nodes]
         /\ \A u \in Uid : walk'.seen[u] # Absent => OfEntry(walk'.seen[u])
<1> DEFINE Walk == [status : {"none", "running", "complete"},
                    pending : SUBSET (Uid \cup {Top}), seen : Nodes]
<1>0. walk \in Walk /\ nodes \in Nodes /\ NoNodes \in Nodes
  BY DEF TypeOK, NoNodes, Nodes
<1>1. walk' \in Walk
  <2>1. CASE UNCHANGED walk
    BY <1>0, <2>1
  <2>2. CASE OpenWalk
    BY <1>0, <2>2 DEF OpenWalk
  <2>3. CASE Lists
    <3>1. PICK f \in Uid \cup {Top} : ListFolder(f)
      BY <2>3 DEF Lists
    <3> DEFINE pending == (walk.pending \ {f}) \cup (Children(f) \cap Dirs(nodes))
               seen == [u \in Uid |-> IF u \in Children(f) THEN nodes[u] ELSE walk.seen[u]]
    <3>2. walk' = [walk EXCEPT !.pending = pending, !.seen = seen]
      BY <1>0, <3>1 DEF ListFolder
    <3>3. pending \in SUBSET (Uid \cup {Top})
      BY <1>0 DEF Dirs
    <3>4. seen \in Nodes
      BY <1>0 DEF Nodes
    <3> HIDE DEF pending, seen
    <3>5. QED
      BY <1>0, <3>2, <3>3, <3>4
  <2>4. CASE Correct
    BY <1>0, <2>4 DEF Correct
  <2>5. CASE walk' = NoWalk
    BY <1>0, <2>5 DEF NoWalk
  <2>6. QED
    BY <2>1, <2>2, <2>3, <2>4, <2>5, Framed DEF Frame
<1>2. ASSUME NEW u \in Uid, walk'.seen[u] # Absent PROVE OfEntry(walk'.seen[u])
  <2>1. CASE walk'.seen[u] = walk.seen[u]
    BY <1>2, <2>1 DEF WellNamed
  <2>2. CASE u \in Live /\ walk'.seen[u] = nodes[u]
    BY <1>2, <2>2 DEF WellNamed, Live
  <2>3. QED
    BY <1>2, <2>1, <2>2, WalkChange
<1>3. QED
  BY <1>1, <1>2

\* What the walk and the trash calls after it go by.
LEMMA CorrectStrays ==
  ASSUME TypeOK, Correct
  PROVE  /\ KnownKeys' \subseteq known'
         /\ \A t \in strays' : \E u \in Files(walk.seen) :
              /\ t = CliPath(u) /\ t \in Target /\ t.at = walk.seen[u].at /\ t.uid \in {NoUid, u}
              /\ Key(t.at) \notin known'
<1>0. PICK sized \in SUBSET Uid : rows' = [p \in File |-> Corrected(p, sized)]
  BY SizedNodes
<1>1. PICK shown \in Dictionaries :
        /\ known' = {RowKey(p) : p \in Recorded} \cup {Key(listing[p].at) : p \in Listed}
        /\ strays' = {CliPath(u) : u \in {v \in shown : SeenKey(v) \notin known'}}
  BY DEF Correct
<1>2. KnownKeys' \subseteq known'
  <2>1. UNCHANGED listing
    BY DEF Correct
  <2>2. ASSUME NEW p \in Recorded' PROVE p \in Recorded /\ RowKey(p)' = RowKey(p)
    <3>1. rows'[p] = Corrected(p, sized) /\ rows'[p] # Absent /\ p \in File
      BY <1>0, <2>2 DEF Recorded
    <3> DEFINE found == {u \in sized : SeenKey(u) = RowKey(p) /\ walk.seen[u].what = rows[p].what}
               last  == CHOOSE u \in found : TRUE
    <3>2. p \in Recorded /\ rows'[p] = [rows[p] EXCEPT !.uid = last]
      BY <3>1 DEF Corrected
    <3>3. rows[p] \in [at : Path, what : Content, uid : Uid \cup {NoUid}]
      BY <3>2 DEF TypeOK, Recorded
    <3> HIDE DEF last
    <3>4. rows'[p].at = rows[p].at
      BY <3>2, <3>3
    <3>5. QED
      BY <3>2, <3>4 DEF RowKey, Key
  <2>3. ASSUME NEW k \in KnownKeys' PROVE k \in known'
    <3>1. CASE \E p \in Recorded' : k = RowKey(p)'
      BY <1>1, <2>2, <3>1
    <3>2. CASE \E p \in Listed' : k = Key(listing[p].at)'
      BY <1>1, <2>1, <3>2 DEF Listed, Key
    <3>3. QED
      BY <2>3, <3>1, <3>2 DEF KnownKeys
  <2>4. QED
    BY <2>3
<1>3. ASSUME NEW t \in strays'
      PROVE  \E u \in Files(walk.seen) :
               /\ t = CliPath(u) /\ t \in Target /\ t.at = walk.seen[u].at /\ t.uid \in {NoUid, u}
               /\ Key(t.at) \notin known'
  <2>1. PICK u \in shown : t = CliPath(u) /\ SeenKey(u) \notin known'
    BY <1>1, <1>3
  <2>2. u \in Files(walk.seen) /\ u \in Uid /\ walk.seen[u] # Absent
    BY DEF Dictionaries, Files
  <2>3. walk.seen[u].at \in Path
    BY <2>2, LiveNodes DEF Node
  <2>4. t.at = walk.seen[u].at /\ t.uid \in {NoUid, u} /\ t \in Target
    BY <2>1, <2>2, <2>3 DEF CliPath, Target
  <2>5. QED
    BY <2>1, <2>2, <2>4 DEF SeenKey
<1>4. QED
  BY <1>2, <1>3

LEMMA TypeNext ==
  ASSUME TypeOK, WellNamed, StraysUnknown, [Next]_vars
  PROVE  TypeOK'
<1>1. DropboxInOrder'
  BY DropboxNext
<1>2. NodesInOrder'
  BY NodesNext
<1>3. strays' \subseteq Target
  <2>1. CASE UNCHANGED strays
    BY <2>1 DEF TypeOK
  <2>2. CASE Correct
    BY <2>2, CorrectStrays
  <2>3. CASE Ends
    BY <2>3 DEF Ends, EndRun
  <2>4. QED
    BY <2>1, <2>2, <2>3, Framed DEF Frame
<1>4. {edits', recases', meddles', faults'} \subseteq Nat
  <2>1. edits \in Nat /\ recases \in Nat /\ meddles \in Nat /\ faults \in Nat
    BY DEF TypeOK
  <2>2. /\ edits' = edits \/ edits' = edits + 1 \/ Correct
        /\ recases' = recases \/ recases' = recases + 1
        /\ meddles' = meddles \/ meddles' = meddles + 1
        /\ faults' = faults \/ faults' = faults + 1
    BY Framed DEF Frame
  <2>3. CASE Correct
    BY <2>1, <2>2, <2>3, SizedNodes
  <2>4. QED
    BY <2>1, <2>2, <2>3
<1>5. pc' \in {"idle", "upload", "trash", "reconcile", "walk", "walking", "strays", "folders"}
  BY Framed DEF Frame, TypeOK
<1>6. QED
  BY <1>1, <1>2, <1>3, <1>4, <1>5, ListingNext, RowsNext, WalkNext
     DEF TypeOK, DropboxInOrder, NodesInOrder

\* A live node after a step: one that was live and has not moved, or one just added.
LEMMA NodeChange ==
  ASSUME TypeOK, WellNamed, [Next]_vars, NEW u \in Live'
  PROVE  \/ /\ u \in Live /\ nodes'[u].at = nodes[u].at
            /\ nodes'[u].what = Folder <=> nodes[u].what = Folder
         \/ /\ nodes[u] = Absent /\ walk.seen[u] = Absent /\ UNCHANGED walk
            /\ \A v \in Uid \ {u} : nodes'[v] = nodes[v]
            /\ \/ meddles' = meddles + 1 /\ \E v \in Files(nodes) :
                    nodes'[u].at = nodes[v].at /\ nodes'[u].what \in Content
               \/ \E p \in changed : Grows(p, nodes'[u])
<1> DEFINE Stays == /\ u \in Live /\ nodes'[u].at = nodes[u].at
                    /\ nodes'[u].what = Folder <=> nodes[u].what = Folder
           Comes == /\ nodes[u] = Absent /\ walk.seen[u] = Absent /\ UNCHANGED walk
                    /\ \A v \in Uid \ {u} : nodes'[v] = nodes[v]
                    /\ \/ meddles' = meddles + 1 /\ \E v \in Files(nodes) :
                            nodes'[u].at = nodes[v].at /\ nodes'[u].what \in Content
                       \/ \E p \in changed : Grows(p, nodes'[u])
<1>1. CASE UNCHANGED nodes
  BY <1>1 DEF Live
<1>2. ASSUME NEW gone, Removes(gone) PROVE Stays
  BY <1>2, Removed DEF Live
<1>3. ASSUME NEW node \in Node, Adds(node), UNCHANGED walk,
             (meddles' = meddles + 1 /\ Doubles(node)) \/ \E p \in changed : Grows(p, node)
      PROVE  Stays \/ Comes
  <2>1. PICK n \in Uid : /\ nodes[n] = Absent /\ walk.seen[n] = Absent /\ nodes'[n] = node
                         /\ \A v \in Uid \ {n} : nodes'[v] = nodes[v]
    BY <1>3, AddsOne
  <2>2. CASE u = n
    BY <1>3, <2>1, <2>2 DEF Doubles
  <2>3. CASE u # n
    BY <2>1, <2>3 DEF Live
  <2>4. QED
    BY <2>2, <2>3
<1>4. CASE AddsDouble
  <2>1. PICK node \in Node : Adds(node) /\ Doubles(node)
    BY <1>4 DEF AddsDouble
  <2>2. QED
    BY <1>3, <1>4, <2>1 DEF AddsDouble
<1>5. CASE AddsNext
  <2>1. PICK p \in changed : \E node \in Node : Adds(node) /\ Grows(p, node)
    BY <1>5 DEF AddsNext
  <2>2. PICK node \in Node : Adds(node) /\ Grows(p, node)
    BY <2>1
  <2>3. QED
    BY <1>3, <1>5, <2>2 DEF AddsNext
<1>6. CASE Revises
  BY <1>6, RevisesOne
<1>7. QED
  BY <1>1, <1>2, <1>4, <1>5, <1>6, NodesChange DEF RemovesFiles, RemovesTrees

LEMMA NamesNext ==
  ASSUME TypeOK, WellNamed, StraysUnknown, [Next]_vars
  PROVE  WellNamed'
<1>1. ASSUME NEW u \in Uid, nodes'[u] # Absent PROVE OfEntry(nodes'[u])
  <2>1. u \in Live'
    BY <1>1 DEF Live
  <2>2. CASE /\ u \in Live /\ nodes'[u].at = nodes[u].at
             /\ nodes'[u].what = Folder <=> nodes[u].what = Folder
    BY <2>2 DEF WellNamed, OfEntry, Live
  <2>3. ASSUME NEW v \in Files(nodes), nodes'[u].at = nodes[v].at, nodes'[u].what \in Content
        PROVE  OfEntry(nodes'[u])
    <3>1. v \in Uid /\ nodes[v] # Absent /\ nodes[v].what # Folder
      BY DEF Files
    <3>2. nodes'[u].what # Folder
      BY <2>3, TreeAssumption
    <3>3. OfEntry(nodes[v])
      BY <3>1 DEF WellNamed
    <3>4. QED
      BY <2>3, <3>1, <3>2, <3>3 DEF OfEntry
  <2>4. ASSUME NEW p \in changed, Grows(p, nodes'[u]) PROVE OfEntry(nodes'[u])
    <3> DEFINE at == listing[p].at
               node == nodes'[u]
    <3>1. /\ p \in Listed /\ p \in Entry /\ p \notin Dir /\ at \in Path /\ at \in Spelled[p]
          /\ listing[p].what \in Content /\ Folder \notin Content
      BY LiveNodes, TreeAssumption DEF WellNamed, Listed, Entry
    <3>2. PICK i \in 1..Len(at) : /\ node.at = SubSeq(at, 1, i)
                                  /\ node.what = IF i = Len(at) THEN listing[p].what ELSE Folder
      BY <2>4 DEF Grows
    <3>3. CASE i = Len(at)
      <4>1. node.at = at
        BY <3>1, <3>2, <3>3, StartsOf
      <4>2. QED
        BY <3>1, <3>2, <3>3, <4>1 DEF OfEntry
    <3>4. CASE i # Len(at)
      <4>1. Len(at) \in Nat \ {0}
        BY <3>1, <3>2, StartsOf
      <4>2. i \in 1..(Len(at) - 1)
        BY <3>2, <3>4, <4>1
      <4>3. \A y \in Entry : Names[y] \subseteq Name
        BY DEF Name
      <4>4. PICK d \in Dir : SubSeq(at, 1, i) \in Spelled[d]
        BY <3>1, <4>2, <4>3, Beginnings DEF Spelled
      <4>5. QED
        BY <3>2, <3>4, <4>4 DEF OfEntry, Entry
    <3>5. QED
      BY <3>3, <3>4
  <2>5. QED
    BY <2>1, <2>2, <2>3, <2>4, NodeChange
<1>2. QED
  BY <1>1, ListingNext, RowsNext, WalkNext DEF WellNamed

LEMMA StaysNext ==
  ASSUME TypeOK, WellNamed, StaysPut, [Next]_vars
  PROVE  StaysPut'
<1> SUFFICES ASSUME NEW u \in Live', walk'.seen[u] # Absent
             PROVE  walk'.seen[u].at = nodes'[u].at
  BY DEF StaysPut
<1>1. u \in Uid
  BY DEF Live
<1>2. CASE UNCHANGED nodes /\ walk'.seen[u] = nodes[u]
  BY <1>2
<1>3. CASE walk'.seen[u] = walk.seen[u]
  <2>1. u \in Live /\ nodes'[u].at = nodes[u].at
    BY <1>3, NodeChange
  <2>2. QED
    BY <1>3, <2>1 DEF StaysPut
<1>4. QED
  BY <1>1, <1>2, <1>3, WalkChange

LEMMA StraysNext ==
  ASSUME TypeOK, StraysUnknown, [Next]_vars
  PROVE  StraysUnknown'
<1>1. pc' # "trash" => settled' = {}
  BY Framed DEF Frame, StraysUnknown
<1>2. ASSUME pc' \in {"strays", "folders"} PROVE KnownKeys' \subseteq known'
  <2>1. CASE Correct
    BY <2>1, CorrectStrays
  <2>2. CASE pc \in {"strays", "folders"} /\ UNCHANGED <<rows, listing, known>>
    <3>1. KnownKeys' = KnownKeys
      BY <2>2 DEF KnownKeys, Listed, Recorded, RowKey, Key
    <3>2. QED
      BY <2>2, <3>1 DEF StraysUnknown
  <2>3. QED
    BY <1>2, <2>1, <2>2, Framed DEF Frame
<1>3. ASSUME pc' = "strays", NEW t \in strays'
      PROVE  /\ Key(t.at) \notin known'
             /\ t.uid # NoUid => walk'.seen[t.uid] # Absent /\ walk'.seen[t.uid].at = t.at
  <2>1. CASE Correct
    <3>1. PICK u \in Files(walk.seen) : /\ t.at = walk.seen[u].at /\ t.uid \in {NoUid, u}
                                        /\ Key(t.at) \notin known'
      BY <1>3, <2>1, CorrectStrays
    <3>2. walk'.seen = walk.seen
      BY <2>1 DEF Correct, TypeOK
    <3>3. QED
      BY <3>1, <3>2 DEF Files
  <2>2. CASE UNCHANGED <<pc, known, strays, walk>>
    BY <1>3, <2>2 DEF StraysUnknown
  <2>3. QED
    BY <1>3, <2>1, <2>2, Framed DEF Frame
<1>4. \A t \in strays' : Key(t.at)' = Key(t.at)
  BY DEF Key
<1>5. QED
  BY <1>1, <1>2, <1>3 DEF StraysUnknown, Key

\* While nothing is recased.
LEMMA PlainNext ==
  ASSUME TypeOK, PlainNames, [Next]_vars
  PROVE  PlainNames'
<1> SUFFICES ASSUME recases' = 0
             PROVE  /\ \A x \in Entry : dropbox'[x] # Absent => dropbox'[x].name = First(x)
                    /\ \A p \in Listed' : listing'[p].at \in Plain[p]
  BY DEF PlainNames
<1>1. recases = 0 /\ UNCHANGED recases
  <2>1. recases \in Nat
    BY DEF TypeOK
  <2>2. recases' = recases \/ recases' = recases + 1
    BY Framed DEF Frame
  <2>3. QED
    BY <2>1, <2>2
<1>2. \A x \in Entry : dropbox[x] # Absent => dropbox[x].name = First(x)
  BY <1>1 DEF PlainNames
<1>3. dropbox \in [Entry -> Named \cup {Absent}]
  BY DEF TypeOK
<1>4. ASSUME NEW x \in Entry, dropbox'[x] # Absent PROVE dropbox'[x].name = First(x)
  <2>1. CASE UNCHANGED dropbox
    BY <1>2, <1>4, <2>1
  <2>2. ASSUME NEW y \in Entry, NEW n \in Names[y], NEW c \in Content \cup {Folder}, Write(y, n, c)
        PROVE  dropbox'[x].name = First(x)
    <3>1. dropbox' = [dropbox EXCEPT ![y] = [name |-> n, what |-> c]]
      BY <2>2 DEF Write
    <3>2. n = First(y)
      <4>1. dropbox[y] # Absent => n = dropbox[y].name
        BY <2>2 DEF Write
      <4>2. dropbox[y] = Absent => n = First(y) \/ recases' = recases + 1
        BY <2>2 DEF Write, Recasing
      <4>3. QED
        BY <1>1, <1>2, <4>1, <4>2
    <3>3. IF x = y THEN dropbox'[x].name = n ELSE dropbox'[x] = dropbox[x]
      BY <1>3, <3>1
    <3>4. QED
      BY <1>2, <1>4, <3>2, <3>3
  <2>3. ASSUME NEW y \in Entry, NEW n, Recase(y, n) PROVE FALSE
    BY <1>1, <2>3 DEF Recase, Recasing
  <2>4. ASSUME NEW y \in Entry, Delete(y) PROVE dropbox'[x].name = First(x)
    <3>1. dropbox' = [z \in Entry |-> IF z \in Inside(y) THEN Absent ELSE dropbox[z]]
      BY <2>4 DEF Delete
    <3>2. dropbox'[x] = dropbox[x]
      BY <1>4, <3>1
    <3>3. QED
      BY <1>2, <1>4, <3>2
  <2>5. QED
    BY <2>1, <2>2, <2>3, <2>4, Framed DEF Frame, Owner
<1>5. ASSUME NEW p \in File, listing'[p] # Absent PROVE listing'[p].at \in Plain[p]
  <2>1. CASE listing'[p] = listing[p]
    BY <1>1, <1>5, <2>1 DEF PlainNames, Listed
  <2>2. CASE listing'[p] # listing[p]
    <3>1. dropbox[p] # Absent /\ p \in Entry
      BY <1>5, <2>2, ListingChange
    <3>2. PICK own : listing'[p] = [at |-> DisplayPath(p, own), what |-> dropbox[p].what]
      BY <1>5, <2>2, ListingChange
    <3> DEFINE firsts == [x \in Entry |-> {First(x)}]
    <3>3. \A x \in Entry : dropbox[x] # Absent =>
            dropbox[x].name \in firsts[x] /\ (Up[x] # Top => dropbox[Up[x]] # Absent)
      BY <1>2 DEF TypeOK
    <3> HIDE DEF firsts
    <3>4. DisplayPath(p, own) \in Paths(firsts)[p]
      BY <3>1, <3>3, Displays
    <3>5. QED
      BY <3>2, <3>4 DEF Plain, firsts
  <2>3. QED
    BY <2>1, <2>2
<1>6. QED
  BY <1>4, <1>5 DEF Listed

LEMMA PlainStarts ==
  ASSUME NEW x \in Entry, NEW at \in Plain[x], NEW i \in 1..(Len(at) - 1)
  PROVE  \E d \in Dir : SubSeq(at, 1, i) \in Plain[d]
<1> DEFINE firsts == [y \in Entry |-> {First(y)}]
<1>1. \A y \in Entry : firsts[y] \subseteq Name
  BY TreeAssumption DEF First, Name
<1> HIDE DEF firsts
<1>2. at \in Paths(firsts)[x]
  BY DEF Plain, firsts
<1>3. \E d \in Dir : SubSeq(at, 1, i) \in Paths(firsts)[d]
  BY <1>1, <1>2, Beginnings
<1>4. QED
  BY <1>3 DEF Plain, firsts

LEMMA PlainNodesNext ==
  ASSUME TypeOK, WellNamed, PlainNames, PlainNodes, [Next]_vars
  PROVE  PlainNodes'
<1> SUFFICES ASSUME recases' = 0, meddles' = 0
             PROVE  /\ \A u \in Live' : \E x \in Entry : nodes'[u].at \in Plain[x]
                    /\ \A u, v \in Live' : nodes'[u].at = nodes'[v].at => u = v
  BY DEF PlainNodes
<1>1. recases = 0 /\ meddles = 0 /\ meddles' # meddles + 1
  <2>1. recases \in Nat /\ meddles \in Nat
    BY DEF TypeOK
  <2>2. /\ recases' = recases \/ recases' = recases + 1
        /\ meddles' = meddles \/ meddles' = meddles + 1
    BY Framed DEF Frame
  <2>3. QED
    BY <2>1, <2>2
<1> DEFINE Stays(u) == u \in Live /\ nodes'[u].at = nodes[u].at
           Comes(u) == /\ \A v \in Uid \ {u} : nodes'[v] = nodes[v]
                       /\ \E p \in changed : Grows(p, nodes'[u])
<1>2. \A u \in Live' : Stays(u) \/ Comes(u)
  <2> SUFFICES ASSUME NEW u \in Live' PROVE Stays(u) \/ Comes(u)
    OBVIOUS
  <2>1. QED
    BY <1>1, NodeChange
<1>3. ASSUME NEW u \in Live' PROVE \E x \in Entry : nodes'[u].at \in Plain[x]
  <2>1. CASE Stays(u)
    BY <1>1, <2>1 DEF PlainNodes
  <2>2. CASE Comes(u)
    <3>1. PICK p \in changed : Grows(p, nodes'[u])
      BY <2>2
    <3> DEFINE at == listing[p].at
    <3>2. p \in Listed /\ p \in Entry /\ at \in Path /\ at \in Plain[p]
      BY <1>1, LiveNodes DEF PlainNames, Listed, Entry
    <3>3. PICK i \in 1..Len(at) : nodes'[u].at = SubSeq(at, 1, i)
      BY <3>1 DEF Grows
    <3>4. Len(at) \in Nat \ {0} /\ SubSeq(at, 1, Len(at)) = at
      BY <3>2, <3>3, StartsOf
    <3>5. CASE i = Len(at)
      BY <3>2, <3>3, <3>4, <3>5
    <3>6. CASE i \in 1..(Len(at) - 1)
      <4>1. \E d \in Dir : SubSeq(at, 1, i) \in Plain[d]
        BY <3>2, <3>6, PlainStarts
      <4>2. QED
        BY <3>3, <4>1 DEF Entry
    <3>7. QED
      BY <3>4, <3>5, <3>6
  <2>3. QED
    BY <1>2, <2>1, <2>2
<1>4. ASSUME NEW u \in Live', NEW v \in Live', nodes'[u].at = nodes'[v].at, Comes(u) PROVE u = v
  <2> SUFFICES ASSUME u # v PROVE FALSE
    OBVIOUS
  <2>1. nodes'[v] = nodes[v] /\ v \in Live
    BY <1>4 DEF Live
  <2>2. At(nodes, nodes'[u].at) = {}
    BY <1>4 DEF Grows
  <2>3. v \in At(nodes, nodes'[u].at)
    BY <1>4, <2>1 DEF At, Live
  <2>4. QED
    BY <2>2, <2>3
<1>5. ASSUME NEW u \in Live', NEW v \in Live', nodes'[u].at = nodes'[v].at PROVE u = v
  <2>1. CASE Stays(u) /\ Stays(v)
    BY <1>1, <1>5, <2>1 DEF PlainNodes
  <2>2. CASE Comes(u)
    BY <1>4, <1>5, <2>2
  <2>3. CASE Comes(v)
    BY <1>4, <1>5, <2>3
  <2>4. QED
    BY <1>2, <2>1, <2>2, <2>3
<1>6. QED
  BY <1>3, <1>5

LEMMA TreeInit ==
  ASSUME Init
  PROVE  TreeInOrder
<1>1. \A p \in File : rows[p] = Absent /\ listing[p] = Absent
  BY DEF Init
<1>2. \A u \in Uid : nodes[u] = Absent /\ walk.seen[u] = Absent
  BY DEF Init, NoWalk, NoNodes
<1>3. Live = {} /\ Listed = {} /\ Recorded = {}
  BY <1>1, <1>2 DEF Live, Listed, Recorded
<1>4. ASSUME NEW x \in Entry
      PROVE  /\ dropbox[x] \in Named /\ dropbox[x].name = First(x) /\ First(x) \in Names[x]
             /\ dropbox[x].what = Folder <=> x \in Dir
  <2> DEFINE what == IF x \in Dir THEN Folder ELSE CHOOSE c \in Values[x] : TRUE
  <2>1. First(x) \in Names[x] /\ First(x) \in Name
    BY TreeAssumption DEF First, Name
  <2>2. what \in Content \cup {Folder} /\ (what = Folder <=> x \in Dir)
    <3>1. x \notin Dir => Values[x] \subseteq Content /\ Values[x] # {}
      BY TreeAssumption DEF Entry
    <3>2. QED
      BY <3>1, TreeAssumption
  <2>3. dropbox[x] = [name |-> First(x), what |-> what]
    BY DEF Init
  <2> HIDE DEF what
  <2>4. QED
    BY <2>1, <2>2, <2>3 DEF Named
<1>5. dropbox \in [Entry -> Named \cup {Absent}]
  <2> DEFINE entry(x) == [name |-> First(x), what |-> IF x \in Dir THEN Folder
                                                      ELSE CHOOSE c \in Values[x] : TRUE]
  <2> HIDE DEF entry
  <2>1. dropbox = [x \in Entry |-> entry(x)]
    BY DEF Init, entry
  <2>2. \A x \in Entry : entry(x) \in Named
    BY <1>4, <2>1
  <2>3. QED
    BY <2>1, <2>2
<1>6. TypeOK
  <2>1. \A x \in Entry : /\ dropbox[x].name \in Names[x] /\ (dropbox[x].what = Folder <=> x \in Dir)
                         /\ Up[x] # Top => dropbox[Up[x]] # Absent
    <3>1. \A x \in Entry : dropbox[x] # Absent
      BY <1>4, TreeAssumption
    <3>2. QED
      BY <1>4, <3>1, UpIs
  <2>2. /\ nodes \in Nodes
        /\ walk \in [status : {"none", "running", "complete"},
                     pending : SUBSET (Uid \cup {Top}), seen : Nodes]
    BY DEF Init, NoWalk, NoNodes, Nodes
  <2>3. /\ rows \in [File -> [at : Path, what : Content, uid : Uid \cup {NoUid}] \cup {Absent}]
        /\ listing \in [File -> [at : Path, what : Content] \cup {Absent}]
    BY DEF Init
  <2>4. /\ changed = {} /\ settled = {} /\ strays = {} /\ pc = "idle"
        /\ {edits, recases, meddles, faults} \subseteq Nat
    BY DEF Init
  <2>5. QED
    BY <1>3, <1>5, <2>1, <2>2, <2>3, <2>4 DEF TypeOK
<1>7. WellNamed /\ StaysPut
  BY <1>2, <1>3 DEF WellNamed, StaysPut
<1>8. StraysUnknown
  BY DEF Init, StraysUnknown
<1>9. PlainNames /\ PlainNodes
  BY <1>3, <1>4 DEF PlainNames, PlainNodes
<1>10. QED
  BY <1>6, <1>7, <1>8, <1>9 DEF TreeInOrder

LEMMA TreeNext ==
  ASSUME TreeInOrder, [Next]_vars
  PROVE  TreeInOrder'
BY TypeNext, NamesNext, StaysNext, StraysNext, PlainNext, PlainNodesNext DEF TreeInOrder

\* Dropbox, Proton, the rows and the walk are trees of the entries under names that are theirs,
\* no node moves under its UID, and the strays are files nobody knows: what Init, and every step
\* of the owner and of a run, keeps of the state.
THEOREM TreeIsInOrder == Spec => []TreeInOrder
<1>1. Init => TreeInOrder
  BY TreeInit
<1>2. TreeInOrder /\ [Next]_vars => TreeInOrder'
  BY TreeNext
<1>3. QED
  BY <1>1, <1>2, PTL DEF Spec

\* Type correctness: among the rest, every node is in a folder that is live, whatever is
\* uploaded, discarded and trashed.
THEOREM TreeTyped == Spec => []TypeOK
<1>1. TreeInOrder => TypeOK
  BY DEF TreeInOrder
<1>2. QED
  BY <1>1, TreeIsInOrder, PTL

LEMMA OneNode ==
  ASSUME TreeInOrder, FoldsApart
  PROVE  OneNodePerKey
<1> SUFFICES ASSUME recases = 0, meddles = 0, NEW u \in Live, NEW v \in Live,
                    Key(nodes[u].at) = Key(nodes[v].at)
             PROVE  u = v
  BY DEF OneNodePerKey
<1>1. PICK x \in Entry : nodes[u].at \in Plain[x]
  BY DEF TreeInOrder, PlainNodes
<1>2. PICK y \in Entry : nodes[v].at \in Plain[y]
  BY DEF TreeInOrder, PlainNodes
<1>3. nodes[u].at \in Spelled[x] /\ nodes[v].at \in Spelled[y]
  BY <1>1, <1>2, PlainSpelled
<1>4. x = y
  BY <1>3, KeysApart
<1>5. nodes[u].at = nodes[v].at
  BY <1>1, <1>2, <1>4, OnePlain
<1>6. QED
  BY <1>5 DEF TreeInOrder, PlainNodes

\* Where the names of a folder are apart once normalised and casefolded, a mirror whose owner
\* neither recases nor meddles never has two nodes of one comparison key.
THEOREM NodesApart == FoldsApart => (Spec => []OneNodePerKey)
<1>1. FoldsApart /\ TreeInOrder => OneNodePerKey
  BY OneNode
<1>2. ASSUME FoldsApart PROVE Spec => []OneNodePerKey
  <2>1. TreeInOrder => OneNodePerKey
    BY <1>1, <1>2
  <2>2. QED
    BY <2>1, TreeIsInOrder, PTL
<1>3. QED
  BY <1>2
-----------------------------------------------------------------------------

\* While a run looks for strays, it alone removes nodes.
LEMMA OnlyTrashes ==
  ASSUME [Next]_vars, pc = "strays" \/ pc = "folders", nodes' # nodes
  PROVE  TrashStrays \/ TrashRaises \/ TrashFolders \/ FoldersRaise
<1>1. ~ UNCHANGED vars
  BY DEF vars
<1>2. ~ Outside
  BY DEF Outside, Delete, Recase, Write, Discard, Duplicate, Edit, Meddle
<1>3. ~ StartRun /\ ~ SkipReconcile /\ ~ StopWalk
  BY DEF StartRun, SkipReconcile, StopWalk
<1>4. Steps
  BY <1>1, <1>2, <1>3 DEF Next
<1>5. QED
  BY <1>4 DEF Steps, Upload, StartTrash, EndTrash, TrashGroup, ListingFails, OpenWalk, ListFolder,
              WalkFails, Correct

\* What leaves Proton as the strays are trashed.
LEMMA StrayGoes ==
  ASSUME TreeInOrder, pc = "strays", NEW t \in strays, NEW u \in Resolved(t, Files(nodes))
  PROVE  Key(nodes[u].at) \notin KnownKeys
<1>1. u \in Files(nodes) /\ u \in Live
  BY DEF Resolved, Files, Live
<1>2. /\ Key(t.at) \notin known /\ KnownKeys \subseteq known
      /\ t.uid # NoUid => walk.seen[t.uid] # Absent /\ walk.seen[t.uid].at = t.at
  BY DEF TreeInOrder, StraysUnknown
<1>3. nodes[u].at = t.at
  <2>1. CASE t.uid = NoUid
    BY <2>1 DEF Resolved, At
  <2>2. CASE t.uid # NoUid
    <3>1. u = t.uid
      BY <2>2 DEF Resolved
    <3>2. QED
      BY <1>1, <1>2, <2>2, <3>1 DEF TreeInOrder, StaysPut
  <2>3. QED
    BY <2>1, <2>2
<1>4. QED
  BY <1>2, <1>3

\* What leaves Proton as the stray folders are trashed.
LEMMA FolderGoes ==
  ASSUME TreeInOrder, pc = "folders", NEW v \in StrayFolders, NEW u \in Files(nodes),
         u \in Under(walk.seen[v].at)
  PROVE  Key(nodes[u].at) \notin KnownKeys
<1> SUFFICES ASSUME Key(nodes[u].at) \in KnownKeys PROVE FALSE
  OBVIOUS
<1> DEFINE a  == walk.seen[v].at
           at == nodes[u].at
<1>1. v \in Uid /\ walk.seen[v] # Absent /\ walk.seen[v].what = Folder
  BY DEF StrayFolders, StrayDirs, Dirs
<1>2. Key(a) \notin Occupied
  BY DEF StrayFolders, StrayDirs
<1>3. u \in Uid /\ nodes[u] # Absent /\ nodes[u].what # Folder
  BY DEF Files
<1>4. a \in Path /\ at \in Path /\ IsPrefix(a, at)
  BY <1>1, <1>3, LiveNodes DEF TreeInOrder, Node, Under
<1>5. a # at
  <2>1. PICK x \in Entry : a \in Spelled[x] /\ (walk.seen[v].what = Folder <=> x \in Dir)
    BY <1>1 DEF TreeInOrder, WellNamed, OfEntry
  <2>2. PICK y \in Entry : at \in Spelled[y] /\ (nodes[u].what = Folder <=> y \in Dir)
    BY <1>3 DEF TreeInOrder, WellNamed, OfEntry
  <2>3. x # y
    BY <1>1, <1>3, <2>1, <2>2
  <2>4. QED
    BY <2>1, <2>2, <2>3, OneEntry
<1>6. Key(at) \in known
  BY DEF TreeInOrder, StraysUnknown
<1> HIDE DEF a, at
<1>7. Len(a) \in 1..(Len(at) - 1) /\ a = SubSeq(at, 1, Len(a))
  BY <1>4, <1>5, PrefixIs
<1>8. Len(at) \in Nat \ {0}
  BY <1>4, LenProperties, EmptySeq DEF Path
<1>9. Len(a) \in 1..Len(at)
  BY <1>7, <1>8
<1>10. Key(a) = SubSeq(Key(at), 1, Len(a)) /\ Len(Key(at)) = Len(at)
  BY <1>4, <1>7, <1>9, KeyOf
<1>11. Key(a) \in {SubSeq(Key(at), 1, i) : i \in 1..(Len(Key(at)) - 1)}
  BY <1>7, <1>10
<1>12. Key(a) \in Occupied
  BY <1>6, <1>11 DEF Occupied
<1>13. QED
  BY <1>2, <1>12

\* No file that is on record or listed is taken for a stray or goes with a folder, at any depth,
\* under any casing of its path, and whatever was duplicated and discarded.
THEOREM KnownFilesKept == Spec => KnownFilesStay
<1> DEFINE Stay == pc = "strays" \/ pc = "folders" =>
                     \A u \in Going : Key(nodes[u].at) \notin KnownKeys
<1>1. ASSUME TreeInOrder, [Next]_vars PROVE Stay
  <2> SUFFICES ASSUME pc = "strays" \/ pc = "folders", NEW u \in Going
               PROVE  Key(nodes[u].at) \notin KnownKeys
    OBVIOUS
  <2>1. u \in Files(nodes) /\ u \in Uid /\ nodes[u] # Absent /\ nodes'[u] = Absent
    BY DEF Going, Files
  <2>2. TrashStrays \/ TrashRaises \/ TrashFolders \/ FoldersRaise
    BY <1>1, <2>1, OnlyTrashes
  <2>3. CASE TrashStrays \/ TrashRaises
    <3>1. PICK gone \in SUBSET UNION {Resolved(t, Files(nodes)) : t \in strays} :
            nodes' = [w \in Uid |-> IF w \in gone THEN Absent ELSE nodes[w]]
      BY <2>3 DEF TrashStrays, TrashRaises
    <3>2. u \in gone
      BY <2>1, <3>1
    <3>3. PICK t \in strays : u \in Resolved(t, Files(nodes))
      BY <3>2
    <3>4. pc = "strays"
      BY <2>3 DEF TrashStrays, TrashRaises
    <3>5. QED
      BY <1>1, <3>3, <3>4, StrayGoes
  <2>4. CASE TrashFolders \/ FoldersRaise
    <3>0. PICK going \in SUBSET Resolving : nodes' = Without(going)
      BY <2>4 DEF TrashFolders, FoldersRaise
    <3>1. nodes' = [w \in Uid |-> IF \E v \in going : w \in Under(walk.seen[v].at)
                                 THEN Absent ELSE nodes[w]]
      BY <3>0 DEF Without
    <3>2. PICK v \in StrayFolders : u \in Under(walk.seen[v].at)
      BY <2>1, <3>1 DEF Resolving
    <3>3. pc = "folders"
      BY <2>4 DEF TrashFolders, FoldersRaise
    <3>4. QED
      BY <1>1, <2>1, <3>2, <3>3, FolderGoes
  <2>5. QED
    BY <2>2, <2>3, <2>4
<1>2. TreeInOrder /\ [Next]_vars => [Stay]_vars
  BY <1>1
<1>3. QED
  BY <1>2, TreeIsInOrder, PTL DEF Spec, KnownFilesStay

\* What leaves Proton as the deleted files of a folder are trashed: of each row, one file of its
\* name at most, and none but the recorded one if that has the name.
LEMMA GroupGoes ==
  ASSUME TreeInOrder, NEW dir \in groups, TrashGroup(dir), NEW p \in Group(dir)
  PROVE  /\ \A u \in At(nodes, rows[p].at) : rows[p].uid = u => nodes'[u] = Absent
         /\ Cardinality(Going \cap At(nodes, rows[p].at)) <= 1
<1>1. PICK gone \in SUBSET UNION {Choice(q) : q \in Group(dir)} :
        /\ \A q \in Group(dir) : Cardinality(gone \cap Choice(q)) = IF Choice(q) = {} THEN 0 ELSE 1
        /\ nodes' = [u \in Uid |-> IF u \in gone THEN Absent ELSE nodes[u]]
  BY DEF TrashGroup
<1>2. \A q \in Group(dir) : q \in Recorded /\ q \in File /\ q \in Entry /\ rows[q].at \in Spelled[q]
  BY DEF Group, Deleted, Recorded, Entry, TreeInOrder, WellNamed
<1>3. \A q : Choice(q) \subseteq At(nodes, rows[q].at) \cap Files(nodes)
  BY DEF Choice
<1>4. ASSUME NEW u \in At(nodes, rows[p].at), rows[p].uid = u PROVE nodes'[u] = Absent
  <2>1. u \in Uid /\ nodes[u] # Absent /\ nodes[u].at = rows[p].at
    BY DEF At
  <2>2. PICK x \in Entry : nodes[u].at \in Spelled[x] /\ (nodes[u].what = Folder <=> x \in Dir)
    BY <2>1 DEF TreeInOrder, WellNamed, OfEntry
  <2>3. x = p /\ p \notin Dir
    BY <1>2, <2>1, <2>2, OneEntry, TreeAssumption
  <2>4. u \in Files(nodes)
    BY <2>1, <2>2, <2>3 DEF Files
  <2>5. Choice(p) = {u}
    BY <1>4, <2>4 DEF Choice
  <2>6. gone \cap {u} # {}
    <3>1. Cardinality(gone \cap {u}) = 1
      BY <1>1, <2>5
    <3>2. Cardinality({}) = 0
      BY FS_EmptySet
    <3>3. QED
      BY <3>1, <3>2
  <2>7. QED
    BY <1>1, <2>1, <2>6
<1>5. Going \cap At(nodes, rows[p].at) \subseteq gone \cap Choice(p)
  <2> SUFFICES ASSUME NEW u \in Going \cap At(nodes, rows[p].at) PROVE u \in gone \cap Choice(p)
    OBVIOUS
  <2>1. u \in Uid /\ nodes[u] # Absent /\ nodes'[u] = Absent /\ nodes[u].at = rows[p].at
    BY DEF Going, At
  <2>2. u \in gone
    BY <1>1, <2>1
  <2>3. PICK q \in Group(dir) : u \in Choice(q)
    BY <2>2
  <2>4. nodes[u].at = rows[q].at
    BY <1>3, <2>3 DEF At
  <2>5. p = q
    BY <1>2, <2>1, <2>4, OneEntry
  <2>6. QED
    BY <2>2, <2>3, <2>5
<1>6. IsFiniteSet(gone \cap Choice(p)) /\ Cardinality(gone \cap Choice(p)) <= 1
  <2>1. gone \cap Choice(p) \subseteq Uid
    BY <1>3 DEF Files
  <2>2. Cardinality(gone \cap Choice(p)) <= 1
    BY <1>1
  <2>3. QED
    BY <2>1, <2>2, UidFinite, FS_Subset
<1>7. Cardinality(Going \cap At(nodes, rows[p].at)) <= 1
  <2>1. /\ IsFiniteSet(Going \cap At(nodes, rows[p].at))
        /\ Cardinality(Going \cap At(nodes, rows[p].at)) <= Cardinality(gone \cap Choice(p))
    BY <1>5, <1>6, FS_Subset
  <2>2. /\ Cardinality(Going \cap At(nodes, rows[p].at)) \in Nat
        /\ Cardinality(gone \cap Choice(p)) \in Nat
    BY <1>6, <2>1, FS_CardinalityType
  <2>3. QED
    BY <1>6, <2>1, <2>2
<1>8. QED
  BY <1>4, <1>7

\* A deleted file that is settled takes one file of its name from Proton at most, and that is
\* the recorded one if it has the name: whatever was uploaded, recased or duplicated since.
THEOREM RecordedGoes == Spec => TrashesTheRecorded
<1> DEFINE Trashes ==
      \A p \in (settled' \ settled) :
        /\ \A u \in At(nodes, rows[p].at) : rows[p].uid = u => nodes'[u] = Absent
        /\ Cardinality(Going \cap At(nodes, rows[p].at)) <= 1
<1>1. ASSUME TreeInOrder, [Next]_vars PROVE Trashes
  <2> SUFFICES ASSUME NEW p \in (settled' \ settled)
               PROVE  /\ \A u \in At(nodes, rows[p].at) : rows[p].uid = u => nodes'[u] = Absent
                      /\ Cardinality(Going \cap At(nodes, rows[p].at)) <= 1
    OBVIOUS
  <2>1. TrashesGroup
    <3>1. EndTrash \/ Ends => settled' = {}
      BY DEF EndTrash, Ends, EndRun
    <3>2. QED
      BY <1>1, <3>1, Framed DEF Frame
  <2>2. PICK dir \in groups : TrashGroup(dir)
    BY <2>1 DEF TrashesGroup
  <2>3. p \in Group(dir)
    BY <2>2 DEF TrashGroup
  <2>4. QED
    BY <1>1, <2>2, <2>3, GroupGoes
<1>2. TreeInOrder /\ [Next]_vars => [Trashes]_vars
  BY <1>1
<1>3. QED
  BY <1>2, TreeIsInOrder, PTL DEF Spec, TrashesTheRecorded
=============================================================================
