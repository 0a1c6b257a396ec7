---------------------------- MODULE PackingProofs ----------------------------
(***************************************************************************)
(* Proofs about Packing, for every sequence of files and every budget.     *)
(***************************************************************************)
EXTENDS Packing, TLAPS, FiniteSetTheorems, SequenceTheorems

\* Induction over the natural numbers, for a set: a set that misses n would have its part
\* below n mapped into itself by x + 1 one to one, and so onto, but 0 is not reached.
LEMMA SetInduction ==
  ASSUME NEW S \in SUBSET Nat, 0 \in S, \A n \in S : n + 1 \in S
  PROVE  S = Nat
<1> SUFFICES ASSUME NEW n \in Nat, n \notin S PROVE FALSE
  OBVIOUS
<1> DEFINE T == S \cap (0..n)
           f == [x \in T |-> x + 1]
<1>1. IsFiniteSet(T)
  <2>1. IsFiniteSet(0..n)
    BY FS_Interval
  <2>2. QED
    BY <2>1, FS_Intersection
<1>2. f \in Injection(T, T)
  <2>1. \A x \in T : x + 1 \in T
    OBVIOUS
  <2>2. QED
    BY <2>1 DEF Injection, IsInjective
<1>3. f \in Surjection(T, T)
  BY <1>1, <1>2, FS_Injection
<1>4. PICK x \in T : f[x] = 0
  <2> HIDE DEF f, T
  <2>1. 0 \in T
    BY DEF T
  <2>2. QED
    BY <1>3, <2>1 DEF Surjection
<1>5. QED
  BY <1>4
\* The same up to a bound.
LEMMA UpTo ==
  ASSUME NEW N \in Nat, NEW S, 0 \in S, \A n \in 0..(N - 1) : n \in S => n + 1 \in S
  PROVE  \A n \in 0..N : n \in S
<1> DEFINE T == {n \in Nat : n <= N => n \in S}
<1>1. 0 \in T
  OBVIOUS
<1>2. ASSUME NEW n \in T PROVE n + 1 \in T
  <2>1. n \in Nat /\ (n + 1 <= N => n \in 0..(N - 1) /\ n \in S)
    OBVIOUS
  <2>2. QED
    BY <2>1
<1>3. T = Nat
  <2> HIDE DEF T
  <2>1. T \in SUBSET Nat
    BY DEF T
  <2>2. QED
    BY <1>1, <1>2, <2>1, SetInduction
<1>4. QED
  BY <1>3
-----------------------------------------------------------------------------
\* Each recursive function of Packing is one: for every length there is a function that
\* satisfies its equation.
LEMMA SumsDef ==
  ASSUME NEW rows, NEW size, Len(rows) \in Nat
  PROVE  Sums(rows, size) = [n \in 0..Len(rows) |->
            IF n = 0 THEN 0 ELSE Sums(rows, size)[n - 1] + size[rows[n]]]
<1> DEFINE Defines(s, m) ==
             s = [n \in 0..m |-> IF n = 0 THEN 0 ELSE s[n - 1] + size[rows[n]]]
           S == {m \in Nat : \E s : Defines(s, m)}
<1>1. 0 \in S
  <2>1. Defines([n \in 0..0 |-> 0], 0)
    OBVIOUS
  <2>2. QED
    BY <2>1
<1>2. ASSUME NEW m \in S PROVE m + 1 \in S
  <2>0. m \in Nat /\ m + 1 \in Nat
    OBVIOUS
  <2>1. PICK s : Defines(s, m)
    OBVIOUS
  <2> DEFINE t == [n \in 0..(m + 1) |-> IF n <= m THEN s[n] ELSE s[m] + size[rows[m + 1]]]
  <2>2. Defines(t, m + 1)
    BY <2>0, <2>1
  <2>3. \E s2 : Defines(s2, m + 1)
    BY <2>2
  <2>4. QED
    BY <2>0, <2>3
<1>3. S = Nat
  <2> HIDE DEF S
  <2>1. S \in SUBSET Nat
    BY DEF S
  <2>2. QED
    BY <1>1, <1>2, <2>1, SetInduction
<1>4. \E s : Defines(s, Len(rows))
  BY <1>3
<1>5. QED
  BY <1>4 DEF Sums

LEMMA KeptDef ==
  ASSUME NEW rows, NEW size, NEW free, Len(rows) \in Nat
  PROVE  /\ Kept(rows, size, free)[0] = <<>>
         /\ \A n \in 1..Len(rows) :
              Kept(rows, size, free)[n] =
                IF size[rows[n]] <= FileCap(free)
                THEN Append(Kept(rows, size, free)[n - 1], rows[n])
                ELSE Kept(rows, size, free)[n - 1]
<1> DEFINE Next(s, n) == IF size[rows[n]] <= FileCap(free) THEN Append(s[n - 1], rows[n])
                         ELSE s[n - 1]
           Defines(s, m) == s = [n \in 0..m |-> IF n = 0 THEN <<>> ELSE Next(s, n)]
           S == {m \in Nat : \E s : Defines(s, m)}
<1>1. 0 \in S
  <2>1. Defines([n \in 0..0 |-> <<>>], 0)
    OBVIOUS
  <2>2. QED
    BY <2>1
<1>2. ASSUME NEW m \in S PROVE m + 1 \in S
  <2>0. m \in Nat /\ m + 1 \in Nat
    OBVIOUS
  <2>1. PICK s : Defines(s, m)
    OBVIOUS
  <2> DEFINE last == IF size[rows[m + 1]] <= FileCap(free) THEN Append(s[m], rows[m + 1])
                     ELSE s[m]
             t == [n \in 0..(m + 1) |-> IF n <= m THEN s[n] ELSE last]
  <2>2. Defines(t, m + 1)
    <3>1. \A n \in 0..m : s[n] = IF n = 0 THEN <<>> ELSE Next(s, n)
      BY <2>0, <2>1
    <3>2. \A n \in 0..(m + 1) : t[n] = IF n = 0 THEN <<>> ELSE Next(t, n)
      BY <2>0, <3>1
    <3>3. QED
      BY <3>2
  <2>3. \E s2 : Defines(s2, m + 1)
    BY <2>2
  <2>4. QED
    BY <2>0, <2>3
<1>3. S = Nat
  <2> HIDE DEF S
  <2>1. S \in SUBSET Nat
    BY DEF S
  <2>2. QED
    BY <1>1, <1>2, <2>1, SetInduction
<1>4. \E s : Defines(s, Len(rows))
  BY <1>3
<1>5. PICK s : s = Kept(rows, size, free) /\ Defines(s, Len(rows))
  BY <1>4 DEF Kept
<1>6. s[0] = <<>> /\ \A n \in 1..Len(rows) : s[n] = Next(s, n)
  <2>1. 0 \in 0..Len(rows) /\ \A n \in 1..Len(rows) : n \in 0..Len(rows) /\ n # 0
    OBVIOUS
  <2> HIDE DEF Next
  <2>2. QED
    BY <1>5, <2>1, Zenon
<1>7. QED
  BY <1>5, <1>6

LEMMA PackedDef ==
  ASSUME NEW rows, NEW size, Len(rows) \in Nat
  PROVE  Packed(rows, size) = [n \in 0..Len(rows) |->
            IF n = 0 THEN [batches |-> <<>>, current |-> <<>>, bytes |-> 0]
            ELSE Place(Packed(rows, size)[n - 1], rows[n], size[rows[n]])]
<1> DEFINE start == [batches |-> <<>>, current |-> <<>>, bytes |-> 0]
           Defines(s, m) ==
             s = [n \in 0..m |-> IF n = 0 THEN start ELSE Place(s[n - 1], rows[n], size[rows[n]])]
           S == {m \in Nat : \E s : Defines(s, m)}
<1>1. 0 \in S
  <2>1. Defines([n \in 0..0 |-> start], 0)
    OBVIOUS
  <2>2. QED
    BY <2>1
<1>2. ASSUME NEW m \in S PROVE m + 1 \in S
  <2>0. m \in Nat /\ m + 1 \in Nat
    OBVIOUS
  <2>1. PICK s : Defines(s, m)
    OBVIOUS
  <2> DEFINE last == Place(s[m], rows[m + 1], size[rows[m + 1]])
             t == [n \in 0..(m + 1) |-> IF n <= m THEN s[n] ELSE last]
  <2>2. Defines(t, m + 1)
    <3>1. \A n \in 0..m : s[n] = IF n = 0 THEN start ELSE Place(s[n - 1], rows[n], size[rows[n]])
      BY <2>0, <2>1
    <3>2. \A n \in 0..(m + 1) : t[n] = IF n = 0 THEN start ELSE Place(t[n - 1], rows[n], size[rows[n]])
      <4> TAKE n \in 0..(m + 1)
      <4>1. CASE n = m + 1
        <5>1. t[n] = last /\ n - 1 = m /\ t[m] = s[m] /\ n # 0
          BY <2>0, <4>1
        <5>2. QED
          BY <4>1, <5>1
      <4>2. CASE n # m + 1
        <5>1. n \in 0..m /\ t[n] = s[n]
          BY <2>0, <4>2
        <5>2. n # 0 => t[n - 1] = s[n - 1]
          BY <2>0, <5>1
        <5>3. QED
          BY <3>1, <5>1, <5>2
      <4>3. QED
        BY <4>1, <4>2
    <3>3. QED
      BY <3>2
  <2>3. \E s2 : Defines(s2, m + 1)
    BY <2>2
  <2>4. QED
    BY <2>0, <2>3
<1>3. S = Nat
  <2> HIDE DEF S
  <2>1. S \in SUBSET Nat
    BY DEF S
  <2>2. QED
    BY <1>1, <1>2, <2>1, SetInduction
<1>4. \E s : Defines(s, Len(rows))
  BY <1>3
<1>5. QED
  BY <1>4 DEF Packed

Flats(seqs) ==
  LET flatten[i \in 1..Len(seqs)] == IF i = 1 THEN seqs[i] ELSE flatten[i-1] \o seqs[i]
  IN  flatten

LEMMA FlatsDef ==
  ASSUME NEW seqs, Len(seqs) \in Nat
  PROVE  Flats(seqs) = [i \in 1..Len(seqs) |->
            IF i = 1 THEN seqs[i] ELSE Flats(seqs)[i - 1] \o seqs[i]]
<1> DEFINE Defines(s, m) == s = [i \in 1..m |-> IF i = 1 THEN seqs[i] ELSE s[i - 1] \o seqs[i]]
           S == {m \in Nat : \E s : Defines(s, m)}
<1>1. 0 \in S
  <2>1. Defines([i \in 1..0 |-> 0], 0)
    OBVIOUS
  <2>2. QED
    BY <2>1
<1>2. ASSUME NEW m \in S PROVE m + 1 \in S
  <2>0. m \in Nat /\ m + 1 \in Nat
    OBVIOUS
  <2>1. PICK s : Defines(s, m)
    OBVIOUS
  <2> DEFINE last == IF m = 0 THEN seqs[m + 1] ELSE s[m] \o seqs[m + 1]
             t == [n \in 1..(m + 1) |-> IF n <= m THEN s[n] ELSE last]
  <2>2. Defines(t, m + 1)
    <3>1. \A n \in 1..m : s[n] = IF n = 1 THEN seqs[n] ELSE s[n - 1] \o seqs[n]
      BY <2>0, <2>1
    <3>2. \A n \in 1..(m + 1) : t[n] = IF n = 1 THEN seqs[n] ELSE t[n - 1] \o seqs[n]
      BY <2>0, <3>1
    <3>3. QED
      BY <3>2
  <2>3. \E s2 : Defines(s2, m + 1)
    BY <2>2
  <2>4. QED
    BY <2>0, <2>3
<1>3. S = Nat
  <2> HIDE DEF S
  <2>1. S \in SUBSET Nat
    BY DEF S
  <2>2. QED
    BY <1>1, <1>2, <2>1, SetInduction
<1>4. \E s : Defines(s, Len(seqs))
  BY <1>3
<1>5. QED
  BY <1>4 DEF Flats

LEMMA FlattenSeqDef ==
  ASSUME NEW seqs
  PROVE  FlattenSeq(seqs) = IF Len(seqs) = 0 THEN seqs ELSE Flats(seqs)[Len(seqs)]
BY DEF FlattenSeq, Flats
-----------------------------------------------------------------------------
LEMMA SumsType ==
  ASSUME NEW F, NEW size \in [F -> Nat], NEW rows \in Seq(F)
  PROVE  /\ Sums(rows, size)[0] = 0
         /\ \A n \in 0..Len(rows) : Sums(rows, size)[n] \in Nat
         /\ \A n \in 1..Len(rows) : Sums(rows, size)[n] = Sums(rows, size)[n - 1] + size[rows[n]]
<1> DEFINE s == Sums(rows, size)
           S == {n \in 0..Len(rows) : s[n] \in Nat}
<1>1. Len(rows) \in Nat /\ \A n \in 1..Len(rows) : size[rows[n]] \in Nat
  BY LenProperties, ElementOfSeq
<1>2. s[0] = 0 /\ \A n \in 1..Len(rows) : s[n] = s[n - 1] + size[rows[n]]
  BY <1>1, SumsDef
<1> HIDE DEF s
<1>3. 0 \in S
  BY <1>1, <1>2
<1>4. ASSUME NEW n \in 0..(Len(rows) - 1), n \in S PROVE n + 1 \in S
  <2>1. n + 1 \in 1..Len(rows) /\ (n + 1) - 1 = n
    BY <1>1
  <2>2. s[n + 1] = s[n] + size[rows[n + 1]]
    BY <1>2, <2>1
  <2>3. QED
    BY <1>1, <1>4, <2>1, <2>2
<1>5. \A n \in 0..Len(rows) : n \in S
  <2> HIDE DEF S
  <2>1. QED
    BY <1>1, <1>3, <1>4, UpTo
<1>6. QED
  BY <1>2, <1>5 DEF s

\* One more file adds its size.
LEMMA BytesMore ==
  ASSUME NEW F, NEW size \in [F -> Nat], NEW rows \in Seq(F), NEW more \in Seq(F),
         Len(more) = Len(rows) + 1, \A i \in 1..Len(rows) : more[i] = rows[i]
  PROVE  Bytes(more, size) = Bytes(rows, size) + size[more[Len(more)]]
<1> DEFINE s == Sums(rows, size)
           t == Sums(more, size)
           Adds(r, sum) == sum[0] = 0 /\ \A n \in 1..Len(r) : sum[n] = sum[n - 1] + size[r[n]]
           S == {n \in 0..Len(rows) : t[n] = s[n]}
<1>1. Len(rows) \in Nat
  BY LenProperties
<1>a. \A r \in Seq(F) : Adds(r, Sums(r, size))
  BY SumsType
<1>b. Adds(rows, s) /\ Adds(more, t)
  BY <1>a, Zenon
<1> HIDE DEF s, t
<1>2. s[0] = 0 /\ \A n \in 1..Len(rows) : s[n] = s[n - 1] + size[rows[n]]
  BY <1>b
<1>3. t[0] = 0 /\ \A n \in 1..Len(more) : t[n] = t[n - 1] + size[more[n]]
  BY <1>b
<1>4. 0 \in S
  BY <1>1, <1>2, <1>3
<1>5. ASSUME NEW n \in 0..(Len(rows) - 1), n \in S PROVE n + 1 \in S
  <2>1. n + 1 \in 1..Len(rows) /\ n + 1 \in 1..Len(more) /\ (n + 1) - 1 = n
    BY <1>1
  <2>2. t[n + 1] = t[n] + size[more[n + 1]] /\ s[n + 1] = s[n] + size[rows[n + 1]]
    BY <1>2, <1>3, <2>1
  <2>3. QED
    BY <1>1, <1>5, <2>1, <2>2
<1>6. \A n \in 0..Len(rows) : n \in S
  <2> HIDE DEF S
  <2>1. QED
    BY <1>1, <1>4, <1>5, UpTo
<1>7. t[Len(rows)] = s[Len(rows)]
  BY <1>1, <1>6
<1>8. t[Len(more)] = s[Len(rows)] + size[more[Len(more)]]
  <2>1. Len(more) \in 1..Len(more) /\ Len(more) - 1 = Len(rows)
    BY <1>1
  <2>2. QED
    BY <1>1, <1>3, <1>7, <2>1
<1>9. QED
  BY <1>8 DEF Bytes, s, t

LEMMA BytesAppend ==
  ASSUME NEW F, NEW size \in [F -> Nat], NEW rows \in Seq(F), NEW f \in F
  PROVE  Bytes(Append(rows, f), size) = Bytes(rows, size) + size[f]
<1> DEFINE more == Append(rows, f)
<1>1. /\ more \in Seq(F)
      /\ Len(more) = Len(rows) + 1 /\ more[Len(more)] = f
      /\ \A i \in 1..Len(rows) : more[i] = rows[i]
  BY LenProperties
<1> HIDE DEF more
<1>2. Bytes(more, size) = Bytes(rows, size) + size[more[Len(more)]]
  BY <1>1, BytesMore
<1>3. QED
  BY <1>1, <1>2 DEF more

LEMMA BytesNone ==
  ASSUME NEW F, NEW size \in [F -> Nat]
  PROVE  Bytes(<<>>, size) = 0
<1>1. <<>> \in Seq(F) /\ Len(<<>>) = 0
  BY EmptySeq
<1>2. QED
  BY <1>1, SumsType DEF Bytes

LEMMA BytesOne ==
  ASSUME NEW F, NEW size \in [F -> Nat], NEW f \in F
  PROVE  Bytes(<<f>>, size) = size[f]
<1>1. <<>> \in Seq(F) /\ <<f>> = Append(<<>>, f)
  BY EmptySeq
<1>2. Bytes(Append(<<>>, f), size) = Bytes(<<>>, size) + size[f]
  BY <1>1, BytesAppend
<1>3. Bytes(<<>>, size) = 0 /\ size[f] \in Nat
  BY BytesNone
<1>4. QED
  BY <1>1, <1>2, <1>3

LEMMA BytesType ==
  ASSUME NEW F, NEW size \in [F -> Nat], NEW rows \in Seq(F)
  PROVE  Bytes(rows, size) \in Nat
BY SumsType, LenProperties DEF Bytes

LEMMA FlattenNone == FlattenSeq(<<>>) = <<>>
BY FlattenSeqDef, EmptySeq

\* One more batch is appended to what the batches hold.
LEMMA FlattenMore ==
  ASSUME NEW F, NEW bs \in Seq(Seq(F)), NEW more \in Seq(Seq(F)),
         Len(more) = Len(bs) + 1, \A i \in 1..Len(bs) : more[i] = bs[i]
  PROVE  FlattenSeq(more) = FlattenSeq(bs) \o more[Len(more)]
<1> DEFINE s == Flats(bs)
           t == Flats(more)
           S == {n \in Nat : n = 0 \/ t[n] = s[n]}
<1>1. Len(bs) \in Nat /\ Len(more) \in Nat /\ more[Len(more)] \in Seq(F)
  BY LenProperties, ElementOfSeq
<1>2. \A i \in 1..Len(bs) : s[i] = IF i = 1 THEN bs[i] ELSE s[i - 1] \o bs[i]
  BY <1>1, FlatsDef
<1>3. \A i \in 1..Len(more) : t[i] = IF i = 1 THEN more[i] ELSE t[i - 1] \o more[i]
  BY <1>1, FlatsDef
<1>4. /\ FlattenSeq(bs) = IF Len(bs) = 0 THEN bs ELSE s[Len(bs)]
      /\ FlattenSeq(more) = IF Len(more) = 0 THEN more ELSE t[Len(more)]
  BY FlattenSeqDef
<1> HIDE DEF s, t
<1>5. 0 \in S
  OBVIOUS
<1>6. ASSUME NEW n \in 0..(Len(bs) - 1), n \in S PROVE n + 1 \in S
  <2>1. n + 1 \in 1..Len(bs) /\ n + 1 \in 1..Len(more) /\ (n + 1) - 1 = n
    BY <1>1
  <2>2. t[n + 1] = s[n + 1]
    BY <1>1, <1>2, <1>3, <1>6, <2>1
  <2>3. QED
    BY <2>1, <2>2
<1>7. \A n \in 0..Len(bs) : n \in S
  <2> HIDE DEF S
  <2>1. QED
    BY <1>1, <1>5, <1>6, UpTo
<1>8. CASE Len(bs) = 0
  <2>1. bs = <<>>
    BY <1>8, EmptySeq
  <2>2. FlattenSeq(more) = more[Len(more)]
    BY <1>1, <1>3, <1>4, <1>8
  <2>3. <<>> \o more[Len(more)] = more[Len(more)]
    BY <1>1, ConcatEmptySeq
  <2>4. QED
    BY <2>1, <2>2, <2>3, FlattenNone
<1>9. CASE Len(bs) # 0
  <2>1. /\ Len(more) \in 1..Len(more) /\ Len(more) # 1 /\ Len(more) # 0
        /\ Len(more) - 1 = Len(bs) /\ Len(bs) \in 0..Len(bs)
    BY <1>1, <1>9
  <2>2. t[Len(bs)] = s[Len(bs)]
    BY <1>7, <1>9, <2>1
  <2>3. t[Len(more)] = s[Len(bs)] \o more[Len(more)]
    BY <1>3, <2>1, <2>2
  <2>4. QED
    BY <1>4, <1>9, <2>1, <2>3
<1>10. QED
  BY <1>8, <1>9

LEMMA FlattenAppend ==
  ASSUME NEW F, NEW bs \in Seq(Seq(F)), NEW b \in Seq(F)
  PROVE  FlattenSeq(Append(bs, b)) = FlattenSeq(bs) \o b
<1> DEFINE more == Append(bs, b)
<1>1. /\ more \in Seq(Seq(F))
      /\ Len(more) = Len(bs) + 1 /\ more[Len(more)] = b
      /\ \A i \in 1..Len(bs) : more[i] = bs[i]
  BY LenProperties
<1> HIDE DEF more
<1>2. FlattenSeq(more) = FlattenSeq(bs) \o more[Len(more)]
  BY <1>1, FlattenMore
<1>3. QED
  BY <1>1, <1>2 DEF more
-----------------------------------------------------------------------------
\* A batch the plan may make of files of sum bytes, none of them of more than large.
GoodBatch(b, size, sum, large) ==
  /\ Len(b) \in 1..BatchFiles /\ Bytes(b, size) <= sum
  /\ Bytes(b, size) <= BatchBytes \/ (Len(b) = 1 /\ Bytes(b, size) <= large)

GoodBatches(bs, F, size, sum, large, rows) ==
  /\ bs \in Seq(Seq(F))
  /\ \A k \in 1..Len(bs) : GoodBatch(bs[k], size, sum, large)
  /\ FlattenSeq(bs) = rows

\* The inductive invariant of the packing: the files so far are in the closed batches and
\* the open one, in their order, and the open one has room within the budget.
Packs(acc, F, size, sum, large, rows) ==
  /\ acc \in [batches : Seq(Seq(F)), current : Seq(F), bytes : Nat]
  /\ acc.bytes = Bytes(acc.current, size)
  /\ acc.bytes <= BatchBytes /\ acc.bytes <= sum
  /\ Len(acc.current) <= BatchFiles
  /\ \E packed \in Seq(F) :
       /\ GoodBatches(acc.batches, F, size, sum, large, packed)
       /\ rows = packed \o acc.current

\* A batch more.
LEMMA GoodAppend ==
  ASSUME NEW F, NEW size \in [F -> Nat], NEW sum \in Nat, NEW large \in Nat,
         NEW bs, NEW rows \in Seq(F), GoodBatches(bs, F, size, sum, large, rows),
         NEW b \in Seq(F), GoodBatch(b, size, sum, large)
  PROVE  GoodBatches(Append(bs, b), F, size, sum, large, rows \o b)
<1> DEFINE more == Append(bs, b)
<1>1. bs \in Seq(Seq(F)) /\ Len(bs) \in Nat
  BY LenProperties DEF GoodBatches
<1>2. /\ more \in Seq(Seq(F))
      /\ Len(more) = Len(bs) + 1 /\ more[Len(bs) + 1] = b
      /\ \A i \in 1..Len(bs) : more[i] = bs[i]
  BY <1>1
<1>3. FlattenSeq(more) = FlattenSeq(bs) \o b
  BY <1>1, FlattenAppend
<1> HIDE DEF more
<1>4. ASSUME NEW k \in 1..Len(more) PROVE GoodBatch(more[k], size, sum, large)
  <2>1. CASE k \in 1..Len(bs)
    <3>1. more[k] = bs[k] /\ GoodBatch(bs[k], size, sum, large)
      BY <1>2, <2>1 DEF GoodBatches
    <3>2. QED
      BY <3>1
  <2>2. CASE k \notin 1..Len(bs)
    <3>1. k = Len(bs) + 1
      BY <1>1, <1>2, <2>2
    <3>2. QED
      BY <1>2, <3>1
  <2>3. QED
    BY <2>1, <2>2
<1>5. GoodBatches(more, F, size, sum, large, rows \o b)
  BY <1>2, <1>3, <1>4 DEF GoodBatches
<1>6. QED
  BY <1>5 DEF more

\* More bytes in all.
LEMMA GoodMore ==
  ASSUME NEW F, NEW size \in [F -> Nat], NEW sum \in Nat, NEW large \in Nat,
         NEW bs, NEW rows, GoodBatches(bs, F, size, sum, large, rows), NEW add \in Nat
  PROVE  GoodBatches(bs, F, size, sum + add, large, rows)
<1>1. ASSUME NEW k \in 1..Len(bs) PROVE GoodBatch(bs[k], size, sum + add, large)
  <2>1. GoodBatch(bs[k], size, sum, large) /\ bs[k] \in Seq(F)
    BY ElementOfSeq DEF GoodBatches
  <2>2. Bytes(bs[k], size) \in Nat
    BY <2>1, BytesType
  <2>3. QED
    BY <2>1, <2>2 DEF GoodBatch
<1>2. QED
  BY <1>1 DEF GoodBatches

\* The open batch is closed.
LEMMA FlushedPacks ==
  ASSUME NEW F, NEW size \in [F -> Nat], NEW sum \in Nat, NEW large \in Nat, NEW rows,
         NEW acc, Packs(acc, F, size, sum, large, rows)
  PROVE  GoodBatches(Flushed(acc), F, size, sum, large, rows) /\ rows \in Seq(F)
<1> DEFINE cur == acc.current
           bs == acc.batches
<1>1. cur \in Seq(F) /\ Len(cur) \in Nat /\ Bytes(cur, size) <= BatchBytes
      /\ Bytes(cur, size) <= sum /\ Len(cur) <= BatchFiles
  BY LenProperties DEF Packs
<1>2. PICK packed \in Seq(F) :
        GoodBatches(bs, F, size, sum, large, packed) /\ rows = packed \o cur
  BY DEF Packs
<1>3. Flushed(acc) = IF cur = <<>> THEN bs ELSE Append(bs, cur)
  BY DEF Flushed
<1> HIDE DEF cur, bs
<1>4. rows \in Seq(F)
  BY <1>1, <1>2, ConcatProperties
<1>5. CASE cur = <<>>
  <2>1. rows = packed
    BY <1>2, <1>5, ConcatEmptySeq
  <2>2. QED
    BY <1>2, <1>3, <1>4, <1>5, <2>1
<1>6. CASE cur # <<>>
  <2>1. Len(cur) # 0
    BY <1>1, <1>6, EmptySeq
  <2>2. GoodBatch(cur, size, sum, large)
    BY <1>1, <2>1, BudgetAssumption DEF GoodBatch
  <2>3. GoodBatches(Append(bs, cur), F, size, sum, large, packed \o cur)
    BY <1>1, <1>2, <2>2, GoodAppend
  <2>4. QED
    BY <1>2, <1>3, <1>4, <1>6, <2>3
<1>7. QED
  BY <1>5, <1>6

\* A batch of one file.
LEMMA OneFile ==
  ASSUME NEW F, NEW f \in F
  PROVE  <<f>> \in Seq(F) /\ Len(<<f>>) = 1
OBVIOUS

LEMMA ConcatAppend ==
  ASSUME NEW F, NEW s \in Seq(F), NEW t \in Seq(F), NEW f \in F
  PROVE  s \o Append(t, f) = Append(s \o t, f) /\ (s \o t) \o <<f>> = Append(s \o t, f)
<1>1. Append(t, f) = t \o <<f>> /\ Append(s \o t, f) = (s \o t) \o <<f>>
  BY AppendIsConcat, ConcatProperties
<1>2. QED
  BY <1>1, OneFile, ConcatAssociative

\* Place keeps the invariant of the packing.
LEMMA PlacePacks ==
  ASSUME NEW F, NEW size \in [F -> Nat], NEW sum \in Nat, NEW large \in Nat,
         NEW rows, NEW acc, Packs(acc, F, size, sum, large, rows),
         NEW f \in F, size[f] <= large
  PROVE  Packs(Place(acc, f, size[f]), F, size, sum + size[f], large, Append(rows, f))
<1> DEFINE new == Place(acc, f, size[f])
           fl == Flushed(acc)
<1>1. size[f] \in Nat /\ sum + size[f] \in Nat /\ <<f>> \in Seq(F) /\ Len(<<f>>) = 1
      /\ Bytes(<<f>>, size) = size[f] /\ {BatchBytes, BatchFiles} \subseteq Nat \ {0}
  BY OneFile, BytesOne, BudgetAssumption
<1>2. /\ GoodBatches(fl, F, size, sum + size[f], large, rows)
      /\ rows \in Seq(F)
  BY <1>1, FlushedPacks, GoodMore
<1>3. fl \in Seq(Seq(F))
  BY <1>2 DEF GoodBatches
<1>4. Append(rows, f) = rows \o <<f>>
  BY <1>2, AppendIsConcat
<1>5. <<>> \in Seq(F) /\ Len(<<>>) = 0 /\ Bytes(<<>>, size) = 0
  BY EmptySeq, BytesNone
<1> HIDE DEF fl
<1>6. CASE size[f] > BatchBytes
  <2>1. new = [batches |-> Append(fl, <<f>>), current |-> <<>>, bytes |-> 0]
    BY <1>6 DEF Place, fl
  <2> HIDE DEF new
  <2>2. GoodBatch(<<f>>, size, sum + size[f], large)
    BY <1>1 DEF GoodBatch
  <2>3. GoodBatches(Append(fl, <<f>>), F, size, sum + size[f], large, rows \o <<f>>)
    BY <1>1, <1>2, <2>2, GoodAppend
  <2>4. rows \o <<f>> \in Seq(F) /\ (rows \o <<f>>) \o <<>> = rows \o <<f>>
    BY <1>1, <1>2, ConcatProperties, ConcatEmptySeq
  <2>5. Append(fl, <<f>>) \in Seq(Seq(F))
    BY <2>3 DEF GoodBatches
  <2>6. /\ new.batches = Append(fl, <<f>>) /\ new.current = <<>> /\ new.bytes = 0
        /\ new \in [batches : Seq(Seq(F)), current : Seq(F), bytes : Nat]
    BY <2>1, <2>5, <1>5
  <2>7. Packs(new, F, size, sum + size[f], large, rows \o <<f>>)
    <3>1. /\ new.bytes = Bytes(new.current, size)
          /\ new.bytes <= BatchBytes /\ new.bytes <= sum + size[f]
          /\ Len(new.current) <= BatchFiles
      BY <1>1, <1>5, <2>6
    <3>2. /\ GoodBatches(new.batches, F, size, sum + size[f], large, rows \o <<f>>)
          /\ rows \o <<f>> = (rows \o <<f>>) \o new.current
      BY <2>3, <2>4, <2>6
    <3>3. QED
      BY <2>4, <2>6, <3>1, <3>2, Zenon DEF Packs
  <2>8. QED
    BY <1>4, <2>7 DEF new
<1>7. CASE ~(size[f] > BatchBytes) /\ Full(acc, size[f])
  <2>1. new = [batches |-> fl, current |-> <<f>>, bytes |-> size[f]]
    BY <1>7 DEF Place, fl
  <2> HIDE DEF new
  <2>2. /\ new.batches = fl /\ new.current = <<f>> /\ new.bytes = size[f]
        /\ new \in [batches : Seq(Seq(F)), current : Seq(F), bytes : Nat]
    BY <2>1, <1>1, <1>3
  <2>3. Packs(new, F, size, sum + size[f], large, rows \o <<f>>)
    <3>1. /\ new.bytes = Bytes(new.current, size)
          /\ new.bytes <= BatchBytes /\ new.bytes <= sum + size[f]
          /\ Len(new.current) <= BatchFiles
      BY <1>1, <1>7, <2>2
    <3>2. /\ GoodBatches(new.batches, F, size, sum + size[f], large, rows)
          /\ rows \o <<f>> = rows \o new.current
      BY <1>2, <2>2
    <3>3. QED
      BY <1>2, <2>2, <3>1, <3>2, Zenon DEF Packs
  <2>4. QED
    BY <1>4, <2>3 DEF new
<1>8. CASE ~(size[f] > BatchBytes) /\ ~Full(acc, size[f])
  <2> DEFINE cur == acc.current
  <2>1. /\ acc.batches \in Seq(Seq(F)) /\ cur \in Seq(F) /\ acc.bytes \in Nat
        /\ acc.bytes = Bytes(cur, size) /\ acc.bytes <= BatchBytes /\ acc.bytes <= sum
        /\ Len(cur) <= BatchFiles /\ Len(cur) \in Nat
    BY LenProperties DEF Packs
  <2>2. PICK packed \in Seq(F) :
          GoodBatches(acc.batches, F, size, sum, large, packed) /\ rows = packed \o cur
    BY DEF Packs
  <2>3. /\ new.batches = acc.batches /\ new.current = Append(cur, f)
        /\ new.bytes = acc.bytes + size[f]
        /\ new = [acc EXCEPT !.current = Append(@, f), !.bytes = @ + size[f]]
    <3>1. new = [acc EXCEPT !.current = Append(@, f), !.bytes = @ + size[f]]
      BY <1>8 DEF Place
    <3>2. acc \in [batches : Seq(Seq(F)), current : Seq(F), bytes : Nat]
      BY DEF Packs
    <3>3. QED
      BY <3>1, <3>2
  <2>4. cur = <<>> \/ (acc.bytes + size[f] <= BatchBytes /\ Len(cur) < BatchFiles)
    BY <1>1, <1>8, <2>1 DEF Full
  <2> HIDE DEF new, cur
  <2>5. Append(cur, f) \in Seq(F) /\ Len(Append(cur, f)) = Len(cur) + 1
    BY <2>1, AppendProperties
  <2>6. Bytes(Append(cur, f), size) = acc.bytes + size[f]
    BY <2>1, BytesAppend
  <2>7. acc.bytes + size[f] <= BatchBytes /\ Len(cur) + 1 <= BatchFiles
    <3>1. cur = <<>> => acc.bytes = 0 /\ Len(cur) = 0
      BY <1>5, <2>1
    <3>2. QED
      BY <1>1, <1>8, <2>1, <2>4, <3>1
  <2>8. GoodBatches(acc.batches, F, size, sum + size[f], large, packed)
    BY <1>1, <2>2, GoodMore
  <2>9. Append(rows, f) = packed \o Append(cur, f)
    <3>1. packed \o Append(cur, f) = Append(packed \o cur, f)
      BY <2>1, ConcatAppend
    <3>2. QED
      BY <2>2, <3>1, Zenon
  <2>10. new \in [batches : Seq(Seq(F)), current : Seq(F), bytes : Nat]
    <3>1. acc \in [batches : Seq(Seq(F)), current : Seq(F), bytes : Nat]
      BY DEF Packs
    <3>2. new = [batches |-> acc.batches, current |-> Append(cur, f),
                 bytes |-> acc.bytes + size[f]]
      BY <2>3, <3>1 DEF cur
    <3>3. QED
      BY <1>1, <2>1, <2>5, <3>2
  <2>11. Packs(new, F, size, sum + size[f], large, Append(rows, f))
    <3>1. /\ new.bytes = Bytes(new.current, size)
          /\ new.bytes <= BatchBytes /\ new.bytes <= sum + size[f]
          /\ Len(new.current) <= BatchFiles
      BY <1>1, <2>1, <2>3, <2>5, <2>6, <2>7
    <3>2. GoodBatches(new.batches, F, size, sum + size[f], large, packed)
          /\ Append(rows, f) = packed \o new.current
      BY <2>3, <2>8, <2>9
    <3>3. QED
      BY <2>10, <3>1, <3>2 DEF Packs
  <2>12. QED
    BY <2>11 DEF new
<1>9. QED
  BY <1>6, <1>7, <1>8

LEMMA SubSeqMore ==
  ASSUME NEW F, NEW rows \in Seq(F)
  PROVE  /\ SubSeq(rows, 1, 0) = <<>> /\ SubSeq(rows, 1, Len(rows)) = rows
         /\ \A n \in 0..(Len(rows) - 1) :
              SubSeq(rows, 1, n + 1) = Append(SubSeq(rows, 1, n), rows[n + 1])
<1>1. Len(rows) \in Nat
  BY LenProperties
<1>2. SubSeq(rows, 1, 0) = <<>>
  BY <1>1, SubSeqEmpty
<1>3. SubSeq(rows, 1, Len(rows)) = rows
  BY SubSeqFull
<1>4. ASSUME NEW n \in 0..(Len(rows) - 1)
      PROVE  SubSeq(rows, 1, n + 1) = Append(SubSeq(rows, 1, n), rows[n + 1])
  <2>1. n \in Nat /\ n + 1 \in 1..Len(rows) /\ n \in 0..Len(rows)
    BY <1>1
  <2> DEFINE s == SubSeq(rows, 1, n)
             a == Append(s, rows[n + 1])
             b == SubSeq(rows, 1, n + 1)
  <2>2. s \in Seq(F) /\ Len(s) = n /\ (\A i \in 1..n : s[i] = rows[i]) /\ rows[n + 1] \in F
    BY <1>1, <2>1
  <2>3. b \in Seq(F) /\ Len(b) = n + 1 /\ \A i \in 1..(n + 1) : b[i] = rows[i]
    BY <1>1, <2>1
  <2> HIDE DEF s, b
  <2>4. a \in Seq(F) /\ Len(a) = n + 1 /\ a[n + 1] = rows[n + 1] /\ \A i \in 1..n : a[i] = s[i]
    BY <2>1, <2>2
  <2> HIDE DEF a
  <2>5. \A i \in 1..(n + 1) : a[i] = b[i]
    BY <2>1, <2>2, <2>3, <2>4
  <2>6. a = b
    BY <2>3, <2>4, <2>5, SeqEqual
  <2>7. QED
    BY <2>6 DEF a, b, s
<1>5. QED
  BY <1>2, <1>3, <1>4

\* The batches of a plan: every file in them once and in order, each batch within the budget
\* or of one file, none of more bytes than there are in all.
LEMMA PackGood ==
  ASSUME NEW F, NEW size \in [F -> Nat], NEW rows \in Seq(F), NEW large \in Nat,
         \A n \in 1..Len(rows) : size[rows[n]] <= large
  PROVE  GoodBatches(Pack(rows, size), F, size, Bytes(rows, size), large, rows)
<1> DEFINE p == Packed(rows, size)
           s == Sums(rows, size)
           r(n) == SubSeq(rows, 1, n)
           P(n) == Packs(p[n], F, size, s[n], large, r(n))
           S == {n \in 0..Len(rows) : P(n)}
           start == [batches |-> <<>>, current |-> <<>>, bytes |-> 0]
<1>1. Len(rows) \in Nat /\ \A n \in 1..Len(rows) : rows[n] \in F
  BY LenProperties, ElementOfSeq
<1>2. s[0] = 0 /\ \A n \in 0..Len(rows) : s[n] \in Nat
  BY SumsType
<1>3. \A n \in 1..Len(rows) : s[n] = s[n - 1] + size[rows[n]]
  BY SumsType
<1>4. p[0] = start /\ \A n \in 1..Len(rows) : p[n] = Place(p[n - 1], rows[n], size[rows[n]])
  BY <1>1, PackedDef
<1>5. r(0) = <<>> /\ r(Len(rows)) = rows
      /\ \A n \in 0..(Len(rows) - 1) : r(n + 1) = Append(r(n), rows[n + 1])
  BY SubSeqMore
<1>6. Bytes(rows, size) = s[Len(rows)] /\ Pack(rows, size) = Flushed(p[Len(rows)])
  BY DEF Bytes, Pack
<1> HIDE DEF p, s, r
<1>7. P(0)
  <2>1. <<>> \in Seq(F) /\ <<>> \in Seq(Seq(F)) /\ Len(<<>>) = 0 /\ <<>> \o <<>> = <<>>
    BY EmptySeq, ConcatEmptySeq
  <2>2. GoodBatches(<<>>, F, size, 0, large, <<>>)
    BY <2>1, FlattenNone DEF GoodBatches
  <2>3. Bytes(<<>>, size) = 0
    BY BytesNone
  <2>4. /\ start \in [batches : Seq(Seq(F)), current : Seq(F), bytes : Nat]
        /\ start.batches = <<>> /\ start.current = <<>> /\ start.bytes = 0
    BY <2>1
  <2> HIDE DEF start
  <2>5. /\ start.bytes = Bytes(start.current, size)
        /\ start.bytes <= BatchBytes /\ start.bytes <= 0
        /\ Len(start.current) <= BatchFiles
    BY <2>1, <2>3, <2>4, BudgetAssumption
  <2>6. GoodBatches(start.batches, F, size, 0, large, <<>>) /\ <<>> = <<>> \o start.current
    BY <2>1, <2>2, <2>4
  <2>7. Packs(start, F, size, 0, large, <<>>)
    BY <2>1, <2>4, <2>5, <2>6, Zenon DEF Packs
  <2>8. QED
    BY <1>2, <1>4, <1>5, <2>7
<1>8. ASSUME NEW n \in 0..(Len(rows) - 1), n \in S PROVE n + 1 \in S
  <2>1. n + 1 \in 1..Len(rows) /\ n + 1 \in 0..Len(rows) /\ n \in 0..Len(rows) /\ (n + 1) - 1 = n
    BY <1>1
  <2>2. P(n) /\ s[n] \in Nat /\ rows[n + 1] \in F /\ size[rows[n + 1]] <= large
    BY <1>1, <1>2, <1>8, <2>1
  <2>3. /\ s[n + 1] = s[n] + size[rows[n + 1]]
        /\ p[n + 1] = Place(p[n], rows[n + 1], size[rows[n + 1]])
    BY <1>3, <1>4, <2>1
  <2>4. Packs(Place(p[n], rows[n + 1], size[rows[n + 1]]), F, size, s[n] + size[rows[n + 1]],
              large, Append(r(n), rows[n + 1]))
    BY <2>2, PlacePacks
  <2>5. P(n + 1)
    BY <1>5, <2>3, <2>4
  <2>6. QED
    BY <2>1, <2>5
<1>9. \A n \in 0..Len(rows) : n \in S
  <2>1. 0 \in S
    BY <1>1, <1>7
  <2> HIDE DEF S
  <2>2. QED
    BY <1>1, <1>8, <2>1, UpTo
<1>10. P(Len(rows)) /\ s[Len(rows)] \in Nat
  BY <1>1, <1>2, <1>9
<1>11. QED
  BY <1>5, <1>6, <1>10, FlushedPacks

\* The plan of no files has no batches.
LEMMA PackNone ==
  ASSUME NEW size, NEW rows, Len(rows) = 0
  PROVE  Pack(rows, size) = <<>>
<1>1. Packed(rows, size)[0] = [batches |-> <<>>, current |-> <<>>, bytes |-> 0]
  BY PackedDef
<1>2. QED
  BY <1>1 DEF Pack, Flushed

\* The largest of the files is no smaller than any of them.
LEMMA LargestIs ==
  ASSUME NEW F, NEW size \in [F -> Nat], NEW rows \in Seq(F)
  PROVE  /\ Largest(rows, size) \in Nat
         /\ \A n \in 1..Len(rows) : size[rows[n]] <= Largest(rows, size)
<1> DEFINE Of(m) == {0} \cup {size[rows[i]] : i \in 1..m}
           S == {m \in 0..Len(rows) : \E x \in Of(m) : \A y \in Of(m) : x >= y}
<1>1. Len(rows) \in Nat /\ \A n \in 1..Len(rows) : rows[n] \in F /\ size[rows[n]] \in Nat
  BY LenProperties, ElementOfSeq
<1>2. 0 \in S
  BY <1>1
<1>3. ASSUME NEW n \in 0..(Len(rows) - 1), n \in S PROVE n + 1 \in S
  <2>1. n + 1 \in 1..Len(rows) /\ n + 1 \in 0..Len(rows) /\ n \in 0..Len(rows)
    BY <1>1
  <2> DEFINE z == size[rows[n + 1]]
  <2>2. z \in Nat
    BY <1>1, <2>1
  <2>3. PICK x \in Of(n) : \A y \in Of(n) : x >= y
    BY <1>3
  <2>4. Of(n) \subseteq Nat
    BY <1>1, <2>1
  <2>5. Of(n + 1) = Of(n) \cup {z}
    <3>1. 1..(n + 1) = (1..n) \cup {n + 1}
      BY <2>1
    <3>2. QED
      BY <3>1
  <2> HIDE DEF Of, z
  <2>6. \E u \in Of(n + 1) : \A y \in Of(n + 1) : u >= y
    <3>1. CASE x >= z
      BY <2>2, <2>3, <2>4, <2>5, <3>1
    <3>2. CASE ~(x >= z)
      BY <2>2, <2>3, <2>4, <2>5, <3>2
    <3>3. QED
      BY <3>1, <3>2
  <2>7. QED
    BY <2>1, <2>6
<1>4. \A n \in 0..Len(rows) : n \in S
  <2> HIDE DEF S
  <2>1. QED
    BY <1>1, <1>2, <1>3, UpTo
<1>5. Of(Len(rows)) = {0} \cup {size[f] : f \in ToSet(rows)} /\ Of(Len(rows)) \subseteq Nat
  <2>1. ToSet(rows) = {rows[i] : i \in 1..Len(rows)}
    BY DEF ToSet
  <2>2. QED
    BY <1>1, <2>1
<1>6. \E x \in Of(Len(rows)) : \A y \in Of(Len(rows)) : x >= y
  <2>1. Len(rows) \in S
    <3> HIDE DEF S
    <3>1. QED
      BY <1>1, <1>4
  <2> HIDE DEF Of
  <2>2. QED
    BY <2>1
<1>7. Largest(rows, size) = Max(Of(Len(rows)))
  BY <1>5 DEF Largest
<1>8. \A i \in 1..Len(rows) : size[rows[i]] \in Of(Len(rows))
  OBVIOUS
<1> HIDE DEF Of
<1>9. Max(Of(Len(rows))) \in Of(Len(rows))
      /\ \A y \in Of(Len(rows)) : Max(Of(Len(rows))) >= y
  BY <1>6 DEF Max
<1>10. QED
  BY <1>1, <1>5, <1>7, <1>8, <1>9

\* Empty files take no bytes.
LEMMA NoBytes ==
  ASSUME NEW F, NEW size \in [F -> Nat], NEW rows \in Seq(F), Largest(rows, size) = 0
  PROVE  Bytes(rows, size) = 0
<1> DEFINE s == Sums(rows, size)
           S == {n \in 0..Len(rows) : s[n] = 0}
<1>1. Len(rows) \in Nat /\ \A n \in 1..Len(rows) : rows[n] \in F /\ size[rows[n]] \in Nat
  BY LenProperties, ElementOfSeq
<1>2. s[0] = 0 /\ \A n \in 1..Len(rows) : s[n] = s[n - 1] + size[rows[n]]
  BY SumsType
<1>3. \A n \in 1..Len(rows) : size[rows[n]] = 0
  BY <1>1, LargestIs
<1> HIDE DEF s
<1>4. 0 \in S
  BY <1>1, <1>2
<1>5. ASSUME NEW n \in 0..(Len(rows) - 1), n \in S PROVE n + 1 \in S
  <2>1. n + 1 \in 1..Len(rows) /\ (n + 1) - 1 = n /\ n + 1 \in 0..Len(rows)
    BY <1>1
  <2>2. s[n + 1] = s[n] + 0 /\ s[n] = 0
    BY <1>2, <1>3, <1>5, <2>1
  <2>3. QED
    BY <2>1, <2>2
<1>6. \A n \in 0..Len(rows) : n \in S
  <2> HIDE DEF S
  <2>1. QED
    BY <1>1, <1>4, <1>5, UpTo
<1>7. s[Len(rows)] = 0
  BY <1>1, <1>6
<1>8. QED
  BY <1>7 DEF s, Bytes
-----------------------------------------------------------------------------
\* The files among the first n that the disk can stage, in their order.
Keeps(kept, F, size, cap, rows, n) ==
  /\ kept \in Seq(F)
  /\ \A i \in 1..n : size[rows[i]] <= cap => \E k \in 1..Len(kept) : kept[k] = rows[i]
  /\ \E at \in [1..Len(kept) -> 1..n] :
       /\ \A k \in 1..Len(kept) : kept[k] = rows[at[k]] /\ size[kept[k]] <= cap
       /\ \A j, k \in 1..Len(kept) : j < k => at[j] < at[k]

\* One file more that fits.
LEMMA KeepsOne ==
  ASSUME NEW F, NEW size \in [F -> Nat], NEW cap \in Int, NEW rows \in Seq(F), NEW n \in Nat,
         n + 1 \in 1..Len(rows), NEW kept, Keeps(kept, F, size, cap, rows, n),
         size[rows[n + 1]] <= cap
  PROVE  Keeps(Append(kept, rows[n + 1]), F, size, cap, rows, n + 1)
<1> DEFINE f == rows[n + 1]
           new == Append(kept, f)
           m == Len(kept)
<1>1. kept \in Seq(F) /\ m \in Nat /\ f \in F
  BY LenProperties, ElementOfSeq DEF Keeps
<1>2. /\ new \in Seq(F) /\ Len(new) = m + 1 /\ new[m + 1] = f
      /\ \A k \in 1..m : new[k] = kept[k]
  BY <1>1, AppendProperties
<1>3. PICK at \in [1..m -> 1..n] :
        /\ \A k \in 1..m : kept[k] = rows[at[k]] /\ size[kept[k]] <= cap
        /\ \A j, k \in 1..m : j < k => at[j] < at[k]
  BY DEF Keeps
<1>4. \A i \in 1..n : size[rows[i]] <= cap => \E k \in 1..m : kept[k] = rows[i]
  BY DEF Keeps
<1>5. size[f] <= cap
  OBVIOUS
<1> DEFINE to == [k \in 1..(m + 1) |-> IF k <= m THEN at[k] ELSE n + 1]
<1> HIDE DEF new, m
<1>6. \A i \in 1..(n + 1) : size[rows[i]] <= cap => \E k \in 1..(m + 1) : new[k] = rows[i]
  <2> SUFFICES ASSUME NEW i \in 1..(n + 1), size[rows[i]] <= cap
               PROVE  \E k \in 1..(m + 1) : new[k] = rows[i]
    OBVIOUS
  <2>1. CASE i = n + 1
    BY <1>1, <1>2, <2>1
  <2>2. CASE i # n + 1
    <3>1. i \in 1..n
      BY <2>2
    <3>2. PICK k \in 1..m : kept[k] = rows[i]
      BY <1>4, <3>1
    <3>3. k \in 1..(m + 1) /\ new[k] = rows[i]
      BY <1>1, <1>2, <3>2
    <3>4. QED
      BY <3>3
  <2>3. QED
    BY <2>1, <2>2
<1> HIDE DEF f
<1>7. /\ \A k \in 1..m : to[k] = at[k] /\ to[k] \in 1..n
      /\ to[m + 1] = n + 1
      /\ to \in [1..(m + 1) -> 1..(n + 1)]
  BY <1>1, <1>3
<1> HIDE DEF to
<1>8. \A k \in 1..(m + 1) : new[k] = rows[to[k]] /\ size[new[k]] <= cap
  <2> TAKE k \in 1..(m + 1)
  <2>1. CASE k = m + 1
    BY <1>2, <1>5, <1>7, <2>1 DEF f
  <2>2. CASE k # m + 1
    <3>1. k \in 1..m
      BY <1>1, <2>2
    <3>2. QED
      BY <1>2, <1>3, <1>7, <3>1
  <2>3. QED
    BY <2>1, <2>2
<1>9. \A j, k \in 1..(m + 1) : j < k => to[j] < to[k]
  <2> SUFFICES ASSUME NEW j \in 1..(m + 1), NEW k \in 1..(m + 1), j < k PROVE to[j] < to[k]
    OBVIOUS
  <2>1. j \in 1..m /\ to[j] = at[j] /\ at[j] \in 1..n
    BY <1>1, <1>3, <1>7
  <2>2. CASE k = m + 1
    BY <1>7, <2>1, <2>2
  <2>3. CASE k # m + 1
    <3>1. k \in 1..m
      BY <1>1, <2>3
    <3>2. QED
      BY <1>3, <1>7, <2>1, <3>1
  <2>4. QED
    BY <2>2, <2>3
<1>10. Keeps(new, F, size, cap, rows, n + 1)
  BY <1>2, <1>6, <1>7, <1>8, <1>9 DEF Keeps
<1>11. QED
  BY <1>10 DEF new, f

\* One file more that does not.
LEMMA KeepsNone ==
  ASSUME NEW F, NEW size \in [F -> Nat], NEW cap \in Int, NEW rows \in Seq(F), NEW n \in Nat,
         n + 1 \in 1..Len(rows), NEW kept, Keeps(kept, F, size, cap, rows, n),
         ~(size[rows[n + 1]] <= cap)
  PROVE  Keeps(kept, F, size, cap, rows, n + 1)
<1> DEFINE m == Len(kept)
<1>1. kept \in Seq(F) /\ \A i \in 1..n : size[rows[i]] <= cap => \E k \in 1..m : kept[k] = rows[i]
  BY DEF Keeps
<1>2. PICK at \in [1..m -> 1..n] :
        /\ \A k \in 1..m : kept[k] = rows[at[k]] /\ size[kept[k]] <= cap
        /\ \A j, k \in 1..m : j < k => at[j] < at[k]
  BY DEF Keeps
<1> HIDE DEF m
<1>3. at \in [1..m -> 1..(n + 1)]
  BY <1>2
<1>4. \A i \in 1..(n + 1) : size[rows[i]] <= cap => \E k \in 1..m : kept[k] = rows[i]
  <2> SUFFICES ASSUME NEW i \in 1..(n + 1), size[rows[i]] <= cap
               PROVE  \E k \in 1..m : kept[k] = rows[i]
    OBVIOUS
  <2>1. i \in 1..n
    OBVIOUS
  <2>2. QED
    BY <1>1, <2>1
<1>5. QED
  BY <1>1, <1>2, <1>3, <1>4 DEF Keeps, m

\* What fits of the changed files is in the plan, each file once and in its order.
LEMMA FittingKeeps ==
  ASSUME NEW F, NEW size \in [F -> Nat], NEW rows \in Seq(F), NEW free \in Nat
  PROVE  Keeps(Fitting(rows, size, free), F, size, FileCap(free), rows, Len(rows))
<1> DEFINE kept == Kept(rows, size, free)
           cap == FileCap(free)
           P(n) == Keeps(kept[n], F, size, cap, rows, n)
           S == {n \in 0..Len(rows) : P(n)}
<1>1. Len(rows) \in Nat /\ cap \in Int
  BY LenProperties, BudgetAssumption DEF FileCap, Smaller
<1>2. /\ kept[0] = <<>>
      /\ \A n \in 1..Len(rows) : kept[n] = IF size[rows[n]] <= cap
                                           THEN Append(kept[n - 1], rows[n]) ELSE kept[n - 1]
  BY <1>1, KeptDef
<1> HIDE DEF kept, cap
<1>3. P(0)
  <2>1. <<>> \in Seq(F) /\ Len(<<>>) = 0
    BY EmptySeq
  <2>2. PICK none : none = <<>>
    OBVIOUS
  <2>3. /\ [k \in 1..0 |-> 1] \in [1..Len(none) -> 1..0] /\ none \in Seq(F)
        /\ \A k \in 1..Len(none) : FALSE
        /\ \A k \in 1..0 : FALSE
    BY <2>1, <2>2
  <2>4. Keeps(none, F, size, cap, rows, 0)
    BY <2>3, Zenon DEF Keeps
  <2>5. QED
    BY <1>2, <2>2, <2>4
<1>4. ASSUME NEW n \in 0..(Len(rows) - 1), n \in S PROVE n + 1 \in S
  <2>1. /\ n \in Nat /\ n + 1 \in 1..Len(rows) /\ (n + 1) - 1 = n /\ n + 1 \in 0..Len(rows)
        /\ P(n)
    BY <1>1, <1>4
  <2>2. CASE size[rows[n + 1]] <= cap
    <3>1. kept[n + 1] = Append(kept[n], rows[n + 1])
      BY <1>2, <2>1, <2>2
    <3>2. Keeps(Append(kept[n], rows[n + 1]), F, size, cap, rows, n + 1)
      BY <1>1, <2>1, <2>2, KeepsOne
    <3>3. QED
      BY <2>1, <3>1, <3>2
  <2>3. CASE ~(size[rows[n + 1]] <= cap)
    <3>1. kept[n + 1] = kept[n]
      BY <1>2, <2>1, <2>3
    <3>2. Keeps(kept[n], F, size, cap, rows, n + 1)
      BY <1>1, <2>1, <2>3, KeepsNone
    <3>3. QED
      BY <2>1, <3>1, <3>2
  <2>4. QED
    BY <2>2, <2>3
<1>5. \A n \in 0..Len(rows) : n \in S
  <2>1. 0 \in S
    BY <1>1, <1>3
  <2> HIDE DEF S
  <2>2. QED
    BY <1>1, <1>4, <2>1, UpTo
<1>6. P(Len(rows))
  BY <1>1, <1>5
<1>7. QED
  BY <1>6 DEF Fitting, kept, cap
-----------------------------------------------------------------------------
\* What p30_plan promises of any files, sizes, budget and disk: the batches hold every file
\* that fits once and in order; each is of batch_files at most and of batch_gb at most unless
\* it is a single file; and when the plan is not refused, each fits on the disk beside the
\* headroom.
THEOREM PlansFit ==
  ASSUME NEW F, NEW size \in [F -> Nat], NEW rows \in Seq(F), NEW free \in Nat
  PROVE  LET fit == Fitting(rows, size, free)
             bs  == Pack(fit, size)
         IN  /\ bs \in Seq(Seq(F)) /\ FlattenSeq(bs) = fit
             /\ Keeps(fit, F, size, FileCap(free), rows, Len(rows))
             /\ \A k \in 1..Len(bs) :
                  /\ Len(bs[k]) \in 1..BatchFiles
                  /\ Len(bs[k]) = 1 \/ Bytes(bs[k], size) <= BatchBytes
             /\ Largest(fit, size) = 0 \/ free >= Needed(fit, size) =>
                  \A k \in 1..Len(bs) : Bytes(bs[k], size) + Headroom <= free
<1> DEFINE fit == Fitting(rows, size, free)
           bs  == Pack(fit, size)
           large == Largest(fit, size)
           sum == Bytes(fit, size)
<1>1. Keeps(fit, F, size, FileCap(free), rows, Len(rows))
  BY FittingKeeps
<1> HIDE DEF fit
<1>2. fit \in Seq(F) /\ Len(fit) \in Nat
  BY <1>1, LenProperties DEF Keeps
<1>3. large \in Nat /\ (\A n \in 1..Len(fit) : size[fit[n]] <= large) /\ sum \in Nat
  BY <1>2, LargestIs, BytesType
<1>4. GoodBatches(bs, F, size, sum, large, fit)
  BY <1>2, <1>3, PackGood
<1>5. BatchBytes \in Nat /\ BatchFiles \in Nat /\ Headroom \in Nat /\ MaxFile \in Nat
  BY BudgetAssumption
<1>6. Len(fit) = 0 => bs = <<>>
  BY PackNone
<1>7. Needed(fit, size) = Larger(large, Smaller(BatchBytes, sum)) + Headroom
  BY DEF Needed
<1>8. large = 0 => sum = 0
  BY <1>2, NoBytes
<1> HIDE DEF bs, large, sum
<1>9. bs \in Seq(Seq(F)) /\ FlattenSeq(bs) = fit
      /\ \A k \in 1..Len(bs) : GoodBatch(bs[k], size, sum, large) /\ bs[k] \in Seq(F)
  BY <1>4, ElementOfSeq DEF GoodBatches
<1>10. \A k \in 1..Len(bs) :
         /\ Len(bs[k]) \in 1..BatchFiles
         /\ Len(bs[k]) = 1 \/ Bytes(bs[k], size) <= BatchBytes
  BY <1>9 DEF GoodBatch
<1>11. ASSUME large = 0 \/ free >= Needed(fit, size), NEW k \in 1..Len(bs)
       PROVE  Bytes(bs[k], size) + Headroom <= free
  <2>1. Bytes(bs[k], size) \in Nat
    BY <1>9, BytesType
  <2>2. /\ Bytes(bs[k], size) <= sum
        /\ Bytes(bs[k], size) <= BatchBytes \/ Bytes(bs[k], size) <= large
    BY <1>9 DEF GoodBatch
  <2>3. CASE large = 0
    <3>1. 1 \in 1..Len(fit)
      <4>1. Len(fit) # 0
        BY <1>6, EmptySeq
      <4>2. QED
        BY <1>2, <4>1
    <3>2. size[fit[1]] <= FileCap(free) /\ fit[1] \in F
      BY <1>1, <1>2, <3>1, ElementOfSeq DEF Keeps
    <3>3. Headroom <= free
      BY <1>5, <3>2 DEF FileCap, Smaller
    <3>4. QED
      BY <1>5, <1>8, <2>1, <2>2, <2>3, <3>3
  <2>4. CASE large # 0
    BY <1>3, <1>5, <1>7, <1>11, <2>1, <2>2, <2>4 DEF Larger, Smaller
  <2>5. QED
    BY <2>3, <2>4
<1>12. QED
  BY <1>1, <1>9, <1>10, <1>11 DEF fit, bs, large
=============================================================================
