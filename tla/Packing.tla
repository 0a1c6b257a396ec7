------------------------------- MODULE Packing -------------------------------
(***************************************************************************)
(* How the plan cuts the changed files into batches, and what it asks of   *)
(* the disk.  rows is the sequence of changed files in the order of their  *)
(* paths, Size the size each was listed with, free the bytes left on the   *)
(* disk.                                                                   *)
(***************************************************************************)
EXTENDS Integers, Sequences, SequencesExt, FiniteSetsExt

CONSTANTS
    BatchBytes, BatchFiles,      \* budget.batch_gb, budget.batch_files
    MaxFile, Headroom            \* budget.max_file_gb, budget.headroom_gb

ASSUME BudgetAssumption ==
    /\ {BatchBytes, BatchFiles, MaxFile} \subseteq Nat \ {0}
    /\ Headroom \in Nat

\* The bytes of the first n files, for every n.
Sums(rows, size) ==
    LET sum[n \in 0..Len(rows)] == IF n = 0 THEN 0 ELSE sum[n - 1] + size[rows[n]]
    IN  sum
Bytes(rows, size) == Sums(rows, size)[Len(rows)]

Flushed(acc) == IF acc.current = <<>> THEN acc.batches ELSE Append(acc.batches, acc.current)

\* Mutant: a batch takes one file too many.
FullAt(acc, bytes) ==
    acc.current # <<>> /\ (acc.bytes + bytes > BatchBytes \/ Len(acc.current) > BatchFiles)

\* No room in the open batch for this many bytes more.
Full(acc, bytes) ==
    acc.current # <<>> /\ (acc.bytes + bytes > BatchBytes \/ Len(acc.current) >= BatchFiles)

\* Mutant: a file over batch_gb replaces the open batch.
PlaceOver(acc, f, bytes) ==
    IF bytes > BatchBytes
    THEN [batches |-> Append(acc.batches, <<f>>), current |-> <<>>, bytes |-> 0]
    ELSE IF Full(acc, bytes) THEN [batches |-> Flushed(acc), current |-> <<f>>, bytes |-> bytes]
    ELSE [acc EXCEPT !.current = Append(@, f), !.bytes = @ + bytes]

\* One file: a batch by itself, the first of a new batch, or one more of the open one.
Place(acc, f, bytes) ==
    IF bytes > BatchBytes
    THEN [batches |-> Append(Flushed(acc), <<f>>), current |-> <<>>, bytes |-> 0]
    ELSE IF Full(acc, bytes) THEN [batches |-> Flushed(acc), current |-> <<f>>, bytes |-> bytes]
    ELSE [acc EXCEPT !.current = Append(@, f), !.bytes = @ + bytes]

\* The batches and the open one after the first n files, for every n.
Packed(rows, size) ==
    LET acc[n \in 0..Len(rows)] ==
          IF n = 0 THEN [batches |-> <<>>, current |-> <<>>, bytes |-> 0]
          ELSE Place(acc[n - 1], rows[n], size[rows[n]])
    IN  acc
Pack(rows, size) == Flushed(Packed(rows, size)[Len(rows)])

Smaller(i, j) == IF i < j THEN i ELSE j
Larger(i, j)  == IF i < j THEN j ELSE i

\* A larger file is left out of the plan: the disk could never stage it.
FileCap(free) == Smaller(MaxFile, free - Headroom)
Kept(rows, size, free) ==
    LET kept[n \in 0..Len(rows)] ==
          IF n = 0 THEN <<>>
          ELSE IF size[rows[n]] <= FileCap(free) THEN Append(kept[n - 1], rows[n])
          ELSE kept[n - 1]
    IN  kept
Fitting(rows, size, free) == Kept(rows, size, free)[Len(rows)]

Largest(rows, size) == Max({0} \cup {size[f] : f \in ToSet(rows)})
Needed(rows, size) ==
    Larger(Largest(rows, size), Smaller(BatchBytes, Bytes(rows, size))) + Headroom
=============================================================================
