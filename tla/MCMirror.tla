------------------------------ MODULE MCMirror ------------------------------
(* Small instances of Mirror: file a in folder d, file b in the destination itself. *)
EXTENDS MirrorProperties, TLC

CONSTANTS a, b, e, d, root, c1, c2, c3, x, y, z

MCPath == {a, b}
MCFolder == {d}
MCItem == {a, b, d}
MCNone == {}
MCContent == {c1, c2}
\* Two contents of one size, told apart by their hash.
MCSize == [c \in {c1, c2} |-> 1]
\* A third content, too large to be staged.
MCMore == {c1, c2, c3}
MCMoreSize == [c \in MCMore |-> IF c = c3 THEN 2 ELSE 1]
MCBig == {c3}
MCNamed == {"named"}
MCTerse == {"named", "missing"}
MCHome == [i \in MCItem |-> IF i = a THEN d ELSE root]
MCWithin == [i \in MCItem |-> IF i = a THEN {d} ELSE {}]
\* Basenames all different.
MCBase == [i \in MCItem |-> IF i = a THEN x ELSE IF i = b THEN y ELSE d]
\* Revisions and deletions of both files, and of one of them.
MCEdits == [p \in {a, b} |-> {c1, c2, Absent}]
MCEditsFew == [p \in {a, b} |-> IF p = a THEN {c1, c2, Absent} ELSE {c1, Absent}]

\* A third file beside the second: enough for two batches and a deletion in one run, with
\* revisions, a file that loses its hash and one that grows too large.
MCTrio == {a, b, e}
MCTrioHome == [i \in MCTrio \cup MCFolder |-> IF i = a THEN d ELSE root]
MCTrioWithin == [i \in MCTrio \cup MCFolder |-> IF i = a THEN {d} ELSE {}]
MCTrioBase == [i \in MCTrio \cup MCFolder |->
                 CASE i = a -> x [] i = b -> y [] i = e -> z [] OTHER -> d]
MCTrioEdits == [p \in MCTrio |-> CASE p = a -> {c1, c2, Absent}
                                    [] p = b -> {c1, c3, Absent, Opaque}
                                    [] OTHER -> {c1, Absent}]

\* No definition tells the two contents apart where none is oversized and both files may
\* hold either.
MCSymmetry == Permutations({c1, c2})
=============================================================================
