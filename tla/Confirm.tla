------------------------------ MODULE Confirm ------------------------------
(***************************************************************************)
(* The verdict of a batch's confirm step: what the upload summary of the   *)
(* Proton CLI lets the pipeline record.  V is the set of verified files    *)
(* of the batch, D the set of staging directories they land in, and        *)
(* summary the CLI's last JSON line:                                       *)
(*   landed   transferredItems + skippedItems,                             *)
(*   failed   failedItems,                                                 *)
(*   failures for each failed item the CLI gave details of, the name it    *)
(*            gave: a basename, or NoName when the detail carries none.    *)
(***************************************************************************)
EXTENDS Naturals, FiniteSets

CONSTANTS
    Path,       \* files, by path_lower
    Folder,     \* directories below the destination root
    Base,       \* the basename of each file and directory
    NoName      \* a failure detail without a name

Item == Path \cup Folder
Name == {Base[x] : x \in Item}

ASSUME ItemAssumption ==
    /\ IsFiniteSet(Path)
    /\ IsFiniteSet(Folder)
    /\ Path \cap Folder = {}
    /\ NoName \notin Name

\* Every summary the CLI may print about items of the tree.
Summary == [landed : Nat, failed : Nat,
            failures : UNION {[X -> Name \cup {NoName}] : X \in SUBSET Item}]

\* The names the failures carry; a nameless one leaves no trace here.
Errors(summary) ==
    {summary.failures[x] : x \in DOMAIN summary.failures} \ {NoName}

\* The CLI names a basename only, so every verified file carrying it is marked.
FailedRows(V, summary) == {p \in V : Base[p] \in Errors(summary)}

Accounted(V, D, summary) ==
    summary.landed + summary.failed = Cardinality(V) + Cardinality(D)

\* Mutant: failures the summary gives no details of are overlooked.
ConfirmedUndetailed(V, D, summary) ==
    /\ Accounted(V, D, summary)
    /\ Errors(summary) = {Base[p] : p \in FailedRows(V, summary)}

Confirmed(V, D, summary) ==
    /\ Accounted(V, D, summary)
    /\ summary.failed = Cardinality(DOMAIN summary.failures)
    /\ Errors(summary) = {Base[p] : p \in FailedRows(V, summary)}

\* Mutant: the failed rows of a confirmed batch are confirmed too.
VerdictByBatch(V, D, summary) ==
    [p \in V |-> IF Confirmed(V, D, summary) THEN "CONFIRMED" ELSE "CONFIRM_FAILED"]

\* The item status confirm writes for each verified file.
Verdict(V, D, summary) ==
    [p \in V |-> IF Confirmed(V, D, summary) /\ p \notin FailedRows(V, summary)
                 THEN "CONFIRMED" ELSE "CONFIRM_FAILED"]
=============================================================================
