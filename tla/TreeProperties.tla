--------------------------- MODULE TreeProperties ---------------------------
(***************************************************************************)
(* What the mirror promises about names, duplicates and folders: the       *)
(* properties the runs of ProtonTree check.                                *)
(***************************************************************************)
EXTENDS ProtonTree

KnownKeys == {Key(listing[p].at) : p \in Listed} \cup {RowKey(p) : p \in Recorded}

\* The files that leave Proton in a step of a run.
Going == {u \in Files(nodes) : nodes'[u] = Absent}

\* "A folder still holding a file on record waits for that file's own trash call"
\* (p60_reconcile._stray_folders): however deep it lies and however its path is cased, no
\* file that is on record or listed goes with a folder, or is taken for a stray.
KnownFilesStay ==
    [][(pc = "strays" \/ pc = "folders") =>
         \A u \in Going : Key(nodes[u].at) \notin KnownKeys]_vars

\* "trashing the wrong one loses the mirrored copy and leaves a stray behind" (p50_trash):
\* of two files of one name, the one the last reconcile recorded goes, whatever was uploaded,
\* recased or duplicated since.
TrashesTheRecorded ==
    [][\A p \in (settled' \ settled) :
         /\ \A u \in At(nodes, rows[p].at) : rows[p].uid = u => nodes'[u] = Absent
         /\ Cardinality(Going \cap At(nodes, rows[p].at)) <= 1]_vars

\* README.md:55 "Display paths are rebuilt from each ancestor's own name, because Dropbox
\* cases parent segments inconsistently": unless the owner recases or meddles, the mirror
\* never has two nodes of one key, which reconcile could not tell apart.
OneNodePerKey ==
    recases = 0 /\ meddles = 0 =>
      \A u, v \in Live : Key(nodes[u].at) = Key(nodes[v].at) => u = v

\* "Drops mirror_objects rows Proton lacks, mis-sizes or whose SHA-1 differs"
\* (p60_reconcile._correct_mirror): a row whose file the walk found, of this path and this
\* content, is kept.
DropsOnlyLacking ==
    [][pc # "strays" /\ pc' = "strays" =>
         \A p \in Recorded : rows'[p] = Absent =>
           \A u \in Files(walk.seen) : walk.seen[u] # [at |-> rows[p].at, what |-> rows[p].what]]_vars
-----------------------------------------------------------------------------
\* Liveness.  Runs go on, and some of them reconcile.
Fairness == WF_vars(Steps) /\ WF_vars(StartRun) /\ SF_vars(OpenWalk)
FairSpec == Spec /\ Fairness

\* A folder that was pending in a stopped walk and has gone: no later run can list it.
Stuck == walk.status = "running" /\ walk.pending \ (Live \cup {Top}) # {}

\* A row whose file left Dropbox and whose folder was discarded, while the file is there under
\* another casing: the trash finds no folder, and the walk finds the file of the row's key.
Shadowed ==
    \E p \in Recorded :
      /\ dropbox[p] = Absent /\ Len(rows[p].at) > 1
      /\ At(nodes, Front(rows[p].at)) \cap Dirs(nodes) = {}
      /\ \E u \in Files(nodes) : Key(nodes[u].at) = RowKey(p) /\ nodes[u].what = rows[p].what

EntryKey(x) == LET key[y \in Entry] == LET n == Fold[CHOOSE m \in Names[y] : TRUE]
                                       IN  IF Up[y] = Top THEN <<n>> ELSE Append(key[Up[y]], n)
               IN  key[x]

Settled ==
    /\ \A p \in File : dropbox[p] # Absent =>
         \E u \in Files(nodes) : nodes[u].what = dropbox[p].what /\ Key(nodes[u].at) = EntryKey(p)
    /\ \A u \in Live : \E x \in Entry : dropbox[x] # Absent /\ Key(nodes[u].at) = EntryKey(x)

\* README.md:26 "a delete is in Proton's trash", README.md:65 "nodes neither Dropbox nor the
\* state knows are trashed": whatever was recased, duplicated, discarded or left behind by a
\* failed trash call, in the end every file is in Proton and nothing else is, folders
\* included, unless the walk is stuck or a row is shadowed.
Settles == <>[](pc = "idle" => Settled \/ Stuck \/ Shadowed)
-----------------------------------------------------------------------------
\* The inductive invariant behind the theorems of TreeProofs.

Longer(paths, names) == UNION {{Append(at, n) : n \in names} : at \in paths}

\* The paths of each entry when entry x has a name of names[x].
Paths(names) ==
    LET paths[x \in Entry] == IF Up[x] = Top THEN Longer({<<>>}, names[x])
                              ELSE Longer(paths[Up[x]], names[x])
    IN  paths
Spelled == Paths(Names)
Plain   == Paths([x \in Entry |-> {First(x)}])

\* A node is of an entry, whatever casing it has, and is a folder if the entry is.
OfEntry(node) == \E x \in Entry : node.at \in Spelled[x] /\ (node.what = Folder <=> x \in Dir)

WellNamed ==
    /\ \A p \in Listed : listing[p].at \in Spelled[p]
    /\ \A p \in Recorded : rows[p].at \in Spelled[p]
    /\ \A u \in Uid : nodes[u] # Absent => OfEntry(nodes[u])
    /\ \A u \in Uid : walk.seen[u] # Absent => OfEntry(walk.seen[u])

\* A node the walk has seen is where it was, or has gone: no UID is used twice.
StaysPut == \A u \in Live : walk.seen[u] # Absent => walk.seen[u].at = nodes[u].at

\* What the comparison of the walk with the rows leaves for the trash calls after it.
StraysUnknown ==
    /\ pc # "trash" => settled = {}
    /\ pc \in {"strays", "folders"} => KnownKeys \subseteq known
    /\ pc = "strays" => \A t \in strays :
         /\ Key(t.at) \notin known
         /\ t.uid # NoUid => walk.seen[t.uid] # Absent /\ walk.seen[t.uid].at = t.at

\* While every entry has its first name: the tree in Proton has each path once.
PlainNames ==
    recases = 0 =>
      /\ \A x \in Entry : dropbox[x] # Absent => dropbox[x].name = First(x)
      /\ \A p \in Listed : listing[p].at \in Plain[p]
PlainNodes ==
    recases = 0 /\ meddles = 0 =>
      /\ \A u \in Live : \E x \in Entry : nodes[u].at \in Plain[x]
      /\ \A u, v \in Live : nodes[u].at = nodes[v].at => u = v

TreeInOrder == TypeOK /\ WellNamed /\ StaysPut /\ StraysUnknown /\ PlainNames /\ PlainNodes

\* No two entries of a folder have names that are normalised and casefolded alike.
FoldsApart ==
    \A x, y \in Entry : Up[x] = Up[y] /\ x # y =>
      \A n \in Names[x], m \in Names[y] : Fold[n] # Fold[m]
=============================================================================
