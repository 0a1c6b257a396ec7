----------------------------- MODULE ProtonTree -----------------------------
(***************************************************************************)
(* The names of things.  Dropbox has one entry per path_lower, shown under *)
(* a name that may be recased; Proton has nodes, told apart by their UID,  *)
(* and tells names of different case apart, so two nodes may share a name  *)
(* or a comparison key.  The mirror uploads under the display paths of the *)
(* listing, trashes deleted files by path and recorded UID, and reconciles *)
(* rows, nodes and folders by comparison key.                              *)
(*                                                                         *)
(* A path is the sequence of its names.  A run here lands every batch:     *)
(* what interrupts one is in Mirror, what walks in parallel is in          *)
(* SessionWalk.  pc is idle, upload, trash, reconcile, walk, walking,      *)
(* strays or folders.                                                      *)
(***************************************************************************)
EXTENDS Naturals, FiniteSets, SequencesExt

CONSTANTS
    File, Dir,     \* Dropbox files and folders, by path_lower
    Up, Top,       \* the folder each is in, Top being the mirrored root
    Names,         \* the names Dropbox may show each under
    Fold,          \* a name normalised and casefolded
    Content, Folder, Absent,
    Values,        \* the contents each file may be given
    NoUid,
    Fresh,         \* how many UIDs the model has
    Deadline,      \* whether the budget may stop a walk
    MayLackSize,   \* whether Proton may list a file without a claimed size
    MaxEdits, MaxRecases, MaxMeddles, MaxFaults      \* bounds of the model

Entry == File \cup Dir
Name  == UNION {Names[x] : x \in Entry}
Uid   == 1..Fresh
Path  == Seq(Name) \ {<<>>}
Node  == [at : Path, what : Content \cup {Folder}]
Named == [name : Name, what : Content \cup {Folder}]

\* The name each entry is first given.
First(x) == CHOOSE n \in Names[x] : TRUE

ASSUME TreeAssumption ==
    /\ File \cap Dir = {} /\ Top \notin Entry
    /\ Up \in [Entry -> Dir \cup {Top}]
    /\ \A in \in SUBSET Entry :         \* a tree: every entry is below the root
         (\A x \in Entry : Up[x] \in in \cup {Top} => x \in in) => in = Entry
    /\ \A x \in Entry : Names[x] # {}
    /\ \A x, y \in Entry : Up[x] = Up[y] /\ x # y =>
         Names[x] \cap Names[y] = {}
    /\ Values \in [File -> (SUBSET Content) \ {{}}]
    /\ Folder \notin Content /\ Absent \notin Content \cup Node \cup Named /\ NoUid \notin Uid
    /\ {Deadline, MayLackSize} \subseteq BOOLEAN
    /\ {Fresh, MaxEdits, MaxRecases, MaxMeddles, MaxFaults} \subseteq Nat

VARIABLES
    dropbox,     \* each entry's name and content, Folder for a folder
    nodes,       \* the live Proton nodes: their path and content
    rows,        \* mirror_objects: path_display, content and proton_uid
    listing,     \* this run's files: display path and content
    folders,     \* the comparison keys of this run's Dropbox folders
    changed,     \* files still to be uploaded
    groups,      \* folders of deleted files still to be visited
    settled,     \* deleted files that were trashed or not found
    walk,        \* proton_snapshots, proton_folders (pending) and proton_nodes (seen)
    known,       \* the keys the rows and the listing know
    strays,      \* the stray files, as paths for the CLI
    edits, recases, meddles, faults,     \* how much of each bound is used
    pc

cloud == <<dropbox, nodes>>
run   == <<listing, folders, changed, groups, settled, known, strays>>
spent == <<edits, recases, meddles, faults>>
vars  == <<cloud, rows, run, walk, spent, pc>>

Nodes     == [Uid -> Node \cup {Absent}]
Target    == [at : Path, uid : Uid \cup {NoUid}]
Key(at)   == [i \in DOMAIN at |-> Fold[at[i]]]
Live      == {u \in Uid : nodes[u] # Absent}
Files(ns) == {u \in Uid : ns[u] # Absent /\ ns[u].what # Folder}
Dirs(ns)  == {u \in Uid : ns[u] # Absent /\ ns[u].what = Folder}
At(ns, at) == {u \in Uid : ns[u] # Absent /\ ns[u].at = at}
Under(at) == {u \in Live : IsPrefix(at, nodes[u].at)}
Recorded  == {p \in File : rows[p] # Absent}
Listed    == {p \in File : listing[p] # Absent}
RowKey(p) == Key(rows[p].at)
NoNodes   == [u \in Uid |-> Absent]
NoWalk    == [status |-> "none", pending |-> {}, seen |-> NoNodes]

TypeOK ==
    /\ dropbox \in [Entry -> Named \cup {Absent}]
    /\ \A x \in Entry : dropbox[x] # Absent => /\ dropbox[x].name \in Names[x]
                                               /\ dropbox[x].what = Folder <=> x \in Dir
                                               /\ Up[x] # Top => dropbox[Up[x]] # Absent
    /\ nodes \in Nodes
    /\ \A u \in Live : Len(nodes[u].at) > 1 =>
         \E v \in Dirs(nodes) : nodes[v].at = Front(nodes[u].at)
    /\ rows \in [File -> [at : Path, what : Content, uid : Uid \cup {NoUid}] \cup {Absent}]
    /\ listing \in [File -> [at : Path, what : Content] \cup {Absent}]
    /\ changed \subseteq Listed /\ settled \subseteq Recorded
    /\ walk \in [status : {"none", "running", "complete"},
                pending : SUBSET (Uid \cup {Top}), seen : Nodes]
    /\ strays \subseteq Target
    /\ {edits, recases, meddles, faults} \subseteq Nat
    /\ pc \in {"idle", "upload", "trash", "reconcile", "walk", "walking", "strays", "folders"}

Init ==
    /\ dropbox = [x \in Entry |-> [name |-> First(x),
                                   what |-> IF x \in Dir THEN Folder
                                            ELSE CHOOSE c \in Values[x] : TRUE]]
    /\ nodes = NoNodes
    /\ rows = [p \in File |-> Absent] /\ listing = [p \in File |-> Absent]
    /\ folders = {} /\ changed = {} /\ groups = {} /\ settled = {}
    /\ walk = NoWalk /\ known = {} /\ strays = {}
    /\ edits = 0 /\ recases = 0 /\ meddles = 0 /\ faults = 0 /\ pc = "idle"

Fault == faults < MaxFaults /\ faults' = faults + 1
-----------------------------------------------------------------------------
\* The owner, in Dropbox and in Proton, between runs: what a run does depends on its listing
\* and on the nodes alone.

Edit == pc = "idle" /\ edits < MaxEdits /\ edits' = edits + 1

\* Another casing than the first, whether an entry is renamed or comes back under it.
Recasing == recases < MaxRecases /\ recases' = recases + 1

\* A new or changed file, or a new folder.
Write(x, n, c) ==
    /\ Edit /\ c \in (IF x \in Dir THEN {Folder} ELSE Values[x])
    /\ IF dropbox[x] # Absent THEN n = dropbox[x].name /\ dropbox[x].what # c /\ UNCHANGED recases
       ELSE /\ Up[x] # Top => dropbox[Up[x]] # Absent
            /\ IF n = First(x) THEN UNCHANGED recases ELSE Recasing
    /\ dropbox' = [dropbox EXCEPT ![x] = [name |-> n, what |-> c]]
    /\ UNCHANGED <<nodes, rows, run, walk, meddles, faults, pc>>

Recase(x, n) ==
    /\ pc = "idle" /\ Recasing
    /\ dropbox[x] # Absent /\ dropbox[x].name # n
    /\ dropbox' = [dropbox EXCEPT ![x].name = n]
    /\ UNCHANGED <<nodes, rows, run, walk, edits, meddles, faults, pc>>

\* A folder goes with all that is in it.
Inside(x) == LET in[y \in Entry] == y = x \/ (Up[y] # Top /\ in[Up[y]])
             IN  {y \in Entry : in[y]}
Delete(x) ==
    /\ Edit /\ dropbox[x] # Absent
    /\ dropbox' = [y \in Entry |-> IF y \in Inside(x) THEN Absent ELSE dropbox[y]]
    /\ UNCHANGED <<nodes, rows, run, walk, recases, meddles, faults, pc>>

Meddle == pc = "idle" /\ meddles < MaxMeddles /\ meddles' = meddles + 1

\* A UID no node, row or walk knows.
Unused == {u \in Uid : /\ u \notin Live \cup walk.pending /\ walk.seen[u] = Absent
                       /\ \A p \in Recorded : rows[p].uid # u}
New    == CHOOSE u \in Unused : TRUE

\* Another file of the same name in the same folder: "a genuine Proton duplicate".
Duplicate(u, c) ==
    /\ Meddle /\ u \in Files(nodes) /\ Unused # {}
    /\ nodes' = [nodes EXCEPT ![New] = [at |-> nodes[u].at, what |-> c]]
    /\ UNCHANGED <<dropbox, rows, run, walk, edits, recases, faults, pc>>

\* A folder or a file is put in Proton's trash by hand.
Discard(u) ==
    /\ Meddle /\ u \in Live
    /\ nodes' = [v \in Uid |-> IF v \in Under(nodes[u].at) THEN Absent ELSE nodes[v]]
    /\ UNCHANGED <<dropbox, rows, run, walk, edits, recases, faults, pc>>
-----------------------------------------------------------------------------
\* inventory, delta, plan.

\* Mutant: a file is shown under the path its own entry gives.
DisplayAsListed(x, own) ==
    IF Up[x] = Top THEN <<dropbox[x].name>> ELSE Append(own[Up[x]], dropbox[x].name)

\* recase_display_paths and display_paths: the names of the ancestors come from the folders'
\* own entries, whatever casing (own) the file's entry has them in.
DisplayPath(x, own) ==
    LET at[y \in Entry] == IF Up[y] = Top THEN <<dropbox[y].name>>
                           ELSE Append(at[Up[y]], dropbox[y].name)
    IN  at[x]

\* The casings an entry may have its ancestors in.
OwnCasings ==
    {own \in [Dir -> UNION {[1..n -> Name] : n \in 1..Cardinality(Dir)}] :
       \A d \in Dir : /\ Last(own[d]) \in Names[d]
                      /\ IF Up[d] = Top THEN Len(own[d]) = 1
                         ELSE Len(own[d]) > 1 /\ Front(own[d]) = own[Up[d]]}

StartRun ==
    /\ pc = "idle"
    /\ \E own \in OwnCasings :
         /\ listing' = [p \in File |-> IF dropbox[p] = Absent THEN Absent
                          ELSE [at |-> DisplayPath(p, own), what |-> dropbox[p].what]]
         /\ folders' = {Key(own[d]) : d \in {e \in Dir : dropbox[e] # Absent}}
    /\ changed' = {p \in File : /\ listing'[p] # Absent
                                /\ rows[p] = Absent \/ rows[p].what # listing'[p].what}
    /\ pc' = "upload"
    /\ UNCHANGED <<cloud, rows, groups, settled, walk, known, strays, spent>>
-----------------------------------------------------------------------------
\* batches: the CLI merges into folders of exactly these names, and revises a file of
\* exactly this name; the row keeps the UID it has.

Missing(at) == {i \in 1..(Len(at) - 1) : At(nodes, SubSeq(at, 1, i)) = {}}

Upload(p) ==
    LET at == listing[p].at
    IN  /\ pc = "upload" /\ p \in changed
        /\ Missing(at) # {} \/ At(nodes, at) = {} => Unused # {}
        /\ IF Missing(at) # {}
           THEN LET i == CHOOSE j \in Missing(at) : \A k \in Missing(at) : j <= k
                IN  /\ nodes' = [nodes EXCEPT ![New] = [at |-> SubSeq(at, 1, i), what |-> Folder]]
                    /\ UNCHANGED <<rows, changed>>
           ELSE /\ IF At(nodes, at) = {}
                   THEN nodes' = [nodes EXCEPT ![New] = [at |-> at, what |-> listing[p].what]]
                   ELSE \E u \in At(nodes, at) : nodes' = [nodes EXCEPT ![u].what = listing[p].what]
                /\ rows' = [rows EXCEPT ![p] =
                     [at |-> at, what |-> listing[p].what,
                      uid |-> IF rows[p] = Absent THEN NoUid ELSE rows[p].uid]]
                /\ changed' = changed \ {p}
        /\ UNCHANGED <<dropbox, listing, folders, groups, settled, walk, known, strays, spent, pc>>
-----------------------------------------------------------------------------
\* trash.

Deleted == Recorded \ Listed

StartTrash ==
    /\ pc = "upload" /\ changed = {}
    /\ groups' = {Front(rows[p].at) : p \in Deleted}
    /\ pc' = "trash"
    /\ UNCHANGED <<cloud, rows, listing, folders, changed, settled, walk, known, strays, spent>>

Group(dir) == {p \in Deleted : Front(rows[p].at) = dir}

\* Mutant: the first file of the name goes.
ChoiceFirst(p) == At(nodes, rows[p].at) \cap Files(nodes)

\* The files that may go for a deleted row: the recorded one if it has the name still.
Choice(p) ==
    LET named == At(nodes, rows[p].at) \cap Files(nodes)
    IN  IF rows[p].uid \in named THEN {rows[p].uid} ELSE named

TrashGroup(dir) ==
    /\ pc = "trash" /\ dir \in groups
    /\ dir # <<>> => At(nodes, dir) \cap Dirs(nodes) # {}
    /\ \E gone \in SUBSET UNION {Choice(p) : p \in Group(dir)} :
         /\ \A p \in Group(dir) : Cardinality(gone \cap Choice(p)) = IF Choice(p) = {} THEN 0 ELSE 1
         /\ nodes' = [u \in Uid |-> IF u \in gone THEN Absent ELSE nodes[u]]
    /\ settled' = settled \cup Group(dir)
    /\ groups' = groups \ {dir}
    /\ UNCHANGED <<dropbox, rows, listing, folders, changed, walk, known, strays, spent, pc>>

\* The folder is not there, or its listing exhausts its retries: the rows stay.
ListingFails(dir) ==
    /\ pc = "trash" /\ dir \in groups
    /\ \/ dir # <<>> /\ At(nodes, dir) \cap Dirs(nodes) = {} /\ UNCHANGED faults
       \/ Fault
    /\ groups' = groups \ {dir}
    /\ UNCHANGED <<cloud, rows, listing, folders, changed, settled, walk, known, strays, edits,
                   recases, meddles, pc>>

\* Mutant: the deletions of earlier runs are looked at too.
EndTrashAgain ==
    /\ pc = "trash" /\ groups = {}
    /\ rows' = [p \in File |-> IF p \in settled THEN Absent ELSE rows[p]]
    /\ pc' = "reconcile"
    /\ UNCHANGED <<cloud, listing, folders, changed, groups, settled, walk, known, strays, spent>>

EndTrash ==
    /\ pc = "trash" /\ groups = {}
    /\ rows' = [p \in File |-> IF p \in settled THEN Absent ELSE rows[p]]
    /\ settled' = {}
    /\ pc' = "reconcile"
    /\ UNCHANGED <<cloud, listing, folders, changed, groups, walk, known, strays, spent>>
-----------------------------------------------------------------------------
\* reconcile: the walk.

EndRun ==
    /\ listing' = [p \in File |-> Absent] /\ folders' = {} /\ changed' = {}
    /\ groups' = {} /\ settled' = {} /\ known' = {} /\ strays' = {}
    /\ pc' = "idle"

SkipReconcile ==
    /\ pc = "reconcile" /\ EndRun
    /\ UNCHANGED <<cloud, rows, walk, spent>>

\* A walk an earlier run left RUNNING is resumed.
OpenWalk ==
    /\ pc = "reconcile"
    /\ walk' = IF walk.status = "running" THEN walk
               ELSE [status |-> "running", pending |-> {Top}, seen |-> NoNodes]
    /\ pc' = "walk"
    /\ UNCHANGED <<cloud, rows, run, spent>>

PathOf(f)   == IF f = Top THEN <<>> ELSE walk.seen[f].at
Children(f) == {u \in Live : Front(nodes[u].at) = PathOf(f)}

\* One folder, by its UID.
ListFolder(f) ==
    /\ pc \in {"walk", "walking"} /\ f \in walk.pending /\ f \in Live \cup {Top}
    /\ walk' = [walk EXCEPT
         !.pending = (@ \ {f}) \cup (Children(f) \cap Dirs(nodes)),
         !.seen = [u \in Uid |-> IF u \in Children(f) THEN nodes[u] ELSE @[u]]]
    /\ pc' = "walking"
    /\ UNCHANGED <<cloud, rows, run, spent>>

\* A folder that is pending and gone fails its listing, and the phase with it.
WalkFails ==
    /\ pc \in {"walk", "walking"} /\ walk.pending \ (Live \cup {Top}) # {}
    /\ EndRun
    /\ UNCHANGED <<cloud, rows, walk, spent>>

\* The deadline is looked at after a listing; a partial walk drops and trashes nothing.
StopWalk ==
    /\ pc = "walking" /\ Deadline /\ walk.pending # {}
    /\ EndRun
    /\ UNCHANGED <<cloud, rows, walk, spent>>
-----------------------------------------------------------------------------
\* reconcile: rows, stray files, stray folders.

SeenKey(u) == Key(walk.seen[u].at)
SeenKeys   == {SeenKey(u) : u \in Files(walk.seen)}

\* A dictionary by key: of the files that share one, the last row read hides the others.
Dictionaries == {shown \in SUBSET Files(walk.seen) :
                   /\ {SeenKey(u) : u \in shown} = SeenKeys
                   /\ Cardinality(shown) = Cardinality(SeenKeys)}

\* child_cli_path: by name, or by UID where the listing had the name twice.
CliPath(u) == [at |-> walk.seen[u].at,
               uid |-> IF At(walk.seen, walk.seen[u].at) = {u} THEN NoUid ELSE u]

\* Mutant: a row the walk does not find is left for another day.
CorrectedIfSeen(p, sized) ==
    IF p \notin Recorded THEN Absent
    ELSE LET found == {u \in sized : SeenKey(u) = RowKey(p)}
         IN  IF found = {} THEN rows[p]
             ELSE IF \E u \in found : walk.seen[u].what # rows[p].what THEN Absent
             ELSE [rows[p] EXCEPT !.uid = CHOOSE u \in found : TRUE]

\* A row the walk contradicts, or has no size for, is dropped; the others take the UID of
\* their node.
Corrected(p, sized) ==
    IF p \notin Recorded THEN Absent
    ELSE LET found == {u \in sized : /\ SeenKey(u) = RowKey(p)
                                     /\ walk.seen[u].what = rows[p].what}
         IN  IF found = {} THEN Absent ELSE [rows[p] EXCEPT !.uid = CHOOSE u \in found : TRUE]

\* _correct_mirror, and the nodes neither the rows nor the listing know.  A node without an
\* active revision has no size; the model bounds such files together with the edits.
Correct ==
    /\ pc \in {"walk", "walking"} /\ walk.pending = {}
    /\ \E shown \in Dictionaries :
         /\ \E sized \in (IF MayLackSize THEN SUBSET shown ELSE {shown}) :
              /\ edits' = edits + Cardinality(shown \ sized) /\ edits' <= MaxEdits
              /\ rows' = [p \in File |-> Corrected(p, sized)]
         /\ known' = {RowKey(p) : p \in Recorded} \cup {Key(listing[p].at) : p \in Listed}
         /\ strays' = {CliPath(u) : u \in {v \in shown : SeenKey(v) \notin known'}}
    /\ walk' = [walk EXCEPT !.status = "complete"]
    /\ pc' = "strays"
    /\ UNCHANGED <<cloud, listing, folders, changed, groups, settled, recases, meddles, faults>>

\* The nodes a CLI path may stand for now.
Resolved(t, kind) == IF t.uid = NoUid THEN At(nodes, t.at) \cap kind ELSE {t.uid} \cap kind

TrashStrays ==
    /\ pc = "strays"
    /\ \E gone \in SUBSET UNION {Resolved(t, Files(nodes)) : t \in strays} :
         /\ \A t \in strays : Resolved(t, Files(nodes)) # {} => gone \cap Resolved(t, Files(nodes)) # {}
         /\ nodes' = [u \in Uid |-> IF u \in gone THEN Absent ELSE nodes[u]]
    /\ pc' = "folders"
    /\ UNCHANGED <<dropbox, rows, run, walk, spent>>

\* The CLI raises, having trashed some: a path may have gone since the walk saw it.
TrashRaises ==
    /\ pc = "strays" /\ strays # {} /\ Fault
    /\ \E gone \in SUBSET UNION {Resolved(t, Files(nodes)) : t \in strays} :
         nodes' = [u \in Uid |-> IF u \in gone THEN Absent ELSE nodes[u]]
    /\ EndRun
    /\ walk' = NoWalk
    /\ UNCHANGED <<dropbox, rows, edits, recases, meddles>>

\* Mutant: only the folder a known file is in counts as occupied.
OccupiedParents == {Front(k) : k \in known}

Occupied == UNION {{SubSeq(k, 1, i) : i \in 1..(Len(k) - 1)} : k \in known}
StrayDirs == {u \in Dirs(walk.seen) : Key(walk.seen[u].at) \notin folders \cup Occupied}
\* Topmost only: the others go with them.
StrayFolders == {u \in StrayDirs : \A v \in StrayDirs : walk.seen[v].at # Front(walk.seen[u].at)}

Resolving == {v \in StrayFolders : Resolved(CliPath(v), Dirs(nodes)) # {}}
Without(dirs) == [u \in Uid |-> IF \E v \in dirs : u \in Under(walk.seen[v].at) THEN Absent
                                ELSE nodes[u]]

\* Nothing reads a COMPLETE walk again: the next one starts afresh and prunes it.
TrashFolders ==
    /\ pc = "folders"
    /\ nodes' = Without(Resolving)
    /\ EndRun
    /\ walk' = NoWalk
    /\ UNCHANGED <<dropbox, rows, spent>>

\* The CLI raises, having trashed some of the folders.
FoldersRaise ==
    /\ pc = "folders" /\ StrayFolders # {} /\ Fault
    /\ \E gone \in SUBSET Resolving : nodes' = Without(gone)
    /\ EndRun
    /\ walk' = NoWalk
    /\ UNCHANGED <<dropbox, rows, edits, recases, meddles>>
-----------------------------------------------------------------------------
Outside ==
    \/ \E x \in Entry : \/ Delete(x)
                       \/ \E n \in Names[x] : \/ Recase(x, n)
                                              \/ \E c \in Content \cup {Folder} : Write(x, n, c)
    \/ \E u \in Uid : Discard(u) \/ \E c \in Content : Duplicate(u, c)
Steps ==
    \/ \E p \in File : Upload(p)
    \/ StartTrash \/ EndTrash
    \/ \E dir \in groups : TrashGroup(dir) \/ ListingFails(dir)
    \/ OpenWalk \/ \E f \in Uid \cup {Top} : ListFolder(f)
    \/ WalkFails \/ Correct \/ TrashStrays \/ TrashRaises
    \/ TrashFolders \/ FoldersRaise
Next == Outside \/ StartRun \/ SkipReconcile \/ StopWalk \/ Steps

Spec == Init /\ [][Next]_vars
=============================================================================
