---------------------------- MODULE FolderQueue ----------------------------
(***************************************************************************)
(* What a walk of the Proton destination promises, whoever lists the       *)
(* folders: it begins at the root, lists only folders it knows of and has  *)
(* not listed, learns of a folder from its parent, and completes when      *)
(* every folder it knows of is listed, which is then the whole tree.  What *)
(* was not pushed to the bucket may be forgotten.                          *)
(***************************************************************************)
CONSTANTS
    Folder,     \* the folders of the destination, the root among them
    Root,
    Children    \* the subfolders of each folder

VARIABLES
    status,     \* of the snapshot: none, running or complete
    pending,    \* folders known and not listed
    listed,     \* folders listed
    saved       \* these three as the bucket has them

vars == <<status, pending, listed, saved>>
walk == [status |-> status, pending |-> pending, listed |-> listed]

Init ==
    /\ status = "none" /\ pending = {} /\ listed = {}
    /\ saved = walk

Begin ==
    /\ status # "running"
    /\ status' = "running" /\ pending' = {Root} /\ listed' = {}
    /\ UNCHANGED saved

\* A listing, or several that end together.
List(done) ==
    /\ status = "running" /\ done # {} /\ done \subseteq pending
    /\ pending' = (pending \ done) \cup UNION {Children[f] : f \in done}
    /\ listed' = listed \cup done
    /\ UNCHANGED <<status, saved>>

Complete ==
    /\ status = "running" /\ pending = {}
    /\ status' = "complete"
    /\ saved' = [walk EXCEPT !.status = "complete"]
    /\ UNCHANGED <<pending, listed>>

Save == saved' = walk /\ UNCHANGED <<status, pending, listed>>

Forget ==
    /\ status' = saved.status /\ pending' = saved.pending /\ listed' = saved.listed
    /\ UNCHANGED saved

Next == Begin \/ (\E done \in SUBSET Folder : List(done)) \/ Complete \/ Save \/ Forget

Spec == Init /\ [][Next]_vars
=============================================================================
