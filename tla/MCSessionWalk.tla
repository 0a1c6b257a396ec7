--------------------------- MODULE MCSessionWalk ---------------------------
(* Small instances of SessionWalk: a root with two folders, one of them with a subfolder. *)
EXTENDS WalkProperties

CONSTANTS root, f, g, h, w1, w2

MCFolder == {root, f, g, h}
MCWorker == {w1, w2}
MCChildren == [x \in MCFolder |-> CASE x = root -> {f, g} [] x = f -> {h} [] OTHER -> {}]
\* A resumed walk spreads the folders by the first name of their path.
MCShard == [x \in MCFolder |-> IF x \in {root, g} THEN w1 ELSE w2]
=============================================================================
