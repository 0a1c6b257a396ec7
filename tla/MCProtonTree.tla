---------------------------- MODULE MCProtonTree ----------------------------
(* A small instance of ProtonTree: file x in folder d, file y in folder e of d. *)
EXTENDS TreeProperties

CONSTANT top

MCFile == {"x", "y"}
MCDir == {"d", "e"}
MCUp == [i \in {"x", "y", "d", "e"} |-> CASE i = "d" -> top [] i = "y" -> "e" [] OTHER -> "d"]
\* d may be recased.
MCNames == [i \in {"x", "y", "d", "e"} |-> IF i = "d" THEN {"D", "d"} ELSE {i}]
MCFold == [n \in {"D", "d", "e", "x", "y"} |-> IF n = "D" THEN "d" ELSE n]
\* Two files of one folder whose names Dropbox tells apart and casefold does not: "strasse",
\* and the same with a sharp s.
MCSide == [i \in {"x", "y", "d", "e"} |-> IF i = "d" THEN top ELSE "d"]
MCSharp == [n \in {"D", "d", "e", "x", "y"} |-> IF n = "D" THEN "d" ELSE IF n = "y" THEN "x" ELSE n]
MCContent == {"c1", "c2"}
MCValues == [p \in MCFile |-> IF p = "x" THEN MCContent ELSE {"c1"}]
=============================================================================
