---------------------------- MODULE MCFetchPool ----------------------------
(* Small instances of FetchPool: three files, one of them named as the temporary file of *)
(* another.                                                                              *)
EXTENDS PoolProperties

MCFile == {"x", "x.part", "y"}
MCOrder == <<"x", "x.part", "y">>
MCPart == [f \in MCFile |-> CASE f = "x" -> "x.part" [] f = "x.part" -> "x.part.part"
                              [] OTHER -> "y.part"]
\* One byte, two, more than batch_gb and more than max_file_gb.
MCContent == {"small", "medium", "large", "huge"}
MCSize == [c \in MCContent |-> CASE c = "small" -> 1 [] c = "medium" -> 2 [] c = "large" -> 4
                                  [] OTHER -> 6]
MCDisk == {2, 4, 6}
=============================================================================
