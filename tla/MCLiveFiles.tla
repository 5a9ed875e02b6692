----------------------------- MODULE MCLiveFiles -----------------------------
(* A small instance of LiveFiles.  The bytes are 1 for a dot, 2 for the separator *)
(* and 3 for a letter: the names are "a" and "a.", and "a" may have an entry       *)
(* below it.                                                                      *)
EXTENDS LiveFiles

a == <<3>>
aDot == <<3, 1>>
MCPaths == {<<a>>, <<aDot>>, <<a, a>>}
MCMatching == {<<aDot>>, <<a, a>>}

MCPathOf == [w \in Writers |-> <<a, a>>]
MCOverwrite == [w \in Writers |-> w = "w2"]
=============================================================================
