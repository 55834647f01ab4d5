----------------------------- MODULE MCSourceGraph -----------------------------
(* Small instances of SourceGraph for TLC: a directory, a file that is gone, *)
(* cycles, shared files, and the entry reached again.                        *)
EXTENDS SourceGraph

ToB == <<"b.js", "b">>
ToC == <<"c">>
ToD == <<"d.js", "d">>
ToEntry == <<"entry">>
ToNothing == <<"gone.js", "gone">>
ToDirectory == <<"dir", "dir/index">>

Statements == {<<>>, <<ToB>>, <<ToC, ToD>>, <<ToEntry, ToC>>, <<ToD, ToB, ToC>>,
               <<ToNothing>>, <<ToB, ToNothing, ToD>>, <<ToC, ToDirectory>>}
AllPaths == {"entry", "b", "c", "d", "dir", "dir/index", "b.js", "d.js", "gone.js", "gone"}
ThatExist == {"entry", "b", "c", "d", "dir", "dir/index"}
SmallGraphs ==
    {[p \in AllPaths |-> IF p \in DOMAIN g THEN g[p] ELSE <<>>] :
        g \in [{"entry", "b", "c", "d"} -> Statements]}
================================================================================
