--------------------------- MODULE MCCheckpointApply ---------------------------
(* Small instances of CheckpointApply for TLC. *)
EXTENDS CheckpointApply, TLC

CONSTANTS p1, a1, a2, i1, i2, n1, n2, dotn1, nout, t1, t2, x, y, user, noFile, noOwner

OneAuthor == {p1}
OneApplier == {a1}
TwoAppliers == {a1, a2}
OneId == {i1}
FourNames == {n1, n2, dotn1, nout}
TwoTargets == {t1, t2}
TwoContents == {x, y}

\* "a.txt" and "./a.txt" are two names of one file; nout's parent is a link outwards
Resolve == n1 :> t1 @@ n2 :> t2 @@ dotn1 :> t1 @@ nout :> t2
OutsideNames == {nout}

Inline(n, c) == [name |-> n, sha |-> c, body |-> c]
Behind(n, c) == [name |-> n, sha |-> c, body |-> noFile]

\* one inline and one staged action
Plain == <<Inline(n1, x), Behind(n2, y)>>
\* a recorded hash that is not the content's, a name that leaves outDir, and the
\* same path twice
Wrong == <<Inline(n1, x), [name |-> n2, sha |-> y, body |-> x]>>
Outside == <<Behind(n1, y), Inline(nout, x)>>
Twice == <<Inline(n1, x), Inline(n1, y)>>
\* the same file under two names
Aliased == <<Inline(n1, x), Inline(dotn1, y)>>

Every == {Plain, Wrong, Outside, Twice, Aliased}
OneIdOfEvery == [m \in Every |-> i1]
OnlyAliased == {Aliased}
IdOfAliased == [m \in OnlyAliased |-> i1]

NoEdits == {}
\* the last action removed, or its content changed
SomeEdits == {<<Plain[1]>>, <<Plain[1], Inline(n2, x)>>, <<Inline(n1, y), Plain[2]>>}

Everybody == {"lease", "create", "delete", "staging"}
NoBody == {}
================================================================================
