---------------------------- MODULE MCApprovalGate ----------------------------
(* A small instance of ApprovalGate for TLC. *)
EXTENDS ApprovalGate, TLC

CONSTANTS c1, c2, c3, i1, i2, n1, n2, t1, t2, x, y, user, noFile, noOwner, noId

ThreeCalls == {c1, c2, c3}
TwoIds == {i1, i2}
TwoNames == {n1, n2}
TwoTargets == {t1, t2}
TwoContents == {x, y}
Resolve == n1 :> t1 @@ n2 :> t2

Inline(n, c) == [name |-> n, sha |-> c, body |-> c]
Behind(n, c) == [name |-> n, sha |-> c, body |-> noFile]

\* two manifests whose hashes share the digits of the id, and one with another id
Plain == <<Inline(n1, x), Behind(n2, y)>>
Short == <<Inline(n1, x)>>
Other == <<Inline(n2, x)>>
Proposed == {Plain, Short, Other}
IdOfProposed == Plain :> i1 @@ Short :> i1 @@ Other :> i2

NoNames == {}
NoEdits == {}
NoBody == {}
===============================================================================
