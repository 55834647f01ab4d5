------------------------------ MODULE MCLockStore ------------------------------
(* Small instances of LockStore for TLC. *)
EXTENDS LockStore, TLC

CONSTANTS c1, c2, c3

TwoClients == {c1, c2}
ThreeClients == {c1, c2, c3}
Nobody == {}
OnlyFirst == {c1}
OnlySecond == {c2}
\* three clients that differ in nothing
Symmetry == Permutations(ThreeClients)
================================================================================
