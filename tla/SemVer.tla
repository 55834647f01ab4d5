--------------------------------- MODULE SemVer ---------------------------------
(***************************************************************************)
(* compareSemver of head/installer/semver.ts.  A version is a parsed one:  *)
(* [major, minor, patch, prerelease].  A prerelease identifier is numeric, *)
(* with its value as rank, or a string, with its place in the order of     *)
(* JavaScript's < as rank.                                                 *)
(***************************************************************************)
EXTENDS Integers, Sequences

Identifiers == [numeric : BOOLEAN, rank : Nat]
SemverParts == [major : Nat, minor : Nat, patch : Nat, prerelease : Seq(Identifiers)]

Sign(a, b) == IF a < b THEN -1 ELSE IF a > b THEN 1 ELSE 0

CompareIdentifier(a, b) ==
    IF a.numeric = b.numeric THEN Sign(a.rank, b.rank) ELSE IF a.numeric THEN -1 ELSE 1

\* the loop over the identifiers ends at one where a is lower
LowerAtFirstDifference(a, b) ==
    \E k \in DOMAIN a \cap DOMAIN b :
       /\ CompareIdentifier(a[k], b[k]) = -1
       /\ \A j \in 1 .. k - 1 : CompareIdentifier(a[j], b[j]) = 0

\* no identifiers at all is a release, and higher than any prerelease
ComparePrerelease(a, b) ==
    IF a = <<>> \/ b = <<>> THEN Sign(Len(b), Len(a))
    ELSE IF LowerAtFirstDifference(a, b) THEN -1
    ELSE IF LowerAtFirstDifference(b, a) THEN 1
    ELSE Sign(Len(a), Len(b))

CompareSemver(a, b) ==
    IF a.major # b.major THEN Sign(a.major, b.major)
    ELSE IF a.minor # b.minor THEN Sign(a.minor, b.minor)
    ELSE IF a.patch # b.patch THEN Sign(a.patch, b.patch)
    ELSE ComparePrerelease(a.prerelease, b.prerelease)
================================================================================
