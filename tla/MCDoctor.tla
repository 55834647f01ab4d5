-------------------------------- MODULE MCDoctor --------------------------------
(* A small instance of Doctor for TLC. *)
EXTENDS Doctor, TLC

CONSTANTS r1, r2, good, bad, created, partial, none,
          tgz1, tgz2, pkgJson, dotConfig, rootConfig, package

TwoRuns == {r1, r2}
TwoVersions == {1, 2}
OnlyFirstVersion == {1}
TwoTexts == {good, bad}
SixPaths == {tgz1, tgz2, pkgJson, dotConfig, rootConfig, package}
Plan == 1 :> <<tgz1, pkgJson>> @@ 2 :> <<tgz2, pkgJson>>
ConfigOrder == <<dotConfig, rootConfig>>

Pair(op, to, flags, op2, to2, flags2) ==
    r1 :> [op |-> op, to |-> to, flags |-> flags] @@ r2 :> [op |-> op2, to |-> to2, flags |-> flags2]
Pairs == {Pair("install", 1, {}, "update", 2, {}),
          Pair("update", 2, {}, "install", 1, {"force"}),
          Pair("uninstall", 1, {}, "install", 2, {"force"})}

\* a package of the user's; both config files, the second shadowed by the first
UserPlaces == {{}, {package}, {dotConfig, rootConfig}}
Nowhere == {}

Stable(minor) == [major |-> 1, minor |-> minor, patch |-> 0, prerelease |-> <<>>]
Candidate(n) == [Stable(4) EXCEPT !.prerelease =
    <<[numeric |-> FALSE, rank |-> 1], [numeric |-> TRUE, rank |-> n]>>]
Stable4 == Stable(4)
Candidate2 == Candidate(2)
InstalledOpenCodes == {Stable(4)}
TwoModes == {"standard", "full"}
PowerShell7 == {7}
Verified == {"pass"}
OnlyBad == {bad}

\* compareSemver is a total order on versions that tell its cases apart
SampleIds == [numeric : BOOLEAN, rank : 0 .. 1]
SampleVersions ==
    {[major |-> 1, minor |-> m, patch |-> 0, prerelease |-> ids] :
        m \in 0 .. 1, ids \in {<<>>} \cup {<<i>> : i \in SampleIds}
                                \cup {<<i, j>> : i, j \in SampleIds}}
ASSUME PrecedenceIsTotal ==
    /\ \A a, b \in SampleVersions :
          /\ CompareSemver(a, b) = -CompareSemver(b, a)
          /\ CompareSemver(a, b) = 0 <=> a = b
    /\ \A a, b, c \in SampleVersions :
          CompareSemver(a, b) <= 0 /\ CompareSemver(b, c) <= 0 => CompareSemver(a, c) <= 0
===============================================================================
