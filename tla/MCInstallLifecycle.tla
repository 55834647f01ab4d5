-------------------------- MODULE MCInstallLifecycle --------------------------
(* Small instances of InstallLifecycle for TLC. *)
EXTENDS InstallLifecycle, TLC

CONSTANTS r1, r2, u1, u2, created, partial, none,
          tgz1, tgz2, pkgJson, dotConfig, rootConfig, package

TwoRuns == {r1, r2}
TwoVersions == {1, 2}
TwoTexts == {u1, u2}
SixPaths == {tgz1, tgz2, pkgJson, dotConfig, rootConfig, package}
\* the tarball is named after its version; package.json stands for the three templates
Plan == 1 :> <<tgz1, pkgJson>> @@ 2 :> <<tgz2, pkgJson>>
ConfigOrder == <<dotConfig, rootConfig>>
OnlySecondVersion == {2}
OnlyFirstVersion == {1}

Job(op, to, flags) == [op |-> op, to |-> to, flags |-> flags]
Install(v) == Job("install", v, {})
Force(v) == Job("install", v, {"force"})
Update(v) == Job("update", v, {})
Remove == Job("uninstall", 1, {})
RemoveAll == Job("uninstall", 1, {"purge"})
DryRemove == Job("uninstall", 1, {"dry"})

\* the two runs begin in either order, or together
Pair(j, k) == [r \in TwoRuns |-> IF r = r1 THEN j ELSE k]
Pairs == {Pair(Install(1), Update(2)), Pair(Install(1), Remove), Pair(Install(2), Force(2)),
          Pair(Install(2), RemoveAll), Pair(Update(2), Remove), Pair(Update(2), DryRemove)}

UserPlaces == {{}, {pkgJson}, {rootConfig}, {package}}
EditPlaces == {pkgJson, dotConfig}
Symmetry == Permutations(TwoTexts)
===============================================================================
