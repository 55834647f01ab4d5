----------------------------- MODULE BundleRelease -----------------------------
(***************************************************************************)
(* scripts/release/build-offline-bundle.mjs: one build after another puts  *)
(* an archive and a SHA256SUMS into the same output directory.  A build    *)
(* stages the package, tries to give it its production dependencies in two *)
(* ways, packs it, assembles the bundle with its manifest, archives it,    *)
(* and removes its temporary directory.  One action is one await that      *)
(* can fail on its own.                                                    *)
(*                                                                         *)
(* Of a bundle only this matters: whether its manifest says                *)
(* airGapComplete, what node_modules its tarball and its package tree were *)
(* made from, and whether what the checkout was built to can be imported.  *)
(* The hash of an archive is the archive.                                  *)
(***************************************************************************)
EXTENDS Naturals

CONSTANTS
    MaxBuilds,        \* how often the script is run
    MaxMishaps        \* how many steps fail or builds die, in all

ASSUME ReleaseAssumption == MaxBuilds \in Nat /\ MaxMishaps \in Nat

VARIABLES
    build,            \* where the build is
    modules,          \* staging/node_modules
    materialized,     \* depResult.materialized
    assembled,        \* the bundle directory in the temporary directory
    archive, sums,    \* <out>/tiny-yeah-offline-v*.tar.gz and <out>/SHA256SUMS
    builds, mishaps   \* spent of the two bounds

buildVars == <<build, modules, materialized, assembled>>
outVars == <<archive, sums>>
releaseVars == <<buildVars, outVars, builds, mishaps>>

\* "full" still has the dev dependencies
Modules == {"none", "partial", "full", "production"}

\* serial: which build made it; whole: tar has written all of it
Bundles == [airGap : BOOLEAN, deps : Modules, tree : Modules, works : BOOLEAN]
Archives == [serial : 0..MaxBuilds, whole : BOOLEAN, bundle : Bundles]

NoBundle == [airGap |-> FALSE, deps |-> "none", tree |-> "none", works |-> FALSE]
NoArchive == [serial |-> 0, whole |-> FALSE, bundle |-> NoBundle]

ReleaseInit ==
    /\ build = "ended" /\ modules = "none" /\ materialized = FALSE
    /\ assembled = NoBundle
    /\ archive = NoArchive /\ sums = NoArchive
    /\ builds = 0 /\ mishaps = 0

--------------------------------------------------------------------------------

Mishap == mishaps < MaxMishaps /\ mishaps' = mishaps + 1

\* mkdtemp, then npm run build and the copies into the staging directory
StartBuild ==
    /\ build = "ended" /\ builds < MaxBuilds
    /\ build' = "install"
    /\ builds' = builds + 1
    /\ UNCHANGED <<modules, materialized, assembled, outVars, mishaps>>

\* tryInstallProductionDeps: npm install --omit=dev in the staging directory
NpmInstall ==
    /\ build = "install"
    /\ \/ build' = "list" /\ modules' = "production" /\ UNCHANGED mishaps
       \/ build' = "reuse" /\ modules' \in {"none", "partial"} /\ Mishap
    /\ UNCHANGED <<materialized, assembled, outVars, builds>>

\* npm ls --omit=dev: its failure counts as no dependencies although they are there
NpmList ==
    /\ build = "list"
    /\ \/ build' = "pack" /\ materialized' = TRUE /\ UNCHANGED mishaps
       \/ build' = "reuse" /\ Mishap /\ UNCHANGED materialized
    /\ UNCHANGED <<modules, assembled, outVars, builds>>

\* tryMaterializeProductionDepsFromRepoNodeModules: access, and rm of what is staged
ReuseRemoves ==
    /\ build = "reuse"
    /\ \/ build' = "copy" /\ modules' = "none" /\ UNCHANGED mishaps
       \/ build' = "pack" /\ Mishap /\ UNCHANGED modules
    /\ UNCHANGED <<materialized, assembled, outVars, builds>>

ReuseCopies ==
    /\ build = "copy"
    /\ \/ build' = "prune" /\ modules' = "full" /\ UNCHANGED mishaps
       \/ build' = "pack" /\ modules' = "partial" /\ Mishap
    /\ UNCHANGED <<materialized, assembled, outVars, builds>>

\* mutant: the failure of npm prune is not looked at
PruneUnchecked ==
    /\ build = "prune"
    /\ build' = "relist"
    /\ \/ modules' = "production" /\ UNCHANGED mishaps
       \/ Mishap /\ UNCHANGED modules
    /\ UNCHANGED <<materialized, assembled, outVars, builds>>

ReusePrunes ==
    /\ build = "prune"
    /\ \/ build' = "relist" /\ modules' = "production" /\ UNCHANGED mishaps
       \/ build' = "pack" /\ Mishap /\ UNCHANGED modules
    /\ UNCHANGED <<materialized, assembled, outVars, builds>>

ReuseLists ==
    /\ build = "relist"
    /\ build' = "pack"
    /\ \/ materialized' = TRUE /\ UNCHANGED mishaps
       \/ Mishap /\ UNCHANGED materialized
    /\ UNCHANGED <<modules, assembled, outVars, builds>>

\* npm pack, the package tree, the installer entries, the hashes and manifest.json:
\* node_modules go into the tarball and the tree only with bundleDependencies
Assemble ==
    /\ build = "pack"
    /\ build' = "archive"
    /\ LET shipped == IF materialized THEN modules ELSE "none"
       IN  \E works \in BOOLEAN :
              assembled' = [airGap |-> materialized, deps |-> shipped, tree |-> shipped,
                            works |-> works]
    /\ UNCHANGED <<modules, materialized, outVars, builds, mishaps>>

\* tar -czf truncates the archive that is there ...
OpenArchive ==
    /\ build = "archive"
    /\ build' = "fill"
    /\ archive' = [serial |-> builds, whole |-> FALSE, bundle |-> assembled]
    /\ UNCHANGED <<modules, materialized, assembled, sums, builds, mishaps>>

\* ... and then fills it
FillArchive ==
    /\ build = "fill"
    /\ build' = "sums"
    /\ archive' = [archive EXCEPT !.whole = TRUE]
    /\ UNCHANGED <<modules, materialized, assembled, sums, builds, mishaps>>

\* mutant: SHA256SUMS is written while tar is still at it
WriteSumsEarly ==
    /\ build \in {"fill", "sums"}
    /\ build' = IF build = "sums" THEN "finally" ELSE build
    /\ sums' = archive
    /\ UNCHANGED <<modules, materialized, assembled, archive, builds, mishaps>>

\* hashFile(archive) into <out>/SHA256SUMS
WriteSums ==
    /\ build = "sums"
    /\ build' = "finally"
    /\ sums' = archive
    /\ UNCHANGED <<modules, materialized, assembled, archive, builds, mishaps>>

\* any other await of the try block throws: on to the finally
BuildThrows ==
    /\ build \in {"install", "pack", "archive", "fill", "sums"}
    /\ Mishap
    /\ build' = "finally"
    /\ UNCHANGED <<modules, materialized, assembled, outVars, builds>>

\* finally: rm(tempRoot) unless --keep-temp; or the process dies
EndBuild ==
    /\ \/ build = "finally" /\ UNCHANGED mishaps
       \/ build # "ended" /\ Mishap
    /\ build' = "ended"
    /\ modules' = "none" /\ materialized' = FALSE /\ assembled' = NoBundle
    /\ UNCHANGED <<outVars, builds>>

Materialize ==
    NpmInstall \/ NpmList \/ ReuseRemoves \/ ReuseCopies \/ ReusePrunes \/ ReuseLists

ReleaseNext ==
    \/ StartBuild \/ Materialize \/ Assemble \/ OpenArchive \/ FillArchive \/ WriteSums
    \/ BuildThrows \/ EndBuild

ReleaseSpec == ReleaseInit /\ [][ReleaseNext]_releaseVars

--------------------------------------------------------------------------------
(* Properties.                                                               *)

BuildSteps == {"install", "list", "reuse", "copy", "prune", "relist", "pack", "archive",
               "fill", "sums", "finally", "ended"}

ReleaseTypeOK ==
    /\ build \in BuildSteps /\ modules \in Modules /\ materialized \in BOOLEAN
    /\ assembled \in Bundles
    /\ archive \in Archives /\ sums \in Archives
    /\ builds \in 0..MaxBuilds /\ mishaps \in 0..MaxMishaps

Honest(b) == b.airGap => b.deps = "production" /\ b.tree = "production"

\* The manifest "never claims air-gap completeness that could not be verified"
\* (build-offline-bundle.mjs:22-23): whichever of the two ways of getting the
\* dependencies fails at whichever point, an archive that says airGapComplete was made
\* from a node_modules with all the production dependencies and no others.
AirGapHonest == Honest(archive.bundle)

\* If SHA256SUMS fits the archive beside it, the archive is complete: a build that
\* fails or dies while tar is writing leaves the sum of an earlier archive.
ChecksummedIsWhole == archive.serial # 0 /\ sums = archive => archive.whole

\* how far the build is when materialized can be TRUE, and what it is about to archive
ReleaseInv ==
    /\ ReleaseTypeOK
    /\ materialized => build \in {"pack", "archive", "fill", "sums", "finally"}
                       /\ modules = "production"
    /\ build \in {"list", "relist"} => modules = "production"
    /\ Honest(assembled) /\ Honest(archive.bundle)
    /\ build = "sums" => archive.whole
    /\ sums.serial # 0 => sums.whole
================================================================================
