----------------------------- MODULE OfflineBundle -----------------------------
(***************************************************************************)
(* How a release reaches a project: the builds of BundleRelease, at any    *)
(* time; npm run verify:offline (scripts/release/verify-offline-bundle.mjs *)
(* and the modules beside it) and the commands of InstallCommand, one      *)
(* after the other; and somebody who extracts an archive into a directory. *)
(***************************************************************************)
EXTENDS BundleRelease, InstallCommand

CONSTANTS
    MaxTrouble        \* how much goes wrong in builds, verifications and commands together

ASSUME BundleAssumption == MaxTrouble \in Nat

VARIABLES
    check,            \* the verification that runs, or the last one
    verified,         \* the builds of which one reported ok and airGapComplete
    serves            \* which build the source directory and the extracted archive are of

checkVars == <<check, verified>>
allVars == <<releaseVars, commandVars, checkVars, serves>>

NoCheck == [at |-> "ended", seen |-> NoArchive, temp |-> FALSE, ok |-> FALSE, sound |-> TRUE]

Init ==
    /\ ReleaseInit /\ CommandInit
    /\ check = NoCheck
    /\ verified = {}
    /\ serves = [source |-> 0, private |-> 0]

\* a bundle as a directory: the hashes of its manifest are of the dist/ it has
Directory(bundle, listed) ==
    LET made(deps) == IF bundle.works /\ deps = "production" THEN "good" ELSE "bad"
    IN  [airGap |-> bundle.airGap, listed |-> listed,
         part |-> [p \in Parts |->
                     CASE p = "tarball" -> made(bundle.deps)
                       [] p = "tree" -> IF bundle.tree = "none" THEN "missing"
                                        ELSE made(bundle.tree)
                       [] OTHER -> "good"]]

--------------------------------------------------------------------------------
(* verify-offline-bundle.mjs.                                                *)

Checking(step) == check.at = step
CheckGo(step) == check' = [check EXCEPT !.at = step]
Throws == check' = [check EXCEPT !.at = "cleanup", !.ok = FALSE]
CheckSame == UNCHANGED <<releaseVars, commandVars, verified, serves>>

StartCheck ==
    /\ Checking("ended") /\ At("ended") /\ archive.serial # 0
    /\ check' = [NoCheck EXCEPT !.at = "open"]
    /\ run' = NoRun
    /\ UNCHANGED <<releaseVars, source, project, runs, failures, verified, serves>>

\* assertReadableBundle, resolveTmpRoot, assertTempCapacity and mkdtemp
OpenBundle ==
    /\ Checking("open")
    /\ IF archive.whole THEN check' = [check EXCEPT !.at = "extract", !.temp = TRUE]
       ELSE Throws
    /\ CheckSame

\* tar again: the archive may have been replaced since
Extract ==
    /\ Checking("extract")
    /\ IF archive.whole THEN check' = [check EXCEPT !.at = "entries", !.seen = archive]
       ELSE Throws
    /\ CheckSame

\* verifyNoForbiddenStandaloneEntries, verifyInstallerEntries
CheckEntries ==
    /\ Checking("entries")
    /\ IF check.seen.bundle.airGap /\ check.seen.bundle.tree = "none" THEN Throws
       ELSE CheckGo("standalone")
    /\ CheckSame

\* runStandaloneInstallSmoke: install into an empty project, and doctor there
StandaloneSmoke ==
    /\ Checking("standalone")
    /\ LET directory == Directory(check.seen.bundle, {})
       IN  \/ /\ directory.part["tree"] = "missing" \/ "0" \in FreshExits(directory)
              /\ CheckGo("consumer")
           \/ /\ directory.part["tree"] # "missing" /\ FreshExits(directory) # {"0"}
              /\ Throws
    /\ CheckSame

\* prepareConsumer and installConsumerForSmoke: without network if airGapComplete
InstallConsumer ==
    /\ Checking("consumer")
    /\ IF check.seen.bundle.airGap /\ check.seen.bundle.deps # "production" THEN Throws
       ELSE CheckGo("exports")
    /\ CheckSame

\* mutant: the three entry points are not imported
ExportsUnchecked ==
    /\ Checking("exports")
    /\ check' = [check EXCEPT !.at = "cleanup", !.ok = TRUE]
    /\ CheckSame

\* runSmoke imports the three entry points of what the consumer has installed
ExportsSmoke ==
    /\ Checking("exports")
    /\ IF check.seen.bundle.works THEN check' = [check EXCEPT !.at = "cleanup", !.ok = TRUE]
       ELSE Throws
    /\ CheckSame

CheckThrows ==
    /\ check.at \notin {"ended", "cleanup"}
    /\ Failing
    /\ Throws
    /\ UNCHANGED <<releaseVars, source, project, run, runs, verified, serves>>

\* mutant: what was extracted counts as verified however it went
EndCheckTrusts ==
    /\ Checking("cleanup")
    /\ check' = NoCheck
    /\ verified' = verified \cup {check.seen.serial}
    /\ UNCHANGED <<releaseVars, commandVars, serves>>

\* cleanupTempRoot without --keep-temp, then the report
EndCheck ==
    /\ Checking("cleanup")
    /\ check' = NoCheck
    /\ verified' = IF check.ok /\ check.seen.bundle.airGap
                   THEN verified \cup {check.seen.serial} ELSE verified
    /\ UNCHANGED <<releaseVars, commandVars, serves>>

\* the cleanup throws: inside the try it is caught and tried again, in the catch it ends
CleanupThrows ==
    /\ Checking("cleanup") /\ check.temp
    /\ Failing
    /\ check' = IF check.ok THEN [check EXCEPT !.ok = FALSE]
                ELSE [NoCheck EXCEPT !.temp = TRUE, !.sound = FALSE]
    /\ UNCHANGED <<releaseVars, source, project, run, runs, verified, serves>>

CheckDies ==
    /\ ~Checking("ended")
    /\ Failing
    /\ check' = [NoCheck EXCEPT !.temp = check.temp, !.sound = FALSE]
    /\ UNCHANGED <<releaseVars, source, project, run, runs, verified, serves>>

\* the other steps of a build do nothing that others could see
Visible == build \in {"ended", "fill"}

Within == mishaps' + failures' <= MaxTrouble

CheckStep ==
    /\ Visible
    /\ \/ StartCheck \/ OpenBundle \/ Extract \/ CheckEntries \/ StandaloneSmoke
       \/ InstallConsumer \/ ExportsSmoke \/ CheckThrows \/ EndCheck \/ CleanupThrows
       \/ CheckDies
    /\ Within

--------------------------------------------------------------------------------

\* What a command has ended with is looked at before anything else happens, here as in
\* SourceChanges.  A verification and a command share only the archive with a build, and
\* have nothing to do with it once they have extracted it.
ReleaseStep ==
    /\ ReleaseNext
    /\ check.at \in {"ended", "open", "extract"}
    /\ run.at \in {"ended", "prepare"}
    /\ run' = IF At("ended") THEN NoRun ELSE run
    /\ UNCHANGED <<source, project, runs, failures, checkVars, serves>>
    /\ Within

\* a whole archive is extracted by hand, and may get a SHA256SUMS of its parts
ExtractByHand ==
    /\ Visible /\ At("ended") /\ Checking("ended") /\ archive.whole
    /\ \E listed \in Listings : source' = Directory(archive.bundle, listed)
    /\ serves' = [serves EXCEPT !.source = archive.serial]
    /\ run' = NoRun
    /\ UNCHANGED <<releaseVars, checkVars, project, runs, failures>>

CommandStep ==
    /\ Visible /\ Checking("ended")
    /\ \/ CommandNext
       \/ Unpack(archive.whole, Directory(archive.bundle, {}))
    /\ serves' = [source |-> IF source' = source THEN serves.source ELSE 0,
                  private |-> CASE At("prepare") /\ run'.at = "import" -> archive.serial
                                [] At("ended") -> 0
                                [] OTHER -> serves.private]
    /\ UNCHANGED <<releaseVars, checkVars>>
    /\ Within

Next == ReleaseStep \/ CheckStep \/ ExtractByHand \/ CommandStep

Spec == Init /\ [][Next]_allVars

--------------------------------------------------------------------------------
(* Properties.                                                               *)

CheckPlaces == {"open", "extract", "entries", "standalone", "consumer", "exports",
                "cleanup", "ended"}
BundleTypeOK ==
    /\ check \in [at : CheckPlaces, seen : Archives, temp : BOOLEAN, ok : BOOLEAN, sound : BOOLEAN]
    /\ verified \subseteq 1..MaxBuilds
    /\ serves \in [source : 0..MaxBuilds, private : 0..MaxBuilds]

\* No path through a verification or a command leaves its temporary directory behind,
\* unless the process died or rm failed: the verifier cleans up at three places, the
\* command in a catch and in a finally block of different functions.
NoTempLeft ==
    /\ Checking("ended") /\ check.temp => ~check.sound
    /\ NoExtractLeft

\* What the verification is for: after it has reported ok for an archive that says
\* airGapComplete, a first or forced install of that build, from the archive or from an
\* undamaged directory, succeeds whenever nothing fails and no lock of an earlier command
\* is in the way, even if another build has replaced the archive in the meantime.
VerifiedInstalls ==
    /\ At("ended") /\ Is("install") /\ run.clean /\ run.last # "none" /\ ~Locked
    /\ ~Has("--dry-run")
    /\ Has("--force") \/ run.began = NoProject
    /\ (IF run.from = "archive" THEN serves.private ELSE serves.source) \in verified
    => run.code = "0" /\ Intact

--------------------------------------------------------------------------------
(* Why it holds.                                                             *)

\* whatever has the number s was made of the bundle b; if s is verified, b installs
MadeOf(b, s) ==
    /\ archive.serial = s => archive.bundle = b
    /\ check.seen.serial = s => check.seen.bundle = b
    /\ serves.source = s => \E listed \in Listings : source = Directory(b, listed)
    /\ serves.private = s /\ run.from = "archive" => run.private = Directory(b, {})
    /\ s \in verified => b.works /\ b.airGap /\ Honest(b)

\* so it is of the archive that is there and of the one being verified, and what was made
\* of one that is verified installs even when both are gone
OneBundleEach ==
    /\ archive.serial # 0 => MadeOf(archive.bundle, archive.serial)
    /\ check.seen.serial # 0 => MadeOf(check.seen.bundle, check.seen.serial)
    /\ serves.source \in verified => Perfect(source)
    /\ serves.private \in verified /\ run.from = "archive" => Perfect(run.private)

\* a new build has a number nothing else has
SerialsGrow ==
    /\ archive.serial <= builds
    /\ build \in {"install", "list", "reuse", "copy", "prune", "relist", "pack", "archive"}
          => archive.serial < builds
    /\ check.seen.serial <= archive.serial
    /\ serves.source <= archive.serial /\ serves.private <= archive.serial
    /\ \A s \in verified : s <= archive.serial
    /\ build = "fill" => archive.serial # 0
    /\ archive.serial = 0 => ~archive.whole

CheckSound ==
    /\ check.ok => Checking("cleanup") /\ check.seen.bundle.works
    /\ check.seen.serial = 0 => check.seen = NoArchive
    /\ Honest(check.seen.bundle)

\* The invariant of builds, verifications and commands together: a number stands for one
\* bundle wherever it has got to, new builds get new numbers, a verification reports only
\* what it has seen work, and a command relies only on what the steps before it left.
BundleInv ==
    /\ ReleaseTypeOK /\ BundleTypeOK /\ CommandInv
    /\ SerialsGrow /\ OneBundleEach /\ CheckSound
    /\ NoTempLeft
================================================================================
