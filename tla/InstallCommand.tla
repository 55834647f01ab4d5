----------------------------- MODULE InstallCommand -----------------------------
(***************************************************************************)
(* bin/tiny-yeah.js: one command after another on one project, from its    *)
(* arguments to its exit code, with what it reads of the bundle            *)
(* (bundle-reader.ts, plan.ts, standalone-package.ts) and with install,    *)
(* update, uninstall and doctor as the command sees them; InstallLifecycle *)
(* has their writes file by file, InstallerLock the lock.  One action is   *)
(* one step that can fail or leave something on its own.                   *)
(***************************************************************************)
EXTENDS Naturals, Sequences
LOCAL INSTANCE SequencesExt

CONSTANTS
    Argvs,            \* the command lines that are given
    Homes,            \* what the two other places may hold: <project>/node_modules/tiny-yeah
                      \* and <bin>/../dist
    Listings,         \* the sets of parts a SHA256SUMS in a bundle lists
    MaxRuns,          \* how many commands are run
    MaxFailures       \* how many steps fail, commands die and bundles change, in all

ASSUME CommandAssumption ==
    /\ Listings \subseteq SUBSET {"dist", "tarball", "templates", "tree"}
    /\ Homes \subseteq {"good", "bad", "missing"} /\ MaxRuns \in Nat /\ MaxFailures \in Nat

VARIABLES
    source,           \* the bundle directory the command line can name
    project,          \* what of tiny-yeah is in the project
    run,              \* the command that runs, or the last one that ran
    runs, failures    \* spent of the two bounds

commandVars == <<source, project, run, runs, failures>>

\* dist: the six files manifest.distHashes is of; tree: node_modules/tiny-yeah
Parts == {"manifest", "dist", "tarball", "templates", "tree"}
Directories == [airGap : BOOLEAN, listed : SUBSET Parts, part : [Parts -> {"good", "bad", "missing"}]]
NoDirectory == [airGap |-> FALSE, listed |-> {}, part |-> [p \in Parts |-> "missing"]]

\* "good" and "bad" are the copies of such a part; a release's tarball has a name of its own
Copied == {"tarball", "templates", "tree"}
NoProject == [stamp |-> "none", copy |-> [p \in Copied |-> "none"]]
Other(version) == [stamp |-> version,
                   copy |-> [p \in Copied |-> IF p = "tarball" THEN "none" ELSE "old"]]
StartProjects == {NoProject, Other("older"), Other("newer")}

--------------------------------------------------------------------------------
(* The command line.                                                         *)

Commands == {"install", "update", "uninstall", "doctor"}
ValueFlags == {"--project", "--bundle", "--mode"}
BoolFlags == {"--force", "--dry-run", "--json", "--yes", "--version", "--help",
              "--allow-downgrade", "--purge-backups"}
Dashed == ValueFlags \cup BoolFlags \cup {"--", "--other"}

NothingParsed == [name |-> "none", flags |-> {}, from |-> "default", wants |-> "none",
                  literal |-> FALSE, bad |-> FALSE]

ParseToken(p, token) ==
    CASE p.bad \/ p.literal -> p
      [] p.wants # "none" -> [p EXCEPT !.wants = "none", !.bad = token \in Dashed,
                                       !.from = IF p.wants = "--bundle" THEN token ELSE @]
      [] token = "--" -> [p EXCEPT !.literal = TRUE]
      [] token \in ValueFlags -> [p EXCEPT !.wants = token]
      [] token \in BoolFlags -> [p EXCEPT !.flags = @ \cup {token}]
      [] token \in Dashed -> [p EXCEPT !.bad = TRUE]
      [] p.name = "none" -> [p EXCEPT !.bad = token \notin Commands,
                                      !.name = IF token \in Commands THEN token ELSE @]
      [] OTHER -> p

Parse(argv) ==
    LET p == FoldLeft(ParseToken, NothingParsed, argv)
    IN  [p EXCEPT !.bad = @ \/ p.wants # "none"]

--------------------------------------------------------------------------------

\* last: the step it ended at; private: the extracted archive; clean: nothing failed and
\* the bundle did not change under it; began: the project it found
NewRun(name, p, at, code, began) ==
    [at |-> at, last |-> "none", name |-> name, flags |-> p.flags, from |-> p.from,
     private |-> NoDirectory, temp |-> FALSE, code |-> code, clean |-> TRUE, began |-> began]
NoRun == NewRun("none", NothingParsed, "ended", "none", NoProject)

CommandInit ==
    /\ source = NoDirectory
    /\ project \in StartProjects
    /\ run = NoRun
    /\ runs = 0 /\ failures = 0

At(step) == run.at = step
Is(name) == run.name = name
Has(flag) == flag \in run.flags
Bundle == IF run.from = "archive" THEN run.private ELSE source

Failing == failures < MaxFailures /\ failures' = failures + 1
Well == UNCHANGED failures
Go(step) == run' = [run EXCEPT !.at = step]

\* a return or a throw, on to the finally block when there is a temporary directory
Ended(code) ==
    [run EXCEPT !.at = IF run.temp THEN "cleanup" ELSE "ended", !.last = run.at, !.code = code]
Exit(code) == run' = Ended(code)

Same == UNCHANGED <<source, project, runs>>

\* main, and parseArgs, which exits with 2 before --version and --help are looked at
Start(argv) ==
    /\ At("ended") /\ runs < MaxRuns
    /\ runs' = runs + 1
    /\ LET p == Parse(argv)
           asked == {"--version", "--help"} \cap p.flags
           begin(name, at, code) == NewRun(name, p, at, code, project)
       IN  run' = CASE p.bad -> begin(p.name, "ended", "2")
                    [] ~p.bad /\ asked # {} -> begin("none", "ended", "0")
                    [] OTHER -> CASE p.name \in {"install", "update"} ->
                                        begin(p.name, "prepare", "none")
                                  [] p.name \in {"uninstall", "doctor"} ->
                                        begin(p.name, "import", "none")
                                  [] OTHER -> begin(p.name, "ended", "2")
    /\ UNCHANGED <<source, project, failures>>

\* prepareBundleDir of a directory; without --bundle one with a manifest is looked for
Locate ==
    /\ At("prepare") /\ run.from # "archive"
    /\ IF run.from = "default" /\ source.part["manifest"] = "missing" THEN Exit("2")
       ELSE Go("import")
    /\ Same /\ Well

\* mutant: the temporary directory of an archive that does not extract is left behind
UnpackLeaves(whole, directory) ==
    /\ At("prepare") /\ run.from = "archive"
    /\ \/ /\ whole /\ Well
          /\ run' = [run EXCEPT !.at = "import", !.private = directory, !.temp = TRUE]
       \/ /\ ~whole /\ Well
          /\ run' = [Ended("2") EXCEPT !.temp = TRUE]
    /\ Same

\* prepareBundleDir of an archive: tar into a fresh temporary directory, all or nothing;
\* the catch block removes the directory, and throws when it cannot
Unpack(whole, directory) ==
    /\ At("prepare") /\ run.from = "archive"
    /\ \/ /\ whole /\ Well
          /\ run' = [run EXCEPT !.at = "import", !.private = directory, !.temp = TRUE]
       \/ /\ ~whole /\ Well
          /\ Exit("2")
       \/ /\ Failing
          /\ \E left \in BOOLEAN : run' = [Ended("2") EXCEPT !.clean = FALSE, !.temp = left]
    /\ Same

\* where lifecycle.js and doctor.js are looked for, in order; for uninstall and doctor the
\* project takes the place of the bundle, so that its own dependency comes first
Candidates(own, home) ==
    <<IF run.name \in {"install", "update"} THEN Bundle.part["tree"] ELSE own,
      project.copy["tree"], home>>

\* import() of one: a part of a package may lack what it imports, or not parse
Outcomes(tree) ==
    CASE tree \in {"good", "old"} -> {"loads"}
      [] tree \in {"none", "missing"} -> {"next"}
      [] tree \in {"bad", "partial"} -> {"loads", "next", "throws"}

\* importLifecycle, importInstallerModule: the first that loads; only "Cannot find
\* module" and ENOENT go on to the next.  uninstall and doctor do it outside their try
\* block, so that they throw instead of returning an exit code.
Import ==
    /\ At("import")
    /\ \E own, home \in Homes : LET found == Candidates(own, home) IN \E k \in DOMAIN found :
          /\ \A j \in 1..k - 1 : "next" \in Outcomes(found[j])
          /\ \/ /\ "loads" \in Outcomes(found[k])
                /\ Go(CASE run.name \in {"install", "update"} -> "manifest"
                        [] Is("uninstall") -> "lock"
                        [] Is("doctor") -> "report")
             \/ /\ "throws" \in Outcomes(found[k])
                /\ Exit(IF run.name \in {"install", "update"} THEN "1" ELSE "threw")
             \/ /\ k = Len(found) /\ "next" \in Outcomes(found[k])
                /\ Exit("1")
    /\ Same /\ Well

\* readBundle: the manifest
ReadManifest ==
    /\ At("manifest")
    /\ IF Bundle.part["manifest"] = "good" /\ Bundle.airGap THEN Go("hashes") ELSE Exit("3")
    /\ Same /\ Well

\* mutant: SHA256SUMS is not looked for
CheckDistHashes ==
    /\ At("hashes")
    /\ IF Bundle.part["dist"] = "good" THEN Go("lock") ELSE Exit("3")
    /\ Same /\ Well

\* readBundle: distHashes, and the SHA256SUMS if there is one
CheckHashes ==
    /\ At("hashes")
    /\ IF \A p \in {"dist"} \cup Bundle.listed : Bundle.part[p] = "good"
       THEN Go("lock") ELSE Exit("3")
    /\ Same /\ Well

\* acquireInstallerLock.  A command that died, or could not remove its lock, has left one
\* that stops every other for INSTALLER_LOCK_STALE_MS: once something has failed, there may
\* be one.
TakeLock ==
    /\ At("lock")
    /\ \/ Go(IF Is("install") THEN "plan" ELSE "decide")
       \/ failures > 0 /\ Exit("5")
    /\ Same /\ Well

\* computeInstallPlan hashes what it will copy; a missing file is a bare ENOENT
MakePlan ==
    /\ At("plan")
    /\ IF "missing" \in {Bundle.part["tarball"], Bundle.part["templates"]} THEN Exit("1")
       ELSE Go(IF Is("install") THEN "decide" ELSE "tarball")
    /\ Same /\ Well

\* install: the same version is there, another one is, or only the plan is wanted
DecideInstall ==
    /\ At("decide") /\ Is("install")
    /\ CASE project.stamp = "same" /\ ~Has("--force") -> Exit("0")
         [] project.stamp # "same" /\ ~Has("--force") /\ project.copy["templates"] = "old" ->
               Exit("4")
         [] OTHER -> IF Has("--dry-run") THEN Exit("0") ELSE Go("tarball")
    /\ Same /\ Well

DecideUpdate ==
    /\ At("decide") /\ Is("update")
    /\ CASE project.stamp = "none" -> Exit("4")
         [] project.stamp = "same" -> Exit("0")
         [] project.stamp = "newer" /\ ~Has("--allow-downgrade") -> Exit("2")
         [] OTHER -> IF Has("--dry-run") THEN Exit("0") ELSE Go("plan")
    /\ Same /\ Well

\* what may be replaced: everything, or what the stamp that is there lists
Replaces(p) ==
    \/ Is("update") \/ Has("--force")
    \/ project.stamp = "same"
    \/ project.stamp \in {"older", "newer"} /\ p # "tarball"

Put(p, content) == project' = [project EXCEPT !.copy[p] = content]

\* the copy entries of the plan, and the merge into opencode.json after them
Copy(p) ==
    /\ At(p) /\ p \in {"tarball", "templates"}
    /\ CASE Bundle.part[p] = "missing" -> Exit("1") /\ UNCHANGED project
         [] Bundle.part[p] # "missing" /\ project.copy[p] # "none" /\ ~Replaces(p) ->
               Exit("5") /\ UNCHANGED project
         [] OTHER -> /\ Put(p, Bundle.part[p])
                     /\ Go(IF p = "tarball" THEN "templates" ELSE "tree")
    /\ UNCHANGED <<source, runs>> /\ Well

\* mutant: what is there is not removed before the new package tree is copied
LocateTreeOnly ==
    /\ At("tree")
    /\ IF Bundle.part["tree"] = "missing" THEN Exit("3") ELSE Go("copyTree")
    /\ UNCHANGED <<source, project, runs>> /\ Well

\* copyStandalonePackage up to the rm of what is there
ClearTree ==
    /\ At("tree")
    /\ CASE Bundle.part["tree"] = "missing" -> Exit("3") /\ UNCHANGED project
         [] Bundle.part["tree"] # "missing" /\ project.copy["tree"] # "none"
            /\ ~Replaces("tree") -> Exit("5") /\ UNCHANGED project
         [] OTHER -> Go("copyTree") /\ Put("tree", "none")
    /\ UNCHANGED <<source, runs>> /\ Well

\* mutant: a cp that fails is blamed on the bundle
CopyTreeBlamesBundle ==
    /\ At("copyTree")
    /\ \/ /\ Bundle.part["tree"] # "missing" /\ project.copy["tree"] = "none"
          /\ Put("tree", Bundle.part["tree"]) /\ Go("smoke") /\ Well
       \/ /\ Failing
          /\ Put("tree", "partial") /\ run' = [Ended("3") EXCEPT !.clean = FALSE]
    /\ UNCHANGED <<source, runs>>

\* ... and its cp, with errorOnExist, which can stop half way
CopyTree ==
    /\ At("copyTree")
    /\ \/ /\ Bundle.part["tree"] # "missing" /\ project.copy["tree"] = "none"
          /\ Put("tree", Bundle.part["tree"]) /\ Go("smoke") /\ Well
       \/ /\ Bundle.part["tree"] = "missing" \/ project.copy["tree"] # "none"
          /\ Exit("5") /\ Well /\ UNCHANGED project
       \/ /\ Failing
          /\ Put("tree", "partial") /\ run' = [Ended("5") EXCEPT !.clean = FALSE]
    /\ UNCHANGED <<source, runs>>

\* smokeImportExports: a damaged package need not have damaged entry points
Smoke ==
    /\ At("smoke")
    /\ \/ Go("stamp")
       \/ project.copy["tree"] # "good" /\ Exit("5")
    /\ Same /\ Well

\* the lock is released in a finally block, whose rm may still throw
LockReleased == Exit("0") /\ Well
ReleaseThrows == Failing /\ run' = [Ended("1") EXCEPT !.clean = FALSE]

WriteStamp ==
    /\ At("stamp")
    /\ project' = [project EXCEPT !.stamp = "same"]
    /\ LockReleased \/ ReleaseThrows
    /\ UNCHANGED <<source, runs>>

\* uninstall: what does not have the hash in the stamp is taken for the user's and stays
RemoveFiles ==
    /\ At("decide") /\ Is("uninstall")
    /\ IF project.stamp = "none" \/ Has("--dry-run") THEN Exit("0") /\ UNCHANGED project
       ELSE LET stamped == IF project.stamp = "same" THEN {"good", "bad"} ELSE {"old"}
            IN  /\ project' = [project EXCEPT
                     !.copy = [p \in Copied |-> IF @[p] \in stamped THEN "none" ELSE @[p]]]
                /\ Go("unstamp")
    /\ UNCHANGED <<source, runs>> /\ Well

DropStamp ==
    /\ At("unstamp")
    /\ project' = [project EXCEPT !.stamp = "none"]
    /\ LockReleased \/ ReleaseThrows
    /\ UNCHANGED <<source, runs>>

Intact == project.stamp = "same" /\ \A p \in Copied : project.copy[p] = "good"

\* doctor: 1 if the report says broken
Report ==
    /\ At("report")
    /\ \E code \in (IF Intact THEN {"0"} ELSE {"0", "1"}) : Exit(code)
    /\ Same /\ Well

\* what a first install of an undamaged bundle can exit with, if nothing fails
FreshExits(directory) ==
    CASE ~directory.airGap -> {"3"}
      [] directory.airGap /\ directory.part["tree"] = "good" -> {"0"}
      [] OTHER -> {"0", "1", "5"}

\* any other await of a running step throws: 5 if it is the lock or a write, else 1
StepFails ==
    /\ run.at \notin {"ended", "prepare", "import", "cleanup"}
    /\ Failing
    /\ \E code \in {"1", "5"} : run' = [Ended(code) EXCEPT !.clean = FALSE]
    /\ Same

\* finally: rmSync of the extracted archive; if it throws the process ends with 1
Cleanup ==
    /\ At("cleanup")
    /\ \/ run' = [run EXCEPT !.at = "ended", !.temp = FALSE] /\ Well
       \/ Failing /\ run' = [run EXCEPT !.at = "ended", !.clean = FALSE, !.code = "threw"]
    /\ Same

CommandDies ==
    /\ ~At("ended")
    /\ Failing
    /\ run' = [run EXCEPT !.at = "ended", !.last = run.at, !.clean = FALSE, !.code = "died"]
    /\ Same

\* a part of the bundle directory is lost or damaged
SourceChanges(p, condition) ==
    /\ source.part[p] # condition /\ source # NoDirectory
    /\ Failing
    /\ source' = [source EXCEPT !.part[p] = condition]
    /\ run' = IF At("ended") THEN NoRun ELSE [run EXCEPT !.clean = FALSE]
    /\ UNCHANGED <<project, runs>>

CommandNext ==
    \/ \E argv \in Argvs : Start(argv)
    \/ Locate \/ Import \/ ReadManifest \/ CheckHashes \/ TakeLock \/ MakePlan
    \/ DecideInstall \/ DecideUpdate \/ Copy("tarball") \/ Copy("templates")
    \/ ClearTree \/ CopyTree \/ Smoke \/ WriteStamp \/ RemoveFiles \/ DropStamp \/ Report
    \/ StepFails \/ Cleanup \/ CommandDies
    \/ \E p \in Parts, condition \in {"bad", "missing"} : SourceChanges(p, condition)

--------------------------------------------------------------------------------
(* Properties.                                                               *)

Steps == {"prepare", "import", "manifest", "hashes", "lock", "plan", "decide", "tarball",
          "templates", "tree", "copyTree", "smoke", "stamp", "unstamp", "report",
          "cleanup", "ended"}
Codes == {"none", "0", "1", "2", "3", "4", "5", "threw", "died"}
Projects == [stamp : {"none", "older", "same", "newer"},
             copy : [Copied -> {"none", "old", "partial", "good", "bad"}]]

\* the name, the flags and the bundle are whatever Parse makes of the command line
CommandTypeOK ==
    /\ source \in Directories
    /\ project \in Projects
    /\ run \in [at : Steps, last : Steps \cup {"none"}, name : {run.name}, flags : {run.flags},
               from : {run.from}, private : Directories, temp : BOOLEAN, code : Codes,
               clean : BOOLEAN, began : Projects]
    /\ runs \in 0..MaxRuns /\ failures \in 0..MaxFailures

Installs == run.name \in {"install", "update"}

\* nothing was to be done, or all of it was
NothingToDo == project = run.began /\ (Has("--dry-run") \/ project.stamp = "same")
AllInPlace ==
    /\ project.stamp = "same"
    /\ \A p \in Copied : \/ project.copy[p] = "good"
                         \/ project.copy[p] = "bad" /\ (run.clean => p \notin Bundle.listed)

\* Exit code 0 of install and update can be believed: unless it was a dry run or found its
\* own version stamped, and then nothing has changed, the stamp is the bundle's and
\* nothing it covers is missing, half copied or of another release; a part that the
\* bundle's own SHA256SUMS lists is not damaged either, if the bundle kept still.
ExitZeroIsTrue ==
    At("ended") /\ Installs /\ run.code = "0" => NothingToDo \/ AllInPlace

Refused == run.code \in {"2", "3", "4"}

\* A command that is refused for its arguments, its bundle or the state of the project
\* (exit codes 2, 3 and 4) has left the project as it was, with the one exception of a
\* bundle whose package tree is found missing after the other copies are made.
RefusedUntouched ==
    At("ended") /\ Refused => project = run.began \/ (run.code = "3" /\ run.last = "tree")

\* No path through a command leaves the extracted archive behind, unless the process dies
\* or the directory cannot be removed.
NoExtractLeft == At("ended") /\ run.temp => ~run.clean

\* INSTALL_LOCKED: the lock that an earlier command has left is not stale yet
Locked == run.last = "lock" /\ run.code = "5"

\* Whatever earlier commands left that failed or died half way, "install --force" from an
\* intact bundle repairs it, if nothing fails this time and their lock is gone or stale.
ForceRepairs ==
    /\ At("ended") /\ Is("install") /\ Has("--force") /\ ~Has("--dry-run")
    /\ run.clean /\ run.last # "none" /\ ~Locked /\ Bundle.airGap
    /\ \A p \in Parts : Bundle.part[p] = "good"
    => run.code = "0" /\ Intact

--------------------------------------------------------------------------------
(* Why it holds.                                                             *)

Over == run.at \in {"cleanup", "ended"}

\* what takes which step, and what has happened by then at the latest
RightSteps ==
    /\ run.at \in {"prepare", "manifest", "hashes", "plan", "tarball", "templates", "tree",
                  "copyTree", "smoke", "stamp"} => Installs
    /\ At("import") => Installs \/ Is("uninstall") \/ Is("doctor")
    /\ At("lock") => Installs \/ Is("uninstall")
    /\ At("unstamp") => Is("uninstall")
    /\ At("report") => Is("doctor")
    /\ ~Over => run.code = "none"
    /\ At("prepare") => run.private = NoDirectory /\ ~run.temp

\* nothing is written before the tarball, and no part before its turn
NotYetWritten ==
    /\ run.at \in {"prepare", "import", "manifest", "hashes", "lock", "plan", "decide", "tarball",
                  "report"} => project = run.began
    /\ At("templates") => project.copy["templates"] = run.began.copy["templates"]
    /\ run.at \in {"templates", "tree"} => project.copy["tree"] = run.began.copy["tree"]
    /\ At("copyTree") /\ run.clean => project.copy["tree"] = "none"

\* the hashes were right and hold as long as the bundle does not change
HashesHeld ==
    Installs /\ run.clean /\ run.at \in {"lock", "plan", "decide", "tarball", "templates", "tree",
                                       "copyTree", "smoke", "stamp"}
        => \A p \in Bundle.listed : Bundle.part[p] = "good"

\* a part whose turn is over is a copy of the bundle's
CopiedBy == [tarball |-> {"templates", "tree", "copyTree", "smoke", "stamp"},
             templates |-> {"tree", "copyTree", "smoke", "stamp"},
             tree |-> {"smoke", "stamp"}]
CopiesMade ==
    \A p \in Copied : run.at \in CopiedBy[p] =>
        project.copy[p] \in {"good", "bad"} /\ (run.clean => project.copy[p] = Bundle.part[p])

\* an install that nothing stands in the way of
Perfect(directory) == directory.airGap /\ \A p \in Parts : directory.part[p] = "good"
Unhindered ==
    /\ Is("install") /\ ~Has("--dry-run") /\ run.clean
    /\ Has("--force") \/ run.began = NoProject
    /\ Perfect(Bundle)

Results ==
    /\ Over /\ Installs /\ run.code = "0" => NothingToDo \/ AllInPlace
    /\ Over /\ Refused => project = run.began \/ (run.code = "3" /\ run.last = "tree")
    /\ Over /\ run.last # "none" /\ ~Locked /\ Unhindered => run.code = "0" /\ Intact

\* The invariant of the commands: what a command can rely on at each of its steps.
CommandInv ==
    /\ CommandTypeOK /\ RightSteps /\ NotYetWritten /\ HashesHeld /\ CopiesMade
    /\ Results /\ NoExtractLeft
=================================================================================
