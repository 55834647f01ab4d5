--------------------------- MODULE OfflineBundleProofs ---------------------------
(***************************************************************************)
(* Proofs about OfflineBundle for every number of builds, commands and     *)
(* failures, every set of command lines and every set of listings.         *)
(*                                                                         *)
(* The builds do the same whoever reads what they write, so what holds of  *)
(* them alone (ReleaseInv) holds beside verifications and commands too.    *)
(* CommandInv follows a command from step to step: most steps only go on   *)
(* (GoKeeps), end it for a reason (ExitKeeps) or fail (UncleanKeeps); the  *)
(* steps that write to the project have a lemma each.  BundleInv adds that *)
(* the number of a build stands for one bundle wherever it has got to.     *)
(***************************************************************************)
EXTENDS Integers, OfflineBundle, TLAPS

LEMMA NoBundleTyped == NoBundle \in Bundles /\ Honest(NoBundle)
  BY Zenon DEF NoBundle, Bundles, Modules, Honest

LEMMA ReleaseInitial == ReleaseInit => ReleaseInv
<1> SUFFICES ASSUME ReleaseInit PROVE ReleaseInv
  OBVIOUS
<1>1. NoArchive \in Archives /\ NoArchive.bundle = NoBundle /\ NoArchive.serial = 0
  BY NoBundleTyped, ReleaseAssumption DEF NoArchive, Archives, ReleaseAssumption
<1>2. builds \in 0..MaxBuilds /\ mishaps \in 0..MaxMishaps
  BY ReleaseAssumption DEF ReleaseAssumption, ReleaseInit
<1>3. ReleaseTypeOK
  BY <1>1, <1>2, NoBundleTyped, Zenon DEF ReleaseInit, ReleaseTypeOK, BuildSteps, Modules
<1>4. QED
  BY <1>1, <1>3, NoBundleTyped, Zenon DEF ReleaseInit, ReleaseInv

\* Every variable keeps its type.
LEMMA ReleaseTypes == ASSUME ReleaseTypeOK, ReleaseNext PROVE ReleaseTypeOK'
<1> USE ReleaseAssumption
    DEF ReleaseAssumption, ReleaseTypeOK, BuildSteps, Modules, Mishap, outVars
<1>1. CASE StartBuild
  BY <1>1 DEF StartBuild
<1>2. CASE NpmInstall
  BY <1>2 DEF NpmInstall
<1>3. CASE NpmList
  <2>1. mishaps' \in 0..MaxMishaps
    BY <1>3 DEF NpmList
  <2>2. materialized' \in BOOLEAN
    BY <1>3, Zenon DEF NpmList
  <2>3. QED
    BY <1>3, <2>1, <2>2 DEF NpmList
<1>4. CASE ReuseRemoves
  BY <1>4 DEF ReuseRemoves
<1>5. CASE ReuseCopies
  BY <1>5 DEF ReuseCopies
<1>6. CASE ReusePrunes
  BY <1>6 DEF ReusePrunes
<1>7. CASE ReuseLists
  <2>1. mishaps' \in 0..MaxMishaps
    BY <1>7 DEF ReuseLists
  <2>2. materialized' \in BOOLEAN
    BY <1>7, Zenon DEF ReuseLists
  <2>3. QED
    BY <1>7, <2>1, <2>2 DEF ReuseLists
<1>8. CASE Assemble
  BY <1>8 DEF Assemble, Bundles
<1>9. CASE OpenArchive
  BY <1>9 DEF OpenArchive, Archives
<1>10. CASE FillArchive
  BY <1>10 DEF FillArchive, Archives
<1>11. CASE WriteSums
  BY <1>11 DEF WriteSums
<1>12. CASE BuildThrows
  BY <1>12 DEF BuildThrows
<1>13. CASE EndBuild
  <2>1. mishaps' \in 0..MaxMishaps
    BY <1>13 DEF EndBuild
  <2>2. materialized' \in BOOLEAN /\ NoBundle \in Bundles
    BY <1>13, NoBundleTyped, Zenon DEF EndBuild
  <2>3. QED
    BY <1>13, <2>1, <2>2 DEF EndBuild
<1>14. QED
  BY <1>1, <1>2, <1>3, <1>4, <1>5, <1>6, <1>7, <1>8, <1>9, <1>10, <1>11, <1>12, <1>13
  DEF ReleaseNext, Materialize

\* The invariant: what is staged when a build counts its dependencies as materialized, and
\* what it has assembled, written and summed since.
LEMMA ReleaseStepInv == ASSUME ReleaseInv, [ReleaseNext]_releaseVars PROVE ReleaseInv'
<1>1. CASE UNCHANGED releaseVars
  BY <1>1 DEF ReleaseInv, ReleaseTypeOK, releaseVars, buildVars, outVars, Honest
<1>2. CASE ReleaseNext
  <2> USE <1>2 DEF ReleaseInv, Honest, Mishap, outVars
  <2>t. ReleaseTypeOK'
    BY ReleaseTypes
  <2>m. CASE Materialize
    <3>1. CASE NpmInstall
      BY <2>t, <3>1 DEF NpmInstall
    <3>2. CASE NpmList
      BY <2>t, <3>2 DEF NpmList
    <3>3. CASE ReuseRemoves
      BY <2>t, <3>3 DEF ReuseRemoves
    <3>4. CASE ReuseCopies
      BY <2>t, <3>4 DEF ReuseCopies
    <3>5. CASE ReusePrunes
      BY <2>t, <3>5 DEF ReusePrunes
    <3>6. CASE ReuseLists
      BY <2>t, <3>6 DEF ReuseLists
    <3>7. QED
      BY <2>m, <3>1, <3>2, <3>3, <3>4, <3>5, <3>6 DEF Materialize
  <2>1. CASE StartBuild
    BY <2>t, <2>1 DEF StartBuild
  <2>2. CASE Assemble
    BY <2>t, <2>2 DEF Assemble
  <2>3. CASE OpenArchive
    BY <2>t, <2>3 DEF OpenArchive
  <2>4. CASE FillArchive
    BY <2>t, <2>4 DEF FillArchive, ReleaseTypeOK, Archives
  <2>5. CASE WriteSums
    BY <2>t, <2>5 DEF WriteSums
  <2>6. CASE BuildThrows
    BY <2>t, <2>6 DEF BuildThrows
  <2>7. CASE EndBuild
    BY <2>t, <2>7 DEF EndBuild, NoBundle
  <2>8. QED
    BY <2>m, <2>1, <2>2, <2>3, <2>4, <2>5, <2>6, <2>7 DEF ReleaseNext
<1>3. QED
  BY <1>1, <1>2

\* The invariant holds of every build that tries to get its dependencies in both ways.
THEOREM ReleaseInvariant == ReleaseSpec => []ReleaseInv
  BY ReleaseInitial, ReleaseStepInv, PTL DEF ReleaseSpec

\* A step of a verification, a command or a reader of the archive writes nothing of a build.
LEMMA ReadersOnlyRead == ASSUME Next, ~ReleaseStep PROVE UNCHANGED releaseVars
<1>1. CASE CheckStep
  BY <1>1 DEF CheckStep, StartCheck, OpenBundle, Extract, CheckEntries, StandaloneSmoke,
     InstallConsumer, ExportsSmoke, CheckThrows, EndCheck, CleanupThrows, CheckDies, CheckSame
<1>2. CASE ExtractByHand
  BY <1>2 DEF ExtractByHand
<1>3. CASE CommandStep
  BY <1>3 DEF CommandStep
<1>4. QED
  BY <1>1, <1>2, <1>3 DEF Next

\* The composition implements the builds alone: verifying, installing and extracting change
\* nothing of what the release script does.
THEOREM BuildsUndisturbed == Spec => ReleaseSpec
<1>1. Init => ReleaseInit
  BY DEF Init
<1>2. ASSUME [Next]_allVars PROVE [ReleaseNext]_releaseVars
  <2>1. CASE UNCHANGED allVars
    BY <2>1 DEF allVars
  <2>2. CASE ReleaseStep
    BY <2>2 DEF ReleaseStep
  <2>3. CASE Next /\ ~ReleaseStep
    BY <2>3, ReadersOnlyRead
  <2>4. QED
    BY <1>2, <2>1, <2>2, <2>3
<1>3. QED
  BY <1>1, <1>2, PTL DEF Spec, ReleaseSpec

\* An archive never claims to be complete for an air gap unless its tarball and its package
\* tree were made from the production dependencies.
THEOREM ReleaseHonest == Spec => []AirGapHonest
<1>1. ReleaseInv => AirGapHonest
  BY DEF ReleaseInv, AirGapHonest
<1>2. QED
  BY <1>1, ReleaseInvariant, BuildsUndisturbed, PTL

\* A sum that fits the archive beside it is the sum of a complete archive.
THEOREM SumsFitWhole == Spec => []ChecksummedIsWhole
<1>1. ReleaseInv => ChecksummedIsWhole
  BY DEF ReleaseInv, ChecksummedIsWhole
<1>2. QED
  BY <1>1, ReleaseInvariant, BuildsUndisturbed, PTL

--------------------------------------------------------------------------------
(* Commands.                                                                 *)

\* a step of a running command, field by field: what it never changes stays
Becomes(at, last, private, temp, code, clean) ==
    run' = [at |-> at, last |-> last, name |-> run.name, flags |-> run.flags,
            from |-> run.from, private |-> private, temp |-> temp, code |-> code,
            clean |-> clean, began |-> run.began]

\* what Go, Exit and a failing step make of run
LEMMA GoBecomes == ASSUME CommandTypeOK, NEW step, Go(step)
                   PROVE Becomes(step, run.last, run.private, run.temp, run.code, run.clean)
  BY DEF CommandTypeOK, Go, Becomes

ExitStep == IF run.temp THEN "cleanup" ELSE "ended"

LEMMA ExitBecomes == ASSUME CommandTypeOK, NEW code, Exit(code)
                     PROVE Becomes(ExitStep, run.at, run.private, run.temp, code, run.clean)
  BY DEF CommandTypeOK, Exit, Ended, Becomes, ExitStep

LEMMA FailBecomes ==
    ASSUME CommandTypeOK, NEW code, run' = [Ended(code) EXCEPT !.clean = FALSE]
    PROVE Becomes(ExitStep, run.at, run.private, run.temp, code, FALSE)
  BY DEF CommandTypeOK, Ended, Becomes, ExitStep

\* the bounds
LEMMA SpentTyped == ASSUME CommandTypeOK, Failing \/ Well PROVE failures' \in 0..MaxFailures
  BY CommandAssumption DEF CommandAssumption, CommandTypeOK, Failing, Well

LEMMA RunTyped ==
    ASSUME CommandTypeOK, NEW at \in Steps, NEW last \in Steps \cup {"none"},
           NEW private \in Directories, NEW temp \in BOOLEAN, NEW code \in Codes,
           NEW clean \in BOOLEAN, Becomes(at, last, private, temp, code, clean),
           UNCHANGED <<source, runs>>, project' \in Projects, Failing \/ Well
    PROVE CommandTypeOK'
<1>1. failures' \in 0..MaxFailures
  BY SpentTyped
<1>2. QED
  BY <1>1 DEF CommandTypeOK, Becomes

\* what a step that goes on, or ends the command, leaves as it was
LEMMA SameBundle ==
    ASSUME NEW at, NEW last, NEW temp, NEW code, NEW clean,
           Becomes(at, last, run.private, temp, code, clean), UNCHANGED source
    PROVE /\ Bundle' = Bundle /\ run.name' = run.name /\ run.flags' = run.flags
          /\ run.from' = run.from /\ run.began' = run.began
          /\ run'.at = at /\ run'.last = last /\ run'.private = run.private
          /\ run'.temp = temp /\ run'.code = code /\ run'.clean = clean
  BY DEF Becomes, Bundle

\* A command that ends for a reason: what has to be true of its exit code.
ExitDue(code) ==
    /\ code \in Codes
    /\ Installs /\ code = "0" => NothingToDo \/ AllInPlace
    /\ code \in {"2", "3", "4"} => project = run.began \/ (code = "3" /\ At("tree"))
    /\ Unhindered => (code = "0" /\ Intact) \/ (At("lock") /\ code = "5")

LEMMA ExitKeeps ==
    ASSUME CommandInv, NEW code, ExitDue(code), Exit(code), UNCHANGED <<source, project, runs>>,
           Failing \/ Well, ~Over
    PROVE CommandInv'
<1>1. Becomes(ExitStep, run.at, run.private, run.temp, code, run.clean)
  BY ExitBecomes DEF CommandInv
<1>2. CommandTypeOK /\ run.temp \in BOOLEAN /\ run.at \in Steps
  BY DEF CommandInv, CommandTypeOK
<1>3. ExitStep \in {"cleanup", "ended"}
  BY DEF ExitStep
<1>4. CommandTypeOK'
  <2>1. /\ run.private \in Directories /\ run.clean \in BOOLEAN
        /\ project' \in Projects /\ code \in Codes
    BY DEF CommandInv, CommandTypeOK, ExitDue
  <2>2. QED
    BY <1>1, <1>2, <1>3, <2>1, RunTyped DEF Steps
<1>5. /\ Bundle' = Bundle /\ run.name' = run.name /\ run.flags' = run.flags
      /\ run.began' = run.began /\ run'.at = ExitStep /\ run'.last = run.at
      /\ run'.code = code /\ run'.clean = run.clean /\ run'.temp = run.temp
  BY <1>1, SameBundle
<1>6. RightSteps' /\ NotYetWritten' /\ HashesHeld' /\ CopiesMade'
  BY <1>3, <1>5 DEF RightSteps, NotYetWritten, HashesHeld, CopiesMade, CopiedBy, Over, At, Copied
<1>7. Results'
  BY <1>3, <1>5, SMT DEF Results, ExitDue, Locked, Over, At, NothingToDo, AllInPlace, Intact,
     Unhindered, Refused, Installs, Is, Has
<1>8. NoExtractLeft'
  BY <1>2, <1>5 DEF NoExtractLeft, ExitStep, At
<1>9. QED
  BY <1>4, <1>6, <1>7, <1>8 DEF CommandInv

\* A step that fails, or a process that dies, leaves nothing to be said of its result ...
LEMMA UncleanKeeps ==
    ASSUME CommandInv, NEW at \in {"cleanup", "ended"}, NEW last \in Steps \cup {"none"},
           NEW temp \in BOOLEAN, NEW code \in {"1", "5", "threw", "died"},
           Becomes(at, last, run.private, temp, code, FALSE),
           UNCHANGED <<source, runs>>, project' \in Projects, Failing
    PROVE CommandInv'
<1>1. CommandTypeOK'
  <2>1. CommandTypeOK /\ run.private \in Directories /\ at \in Steps /\ code \in Codes
    BY DEF CommandInv, CommandTypeOK, Steps, Codes
  <2>2. FALSE \in BOOLEAN
    OBVIOUS
  <2>3. QED
    BY <2>1, <2>2, RunTyped
<1>2. /\ run'.at = at /\ run'.code = code /\ run'.clean = FALSE
  BY SameBundle
<1>3. RightSteps' /\ NotYetWritten' /\ HashesHeld' /\ CopiesMade'
  BY <1>2 DEF RightSteps, NotYetWritten, HashesHeld, CopiesMade, CopiedBy, Over, At, Copied
<1>4. Results' /\ NoExtractLeft'
  BY <1>2 DEF Results, Over, Refused, Unhindered, NoExtractLeft
<1>5. QED
  BY <1>1, <1>3, <1>4 DEF CommandInv

\* ... and a step that only goes on keeps what was true before it.
LEMMA GoKeeps ==
    ASSUME CommandInv, NEW step \in Steps, Go(step), ~Over, step \notin {"cleanup", "ended", "prepare"},
           UNCHANGED <<source, project, runs>>, Failing \/ Well,
           step \in {"manifest", "hashes", "plan", "tarball", "stamp"} => Installs,
           step = "import" => Installs \/ Is("uninstall") \/ Is("doctor"),
           step = "lock" => Installs \/ Is("uninstall"),
           step = "report" => Is("doctor"),
           step \notin {"templates", "tree", "copyTree", "smoke", "unstamp"},
           step # "stamp" => project = run.began,
           step \in {"lock", "plan", "decide", "tarball", "stamp"} /\ Installs /\ run.clean
              => \A p \in Bundle.listed : Bundle.part[p] = "good",
           step = "stamp" => \A p \in Copied : project.copy[p] \in {"good", "bad"}
                                /\ (run.clean => project.copy[p] = Bundle.part[p])
    PROVE CommandInv'
<1>1. Becomes(step, run.last, run.private, run.temp, run.code, run.clean)
  BY GoBecomes DEF CommandInv
<1>2. CommandTypeOK'
  BY <1>1, RunTyped DEF CommandInv, CommandTypeOK
<1>3. /\ Bundle' = Bundle /\ run.name' = run.name /\ run.flags' = run.flags
      /\ run.began' = run.began /\ run'.at = step
      /\ run'.code = run.code /\ run'.clean = run.clean
  BY <1>1, SameBundle
<1>4. RightSteps'
  BY <1>3 DEF CommandInv, RightSteps, Over, At, Installs, Is
<1>5. NotYetWritten'
  BY <1>3 DEF NotYetWritten, At
<1>6. HashesHeld'
  BY <1>3 DEF HashesHeld, Installs
<1>7. CopiesMade'
  BY <1>3 DEF CopiesMade, CopiedBy, Copied
<1>8. Results' /\ NoExtractLeft'
  BY <1>3 DEF Results, NoExtractLeft, Over, At
<1>9. QED
  BY <1>2, <1>4, <1>5, <1>6, <1>7, <1>8 DEF CommandInv

LEMMA RunRecord ==
    ASSUME NEW name, NEW p, NEW at \in Steps, NEW code \in Codes, NEW began \in Projects
    PROVE NewRun(name, p, at, code, began)
          \in [at : Steps, last : Steps \cup {"none"}, name : {name}, flags : {p.flags},
               from : {p.from}, private : Directories, temp : BOOLEAN, code : Codes,
               clean : BOOLEAN, began : Projects]
<1>1. NoDirectory \in Directories
  BY DEF NoDirectory, Directories, Parts
<1>2. QED
  BY <1>1 DEF NewRun

\* nothing runs, or a command has just been given
JustBegun(name, p, at, code, began) ==
    /\ run' = NewRun(name, p, at, code, began)
    /\ \/ at = "prepare" /\ code = "none" /\ name \in {"install", "update"}
       \/ at = "import" /\ code = "none" /\ name \in {"uninstall", "doctor"}
       \/ at = "ended" /\ code = "2"
       \/ at = "ended" /\ code \in {"0", "none"} /\ name = "none"

\* A command that has just begun has done nothing yet.
LEMMA NewKeeps ==
    ASSUME NEW name, NEW p, NEW at, NEW code, NEW began \in Projects,
           JustBegun(name, p, at, code, began),
           project' \in Projects, code # "none" \/ at # "ended" => project' = began,
           source' \in Directories, runs' \in 0..MaxRuns, failures' \in 0..MaxFailures
    PROVE CommandInv'
<1>1. at \in Steps /\ code \in Codes
  BY DEF JustBegun, Steps, Codes
<1>2. /\ run'.at = at /\ run'.name = name /\ run'.flags = p.flags /\ run'.from = p.from
      /\ run'.last = "none" /\ run'.private = NoDirectory /\ run'.temp = FALSE
      /\ run'.code = code /\ run'.clean = TRUE /\ run'.began = began
  BY DEF JustBegun, NewRun
<1>3. CommandTypeOK'
  <2>1. NewRun(name, p, at, code, began)
          \in [at : Steps, last : Steps \cup {"none"}, name : {name}, flags : {p.flags},
               from : {p.from}, private : Directories, temp : BOOLEAN, code : Codes,
               clean : BOOLEAN, began : Projects]
    BY <1>1, RunRecord
  <2>2. run' = NewRun(name, p, at, code, began)
    BY DEF JustBegun
  <2>3. run' \in [at : Steps, last : Steps \cup {"none"}, name : {run'.name},
                  flags : {run'.flags}, from : {run'.from}, private : Directories,
                  temp : BOOLEAN, code : Codes, clean : BOOLEAN, began : Projects]
    BY <1>2, <2>1, <2>2
  <2>4. QED
    BY <2>3 DEF CommandTypeOK
<1>4. RightSteps' /\ NotYetWritten' /\ HashesHeld' /\ CopiesMade'
  BY <1>2 DEF JustBegun, RightSteps, NotYetWritten, HashesHeld, CopiesMade, CopiedBy, Copied,
     Over, At, Installs, Is
<1>5. Results' /\ NoExtractLeft'
  BY <1>2 DEF JustBegun, Results, NoExtractLeft, Over, At, Refused, Installs
<1>6. QED
  BY <1>3, <1>4, <1>5 DEF CommandInv

LEMMA StartKeeps == ASSUME CommandInv, NEW argv \in Argvs, Start(argv) PROVE CommandInv'
<1> DEFINE p == Parse(argv)
           asked == {"--version", "--help"} \cap p.flags
           begin(name, at, code) == NewRun(name, p, at, code, project)
           next == CASE p.name \in {"install", "update"} -> begin(p.name, "prepare", "none")
                     [] p.name \in {"uninstall", "doctor"} -> begin(p.name, "import", "none")
                     [] OTHER -> begin(p.name, "ended", "2")
<1>1. run' = CASE p.bad -> begin(p.name, "ended", "2")
               [] ~p.bad /\ asked # {} -> begin("none", "ended", "0")
               [] OTHER -> next
  BY Zenon DEF Start
<1>2. /\ source' = source /\ project' = project /\ failures' = failures
      /\ runs' \in 0..MaxRuns
  BY CommandAssumption DEF CommandAssumption, CommandInv, CommandTypeOK, Start
<1>3. /\ source' \in Directories /\ project \in Projects /\ failures' \in 0..MaxFailures
  BY <1>2 DEF CommandInv, CommandTypeOK
<1> HIDE DEF p
<1>4. \E name, at, code : JustBegun(name, p, at, code, project)
  <2>1. CASE p.bad
    <3>1. JustBegun(p.name, p, "ended", "2", project)
      BY <1>1, <2>1 DEF JustBegun
    <3>2. QED
      BY <3>1
  <2>2. CASE ~p.bad /\ asked # {}
    <3>1. JustBegun("none", p, "ended", "0", project)
      BY <1>1, <2>2 DEF JustBegun
    <3>2. QED
      BY <3>1
  <2>3. CASE ~p.bad /\ ~(asked # {})
    <3>1. run' = next
      BY <1>1, <2>3
    <3>2. CASE p.name \in {"install", "update"}
      <4>1. JustBegun(p.name, p, "prepare", "none", project)
        BY <3>1, <3>2 DEF JustBegun
      <4>2. QED
        BY <4>1
    <3>3. CASE p.name \in {"uninstall", "doctor"}
      <4>1. JustBegun(p.name, p, "import", "none", project)
        BY <3>1, <3>3 DEF JustBegun
      <4>2. QED
        BY <4>1
    <3>4. CASE p.name \notin {"install", "update", "uninstall", "doctor"}
      <4>1. JustBegun(p.name, p, "ended", "2", project)
        BY <3>1, <3>4 DEF JustBegun
      <4>2. QED
        BY <4>1
    <3>5. QED
      BY <3>2, <3>3, <3>4
  <2>4. QED
    BY <2>1, <2>2, <2>3
<1>5. QED
  BY <1>2, <1>3, <1>4, NewKeeps

\* The steps of a command one by one: each keeps CommandInv.
LEMMA LocateKeeps == ASSUME CommandInv, Locate PROVE CommandInv'
<1>1. ~Over /\ Installs /\ project = run.began /\ Bundle = source
  BY DEF CommandInv, RightSteps, NotYetWritten, Locate, At, Over, Bundle
<1>2. UNCHANGED <<source, project, runs>> /\ Well
  BY DEF Locate, Same
<1>3. CASE run.from = "default" /\ source.part["manifest"] = "missing"
  <2>1. ExitDue("2")
    BY <1>1, <1>3 DEF ExitDue, Codes, Unhindered, Perfect, Parts
  <2>2. Exit("2")
    BY <1>3 DEF Locate
  <2>3. QED
    BY <1>1, <1>2, <2>1, <2>2, ExitKeeps
<1>4. CASE ~(run.from = "default" /\ source.part["manifest"] = "missing")
  <2>1. Go("import")
    BY <1>4 DEF Locate
  <2>2. QED
    BY <1>1, <1>2, <2>1, GoKeeps DEF Steps
<1>5. QED
  BY <1>3, <1>4

LEMMA UnpackKeeps ==
    ASSUME CommandInv, NEW whole \in BOOLEAN, NEW directory \in Directories,
           Unpack(whole, directory)
    PROVE CommandInv'
<1>1. /\ ~Over /\ Installs /\ project = run.began /\ Bundle = NoDirectory
      /\ ~run.temp /\ run.code = "none"
  BY DEF CommandInv, RightSteps, NotYetWritten, Unpack, At, Over, Bundle
<1>2. UNCHANGED <<source, project, runs>> /\ run.from = "archive" /\ At("prepare")
  BY DEF Unpack, Same
<1>3. CASE /\ Well
           /\ run' = [run EXCEPT !.at = "import", !.private = directory, !.temp = TRUE]
  <2>1. Becomes("import", run.last, directory, TRUE, run.code, run.clean)
    BY <1>3 DEF CommandInv, CommandTypeOK, Becomes
  <2>2. CommandTypeOK'
    <3>1. CommandTypeOK /\ run.last \in Steps \cup {"none"} /\ run.code \in Codes
          /\ run.clean \in BOOLEAN /\ "import" \in Steps /\ TRUE \in BOOLEAN
          /\ project' \in Projects
      BY <1>2 DEF CommandInv, CommandTypeOK, Steps
    <3>2. source' = source /\ runs' = runs /\ (Failing \/ Well)
      BY <1>2, <1>3
    <3>3. QED
      BY <2>1, <3>1, <3>2, RunTyped
  <2>3. /\ run'.at = "import" /\ run'.name = run.name /\ run'.code = "none"
        /\ run'.began = run.began
    BY <1>1, <2>1 DEF Becomes
  <2>4. RightSteps' /\ NotYetWritten' /\ HashesHeld' /\ CopiesMade'
    BY <1>1, <1>2, <2>3 DEF RightSteps, NotYetWritten, HashesHeld, CopiesMade, CopiedBy, Copied,
       Over, At, Installs, Is
  <2>5. Results' /\ NoExtractLeft'
    BY <2>3 DEF Results, NoExtractLeft, Over, At
  <2>6. QED
    BY <2>2, <2>4, <2>5 DEF CommandInv
<1>4. CASE Well /\ Exit("2")
  <2>1. ~Unhindered
    BY <1>1 DEF Unhindered, Perfect, NoDirectory
  <2>2. QED
    BY <1>1, <1>2, <1>4, <2>1, ExitKeeps DEF ExitDue, Codes
<1>5. CASE /\ Failing
           /\ \E left \in BOOLEAN : run' = [Ended("2") EXCEPT !.clean = FALSE, !.temp = left]
  <2>1. PICK left \in BOOLEAN : run' = [Ended("2") EXCEPT !.clean = FALSE, !.temp = left]
    BY <1>5
  <2>2. Becomes("ended", run.at, run.private, left, "2", FALSE)
    BY <1>1, <2>1 DEF CommandInv, CommandTypeOK, Becomes, Ended
  <2>3. CommandTypeOK'
    <3>1. CommandTypeOK /\ run.at \in Steps \cup {"none"} /\ "2" \in Codes
          /\ FALSE \in BOOLEAN /\ "ended" \in Steps /\ run.private \in Directories
          /\ project' \in Projects
      BY <1>2 DEF CommandInv, CommandTypeOK, Steps, Codes
    <3>2. source' = source /\ runs' = runs /\ (Failing \/ Well)
      BY <1>2, <1>5
    <3>3. QED
      BY <2>2, <3>1, <3>2, RunTyped
  <2>4. /\ run'.at = "ended" /\ run'.code = "2" /\ run'.began = run.began /\ ~run'.clean
    BY <2>2 DEF Becomes
  <2>5. RightSteps' /\ NotYetWritten' /\ HashesHeld' /\ CopiesMade'
    BY <2>4 DEF RightSteps, NotYetWritten, HashesHeld, CopiesMade, CopiedBy, Copied, Over, At
  <2>6. Results' /\ NoExtractLeft'
    BY <1>1, <1>2, <2>4 DEF Results, NoExtractLeft, Over, Refused, Unhindered
  <2>7. QED
    BY <2>3, <2>5, <2>6 DEF CommandInv
<1>6. QED
  BY <1>3, <1>4, <1>5 DEF Unpack

LEMMA BundleTyped == ASSUME CommandTypeOK PROVE Bundle \in Directories
  BY DEF CommandTypeOK, Bundle

\* nothing stands in the way of importing the lifecycle of an undamaged bundle
LEMMA FirstLoads ==
    ASSUME Unhindered, NEW own, NEW home, NEW k \in DOMAIN Candidates(own, home),
           \A j \in 1..k - 1 : "next" \in Outcomes(Candidates(own, home)[j])
    PROVE Outcomes(Candidates(own, home)[k]) = {"loads"}
<1>1. Candidates(own, home) = <<Bundle.part["tree"], project.copy["tree"], home>>
  BY DEF Unhindered, Is, Candidates
<1>2. Bundle.part["tree"] = "good"
  BY DEF Unhindered, Perfect, Parts
<1>3. Candidates(own, home)[1] = "good" /\ k \in Nat \ {0}
  BY <1>1, <1>2
<1>4. Outcomes("good") = {"loads"}
  BY DEF Outcomes
<1>5. k = 1
  <2>1. SUFFICES ASSUME k # 1 PROVE FALSE
    OBVIOUS
  <2>2. 1 \in 1..k - 1
    BY <1>3, <2>1
  <2>3. QED
    BY <1>3, <1>4, <2>2
<1>6. QED
  BY <1>3, <1>4, <1>5

LEMMA ImportKeeps == ASSUME CommandInv, Import PROVE CommandInv'
<1>1. /\ ~Over /\ project = run.began /\ (Installs \/ Is("uninstall") \/ Is("doctor"))
      /\ UNCHANGED <<source, project, runs>> /\ Well
  BY DEF CommandInv, RightSteps, NotYetWritten, Import, At, Over, Same
<1> DEFINE next == CASE run.name \in {"install", "update"} -> "manifest"
                     [] Is("uninstall") -> "lock"
                     [] Is("doctor") -> "report"
           bad == IF run.name \in {"install", "update"} THEN "1" ELSE "threw"
<1>2. PICK own \in Homes, home \in Homes : \E k \in DOMAIN Candidates(own, home) :
          /\ \A j \in 1..k - 1 : "next" \in Outcomes(Candidates(own, home)[j])
          /\ \/ "loads" \in Outcomes(Candidates(own, home)[k]) /\ Go(next)
             \/ "throws" \in Outcomes(Candidates(own, home)[k]) /\ Exit(bad)
             \/ /\ k = Len(Candidates(own, home)) /\ "next" \in Outcomes(Candidates(own, home)[k])
                /\ Exit("1")
  BY Zenon DEF Import
<1>3. PICK k \in DOMAIN Candidates(own, home) :
          /\ \A j \in 1..k - 1 : "next" \in Outcomes(Candidates(own, home)[j])
          /\ \/ Go(next)
             \/ "throws" \in Outcomes(Candidates(own, home)[k]) /\ Exit(bad)
             \/ "next" \in Outcomes(Candidates(own, home)[k]) /\ Exit("1")
  BY <1>2
<1>4. CASE Go(next)
  <2>1. CASE Installs
    <3>1. run.name \in {"install", "update"}
      BY <2>1 DEF Installs
    <3>2. next = "manifest"
      BY <3>1 DEF Is
    <3>3. Go("manifest")
      BY <1>4, <3>2
    <3>4. QED
      BY <1>1, <2>1, <3>3, GoKeeps DEF Steps
  <2>2. CASE Is("uninstall")
    <3>1. Go("lock") /\ ~Installs
      BY <1>4, <2>2 DEF Is, Installs
    <3>2. QED
      BY <1>1, <2>2, <3>1, GoKeeps DEF Steps
  <2>3. CASE Is("doctor")
    <3>1. Go("report") /\ ~Installs
      BY <1>4, <2>3 DEF Is, Installs
    <3>2. QED
      BY <1>1, <2>3, <3>1, GoKeeps DEF Steps
  <2>4. QED
    BY <1>1, <2>1, <2>2, <2>3
<1>5. ASSUME NEW code \in {"1", "threw"}, Exit(code), ~Unhindered PROVE CommandInv'
  <2>1. ExitDue(code)
    BY <1>5 DEF ExitDue, Codes
  <2>2. QED
    BY <1>1, <1>5, <2>1, ExitKeeps
<1>6. Unhindered => Outcomes(Candidates(own, home)[k]) = {"loads"}
  BY <1>3, FirstLoads
<1>7. CASE "throws" \in Outcomes(Candidates(own, home)[k]) /\ Exit(bad)
  <2>1. bad \in {"1", "threw"}
    OBVIOUS
  <2>2. ~Unhindered
    BY <1>6, <1>7
  <2>3. QED
    BY <1>5, <1>7, <2>1, <2>2
<1>8. CASE "next" \in Outcomes(Candidates(own, home)[k]) /\ Exit("1")
  BY <1>5, <1>6, <1>8
<1>9. QED
  BY <1>3, <1>4, <1>7, <1>8

LEMMA ReadManifestKeeps == ASSUME CommandInv, ReadManifest PROVE CommandInv'
<1>1. ~Over /\ Installs /\ project = run.began /\ UNCHANGED <<source, project, runs>> /\ Well
  BY DEF CommandInv, RightSteps, NotYetWritten, ReadManifest, At, Over, Same
<1>2. CASE Bundle.part["manifest"] = "good" /\ Bundle.airGap
  <2>1. Go("hashes")
    BY <1>2 DEF ReadManifest
  <2>2. QED
    BY <1>1, <2>1, GoKeeps DEF Steps
<1>3. CASE ~(Bundle.part["manifest"] = "good" /\ Bundle.airGap)
  <2>1. Exit("3") /\ ~Unhindered
    BY <1>3 DEF ReadManifest, Unhindered, Perfect, Parts
  <2>2. QED
    BY <1>1, <2>1, ExitKeeps DEF ExitDue, Codes
<1>4. QED
  BY <1>2, <1>3

LEMMA CheckHashesKeeps == ASSUME CommandInv, CheckHashes PROVE CommandInv'
<1>1. ~Over /\ Installs /\ project = run.began /\ UNCHANGED <<source, project, runs>> /\ Well
  BY DEF CommandInv, RightSteps, NotYetWritten, CheckHashes, At, Over, Same
<1>2. CASE \A p \in {"dist"} \cup Bundle.listed : Bundle.part[p] = "good"
  <2>1. Go("lock")
    BY <1>2 DEF CheckHashes
  <2>2. QED
    BY <1>1, <1>2, <2>1, GoKeeps DEF Steps
<1>3. CASE ~(\A p \in {"dist"} \cup Bundle.listed : Bundle.part[p] = "good")
  <2>1. Bundle.listed \subseteq Parts
    BY BundleTyped DEF CommandInv, Directories
  <2>2. Exit("3") /\ ~Unhindered
    BY <1>3, <2>1 DEF CheckHashes, Unhindered, Perfect, Parts
  <2>3. QED
    BY <1>1, <2>2, ExitKeeps DEF ExitDue, Codes
<1>4. QED
  BY <1>2, <1>3

LEMMA TakeLockKeeps == ASSUME CommandInv, TakeLock PROVE CommandInv'
<1>1. /\ ~Over /\ (Installs \/ Is("uninstall")) /\ project = run.began
      /\ UNCHANGED <<source, project, runs>> /\ Well
  BY DEF CommandInv, RightSteps, NotYetWritten, TakeLock, At, Over, Same
<1>2. Installs /\ run.clean => \A p \in Bundle.listed : Bundle.part[p] = "good"
  BY DEF CommandInv, HashesHeld, TakeLock, At
<1>3. CASE Go("plan") /\ Is("install")
  <2>1. Installs
    BY <1>3 DEF Is, Installs
  <2>2. QED
    BY <1>1, <1>2, <1>3, <2>1, GoKeeps DEF Steps
<1>4. CASE Go("decide")
  BY <1>1, <1>2, <1>4, GoKeeps DEF Steps
<1>5. CASE Exit("5")
  <2>1. ExitDue("5")
    BY DEF ExitDue, Codes, TakeLock
  <2>2. QED
    BY <1>1, <1>5, <2>1, ExitKeeps
<1>6. QED
  BY <1>3, <1>4, <1>5 DEF TakeLock

LEMMA MakePlanKeeps == ASSUME CommandInv, MakePlan PROVE CommandInv'
<1>1. ~Over /\ Installs /\ project = run.began /\ UNCHANGED <<source, project, runs>> /\ Well
  BY DEF CommandInv, RightSteps, NotYetWritten, MakePlan, At, Over, Same
<1>2. Installs /\ run.clean => \A p \in Bundle.listed : Bundle.part[p] = "good"
  BY DEF CommandInv, HashesHeld, MakePlan, At
<1>3. CASE "missing" \in {Bundle.part["tarball"], Bundle.part["templates"]}
  <2>1. Exit("1") /\ ~Unhindered
    BY <1>3 DEF MakePlan, Unhindered, Perfect, Parts
  <2>2. QED
    BY <1>1, <2>1, ExitKeeps DEF ExitDue, Codes
<1>4. CASE "missing" \notin {Bundle.part["tarball"], Bundle.part["templates"]}
  <2>1. Go("decide") \/ Go("tarball")
    BY <1>4 DEF MakePlan
  <2>2. QED
    BY <1>1, <1>2, <2>1, GoKeeps DEF Steps
<1>5. QED
  BY <1>3, <1>4

LEMMA DecideKeeps == ASSUME CommandInv, DecideInstall \/ DecideUpdate PROVE CommandInv'
<1>1. /\ ~Over /\ Installs /\ project = run.began /\ UNCHANGED <<source, project, runs>> /\ Well
      /\ At("decide")
  BY DEF CommandInv, NotYetWritten, DecideInstall, DecideUpdate, At, Over, Same, Installs, Is
<1>2. Installs /\ run.clean => \A p \in Bundle.listed : Bundle.part[p] = "good"
  BY <1>1 DEF CommandInv, HashesHeld, At
<1>3. ASSUME NEW step \in {"plan", "tarball"}, Go(step) PROVE CommandInv'
  BY <1>1, <1>2, <1>3, GoKeeps DEF Steps
<1>4. ASSUME NEW code \in {"0", "2", "4"}, Exit(code), ~Unhindered,
             code = "0" => project.stamp = "same" \/ Has("--dry-run")
      PROVE CommandInv'
  <2>1. ExitDue(code)
    BY <1>1, <1>4 DEF ExitDue, Codes, NothingToDo
  <2>2. QED
    BY <1>1, <1>4, <2>1, ExitKeeps
<1>5. CASE DecideInstall
  <2>1. CASE project.stamp = "same" /\ ~Has("--force")
    <3>1. Exit("0") /\ ~Unhindered
      BY <1>1, <1>5, <2>1 DEF DecideInstall, Unhindered, NoProject
    <3>2. QED
      BY <1>4, <2>1, <3>1
  <2>2. CASE project.stamp # "same" /\ ~Has("--force") /\ project.copy["templates"] = "old"
    <3>1. Exit("4") /\ ~Unhindered
      BY <1>1, <1>5, <2>2 DEF DecideInstall, Unhindered, NoProject, Copied
    <3>2. QED
      BY <1>4, <3>1
  <2>3. CASE /\ ~(project.stamp = "same" /\ ~Has("--force"))
             /\ ~(project.stamp # "same" /\ ~Has("--force") /\ project.copy["templates"] = "old")
    <3>1. IF Has("--dry-run") THEN Exit("0") ELSE Go("tarball")
      BY <1>5, <2>3 DEF DecideInstall
    <3>2. Has("--dry-run") => ~Unhindered
      BY DEF Unhindered
    <3>3. QED
      BY <1>3, <1>4, <3>1, <3>2
  <2>4. QED
    BY <2>1, <2>2, <2>3
<1>6. CASE DecideUpdate
  <2>1. ~Unhindered
    BY <1>6 DEF DecideUpdate, Is, Unhindered
  <2>2. \/ Exit("4")
        \/ Exit("0") /\ (project.stamp = "same" \/ Has("--dry-run"))
        \/ Exit("2")
        \/ Go("plan")
    BY <1>6 DEF DecideUpdate
  <2>3. QED
    BY <1>3, <1>4, <2>1, <2>2
<1>7. QED
  BY <1>5, <1>6

LEMMA PutTyped ==
    ASSUME project \in Projects, NEW p \in Copied,
           NEW content \in {"none", "old", "partial", "good", "bad"}, Put(p, content)
    PROVE /\ project' \in Projects /\ project'.stamp = project.stamp
          /\ \A q \in Copied : project'.copy[q] = IF q = p THEN content ELSE project.copy[q]
  BY DEF Projects, Put

LEMMA GoTyped ==
    ASSUME CommandInv, NEW step \in Steps, Go(step), source' = source, runs' = runs,
           project' \in Projects, Failing \/ Well
    PROVE CommandTypeOK'
<1>1. Becomes(step, run.last, run.private, run.temp, run.code, run.clean)
  BY GoBecomes DEF CommandInv
<1>2. /\ CommandTypeOK /\ run.last \in Steps \cup {"none"} /\ run.private \in Directories
      /\ run.temp \in BOOLEAN /\ run.code \in Codes /\ run.clean \in BOOLEAN
  BY DEF CommandInv, CommandTypeOK
<1>3. QED
  BY <1>1, <1>2, RunTyped

LEMMA CopyKeeps ==
    ASSUME CommandInv, NEW p \in {"tarball", "templates"}, Copy(p)
    PROVE CommandInv'
<1>1. /\ ~Over /\ Installs /\ At(p) /\ UNCHANGED <<source, runs>> /\ Well
  BY DEF CommandInv, RightSteps, Copy, At, Over
<1>2. project.copy[p] = run.began.copy[p]
  BY <1>1 DEF CommandInv, NotYetWritten, At
<1>3. CASE Bundle.part[p] = "missing"
  <2>1. Exit("1") /\ UNCHANGED project /\ ~Unhindered
    BY <1>3 DEF Copy, Unhindered, Perfect, Parts
  <2>2. QED
    BY <1>1, <2>1, ExitKeeps DEF ExitDue, Codes
<1>4. CASE Bundle.part[p] # "missing" /\ project.copy[p] # "none" /\ ~Replaces(p)
  <2>1. Exit("5") /\ UNCHANGED project
    BY <1>4 DEF Copy
  <2>2. ~Unhindered
    BY <1>2, <1>4 DEF Unhindered, Replaces, NoProject, Copied
  <2>3. QED
    BY <1>1, <2>1, <2>2, ExitKeeps DEF ExitDue, Codes
<1>5. CASE /\ Bundle.part[p] # "missing"
           /\ ~(project.copy[p] # "none" /\ ~Replaces(p))
  <2> DEFINE step == IF p = "tarball" THEN "templates" ELSE "tree"
  <2>1. Put(p, Bundle.part[p]) /\ Go(step)
    BY <1>5 DEF Copy
  <2>2. Bundle.part[p] \in {"good", "bad"} /\ p \in Copied
    BY <1>5, BundleTyped DEF CommandInv, Directories, Parts, Copied
  <2>3. /\ project' \in Projects
        /\ \A q \in Copied : project'.copy[q] = IF q = p THEN Bundle.part[p] ELSE project.copy[q]
    BY <2>1, <2>2, PutTyped DEF CommandInv, CommandTypeOK
  <2>4. Becomes(step, run.last, run.private, run.temp, run.code, run.clean)
    BY <2>1, GoBecomes DEF CommandInv
  <2>5. CommandTypeOK'
    BY <1>1, <2>1, <2>3, GoTyped DEF Steps
  <2>6. /\ Bundle' = Bundle /\ run.name' = run.name /\ run.flags' = run.flags
        /\ run.began' = run.began /\ run'.at = step
        /\ run'.code = run.code /\ run'.clean = run.clean
    BY <1>1, <2>4, SameBundle
  <2>7. RightSteps'
    BY <1>1, <2>6 DEF CommandInv, RightSteps, Over, At, Installs, Is
  <2>8. NotYetWritten'
    BY <1>1, <2>3, <2>6 DEF CommandInv, NotYetWritten, At, Copied
  <2>9. HashesHeld'
    BY <1>1, <2>6 DEF CommandInv, HashesHeld, Installs, At
  <2>10. CopiesMade'
    BY <1>1, <2>2, <2>3, <2>6 DEF CommandInv, CopiesMade, CopiedBy, Copied, At
  <2>11. Results' /\ NoExtractLeft'
    BY <2>6 DEF Results, NoExtractLeft, Over, At
  <2>12. QED
    BY <2>5, <2>7, <2>8, <2>9, <2>10, <2>11 DEF CommandInv
<1>6. QED
  BY <1>3, <1>4, <1>5

LEMMA ClearTreeKeeps == ASSUME CommandInv, ClearTree PROVE CommandInv'
<1>1. /\ ~Over /\ Installs /\ At("tree") /\ UNCHANGED <<source, runs>> /\ Well
  BY DEF CommandInv, RightSteps, ClearTree, At, Over
<1>2. project.copy["tree"] = run.began.copy["tree"]
  BY <1>1 DEF CommandInv, NotYetWritten, At
<1>3. CASE Bundle.part["tree"] = "missing"
  <2>1. Exit("3") /\ UNCHANGED project /\ ~Unhindered
    BY <1>3 DEF ClearTree, Unhindered, Perfect, Parts
  <2>2. QED
    BY <1>1, <2>1, ExitKeeps DEF ExitDue, Codes
<1>4. CASE Bundle.part["tree"] # "missing" /\ project.copy["tree"] # "none" /\ ~Replaces("tree")
  <2>1. Exit("5") /\ UNCHANGED project
    BY <1>4 DEF ClearTree
  <2>2. ~Unhindered
    BY <1>2, <1>4 DEF Unhindered, Replaces, NoProject, Copied
  <2>3. QED
    BY <1>1, <2>1, <2>2, ExitKeeps DEF ExitDue, Codes
<1>5. CASE /\ Bundle.part["tree"] # "missing"
           /\ ~(project.copy["tree"] # "none" /\ ~Replaces("tree"))
  <2>1. Put("tree", "none") /\ Go("copyTree")
    BY <1>5 DEF ClearTree
  <2>2. /\ project' \in Projects
        /\ \A q \in Copied : project'.copy[q] = IF q = "tree" THEN "none" ELSE project.copy[q]
    BY <2>1, PutTyped DEF CommandInv, CommandTypeOK, Copied
  <2>3. Becomes("copyTree", run.last, run.private, run.temp, run.code, run.clean)
    BY <2>1, GoBecomes DEF CommandInv
  <2>4. CommandTypeOK'
    BY <1>1, <2>1, <2>2, GoTyped DEF Steps
  <2>5. /\ Bundle' = Bundle /\ run.name' = run.name /\ run'.at = "copyTree"
        /\ run'.code = run.code /\ run'.clean = run.clean
    BY <1>1, <2>3, SameBundle
  <2>6. RightSteps' /\ NotYetWritten' /\ HashesHeld'
    BY <1>1, <2>2, <2>5 DEF CommandInv, RightSteps, NotYetWritten, HashesHeld, Over, At,
       Installs, Is, Copied
  <2>7. CopiesMade'
    BY <1>1, <2>2, <2>5 DEF CommandInv, CopiesMade, CopiedBy, Copied, At
  <2>8. Results' /\ NoExtractLeft'
    BY <2>5 DEF Results, NoExtractLeft, Over, At
  <2>9. QED
    BY <2>4, <2>6, <2>7, <2>8 DEF CommandInv
<1>6. QED
  BY <1>3, <1>4, <1>5

LEMMA CopyTreeKeeps == ASSUME CommandInv, CopyTree PROVE CommandInv'
<1>1. /\ ~Over /\ Installs /\ At("copyTree") /\ UNCHANGED <<source, runs>>
  BY DEF CommandInv, RightSteps, CopyTree, At, Over
<1>2. project \in Projects
  BY DEF CommandInv, CommandTypeOK
<1>3. CASE /\ Bundle.part["tree"] # "missing"
           /\ Put("tree", Bundle.part["tree"]) /\ Go("smoke") /\ Well
  <2>1. Bundle.part["tree"] \in {"good", "bad"} /\ "tree" \in Copied
    BY <1>3, BundleTyped DEF CommandInv, Directories, Parts, Copied
  <2>2. /\ project' \in Projects
        /\ \A q \in Copied : project'.copy[q] = IF q = "tree" THEN Bundle.part["tree"]
                                                  ELSE project.copy[q]
    BY <1>2, <1>3, <2>1, PutTyped
  <2>3. Becomes("smoke", run.last, run.private, run.temp, run.code, run.clean)
    BY <1>3, GoBecomes DEF CommandInv
  <2>4. CommandTypeOK'
    BY <1>1, <1>3, <2>2, GoTyped DEF Steps
  <2>5. /\ Bundle' = Bundle /\ run.name' = run.name /\ run'.at = "smoke"
        /\ run'.code = run.code /\ run'.clean = run.clean
    BY <1>1, <2>3, SameBundle
  <2>6. RightSteps' /\ NotYetWritten' /\ HashesHeld'
    BY <1>1, <2>5 DEF CommandInv, RightSteps, NotYetWritten, HashesHeld, Over, At, Installs, Is
  <2>7. CopiesMade'
    BY <1>1, <2>1, <2>2, <2>5 DEF CommandInv, CopiesMade, CopiedBy, Copied, At
  <2>8. Results' /\ NoExtractLeft'
    BY <2>5 DEF Results, NoExtractLeft, Over, At
  <2>9. QED
    BY <2>4, <2>6, <2>7, <2>8 DEF CommandInv
<1>4. CASE /\ Bundle.part["tree"] = "missing" \/ project.copy["tree"] # "none"
           /\ Exit("5") /\ Well /\ UNCHANGED project
  <2>1. ~Unhindered
    BY <1>1, <1>4 DEF CommandInv, NotYetWritten, Unhindered, Perfect, Parts
  <2>2. QED
    BY <1>1, <1>4, <2>1, ExitKeeps DEF ExitDue, Codes
<1>5. CASE Failing /\ Put("tree", "partial") /\ run' = [Ended("5") EXCEPT !.clean = FALSE]
  <2>1. project' \in Projects
    BY <1>2, <1>5, PutTyped DEF Copied
  <2>2. Becomes(ExitStep, run.at, run.private, run.temp, "5", FALSE)
    BY <1>5, FailBecomes DEF CommandInv
  <2>3. ExitStep \in {"cleanup", "ended"} /\ run.at \in Steps /\ run.temp \in BOOLEAN
    BY DEF ExitStep, CommandInv, CommandTypeOK
  <2>4. QED
    BY <1>1, <1>5, <2>1, <2>2, <2>3, UncleanKeeps
<1>6. QED
  BY <1>3, <1>4, <1>5 DEF CopyTree

LEMMA SmokeKeeps == ASSUME CommandInv, Smoke PROVE CommandInv'
<1>1. ~Over /\ Installs /\ At("smoke") /\ UNCHANGED <<source, project, runs>> /\ Well
  BY DEF CommandInv, RightSteps, Smoke, At, Over, Same
<1>2. \A p \in Copied : project.copy[p] \in {"good", "bad"}
                        /\ (run.clean => project.copy[p] = Bundle.part[p])
  BY <1>1 DEF CommandInv, CopiesMade, CopiedBy, Copied, At
<1>3. CASE Go("stamp")
  <2>1. run.clean => \A p \in Bundle.listed : Bundle.part[p] = "good"
    BY <1>1 DEF CommandInv, HashesHeld, At
  <2>2. QED
    BY <1>1, <1>2, <1>3, <2>1, GoKeeps DEF Steps
<1>4. CASE project.copy["tree"] # "good" /\ Exit("5")
  <2>1. ~Unhindered
    BY <1>2, <1>4 DEF Unhindered, Perfect, Parts, Copied
  <2>2. QED
    BY <1>1, <1>4, <2>1, ExitKeeps DEF ExitDue, Codes
<1>5. QED
  BY <1>3, <1>4 DEF Smoke

\* the lock cannot be removed: the command fails after it has done everything
LEMMA ReleaseThrowsKeeps ==
    ASSUME CommandInv, ReleaseThrows, UNCHANGED <<source, runs>>, project' \in Projects
    PROVE CommandInv'
<1>1. Failing /\ Becomes(ExitStep, run.at, run.private, run.temp, "1", FALSE)
  BY FailBecomes DEF ReleaseThrows, CommandInv
<1>2. ExitStep \in {"cleanup", "ended"} /\ run.at \in Steps /\ run.temp \in BOOLEAN
  BY DEF ExitStep, CommandInv, CommandTypeOK
<1>3. QED
  BY <1>1, <1>2, UncleanKeeps

\* the end of an install: everything is in its place
LEMMA WriteStampKeeps ==
    ASSUME CommandInv, WriteStamp, LockReleased
    PROVE CommandInv'
<1>1. /\ ~Over /\ Installs /\ At("stamp") /\ UNCHANGED <<source, runs>> /\ Well /\ Exit("0")
      /\ project' = [project EXCEPT !.stamp = "same"]
  BY DEF CommandInv, RightSteps, WriteStamp, LockReleased, At, Over
<1>2. \A p \in Copied : project.copy[p] \in {"good", "bad"}
                        /\ (run.clean => project.copy[p] = Bundle.part[p])
  BY <1>1 DEF CommandInv, CopiesMade, CopiedBy, Copied, At
<1>3. run.clean => \A p \in Bundle.listed : Bundle.part[p] = "good"
  BY <1>1 DEF CommandInv, HashesHeld, At
<1>4. project' \in Projects /\ project'.stamp = "same" /\ project'.copy = project.copy
  BY <1>1 DEF CommandInv, CommandTypeOK, Projects
<1>5. Becomes(ExitStep, run.at, run.private, run.temp, "0", run.clean)
  BY <1>1, ExitBecomes DEF CommandInv
<1>6. ExitStep \in {"cleanup", "ended"}
  BY DEF ExitStep
<1>7. /\ CommandTypeOK /\ ExitStep \in Steps /\ run.at \in Steps /\ run.temp \in BOOLEAN
      /\ run.private \in Directories /\ run.clean \in BOOLEAN /\ "0" \in Codes
  BY <1>6 DEF CommandInv, CommandTypeOK, Steps, Codes
<1>8. CommandTypeOK'
  BY <1>1, <1>4, <1>5, <1>7, RunTyped
<1>9. /\ Bundle' = Bundle /\ run.name' = run.name /\ run.flags' = run.flags
      /\ run.began' = run.began /\ run'.at = ExitStep /\ run'.code = "0"
      /\ run'.clean = run.clean /\ run'.temp = run.temp
  BY <1>1, <1>5, SameBundle
<1>10. RightSteps' /\ NotYetWritten' /\ HashesHeld' /\ CopiesMade'
  BY <1>6, <1>9 DEF RightSteps, NotYetWritten, HashesHeld, CopiesMade, CopiedBy, Over, At, Copied
<1>11. AllInPlace'
  BY <1>2, <1>3, <1>4, <1>9 DEF AllInPlace
<1>12. Unhindered' => Intact'
  BY <1>2, <1>4, <1>9 DEF Unhindered, Perfect, Intact, Parts, Copied
<1>13. Results'
  BY <1>9, <1>11, <1>12 DEF Results, Refused
<1>14. NoExtractLeft'
  BY <1>7, <1>9 DEF NoExtractLeft, ExitStep, At
<1>15. QED
  BY <1>8, <1>10, <1>13, <1>14 DEF CommandInv

LEMMA RemoveFilesKeeps == ASSUME CommandInv, RemoveFiles PROVE CommandInv'
<1>1. /\ ~Over /\ Is("uninstall") /\ ~Installs /\ UNCHANGED <<source, runs>> /\ Well
  BY DEF CommandInv, RemoveFiles, At, Over, Is, Installs
<1>2. CASE project.stamp = "none" \/ Has("--dry-run")
  <2>1. Exit("0") /\ UNCHANGED project
    BY <1>2 DEF RemoveFiles
  <2>2. ~Unhindered
    BY <1>1 DEF Unhindered, Is
  <2>3. QED
    BY <1>1, <2>1, <2>2, ExitKeeps DEF ExitDue, Codes
<1>3. CASE ~(project.stamp = "none" \/ Has("--dry-run"))
  <2>1. project \in Projects
    BY DEF CommandInv, CommandTypeOK
  <2> DEFINE stamped == IF project.stamp = "same" THEN {"good", "bad"} ELSE {"old"}
  <2>2. project' = [project EXCEPT
             !.copy = [p \in Copied |-> IF @[p] \in stamped THEN "none" ELSE @[p]]]
    BY <1>3, Zenon DEF RemoveFiles
  <2> HIDE DEF stamped
  <2>3. project' \in Projects
    BY <2>1, <2>2 DEF Projects
  <2>4. Go("unstamp")
    BY <1>3, Zenon DEF RemoveFiles
  <2>5. Becomes("unstamp", run.last, run.private, run.temp, run.code, run.clean)
    BY <2>4, GoBecomes DEF CommandInv
  <2>6. CommandTypeOK'
    BY <1>1, <2>3, <2>4, GoTyped DEF Steps
  <2>7. run'.name = run.name /\ run'.at = "unstamp" /\ run'.code = run.code
    BY <1>1, <2>5, SameBundle
  <2>8. RightSteps' /\ NotYetWritten' /\ HashesHeld' /\ CopiesMade'
    BY <1>1, <2>7 DEF CommandInv, RightSteps, NotYetWritten, HashesHeld, CopiesMade, CopiedBy,
       Copied, Over, At, Installs, Is
  <2>9. Results' /\ NoExtractLeft'
    BY <2>7 DEF Results, NoExtractLeft, Over, At
  <2>10. QED
    BY <2>6, <2>8, <2>9 DEF CommandInv
<1>4. QED
  BY <1>2, <1>3

LEMMA DropStampKeeps ==
    ASSUME CommandInv, DropStamp, LockReleased
    PROVE CommandInv'
<1>1. /\ ~Over /\ Is("uninstall") /\ UNCHANGED <<source, runs>> /\ Well /\ Exit("0")
      /\ project' = [project EXCEPT !.stamp = "none"]
  BY DEF CommandInv, RightSteps, DropStamp, LockReleased, At, Over
<1>2. project' \in Projects
  BY <1>1 DEF CommandInv, CommandTypeOK, Projects
<1>3. Becomes(ExitStep, run.at, run.private, run.temp, "0", run.clean)
  BY <1>1, ExitBecomes DEF CommandInv
<1>4. ExitStep \in {"cleanup", "ended"}
  BY DEF ExitStep
<1>5. /\ CommandTypeOK /\ ExitStep \in Steps /\ run.at \in Steps /\ run.temp \in BOOLEAN
      /\ run.private \in Directories /\ run.clean \in BOOLEAN /\ "0" \in Codes
  BY <1>4 DEF CommandInv, CommandTypeOK, Steps, Codes
<1>6. CommandTypeOK'
  BY <1>1, <1>2, <1>3, <1>5, RunTyped
<1>7. /\ run'.name = run.name /\ run'.at = ExitStep /\ run'.code = "0" /\ run'.temp = run.temp
  BY <1>1, <1>3, SameBundle
<1>8. RightSteps' /\ NotYetWritten' /\ HashesHeld' /\ CopiesMade'
  BY <1>4, <1>7 DEF RightSteps, NotYetWritten, HashesHeld, CopiesMade, CopiedBy, Over, At, Copied
<1>9. Results'
  BY <1>1, <1>7 DEF Results, Refused, Installs, Unhindered, Is
<1>10. NoExtractLeft'
  BY <1>5, <1>7 DEF NoExtractLeft, ExitStep, At
<1>11. QED
  BY <1>6, <1>8, <1>9, <1>10 DEF CommandInv

LEMMA StampKeeps == ASSUME CommandInv, WriteStamp \/ DropStamp PROVE CommandInv'
<1>1. CASE LockReleased
  BY <1>1, WriteStampKeeps, DropStampKeeps
<1>2. CASE ReleaseThrows
  <2>1. UNCHANGED <<source, runs>> /\ project' \in Projects
    BY DEF WriteStamp, DropStamp, CommandInv, CommandTypeOK, Projects
  <2>2. QED
    BY <1>2, <2>1, ReleaseThrowsKeeps
<1>3. QED
  BY <1>1, <1>2 DEF WriteStamp, DropStamp

LEMMA ReportKeeps == ASSUME CommandInv, Report PROVE CommandInv'
<1>1. ~Over /\ Is("doctor") /\ UNCHANGED <<source, project, runs>> /\ Well
  BY DEF CommandInv, RightSteps, Report, At, Over, Same
<1>2. PICK code \in {"0", "1"} : Exit(code)
  BY DEF Report
<1>3. ~Installs /\ ~Unhindered
  BY <1>1 DEF Installs, Unhindered, Is
<1>4. ExitDue(code)
  BY <1>3 DEF ExitDue, Codes
<1>5. QED
  BY <1>1, <1>2, <1>4, ExitKeeps

LEMMA StepFailsKeeps == ASSUME CommandInv, StepFails PROVE CommandInv'
<1>1. PICK code \in {"1", "5"} : run' = [Ended(code) EXCEPT !.clean = FALSE]
  BY DEF StepFails
<1>2. UNCHANGED <<source, project, runs>> /\ Failing
  BY DEF StepFails, Same
<1>3. Becomes(ExitStep, run.at, run.private, run.temp, code, FALSE)
  BY <1>1, FailBecomes DEF CommandInv
<1>4. /\ ExitStep \in {"cleanup", "ended"} /\ run.at \in Steps /\ run.temp \in BOOLEAN
      /\ project' \in Projects
  BY <1>2 DEF ExitStep, CommandInv, CommandTypeOK
<1>5. QED
  BY <1>2, <1>3, <1>4, UncleanKeeps

LEMMA CleanupKeeps == ASSUME CommandInv, Cleanup PROVE CommandInv'
<1>1. At("cleanup") /\ UNCHANGED <<source, project, runs>>
  BY DEF Cleanup, Same
<1>2. CASE run' = [run EXCEPT !.at = "ended", !.temp = FALSE] /\ Well
  <2>1. Becomes("ended", run.last, run.private, FALSE, run.code, run.clean)
    BY <1>2 DEF CommandInv, CommandTypeOK, Becomes
  <2>2. /\ CommandTypeOK /\ "ended" \in Steps /\ run.last \in Steps \cup {"none"}
        /\ FALSE \in BOOLEAN /\ run.private \in Directories /\ run.clean \in BOOLEAN
        /\ run.code \in Codes /\ project' \in Projects
    BY <1>1 DEF CommandInv, CommandTypeOK, Steps
  <2>3. CommandTypeOK'
    BY <1>1, <1>2, <2>1, <2>2, RunTyped
  <2>4. /\ Bundle' = Bundle /\ run.name' = run.name /\ run.flags' = run.flags
        /\ run.began' = run.began /\ run'.at = "ended" /\ run'.last = run.last
        /\ run'.code = run.code /\ run'.clean = run.clean /\ run'.temp = FALSE
    BY <1>1, <2>1, SameBundle
  <2>5. RightSteps' /\ NotYetWritten' /\ HashesHeld' /\ CopiesMade' /\ NoExtractLeft'
    BY <2>4 DEF RightSteps, NotYetWritten, HashesHeld, CopiesMade, CopiedBy, Over, At, Copied,
       NoExtractLeft
  <2>6. Over /\ Over'
    BY <1>1, <2>4 DEF Over, At
  <2>7. Results'
    BY <1>1, <2>4, <2>6 DEF CommandInv, Results, Locked, NothingToDo, AllInPlace, Intact,
       Unhindered, Refused, Installs, Is, Has
  <2>8. QED
    BY <2>3, <2>5, <2>7 DEF CommandInv
<1>3. CASE Failing /\ run' = [run EXCEPT !.at = "ended", !.clean = FALSE, !.code = "threw"]
  <2>1. Becomes("ended", run.last, run.private, run.temp, "threw", FALSE)
    BY <1>3 DEF CommandInv, CommandTypeOK, Becomes
  <2>2. /\ run.last \in Steps \cup {"none"} /\ run.temp \in BOOLEAN /\ project' \in Projects
    BY <1>1 DEF CommandInv, CommandTypeOK
  <2>3. QED
    BY <1>1, <1>3, <2>1, <2>2, UncleanKeeps
<1>4. QED
  BY <1>2, <1>3 DEF Cleanup

LEMMA CommandDiesKeeps == ASSUME CommandInv, CommandDies PROVE CommandInv'
<1>1. Failing /\ UNCHANGED <<source, project, runs>>
  BY DEF CommandDies, Same
<1>2. Becomes("ended", run.at, run.private, run.temp, "died", FALSE)
  BY DEF CommandDies, CommandInv, CommandTypeOK, Becomes
<1>3. run.at \in Steps /\ run.temp \in BOOLEAN /\ project' \in Projects
  BY <1>1 DEF CommandInv, CommandTypeOK
<1>4. QED
  BY <1>1, <1>2, <1>3, UncleanKeeps

LEMMA NoRunKeeps ==
    ASSUME CommandInv, run' = NoRun, project' = project, runs' = runs,
           source' \in Directories, failures' \in 0..MaxFailures
    PROVE CommandInv'
<1>1. JustBegun("none", NothingParsed, "ended", "none", NoProject)
  BY DEF JustBegun, NoRun
<1>2. NoProject \in Projects /\ project' \in Projects /\ runs' \in 0..MaxRuns
  BY DEF NoProject, Projects, CommandInv, CommandTypeOK
<1>3. QED
  BY <1>1, <1>2, NewKeeps

LEMMA SourceChangesKeeps ==
    ASSUME CommandInv, NEW p \in Parts, NEW condition \in {"bad", "missing"},
           SourceChanges(p, condition)
    PROVE CommandInv'
<1>1. source' \in Directories
  BY DEF SourceChanges, CommandInv, CommandTypeOK, Directories
<1>2. UNCHANGED <<project, runs>> /\ Failing /\ failures' \in 0..MaxFailures
  BY SpentTyped DEF SourceChanges, CommandInv
<1>3. CASE At("ended")
  BY <1>1, <1>2, <1>3, NoRunKeeps DEF SourceChanges
<1>4. CASE ~At("ended")
  <2>1. run' = [run EXCEPT !.clean = FALSE]
    BY <1>4 DEF SourceChanges
  <2>2. Becomes(run.at, run.last, run.private, run.temp, run.code, FALSE)
    BY <2>1 DEF CommandInv, CommandTypeOK, Becomes
  <2>3. CommandTypeOK'
    BY <1>1, <1>2, <2>2 DEF CommandInv, CommandTypeOK, Becomes
  <2>4. /\ run'.at = run.at /\ run'.last = run.last /\ run'.private = run.private
        /\ run'.name = run.name /\ run'.flags = run.flags /\ run'.code = run.code
        /\ run'.began = run.began /\ run'.temp = run.temp /\ run'.clean = FALSE
    BY <2>2 DEF Becomes
  <2>5. RightSteps'
    BY <2>4 DEF CommandInv, RightSteps, Over, At, Installs, Is
  <2>6. NotYetWritten'
    BY <1>2, <2>4 DEF CommandInv, NotYetWritten, At
  <2>7. HashesHeld'
    BY <2>4 DEF HashesHeld
  <2>8. CopiesMade'
    BY <1>2, <2>4 DEF CommandInv, CopiesMade
  <2>9. Results'
    BY <1>2, <2>4 DEF CommandInv, Results, NothingToDo, AllInPlace, Unhindered, Refused, Over,
       Installs, Is, Has
  <2>10. NoExtractLeft'
    BY <2>4 DEF NoExtractLeft
  <2>11. QED
    BY <2>3, <2>5, <2>6, <2>7, <2>8, <2>9, <2>10 DEF CommandInv
<1>5. QED
  BY <1>3, <1>4

LEMMA CommandKeeps == ASSUME CommandInv, CommandNext PROVE CommandInv'
  BY StartKeeps, LocateKeeps, ImportKeeps, ReadManifestKeeps, CheckHashesKeeps, TakeLockKeeps,
     MakePlanKeeps, DecideKeeps, CopyKeeps, ClearTreeKeeps, CopyTreeKeeps, SmokeKeeps,
     StampKeeps, RemoveFilesKeeps, ReportKeeps, StepFailsKeeps,
     CleanupKeeps, CommandDiesKeeps, SourceChangesKeeps DEF CommandNext

--------------------------------------------------------------------------------
(* Verifications and commands beside the builds.                             *)

\* what a bundle directory made of a bundle is, and that it installs if the bundle is honest
LEMMA DirectoryTyped ==
    ASSUME NEW bundle \in Bundles, NEW listed \in SUBSET Parts
    PROVE Directory(bundle, listed) \in Directories
  BY DEF Directory, Directories, Bundles, Modules, Parts

LEMMA DirectoryPerfect ==
    ASSUME NEW bundle, NEW listed, bundle.works, bundle.airGap = TRUE, Honest(bundle)
    PROVE Perfect(Directory(bundle, listed))
  BY DEF Directory, Perfect, Honest, Parts

LEMMA ListingsOfParts == \A listed \in Listings : listed \subseteq Parts
  BY CommandAssumption DEF CommandAssumption, Parts

\* What a command can rely on does not depend on what others do.
LEMMA CommandUntouched ==
    ASSUME CommandInv, UNCHANGED <<source, project, run, runs>>, failures' \in 0..MaxFailures
    PROVE CommandInv'
<1>1. CommandTypeOK'
  BY DEF CommandInv, CommandTypeOK
<1>2. RightSteps' /\ NotYetWritten' /\ HashesHeld' /\ CopiesMade' /\ Results' /\ NoExtractLeft'
  BY DEF CommandInv, RightSteps, NotYetWritten, HashesHeld, CopiesMade, Results, NoExtractLeft,
     Over, At, Is, Has, Installs, Bundle, NothingToDo, AllInPlace, Refused, Unhindered, Intact,
     Locked
<1>3. QED
  BY <1>1, <1>2 DEF CommandInv

\* what BundleInv says beside the types and the commands
Numbers == SerialsGrow /\ OneBundleEach /\ CheckSound

LEMMA BundleParts ==
    BundleInv <=> /\ ReleaseTypeOK /\ BundleTypeOK /\ CommandInv /\ Numbers
                  /\ (Checking("ended") /\ check.temp => ~check.sound)
  BY DEF BundleInv, Numbers, NoTempLeft, CommandInv

LEMMA BundleBuilt ==
    ASSUME ReleaseTypeOK', BundleTypeOK', CommandInv', Numbers',
           (Checking("ended") /\ check.temp => ~check.sound)'
    PROVE BundleInv'
  BY BundleParts, PTL

LEMMA ArchiveTyped ==
    ASSUME ReleaseTypeOK
    PROVE /\ archive \in Archives /\ archive.serial \in 0..MaxBuilds /\ archive.bundle \in Bundles
          /\ builds \in 0..MaxBuilds /\ assembled \in Bundles /\ archive.serial \in Int
          /\ builds \in Int
  BY ReleaseAssumption DEF ReleaseAssumption, ReleaseTypeOK, Archives

\* A build: a new archive has a number that nothing else has.
LEMMA BuildNumbers ==
    ASSUME ReleaseInv, ReleaseNext
    PROVE /\ OpenArchive \/ (archive'.serial = archive.serial /\ archive'.bundle = archive.bundle)
          /\ builds' >= builds
  BY ArchiveTyped DEF ReleaseInv, ReleaseNext, Materialize, NpmInstall, NpmList, ReuseRemoves,
     ReuseCopies, ReusePrunes, ReuseLists, StartBuild, Assemble, FillArchive, WriteSums, BuildThrows,
     EndBuild, outVars, ReleaseTypeOK, Archives, OpenArchive

\* The steps of the composition: each keeps BundleInv.
LEMMA ReleaseKeeps == ASSUME BundleInv, ReleaseInv, ReleaseInv', ReleaseStep PROVE BundleInv'
<1>1. /\ UNCHANGED <<source, project, runs, failures, check, verified, serves>> /\ ReleaseNext
      /\ run' = IF At("ended") THEN NoRun ELSE run
  BY DEF ReleaseStep, checkVars
<1>2. /\ CommandInv /\ BundleTypeOK /\ ReleaseTypeOK /\ ReleaseTypeOK' /\ SerialsGrow
      /\ OneBundleEach /\ CheckSound
  BY BundleParts DEF ReleaseInv, Numbers
<1>3. CommandInv'
  <2>1. source \in Directories /\ failures \in 0..MaxFailures
    BY <1>2 DEF CommandInv, CommandTypeOK
  <2>2. CASE At("ended")
    BY <1>1, <1>2, <2>1, <2>2, NoRunKeeps
  <2>3. CASE ~At("ended")
    BY <1>1, <1>2, <2>1, <2>3, CommandUntouched
  <2>4. QED
    BY <2>2, <2>3
<1>4. BundleTypeOK' /\ CheckSound' /\ (Checking("ended") /\ check.temp => ~check.sound)'
  BY <1>1, <1>2, BundleParts DEF BundleTypeOK, CheckSound, Checking
<1>5. /\ check.seen.serial \in Int /\ serves.source \in Int /\ serves.private \in Int
      /\ \A s \in verified : s \in Int
  BY <1>2, ReleaseAssumption DEF ReleaseAssumption, BundleTypeOK, Archives
<1>6. SerialsGrow'
  <2>1. CASE OpenArchive
    BY <1>1, <1>2, <1>5, <2>1, ArchiveTyped DEF OpenArchive, SerialsGrow
  <2>2. CASE ~OpenArchive
    <3>1. archive'.serial = archive.serial /\ builds' >= builds /\ builds' \in Int
      BY <1>1, <1>2, <2>2, BuildNumbers, ArchiveTyped, ReleaseAssumption
      DEF ReleaseTypeOK, ReleaseAssumption
    <3>2. build' \in {"install", "list", "reuse", "copy", "prune", "relist", "pack", "archive"}
            => archive'.serial < builds'
      BY <1>1, <1>2, <2>2, <3>1, ArchiveTyped DEF SerialsGrow, ReleaseNext, Materialize, NpmInstall,
         NpmList, ReuseRemoves, ReuseCopies, ReusePrunes, ReuseLists, StartBuild, Assemble,
         FillArchive, WriteSums, BuildThrows, EndBuild
    <3>3. build' # "fill" /\ (archive' = archive \/ build = "fill")
      BY <1>1, <2>2 DEF ReleaseNext, Materialize, NpmInstall, outVars,
         NpmList, ReuseRemoves, ReuseCopies, ReusePrunes, ReuseLists, StartBuild, Assemble,
         FillArchive, WriteSums, BuildThrows, EndBuild
    <3>4. QED
      BY <1>1, <1>2, <1>5, <3>1, <3>2, <3>3, ArchiveTyped DEF SerialsGrow
  <2>3. QED
    BY <2>1, <2>2
<1>7. OneBundleEach'
  <2>1. run'.from = "archive" => run' = run
    BY <1>1 DEF NoRun, NewRun, NothingParsed
  <2>2. CASE OpenArchive
    <3>1. archive'.serial # check.seen.serial /\ archive'.serial # serves.source
          /\ archive'.serial # serves.private /\ archive'.serial \notin verified
      BY <1>2, <1>5, <2>2, ArchiveTyped DEF OpenArchive, SerialsGrow
    <3>2. QED
      BY <1>1, <1>2, <2>1, <3>1 DEF OneBundleEach, MadeOf
  <2>3. CASE ~OpenArchive
    <3>1. archive'.serial = archive.serial /\ archive'.bundle = archive.bundle
      BY <1>1, <1>2, <2>3, BuildNumbers DEF ReleaseInv
    <3>2. QED
      BY <1>1, <1>2, <2>1, <3>1 DEF OneBundleEach, MadeOf
  <2>4. QED
    BY <2>2, <2>3
<1>8. QED
  BY <1>2, <1>3, <1>4, <1>6, <1>7, BundleBuilt DEF Numbers

\* A verification: what it reports ok is a bundle it has seen work.
LEMMA CheckKeeps == ASSUME BundleInv, ReleaseInv, CheckStep PROVE BundleInv'
<1>1. /\ CommandInv /\ BundleTypeOK /\ ReleaseTypeOK /\ SerialsGrow
      /\ OneBundleEach /\ CheckSound
  BY BundleParts DEF Numbers
<1>2. UNCHANGED <<releaseVars, source, project, runs, serves>>
  BY DEF CheckStep, StartCheck, OpenBundle, Extract, CheckEntries, StandaloneSmoke,
     InstallConsumer, ExportsSmoke, CheckThrows, EndCheck, CleanupThrows, CheckDies, CheckSame,
     commandVars
<1>3. /\ build' = build /\ archive' = archive /\ builds' = builds /\ source' = source
      /\ project' = project /\ runs' = runs /\ serves' = serves /\ ReleaseTypeOK'
  BY <1>1, <1>2 DEF releaseVars, buildVars, outVars, ReleaseTypeOK
<1>4. run' \in {run, NoRun} /\ (failures' = failures \/ Failing)
  BY DEF CheckStep, StartCheck, OpenBundle, Extract, CheckEntries, StandaloneSmoke,
     InstallConsumer, ExportsSmoke, CheckThrows, EndCheck, CleanupThrows, CheckDies, CheckSame,
     commandVars
<1>5. CommandInv'
  <2>1. CommandTypeOK /\ source' \in Directories
    BY <1>1, <1>3 DEF CommandInv, CommandTypeOK
  <2>2. failures' \in 0..MaxFailures
    BY <1>4, <2>1, SpentTyped DEF Well
  <2>3. CASE run' = run
    BY <1>1, <1>3, <2>2, <2>3, CommandUntouched
  <2>4. CASE run' = NoRun
    BY <1>1, <1>3, <2>1, <2>2, <2>4, NoRunKeeps
  <2>5. QED
    BY <1>4, <2>3, <2>4
<1>6. /\ archive \in Archives /\ NoArchive \in Archives /\ NoArchive.serial = 0
      /\ NoArchive.bundle = NoBundle /\ Honest(NoBundle)
  BY <1>1, NoBundleTyped, ReleaseAssumption
  DEF ReleaseTypeOK, NoArchive, Archives, ReleaseAssumption
<1>7. check \in [at : CheckPlaces, seen : Archives, temp : BOOLEAN, ok : BOOLEAN, sound : BOOLEAN]
  BY <1>1 DEF BundleTypeOK
\* the fields of the verification after each of its steps
<1>8. /\ check' \in [at : CheckPlaces, seen : {check.seen, archive, NoArchive}, temp : BOOLEAN,
                     ok : BOOLEAN, sound : BOOLEAN]
      /\ check'.ok => /\ check'.at = "cleanup" /\ check'.seen = check.seen
                      /\ check.seen.bundle.works
      /\ check'.seen.serial = 0 => check'.seen = NoArchive
      /\ check'.at = "ended" /\ check'.temp => ~check'.sound
  <2>1. /\ check.seen \in {check.seen, archive, NoArchive} /\ check.temp \in BOOLEAN
        /\ check.ok \in BOOLEAN /\ check.sound \in BOOLEAN
        /\ check.ok => Checking("cleanup") /\ check.seen.bundle.works
        /\ check.seen.serial = 0 => check.seen = NoArchive
    BY <1>1, <1>7 DEF CheckSound
  <2> USE DEF CheckPlaces, NoCheck, Checking, CheckGo, Throws
  <2>2. CASE StartCheck
    BY <1>7, <2>2 DEF StartCheck
  <2>3. CASE OpenBundle
    BY <1>7, <2>1, <2>3 DEF OpenBundle
  <2>4. CASE Extract
    BY <1>1, <1>7, <2>1, <2>4 DEF Extract, SerialsGrow
  <2>5. CASE CheckEntries
    BY <1>7, <2>1, <2>5 DEF CheckEntries
  <2>6. CASE StandaloneSmoke
    BY <1>7, <2>1, <2>6 DEF StandaloneSmoke
  <2>7. CASE InstallConsumer
    BY <1>7, <2>1, <2>7 DEF InstallConsumer
  <2>8. CASE ExportsSmoke
    BY <1>7, <2>1, <2>8 DEF ExportsSmoke
  <2>9. CASE CheckThrows
    BY <1>7, <2>1, <2>9 DEF CheckThrows
  <2>10. CASE EndCheck
    BY <2>1, <2>10 DEF EndCheck
  <2>11. CASE CleanupThrows
    BY <1>7, <2>1, <2>11 DEF CleanupThrows
  <2>12. CASE CheckDies
    BY <1>7, <2>1, <2>12 DEF CheckDies
  <2>13. QED
    BY <2>2, <2>3, <2>4, <2>5, <2>6, <2>7, <2>8, <2>9, <2>10, <2>11, <2>12 DEF CheckStep
<1>9. verified' = verified
      \/ /\ verified' = verified \cup {check.seen.serial} /\ check.seen.bundle.airGap
         /\ check.seen.bundle.works /\ check'.seen = NoArchive
  BY <1>1 DEF CheckSound, CheckStep, StartCheck, OpenBundle, Extract, CheckEntries, StandaloneSmoke,
     InstallConsumer, ExportsSmoke, CheckThrows, EndCheck, CleanupThrows, CheckDies, CheckSame,
     NoCheck
<1>10. check.seen.bundle.airGap => check.seen.serial # 0
  BY <1>1 DEF CheckSound, NoArchive, NoBundle
<1>11. BundleTypeOK'
  <2>1. check.seen.serial \in 0..MaxBuilds
    BY <1>7 DEF Archives
  <2>2. verified' \subseteq 1..MaxBuilds
    <3>1. verified \subseteq 1..MaxBuilds
      BY <1>1 DEF BundleTypeOK
    <3>2. check.seen.bundle.airGap => check.seen.serial \in 1..MaxBuilds
      BY <1>10, <2>1, ReleaseAssumption DEF ReleaseAssumption
    <3>3. QED
      BY <1>9, <3>1, <3>2
  <2>3. check.seen \in Archives
    BY <1>7
  <2>4. QED
    BY <1>1, <1>3, <1>6, <1>8, <2>2, <2>3 DEF BundleTypeOK
<1>12. SerialsGrow'
  <2>1. /\ check.seen.serial \in Int /\ archive.serial \in Int /\ archive.serial >= 0
        /\ check'.seen \in {check.seen, archive, NoArchive}
    BY <1>6, <1>7, <1>8, ReleaseAssumption DEF ReleaseAssumption, Archives
  <2>2. check'.seen.serial <= archive.serial
    BY <1>1, <1>6, <2>1 DEF SerialsGrow
  <2>3. \A s \in verified' : s <= archive.serial
    BY <1>1, <1>9, <2>1 DEF SerialsGrow
  <2>4. QED
    BY <1>1, <1>3, <2>2, <2>3 DEF SerialsGrow
<1>13. OneBundleEach'
  <2>1. run'.from = "archive" => run' = run
    BY <1>4 DEF NoRun, NewRun, NothingParsed
  <2>2. ASSUME NEW b, NEW s, MadeOf(b, s), s # 0 PROVE MadeOf(b, s)'
    <3>1. check'.seen.serial = s => check'.seen.bundle = b
      BY <1>6, <1>8, <2>2 DEF MadeOf
    <3>2. s \in verified' => b.works /\ b.airGap /\ Honest(b)
      BY <1>1, <1>9, <2>2 DEF MadeOf, CheckSound
    <3>3. QED
      BY <1>3, <2>1, <2>2, <3>1, <3>2 DEF MadeOf
  <2>3. archive'.serial # 0 => MadeOf(archive.bundle, archive.serial)'
    BY <1>1, <1>3, <2>2 DEF OneBundleEach
  <2>4. check'.seen.serial # 0 => MadeOf(check.seen.bundle, check.seen.serial)'
    <3>1. CASE check'.seen = check.seen
      BY <1>1, <2>2, <3>1 DEF OneBundleEach
    <3>2. CASE check'.seen = archive
      BY <1>1, <2>2, <3>2 DEF OneBundleEach
    <3>3. QED
      BY <1>6, <1>8, <3>1, <3>2
  <2>5. Perfect(source)' <=> Perfect(source)
    BY <1>3 DEF Perfect
  <2>6. ASSUME verified' # verified
        PROVE /\ verified' = verified \cup {check.seen.serial}
              /\ MadeOf(check.seen.bundle, check.seen.serial)
              /\ \A listed : Perfect(Directory(check.seen.bundle, listed))
    <3>1. verified' = verified \cup {check.seen.serial} /\ check.seen.serial # 0
      BY <1>9, <1>10, <2>6
    <3>2. check.seen.bundle.works /\ check.seen.bundle.airGap = TRUE /\ Honest(check.seen.bundle)
      BY <1>1, <1>7, <1>9, <2>6 DEF CheckSound, Archives, Bundles
    <3>3. QED
      BY <1>1, <3>1, <3>2, DirectoryPerfect DEF OneBundleEach
  <2>7. serves'.source \in verified' => Perfect(source)'
    <3>1. CASE verified' = verified
      BY <1>1, <1>3, <2>5, <3>1 DEF OneBundleEach
    <3>2. CASE verified' # verified
      BY <1>1, <1>3, <2>5, <2>6, <3>2 DEF OneBundleEach, MadeOf
    <3>3. QED
      BY <3>1, <3>2
  <2>8. serves'.private \in verified' /\ run'.from = "archive" => Perfect(run.private)'
    <3> SUFFICES ASSUME serves'.private \in verified', run'.from = "archive"
                 PROVE Perfect(run.private)'
      OBVIOUS
    <3>1. Perfect(run.private)' <=> Perfect(run.private)
      BY <2>1 DEF Perfect
    <3>2. CASE verified' = verified
      BY <1>1, <1>3, <2>1, <3>1, <3>2 DEF OneBundleEach
    <3>3. CASE verified' # verified
      BY <1>1, <1>3, <2>1, <2>6, <3>1, <3>3 DEF OneBundleEach, MadeOf
    <3>4. QED
      BY <3>2, <3>3
  <2>9. QED
    BY <2>3, <2>4, <2>7, <2>8 DEF OneBundleEach
<1>14. CheckSound'
  BY <1>1, <1>6, <1>8 DEF CheckSound, Checking, ReleaseInv
<1>15. QED
  BY <1>3, <1>5, <1>8, <1>11, <1>12, <1>13, <1>14, BundleBuilt DEF Numbers, Checking

\* A directory extracted by hand is of the archive it was extracted from.
LEMMA ExtractKeeps == ASSUME BundleInv, ExtractByHand PROVE BundleInv'
<1>1. /\ CommandInv /\ BundleTypeOK /\ ReleaseTypeOK /\ SerialsGrow /\ OneBundleEach /\ CheckSound
  BY BundleParts DEF Numbers
<1>2. PICK listed \in Listings : source' = Directory(archive.bundle, listed)
  BY DEF ExtractByHand
<1>3. /\ build' = build /\ archive' = archive /\ builds' = builds /\ check' = check
      /\ verified' = verified /\ project' = project /\ runs' = runs /\ failures' = failures
      /\ run' = NoRun /\ serves' = [serves EXCEPT !.source = archive.serial] /\ ReleaseTypeOK'
  BY <1>1 DEF ExtractByHand, releaseVars, buildVars, outVars, checkVars, ReleaseTypeOK
<1>4. source' \in Directories
  BY <1>1, <1>2, ListingsOfParts, ArchiveTyped, DirectoryTyped
<1>5. CommandInv'
  <2>1. failures' \in 0..MaxFailures
    BY <1>1, <1>3 DEF CommandInv, CommandTypeOK
  <2>2. QED
    BY <1>1, <1>3, <1>4, <2>1, NoRunKeeps
<1>6. /\ serves'.source = archive.serial /\ serves'.private = serves.private
      /\ serves' \in [source : 0..MaxBuilds, private : 0..MaxBuilds]
  BY <1>1, <1>3, ArchiveTyped DEF BundleTypeOK
<1>7. BundleTypeOK' /\ CheckSound' /\ (Checking("ended") /\ check.temp => ~check.sound)'
  BY <1>1, <1>3, <1>6, BundleParts DEF BundleTypeOK, CheckSound, Checking
<1>8. SerialsGrow'
  BY <1>1, <1>3, <1>6, ArchiveTyped DEF SerialsGrow
<1>9. OneBundleEach'
  <2>1. run'.from # "archive"
    BY <1>3 DEF NoRun, NewRun, NothingParsed
  <2>2. archive.serial # 0
    BY <1>1 DEF ExtractByHand, SerialsGrow
  <2>3. serves'.source \in verified' => Perfect(source)'
    <3>1. ASSUME archive.serial \in verified PROVE Perfect(Directory(archive.bundle, listed))
      BY <1>1, <2>2, <3>1, ArchiveTyped, DirectoryPerfect DEF OneBundleEach, MadeOf, Bundles
    <3>2. QED
      BY <1>2, <1>3, <1>6, <3>1 DEF Perfect
  <2>4. QED
    BY <1>1, <1>2, <1>3, <1>6, <2>1, <2>2, <2>3 DEF OneBundleEach, MadeOf
<1>10. QED
  BY <1>3, <1>5, <1>7, <1>8, <1>9, BundleBuilt DEF Numbers

\* a command reads the archive it was given once, and keeps what it has extracted
LEMMA ExtractKept ==
    ASSUME CommandTypeOK, CommandNext, ~At("ended")
    PROVE /\ run'.private = run.private /\ run'.from = run.from
          /\ At("prepare") /\ run'.at = "import" => run.from # "archive"
<1>1. CASE \E argv \in Argvs : Start(argv)
  BY <1>1 DEF Start
<1>2. ASSUME NEW step, Go(step) PROVE run'.private = run.private /\ run'.from = run.from
  BY <1>2, GoBecomes DEF Becomes
<1>3. ASSUME NEW code, Exit(code)
      PROVE run'.private = run.private /\ run'.from = run.from /\ run'.at # "import"
  BY <1>3, ExitBecomes DEF Becomes, ExitStep
<1>4. ASSUME NEW code, run' = [Ended(code) EXCEPT !.clean = FALSE]
      PROVE run'.private = run.private /\ run'.from = run.from /\ run'.at # "import"
  BY <1>4, FailBecomes DEF Becomes, ExitStep
<1> USE DEF At
<1>5. CASE Locate
  BY <1>2, <1>3, <1>5 DEF Locate
<1>6. CASE Import
  BY <1>2, <1>3, <1>6, Zenon DEF Import
<1>7. CASE ReadManifest \/ CheckHashes \/ TakeLock \/ MakePlan
  BY <1>2, <1>3, <1>7 DEF ReadManifest, CheckHashes, TakeLock, MakePlan
<1>8. CASE DecideInstall \/ DecideUpdate
  BY <1>2, <1>3, <1>8 DEF DecideInstall, DecideUpdate
<1>9. ASSUME NEW p, Copy(p), p \in {"tarball", "templates"}
      PROVE run'.private = run.private /\ run'.from = run.from /\ ~At("prepare")
  BY <1>2, <1>3, <1>9 DEF Copy
<1>10. CASE ClearTree \/ CopyTree
  BY <1>2, <1>3, <1>4, <1>10 DEF ClearTree, CopyTree
<1>11. CASE Smoke \/ WriteStamp \/ RemoveFiles \/ DropStamp \/ Report
  BY <1>2, <1>3, <1>4, <1>11, Zenon DEF Smoke, WriteStamp, LockReleased, ReleaseThrows, RemoveFiles,
     DropStamp, Report
<1>12. CASE StepFails
  BY <1>4, <1>12 DEF StepFails
<1>13. CASE Cleanup \/ CommandDies
  BY <1>13 DEF Cleanup, CommandDies, CommandTypeOK
<1>14. ASSUME NEW p \in Parts, NEW condition, SourceChanges(p, condition)
       PROVE run'.private = run.private /\ run'.from = run.from /\ run'.at = run.at
  BY <1>14 DEF SourceChanges, CommandTypeOK
<1>15. QED
  BY <1>1, <1>5, <1>6, <1>7, <1>8, <1>9, <1>10, <1>11, <1>12, <1>13, <1>14 DEF CommandNext

LEMMA UnpackExtracts ==
    ASSUME CommandTypeOK, NEW whole, NEW directory, Unpack(whole, directory)
    PROVE /\ run'.from = run.from
          /\ run'.private = IF run'.at = "import" THEN directory ELSE run.private
<1>1. CASE run' = [run EXCEPT !.at = "import", !.private = directory, !.temp = TRUE]
  BY <1>1 DEF CommandTypeOK
<1>2. CASE Exit("2")
  BY <1>2, ExitBecomes DEF Becomes, ExitStep
<1>3. ASSUME NEW left \in BOOLEAN, run' = [Ended("2") EXCEPT !.clean = FALSE, !.temp = left]
      PROVE run'.from = run.from /\ run'.private = run.private /\ run'.at # "import"
  BY <1>3 DEF Ended, CommandTypeOK
<1>4. QED
  BY <1>1, <1>2, <1>3 DEF Unpack

\* A command: what it has extracted is of the archive it found.
LEMMA CommandStepKeeps == ASSUME BundleInv, CommandStep PROVE BundleInv'
<1>1. /\ CommandInv /\ BundleTypeOK /\ ReleaseTypeOK /\ SerialsGrow /\ OneBundleEach /\ CheckSound
      /\ CommandTypeOK
  BY BundleParts DEF Numbers, CommandInv
<1> DEFINE directory == Directory(archive.bundle, {})
<1>2. CommandNext \/ Unpack(archive.whole, directory)
  BY DEF CommandStep
<1>3. /\ build' = build /\ archive' = archive /\ builds' = builds /\ check' = check
      /\ verified' = verified /\ ReleaseTypeOK'
      /\ serves' = [source |-> IF source' = source THEN serves.source ELSE 0,
                    private |-> CASE At("prepare") /\ run'.at = "import" -> archive.serial
                                  [] At("ended") -> 0
                                  [] OTHER -> serves.private]
  BY <1>1 DEF CommandStep, releaseVars, buildVars, outVars, checkVars, ReleaseTypeOK
<1>4. archive.whole \in BOOLEAN /\ directory \in Directories
  BY <1>1, ArchiveTyped, DirectoryTyped DEF Archives
<1>5. CommandInv'
  BY <1>1, <1>2, <1>4, CommandKeeps, UnpackKeeps
<1>6. /\ serves'.source \in {0, serves.source} /\ (serves'.source # 0 => source' = source)
      /\ serves'.private \in {0, serves.private, archive.serial}
  BY <1>3
<1>7. /\ serves'.source \in 0..MaxBuilds /\ serves'.private \in 0..MaxBuilds
      /\ serves' = [source |-> serves'.source, private |-> serves'.private]
      /\ archive.serial \in Int /\ archive.serial >= 0
  BY <1>1, <1>3, <1>6, ArchiveTyped, ReleaseAssumption DEF BundleTypeOK, ReleaseAssumption
<1>8. BundleTypeOK' /\ CheckSound' /\ (Checking("ended") /\ check.temp => ~check.sound)'
  BY <1>1, <1>3, <1>7, BundleParts DEF BundleTypeOK, CheckSound, Checking
<1>9. SerialsGrow'
  BY <1>1, <1>3, <1>6, <1>7 DEF SerialsGrow
<1>10. OneBundleEach'
  <2>1. ASSUME serves'.private # 0, run'.from = "archive"
        PROVE \/ serves'.private = archive.serial /\ run'.private = directory
              \/ /\ serves'.private = serves.private /\ run.from = "archive"
                 /\ run'.private = run.private
    <3>1. CASE At("prepare") /\ run'.at = "import"
      <4>1. ~CommandNext
        BY <1>1, <2>1, <3>1, ExtractKept DEF At
      <4>2. Unpack(archive.whole, directory)
        BY <1>2, <4>1
      <4>3. run'.private = directory
        BY <1>1, <3>1, <4>2, UnpackExtracts
      <4>4. serves'.private = archive.serial
        BY <1>3, <3>1 DEF At
      <4>5. QED
        BY <4>3, <4>4
    <3>2. CASE ~(At("prepare") /\ run'.at = "import")
      <4>1. ~At("ended") /\ serves'.private = serves.private
        BY <1>3, <2>1, <3>2 DEF At
      <4>2. CASE CommandNext
        <5>1. run'.from = run.from /\ run'.private = run.private
          BY <1>1, <4>1, <4>2, ExtractKept
        <5>2. QED
          BY <2>1, <4>1, <5>1
      <4>3. CASE Unpack(archive.whole, directory)
        <5>1. At("prepare")
          BY <4>3 DEF Unpack
        <5>2. run'.from = run.from /\ run'.private = run.private
          BY <1>1, <3>2, <4>3, <5>1, UnpackExtracts
        <5>3. QED
          BY <2>1, <4>1, <5>2
      <4>4. QED
        BY <1>2, <4>2, <4>3
    <3>3. QED
      BY <3>1, <3>2
  <2>2. ASSUME NEW b, NEW s, MadeOf(b, s), s # 0 PROVE MadeOf(b, s)'
    BY <1>3, <1>6, <2>1, <2>2 DEF MadeOf
  <2>3. archive'.serial # 0 => MadeOf(archive.bundle, archive.serial)'
    BY <1>1, <1>3, <2>2 DEF OneBundleEach
  <2>4. check'.seen.serial # 0 => MadeOf(check.seen.bundle, check.seen.serial)'
    BY <1>1, <1>3, <2>2 DEF OneBundleEach
  <2>5. 0 \notin verified
    BY <1>1 DEF BundleTypeOK
  <2>6. serves'.source \in verified' => Perfect(source)'
    BY <1>1, <1>3, <1>6, <2>5 DEF OneBundleEach, Perfect
  <2>7. ASSUME archive.serial \in verified PROVE Perfect(directory)
    BY <1>1, <2>5, <2>7, ArchiveTyped, DirectoryPerfect DEF OneBundleEach, MadeOf, Bundles
  <2>8. serves'.private \in verified' /\ run'.from = "archive" => Perfect(run.private)'
    BY <1>1, <1>3, <2>1, <2>5, <2>7 DEF OneBundleEach, Perfect
  <2>9. QED
    BY <2>3, <2>4, <2>6, <2>8 DEF OneBundleEach
<1>11. QED
  BY <1>3, <1>5, <1>8, <1>9, <1>10, BundleBuilt DEF Numbers

LEMMA BundleStutters == ASSUME BundleInv, UNCHANGED allVars PROVE BundleInv'
<1>1. /\ CommandInv /\ BundleTypeOK /\ ReleaseTypeOK /\ Numbers
      /\ (Checking("ended") /\ check.temp => ~check.sound)
  BY BundleParts
<1>2. UNCHANGED <<source, project, run, runs, failures, check, verified, serves>>
  BY DEF allVars, commandVars, checkVars
<1>3. CommandInv'
  <2>1. failures' \in 0..MaxFailures
    BY <1>1, <1>2 DEF CommandInv, CommandTypeOK
  <2>2. QED
    BY <1>1, <1>2, <2>1, CommandUntouched
<1>4. ReleaseTypeOK' /\ Numbers'
  BY <1>1 DEF allVars, commandVars, checkVars, releaseVars, buildVars, outVars, ReleaseTypeOK,
     Numbers, SerialsGrow, OneBundleEach, MadeOf, CheckSound, Checking
<1>5. BundleTypeOK' /\ (Checking("ended") /\ check.temp => ~check.sound)'
  BY <1>1, <1>2 DEF BundleTypeOK, Checking
<1>6. QED
  BY <1>3, <1>4, <1>5, BundleBuilt

LEMMA BundleInitial == ASSUME Init PROVE BundleInv
<1>1. /\ build = "ended" /\ archive = NoArchive /\ builds = 0 /\ source = NoDirectory
      /\ project \in StartProjects /\ run = NoRun /\ runs = 0 /\ failures = 0
      /\ check = NoCheck /\ verified = {} /\ serves = [source |-> 0, private |-> 0]
  BY DEF Init, ReleaseInit, CommandInit
<1>2. ReleaseTypeOK
  BY ReleaseInitial DEF Init, ReleaseInv
<1>3. /\ NoArchive \in Archives /\ NoArchive.serial = 0 /\ NoArchive.whole = FALSE
      /\ NoArchive.bundle = NoBundle /\ Honest(NoBundle) /\ 0 \in 0..MaxBuilds
  BY NoBundleTyped, ReleaseAssumption DEF NoArchive, Archives, ReleaseAssumption
<1>4. CommandInv
  <2>1. /\ run.at = "ended" /\ run.last = "none" /\ run.name = "none" /\ run.code = "none"
        /\ run.temp = FALSE
    BY <1>1 DEF NoRun, NewRun
  <2>2. NoProject \in Projects /\ NoDirectory \in Directories
    BY DEF NoProject, Projects, NoDirectory, Directories, Parts
  <2>3. project \in Projects
    BY <1>1, <2>2 DEF StartProjects, Other, Projects, Copied
  <2>4. run \in [at : Steps, last : Steps \cup {"none"}, name : {run.name}, flags : {run.flags},
                 from : {run.from}, private : Directories, temp : BOOLEAN, code : Codes,
                 clean : BOOLEAN, began : Projects]
    <3>1. NewRun("none", NothingParsed, "ended", "none", NoProject)
            \in [at : Steps, last : Steps \cup {"none"}, name : {"none"},
                 flags : {NothingParsed.flags}, from : {NothingParsed.from},
                 private : Directories, temp : BOOLEAN, code : Codes,
                 clean : BOOLEAN, began : Projects]
      <4>1. "ended" \in Steps /\ "none" \in Codes
        BY DEF Steps, Codes
      <4>2. QED
        BY <2>2, <4>1, RunRecord
    <3>2. /\ run = NewRun("none", NothingParsed, "ended", "none", NoProject)
          /\ run.name = "none" /\ run.flags = NothingParsed.flags /\ run.from = NothingParsed.from
      BY <1>1 DEF NoRun, NewRun
    <3>3. QED
      BY <3>1, <3>2
  <2>5. runs \in 0..MaxRuns /\ failures \in 0..MaxFailures /\ source \in Directories
    BY <1>1, <2>2, CommandAssumption DEF CommandAssumption
  <2>6. RightSteps /\ NotYetWritten /\ HashesHeld /\ CopiesMade /\ Results /\ NoExtractLeft
    BY <2>1 DEF RightSteps, NotYetWritten, HashesHeld, CopiesMade, CopiedBy, Copied, Results,
       NoExtractLeft, Over, At, Refused, Installs, Is
  <2>7. QED
    BY <2>3, <2>4, <2>5, <2>6 DEF CommandInv, CommandTypeOK
<1>5. BundleTypeOK /\ (Checking("ended") /\ check.temp => ~check.sound)
  BY <1>1, <1>3 DEF BundleTypeOK, NoCheck, CheckPlaces
<1>6. SerialsGrow /\ CheckSound
  BY <1>1, <1>3 DEF SerialsGrow, CheckSound, NoCheck
<1>7. OneBundleEach
  <2>1. archive.serial = 0 /\ check.seen.serial = 0 /\ verified = {}
    BY <1>1, <1>3 DEF NoCheck
  <2>2. QED
    BY <2>1 DEF OneBundleEach
<1>8. QED
  BY <1>2, <1>4, <1>5, <1>6, <1>7, BundleParts DEF Numbers

\* The invariant of the builds, the verifications and the commands together.
THEOREM BundleInvariant == Spec => []BundleInv
<1>1. ASSUME BundleInv, ReleaseInv, ReleaseInv', [Next]_allVars PROVE BundleInv'
  BY <1>1, ReleaseKeeps, CheckKeeps, ExtractKeeps, CommandStepKeeps, BundleStutters DEF Next
<1>2. QED
  BY <1>1, BundleInitial, BuildsUndisturbed, ReleaseInvariant, PTL DEF Spec

\* An install or update that exits with 0 had nothing to do or has put everything in place.
THEOREM ZeroIsTrue == Spec => []ExitZeroIsTrue
<1>1. BundleInv => ExitZeroIsTrue
  BY DEF BundleInv, CommandInv, Results, ExitZeroIsTrue, Over, At
<1>2. QED
  BY <1>1, BundleInvariant, PTL

\* A command that is refused leaves the project as it found it, but for the one exception.
THEOREM RefusalChangesNothing == Spec => []RefusedUntouched
<1>1. BundleInv => RefusedUntouched
  BY DEF BundleInv, CommandInv, Results, RefusedUntouched, Over, At
<1>2. QED
  BY <1>1, BundleInvariant, PTL

\* No temporary directory outlives its verification or its command, unless it could not be
\* removed or the process died.
THEOREM TempsRemoved == Spec => []NoTempLeft
<1>1. BundleInv => NoTempLeft
  BY DEF BundleInv
<1>2. QED
  BY <1>1, BundleInvariant, PTL

\* install --force from an intact bundle repairs whatever earlier commands left.
THEOREM ForceInstallRepairs == Spec => []ForceRepairs
<1>1. BundleInv => ForceRepairs
  BY DEF BundleInv, CommandInv, Results, ForceRepairs, Over, At, Unhindered, Perfect
<1>2. QED
  BY <1>1, BundleInvariant, PTL

\* A build that was verified installs from the archive and from an undamaged directory,
\* even when another build has replaced it.
THEOREM VerifiedBundleInstalls == Spec => []VerifiedInstalls
<1>1. ASSUME BundleInv PROVE VerifiedInstalls
  <2> DEFINE s == IF run.from = "archive" THEN serves.private ELSE serves.source
  <2> SUFFICES ASSUME At("ended"), Is("install"), run.clean, run.last # "none", ~Locked,
                      ~Has("--dry-run"), Has("--force") \/ run.began = NoProject, s \in verified
               PROVE run.code = "0" /\ Intact
    BY DEF VerifiedInstalls
  <2>1. BundleTypeOK /\ OneBundleEach /\ CommandInv
    BY <1>1, BundleParts DEF Numbers
  <2>2. Perfect(Bundle)
    BY <2>1 DEF OneBundleEach, Bundle
  <2>3. QED
    BY <2>1, <2>2 DEF CommandInv, Results, Over, At, Unhindered
<1>2. QED
  BY <1>1, BundleInvariant, PTL
==================================================================================
