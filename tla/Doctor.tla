--------------------------------- MODULE Doctor ---------------------------------
(***************************************************************************)
(* One run of doctor (head/installer/doctor.ts) beside the installs,       *)
(* updates and uninstalls of InstallLifecycle.  It takes no lock and       *)
(* writes nothing: it reads the config, the stamp, the package and the     *)
(* managed files one after the other while others may be changing them,    *)
(* and a timer may overtake it.  One action is one await that reads the    *)
(* project; the checks made of what was read are part of it.               *)
(***************************************************************************)
EXTENDS InstallLifecycle, SemVer

CONSTANTS
    Malformed,        \* texts of the user's that do not parse cleanly, though the merge takes them
    Node, MinNode,    \* the running Node's version and MIN_NODE_VERSION
    PowerShells,      \* what pwsh --version may say: a major version, or -1 if it fails
    Windows,          \* process.platform = "win32"
    OpenCodes,        \* what opencode --version may say: a version, or None if it cannot be told
    MinOpenCode,      \* MIN_OPENCODE_VERSION
    Modes,            \* the modes doctor may be called in
    BundleSums        \* what the SHA256SUMS of the bundle may show

ASSUME DoctorAssumption ==
    /\ Malformed \subseteq UserTexts /\ Windows \in BOOLEAN /\ PowerShells \subseteq Int
    /\ {Node, MinNode, MinOpenCode} \cup (OpenCodes \ {None}) \subseteq SemverParts
    /\ Modes \subseteq {"standard", "full"} /\ BundleSums \subseteq {"pass", "warn", "fail"}
    /\ Modes # {} /\ PowerShells # {} /\ OpenCodes # {} /\ BundleSums # {}

VARIABLES
    dpc,              \* where doctor is
    target,           \* the config file it located
    probe,            \* the ConfigProbe: the file, Nothing if it could not be read
    seen,             \* the stamp it read
    next,             \* the managed path it is at
    mismatch,         \* some managed file is missing or not as the stamp says
    status,           \* the checks pushed so far
    report,           \* summary.overall, or how it ended without one
    vouched,          \* history: since it read the stamp, all files were as that says at once
    quiet,            \* history: nothing on the disk has changed since doctor began
    met               \* history: the runs that had the lock while it was at work

probeVars == <<target, probe, seen, next, mismatch>>
historyVars == <<vouched, quiet, met>>
docVars == <<dpc, probeVars, status, report>>
allVars == <<vars, docVars, historyVars>>

SystemChecks == {"node-version", "powershell-version", "opencode-version"}
ConfigChecks == {"opencode-config-parse", "plugin-entry-present", "jsonc-valid"}
StampChecks == {"stamp-bundle-hash", "stamp-consistency"}
FullChecks == {"bundle-sha256sums-full", "plugin-cache-path-full",
               "vendor-tarball-referenced-full"}
Checks == SystemChecks \cup ConfigChecks \cup {"exports-smoke-import"}
          \cup StampChecks \cup FullChecks
Unchecked == [c \in Checks |-> "none"]

DoctorInit ==
    /\ Init
    /\ dpc = "idle"
    /\ target = None /\ probe = Nothing /\ seen = NoStamp /\ next = 1 /\ mismatch = FALSE
    /\ status = Unchecked /\ report = "none"
    /\ vouched = FALSE /\ quiet = TRUE /\ met = {}

Running == dpc \notin {"idle", "done"}

--------------------------------------------------------------------------------
(* The checks that are functions of what was read.                           *)

CheckNodeVersion == IF CompareSemver(Node, MinNode) >= 0 THEN "pass" ELSE "fail"

CheckPowershellVersion(major) ==
    IF major >= 7 THEN "pass" ELSE IF Windows THEN "fail" ELSE "warn"

CheckOpencodeVersion(detected) ==
    IF detected = None THEN "warn"
    ELSE IF CompareSemver(detected, MinOpenCode) >= 0 THEN "pass" ELSE "fail"

CheckConfigParse ==
    IF target = None THEN "warn"
    ELSE IF probe # Nothing /\ probe.text \notin Malformed THEN "pass" ELSE "fail"

CheckJsoncValid == CheckConfigParse

ReadPluginEntry(file) == file.entry

CheckPluginEntry == IF ReadPluginEntry(probe) = "yes" THEN "pass" ELSE "warn"

\* mutant: without a hash in the stamp there is nothing to compare
HashMissesOnlyRecorded(p) == Present(p) /\ seen.hashes[p] \notin {Nothing, files[p]}

\* missing, or modified since install; a path without a hash counts as modified
HashMisses(p) == ~Present(p) \/ seen.hashes[p] # files[p]

CheckStampBundleHash == IF seen.state = "valid" /\ ~mismatch THEN "pass" ELSE "warn"

CheckStampConsistency ==
    IF seen.state = "valid" /\ \A p \in Elements(seen.managed) : seen.hashes[p] # Nothing
    THEN "pass" ELSE "warn"

Summarize(checks) ==
    IF \E c \in Checks : checks[c] = "fail" THEN "broken"
    ELSE IF \E c \in Checks : checks[c] = "warn" THEN "degraded" ELSE "healthy"

--------------------------------------------------------------------------------
(* The awaits, in the order of runBuiltInChecks.                             *)

GoTo(s) == dpc' = s /\ UNCHANGED report

StartDoctor ==
    /\ dpc = "idle"
    /\ GoTo("locate")
    /\ quiet' = TRUE /\ met' = {r \in Runs : Holding(r)}
    /\ UNCHANGED <<vars, probeVars, status, vouched>>

\* mutant: reads the default path when there is no config
ProbeConfigUnchecked ==
    /\ dpc = "locate"
    /\ target' = IF Located = {} THEN None ELSE Config
    /\ GoTo("read")
    /\ UNCHANGED <<vars, probe, seen, next, mismatch, status, historyVars>>

\* mutant: the search order turned round
ProbeConfigLast ==
    /\ dpc = "locate"
    /\ target' = IF Located = {} THEN None
                 ELSE Configs[CHOOSE k \in Located : \A j \in Located : j <= k]
    /\ GoTo(IF Located = {} THEN "stamp" ELSE "read")
    /\ UNCHANGED <<vars, probe, seen, next, mismatch, status, historyVars>>

\* probeConfig: access
ProbeConfig ==
    /\ dpc = "locate"
    /\ target' = IF Located = {} THEN None ELSE Config
    /\ GoTo(IF Located = {} THEN "stamp" ELSE "read")
    /\ UNCHANGED <<vars, probe, seen, next, mismatch, status, historyVars>>

\* and readFile, which may find the file gone
ReadConfig ==
    /\ dpc = "read"
    /\ probe' = files[target]
    /\ GoTo("stamp")
    /\ UNCHANGED <<vars, target, seen, next, mismatch, status, historyVars>>

\* probeStamp: a stamp readStamp rejects is "corrupt"
ProbeStamp ==
    /\ dpc = "stamp"
    /\ seen' = stamp
    /\ GoTo("import")
    /\ vouched' = AsStamped(stamp)
    /\ UNCHANGED <<vars, target, probe, next, mismatch, status, quiet, met>>

\* rm -r or cp -r of the package tree is at work
PackageInFlux ==
    \E r \in Runs :
       \/ At(r, "packageCopy") \/ At(r, "package")
       \/ At(r, "remove") /\ Managed(r) = Package

\* what the three imports may find: a tree of the user's may be anything, and so may one
\* whose install has failed; without a standalone tree npm fills the directory
SmokeOutcomes ==
    IF PackageInFlux \/ failures > 0 \/ files[Package].text \in UserTexts
    THEN {"pass", "warn", "fail"}
    ELSE IF Present(Package) THEN {"pass"}
    ELSE IF Standalone = Versions THEN {"warn"} ELSE {"pass", "warn", "fail"}

CheckExportsSmokeImport ==
    /\ dpc = "import"
    /\ \E s \in SmokeOutcomes : status' = [status EXCEPT !["exports-smoke-import"] = s]
    /\ GoTo("hash")
    /\ UNCHANGED <<vars, probeVars, historyVars>>

\* mutant: the last file decides
HashFileForgets ==
    /\ dpc = "hash" /\ next \in DOMAIN seen.managed
    /\ mismatch' = HashMisses(seen.managed[next])
    /\ next' = next + 1
    /\ UNCHANGED <<vars, dpc, report, target, probe, seen, status, historyVars>>

\* computeManagedFileHashes: one file after the other
HashFile ==
    /\ dpc = "hash" /\ next \in DOMAIN seen.managed
    /\ mismatch' = (mismatch \/ HashMisses(seen.managed[next]))
    /\ next' = next + 1
    /\ UNCHANGED <<vars, dpc, report, target, probe, seen, status, historyVars>>

\* the checks of the machine and those that are functions of what was read
Checked(major, detected) ==
    [status EXCEPT !["node-version"] = CheckNodeVersion,
                   !["powershell-version"] = CheckPowershellVersion(major),
                   !["opencode-version"] = CheckOpencodeVersion(detected),
                   !["opencode-config-parse"] = CheckConfigParse,
                   !["plugin-entry-present"] = CheckPluginEntry,
                   !["jsonc-valid"] = CheckJsoncValid,
                   !["stamp-bundle-hash"] = CheckStampBundleHash,
                   !["stamp-consistency"] = CheckStampConsistency]

\* the bundle, the plugin cache and .opencode/package.json
FullyChecked(checks, sums, cache) ==
    [checks EXCEPT
       !["bundle-sha256sums-full"] = sums,
       !["plugin-cache-path-full"] = IF seen.state = "valid" THEN cache ELSE "warn",
       !["vendor-tarball-referenced-full"] =
          IF seen.state = "valid" /\ Present(PkgJson) /\ files[PkgJson].text \notin Malformed
          THEN "pass" ELSE "warn"]

EndWith(checks) ==
    /\ dpc = "hash" /\ next \notin DOMAIN seen.managed
    /\ dpc' = "done"
    /\ status' = checks
    /\ report' = Summarize(checks)
    /\ UNCHANGED <<vars, probeVars, historyVars>>

ReportStandard ==
    \E major \in PowerShells, detected \in OpenCodes :
       "standard" \in Modes /\ EndWith(Checked(major, detected))

ReportFull ==
    \E major \in PowerShells, detected \in OpenCodes, sums \in BundleSums,
       cache \in {"pass", "warn"} :
       "full" \in Modes /\ EndWith(FullyChecked(Checked(major, detected), sums, cache))

\* DOCTOR_TIMEOUT is all that is reported, and "degraded"
TimesOut ==
    /\ Running
    /\ dpc' = "done" /\ report' = "degraded" /\ status' = Unchecked
    /\ UNCHANGED <<vars, probeVars, historyVars>>

\* a package.json without exports, or a managed file that cannot be read: no report at all
DoctorThrows ==
    /\ \/ dpc = "import" /\ files[Package].text \in UserTexts /\ UNCHANGED vars
       \/ dpc = "hash" /\ next \in DOMAIN seen.managed
          /\ Failure /\ UNCHANGED <<runVars, dirVars, leftovers, lifeVars>>
    /\ dpc' = "done" /\ report' = "error"
    /\ UNCHANGED <<probeVars, status, historyVars>>

DoctorStep ==
    \/ StartDoctor \/ ProbeConfig \/ ReadConfig \/ ProbeStamp
    \/ CheckExportsSmokeImport \/ HashFile \/ ReportStandard \/ ReportFull
    \/ TimesOut \/ DoctorThrows

\* the rest of the world, and the history it makes for a doctor at work
LifecycleStep ==
    /\ Next
    /\ UNCHANGED docVars
    /\ quiet' = (quiet /\ diskVars' = diskVars)
    /\ vouched' = (vouched \/ (dpc \in {"import", "hash"} /\ AsStamped(seen)'))
    /\ met' = IF Running THEN met \cup {r \in Runs : Holding(r)'} ELSE met

DoctorNext == DoctorStep \/ LifecycleStep

DoctorSpec == DoctorInit /\ [][DoctorNext]_allVars

--------------------------------------------------------------------------------
(* Properties.                                                               *)

DoctorTypeOK ==
    /\ dpc \in {"idle", "locate", "read", "stamp", "import", "hash", "done"}
    /\ target \in Elements(Configs) \cup {None} /\ probe \in Files
    /\ seen \in Stamps /\ next \in Nat \ {0} /\ mismatch \in BOOLEAN
    /\ status \in [Checks -> {"none", "pass", "warn", "fail"}]
    /\ report \in {"none", "healthy", "degraded", "broken", "error"}
    /\ vouched \in BOOLEAN /\ quiet \in BOOLEAN /\ met \subseteq Runs
    /\ dpc = "read" => target # None

\* at most one install, update or uninstall had the lock while doctor was at work
MetOne == \A r, s \in met : r = s

\* Although doctor hashes the managed files one after the other and without the lock, it
\* calls an installation healthy beside an install, update or uninstall only if at one
\* moment all files were as the stamp it had read says.  (That stamp itself may have been
\* replaced by then.)  Beside two of them, or one after a failure, it may be wrong: what an
\* uninstall could not remove is overwritten by the install after it, one file hashed before
\* and one after.
HealthyWasIntact == report = "healthy" /\ Undisturbed /\ MetOne => vouched

\* doctor has made all its checks
Finished == dpc = "done" /\ status # Unchecked /\ report # "error"

\* Once an install or update has finished without a failure and the user has changed
\* nothing, doctor finds nothing to warn of in the project: what it recomputes agrees
\* with what install wrote, whichever config file, version and package that is.  (npm
\* fills a package directory that the bundle has no tree for.)
FinishedIsHealthy ==
    /\ Finished /\ quiet /\ \A r \in Runs : ~Holding(r)
    /\ Undisturbed
    /\ stamp.state = "valid" /\ stamp.version \in Standalone
    /\ Located # {} /\ files[Config].text \notin Malformed
    => \A c \in Checks \ (SystemChecks \cup FullChecks) : status[c] = "pass"

--------------------------------------------------------------------------------
(* Why they hold.                                                            *)

\* the run that doctor met is past its decision, and what it changes is what the stamp that
\* doctor read describes
Involved(r) ==
    /\ pc[r] \in {"held", "release", "ended"}
    /\ pc[r] = "held" => step[r] \notin {"readStamp", "decide"}
    /\ Changing(r) => stamp = seen

\* A file that was not as the stamp says when doctor read it still is not, unless it has
\* been hashed: the one run that is at work brings none back, or all of them.
Caught ==
    /\ Running => \A r \in Runs : Holding(r) => r \in met
    /\ dpc \in {"idle", "locate", "read", "stamp"} => next = 1
    /\ dpc \in {"idle", "locate", "read", "stamp", "import"} => ~mismatch
    /\ dpc \in {"import", "hash"} /\ seen.state = "valid" /\ ~vouched /\ Undisturbed /\ MetOne =>
          /\ Describes(seen)
          /\ \E r \in met : Involved(r)
          /\ \/ mismatch
             \/ \E k \in DOMAIN seen.managed : next <= k /\ HashMisses(seen.managed[k])

\* A run that will change the package tree or the stamp, if that is of a bundle with a tree.
Fluxed ==
    \/ stamp.state # "valid" \/ stamp.version \notin Standalone
    \/ \E r \in Runs :
          /\ Changing(r)
          /\ \/ Is(r, "uninstall")
             \/ step[r] \in {"package", "packageCopy"} /\ To(r) \in Standalone
             \/ step[r] \in {"package", "hash", "writeStamp"} /\ To(r) \notin Standalone

\* As long as nothing on the disk changes, what doctor has read is what is there.
Current ==
    quiet /\ Undisturbed =>
       /\ dpc \in {"read", "stamp", "import", "hash"} \/ Finished =>
             target = IF Located = {} THEN None ELSE Config
       /\ dpc \in {"stamp", "import", "hash"} \/ Finished =>
             target = None \/ probe = files[target]
       /\ dpc \in {"import", "hash"} \/ Finished => seen = stamp
       /\ dpc = "hash" \/ Finished =>
             /\ mismatch => \E p \in Elements(seen.managed) : HashMisses(p)
             /\ status["exports-smoke-import"] # "pass" => Fluxed
       /\ Finished =>
             /\ status["opencode-config-parse"] = CheckConfigParse
             /\ status["jsonc-valid"] = CheckJsoncValid
             /\ status["plugin-entry-present"] = CheckPluginEntry
             /\ status["stamp-bundle-hash"] = CheckStampBundleHash
             /\ status["stamp-consistency"] = CheckStampConsistency

\* Until a run dies or fails to remove its lock, doctor keeps pace with the files.
DoctorInv == DoctorTypeOK /\ (leftovers = 0 => Caught /\ Current)
================================================================================
