---------------------------- MODULE InstallLifecycle ----------------------------
(***************************************************************************)
(* install, update and uninstall of head/installer/lifecycle.ts, with the  *)
(* writers, the stamp and the standalone package they use, under the lock  *)
(* of InstallerLock.  One action is one await that touches the project;    *)
(* reading the bundle, npm, the smoke import and the OpenCode plugin cache *)
(* leave nothing the properties speak of and can only fail (StepFails).    *)
(*                                                                         *)
(* A file is [text, entry]: whose text it has, and whether the tiny-yeah   *)
(* plugin entry is in it (which only a config file can have).  The SHA-256 *)
(* of a file is the file.                                                  *)
(***************************************************************************)
EXTENDS InstallerLock, Sequences, FiniteSets

CONSTANTS
    Versions,         \* bundle versions, as numbers: compareSemver is their order
    UserTexts,        \* what the user writes
    Created,          \* the text of createInitialConfig
    Partial,          \* what a failed copy of the package tree leaves
    None,             \* no such file
    Paths,            \* the files of the project that matter
    Copies,           \* Versions -> the "copy" entries of computeInstallPlan, in order
    PkgJson,          \* .opencode/package.json, one of the copies
    Configs,          \* the candidates of locateOpenCodeConfig, in search order
    NewConfig,        \* .opencode/opencode.json
    Package,          \* .opencode/node_modules/tiny-yeah, taken as one file
    Standalone,       \* the versions whose bundle has a standalone package tree
    Jobs,             \* what the runs are asked: functions from Runs to jobs
    StartVersions,    \* versions that may be installed at the start
    UserFiles,        \* the sets of paths where the user may have files at the start
    EditablePaths,    \* paths the user may change later
    MaxEdits          \* how often

Elements(s) == {s[k] : k \in DOMAIN s}

ASSUME LifecycleAssumption ==
    /\ Versions \subseteq Nat /\ Standalone \subseteq Versions /\ StartVersions \subseteq Versions
    /\ UserTexts \cap Versions = {} /\ UserTexts # {} /\ None \notin Paths
    /\ {Created, Partial, None} \cap (UserTexts \cup Versions) = {}
    /\ Copies \in [Versions -> Seq(Paths)] /\ Configs \in Seq(Paths)
    /\ \A j \in Jobs, r \in Runs :
          j[r].op \in {"install", "update", "uninstall"} /\ j[r].to \in Versions
    /\ {PkgJson, NewConfig, Package} \cup UNION UserFiles \cup EditablePaths \subseteq Paths
    \* the config file is merged and the package tree has its own copy: neither is in the plan
    /\ NewConfig \in Elements(Configs) /\ Package \notin Elements(Configs)
    /\ \A j, k \in DOMAIN Configs : Configs[j] = Configs[k] => j = k
    /\ \A v \in Versions : /\ PkgJson \in Elements(Copies[v])
                           /\ Elements(Copies[v]) \cap (Elements(Configs) \cup {Package}) = {}
    /\ MaxEdits \in Nat

VARIABLES
    files,            \* Paths -> [text, entry]
    backups,          \* Paths -> the texts in <path>.backup-<timestamp> files
    stamp,            \* .opencode/.tiny-yeah-install.json
    job,              \* what each run is asked
    step,             \* where it is in install, update or uninstall
    at,               \* the plan entry or managed path it is at
    prior,            \* the stamp it read
    cfg,              \* the config file it located
    merged,           \* the text it is about to write there
    managed,          \* managedWritten
    hashes,           \* managedFileHashes
    skipped,          \* skippedUserModified
    edits,            \* how often the user changed a file
    kept,             \* history: user texts in place before the current run, outside Package
    edited            \* history: paths the user changed since a run got the lock

diskVars == <<files, backups, stamp>>
readVars == <<prior, cfg, merged, hashes, skipped>>
localVars == <<step, at, managed, readVars>>
userVars == <<edits, kept, edited>>
lifeVars == <<diskVars, localVars, job, userVars>>
vars == <<lockVars, lifeVars>>

Texts == Versions \cup UserTexts \cup {Created, Partial, None}
Files == [text : Texts, entry : {"no", "yes"}]
Nothing == [text |-> None, entry |-> "no"]
Plain(t) == [text |-> t, entry |-> "no"]
Present(p) == files[p] # Nothing
NoHashes == [p \in Paths |-> Nothing]

NoStamp == [state |-> "absent", version |-> 0, managed |-> <<>>, hashes |-> NoHashes]
BadStamp == [NoStamp EXCEPT !.state = "corrupt"]

\* what a finished install of version v into an empty project leaves
InstalledPaths(v) ==
    Append(Copies[v], NewConfig) \o (IF v \in Standalone THEN <<Package>> ELSE <<>>)
InstalledFiles(v) ==
    [p \in Paths |-> IF p = NewConfig THEN [text |-> Created, entry |-> "yes"]
                     ELSE IF p \in Elements(InstalledPaths(v)) THEN Plain(v) ELSE Nothing]

Init ==
    /\ LockInit
    /\ \/ /\ \E u \in UserTexts, ps \in UserFiles :
                files = [p \in Paths |-> IF p \in ps THEN Plain(u) ELSE Nothing]
          /\ stamp = NoStamp
       \/ \E v \in StartVersions :
             /\ files = InstalledFiles(v)
             /\ stamp = [state |-> "valid", version |-> v, managed |-> InstalledPaths(v),
                         hashes |-> InstalledFiles(v)]
    /\ backups = [p \in Paths |-> {}]
    /\ job \in Jobs
    /\ step = [r \in Runs |-> "readStamp"]
    /\ at = [r \in Runs |-> 1]
    /\ prior = [r \in Runs |-> NoStamp]
    /\ cfg = [r \in Runs |-> NewConfig]
    /\ merged = [r \in Runs |-> Nothing]
    /\ managed = [r \in Runs |-> <<>>]
    /\ hashes = [r \in Runs |-> NoHashes]
    /\ skipped = [r \in Runs |-> {}]
    /\ edits = 0
    /\ kept = {files[p].text : p \in Paths \ {Package}} \cap UserTexts
    /\ edited = {}

--------------------------------------------------------------------------------
(* Small pieces shared by the actions.                                       *)

At(r, s) == pc[r] = "held" /\ step[r] = s

\* on to another step of the same run
Move(r, s) == step' = [step EXCEPT ![r] = s] /\ UNCHANGED lockVars

Is(r, op) == job[r].op = op
Has(r, flag) == flag \in job[r].flags
To(r) == job[r].to

\* the update path and install --force overwrite, with a backup
Overwrites(r) == Is(r, "update") \/ Has(r, "force")

\* return or throw with this outcome: on to the finally
Return(r, code) == Finish(r, code) /\ UNCHANGED <<failures, step>>

WriteFile(p, file) == files' = [files EXCEPT ![p] = file]

\* mutant: the backup is forgotten
NoBackUp(p) == UNCHANGED backups

\* copyFile to <path>.backup-<timestamp>, if there is a file
BackUp(p) ==
    backups' = IF Present(p) THEN [backups EXCEPT ![p] = @ \cup {files[p].text}] ELSE backups

Located == {k \in DOMAIN Configs : Present(Configs[k])}

\* locateOpenCodeConfig: the first candidate that is there
Locates(p) == \E k \in Located : p = Configs[k] /\ \A j \in Located : k <= j
Config == CHOOSE p \in Paths : Locates(p)

\* the rest of the text is left as it is, byte for byte
AddPluginEntry(file) == [file EXCEPT !.entry = "yes"]
RemovePluginEntry(file) == [file EXCEPT !.entry = "no"]
InitialConfig == [text |-> Created, entry |-> "yes"]

--------------------------------------------------------------------------------
(* What all three do first: the lock, the stamp and the refusals.            *)

\* the steps of lock.ts; the handle is there once the directory is touched
TakeLock(r) ==
    /\ AcquireLock(r)
    /\ edited' = IF pc'[r] = "held" THEN {} ELSE edited
    /\ UNCHANGED <<diskVars, localVars, job, edits, kept>>

\* readStamp fails closed on a stamp it cannot parse or validate
ReadBadStamp(r) ==
    /\ At(r, "readStamp") /\ stamp.state = "corrupt"
    /\ Return(r, "INSTALL_STAMP_SCHEMA_MISMATCH")
    /\ UNCHANGED <<diskVars, at, managed, readVars, job, userVars>>

ReadStamp(r) ==
    /\ At(r, "readStamp") /\ stamp.state # "corrupt"
    /\ Move(r, "decide")
    /\ prior' = [prior EXCEPT ![r] = stamp]
    /\ UNCHANGED <<diskVars, at, managed, cfg, merged, hashes, skipped, job, userVars>>

\* existingDepDeclaration: a package.json of ours declares the tarball of its version
DeclaresOther(r) == files[PkgJson].text \in Versions \ {To(r)}

\* how the run ends before it writes anything: the order decides which code it is
Refusal(r) ==
    LET valid == prior[r].state = "valid"
        same == valid /\ prior[r].version = To(r)
        noop == \/ Is(r, "uninstall") /\ ~valid
                \/ Is(r, "update") /\ same
                \/ Is(r, "install") /\ same /\ ~Has(r, "force")
        older == Is(r, "update") /\ To(r) < prior[r].version /\ ~Has(r, "downgrade")
        clash == Is(r, "install") /\ ~Has(r, "force") /\ DeclaresOther(r)
    IN  IF noop THEN "noop"
        ELSE IF Is(r, "update") /\ ~valid THEN "INSTALL_STAMP_MISSING"
        ELSE IF older THEN "DOWNGRADE_REJECTED"
        ELSE IF clash THEN "EXISTING_DEP_CONFLICT"
        ELSE IF Has(r, "dry") THEN "dry-run"
        ELSE "none"

Decline(r) ==
    /\ At(r, "decide") /\ Refusal(r) # "none"
    /\ Return(r, Refusal(r))
    /\ UNCHANGED <<diskVars, at, managed, readVars, job, userVars>>

Proceed(r) ==
    /\ At(r, "decide") /\ Refusal(r) = "none"
    /\ Move(r, IF Is(r, "uninstall") THEN "locate" ELSE "copy")
    /\ UNCHANGED <<diskVars, at, managed, readVars, job, userVars>>

--------------------------------------------------------------------------------
(* install and update: the copy entries.                                     *)

Entry(r) == Copies[To(r)][at[r]]
Copying(r) == At(r, "copy") /\ at[r] \in DOMAIN Copies[To(r)]

\* managedWritten.push(relDest), and the next entry
Written(r) ==
    /\ managed' = [managed EXCEPT ![r] = Append(@, Entry(r))]
    /\ at' = [at EXCEPT ![r] = @ + 1]

\* atomicCopyFile(Binary): create-only
CopyCreates(r) ==
    /\ Copying(r) /\ ~Overwrites(r) /\ ~Present(Entry(r))
    /\ WriteFile(Entry(r), Plain(To(r)))
    /\ Written(r)
    /\ UNCHANGED <<step, lockVars, backups, stamp, readVars, job, userVars>>

\* CREATE_ONLY_TARGET_EXISTS, unless the stamp says that the file is managed
CopyRefused(r) ==
    /\ Copying(r) /\ ~Overwrites(r) /\ Present(Entry(r))
    /\ Entry(r) \notin Elements(prior[r].managed)
    /\ Return(r, "CREATE_ONLY_TARGET_EXISTS")
    /\ UNCHANGED <<diskVars, at, managed, readVars, job, userVars>>

\* backupAndWrite(Binary), first half: stat and copyFile
CopyBacksUp(r) ==
    /\ Copying(r)
    /\ Overwrites(r) \/ (Present(Entry(r)) /\ Entry(r) \in Elements(prior[r].managed))
    /\ Move(r, "replace")
    /\ BackUp(Entry(r))
    /\ UNCHANGED <<files, stamp, at, managed, readVars, job, userVars>>

\* second half: the rename
CopyReplaces(r) ==
    /\ At(r, "replace")
    /\ Move(r, "copy")
    /\ WriteFile(Entry(r), Plain(To(r)))
    /\ Written(r)
    /\ UNCHANGED <<backups, stamp, readVars, job, userVars>>

\* mutant: the loop ends one entry early
CopiesDoneEarly(r) ==
    /\ At(r, "copy") /\ at[r] + 1 \notin DOMAIN Copies[To(r)]
    /\ Move(r, "locate")
    /\ UNCHANGED <<diskVars, at, managed, readVars, job, userVars>>

CopiesDone(r) ==
    /\ At(r, "copy") /\ at[r] \notin DOMAIN Copies[To(r)]
    /\ Move(r, "locate")
    /\ UNCHANGED <<diskVars, at, managed, readVars, job, userVars>>

--------------------------------------------------------------------------------
(* The config file: merged by install and update, stripped by uninstall.     *)

\* resolveConfigForWrite, readFile and addPluginEntry or createInitialConfig
LocateForMerge(r) ==
    /\ At(r, "locate") /\ ~Is(r, "uninstall")
    /\ Move(r, "cfgBackup")
    /\ \/ /\ Located = {}
          /\ cfg' = [cfg EXCEPT ![r] = NewConfig]
          /\ merged' = [merged EXCEPT ![r] = InitialConfig]
       \/ \E p \in Paths :
             /\ Locates(p)
             /\ cfg' = [cfg EXCEPT ![r] = p]
             /\ merged' = [merged EXCEPT ![r] = AddPluginEntry(files[p])]
    /\ UNCHANGED <<diskVars, at, managed, prior, hashes, skipped, job, userVars>>

\* backupAndWrite of the merged text
BackUpConfig(r) ==
    /\ At(r, "cfgBackup")
    /\ Move(r, "cfgReplace")
    /\ BackUp(cfg[r])
    /\ UNCHANGED <<files, stamp, at, managed, readVars, job, userVars>>

WriteConfig(r) ==
    /\ At(r, "cfgReplace")
    /\ WriteFile(cfg[r], merged[r])
    /\ IF Is(r, "uninstall")
       THEN Move(r, "dropStamp") /\ UNCHANGED managed
       ELSE Move(r, "package") /\ managed' = [managed EXCEPT ![r] = Append(@, cfg[r])]
    /\ UNCHANGED <<backups, stamp, at, readVars, job, userVars>>

--------------------------------------------------------------------------------
(* copyStandalonePackage, and what is left of install and update.            *)

\* no standalone tree in the bundle: npm install --offline, outside the model
NoPackage(r) ==
    /\ At(r, "package") /\ To(r) \notin Standalone
    /\ Move(r, "hash")
    /\ UNCHANGED <<diskVars, at, managed, readVars, job, userVars>>

ReplacesPackage(r) == Overwrites(r) \/ Package \in Elements(prior[r].managed)

PackageRefused(r) ==
    /\ At(r, "package") /\ To(r) \in Standalone /\ Present(Package) /\ ~ReplacesPackage(r)
    /\ Return(r, "CREATE_ONLY_TARGET_EXISTS")
    /\ UNCHANGED <<diskVars, at, managed, readVars, job, userVars>>

\* stat, and rm of the tree that is there: no backup of it
RemovePackage(r) ==
    /\ At(r, "package") /\ To(r) \in Standalone /\ (Present(Package) => ReplacesPackage(r))
    /\ Move(r, "packageCopy")
    /\ WriteFile(Package, Nothing)
    /\ UNCHANGED <<backups, stamp, at, managed, readVars, job, userVars>>

CopyPackage(r) ==
    /\ At(r, "packageCopy") /\ ~Present(Package)
    /\ Move(r, "hash")
    /\ WriteFile(Package, Plain(To(r)))
    /\ managed' = [managed EXCEPT ![r] = Append(@, Package)]
    /\ UNCHANGED <<backups, stamp, at, readVars, job, userVars>>

\* cp with errorOnExist fails half-way, and nobody removes what it copied
CopyPackageFails(r) ==
    /\ At(r, "packageCopy")
    /\ IF Present(Package)
       THEN UNCHANGED <<files, failures>>
       ELSE Failure /\ WriteFile(Package, Plain(Partial))
    /\ Finish(r, "WRITE_FAILED")
    /\ UNCHANGED <<step, backups, stamp, at, managed, readVars, job, userVars>>

\* computeManagedFileHashes: what is not there gets no hash
HashFiles(r) ==
    /\ At(r, "hash")
    /\ Move(r, "writeStamp")
    /\ hashes' = [hashes EXCEPT ![r] =
          [p \in Paths |-> IF p \in Elements(managed[r]) THEN files[p] ELSE Nothing]]
    /\ UNCHANGED <<diskVars, at, managed, prior, cfg, merged, skipped, job, userVars>>

WriteStamp(r) ==
    /\ At(r, "writeStamp")
    /\ Move(r, "log")
    /\ stamp' = [state |-> "valid", version |-> To(r),
                 managed |-> managed[r], hashes |-> hashes[r]]
    /\ UNCHANGED <<files, backups, at, managed, readVars, job, userVars>>

\* the tarball has left the bundle: bundleSha256 is "", which readStamp rejects
WriteBadStamp(r) ==
    /\ At(r, "writeStamp")
    /\ Failure
    /\ step' = [step EXCEPT ![r] = "log"]
    /\ stamp' = BadStamp
    /\ UNCHANGED <<files, backups, at, managed, readVars, job, userVars,
                   runVars, dirVars, leftovers>>

--------------------------------------------------------------------------------
(* uninstall.                                                                *)

LocateForStrip(r) ==
    /\ At(r, "locate") /\ Is(r, "uninstall")
    /\ Move(r, "compare")
    /\ \/ Located = {} /\ cfg' = [cfg EXCEPT ![r] = None]
       \/ \E p \in Paths : Locates(p) /\ cfg' = [cfg EXCEPT ![r] = p]
    /\ UNCHANGED <<diskVars, at, managed, prior, merged, hashes, skipped, job, userVars>>

Comparing(r) == At(r, "compare") /\ at[r] \in DOMAIN prior[r].managed
Managed(r) == prior[r].managed[at[r]]

\* mutant: compares with the hashes of this run, which has not taken any
ModifiedByRun(r) == hashes[r][Managed(r)] \notin {Nothing, files[Managed(r)]}

\* the hash is recorded and is not the file's of now
Modified(r) == prior[r].hashes[Managed(r)] \notin {Nothing, files[Managed(r)]}

\* next: the located config file, a file that is gone, or one the user has modified
CompareSkips(r) ==
    /\ Comparing(r)
    /\ Managed(r) = cfg[r] \/ ~Present(Managed(r)) \/ Modified(r)
    /\ at' = [at EXCEPT ![r] = @ + 1]
    /\ skipped' = IF Managed(r) # cfg[r] /\ Present(Managed(r))
                  THEN [skipped EXCEPT ![r] = @ \cup {Managed(r)}] ELSE skipped
    /\ UNCHANGED <<step, lockVars, diskVars, managed, prior, cfg, merged, hashes, job, userVars>>

CompareMatches(r) ==
    /\ Comparing(r)
    /\ Managed(r) # cfg[r] /\ Present(Managed(r)) /\ ~Modified(r)
    /\ Move(r, "remove")
    /\ UNCHANGED <<diskVars, at, managed, readVars, job, userVars>>

\* rm(abs): what is there by now
RemoveManaged(r) ==
    /\ At(r, "remove")
    /\ Move(r, "compare")
    /\ at' = [at EXCEPT ![r] = @ + 1]
    /\ WriteFile(Managed(r), Nothing)
    /\ UNCHANGED <<backups, stamp, managed, readVars, job, userVars>>

\* rm fails: reported as already absent
RemoveManagedFails(r) ==
    /\ At(r, "remove")
    /\ Failure
    /\ step' = [step EXCEPT ![r] = "compare"]
    /\ at' = [at EXCEPT ![r] = @ + 1]
    /\ UNCHANGED <<diskVars, managed, readVars, job, userVars, runVars, dirVars, leftovers>>

CompareDone(r) ==
    /\ At(r, "compare") /\ at[r] \notin DOMAIN prior[r].managed
    /\ Move(r, IF cfg[r] = None THEN "dropStamp" ELSE "strip")
    /\ UNCHANGED <<diskVars, at, managed, readVars, job, userVars>>

\* readFile and removePluginEntry; written back, with a backup, only if it changed
StripEntry(r) ==
    /\ At(r, "strip") /\ Present(cfg[r])
    /\ Move(r, IF files[cfg[r]].entry = "yes" THEN "cfgBackup" ELSE "dropStamp")
    /\ merged' = [merged EXCEPT ![r] = RemovePluginEntry(files[cfg[r]])]
    /\ UNCHANGED <<diskVars, at, managed, prior, cfg, hashes, skipped, job, userVars>>

\* the config file has gone since it was located: readFile throws
StripFails(r) ==
    /\ At(r, "strip") /\ ~Present(cfg[r])
    /\ Return(r, "error")
    /\ UNCHANGED <<diskVars, at, managed, readVars, job, userVars>>

\* the stamp goes, whatever was skipped
DropStamp(r) ==
    /\ At(r, "dropStamp")
    /\ Move(r, "purge")
    /\ stamp' = NoStamp
    /\ UNCHANGED <<files, backups, at, managed, readVars, job, userVars>>

\* --purge-backups: the user asked for it, so those texts are no longer to be kept
Purge(r) ==
    /\ At(r, "purge")
    /\ Move(r, "log")
    /\ LET purged == IF Has(r, "purge") THEN Elements(prior[r].managed) ELSE {}
           left == [p \in Paths |-> IF p \in purged THEN {} ELSE backups[p]]
       IN  /\ backups' = left
           /\ kept' = kept \cap ({files[p].text : p \in Paths \ {Package}}
                                 \cup UNION {left[p] : p \in Paths})
    /\ UNCHANGED <<files, stamp, at, managed, readVars, job, edits, edited>>

--------------------------------------------------------------------------------
(* How a run ends.                                                           *)

Success(r) ==
    IF Is(r, "install") THEN "installed"
    ELSE IF Is(r, "update") THEN "updated" ELSE "uninstalled"

\* appendInstallLog
WriteLog(r) ==
    /\ At(r, "log")
    /\ Return(r, Success(r))
    /\ UNCHANGED <<diskVars, at, managed, readVars, job, userVars>>

\* mutant: the error leaves without the finally
StepFailsKeepsLock(r) ==
    /\ pc[r] = "held" /\ step[r] \notin {"remove", "purge"}
    /\ Failure
    /\ End(r, "error")
    /\ UNCHANGED <<attempts, age, dirVars, leftovers, step, diskVars, at, managed, readVars,
                   job, userVars>>

\* any await of a run throws: the files, npm, the smoke import.  Nothing is undone.
StepFails(r) ==
    /\ pc[r] = "held" /\ step[r] \notin {"remove", "purge"}
    /\ Failure
    /\ Finish(r, "error")
    /\ UNCHANGED <<step, diskVars, at, managed, readVars, job, userVars>>

Leave(r) == LeaveLock(r) /\ UNCHANGED lifeVars

--------------------------------------------------------------------------------
(* The environment: the clock, the death of a run, and the user.             *)

TimePasses == Tick /\ UNCHANGED lifeVars

Dies(r) == Crash(r) /\ UNCHANGED lifeVars

\* uninstall would take file p with this text for the installer's: the stamp names it with
\* the hash of this text, or without a hash ("treat as unmodified-managed, remove")
Unmodified(p, t) == p \in Elements(stamp.managed) /\ stamp.hashes[p].text \in {None, t}

\* The user changes the text of file p, creates it or deletes it (t = None), keeping
\* the plugin entry.  A text written while a run is working may be lost to it, and so
\* may one the stamp takes for installed: it was written while the hashes were taken, and
\* has been put back, or the file had gone by then.
UserEdits(p, t) ==
    /\ edits < MaxEdits /\ p \in EditablePaths /\ t # files[p].text
    /\ edits' = edits + 1
    /\ WriteFile(p, IF t = None THEN Nothing ELSE [files[p] EXCEPT !.text = t])
    /\ kept' = (kept \ {files[p].text})
               \cup IF \/ t = None \/ p = Package \/ Unmodified(p, t)
                       \/ \E r \in Runs : Holding(r) THEN {} ELSE {t}
    /\ edited' = edited \cup {p}
    /\ UNCHANGED <<lockVars, backups, stamp, localVars, job>>

--------------------------------------------------------------------------------

Begin(r) == TakeLock(r) \/ ReadBadStamp(r) \/ ReadStamp(r) \/ Decline(r) \/ Proceed(r)

Copy(r) ==
    \/ CopyCreates(r) \/ CopyRefused(r) \/ CopyBacksUp(r) \/ CopyReplaces(r) \/ CopiesDone(r)

Configure(r) == LocateForMerge(r) \/ BackUpConfig(r) \/ WriteConfig(r)

Complete(r) ==
    \/ NoPackage(r) \/ PackageRefused(r) \/ RemovePackage(r) \/ CopyPackage(r)
    \/ CopyPackageFails(r) \/ HashFiles(r) \/ WriteStamp(r) \/ WriteBadStamp(r)

Uninstall(r) ==
    \/ LocateForStrip(r) \/ CompareSkips(r) \/ CompareMatches(r) \/ RemoveManaged(r)
    \/ RemoveManagedFails(r) \/ CompareDone(r) \/ StripEntry(r) \/ StripFails(r)
    \/ DropStamp(r) \/ Purge(r)

Next ==
    \/ \E r \in Runs : Begin(r) \/ Copy(r) \/ Configure(r) \/ Complete(r) \/ Uninstall(r)
    \/ \E r \in Runs : WriteLog(r) \/ StepFails(r) \/ Leave(r) \/ Dies(r)
    \/ \E p \in Paths, t \in UserTexts \cup {None} : UserEdits(p, t)
    \/ TimePasses

Spec == Init /\ [][Next]_vars

--------------------------------------------------------------------------------
(* Properties.                                                               *)

Steps == {"readStamp", "decide", "copy", "replace", "locate", "cfgBackup", "cfgReplace",
          "package", "packageCopy", "hash", "writeStamp", "log",
          "compare", "remove", "strip", "dropStamp", "purge"}
Stamps == [state : {"absent", "valid", "corrupt"}, version : Versions \cup {0},
           managed : Seq(Paths), hashes : [Paths -> Files]]

DiskTypeOK ==
    /\ files \in [Paths -> Files] /\ backups \in [Paths -> SUBSET Texts] /\ stamp \in Stamps
    /\ kept \subseteq UserTexts /\ edited \subseteq Paths

RunTypeOK ==
    /\ job \in Jobs /\ step \in [Runs -> Steps] /\ at \in [Runs -> Nat]
    /\ prior \in [Runs -> Stamps] /\ cfg \in [Runs -> Paths \cup {None}]
    /\ merged \in [Runs -> Files] /\ managed \in [Runs -> Seq(Paths)]
    /\ hashes \in [Runs -> [Paths -> Files]] /\ skipped \in [Runs -> SUBSET Paths]
    /\ \A r \in Runs :
          /\ step[r] \in {"cfgBackup", "cfgReplace", "strip"} => cfg[r] \in Paths
          /\ step[r] = "replace" => at[r] \in DOMAIN Copies[To(r)]
          /\ step[r] = "remove" => at[r] \in DOMAIN prior[r].managed

TypeOK == LockTypeOK /\ DiskTypeOK /\ RunTypeOK /\ edits \in Nat

\* A text of the user's that was there when a run began, anywhere but in the package
\* tree, is still in a file or in a backup afterwards, unless the user removed or
\* purged it: no install, update or uninstall loses it, failed or crashed at any point
\* and in any sequence.
UserTextKept ==
    \A u \in kept : \E p \in Paths : files[p].text = u \/ u \in backups[p]

\* When install or update writes its stamp, the stamp names every file of that version
\* and its hash is of that version, except where the user has just been editing.
WritesCompleteStamp(r) ==
    step[r] = "writeStamp" /\ step'[r] = "log" /\ stamp'.state = "valid" =>
       /\ Copies[To(r)] = SubSeq(stamp'.managed, 1, Len(Copies[To(r)]))
       /\ \A p \in Elements(Copies[To(r)]) \ edited : stamp'.hashes[p] = Plain(To(r))
       /\ \E p \in (Elements(stamp'.managed) \cap Elements(Configs)) :
             stamp'.hashes[p].entry = "yes" \/ p \in edited
       /\ To(r) \in Standalone \ {v \in Versions : Package \in edited} =>
             stamp'.hashes[Package] = Plain(To(r))
StampIsComplete == [][\A r \in Runs : WritesCompleteStamp(r)]_vars

--------------------------------------------------------------------------------
(* Why the user's texts are kept: the inductive invariant of runs that are   *)
(* serialized.                                                               *)

\* the file a run is about to overwrite or remove
Target(r) ==
    CASE At(r, "replace") -> {Entry(r)}
      [] At(r, "cfgReplace") -> {cfg[r]}
      [] At(r, "remove") -> {Managed(r)}
      [] OTHER -> {}

\* what a run has read and written of: until it writes or drops the stamp, the stamp it has
\* read is the one that is there
Informed(r) ==
    /\ pc[r] \in {"idle", "mkdir", "classify", "reap", "owner", "utimes"} =>
          step[r] = "readStamp" /\ managed[r] = <<>>
    /\ step[r] \in {"compare", "remove", "strip", "dropStamp", "purge"} => Is(r, "uninstall")
    /\ Is(r, "uninstall") =>
          /\ managed[r] = <<>>
          /\ step[r] \notin {"copy", "replace", "package", "packageCopy", "hash", "writeStamp"}
    /\ Holding(r) => \/ step[r] \in {"readStamp", "log"}
                     \/ step[r] = "purge" /\ stamp = NoStamp
                     \/ step[r] # "purge" /\ prior[r] = stamp

\* where uninstall would leave the text, and the run that works has not written nor is about to
SafeAt(u, p) ==
    /\ files[p].text = u /\ ~Unmodified(p, u)
    /\ \A r \in Runs : Holding(r) => p \notin Elements(managed[r]) \cup Target(r)

TextsSafe ==
    \A u \in kept : \/ \E p \in Paths : u \in backups[p]
                   \/ \E p \in Paths \ {Package} : SafeAt(u, p)

\* Where install and update stand: the first of the managed paths are those of the plan, and
\* what they have written is there, or in the hashes, unless the user has edited it since.
Arrived(r, n) ==
    n <= Len(managed[r]) /\ \A k \in 1 .. n : managed[r][k] = Copies[To(r)][k]
Delivered(r, content) ==
    /\ \A p \in Elements(managed[r]) \cap Elements(Copies[To(r)]) :
          content[p] = Plain(To(r)) \/ p \in edited
    /\ step[r] \in {"package", "packageCopy", "hash", "writeStamp"} =>
          /\ cfg[r] \in Elements(managed[r]) \cap Elements(Configs)
          /\ content[cfg[r]].entry = "yes" \/ cfg[r] \in edited
    /\ step[r] \in {"hash", "writeStamp"} /\ To(r) \in Standalone =>
          /\ Package \in Elements(managed[r])
          /\ content[Package] = Plain(To(r)) \/ Package \in edited
Following(r) ==
    /\ step[r] \in {"readStamp", "decide"} => at[r] = 1 /\ managed[r] = <<>>
    /\ Holding(r) /\ ~Is(r, "uninstall") =>
          /\ step[r] \in {"copy", "replace"} =>
                Arrived(r, at[r] - 1) /\ Len(managed[r]) = at[r] - 1
                /\ at[r] \in 1 .. Len(Copies[To(r)]) + 1
          /\ step[r] \in {"locate", "cfgBackup", "cfgReplace", "package", "packageCopy", "hash",
                          "writeStamp"} => Arrived(r, Len(Copies[To(r)]))
          /\ step[r] \in {"cfgBackup", "cfgReplace"} =>
                cfg[r] \in Elements(Configs) /\ merged[r].entry = "yes"
          /\ step[r] \notin {"writeStamp", "log"} => Delivered(r, files)
          /\ step[r] = "writeStamp" => Delivered(r, hashes[r])

--------------------------------------------------------------------------------
(* A project that nothing has disturbed: no run has failed or died, and the  *)
(* user has changed nothing.                                                 *)

Undisturbed == failures = 0 /\ leftovers = 0 /\ edits = 0

\* the files that stamp s names are all there, and as it says
AsStamped(s) ==
    s.state = "valid" /\ \A p \in Elements(s.managed) : Present(p) /\ files[p] = s.hashes[p]

\* a stamp that names the copies of its version, a config file with the entry, and the
\* package tree if the bundle has one
Describes(s) ==
    /\ s.state = "valid" /\ s.version \in Versions
    /\ Elements(Copies[s.version]) \subseteq Elements(s.managed)
    /\ Elements(s.managed) \subseteq
          Elements(Copies[s.version]) \cup Elements(Configs) \cup {Package}
    /\ \A p \in Elements(Copies[s.version]) : s.hashes[p] = Plain(s.version)
    /\ \A p \in Elements(s.managed) \cap Elements(Configs) : s.hashes[p].entry = "yes"
    /\ Package \in Elements(s.managed) => s.hashes[Package] = Plain(s.version)
    /\ s.version \in Standalone => Package \in Elements(s.managed)

Installed == Describes(stamp) /\ AsStamped(stamp)
             /\ \E p \in Elements(stamp.managed) : Locates(p)

\* a run that may have begun to change the files, and has not changed the stamp yet
Changing(r) == pc[r] = "held" /\ step[r] \notin {"readStamp", "decide", "log", "purge"}

\* install and update on the way to a new stamp
Building(r) ==
    /\ stamp.state # "absent" => Overwrites(r) /\ Describes(stamp)
    /\ Elements(managed[r]) \subseteq
          Elements(Copies[To(r)]) \cup
          (IF step[r] \in {"package", "packageCopy", "hash", "writeStamp"} THEN {cfg[r]} ELSE {})
          \cup (IF step[r] \in {"hash", "writeStamp"} /\ To(r) \in Standalone
                THEN {Package} ELSE {})
    /\ step[r] \in {"cfgBackup", "cfgReplace"} =>
          Locates(cfg[r]) \/ (Located = {} /\ cfg[r] = NewConfig)
    /\ step[r] \in {"package", "packageCopy", "hash", "writeStamp"} => Locates(cfg[r])
    /\ step[r] = "packageCopy" => To(r) \in Standalone /\ ~Present(Package)
    /\ step[r] = "writeStamp" => \A p \in Elements(managed[r]) : hashes[r][p] = files[p]
    /\ stamp.state # "absent" =>
          \* the config file and, as long as it is the old one, the package tree
          /\ \E p \in Elements(stamp.managed) : Locates(p) /\ files[p] = stamp.hashes[p]
          /\ step[r] \in {"cfgBackup", "cfgReplace"} => merged[r] = files[cfg[r]]
          /\ /\ Package \in Elements(stamp.managed)
             /\ To(r) \in Standalone => step[r] \notin {"packageCopy", "hash", "writeStamp"}
             => files[Package] = stamp.hashes[Package]
          \* all files when the same version is put over them
          /\ To(r) = stamp.version => \A p \in Elements(stamp.managed) \ {Package} :
                                          Present(p) /\ files[p] = stamp.hashes[p]

\* uninstall on the way to none
Stripping(r) ==
    /\ Describes(stamp)
    /\ \/ step[r] \in {"compare", "remove"} /\ cfg[r] # None
       \/ step[r] \in {"strip", "cfgBackup", "cfgReplace"}
       => cfg[r] \in Elements(Configs) /\ Present(cfg[r])
    /\ step[r] = "remove" => Managed(r) # cfg[r]
    /\ step[r] \in {"cfgBackup", "cfgReplace"} => merged[r].entry = "no"

\* Unless a run is changing it, an undisturbed project has no stamp or is as that says.
Settled ==
    Undisturbed =>
       /\ edited = {}
       /\ stamp.state = "absent" \/ Installed \/ \E r \in Runs : Changing(r)
       /\ \A r \in Runs : Changing(r) => IF Is(r, "uninstall") THEN Stripping(r) ELSE Building(r)

\* While runs are serialized, every text to be kept is in a backup, or in a file that no
\* step of the run that works will touch and no later uninstall will take for its own; what
\* an install or update has put into the project is where its plan says; and a project that
\* nothing has disturbed is as its stamp says.
LifecycleInv == TypeOK /\ (\A r \in Runs : Informed(r) /\ Following(r)) /\ TextsSafe /\ Settled
================================================================================
