# Tiny Yeah: TLA+ models and proofs

Tiny Yeah (`src/`) keeps its state in plain files of a project and changes them from
several processes: an OpenCode plugin, a library surface and an installer command. Its
hard part is not computation but files: which call may touch which file, in which order,
and what is left when a call fails, stalls or dies half-way. The modules here model that
part one filesystem call at a time, TLC checks them on small instances, and TLAPS proves
the main properties for every instance. Two of its algorithms, the order in which feature
packages are composed and the walk of the import graph, are modelled loop pass by loop
pass in the same way.

1. [The system](#1-the-system) 2. [The modules](#2-the-modules) 3. [The runs](#3-the-runs)
4. [Fairness](#4-fairness) 5. [What is proved](#5-what-is-proved)
6. [What the code does that its comments do not say](#6-findings)
7. [What is not modelled](#7-what-is-not-modelled) 8. [Plan](#8-plan)

Line numbers are those of the source file named, for example `lock-store.ts:177`.

## 1. The system

| Component | State | Operations | Depends on |
|---|---|---|---|
| lock store (`core/state/lock-store.ts`) | a lock directory with `owner.json`, a `.reaper` directory beside it, the renewal timer of each handle | `acquireTinyYeahLock`, `withTinyYeahLock`, `assertActive`, renewal, `release`, reaping of stale directories | the file system, the clock |
| checkpoint (`core/checkpoint/`) | `previews/<id>.json`, `checkpoints/<id>.json`, staging files, temp siblings, the files created | `createPreview`, `applyPreview`, `writeCreateOnlyFile`, `withWriteRetry` | lock store, file store, hashing |
| file store (`core/state/file-store.ts`) | the JSON files | read with schema, temp-and-rename write | path safety |
| installer lock (`head/installer/lock.ts`) | a lock directory with `owner.json` | `acquireInstallerLock`, reap of a stale directory, `release` | the file system, the clock |
| installer lifecycle (`head/installer/lifecycle.ts` with `plan`, `writer`, `stamp`, `standalone-package`, `opencode-config`, `bundle-reader`, `semver`) | the project's installed files, their backups, the OpenCode config, the install stamp, the log | `install`, `update`, `uninstall` | installer lock, npm |
| doctor (`head/installer/doctor.ts`) | none | a sequence of read-only diagnostics of config, package, stamp and installed files, all under one timeout | stamp, config, semver; takes no lock |
| composer (`core/composer/`) | none | validation of feature packages, their order by dependency, composition of their tools | |
| evidence (`core/evidence/`) | none | import graph to a bounded depth and size, matching of runtime evidence, redaction | the files imported |
| pipeline (`core/pipeline/`) | none of its own | analyze, plan, draft, render, validate | evidence, checkpoint |
| model contract (`src/model-contract/`) | none | validation of a model's intents, approval of a preview, budgets | previews, `applyPreview` |
| library surface (`head/library/`) | none | resume from a stored preview, focus packet | checkpoint |
| OpenCode plugin (`head/opencode/`) | none | adapters, budgets of output, the filter of disabled packages, the routing of a handler's manifest through approval (`tiny-tool.ts`) | composer, model contract, library surface |
| release scripts (`scripts/release/`) | the output directory with an archive and its `SHA256SUMS`, a temporary directory | build and verify an offline bundle | npm, tar, the command line |
| command line (`bin/tiny-yeah.js`) | a temporary directory with the extracted archive | `install`, `update`, `uninstall`, `doctor`, with an exit code | bundle reader, lifecycle, doctor, imported from the bundle or from its own `dist/` |

How they interact. Every mutation of a user's project goes through one of two doors.
`applyPreview` takes the lock store's `apply` lock without blocking, reads the preview
and the checkpoint `createPreview` stored, checks all actions and then creates files.
`install`, `update` and `uninstall` take the installer lock, read the stamp, write, and
write the stamp last. The two locks are different algorithms and exclude only their own
users. Everything else reads, or computes values that are handed to one of the doors.

A release reaches the second door along a chain whose links know each other only through
files: a build stages the package and archives it; the verifier extracts the archive,
installs it twice and reports; the command extracts the archive again or takes a
directory somebody extracted, checks what is in it, and calls the lifecycle. Each link
may fail, and a build may replace the archive while a later link is at work.

What is hard, and what makes each part correct:

- **lock store**: interleavings of acquisition, reaping, renewal and release, with stalls
  and crashes between any two calls. At most one caller has a live lease; a live lease is
  backed by the directory on disk; the reaper admits one thread; a finished call leaves
  no owner behind; no call waits for ever.
- **checkpoint**: staleness of every file read before it is used, a lease that runs out
  unnoticed, retries of half-done primitives, failures in the middle of a batch. Nothing
  is replaced, nothing uncommitted is written, nothing is written before the whole
  pre-flight has passed, no temp file stays, the lock comes free.
- **installer lock**: it is not renewed, and reaping and release ask nothing about the
  owner. It serializes runs if they are short, until one dies.
- **installer lifecycle**: a failure or death after any await, several runs one after the
  other, a user who edits in between. The user's texts survive, the stamp describes what
  is on disk, the lock directory goes on every path.
- **release scripts**: two ways of getting the dependencies, each of several steps that
  fail on their own. A bundle never claims to be complete when it is not, a checksum never
  fits half an archive, and what was verified installs.
- **command line**: one exit code for what failed at very different moments. Zero means
  installed; a refusal leaves the project alone; a forced install repairs what earlier
  failures left; no extracted archive stays behind.
- **composer**: repeated, missing, circular dependencies. No package comes before one it
  depends on, the order does not depend on how the list is written, and a list is refused
  for what is wrong with it and nothing else.
- **evidence**: a depth and a size limit cut off a walk through a graph with cycles. A
  graph that is not marked as cut off is complete, and the limit is reported only when
  there was more.
- **hashing, semver**: pure functions. Hashes do not depend on key order, versions are
  ordered as SemVer says.
- **doctor**: reads one file after the other while the writers above are at work, and a
  timer may overtake it. It must not call an installation healthy that was at no moment
  what its stamp says, and must agree with what a finished install has just written.
- **approval**: what a person approves is a summary read at one moment; what is applied is
  read later, after the call has committed its manifest again. Nothing may be created
  that no summary showed, whatever other calls did in between.
- **resume**: a read that races the writers above.

`PROJECT.json` lists the hazards one by one, with their lines and the properties that
cover them; a hazard with no property says why.

## 2. The modules

| Module | Models | Used by |
|---|---|---|
| `LeaseLock` | the promise of the lock store: a lease, granted when free, dropped, never handed over | `LockStore` (implements it), `CheckpointApply` (uses it) |
| `LockStore` | `lock-store.ts`, one filesystem call per step | `MCLockStore`, `LockStoreProofs` |
| `CheckpointApply` | `preview.ts`, `apply.ts`, `atomic-write.ts` and the reads and writes of `file-store.ts` under them | `ApprovalGate`, `MCCheckpointApply`, `CheckpointApplyProofs` |
| `ApprovalGate` | `tiny-tool.ts` and `approval.ts` over `CheckpointApply`: calls of a tool that commit, summarize or apply | `MCApprovalGate`, `CheckpointApplyProofs` |
| `InstallerLock` | `lock.ts` of the installer | `InstallLifecycle`, `MCInstallerLock`, `InstallerLockProofs` |
| `InstallLifecycle` | `install`, `update`, `uninstall` under that lock | `MCInstallLifecycle`, `InstallLifecycleProofs` |
| `SemVer` | `compareSemver` | `Doctor`, `DoctorProofs` |
| `Doctor` | `doctor` beside the runs of `InstallLifecycle` | `MCDoctor`, `DoctorProofs` |
| `BundleRelease` | `build-offline-bundle.mjs`, one build after another into one output directory | `OfflineBundle` (which implements it) |
| `InstallCommand` | `bin/tiny-yeah.js` with `bundle-reader.ts`, and the lifecycle as the command sees it | `OfflineBundle` |
| `OfflineBundle` | `verify-offline-bundle.mjs` and its modules; the composition of builds, verifications and commands | `MCOfflineBundle`, `OfflineBundleProofs` |
| `PackageOrder` | the promise of the composer's order: always the least package whose dependencies are placed | `FeatureComposer` (implements it) |
| `FeatureComposer` | `order.ts` and `composer.ts`, one pass of a loop per step | `MCFeatureComposer`, `FeatureComposerProofs` |
| `SourceGraph` | `source-graph.ts`: the recursive walk with its stack | `MCSourceGraph`, `SourceGraphProofs` |

Every model is compositional: `CheckpointApply` uses the abstract lease instead of the
files of the lock store, which the refinement `ImplementsLease` justifies;
`InstallLifecycle` extends `InstallerLock` and runs its real steps. Definitions that begin
with the comment `mutant:` are plausible mistakes in the operation that follows them; they
are in no specification and serve to show that a property notices the mistake.

**LockStore.** A client is one call of `acquireTinyYeahLock`. It has a main thread (`pc`)
and a renewal thread; `life` says where each is inside `withLifecycleLock`, the section
guarded by the reaper directory. `dir`, `owner`, `reaper` are the disk. `writeOwner` is
one step while the directory is new and two steps (truncate, fill) when a renewal rewrites
it, because `assertActive` reads without the reaper; `opened` says whose open file is
still the one on disk, so that a write into an unlinked file is lost as it is on disk.
Time is kept as ages: the code compares `Date.now()` only with times it stored, so each
stored time is a number of ticks ago, cut off one tick past the largest limit it is
compared with. `Tick` lets at most `MaxStall` ticks pass inside one run of filesystem
calls; between runs (polls, the caller's work) time is unbounded. A crash leaves the disk
as it is. Every filesystem call may also fail (`WriteOwnerFails`, `RenewWriteFails`,
`FileErrors`, `ReaperErrors`): an `rm` of the lock directory may remove nothing, or owner.json
and not the directory; an error at the reaper rejects what goes through `withLifecycleLock`;
an error of reading owner.json makes `assertActive` and the renewal say the lock is
compromised and makes `releaseLock` return as if it had released. `hindered` is a history
variable: the clients whose own removal of the lock met such an error. `ReaperLeft` says
whether a reaper directory may be left behind, by a crash in its section or by the failure of
the `rm` of `lock-store.ts:199`.

**CheckpointApply.** A hash is the content it is the hash of, a manifest hash the manifest
(the preview id is the separate function `IdOf`, because 12 hex digits may collide). A
`path` string is a name, and `TargetOf` is the file it resolves to: two names may be one
file. Each await is a step; the four checks the pre-flight makes of one action are one
step, with the order of the checks kept in `Verdict`. The lease may run out in the middle,
since `applyPreview` never asks again. `withWriteRetry` is modelled by which errors it
retries and where it starts again; its backoff times are the budget `MaxRetries`.
`written`, `maker` and `committed` are history variables. A release of the apply lock that
fails leaves it until its lease has run out, which is what a `Crash` at that step leaves.

**ApprovalGate.** A call is the author of its preview and its applier, and takes the steps
of `CheckpointApply` under both names, side by side with the other calls. `gate` is where it
is in `routeToolOutput`, `approved` the id it was given: none, or one from any summary
returned so far (`shown`, a history variable). `shown` keeps the whole manifest hash and the
list a summary was made of. Handlers are pure, so their other outputs are left out.

**InstallerLock.** As `LockStore`, with what the installer's lock has: no reaper, no
renewal, no owner check, two attempts. `MaxHold` bounds how long a run keeps the
directory; the code bounds it nowhere. An `rm` of the directory may fail in the reaping
(`AcquireFails`), after a failed owner write and in the release (both `RemoveFails`).

**InstallLifecycle.** A file is a text and whether the plugin entry is in it; its hash is
the file. `step` follows the awaits that touch the project; `Refusal` is the cascade of
early returns of the three operations in their order. That a copied path is neither a
config file nor the package tree, as in every plan, is assumed of the constants.
`backupAndWrite` is two steps (copy, rename), the standalone package tree one file whose copy may fail half-way, and
`StepFails` the failure of any await, npm and the smoke import included. The user edits
between and during runs. `kept` and `edited` are history variables.
Of a plan it is assumed, as `plan.ts` builds it, that it copies package.json, and of the
candidate config files that none is listed twice.
`--dry-run` ends in `Refusal`, before any write but that of the lock directory.

**SemVer.** A version is a parsed one, a prerelease identifier a number or the place of a
string in JavaScript's order, so that the lists of identifiers compare as in
`comparePrerelease`. In `InstallLifecycle` a version is a number: only its order matters
there. That the order is total is proved (`CompareSemverTotalOrder`); the assumption
`PrecedenceIsTotal` of `MCDoctor` makes TLC evaluate the same over versions that tell all
cases of the comparison apart, with the operator as it is written.

**Doctor.** One call of `doctor` beside the runs of `InstallLifecycle`, which go on
unchanged (`LifecycleStep`). Each await that reads the project is an action (`ProbeConfig`,
`ReadConfig`, `ProbeStamp`, `CheckExportsSmokeImport`, one `HashFile` for each managed
path); each check is an operator on what was read and on what the machine says of Node,
PowerShell and OpenCode, which are constants. The checks that read nothing more are made
in the last step, since when they are made makes no difference. `SmokeOutcomes` says what
the three imports can find in a package tree of the installer's, of the user's, or in the
making. `TimesOut` may come at any moment after the start, `DoctorThrows` are the two ways
out that are no report. `vouched` (at one moment since the stamp was read all files were as
it says), `quiet` (nothing has changed since the start) and `met` (the runs that had the lock
while doctor was at work) are history variables. The test hook `extraChecks` is left out.

**BundleRelease, InstallCommand, OfflineBundle.** A bundle is reduced to what its manifest
claims, the kind of `node_modules` that went into its tarball and its package tree, and
whether its code can be imported (`works`, which nobody knows before a verification or a
smoke import tries). An archive is its bundle, the number of its build, and whether tar has written all of it; the
hash of an archive is the archive. `modules` follows `staging/node_modules` through both
ways of getting dependencies; each npm or file operation of them is an action with its own
failure. A bundle directory (`source`, or `run.private` for one extracted by the command)
has five parts, each good, bad or missing, of which `distHashes` covers one and
`SHA256SUMS` those it lists. A command line is a sequence of tokens, parsed by
`ParseToken` as `parseArgs` does. `run` is one command from `Start` to its exit code;
`project` has the stamp's version and, per copied part, which release's copy is there.
The lifecycle's writes are taken in larger steps than in `InstallLifecycle`, where
they are file by file; what matters here is what the command makes of their failures.
`StepFails`, `CommandDies`, `CheckThrows`, `CheckDies`, `BuildThrows` and `EndBuild` are the failures,
`SourceChanges` damage to a bundle on disk, `ExtractByHand` a person with tar.
A command that died, or whose `release` threw (`ReleaseThrows`), may have left the installer
lock; how long ago is not kept, so `TakeLock` may be refused (`INSTALL_LOCKED`, exit code 5)
whenever something has failed before. `Homes` are what the project's own dependency
`node_modules/tiny-yeah`, which `uninstall` and `doctor` try first, and the command's own
`dist/` may hold. The `.opencode` directory that taking the lock makes is not part of
`project`.
`run.clean`, `run.began`, `run.last`, `check.sound` and `serves` are history.

**FeatureComposer.** Ids are numbers, in the order `sort` puts them. The array `ready`,
sorted after every push, is a set of which `Shift` takes the least. An edge is a package
and a *place* in its `dependsOn`, so that a dependency listed twice is two edges, as in the
code. `Inherited` are the names every JavaScript object has a property of, because
`tools[name]` finds those too. Resources, prompts and instructions of the packages are
concatenated in the same order and left out.

**SourceGraph.** `stack` is the stack of the calls of `walk`, with the index each has come
to in its imports; `call` is the call being entered. An import is the sequence of the
paths `resolveImport` tries, of which the first that exists is taken; reading it may still
fail (a directory, `EISDIR`).

## 3. The runs

`tlc -config X.cfg M` runs one. State counts are distinct states.

| Run | Instance | Shows |
|---|---|---|
| `lock_safety` | 2 clients, one non-blocking, one scoped; Stale = Timeout = MaxStall = 1; 1 crash outside the reaper; errors of every call but the `rm` of the reaper | the inductive invariant `IInv` (types included), `LeaseExclusion`, `LeaseBacked`, `ReaperExclusion`, and that the files implement `LeaseLock` |
| `lock_recovery` | the same two, every limit 0, MaxStall 1, a crash anywhere, errors of every call | `NothingLeftBehind` in a hostile environment; `EveryCallEnds` |
| `lock_crashed_reaper` | 3 non-blocking clients, every limit 0, no stalls, a crash or a failed `rm` in the reaper | `LeaseExclusion` fails (finding 1) |
| `apply_safety` | 1 author, 2 applies of one preview, five manifests (plain, wrong hash, name outside, path twice, two names of one file), 1 crash, 1 retry, 1 act of a user or of the lease | the inductive invariant `ApplyInv`, `WrittenAsCommitted`, `NothingBeforePreflight`, `NoTempLeft`, `NoClobber` (505,762 states) |
| `approval_gate` | 3 calls, each with one of three manifests of which two share an id, approved for none or any id shown; 1 crash | `AppliesWholeManifest`, `AppliedAsShown`, `LockComesFree` (247,719 states, about a minute) |
| `apply_all_or_nothing` | 1 apply of two names of one file | `AllOrNothing` fails (finding 2) |
| `install_lock` | 3 runs, Stale = MaxHold = 2, 1 failure, 1 leftover | the inductive invariant `LockInv`, `SerializedUntilLeftover` (203,087 states) |
| `install_safety` | six pairs of operations on an empty, a used and an installed project; 1 edit, 1 crash, 1 failure | the inductive invariant `LifecycleInv`, `LockReleased`, `UserTextKept`, `StampIsComplete` (1,452,957 states) |
| `install_doctor` | one doctor beside three pairs of an install, update or uninstall; an empty project, one with the user's package, one with two config files of the user's; 1 failure; both modes | the inductive invariant `DoctorInv` (types included), `HealthyWasIntact`, `FinishedIsHealthy` (1,979,791 states, about two and a half minutes) |
| `offline_bundle` | 2 builds, 2 mishaps of builds; 2 commands out of ten command lines, 1 failure; at most 2 mishaps and failures together; a bundle with and without a `SHA256SUMS` of its tarball; a project that is empty or has an older or newer version | the inductive invariant `BundleInv` (types included), `AirGapHonest`, `ChecksummedIsWhole`, `ExitZeroIsTrue`, `RefusedUntouched`, `NoTempLeft`, `ForceRepairs`, `VerifiedInstalls` (2,154,790 states, about two and a half minutes) |
| `composer_order` | 4 packages, every choice of six lists of dependencies for each; every choice of five lists of tools for 3; shapes and duplicate ids of 3; three sets of disabled packages | the inductive invariant `ComposerInv`, `DependenciesFirst`, `CycleNamed`, `RefusedForCause`, and that the algorithm implements `PackageOrder` (23,009 states) |
| `source_graph` | every graph of 4 files with eight lists of imports for each, a directory and a file that is gone; depth 0 to 3, limit 0 to 4 | the inductive invariant `WalkInv`, `CompleteUnlessTruncated`, `OnlyReached` (517,104 states) |

Why the bounds are enough to be interesting:

- Two clients meet in every pair of operations of the lock; a third is needed only for
  two reapers and a victim, which is the crashed reaper's run. Limits of one tick
  distinguish fresh, old but live, and stale. `MaxStall = Stale` is the largest stall
  under which the lock is correct: with `MaxStall = Stale + 1` `LeaseExclusion` fails, and
  that is inherent to a lease. `lock_recovery` allows the larger stall.
- In `apply_safety` one act of the environment is enough for every hazard listed there
  (a lost lease, a created, deleted or edited file), and it may fall anywhere in either
  apply. A manifest of two actions is the smallest in which one is written before another
  fails.
- In `approval_gate` two manifests with one id cover a preview of one beside the checkpoint
  of the other; the third call is approved with what the first was shown while the second
  replaces it. With one retry (599,169 states) or one edit of a preview by hand (933,897
  states) the properties hold as well; both take several minutes.
- In `install_safety` two runs give every order of two operations; every pair listed is
  one in which the second meets what the first left. The package.json of the plan stands
  for all templates. The symmetry of the two user texts is sound: they occur in no
  constant that tells them apart, and no liveness is checked there.
  In the run `Stale = MaxHold = 0`, so that a run may be reaped
  only after it has died.
- In `install_doctor` the pairs are the ones in which files of two versions lie side by
  side while doctor reads: an update after an install, a forced reinstall of the old
  version after an update, and a forced install after an uninstall. The failure may fall
  anywhere, so that `FinishedIsHealthy` and `HealthyWasIntact` meet projects that a failed
  run has left; the third pair is the one on which the stronger `HealthyWasIntact`
  below fails. The second config file is shadowed by the first.
- In `offline_bundle` two builds let one replace what the other made while it is
  read; two commands let one meet what another left; two failures let a build fail in the
  first way of getting dependencies and again in the second, or a command fail on a damaged
  bundle. The ten command lines have every command, the three places a bundle comes from,
  every flag that changes control, a value that looks like a flag, and a literal after `--`.
- In `composer_order` four packages are enough for a cycle with a package downstream of it
  and a diamond beside it, and the lists of dependencies include a package itself, one
  listed twice and one that is not there. Packages are listed in an order that is not
  that of their ids.
- In `source_graph` depth 3 is the least at which a file is reached at the last level by one
  path and above it by another, and limits 2 to 4 fall before, at and after the number of
  files a small graph has.

Deadlock is not checked: every client makes one call, every run of a command or script ends,
and the two algorithms terminate.

Each property of a passing run has a mutant in `PROJECT.json` on which it fails under the
same configuration, so none of them holds merely by the shape of a model. Two examples:
`>` turned into `>=` in the reaper's age check breaks `ReaperExclusion`, and `rename` in
place of `link` breaks `NoClobber`.

The invariants for the reader who wants few:

- `LeaseExclusion`: two callers never both have a handle whose own record still runs.
- `WrittenAsCommitted`: a file that an apply created has exactly the content some committed
  manifest asks for at that place, whatever happened to previews and staging files since.
- `AppliedAsShown`: a file that a call of a tool created is what some manifest asks for whose
  hash was in a summary under the id the call was given. Approval compares ids, so it is
  stated for manifests whose ids differ (`IdsTellApart`); `AppliesWholeManifest` is stated
  without that.
- `UserTextKept`: a text the user had when a run began is afterwards still in a file or in
  a backup. It leaves out what the code leaves out on purpose: the package tree, backups
  the user purges, texts written while a run works, and texts the stamp takes for
  installed: one put at a managed path for which it has no hash, or with that very hash.
- `HealthyWasIntact`: although doctor reads the files at different moments and without the
  lock, there was one moment at which all of them were as the stamp it read says, if it
  calls the installation healthy beside one install, update or uninstall of a project that
  nothing has disturbed. It says nothing about which stamp that was: doctor may vouch for one
  that has been replaced. Without the two conditions it is false, and TLC shows both. Without
  either: an uninstall fails to remove package.json, doctor hashes it as the stamp says,
  and the forced install of another version that follows overwrites it and puts back what
  else was missing. Without a failure it takes four runs, and a plan that copies
  package.json before the tarball: an update, an uninstall, an install that is refused for
  the old tarball after it has put package.json back, and a forced install. `plan.ts` has
  the tarball first; the theorem is about every plan.
- `VerifiedInstalls`: an archive the verifier reported ok installs, on whatever path, whatever
  happened to the output directory since. Its antecedent needs a build, a verification and
  an install of that very build, with any other build, command or failure in between.
- `ExitZeroIsTrue` and `RefusedUntouched`: the exit code is the only thing a script sees of an
  install. The exceptions written into them are real paths of the code (section 6).
- `CycleNamed`: the packages named are the *largest* set of packages that wait for one
  another, so none is missing, and none is named that could have been ordered.

## 4. Fairness

`LockStore.Fairness`: weak fairness of time and of every thread's next step once a call or
a renewal has begun. The code justifies it: a thread is a chain of awaits of filesystem
calls and `setTimeout`s in one event loop, and a live process runs both. Nobody has to
begin a call or a renewal, and nothing is assumed about which of two contenders wins.
Errors (`FileErrors`, `ReaperErrors`), crashes and the firing of the renewal timer are under
none either. No strong fairness is needed: the acquiring loop ends because time runs out, not because
it gets its turn.

`ApprovalGate.GateFairness`: weak fairness of an apply that has begun, and of the expiry of
a *dead* holder's lease, which is what `lock_recovery` shows of the lock store. Users,
commits, new calls and crashes are under no fairness. The other modules are safety only: `FeatureComposer`
and `SourceGraph` are loops with a bound that is in their invariants, commands and builds
are chains of steps whose waits for npm and tar nothing in the scripts bounds.

## 5. What is proved

`tlapm` checks every proof to the last leaf. For all values of the constants that meet
the named `ASSUME` of the module:

| Theorem | Needs | Says |
|---|---|---|
| `LockTypeCorrect` | - | types of `LockStore` |
| `LockNothingLeftBehind` | - | `NothingLeftBehind`, in any environment: whatever crashes, stalls or fails, owner.json names an ended call only if its own release or cleanup met an error |
| `LockLeaseExclusion`, `LockLeaseBacked`, `LockReaperExclusion` | `CalmEnvironment` | the three invariants |
| `LockInvariant` | `CalmEnvironment` | `IInv` |
| `LockImplementsLease` | `CalmEnvironment` | `LockStore` implements `LeaseLock` |
| `ApplyTypeCorrect`, `ApplyWrittenAsCommitted`, `ApplyNoTempLeft`, `ApplyNothingBeforePreflight` | - | the invariants of `CheckpointApply` |
| `ApplyInvariant` | - | `ApplyInv` |
| `ApplyWholeManifest` | - | `AppliesWholeManifest` |
| `GateAppliesAsShown` | - | `AppliedAsShown`, for any number of calls side by side |
| `ApplyNoClobber` | - | the action property `NoClobber` |
| `InstallerLockTypeCorrect` | - | types of `InstallerLock` |
| `InstallerLockInvariant`, `InstallerRunsSerialized` | `ShortInstalls` | the lock serializes its runs |
| `LifecycleLockReleased` | - | a lock directory has an owner, a dead run or a failed `rm` behind it, in the whole lifecycle |
| `LifecycleSerialized` | `ShortInstalls` | install, update and uninstall are serialized |
| `LifecycleTypeCorrect` | - | types of `InstallLifecycle` |
| `LifecycleInvariant`, `LifecycleTextKept`, `LifecycleStampComplete` | `[]RunsSerialized` | `LifecycleInv`, `UserTextKept`, `StampIsComplete`: with any number of runs, edits, failures and deaths, as long as no two runs work at once |
| `LifecycleSafeUntilLeftover` | `ShortInstalls` | `LifecycleInv` and `UserTextKept` until a run dies with the lock or cannot remove it |
| `ReleaseInvariant` | - | what a build has staged, assembled and archived, at each of its steps |
| `BuildsUndisturbed` | - | `OfflineBundle` implements `BundleRelease`: verifications, commands and people change nothing a build relies on |
| `ReleaseHonest`, `SumsFitWhole` | - | `AirGapHonest` and `ChecksummedIsWhole` in the whole composition |
| `BundleInvariant` | - | `BundleInv`: builds, verifications, commands and damage to bundles side by side |
| `ZeroIsTrue`, `RefusalChangesNothing`, `TempsRemoved`, `ForceInstallRepairs` | - | `ExitZeroIsTrue`, `RefusedUntouched`, `NoTempLeft`, `ForceRepairs`, for any number of builds and commands, every command line and every kind of bundle; `ForceRepairs` of an install that meets no lock left behind |
| `VerifiedBundleInstalls` | - | `VerifiedInstalls`, likewise |
| `ComposerInvariant` | - | `ComposerInv`: the counts and sets of Kahn's algorithm, and what each loop of the composer has established, for every list of packages |
| `RefusalsCaused` | - | `RefusedForCause` |
| `DependenciesOrdered`, `CyclesNamed` | - | `DependenciesFirst` and `CycleNamed` |
| `OrderImplemented` | - | `FeatureComposer` implements `PackageOrder` |
| `WalkInvariant` | - | the invariant of the walk, for every graph, depth and limit |
| `GraphComplete`, `GraphReached` | - | `CompleteUnlessTruncated` and `OnlyReached` |
| `DoctorInvariant` | `ShortInstalls` | `DoctorInv`: until a run dies or fails to remove its lock, doctor keeps pace with the files |
| `HealthyIsVouched`, `DoctorAgrees` | `ShortInstalls` | `HealthyWasIntact` and `FinishedIsHealthy`, for every plan, project and job, however doctor and the runs interleave |
| `CompareSemverAntisymmetric` | - | `compareSemver` gives the opposite verdict when its arguments change places |
| `CompareSemverTotalOrder` | - | it is 0 only for equal versions, and transitive |

The conditions are the ones that are needed. `CalmEnvironment` is
`MaxStall <= Stale /\ ~ReaperLeft`: a run of filesystem calls does not outlast the
lease (30 s), no process dies in the few calls under the reaper, and the `rm` of the reaper
succeeds. `ShortInstalls` is
`MaxHold <= Stale`: a run does not outlast the 30 s of its lock; that is a real restriction,
as `npm install` alone may take 120 s. What `ShortInstalls` gives is
`SerializedUntilLeftover`: the first run that dies with the lock, or cannot remove it, ends
it. One tick more of `MaxStall` or of `MaxHold` makes TLC find a counterexample, and the
other halves are finding 1 and the overlap of install runs told after the findings.

The arguments:

- *`NothingLeftBehind`* needs `OwnerInv`: where in its life a client's name may be in
  `owner.json` (`OwnerNamed`), which in turn needs how the two threads of a client are
  aligned (`ThreadsAligned`: a renewal in flight keeps `release` waiting). The exception for
  errors of the call's own removal is necessary (section 6). What the theorem says beyond
  it is that a call which can remove its lock does: on every path through acquisition, work
  and renewal, none of which writes its name again after that.
- *The lease* needs `IInv`. Exclusion alone is not inductive, because a client that is
  still writing its owner, a renewal that has verified the owner, and a release about to
  remove the directory all act later on what they know now. `Claim` collects them, and
  `ClaimsBacked` says that there is at most one claim and what is on disk for each.
  `ReaperGuards` keeps the reaper with its one user, and `AgesAgree` is the arithmetic:
  the directory of a claim is never older than the stall of its writer or the record of
  its holder, so a reaper that found it stale cannot be looking at it. Refinement of
  `LeaseLock` follows: `Holder` is the one client with a running lease, and no step takes
  it from one client to another.
- *`WrittenAsCommitted`* needs `ApplyInv`: what is held for the k-th action is what the
  checkpoint read asks for there (`HeldVerified`), a checkpoint read was committed
  (`CheckpointsCommitted`), the two loops are aligned with what is held (`LoopsAligned`), and only
  an apply with a complete pre-flight writes (`WritersPassed`). It needs no lock: layers
  (a) to (c) and `link` do it alone, and the proof shows that.
- *`AppliesWholeManifest`* needs `WritesAligned`, also in `ApplyInv`: what an apply has
  written so far are the targets of the first actions it holds (`WritesInOrder`), and, if
  nobody edits previews, what it holds is what was stored under the hash it read. The
  check of the preview's hash against the checkpoint's then says that hash is committed.
- *`AppliedAsShown`* needs that every stored preview and every summary under an id is of a
  manifest some call with that id proposed (`CallsTold`), and that a call applies only if
  its own id was shown (`ApprovedFirst`). The steps of the gate are steps of
  `CheckpointApply` or leave its variables alone (`GateStepApplies`), so
  `WrittenAsCommitted` says that a created file is what a manifest committed under the
  call's id asks for; with ids that tell manifests apart that is the one that was shown.
- *`SerializedUntilLeftover`* needs `OwnerBacked`: the one owner made the directory that is
  there, and it is no older than the owner has held it. The lifecycle inherits it because none
  of its other actions touches the lock.
- *`UserTextKept`* needs two parts of `LifecycleInv`. `TextsSafe`: a text to be kept is in a
  backup, or in a file that the run at work has not written and is not about to write
  (`Target`) and that the stamp does not take for installed; that excludes the file whose
  backup is made but whose replacement is still to come, and the files uninstall will
  remove. `Informed`: until a run writes the stamp or drops it, the stamp it has read is the
  one on disk, so that what it holds for its own files is what the stamp claims. Serialized
  runs are needed for both: a second run at work could write the stamp, or a file that the
  first has found safe.
- *`StampIsComplete`* needs `Following`: the list of managed paths begins with the part of the
  plan that has been gone through (`Arrived`), and what has been written is still there, and
  then in the hashes, except where the user has edited (`Delivered`).
- *`ExitZeroIsTrue`* and its neighbours need `BundleInv`, which follows one command from
  `Start` to its exit code. `MadeOf` and `OneBundleEach` say that whatever has the number of
  one build (the archive, what a verification has extracted, a bundle directory) was made of
  one bundle, `SerialsGrow` that a new build has a number nothing else has, `CheckSound` that
  a verification reports only what it has seen work, and `CommandInv` what a command can
  rely on at each of its steps: what it has checked, written and not yet written. A command
  that goes on (`GoKeeps`), one that reaches an exit code (`ExitKeeps`) and one that is
  hindered (`UncleanKeeps`) are three lemmas that each action's proof cites. `ReleaseInv` is
  not part of it: it comes from `BuildsUndisturbed`.
- *`VerifiedInstalls`* needs of `BundleInv` that a build which was verified is one that works,
  whoever holds its files now: its number is never used again (`SerialsGrow`), so that what
  the verifier saw of the archive is true of every copy with that number.
- *`HealthyWasIntact`* needs an invariant of the *installer*, `Settled` in `LifecycleInv`: an
  undisturbed project has no stamp, or is as its stamp says, or a run is changing it, and
  then it is known which files still are as the old stamp says (`Building`, `Stripping`).
  Doctor's own steps change nothing it speaks of (`World`). The one run that doctor met
  therefore brings no file back to what the stamp says, unless all are (`MissesStay`): either
  one file that is wrong is still to be hashed, or one that was wrong has been (`Caught`).
  A second run could bring one back, hence `MetOne`.
- *`FinishedIsHealthy`* needs `Current`: as long as nothing changes, what doctor has read is
  what is there, and it has met no wrong hash and no failing import without cause, where a
  cause is a run at work (`Fluxed`), which cannot have ended without a change.
- *`CompareSemverAntisymmetric`* rests on `FirstDifferenceOneWay`: of two identifier lists
  one first difference at most can exist, and it points one way.
- *`CompareSemverTotalOrder`* needs that two lists of identifiers that differ have a *least*
  place where they do (`Least`: a set of naturals has a least element, from the library's
  theorem that `<` is well-founded on them), and compares the first differences of two pairs.
- *`AirGapHonest`* and *`ChecksummedIsWhole`* need `ReleaseInv`: `materialized` is set in two
  places only, both straight after `modules` has become the production dependencies, and no
  step between there and the archive touches either; a sum is taken only at the step
  after tar has ended. They are proved of `BundleRelease` alone and carried over by
  `BuildsUndisturbed`.
- *`DependenciesFirst`* needs `Counted`: the count of a package is the number of *places* of
  its `dependsOn` that are open (`Open`), that is, whose package is not ordered or is being
  counted down just now. Counting a place twice or once must therefore agree in `Count`
  and `CountDown`. `CycleNamed` needs in addition that no package of a stuck set is ever
  ready (`NoneOfStuck`), `ImplementsOrder` that ready packages are exactly those that
  could be placed, whenever the inner loop is through (`ReadyIsFree`).
- *`RefusedForCause`* needs `CauseInv`: a loop that is through leaves the list without wrong
  shapes, repeated ids or missing dependencies (`Checked`), an order in which nothing occurs
  twice (`OrderedOnce`), and tools that are those of the packages composed so far, each once
  (`ComposedOnce`). So the first thing a loop meets that is wrong is wrong with the list.
- *`CompleteUnlessTruncated`* needs `Covered`: each import of a listed file is listed, or is
  the call being entered, or is still to come in the loop of a call on the stack. When the
  stack is empty, only the first is left.

Model-checked only: liveness (`EveryCallEnds`, `LockComesFree`), which this prover cannot
treat because it has no rules for fairness and ENABLED. Every invariant and action property
of a passing run, and both refinements to an abstract specification, are stated by a theorem.

## 6. Findings

1. `lock-store.ts:177`: after one crash in the reaper two processes find its directory
   stale, the second removes the new one of the first, and two callers get the lease
   (`lock_crashed_reaper`). It takes no crash where the `rm` of line 199 fails.
2. `apply.ts:232`: two names of one file pass the pre-flight; the apply fails with
   `APPLY_TARGET_EXISTS` after writing (`apply_all_or_nothing`).

Met while modelling, and stated by no property. Of locks, checkpoints and installs:

- `lock-store.ts:157`: `owner.json` is rewritten in place; `assertActive` reads it half
  written by the client's own renewal and reports a lock as compromised that is held.
- `lock-store.ts:234`: `releaseLock` takes any error of reading owner.json, a passing one such
  as `EMFILE` too, for a lock that is no longer its own, and reports nothing: the directory
  stays, with the name of a call that has ended, until it is stale. An `rm` that fails (216,
  239, 359) leaves it too, but is reported.
- `lock.ts:147`: the installer's reaping has the race of finding 1 without any reaper, so a
  run that died is enough for two runs to overlap (`SerializedUntilLeftover` ends there).
- `tiny-tool.ts:74`: an approval is compared by the preview's id, 12 hex digits, never by the
  manifest hash or the actions the summary showed.
- `tiny-tool.ts:5` says that a tool's input is validated first; neither the wrapper nor the
  library surface calls `validateModelEmission`, only `plugin.ts` does. There every tool's
  input is parsed as a model intent, so an input that is none, the default `{}` included, is
  refused for every tool.
- `plugin.ts` never passes an `approvedPreviewId`, so nothing can be applied through it.
- `lifecycle.ts:940`: after a failed update, uninstall takes the installer's new files for
  the user's.

- After `WRITE_LOCK_CONTENTION` the user is told to retry, but the files created before
  are there and the retry is refused.
- `atomic-write.ts:122`: a retry after a half-done open meets the temp file of its own
  first attempt, and the caller gets a raw `EEXIST` at the first retry instead of
  `WRITE_LOCK_CONTENTION`. (`outcome = "EEXIST"` is reachable in `CheckpointApply`.)
- `assertParsable` (`opencode-config.ts:328`) accepts malformed JSONC from which a partial
  tree could be made, while its comment says that a real syntax error still throws; install
  merges into such a text and doctor then calls the installation broken. Such texts are
  `Malformed` in `Doctor`. Doctor also parses without taking off the byte order mark that
  install takes off and puts back.
- Doctor's last full check passes on any package.json that parses, whether or not it
  declares the tarball.
- A package.json without `exports` makes doctor reject instead of reporting
  (`doctor.ts:494`).
- A stored preview with an action removed by hand is not recognized as stale: layer (a)
  compares stored hashes and never recomputes one.
- The package tree is removed without the backup the error message speaks of.
- Uninstall exempts the config file it locates *now*; one merged by install and shadowed
  later by another candidate is removed as a managed file, if unchanged.
- A managed path without a hash in the stamp is removed whatever is there
  (the comment at `lifecycle.ts:945` says so).
- Uninstall hashes a file and removes it one await later.
- A corrupt stamp stops `install --force` too, which the error's hint recommends.
- A command that died, or could not remove its lock, stops the next one for 30 s, `install
  --force` too (`Locked` in `InstallCommand`).
- Update leaves the tarball of the old version behind, named by no stamp.
- `--dry-run` still makes the `.opencode` directory, as parent of the lock; so does a command
  that is refused with 3 or 4 after it has taken the lock (`RefusedUntouched` is of the rest).

Of bundles and commands:

- `plan.ts:36` and `:75` say of the tarball's hash that it is verified at apply time;
  nothing in the lifecycle reads `expectedSha256`. `distHashes` covers the six files of
  `dist/` beside the installer; the tarball, the templates, the package tree and the
  lifecycle that is imported are checked only if `SHA256SUMS` lists them. Hence the second
  disjunct of `ExitZeroIsTrue`.
- The lifecycle says "Verify bundle integrity BEFORE any writes" (`lifecycle.ts:293`), but a
  missing package tree is found, with the same exit code 3, after the tarball and the
  templates are copied. Hence the exception in `RefusedUntouched`.
- A missing tarball or template ends in a raw `ENOENT` with exit code 1, not in 3. So does a missing tar,
  without the hint meant for it.
- `tiny-yeah.js:508` and `:619` say that a command never throws; the import of the
  lifecycle is outside of its `try`. The `finally` that removes the extracted archive may throw
  too: the process then ends with 1 although the install succeeded.
- The help text gives exit code 4 for an installation that is there without `--force`; the
  same version ends in 0, with nothing done.
- `--version` and `--help` come after the check of all arguments: a wrong one ends in 2.
- An import that fails is explained when its message has "Cannot find module"; Node says
  "Cannot find package" of a missing dependency.

Of the composer and the source graph:

- `source-graph.ts:118` says that `truncated` signals only an actual elision; it is set too
  when a file at the last level imports only what is listed already or cannot be resolved.
- The walk goes deep first, so a file within the depth by a short path may be left out
  because a longer one came first. It is marked then.
- An import of a directory is resolved to the directory itself, whose reading ends the
  whole graph with `EISDIR`; the candidates `index.*` come too late.
- An entry path with `./` or `..` in it is listed once as it was given and once more as an
  import resolves it.
- A tool with an inherited name such as `toString` is refused as a duplicate.
- A dependency cycle is reported with the packages that merely depend on it.
- Disabling a package that another one depends on takes down the whole surface with
  `missing_dependency`.

## 7. What is not modelled

- **The temp files of the installer's writers** (`backupAndWriteBinary`): a failed rename
  leaves one. Only the create-only writer's temp files are modelled.
- **Clock jumps**: ages only grow. A clock set back makes a lock live longer.
- **npm, tar, the smoke import, the plugin cache**: a step that may fail.
- **Bundles whose manifest names no package tree**, for which install would run `npm install
  --offline` in the project: the build names one in every bundle that is complete, and the
  others are refused (exit code 3). `--keep-temp` of the scripts, and which field or line of a
  manifest is wrong.
- **Path confinement, JSONC editing, parsing**: constants or left out; they are string
  functions without state.
- **Doctor's test hook** `extraChecks`.
- **The matcher of runtime evidence and the sanitizer**: string functions.
- **Pipeline**: `analyze.ts` is a sequential read of the project without any write (a
  malformed `package.json`, or a file that goes between `readdir` and `stat`, ends it);
  the later stages hand values on.
- **Resume and the focus packet**: `resume` reads the stored previews once and picks one.
  Previews carry no `createdAt`, so the "most recent" one is the first by name; a focus
  packet is over its budget when a single field is.
- **Boundary and budgets of the model contract**: a schema check and a cut of one text.
- **OpenCode plugin** beyond the filter of disabled packages and the approval of manifests, **schema registry**,
  **naming-check**, **npm-runner**: adapters, output and static tables with no state of
  their own.

## 8. Plan

1 to 7 are done.

1. `LockStore` with `LeaseLock`: the mechanism all mutation of state rests on.
2. `CheckpointApply`: the write path of the library.
3. `InstallerLock`, `InstallLifecycle`: the write path of the installer.
4. `SemVer` and `Doctor`: diagnostics that race an install.
5. `BundleRelease`, `InstallCommand`, `OfflineBundle`: from a build to an exit code.
6. `FeatureComposer` with `PackageOrder`, `SourceGraph`: the two graph algorithms. With 1 to
   6, the proofs of section 5.
7. `ApprovalGate`, composed with `CheckpointApply`: whether what is approved is what is
   applied.
8. `CanonicalJson`: the hash of a value is independent of the order of its keys.
9. An abstract specification of the checkpoint (a set of committed manifests and a
   create-only store) that `CheckpointApply` implements.
10. `HealthyWasIntact` beside several runs that neither fail nor reinstall an old version
    under way: how much of `MetOne` can be dropped.
