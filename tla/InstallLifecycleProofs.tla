------------------------ MODULE InstallLifecycleProofs ------------------------
(***************************************************************************)
(* What install, update and uninstall promise for every bundle, project,   *)
(* user and job.  First what they inherit from the lock: each of their     *)
(* steps is a step of InstallerLock or leaves the lock as it is.  Then the *)
(* types, and that no text of the user's is lost: the steps of a run fall  *)
(* into those that move on (MovingStep), leave (LeavingStep), back up      *)
(* (BackingUpStep) and write (WritingStep).  Then what each step of the    *)
(* run that works leaves of an undisturbed project (SettledStep).          *)
(***************************************************************************)
EXTENDS InstallLifecycle, InstallerLockProofs

\* The lock is left as it is; a failure may have been spent.
LockStays == UNCHANGED <<runVars, dirVars, leftovers>> /\ failures' \in Nat

LEMMA MoveStays == ASSUME LockTypeOK, NEW r, NEW s, Move(r, s) PROVE LockStays
  BY DEF Move, LockStays, lockVars, LockTypeOK

LEMMA ReturnFinishes ==
  ASSUME LockTypeOK, NEW r, NEW code \in Outcomes \ {"RELEASE_FAILED"}, Return(r, code)
  PROVE  Finishes(r)
  BY DEF Return, Finishes, LockTypeOK

LEMMA RefusalOutcome ==
  ASSUME NEW r PROVE Refusal(r) \in Outcomes \ {"RELEASE_FAILED"}
  BY DEF Refusal, Outcomes

LEMMA SuccessOutcome ==
  ASSUME NEW r PROVE Success(r) \in Outcomes \ {"RELEASE_FAILED"}
  BY DEF Success, Outcomes

\* What a step of the lifecycle is to the lock.
LEMMA LifecycleOnLock ==
  ASSUME LockTypeOK, Next PROVE LockStays \/ Tick \/ \E r \in Runs : RunStep(r)
<1>1. ASSUME NEW r \in Runs, Begin(r) PROVE LockStays \/ RunStep(r)
  <2>1. CASE TakeLock(r)
    BY <2>1 DEF TakeLock, RunStep
  <2>2. CASE ReadBadStamp(r)
    BY <2>2, ReturnFinishes DEF ReadBadStamp, Outcomes, RunStep
  <2>3. CASE ReadStamp(r)
    BY <2>3, MoveStays DEF ReadStamp
  <2>4. CASE Decline(r)
    BY <2>4, ReturnFinishes, RefusalOutcome DEF Decline, RunStep
  <2>5. CASE Proceed(r)
    BY <2>5, MoveStays DEF Proceed
  <2>6. QED
    BY <1>1, <2>1, <2>2, <2>3, <2>4, <2>5 DEF Begin
<1>2. ASSUME NEW r \in Runs, Copy(r) PROVE LockStays \/ RunStep(r)
  <2>1. CASE CopyCreates(r)
    BY <2>1 DEF CopyCreates, LockStays, lockVars, LockTypeOK
  <2>2. CASE CopyRefused(r)
    BY <2>2, ReturnFinishes DEF CopyRefused, Outcomes, RunStep
  <2>3. CASE CopyBacksUp(r)
    BY <2>3, MoveStays DEF CopyBacksUp
  <2>4. CASE CopyReplaces(r)
    BY <2>4, MoveStays DEF CopyReplaces
  <2>5. CASE CopiesDone(r)
    BY <2>5, MoveStays DEF CopiesDone
  <2>6. QED
    BY <1>2, <2>1, <2>2, <2>3, <2>4, <2>5 DEF Copy
<1>3. ASSUME NEW r \in Runs, Configure(r) PROVE LockStays
  BY <1>3, MoveStays DEF Configure, LocateForMerge, BackUpConfig, WriteConfig
<1>4. ASSUME NEW r \in Runs, Complete(r) PROVE LockStays \/ RunStep(r)
  <2>1. CASE NoPackage(r) \/ RemovePackage(r) \/ CopyPackage(r) \/ HashFiles(r) \/ WriteStamp(r)
    BY <2>1, MoveStays DEF NoPackage, RemovePackage, CopyPackage, HashFiles, WriteStamp
  <2>2. CASE PackageRefused(r)
    BY <2>2, ReturnFinishes DEF PackageRefused, Outcomes, RunStep
  <2>3. CASE CopyPackageFails(r)
    BY <2>3 DEF CopyPackageFails, Failure, Finishes, Outcomes, RunStep, LockTypeOK
  <2>4. CASE WriteBadStamp(r)
    BY <2>4 DEF WriteBadStamp, Failure, LockStays, LockTypeOK
  <2>5. QED
    BY <1>4, <2>1, <2>2, <2>3, <2>4 DEF Complete
<1>5. ASSUME NEW r \in Runs, Uninstall(r) PROVE LockStays \/ RunStep(r)
  <2>1. CASE LocateForStrip(r) \/ CompareMatches(r) \/ RemoveManaged(r) \/ CompareDone(r)
             \/ StripEntry(r) \/ DropStamp(r) \/ Purge(r)
    BY <2>1, MoveStays
    DEF LocateForStrip, CompareMatches, RemoveManaged, CompareDone, StripEntry, DropStamp, Purge
  <2>2. CASE CompareSkips(r)
    BY <2>2 DEF CompareSkips, LockStays, lockVars, LockTypeOK
  <2>3. CASE RemoveManagedFails(r)
    BY <2>3 DEF RemoveManagedFails, Failure, LockStays, LockTypeOK
  <2>4. CASE StripFails(r)
    BY <2>4, ReturnFinishes DEF StripFails, Outcomes, RunStep
  <2>5. QED
    BY <1>5, <2>1, <2>2, <2>3, <2>4 DEF Uninstall
<1>6. ASSUME NEW r \in Runs, WriteLog(r) \/ StepFails(r) \/ Leave(r) \/ Dies(r)
      PROVE  RunStep(r)
  <2>1. CASE WriteLog(r)
    BY <2>1, ReturnFinishes, SuccessOutcome DEF WriteLog, RunStep
  <2>2. CASE StepFails(r)
    BY <2>2 DEF StepFails, Failure, Finishes, Outcomes, RunStep, LockTypeOK
  <2>3. CASE Leave(r) \/ Dies(r)
    BY <2>3 DEF Leave, Dies, RunStep
  <2>4. QED
    BY <1>6, <2>1, <2>2, <2>3
<1>7. ASSUME NEW p, NEW t, UserEdits(p, t) PROVE LockStays
  BY <1>7 DEF UserEdits, LockStays, lockVars, LockTypeOK
<1>8. QED
  BY <1>1, <1>2, <1>3, <1>4, <1>5, <1>6, <1>7 DEF Next, TimePasses

LEMMA StaysFrame ==
  ASSUME LockTypeOK, LockStays
  PROVE  /\ LockTypeOK'
         /\ LockReleased /\ FailedReleaseEnded => LockReleased' /\ FailedReleaseEnded'
         /\ BackedUntilLeftover => BackedUntilLeftover'
<1>1. LockTypeOK'
  BY DEF LockStays, LockTypeOK, runVars, dirVars
<1>2. LockReleased /\ FailedReleaseEnded => LockReleased' /\ FailedReleaseEnded'
  BY ReleasedFrame DEF LockStays, runVars, dirVars
<1>3. BackedUntilLeftover => BackedUntilLeftover'
  BY BackedFrame DEF BackedUntilLeftover, LockStays, runVars, dirVars
<1>4. QED
  BY <1>1, <1>2, <1>3

LEMMA StutterStays == ASSUME LockTypeOK, UNCHANGED vars PROVE LockStays
  BY DEF LockStays, LockTypeOK, vars, lockVars

LEMMA LifecycleLockTypeStep == ASSUME LockTypeOK, [Next]_vars PROVE LockTypeOK'
<1>1. CASE Next
  BY <1>1, LifecycleOnLock, StaysFrame, LockTypeRun, LockTypeTick
<1>2. CASE UNCHANGED vars
  BY <1>2, StutterStays, StaysFrame
<1>3. QED
  BY <1>1, <1>2

\* The lock's variables keep their types when the lifecycle runs under it.
THEOREM LifecycleLockTypes == Spec => []LockTypeOK
<1>1. LockTypeOK /\ [Next]_vars => LockTypeOK'
  BY LifecycleLockTypeStep
<1>2. Init => LockTypeOK
  BY LockTypeInit DEF Init
<1>3. QED
  BY <1>1, <1>2, PTL DEF Spec

\* Whatever step of install, update or uninstall returns or throws, the lock directory
\* is not left behind, unless the run has died or its rm failed.
THEOREM LifecycleLockReleased == Spec => []LockReleased
<1>1. LockTypeOK /\ LockReleased /\ FailedReleaseEnded /\ [Next]_vars
      => LockReleased' /\ FailedReleaseEnded'
  <2> SUFFICES ASSUME LockTypeOK, LockReleased, FailedReleaseEnded, [Next]_vars
               PROVE  LockReleased' /\ FailedReleaseEnded'
    OBVIOUS
  <2>1. CASE Next
    <3>1. CASE LockStays
      BY <3>1, StaysFrame
    <3>2. CASE Tick
      BY <3>2, ReleasedFrame DEF Tick
    <3>3. CASE \E r \in Runs : RunStep(r)
      BY <3>3, ReleasedRun, FailedReleaseRun
    <3>4. QED
      BY <2>1, <3>1, <3>2, <3>3, LifecycleOnLock
  <2>2. CASE UNCHANGED vars
    BY <2>2, StutterStays, StaysFrame
  <2>3. QED
    BY <2>1, <2>2
<1>2. Init => LockReleased /\ FailedReleaseEnded
  BY ReleasedInit DEF Init
<1>3. QED
  BY <1>1, <1>2, LifecycleLockTypes, PTL DEF Spec

LEMMA LifecycleBackedStep ==
  ASSUME ShortInstalls, LockTypeOK, BackedUntilLeftover, [Next]_vars PROVE BackedUntilLeftover'
<1>1. CASE Next
  BY <1>1, LifecycleOnLock, StaysFrame, BackedStep
<1>2. CASE UNCHANGED vars
  BY <1>2, StutterStays, StaysFrame
<1>3. QED
  BY <1>1, <1>2

\* The steps of two installs, updates or uninstalls of one project never interleave
\* until one dies or fails to remove its lock, when none outlasts the lock's age limit.
THEOREM LifecycleSerialized == ShortInstalls /\ Spec => []SerializedUntilLeftover
<1>1. ShortInstalls /\ LockTypeOK /\ BackedUntilLeftover /\ [Next]_vars => BackedUntilLeftover'
  BY LifecycleBackedStep
<1>2. Init => BackedUntilLeftover
  BY BackedInit DEF Init
<1>3. ShortInstalls => ShortInstalls'
  BY DEF ShortInstalls
<1>4. QED
  BY <1>1, <1>2, <1>3, BackedSerialized, LifecycleLockTypes, PTL DEF Spec

--------------------------------------------------------------------------------
(* The types of the disk and of what the runs know.                           *)

LEMMA FileTypes ==
  /\ Nothing \in Files /\ InitialConfig \in Files /\ NoHashes \in [Paths -> Files]
  /\ \A v \in Versions : Plain(v) \in Files
  /\ Plain(Partial) \in Files
  BY DEF Nothing, InitialConfig, NoHashes, Plain, Files, Texts

LEMMA FileChanges ==
  ASSUME NEW f \in Files
  PROVE  /\ f.text \in Texts /\ f.entry \in {"no", "yes"}
         /\ AddPluginEntry(f) \in Files /\ AddPluginEntry(f).text = f.text
         /\ RemovePluginEntry(f) \in Files /\ RemovePluginEntry(f).text = f.text
         /\ \A t \in Texts : [f EXCEPT !.text = t] \in Files /\ [f EXCEPT !.text = t].text = t
<1>1. f.text \in Texts /\ f.entry \in {"no", "yes"}
  BY DEF Files
<1>2. AddPluginEntry(f) = [text |-> f.text, entry |-> "yes"]
      /\ RemovePluginEntry(f) = [text |-> f.text, entry |-> "no"]
  BY DEF AddPluginEntry, RemovePluginEntry, Files
<1>3. ASSUME NEW t \in Texts PROVE [f EXCEPT !.text = t] = [text |-> t, entry |-> f.entry]
  BY DEF Files
<1>4. QED
  BY <1>1, <1>2, <1>3 DEF Files

LEMMA StampTypes ==
  /\ NoStamp \in Stamps /\ BadStamp \in Stamps
  /\ NoStamp.managed = <<>> /\ BadStamp.managed = <<>>
<1>1. NoStamp \in Stamps /\ NoStamp.managed = <<>>
  BY FileTypes DEF NoStamp, Stamps
<1>2. BadStamp = [state |-> "corrupt", version |-> 0, managed |-> <<>>, hashes |-> NoHashes]
  BY DEF BadStamp, NoStamp
<1>3. QED
  BY <1>1, <1>2, FileTypes DEF Stamps

LEMMA InstalledTypes ==
  ASSUME NEW v \in Versions
  PROVE  InstalledPaths(v) \in Seq(Paths) /\ InstalledFiles(v) \in [Paths -> Files]
<1>1. Copies[v] \in Seq(Paths) /\ NewConfig \in Paths /\ Package \in Paths
  BY LifecycleAssumption DEF LifecycleAssumption
<1>2. InstalledPaths(v) \in Seq(Paths)
  BY <1>1 DEF InstalledPaths
<1>3. [text |-> Created, entry |-> "yes"] \in Files
  BY DEF Files, Texts
<1>4. QED
  BY <1>2, <1>3, FileTypes DEF InstalledFiles

LEMMA LifecycleTypeInit == Init => TypeOK
<1> SUFFICES ASSUME Init PROVE TypeOK
  OBVIOUS
<1>1. LockTypeOK
  BY LockTypeInit DEF Init
<1>2. files \in [Paths -> Files] /\ stamp \in Stamps
  <2>1. CASE /\ \E u \in UserTexts, ps \in UserFiles :
                files = [p \in Paths |-> IF p \in ps THEN Plain(u) ELSE Nothing]
             /\ stamp = NoStamp
    <3>1. \A u \in UserTexts : Plain(u) \in Files
      BY DEF Plain, Files, Texts
    <3>2. QED
      BY <2>1, <3>1, FileTypes, StampTypes
  <2>2. CASE \E v \in StartVersions :
               /\ files = InstalledFiles(v)
               /\ stamp = [state |-> "valid", version |-> v, managed |-> InstalledPaths(v),
                           hashes |-> InstalledFiles(v)]
    <3>1. StartVersions \subseteq Versions
      BY LifecycleAssumption DEF LifecycleAssumption
    <3>2. QED
      BY <2>2, <3>1, InstalledTypes DEF Stamps
  <2>3. QED
    BY <2>1, <2>2 DEF Init
<1>3. DiskTypeOK
  BY <1>2 DEF Init, DiskTypeOK
<1>4. RunTypeOK
  <2>1. NewConfig \in Paths
    BY LifecycleAssumption DEF LifecycleAssumption
  <2>2. QED
    BY <2>1, FileTypes, StampTypes DEF Init, RunTypeOK, Steps
<1>5. QED
  BY <1>1, <1>3, <1>4 DEF TypeOK, Init

\* A step that changes nothing on disk keeps the types of the disk, one that changes
\* nothing of what the runs know keeps theirs.
LEMMA DiskFrame == ASSUME DiskTypeOK, UNCHANGED <<diskVars, kept, edited>> PROVE DiskTypeOK'
  BY DEF DiskTypeOK, diskVars

LEMMA RunFrame == ASSUME RunTypeOK, UNCHANGED <<localVars, job>> PROVE RunTypeOK'
  BY DEF RunTypeOK, localVars, readVars, To, Is

LEMMA TargetTypes ==
  ASSUME RunTypeOK, NEW r \in Runs
  PROVE  /\ To(r) \in Versions /\ Copies[To(r)] \in Seq(Paths)
         /\ at[r] \in DOMAIN Copies[To(r)] => Entry(r) \in Paths
         /\ prior[r].managed \in Seq(Paths)
         /\ at[r] \in DOMAIN prior[r].managed => Managed(r) \in Paths
<1>1. To(r) \in Versions /\ Copies[To(r)] \in Seq(Paths)
  BY LifecycleAssumption DEF LifecycleAssumption, RunTypeOK, To
<1>2. prior[r].managed \in Seq(Paths)
  BY DEF RunTypeOK, Stamps
<1>3. QED
  BY <1>1, <1>2 DEF Entry, Managed

\* A run moves to a step that says nothing of its position.
LEMMA MoveTypes ==
  ASSUME RunTypeOK, NEW r \in Runs,
         NEW s \in Steps \ {"cfgBackup", "cfgReplace", "strip", "replace", "remove"},
         step' = [step EXCEPT ![r] = s], UNCHANGED <<at, managed, readVars, job>>
  PROVE  RunTypeOK'
  BY DEF RunTypeOK, readVars, To

LEMMA BackUpTypes ==
  ASSUME DiskTypeOK, NEW p, BackUp(p), UNCHANGED <<files, stamp, kept, edited>>
  PROVE  DiskTypeOK'
<1>1. p \in Paths => files[p].text \in Texts
  BY FileChanges DEF DiskTypeOK
<1>2. QED
  BY <1>1 DEF DiskTypeOK, BackUp

LEMMA WriteTypes ==
  ASSUME DiskTypeOK, NEW p, NEW f \in Files, WriteFile(p, f),
         UNCHANGED <<backups, stamp, kept, edited>>
  PROVE  DiskTypeOK'
  BY DEF DiskTypeOK, WriteFile

\* What install, update and uninstall do first, and how they end.
LEMMA BeginTypes ==
  ASSUME DiskTypeOK, RunTypeOK, NEW r \in Runs,
         Begin(r) \/ WriteLog(r) \/ StepFails(r) \/ Leave(r) \/ Dies(r)
  PROVE  DiskTypeOK' /\ RunTypeOK'
<1>1. CASE TakeLock(r)
  <2>1. DiskTypeOK'
    BY <1>1 DEF TakeLock, DiskTypeOK, diskVars
  <2>2. RunTypeOK'
    BY <1>1, RunFrame DEF TakeLock
  <2>3. QED
    BY <2>1, <2>2
<1>2. CASE ReadBadStamp(r) \/ Decline(r) \/ WriteLog(r) \/ StepFails(r)
  BY <1>2, DiskFrame, RunFrame
  DEF ReadBadStamp, Decline, WriteLog, StepFails, Return, userVars, localVars
<1>3. CASE Leave(r) \/ Dies(r)
  BY <1>3, DiskFrame, RunFrame DEF Leave, Dies, lifeVars, userVars
<1>4. CASE ReadStamp(r)
  <2>1. DiskTypeOK'
    BY <1>4, DiskFrame DEF ReadStamp, userVars
  <2>2. stamp \in Stamps
    BY DEF DiskTypeOK
  <2>3. RunTypeOK'
    BY <1>4, <2>2 DEF ReadStamp, RunTypeOK, Move, Steps, To
  <2>4. QED
    BY <2>1, <2>3
<1>5. CASE Proceed(r)
  <2>1. DiskTypeOK'
    BY <1>5, DiskFrame DEF Proceed, userVars
  <2>2. PICK s \in {"locate", "copy"} : step' = [step EXCEPT ![r] = s]
    BY <1>5 DEF Proceed, Move
  <2>3. RunTypeOK'
    BY <1>5, <2>2, MoveTypes DEF Proceed, Steps
  <2>4. QED
    BY <2>1, <2>3
<1>6. QED
  BY <1>1, <1>2, <1>3, <1>4, <1>5 DEF Begin

\* An entry is written, and the loop goes on.
LEMMA WrittenTypes ==
  ASSUME RunTypeOK, NEW r \in Runs, Entry(r) \in Paths, Written(r),
         step' \in [Runs -> Steps], UNCHANGED <<readVars, job>>,
         step'[r] \notin {"cfgBackup", "cfgReplace", "strip", "replace", "remove"},
         \A s \in Runs \ {r} : step'[s] = step[s]
  PROVE  RunTypeOK'
<1>1. managed' \in [Runs -> Seq(Paths)]
  BY DEF RunTypeOK, Written
<1>2. at' \in [Runs -> Nat] /\ \A s \in Runs \ {r} : at'[s] = at[s]
  BY DEF RunTypeOK, Written
<1>3. QED
  BY <1>1, <1>2 DEF RunTypeOK, readVars, To

LEMMA CopyTypes ==
  ASSUME DiskTypeOK, RunTypeOK, NEW r \in Runs, Copy(r)
  PROVE  DiskTypeOK' /\ RunTypeOK'
<1>0. To(r) \in Versions /\ Plain(To(r)) \in Files
  BY TargetTypes, FileTypes
<1>1. CASE CopyCreates(r)
  <2>1. Entry(r) \in Paths /\ step[r] = "copy"
    BY <1>1, TargetTypes DEF CopyCreates, Copying, At
  <2>2. DiskTypeOK'
    BY <1>0, <1>1, WriteTypes DEF CopyCreates, userVars
  <2>3. step \in [Runs -> Steps]
    BY DEF RunTypeOK
  <2>4. RunTypeOK'
    BY <1>1, <2>1, <2>3, WrittenTypes DEF CopyCreates
  <2>5. QED
    BY <2>2, <2>4
<1>2. CASE CopyRefused(r)
  BY <1>2, DiskFrame, RunFrame DEF CopyRefused, Return, userVars, localVars
<1>3. CASE CopyBacksUp(r)
  <2>1. DiskTypeOK'
    BY <1>3, BackUpTypes DEF CopyBacksUp, userVars
  <2>2. RunTypeOK'
    BY <1>3 DEF CopyBacksUp, Copying, Move, RunTypeOK, readVars, Steps, To
  <2>3. QED
    BY <2>1, <2>2
<1>4. CASE CopyReplaces(r)
  <2>1. Entry(r) \in Paths
    BY <1>4, TargetTypes DEF CopyReplaces, At, RunTypeOK
  <2>2. DiskTypeOK'
    BY <1>0, <1>4, WriteTypes DEF CopyReplaces, userVars
  <2>3. step' \in [Runs -> Steps] /\ step'[r] = "copy" /\ \A s \in Runs \ {r} : step'[s] = step[s]
    BY <1>4 DEF CopyReplaces, Move, RunTypeOK, Steps
  <2>4. RunTypeOK'
    BY <1>4, <2>1, <2>3, WrittenTypes DEF CopyReplaces
  <2>5. QED
    BY <2>2, <2>4
<1>5. CASE CopiesDone(r)
  <2>1. DiskTypeOK'
    BY <1>5, DiskFrame DEF CopiesDone, userVars
  <2>2. RunTypeOK'
    BY <1>5, MoveTypes DEF CopiesDone, Move, Steps
  <2>3. QED
    BY <2>1, <2>2
<1>6. QED
  BY <1>1, <1>2, <1>3, <1>4, <1>5 DEF Copy

LEMMA ConfigureTypes ==
  ASSUME DiskTypeOK, RunTypeOK, NEW r \in Runs, Configure(r)
  PROVE  DiskTypeOK' /\ RunTypeOK'
<1>1. CASE LocateForMerge(r)
  <2>1. DiskTypeOK'
    BY <1>1, DiskFrame DEF LocateForMerge, userVars
  <2>2. PICK p \in Paths, f \in Files :
           cfg' = [cfg EXCEPT ![r] = p] /\ merged' = [merged EXCEPT ![r] = f]
    <3>1. NewConfig \in Paths /\ InitialConfig \in Files
      BY FileTypes, LifecycleAssumption DEF LifecycleAssumption
    <3>2. \A p \in Paths : AddPluginEntry(files[p]) \in Files
      BY FileChanges DEF DiskTypeOK
    <3>3. QED
      BY <1>1, <3>1, <3>2 DEF LocateForMerge
  <2>3. RunTypeOK'
    BY <1>1, <2>2 DEF LocateForMerge, Move, RunTypeOK, Steps, To
  <2>4. QED
    BY <2>1, <2>3
<1>2. CASE BackUpConfig(r)
  <2>1. DiskTypeOK'
    BY <1>2, BackUpTypes DEF BackUpConfig, userVars
  <2>2. RunTypeOK'
    BY <1>2 DEF BackUpConfig, At, Move, RunTypeOK, readVars, Steps, To
  <2>3. QED
    BY <2>1, <2>2
<1>3. CASE WriteConfig(r)
  <2>1. merged[r] \in Files /\ cfg[r] \in Paths
    BY <1>3 DEF RunTypeOK, WriteConfig, At
  <2>2. DiskTypeOK'
    BY <1>3, <2>1, WriteTypes DEF WriteConfig, userVars
  <2>3. managed' \in [Runs -> Seq(Paths)]
    <3>1. managed \in [Runs -> Seq(Paths)]
      BY DEF RunTypeOK
    <3>2. managed' = managed \/ managed' = [managed EXCEPT ![r] = Append(managed[r], cfg[r])]
      BY <1>3 DEF WriteConfig
    <3>3. QED
      BY <2>1, <3>1, <3>2
  <2>4. RunTypeOK'
    BY <1>3, <2>3 DEF WriteConfig, Move, RunTypeOK, readVars, Steps, To
  <2>5. QED
    BY <2>2, <2>4
<1>4. QED
  BY <1>1, <1>2, <1>3 DEF Configure

LEMMA CompleteTypes ==
  ASSUME DiskTypeOK, RunTypeOK, NEW r \in Runs, Complete(r)
  PROVE  DiskTypeOK' /\ RunTypeOK'
<1>0. To(r) \in Versions /\ Plain(To(r)) \in Files /\ Nothing \in Files
      /\ Plain(Partial) \in Files /\ Package \in Paths
  BY TargetTypes, FileTypes, LifecycleAssumption DEF LifecycleAssumption
<1>1. CASE NoPackage(r)
  BY <1>1, DiskFrame, MoveTypes DEF NoPackage, userVars, Move, Steps
<1>2. CASE PackageRefused(r)
  BY <1>2, DiskFrame, RunFrame DEF PackageRefused, Return, userVars, localVars
<1>3. CASE RemovePackage(r)
  <2>1. DiskTypeOK'
    BY <1>0, <1>3, WriteTypes DEF RemovePackage, userVars
  <2>2. RunTypeOK'
    BY <1>3, MoveTypes DEF RemovePackage, Move, Steps
  <2>3. QED
    BY <2>1, <2>2
<1>4. CASE CopyPackage(r)
  <2>1. DiskTypeOK'
    BY <1>0, <1>4, WriteTypes DEF CopyPackage, userVars
  <2>2. managed' \in [Runs -> Seq(Paths)]
    BY <1>0, <1>4 DEF CopyPackage, RunTypeOK
  <2>3. RunTypeOK'
    BY <1>4, <2>2 DEF CopyPackage, Move, RunTypeOK, readVars, Steps, To
  <2>4. QED
    BY <2>1, <2>3
<1>5. CASE CopyPackageFails(r)
  <2>1. DiskTypeOK'
    BY <1>0, <1>5, WriteTypes, DiskFrame DEF CopyPackageFails, userVars, diskVars
  <2>2. RunTypeOK'
    BY <1>5, RunFrame DEF CopyPackageFails, localVars
  <2>3. QED
    BY <2>1, <2>2
<1>6. CASE HashFiles(r)
  <2>1. DiskTypeOK'
    BY <1>6, DiskFrame DEF HashFiles, userVars
  <2>2. [p \in Paths |-> IF p \in Elements(managed[r]) THEN files[p] ELSE Nothing]
        \in [Paths -> Files]
    BY <1>0 DEF DiskTypeOK
  <2>3. hashes' \in [Runs -> [Paths -> Files]]
    BY <1>6, <2>2, Zenon DEF HashFiles, RunTypeOK
  <2>4. RunTypeOK'
    BY <1>6, <2>3 DEF HashFiles, Move, RunTypeOK, Steps, To
  <2>5. QED
    BY <2>1, <2>4
<1>7. CASE WriteStamp(r)
  <2>1. stamp' \in Stamps
    BY <1>0, <1>7 DEF WriteStamp, RunTypeOK, Stamps
  <2>2. DiskTypeOK'
    BY <1>7, <2>1 DEF WriteStamp, DiskTypeOK, userVars
  <2>3. RunTypeOK'
    BY <1>7, MoveTypes DEF WriteStamp, Move, Steps
  <2>4. QED
    BY <2>2, <2>3
<1>8. CASE WriteBadStamp(r)
  <2>1. DiskTypeOK'
    BY <1>8, StampTypes DEF WriteBadStamp, DiskTypeOK, userVars
  <2>2. RunTypeOK'
    BY <1>8, MoveTypes DEF WriteBadStamp, Steps
  <2>3. QED
    BY <2>1, <2>2
<1>9. QED
  BY <1>1, <1>2, <1>3, <1>4, <1>5, <1>6, <1>7, <1>8 DEF Complete

LEMMA UninstallTypes ==
  ASSUME DiskTypeOK, RunTypeOK, NEW r \in Runs, Uninstall(r)
  PROVE  DiskTypeOK' /\ RunTypeOK'
<1>1. CASE LocateForStrip(r)
  <2>1. DiskTypeOK'
    BY <1>1, DiskFrame DEF LocateForStrip, userVars
  <2>2. RunTypeOK'
    BY <1>1 DEF LocateForStrip, Move, RunTypeOK, Steps, To
  <2>3. QED
    BY <2>1, <2>2
<1>2. CASE CompareSkips(r)
  <2>1. DiskTypeOK'
    BY <1>2, DiskFrame DEF CompareSkips, userVars
  <2>2. Managed(r) \in Paths
    BY <1>2, TargetTypes DEF CompareSkips, Comparing
  <2>3. skipped' \in [Runs -> SUBSET Paths]
    BY <1>2, <2>2 DEF CompareSkips, RunTypeOK
  <2>4. RunTypeOK'
    BY <1>2, <2>3 DEF CompareSkips, Comparing, At, RunTypeOK, To
  <2>5. QED
    BY <2>1, <2>4
<1>3. CASE CompareMatches(r)
  <2>1. DiskTypeOK'
    BY <1>3, DiskFrame DEF CompareMatches, userVars
  <2>2. RunTypeOK'
    BY <1>3 DEF CompareMatches, Comparing, Move, RunTypeOK, readVars, Steps, To
  <2>3. QED
    BY <2>1, <2>2
<1>4. CASE RemoveManaged(r)
  <2>1. DiskTypeOK'
    BY <1>4, FileTypes, WriteTypes DEF RemoveManaged, userVars
  <2>2. RunTypeOK'
    BY <1>4 DEF RemoveManaged, Move, RunTypeOK, readVars, Steps, To
  <2>3. QED
    BY <2>1, <2>2
<1>5. CASE RemoveManagedFails(r)
  <2>1. DiskTypeOK'
    BY <1>5, DiskFrame DEF RemoveManagedFails, userVars
  <2>2. RunTypeOK'
    BY <1>5 DEF RemoveManagedFails, RunTypeOK, readVars, Steps, To
  <2>3. QED
    BY <2>1, <2>2
<1>6. CASE CompareDone(r)
  <2>1. DiskTypeOK'
    BY <1>6, DiskFrame DEF CompareDone, userVars
  <2>2. RunTypeOK'
    BY <1>6 DEF CompareDone, Move, RunTypeOK, readVars, Steps, To
  <2>3. QED
    BY <2>1, <2>2
<1>7. CASE StripEntry(r)
  <2>1. DiskTypeOK'
    BY <1>7, DiskFrame DEF StripEntry, userVars
  <2>2. cfg[r] \in Paths /\ RemovePluginEntry(files[cfg[r]]) \in Files
    BY <1>7, FileChanges DEF StripEntry, At, RunTypeOK, DiskTypeOK
  <2>3. RunTypeOK'
    BY <1>7, <2>2 DEF StripEntry, Move, RunTypeOK, Steps, To
  <2>4. QED
    BY <2>1, <2>3
<1>8. CASE StripFails(r)
  BY <1>8, DiskFrame, RunFrame DEF StripFails, Return, userVars, localVars
<1>9. CASE DropStamp(r)
  <2>1. DiskTypeOK'
    BY <1>9, StampTypes DEF DropStamp, DiskTypeOK, userVars
  <2>2. RunTypeOK'
    BY <1>9, MoveTypes DEF DropStamp, Move, Steps
  <2>3. QED
    BY <2>1, <2>2
<1>10. CASE Purge(r)
  <2>1. DiskTypeOK'
    BY <1>10 DEF Purge, DiskTypeOK
  <2>2. RunTypeOK'
    BY <1>10, MoveTypes DEF Purge, Move, Steps
  <2>3. QED
    BY <2>1, <2>2
<1>11. QED
  BY <1>1, <1>2, <1>3, <1>4, <1>5, <1>6, <1>7, <1>8, <1>9, <1>10 DEF Uninstall

LEMMA EditTypes ==
  ASSUME DiskTypeOK, RunTypeOK, NEW p \in Paths, NEW t \in UserTexts \cup {None}, UserEdits(p, t)
  PROVE  DiskTypeOK' /\ RunTypeOK'
<1>1. t \in Texts /\ files[p] \in Files
  BY DEF Texts, DiskTypeOK
<1>2. files' \in [Paths -> Files]
  BY <1>1, FileTypes, FileChanges DEF UserEdits, WriteFile, DiskTypeOK
<1>3. kept' \subseteq UserTexts
  BY DEF UserEdits, DiskTypeOK
<1>4. DiskTypeOK'
  BY <1>2, <1>3 DEF UserEdits, DiskTypeOK
<1>5. QED
  BY <1>4, RunFrame DEF UserEdits

\* Only the user edits.
LEMMA EditsCounted == ASSUME edits \in Nat, [Next]_vars PROVE edits' \in Nat
<1> USE DEF userVars
<1>1. ASSUME NEW r \in Runs, Begin(r) PROVE edits' = edits
  BY <1>1 DEF Begin, TakeLock, ReadBadStamp, ReadStamp, Decline, Proceed
<1>2. ASSUME NEW r \in Runs, Copy(r) PROVE edits' = edits
  BY <1>2 DEF Copy, CopyCreates, CopyRefused, CopyBacksUp, CopyReplaces, CopiesDone
<1>3. ASSUME NEW r \in Runs, Configure(r) PROVE edits' = edits
  BY <1>3 DEF Configure, LocateForMerge, BackUpConfig, WriteConfig
<1>4. ASSUME NEW r \in Runs, Complete(r) PROVE edits' = edits
  BY <1>4 DEF Complete, NoPackage, PackageRefused, RemovePackage, CopyPackage,
              CopyPackageFails, HashFiles, WriteStamp, WriteBadStamp
<1>5. ASSUME NEW r \in Runs, Uninstall(r) PROVE edits' = edits
  BY <1>5 DEF Uninstall, LocateForStrip, CompareSkips, CompareMatches, RemoveManaged,
              RemoveManagedFails, CompareDone, StripEntry, StripFails, DropStamp, Purge
<1>6. ASSUME NEW r \in Runs, WriteLog(r) \/ StepFails(r) \/ Leave(r) \/ Dies(r)
      PROVE  edits' = edits
  BY <1>6 DEF WriteLog, StepFails, Leave, Dies, lifeVars
<1>7. ASSUME NEW p, NEW t, UserEdits(p, t) PROVE edits' \in Nat
  BY <1>7 DEF UserEdits
<1>8. CASE TimePasses \/ UNCHANGED vars
  BY <1>8 DEF TimePasses, vars, lifeVars
<1>9. QED
  BY <1>1, <1>2, <1>3, <1>4, <1>5, <1>6, <1>7, <1>8 DEF Next

LEMMA LifecycleTypeStep == ASSUME TypeOK, [Next]_vars PROVE TypeOK'
<1>1. LockTypeOK' /\ edits' \in Nat
  BY LifecycleLockTypeStep, EditsCounted DEF TypeOK
<1>2. ASSUME NEW r \in Runs,
             \/ Begin(r) \/ Copy(r) \/ Configure(r) \/ Complete(r) \/ Uninstall(r)
             \/ WriteLog(r) \/ StepFails(r) \/ Leave(r) \/ Dies(r)
      PROVE  DiskTypeOK' /\ RunTypeOK'
  BY <1>2, BeginTypes, CopyTypes, ConfigureTypes, CompleteTypes, UninstallTypes DEF TypeOK
<1>3. ASSUME TimePasses \/ UNCHANGED vars PROVE DiskTypeOK' /\ RunTypeOK'
  BY <1>3, DiskFrame, RunFrame DEF TypeOK, TimePasses, vars, lifeVars, userVars
<1>4. ASSUME NEW p \in Paths, NEW t \in UserTexts \cup {None}, UserEdits(p, t)
      PROVE  DiskTypeOK' /\ RunTypeOK'
  BY <1>4, EditTypes DEF TypeOK
<1>5. DiskTypeOK' /\ RunTypeOK'
  BY <1>2, <1>3, <1>4 DEF Next
<1>6. QED
  BY <1>1, <1>5 DEF TypeOK

\* Every variable keeps its type, whatever the runs are asked and the user does.
THEOREM LifecycleTypeCorrect == Spec => []TypeOK
<1>1. TypeOK /\ [Next]_vars => TypeOK'
  BY LifecycleTypeStep
<1>2. QED
  BY <1>1, LifecycleTypeInit, PTL DEF Spec

--------------------------------------------------------------------------------
(* The user's texts are kept.                                                *)

\* Only run r does something.
OnlyRun(r) ==
    /\ job' = job
    /\ \A s \in Runs \ {r} : /\ pc'[s] = pc[s] /\ step'[s] = step[s] /\ at'[s] = at[s]
                             /\ managed'[s] = managed[s] /\ prior'[s] = prior[s]
                             /\ cfg'[s] = cfg[s]

\* A step of a run that keeps its lock.
LEMMA OnlyMove ==
  ASSUME TypeOK, NEW r \in Runs, NEW s, step' = [step EXCEPT ![r] = s],
         UNCHANGED <<pc, at, managed, prior, cfg, job>>
  PROVE  OnlyRun(r) /\ pc'[r] = pc[r] /\ step'[r] = s
  BY DEF TypeOK, RunTypeOK, OnlyRun

LEMMA OnlyReturn ==
  ASSUME TypeOK, NEW r \in Runs, NEW code, Finish(r, code),
         UNCHANGED <<step, at, managed, prior, cfg, job>>
  PROVE  OnlyRun(r) /\ pc'[r] = "release"
  BY DEF TypeOK, LockTypeOK, OnlyRun, Finish, Go

LEMMA OnlyAcquire ==
  ASSUME TypeOK, NEW r \in Runs, AcquireLock(r), UNCHANGED <<step, at, managed, prior, cfg, job>>
  PROVE  /\ OnlyRun(r)
         /\ pc[r] \in {"idle", "mkdir", "classify", "reap", "owner", "utimes", "cleanup"}
         /\ pc[r] = "cleanup" => pc'[r] = "ended"
         /\ leftovers' = leftovers
  <1> USE DEF TypeOK, LockTypeOK, OnlyRun, Go
  <1>1. CASE Call(r) \/ MakeDir(r) \/ DirExists(r) \/ DirStale(r)
    BY <1>1 DEF Call, MakeDir, DirExists, DirStale
  <1>2. CASE DirVanished(r) \/ ReapDir(r)
    BY <1>2 DEF DirVanished, ReapDir, Retry, End
  <1>3. CASE DirLive(r) \/ AcquireFails(r)
    BY <1>3 DEF DirLive, AcquireFails, End
  <1>4. CASE WriteOwner(r) \/ TouchDir(r) \/ OwnerFails(r)
    BY <1>4 DEF WriteOwner, TouchDir, OwnerFails
  <1>5. CASE CleanUp(r)
    BY <1>5 DEF CleanUp, End
  <1>6. QED
    BY <1>1, <1>2, <1>3, <1>4, <1>5 DEF AcquireLock

LEMMA OnlyLeaves ==
  ASSUME TypeOK, NEW r \in Runs, LeaveLock(r) \/ Crash(r),
         UNCHANGED <<step, at, managed, prior, cfg, job>>
  PROVE  /\ OnlyRun(r) /\ pc'[r] \in {"ended", "crashed"}
         /\ leftovers' = leftovers \/ leftovers' = leftovers + 1
  BY DEF TypeOK, LockTypeOK, OnlyRun, LeaveLock, Release, RemoveFails, Crash, End, Go

\* What the other runs know stays true: the stamp is the same, or none of them works.
LEMMA OthersInformed ==
  ASSUME \A s \in Runs : Informed(s), NEW r \in Runs, OnlyRun(r), Informed(r)',
         stamp' = stamp \/ \A s \in Runs \ {r} : ~Holding(s)
  PROVE  \A s \in Runs : Informed(s)'
  BY DEF OnlyRun, Informed, Holding, Is

--------------------------------------------------------------------------------

Free(r, p) == Holding(r) => p \notin Elements(managed[r]) \cup Target(r)

LEMMA OthersFree ==
  ASSUME NEW r \in Runs, OnlyRun(r), NEW s \in Runs \ {r}, NEW p, Free(s, p)
  PROVE  Free(s, p)'
<1>1. pc'[s] = pc[s] /\ step'[s] = step[s] /\ at'[s] = at[s] /\ managed'[s] = managed[s]
      /\ prior'[s] = prior[s] /\ cfg'[s] = cfg[s] /\ job' = job
  BY DEF OnlyRun
<1>2. Target(s)' = Target(s)
  BY <1>1 DEF Target, At, Entry, Managed, To
<1>3. QED
  BY <1>1, <1>2 DEF Free, Holding, Elements

\* A text stays safe if it gets into a backup or its file is left alone, and the run that
\* works still has no business with it.
LEMMA StaySafe ==
  ASSUME TypeOK, TextsSafe, NEW r \in Runs, OnlyRun(r), kept' \subseteq kept,
         \A p \in Paths : backups[p] \subseteq backups'[p],
         \A u \in UserTexts : \A p \in Paths \ {Package} :
            SafeAt(u, p) => \/ u \in backups'[p]
                            \/ files'[p].text = u /\ ~Unmodified(p, u)' /\ Free(r, p)'
  PROVE  TextsSafe'
<1> SUFFICES ASSUME NEW u \in kept'
             PROVE  \/ \E p \in Paths : u \in backups'[p]
                    \/ \E p \in Paths \ {Package} : SafeAt(u, p)'
  BY DEF TextsSafe
<1>1. u \in kept /\ u \in UserTexts
  BY DEF TypeOK, DiskTypeOK
<1>2. CASE \E p \in Paths : u \in backups[p]
  BY <1>2
<1>3. ASSUME NEW p \in Paths \ {Package}, SafeAt(u, p), u \notin backups'[p] PROVE SafeAt(u, p)'
  <2>1. \A s \in Runs \ {r} : Free(s, p)
    BY <1>3 DEF SafeAt, Free
  <2>2. \A s \in Runs \ {r} : Free(s, p)'
    BY <2>1, OthersFree
  <2>3. files'[p].text = u /\ ~Unmodified(p, u)' /\ Free(r, p)'
    BY <1>1, <1>3
  <2>4. QED
    BY <2>2, <2>3 DEF SafeAt, Free
<1>4. QED
  BY <1>1, <1>2, <1>3 DEF TextsSafe

\* A step that leaves the disk alone and brings the run to no file.
LEMMA QuietStep ==
  ASSUME TypeOK, TextsSafe, NEW r \in Runs, OnlyRun(r), UNCHANGED <<diskVars, kept>>,
         Holding(r)' => Target(r)' = {} /\ (Elements(managed[r])' = {} \/
                                           (Holding(r) /\ managed'[r] = managed[r]))
  PROVE  TextsSafe'
<1>1. ASSUME NEW u, NEW p, SafeAt(u, p)
      PROVE  files'[p].text = u /\ ~Unmodified(p, u)' /\ Free(r, p)'
  <2>1. files'[p].text = u /\ ~Unmodified(p, u)'
    BY <1>1 DEF SafeAt, Unmodified, Elements, diskVars
  <2>2. Free(r, p)
    BY <1>1 DEF SafeAt, Free
  <2>3. QED
    BY <2>1, <2>2 DEF Free, Elements
<1>2. kept' \subseteq kept /\ \A p \in Paths : backups[p] \subseteq backups'[p]
  BY DEF diskVars
<1>3. QED
  BY <1>1, <1>2, StaySafe

\* A run returns, ends or dies.
LEMMA LeavingStep ==
  ASSUME TypeOK, \A s \in Runs : Informed(s), TextsSafe, NEW r \in Runs, OnlyRun(r),
         pc'[r] \in {"release", "ended", "crashed"}, step'[r] = step[r], managed'[r] = managed[r],
         UNCHANGED <<diskVars, kept>>
  PROVE  (\A s \in Runs : Informed(s)') /\ TextsSafe'
<1>1. ~Holding(r)'
  BY DEF Holding
<1>2. Informed(r)'
  BY DEF Informed, Holding, Is, OnlyRun
<1>3. QED
  BY <1>1, <1>2, OthersInformed, QuietStep DEF diskVars

\* A run goes on to another step without touching the disk.
LEMMA MovingStep ==
  ASSUME TypeOK, \A s \in Runs : Informed(s), TextsSafe, NEW r \in Runs, Holding(r),
         OnlyRun(r), pc'[r] = "held", managed'[r] = managed[r],
         step'[r] \notin {"replace", "cfgReplace", "remove"},
         Informed(r)', UNCHANGED <<diskVars, kept>>
  PROVE  (\A s \in Runs : Informed(s)') /\ TextsSafe'
<1>1. Target(r)' = {}
  BY DEF Target, At
<1>2. QED
  BY <1>1, OthersInformed, QuietStep DEF diskVars

\* Nobody but the run that has the lock works, so what it does to the stamp misleads no other.
LEMMA WorkingStep ==
  ASSUME TypeOK, RunsSerialized, \A s \in Runs : Informed(s), TextsSafe,
         NEW r \in Runs, Holding(r), OnlyRun(r), Informed(r)', kept' \subseteq kept,
         \A p \in Paths : backups[p] \subseteq backups'[p],
         \A u \in UserTexts : \A p \in Paths \ {Package} :
            SafeAt(u, p) => \/ u \in backups'[p]
                            \/ files'[p].text = u /\ ~Unmodified(p, u)' /\ Free(r, p)'
  PROVE  (\A s \in Runs : Informed(s)') /\ TextsSafe'
<1>1. \A s \in Runs \ {r} : ~Holding(s)
  BY DEF RunsSerialized
<1>2. QED
  BY <1>1, OthersInformed, StaySafe

\* The run writes or removes a file that holds no safe text.
LEMMA WritingStep ==
  ASSUME TypeOK, RunsSerialized, \A s \in Runs : Informed(s), TextsSafe,
         NEW r \in Runs, Holding(r), OnlyRun(r), Informed(r)',
         NEW q \in Paths, NEW f, WriteFile(q, f), UNCHANGED <<backups, stamp, kept>>,
         Elements(managed[r])' \subseteq Elements(managed[r]) \cup {q}, Target(r)' = {},
         q = Package \/ \A u \in UserTexts : ~SafeAt(u, q)
  PROVE  (\A s \in Runs : Informed(s)') /\ TextsSafe'
<1>1. ASSUME NEW u \in UserTexts, NEW p \in Paths \ {Package}, SafeAt(u, p)
      PROVE  files'[p].text = u /\ ~Unmodified(p, u)' /\ Free(r, p)'
  <2>1. p # q
    BY <1>1
  <2>2. files'[p] = files[p]
    BY <2>1 DEF WriteFile, TypeOK, DiskTypeOK
  <2>3. Unmodified(p, u)' = Unmodified(p, u)
    BY DEF Unmodified, Elements
  <2>4. p \notin Elements(managed[r])
    BY <1>1 DEF SafeAt
  <2>5. Free(r, p)'
    BY <2>1, <2>4 DEF Free
  <2>6. QED
    BY <1>1, <2>2, <2>3, <2>5 DEF SafeAt
<1>2. QED
  BY <1>1, WorkingStep

\* The run copies a file it is about to replace to a backup.
LEMMA BackingUpStep ==
  ASSUME TypeOK, RunsSerialized, \A s \in Runs : Informed(s), TextsSafe,
         NEW r \in Runs, Holding(r), OnlyRun(r), Informed(r)',
         NEW q \in Paths, BackUp(q), UNCHANGED <<files, stamp, kept>>,
         managed'[r] = managed[r], Target(r)' \subseteq {q}
  PROVE  (\A s \in Runs : Informed(s)') /\ TextsSafe'
<1>1. \A p \in Paths : backups[p] \subseteq backups'[p]
  BY DEF BackUp, TypeOK, DiskTypeOK
<1>2. ASSUME NEW u \in UserTexts, NEW p \in Paths \ {Package}, SafeAt(u, p)
      PROVE  \/ u \in backups'[p]
             \/ files'[p].text = u /\ ~Unmodified(p, u)' /\ Free(r, p)'
  <2>1. CASE p = q
    <3>1. files[q].text = u /\ u # None
      BY <1>2, <2>1, LifecycleAssumption DEF SafeAt, LifecycleAssumption
    <3>2. Present(q)
      BY <3>1 DEF Present, Nothing
    <3>3. backups' = [backups EXCEPT ![q] = @ \cup {files[q].text}]
      BY <3>2 DEF BackUp
    <3>4. QED
      BY <2>1, <3>1, <3>3 DEF TypeOK, DiskTypeOK
  <2>2. CASE p # q
    <3>1. Unmodified(p, u)' = Unmodified(p, u)
      BY DEF Unmodified, Elements
    <3>2. Free(r, p)'
      BY <1>2, <2>2 DEF SafeAt, Free, Elements
    <3>3. QED
      BY <1>2, <3>1, <3>2 DEF SafeAt
  <2>3. QED
    BY <2>1, <2>2
<1>3. QED
  BY <1>1, <1>2, WorkingStep

LEMMA AppendElements ==
  ASSUME NEW S, NEW s \in Seq(S), NEW x \in S PROVE Elements(Append(s, x)) = Elements(s) \cup {x}
<1>1. DOMAIN Append(s, x) = DOMAIN s \cup {Len(s) + 1}
  OBVIOUS
<1>2. \A k \in DOMAIN s : Append(s, x)[k] = s[k]
  OBVIOUS
<1>3. Append(s, x)[Len(s) + 1] = x
  OBVIOUS
<1>4. QED
  BY <1>1, <1>2, <1>3 DEF Elements

\* The texts of the files a run writes are not the user's; a file that is not there has none.
LEMMA AbsentUnsafe ==
  ASSUME NEW q, ~Present(q) PROVE \A u \in UserTexts : ~SafeAt(u, q)
  BY LifecycleAssumption DEF LifecycleAssumption, SafeAt, Present, Nothing

LEMMA TargetUnsafe ==
  ASSUME NEW r \in Runs, Holding(r), NEW q \in Target(r) PROVE \A u \in UserTexts : ~SafeAt(u, q)
  BY DEF SafeAt

--------------------------------------------------------------------------------

\* The context of every step below.
Quiet == TypeOK /\ RunsSerialized /\ (\A s \in Runs : Informed(s)) /\ TextsSafe
Kept == (\A s \in Runs : Informed(s)) /\ TextsSafe

LEMMA BeginKeeps ==
  ASSUME Quiet, NEW r \in Runs,
         Begin(r) \/ WriteLog(r) \/ StepFails(r) \/ Leave(r) \/ Dies(r)
  PROVE  Kept'
<1> USE DEF Quiet, Kept
<1>1. CASE TakeLock(r)
  <2>1. /\ OnlyRun(r) /\ step'[r] = step[r] /\ managed'[r] = managed[r] /\ prior'[r] = prior[r]
        /\ UNCHANGED <<diskVars, kept>>
        /\ pc[r] \in {"idle", "mkdir", "classify", "reap", "owner", "utimes", "cleanup"}
        /\ pc[r] = "cleanup" => pc'[r] = "ended"
    BY <1>1, OnlyAcquire DEF TakeLock, localVars, readVars
  <2>2. CASE pc[r] = "cleanup"
    BY <2>1, <2>2, LeavingStep
  <2>3. CASE pc[r] # "cleanup"
    <3>1. step[r] = "readStamp" /\ managed[r] = <<>>
      BY <2>1, <2>3 DEF Informed
    <3>2. Informed(r)'
      BY <2>1, <3>1 DEF Informed, Is, OnlyRun
    <3>3. Target(r)' = {} /\ Elements(managed[r])' = {}
      BY <2>1, <3>1 DEF Target, At, Elements
    <3>4. QED
      BY <2>1, <3>2, <3>3, OthersInformed, QuietStep DEF diskVars
  <2>4. QED
    BY <2>2, <2>3
<1>2. CASE ReadBadStamp(r) \/ Decline(r) \/ WriteLog(r)
  BY <1>2, OnlyReturn, LeavingStep
  DEF ReadBadStamp, Decline, WriteLog, Return, readVars, userVars
<1>3. CASE StepFails(r)
  BY <1>3, OnlyReturn, LeavingStep DEF StepFails, readVars, userVars
<1>4. CASE Leave(r) \/ Dies(r)
  BY <1>4, OnlyLeaves, LeavingStep
  DEF Leave, Dies, lifeVars, localVars, readVars, userVars
<1>5. CASE ReadStamp(r)
  <2>1. /\ Holding(r) /\ pc' = pc /\ step[r] = "readStamp"
        /\ step' = [step EXCEPT ![r] = "decide"] /\ prior' = [prior EXCEPT ![r] = stamp]
        /\ UNCHANGED <<diskVars, at, managed, cfg, job, kept>>
    BY <1>5 DEF ReadStamp, At, Move, lockVars, runVars, userVars, Holding
  <2>2. OnlyRun(r) /\ step'[r] = "decide" /\ prior'[r] = stamp /\ pc'[r] = "held"
    BY <2>1 DEF OnlyRun, TypeOK, RunTypeOK, Holding
  <2>3. Informed(r)'
    BY <2>1, <2>2 DEF Informed, Is, diskVars
  <2>4. QED
    BY <2>1, <2>2, <2>3, MovingStep
<1>6. CASE Proceed(r)
  <2>1. /\ Holding(r) /\ pc' = pc /\ step[r] = "decide"
        /\ UNCHANGED <<diskVars, at, managed, prior, cfg, job, kept>>
        /\ step' = [step EXCEPT ![r] = IF Is(r, "uninstall") THEN "locate" ELSE "copy"]
    BY <1>6 DEF Proceed, At, Move, lockVars, runVars, userVars, readVars, Holding
  <2>2. OnlyRun(r) /\ pc'[r] = "held" /\ step'[r] = IF Is(r, "uninstall") THEN "locate" ELSE "copy"
    BY <2>1, OnlyMove DEF Holding
  <2>3. Informed(r)'
    BY <2>1, <2>2 DEF Informed, Is, diskVars
  <2>4. QED
    BY <2>1, <2>2, <2>3, MovingStep
<1>7. QED
  BY <1>1, <1>2, <1>3, <1>4, <1>5, <1>6 DEF Begin

\* A step of a run that has the lock and keeps it.
LEMMA WorkerMoves ==
  ASSUME Quiet, NEW r \in Runs, NEW t, NEW s, At(r, t), step' = [step EXCEPT ![r] = s],
         UNCHANGED <<pc, at, prior, cfg, job>>,
         \A q \in Runs \ {r} : managed'[q] = managed[q]
  PROVE  /\ OnlyRun(r) /\ Holding(r) /\ pc'[r] = "held" /\ step[r] = t /\ step'[r] = s
         /\ prior'[r] = prior[r] /\ job' = job
  BY DEF Quiet, TypeOK, RunTypeOK, OnlyRun, Holding, At

LEMMA WrittenElements ==
  ASSUME Quiet, NEW r \in Runs, NEW q \in Paths, managed' = [managed EXCEPT ![r] = Append(@, q)]
  PROVE  /\ Elements(managed[r])' = Elements(managed[r]) \cup {q}
         /\ \A s \in Runs \ {r} : managed'[s] = managed[s]
<1>1. managed[r] \in Seq(Paths) /\ managed'[r] = Append(managed[r], q)
  BY DEF Quiet, TypeOK, RunTypeOK
<1>2. Elements(managed[r])' = Elements(managed[r]')
  BY DEF Elements
<1>3. QED
  BY <1>1, <1>2, AppendElements DEF Quiet, TypeOK, RunTypeOK

LEMMA CopyKeeps == ASSUME Quiet, NEW r \in Runs, Copy(r) PROVE Kept'
<1> USE DEF Quiet, Kept
<1>1. /\ Copies[To(r)] \in Seq(Paths)
      /\ at[r] \in DOMAIN Copies[To(r)] => Entry(r) \in Paths
  BY TargetTypes DEF TypeOK
<1>2. CASE CopyCreates(r)
  <2>1. /\ At(r, "copy") /\ ~Present(Entry(r)) /\ Entry(r) \in Paths
        /\ WriteFile(Entry(r), Plain(To(r)))
        /\ managed' = [managed EXCEPT ![r] = Append(@, Entry(r))]
        /\ at' = [at EXCEPT ![r] = @ + 1]
        /\ UNCHANGED <<step, pc, backups, stamp, prior, cfg, job, kept>>
    BY <1>1, <1>2 DEF CopyCreates, Copying, Written, lockVars, runVars, readVars, userVars
  <2>2. /\ Elements(managed[r])' = Elements(managed[r]) \cup {Entry(r)}
        /\ \A s \in Runs \ {r} : managed'[s] = managed[s]
    BY <2>1, WrittenElements
  <2>3. OnlyRun(r) /\ Holding(r) /\ step[r] = "copy"
    BY <2>1, <2>2 DEF OnlyRun, Holding, At, TypeOK, RunTypeOK
  <2>4. Informed(r)' /\ Target(r)' = {}
    BY <2>1, <2>3 DEF Informed, Is, Target, At, Holding
  <2>5. QED
    BY <2>1, <2>2, <2>3, <2>4, AbsentUnsafe, WritingStep
<1>3. CASE CopyRefused(r)
  BY <1>3, OnlyReturn, LeavingStep DEF CopyRefused, Return, readVars, userVars
<1>4. CASE CopyBacksUp(r)
  <2>1. /\ At(r, "copy") /\ Entry(r) \in Paths /\ BackUp(Entry(r))
        /\ step' = [step EXCEPT ![r] = "replace"]
        /\ UNCHANGED <<pc, files, stamp, at, managed, prior, cfg, job, kept>>
    BY <1>1, <1>4 DEF CopyBacksUp, Copying, Move, lockVars, runVars, readVars, userVars
  <2>2. OnlyRun(r) /\ Holding(r) /\ step[r] = "copy" /\ step'[r] = "replace" /\ pc'[r] = "held"
    BY <2>1, WorkerMoves
  <2>3. Informed(r)'
    BY <2>1, <2>2 DEF Informed, Is, Holding
  <2>4. Target(r)' = {Entry(r)}
    BY <2>1, <2>2 DEF Target, At, Entry, To
  <2>5. QED
    BY <2>1, <2>2, <2>3, <2>4, BackingUpStep
<1>5. CASE CopyReplaces(r)
  <2>1. /\ At(r, "replace") /\ WriteFile(Entry(r), Plain(To(r)))
        /\ managed' = [managed EXCEPT ![r] = Append(@, Entry(r))]
        /\ at' = [at EXCEPT ![r] = @ + 1] /\ step' = [step EXCEPT ![r] = "copy"]
        /\ UNCHANGED <<pc, backups, stamp, prior, cfg, job, kept>>
    BY <1>5 DEF CopyReplaces, Written, Move, lockVars, runVars, readVars, userVars
  <2>2. Entry(r) \in Paths
    BY <1>1, <2>1 DEF At, TypeOK, RunTypeOK
  <2>3. /\ Elements(managed[r])' = Elements(managed[r]) \cup {Entry(r)}
        /\ \A s \in Runs \ {r} : managed'[s] = managed[s]
    BY <2>1, <2>2, WrittenElements
  <2>4. OnlyRun(r) /\ Holding(r) /\ step[r] = "replace" /\ step'[r] = "copy"
    BY <2>1, <2>3 DEF OnlyRun, Holding, At, TypeOK, RunTypeOK
  <2>5. Informed(r)' /\ Target(r)' = {}
    BY <2>1, <2>4 DEF Informed, Is, Target, At, Holding
  <2>6. Entry(r) \in Target(r)
    BY <2>1 DEF Target, At
  <2>7. QED
    BY <2>1, <2>2, <2>3, <2>4, <2>5, <2>6, TargetUnsafe, WritingStep
<1>6. CASE CopiesDone(r)
  <2>1. /\ At(r, "copy") /\ step' = [step EXCEPT ![r] = "locate"]
        /\ UNCHANGED <<diskVars, pc, at, managed, prior, cfg, job, kept>>
    BY <1>6 DEF CopiesDone, Move, lockVars, runVars, readVars, userVars
  <2>2. /\ OnlyRun(r) /\ Holding(r) /\ pc'[r] = "held" /\ step[r] = "copy" /\ step'[r] = "locate"
        /\ prior'[r] = prior[r] /\ job' = job
    BY <2>1, WorkerMoves
  <2>3. Informed(r)'
    BY <2>1, <2>2 DEF Informed, Is, Holding, diskVars
  <2>4. QED
    BY <2>1, <2>2, <2>3, MovingStep
<1>7. QED
  BY <1>2, <1>3, <1>4, <1>5, <1>6 DEF Copy

LEMMA ConfigureKeeps == ASSUME Quiet, NEW r \in Runs, Configure(r) PROVE Kept'
<1> USE DEF Quiet, Kept
<1>1. CASE LocateForMerge(r)
  <2>1. /\ At(r, "locate") /\ ~Is(r, "uninstall") /\ step' = [step EXCEPT ![r] = "cfgBackup"]
        /\ UNCHANGED <<diskVars, pc, at, managed, prior, job, kept>>
        /\ \E c \in Paths \cup {None} : cfg' = [cfg EXCEPT ![r] = c]
    BY <1>1, LifecycleAssumption
    DEF LocateForMerge, Move, lockVars, runVars, userVars, LifecycleAssumption
  <2>2. /\ OnlyRun(r) /\ Holding(r) /\ pc'[r] = "held" /\ step[r] = "locate"
        /\ step'[r] = "cfgBackup" /\ prior'[r] = prior[r] /\ job' = job
    BY <2>1 DEF OnlyRun, Holding, At, TypeOK, RunTypeOK
  <2>3. Informed(r)'
    BY <2>1, <2>2 DEF Informed, Is, Holding, diskVars
  <2>4. QED
    BY <2>1, <2>2, <2>3, MovingStep
<1>2. CASE BackUpConfig(r)
  <2>1. /\ At(r, "cfgBackup") /\ BackUp(cfg[r]) /\ step' = [step EXCEPT ![r] = "cfgReplace"]
        /\ UNCHANGED <<pc, files, stamp, at, managed, prior, cfg, job, kept>>
    BY <1>2 DEF BackUpConfig, Move, lockVars, runVars, readVars, userVars
  <2>2. cfg[r] \in Paths
    BY <2>1 DEF At, TypeOK, RunTypeOK
  <2>3. /\ OnlyRun(r) /\ Holding(r) /\ pc'[r] = "held"
        /\ step[r] = "cfgBackup" /\ step'[r] = "cfgReplace"
    BY <2>1, WorkerMoves
  <2>4. Informed(r)'
    BY <2>1, <2>3 DEF Informed, Is, Holding
  <2>5. Target(r)' = {cfg[r]}
    BY <2>1, <2>3 DEF Target, At
  <2>6. QED
    BY <2>1, <2>2, <2>3, <2>4, <2>5, BackingUpStep
<1>3. CASE WriteConfig(r)
  <2>1. /\ At(r, "cfgReplace") /\ WriteFile(cfg[r], merged[r])
        /\ UNCHANGED <<pc, backups, stamp, at, prior, cfg, job, kept>>
        /\ \/ Is(r, "uninstall") /\ managed' = managed /\ step' = [step EXCEPT ![r] = "dropStamp"]
           \/ /\ ~Is(r, "uninstall") /\ step' = [step EXCEPT ![r] = "package"]
              /\ managed' = [managed EXCEPT ![r] = Append(@, cfg[r])]
    BY <1>3 DEF WriteConfig, Move, lockVars, runVars, readVars, userVars
  <2>2. cfg[r] \in Paths /\ cfg[r] \in Target(r)
    BY <2>1 DEF At, TypeOK, RunTypeOK, Target
  <2>3. CASE Is(r, "uninstall") /\ managed' = managed /\ step' = [step EXCEPT ![r] = "dropStamp"]
    <3>1. /\ OnlyRun(r) /\ Holding(r) /\ pc'[r] = "held"
          /\ step[r] = "cfgReplace" /\ step'[r] = "dropStamp"
      BY <2>1, <2>3, WorkerMoves
    <3>2. Informed(r)' /\ Target(r)' = {}
      BY <2>1, <2>3, <3>1 DEF Informed, Is, Target, At, Holding
    <3>3. Elements(managed[r])' = Elements(managed[r])
      BY <2>3 DEF Elements
    <3>4. QED
      BY <2>1, <2>2, <3>1, <3>2, <3>3, TargetUnsafe, WritingStep
  <2>4. CASE /\ ~Is(r, "uninstall") /\ step' = [step EXCEPT ![r] = "package"]
             /\ managed' = [managed EXCEPT ![r] = Append(@, cfg[r])]
    <3>1. /\ Elements(managed[r])' = Elements(managed[r]) \cup {cfg[r]}
          /\ \A s \in Runs \ {r} : managed'[s] = managed[s]
      BY <2>2, <2>4, WrittenElements
    <3>2. /\ OnlyRun(r) /\ Holding(r) /\ pc'[r] = "held"
          /\ step[r] = "cfgReplace" /\ step'[r] = "package"
      BY <2>1, <2>4, <3>1, WorkerMoves
    <3>3. Informed(r)' /\ Target(r)' = {}
      BY <2>1, <2>4, <3>2 DEF Informed, Is, Target, At, Holding
    <3>4. QED
      BY <2>1, <2>2, <3>1, <3>2, <3>3, TargetUnsafe, WritingStep
  <2>5. QED
    BY <2>1, <2>3, <2>4
<1>4. QED
  BY <1>1, <1>2, <1>3 DEF Configure

LEMMA CompleteKeeps == ASSUME Quiet, NEW r \in Runs, Complete(r) PROVE Kept'
<1> USE DEF Quiet, Kept
<1>1. Package \in Paths
  BY LifecycleAssumption DEF LifecycleAssumption
<1>2. CASE NoPackage(r) \/ HashFiles(r)
  <2>1. PICK t \in {"package", "hash"}, s \in {"hash", "writeStamp"} :
           /\ At(r, t) /\ step' = [step EXCEPT ![r] = s]
           /\ UNCHANGED <<diskVars, pc, at, managed, prior, cfg, job, kept>>
    BY <1>2 DEF NoPackage, HashFiles, Move, lockVars, runVars, readVars, userVars
  <2>2. /\ OnlyRun(r) /\ Holding(r) /\ pc'[r] = "held" /\ step[r] = t /\ step'[r] = s
        /\ prior'[r] = prior[r] /\ job' = job
    BY <2>1, WorkerMoves
  <2>3. Informed(r)'
    BY <2>1, <2>2 DEF Informed, Is, Holding, diskVars
  <2>4. QED
    BY <2>1, <2>2, <2>3, MovingStep
<1>3. CASE PackageRefused(r)
  BY <1>3, OnlyReturn, LeavingStep DEF PackageRefused, Return, readVars, userVars
<1>4. CASE RemovePackage(r)
  <2>1. /\ At(r, "package") /\ WriteFile(Package, Nothing)
        /\ step' = [step EXCEPT ![r] = "packageCopy"]
        /\ UNCHANGED <<pc, backups, stamp, at, managed, prior, cfg, job, kept>>
    BY <1>4 DEF RemovePackage, Move, lockVars, runVars, readVars, userVars
  <2>2. /\ OnlyRun(r) /\ Holding(r) /\ pc'[r] = "held" /\ step[r] = "package"
        /\ step'[r] = "packageCopy"
    BY <2>1, WorkerMoves
  <2>3. Informed(r)' /\ Target(r)' = {}
    BY <2>1, <2>2 DEF Informed, Is, Target, At, Holding
  <2>4. Elements(managed[r])' = Elements(managed[r])
    BY <2>1 DEF Elements
  <2>5. QED
    BY <1>1, <2>1, <2>2, <2>3, <2>4, WritingStep
<1>5. CASE CopyPackage(r)
  <2>1. /\ At(r, "packageCopy") /\ WriteFile(Package, Plain(To(r)))
        /\ managed' = [managed EXCEPT ![r] = Append(@, Package)]
        /\ step' = [step EXCEPT ![r] = "hash"]
        /\ UNCHANGED <<pc, backups, stamp, at, prior, cfg, job, kept>>
    BY <1>5 DEF CopyPackage, Move, lockVars, runVars, readVars, userVars
  <2>2. /\ Elements(managed[r])' = Elements(managed[r]) \cup {Package}
        /\ \A s \in Runs \ {r} : managed'[s] = managed[s]
    BY <1>1, <2>1, WrittenElements
  <2>3. /\ OnlyRun(r) /\ Holding(r) /\ pc'[r] = "held" /\ step[r] = "packageCopy"
        /\ step'[r] = "hash"
    BY <2>1, <2>2, WorkerMoves
  <2>4. Informed(r)' /\ Target(r)' = {}
    BY <2>1, <2>3 DEF Informed, Is, Target, At, Holding
  <2>5. QED
    BY <1>1, <2>1, <2>2, <2>3, <2>4, WritingStep
<1>6. CASE CopyPackageFails(r)
  <2>1. /\ Holding(r) /\ Finish(r, "WRITE_FAILED")
        /\ UNCHANGED <<step, backups, stamp, at, managed, prior, cfg, job, kept>>
        /\ files' = files \/ WriteFile(Package, Plain(Partial))
    BY <1>6 DEF CopyPackageFails, At, Holding, readVars, userVars
  <2>2. OnlyRun(r) /\ pc'[r] = "release"
    BY <2>1, OnlyReturn
  <2>3. CASE files' = files
    BY <2>1, <2>2, <2>3, LeavingStep DEF diskVars
  <2>4. CASE WriteFile(Package, Plain(Partial))
    <3>1. Informed(r)' /\ Target(r)' = {}
      BY <2>1, <2>2 DEF Informed, Is, Target, At, Holding, OnlyRun
    <3>2. Elements(managed[r])' = Elements(managed[r])
      BY <2>1 DEF Elements
    <3>3. QED
      BY <1>1, <2>1, <2>2, <2>4, <3>1, <3>2, WritingStep
  <2>5. QED
    BY <2>1, <2>3, <2>4
<1>7. CASE WriteStamp(r) \/ WriteBadStamp(r)
  <2>1. /\ At(r, "writeStamp") /\ step' = [step EXCEPT ![r] = "log"]
        /\ UNCHANGED <<pc, files, backups, at, managed, prior, cfg, job, kept>>
    BY <1>7
    DEF WriteStamp, WriteBadStamp, Move, lockVars, runVars, readVars, userVars
  <2>2. /\ OnlyRun(r) /\ Holding(r) /\ pc'[r] = "held" /\ step[r] = "writeStamp"
        /\ step'[r] = "log" /\ prior'[r] = prior[r]
    BY <2>1, WorkerMoves
  <2>3. Informed(r)' /\ Target(r)' = {}
    BY <2>1, <2>2 DEF Informed, Is, Target, At, Holding
  <2>4. stamp'.managed = managed[r] \/ stamp'.managed = <<>>
    BY <1>7, StampTypes DEF WriteStamp, WriteBadStamp
  <2>5. ASSUME NEW u \in UserTexts, NEW p \in Paths \ {Package}, SafeAt(u, p)
        PROVE  files'[p].text = u /\ ~Unmodified(p, u)' /\ Free(r, p)'
    <3>1. p \notin Elements(managed[r])
      BY <2>2, <2>5 DEF SafeAt
    <3>2. ~Unmodified(p, u)'
      BY <2>4, <3>1 DEF Unmodified, Elements
    <3>3. Free(r, p)'
      BY <2>1, <2>3, <3>1 DEF Free, Elements
    <3>4. QED
      BY <2>1, <2>5, <3>2, <3>3 DEF SafeAt
  <2>6. QED
    BY <2>1, <2>2, <2>3, <2>5, WorkingStep
<1>8. QED
  BY <1>2, <1>3, <1>4, <1>5, <1>6, <1>7 DEF Complete

LEMMA UninstallKeeps == ASSUME Quiet, NEW r \in Runs, Uninstall(r) PROVE Kept'
<1> USE DEF Quiet, Kept
<1>1. at[r] \in DOMAIN prior[r].managed => Managed(r) \in Paths
  BY TargetTypes DEF TypeOK
<1>2. CASE LocateForStrip(r) \/ CompareSkips(r) \/ RemoveManagedFails(r) \/ CompareDone(r)
           \/ StripEntry(r)
  <2>1. PICK t \in {"locate", "compare", "remove", "strip"},
             s \in {"compare", "dropStamp", "strip", "cfgBackup"} :
           /\ At(r, t) /\ (t = "locate" => Is(r, "uninstall"))
           /\ step'[r] = s /\ \A q \in Runs \ {r} : step'[q] = step[q]
           /\ UNCHANGED <<diskVars, pc, managed, prior, job, kept>>
           /\ \A q \in Runs \ {r} : at'[q] = at[q] /\ cfg'[q] = cfg[q]
    <3> USE DEF TypeOK, RunTypeOK, Move, lockVars, runVars, readVars, userVars
    <3>1. CASE LocateForStrip(r)
      BY <3>1 DEF LocateForStrip
    <3>2. CASE CompareSkips(r)
      BY <3>2 DEF CompareSkips, Comparing, At
    <3>3. CASE RemoveManagedFails(r)
      BY <3>3 DEF RemoveManagedFails
    <3>4. CASE CompareDone(r)
      BY <3>4 DEF CompareDone
    <3>5. CASE StripEntry(r)
      BY <3>5 DEF StripEntry
    <3>6. QED
      BY <1>2, <3>1, <3>2, <3>3, <3>4, <3>5
  <2>2. /\ OnlyRun(r) /\ Holding(r) /\ pc'[r] = "held" /\ step[r] = t /\ step'[r] = s
    BY <2>1 DEF OnlyRun, Holding, At
  <2>3. Is(r, "uninstall") /\ Is(r, "uninstall")'
    BY <2>1, <2>2 DEF Informed, Is
  <2>4. Informed(r)'
    BY <2>1, <2>2, <2>3 DEF Informed, Is, Holding, diskVars
  <2>5. QED
    BY <2>1, <2>2, <2>4, MovingStep
<1>3. CASE CompareMatches(r)
  <2>1. /\ At(r, "compare") /\ at[r] \in DOMAIN prior[r].managed /\ ~Modified(r)
        /\ step' = [step EXCEPT ![r] = "remove"]
        /\ UNCHANGED <<diskVars, pc, at, managed, prior, cfg, job, kept>>
    BY <1>3 DEF CompareMatches, Comparing, Move, lockVars, runVars, readVars, userVars
  <2>2. /\ OnlyRun(r) /\ Holding(r) /\ pc'[r] = "held" /\ step[r] = "compare"
        /\ step'[r] = "remove" /\ prior'[r] = prior[r]
    BY <2>1, WorkerMoves
  <2>3. prior[r] = stamp /\ Is(r, "uninstall")
    BY <2>2 DEF Informed, Holding
  <2>4. Informed(r)' /\ Target(r)' = {Managed(r)}
    BY <2>1, <2>2, <2>3 DEF Informed, Is, Target, At, Holding, Managed, diskVars
  <2>5. ASSUME NEW u \in UserTexts, NEW p \in Paths \ {Package}, SafeAt(u, p)
        PROVE  files'[p].text = u /\ ~Unmodified(p, u)' /\ Free(r, p)'
    <3>1. p # Managed(r)
      <4> SUFFICES ASSUME p = Managed(r) PROVE FALSE
        OBVIOUS
      <4>1. p \in Elements(stamp.managed)
        BY <2>1, <2>3 DEF Managed, Elements
      <4>2. stamp.hashes[p] = Nothing \/ stamp.hashes[p] = files[p]
        BY <2>1, <2>3 DEF Modified
      <4>3. stamp.hashes[p].text \in {None, u}
        BY <2>5, <4>2 DEF SafeAt, Nothing
      <4>4. QED
        BY <2>5, <4>1, <4>3 DEF SafeAt, Unmodified
    <3>2. Free(r, p)'
      BY <2>1, <2>2, <2>4, <2>5, <3>1 DEF SafeAt, Free, Elements
    <3>3. QED
      BY <2>1, <2>5, <3>2 DEF SafeAt, Unmodified, Elements, diskVars
  <2>6. QED
    BY <2>1, <2>2, <2>4, <2>5, WorkingStep DEF diskVars
<1>4. CASE RemoveManaged(r)
  <2>1. /\ At(r, "remove") /\ WriteFile(Managed(r), Nothing)
        /\ step' = [step EXCEPT ![r] = "compare"] /\ at' = [at EXCEPT ![r] = @ + 1]
        /\ UNCHANGED <<pc, backups, stamp, managed, prior, cfg, job, kept>>
    BY <1>4 DEF RemoveManaged, Move, lockVars, runVars, readVars, userVars
  <2>2. Managed(r) \in Paths /\ Managed(r) \in Target(r)
    BY <1>1, <2>1 DEF At, Target, TypeOK, RunTypeOK
  <2>3. OnlyRun(r) /\ Holding(r) /\ step[r] = "remove" /\ step'[r] = "compare"
    BY <2>1 DEF OnlyRun, Holding, At, TypeOK, RunTypeOK
  <2>4. Informed(r)' /\ Target(r)' = {}
    BY <2>1, <2>3 DEF Informed, Is, Target, At, Holding
  <2>5. Elements(managed[r])' = Elements(managed[r])
    BY <2>1 DEF Elements
  <2>6. QED
    BY <2>1, <2>2, <2>3, <2>4, <2>5, TargetUnsafe, WritingStep
<1>5. CASE StripFails(r)
  BY <1>5, OnlyReturn, LeavingStep DEF StripFails, Return, readVars, userVars
<1>6. CASE DropStamp(r) \/ Purge(r)
  <2>1. PICK t \in {"dropStamp", "purge"}, s \in {"purge", "log"} :
           /\ At(r, t) /\ step' = [step EXCEPT ![r] = s]
           /\ UNCHANGED <<pc, files, at, managed, prior, cfg, job>>
    BY <1>6 DEF DropStamp, Purge, Move, lockVars, runVars, readVars
  <2>2. /\ OnlyRun(r) /\ Holding(r) /\ pc'[r] = "held" /\ step[r] = t
        /\ step'[r] = s
    BY <2>1, WorkerMoves
  <2>3. Is(r, "uninstall") /\ managed[r] = <<>> /\ managed'[r] = <<>>
    BY <2>1, <2>2 DEF Informed
  <2>4. stamp' = NoStamp /\ (t = "purge" => stamp = NoStamp)
    BY <1>6, <2>1, <2>2 DEF DropStamp, Purge, Informed, At, Holding
  <2>5. Informed(r)' /\ Target(r)' = {}
    BY <2>1, <2>2, <2>3, <2>4 DEF Informed, Is, Target, At, Holding
  <2>6. ASSUME NEW p, NEW u PROVE ~Unmodified(p, u)' /\ Free(r, p)'
    BY <2>3, <2>4, <2>5, StampTypes DEF Unmodified, Free, Elements
  <2>7. CASE DropStamp(r)
    <3>1. UNCHANGED <<files, backups, kept>>
      BY <2>7 DEF DropStamp, userVars
    <3>2. QED
      BY <2>2, <2>5, <2>6, <3>1, WorkingStep DEF SafeAt
  <2>8. CASE Purge(r)
    <3>1. /\ kept' \subseteq kept /\ backups' \in [Paths -> SUBSET Texts]
          /\ kept' \subseteq {files[p].text : p \in Paths \ {Package}}
                             \cup UNION {backups'[p] : p \in Paths}
      <4> DEFINE purged == IF Has(r, "purge") THEN Elements(prior[r].managed) ELSE {}
                 left == [p \in Paths |-> IF p \in purged THEN {} ELSE backups[p]]
      <4>1. /\ backups' = left
            /\ kept' = kept \cap ({files[p].text : p \in Paths \ {Package}}
                                  \cup UNION {left[p] : p \in Paths})
        BY <2>8 DEF Purge
      <4>2. left \in [Paths -> SUBSET Texts]
        BY DEF TypeOK, DiskTypeOK
      <4> HIDE DEF left
      <4>3. QED
        BY <4>1, <4>2
    <3>2. \A q \in Runs \ {r} : ~Holding(q)
      BY <2>2 DEF RunsSerialized
    <3>3. \A q \in Runs \ {r} : ~Holding(q)'
      BY <2>1, <3>2 DEF Holding
    <3>4. \A q \in Runs : Informed(q)'
      BY <2>2, <2>5, <3>2, OthersInformed
    <3>5. ASSUME NEW u, NEW p, files[p].text = u PROVE SafeAt(u, p)'
      BY <2>1, <2>6, <3>3, <3>5 DEF SafeAt, Free
    <3>6. TextsSafe'
      BY <3>1, <3>5 DEF TextsSafe
    <3>7. QED
      BY <3>4, <3>6
  <2>9. QED
    BY <1>6, <2>7, <2>8
<1>7. QED
  BY <1>2, <1>3, <1>4, <1>5, <1>6 DEF Uninstall

\* What the user writes is safe from the start, unless the stamp takes it for installed.
LEMMA EditKeeps ==
  ASSUME Quiet, NEW p \in Paths, NEW t \in UserTexts \cup {None}, UserEdits(p, t)
  PROVE  Kept'
<1> USE DEF Quiet, Kept
<1>1. /\ WriteFile(p, IF t = None THEN Nothing ELSE [files[p] EXCEPT !.text = t])
      /\ UNCHANGED <<pc, backups, stamp, step, at, managed, prior, cfg, job>>
  BY DEF UserEdits, lockVars, runVars, localVars, readVars
<1>2. \A s \in Runs : Informed(s)'
  BY <1>1 DEF Informed, Is, Holding
<1>3. \A s \in Runs : Target(s)' = Target(s) /\ Elements(managed[s])' = Elements(managed[s])
  BY <1>1 DEF Target, At, Entry, Managed, To, Elements
<1>4. \A u, q : Unmodified(q, u)' = Unmodified(q, u)
  BY <1>1 DEF Unmodified, Elements
<1>5. ASSUME NEW u \in kept'
      PROVE  \/ \E q \in Paths : u \in backups'[q]
             \/ \E q \in Paths \ {Package} : SafeAt(u, q)'
  <2>1. CASE u \in kept \ {files[p].text}
    <3>1. CASE \E q \in Paths : u \in backups[q]
      BY <1>1, <3>1
    <3>2. ASSUME NEW q \in Paths \ {Package}, SafeAt(u, q) PROVE SafeAt(u, q)'
      <4>1. q # p
        BY <2>1, <3>2 DEF SafeAt
      <4>2. files'[q] = files[q]
        BY <1>1, <4>1 DEF WriteFile, TypeOK, DiskTypeOK
      <4>3. QED
        BY <1>1, <1>3, <1>4, <3>2, <4>2 DEF SafeAt, Holding
    <3>3. QED
      BY <2>1, <3>1, <3>2 DEF TextsSafe
  <2>2. CASE u \notin kept \ {files[p].text}
    <3>1. u = t /\ t # None /\ p # Package /\ ~Unmodified(p, t) /\ \A s \in Runs : ~Holding(s)
      BY <1>5, <2>2 DEF UserEdits
    <3>2. files'[p].text = t
      <4>1. files[p] \in Files /\ t \in Texts
        BY DEF TypeOK, DiskTypeOK, Texts
      <4>2. files'[p] = [files[p] EXCEPT !.text = t]
        BY <1>1, <3>1 DEF WriteFile, TypeOK, DiskTypeOK
      <4>3. QED
        BY <4>1, <4>2, FileChanges
    <3>3. SafeAt(t, p)'
      BY <1>1, <1>4, <3>1, <3>2 DEF SafeAt, Holding
    <3>4. QED
      BY <3>1, <3>3
  <2>3. QED
    BY <2>1, <2>2
<1>6. QED
  BY <1>2, <1>5 DEF TextsSafe

\* Neither the clock nor a stutter does anything to the runs or the files.
LEMMA FrameKeeps ==
  ASSUME Quiet, UNCHANGED <<pc, diskVars, step, at, managed, prior, cfg, job, kept>>
  PROVE  Kept'
<1>1. UNCHANGED <<files, backups, stamp>>
  BY DEF diskVars
<1>2. \A s \in Runs : Informed(s)'
  BY <1>1 DEF Quiet, Informed, Is, Holding
<1>3. \A s \in Runs : Target(s)' = Target(s) /\ Elements(managed[s])' = Elements(managed[s])
  BY DEF Target, At, Entry, Managed, To, Elements
<1>4. \A u, q : SafeAt(u, q) => SafeAt(u, q)'
  BY <1>1, <1>3 DEF SafeAt, Unmodified, Elements, Holding
<1>5. QED
  BY <1>1, <1>2, <1>4 DEF Quiet, Kept, TextsSafe

LEMMA KeptInit == Init => Kept
<1> SUFFICES ASSUME Init PROVE Kept
  OBVIOUS
<1>1. \A r \in Runs : ~Holding(r) /\ Informed(r)
  BY DEF Init, LockInit, Holding, Informed, Elements
<1>2. CASE stamp = NoStamp
  <2>1. \A u, p : files[p].text = u => SafeAt(u, p)
    BY <1>1, <1>2, StampTypes DEF SafeAt, Unmodified, Elements
  <2>2. QED
    BY <1>1, <2>1 DEF Init, Kept, TextsSafe
<1>3. CASE \E v \in StartVersions : files = InstalledFiles(v)
  <2>1. PICK v \in StartVersions : files = InstalledFiles(v)
    BY <1>3
  <2>2. \A p \in Paths : files[p].text \in {Created, v, None}
    BY <2>1 DEF InstalledFiles, Plain, Nothing
  <2>3. kept = {}
    BY <2>2, LifecycleAssumption DEF Init, LifecycleAssumption
  <2>4. QED
    BY <1>1, <2>3 DEF Kept, TextsSafe
<1>4. QED
  BY <1>2, <1>3 DEF Init

LEMMA KeptStep == ASSUME Quiet, [Next]_vars PROVE Kept'
<1>1. CASE Next
  <2>1. CASE TimePasses
    BY <2>1, FrameKeeps DEF TimePasses, Tick, lifeVars, diskVars, localVars, readVars, userVars
  <2>2. QED
    BY <1>1, <2>1, BeginKeeps, CopyKeeps, ConfigureKeeps, CompleteKeeps, UninstallKeeps, EditKeeps
    DEF Next
<1>2. CASE UNCHANGED vars
  BY <1>2, FrameKeeps DEF vars, lockVars, runVars, lifeVars, localVars, readVars, userVars
<1>3. QED
  BY <1>1, <1>2

--------------------------------------------------------------------------------
(* What install and update have put into the project is where the plan says. *)

\* A run stands where it stood if nothing of its own and nothing on disk has changed.
LEMMA FollowFrame ==
  ASSUME NEW s \in Runs, Following(s), job' = job,
         pc'[s] = pc[s] /\ step'[s] = step[s] /\ at'[s] = at[s] /\ managed'[s] = managed[s]
         /\ cfg'[s] = cfg[s],
         ~Holding(s) \/ (UNCHANGED <<files, edited>> /\ hashes'[s] = hashes[s]
                         /\ merged'[s] = merged[s])
  PROVE  Following(s)'
<1>1. CASE ~Holding(s)
  BY <1>1 DEF Following, Holding
<1>2. CASE UNCHANGED <<files, edited>> /\ hashes'[s] = hashes[s] /\ merged'[s] = merged[s]
  <2>1. Is(s, "uninstall")' = Is(s, "uninstall") /\ To(s)' = To(s)
    BY DEF Is, To
  <2>2. Elements(managed[s])' = Elements(managed[s])
    BY DEF Elements
  <2>3. Delivered(s, files)' = Delivered(s, files)
    BY <1>2, <2>1, <2>2 DEF Delivered
  <2>4. Delivered(s, hashes[s])' = Delivered(s, hashes[s])
    BY <1>2, <2>1, <2>2 DEF Delivered
  <2>5. \A n : Arrived(s, n)' = Arrived(s, n)
    BY <2>1 DEF Arrived
  <2>6. QED
    BY <1>2, <2>1, <2>3, <2>4, <2>5 DEF Following, Holding
<1>3. QED
  BY <1>1, <1>2

\* Nobody but the run that has the lock is at work.
LEMMA WorkerFollows ==
  ASSUME Quiet, \A s \in Runs : Following(s), NEW r \in Runs, Holding(r), OnlyRun(r),
         Following(r)'
  PROVE  \A s \in Runs : Following(s)'
<1>1. ASSUME NEW s \in Runs \ {r} PROVE Following(s)'
  <2>1. ~Holding(s)
    BY DEF Quiet, RunsSerialized
  <2>2. QED
    BY <2>1, FollowFrame DEF OnlyRun
<1>2. QED
  BY <1>1

\* A run that returns, and one that uninstalls, promise nothing of the kind.
LEMMA ReturningFollows ==
  ASSUME NEW r \in Runs, Following(r), ~Holding(r)', UNCHANGED <<step, at, managed>>
  PROVE  Following(r)'
  BY DEF Following

LEMMA UninstallFollows ==
  ASSUME Quiet, NEW r \in Runs, Uninstall(r), Following(r) PROVE Following(r)'
<1>1. CASE StripFails(r)
  BY <1>1, ReturningFollows DEF StripFails, Return, Finish, Go, Quiet, TypeOK, LockTypeOK, Holding
<1>2. CASE ~StripFails(r)
  <2>1. /\ \/ step[r] = "locate" /\ Is(r, "uninstall")
           \/ step[r] \in {"compare", "remove", "strip", "dropStamp", "purge"}
        /\ pc[r] = "held" /\ job' = job /\ step'[r] \notin {"readStamp", "decide"}
    <3> USE DEF Quiet, TypeOK, RunTypeOK, Move, At
    <3>1. CASE LocateForStrip(r) \/ CompareSkips(r) \/ CompareMatches(r) \/ RemoveManaged(r)
      BY <3>1 DEF LocateForStrip, CompareSkips, CompareMatches, Comparing, RemoveManaged
    <3>2. CASE RemoveManagedFails(r) \/ CompareDone(r) \/ StripEntry(r)
      BY <3>2 DEF RemoveManagedFails, CompareDone, StripEntry
    <3>3. CASE DropStamp(r) \/ Purge(r)
      BY <3>3 DEF DropStamp, Purge
    <3>4. QED
      BY <1>2, <3>1, <3>2, <3>3 DEF Uninstall
  <2>2. Is(r, "uninstall") /\ Is(r, "uninstall")'
    BY <2>1 DEF Quiet, Informed, Is
  <2>3. QED
    BY <2>1, <2>2 DEF Following
<1>3. QED
  BY <1>1, <1>2

LEMMA BeginFollows ==
  ASSUME Quiet, NEW r \in Runs, Following(r), Begin(r) \/ WriteLog(r) \/ StepFails(r),
         ~TakeLock(r)
  PROVE  Following(r)'
<1>1. CASE ReadBadStamp(r) \/ Decline(r) \/ WriteLog(r)
  BY <1>1, ReturningFollows
  DEF ReadBadStamp, Decline, WriteLog, Return, Finish, Go, Quiet, TypeOK, LockTypeOK, Holding
<1>2. CASE StepFails(r)
  BY <1>2, ReturningFollows DEF StepFails, Finish, Go, Quiet, TypeOK, LockTypeOK, Holding
<1>3. CASE ReadStamp(r) \/ Proceed(r)
  <2>1. /\ step[r] \in {"readStamp", "decide"} /\ step'[r] \in {"decide", "copy", "locate"}
        /\ (step'[r] = "locate" => Is(r, "uninstall"))
        /\ UNCHANGED <<at, managed, job>>
    BY <1>3 DEF ReadStamp, Proceed, At, Move, Quiet, TypeOK, RunTypeOK
  <2>2. at'[r] = 1 /\ managed'[r] = <<>>
    BY <2>1 DEF Following
  <2>3. Is(r, "uninstall")' = Is(r, "uninstall") /\ To(r)' = To(r)
    BY <2>1 DEF Is, To
  <2>4. Delivered(r, files)'
    BY <2>1, <2>2 DEF Delivered, Elements
  <2>5. Len(Copies[To(r)]) \in Nat
    BY TargetTypes DEF Quiet, TypeOK
  <2>6. Arrived(r, 0)'
    BY <2>2 DEF Arrived
  <2>7. QED
    BY <2>1, <2>2, <2>3, <2>4, <2>5, <2>6 DEF Following
<1>4. QED
  BY <1>1, <1>2, <1>3 DEF Begin

\* The next path of the plan has been written.
LEMMA WrittenFollows ==
  ASSUME Quiet, NEW r \in Runs, Following(r), step[r] \in {"copy", "replace"}, Holding(r),
         ~Is(r, "uninstall"), at[r] \in DOMAIN Copies[To(r)],
         WriteFile(Entry(r), Plain(To(r))), Written(r), step'[r] = "copy", UNCHANGED <<job, edited>>
  PROVE  Following(r)'
<1> DEFINE copies == Copies[To(r)]
<1>1. copies \in Seq(Paths) /\ Entry(r) \in Paths /\ Entry(r) = copies[at[r]]
  BY TargetTypes DEF Quiet, TypeOK, Entry
<1>2. managed[r] \in Seq(Paths) /\ managed'[r] = Append(managed[r], Entry(r))
      /\ at[r] \in Nat /\ at'[r] = at[r] + 1
  BY DEF Quiet, TypeOK, RunTypeOK, Written
<1>3. To(r)' = To(r)
  BY DEF To
<1>4. Arrived(r, at[r] - 1) /\ Len(managed[r]) = at[r] - 1 /\ at[r] \in 1 .. Len(copies)
      /\ Delivered(r, files)
  BY <1>1 DEF Following
<1> HIDE DEF copies
<1>5. Len(managed'[r]) = at'[r] - 1 /\ at'[r] \in 1 .. Len(copies) + 1
  BY <1>1, <1>2, <1>4
<1>6. \A k \in 1 .. at'[r] - 1 : managed'[r][k] = copies[k]
  <2>1. \A k \in 1 .. at[r] - 1 : managed[r][k] = copies[k]
    BY <1>4 DEF Arrived, copies
  <2>2. QED
    BY <1>1, <1>2, <1>4, <2>1
<1>7. Arrived(r, at[r] - 1)'
  <2>1. at'[r] - 1 <= Len(managed'[r])
    BY <1>5
  <2>2. \A k \in 1 .. at'[r] - 1 : managed'[r][k] = Copies[To(r)'][k]
    BY <1>3, <1>6 DEF copies
  <2>3. QED
    BY <2>1, <2>2 DEF Arrived
<1>8. Elements(managed[r])' = Elements(managed[r]) \cup {Entry(r)}
  BY <1>1, WrittenElements DEF Written
<1>9. \A p \in Paths : files'[p] = IF p = Entry(r) THEN Plain(To(r)) ELSE files[p]
  BY DEF WriteFile, Quiet, TypeOK, DiskTypeOK
<1>10. Elements(copies) \subseteq Paths
  BY <1>1 DEF Elements
<1>11. Delivered(r, files)'
  <2>1. \A p \in Elements(managed[r])' \cap Elements(copies) :
           files'[p] = Plain(To(r)) \/ p \in edited
    BY <1>4, <1>8, <1>9, <1>10 DEF Delivered, copies
  <2>2. QED
    BY <1>3, <2>1 DEF Delivered, copies
<1>12. QED
  BY <1>3, <1>5, <1>7, <1>11 DEF Following, copies

LEMMA CopyFollows == ASSUME Quiet, NEW r \in Runs, Copy(r), Following(r) PROVE Following(r)'
<1>1. Holding(r) /\ step[r] \in {"copy", "replace"} /\ ~Is(r, "uninstall")
  BY DEF Copy, CopyCreates, CopyRefused, CopyBacksUp, CopyReplaces, CopiesDone, Copying, At,
         Holding, Quiet, Informed
<1>2. CASE CopyCreates(r)
  BY <1>1, <1>2, WrittenFollows DEF CopyCreates, Copying, At, userVars
<1>3. CASE CopyRefused(r)
  BY <1>3, ReturningFollows
  DEF CopyRefused, Return, Finish, Go, Quiet, TypeOK, LockTypeOK, Holding
<1>4. CASE CopyBacksUp(r) \/ CopiesDone(r)
  <2>1. /\ step[r] = "copy" /\ step'[r] \in {"replace", "locate"}
        /\ UNCHANGED <<files, at, managed, job, edited>>
        /\ (step'[r] = "locate" => at[r] \notin DOMAIN Copies[To(r)])
    BY <1>4
    DEF CopyBacksUp, Copying, CopiesDone, At, Move, Quiet, TypeOK, RunTypeOK, diskVars, userVars
  <2>2. To(r)' = To(r) /\ Elements(managed[r])' = Elements(managed[r])
    BY <2>1 DEF To, Elements
  <2>3. /\ Arrived(r, at[r] - 1) /\ Len(managed[r]) = at[r] - 1 /\ Delivered(r, files)
        /\ at[r] \in 1 .. Len(Copies[To(r)]) + 1
    BY <1>1, <2>1 DEF Following
  <2>4. Delivered(r, files)'
    BY <2>1, <2>2, <2>3 DEF Delivered
  <2>5. Arrived(r, at[r] - 1)'
    BY <2>1, <2>2, <2>3 DEF Arrived
  <2>6. Copies[To(r)] \in Seq(Paths)
    BY TargetTypes DEF Quiet, TypeOK
  <2>7. step'[r] = "locate" => Arrived(r, Len(Copies[To(r)]))'
    BY <2>1, <2>2, <2>3, <2>5, <2>6
  <2>8. QED
    BY <2>1, <2>2, <2>3, <2>4, <2>5, <2>7 DEF Following
<1>5. CASE CopyReplaces(r)
  <2>1. at[r] \in DOMAIN Copies[To(r)] /\ step'[r] = "copy"
    BY <1>5 DEF CopyReplaces, At, Move, Quiet, TypeOK, RunTypeOK
  <2>2. QED
    BY <1>1, <1>5, <2>1, WrittenFollows DEF CopyReplaces, userVars
<1>6. QED
  BY <1>2, <1>3, <1>4, <1>5 DEF Copy

\* Every step but those of the lock is one of the run that has it.
LEMMA WorksWithLock ==
  ASSUME NEW r \in Runs, ~TakeLock(r),
         \/ Begin(r) \/ Copy(r) \/ Configure(r) \/ Complete(r) \/ Uninstall(r)
         \/ WriteLog(r) \/ StepFails(r)
  PROVE  Holding(r)
<1> USE DEF At, Holding
<1>1. CASE Begin(r)
  BY <1>1 DEF Begin, ReadBadStamp, ReadStamp, Decline, Proceed
<1>2. CASE Copy(r)
  BY <1>2 DEF Copy, CopyCreates, CopyRefused, CopyBacksUp, CopyReplaces, CopiesDone, Copying
<1>3. CASE Configure(r)
  BY <1>3 DEF Configure, LocateForMerge, BackUpConfig, WriteConfig
<1>4. CASE Complete(r)
  BY <1>4 DEF Complete, NoPackage, PackageRefused, RemovePackage, CopyPackage,
              CopyPackageFails, HashFiles, WriteStamp, WriteBadStamp
<1>5. CASE Uninstall(r)
  BY <1>5 DEF Uninstall, LocateForStrip, CompareSkips, CompareMatches, RemoveManaged, Comparing,
              RemoveManagedFails, CompareDone, StripEntry, StripFails, DropStamp, Purge
<1>6. CASE WriteLog(r) \/ StepFails(r)
  BY <1>6 DEF WriteLog, StepFails
<1>7. QED
  BY <1>1, <1>2, <1>3, <1>4, <1>5, <1>6

LEMMA WorksAlone ==
  ASSUME Quiet, NEW r \in Runs, ~TakeLock(r),
         \/ Begin(r) \/ Copy(r) \/ Configure(r) \/ Complete(r) \/ Uninstall(r)
         \/ WriteLog(r) \/ StepFails(r)
  PROVE  OnlyRun(r)
<1> USE DEF Quiet, TypeOK, LockTypeOK, RunTypeOK, OnlyRun, Move, Return, Finish, Go,
            lockVars, runVars, readVars
<1>1. CASE Begin(r)
  BY <1>1 DEF Begin, ReadBadStamp, ReadStamp, Decline, Proceed
<1>2. CASE Copy(r)
  BY <1>2
  DEF Copy, CopyCreates, CopyRefused, CopyBacksUp, CopyReplaces, CopiesDone, Copying, Written
<1>3. CASE Configure(r)
  BY <1>3 DEF Configure, LocateForMerge, BackUpConfig, WriteConfig
<1>4. CASE Complete(r)
  BY <1>4 DEF Complete, NoPackage, PackageRefused, RemovePackage, CopyPackage,
              CopyPackageFails, HashFiles, WriteStamp, WriteBadStamp
<1>5. CASE Uninstall(r)
  BY <1>5 DEF Uninstall, LocateForStrip, CompareSkips, CompareMatches, RemoveManaged, Comparing,
              RemoveManagedFails, CompareDone, StripEntry, StripFails, DropStamp, Purge
<1>6. CASE WriteLog(r) \/ StepFails(r)
  BY <1>6 DEF WriteLog, StepFails
<1>7. QED
  BY <1>1, <1>2, <1>3, <1>4, <1>5, <1>6

\* What was delivered, and where the run stands, after a step that writes one file that
\* is not of the plan, or none.
LEMMA StillDelivered ==
  ASSUME Quiet, NEW r \in Runs, Delivered(r, files), Arrived(r, Len(Copies[To(r)])),
         NEW q \in Paths \ Elements(Copies[To(r)]), UNCHANGED <<job, edited>>,
         \A p \in Paths \ {q} : files'[p] = files[p],
         managed'[r] = managed[r] \/ managed'[r] = Append(managed[r], q)
  PROVE  /\ \A p \in Elements(managed[r])' \cap Elements(Copies[To(r)]) :
               files'[p] = Plain(To(r)) \/ p \in edited
         /\ Elements(managed[r]) \subseteq Elements(managed[r])'
         /\ managed'[r] = Append(managed[r], q) => q \in Elements(managed[r])'
         /\ Arrived(r, Len(Copies[To(r)]))'
         /\ To(r)' = To(r) /\ Is(r, "uninstall")' = Is(r, "uninstall")
<1>1. managed[r] \in Seq(Paths) /\ Copies[To(r)] \in Seq(Paths)
  BY TargetTypes DEF Quiet, TypeOK, RunTypeOK
<1>2. To(r)' = To(r) /\ Is(r, "uninstall")' = Is(r, "uninstall")
  BY DEF To, Is
<1>3. CASE managed'[r] = managed[r]
  <2>1. Elements(managed[r])' = Elements(managed[r])
    BY <1>3 DEF Elements
  <2>2. Elements(Copies[To(r)]) \subseteq Paths
    BY <1>1 DEF Elements
  <2>3. Arrived(r, Len(Copies[To(r)]))'
    BY <1>2, <1>3 DEF Arrived
  <2>4. managed'[r] # Append(managed[r], q)
    BY <1>1, <1>3
  <2>5. QED
    BY <1>2, <2>1, <2>2, <2>3, <2>4 DEF Delivered
<1>4. CASE managed'[r] = Append(managed[r], q)
  <2>1. Elements(managed[r])' = Elements(managed'[r])
    BY DEF Elements
  <2>2. Elements(managed[r])' = Elements(managed[r]) \cup {q}
    BY <1>1, <1>4, <2>1, AppendElements
  <2>3. Elements(Copies[To(r)]) \subseteq Paths
    BY <1>1 DEF Elements
  <2>4. Arrived(r, Len(Copies[To(r)]))'
    BY <1>1, <1>2, <1>4 DEF Arrived
  <2>5. QED
    BY <1>2, <2>2, <2>3, <2>4 DEF Delivered
<1>5. QED
  BY <1>3, <1>4

LEMMA NotOfThePlan ==
  ASSUME Quiet, NEW r \in Runs
  PROVE  /\ Elements(Copies[To(r)]) \cap (Elements(Configs) \cup {Package}) = {}
         /\ NewConfig \in Elements(Configs) /\ Package \notin Elements(Configs)
         /\ Package \in Paths
  BY TargetTypes, LifecycleAssumption DEF Quiet, TypeOK, LifecycleAssumption

LEMMA ConfigureFollows ==
  ASSUME Quiet, NEW r \in Runs, Configure(r), Following(r) PROVE Following(r)'
<1>1. step[r] = "locate" \/ (Holding(r) /\ cfg[r] \in Paths)
  BY DEF Configure, BackUpConfig, WriteConfig, LocateForMerge, At, Holding, Quiet, TypeOK, RunTypeOK
<1>2. CASE Is(r, "uninstall")
  <2>1. step'[r] \notin {"readStamp", "decide"} /\ job' = job
    BY <1>2 DEF Configure, BackUpConfig, WriteConfig, LocateForMerge, Move, Quiet, TypeOK, RunTypeOK
  <2>2. QED
    BY <1>2, <2>1 DEF Following, Is
<1>3. CASE ~Is(r, "uninstall") /\ LocateForMerge(r)
  <2>1. /\ Holding(r) /\ step[r] = "locate" /\ step'[r] = "cfgBackup" /\ pc' = pc
        /\ UNCHANGED <<files, managed, job, edited>>
    BY <1>3
    DEF LocateForMerge, At, Move, Holding, Quiet, TypeOK, RunTypeOK, lockVars, runVars,
        diskVars, userVars
  <2>2. cfg'[r] \in Elements(Configs) /\ merged'[r].entry = "yes"
    <3>1. CASE /\ cfg' = [cfg EXCEPT ![r] = NewConfig]
               /\ merged' = [merged EXCEPT ![r] = InitialConfig]
      BY <3>1, NotOfThePlan DEF Quiet, TypeOK, RunTypeOK, InitialConfig
    <3>2. ASSUME NEW p \in Paths, Locates(p), cfg' = [cfg EXCEPT ![r] = p],
                 merged' = [merged EXCEPT ![r] = AddPluginEntry(files[p])]
          PROVE  cfg'[r] \in Elements(Configs) /\ merged'[r].entry = "yes"
      <4>1. files[p] \in Files
        BY DEF Quiet, TypeOK, DiskTypeOK
      <4>2. AddPluginEntry(files[p]).entry = "yes"
        BY <4>1 DEF AddPluginEntry, Files
      <4>3. p \in Elements(Configs)
        BY <3>2 DEF Locates, Located, Elements
      <4>4. QED
        BY <3>2, <4>2, <4>3 DEF Quiet, TypeOK, RunTypeOK
    <3>3. QED
      BY <1>3, <3>1, <3>2 DEF LocateForMerge
  <2>3. Delivered(r, files) /\ Arrived(r, Len(Copies[To(r)]))
    BY <1>3, <2>1 DEF Following
  <2>4. /\ \A p \in Elements(managed[r])' \cap Elements(Copies[To(r)]) :
             files'[p] = Plain(To(r)) \/ p \in edited
        /\ Arrived(r, Len(Copies[To(r)]))' /\ To(r)' = To(r)
    BY <2>1, <2>3, NotOfThePlan, StillDelivered
  <2>5. Delivered(r, files)'
    BY <2>1, <2>4 DEF Delivered
  <2>6. QED
    BY <2>1, <2>2, <2>4, <2>5 DEF Following
<1>4. CASE ~Is(r, "uninstall") /\ BackUpConfig(r)
  <2>1. /\ Holding(r) /\ step[r] = "cfgBackup" /\ step'[r] = "cfgReplace" /\ pc' = pc
        /\ UNCHANGED <<files, managed, cfg, merged, job, edited>>
    BY <1>4
    DEF BackUpConfig, At, Move, Holding, Quiet, TypeOK, RunTypeOK, lockVars, runVars, readVars,
        userVars
  <2>2. /\ Delivered(r, files) /\ Arrived(r, Len(Copies[To(r)]))
        /\ cfg[r] \in Elements(Configs) /\ merged[r].entry = "yes"
    BY <1>4, <2>1 DEF Following
  <2>3. /\ \A p \in Elements(managed[r])' \cap Elements(Copies[To(r)]) :
             files'[p] = Plain(To(r)) \/ p \in edited
        /\ Arrived(r, Len(Copies[To(r)]))' /\ To(r)' = To(r)
    BY <2>1, <2>2, NotOfThePlan, StillDelivered
  <2>4. Delivered(r, files)'
    BY <2>1, <2>3 DEF Delivered
  <2>5. QED
    BY <2>1, <2>2, <2>3, <2>4 DEF Following
<1>5. CASE ~Is(r, "uninstall") /\ WriteConfig(r)
  <2>1. /\ Holding(r) /\ step[r] = "cfgReplace" /\ step'[r] = "package"
        /\ WriteFile(cfg[r], merged[r]) /\ managed'[r] = Append(managed[r], cfg[r])
        /\ UNCHANGED <<cfg, job, edited>>
    BY <1>5
    DEF WriteConfig, At, Move, Holding, Quiet, TypeOK, RunTypeOK, readVars, userVars
  <2>2. /\ Delivered(r, files) /\ Arrived(r, Len(Copies[To(r)]))
        /\ cfg[r] \in Elements(Configs) /\ merged[r].entry = "yes"
    BY <1>5, <2>1 DEF Following
  <2>3. cfg[r] \in Paths \ Elements(Copies[To(r)])
    BY <1>1, <2>1, <2>2, NotOfThePlan
  <2>4. files'[cfg[r]] = merged[r] /\ \A p \in Paths \ {cfg[r]} : files'[p] = files[p]
    BY <2>1, <2>3 DEF WriteFile, Quiet, TypeOK, DiskTypeOK
  <2>5. /\ \A p \in Elements(managed[r])' \cap Elements(Copies[To(r)]) :
             files'[p] = Plain(To(r)) \/ p \in edited
        /\ cfg[r] \in Elements(managed[r])'
        /\ Arrived(r, Len(Copies[To(r)]))' /\ To(r)' = To(r)
    BY <2>1, <2>2, <2>3, <2>4, StillDelivered
  <2>6. Delivered(r, files)'
    BY <2>1, <2>2, <2>4, <2>5 DEF Delivered
  <2>7. QED
    BY <2>1, <2>5, <2>6 DEF Following
<1>6. QED
  BY <1>2, <1>3, <1>4, <1>5 DEF Configure

LEMMA CompleteFollows ==
  ASSUME Quiet, NEW r \in Runs, Complete(r), Following(r) PROVE Following(r)'
<1>1. CASE PackageRefused(r)
  BY <1>1, ReturningFollows
  DEF PackageRefused, Return, Finish, Go, Quiet, TypeOK, LockTypeOK, Holding
<1>2. CASE CopyPackageFails(r)
  BY <1>2, ReturningFollows DEF CopyPackageFails, Finish, Go, Quiet, TypeOK, LockTypeOK, Holding
<1>3. CASE WriteStamp(r) \/ WriteBadStamp(r)
  <2>1. step'[r] = "log"
    BY <1>3 DEF WriteStamp, WriteBadStamp, Move, Quiet, TypeOK, RunTypeOK
  <2>2. QED
    BY <2>1 DEF Following
<1>4. ASSUME NoPackage(r) \/ RemovePackage(r) \/ CopyPackage(r) \/ HashFiles(r)
      PROVE  /\ Holding(r) /\ ~Is(r, "uninstall")
             /\ Delivered(r, files) /\ Arrived(r, Len(Copies[To(r)]))
             /\ Package \in Paths \ Elements(Copies[To(r)]) /\ UNCHANGED <<cfg, job, edited>>
             /\ step[r] \in {"package", "packageCopy", "hash"}
  <2>1. /\ Holding(r) /\ step[r] \in {"package", "packageCopy", "hash"}
        /\ UNCHANGED <<cfg, job, edited>>
    BY <1>4 DEF NoPackage, RemovePackage, CopyPackage, HashFiles, At, Holding, readVars, userVars
  <2>2. ~Is(r, "uninstall")
    BY <2>1 DEF Quiet, Informed
  <2>3. QED
    BY <2>1, <2>2, NotOfThePlan DEF Following
<1>5. CASE NoPackage(r)
  <2>1. /\ step[r] = "package" /\ step'[r] = "hash" /\ To(r) \notin Standalone
        /\ UNCHANGED <<files, managed>>
    BY <1>5 DEF NoPackage, At, Move, Quiet, TypeOK, RunTypeOK, diskVars
  <2>2. /\ Arrived(r, Len(Copies[To(r)]))' /\ To(r)' = To(r)
        /\ \A p \in Elements(managed[r])' \cap Elements(Copies[To(r)]) :
              files'[p] = Plain(To(r)) \/ p \in edited
        /\ Elements(managed[r]) \subseteq Elements(managed[r])'
    BY <1>4, <1>5, <2>1, StillDelivered
  <2>3. Delivered(r, files)'
    BY <1>4, <1>5, <2>1, <2>2 DEF Delivered
  <2>4. QED
    BY <2>1, <2>2, <2>3 DEF Following
<1>6. CASE RemovePackage(r)
  <2>1. /\ step[r] = "package" /\ step'[r] = "packageCopy" /\ managed' = managed
        /\ WriteFile(Package, Nothing)
    BY <1>6 DEF RemovePackage, At, Move, Quiet, TypeOK, RunTypeOK
  <2>2. \A p \in Paths \ {Package} : files'[p] = files[p]
    BY <2>1 DEF WriteFile, Quiet, TypeOK, DiskTypeOK
  <2>3. /\ Arrived(r, Len(Copies[To(r)]))' /\ To(r)' = To(r)
        /\ \A p \in Elements(managed[r])' \cap Elements(Copies[To(r)]) :
              files'[p] = Plain(To(r)) \/ p \in edited
        /\ Elements(managed[r]) \subseteq Elements(managed[r])'
    BY <1>4, <1>6, <2>1, <2>2, StillDelivered
  <2>4. cfg[r] \in Elements(managed[r]) \cap Elements(Configs)
        /\ (files[cfg[r]].entry = "yes" \/ cfg[r] \in edited)
    BY <1>4, <1>6, <2>1 DEF Delivered
  <2>5. files'[cfg[r]] = files[cfg[r]]
    BY <2>2, <2>4, NotOfThePlan DEF Elements, Quiet, TypeOK, RunTypeOK
  <2>6. Delivered(r, files)'
    BY <1>4, <1>6, <2>1, <2>3, <2>4, <2>5 DEF Delivered
  <2>7. QED
    BY <2>1, <2>3, <2>6 DEF Following
<1>7. CASE CopyPackage(r)
  <2>1. /\ step[r] = "packageCopy" /\ step'[r] = "hash"
        /\ managed'[r] = Append(managed[r], Package) /\ WriteFile(Package, Plain(To(r)))
    BY <1>7 DEF CopyPackage, At, Move, Quiet, TypeOK, RunTypeOK
  <2>2. files'[Package] = Plain(To(r)) /\ \A p \in Paths \ {Package} : files'[p] = files[p]
    BY <1>4, <1>7, <2>1 DEF WriteFile, Quiet, TypeOK, DiskTypeOK
  <2>3. /\ Arrived(r, Len(Copies[To(r)]))' /\ To(r)' = To(r)
        /\ \A p \in Elements(managed[r])' \cap Elements(Copies[To(r)]) :
              files'[p] = Plain(To(r)) \/ p \in edited
        /\ Elements(managed[r]) \subseteq Elements(managed[r])'
        /\ Package \in Elements(managed[r])'
    BY <1>4, <1>7, <2>1, <2>2, StillDelivered
  <2>4. cfg[r] \in Elements(managed[r]) \cap Elements(Configs)
        /\ (files[cfg[r]].entry = "yes" \/ cfg[r] \in edited)
    BY <1>4, <1>7, <2>1 DEF Delivered
  <2>5. files'[cfg[r]] = files[cfg[r]]
    BY <2>2, <2>4, NotOfThePlan DEF Elements, Quiet, TypeOK, RunTypeOK
  <2>6. Delivered(r, files)'
    BY <1>4, <1>7, <2>1, <2>2, <2>3, <2>4, <2>5 DEF Delivered
  <2>7. QED
    BY <2>1, <2>3, <2>6 DEF Following
<1>8. CASE HashFiles(r)
  <2>1. /\ step[r] = "hash" /\ step'[r] = "writeStamp" /\ UNCHANGED <<files, managed>>
        /\ hashes'[r] = [p \in Paths |-> IF p \in Elements(managed[r]) THEN files[p] ELSE Nothing]
    BY <1>8 DEF HashFiles, At, Move, Quiet, TypeOK, RunTypeOK, diskVars
  <2>2. /\ Arrived(r, Len(Copies[To(r)]))' /\ To(r)' = To(r)
        /\ Elements(managed[r])' = Elements(managed[r])
    BY <1>4, <1>8, <2>1, StillDelivered DEF Elements
  <2>3. Elements(managed[r]) \subseteq Paths
    BY DEF Elements, Quiet, TypeOK, RunTypeOK
  <2>4. \A p \in Elements(managed[r]) : hashes'[r][p] = files[p]
    BY <2>1, <2>3
  <2>5. Delivered(r, hashes[r])'
    BY <1>4, <1>8, <2>1, <2>2, <2>4 DEF Delivered
  <2>6. QED
    BY <2>1, <2>2, <2>5 DEF Following
<1>9. QED
  BY <1>1, <1>2, <1>3, <1>5, <1>6, <1>7, <1>8 DEF Complete

\* What the user edits is excepted from then on.
LEMMA EditFollows ==
  ASSUME Quiet, NEW p \in Paths, NEW t \in UserTexts \cup {None}, UserEdits(p, t),
         NEW r \in Runs, Following(r)
  PROVE  Following(r)'
<1>1. /\ edited' = edited \cup {p}
      /\ UNCHANGED <<pc, step, at, managed, cfg, merged, hashes, job>>
  BY DEF UserEdits, lockVars, runVars, localVars, readVars
<1>2. \A q \in Paths : q \in edited' \/ (files'[q] = files[q] /\ q \notin edited)
  BY <1>1 DEF UserEdits, WriteFile, Quiet, TypeOK, DiskTypeOK
<1>3. To(r)' = To(r) /\ Is(r, "uninstall")' = Is(r, "uninstall")
      /\ Elements(managed[r])' = Elements(managed[r]) /\ Elements(managed[r]) \subseteq Paths
  BY <1>1 DEF To, Is, Elements, Quiet, TypeOK, RunTypeOK
<1>4. Delivered(r, files) => Delivered(r, files)'
  BY <1>1, <1>2, <1>3 DEF Delivered
<1>5. Delivered(r, hashes[r]) => Delivered(r, hashes[r])'
  BY <1>1, <1>3 DEF Delivered
<1>6. \A n : Arrived(r, n)' = Arrived(r, n)
  BY <1>1, <1>3 DEF Arrived
<1>7. QED
  BY <1>1, <1>3, <1>4, <1>5, <1>6 DEF Following, Holding

LEMMA FollowStep ==
  ASSUME Quiet, \A s \in Runs : Following(s), RunsSerialized', [Next]_vars
  PROVE  \A s \in Runs : Following(s)'
<1>1. ASSUME NEW r \in Runs, TakeLock(r) PROVE \A s \in Runs : Following(s)'
  <2>1. /\ OnlyRun(r) /\ UNCHANGED <<files, step, at, managed, job, hashes, merged>>
        /\ edited' = edited \/ pc'[r] = "held"
        /\ pc[r] \in {"idle", "mkdir", "classify", "reap", "owner", "utimes", "cleanup"}
        /\ pc[r] = "cleanup" => pc'[r] = "ended"
    BY <1>1, OnlyAcquire DEF TakeLock, diskVars, localVars, readVars, Quiet
  <2>2. Following(r)'
    <3>1. CASE pc'[r] # "held"
      BY <2>1, <3>1 DEF Following, Holding
    <3>2. CASE pc'[r] = "held"
      <4>1. step[r] = "readStamp" /\ managed[r] = <<>> /\ at[r] = 1
        BY <2>1, <3>2 DEF Quiet, Informed, Following
      <4>2. Delivered(r, files)'
        BY <2>1, <4>1 DEF Delivered, Elements
      <4>3. QED
        BY <2>1, <4>1, <4>2 DEF Following
    <3>3. QED
      BY <3>1, <3>2
  <2>3. ASSUME NEW s \in Runs \ {r} PROVE Following(s)'
    <3>1. ~Holding(s) \/ edited' = edited
      BY <2>1 DEF RunsSerialized, Holding, OnlyRun
    <3>2. QED
      BY <2>1, <3>1, FollowFrame DEF OnlyRun
  <2>4. QED
    BY <2>2, <2>3
<1>2. ASSUME NEW r \in Runs, Leave(r) \/ Dies(r) PROVE \A s \in Runs : Following(s)'
  <2>1. /\ OnlyRun(r) /\ pc'[r] \in {"ended", "crashed"}
        /\ UNCHANGED <<files, edited, step, at, managed, job, hashes, merged>>
    BY <1>2, OnlyLeaves DEF Leave, Dies, lifeVars, diskVars, localVars, readVars, userVars, Quiet
  <2>2. Following(r)'
    BY <2>1, ReturningFollows DEF Holding
  <2>3. QED
    BY <2>1, <2>2, FollowFrame DEF OnlyRun
<1>3. ASSUME NEW r \in Runs, ~TakeLock(r),
             \/ Begin(r) \/ Copy(r) \/ Configure(r) \/ Complete(r) \/ Uninstall(r)
             \/ WriteLog(r) \/ StepFails(r)
      PROVE  \A s \in Runs : Following(s)'
  <2>1. Holding(r)
    BY <1>3, WorksWithLock
  <2>2. OnlyRun(r)
    BY <1>3, WorksAlone
  <2>3. Following(r)'
    BY <1>3, BeginFollows, CopyFollows, ConfigureFollows, CompleteFollows, UninstallFollows
  <2>4. QED
    BY <2>1, <2>2, <2>3, WorkerFollows
<1>4. CASE TimePasses \/ UNCHANGED vars
  <2>1. UNCHANGED <<pc, files, edited, step, at, managed, cfg, job, hashes, merged>>
    BY <1>4 DEF TimePasses, Tick, vars, lockVars, runVars, lifeVars, diskVars, localVars,
                readVars, userVars
  <2>2. QED
    BY <2>1, FollowFrame
<1>5. CASE Next
  BY <1>1, <1>2, <1>3, <1>4, <1>5, EditFollows DEF Next
<1>6. QED
  BY <1>4, <1>5

--------------------------------------------------------------------------------
(* A project that nothing has disturbed is as its stamp says, or on its way. *)

\* What Settled says of the run that works.
SettledRun(r) ==
    /\ stamp.state = "absent" \/ Installed \/ Changing(r)
    /\ Changing(r) => IF Is(r, "uninstall") THEN Stripping(r) ELSE Building(r)

\* The context of the steps below: an undisturbed project in which run r works.
Working(r) ==
    /\ Quiet /\ Following(r) /\ SettledRun(r) /\ Holding(r)
    /\ failures = 0 /\ edited = {}

LEMMA LocatesFrame ==
  ASSUME \A p \in Elements(Configs) : Present(p)' = Present(p)
  PROVE  Located' = Located /\ \A p : Locates(p)' = Locates(p)
<1>1. Located' = Located
  BY DEF Located, Elements
<1>2. QED
  BY <1>1 DEF Locates

LEMMA LocatesOne ==
  ASSUME NEW p, NEW q, Locates(p), Locates(q)
  PROVE  p = q /\ p \in Elements(Configs) /\ Present(p) /\ Located # {}
<1>1. Configs \in Seq(Paths)
  BY LifecycleAssumption DEF LifecycleAssumption
<1>2. PICK k \in Located : p = Configs[k] /\ \A j \in Located : k <= j
  BY DEF Locates
<1>3. PICK l \in Located : q = Configs[l] /\ \A j \in Located : l <= j
  BY DEF Locates
<1>4. k \in Nat /\ l \in Nat /\ k <= l /\ l <= k
  BY <1>1, <1>2, <1>3 DEF Located
<1>5. k = l
  BY <1>4
<1>6. QED
  BY <1>2, <1>3, <1>5 DEF Located, Elements

\* The only config file that is there is the one that is located.
LEMMA LocatesOnly ==
  ASSUME NEW p \in Elements(Configs), Present(p),
         \A q \in Elements(Configs) : Present(q) => q = p
  PROVE  Locates(p)
<1>1. Configs \in Seq(Paths) /\ \A j, k \in DOMAIN Configs : Configs[j] = Configs[k] => j = k
  BY LifecycleAssumption DEF LifecycleAssumption
<1>2. PICK k \in DOMAIN Configs : p = Configs[k]
  BY DEF Elements
<1>3. \A j \in Located : j = k
  BY <1>1, <1>2 DEF Located, Elements
<1>4. k \in Located /\ k <= k
  BY <1>1, <1>2 DEF Located
<1>5. QED
  BY <1>2, <1>3, <1>4 DEF Locates

LEMMA LocatesThen ==
  ASSUME NEW p \in Elements(Configs), Present(p)',
         \A q \in Elements(Configs) : Present(q)' => q = p
  PROVE  Locates(p)'
<1>1. Configs \in Seq(Paths) /\ \A j, k \in DOMAIN Configs : Configs[j] = Configs[k] => j = k
  BY LifecycleAssumption DEF LifecycleAssumption
<1>2. PICK k \in DOMAIN Configs : p = Configs[k]
  BY DEF Elements
<1>3. \A j \in Located' : j = k
  BY <1>1, <1>2 DEF Located, Elements
<1>4. k \in Located' /\ k <= k
  BY <1>1, <1>2 DEF Located
<1>5. QED
  BY <1>2, <1>3, <1>4 DEF Locates

LEMMA InstalledFrame == ASSUME UNCHANGED <<files, stamp>> PROVE Installed' = Installed
<1>1. \A p : Present(p)' = Present(p)
  BY DEF Present
<1>2. \A p : Locates(p)' = Locates(p)
  BY <1>1, LocatesFrame
<1>3. AsStamped(stamp)' = AsStamped(stamp) /\ Describes(stamp)' = Describes(stamp)
  BY <1>1 DEF AsStamped, Describes
<1>4. Elements(stamp.managed)' = Elements(stamp.managed)
  BY DEF Elements
<1>5. QED
  BY <1>2, <1>3, <1>4 DEF Installed

\* What a run on its way has changed is still so when neither it nor the disk moves.
LEMMA RunSettledFrame ==
  ASSUME NEW s \in Runs, UNCHANGED <<files, stamp, job>>,
         step'[s] = step[s] /\ at'[s] = at[s] /\ managed'[s] = managed[s]
         /\ prior'[s] = prior[s] /\ cfg'[s] = cfg[s] /\ hashes'[s] = hashes[s]
         /\ merged'[s] = merged[s]
  PROVE  (Stripping(s) => Stripping(s)') /\ (Building(s) => Building(s)')
<1>1. \A p : Present(p)' = Present(p)
  BY DEF Present
<1>2. Located' = Located /\ \A p : Locates(p)' = Locates(p)
  BY <1>1, LocatesFrame
<1>3. Managed(s)' = Managed(s) /\ Elements(managed[s])' = Elements(managed[s])
      /\ To(s)' = To(s) /\ Overwrites(s)' = Overwrites(s)
      /\ Elements(stamp.managed)' = Elements(stamp.managed)
  BY DEF Managed, Elements, To, Overwrites, Is, Has
<1>4. Describes(stamp)' = Describes(stamp)
  BY DEF Describes, Elements
<1>5. Stripping(s) => Stripping(s)'
  BY <1>1, <1>3, <1>4 DEF Stripping
<1>6. Building(s) => Building(s)'
  BY <1>1, <1>2, <1>3, <1>4 DEF Building
<1>7. QED
  BY <1>5, <1>6

\* No other run is on its way while one works.
LEMMA WorkerSettles ==
  ASSUME Quiet, NEW r \in Runs, Holding(r), OnlyRun(r), edited' = {}, SettledRun(r)'
  PROVE  Settled'
<1>1. \A s \in Runs \ {r} : ~Changing(s)'
  BY DEF Quiet, RunsSerialized, OnlyRun, Holding, Changing
<1>2. QED
  BY <1>1 DEF Settled, SettledRun

\* A run that is not on its way leaves the files and the stamp alone.
LEMMA PausingSettles ==
  ASSUME NEW r \in Runs, SettledRun(r), ~Changing(r) \/ stamp.state = "absent",
         UNCHANGED <<files, stamp>>, ~Changing(r)'
  PROVE  SettledRun(r)'
  BY InstalledFrame DEF SettledRun

LEMMA BeginSettles ==
  ASSUME NEW r \in Runs, Working(r), Begin(r) \/ WriteLog(r), ~TakeLock(r)
  PROVE  SettledRun(r)'
<1> USE DEF Working, Quiet
<1>1. CASE ReadBadStamp(r) \/ Decline(r) \/ WriteLog(r)
  <2>1. /\ step[r] \in {"readStamp", "decide", "log"} /\ pc'[r] = "release"
        /\ UNCHANGED <<files, stamp>>
    BY <1>1 DEF ReadBadStamp, Decline, WriteLog, Return, Finish, Go, At, TypeOK, LockTypeOK,
                diskVars
  <2>2. QED
    BY <2>1, PausingSettles DEF Changing
<1>2. CASE ReadStamp(r)
  <2>1. step[r] = "readStamp" /\ step'[r] = "decide" /\ UNCHANGED <<files, stamp>>
    BY <1>2 DEF ReadStamp, At, Move, TypeOK, RunTypeOK, diskVars
  <2>2. QED
    BY <2>1, PausingSettles DEF Changing
<1>3. CASE Proceed(r)
  <2>1. /\ step[r] = "decide" /\ pc[r] = "held" /\ pc'[r] = "held" /\ Refusal(r) = "none"
        /\ step'[r] = IF Is(r, "uninstall") THEN "locate" ELSE "copy"
        /\ UNCHANGED <<files, stamp, managed, job>>
    BY <1>3 DEF Proceed, At, Move, TypeOK, RunTypeOK, diskVars, lockVars, runVars
  <2>2. prior[r] = stamp /\ managed[r] = <<>>
    BY <2>1 DEF Informed, Holding, Following
  <2>3. stamp.state = "absent" \/ Installed
    BY <2>1 DEF SettledRun, Changing
  <2>4. Describes(stamp)' = Describes(stamp) /\ Installed' = Installed
        /\ Elements(stamp.managed)' = Elements(stamp.managed)
    BY <2>1, InstalledFrame DEF Describes, Elements
  <2>5. Is(r, "uninstall")' = Is(r, "uninstall") /\ To(r)' = To(r)
        /\ Overwrites(r)' = Overwrites(r) /\ Elements(managed[r])' = {}
    BY <2>1, <2>2 DEF Is, To, Overwrites, Has, Elements
  <2>6. CASE Is(r, "uninstall")
    <3>1. stamp.state = "valid"
      BY <2>1, <2>2, <2>6 DEF Refusal
    <3>2. Stripping(r)'
      BY <2>1, <2>3, <2>4, <2>6, <3>1 DEF Stripping, Installed
    <3>3. QED
      BY <2>1, <2>5, <2>6, <3>2 DEF SettledRun, Changing
  <2>7. CASE ~Is(r, "uninstall") /\ stamp.state = "absent"
    <3>1. Building(r)'
      BY <2>1, <2>5, <2>7 DEF Building
    <3>2. QED
      BY <2>1, <2>5, <2>7, <3>1 DEF SettledRun, Changing
  <2>8. CASE ~Is(r, "uninstall") /\ stamp.state # "absent"
    <3>1. Installed /\ stamp.state = "valid" /\ stamp.version \in Versions
      BY <2>3, <2>8 DEF Installed, Describes
    <3>2. files[PkgJson] = Plain(stamp.version)
      <4>1. PkgJson \in Elements(Copies[stamp.version])
        BY <3>1, LifecycleAssumption DEF LifecycleAssumption
      <4>2. QED
        BY <3>1, <4>1 DEF Installed, Describes, AsStamped
    <3>3. files[PkgJson].text = stamp.version
      BY <3>2 DEF Plain
    <3>4. Overwrites(r)
      <4>1. ASSUME Is(r, "install"), ~Has(r, "force") PROVE FALSE
        <5>1. CASE stamp.version = To(r)
          BY <2>1, <2>2, <3>1, <4>1, <5>1 DEF Refusal
        <5>2. CASE stamp.version # To(r)
          BY <2>1, <2>2, <3>1, <3>3, <4>1, <5>2 DEF Refusal, DeclaresOther
        <5>3. QED
          BY <5>1, <5>2
      <4>2. Is(r, "install") \/ Is(r, "update")
        BY <2>8, LifecycleAssumption DEF TypeOK, RunTypeOK, LifecycleAssumption, Is
      <4>3. QED
        BY <4>1, <4>2 DEF Overwrites
    <3>5. /\ \A p : Present(p)' = Present(p) /\ Locates(p)' = Locates(p)
      BY <2>1, LocatesFrame DEF Present
    <3>6. Building(r)'
      BY <2>1, <2>4, <2>5, <3>1, <3>4, <3>5 DEF Building, Installed, AsStamped
    <3>7. QED
      BY <2>1, <2>5, <2>8, <3>6 DEF SettledRun, Changing
  <2>9. QED
    BY <2>6, <2>7, <2>8
<1>4. QED
  BY <1>1, <1>2, <1>3 DEF Begin

\* The disk after a copy, as far as the config files and the package tree are concerned.
LEMMA CopySettles == ASSUME NEW r \in Runs, Working(r), Copy(r) PROVE SettledRun(r)'
<1> USE DEF Working, Quiet
<1>1. /\ step[r] \in {"copy", "replace"} /\ pc[r] = "held" /\ ~Is(r, "uninstall") /\ job' = job
      /\ stamp' = stamp
  BY DEF Copy, CopyCreates, CopyRefused, CopyBacksUp, CopyReplaces, CopiesDone, Copying, At,
         Informed, diskVars
<1>2. Building(r)
  BY <1>1 DEF SettledRun, Changing
<1>3. Is(r, "uninstall")' = Is(r, "uninstall") /\ To(r)' = To(r) /\ Overwrites(r)' = Overwrites(r)
      /\ Elements(stamp.managed)' = Elements(stamp.managed)
      /\ Describes(stamp)' = Describes(stamp)
  BY <1>1 DEF Is, To, Overwrites, Has, Describes, Elements
<1>4. /\ Copies[To(r)] \in Seq(Paths)
      /\ at[r] \in DOMAIN Copies[To(r)] =>
            Entry(r) \in Paths /\ Entry(r) \in Elements(Copies[To(r)])
  BY TargetTypes DEF TypeOK, Entry, Elements
<1>5. CASE CopyRefused(r)
  <2>1. pc'[r] = "release" /\ files' = files /\ ~Overwrites(r)
    BY <1>5 DEF CopyRefused, Return, Finish, Go, TypeOK, LockTypeOK, diskVars
  <2>2. stamp.state = "absent"
    BY <1>2, <2>1 DEF Building
  <2>3. QED
    BY <1>1, <2>1, <2>2, PausingSettles DEF Changing
<1>6. CASE CopyBacksUp(r) \/ CopiesDone(r)
  <2>1. /\ step'[r] \in {"replace", "locate"} /\ pc'[r] = "held"
        /\ UNCHANGED <<files, managed>>
    BY <1>1, <1>6 DEF CopyBacksUp, CopiesDone, Move, TypeOK, RunTypeOK, diskVars, lockVars, runVars
  <2>2. /\ \A p : Present(p)' = Present(p) /\ Locates(p)' = Locates(p)
    BY <2>1, LocatesFrame DEF Present
  <2>3. Elements(managed[r])' = Elements(managed[r])
    BY <2>1 DEF Elements
  <2>4. Building(r)'
    BY <1>1, <1>2, <1>3, <2>1, <2>2, <2>3 DEF Building
  <2>5. QED
    BY <1>1, <1>3, <2>1, <2>4 DEF SettledRun, Changing
<1>7. CASE CopyCreates(r) \/ CopyReplaces(r)
  <2>1. at[r] \in DOMAIN Copies[To(r)] /\ step'[r] = "copy" /\ pc'[r] = "held"
        /\ WriteFile(Entry(r), Plain(To(r)))
        /\ managed' = [managed EXCEPT ![r] = Append(@, Entry(r))]
    BY <1>1, <1>7
    DEF CopyCreates, CopyReplaces, Copying, At, Move, Written, TypeOK, RunTypeOK, lockVars, runVars
  <2>2. Elements(managed[r])' = Elements(managed[r]) \cup {Entry(r)}
    BY <1>4, <2>1, WrittenElements
  <2>3. Entry(r) \in Paths /\ Entry(r) \in Elements(Copies[To(r)])
        /\ Entry(r) \notin Elements(Configs) /\ Entry(r) # Package
    BY <1>4, <2>1, NotOfThePlan
  <2>4. \A p \in Paths : files'[p] = IF p = Entry(r) THEN Plain(To(r)) ELSE files[p]
    BY <2>1 DEF WriteFile, TypeOK, DiskTypeOK
  <2>5. \A p \in Paths \ {Entry(r)} : files'[p] = files[p] /\ Present(p)' = Present(p)
    BY <2>4 DEF Present
  <2>6. Elements(Configs) \subseteq Paths /\ Package \in Paths
    BY LifecycleAssumption DEF LifecycleAssumption, Elements
  <2>7. \A p : Locates(p)' = Locates(p)
    BY <2>3, <2>5, <2>6, LocatesFrame
  <2>8. Elements(managed[r])' \subseteq Elements(Copies[To(r)])
    BY <1>1, <1>2, <2>2, <2>3 DEF Building
  <2>9. ASSUME stamp.state # "absent"
        PROVE  /\ Overwrites(r) /\ Describes(stamp)
               /\ \E p \in Elements(stamp.managed) : Locates(p) /\ files'[p] = stamp.hashes[p]
               /\ Package \in Elements(stamp.managed) => files'[Package] = stamp.hashes[Package]
    <3>1. PICK p \in Elements(stamp.managed) : Locates(p) /\ files[p] = stamp.hashes[p]
      BY <1>2, <2>9 DEF Building
    <3>2. p \in Elements(Configs)
      BY <3>1, LocatesOne
    <3>3. files'[p] = files[p] /\ files'[Package] = files[Package]
      BY <2>3, <2>5, <2>6, <3>2
    <3>4. QED
      BY <1>1, <1>2, <2>9, <3>1, <3>3 DEF Building
  <2>10. ASSUME stamp.state # "absent", To(r) = stamp.version,
                NEW p \in Elements(stamp.managed) \ {Package}
         PROVE  Present(p)' /\ files'[p] = stamp.hashes[p]
    <3>1. Present(p) /\ files[p] = stamp.hashes[p] /\ Describes(stamp)
      BY <1>2, <2>10 DEF Building
    <3>2. p \in Paths
      BY DEF TypeOK, DiskTypeOK, Stamps, Elements
    <3>3. CASE p = Entry(r)
      <4>1. files'[p] = Plain(To(r)) /\ stamp.hashes[p] = Plain(To(r))
        BY <2>3, <2>4, <2>10, <3>1, <3>2, <3>3 DEF Describes
      <4>2. Present(p)'
        BY <4>1, TargetTypes, LifecycleAssumption
        DEF TypeOK, Present, Plain, Nothing, LifecycleAssumption
      <4>3. QED
        BY <4>1, <4>2
    <3>4. CASE p # Entry(r)
      BY <2>5, <3>1, <3>2, <3>4
    <3>5. QED
      BY <3>3, <3>4
  <2>11. Building(r)'
    BY <1>1, <1>3, <2>1, <2>7, <2>8, <2>9, <2>10 DEF Building
  <2>12. QED
    BY <1>1, <1>3, <2>1, <2>11 DEF SettledRun, Changing
<1>8. QED
  BY <1>5, <1>6, <1>7 DEF Copy

\* A config file with the entry is the one that install finds there.
LEMMA EntryStays ==
  ASSUME NEW f \in Files, f.entry = "yes"
  PROVE  AddPluginEntry(f) = f
  BY DEF AddPluginEntry, Files

LEMMA ConfigureSettles ==
  ASSUME NEW r \in Runs, Working(r), Configure(r), ~Is(r, "uninstall") PROVE SettledRun(r)'
<1> USE DEF Working, Quiet
<1>1. /\ step[r] \in {"locate", "cfgBackup", "cfgReplace"} /\ pc[r] = "held" /\ pc'[r] = "held"
      /\ job' = job /\ stamp' = stamp
  BY DEF Configure, LocateForMerge, BackUpConfig, WriteConfig, At, Move, diskVars, lockVars, runVars
<1>2. Building(r)
  BY <1>1 DEF SettledRun, Changing
<1>3. ~Is(r, "uninstall")' /\ To(r)' = To(r) /\ Overwrites(r)' = Overwrites(r)
      /\ Elements(stamp.managed)' = Elements(stamp.managed)
      /\ Describes(stamp)' = Describes(stamp)
  BY <1>1 DEF Is, To, Overwrites, Has, Describes, Elements
<1>4. ASSUME UNCHANGED <<files, managed>>
      PROVE  /\ \A p : Present(p)' = Present(p) /\ Locates(p)' = Locates(p)
             /\ Located' = Located /\ Elements(managed[r])' = Elements(managed[r])
  BY <1>4, LocatesFrame DEF Present, Elements
<1>5. CASE LocateForMerge(r)
  <2>1. step[r] = "locate" /\ step'[r] = "cfgBackup" /\ UNCHANGED <<files, managed>>
    BY <1>5 DEF LocateForMerge, At, Move, TypeOK, RunTypeOK, diskVars
  <2>2. /\ \/ Located = {} /\ cfg'[r] = NewConfig
           \/ Locates(cfg'[r]) /\ merged'[r] = AddPluginEntry(files[cfg'[r]])
    BY <1>5 DEF LocateForMerge, TypeOK, RunTypeOK
  <2>3. ASSUME stamp.state # "absent" PROVE merged'[r] = files[cfg'[r]]
    <3>1. PICK p \in Elements(stamp.managed) : Locates(p) /\ files[p] = stamp.hashes[p]
      BY <1>2, <2>3 DEF Building
    <3>2. p \in Elements(Configs) /\ Located # {}
      BY <3>1, LocatesOne
    <3>3. Locates(cfg'[r]) /\ merged'[r] = AddPluginEntry(files[cfg'[r]])
      BY <2>2, <3>2
    <3>4. cfg'[r] = p
      BY <3>1, <3>3, LocatesOne
    <3>5. files[p].entry = "yes"
      BY <1>2, <2>3, <3>1, <3>2 DEF Building, Describes
    <3>6. files[p] \in Files
      BY DEF TypeOK, DiskTypeOK, Stamps, Elements
    <3>7. QED
      BY <3>3, <3>4, <3>5, <3>6, EntryStays
  <2>4. Building(r)'
    BY <1>2, <1>3, <1>4, <1>1, <2>1, <2>2, <2>3 DEF Building
  <2>5. QED
    BY <1>1, <1>3, <2>1, <2>4 DEF SettledRun, Changing
<1>6. CASE BackUpConfig(r)
  <2>1. step[r] = "cfgBackup" /\ step'[r] = "cfgReplace"
        /\ UNCHANGED <<files, managed, cfg, merged>>
    BY <1>6 DEF BackUpConfig, At, Move, TypeOK, RunTypeOK, readVars
  <2>2. Building(r)'
    BY <1>2, <1>3, <1>4, <1>1, <2>1 DEF Building
  <2>3. QED
    BY <1>1, <1>3, <2>1, <2>2 DEF SettledRun, Changing
<1>7. CASE WriteConfig(r)
  <2>1. /\ step[r] = "cfgReplace" /\ step'[r] = "package" /\ cfg' = cfg
        /\ WriteFile(cfg[r], merged[r]) /\ managed' = [managed EXCEPT ![r] = Append(@, cfg[r])]
    BY <1>7, <1>3 DEF WriteConfig, At, Move, TypeOK, RunTypeOK, readVars
  <2>2. cfg[r] \in Paths /\ cfg[r] \in Elements(Configs) /\ merged[r].entry = "yes"
    BY <2>1 DEF TypeOK, RunTypeOK, Following
  <2>20. PICK c \in Elements(Configs) : c = cfg[r]
    BY <2>2
  <2>3. Elements(managed[r])' = Elements(managed[r]) \cup {cfg[r]}
    BY <2>1, <2>2, WrittenElements
  <2>4. \A p \in Paths : files'[p] = IF p = cfg[r] THEN merged[r] ELSE files[p]
    BY <2>1 DEF WriteFile, TypeOK, DiskTypeOK
  <2>5. Present(c)' /\ \A p \in Paths \ {c} : Present(p)' = Present(p)
    BY <2>2, <2>20, <2>4 DEF Present, Nothing
  <2>6. Elements(Configs) \subseteq Paths
    BY LifecycleAssumption DEF LifecycleAssumption, Elements
  <2>7. Locates(c)'
    <3>1. CASE Locates(c)
      <4>1. Present(c)
        BY <3>1, LocatesOne
      <4>2. \A p \in Elements(Configs) : Present(p)' = Present(p)
        BY <2>5, <2>6, <4>1 DEF Present
      <4>3. QED
        BY <3>1, <4>2, LocatesFrame
    <3>2. CASE Located = {}
      <4>1. \A q \in Elements(Configs) : ~Present(q)
        BY <3>2 DEF Located, Elements
      <4>2. \A q \in Elements(Configs) : Present(q)' => q = c
        BY <2>5, <2>6, <4>1
      <4>3. QED
        BY <2>5, <4>2, LocatesThen
    <3>3. QED
      BY <1>2, <2>1, <2>20, <3>1, <3>2 DEF Building
  <2>8. Elements(managed[r])' \subseteq Elements(Copies[To(r)]) \cup {cfg[r]}
    BY <1>2, <2>1, <2>3 DEF Building
  <2>9. ASSUME stamp.state # "absent" PROVE files' = files
    BY <1>2, <2>1, <2>9 DEF Building, WriteFile, TypeOK, DiskTypeOK
  <2>10. ASSUME stamp.state # "absent"
         PROVE  /\ Overwrites(r) /\ Describes(stamp)
                /\ \E p \in Elements(stamp.managed) : Locates(p)' /\ files'[p] = stamp.hashes[p]
                /\ Package \in Elements(stamp.managed) => files'[Package] = stamp.hashes[Package]
                /\ To(r) = stamp.version => \A p \in Elements(stamp.managed) \ {Package} :
                                               Present(p)' /\ files'[p] = stamp.hashes[p]
    <3>1. \A p : Present(p)' = Present(p)
      BY <2>9, <2>10 DEF Present
    <3>2. \A p : Locates(p)' = Locates(p)
      BY <3>1, LocatesFrame
    <3>3. QED
      BY <1>2, <2>1, <2>9, <2>10, <3>1, <3>2 DEF Building
  <2>11. Building(r)'
    BY <1>1, <1>3, <2>1, <2>20, <2>7, <2>8, <2>10 DEF Building
  <2>12. QED
    BY <1>1, <1>3, <2>1, <2>11 DEF SettledRun, Changing
<1>8. QED
  BY <1>5, <1>6, <1>7 DEF Configure

LEMMA CompleteSettles ==
  ASSUME NEW r \in Runs, Working(r), Complete(r), failures' = 0 PROVE SettledRun(r)'
<1> USE DEF Working, Quiet
<1>1. /\ step[r] \in {"package", "packageCopy", "hash", "writeStamp"} /\ pc[r] = "held"
      /\ job' = job
  BY DEF Complete, NoPackage, PackageRefused, RemovePackage, CopyPackage, CopyPackageFails,
         HashFiles, WriteStamp, WriteBadStamp, At
<1>2. ~Is(r, "uninstall") /\ Building(r)
  BY <1>1 DEF SettledRun, Changing, Informed
<1>3. /\ ~Is(r, "uninstall")' /\ To(r)' = To(r) /\ Overwrites(r)' = Overwrites(r)
      /\ To(r) \in Versions
  BY <1>1, <1>2, TargetTypes DEF Is, To, Overwrites, Has, TypeOK
<1>4. /\ Locates(cfg[r]) /\ cfg[r] \in Elements(Configs) /\ Present(cfg[r])
      /\ Elements(managed[r]) \subseteq
            Elements(Copies[To(r)]) \cup {cfg[r]}
            \cup (IF step[r] \in {"hash", "writeStamp"} /\ To(r) \in Standalone
                  THEN {Package} ELSE {})
  BY <1>1, <1>2, LocatesOne DEF Building
<1>5. ASSUME stamp' = stamp
      PROVE  /\ Elements(stamp.managed)' = Elements(stamp.managed)
             /\ Describes(stamp)' = Describes(stamp)
  BY <1>5 DEF Describes, Elements
<1>6. CASE PackageRefused(r)
  <2>1. pc'[r] = "release" /\ UNCHANGED <<files, stamp>> /\ ~Overwrites(r)
    BY <1>6 DEF PackageRefused, ReplacesPackage, Return, Finish, Go, TypeOK, LockTypeOK, diskVars
  <2>2. stamp.state = "absent"
    BY <1>2, <2>1 DEF Building
  <2>3. QED
    BY <2>1, <2>2, PausingSettles DEF Changing
<1>7. CASE CopyPackageFails(r)
  <2>1. ~Present(Package)
    BY <1>2, <1>7 DEF CopyPackageFails, At, Building
  <2>2. QED
    BY <1>7, <2>1 DEF CopyPackageFails, Failure
<1>8. CASE WriteBadStamp(r)
  BY <1>8 DEF WriteBadStamp, Failure
<1>9. CASE NoPackage(r) \/ HashFiles(r)
  <2>1. /\ UNCHANGED <<files, stamp, managed, cfg>> /\ pc'[r] = "held"
        /\ \/ step'[r] = "hash" /\ step[r] = "package" /\ To(r) \notin Standalone
           \/ step'[r] = "writeStamp" /\ step[r] = "hash"
    BY <1>9 DEF NoPackage, HashFiles, At, Move, TypeOK, RunTypeOK, diskVars, readVars, lockVars,
                runVars
  <2>2. /\ \A p : Present(p)' = Present(p) /\ Locates(p)' = Locates(p)
        /\ Elements(managed[r])' = Elements(managed[r])
    BY <2>1, LocatesFrame DEF Present, Elements
  <2>3. step'[r] = "writeStamp" => \A p \in Elements(managed[r]) : hashes'[r][p] = files[p]
    <3>1. Elements(managed[r]) \subseteq Paths
      BY DEF Elements, TypeOK, RunTypeOK
    <3>2. CASE HashFiles(r)
      BY <3>1, <3>2 DEF HashFiles, TypeOK, RunTypeOK
    <3>3. CASE NoPackage(r)
      BY <3>3 DEF NoPackage, Move, TypeOK, RunTypeOK
    <3>4. QED
      BY <1>9, <3>2, <3>3
  <2>4. Building(r)'
    BY <1>1, <1>2, <1>3, <1>5, <2>1, <2>2, <2>3 DEF Building
  <2>5. QED
    BY <1>3, <2>1, <2>4 DEF SettledRun, Changing
<1>10. CASE RemovePackage(r) \/ CopyPackage(r)
  <2>1. /\ UNCHANGED <<stamp, cfg>> /\ pc'[r] = "held" /\ To(r) \in Standalone
        /\ \/ /\ step'[r] = "packageCopy" /\ step[r] = "package" /\ managed' = managed
              /\ WriteFile(Package, Nothing)
           \/ /\ step'[r] = "hash" /\ step[r] = "packageCopy"
              /\ managed' = [managed EXCEPT ![r] = Append(@, Package)]
              /\ WriteFile(Package, Plain(To(r)))
    BY <1>2, <1>10 DEF RemovePackage, CopyPackage, Building, At, Move, TypeOK, RunTypeOK, readVars,
                       lockVars, runVars
  <2>2. \A p \in Paths \ {Package} : files'[p] = files[p] /\ Present(p)' = Present(p)
    BY <2>1 DEF WriteFile, Present, TypeOK, DiskTypeOK
  <2>3. step[r] = "package" => ~Present(Package)'
    BY <2>1, NotOfThePlan DEF WriteFile, Present, TypeOK, DiskTypeOK
  <2>4. \A p : Locates(p)' = Locates(p)
    <3>1. Elements(Configs) \subseteq Paths /\ Package \notin Elements(Configs)
      BY LifecycleAssumption DEF LifecycleAssumption, Elements
    <3>2. QED
      BY <2>2, <3>1, LocatesFrame
  <2>5. Elements(managed[r])' = Elements(managed[r]) \cup
           (IF step[r] = "packageCopy" THEN {Package} ELSE {})
    <3>1. CASE step[r] = "package"
      BY <2>1, <3>1 DEF Elements
    <3>2. CASE step[r] = "packageCopy"
      BY <2>1, <3>2, NotOfThePlan, WrittenElements
    <3>3. QED
      BY <2>1, <3>1, <3>2
  <2>6. Elements(stamp.managed) \subseteq Paths
    BY DEF TypeOK, DiskTypeOK, Stamps, Elements
  <2>7. ASSUME stamp.state # "absent"
        PROVE  /\ Overwrites(r) /\ Describes(stamp)
               /\ \E p \in Elements(stamp.managed) : Locates(p)' /\ files'[p] = stamp.hashes[p]
               /\ To(r) = stamp.version => \A p \in Elements(stamp.managed) \ {Package} :
                                              Present(p)' /\ files'[p] = stamp.hashes[p]
    <3>1. PICK p \in Elements(stamp.managed) : Locates(p) /\ files[p] = stamp.hashes[p]
      BY <1>2, <2>7 DEF Building
    <3>2. p \in Elements(Configs) /\ p # Package
      BY <3>1, LocatesOne, NotOfThePlan
    <3>3. Locates(p)' /\ files'[p] = stamp.hashes[p]
      BY <2>2, <2>4, <2>6, <3>1, <3>2
    <3>4. QED
      BY <1>2, <2>2, <2>6, <2>7, <3>3 DEF Building
  <2>8. Building(r)'
    BY <1>1, <1>3, <1>4, <1>5, <2>1, <2>3, <2>4, <2>5, <2>7 DEF Building
  <2>9. QED
    BY <1>3, <2>1, <2>8 DEF SettledRun, Changing
<1>11. CASE WriteStamp(r)
  <2>1. /\ step[r] = "writeStamp" /\ step'[r] = "log" /\ files' = files
        /\ stamp' = [state |-> "valid", version |-> To(r),
                     managed |-> managed[r], hashes |-> hashes[r]]
    BY <1>11 DEF WriteStamp, At, Move, TypeOK, RunTypeOK
  <2>2. Arrived(r, Len(Copies[To(r)])) /\ Delivered(r, hashes[r])
    BY <1>1, <1>2, <2>1 DEF Following
  <2>3. Elements(Copies[To(r)]) \subseteq Elements(managed[r])
    <3> DEFINE copies == Copies[To(r)]
    <3>1. copies \in Seq(Paths) /\ managed[r] \in Seq(Paths)
      BY TargetTypes DEF TypeOK, RunTypeOK
    <3>2. Len(copies) <= Len(managed[r]) /\ \A k \in 1 .. Len(copies) : managed[r][k] = copies[k]
      BY <2>2 DEF Arrived
    <3> HIDE DEF copies
    <3>3. Elements(copies) \subseteq Elements(managed[r])
      BY <3>1, <3>2 DEF Elements
    <3>4. QED
      BY <3>3 DEF copies
  <2>4. \A p \in Elements(Copies[To(r)]) : hashes[r][p] = Plain(To(r))
    BY <2>2, <2>3 DEF Delivered
  <2>5. cfg[r] \in Elements(managed[r]) /\ hashes[r][cfg[r]].entry = "yes"
    BY <2>1, <2>2 DEF Delivered
  <2>6. To(r) \in Standalone =>
           Package \in Elements(managed[r]) /\ hashes[r][Package] = Plain(To(r))
    BY <2>1, <2>2 DEF Delivered
  <2>7. \A p \in Elements(managed[r]) : hashes[r][p] = files[p]
    BY <1>2, <2>1 DEF Building
  <2>8. \A p \in Elements(managed[r]) \cap Elements(Configs) : p = cfg[r]
    BY <1>4, NotOfThePlan
  <2>9. Package \in Elements(managed[r]) => To(r) \in Standalone
    BY <1>4, NotOfThePlan
  <2>10. \A p \in Elements(managed[r]) : hashes[r][p] # Nothing
    <3>1. Plain(To(r)) # Nothing
      BY <1>3, LifecycleAssumption DEF Plain, Nothing, LifecycleAssumption
    <3>2. hashes[r][cfg[r]] # Nothing
      BY <2>5 DEF Nothing
    <3>3. QED
      BY <1>4, <2>1, <2>4, <2>6, <3>1, <3>2
  <2>11. stamp'.state = "valid" /\ stamp'.version = To(r) /\ stamp'.managed = managed[r]
         /\ stamp'.hashes = hashes[r]
    BY <2>1
  <2>12. Elements(stamp.managed)' = Elements(managed[r])
    BY <2>11 DEF Elements
  <2>13. Describes(stamp)'
    <3>1. Elements(managed[r]) \subseteq
             Elements(Copies[To(r)]) \cup Elements(Configs) \cup {Package}
      BY <1>4
    <3>2. QED
      BY <1>3, <2>3, <2>4, <2>5, <2>6, <2>8, <2>9, <2>11, <2>12, <3>1 DEF Describes
  <2>14. AsStamped(stamp)'
    BY <2>1, <2>7, <2>10, <2>11, <2>12 DEF AsStamped, Present
  <2>15. \E p \in Elements(stamp.managed)' : Locates(p)'
    BY <1>4, <2>1, <2>5, <2>12, LocatesFrame DEF Present
  <2>16. QED
    BY <2>1, <2>13, <2>14, <2>15 DEF SettledRun, Changing, Installed
<1>12. QED
  BY <1>6, <1>7, <1>8, <1>9, <1>10, <1>11 DEF Complete

\* What uninstall needs of the stamp and of its config file is so after a step that leaves
\* both alone.
LEMMA StrippingStays ==
  ASSUME NEW r \in Runs, Working(r), Stripping(r), Is(r, "uninstall"), UNCHANGED <<stamp, job>>,
         pc'[r] = "held", step'[r] \notin {"readStamp", "decide", "log", "purge"},
         NEW c, c = cfg'[r],
         \/ step'[r] \in {"compare", "remove"} /\ c # None
         \/ step'[r] \in {"strip", "cfgBackup", "cfgReplace"}
         => c \in Elements(Configs) /\ Present(c)',
         step'[r] = "remove" => Managed(r)' # c,
         step'[r] \in {"cfgBackup", "cfgReplace"} => merged'[r].entry = "no"
  PROVE  SettledRun(r)'
<1>1. Describes(stamp)' = Describes(stamp) /\ Is(r, "uninstall")'
  BY DEF Describes, Elements, Is
<1>2. Stripping(r)'
  BY <1>1 DEF Stripping
<1>3. QED
  BY <1>1, <1>2 DEF SettledRun, Changing

LEMMA UninstallSettles ==
  ASSUME NEW r \in Runs, Working(r), Uninstall(r) \/ (Configure(r) /\ Is(r, "uninstall")),
         failures' = 0
  PROVE  SettledRun(r)'
<1> USE DEF Working, Quiet
<1>1. /\ step[r] \in {"locate", "compare", "remove", "strip", "cfgBackup", "cfgReplace",
                      "dropStamp", "purge"}
      /\ pc[r] = "held" /\ Is(r, "uninstall") /\ job' = job
  <2>1. CASE Uninstall(r)
    <3>1. /\ \/ step[r] = "locate" /\ Is(r, "uninstall")
             \/ step[r] \in {"compare", "remove", "strip", "dropStamp", "purge"}
          /\ pc[r] = "held" /\ job' = job
      BY <2>1 DEF Uninstall, LocateForStrip, CompareSkips, CompareMatches, RemoveManaged,
         RemoveManagedFails, CompareDone, StripEntry, StripFails, DropStamp, Purge, Comparing, At
    <3>2. QED
      BY <3>1 DEF Informed
  <2>2. CASE Configure(r) /\ Is(r, "uninstall")
    BY <2>2 DEF Configure, LocateForMerge, BackUpConfig, WriteConfig, At
  <2>3. QED
    BY <2>1, <2>2
<1>2. step[r] # "purge" => Stripping(r)
  BY <1>1 DEF SettledRun, Changing
<1>3. ASSUME UNCHANGED files PROVE \A p : Present(p)' = Present(p)
  BY <1>3 DEF Present
<1>4. CASE LocateForStrip(r)
  <2>1. /\ step[r] = "locate" /\ step'[r] = "compare" /\ UNCHANGED <<files, stamp>>
        /\ pc'[r] = "held"
        /\ cfg'[r] = None \/ Locates(cfg'[r])
    BY <1>1, <1>4 DEF LocateForStrip, At, Move, TypeOK, RunTypeOK, diskVars, lockVars, runVars
  <2>2. PICK c : c = cfg'[r]
    OBVIOUS
  <2>3. c # None => c \in Elements(Configs) /\ Present(c)'
    BY <1>3, <2>1, <2>2, LocatesOne
  <2>4. QED
    BY <1>1, <1>2, <2>1, <2>2, <2>3, StrippingStays
<1>5. CASE CompareSkips(r) \/ CompareMatches(r) \/ CompareDone(r)
  <2>1. /\ step[r] = "compare" /\ step'[r] \in {"compare", "remove", "strip", "dropStamp"}
        /\ UNCHANGED <<files, stamp, cfg>> /\ pc'[r] = "held"
        /\ step'[r] = "strip" => cfg[r] # None
    BY <1>1, <1>5 DEF CompareSkips, CompareMatches, CompareDone, Comparing, At, Move, TypeOK,
                      RunTypeOK, diskVars, lockVars, runVars, readVars
  <2>2. step'[r] = "remove" => UNCHANGED <<at, prior>> /\ Managed(r) # cfg[r]
    BY <1>5, <2>1 DEF CompareSkips, CompareMatches, CompareDone, Move, TypeOK, RunTypeOK, readVars
  <2>3. PICK c : c = cfg[r]
    OBVIOUS
  <2>4. cfg[r] # None => c \in Elements(Configs) /\ Present(c)'
    BY <1>2, <1>3, <2>1, <2>3 DEF Stripping
  <2>5. step'[r] = "remove" => Managed(r)' # c
    BY <2>2, <2>3 DEF Managed
  <2>6. QED
    BY <1>1, <1>2, <2>1, <2>3, <2>4, <2>5, StrippingStays
<1>6. CASE RemoveManaged(r)
  <2>1. /\ step[r] = "remove" /\ step'[r] = "compare" /\ UNCHANGED <<stamp, cfg>>
        /\ pc'[r] = "held" /\ WriteFile(Managed(r), Nothing)
    BY <1>1, <1>6 DEF RemoveManaged, At, Move, TypeOK, RunTypeOK, lockVars, runVars, readVars
  <2>2. PICK c : c = cfg[r]
    OBVIOUS
  <2>3. c # None => c \in Elements(Configs) /\ Present(c)'
    <3>1. c # None => c \in Elements(Configs) /\ Present(c) /\ c # Managed(r)
      BY <1>2, <2>1, <2>2 DEF Stripping
    <3>2. Elements(Configs) \subseteq Paths
      BY LifecycleAssumption DEF LifecycleAssumption, Elements
    <3>3. QED
      BY <2>1, <3>1, <3>2 DEF WriteFile, Present, TypeOK, DiskTypeOK
  <2>4. QED
    BY <1>1, <1>2, <2>1, <2>2, <2>3, StrippingStays
<1>7. CASE RemoveManagedFails(r)
  BY <1>7 DEF RemoveManagedFails, Failure
<1>8. CASE StripEntry(r) \/ BackUpConfig(r)
  <2>1. /\ \/ step[r] = "strip" /\ step'[r] \in {"cfgBackup", "dropStamp"}
              /\ merged'[r] = RemovePluginEntry(files[cfg[r]])
           \/ step[r] = "cfgBackup" /\ step'[r] = "cfgReplace" /\ merged' = merged
        /\ UNCHANGED <<files, stamp, cfg>> /\ pc'[r] = "held"
    BY <1>1, <1>8 DEF StripEntry, BackUpConfig, At, Move, TypeOK, RunTypeOK, diskVars, lockVars,
                      runVars, readVars
  <2>2. PICK c : c = cfg[r]
    OBVIOUS
  <2>3. c \in Elements(Configs) /\ Present(c)'
    BY <1>2, <1>3, <2>1, <2>2 DEF Stripping
  <2>4. c \in Paths
    BY <2>3, LifecycleAssumption DEF LifecycleAssumption, Elements
  <2>5. merged'[r].entry = "no"
    <3>1. files[c] \in Files
      BY <2>4 DEF TypeOK, DiskTypeOK
    <3>2. RemovePluginEntry(files[c]).entry = "no"
      BY <3>1 DEF RemovePluginEntry, Files
    <3>3. QED
      BY <1>2, <2>1, <2>2, <3>2 DEF Stripping
  <2>6. QED
    BY <1>1, <1>2, <2>1, <2>2, <2>3, <2>5, StrippingStays
<1>9. CASE StripFails(r)
  BY <1>2, <1>9 DEF StripFails, At, Stripping
<1>10. CASE WriteConfig(r)
  <2>1. step'[r] = "dropStamp" /\ step[r] = "cfgReplace" /\ UNCHANGED stamp /\ pc'[r] = "held"
    BY <1>1, <1>10 DEF WriteConfig, At, Move, TypeOK, RunTypeOK, lockVars, runVars
  <2>2. QED
    BY <1>1, <1>2, <2>1, StrippingStays
<1>11. CASE DropStamp(r)
  BY <1>11, StampTypes DEF DropStamp, Move, TypeOK, RunTypeOK, SettledRun, Changing, NoStamp
<1>12. CASE Purge(r)
  <2>1. step[r] = "purge" /\ step'[r] = "log" /\ UNCHANGED <<files, stamp>>
    BY <1>12 DEF Purge, At, Move, TypeOK, RunTypeOK
  <2>2. QED
    BY <2>1, PausingSettles DEF Changing
<1>13. ~LocateForMerge(r)
  BY <1>1 DEF LocateForMerge
<1>14. QED
  BY <1>4, <1>5, <1>6, <1>7, <1>8, <1>9, <1>10, <1>11, <1>12, <1>13 DEF Uninstall, Configure

\* The lock, the clock and the user.
\* a run that had the lock keeps it, or ends
Goes(r) == pc[r] \in {"held", "release", "ended"} => pc'[r] \in {pc[r], "ended"}

\* A step without the lock, of an undisturbed project.
LEMMA OtherSteps ==
  ASSUME Quiet, Undisturbed',
         \/ \E r \in Runs : TakeLock(r) \/ Leave(r) \/ Dies(r)
         \/ TimePasses \/ UNCHANGED vars
  PROVE  /\ UNCHANGED <<diskVars, localVars, job, edits>> /\ (edited' = edited \/ edited' = {})
         /\ \A s \in Runs : Changing(s)' = Changing(s) /\ Goes(s)
         /\ failures = 0 /\ leftovers = 0
<1> USE DEF Quiet
<1>1. ASSUME NEW r \in Runs, TakeLock(r)
      PROVE  /\ UNCHANGED <<diskVars, localVars, job, edits>>
             /\ (edited' = edited \/ edited' = {})
             /\ \A s \in Runs : Changing(s)' = Changing(s) /\ Goes(s)
             /\ failures = 0 /\ leftovers = 0
  <2>1. /\ OnlyRun(r) /\ UNCHANGED <<diskVars, localVars, job, edits>>
        /\ (edited' = edited \/ edited' = {})
        /\ pc[r] \in {"idle", "mkdir", "classify", "reap", "owner", "utimes", "cleanup"}
        /\ pc[r] = "cleanup" => pc'[r] = "ended"
        /\ leftovers' = leftovers
    BY <1>1, OnlyAcquire DEF TakeLock, localVars, readVars
  <2>2. step[r] = "readStamp" \/ pc'[r] = "ended"
    BY <2>1 DEF Informed
  <2>3. \A s \in Runs : Changing(s)' = Changing(s) /\ Goes(s)
    BY <2>1, <2>2 DEF Changing, OnlyRun, localVars, Goes
  <2>4. failures' = failures \/ failures' = failures + 1
    BY <1>1 DEF TakeLock, AcquireLock, Call, MakeDir, DirExists, DirStale, DirVanished, ReapDir,
                DirLive, AcquireFails, WriteOwner, TouchDir, OwnerFails, CleanUp, Failure
  <2>5. QED
    BY <2>1, <2>3, <2>4 DEF Undisturbed, TypeOK, LockTypeOK
<1>2. ASSUME NEW r \in Runs, Leave(r) \/ Dies(r)
      PROVE  /\ UNCHANGED <<diskVars, localVars, job, edits>> /\ edited' = edited
             /\ \A s \in Runs : Changing(s)' = Changing(s) /\ Goes(s)
             /\ failures = 0 /\ leftovers = 0
  <2>1. leftovers \in Nat /\ leftovers' = 0 /\ failures' = 0
    BY DEF Undisturbed, TypeOK, LockTypeOK
  <2>2. ~Dies(r) /\ ~RemoveFails(r)
    BY <2>1 DEF Dies, Crash, RemoveFails
  <2>3. Release(r) /\ UNCHANGED lifeVars
    BY <1>2, <2>2 DEF Leave, LeaveLock
  <2>4. pc[r] = "release" /\ pc' = [pc EXCEPT ![r] = "ended"] /\ UNCHANGED <<failures, leftovers>>
    BY <2>3 DEF Release, Go
  <2>5. \A s \in Runs : Changing(s)' = Changing(s) /\ Goes(s)
    BY <2>3, <2>4 DEF Changing, lifeVars, localVars, TypeOK, LockTypeOK, Goes
  <2>6. QED
    BY <2>1, <2>3, <2>4, <2>5 DEF lifeVars, userVars
<1>3. ASSUME TimePasses \/ UNCHANGED vars
      PROVE  /\ UNCHANGED <<diskVars, localVars, job, edits>> /\ edited' = edited
             /\ \A s \in Runs : Changing(s)' = Changing(s) /\ Goes(s)
             /\ failures = 0 /\ leftovers = 0
  BY <1>3 DEF TimePasses, Tick, vars, lockVars, runVars, lifeVars, localVars, userVars, Changing,
              Goes, Undisturbed
<1>4. QED
  BY <1>1, <1>2, <1>3

LEMMA OtherSettles ==
  ASSUME Quiet, Settled, Undisturbed',
         \/ \E r \in Runs : TakeLock(r) \/ Leave(r) \/ Dies(r)
         \/ TimePasses \/ UNCHANGED vars
  PROVE  Settled'
<1>1. /\ UNCHANGED <<diskVars, localVars, job, edits>> /\ (edited' = edited \/ edited' = {})
      /\ \A s \in Runs : Changing(s)' = Changing(s)
      /\ failures = 0 /\ leftovers = 0
  BY OtherSteps
<1>2. Undisturbed
  BY <1>1 DEF Undisturbed
<1>3. Installed' = Installed
  BY <1>1, InstalledFrame DEF diskVars
<1>4. \A s \in Runs : (Stripping(s) => Stripping(s)') /\ (Building(s) => Building(s)')
  BY <1>1, RunSettledFrame DEF diskVars, localVars, readVars
<1>5. \A s \in Runs : Is(s, "uninstall")' = Is(s, "uninstall")
  BY <1>1 DEF Is
<1>6. QED
  BY <1>1, <1>2, <1>3, <1>4, <1>5 DEF Settled, diskVars

LEMMA FailuresGrow ==
  ASSUME Quiet, NEW r \in Runs, ~TakeLock(r), failures' = 0,
         \/ Begin(r) \/ Copy(r) \/ Configure(r) \/ Complete(r) \/ Uninstall(r)
         \/ WriteLog(r) \/ StepFails(r)
  PROVE  /\ failures = 0 /\ ~StepFails(r)
         /\ UNCHANGED <<edits, edited>> /\ leftovers' = leftovers
<1> USE DEF Quiet, TypeOK, LockTypeOK, Move, Return, Finish, Failure, lockVars, userVars
<1>1. CASE Begin(r)
  BY <1>1 DEF Begin, ReadBadStamp, ReadStamp, Decline, Proceed, StepFails
<1>2. CASE Copy(r)
  BY <1>2 DEF Copy, CopyCreates, CopyRefused, CopyBacksUp, CopyReplaces, CopiesDone, StepFails
<1>3. CASE Configure(r)
  BY <1>3 DEF Configure, LocateForMerge, BackUpConfig, WriteConfig, StepFails
<1>4. CASE Complete(r)
  BY <1>4 DEF Complete, NoPackage, PackageRefused, RemovePackage, CopyPackage,
              CopyPackageFails, HashFiles, WriteStamp, WriteBadStamp, StepFails
<1>5. CASE Uninstall(r)
  BY <1>5 DEF Uninstall, LocateForStrip, CompareSkips, CompareMatches, RemoveManaged,
              RemoveManagedFails, CompareDone, StripEntry, StripFails, DropStamp, Purge, StepFails
<1>6. CASE WriteLog(r) \/ StepFails(r)
  BY <1>6 DEF WriteLog, StepFails
<1>7. QED
  BY <1>1, <1>2, <1>3, <1>4, <1>5, <1>6

\* What the run that works does, and what its steps rely on in an undisturbed project.
Acts(r) == ~TakeLock(r) /\ ( \/ Begin(r) \/ Copy(r) \/ Configure(r) \/ Complete(r)
                             \/ Uninstall(r) \/ WriteLog(r) \/ StepFails(r))

LEMMA WorksOn ==
  ASSUME Quiet, \A s \in Runs : Following(s), Settled, Undisturbed', NEW r \in Runs, Acts(r)
  PROVE  /\ Working(r) /\ OnlyRun(r) /\ Undisturbed /\ ~StepFails(r)
         /\ edited' = {} /\ failures' = 0
<1>1. Holding(r) /\ OnlyRun(r)
  BY WorksWithLock, WorksAlone DEF Acts
<1>2. /\ failures = 0 /\ failures' = 0 /\ ~StepFails(r)
      /\ UNCHANGED <<edits, edited>> /\ leftovers' = leftovers
  BY FailuresGrow DEF Undisturbed, Acts
<1>3. Undisturbed
  BY <1>2 DEF Undisturbed
<1>4. \A s \in Runs : Changing(s) => s = r
  BY <1>1 DEF Quiet, RunsSerialized, Holding, Changing
<1>5. QED
  BY <1>1, <1>2, <1>3, <1>4 DEF Working, SettledRun, Settled

LEMMA SettledStep ==
  ASSUME Quiet, \A s \in Runs : Following(s), Settled, [Next]_vars
  PROVE  Settled'
<1> SUFFICES ASSUME Undisturbed' PROVE Settled'
  BY DEF Settled
<1>1. ASSUME NEW r \in Runs, Acts(r) PROVE Settled'
  <2>1. Working(r) /\ OnlyRun(r) /\ ~StepFails(r) /\ edited' = {} /\ failures' = 0
    BY <1>1, WorksOn
  <2>2. SettledRun(r)'
    BY <1>1, <2>1, BeginSettles, CopySettles, ConfigureSettles, CompleteSettles,
       UninstallSettles DEF Acts
  <2>3. QED
    BY <2>1, <2>2, WorkerSettles DEF Working
<1>2. ASSUME NEW p \in Paths, NEW t \in UserTexts \cup {None}, UserEdits(p, t) PROVE FALSE
  <2>1. edits + 1 = 0 /\ edits \in Nat
    BY <1>2 DEF UserEdits, Undisturbed, Quiet, TypeOK
  <2>2. QED
    BY <2>1
<1>3. QED
  BY <1>1, <1>2, OtherSettles DEF Next, Begin, Acts

LEMMA SettledInit == Init => Settled
<1> SUFFICES ASSUME Init PROVE Settled
  OBVIOUS
<1>1. edited = {} /\ \A r \in Runs : ~Changing(r)
  BY DEF Init, LockInit, Changing
<1>2. stamp.state = "absent" \/ Installed
  <2>1. CASE stamp = NoStamp
    BY <2>1 DEF NoStamp
  <2>2. ASSUME NEW v \in StartVersions, files = InstalledFiles(v),
               stamp = [state |-> "valid", version |-> v, managed |-> InstalledPaths(v),
                        hashes |-> InstalledFiles(v)]
        PROVE  Installed
    <3>1. /\ v \in Versions /\ Copies[v] \in Seq(Paths) /\ NewConfig \in Paths /\ Package \in Paths
          /\ Elements(Copies[v]) \cap (Elements(Configs) \cup {Package}) = {}
          /\ NewConfig \in Elements(Configs) /\ Package \notin Elements(Configs)
      BY LifecycleAssumption DEF LifecycleAssumption
    <3>2. /\ stamp.state = "valid" /\ stamp.version = v /\ stamp.managed = InstalledPaths(v)
          /\ stamp.hashes = files
      BY <2>2
    <3>3. Elements(InstalledPaths(v)) =
             Elements(Copies[v]) \cup {NewConfig}
             \cup (IF v \in Standalone THEN {Package} ELSE {})
      <4> DEFINE base == Append(Copies[v], NewConfig)
      <4>1. base \in Seq(Paths) /\ Elements(base) = Elements(Copies[v]) \cup {NewConfig}
        BY <3>1, AppendElements
      <4>2. v \in Standalone => InstalledPaths(v) = Append(base, Package)
        BY <3>1 DEF InstalledPaths
      <4>3. v \notin Standalone => InstalledPaths(v) = base
        BY <3>1 DEF InstalledPaths
      <4> HIDE DEF base
      <4>4. Elements(Append(base, Package)) = Elements(base) \cup {Package}
        BY <3>1, <4>1, AppendElements
      <4>5. QED
        BY <4>1, <4>2, <4>3, <4>4
    <3>4. Elements(Copies[v]) \subseteq Paths
      BY <3>1 DEF Elements
    <3>5. /\ files[NewConfig] = [text |-> Created, entry |-> "yes"]
          /\ \A p \in Elements(InstalledPaths(v)) \ {NewConfig} : files[p] = Plain(v)
          /\ \A p \in Paths \ Elements(InstalledPaths(v)) : files[p] = Nothing
      BY <2>2, <3>1, <3>3, <3>4 DEF InstalledFiles
    <3>6. Plain(v) # Nothing
      BY <3>1, LifecycleAssumption DEF Plain, Nothing, LifecycleAssumption
    <3>7. \A p \in Elements(InstalledPaths(v)) : Present(p)
      BY <3>5, <3>6 DEF Present, Nothing
    <3>8. AsStamped(stamp)
      BY <3>2, <3>7 DEF AsStamped
    <3>9. Describes(stamp)
      BY <3>1, <3>2, <3>3, <3>5 DEF Describes
    <3>10. Locates(NewConfig)
      <4>1. Elements(Configs) \subseteq Paths
        BY LifecycleAssumption DEF LifecycleAssumption, Elements
      <4>2. \A q \in Elements(Configs) : Present(q) => q = NewConfig
        BY <3>1, <3>3, <3>5, <4>1 DEF Present
      <4>3. QED
        BY <3>1, <3>3, <3>7, <4>2, LocatesOnly
    <3>11. QED
      BY <3>2, <3>3, <3>8, <3>9, <3>10 DEF Installed
  <2>3. QED
    BY <2>1, <2>2 DEF Init
<1>3. QED
  BY <1>1, <1>2 DEF Settled

--------------------------------------------------------------------------------
(* The theorems.                                                             *)

LEMMA LifecycleInit == Init => LifecycleInv
<1>1. Init => \A r \in Runs : Following(r)
  BY DEF Init, LockInit, Following, Holding
<1>2. QED
  BY <1>1, LifecycleTypeInit, KeptInit, SettledInit DEF LifecycleInv, Kept

LEMMA LifecycleInvStep ==
  ASSUME RunsSerialized, RunsSerialized', LifecycleInv, [Next]_vars PROVE LifecycleInv'
<1>1. TypeOK'
  BY LifecycleTypeStep DEF LifecycleInv
<1>2. Quiet /\ (\A r \in Runs : Following(r)) /\ Settled
  BY DEF LifecycleInv, Quiet
<1>3. Kept' /\ (\A r \in Runs : Following(r)') /\ Settled'
  BY <1>2, KeptStep, FollowStep, SettledStep
<1>4. QED
  BY <1>1, <1>3 DEF LifecycleInv, Kept

\* While no two runs work at once, LifecycleInv holds in every state: also that an
\* undisturbed project is as its stamp says, or a run is changing it.
THEOREM LifecycleInvariant == []RunsSerialized /\ Spec => []LifecycleInv
<1>1. RunsSerialized /\ RunsSerialized' /\ LifecycleInv /\ [Next]_vars => LifecycleInv'
  BY LifecycleInvStep
<1>2. QED
  BY <1>1, LifecycleInit, PTL DEF Spec

\* No install, update or uninstall loses a text of the user's, failed or crashed at any
\* point and in any sequence, while no two of them work at once.
THEOREM LifecycleTextKept == []RunsSerialized /\ Spec => []UserTextKept
<1>1. LifecycleInv => UserTextKept
  BY DEF LifecycleInv, TextsSafe, SafeAt, UserTextKept
<1>2. QED
  BY <1>1, LifecycleInvariant, PTL

\* Only a run that writes its stamp goes from writeStamp to log.
LEMMA StampStep ==
  ASSUME Quiet, Next, NEW r \in Runs, step[r] = "writeStamp", step'[r] = "log"
  PROVE  WriteStamp(r) \/ WriteBadStamp(r)
<1>1. ASSUME NEW s \in Runs \ {r},
             \/ Begin(s) \/ Copy(s) \/ Configure(s) \/ Complete(s) \/ Uninstall(s)
             \/ WriteLog(s) \/ StepFails(s)
      PROVE  FALSE
  <2>1. step'[r] = step[r]
    <3>1. CASE TakeLock(s)
      BY <3>1 DEF TakeLock, localVars
    <3>2. CASE ~TakeLock(s)
      BY <1>1, <3>2, WorksAlone DEF OnlyRun
    <3>3. QED
      BY <3>1, <3>2
  <2>2. QED
    BY <2>1
<1>2. ASSUME Begin(r) \/ Copy(r) \/ Configure(r) \/ Uninstall(r) PROVE FALSE
  <2> USE DEF At, Move, Return, localVars
  <2>1. CASE Begin(r)
    BY <2>1 DEF Begin, TakeLock, ReadBadStamp, ReadStamp, Decline, Proceed
  <2>2. CASE Copy(r)
    BY <2>2 DEF Copy, CopyCreates, CopyRefused, CopyBacksUp, CopyReplaces, CopiesDone, Copying
  <2>3. CASE Configure(r)
    BY <2>3 DEF Configure, LocateForMerge, BackUpConfig, WriteConfig
  <2>4. CASE Uninstall(r)
    BY <2>4 DEF Uninstall, LocateForStrip, CompareSkips, CompareMatches, RemoveManaged, Comparing,
                RemoveManagedFails, CompareDone, StripEntry, StripFails, DropStamp, Purge
  <2>5. QED
    BY <1>2, <2>1, <2>2, <2>3, <2>4
<1>3. ASSUME NEW s \in Runs, WriteLog(s) \/ StepFails(s) \/ Leave(s) \/ Dies(s) PROVE FALSE
  BY <1>3 DEF WriteLog, StepFails, Leave, Dies, Return, lifeVars, localVars
<1>4. ASSUME TimePasses \/ \E p \in Paths, t \in UserTexts \cup {None} : UserEdits(p, t)
      PROVE  FALSE
  BY <1>4 DEF TimePasses, UserEdits, lifeVars, localVars
<1>5. CASE Complete(r)
  BY <1>5 DEF Complete, NoPackage, PackageRefused, RemovePackage, CopyPackage, CopyPackageFails,
              HashFiles, At, Move, Return
<1>6. QED
  BY <1>1, <1>2, <1>3, <1>4, <1>5 DEF Next

LEMMA CompleteStamp ==
  ASSUME Quiet, \A s \in Runs : Following(s), NEW r \in Runs, WriteStamp(r)
  PROVE  WritesCompleteStamp(r)
<1> DEFINE copies == Copies[To(r)]
<1>1. /\ Holding(r) /\ step[r] = "writeStamp"
      /\ stamp'.managed = managed[r] /\ stamp'.hashes = hashes[r]
  BY DEF WriteStamp, At, Holding
<1>2. ~Is(r, "uninstall")
  BY <1>1 DEF Quiet, Informed
<1>3. Arrived(r, Len(copies)) /\ Delivered(r, hashes[r])
  BY <1>1, <1>2 DEF Following
<1>4. copies \in Seq(Paths) /\ managed[r] \in Seq(Paths)
  BY TargetTypes DEF Quiet, TypeOK, RunTypeOK
<1> HIDE DEF copies
<1>5. copies = SubSeq(managed[r], 1, Len(copies))
  <2>1. Len(copies) <= Len(managed[r]) /\ \A k \in 1 .. Len(copies) : managed[r][k] = copies[k]
    BY <1>3 DEF Arrived, copies
  <2>2. /\ SubSeq(managed[r], 1, Len(copies)) \in Seq(Paths)
        /\ Len(SubSeq(managed[r], 1, Len(copies))) = Len(copies)
        /\ \A k \in 1 .. Len(copies) : SubSeq(managed[r], 1, Len(copies))[k] = managed[r][k]
    BY <1>4, <2>1
  <2>3. QED
    BY <1>4, <2>1, <2>2
<1>6. Elements(copies) \subseteq Elements(managed[r])
  BY <1>3, <1>4 DEF Arrived, Elements, copies
<1>7. \A p \in Elements(copies) \ edited : hashes[r][p] = Plain(To(r))
  BY <1>3, <1>6 DEF Delivered, copies
<1>8. /\ cfg[r] \in Elements(managed[r]) \cap Elements(Configs)
      /\ hashes[r][cfg[r]].entry = "yes" \/ cfg[r] \in edited
      /\ To(r) \in Standalone => hashes[r][Package] = Plain(To(r)) \/ Package \in edited
  BY <1>1, <1>3 DEF Delivered
<1>9. To(r) \in Versions
  BY TargetTypes DEF Quiet, TypeOK
<1>10. QED
  BY <1>1, <1>5, <1>7, <1>8, <1>9 DEF WritesCompleteStamp, copies

\* The stamp an install or update writes is complete, while no two runs work at once.
THEOREM LifecycleStampComplete == []RunsSerialized /\ Spec => StampIsComplete
<1>1. RunsSerialized /\ LifecycleInv /\ [Next]_vars => [\A r \in Runs : WritesCompleteStamp(r)]_vars
  <2> SUFFICES ASSUME RunsSerialized, LifecycleInv, Next, NEW r \in Runs
               PROVE  WritesCompleteStamp(r)
    OBVIOUS
  <2>1. Quiet /\ \A s \in Runs : Following(s)
    BY DEF LifecycleInv, Quiet
  <2>2. CASE WriteStamp(r)
    BY <2>1, <2>2, CompleteStamp
  <2>3. CASE WriteBadStamp(r)
    BY <2>3 DEF WriteBadStamp, BadStamp, NoStamp, WritesCompleteStamp
  <2>4. QED
    BY <2>1, <2>2, <2>3, StampStep DEF WritesCompleteStamp
<1>2. QED
  BY <1>1, LifecycleInvariant, PTL DEF StampIsComplete, Spec

\* No step takes a leftover back.
LEMMA LeftoversGrow == ASSUME TypeOK, [Next]_vars, leftovers' = 0 PROVE leftovers = 0
<1> USE DEF TypeOK, LockTypeOK
<1>1. CASE Next
  <2>1. CASE LockStays
    BY <2>1 DEF LockStays
  <2>2. CASE Tick
    BY <2>2 DEF Tick
  <2>3. ASSUME NEW r \in Runs, RunStep(r) PROVE leftovers = 0
    BY <2>3, LeftoversStay
  <2>4. QED
    BY <1>1, <2>1, <2>2, <2>3, LifecycleOnLock
<1>2. CASE UNCHANGED vars
  BY <1>2 DEF vars, lockVars
<1>3. QED
  BY <1>1, <1>2

\* When no run outlasts the age limit of the lock, that is so until one dies with the
\* lock or fails to remove it.
THEOREM LifecycleSafeUntilLeftover ==
  ShortInstalls /\ Spec => [](leftovers = 0 => LifecycleInv /\ UserTextKept)
<1> DEFINE Inv == leftovers = 0 => LifecycleInv
<1>1. TypeOK /\ SerializedUntilLeftover /\ SerializedUntilLeftover' /\ Inv /\ [Next]_vars => Inv'
  BY LifecycleInvStep, LeftoversGrow DEF SerializedUntilLeftover
<1>2. Init => Inv
  BY LifecycleInit
<1>3. Inv => (leftovers = 0 => LifecycleInv /\ UserTextKept)
  BY DEF LifecycleInv, TextsSafe, SafeAt, UserTextKept
<1> HIDE DEF Inv
<1>4. QED
  BY <1>1, <1>2, <1>3, LifecycleTypeCorrect, LifecycleSerialized, PTL DEF Spec
================================================================================
