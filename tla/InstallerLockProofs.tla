-------------------------- MODULE InstallerLockProofs --------------------------
(***************************************************************************)
(* Proofs about InstallerLock for every set of runs, age limit and budget: *)
(* the types; that a directory without an owner is left only by a dead run *)
(* or a failed release; and, for short installs, that runs are serialized  *)
(* until then.  A lemma per step is stated so that InstallLifecycle, which *)
(* takes these steps between its own, can use it.                          *)
(***************************************************************************)
EXTENDS InstallerLock, TLAPS

\* What the try block of install, update or uninstall does to the lock: the return or
\* throw.  The outcome and the failure it may spend are InstallLifecycle's.
Finishes(r) == \E code \in Outcomes \ {"RELEASE_FAILED"} : Finish(r, code) /\ failures' \in Nat

\* A step of one run.
RunStep(r) == AcquireLock(r) \/ Finishes(r) \/ LeaveLock(r) \/ Crash(r)

LEMMA WorkFinishes == ASSUME NEW r \in Runs, LockTypeOK, Work(r) PROVE Finishes(r)
  BY DEF Work, Finishes, Outcomes, LockTypeOK

LEMMA LockStepIsRunStep ==
  ASSUME LockTypeOK, LockNext PROVE Tick \/ \E r \in Runs : RunStep(r)
  BY WorkFinishes DEF LockNext, RunStep

--------------------------------------------------------------------------------

\* Every variable keeps its type, whatever one run does.
LEMMA LockTypeRun == ASSUME LockTypeOK, NEW r \in Runs, RunStep(r) PROVE LockTypeOK'
<1> USE InstallerLockAssumption DEF LockTypeOK, LockPC, Outcomes, Go, End, dirVars, RemoveDir, RemoveDirFails, Failure
<1>1. CASE Call(r)
  BY <1>1 DEF Call
<1>2. CASE MakeDir(r)
  BY <1>2 DEF MakeDir
<1>3. CASE DirExists(r)
  BY <1>3 DEF DirExists
<1>4. CASE DirVanished(r)
  BY <1>4 DEF Retry, DirVanished
<1>5. CASE DirLive(r)
  BY <1>5 DEF DirLive
<1>6. CASE DirStale(r)
  BY <1>6 DEF DirStale
<1>7. CASE ReapDir(r)
  BY <1>7 DEF Retry, ReapDir
<1>8. CASE AcquireFails(r)
  BY <1>8 DEF AcquireFails
<1>9. CASE WriteOwner(r)
  BY <1>9 DEF WriteOwner
<1>10. CASE TouchDir(r)
  BY <1>10 DEF TouchDir
<1>11. CASE OwnerFails(r)
  BY <1>11 DEF OwnerFails
<1>12. CASE CleanUp(r)
  BY <1>12 DEF CleanUp
<1>13. CASE Finishes(r)
  BY <1>13 DEF Finishes, Finish
<1>14. CASE LeaveLock(r)
  BY <1>14 DEF LeaveLock, Release, RemoveFails
<1>15. CASE Crash(r)
  BY <1>15 DEF Crash
<1>16. QED
  BY <1>1, <1>2, <1>3, <1>4, <1>5, <1>6, <1>7, <1>8, <1>9, <1>10, <1>11, <1>12,
     <1>13, <1>14, <1>15 DEF RunStep, AcquireLock

LEMMA LockTypeTick == ASSUME LockTypeOK, Tick PROVE LockTypeOK'
  BY InstallerLockAssumption DEF LockTypeOK, Tick, Older

LEMMA LockTypeInit == LockInit => LockTypeOK
  BY DEF LockInit, LockTypeOK, LockPC, Outcomes

\* The variables of InstallerLock keep their types in every behaviour.
THEOREM InstallerLockTypeCorrect == LockSpec => []LockTypeOK
<1>1. LockTypeOK /\ [LockNext]_lockVars => LockTypeOK'
  <2> SUFFICES ASSUME LockTypeOK, [LockNext]_lockVars PROVE LockTypeOK'
    OBVIOUS
  <2>1. CASE LockNext
    BY <2>1, LockStepIsRunStep, LockTypeRun, LockTypeTick
  <2>2. CASE UNCHANGED lockVars
    BY <2>2 DEF LockTypeOK, lockVars, runVars, dirVars
  <2>3. QED
    BY <2>1, <2>2
<1>2. QED
  BY <1>1, LockTypeInit, PTL DEF LockSpec

--------------------------------------------------------------------------------
(* The directory is there only while somebody answers for it.                *)

\* a run whose release failed has ended
FailedReleaseEnded == \A r \in Runs : result[r] = "RELEASE_FAILED" => pc[r] = "ended"

LEMMA FailedReleaseRun ==
  ASSUME LockTypeOK, FailedReleaseEnded, NEW r \in Runs, RunStep(r) PROVE FailedReleaseEnded'
  BY DEF LockTypeOK, FailedReleaseEnded, Go, End, Retry, RunStep, AcquireLock, LeaveLock,
         Call, MakeDir, DirExists, DirVanished, DirLive, DirStale, ReapDir, AcquireFails,
         WriteOwner, TouchDir, OwnerFails, CleanUp, Finishes, Finish, Release, RemoveFails, Crash

LEMMA ReleasedRun ==
  ASSUME LockTypeOK, LockReleased, FailedReleaseEnded, NEW r \in Runs, RunStep(r) PROVE LockReleased'
<1> USE DEF LockTypeOK, LockReleased, FailedReleaseEnded, There, Owns, Go, End, dirVars, RemoveDir, RemoveDirFails, Failure
<1>1. CASE Call(r)
  BY <1>1 DEF Call
<1>2. CASE MakeDir(r)
  BY <1>2 DEF MakeDir
<1>3. CASE DirExists(r)
  BY <1>3 DEF DirExists
<1>4. CASE DirVanished(r)
  BY <1>4 DEF Retry, DirVanished
<1>5. CASE DirLive(r)
  BY <1>5 DEF DirLive
<1>6. CASE DirStale(r)
  BY <1>6 DEF DirStale
<1>7. CASE ReapDir(r)
  BY <1>7 DEF Retry, ReapDir
<1>8. CASE AcquireFails(r)
  BY <1>8 DEF AcquireFails
<1>9. CASE WriteOwner(r)
  BY <1>9 DEF WriteOwner
<1>10. CASE TouchDir(r)
  BY <1>10 DEF TouchDir
<1>11. CASE OwnerFails(r)
  BY <1>11 DEF OwnerFails
<1>12. CASE CleanUp(r)
  BY <1>12 DEF CleanUp
<1>13. CASE Finishes(r)
  BY <1>13 DEF Finishes, Finish
<1>14. CASE LeaveLock(r)
  BY <1>14 DEF LeaveLock, Release, RemoveFails
<1>15. CASE Crash(r)
  BY <1>15 DEF Crash
<1>16. QED
  BY <1>1, <1>2, <1>3, <1>4, <1>5, <1>6, <1>7, <1>8, <1>9, <1>10, <1>11, <1>12,
     <1>13, <1>14, <1>15 DEF RunStep, AcquireLock

LEMMA ReleasedFrame ==
  ASSUME LockReleased, FailedReleaseEnded, UNCHANGED <<pc, result, dir>>
  PROVE  LockReleased' /\ FailedReleaseEnded'
  BY DEF LockReleased, FailedReleaseEnded, There, Owns

LEMMA ReleasedInit == LockInit => LockReleased /\ FailedReleaseEnded
  BY DEF LockInit, LockReleased, FailedReleaseEnded, There

\* No return and no throw of a run leaves the lock directory behind: if it is there, a
\* run owns it, or has died with it, or its rm failed.
THEOREM InstallerLockReleased == LockSpec => []LockReleased
<1>1. LockTypeOK /\ LockReleased /\ FailedReleaseEnded /\ [LockNext]_lockVars
      => LockReleased' /\ FailedReleaseEnded'
  <2> SUFFICES ASSUME LockTypeOK, LockReleased, FailedReleaseEnded, [LockNext]_lockVars
               PROVE  LockReleased' /\ FailedReleaseEnded'
    OBVIOUS
  <2>1. CASE LockNext
    BY <2>1, LockStepIsRunStep, ReleasedRun, FailedReleaseRun, ReleasedFrame DEF Tick
  <2>2. CASE UNCHANGED lockVars
    BY <2>2, ReleasedFrame DEF lockVars, runVars, dirVars
  <2>3. QED
    BY <2>1, <2>2
<1>2. QED
  BY <1>1, ReleasedInit, InstallerLockTypeCorrect, PTL DEF LockSpec

--------------------------------------------------------------------------------
(* Serialization, when installs are short and none dies.                     *)

\* A leftover stays one.
LEMMA LeftoversStay ==
  ASSUME LockTypeOK, NEW r \in Runs, RunStep(r), leftovers' = 0 PROVE leftovers = 0
<1> USE DEF LockTypeOK, dirVars, End
<1>1. CASE AcquireLock(r)
  BY <1>1
  DEF AcquireLock, Call, MakeDir, DirExists, DirVanished, DirLive, DirStale, ReapDir,
      AcquireFails, WriteOwner, TouchDir, OwnerFails, CleanUp
<1>2. CASE Finishes(r)
  BY <1>2 DEF Finishes, Finish
<1>3. CASE LeaveLock(r) \/ Crash(r)
  BY <1>3 DEF LeaveLock, Release, RemoveFails, Crash
<1>4. QED
  BY <1>1, <1>2, <1>3 DEF RunStep

\* A run's step that leaves nothing behind keeps the directory with its one owner.
LEMMA BackedRun ==
  ASSUME ShortInstalls, LockTypeOK, OwnerBacked, NEW r \in Runs, RunStep(r), leftovers' = 0
  PROVE  OwnerBacked'
<1> USE InstallerLockAssumption
    DEF LockTypeOK, OwnerBacked, ShortInstalls, There, Owns, Go, End, dirVars, RemoveDir, RemoveDirFails, Failure
<1>1. CASE Call(r)
  BY <1>1 DEF Call
<1>2. CASE MakeDir(r)
  BY <1>2 DEF MakeDir
<1>3. CASE DirExists(r)
  BY <1>3 DEF DirExists
<1>4. CASE DirVanished(r)
  BY <1>4 DEF Retry, DirVanished
<1>5. CASE DirLive(r)
  BY <1>5 DEF DirLive
<1>6. CASE DirStale(r)
  BY <1>6 DEF DirStale
<1>7. CASE ReapDir(r)
  BY <1>7 DEF Retry, ReapDir
<1>8. CASE AcquireFails(r)
  BY <1>8 DEF AcquireFails
<1>9. CASE WriteOwner(r)
  BY <1>9 DEF WriteOwner
<1>10. CASE TouchDir(r)
  BY <1>10 DEF TouchDir
<1>11. CASE OwnerFails(r)
  BY <1>11 DEF OwnerFails
<1>12. CASE CleanUp(r)
  BY <1>12 DEF CleanUp
<1>13. CASE Finishes(r)
  BY <1>13 DEF Finishes, Finish
<1>14. CASE LeaveLock(r)
  BY <1>14 DEF LeaveLock, Release, RemoveFails
<1>15. CASE Crash(r)
  BY <1>15 DEF Crash
<1>16. QED
  BY <1>1, <1>2, <1>3, <1>4, <1>5, <1>6, <1>7, <1>8, <1>9, <1>10, <1>11, <1>12,
     <1>13, <1>14, <1>15 DEF RunStep, AcquireLock

LEMMA BackedTick ==
  ASSUME ShortInstalls, LockTypeOK, OwnerBacked, Tick PROVE OwnerBacked'
  BY InstallerLockAssumption
  DEF LockTypeOK, OwnerBacked, ShortInstalls, There, Owns, Tick, Older

LEMMA BackedFrame ==
  ASSUME OwnerBacked, UNCHANGED <<pc, age, dir, dirAge>> PROVE OwnerBacked'
  BY DEF OwnerBacked, There, Owns

LEMMA BackedInit == LockInit => BackedUntilLeftover
  BY DEF LockInit, BackedUntilLeftover, OwnerBacked, There, Owns

\* A step of a run or of the clock keeps the directory with its one owner until the
\* first leftover.
LEMMA BackedStep ==
  ASSUME ShortInstalls, LockTypeOK, BackedUntilLeftover,
         Tick \/ \E r \in Runs : RunStep(r)
  PROVE  BackedUntilLeftover'
<1>1. CASE Tick
  BY <1>1, BackedTick DEF BackedUntilLeftover, Tick
<1>2. ASSUME NEW r \in Runs, RunStep(r) PROVE BackedUntilLeftover'
  BY <1>2, LeftoversStay, BackedRun DEF BackedUntilLeftover
<1>3. QED
  BY <1>1, <1>2

LEMMA BackedSerialized == BackedUntilLeftover => SerializedUntilLeftover
  BY DEF BackedUntilLeftover, SerializedUntilLeftover, OwnerBacked, RunsSerialized, Holding, Owns

\* LockInv is an invariant when no install outlasts the age limit of the lock.
THEOREM InstallerLockInvariant == ShortInstalls /\ LockSpec => []LockInv
<1>1. LockInv /\ ShortInstalls /\ [LockNext]_lockVars => LockInv'
  <2> SUFFICES ASSUME LockInv, ShortInstalls, [LockNext]_lockVars PROVE LockInv'
    OBVIOUS
  <2>1. LockTypeOK /\ BackedUntilLeftover
    BY DEF LockInv
  <2>2. CASE LockNext
    BY <2>1, <2>2, LockStepIsRunStep, LockTypeRun, LockTypeTick, BackedStep DEF LockInv
  <2>3. CASE UNCHANGED lockVars
    <3>1. LockTypeOK'
      BY <2>1, <2>3 DEF LockTypeOK, lockVars, runVars, dirVars
    <3>2. BackedUntilLeftover'
      BY <2>1, <2>3, BackedFrame DEF BackedUntilLeftover, lockVars, runVars, dirVars
    <3>3. QED
      BY <3>1, <3>2 DEF LockInv
  <2>4. QED
    BY <2>2, <2>3
<1>2. LockInit => LockInv
  BY LockTypeInit, BackedInit DEF LockInv
<1>3. ShortInstalls => ShortInstalls'
  BY DEF ShortInstalls
<1>4. QED
  BY <1>1, <1>2, <1>3, PTL DEF LockSpec

\* One install, update or uninstall works on a project at a time until a run dies with
\* the lock or fails to remove it.
THEOREM InstallerRunsSerialized == ShortInstalls /\ LockSpec => []SerializedUntilLeftover
<1>1. LockInv => SerializedUntilLeftover
  BY BackedSerialized DEF LockInv
<1>2. QED
  BY <1>1, InstallerLockInvariant, PTL
================================================================================
