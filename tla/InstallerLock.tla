----------------------------- MODULE InstallerLock -----------------------------
(***************************************************************************)
(* The advisory lock of head/installer/lock.ts: a directory made with      *)
(* mkdir, whose mtime alone says how old the lock is.  Unlike the lock of  *)
(* lock-store.ts it has no reaper directory, no renewal and no owner       *)
(* check: owner.json is written and never read, and whoever reaps or       *)
(* releases removes the directory that is there.                           *)
(*                                                                         *)
(* A run is one call of install, update or uninstall.  What it does with   *)
(* the lock is in InstallLifecycle; here it just works for a while.        *)
(***************************************************************************)
EXTENDS Naturals

CONSTANTS
    Runs,             \* the calls of acquireInstallerLock
    Stale,            \* INSTALLER_LOCK_STALE_MS in ticks
    MaxHold,          \* ticks that may pass from a run's mkdir to its release
    MaxLeftovers,     \* how many runs may die, or fail to remove their directory
    MaxFailures       \* how many filesystem calls may fail for no modelled reason

ASSUME InstallerLockAssumption ==
    /\ Stale \in Nat /\ MaxHold \in Nat /\ MaxLeftovers \in Nat /\ MaxFailures \in Nat

VARIABLES
    pc,               \* where each run is with the lock
    attempts,         \* how many tryAcquireOrClassify rounds it has used up
    age,              \* ticks since the time it writes into the lock
    result,           \* how the run ended
    dir, dirAge,      \* the lock directory ("absent" or "present"), age of its mtime
    ownerFile,        \* whether owner.json is in it
    leftovers, failures \* spent of the two budgets

dirVars == <<dir, dirAge, ownerFile>>
runVars == <<pc, attempts, age, result>>
lockVars == <<runVars, dirVars, leftovers, failures>>

There == dir = "present"

LockPC == {"idle", "mkdir", "classify", "reap", "owner", "utimes", "cleanup",
           "held", "release", "ended", "crashed"}

\* INSTALL_LOCKED is acquireInstallerLock's, RELEASE_FAILED any error of removing one's
\* own lock, in release or after a failed acquisition; the others are outcomes of
\* install, update and uninstall ("ok" for all of them in LockSpec).
Outcomes ==
    {"none", "ok", "error", "INSTALL_LOCKED", "RELEASE_FAILED",
     "installed", "updated", "uninstalled", "noop", "dry-run",
     "INSTALL_STAMP_SCHEMA_MISMATCH", "INSTALL_STAMP_MISSING", "DOWNGRADE_REJECTED",
     "EXISTING_DEP_CONFLICT", "CREATE_ONLY_TARGET_EXISTS", "WRITE_FAILED"}

\* Between the mkdir that made it the holder and the rm that ends that.
Owns(r) == pc[r] \in {"owner", "utimes", "cleanup", "held", "release"}

\* The run has its handle and has not begun to release it.
Holding(r) == pc[r] = "held"

LockInit ==
    /\ pc = [r \in Runs |-> "idle"]
    /\ attempts = [r \in Runs |-> 0]
    /\ age = [r \in Runs |-> 0]
    /\ result = [r \in Runs |-> "none"]
    /\ dir = "absent" /\ dirAge = 0 /\ ownerFile = "absent"
    /\ leftovers = 0 /\ failures = 0

--------------------------------------------------------------------------------
(* Small pieces shared by the actions.                                       *)

Go(r, to) == pc' = [pc EXCEPT ![r] = to]

End(r, code) == Go(r, "ended") /\ result' = [result EXCEPT ![r] = code]

\* rm(lockDir, { recursive, force })
RemoveDir == dir' = "absent" /\ dirAge' = 0 /\ ownerFile' = "absent"

\* that rm fails: before it did anything, or after it unlinked owner.json
RemoveDirFails ==
    \/ UNCHANGED dirVars
    \/ /\ There /\ ownerFile = "present"
       /\ ownerFile' = "absent" /\ dirAge' = 0 /\ UNCHANGED dir

\* a call that fails for a reason of its own
Failure == failures < MaxFailures /\ failures' = failures + 1

\* "stale-reaped": the loop goes round once more, and then gives up
Retry(r) ==
    /\ attempts' = [attempts EXCEPT ![r] = attempts[r] + 1]
    /\ IF attempts[r] = 0
       THEN Go(r, "mkdir") /\ UNCHANGED result
       ELSE End(r, "INSTALL_LOCKED")

--------------------------------------------------------------------------------
(* acquireInstallerLock and tryAcquireOrClassify.                            *)

\* resolveLockDir and the mkdir of its parent
Call(r) ==
    /\ pc[r] = "idle"
    /\ Go(r, "mkdir")
    /\ UNCHANGED <<attempts, age, result, dirVars, leftovers, failures>>

\* mkdir(lockDir) succeeds, and ownerFor takes the time
MakeDir(r) ==
    /\ pc[r] = "mkdir" /\ ~There
    /\ Go(r, "owner")
    /\ age' = [age EXCEPT ![r] = 0]
    /\ dir' = "present" /\ dirAge' = 0
    /\ UNCHANGED <<attempts, result, ownerFile, leftovers, failures>>

DirExists(r) ==
    /\ pc[r] = "mkdir" /\ There
    /\ Go(r, "classify")
    /\ UNCHANGED <<attempts, age, result, dirVars, leftovers, failures>>

\* lstat says ENOENT
DirVanished(r) ==
    /\ pc[r] = "classify" /\ ~There
    /\ Retry(r)
    /\ UNCHANGED <<age, dirVars, leftovers, failures>>

DirLive(r) ==
    /\ pc[r] = "classify" /\ There /\ dirAge <= Stale
    /\ End(r, "INSTALL_LOCKED")
    /\ UNCHANGED <<attempts, age, dirVars, leftovers, failures>>

\* mutant: >= instead of >
DirStaleEarly(r) ==
    /\ pc[r] = "classify" /\ There /\ dirAge >= Stale
    /\ Go(r, "reap")
    /\ UNCHANGED <<attempts, age, result, dirVars, leftovers, failures>>

DirStale(r) ==
    /\ pc[r] = "classify" /\ There /\ dirAge > Stale
    /\ Go(r, "reap")
    /\ UNCHANGED <<attempts, age, result, dirVars, leftovers, failures>>

\* rm of the stale directory: whichever is there by now
ReapDir(r) ==
    /\ pc[r] = "reap"
    /\ RemoveDir
    /\ Retry(r)
    /\ UNCHANGED <<age, leftovers, failures>>

\* any other error of mkdir, lstat or rm, or something there that is no directory
AcquireFails(r) ==
    /\ pc[r] \in {"mkdir", "classify", "reap"}
    /\ Failure
    /\ IF pc[r] = "reap" THEN RemoveDirFails ELSE UNCHANGED dirVars
    /\ End(r, "error")
    /\ UNCHANGED <<attempts, age, leftovers>>

\* writeFile(owner.json), into whoever's directory it is; a new entry is a new mtime
WriteOwner(r) ==
    /\ pc[r] = "owner" /\ There
    /\ Go(r, "utimes")
    /\ ownerFile' = "present"
    /\ dirAge' = IF ownerFile = "absent" THEN 0 ELSE dirAge
    /\ UNCHANGED <<attempts, age, result, dir, leftovers, failures>>

\* utimes(lockDir, createdAt, createdAt), and the handle
TouchDir(r) ==
    /\ pc[r] = "utimes" /\ There
    /\ Go(r, "held")
    /\ dirAge' = age[r]
    /\ UNCHANGED <<attempts, age, result, dir, ownerFile, leftovers, failures>>

\* mutant: the error leaves without the rm of the directory
OwnerFailsNoCleanUp(r) ==
    /\ pc[r] \in {"owner", "utimes"}
    /\ IF There THEN Failure ELSE UNCHANGED failures
    /\ End(r, "error")
    /\ UNCHANGED <<attempts, age, dirVars, leftovers>>

\* either of them throws: ENOENT if the directory is gone
OwnerFails(r) ==
    /\ pc[r] \in {"owner", "utimes"}
    /\ IF There THEN Failure ELSE UNCHANGED failures
    /\ Go(r, "cleanup")
    /\ UNCHANGED <<attempts, age, result, dirVars, leftovers>>

CleanUp(r) ==
    /\ pc[r] = "cleanup"
    /\ RemoveDir
    /\ End(r, "error")
    /\ UNCHANGED <<attempts, age, leftovers, failures>>

--------------------------------------------------------------------------------
(* The handle.                                                               *)

\* the try block returns or throws: on to the finally
Finish(r, code) ==
    /\ pc[r] = "held"
    /\ Go(r, "release")
    /\ result' = [result EXCEPT ![r] = code]
    /\ UNCHANGED <<attempts, age, dirVars, leftovers>>

\* release(): rm of the directory that is there, whoever made it
Release(r) ==
    /\ pc[r] = "release"
    /\ RemoveDir
    /\ Go(r, "ended")
    /\ UNCHANGED <<attempts, age, result, leftovers, failures>>

\* that rm, or the one after a failed acquisition, fails: its error replaces the outcome,
\* and the directory stays
RemoveFails(r) ==
    /\ pc[r] \in {"cleanup", "release"} /\ leftovers < MaxLeftovers
    /\ leftovers' = leftovers + 1
    /\ RemoveDirFails
    /\ End(r, "RELEASE_FAILED")
    /\ UNCHANGED <<attempts, age, failures>>

--------------------------------------------------------------------------------
(* The environment.                                                          *)

Older(a) == IF a > Stale THEN a ELSE a + 1

\* Time passes; a run that owns the lock keeps it for at most MaxHold ticks.
Tick ==
    /\ \A r \in Runs : Owns(r) => age[r] < MaxHold
    /\ age' = [r \in Runs |-> IF Owns(r) THEN age[r] + 1 ELSE age[r]]
    /\ dirAge' = IF There THEN Older(dirAge) ELSE dirAge
    /\ UNCHANGED <<pc, attempts, result, dir, ownerFile, leftovers, failures>>

\* The process of a run dies; the directory stays.
Crash(r) ==
    /\ leftovers < MaxLeftovers /\ pc[r] \notin {"idle", "ended", "crashed"}
    /\ leftovers' = leftovers + 1
    /\ Go(r, "crashed")
    /\ UNCHANGED <<attempts, age, result, dirVars, failures>>

--------------------------------------------------------------------------------

AcquireLock(r) ==
    \/ Call(r) \/ MakeDir(r) \/ DirExists(r) \/ DirVanished(r) \/ DirLive(r)
    \/ DirStale(r) \/ ReapDir(r) \/ AcquireFails(r)
    \/ WriteOwner(r) \/ TouchDir(r) \/ OwnerFails(r) \/ CleanUp(r)

LeaveLock(r) == Release(r) \/ RemoveFails(r)

Work(r) == Finish(r, "ok") /\ UNCHANGED failures

LockNext ==
    \/ \E r \in Runs : AcquireLock(r) \/ Work(r) \/ LeaveLock(r) \/ Crash(r)
    \/ Tick

LockSpec == LockInit /\ [][LockNext]_lockVars

--------------------------------------------------------------------------------
(* Properties.                                                               *)

LockTypeOK ==
    /\ pc \in [Runs -> LockPC]
    /\ attempts \in [Runs -> Nat]
    /\ age \in [Runs -> Nat]
    /\ result \in [Runs -> Outcomes]
    /\ dir \in {"absent", "present"} /\ dirAge \in Nat
    /\ ownerFile \in {"absent", "present"}
    /\ leftovers \in Nat /\ failures \in Nat

\* One install, update or uninstall works on a project at a time
\* (acquireInstallerLock: "serializing concurrent install/update runs").
RunsSerialized == \A r, s \in Runs : Holding(r) /\ Holding(s) => r = s

\* It is so until a run dies with the lock or fails to remove it: nobody reaps the
\* directory of a run that is still working (tryAcquireOrClassify), nobody's error
\* path or release removes another's.
SerializedUntilLeftover == leftovers = 0 => RunsSerialized

\* The lock directory is there only while a run owns it, or after one has died with
\* it or could not remove it: every return and throw goes through the finally.
LockReleased ==
    There => \E r \in Runs : Owns(r) \/ pc[r] = "crashed" \/ result[r] = "RELEASE_FAILED"

--------------------------------------------------------------------------------
(* Why they hold: the inductive invariant of an environment in which installs *)
(* are short.                                                                *)

ShortInstalls == MaxHold <= Stale

\* the one run that owns the lock made the directory that is there, not long ago
OwnerBacked ==
    /\ \A r, s \in Runs : Owns(r) /\ Owns(s) => r = s
    /\ \A r \in Runs : Owns(r) => There /\ dirAge <= age[r] /\ age[r] <= MaxHold
    /\ There => \E r \in Runs : Owns(r)
    /\ \A r \in Runs : pc[r] \notin {"reap", "crashed"}

BackedUntilLeftover == leftovers = 0 => OwnerBacked

\* The inductive invariant of the lock: until the first leftover the directory that
\* is there has one owner, who made it and is still in time.
LockInv == LockTypeOK /\ BackedUntilLeftover
================================================================================
