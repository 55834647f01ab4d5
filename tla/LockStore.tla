------------------------------- MODULE LockStore -------------------------------
(***************************************************************************)
(* The directory lock of core/state/lock-store.ts, one filesystem call per *)
(* step.  A client is one call of acquireTinyYeahLock; its main thread     *)
(* acquires, works and releases, and its renewal timer runs beside it.     *)
(*                                                                         *)
(* Time is kept as ages: the code only ever compares Date.now() with a     *)
(* time it stored earlier, so the model stores how many ticks ago that     *)
(* was, and stops counting one tick past the largest limit compared with.  *)
(***************************************************************************)
EXTENDS Naturals

CONSTANTS
    Clients,          \* the calls of acquireTinyYeahLock, each with its own lockId
    NonBlocking,      \* the clients that pass nonBlocking: true
    Scoped,           \* the clients that come through withTinyYeahLock
    NoOwner,          \* owner.json is absent
    Torn,             \* owner.json is truncated: a writeFile is half done
    Stale,            \* TINY_YEAH_LOCK_STALE_MS in ticks
    Timeout,          \* TINY_YEAH_LOCK_TIMEOUT_MS in ticks
    MaxStall,         \* ticks that may pass inside one run of filesystem calls
    MaxCrashes,       \* how many clients may die
    ReaperLeft        \* whether a reaper directory may be left: by a client that dies
                      \* while it has it, or by an rm of it that fails

ASSUME LockAssumption ==
    /\ NonBlocking \subseteq Clients
    /\ Scoped \subseteq Clients
    /\ NoOwner \notin Clients /\ Torn \notin Clients /\ NoOwner # Torn
    /\ Stale \in Nat /\ Timeout \in Nat /\ MaxStall \in Nat /\ MaxCrashes \in Nat

VARIABLES
    pc,               \* where the main thread of each client is
    life,             \* where each thread is in withLifecycleLock
    stall,            \* ticks each thread has spent in its current run of calls
    waited,           \* age of startedAt, per client
    stampAge,         \* age of the renewedAt of the client's current owner record
    nextAge,          \* age of the renewedAt of the record a renewal is writing
    compromised,      \* the clients whose startRenewal has its sticky error
    result,           \* how the call ended
    hindered,         \* history: the clients that met an error removing their own lock
    dir, dirAge,      \* the lock directory ("absent" or "present"), age of its mtime
    owner, ownerAge,  \* the lockId in owner.json and the age of its renewedAt
    opened,           \* the renewals whose open file is the owner.json now on disk
    reaper, reaperAge,\* the same of the ".reaper" directory
    crashes           \* how many clients have died

fsVars == <<dir, dirAge, owner, ownerAge, opened>>
reaperVars == <<reaper, reaperAge>>
clientVars == <<waited, stampAge, nextAge, compromised, result, hindered, hindered>>
vars == <<pc, life, stall, clientVars, fsVars, reaperVars, crashes>>

LockDirThere == dir = "present"
ReaperThere == reaper = "present"

Main(p) == <<p, "main">>
Renew(p) == <<p, "renew">>
Threads == Clients \X {"main", "renew"}

MainPC == {"idle", "stamp", "mkdir", "write", "utimes", "cleanup", "reap",
           "acquired", "work", "confirm", "stop", "release", "ended", "crashed"}
\* the steps a thread takes while it has the reaper directory
SectionPC == {"check", "remove", "truncate", "fill", "touch",
              "leaveDone", "leaveFail", "leaveError"}
LifePC == {"out", "enter", "peek", "expire"} \cup SectionPC
Results == {"none", "ok", "compromised", "denied", "timeout", "error"}

\* The handle is with the caller: returned, and release() not called yet.
Handle(p) == pc[p] \in {"acquired", "work", "confirm"}

InSection(t) == life[t] \in SectionPC

\* Between two filesystem calls of one run, where a stalled process is exposed.
Busy(t) ==
    \/ life[t] \in {"peek", "expire"} \cup SectionPC
    \/ t[2] = "main" /\ pc[t[1]] \in {"mkdir", "write", "utimes", "cleanup"}

\* The client's owner record is still to be written or is the handle's.
Stamped(p) == pc[p] \in {"mkdir", "write", "utimes"} \/ Handle(p)

\* The caller has the handle and the record it last wrote has not expired.
HoldsLease(p) == Handle(p) /\ stampAge[p] <= Stale

Init ==
    /\ pc = [p \in Clients |-> "idle"]
    /\ life = [t \in Threads |-> "out"]
    /\ stall = [t \in Threads |-> 0]
    /\ waited = [p \in Clients |-> 0]
    /\ stampAge = [p \in Clients |-> 0]
    /\ nextAge = [p \in Clients |-> 0]
    /\ compromised = {}
    /\ result = [p \in Clients |-> "none"]
    /\ hindered = {}
    /\ dir = "absent" /\ dirAge = 0 /\ owner = NoOwner /\ ownerAge = 0
    /\ opened = {}
    /\ reaper = "absent" /\ reaperAge = 0
    /\ crashes = 0

--------------------------------------------------------------------------------
(* Small pieces shared by the actions.                                       *)

Go(p, to) == pc' = [pc EXCEPT ![p] = to]

End(p, r) == Go(p, "ended") /\ result' = [result EXCEPT ![p] = r]

\* A time the client never compares with again is set to 0.
Forget(age, p) == age' = [age EXCEPT ![p] = 0]

\* The thread moves on inside its run of calls; its stall count runs on.
Step(t, to) == life' = [life EXCEPT ![t] = to] /\ UNCHANGED stall

\* The thread starts or ends a run of calls.
Fresh(t, to) == life' = [life EXCEPT ![t] = to] /\ stall' = [stall EXCEPT ![t] = 0]

\* rm(lockDir, { recursive, force }): nothing happens if it is gone already
RemoveLockDir ==
    /\ dir' = "absent" /\ dirAge' = 0 /\ owner' = NoOwner /\ ownerAge' = 0
    /\ opened' = {}

\* the same rm rejecting: before it did anything, or after it unlinked owner.json
RemoveLockDirFails ==
    \/ UNCHANGED fsVars
    \/ /\ LockDirThere /\ owner # NoOwner
       /\ dirAge' = 0 /\ owner' = NoOwner /\ ownerAge' = 0 /\ opened' = {}
       /\ UNCHANGED dir

\* p, which is removing its own lock, has met an error: it may leave the lock behind
Hinder(p) == hindered' = hindered \cup {p}

\* mutant: the lockId is not compared
OwnerActiveAnybody(p) == LockDirThere /\ ownerAge <= Stale

\* assertOwnerActive: owner.json is there, parses, names p and has not expired.
OwnerActive(p) == LockDirThere /\ owner = p /\ ownerAge <= Stale

--------------------------------------------------------------------------------
(* acquireTinyYeahLock: the loop body up to the mkdir, then writeOwner.      *)

Call(p) ==
    /\ pc[p] = "idle"
    /\ Go(p, "stamp")
    /\ waited' = [waited EXCEPT ![p] = 0]
    /\ UNCHANGED <<life, stall, stampAge, nextAge, compromised, result, hindered,
                   fsVars, reaperVars, crashes>>

\* lockId and ownerFor(lockId, new Date(), staleMs): the time is taken before mkdir
Stamp(p) ==
    /\ pc[p] = "stamp"
    /\ Go(p, "mkdir")
    /\ stampAge' = [stampAge EXCEPT ![p] = 0]
    /\ Fresh(Main(p), "out")
    /\ UNCHANGED <<waited, nextAge, compromised, result, hindered, fsVars,
                   reaperVars, crashes>>

\* mutant: mkdir with recursive: true, which is content with a directory that is there
MakeLockDirRecursive(p) ==
    /\ pc[p] = "mkdir"
    /\ Go(p, "write")
    /\ dir' = "present" /\ dirAge' = IF LockDirThere THEN dirAge ELSE 0
    /\ Forget(waited, p)
    /\ UNCHANGED <<life, stall, stampAge, nextAge, compromised, result, hindered,
                   owner, ownerAge, opened, reaperVars, crashes>>

MakeLockDir(p) ==
    /\ pc[p] = "mkdir" /\ ~LockDirThere
    /\ Go(p, "write")
    /\ dir' = "present" /\ dirAge' = 0
    /\ Forget(waited, p)
    /\ UNCHANGED <<life, stall, stampAge, nextAge, compromised, result, hindered,
                   owner, ownerAge, opened, reaperVars, crashes>>

\* EEXIST: on to tryRemoveStaleLock
LockDirExists(p) ==
    /\ pc[p] = "mkdir" /\ LockDirThere
    /\ Go(p, "reap")
    /\ Fresh(Main(p), "enter")
    /\ Forget(stampAge, p)
    /\ UNCHANGED <<waited, nextAge, compromised, result, hindered, fsVars,
                   reaperVars, crashes>>

\* ensureLockRoot throws, or mkdir with something else than EEXIST
AcquireFails(p) ==
    /\ pc[p] \in {"idle", "mkdir"}
    /\ End(p, "error")
    /\ Forget(waited, p) /\ Forget(stampAge, p)
    /\ Fresh(Main(p), "out")
    /\ UNCHANGED <<nextAge, compromised, hindered, fsVars, reaperVars, crashes>>

\* writeFile(owner.json): creating the entry refreshes the directory's mtime,
\* overwriting one that somebody else put there does not.
WriteOwner(p) ==
    /\ pc[p] = "write" /\ LockDirThere
    /\ Go(p, "utimes")
    /\ owner' = p /\ ownerAge' = stampAge[p]
    /\ dirAge' = IF owner = NoOwner THEN 0 ELSE dirAge
    /\ UNCHANGED <<life, stall, clientVars, dir, opened, reaperVars, crashes>>

\* utimes(lockDir, renewedAt, renewedAt), then startRenewal and the handle
TouchLockDir(p) ==
    /\ pc[p] = "utimes" /\ LockDirThere
    /\ Go(p, "acquired")
    /\ dirAge' = stampAge[p]
    /\ Fresh(Main(p), "out")
    /\ UNCHANGED <<clientVars, dir, owner, ownerAge, opened, reaperVars, crashes>>

\* ENOENT because the directory is gone, or any other error of the two calls
WriteOwnerFails(p) ==
    /\ pc[p] \in {"write", "utimes"}
    /\ Go(p, "cleanup")
    /\ Forget(stampAge, p)
    /\ UNCHANGED <<life, stall, waited, nextAge, compromised, result, hindered,
                   fsVars, reaperVars, crashes>>

\* rm(lockDir) of the error path: whatever directory is there now, no reaper held
CleanUp(p) ==
    /\ pc[p] = "cleanup"
    /\ End(p, "error")
    /\ RemoveLockDir
    /\ Fresh(Main(p), "out")
    /\ UNCHANGED <<waited, stampAge, nextAge, compromised, hindered,
                   reaperVars, crashes>>

CleanUpFails(p) ==
    /\ pc[p] = "cleanup"
    /\ End(p, "error")
    /\ RemoveLockDirFails
    /\ Hinder(p)
    /\ Fresh(Main(p), "out")
    /\ UNCHANGED <<waited, stampAge, nextAge, compromised, reaperVars, crashes>>

--------------------------------------------------------------------------------
(* tryAcquireReaperLock, the same for every thread that wants the reaper.    *)

MakeReaper(t) ==
    /\ life[t] = "enter" /\ ~ReaperThere
    /\ Fresh(t, "check")
    /\ reaper' = "present" /\ reaperAge' = 0
    /\ UNCHANGED <<pc, clientVars, fsVars, crashes>>

ReaperExists(t) ==
    /\ life[t] = "enter" /\ ReaperThere
    /\ Fresh(t, "peek")
    /\ UNCHANGED <<pc, clientVars, fsVars, reaperVars, crashes>>

\* lstat says ENOENT: try the mkdir again
ReaperVanished(t) ==
    /\ life[t] = "peek" /\ ~ReaperThere
    /\ Fresh(t, "enter")
    /\ UNCHANGED <<pc, clientVars, fsVars, reaperVars, crashes>>

\* a live reaper; renewal and release (wait = true) sleep and ask again
ReaperBusyWait(t) ==
    /\ life[t] = "peek" /\ ReaperThere /\ reaperAge <= Stale
    /\ t[2] = "renew" \/ pc[t[1]] = "release"
    /\ Fresh(t, "enter")
    /\ UNCHANGED <<pc, clientVars, fsVars, reaperVars, crashes>>

\* mutant: >= instead of >
ReaperStaleEarly(t) ==
    /\ life[t] = "peek" /\ ReaperThere /\ reaperAge >= Stale
    /\ Step(t, "expire")
    /\ UNCHANGED <<pc, clientVars, fsVars, reaperVars, crashes>>

\* mutant: the comparison is the wrong way round
ReaperStaleSwapped(t) ==
    /\ life[t] = "peek" /\ ReaperThere /\ reaperAge <= Stale
    /\ Step(t, "expire")
    /\ UNCHANGED <<pc, clientVars, fsVars, reaperVars, crashes>>

ReaperStale(t) ==
    /\ life[t] = "peek" /\ ReaperThere /\ reaperAge > Stale
    /\ Step(t, "expire")
    /\ UNCHANGED <<pc, clientVars, fsVars, reaperVars, crashes>>

\* rm(reaperDir): whichever reaper directory is there now
ExpireReaper(t) ==
    /\ life[t] = "expire"
    /\ Fresh(t, "enter")
    /\ reaper' = "absent" /\ reaperAge' = 0
    /\ UNCHANGED <<pc, clientVars, fsVars, crashes>>

\* withLifecycleLock rejects: the renewal's catch keeps the error, the main thread's
\* call - acquireTinyYeahLock, or release() over whatever the work had come to - throws
Rejects(t) ==
    /\ Fresh(t, "out")
    /\ Forget(waited, t[1]) /\ Forget(nextAge, t[1])
    /\ \/ t[2] = "main" /\ End(t[1], "error") /\ UNCHANGED compromised
       \/ /\ t[2] = "renew" /\ compromised' = compromised \cup {t[1]}
          /\ UNCHANGED <<pc, result>>
    /\ UNCHANGED <<stampAge, fsVars, crashes>>

\* the mkdir, lstat or rm of tryAcquireReaperLock throws: a release never gets to the lock
ReaperErrs(t) ==
    /\ life[t] \in {"enter", "peek", "expire"}
    /\ Rejects(t)
    /\ IF t[2] = "main" /\ pc[t[1]] = "release" THEN Hinder(t[1]) ELSE UNCHANGED hindered
    /\ UNCHANGED reaperVars

\* mutant: no finally
RemoveReaperForgotten == UNCHANGED reaperVars

\* the finally of withLifecycleLock: rm(reaperDir), again whichever is there
RemoveReaper == reaper' = "absent" /\ reaperAge' = 0

\* that rm fails: the reaper directory stays, and the error replaces what the
\* operation returned or threw
LeaveFails(t) ==
    /\ ReaperLeft
    /\ life[t] \in {"leaveDone", "leaveFail", "leaveError"}
    /\ Rejects(t)
    /\ UNCHANGED <<hindered, reaperVars>>

\* the operation of the main thread has thrown; its finally has removed the reaper
OperationThrows(p) ==
    /\ life[Main(p)] = "leaveError"
    /\ Rejects(Main(p))
    /\ RemoveReaper
    /\ UNCHANGED hindered

--------------------------------------------------------------------------------
(* tryRemoveStaleLock (wait = false) and what the acquiring loop does next.  *)

ReapFindsNothing(p) ==
    /\ pc[p] = "reap" /\ life[Main(p)] = "check" /\ ~LockDirThere
    /\ Step(Main(p), "leaveDone")
    /\ UNCHANGED <<pc, clientVars, fsVars, reaperVars, crashes>>

ReapFindsFresh(p) ==
    /\ pc[p] = "reap" /\ life[Main(p)] = "check" /\ LockDirThere /\ dirAge <= Stale
    /\ Step(Main(p), "leaveFail")
    /\ UNCHANGED <<pc, clientVars, fsVars, reaperVars, crashes>>

ReapFindsStale(p) ==
    /\ pc[p] = "reap" /\ life[Main(p)] = "check" /\ LockDirThere /\ dirAge > Stale
    /\ Step(Main(p), "remove")
    /\ UNCHANGED <<pc, clientVars, fsVars, reaperVars, crashes>>

\* rm(lockDir), by the reaping or by the releasing client
RemoveLock(p) ==
    /\ life[Main(p)] = "remove"
    /\ Step(Main(p), "leaveDone")
    /\ RemoveLockDir
    /\ UNCHANGED <<pc, clientVars, reaperVars, crashes>>

\* the lstat throws (not ENOENT)
ReapErrs(p) ==
    /\ pc[p] = "reap" /\ life[Main(p)] = "check"
    /\ Step(Main(p), "leaveError")
    /\ UNCHANGED <<pc, clientVars, fsVars, reaperVars, crashes>>

RemoveLockFails(p) ==
    /\ life[Main(p)] = "remove"
    /\ Step(Main(p), "leaveError")
    /\ RemoveLockDirFails
    /\ IF pc[p] = "release" THEN Hinder(p) ELSE UNCHANGED hindered
    /\ UNCHANGED <<pc, waited, stampAge, nextAge, compromised, result,
                   reaperVars, crashes>>

\* true: `continue`, without looking at the timeout
ReapDone(p) ==
    /\ pc[p] = "reap" /\ life[Main(p)] = "leaveDone"
    /\ Go(p, "stamp")
    /\ Fresh(Main(p), "out")
    /\ RemoveReaper
    /\ UNCHANGED <<clientVars, fsVars, crashes>>

\* false: denied if nonBlocking, TinyYeahLockTimeoutError, or sleep(pollMs)
GiveUpOrPoll(p) ==
    \/ p \in NonBlocking /\ End(p, "denied") /\ Forget(waited, p)
    \/ p \notin NonBlocking /\ waited[p] > Timeout /\ End(p, "timeout") /\ Forget(waited, p)
    \/ p \notin NonBlocking /\ waited[p] <= Timeout /\ Go(p, "stamp")
       /\ UNCHANGED <<waited, result>>

ReapFailed(p) ==
    /\ pc[p] = "reap" /\ life[Main(p)] = "leaveFail"
    /\ GiveUpOrPoll(p)
    /\ Fresh(Main(p), "out")
    /\ RemoveReaper
    /\ UNCHANGED <<stampAge, nextAge, compromised, hindered, fsVars, crashes>>

\* a live reaper, and tryRemoveStaleLock does not wait for it
ReaperBusyNoWait(p) ==
    /\ pc[p] = "reap" /\ life[Main(p)] = "peek" /\ ReaperThere /\ reaperAge <= Stale
    /\ GiveUpOrPoll(p)
    /\ Fresh(Main(p), "out")
    /\ UNCHANGED <<stampAge, nextAge, compromised, hindered, fsVars,
                   reaperVars, crashes>>

--------------------------------------------------------------------------------
(* Using the handle: withTinyYeahLock, or acquire - work - release alone.    *)

\* lock.assertActive(): reads owner.json without the reaper
StillActive(p) == p \notin compromised /\ OwnerActive(p)

\* the first assertActive of withTinyYeahLock; other callers go straight to work
BeginWork(p) ==
    /\ pc[p] = "acquired"
    /\ p \in Scoped => StillActive(p)
    /\ Go(p, "work")
    /\ UNCHANGED <<life, stall, clientVars, fsVars, reaperVars, crashes>>

EndWork(p) ==
    /\ pc[p] = "work"
    /\ IF p \in Scoped
       THEN Go(p, "confirm") /\ UNCHANGED result
       ELSE Go(p, "stop") /\ result' = [result EXCEPT ![p] = "ok"]
    /\ UNCHANGED <<life, stall, waited, stampAge, nextAge, compromised, hindered,
                   fsVars, reaperVars, crashes>>

\* the second assertActive
Confirm(p) ==
    /\ pc[p] = "confirm" /\ StillActive(p)
    /\ Go(p, "stop")
    /\ result' = [result EXCEPT ![p] = "ok"]
    /\ UNCHANGED <<life, stall, waited, stampAge, nextAge, compromised, hindered,
                   fsVars, reaperVars, crashes>>

\* either assertActive throws TinyYeahLockCompromisedError: the renewal failed, the
\* owner changed, the lease expired, or owner.json could not be read
ReportCompromised(p) ==
    /\ p \in Scoped /\ pc[p] \in {"acquired", "confirm"}
    /\ Go(p, "stop")
    /\ result' = [result EXCEPT ![p] = "compromised"]
    /\ UNCHANGED <<life, stall, waited, stampAge, nextAge, compromised, hindered,
                   fsVars, reaperVars, crashes>>

\* mutant: stop() does not wait for the renewal in flight
StopRenewalAtOnce(p) ==
    /\ pc[p] = "stop"
    /\ Go(p, "release")
    /\ Fresh(Main(p), "enter")
    /\ Forget(stampAge, p)
    /\ UNCHANGED <<waited, nextAge, compromised, result, hindered, fsVars,
                   reaperVars, crashes>>

\* release(): renewal.stop() clears the timer and awaits a renewal in flight
StopRenewal(p) ==
    /\ pc[p] = "stop" /\ life[Renew(p)] = "out"
    /\ Go(p, "release")
    /\ Fresh(Main(p), "enter")
    /\ Forget(stampAge, p)
    /\ UNCHANGED <<waited, nextAge, compromised, result, hindered, fsVars,
                   reaperVars, crashes>>

\* mutant: release() does not verify the owner
ReleaseUnverified(p) ==
    /\ pc[p] = "release" /\ life[Main(p)] = "check" /\ LockDirThere
    /\ Step(Main(p), "remove")
    /\ UNCHANGED <<pc, clientVars, fsVars, reaperVars, crashes>>

\* releaseLock: verifyOwner looks at the lockId only, not at the lease
ReleaseOwned(p) ==
    /\ pc[p] = "release" /\ life[Main(p)] = "check" /\ LockDirThere /\ owner = p
    /\ Step(Main(p), "remove")
    /\ UNCHANGED <<pc, clientVars, fsVars, reaperVars, crashes>>

ReleaseNotOwned(p) ==
    /\ pc[p] = "release" /\ life[Main(p)] = "check" /\ ~(LockDirThere /\ owner = p)
    /\ Step(Main(p), "leaveFail")
    /\ UNCHANGED <<pc, clientVars, fsVars, reaperVars, crashes>>

\* any error of reading owner.json is swallowed, and the lock stays
ReleaseUnread(p) ==
    /\ pc[p] = "release" /\ life[Main(p)] = "check"
    /\ Step(Main(p), "leaveFail")
    /\ Hinder(p)
    /\ UNCHANGED <<pc, waited, stampAge, nextAge, compromised, result, fsVars,
                   reaperVars, crashes>>

Released(p) ==
    /\ pc[p] = "release" /\ life[Main(p)] \in {"leaveDone", "leaveFail"}
    /\ Go(p, "ended")
    /\ Fresh(Main(p), "out")
    /\ RemoveReaper
    /\ UNCHANGED <<clientVars, fsVars, crashes>>

--------------------------------------------------------------------------------
(* The renewal timer of startRenewal and renewLock.                          *)

\* the interval fires: nothing if a renewal is in flight or one has failed
TimerFires(p) ==
    /\ Handle(p)
    /\ life[Renew(p)] = "out" /\ p \notin compromised
    /\ Fresh(Renew(p), "enter")
    /\ UNCHANGED <<pc, clientVars, fsVars, reaperVars, crashes>>

\* assertOwnerActive, then renewOwner takes the time
RenewVerified(p) ==
    /\ life[Renew(p)] = "check" /\ OwnerActive(p)
    /\ Step(Renew(p), "truncate")
    /\ nextAge' = [nextAge EXCEPT ![p] = 0]
    /\ UNCHANGED <<pc, waited, stampAge, compromised, result, hindered, fsVars,
                   reaperVars, crashes>>

\* the owner changed, the lease expired, or owner.json could not be read
RenewRefused(p) ==
    /\ life[Renew(p)] = "check"
    /\ Step(Renew(p), "leaveFail")
    /\ UNCHANGED <<pc, clientVars, fsVars, reaperVars, crashes>>

\* writeFile opens owner.json with O_CREAT|O_TRUNC ...
RenewTruncate(p) ==
    /\ life[Renew(p)] = "truncate" /\ LockDirThere
    /\ Step(Renew(p), "fill")
    /\ owner' = Torn /\ ownerAge' = 0
    /\ dirAge' = IF owner = NoOwner THEN 0 ELSE dirAge
    /\ opened' = opened \cup {p}
    /\ UNCHANGED <<pc, clientVars, dir, reaperVars, crashes>>

\* ... and then writes it, if only into a file that was unlinked meanwhile
RenewFill(p) ==
    /\ life[Renew(p)] = "fill"
    /\ Step(Renew(p), "touch")
    /\ IF p \in opened
       THEN owner' = p /\ ownerAge' = nextAge[p]
       ELSE UNCHANGED <<owner, ownerAge>>
    /\ opened' = opened \ {p}
    /\ UNCHANGED <<pc, clientVars, dir, dirAge, reaperVars, crashes>>

RenewTouch(p) ==
    /\ life[Renew(p)] = "touch" /\ LockDirThere
    /\ Step(Renew(p), "leaveDone")
    /\ dirAge' = nextAge[p]
    /\ UNCHANGED <<pc, clientVars, dir, owner, ownerAge, opened, reaperVars, crashes>>

\* ENOENT, or any other error of writeOwner
RenewWriteFails(p) ==
    /\ life[Renew(p)] \in {"truncate", "fill", "touch"}
    /\ Step(Renew(p), "leaveFail")
    /\ opened' = opened \ {p}
    /\ Forget(nextAge, p)
    /\ UNCHANGED <<pc, waited, stampAge, compromised, result, hindered,
                   dir, dirAge, owner, ownerAge, reaperVars, crashes>>

\* the renewed record becomes the handle's
Renewed(p) ==
    /\ life[Renew(p)] = "leaveDone"
    /\ Fresh(Renew(p), "out")
    /\ stampAge' = [stampAge EXCEPT ![p] = nextAge[p]]
    /\ Forget(nextAge, p)
    /\ RemoveReaper
    /\ UNCHANGED <<pc, waited, compromised, result, hindered, fsVars, crashes>>

RenewalFailed(p) ==
    /\ life[Renew(p)] = "leaveFail"
    /\ Fresh(Renew(p), "out")
    /\ compromised' = compromised \cup {p}
    /\ RemoveReaper
    /\ UNCHANGED <<pc, waited, stampAge, nextAge, result, hindered, fsVars, crashes>>

--------------------------------------------------------------------------------
(* The environment: time and crashes.                                        *)

Older(a) == IF a > Stale THEN a ELSE a + 1

\* Time passes; a run of filesystem calls lasts at most MaxStall ticks.
Tick ==
    /\ \A t \in Threads : Busy(t) => stall[t] < MaxStall
    /\ stall' = [t \in Threads |-> IF Busy(t) THEN stall[t] + 1 ELSE stall[t]]
    /\ waited' = [p \in Clients |->
                    IF pc[p] \in {"stamp", "mkdir", "reap"} /\ waited[p] <= Timeout
                    THEN waited[p] + 1 ELSE waited[p]]
    /\ stampAge' = [p \in Clients |->
                      IF Stamped(p) THEN Older(stampAge[p]) ELSE stampAge[p]]
    /\ nextAge' = [p \in Clients |->
                     IF life[Renew(p)] \in {"truncate", "fill", "touch", "leaveDone"}
                     THEN Older(nextAge[p]) ELSE nextAge[p]]
    /\ dirAge' = IF LockDirThere THEN Older(dirAge) ELSE dirAge
    /\ ownerAge' = IF LockDirThere THEN Older(ownerAge) ELSE ownerAge
    /\ reaperAge' = IF ReaperThere THEN Older(reaperAge) ELSE reaperAge
    /\ UNCHANGED <<pc, life, compromised, result, hindered, dir, owner, opened,
                   reaper, crashes>>

\* The process of client p dies; what it wrote stays on disk.
Crash(p) ==
    /\ crashes < MaxCrashes
    /\ pc[p] \notin {"idle", "ended", "crashed"}
    /\ ReaperLeft \/ ~(InSection(Main(p)) \/ InSection(Renew(p)))
    /\ crashes' = crashes + 1
    /\ Go(p, "crashed")
    /\ life' = [life EXCEPT ![Main(p)] = "out", ![Renew(p)] = "out"]
    /\ stall' = [stall EXCEPT ![Main(p)] = 0, ![Renew(p)] = 0]
    /\ opened' = opened \ {p}
    /\ Forget(waited, p) /\ Forget(stampAge, p) /\ Forget(nextAge, p)
    /\ UNCHANGED <<compromised, result, hindered, dir, dirAge, owner, ownerAge,
                   reaperVars>>

--------------------------------------------------------------------------------

Acquire(p) ==
    \/ Call(p) \/ Stamp(p) \/ MakeLockDir(p) \/ LockDirExists(p)
    \/ WriteOwner(p) \/ TouchLockDir(p) \/ WriteOwnerFails(p) \/ CleanUp(p)

Reap(p) ==
    \/ ReapFindsNothing(p) \/ ReapFindsFresh(p) \/ ReapFindsStale(p) \/ RemoveLock(p)
    \/ ReapDone(p) \/ ReapFailed(p) \/ ReaperBusyNoWait(p) \/ OperationThrows(p)

Lifecycle(t) ==
    \/ MakeReaper(t) \/ ReaperExists(t) \/ ReaperVanished(t)
    \/ ReaperBusyWait(t) \/ ReaperStale(t) \/ ExpireReaper(t)

Use(p) ==
    \/ BeginWork(p) \/ EndWork(p) \/ Confirm(p) \/ ReportCompromised(p)
    \/ StopRenewal(p) \/ ReleaseOwned(p) \/ ReleaseNotOwned(p) \/ Released(p)

Renewal(p) ==
    \/ TimerFires(p) \/ RenewVerified(p) \/ RenewRefused(p)
    \/ RenewTruncate(p) \/ RenewFill(p) \/ RenewTouch(p) \/ RenewWriteFails(p)
    \/ Renewed(p) \/ RenewalFailed(p)

\* errors of the file system that may come at a call and that nothing waits for
FileErrors(p) ==
    \/ AcquireFails(p) \/ CleanUpFails(p)
    \/ ReapErrs(p) \/ RemoveLockFails(p) \/ ReleaseUnread(p)

ReaperErrors(t) == ReaperErrs(t) \/ LeaveFails(t)

Next ==
    \/ \E p \in Clients :
          Acquire(p) \/ Reap(p) \/ Use(p) \/ Renewal(p) \/ FileErrors(p) \/ Crash(p)
    \/ \E t \in Threads : Lifecycle(t) \/ ReaperErrors(t)
    \/ Tick

Spec == Init /\ [][Next]_vars

--------------------------------------------------------------------------------
(* Properties.                                                               *)

TypeOK ==
    /\ pc \in [Clients -> MainPC]
    /\ life \in [Threads -> LifePC]
    /\ stall \in [Threads -> Nat]
    /\ waited \in [Clients -> Nat]
    /\ stampAge \in [Clients -> Nat] /\ nextAge \in [Clients -> Nat]
    /\ compromised \subseteq Clients
    /\ result \in [Clients -> Results]
    /\ hindered \subseteq Clients
    /\ dir \in {"absent", "present"} /\ dirAge \in Nat
    /\ owner \in Clients \cup {NoOwner, Torn} /\ ownerAge \in Nat
    /\ opened \subseteq Clients
    /\ reaper \in {"absent", "present"} /\ reaperAge \in Nat
    /\ crashes \in Nat

\* Two callers never both have a handle whose own record says the lease still
\* runs (acquireTinyYeahLock, renewLock against tryRemoveStaleLock): what the
\* lock is for.
LeaseExclusion ==
    \A p, q \in Clients : HoldsLease(p) /\ HoldsLease(q) => p = q

\* The reaper directory serialises reaping, renewal and release: no two threads
\* are ever inside withLifecycleLock's operation together.
ReaperExclusion ==
    \A t, u \in Threads : InSection(t) /\ InSection(u) => t = u

\* A call that is over is named by owner.json only if an error stopped it from removing
\* its own lock: an rm of the directory that failed, or a release that could not get
\* the reaper or read owner.json (releaseLock swallows the latter and says nothing).
\* Nothing else leaves it: a failed acquisition, a work that throws, a compromised
\* lease, or a late write of the renewal, which release awaits before it removes.
NothingLeftBehind ==
    \A p \in Clients : pc[p] = "ended" /\ owner = p => p \in hindered

\* While a caller's lease runs, the lock directory is there and its owner.json is
\* the caller's (or being rewritten): nobody reaped it (tryRemoveStaleLock), removed
\* it in an error path or overwrote its owner (writeOwner of a late acquirer).
LeaseBacked ==
    \A p \in Clients : HoldsLease(p) => LockDirThere /\ owner \in {p, Torn}

\* the one client with a running lease, the abstract lock's holder
Holder ==
    IF \E p \in Clients : HoldsLease(p)
    THEN CHOOSE p \in Clients : HoldsLease(p) ELSE NoOwner

Lease == INSTANCE LeaseLock WITH holder <- Holder

\* The files and steps of lock-store.ts implement the abstract lease: it is granted
\* only when nobody has one, and never handed over directly.
ImplementsLease == Lease!LeaseSpec

--------------------------------------------------------------------------------
(* Why they hold: the inductive invariants.                                  *)

\* which program point goes with which point of withLifecycleLock
ThreadsAligned ==
    \A p \in Clients :
       /\ life[Main(p)] # "out" => pc[p] \in {"reap", "release"}
       /\ life[Main(p)] \notin {"truncate", "fill", "touch"}
       /\ life[Renew(p)] # "out" => Handle(p) \/ pc[p] = "stop"
       /\ life[Renew(p)] # "remove"

\* Why NothingLeftBehind holds: p's name is on disk only between its WriteOwner and
\* the verdict of its releaseLock, unless its removal failed.
OwnerNamed ==
    /\ ~LockDirThere => owner = NoOwner /\ opened = {}
    /\ \A p \in Clients : owner = p =>
          \/ pc[p] \in {"utimes", "cleanup", "stop", "crashed"}
          \/ Handle(p)
          \/ pc[p] = "release" /\ life[Main(p)] \notin {"leaveDone", "leaveFail", "leaveError"}
          \/ p \in hindered

OwnerInv == TypeOK /\ ThreadsAligned /\ OwnerNamed

\* A stalled run of calls is shorter than the lease, no client dies while it has the
\* reaper, and its rm of the reaper succeeds: the conditions the lock needs from its
\* environment.
CalmEnvironment == MaxStall <= Stale /\ ~ReaperLeft

Acquiring(p) == pc[p] \in {"write", "utimes", "cleanup"}
Rewriting(p) == life[Renew(p)] \in {"truncate", "fill", "touch", "leaveDone"}
Releasing(p) == pc[p] = "release" /\ life[Main(p)] = "remove"

\* p may rely on the lock directory being its own
Claim(p) == Acquiring(p) \/ HoldsLease(p) \/ Rewriting(p) \/ Releasing(p)

StallBounded == \A t \in Threads : Busy(t) => stall[t] <= MaxStall

\* the reaper directory is there exactly while its one user is, and is young
ReaperGuards ==
    /\ ReaperThere => \E t \in Threads : InSection(t)
    /\ \A t \in Threads : InSection(t) => ReaperThere /\ reaperAge <= stall[t]
    /\ \A t \in Threads : life[t] # "expire"
    /\ ReaperExclusion

\* at most one client has a claim, and the directory and its owner bear it out
ClaimsBacked ==
    /\ \A p, q \in Clients : Claim(p) /\ Claim(q) => p = q
    /\ \A p \in Clients : Claim(p) => LockDirThere
    /\ \A p \in Clients :
       /\ pc[p] = "write" => owner = NoOwner
       /\ pc[p] = "utimes" => owner = p
       /\ pc[p] = "cleanup" => owner \in {NoOwner, p}
       /\ HoldsLease(p) => owner \in {p, Torn}
       /\ life[Renew(p)] \in {"truncate", "touch", "leaveDone"} => owner = p
       /\ life[Renew(p)] = "fill" => owner = Torn /\ p \in opened
       /\ Releasing(p) => owner = p

\* the directory of a claim is too young to be reaped; one being reaped is not
AgesAgree ==
    \A p \in Clients :
       /\ Acquiring(p) => dirAge <= stall[Main(p)]
       /\ pc[p] \in {"mkdir", "write", "utimes"} => stampAge[p] <= stall[Main(p)]
       /\ HoldsLease(p) => dirAge <= stampAge[p]
       /\ Handle(p) /\ Rewriting(p) => nextAge[p] <= stampAge[p]
       /\ life[Renew(p)] = "leaveDone" => dirAge <= nextAge[p]
       /\ pc[p] = "reap" /\ life[Main(p)] = "remove" => LockDirThere /\ dirAge > Stale

IInv == OwnerInv /\ StallBounded /\ ReaperGuards /\ ClaimsBacked /\ AgesAgree

--------------------------------------------------------------------------------

\* A thread that is scheduled goes on: the event loop keeps running, the timers
\* of sleep(pollMs) fire and time passes.  Nobody has to start a call or a renewal, and
\* no filesystem call has to fail.
Fairness ==
    /\ WF_vars(Tick)
    /\ \A p \in Clients :
         /\ WF_vars(Acquire(p) /\ pc[p] # "idle")
         /\ WF_vars(Reap(p))
         /\ WF_vars(Use(p))
         /\ WF_vars(Renewal(p) /\ life[Renew(p)] # "out")
    /\ \A t \in Threads : WF_vars(Lifecycle(t))

FairSpec == Spec /\ Fairness

\* Every call comes to an end - with the lock used and released, denied, timed out
\* or failed - even when other clients die holding the lock or the reaper.
EveryCallEnds ==
    \A p \in Clients : pc[p] = "stamp" ~> pc[p] \in {"ended", "crashed"}
================================================================================
