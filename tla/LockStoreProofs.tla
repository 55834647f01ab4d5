---------------------------- MODULE LockStoreProofs ----------------------------
(***************************************************************************)
(* Proofs about LockStore for every set of clients and every timing        *)
(* constant: type correctness, NothingLeftBehind whatever fails or dies,   *)
(* and LeaseExclusion, ReaperExclusion, LeaseBacked and the refinement of  *)
(* LeaseLock under CalmEnvironment.                                        *)
(***************************************************************************)
EXTENDS LockStore, TLAPS

\* The two threads of a client, and that threads of different clients differ.
LEMMA ThreadNames ==
    /\ \A p \in Clients : Main(p) \in Threads /\ Renew(p) \in Threads
    /\ \A p, q \in Clients : Main(p) # Renew(q)
    /\ \A p, q \in Clients : Main(p) = Main(q) => p = q
    /\ \A p, q \in Clients : Renew(p) = Renew(q) => p = q
    /\ \A p \in Clients : /\ Main(p)[1] = p /\ Main(p)[2] = "main"
                          /\ Renew(p)[1] = p /\ Renew(p)[2] = "renew"
    /\ \A t \in Threads : /\ t[1] \in Clients
                          /\ \/ t = Main(t[1]) /\ t[2] = "main"
                             \/ t = Renew(t[1]) /\ t[2] = "renew"
  BY DEF Threads, Main, Renew

\* What the loop of acquireTinyYeahLock does after a failed reap is well typed.
LEMMA GiveUpTypes ==
    ASSUME TypeOK, NEW p \in Clients, GiveUpOrPoll(p)
    PROVE  /\ pc' \in [Clients -> MainPC] /\ result' \in [Clients -> Results]
           /\ waited' \in [Clients -> Nat]
<1> USE DEF TypeOK, MainPC, Results, Go, End, Forget
<1>1. CASE End(p, "denied") /\ Forget(waited, p)
  BY <1>1
<1>2. CASE End(p, "timeout") /\ Forget(waited, p)
  BY <1>2
<1>3. CASE Go(p, "stamp") /\ UNCHANGED <<waited, result>>
  BY <1>3
<1>4. QED
  BY <1>1, <1>2, <1>3 DEF GiveUpOrPoll

\* What an operation under the reaper that rejects leaves behind is well typed.
RejectedTypes ==
    /\ pc' \in [Clients -> MainPC] /\ result' \in [Clients -> Results]
    /\ life' \in [Threads -> LifePC] /\ stall' \in [Threads -> Nat]
    /\ waited' \in [Clients -> Nat] /\ nextAge' \in [Clients -> Nat]
    /\ compromised' \subseteq Clients

LEMMA RejectTypes == ASSUME TypeOK, NEW t \in Threads, Rejects(t) PROVE RejectedTypes
<1> USE ThreadNames DEF TypeOK, MainPC, LifePC, Results, Rejects, Go, End, Fresh, Forget
<1>1. /\ life' \in [Threads -> LifePC] /\ stall' \in [Threads -> Nat]
      /\ waited' \in [Clients -> Nat] /\ nextAge' \in [Clients -> Nat]
  OBVIOUS
<1>2. compromised' \subseteq Clients
  OBVIOUS
<1>3. pc' \in [Clients -> MainPC] /\ result' \in [Clients -> Results]
  <2>1. CASE End(t[1], "error")
    BY <2>1
  <2>2. CASE UNCHANGED <<pc, result>>
    BY <2>2
  <2>3. QED
    BY <2>1, <2>2
<1>4. QED
  BY <1>1, <1>2, <1>3 DEF RejectedTypes

\* No step of a thread, of the clock or of a crash takes a variable out of its type.
LEMMA TypeStep == TypeOK /\ [Next]_vars => TypeOK'
<1> SUFFICES ASSUME TypeOK, [Next]_vars PROVE TypeOK'
  OBVIOUS
<1> USE LockAssumption, ThreadNames
    DEF TypeOK, MainPC, LifePC, SectionPC, Results, Go, End, Step, Fresh, Forget,
        RemoveLockDir, RemoveReaper, clientVars, fsVars, reaperVars
<1>1. ASSUME NEW p \in Clients, Acquire(p) PROVE TypeOK'
  <2>1. CASE Call(p)
    BY <2>1 DEF Call
  <2>2. CASE Stamp(p)
    BY <2>2 DEF Stamp
  <2>3. CASE MakeLockDir(p)
    BY <2>3 DEF MakeLockDir
  <2>4. CASE LockDirExists(p)
    BY <2>4 DEF LockDirExists
  <2>5. CASE WriteOwner(p)
    BY <2>5 DEF WriteOwner
  <2>6. CASE TouchLockDir(p)
    BY <2>6 DEF TouchLockDir
  <2>7. CASE WriteOwnerFails(p)
    BY <2>7 DEF WriteOwnerFails
  <2>8. CASE CleanUp(p)
    BY <2>8 DEF CleanUp
  <2>9. QED
    BY <1>1, <2>1, <2>2, <2>3, <2>4, <2>5, <2>6, <2>7, <2>8 DEF Acquire
<1>2. ASSUME NEW p \in Clients, Reap(p) PROVE TypeOK'
  <2>1. CASE ReapFindsNothing(p)
    BY <2>1 DEF ReapFindsNothing
  <2>2. CASE ReapFindsFresh(p)
    BY <2>2 DEF ReapFindsFresh
  <2>3. CASE ReapFindsStale(p)
    BY <2>3 DEF ReapFindsStale
  <2>4. CASE RemoveLock(p)
    BY <2>4 DEF RemoveLock
  <2>5. CASE ReapDone(p)
    BY <2>5 DEF ReapDone
  <2>6. CASE ReapFailed(p)
    <3>1. /\ pc' \in [Clients -> MainPC] /\ result' \in [Clients -> Results]
          /\ waited' \in [Clients -> Nat]
      BY <2>6, GiveUpTypes DEF ReapFailed
    <3>2. QED
      BY <2>6, <3>1 DEF ReapFailed
  <2>7. CASE ReaperBusyNoWait(p)
    <3>1. /\ pc' \in [Clients -> MainPC] /\ result' \in [Clients -> Results]
          /\ waited' \in [Clients -> Nat]
      BY <2>7, GiveUpTypes DEF ReaperBusyNoWait
    <3>2. QED
      BY <2>7, <3>1 DEF ReaperBusyNoWait
  <2>8. CASE OperationThrows(p)
    <3>1. RejectedTypes
      BY <2>8, RejectTypes DEF OperationThrows
    <3>2. QED
      BY <2>8, <3>1 DEF OperationThrows, Rejects, RejectedTypes
  <2>9. QED
    BY <1>2, <2>1, <2>2, <2>3, <2>4, <2>5, <2>6, <2>7, <2>8 DEF Reap
<1>3. ASSUME NEW p \in Clients, Use(p) PROVE TypeOK'
  <2>1. CASE BeginWork(p)
    BY <2>1 DEF BeginWork
  <2>2. CASE EndWork(p)
    <3>1. CASE p \in Scoped
      BY <2>2, <3>1 DEF EndWork
    <3>2. CASE p \notin Scoped
      <4>1. pc' = [pc EXCEPT ![p] = "stop"] /\ result' = [result EXCEPT ![p] = "ok"]
        BY <2>2, <3>2 DEF EndWork
      <4>2. pc' \in [Clients -> MainPC] /\ result' \in [Clients -> Results]
        BY ONLY <4>1, TypeOK DEF TypeOK, MainPC, Results
      <4>3. QED
        BY <2>2, <4>2 DEF EndWork
    <3>3. QED
      BY <3>1, <3>2
  <2>3. CASE Confirm(p)
    BY <2>3 DEF Confirm
  <2>4. CASE ReportCompromised(p)
    BY <2>4 DEF ReportCompromised
  <2>5. CASE StopRenewal(p)
    BY <2>5 DEF StopRenewal
  <2>6. CASE ReleaseOwned(p)
    BY <2>6 DEF ReleaseOwned
  <2>7. CASE ReleaseNotOwned(p)
    BY <2>7 DEF ReleaseNotOwned
  <2>8. CASE Released(p)
    BY <2>8 DEF Released
  <2>9. QED
    BY <1>3, <2>1, <2>2, <2>3, <2>4, <2>5, <2>6, <2>7, <2>8 DEF Use
<1>4. ASSUME NEW p \in Clients, Renewal(p) PROVE TypeOK'
  <2>1. CASE TimerFires(p)
    BY <2>1 DEF TimerFires
  <2>2. CASE RenewVerified(p)
    BY <2>2 DEF RenewVerified
  <2>3. CASE RenewRefused(p)
    BY <2>3 DEF RenewRefused
  <2>4. CASE RenewTruncate(p)
    BY <2>4 DEF RenewTruncate
  <2>5. CASE RenewFill(p)
    BY <2>5 DEF RenewFill
  <2>6. CASE RenewTouch(p)
    BY <2>6 DEF RenewTouch
  <2>7. CASE RenewWriteFails(p)
    BY <2>7 DEF RenewWriteFails
  <2>8. CASE Renewed(p)
    BY <2>8 DEF Renewed
  <2>9. CASE RenewalFailed(p)
    BY <2>9 DEF RenewalFailed
  <2>10. QED
    BY <1>4, <2>1, <2>2, <2>3, <2>4, <2>5, <2>6, <2>7, <2>8, <2>9 DEF Renewal
<1>5. ASSUME NEW t \in Threads, Lifecycle(t) PROVE TypeOK'
  <2>1. CASE MakeReaper(t)
    BY <2>1 DEF MakeReaper
  <2>2. CASE ReaperExists(t)
    BY <2>2 DEF ReaperExists
  <2>3. CASE ReaperVanished(t)
    BY <2>3 DEF ReaperVanished
  <2>4. CASE ReaperBusyWait(t)
    BY <2>4 DEF ReaperBusyWait
  <2>5. CASE ReaperStale(t)
    BY <2>5 DEF ReaperStale
  <2>6. CASE ExpireReaper(t)
    BY <2>6 DEF ExpireReaper
  <2>7. QED
    BY <1>5, <2>1, <2>2, <2>3, <2>4, <2>5, <2>6 DEF Lifecycle
<1>6. ASSUME NEW p \in Clients, Crash(p) PROVE TypeOK'
  <2>1. /\ crashes' = crashes + 1
        /\ pc' = [pc EXCEPT ![p] = "crashed"]
        /\ life' = [life EXCEPT ![Main(p)] = "out", ![Renew(p)] = "out"]
        /\ stall' = [stall EXCEPT ![Main(p)] = 0, ![Renew(p)] = 0]
        /\ opened' = opened \ {p}
        /\ waited' = [waited EXCEPT ![p] = 0]
        /\ stampAge' = [stampAge EXCEPT ![p] = 0]
        /\ nextAge' = [nextAge EXCEPT ![p] = 0]
        /\ UNCHANGED <<compromised, result, hindered, dir, dirAge, owner, ownerAge, reaperVars>>
    BY <1>6 DEF Crash
  <2>2. /\ pc' \in [Clients -> MainPC]
        /\ waited' \in [Clients -> Nat] /\ stampAge' \in [Clients -> Nat]
        /\ nextAge' \in [Clients -> Nat] /\ crashes' \in Nat
    BY <2>1
  <2>3. life' \in [Threads -> LifePC] /\ stall' \in [Threads -> Nat]
    BY <2>1
  <2>4. QED
    BY <2>1, <2>2, <2>3
<1>7. CASE Tick
  BY <1>7 DEF Tick, Older
<1>8. CASE UNCHANGED vars
  BY <1>8 DEF vars
<1>9. ASSUME NEW p \in Clients, FileErrors(p) PROVE TypeOK'
  <2>1. CASE AcquireFails(p)
    BY <2>1 DEF AcquireFails
  <2>2. CASE CleanUpFails(p)
    BY <2>2 DEF CleanUpFails, RemoveLockDirFails, Hinder
  <2>3. CASE ReapErrs(p)
    BY <2>3 DEF ReapErrs
  <2>4. CASE RemoveLockFails(p)
    BY <2>4 DEF RemoveLockFails, RemoveLockDirFails, Hinder
  <2>5. CASE ReleaseUnread(p)
    BY <2>5 DEF ReleaseUnread, Hinder
  <2>6. QED
    BY <1>9, <2>1, <2>2, <2>3, <2>4, <2>5 DEF FileErrors
<1>10. ASSUME NEW t \in Threads, ReaperErrors(t) PROVE TypeOK'
  <2>1. CASE ReaperErrs(t)
    <3>1. RejectedTypes
      BY <2>1, RejectTypes DEF ReaperErrs
    <3>2. QED
      BY <2>1, <3>1 DEF ReaperErrs, Rejects, RejectedTypes, Hinder
  <2>2. CASE LeaveFails(t)
    <3>1. RejectedTypes
      BY <2>2, RejectTypes DEF LeaveFails
    <3>2. QED
      BY <2>2, <3>1 DEF LeaveFails, Rejects, RejectedTypes
  <2>3. QED
    BY <1>10, <2>1, <2>2 DEF ReaperErrors
<1>11. QED
  BY <1>1, <1>2, <1>3, <1>4, <1>5, <1>6, <1>7, <1>8, <1>9, <1>10 DEF Next

\* Every variable keeps its type: the ages stay numbers, the program points of the
\* two threads stay those of lock-store.ts.
THEOREM LockTypeCorrect == Spec => []TypeOK
<1>1. Init => TypeOK
  BY LockAssumption DEF Init, TypeOK, MainPC, LifePC, Results
<1>2. QED
  BY <1>1, TypeStep, PTL DEF Spec

\* A thread inside withLifecycleLock is at the call that went there.
LEMMA AlignedStep == TypeOK /\ ThreadsAligned /\ [Next]_vars => ThreadsAligned'
<1> SUFFICES ASSUME TypeOK, ThreadsAligned, [Next]_vars PROVE ThreadsAligned'
  OBVIOUS
<1> USE ThreadNames
    DEF TypeOK, ThreadsAligned, Handle, Go, End, Step, Fresh, Forget, Rejects,
        RemoveLockDirFails, Hinder,
        clientVars, fsVars, reaperVars
<1>1. ASSUME NEW p \in Clients, Acquire(p) PROVE ThreadsAligned'
  <2>1. CASE Call(p)
    BY <2>1 DEF Call
  <2>2. CASE Stamp(p)
    BY <2>2 DEF Stamp
  <2>3. CASE MakeLockDir(p)
    BY <2>3 DEF MakeLockDir
  <2>4. CASE LockDirExists(p)
    BY <2>4 DEF LockDirExists
  <2>5. CASE WriteOwner(p)
    BY <2>5 DEF WriteOwner
  <2>6. CASE TouchLockDir(p)
    BY <2>6 DEF TouchLockDir
  <2>7. CASE WriteOwnerFails(p)
    BY <2>7 DEF WriteOwnerFails
  <2>8. CASE CleanUp(p)
    BY <2>8 DEF CleanUp
  <2>9. QED
    BY <1>1, <2>1, <2>2, <2>3, <2>4, <2>5, <2>6, <2>7, <2>8 DEF Acquire
<1>2. ASSUME NEW p \in Clients, Reap(p) PROVE ThreadsAligned'
  <2>1. CASE ReapFindsNothing(p)
    BY <2>1 DEF ReapFindsNothing
  <2>2. CASE ReapFindsFresh(p)
    BY <2>2 DEF ReapFindsFresh
  <2>3. CASE ReapFindsStale(p)
    BY <2>3 DEF ReapFindsStale
  <2>4. CASE RemoveLock(p)
    BY <2>4 DEF RemoveLock
  <2>5. CASE ReapDone(p)
    BY <2>5 DEF ReapDone
  <2>6. CASE ReapFailed(p)
    BY <2>6 DEF ReapFailed, GiveUpOrPoll
  <2>7. CASE ReaperBusyNoWait(p)
    BY <2>7 DEF ReaperBusyNoWait, GiveUpOrPoll
  <2>8. CASE OperationThrows(p)
    BY <2>8 DEF OperationThrows
  <2>9. QED
    BY <1>2, <2>1, <2>2, <2>3, <2>4, <2>5, <2>6, <2>7, <2>8 DEF Reap
<1>3. ASSUME NEW p \in Clients, Use(p) PROVE ThreadsAligned'
  <2>1. CASE BeginWork(p)
    BY <2>1 DEF BeginWork
  <2>2. CASE EndWork(p)
    BY <2>2 DEF EndWork
  <2>3. CASE Confirm(p)
    BY <2>3 DEF Confirm
  <2>4. CASE ReportCompromised(p)
    BY <2>4 DEF ReportCompromised
  <2>5. CASE StopRenewal(p)
    BY <2>5 DEF StopRenewal
  <2>6. CASE ReleaseOwned(p)
    BY <2>6 DEF ReleaseOwned
  <2>7. CASE ReleaseNotOwned(p)
    BY <2>7 DEF ReleaseNotOwned
  <2>8. CASE Released(p)
    BY <2>8 DEF Released
  <2>9. QED
    BY <1>3, <2>1, <2>2, <2>3, <2>4, <2>5, <2>6, <2>7, <2>8 DEF Use
<1>4. ASSUME NEW p \in Clients, Renewal(p) PROVE ThreadsAligned'
  <2>1. CASE TimerFires(p)
    BY <2>1 DEF TimerFires
  <2>2. CASE RenewVerified(p)
    BY <2>2 DEF RenewVerified
  <2>3. CASE RenewRefused(p)
    BY <2>3 DEF RenewRefused
  <2>4. CASE RenewTruncate(p)
    BY <2>4 DEF RenewTruncate
  <2>5. CASE RenewFill(p)
    BY <2>5 DEF RenewFill
  <2>6. CASE RenewTouch(p)
    BY <2>6 DEF RenewTouch
  <2>7. CASE RenewWriteFails(p)
    BY <2>7 DEF RenewWriteFails
  <2>8. CASE Renewed(p)
    BY <2>8 DEF Renewed
  <2>9. CASE RenewalFailed(p)
    BY <2>9 DEF RenewalFailed
  <2>10. QED
    BY <1>4, <2>1, <2>2, <2>3, <2>4, <2>5, <2>6, <2>7, <2>8, <2>9 DEF Renewal
<1>5. ASSUME NEW t \in Threads, Lifecycle(t) PROVE ThreadsAligned'
  <2>1. CASE MakeReaper(t)
    BY <2>1 DEF MakeReaper
  <2>2. CASE ReaperExists(t)
    BY <2>2 DEF ReaperExists
  <2>3. CASE ReaperVanished(t)
    BY <2>3 DEF ReaperVanished
  <2>4. CASE ReaperBusyWait(t)
    BY <2>4 DEF ReaperBusyWait
  <2>5. CASE ReaperStale(t)
    BY <2>5 DEF ReaperStale
  <2>6. CASE ExpireReaper(t)
    BY <2>6 DEF ExpireReaper
  <2>7. QED
    BY <1>5, <2>1, <2>2, <2>3, <2>4, <2>5, <2>6 DEF Lifecycle
<1>6. ASSUME NEW p \in Clients, Crash(p) PROVE ThreadsAligned'
  BY <1>6 DEF Crash
<1>7. CASE Tick
  BY <1>7 DEF Tick, Older, Stamped
<1>8. CASE UNCHANGED vars
  BY <1>8 DEF vars
<1>9. ASSUME NEW p \in Clients, FileErrors(p) PROVE ThreadsAligned'
  <2>1. CASE AcquireFails(p)
    BY <2>1 DEF AcquireFails
  <2>2. CASE CleanUpFails(p)
    BY <2>2 DEF CleanUpFails
  <2>3. CASE ReapErrs(p)
    BY <2>3 DEF ReapErrs
  <2>4. CASE RemoveLockFails(p)
    BY <2>4 DEF RemoveLockFails
  <2>5. CASE ReleaseUnread(p)
    BY <2>5 DEF ReleaseUnread
  <2>6. QED
    BY <1>9, <2>1, <2>2, <2>3, <2>4, <2>5 DEF FileErrors
<1>10. ASSUME NEW t \in Threads, ReaperErrors(t) PROVE ThreadsAligned'
  <2>1. CASE ReaperErrs(t)
    BY <2>1 DEF ReaperErrs
  <2>2. CASE LeaveFails(t)
    BY <2>2 DEF LeaveFails
  <2>3. QED
    BY <1>10, <2>1, <2>2 DEF ReaperErrors
<1>11. QED
  BY <1>1, <1>2, <1>3, <1>4, <1>5, <1>6, <1>7, <1>8, <1>9, <1>10 DEF Next

\* Only WriteOwner and RenewFill write a name, and both end before the release.
LEMMA OwnerStep == TypeOK /\ ThreadsAligned /\ OwnerNamed /\ [Next]_vars => OwnerNamed'
<1> SUFFICES ASSUME TypeOK, ThreadsAligned, OwnerNamed, [Next]_vars PROVE OwnerNamed'
  OBVIOUS
<1> USE LockAssumption, ThreadNames
    DEF TypeOK, ThreadsAligned, OwnerNamed, Handle, Go, End, Step, Fresh, Forget, Rejects,
        RemoveLockDirFails, Hinder,
        RemoveLockDir, LockDirThere, clientVars, fsVars, reaperVars
<1>1. ASSUME NEW p \in Clients, Acquire(p) PROVE OwnerNamed'
  <2>1. CASE Call(p)
    BY <2>1 DEF Call
  <2>2. CASE Stamp(p)
    BY <2>2 DEF Stamp
  <2>3. CASE MakeLockDir(p)
    BY <2>3 DEF MakeLockDir
  <2>4. CASE LockDirExists(p)
    BY <2>4 DEF LockDirExists
  <2>5. CASE WriteOwner(p)
    BY <2>5 DEF WriteOwner
  <2>6. CASE TouchLockDir(p)
    BY <2>6 DEF TouchLockDir
  <2>7. CASE WriteOwnerFails(p)
    BY <2>7 DEF WriteOwnerFails
  <2>8. CASE CleanUp(p)
    BY <2>8 DEF CleanUp
  <2>9. QED
    BY <1>1, <2>1, <2>2, <2>3, <2>4, <2>5, <2>6, <2>7, <2>8 DEF Acquire
<1>2. ASSUME NEW p \in Clients, Reap(p) PROVE OwnerNamed'
  <2>1. CASE ReapFindsNothing(p)
    BY <2>1 DEF ReapFindsNothing
  <2>2. CASE ReapFindsFresh(p)
    BY <2>2 DEF ReapFindsFresh
  <2>3. CASE ReapFindsStale(p)
    BY <2>3 DEF ReapFindsStale
  <2>4. CASE RemoveLock(p)
    BY <2>4 DEF RemoveLock
  <2>5. CASE ReapDone(p)
    BY <2>5 DEF ReapDone
  <2>6. CASE ReapFailed(p)
    BY <2>6 DEF ReapFailed, GiveUpOrPoll
  <2>7. CASE ReaperBusyNoWait(p)
    BY <2>7 DEF ReaperBusyNoWait, GiveUpOrPoll
  <2>8. CASE OperationThrows(p)
    BY <2>8 DEF OperationThrows
  <2>9. QED
    BY <1>2, <2>1, <2>2, <2>3, <2>4, <2>5, <2>6, <2>7, <2>8 DEF Reap
<1>3. ASSUME NEW p \in Clients, Use(p) PROVE OwnerNamed'
  <2>1. CASE BeginWork(p)
    BY <2>1 DEF BeginWork
  <2>2. CASE EndWork(p)
    BY <2>2 DEF EndWork
  <2>3. CASE Confirm(p)
    BY <2>3 DEF Confirm
  <2>4. CASE ReportCompromised(p)
    BY <2>4 DEF ReportCompromised
  <2>5. CASE StopRenewal(p)
    BY <2>5 DEF StopRenewal
  <2>6. CASE ReleaseOwned(p)
    BY <2>6 DEF ReleaseOwned
  <2>7. CASE ReleaseNotOwned(p)
    BY <2>7 DEF ReleaseNotOwned
  <2>8. CASE Released(p)
    BY <2>8 DEF Released
  <2>9. QED
    BY <1>3, <2>1, <2>2, <2>3, <2>4, <2>5, <2>6, <2>7, <2>8 DEF Use
<1>4. ASSUME NEW p \in Clients, Renewal(p) PROVE OwnerNamed'
  <2>1. CASE TimerFires(p)
    BY <2>1 DEF TimerFires
  <2>2. CASE RenewVerified(p)
    BY <2>2 DEF RenewVerified
  <2>3. CASE RenewRefused(p)
    BY <2>3 DEF RenewRefused
  <2>4. CASE RenewTruncate(p)
    BY <2>4 DEF RenewTruncate
  <2>5. CASE RenewFill(p)
    BY <2>5 DEF RenewFill
  <2>6. CASE RenewTouch(p)
    BY <2>6 DEF RenewTouch
  <2>7. CASE RenewWriteFails(p)
    BY <2>7 DEF RenewWriteFails
  <2>8. CASE Renewed(p)
    BY <2>8 DEF Renewed
  <2>9. CASE RenewalFailed(p)
    BY <2>9 DEF RenewalFailed
  <2>10. QED
    BY <1>4, <2>1, <2>2, <2>3, <2>4, <2>5, <2>6, <2>7, <2>8, <2>9 DEF Renewal
<1>5. ASSUME NEW t \in Threads, Lifecycle(t) PROVE OwnerNamed'
  <2>1. CASE MakeReaper(t)
    BY <2>1 DEF MakeReaper
  <2>2. CASE ReaperExists(t)
    BY <2>2 DEF ReaperExists
  <2>3. CASE ReaperVanished(t)
    BY <2>3 DEF ReaperVanished
  <2>4. CASE ReaperBusyWait(t)
    BY <2>4 DEF ReaperBusyWait
  <2>5. CASE ReaperStale(t)
    BY <2>5 DEF ReaperStale
  <2>6. CASE ExpireReaper(t)
    BY <2>6 DEF ExpireReaper
  <2>7. QED
    BY <1>5, <2>1, <2>2, <2>3, <2>4, <2>5, <2>6 DEF Lifecycle
<1>6. ASSUME NEW p \in Clients, Crash(p) PROVE OwnerNamed'
  BY <1>6 DEF Crash
<1>7. CASE Tick
  BY <1>7 DEF Tick, Older, Stamped
<1>8. CASE UNCHANGED vars
  BY <1>8 DEF vars
<1>9. ASSUME NEW p \in Clients, FileErrors(p) PROVE OwnerNamed'
  <2>1. CASE AcquireFails(p)
    BY <2>1 DEF AcquireFails
  <2>2. CASE CleanUpFails(p)
    BY <2>2 DEF CleanUpFails
  <2>3. CASE ReapErrs(p)
    BY <2>3 DEF ReapErrs
  <2>4. CASE RemoveLockFails(p)
    BY <2>4 DEF RemoveLockFails
  <2>5. CASE ReleaseUnread(p)
    BY <2>5 DEF ReleaseUnread
  <2>6. QED
    BY <1>9, <2>1, <2>2, <2>3, <2>4, <2>5 DEF FileErrors
<1>10. ASSUME NEW t \in Threads, ReaperErrors(t) PROVE OwnerNamed'
  <2>1. CASE ReaperErrs(t)
    BY <2>1 DEF ReaperErrs
  <2>2. CASE LeaveFails(t)
    BY <2>2 DEF LeaveFails
  <2>3. QED
    BY <1>10, <2>1, <2>2 DEF ReaperErrors
<1>11. QED
  BY <1>1, <1>2, <1>3, <1>4, <1>5, <1>6, <1>7, <1>8, <1>9, <1>10 DEF Next

\* A call that has ended and is still named by owner.json met an error while removing
\* its lock (CleanUpFails, RemoveLockFails, ReleaseUnread or ReaperErrs), however slow
\* it was and whoever crashed.
THEOREM LockNothingLeftBehind == Spec => []NothingLeftBehind
<1>1. Init => OwnerInv
  BY LockAssumption, ThreadNames
     DEF Init, OwnerInv, TypeOK, ThreadsAligned, OwnerNamed, Handle, LockDirThere,
         MainPC, LifePC, Results
<1>2. OwnerInv /\ [Next]_vars => OwnerInv'
  BY TypeStep, AlignedStep, OwnerStep DEF OwnerInv
<1>3. OwnerInv => NothingLeftBehind
  BY DEF OwnerInv, OwnerNamed, NothingLeftBehind, Handle
<1>4. QED
  BY <1>1, <1>2, <1>3, PTL DEF Spec

\* Time does not pass for a thread that has used up its stall.
LEMMA StallStep == TypeOK /\ ThreadsAligned /\ StallBounded /\ [Next]_vars => StallBounded'
<1> SUFFICES ASSUME TypeOK, ThreadsAligned, StallBounded, [Next]_vars PROVE StallBounded'
  OBVIOUS
<1> USE LockAssumption, ThreadNames
    DEF TypeOK, ThreadsAligned, StallBounded, Busy, SectionPC, InSection, Handle, Go, End, Step, Fresh, Forget, Rejects,
        RemoveLockDirFails, Hinder,
        RemoveLockDir, RemoveReaper, LockDirThere, ReaperThere, clientVars, fsVars, reaperVars
<1>1. ASSUME NEW p \in Clients, Acquire(p) PROVE StallBounded'
  <2>1. CASE Call(p)
    BY <2>1 DEF Call
  <2>2. CASE Stamp(p)
    BY <2>2 DEF Stamp
  <2>3. CASE MakeLockDir(p)
    BY <2>3 DEF MakeLockDir
  <2>4. CASE LockDirExists(p)
    BY <2>4 DEF LockDirExists
  <2>5. CASE WriteOwner(p)
    BY <2>5 DEF WriteOwner
  <2>6. CASE TouchLockDir(p)
    BY <2>6 DEF TouchLockDir
  <2>7. CASE WriteOwnerFails(p)
    BY <2>7 DEF WriteOwnerFails
  <2>8. CASE CleanUp(p)
    BY <2>8 DEF CleanUp
  <2>9. QED
    BY <1>1, <2>1, <2>2, <2>3, <2>4, <2>5, <2>6, <2>7, <2>8 DEF Acquire
<1>2. ASSUME NEW p \in Clients, Reap(p) PROVE StallBounded'
  <2>1. CASE ReapFindsNothing(p)
    BY <2>1 DEF ReapFindsNothing
  <2>2. CASE ReapFindsFresh(p)
    BY <2>2 DEF ReapFindsFresh
  <2>3. CASE ReapFindsStale(p)
    BY <2>3 DEF ReapFindsStale
  <2>4. CASE RemoveLock(p)
    BY <2>4 DEF RemoveLock
  <2>5. CASE ReapDone(p)
    BY <2>5 DEF ReapDone
  <2>6. CASE ReapFailed(p)
    BY <2>6 DEF ReapFailed, GiveUpOrPoll
  <2>7. CASE ReaperBusyNoWait(p)
    BY <2>7 DEF ReaperBusyNoWait, GiveUpOrPoll
  <2>8. CASE OperationThrows(p)
    BY <2>8 DEF OperationThrows
  <2>9. QED
    BY <1>2, <2>1, <2>2, <2>3, <2>4, <2>5, <2>6, <2>7, <2>8 DEF Reap
<1>3. ASSUME NEW p \in Clients, Use(p) PROVE StallBounded'
  <2>1. CASE BeginWork(p)
    BY <2>1 DEF BeginWork
  <2>2. CASE EndWork(p)
    BY <2>2 DEF EndWork
  <2>3. CASE Confirm(p)
    BY <2>3 DEF Confirm
  <2>4. CASE ReportCompromised(p)
    BY <2>4 DEF ReportCompromised
  <2>5. CASE StopRenewal(p)
    BY <2>5 DEF StopRenewal
  <2>6. CASE ReleaseOwned(p)
    BY <2>6 DEF ReleaseOwned
  <2>7. CASE ReleaseNotOwned(p)
    BY <2>7 DEF ReleaseNotOwned
  <2>8. CASE Released(p)
    BY <2>8 DEF Released
  <2>9. QED
    BY <1>3, <2>1, <2>2, <2>3, <2>4, <2>5, <2>6, <2>7, <2>8 DEF Use
<1>4. ASSUME NEW p \in Clients, Renewal(p) PROVE StallBounded'
  <2>1. CASE TimerFires(p)
    BY <2>1 DEF TimerFires
  <2>2. CASE RenewVerified(p)
    BY <2>2 DEF RenewVerified
  <2>3. CASE RenewRefused(p)
    BY <2>3 DEF RenewRefused
  <2>4. CASE RenewTruncate(p)
    BY <2>4 DEF RenewTruncate
  <2>5. CASE RenewFill(p)
    BY <2>5 DEF RenewFill
  <2>6. CASE RenewTouch(p)
    BY <2>6 DEF RenewTouch
  <2>7. CASE RenewWriteFails(p)
    BY <2>7 DEF RenewWriteFails
  <2>8. CASE Renewed(p)
    BY <2>8 DEF Renewed
  <2>9. CASE RenewalFailed(p)
    BY <2>9 DEF RenewalFailed
  <2>10. QED
    BY <1>4, <2>1, <2>2, <2>3, <2>4, <2>5, <2>6, <2>7, <2>8, <2>9 DEF Renewal
<1>5. ASSUME NEW t \in Threads, Lifecycle(t) PROVE StallBounded'
  <2>1. CASE MakeReaper(t)
    BY <2>1 DEF MakeReaper
  <2>2. CASE ReaperExists(t)
    BY <2>2 DEF ReaperExists
  <2>3. CASE ReaperVanished(t)
    BY <2>3 DEF ReaperVanished
  <2>4. CASE ReaperBusyWait(t)
    BY <2>4 DEF ReaperBusyWait
  <2>5. CASE ReaperStale(t)
    BY <2>5 DEF ReaperStale
  <2>6. CASE ExpireReaper(t)
    BY <2>6 DEF ExpireReaper
  <2>7. QED
    BY <1>5, <2>1, <2>2, <2>3, <2>4, <2>5, <2>6 DEF Lifecycle
<1>6. ASSUME NEW p \in Clients, Crash(p) PROVE StallBounded'
  BY <1>6 DEF Crash
<1>7. CASE Tick
  BY <1>7 DEF Tick, Older, Stamped
<1>8. CASE UNCHANGED vars
  BY <1>8 DEF vars
<1>9. ASSUME NEW p \in Clients, FileErrors(p) PROVE StallBounded'
  <2>1. CASE AcquireFails(p)
    BY <2>1 DEF AcquireFails
  <2>2. CASE CleanUpFails(p)
    BY <2>2 DEF CleanUpFails
  <2>3. CASE ReapErrs(p)
    BY <2>3 DEF ReapErrs
  <2>4. CASE RemoveLockFails(p)
    BY <2>4 DEF RemoveLockFails
  <2>5. CASE ReleaseUnread(p)
    BY <2>5 DEF ReleaseUnread
  <2>6. QED
    BY <1>9, <2>1, <2>2, <2>3, <2>4, <2>5 DEF FileErrors
<1>10. ASSUME NEW t \in Threads, ReaperErrors(t) PROVE StallBounded'
  <2>1. CASE ReaperErrs(t)
    BY <2>1 DEF ReaperErrs
  <2>2. CASE LeaveFails(t)
    BY <2>2 DEF LeaveFails
  <2>3. QED
    BY <1>10, <2>1, <2>2 DEF ReaperErrors
<1>11. QED
  BY <1>1, <1>2, <1>3, <1>4, <1>5, <1>6, <1>7, <1>8, <1>9, <1>10 DEF Next

\* A crash outside the section takes only threads that are not in it.
LEMMA CrashThreads ==
    ASSUME TypeOK, CalmEnvironment, \A t \in Threads : life[t] # "expire",
           NEW p \in Clients, Crash(p)
    PROVE  /\ \A t \in Threads : life'[t] \in SectionPC => life[t] \in SectionPC
           /\ \A t \in Threads : life[t] \in SectionPC =>
                 life'[t] = life[t] /\ stall'[t] = stall[t]
           /\ \A t \in Threads : life'[t] # "expire"
<1>1. /\ ~InSection(Main(p)) /\ ~InSection(Renew(p))
      /\ life' = [life EXCEPT ![Main(p)] = "out", ![Renew(p)] = "out"]
      /\ stall' = [stall EXCEPT ![Main(p)] = 0, ![Renew(p)] = 0]
  BY DEF Crash, CalmEnvironment
<1>2. ASSUME NEW t \in Threads, t # Main(p), t # Renew(p)
      PROVE  life'[t] = life[t] /\ stall'[t] = stall[t]
  BY <1>1, <1>2 DEF TypeOK
<1>3. life'[Main(p)] = "out" /\ life'[Renew(p)] = "out"
  BY <1>1, ThreadNames DEF TypeOK
<1>4. QED
  BY <1>1, <1>2, <1>3 DEF InSection, SectionPC

\* The reaper directory belongs to the one thread in the section, and is removed with it.
LEMMA ReaperStep == IInv /\ CalmEnvironment /\ [Next]_vars => ReaperGuards'
<1> SUFFICES ASSUME IInv, CalmEnvironment, [Next]_vars PROVE ReaperGuards'
  OBVIOUS
<1> USE LockAssumption, ThreadNames
    DEF IInv, OwnerInv, OwnerNamed, CalmEnvironment, TypeOK, ThreadsAligned, StallBounded, ReaperGuards,
        ReaperExclusion, Busy, SectionPC, InSection, Handle, Go, End, Step, Fresh, Forget, Rejects,
        RemoveLockDirFails, Hinder,
        RemoveLockDir, RemoveReaper, LockDirThere, ReaperThere, clientVars, fsVars, reaperVars
<1>1. ASSUME NEW p \in Clients, Acquire(p) PROVE ReaperGuards'
  <2>1. CASE Call(p)
    BY <2>1 DEF Call
  <2>2. CASE Stamp(p)
    BY <2>2 DEF Stamp
  <2>3. CASE MakeLockDir(p)
    BY <2>3 DEF MakeLockDir
  <2>4. CASE LockDirExists(p)
    BY <2>4 DEF LockDirExists
  <2>5. CASE WriteOwner(p)
    BY <2>5 DEF WriteOwner
  <2>6. CASE TouchLockDir(p)
    BY <2>6 DEF TouchLockDir
  <2>7. CASE WriteOwnerFails(p)
    BY <2>7 DEF WriteOwnerFails
  <2>8. CASE CleanUp(p)
    BY <2>8 DEF CleanUp
  <2>9. QED
    BY <1>1, <2>1, <2>2, <2>3, <2>4, <2>5, <2>6, <2>7, <2>8 DEF Acquire
<1>2. ASSUME NEW p \in Clients, Reap(p) PROVE ReaperGuards'
  <2>1. CASE ReapFindsNothing(p)
    BY <2>1 DEF ReapFindsNothing
  <2>2. CASE ReapFindsFresh(p)
    BY <2>2 DEF ReapFindsFresh
  <2>3. CASE ReapFindsStale(p)
    BY <2>3 DEF ReapFindsStale
  <2>4. CASE RemoveLock(p)
    BY <2>4 DEF RemoveLock
  <2>5. CASE ReapDone(p)
    BY <2>5 DEF ReapDone
  <2>6. CASE ReapFailed(p)
    BY <2>6 DEF ReapFailed, GiveUpOrPoll
  <2>7. CASE ReaperBusyNoWait(p)
    BY <2>7 DEF ReaperBusyNoWait, GiveUpOrPoll
  <2>8. CASE OperationThrows(p)
    BY <2>8 DEF OperationThrows
  <2>9. QED
    BY <1>2, <2>1, <2>2, <2>3, <2>4, <2>5, <2>6, <2>7, <2>8 DEF Reap
<1>3. ASSUME NEW p \in Clients, Use(p) PROVE ReaperGuards'
  <2>1. CASE BeginWork(p)
    BY <2>1 DEF BeginWork
  <2>2. CASE EndWork(p)
    BY <2>2 DEF EndWork
  <2>3. CASE Confirm(p)
    BY <2>3 DEF Confirm
  <2>4. CASE ReportCompromised(p)
    BY <2>4 DEF ReportCompromised
  <2>5. CASE StopRenewal(p)
    BY <2>5 DEF StopRenewal
  <2>6. CASE ReleaseOwned(p)
    BY <2>6 DEF ReleaseOwned
  <2>7. CASE ReleaseNotOwned(p)
    BY <2>7 DEF ReleaseNotOwned
  <2>8. CASE Released(p)
    BY <2>8 DEF Released
  <2>9. QED
    BY <1>3, <2>1, <2>2, <2>3, <2>4, <2>5, <2>6, <2>7, <2>8 DEF Use
<1>4. ASSUME NEW p \in Clients, Renewal(p) PROVE ReaperGuards'
  <2>1. CASE TimerFires(p)
    BY <2>1 DEF TimerFires
  <2>2. CASE RenewVerified(p)
    BY <2>2 DEF RenewVerified
  <2>3. CASE RenewRefused(p)
    BY <2>3 DEF RenewRefused
  <2>4. CASE RenewTruncate(p)
    BY <2>4 DEF RenewTruncate
  <2>5. CASE RenewFill(p)
    BY <2>5 DEF RenewFill
  <2>6. CASE RenewTouch(p)
    BY <2>6 DEF RenewTouch
  <2>7. CASE RenewWriteFails(p)
    BY <2>7 DEF RenewWriteFails
  <2>8. CASE Renewed(p)
    BY <2>8 DEF Renewed
  <2>9. CASE RenewalFailed(p)
    BY <2>9 DEF RenewalFailed
  <2>10. QED
    BY <1>4, <2>1, <2>2, <2>3, <2>4, <2>5, <2>6, <2>7, <2>8, <2>9 DEF Renewal
<1>5. ASSUME NEW t \in Threads, Lifecycle(t) PROVE ReaperGuards'
  <2>1. CASE MakeReaper(t)
    BY <2>1 DEF MakeReaper
  <2>2. CASE ReaperExists(t)
    BY <2>2 DEF ReaperExists
  <2>3. CASE ReaperVanished(t)
    BY <2>3 DEF ReaperVanished
  <2>4. CASE ReaperBusyWait(t)
    BY <2>4 DEF ReaperBusyWait
  <2>5. CASE ReaperStale(t)
    BY <2>5 DEF ReaperStale
  <2>6. CASE ExpireReaper(t)
    BY <2>6 DEF ExpireReaper
  <2>7. QED
    BY <1>5, <2>1, <2>2, <2>3, <2>4, <2>5, <2>6 DEF Lifecycle
<1>6. ASSUME NEW p \in Clients, Crash(p) PROVE ReaperGuards'
  <2>1. /\ \A t \in Threads : life'[t] \in SectionPC => life[t] \in SectionPC
        /\ \A t \in Threads : life[t] \in SectionPC =>
              life'[t] = life[t] /\ stall'[t] = stall[t]
        /\ \A t \in Threads : life'[t] # "expire"
    BY <1>6, CrashThreads
  <2>2. reaper' = reaper /\ reaperAge' = reaperAge
    BY <1>6 DEF Crash
  <2>3. (ReaperThere => \E t \in Threads : InSection(t))'
    BY <2>1, <2>2
  <2>4. (\A t \in Threads : InSection(t) => ReaperThere /\ reaperAge <= stall[t])'
    BY <2>1, <2>2
  <2>5. ReaperExclusion'
    BY <2>1
  <2>6. QED
    BY <2>1, <2>3, <2>4, <2>5
<1>7. CASE Tick
  BY <1>7 DEF Tick, Older, Stamped
<1>8. CASE UNCHANGED vars
  BY <1>8 DEF vars
<1>9. ASSUME NEW p \in Clients, FileErrors(p) PROVE ReaperGuards'
  <2>1. CASE AcquireFails(p)
    BY <2>1 DEF AcquireFails
  <2>2. CASE CleanUpFails(p)
    BY <2>2 DEF CleanUpFails
  <2>3. CASE ReapErrs(p)
    BY <2>3 DEF ReapErrs
  <2>4. CASE RemoveLockFails(p)
    BY <2>4 DEF RemoveLockFails
  <2>5. CASE ReleaseUnread(p)
    BY <2>5 DEF ReleaseUnread
  <2>6. QED
    BY <1>9, <2>1, <2>2, <2>3, <2>4, <2>5 DEF FileErrors
<1>10. ASSUME NEW t \in Threads, ReaperErrors(t) PROVE ReaperGuards'
  <2>1. CASE ReaperErrs(t)
    BY <2>1 DEF ReaperErrs
  <2>2. CASE LeaveFails(t)
    BY <2>2 DEF LeaveFails
  <2>3. QED
    BY <1>10, <2>1, <2>2 DEF ReaperErrors
<1>11. QED
  BY <1>1, <1>2, <1>3, <1>4, <1>5, <1>6, <1>7, <1>8, <1>9, <1>10 DEF Next

\* A claim starts when there is none and ends with the directory or with its holder.
LEMMA ClaimsStep == IInv /\ CalmEnvironment /\ [Next]_vars => ClaimsBacked'
<1> SUFFICES ASSUME IInv, CalmEnvironment, [Next]_vars PROVE ClaimsBacked'
  OBVIOUS
<1> USE LockAssumption, ThreadNames
    DEF IInv, OwnerInv, OwnerNamed, CalmEnvironment, TypeOK, ThreadsAligned, StallBounded, ReaperGuards,
        ReaperExclusion, ClaimsBacked, AgesAgree, Busy, SectionPC, InSection, Claim, Acquiring, Rewriting, Releasing, HoldsLease, OwnerActive,
        Handle, Go, End, Step, Fresh, Forget, Rejects,
        RemoveLockDirFails, Hinder,
        RemoveLockDir, RemoveReaper, LockDirThere, ReaperThere, clientVars, fsVars, reaperVars
<1>1. ASSUME NEW p \in Clients, Acquire(p) PROVE ClaimsBacked'
  <2>1. CASE Call(p)
    BY <2>1 DEF Call
  <2>2. CASE Stamp(p)
    BY <2>2 DEF Stamp
  <2>3. CASE MakeLockDir(p)
    BY <2>3 DEF MakeLockDir
  <2>4. CASE LockDirExists(p)
    BY <2>4 DEF LockDirExists
  <2>5. CASE WriteOwner(p)
    BY <2>5 DEF WriteOwner
  <2>6. CASE TouchLockDir(p)
    BY <2>6 DEF TouchLockDir
  <2>7. CASE WriteOwnerFails(p)
    BY <2>7 DEF WriteOwnerFails
  <2>8. CASE CleanUp(p)
    BY <2>8 DEF CleanUp
  <2>9. QED
    BY <1>1, <2>1, <2>2, <2>3, <2>4, <2>5, <2>6, <2>7, <2>8 DEF Acquire
<1>2. ASSUME NEW p \in Clients, Reap(p) PROVE ClaimsBacked'
  <2>1. CASE ReapFindsNothing(p)
    BY <2>1 DEF ReapFindsNothing
  <2>2. CASE ReapFindsFresh(p)
    BY <2>2 DEF ReapFindsFresh
  <2>3. CASE ReapFindsStale(p)
    BY <2>3 DEF ReapFindsStale
  <2>4. CASE RemoveLock(p)
    BY <2>4 DEF RemoveLock
  <2>5. CASE ReapDone(p)
    BY <2>5 DEF ReapDone
  <2>6. CASE ReapFailed(p)
    BY <2>6 DEF ReapFailed, GiveUpOrPoll
  <2>7. CASE ReaperBusyNoWait(p)
    BY <2>7 DEF ReaperBusyNoWait, GiveUpOrPoll
  <2>8. CASE OperationThrows(p)
    BY <2>8 DEF OperationThrows
  <2>9. QED
    BY <1>2, <2>1, <2>2, <2>3, <2>4, <2>5, <2>6, <2>7, <2>8 DEF Reap
<1>3. ASSUME NEW p \in Clients, Use(p) PROVE ClaimsBacked'
  <2>1. CASE BeginWork(p)
    BY <2>1 DEF BeginWork
  <2>2. CASE EndWork(p)
    BY <2>2 DEF EndWork
  <2>3. CASE Confirm(p)
    BY <2>3 DEF Confirm
  <2>4. CASE ReportCompromised(p)
    BY <2>4 DEF ReportCompromised
  <2>5. CASE StopRenewal(p)
    BY <2>5 DEF StopRenewal
  <2>6. CASE ReleaseOwned(p)
    BY <2>6 DEF ReleaseOwned
  <2>7. CASE ReleaseNotOwned(p)
    BY <2>7 DEF ReleaseNotOwned
  <2>8. CASE Released(p)
    BY <2>8 DEF Released
  <2>9. QED
    BY <1>3, <2>1, <2>2, <2>3, <2>4, <2>5, <2>6, <2>7, <2>8 DEF Use
<1>4. ASSUME NEW p \in Clients, Renewal(p) PROVE ClaimsBacked'
  <2>1. CASE TimerFires(p)
    BY <2>1 DEF TimerFires
  <2>2. CASE RenewVerified(p)
    BY <2>2 DEF RenewVerified
  <2>3. CASE RenewRefused(p)
    BY <2>3 DEF RenewRefused
  <2>4. CASE RenewTruncate(p)
    BY <2>4 DEF RenewTruncate
  <2>5. CASE RenewFill(p)
    BY <2>5 DEF RenewFill
  <2>6. CASE RenewTouch(p)
    BY <2>6 DEF RenewTouch
  <2>7. CASE RenewWriteFails(p)
    BY <2>7 DEF RenewWriteFails
  <2>8. CASE Renewed(p)
    BY <2>8 DEF Renewed
  <2>9. CASE RenewalFailed(p)
    BY <2>9 DEF RenewalFailed
  <2>10. QED
    BY <1>4, <2>1, <2>2, <2>3, <2>4, <2>5, <2>6, <2>7, <2>8, <2>9 DEF Renewal
<1>5. ASSUME NEW t \in Threads, Lifecycle(t) PROVE ClaimsBacked'
  <2>1. CASE MakeReaper(t)
    BY <2>1 DEF MakeReaper
  <2>2. CASE ReaperExists(t)
    BY <2>2 DEF ReaperExists
  <2>3. CASE ReaperVanished(t)
    BY <2>3 DEF ReaperVanished
  <2>4. CASE ReaperBusyWait(t)
    BY <2>4 DEF ReaperBusyWait
  <2>5. CASE ReaperStale(t)
    BY <2>5 DEF ReaperStale
  <2>6. CASE ExpireReaper(t)
    BY <2>6 DEF ExpireReaper
  <2>7. QED
    BY <1>5, <2>1, <2>2, <2>3, <2>4, <2>5, <2>6 DEF Lifecycle
<1>6. ASSUME NEW p \in Clients, Crash(p) PROVE ClaimsBacked'
  BY <1>6 DEF Crash
<1>7. CASE Tick
  BY <1>7 DEF Tick, Older, Stamped
<1>8. CASE UNCHANGED vars
  BY <1>8 DEF vars
<1>9. ASSUME NEW p \in Clients, FileErrors(p) PROVE ClaimsBacked'
  <2>1. CASE AcquireFails(p)
    BY <2>1 DEF AcquireFails
  <2>2. CASE CleanUpFails(p)
    BY <2>2 DEF CleanUpFails
  <2>3. CASE ReapErrs(p)
    BY <2>3 DEF ReapErrs
  <2>4. CASE RemoveLockFails(p)
    BY <2>4 DEF RemoveLockFails
  <2>5. CASE ReleaseUnread(p)
    BY <2>5 DEF ReleaseUnread
  <2>6. QED
    BY <1>9, <2>1, <2>2, <2>3, <2>4, <2>5 DEF FileErrors
<1>10. ASSUME NEW t \in Threads, ReaperErrors(t) PROVE ClaimsBacked'
  <2>1. CASE ReaperErrs(t)
    BY <2>1 DEF ReaperErrs
  <2>2. CASE LeaveFails(t)
    BY <2>2 DEF LeaveFails
  <2>3. QED
    BY <1>10, <2>1, <2>2 DEF ReaperErrors
<1>11. QED
  BY <1>1, <1>2, <1>3, <1>4, <1>5, <1>6, <1>7, <1>8, <1>9, <1>10 DEF Next

\* A claimed directory is never old enough to be reaped.
LEMMA AgesStep == IInv /\ CalmEnvironment /\ [Next]_vars => AgesAgree'
<1> SUFFICES ASSUME IInv, CalmEnvironment, [Next]_vars PROVE AgesAgree'
  OBVIOUS
<1> USE LockAssumption, ThreadNames
    DEF IInv, OwnerInv, OwnerNamed, CalmEnvironment, TypeOK, ThreadsAligned, StallBounded, ReaperGuards,
        ReaperExclusion, ClaimsBacked, AgesAgree, Stamped, Busy, SectionPC, InSection, Claim, Acquiring, Rewriting, Releasing, HoldsLease, OwnerActive,
        Handle, Go, End, Step, Fresh, Forget,
        RemoveLockDir, RemoveReaper, LockDirThere, ReaperThere, clientVars, fsVars, reaperVars
<1>1. ASSUME NEW p \in Clients, Acquire(p) PROVE AgesAgree'
  <2>1. CASE Call(p)
    BY <2>1 DEF Call
  <2>2. CASE Stamp(p)
    BY <2>2 DEF Stamp
  <2>3. CASE MakeLockDir(p)
    BY <2>3 DEF MakeLockDir
  <2>4. CASE LockDirExists(p)
    BY <2>4 DEF LockDirExists
  <2>5. CASE WriteOwner(p)
    BY <2>5 DEF WriteOwner
  <2>6. CASE TouchLockDir(p)
    BY <2>6 DEF TouchLockDir
  <2>7. CASE WriteOwnerFails(p)
    BY <2>7 DEF WriteOwnerFails
  <2>8. CASE CleanUp(p)
    <3>1. \A q \in Clients : ~Acquiring(q) \/ q = p
      BY <2>8 DEF CleanUp
    <3>2. \A q \in Clients : ~HoldsLease(q) /\ ~Rewriting(q)
      BY <2>8 DEF CleanUp
    <3>3. \A q \in Clients : ~(pc[q] = "reap" /\ life[Main(q)] = "remove")
      BY <2>8 DEF CleanUp
    <3>4. QED
      BY <2>8, <3>1, <3>2, <3>3 DEF CleanUp
  <2>9. QED
    BY <1>1, <2>1, <2>2, <2>3, <2>4, <2>5, <2>6, <2>7, <2>8 DEF Acquire
<1>2. ASSUME NEW p \in Clients, Reap(p) PROVE AgesAgree'
  <2>1. CASE ReapFindsNothing(p)
    BY <2>1 DEF ReapFindsNothing
  <2>2. CASE ReapFindsFresh(p)
    BY <2>2 DEF ReapFindsFresh
  <2>3. CASE ReapFindsStale(p)
    BY <2>3 DEF ReapFindsStale
  <2>4. CASE RemoveLock(p)
    BY <2>4 DEF RemoveLock
  <2>5. CASE ReapDone(p)
    BY <2>5 DEF ReapDone
  <2>6. CASE ReapFailed(p)
    BY <2>6 DEF ReapFailed, GiveUpOrPoll
  <2>7. CASE ReaperBusyNoWait(p)
    BY <2>7 DEF ReaperBusyNoWait, GiveUpOrPoll
  <2>8. CASE OperationThrows(p)
    BY <2>8 DEF OperationThrows, Rejects
  <2>9. QED
    BY <1>2, <2>1, <2>2, <2>3, <2>4, <2>5, <2>6, <2>7, <2>8 DEF Reap
<1>3. ASSUME NEW p \in Clients, Use(p) PROVE AgesAgree'
  <2>1. CASE BeginWork(p)
    BY <2>1 DEF BeginWork
  <2>2. CASE EndWork(p)
    BY <2>2 DEF EndWork
  <2>3. CASE Confirm(p)
    BY <2>3 DEF Confirm
  <2>4. CASE ReportCompromised(p)
    BY <2>4 DEF ReportCompromised
  <2>5. CASE StopRenewal(p)
    BY <2>5 DEF StopRenewal
  <2>6. CASE ReleaseOwned(p)
    BY <2>6 DEF ReleaseOwned
  <2>7. CASE ReleaseNotOwned(p)
    BY <2>7 DEF ReleaseNotOwned
  <2>8. CASE Released(p)
    BY <2>8 DEF Released
  <2>9. QED
    BY <1>3, <2>1, <2>2, <2>3, <2>4, <2>5, <2>6, <2>7, <2>8 DEF Use
<1>4. ASSUME NEW p \in Clients, Renewal(p) PROVE AgesAgree'
  <2>1. CASE TimerFires(p)
    BY <2>1 DEF TimerFires
  <2>2. CASE RenewVerified(p)
    BY <2>2 DEF RenewVerified
  <2>3. CASE RenewRefused(p)
    BY <2>3 DEF RenewRefused
  <2>4. CASE RenewTruncate(p)
    BY <2>4 DEF RenewTruncate
  <2>5. CASE RenewFill(p)
    BY <2>5 DEF RenewFill
  <2>6. CASE RenewTouch(p)
    BY <2>6 DEF RenewTouch
  <2>7. CASE RenewWriteFails(p)
    BY <2>7 DEF RenewWriteFails
  <2>8. CASE Renewed(p)
    BY <2>8 DEF Renewed
  <2>9. CASE RenewalFailed(p)
    BY <2>9 DEF RenewalFailed
  <2>10. QED
    BY <1>4, <2>1, <2>2, <2>3, <2>4, <2>5, <2>6, <2>7, <2>8, <2>9 DEF Renewal
<1>5. ASSUME NEW t \in Threads, Lifecycle(t) PROVE AgesAgree'
  <2>1. CASE MakeReaper(t)
    BY <2>1 DEF MakeReaper
  <2>2. CASE ReaperExists(t)
    BY <2>2 DEF ReaperExists
  <2>3. CASE ReaperVanished(t)
    BY <2>3 DEF ReaperVanished
  <2>4. CASE ReaperBusyWait(t)
    BY <2>4 DEF ReaperBusyWait
  <2>5. CASE ReaperStale(t)
    BY <2>5 DEF ReaperStale
  <2>6. CASE ExpireReaper(t)
    BY <2>6 DEF ExpireReaper
  <2>7. QED
    BY <1>5, <2>1, <2>2, <2>3, <2>4, <2>5, <2>6 DEF Lifecycle
<1>6. ASSUME NEW p \in Clients, Crash(p) PROVE AgesAgree'
  BY <1>6 DEF Crash
<1>7. CASE Tick
  BY <1>7 DEF Tick, Older, Stamped
<1>8. CASE UNCHANGED vars
  BY <1>8 DEF vars
<1>9. ASSUME NEW p \in Clients, FileErrors(p) PROVE AgesAgree'
  <2>1. CASE AcquireFails(p)
    BY <2>1 DEF AcquireFails
  <2>2. CASE CleanUpFails(p)
    BY <2>2 DEF CleanUpFails, RemoveLockDirFails
  <2>3. CASE ReapErrs(p)
    BY <2>3 DEF ReapErrs
  <2>4. CASE RemoveLockFails(p)
    BY <2>4 DEF RemoveLockFails, RemoveLockDirFails
  <2>5. CASE ReleaseUnread(p)
    BY <2>5 DEF ReleaseUnread
  <2>6. QED
    BY <1>9, <2>1, <2>2, <2>3, <2>4, <2>5 DEF FileErrors
<1>10. ASSUME NEW t \in Threads, ReaperErrors(t) PROVE AgesAgree'
  <2>1. CASE ReaperErrs(t)
    BY <2>1 DEF ReaperErrs, Rejects
  <2>2. CASE LeaveFails(t)
    BY <2>2 DEF LeaveFails, Rejects
  <2>3. QED
    BY <1>10, <2>1, <2>2 DEF ReaperErrors
<1>11. QED
  BY <1>1, <1>2, <1>3, <1>4, <1>5, <1>6, <1>7, <1>8, <1>9, <1>10 DEF Next

\* The inductive invariant, for processes that stall less than a lease and that, alive
\* or dead, leave no reaper directory behind.
THEOREM LockInvariant == CalmEnvironment /\ Spec => []IInv
<1>1. Init => IInv
  BY LockAssumption, ThreadNames
     DEF Init, IInv, OwnerInv, TypeOK, ThreadsAligned, OwnerNamed, Handle, LockDirThere,
         StallBounded, Busy, ReaperGuards, ReaperExclusion, InSection, SectionPC,
         ClaimsBacked, Claim, Acquiring, HoldsLease, Rewriting, Releasing, AgesAgree,
         ReaperThere, MainPC, LifePC, Results
<1>2. CalmEnvironment /\ IInv /\ [Next]_vars => IInv'
  BY TypeStep, AlignedStep, OwnerStep, StallStep, ReaperStep, ClaimsStep, AgesStep
     DEF IInv, OwnerInv
<1>3. CalmEnvironment => CalmEnvironment'
  BY DEF CalmEnvironment
<1>4. QED
  BY <1>1, <1>2, <1>3, PTL DEF Spec

\* Two callers never hold a running lease together (acquireTinyYeahLock, renewLock
\* and tryRemoveStaleLock against each other).
THEOREM LockLeaseExclusion == CalmEnvironment /\ Spec => []LeaseExclusion
<1>1. IInv => LeaseExclusion
  BY DEF IInv, ClaimsBacked, Claim, LeaseExclusion
<1>2. QED
  BY <1>1, LockInvariant, PTL

\* The reaper directory of withLifecycleLock admits one thread at a time.
THEOREM LockReaperExclusion == CalmEnvironment /\ Spec => []ReaperExclusion
<1>1. IInv => ReaperExclusion
  BY DEF IInv, ReaperGuards
<1>2. QED
  BY <1>1, LockInvariant, PTL

\* While a lease runs the directory and its owner.json stay the holder's: no reaper,
\* failed acquisition or foreign release takes or overwrites them.
THEOREM LockLeaseBacked == CalmEnvironment /\ Spec => []LeaseBacked
<1>1. IInv => LeaseBacked
  BY DEF IInv, ClaimsBacked, Claim, LeaseBacked
<1>2. QED
  BY <1>1, LockInvariant, PTL

\* A lease that runs after a step was a claim before it.
LEMMA LeaseOrigin == TypeOK /\ ThreadsAligned /\ [Next]_vars => \A q \in Clients : HoldsLease(q)' => Claim(q)
<1> SUFFICES ASSUME TypeOK, ThreadsAligned, [Next]_vars PROVE \A q \in Clients : HoldsLease(q)' => Claim(q)
  OBVIOUS
<1> USE LockAssumption, ThreadNames
    DEF TypeOK, ThreadsAligned, Claim, Acquiring, Rewriting, Releasing, HoldsLease, Handle,
        Go, End, Step, Fresh, Forget, Rejects,
        RemoveLockDirFails, Hinder, clientVars, fsVars, reaperVars
<1>1. ASSUME NEW p \in Clients, Acquire(p) PROVE \A q \in Clients : HoldsLease(q)' => Claim(q)
  <2>1. CASE Call(p)
    BY <2>1 DEF Call
  <2>2. CASE Stamp(p)
    BY <2>2 DEF Stamp
  <2>3. CASE MakeLockDir(p)
    BY <2>3 DEF MakeLockDir
  <2>4. CASE LockDirExists(p)
    BY <2>4 DEF LockDirExists
  <2>5. CASE WriteOwner(p)
    BY <2>5 DEF WriteOwner
  <2>6. CASE TouchLockDir(p)
    BY <2>6 DEF TouchLockDir
  <2>7. CASE WriteOwnerFails(p)
    BY <2>7 DEF WriteOwnerFails
  <2>8. CASE CleanUp(p)
    BY <2>8 DEF CleanUp
  <2>9. QED
    BY <1>1, <2>1, <2>2, <2>3, <2>4, <2>5, <2>6, <2>7, <2>8 DEF Acquire
<1>2. ASSUME NEW p \in Clients, Reap(p) PROVE \A q \in Clients : HoldsLease(q)' => Claim(q)
  <2>1. CASE ReapFindsNothing(p)
    BY <2>1 DEF ReapFindsNothing
  <2>2. CASE ReapFindsFresh(p)
    BY <2>2 DEF ReapFindsFresh
  <2>3. CASE ReapFindsStale(p)
    BY <2>3 DEF ReapFindsStale
  <2>4. CASE RemoveLock(p)
    BY <2>4 DEF RemoveLock
  <2>5. CASE ReapDone(p)
    BY <2>5 DEF ReapDone
  <2>6. CASE ReapFailed(p)
    BY <2>6 DEF ReapFailed, GiveUpOrPoll
  <2>7. CASE ReaperBusyNoWait(p)
    BY <2>7 DEF ReaperBusyNoWait, GiveUpOrPoll
  <2>8. CASE OperationThrows(p)
    BY <2>8 DEF OperationThrows
  <2>9. QED
    BY <1>2, <2>1, <2>2, <2>3, <2>4, <2>5, <2>6, <2>7, <2>8 DEF Reap
<1>3. ASSUME NEW p \in Clients, Use(p) PROVE \A q \in Clients : HoldsLease(q)' => Claim(q)
  <2>1. CASE BeginWork(p)
    BY <2>1 DEF BeginWork
  <2>2. CASE EndWork(p)
    BY <2>2 DEF EndWork
  <2>3. CASE Confirm(p)
    BY <2>3 DEF Confirm
  <2>4. CASE ReportCompromised(p)
    BY <2>4 DEF ReportCompromised
  <2>5. CASE StopRenewal(p)
    BY <2>5 DEF StopRenewal
  <2>6. CASE ReleaseOwned(p)
    BY <2>6 DEF ReleaseOwned
  <2>7. CASE ReleaseNotOwned(p)
    BY <2>7 DEF ReleaseNotOwned
  <2>8. CASE Released(p)
    BY <2>8 DEF Released
  <2>9. QED
    BY <1>3, <2>1, <2>2, <2>3, <2>4, <2>5, <2>6, <2>7, <2>8 DEF Use
<1>4. ASSUME NEW p \in Clients, Renewal(p) PROVE \A q \in Clients : HoldsLease(q)' => Claim(q)
  <2>1. CASE TimerFires(p)
    BY <2>1 DEF TimerFires
  <2>2. CASE RenewVerified(p)
    BY <2>2 DEF RenewVerified
  <2>3. CASE RenewRefused(p)
    BY <2>3 DEF RenewRefused
  <2>4. CASE RenewTruncate(p)
    BY <2>4 DEF RenewTruncate
  <2>5. CASE RenewFill(p)
    BY <2>5 DEF RenewFill
  <2>6. CASE RenewTouch(p)
    BY <2>6 DEF RenewTouch
  <2>7. CASE RenewWriteFails(p)
    BY <2>7 DEF RenewWriteFails
  <2>8. CASE Renewed(p)
    BY <2>8 DEF Renewed
  <2>9. CASE RenewalFailed(p)
    BY <2>9 DEF RenewalFailed
  <2>10. QED
    BY <1>4, <2>1, <2>2, <2>3, <2>4, <2>5, <2>6, <2>7, <2>8, <2>9 DEF Renewal
<1>5. ASSUME NEW t \in Threads, Lifecycle(t) PROVE \A q \in Clients : HoldsLease(q)' => Claim(q)
  <2>1. CASE MakeReaper(t)
    BY <2>1 DEF MakeReaper
  <2>2. CASE ReaperExists(t)
    BY <2>2 DEF ReaperExists
  <2>3. CASE ReaperVanished(t)
    BY <2>3 DEF ReaperVanished
  <2>4. CASE ReaperBusyWait(t)
    BY <2>4 DEF ReaperBusyWait
  <2>5. CASE ReaperStale(t)
    BY <2>5 DEF ReaperStale
  <2>6. CASE ExpireReaper(t)
    BY <2>6 DEF ExpireReaper
  <2>7. QED
    BY <1>5, <2>1, <2>2, <2>3, <2>4, <2>5, <2>6 DEF Lifecycle
<1>6. ASSUME NEW p \in Clients, Crash(p) PROVE \A q \in Clients : HoldsLease(q)' => Claim(q)
  BY <1>6 DEF Crash
<1>7. CASE Tick
  BY <1>7 DEF Tick, Older, Stamped
<1>8. CASE UNCHANGED vars
  BY <1>8 DEF vars
<1>9. ASSUME NEW p \in Clients, FileErrors(p) PROVE \A q \in Clients : HoldsLease(q)' => Claim(q)
  <2>1. CASE AcquireFails(p)
    BY <2>1 DEF AcquireFails
  <2>2. CASE CleanUpFails(p)
    BY <2>2 DEF CleanUpFails
  <2>3. CASE ReapErrs(p)
    BY <2>3 DEF ReapErrs
  <2>4. CASE RemoveLockFails(p)
    BY <2>4 DEF RemoveLockFails
  <2>5. CASE ReleaseUnread(p)
    BY <2>5 DEF ReleaseUnread
  <2>6. QED
    BY <1>9, <2>1, <2>2, <2>3, <2>4, <2>5 DEF FileErrors
<1>10. ASSUME NEW t \in Threads, ReaperErrors(t) PROVE \A q \in Clients : HoldsLease(q)' => Claim(q)
  <2>1. CASE ReaperErrs(t)
    BY <2>1 DEF ReaperErrs
  <2>2. CASE LeaveFails(t)
    BY <2>2 DEF LeaveFails
  <2>3. QED
    BY <1>10, <2>1, <2>2 DEF ReaperErrors
<1>11. QED
  BY <1>1, <1>2, <1>3, <1>4, <1>5, <1>6, <1>7, <1>8, <1>9, <1>10 DEF Next

\* Every step of the files is a grant, a drop or nothing for the abstract lease.
THEOREM LockImplementsLease == CalmEnvironment /\ Spec => ImplementsLease
<1>1. Init => Lease!LeaseInit
  BY DEF Init, Lease!LeaseInit, Holder, HoldsLease, Handle
<1>2. ASSUME IInv, IInv', [Next]_vars
      PROVE  [Lease!LeaseNext]_Holder
  <2>1. \A p \in Clients : HoldsLease(p) => Holder = p
    BY <1>2 DEF IInv, ClaimsBacked, Claim, Holder
  <2>2. \A p \in Clients : HoldsLease(p)' => Holder' = p
    BY <1>2 DEF IInv, ClaimsBacked, Claim, Holder
  <2>3. (\A p \in Clients : ~HoldsLease(p)) => Holder = NoOwner
    BY DEF Holder
  <2>4. (\A p \in Clients : ~HoldsLease(p)') => Holder' = NoOwner
    BY DEF Holder
  <2>5. \A p, q \in Clients : HoldsLease(p) /\ HoldsLease(q)' => p = q
    BY <1>2, LeaseOrigin DEF IInv, OwnerInv, ClaimsBacked, Claim
  <2>6. CASE \E p, q \in Clients : HoldsLease(p) /\ HoldsLease(q)'
    BY <2>1, <2>2, <2>5, <2>6
  <2>7. CASE \E p \in Clients : HoldsLease(p) /\ \A q \in Clients : ~HoldsLease(q)'
    BY <2>1, <2>4, <2>7, LockAssumption DEF Lease!LeaseNext, Lease!Drop
  <2>8. CASE \E q \in Clients : HoldsLease(q)' /\ \A p \in Clients : ~HoldsLease(p)
    BY <2>2, <2>3, <2>8 DEF Lease!LeaseNext, Lease!Grant
  <2>9. QED
    BY <2>3, <2>4, <2>6, <2>7, <2>8
<1>3. QED
  BY <1>1, <1>2, LockInvariant, PTL DEF ImplementsLease, Lease!LeaseSpec, Spec
================================================================================
