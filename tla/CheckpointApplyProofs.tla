------------------------- MODULE CheckpointApplyProofs -------------------------
(***************************************************************************)
(* Proofs about CheckpointApply for every set of previews, manifests,      *)
(* appliers and edits: type correctness, WrittenAsCommitted, NoClobber,    *)
(* NoTempLeft, NothingBeforePreflight and AppliesWholeManifest; and, for   *)
(* every set of calls of the ApprovalGate above it, AppliedAsShown.        *)
(***************************************************************************)
EXTENDS ApprovalGate, TLAPS

\* Every variable keeps its type.
LEMMA ApplyTypeStep == TypeOK /\ HeldVerified /\ LoopsAligned /\ [Next]_vars => TypeOK'
<1> SUFFICES ASSUME TypeOK, HeldVerified, LoopsAligned, [Next]_vars PROVE TypeOK'
  OBVIOUS
<1> USE ApplyAssumption
    DEF PC, ReadPC, WritePC, Stored, NoFile, Outcomes, Go, Throw, diskVars, authorVars, applierVars, envVars
<1>1. ASSUME NEW p \in Authors, Author(p) PROVE TypeOK'
  <2>1. CASE CheckTargets(p)
    BY <2>1 DEF CheckTargets, TypeOK
  <2>2. CASE WritePreview(p)
    BY <2>2 DEF WritePreview, TypeOK
  <2>3. CASE WriteCheckpoint(p)
    BY <2>3 DEF WriteCheckpoint, TypeOK
  <2>4. QED
    BY <1>1, <2>1, <2>2, <2>3 DEF Author
<1>2. ASSUME NEW a \in Appliers, Check(a) PROVE TypeOK'
  <2>1. CASE TakeLock(a)
    BY <2>1 DEF TakeLock, Lock!Grant, TypeOK
  <2>2. CASE LockRefused(a)
    BY <2>2 DEF LockRefused, TypeOK
  <2>3. CASE ReadPreview(a)
    BY <2>3 DEF ReadPreview, TypeOK
  <2>4. CASE ReadMissing(a)
    BY <2>4 DEF ReadMissing, TypeOK
  <2>5. CASE ReadCheckpoint(a)
    BY <2>5 DEF ReadCheckpoint, TypeOK
  <2>6. CASE PreflightPass(a)
    <3>1. at \in [Appliers -> Nat]
      BY DEF TypeOK
    <3>2. at' \in [Appliers -> Nat]
      BY <2>6, <3>1 DEF PreflightPass
    <3>3. view[a].list[at[a]] \in Actions
      BY <2>6 DEF PreflightPass, TypeOK
    <3>4. ContentOf(view[a].list[at[a]]) \in Contents
      BY <2>6, <3>3 DEF PreflightPass, Verdict, ContentOf, Actions, TypeOK
    <3>5. held' \in [Appliers -> Seq(Contents)]
      BY <2>6, <3>4 DEF PreflightPass, TypeOK
    <3>6. QED
      BY <2>6, <3>2, <3>5 DEF PreflightPass, TypeOK
  <2>7. CASE PreflightThrow(a)
    <3>1. Verdict(stored[a].list, view[a].list[at[a]]) \in Outcomes
      BY DEF Verdict
    <3>2. QED
      BY <2>7, <3>1 DEF PreflightThrow, TypeOK
  <2>8. CASE PreflightDone(a)
    <3>1. at \in [Appliers -> Nat]
      BY DEF TypeOK
    <3>2. at' \in [Appliers -> Nat]
      BY <2>8, <3>1 DEF PreflightDone
    <3>3. QED
      BY <2>8, <3>2 DEF PreflightDone, TypeOK
  <2>9. QED
    BY <1>2, <2>1, <2>2, <2>3, <2>4, <2>5, <2>6, <2>7, <2>8 DEF Check
<1>3. ASSUME NEW a \in Appliers, Write(a) PROVE TypeOK'
  <2>1. CASE NextEntry(a)
    BY <2>1 DEF NextEntry, TypeOK
  <2>2. CASE OpenTemp(a)
    BY <2>2 DEF OpenTemp, TypeOK
  <2>3. CASE OpenTempExists(a)
    BY <2>3 DEF OpenTempExists, TypeOK
  <2>4. CASE FillTemp(a)
    BY <2>4 DEF FillTemp, TypeOK
  <2>5. CASE LinkTarget(a)
    <3>1. at[a] \in DOMAIN view[a].list /\ held[a][at[a]] \in Contents
      BY <2>5 DEF LinkTarget, TypeOK, HeldVerified, LoopsAligned
    <3>2. view[a].list \in Seq(Actions)
      BY DEF TypeOK
    <3>3. view[a].list[at[a]] \in Actions
      BY <3>1, <3>2
    <3>4. Target(a) \in Targets
      BY <3>3 DEF Target, Actions
    <3>5. written' \in [Appliers -> Seq(Targets)]
      BY <2>5, <3>4 DEF LinkTarget, TypeOK
    <3>6. files' \in [Targets -> Contents \cup {Absent, UserContent}]
      BY <2>5, <3>1, <3>4 DEF LinkTarget, TypeOK
    <3>7. QED
      BY <2>5, <3>4, <3>5, <3>6 DEF LinkTarget, TypeOK
  <2>6. CASE LinkTargetExists(a)
    BY <2>6 DEF LinkTargetExists, TypeOK
  <2>7. CASE RetryPrimitive(a)
    <3>1. retries \in [Appliers -> Nat]
      BY DEF TypeOK
    <3>2. retries' \in [Appliers -> Nat]
      BY <2>7, <3>1 DEF RetryPrimitive
    <3>3. QED
      BY <2>7, <3>2 DEF RetryPrimitive, TypeOK
  <2>8. CASE GiveUpPrimitive(a)
    <3>1. PICK code \in {"WRITE_LOCK_CONTENTION", "IO"} : outcome' = [outcome EXCEPT ![a] = code]
      BY <2>8 DEF GiveUpPrimitive
    <3>2. outcome \in [Appliers -> Outcomes] /\ code \in Outcomes
      BY <3>1 DEF TypeOK, Outcomes
    <3>3. outcome' \in [Appliers -> Outcomes]
      BY <3>1, <3>2
    <3>4. pc \in [Appliers -> PC] /\ "removeTemp" \in PC
      BY DEF TypeOK, PC, WritePC
    <3>5. pc' \in [Appliers -> PC]
      BY <2>8, <3>4 DEF GiveUpPrimitive, Go
    <3>6. QED
      BY <2>8, <3>3, <3>5 DEF GiveUpPrimitive, TypeOK
  <2>9. CASE RemoveTemp(a)
    <3>1. at \in [Appliers -> Nat]
      BY DEF TypeOK
    <3>2. at' \in [Appliers -> Nat]
      BY <2>9, <3>1 DEF RemoveTemp
    <3>3. QED
      BY <2>9, <3>2 DEF RemoveTemp, TypeOK
  <2>10. CASE RemoveTempFails(a)
    BY <2>10 DEF RemoveTempFails, TypeOK
  <2>11. CASE Release(a)
    BY <2>11 DEF Release, TypeOK
  <2>12. QED
    BY <1>3, <2>1, <2>2, <2>3, <2>4, <2>5, <2>6, <2>7, <2>8, <2>9, <2>10, <2>11 DEF Write
<1>4. ASSUME Environment PROVE TypeOK'
  <2>1. CASE LeaseRunsOut
    <3>1. meddling \in Nat
      BY DEF TypeOK
    <3>2. meddling' \in Nat
      BY <2>1, <3>1 DEF LeaseRunsOut, Meddle, Lock!Drop
    <3>3. QED
      BY <2>1, <3>2 DEF LeaseRunsOut, Meddle, Lock!Drop, TypeOK
  <2>2. CASE DeadLeaseRunsOut
    BY <2>2 DEF DeadLeaseRunsOut, Lock!Drop, TypeOK
  <2>3. ASSUME NEW t \in Targets, UserCreates(t) PROVE TypeOK'
    <3>1. meddling \in Nat
      BY DEF TypeOK
    <3>2. meddling' \in Nat
      BY <2>3, <3>1 DEF UserCreates, Meddle
    <3>3. QED
      BY <2>3, <3>2 DEF UserCreates, Meddle, TypeOK
  <2>4. ASSUME NEW t \in Targets, UserDeletes(t) PROVE TypeOK'
    <3>1. meddling \in Nat
      BY DEF TypeOK
    <3>2. meddling' \in Nat
      BY <2>4, <3>1 DEF UserDeletes, Meddle
    <3>3. QED
      BY <2>4, <3>2 DEF UserDeletes, Meddle, TypeOK
  <2>5. ASSUME NEW c \in Contents, StagingChanges(c) PROVE TypeOK'
    <3>1. meddling \in Nat
      BY DEF TypeOK
    <3>2. meddling' \in Nat
      BY <2>5, <3>1 DEF StagingChanges, Meddle
    <3>3. staging' \in [Contents -> Contents \cup {Absent}]
      BY <2>5 DEF StagingChanges, TypeOK
    <3>4. QED
      BY <2>5, <3>2, <3>3 DEF StagingChanges, Meddle, TypeOK
  <2>6. ASSUME NEW i \in Ids, PreviewEdited(i) PROVE TypeOK'
    <3>1. meddling \in Nat
      BY DEF TypeOK
    <3>2. meddling' \in Nat
      BY <2>6, <3>1 DEF PreviewEdited
    <3>3. PICK list \in Edits : previews' = [previews EXCEPT ![i].list = list]
      BY <2>6 DEF PreviewEdited
    <3>4. list \in Seq(Actions) /\ previews[i] \in Stored /\ previews \in [Ids -> Stored]
      BY DEF TypeOK
    <3>5. [previews[i] EXCEPT !.list = list] \in Stored
      BY <3>4
    <3>6. previews' \in [Ids -> Stored]
      BY <3>3, <3>4, <3>5
    <3>7. QED
      BY <2>6, <3>2, <3>6 DEF PreviewEdited, TypeOK
  <2>7. ASSUME NEW a \in Appliers, Crash(a) PROVE TypeOK'
    <3>1. crashes \in Nat
      BY DEF TypeOK
    <3>2. crashes' \in Nat
      BY <2>7, <3>1 DEF Crash
    <3>3. QED
      BY <2>7, <3>2 DEF Crash, TypeOK
  <2>8. QED
    BY <1>4, <2>1, <2>2, <2>3, <2>4, <2>5, <2>6, <2>7 DEF Environment
<1>5. CASE UNCHANGED vars
  BY <1>5 DEF vars, TypeOK
<1>6. QED
  BY <1>1, <1>2, <1>3, <1>4, <1>5 DEF Next

\* A temp sibling is made by open and goes with the removal that ends the entry.
LEMMA ApplyTempsStep == TypeOK /\ TempsInUse /\ [Next]_vars => TempsInUse'
<1> SUFFICES ASSUME TypeOK, TempsInUse, [Next]_vars PROVE TempsInUse'
  OBVIOUS
<1> USE ApplyAssumption
    DEF PC, ReadPC, WritePC, NoFile, Go, Throw, diskVars, authorVars, applierVars, envVars
<1>1. ASSUME NEW p \in Authors, Author(p) PROVE TempsInUse'
  <2>1. CASE CheckTargets(p)
    BY <2>1 DEF CheckTargets, TypeOK, TempsInUse
  <2>2. CASE WritePreview(p)
    BY <2>2 DEF WritePreview, TypeOK, TempsInUse
  <2>3. CASE WriteCheckpoint(p)
    BY <2>3 DEF WriteCheckpoint, TypeOK, TempsInUse
  <2>4. QED
    BY <1>1, <2>1, <2>2, <2>3 DEF Author
<1>2. ASSUME NEW a \in Appliers, Check(a) PROVE TempsInUse'
  <2>1. CASE TakeLock(a)
    BY <2>1 DEF TakeLock, Lock!Grant, TypeOK, TempsInUse
  <2>2. CASE LockRefused(a)
    BY <2>2 DEF LockRefused, TypeOK, TempsInUse
  <2>3. CASE ReadPreview(a)
    BY <2>3 DEF ReadPreview, TypeOK, TempsInUse
  <2>4. CASE ReadMissing(a)
    BY <2>4 DEF ReadMissing, TypeOK, TempsInUse
  <2>5. CASE ReadCheckpoint(a)
    BY <2>5 DEF ReadCheckpoint, TypeOK, TempsInUse
  <2>6. CASE PreflightPass(a)
    BY <2>6 DEF PreflightPass, TypeOK, TempsInUse
  <2>7. CASE PreflightThrow(a)
    BY <2>7 DEF PreflightThrow, TypeOK, TempsInUse
  <2>8. CASE PreflightDone(a)
    BY <2>8 DEF PreflightDone, TypeOK, TempsInUse
  <2>9. QED
    BY <1>2, <2>1, <2>2, <2>3, <2>4, <2>5, <2>6, <2>7, <2>8 DEF Check
<1>3. ASSUME NEW a \in Appliers, Write(a) PROVE TempsInUse'
  <2>1. CASE NextEntry(a)
    BY <2>1 DEF NextEntry, TypeOK, TempsInUse
  <2>2. CASE OpenTemp(a)
    BY <2>2 DEF OpenTemp, TypeOK, TempsInUse
  <2>3. CASE OpenTempExists(a)
    BY <2>3 DEF OpenTempExists, TypeOK, TempsInUse
  <2>4. CASE FillTemp(a)
    BY <2>4 DEF FillTemp, TypeOK, TempsInUse
  <2>5. CASE LinkTarget(a)
    BY <2>5 DEF LinkTarget, TypeOK, TempsInUse
  <2>6. CASE LinkTargetExists(a)
    BY <2>6 DEF LinkTargetExists, TypeOK, TempsInUse
  <2>7. CASE RetryPrimitive(a)
    BY <2>7 DEF RetryPrimitive, TypeOK, TempsInUse
  <2>8. CASE GiveUpPrimitive(a)
    BY <2>8 DEF GiveUpPrimitive, TypeOK, TempsInUse
  <2>9. CASE RemoveTemp(a)
    BY <2>9 DEF RemoveTemp, TypeOK, TempsInUse
  <2>10. CASE RemoveTempFails(a)
    BY <2>10 DEF RemoveTempFails, TypeOK, TempsInUse
  <2>11. CASE Release(a)
    BY <2>11 DEF Release, TypeOK, TempsInUse
  <2>12. QED
    BY <1>3, <2>1, <2>2, <2>3, <2>4, <2>5, <2>6, <2>7, <2>8, <2>9, <2>10, <2>11 DEF Write
<1>4. ASSUME Environment PROVE TempsInUse'
  <2>1. CASE LeaseRunsOut
    BY <2>1 DEF LeaseRunsOut, Meddle, Lock!Drop, TypeOK, TempsInUse
  <2>2. CASE DeadLeaseRunsOut
    BY <2>2 DEF DeadLeaseRunsOut, Lock!Drop, TypeOK, TempsInUse
  <2>3. ASSUME NEW t \in Targets, UserCreates(t) PROVE TempsInUse'
    BY <2>3 DEF UserCreates, Meddle, TypeOK, TempsInUse
  <2>4. ASSUME NEW t \in Targets, UserDeletes(t) PROVE TempsInUse'
    BY <2>4 DEF UserDeletes, Meddle, TypeOK, TempsInUse
  <2>5. ASSUME NEW c \in Contents, StagingChanges(c) PROVE TempsInUse'
    BY <2>5 DEF StagingChanges, Meddle, TypeOK, TempsInUse
  <2>6. ASSUME NEW i \in Ids, PreviewEdited(i) PROVE TempsInUse'
    BY <2>6 DEF PreviewEdited, TypeOK, TempsInUse
  <2>7. ASSUME NEW a \in Appliers, Crash(a) PROVE TempsInUse'
    BY <2>7 DEF Crash, TypeOK, TempsInUse
  <2>8. QED
    BY <1>4, <2>1, <2>2, <2>3, <2>4, <2>5, <2>6, <2>7 DEF Environment
<1>5. CASE UNCHANGED vars
  BY <1>5 DEF vars, TypeOK, TempsInUse
<1>6. QED
  BY <1>1, <1>2, <1>3, <1>4, <1>5 DEF Next

\* The checkpoint file of a manifest is written when the manifest is committed.
LEMMA ApplyCommittedStep == TypeOK /\ CheckpointsCommitted /\ [Next]_vars => CheckpointsCommitted'
<1> SUFFICES ASSUME TypeOK, CheckpointsCommitted, [Next]_vars PROVE CheckpointsCommitted'
  OBVIOUS
<1> USE ApplyAssumption
    DEF PC, ReadPC, WritePC, NoFile, Go, Throw, diskVars, authorVars, applierVars, envVars
<1>1. ASSUME NEW p \in Authors, Author(p) PROVE CheckpointsCommitted'
  <2>1. CASE CheckTargets(p)
    BY <2>1 DEF CheckTargets, TypeOK, CheckpointsCommitted, There, Stored
  <2>2. CASE WritePreview(p)
    BY <2>2 DEF WritePreview, TypeOK, CheckpointsCommitted, There, Stored
  <2>3. CASE WriteCheckpoint(p)
    BY <2>3 DEF WriteCheckpoint, TypeOK, CheckpointsCommitted, There, Stored
  <2>4. QED
    BY <1>1, <2>1, <2>2, <2>3 DEF Author
<1>2. ASSUME NEW a \in Appliers, Check(a) PROVE CheckpointsCommitted'
  <2>1. CASE TakeLock(a)
    BY <2>1 DEF TakeLock, Lock!Grant, TypeOK, CheckpointsCommitted, There, Stored
  <2>2. CASE LockRefused(a)
    BY <2>2 DEF LockRefused, TypeOK, CheckpointsCommitted, There, Stored
  <2>3. CASE ReadPreview(a)
    BY <2>3 DEF ReadPreview, TypeOK, CheckpointsCommitted, There, Stored
  <2>4. CASE ReadMissing(a)
    BY <2>4 DEF ReadMissing, TypeOK, CheckpointsCommitted, There, Stored
  <2>5. CASE ReadCheckpoint(a)
    BY <2>5 DEF ReadCheckpoint, TypeOK, CheckpointsCommitted, There, Stored
  <2>6. CASE PreflightPass(a)
    BY <2>6 DEF PreflightPass, TypeOK, CheckpointsCommitted, There, Stored
  <2>7. CASE PreflightThrow(a)
    BY <2>7 DEF PreflightThrow, TypeOK, CheckpointsCommitted, There, Stored
  <2>8. CASE PreflightDone(a)
    BY <2>8 DEF PreflightDone, TypeOK, CheckpointsCommitted, There, Stored
  <2>9. QED
    BY <1>2, <2>1, <2>2, <2>3, <2>4, <2>5, <2>6, <2>7, <2>8 DEF Check
<1>3. ASSUME NEW a \in Appliers, Write(a) PROVE CheckpointsCommitted'
  <2>1. CASE NextEntry(a)
    BY <2>1 DEF NextEntry, TypeOK, CheckpointsCommitted, There, Stored
  <2>2. CASE OpenTemp(a)
    BY <2>2 DEF OpenTemp, TypeOK, CheckpointsCommitted, There, Stored
  <2>3. CASE OpenTempExists(a)
    BY <2>3 DEF OpenTempExists, TypeOK, CheckpointsCommitted, There, Stored
  <2>4. CASE FillTemp(a)
    BY <2>4 DEF FillTemp, TypeOK, CheckpointsCommitted, There, Stored
  <2>5. CASE LinkTarget(a)
    BY <2>5 DEF LinkTarget, TypeOK, CheckpointsCommitted, There, Stored
  <2>6. CASE LinkTargetExists(a)
    BY <2>6 DEF LinkTargetExists, TypeOK, CheckpointsCommitted, There, Stored
  <2>7. CASE RetryPrimitive(a)
    BY <2>7 DEF RetryPrimitive, TypeOK, CheckpointsCommitted, There, Stored
  <2>8. CASE GiveUpPrimitive(a)
    BY <2>8 DEF GiveUpPrimitive, TypeOK, CheckpointsCommitted, There, Stored
  <2>9. CASE RemoveTemp(a)
    BY <2>9 DEF RemoveTemp, TypeOK, CheckpointsCommitted, There, Stored
  <2>10. CASE RemoveTempFails(a)
    BY <2>10 DEF RemoveTempFails, TypeOK, CheckpointsCommitted, There, Stored
  <2>11. CASE Release(a)
    BY <2>11 DEF Release, TypeOK, CheckpointsCommitted, There, Stored
  <2>12. QED
    BY <1>3, <2>1, <2>2, <2>3, <2>4, <2>5, <2>6, <2>7, <2>8, <2>9, <2>10, <2>11 DEF Write
<1>4. ASSUME Environment PROVE CheckpointsCommitted'
  <2>1. CASE LeaseRunsOut
    BY <2>1 DEF LeaseRunsOut, Meddle, Lock!Drop, TypeOK, CheckpointsCommitted, There, Stored
  <2>2. CASE DeadLeaseRunsOut
    BY <2>2 DEF DeadLeaseRunsOut, Lock!Drop, TypeOK, CheckpointsCommitted, There, Stored
  <2>3. ASSUME NEW t \in Targets, UserCreates(t) PROVE CheckpointsCommitted'
    BY <2>3 DEF UserCreates, Meddle, TypeOK, CheckpointsCommitted, There, Stored
  <2>4. ASSUME NEW t \in Targets, UserDeletes(t) PROVE CheckpointsCommitted'
    BY <2>4 DEF UserDeletes, Meddle, TypeOK, CheckpointsCommitted, There, Stored
  <2>5. ASSUME NEW c \in Contents, StagingChanges(c) PROVE CheckpointsCommitted'
    BY <2>5 DEF StagingChanges, Meddle, TypeOK, CheckpointsCommitted, There, Stored
  <2>6. ASSUME NEW i \in Ids, PreviewEdited(i) PROVE CheckpointsCommitted'
    BY <2>6 DEF PreviewEdited, TypeOK, CheckpointsCommitted, There, Stored
  <2>7. ASSUME NEW a \in Appliers, Crash(a) PROVE CheckpointsCommitted'
    BY <2>7 DEF Crash, TypeOK, CheckpointsCommitted, There, Stored
  <2>8. QED
    BY <1>4, <2>1, <2>2, <2>3, <2>4, <2>5, <2>6, <2>7 DEF Environment
<1>5. CASE UNCHANGED vars
  BY <1>5 DEF vars, TypeOK, CheckpointsCommitted, There, Stored
<1>6. QED
  BY <1>1, <1>2, <1>3, <1>4, <1>5 DEF Next

\* A content is held once its hash agrees with an entry of the checkpoint.
LEMMA ApplyHeldStep == TypeOK /\ HeldVerified /\ LoopsAligned /\ [Next]_vars => HeldVerified'
<1> SUFFICES ASSUME TypeOK, HeldVerified, LoopsAligned, [Next]_vars PROVE HeldVerified'
  OBVIOUS
<1> USE ApplyAssumption
    DEF PC, ReadPC, WritePC, NoFile, Go, Throw, diskVars, authorVars, applierVars, envVars
<1>1. ASSUME UNCHANGED <<view, stored, held>> PROVE HeldVerified'
  BY <1>1 DEF HeldVerified, There
<1>2. held \in [Appliers -> Seq(Contents)] /\ view \in [Appliers -> Stored]
      /\ stored \in [Appliers -> Stored] /\ pc \in [Appliers -> PC]
  BY DEF TypeOK
<1>3. ASSUME NEW p \in Authors, Author(p) PROVE HeldVerified'
  <2>1. CASE CheckTargets(p)
    BY <2>1, <1>1 DEF CheckTargets
  <2>2. CASE WritePreview(p)
    BY <2>2, <1>1 DEF WritePreview
  <2>3. CASE WriteCheckpoint(p)
    BY <2>3, <1>1 DEF WriteCheckpoint
  <2>4. QED
    BY <1>3, <2>1, <2>2, <2>3 DEF Author
<1>4. ASSUME NEW a \in Appliers, Check(a) PROVE HeldVerified'
  <2>1. CASE TakeLock(a)
    BY <2>1, <1>1 DEF TakeLock, Lock!Grant
  <2>2. CASE LockRefused(a)
    BY <2>2, <1>1 DEF LockRefused
  <2>3. CASE ReadPreview(a)
    <3>1. DOMAIN held[a] = {}
      BY <2>3 DEF ReadPreview, LoopsAligned
    <3>2. /\ stored' = stored /\ held' = held
          /\ \A b \in Appliers : b # a => view'[b] = view[b]
      BY <2>3, <1>2 DEF ReadPreview
    <3>3. QED
      BY <3>1, <3>2 DEF HeldVerified, There
  <2>4. CASE ReadMissing(a)
    BY <2>4, <1>1 DEF ReadMissing
  <2>5. CASE ReadCheckpoint(a)
    <3>1. DOMAIN held[a] = {}
      BY <2>5 DEF ReadCheckpoint, LoopsAligned
    <3>2. /\ view' = view /\ held' = held
          /\ \A b \in Appliers : b # a => stored'[b] = stored[b]
      BY <2>5, <1>2 DEF ReadCheckpoint
    <3>3. QED
      BY <3>1, <3>2 DEF HeldVerified, There
  <2>6. CASE PreflightPass(a)
    <3>1. /\ held[a] \in Seq(Contents) /\ at[a] \in Nat /\ view[a].list \in Seq(Actions)
          /\ stored[a].list \in Seq(Actions)
      BY DEF TypeOK, Stored
    <3>2. There(stored[a]) /\ Len(held[a]) = at[a] - 1 /\ at[a] \in DOMAIN view[a].list
      BY <2>6 DEF PreflightPass, LoopsAligned
    <3> DEFINE c == ContentOf(view[a].list[at[a]])
    <3>3. /\ c = view[a].list[at[a]].sha
          /\ StoredSha(stored[a].list, view[a].list[at[a]])
      BY <2>6 DEF PreflightPass, Verdict
    <3>4. \E j \in DOMAIN stored[a].list :
            stored[a].list[j].name = view[a].list[at[a]].name /\ stored[a].list[j].sha = c
      BY <3>3 DEF StoredSha
    <3>5. view' = view /\ stored' = stored /\ held' = [held EXCEPT ![a] = Append(held[a], c)]
      BY <2>6 DEF PreflightPass
    <3>6. c \in Contents
      <4>1. view[a].list[at[a]] \in Actions
        BY <3>1, <3>2
      <4>2. QED
        BY <3>3, <4>1 DEF Actions
    <3>7. /\ DOMAIN Append(held[a], c) = 1..at[a]
          /\ Append(held[a], c)[at[a]] = c
          /\ \A k \in 1..at[a] : k # at[a] => k \in DOMAIN held[a] /\ Append(held[a], c)[k] = held[a][k]
      BY <3>1, <3>2, <3>6
    <3>8. held'[a] = Append(held[a], c) /\ \A b \in Appliers : b # a => held'[b] = held[b]
      BY <3>5, <1>2
    <3> HIDE DEF c
    <3>9. ASSUME NEW b \in Appliers, NEW k \in DOMAIN held'[b]
          PROVE  /\ k \in DOMAIN view[b].list
                 /\ There(stored[b])
                 /\ \E j \in DOMAIN stored[b].list :
                       /\ stored[b].list[j].name = view[b].list[k].name
                       /\ stored[b].list[j].sha = held'[b][k]
      <4>1. CASE b # a
        BY <3>8, <4>1 DEF HeldVerified
      <4>2. CASE b = a /\ k # at[a]
        <5>1. k \in DOMAIN held[a] /\ held'[a][k] = held[a][k]
          BY <3>7, <3>8, <4>2
        <5>2. QED
          BY <4>2, <5>1 DEF HeldVerified
      <4>3. CASE b = a /\ k = at[a]
        BY <3>2, <3>4, <3>7, <3>8, <4>3
      <4>4. QED
        BY <4>1, <4>2, <4>3
    <3>10. view' = view /\ stored' = stored
      BY <3>5
    <3>11. QED
      BY <3>9, <3>10 DEF HeldVerified, There
  <2>7. CASE PreflightThrow(a)
    BY <2>7, <1>1 DEF PreflightThrow
  <2>8. CASE PreflightDone(a)
    BY <2>8, <1>1 DEF PreflightDone
  <2>9. QED
    BY <1>4, <2>1, <2>2, <2>3, <2>4, <2>5, <2>6, <2>7, <2>8 DEF Check
<1>5. ASSUME NEW a \in Appliers, Write(a) PROVE HeldVerified'
  <2>1. CASE NextEntry(a)
    BY <2>1, <1>1 DEF NextEntry
  <2>2. CASE OpenTemp(a)
    BY <2>2, <1>1 DEF OpenTemp
  <2>3. CASE OpenTempExists(a)
    BY <2>3, <1>1 DEF OpenTempExists
  <2>4. CASE FillTemp(a)
    BY <2>4, <1>1 DEF FillTemp
  <2>5. CASE LinkTarget(a)
    BY <2>5, <1>1 DEF LinkTarget
  <2>6. CASE LinkTargetExists(a)
    BY <2>6, <1>1 DEF LinkTargetExists
  <2>7. CASE RetryPrimitive(a)
    BY <2>7, <1>1 DEF RetryPrimitive
  <2>8. CASE GiveUpPrimitive(a)
    BY <2>8, <1>1 DEF GiveUpPrimitive
  <2>9. CASE RemoveTemp(a)
    BY <2>9, <1>1 DEF RemoveTemp
  <2>10. CASE RemoveTempFails(a)
    BY <2>10, <1>1 DEF RemoveTempFails
  <2>11. CASE Release(a)
    BY <2>11, <1>1 DEF Release
  <2>12. QED
    BY <1>5, <2>1, <2>2, <2>3, <2>4, <2>5, <2>6, <2>7, <2>8, <2>9, <2>10, <2>11 DEF Write
<1>6. ASSUME Environment PROVE HeldVerified'
  <2>1. CASE LeaseRunsOut
    BY <2>1, <1>1 DEF LeaseRunsOut, Meddle, Lock!Drop
  <2>2. CASE DeadLeaseRunsOut
    BY <2>2, <1>1 DEF DeadLeaseRunsOut, Lock!Drop
  <2>3. ASSUME NEW t \in Targets, UserCreates(t) PROVE HeldVerified'
    BY <2>3, <1>1 DEF UserCreates, Meddle
  <2>4. ASSUME NEW t \in Targets, UserDeletes(t) PROVE HeldVerified'
    BY <2>4, <1>1 DEF UserDeletes, Meddle
  <2>5. ASSUME NEW c \in Contents, StagingChanges(c) PROVE HeldVerified'
    BY <2>5, <1>1 DEF StagingChanges, Meddle
  <2>6. ASSUME NEW i \in Ids, PreviewEdited(i) PROVE HeldVerified'
    BY <2>6, <1>1 DEF PreviewEdited
  <2>7. ASSUME NEW a \in Appliers, Crash(a) PROVE HeldVerified'
    BY <2>7, <1>1 DEF Crash
  <2>8. QED
    BY <1>6, <2>1, <2>2, <2>3, <2>4, <2>5, <2>6, <2>7 DEF Environment
<1>7. CASE UNCHANGED vars
  BY <1>7, <1>1 DEF vars
<1>8. QED
  BY <1>3, <1>4, <1>5, <1>6, <1>7 DEF Next

\* at counts the actions the current loop has done.
LEMMA ApplyLoopsStep == TypeOK /\ LoopsAligned /\ [Next]_vars => LoopsAligned'
<1> SUFFICES ASSUME TypeOK, LoopsAligned, [Next]_vars PROVE LoopsAligned'
  OBVIOUS
<1> USE ApplyAssumption
    DEF PC, ReadPC, WritePC, NoFile, Go, Throw, diskVars, authorVars, applierVars, envVars
<1>1. pc \in [Appliers -> PC] /\ at \in [Appliers -> Nat]
      /\ held \in [Appliers -> Seq(Contents)] /\ stored \in [Appliers -> Stored]
      /\ outcome \in [Appliers -> Outcomes]
  BY DEF TypeOK
<1>2. \A a \in Appliers : view[a].list \in Seq(Actions)
  BY DEF TypeOK, Stored
<1>3. ASSUME NEW p \in Authors, Author(p) PROVE LoopsAligned'
  <2>1. CASE CheckTargets(p)
    BY <2>1, <1>1 DEF CheckTargets, LoopsAligned, There
  <2>2. CASE WritePreview(p)
    BY <2>2, <1>1 DEF WritePreview, LoopsAligned, There
  <2>3. CASE WriteCheckpoint(p)
    BY <2>3, <1>1 DEF WriteCheckpoint, LoopsAligned, There
  <2>4. QED
    BY <1>3, <2>1, <2>2, <2>3 DEF Author
<1>4. ASSUME NEW a \in Appliers, Check(a) PROVE LoopsAligned'
  <2>1. CASE TakeLock(a)
    BY <2>1, <1>1 DEF TakeLock, Lock!Grant, LoopsAligned, There
  <2>2. CASE LockRefused(a)
    BY <2>2, <1>1 DEF LockRefused, LoopsAligned, There
  <2>3. CASE ReadPreview(a)
    BY <2>3, <1>1 DEF ReadPreview, LoopsAligned, There
  <2>4. CASE ReadMissing(a)
    BY <2>4, <1>1 DEF ReadMissing, LoopsAligned, There
  <2>5. CASE ReadCheckpoint(a)
    <3>1. held[a] = <<>> /\ at[a] = 1 /\ Len(held[a]) = 0 /\ outcome[a] = "none"
      BY <2>5 DEF ReadCheckpoint, LoopsAligned
    <3>2. There(stored[a])' /\ \A b \in Appliers : b # a => stored'[b] = stored[b]
      BY <2>5, <1>1 DEF ReadCheckpoint, There
    <3>3. CASE view[a].hash = checkpoints[job[a]].hash
      BY <2>5, <1>1, <3>1, <3>2, <3>3 DEF ReadCheckpoint, LoopsAligned, There
    <3>4. CASE view[a].hash # checkpoints[job[a]].hash
      BY <2>5, <1>1, <3>1, <3>2, <3>4 DEF ReadCheckpoint, LoopsAligned, There
    <3>5. QED
      BY <3>3, <3>4
  <2>6. CASE PreflightPass(a)
    <3>1. /\ held[a] \in Seq(Contents) /\ at[a] \in Nat /\ at[a] \in DOMAIN view[a].list
          /\ view[a].list \in Seq(Actions)
      BY <2>6, <1>1, <1>2 DEF PreflightPass
    <3>2. view[a].list[at[a]] \in Actions
      BY <3>1
    <3>3. ContentOf(view[a].list[at[a]]) \in Contents
      BY <2>6, <3>2 DEF PreflightPass, Verdict, Actions
    <3>4. Len(Append(held[a], ContentOf(view[a].list[at[a]]))) = Len(held[a]) + 1
      BY <3>1, <3>3
    <3>5. QED
      BY <2>6, <1>1, <3>1, <3>4 DEF PreflightPass, LoopsAligned, There
  <2>7. CASE PreflightThrow(a)
    BY <2>7, <1>1 DEF PreflightThrow, LoopsAligned, There
  <2>8. CASE PreflightDone(a)
    BY <2>8, <1>1 DEF PreflightDone, LoopsAligned, There
  <2>9. QED
    BY <1>4, <2>1, <2>2, <2>3, <2>4, <2>5, <2>6, <2>7, <2>8 DEF Check
<1>5. ASSUME NEW a \in Appliers, Write(a) PROVE LoopsAligned'
  <2>1. CASE NextEntry(a)
    <3>1. CASE at[a] \in DOMAIN held[a]
      BY <2>1, <1>1, <3>1 DEF NextEntry, LoopsAligned, There
    <3>2. CASE at[a] \notin DOMAIN held[a]
      BY <2>1, <1>1, <3>2 DEF NextEntry, LoopsAligned, There
    <3>3. QED
      BY <3>1, <3>2
  <2>2. CASE OpenTemp(a)
    BY <2>2, <1>1 DEF OpenTemp, LoopsAligned, There
  <2>3. CASE OpenTempExists(a)
    BY <2>3, <1>1 DEF OpenTempExists, LoopsAligned, There
  <2>4. CASE FillTemp(a)
    BY <2>4, <1>1 DEF FillTemp, LoopsAligned, There
  <2>5. CASE LinkTarget(a)
    BY <2>5, <1>1 DEF LinkTarget, LoopsAligned, There
  <2>6. CASE LinkTargetExists(a)
    BY <2>6, <1>1 DEF LinkTargetExists, LoopsAligned, There
  <2>7. CASE RetryPrimitive(a)
    BY <2>7, <1>1 DEF RetryPrimitive, LoopsAligned, There
  <2>8. CASE GiveUpPrimitive(a)
    BY <2>8, <1>1 DEF GiveUpPrimitive, LoopsAligned, There
  <2>9. CASE RemoveTemp(a)
    <3>1. CASE outcome[a] = "none"
      BY <2>9, <1>1, <3>1 DEF RemoveTemp, LoopsAligned, There
    <3>2. CASE outcome[a] # "none"
      BY <2>9, <1>1, <3>2 DEF RemoveTemp, LoopsAligned, There
    <3>3. QED
      BY <3>1, <3>2
  <2>10. CASE RemoveTempFails(a)
    BY <2>10, <1>1 DEF RemoveTempFails, LoopsAligned, There
  <2>11. CASE Release(a)
    BY <2>11, <1>1 DEF Release, LoopsAligned, There
  <2>12. QED
    BY <1>5, <2>1, <2>2, <2>3, <2>4, <2>5, <2>6, <2>7, <2>8, <2>9, <2>10, <2>11 DEF Write
<1>6. ASSUME Environment PROVE LoopsAligned'
  <2>1. CASE LeaseRunsOut
    BY <2>1, <1>1 DEF LeaseRunsOut, Meddle, Lock!Drop, LoopsAligned, There
  <2>2. CASE DeadLeaseRunsOut
    BY <2>2, <1>1 DEF DeadLeaseRunsOut, Lock!Drop, LoopsAligned, There
  <2>3. ASSUME NEW t \in Targets, UserCreates(t) PROVE LoopsAligned'
    BY <2>3, <1>1 DEF UserCreates, Meddle, LoopsAligned, There
  <2>4. ASSUME NEW t \in Targets, UserDeletes(t) PROVE LoopsAligned'
    BY <2>4, <1>1 DEF UserDeletes, Meddle, LoopsAligned, There
  <2>5. ASSUME NEW c \in Contents, StagingChanges(c) PROVE LoopsAligned'
    BY <2>5, <1>1 DEF StagingChanges, Meddle, LoopsAligned, There
  <2>6. ASSUME NEW i \in Ids, PreviewEdited(i) PROVE LoopsAligned'
    BY <2>6, <1>1 DEF PreviewEdited, LoopsAligned, There
  <2>7. ASSUME NEW a \in Appliers, Crash(a) PROVE LoopsAligned'
    BY <2>7, <1>1 DEF Crash, LoopsAligned, There
  <2>8. QED
    BY <1>6, <2>1, <2>2, <2>3, <2>4, <2>5, <2>6, <2>7 DEF Environment
<1>7. CASE UNCHANGED vars
  BY <1>7, <1>1 DEF vars, LoopsAligned, There
<1>8. QED
  BY <1>3, <1>4, <1>5, <1>6, <1>7 DEF Next

\* Writing starts where the pre-flight loop ends.
LEMMA ApplyPassedStep == TypeOK /\ HeldVerified /\ LoopsAligned /\ WritersPassed /\ [Next]_vars => WritersPassed'
<1> SUFFICES ASSUME TypeOK, HeldVerified, LoopsAligned, WritersPassed, [Next]_vars PROVE WritersPassed'
  OBVIOUS
<1> USE ApplyAssumption
    DEF PC, ReadPC, WritePC, NoFile, Go, Throw, diskVars, authorVars, applierVars, envVars
<1>1. ASSUME NEW p \in Authors, Author(p) PROVE WritersPassed'
  <2>1. CASE CheckTargets(p)
    BY <2>1 DEF CheckTargets, WritersPassed, PreflightFailures, TypeOK
  <2>2. CASE WritePreview(p)
    BY <2>2 DEF WritePreview, WritersPassed, PreflightFailures, TypeOK
  <2>3. CASE WriteCheckpoint(p)
    BY <2>3 DEF WriteCheckpoint, WritersPassed, PreflightFailures, TypeOK
  <2>4. QED
    BY <1>1, <2>1, <2>2, <2>3 DEF Author
<1>2. ASSUME NEW a \in Appliers, Check(a) PROVE WritersPassed'
  <2>1. CASE TakeLock(a)
    BY <2>1 DEF TakeLock, Lock!Grant, WritersPassed, PreflightFailures, TypeOK
  <2>2. CASE LockRefused(a)
    BY <2>2 DEF LockRefused, WritersPassed, PreflightFailures, TypeOK
  <2>3. CASE ReadPreview(a)
    BY <2>3 DEF ReadPreview, WritersPassed, PreflightFailures, TypeOK
  <2>4. CASE ReadMissing(a)
    BY <2>4 DEF ReadMissing, WritersPassed, PreflightFailures, TypeOK
  <2>5. CASE ReadCheckpoint(a)
    <3>1. written[a] = <<>> /\ a \notin temps
      BY <2>5 DEF ReadCheckpoint, WritersPassed
    <3>2. pc \in [Appliers -> PC] /\ outcome \in [Appliers -> Outcomes]
      BY DEF TypeOK
    <3>3. /\ pc'[a] \in {"preflight", "release"}
          /\ \A b \in Appliers : b # a => pc'[b] = pc[b] /\ outcome'[b] = outcome[b]
          /\ UNCHANGED <<written, temps, held, view>>
      BY <2>5, <3>2 DEF ReadCheckpoint
    <3>4. QED
      BY <3>1, <3>3 DEF WritersPassed
  <2>6. CASE PreflightPass(a)
    BY <2>6 DEF PreflightPass, WritersPassed, PreflightFailures, TypeOK
  <2>7. CASE PreflightThrow(a)
    BY <2>7 DEF PreflightThrow, WritersPassed, PreflightFailures, TypeOK
  <2>8. CASE PreflightDone(a)
    <3>1. held[a] \in Seq(Contents) /\ at[a] \in Nat /\ view[a].list \in Seq(Actions)
      BY DEF TypeOK, Stored
    <3>2. Len(held[a]) = at[a] - 1 /\ at[a] \notin DOMAIN view[a].list
      BY <2>8 DEF PreflightDone, LoopsAligned
    <3>3. \A k \in DOMAIN held[a] : k \in DOMAIN view[a].list
      BY DEF HeldVerified
    <3>4. Len(held[a]) = Len(view[a].list)
      <4>1. /\ Len(held[a]) \in Nat /\ Len(view[a].list) \in Nat
            /\ DOMAIN held[a] = 1..Len(held[a]) /\ DOMAIN view[a].list = 1..Len(view[a].list)
        BY <3>1
      <4>2. Len(held[a]) >= Len(view[a].list)
        BY <3>1, <3>2, <4>1
      <4>3. Len(held[a]) # 0 => Len(held[a]) \in DOMAIN held[a]
        BY <4>1
      <4>4. Len(held[a]) <= Len(view[a].list)
        BY <3>3, <4>1, <4>3
      <4>5. QED
        BY <4>1, <4>2, <4>4
    <3>5. outcome[a] \notin PreflightFailures
      BY <2>8 DEF PreflightDone, LoopsAligned, PreflightFailures
    <3>6. QED
      BY <2>8, <3>4, <3>5 DEF PreflightDone, WritersPassed, TypeOK
  <2>9. QED
    BY <1>2, <2>1, <2>2, <2>3, <2>4, <2>5, <2>6, <2>7, <2>8 DEF Check
<1>3. ASSUME NEW a \in Appliers, Write(a) PROVE WritersPassed'
  <2>1. CASE NextEntry(a)
    <3>1. Len(held[a]) = Len(view[a].list) /\ outcome[a] \notin PreflightFailures
      BY <2>1 DEF NextEntry, WritersPassed
    <3>2. CASE at[a] \in DOMAIN held[a]
      BY <2>1, <3>1, <3>2 DEF NextEntry, WritersPassed, TypeOK
    <3>3. CASE at[a] \notin DOMAIN held[a]
      BY <2>1, <3>1, <3>3 DEF NextEntry, WritersPassed, TypeOK, PreflightFailures
    <3>4. QED
      BY <3>2, <3>3
  <2>2. CASE OpenTemp(a)
    BY <2>2 DEF OpenTemp, WritersPassed, PreflightFailures, TypeOK
  <2>3. CASE OpenTempExists(a)
    BY <2>3 DEF OpenTempExists, WritersPassed, PreflightFailures, TypeOK
  <2>4. CASE FillTemp(a)
    BY <2>4 DEF FillTemp, WritersPassed, PreflightFailures, TypeOK
  <2>5. CASE LinkTarget(a)
    BY <2>5 DEF LinkTarget, WritersPassed, PreflightFailures, TypeOK
  <2>6. CASE LinkTargetExists(a)
    BY <2>6 DEF LinkTargetExists, WritersPassed, PreflightFailures, TypeOK
  <2>7. CASE RetryPrimitive(a)
    BY <2>7 DEF RetryPrimitive, WritersPassed, PreflightFailures, TypeOK
  <2>8. CASE GiveUpPrimitive(a)
    BY <2>8 DEF GiveUpPrimitive, WritersPassed, PreflightFailures, TypeOK
  <2>9. CASE RemoveTemp(a)
    BY <2>9 DEF RemoveTemp, WritersPassed, PreflightFailures, TypeOK
  <2>10. CASE RemoveTempFails(a)
    BY <2>10 DEF RemoveTempFails, WritersPassed, PreflightFailures, TypeOK
  <2>11. CASE Release(a)
    BY <2>11 DEF Release, WritersPassed, PreflightFailures, TypeOK
  <2>12. QED
    BY <1>3, <2>1, <2>2, <2>3, <2>4, <2>5, <2>6, <2>7, <2>8, <2>9, <2>10, <2>11 DEF Write
<1>4. ASSUME Environment PROVE WritersPassed'
  <2>1. CASE LeaseRunsOut
    BY <2>1 DEF LeaseRunsOut, Meddle, Lock!Drop, WritersPassed, PreflightFailures, TypeOK
  <2>2. CASE DeadLeaseRunsOut
    BY <2>2 DEF DeadLeaseRunsOut, Lock!Drop, WritersPassed, PreflightFailures, TypeOK
  <2>3. ASSUME NEW t \in Targets, UserCreates(t) PROVE WritersPassed'
    BY <2>3 DEF UserCreates, Meddle, WritersPassed, PreflightFailures, TypeOK
  <2>4. ASSUME NEW t \in Targets, UserDeletes(t) PROVE WritersPassed'
    BY <2>4 DEF UserDeletes, Meddle, WritersPassed, PreflightFailures, TypeOK
  <2>5. ASSUME NEW c \in Contents, StagingChanges(c) PROVE WritersPassed'
    BY <2>5 DEF StagingChanges, Meddle, WritersPassed, PreflightFailures, TypeOK
  <2>6. ASSUME NEW i \in Ids, PreviewEdited(i) PROVE WritersPassed'
    BY <2>6 DEF PreviewEdited, WritersPassed, PreflightFailures, TypeOK
  <2>7. ASSUME NEW a \in Appliers, Crash(a) PROVE WritersPassed'
    BY <2>7 DEF Crash, WritersPassed, PreflightFailures, TypeOK
  <2>8. QED
    BY <1>4, <2>1, <2>2, <2>3, <2>4, <2>5, <2>6, <2>7 DEF Environment
<1>5. CASE UNCHANGED vars
  BY <1>5 DEF vars, WritersPassed, PreflightFailures, TypeOK
<1>6. QED
  BY <1>1, <1>2, <1>3, <1>4, <1>5 DEF Next

\* No step changes which manifest a call is about.
LEMMA ApplyJobsStay == ASSUME [Next]_vars PROVE job' = job /\ draft' = draft
<1>1. ASSUME NEW p \in Authors, Author(p) PROVE job' = job /\ draft' = draft
  BY <1>1 DEF Author, CheckTargets, WritePreview, WriteCheckpoint, applierVars
<1>2. ASSUME NEW a \in Appliers, Check(a) PROVE job' = job /\ draft' = draft
  BY <1>2 DEF Check, TakeLock, LockRefused, ReadPreview, ReadMissing, ReadCheckpoint, PreflightPass,
              PreflightThrow, PreflightDone, authorVars
<1>3. ASSUME NEW a \in Appliers, Write(a) PROVE job' = job /\ draft' = draft
  BY <1>3
  DEF Write, NextEntry, OpenTemp, OpenTempExists, FillTemp, LinkTarget, LinkTargetExists,
      RetryPrimitive, GiveUpPrimitive, RemoveTemp, RemoveTempFails, Release, authorVars
<1>4. CASE Environment
  BY <1>4
  DEF Environment, LeaseRunsOut, DeadLeaseRunsOut, UserCreates, UserDeletes, StagingChanges,
      PreviewEdited, Crash, Meddle, authorVars, applierVars
<1>5. CASE UNCHANGED vars
  BY <1>5 DEF vars, authorVars, applierVars
<1>6. QED
  BY <1>1, <1>2, <1>3, <1>4, <1>5 DEF Next

\* The content linked is the one the pre-flight verified, not the staging file of now.
LEMMA ApplyWrittenStep == TypeOK /\ CheckpointsCommitted /\ HeldVerified /\ LoopsAligned /\ WrittenAsCommitted /\ [Next]_vars => WrittenAsCommitted'
<1> SUFFICES ASSUME TypeOK, CheckpointsCommitted, HeldVerified, LoopsAligned, WrittenAsCommitted, [Next]_vars PROVE WrittenAsCommitted'
  OBVIOUS
<1> USE ApplyAssumption
    DEF PC, ReadPC, WritePC, NoFile, Go, Throw, diskVars, authorVars, applierVars, envVars
<1>0. job' = job
  BY ApplyJobsStay
<1>1. ASSUME UNCHANGED <<files, maker, committed>> PROVE WrittenAsCommitted'
  BY <1>0, <1>1 DEF WrittenAsCommitted, Asks
<1>2. files \in [Targets -> Contents \cup {Absent, UserContent}]
      /\ maker \in [Targets -> Appliers \cup {NoOwner}]
  BY DEF TypeOK
<1>3. ASSUME NEW p \in Authors, Author(p) PROVE WrittenAsCommitted'
  <2>1. CASE CheckTargets(p)
    BY <2>1, <1>1 DEF CheckTargets
  <2>2. CASE WritePreview(p)
    BY <2>2, <1>1 DEF WritePreview
  <2>3. CASE WriteCheckpoint(p)
    BY <1>0, <2>3 DEF WriteCheckpoint, WrittenAsCommitted, Asks
  <2>4. QED
    BY <1>3, <2>1, <2>2, <2>3 DEF Author
<1>4. ASSUME NEW a \in Appliers, Check(a) PROVE WrittenAsCommitted'
  <2>1. CASE TakeLock(a)
    BY <2>1, <1>1 DEF TakeLock, Lock!Grant
  <2>2. CASE LockRefused(a)
    BY <2>2, <1>1 DEF LockRefused
  <2>3. CASE ReadPreview(a)
    BY <2>3, <1>1 DEF ReadPreview
  <2>4. CASE ReadMissing(a)
    BY <2>4, <1>1 DEF ReadMissing
  <2>5. CASE ReadCheckpoint(a)
    BY <2>5, <1>1 DEF ReadCheckpoint
  <2>6. CASE PreflightPass(a)
    BY <2>6, <1>1 DEF PreflightPass
  <2>7. CASE PreflightThrow(a)
    BY <2>7, <1>1 DEF PreflightThrow
  <2>8. CASE PreflightDone(a)
    BY <2>8, <1>1 DEF PreflightDone
  <2>9. QED
    BY <1>4, <2>1, <2>2, <2>3, <2>4, <2>5, <2>6, <2>7, <2>8 DEF Check
<1>5. ASSUME NEW a \in Appliers, Write(a) PROVE WrittenAsCommitted'
  <2>1. CASE NextEntry(a)
    BY <2>1, <1>1 DEF NextEntry
  <2>2. CASE OpenTemp(a)
    BY <2>2, <1>1 DEF OpenTemp
  <2>3. CASE OpenTempExists(a)
    BY <2>3, <1>1 DEF OpenTempExists
  <2>4. CASE FillTemp(a)
    BY <2>4, <1>1 DEF FillTemp
  <2>5. CASE LinkTarget(a)
    <3>1. PICK j \in DOMAIN stored[a].list :
            /\ stored[a].list[j].name = view[a].list[at[a]].name
            /\ stored[a].list[j].sha = held[a][at[a]]
      BY <2>5 DEF LinkTarget, HeldVerified, LoopsAligned
    <3>2. stored[a].list \in committed /\ IdOf[stored[a].list] = job[a]
      BY <2>5 DEF LinkTarget, HeldVerified, LoopsAligned, CheckpointsCommitted
    <3>3. Asks(stored[a].list, Target(a), held[a][at[a]])
      BY <3>1 DEF Asks, Target
    <3>4. /\ files' = [files EXCEPT ![Target(a)] = held[a][at[a]]]
          /\ maker' = [maker EXCEPT ![Target(a)] = a] /\ committed' = committed
      BY <2>5 DEF LinkTarget
    <3>5. \A t \in Targets : t # Target(a) => files'[t] = files[t] /\ maker'[t] = maker[t]
      BY <3>4, <1>2
    <3>6. Target(a) \in Targets => files'[Target(a)] = held[a][at[a]]
      BY <3>4, <1>2
    <3>7. ASSUME NEW t \in Targets, maker'[t] # NoOwner
          PROVE  \E m \in committed : IdOf[m] = job[maker'[t]] /\ Asks(m, t, files'[t])
      BY <1>2, <3>2, <3>4, <3>3, <3>5, <3>6, <3>7 DEF WrittenAsCommitted
    <3>8. QED
      BY <1>0, <3>4, <3>7 DEF WrittenAsCommitted, Asks
  <2>6. CASE LinkTargetExists(a)
    BY <2>6, <1>1 DEF LinkTargetExists
  <2>7. CASE RetryPrimitive(a)
    BY <2>7, <1>1 DEF RetryPrimitive
  <2>8. CASE GiveUpPrimitive(a)
    BY <2>8, <1>1 DEF GiveUpPrimitive
  <2>9. CASE RemoveTemp(a)
    BY <2>9, <1>1 DEF RemoveTemp
  <2>10. CASE RemoveTempFails(a)
    BY <2>10, <1>1 DEF RemoveTempFails
  <2>11. CASE Release(a)
    BY <2>11, <1>1 DEF Release
  <2>12. QED
    BY <1>5, <2>1, <2>2, <2>3, <2>4, <2>5, <2>6, <2>7, <2>8, <2>9, <2>10, <2>11 DEF Write
<1>6. ASSUME Environment PROVE WrittenAsCommitted'
  <2>1. CASE LeaseRunsOut
    BY <2>1, <1>1 DEF LeaseRunsOut, Meddle, Lock!Drop
  <2>2. CASE DeadLeaseRunsOut
    BY <2>2, <1>1 DEF DeadLeaseRunsOut, Lock!Drop
  <2>3. ASSUME NEW t \in Targets, UserCreates(t) PROVE WrittenAsCommitted'
    BY <2>3, <1>0, <1>2 DEF UserCreates, WrittenAsCommitted, Asks
  <2>4. ASSUME NEW t \in Targets, UserDeletes(t) PROVE WrittenAsCommitted'
    BY <2>4, <1>0, <1>2 DEF UserDeletes, WrittenAsCommitted, Asks
  <2>5. ASSUME NEW c \in Contents, StagingChanges(c) PROVE WrittenAsCommitted'
    BY <2>5, <1>1 DEF StagingChanges, Meddle
  <2>6. ASSUME NEW i \in Ids, PreviewEdited(i) PROVE WrittenAsCommitted'
    BY <2>6, <1>1 DEF PreviewEdited
  <2>7. ASSUME NEW a \in Appliers, Crash(a) PROVE WrittenAsCommitted'
    BY <2>7, <1>1 DEF Crash
  <2>8. QED
    BY <1>6, <2>1, <2>2, <2>3, <2>4, <2>5, <2>6, <2>7 DEF Environment
<1>7. CASE UNCHANGED vars
  BY <1>7, <1>1 DEF vars
<1>8. QED
  BY <1>3, <1>4, <1>5, <1>6, <1>7 DEF Next

\* An applier none of whose own variables change keeps its order.
LEMMA ApplyOrderFrame ==
  ASSUME NEW a \in Appliers, WritesInOrder(a),
         view'[a] = view[a], stored'[a] = stored[a], pc'[a] = pc[a], at'[a] = at[a],
         outcome'[a] = outcome[a], written'[a] = written[a]
  PROVE  WritesInOrder(a)'
BY DEF WritesInOrder, Unedited, There, NoFile, WritePC

\* Whoever moves, the others' writes stay in order.
LEMMA ApplyOthersOrdered ==
  ASSUME TypeOK, NEW b \in Appliers, Check(b) \/ Write(b) \/ Crash(b),
         NEW a \in Appliers \ {b}, WritesInOrder(a)
  PROVE  WritesInOrder(a)'
<1> SUFFICES /\ view'[a] = view[a] /\ stored'[a] = stored[a] /\ pc'[a] = pc[a]
             /\ at'[a] = at[a] /\ outcome'[a] = outcome[a] /\ written'[a] = written[a]
  BY ApplyOrderFrame
<1>1. CASE Check(b)
  BY <1>1
  DEF Check, TakeLock, LockRefused, ReadPreview, ReadMissing, ReadCheckpoint, PreflightPass,
      PreflightThrow, PreflightDone, Go, Throw, TypeOK
<1>2. CASE Write(b)
  BY <1>2
  DEF Write, NextEntry, OpenTemp, OpenTempExists, FillTemp, LinkTarget, LinkTargetExists,
      RetryPrimitive, GiveUpPrimitive, RemoveTemp, RemoveTempFails, Release, Go, Throw, TypeOK
<1>3. CASE Crash(b)
  BY <1>3 DEF Crash, Go, TypeOK
<1>4. QED
  BY <1>1, <1>2, <1>3

\* The targets an apply creates are those of its actions, one after the other.
LEMMA ApplyOrderStep ==
  TypeOK /\ HeldVerified /\ LoopsAligned /\ WritersPassed /\ WritesAligned /\ [Next]_vars
  => WritesAligned'
<1> SUFFICES ASSUME TypeOK, HeldVerified, LoopsAligned, WritersPassed, WritesAligned, [Next]_vars,
                    Edits = {}
             PROVE  WritesAligned'
  BY DEF WritesAligned
<1> USE ApplyAssumption
    DEF PC, ReadPC, WritePC, NoFile, Go, Throw, diskVars, authorVars, applierVars, envVars
<1> DEFINE FilesUnedited == \A i \in Ids : Unedited(previews[i]) /\ Unedited(checkpoints[i])
<1>1. FilesUnedited /\ \A a \in Appliers : WritesInOrder(a)
  BY DEF WritesAligned
<1>2. /\ pc \in [Appliers -> PC] /\ at \in [Appliers -> Nat]
      /\ view \in [Appliers -> Stored] /\ stored \in [Appliers -> Stored]
      /\ outcome \in [Appliers -> Outcomes] /\ written \in [Appliers -> Seq(Targets)]
      /\ held \in [Appliers -> Seq(Contents)] /\ job \in [Appliers -> Ids]
      /\ previews \in [Ids -> Stored] /\ checkpoints \in [Ids -> Stored]
  BY DEF TypeOK
<1>3. ASSUME UNCHANGED <<previews, checkpoints>> PROVE FilesUnedited'
  BY <1>1, <1>3 DEF Unedited, There
<1>4. ASSUME UNCHANGED applierVars PROVE \A a \in Appliers : WritesInOrder(a)'
  BY <1>1, <1>4, ApplyOrderFrame
<1>5. ASSUME NEW p \in Authors, Author(p) PROVE WritesAligned'
  <2>1. FilesUnedited'
    <3>1. CASE CheckTargets(p)
      BY <1>3, <3>1 DEF CheckTargets
    <3>2. CASE WritePreview(p)
      BY <1>1, <1>2, <3>2 DEF WritePreview, Unedited, There
    <3>3. CASE WriteCheckpoint(p)
      BY <1>1, <1>2, <3>3 DEF WriteCheckpoint, Unedited, There
    <3>4. QED
      BY <1>5, <3>1, <3>2, <3>3 DEF Author
  <2>2. UNCHANGED applierVars
    BY <1>5 DEF Author, CheckTargets, WritePreview, WriteCheckpoint
  <2>3. QED
    BY <1>4, <2>1, <2>2 DEF WritesAligned
<1>6. ASSUME NEW a \in Appliers, Check(a) PROVE WritesAligned'
  <2>1. UNCHANGED <<previews, checkpoints>>
    BY <1>6 DEF Check, TakeLock, LockRefused, ReadPreview, ReadMissing, ReadCheckpoint, PreflightPass,
                PreflightThrow, PreflightDone
  <2>2. written' = written
    BY <1>6 DEF Check, TakeLock, LockRefused, ReadPreview, ReadMissing, ReadCheckpoint, PreflightPass,
                PreflightThrow, PreflightDone
  <2>3. WritesInOrder(a)'
    <3>1. written[a] = <<>> /\ outcome[a] = "none"
      <4>1. pc[a] \in {"idle", "preflight"} \cup ReadPC
        BY <1>6 DEF Check, TakeLock, LockRefused, ReadPreview, ReadMissing, ReadCheckpoint, PreflightPass,
                    PreflightThrow, PreflightDone
      <4>2. QED
        BY <4>1 DEF WritersPassed, LoopsAligned
    <3>2. CASE TakeLock(a) \/ LockRefused(a)
      BY <1>1, <1>2, <3>1, <3>2 DEF TakeLock, LockRefused, WritesInOrder, Unedited, There
    <3>3. CASE ReadPreview(a) \/ ReadMissing(a)
      BY <1>1, <1>2, <3>1, <3>3 DEF ReadPreview, ReadMissing, WritesInOrder, Unedited, There
    <3>4. CASE ReadCheckpoint(a)
      BY <1>1, <1>2, <3>1, <3>4 DEF ReadCheckpoint, WritesInOrder, Unedited, There
    <3>5. CASE PreflightPass(a)
      BY <1>1, <1>2, <3>1, <3>5 DEF PreflightPass, WritesInOrder, Unedited, There
    <3>6. CASE PreflightThrow(a)
      <4>1. Verdict(stored[a].list, view[a].list[at[a]]) # "ok"
        BY DEF Verdict
      <4>2. QED
        BY <1>1, <1>2, <3>1, <3>6, <4>1 DEF PreflightThrow, WritesInOrder, Unedited, There
    <3>7. CASE PreflightDone(a)
      BY <1>1, <1>2, <3>1, <3>7 DEF PreflightDone, WritesInOrder, Unedited, There
    <3>8. QED
      BY <1>6, <3>2, <3>3, <3>4, <3>5, <3>6, <3>7 DEF Check
  <2>4. QED
    BY <1>1, <1>3, <1>6, <2>1, <2>3, ApplyOthersOrdered DEF WritesAligned
<1>7. ASSUME NEW a \in Appliers, Write(a) PROVE WritesAligned'
  <2>1. UNCHANGED <<previews, checkpoints, view, stored>>
    BY <1>7
    DEF Write, NextEntry, OpenTemp, OpenTempExists, FillTemp, LinkTarget, LinkTargetExists,
        RetryPrimitive, GiveUpPrimitive, RemoveTemp, RemoveTempFails, Release
  <2>2. Unedited(view[a])' /\ Unedited(stored[a])'
    BY <1>1, <2>1 DEF WritesInOrder, Unedited, There
  <2>3. pc[a] \in WritePC => There(stored[a]) /\ view[a].hash = stored[a].hash
    BY <1>1 DEF WritesInOrder
  <2>4. WritesInOrder(a)'
    <3>1. CASE NextEntry(a)
      <4>1. Len(written[a]) = at[a] - 1 /\ Len(held[a]) = Len(view[a].list) /\ outcome[a] = "none"
        BY <1>1, <3>1 DEF NextEntry, WritesInOrder, WritersPassed, LoopsAligned
      <4>2. \A k \in DOMAIN written[a] : k \in DOMAIN view[a].list
        BY <1>1 DEF WritesInOrder
      <4>3. /\ Len(written[a]) \in Nat /\ DOMAIN written[a] = 1 .. Len(written[a])
            /\ Len(view[a].list) \in Nat /\ DOMAIN view[a].list = 1 .. Len(view[a].list)
            /\ DOMAIN held[a] = 1 .. Len(held[a]) /\ at[a] \in Nat
        BY <1>2 DEF Stored
      <4>4. Len(written[a]) <= Len(view[a].list)
        <5>1. Len(written[a]) = 0 \/ Len(written[a]) \in DOMAIN written[a]
          BY <4>3
        <5>2. QED
          BY <4>2, <4>3, <5>1
      <4>5. at[a] \notin DOMAIN held[a] => Len(written[a]) = Len(view[a].list)
        BY <4>1, <4>3, <4>4
      <4>6. UNCHANGED <<at, written>>
        BY <3>1 DEF NextEntry
      <4>7. \/ pc'[a] = "open" /\ outcome'[a] = "none"
            \/ pc'[a] = "release" /\ outcome'[a] = "ok" /\ at[a] \notin DOMAIN held[a]
        BY <1>2, <3>1, <4>1 DEF NextEntry
      <4>8. pc[a] = "next"
        BY <3>1 DEF NextEntry
      <4>9. QED
        BY <1>1, <2>1, <2>2, <2>3, <4>1, <4>5, <4>6, <4>7, <4>8 DEF WritesInOrder, There
    <3>2. CASE OpenTemp(a) \/ OpenTempExists(a) \/ FillTemp(a)
      <4>1. /\ UNCHANGED <<at, written>> /\ pc[a] \in {"open", "fill"} /\ outcome[a] = "none"
            /\ \/ pc'[a] \in {"fill", "link"} /\ outcome' = outcome
               \/ pc'[a] = "removeTemp" /\ outcome'[a] = "EEXIST"
        BY <1>2, <3>2 DEF OpenTemp, OpenTempExists, FillTemp, LoopsAligned
      <4>2. QED
        BY <1>1, <2>1, <2>2, <2>3, <4>1 DEF WritesInOrder, There
    <3>3. CASE LinkTarget(a)
      <4>1. /\ Len(written[a]) = at[a] - 1 /\ outcome[a] = "none"
            /\ at[a] \in DOMAIN view[a].list
        BY <1>1, <3>3 DEF LinkTarget, WritesInOrder, HeldVerified, LoopsAligned
      <4>2. Target(a) \in Targets
        <5>1. view[a].list \in Seq(Actions)
          BY <1>2 DEF Stored
        <5>2. view[a].list[at[a]] \in Actions
          BY <4>1, <5>1
        <5>3. QED
          BY <5>2 DEF Target, Actions
      <4>3. written'[a] = Append(written[a], Target(a)) /\ written[a] \in Seq(Targets)
            /\ at' = at /\ pc'[a] = "removeTemp" /\ outcome' = outcome
        BY <1>2, <3>3 DEF LinkTarget
      <4>4. Len(written'[a]) = at[a]
        BY <1>2, <4>1, <4>2, <4>3
      <4>5. ASSUME NEW k \in DOMAIN written'[a]
            PROVE  k \in DOMAIN view[a].list /\ written'[a][k] = TargetOf[view[a].list[k].name]
        <5>1. CASE k = at[a]
          BY <1>2, <4>1, <4>2, <4>3, <5>1 DEF Target
        <5>2. CASE k # at[a]
          <6>1. k \in DOMAIN written[a] /\ written'[a][k] = written[a][k]
            BY <1>2, <4>1, <4>2, <4>3, <5>2
          <6>2. QED
            BY <1>1, <6>1 DEF WritesInOrder
        <5>3. QED
          BY <5>1, <5>2
      <4>6. pc[a] = "link"
        BY <3>3 DEF LinkTarget
      <4>7. QED
        BY <2>1, <2>2, <2>3, <4>1, <4>3, <4>4, <4>5, <4>6 DEF WritesInOrder, There
    <3>4. CASE LinkTargetExists(a) \/ RetryPrimitive(a) \/ GiveUpPrimitive(a)
      <4>1. /\ UNCHANGED <<at, written>> /\ pc[a] \in {"open", "fill", "link"} /\ outcome[a] = "none"
            /\ \/ pc'[a] \in {"open", "link"} /\ outcome' = outcome
               \/ /\ pc'[a] = "removeTemp"
                  /\ outcome'[a] \in {"APPLY_TARGET_EXISTS", "WRITE_LOCK_CONTENTION", "IO"}
        BY <1>2, <3>4 DEF LinkTargetExists, RetryPrimitive, GiveUpPrimitive, LoopsAligned
      <4>2. QED
        BY <1>1, <2>1, <2>2, <2>3, <4>1 DEF WritesInOrder, There
    <3>5. CASE RemoveTemp(a)
      <4>1. pc[a] = "removeTemp" /\ written' = written /\ outcome' = outcome /\ at[a] \in Nat
        BY <1>2, <3>5 DEF RemoveTemp
      <4>2. \/ outcome[a] = "none" /\ pc'[a] = "next" /\ at'[a] = at[a] + 1
            \/ outcome[a] # "none" /\ pc'[a] = "release"
        BY <1>2, <3>5 DEF RemoveTemp
      <4>3. QED
        BY <1>1, <2>1, <2>2, <2>3, <4>1, <4>2 DEF WritesInOrder, There
    <3>6. CASE RemoveTempFails(a) \/ Release(a)
      BY <1>1, <1>2, <2>1, <2>2, <2>3, <3>6 DEF RemoveTempFails, Release, WritesInOrder, There
    <3>7. QED
      BY <1>7, <3>1, <3>2, <3>3, <3>4, <3>5, <3>6 DEF Write
  <2>5. QED
    BY <1>1, <1>3, <1>7, <2>1, <2>4, ApplyOthersOrdered DEF WritesAligned
<1>8. ASSUME NEW a \in Appliers, Crash(a) PROVE WritesAligned'
  <2>1. WritesInOrder(a)'
    BY <1>1, <1>2, <1>8 DEF Crash, WritesInOrder, Unedited, There
  <2>2. QED
    BY <1>1, <1>3, <1>8, <2>1, ApplyOthersOrdered DEF Crash, WritesAligned
<1>9. ASSUME Environment PROVE WritesAligned'
  <2>1. \A i \in Ids : ~PreviewEdited(i)
    BY DEF PreviewEdited
  <2>2. \/ UNCHANGED applierVars /\ UNCHANGED <<previews, checkpoints>>
        \/ \E a \in Appliers : Crash(a)
    BY <1>9, <2>1
    DEF Environment, LeaseRunsOut, DeadLeaseRunsOut, UserCreates, UserDeletes, StagingChanges,
        Meddle
  <2>3. QED
    BY <1>3, <1>4, <1>8, <2>2 DEF WritesAligned
<1>10. CASE UNCHANGED vars
  BY <1>3, <1>4, <1>10 DEF vars, WritesAligned
<1>11. QED
  BY <1>5, <1>6, <1>7, <1>9, <1>10 DEF Next

\* ApplyInv holds throughout: of the appliers only those past their own pre-flight
\* write, and they write what their checkpoint says.
THEOREM ApplyInvariant == Spec => []ApplyInv
<1>1. Init => ApplyInv
  <2> SUFFICES ASSUME Init PROVE ApplyInv
    OBVIOUS
  <2>1. TypeOK
    BY ApplyAssumption DEF Init, TypeOK, PC, ReadPC, WritePC, Stored, NoFile, Outcomes
  <2>2. TempsInUse /\ CheckpointsCommitted /\ WrittenAsCommitted
    BY DEF Init, TempsInUse, CheckpointsCommitted, WrittenAsCommitted, There, NoFile
  <2>3. HeldVerified /\ LoopsAligned
    BY DEF Init, HeldVerified, LoopsAligned, ReadPC
  <2>4. WritersPassed
    BY DEF Init, WritersPassed, WritePC
  <2>5. WritesAligned
    BY DEF Init, WritesAligned, WritesInOrder, Unedited, There, NoFile, WritePC
  <2>6. QED
    BY <2>1, <2>2, <2>3, <2>4, <2>5 DEF ApplyInv
<1>2. ApplyInv /\ [Next]_vars => ApplyInv'
  BY ApplyTypeStep, ApplyTempsStep, ApplyCommittedStep, ApplyHeldStep, ApplyLoopsStep,
     ApplyPassedStep, ApplyWrittenStep, ApplyOrderStep DEF ApplyInv
<1>3. QED
  BY <1>1, <1>2, PTL DEF Spec

\* Every variable keeps its type.
THEOREM ApplyTypeCorrect == Spec => []TypeOK
<1>1. ApplyInv => TypeOK
  BY DEF ApplyInv
<1>2. QED
  BY <1>1, ApplyInvariant, PTL

\* What is in a created file is what a committed manifest asks for there, for any
\* edits of previews and staging files and any loss of the lease (applyPreview).
THEOREM ApplyWrittenAsCommitted == Spec => []WrittenAsCommitted
<1>1. ApplyInv => WrittenAsCommitted
  BY DEF ApplyInv
<1>2. QED
  BY <1>1, ApplyInvariant, PTL

\* writeCreateOnlyFile leaves no temp sibling behind unless its removal fails.
THEOREM ApplyNoTempLeft == Spec => []NoTempLeft
<1>1. ApplyInv => NoTempLeft
  BY DEF ApplyInv, TempsInUse, NoTempLeft
<1>2. QED
  BY <1>1, ApplyInvariant, PTL

\* Nothing is written by an apply whose pre-flight has not passed as a whole.
THEOREM ApplyNothingBeforePreflight == Spec => []NothingBeforePreflight
<1>1. ApplyInv => NothingBeforePreflight
  <2> SUFFICES ASSUME ApplyInv, NEW a \in Appliers,
                      outcome[a] \in PreflightFailures \/ Len(held[a]) < Len(view[a].list)
               PROVE  written[a] = <<>> /\ a \notin temps
    BY DEF NothingBeforePreflight
  <2>1. held[a] \in Seq(Contents) /\ view[a] \in Stored
    BY DEF ApplyInv, TypeOK
  <2>2. Len(held[a]) \in Nat /\ Len(view[a].list) \in Nat
    BY <2>1 DEF Stored
  <2>3. QED
    BY <2>2 DEF ApplyInv, WritersPassed
<1>2. QED
  BY <1>1, ApplyInvariant, PTL

\* As long as nobody edits a stored preview, an apply that returns has created the files of
\* one committed manifest, all of them and in its order.
THEOREM ApplyWholeManifest == Spec => []AppliesWholeManifest
<1>1. ApplyInv => AppliesWholeManifest
  <2> SUFFICES ASSUME ApplyInv, Edits = {}, NEW a \in Appliers, outcome[a] = "ok"
               PROVE  \E m \in committed : /\ DOMAIN m = DOMAIN written[a]
                                           /\ \A k \in DOMAIN m : TargetOf[m[k].name] = written[a][k]
    BY DEF AppliesWholeManifest
  <2>1. /\ There(stored[a]) /\ view[a].hash = stored[a].hash
        /\ Unedited(view[a]) /\ Unedited(stored[a])
        /\ Len(written[a]) = Len(view[a].list)
        /\ \A k \in DOMAIN written[a] : written[a][k] = TargetOf[view[a].list[k].name]
    BY DEF ApplyInv, WritesAligned, WritesInOrder
  <2>2. view[a].list = stored[a].list /\ stored[a].list \in committed
    BY <2>1 DEF ApplyInv, CheckpointsCommitted, Unedited, There
  <2>3. written[a] \in Seq(Targets) /\ view[a].list \in Seq(Actions)
    BY DEF ApplyInv, TypeOK, Stored
  <2>4. DOMAIN view[a].list = DOMAIN written[a]
    BY <2>1, <2>3
  <2>5. QED
    BY <2>1, <2>2, <2>4
<1>2. QED
  BY <1>1, ApplyInvariant, PTL

\* Only link creates and only the user removes: a file that is there is not replaced.
LEMMA ApplyKeepsFiles ==
    TypeOK /\ [Next]_vars => \A t \in Targets : files[t] # Absent => files'[t] \in {files[t], Absent}
<1> DEFINE Kept == \A t \in Targets : files[t] # Absent => files'[t] \in {files[t], Absent}
<1> SUFFICES ASSUME TypeOK, [Next]_vars PROVE Kept
  OBVIOUS
<1> USE DEF Go, Throw, diskVars, authorVars, applierVars, envVars
<1>1. ASSUME UNCHANGED files PROVE Kept
  BY <1>1
<1>2. files \in [Targets -> Contents \cup {Absent, UserContent}]
  BY DEF TypeOK
<1>3. ASSUME NEW p \in Authors, Author(p) PROVE Kept
  <2>1. CASE CheckTargets(p)
    BY <2>1, <1>1 DEF CheckTargets
  <2>2. CASE WritePreview(p)
    BY <2>2, <1>1 DEF WritePreview
  <2>3. CASE WriteCheckpoint(p)
    BY <2>3, <1>1 DEF WriteCheckpoint
  <2>4. QED
    BY <1>3, <2>1, <2>2, <2>3 DEF Author
<1>4. ASSUME NEW a \in Appliers, Check(a) PROVE Kept
  <2>1. CASE TakeLock(a)
    BY <2>1, <1>1 DEF TakeLock, Lock!Grant
  <2>2. CASE LockRefused(a)
    BY <2>2, <1>1 DEF LockRefused
  <2>3. CASE ReadPreview(a)
    BY <2>3, <1>1 DEF ReadPreview
  <2>4. CASE ReadMissing(a)
    BY <2>4, <1>1 DEF ReadMissing
  <2>5. CASE ReadCheckpoint(a)
    BY <2>5, <1>1 DEF ReadCheckpoint
  <2>6. CASE PreflightPass(a)
    BY <2>6, <1>1 DEF PreflightPass
  <2>7. CASE PreflightThrow(a)
    BY <2>7, <1>1 DEF PreflightThrow
  <2>8. CASE PreflightDone(a)
    BY <2>8, <1>1 DEF PreflightDone
  <2>9. QED
    BY <1>4, <2>1, <2>2, <2>3, <2>4, <2>5, <2>6, <2>7, <2>8 DEF Check
<1>5. ASSUME NEW a \in Appliers, Write(a) PROVE Kept
  <2>1. CASE NextEntry(a)
    BY <2>1, <1>1 DEF NextEntry
  <2>2. CASE OpenTemp(a)
    BY <2>2, <1>1 DEF OpenTemp
  <2>3. CASE OpenTempExists(a)
    BY <2>3, <1>1 DEF OpenTempExists
  <2>4. CASE FillTemp(a)
    BY <2>4, <1>1 DEF FillTemp
  <2>5. CASE LinkTarget(a)
    BY <2>5, <1>2 DEF LinkTarget
  <2>6. CASE LinkTargetExists(a)
    BY <2>6, <1>1 DEF LinkTargetExists
  <2>7. CASE RetryPrimitive(a)
    BY <2>7, <1>1 DEF RetryPrimitive
  <2>8. CASE GiveUpPrimitive(a)
    BY <2>8, <1>1 DEF GiveUpPrimitive
  <2>9. CASE RemoveTemp(a)
    BY <2>9, <1>1 DEF RemoveTemp
  <2>10. CASE RemoveTempFails(a)
    BY <2>10, <1>1 DEF RemoveTempFails
  <2>11. CASE Release(a)
    BY <2>11, <1>1 DEF Release
  <2>12. QED
    BY <1>5, <2>1, <2>2, <2>3, <2>4, <2>5, <2>6, <2>7, <2>8, <2>9, <2>10, <2>11 DEF Write
<1>6. ASSUME Environment PROVE Kept
  <2>1. CASE LeaseRunsOut
    BY <2>1, <1>1 DEF LeaseRunsOut, Meddle, Lock!Drop
  <2>2. CASE DeadLeaseRunsOut
    BY <2>2, <1>1 DEF DeadLeaseRunsOut, Lock!Drop
  <2>3. ASSUME NEW t \in Targets, UserCreates(t) PROVE Kept
    BY <2>3, <1>2 DEF UserCreates
  <2>4. ASSUME NEW t \in Targets, UserDeletes(t) PROVE Kept
    BY <2>4, <1>2 DEF UserDeletes
  <2>5. ASSUME NEW c \in Contents, StagingChanges(c) PROVE Kept
    BY <2>5, <1>1 DEF StagingChanges, Meddle
  <2>6. ASSUME NEW i \in Ids, PreviewEdited(i) PROVE Kept
    BY <2>6, <1>1 DEF PreviewEdited
  <2>7. ASSUME NEW a \in Appliers, Crash(a) PROVE Kept
    BY <2>7, <1>1 DEF Crash
  <2>8. QED
    BY <1>6, <2>1, <2>2, <2>3, <2>4, <2>5, <2>6, <2>7 DEF Environment
<1>7. CASE UNCHANGED vars
  BY <1>7, <1>1 DEF vars
<1>8. QED
  BY <1>3, <1>4, <1>5, <1>6, <1>7 DEF Next

\* A file that is there is never replaced, whoever loses the lease or the race.
THEOREM ApplyNoClobber == Spec => NoClobber
<1>1. TypeOK /\ [Next]_vars =>
         [\A t \in Targets : files[t] # Absent => files'[t] \in {files[t], Absent}]_vars
  BY ApplyKeepsFiles
<1>2. QED
  BY <1>1, ApplyTypeCorrect, PTL DEF Spec, NoClobber

--------------------------------------------------------------------------------
(* The approval gate.                                                        *)

\* Every step of a call or of its surroundings is a step of CheckpointApply.
LEMMA GateStepApplies == [GateNext]_allVars => [Next]_vars
<1> SUFFICES ASSUME GateNext PROVE [Next]_vars
  BY DEF allVars
<1>1. CASE World
  BY <1>1 DEF World, Next
<1>2. ASSUME NEW c \in Appliers, Call(c) PROVE [Next]_vars
  BY <1>2, GateAssumption DEF Call, Run, Commit, ApplyApproved, RequestApproval, Next
<1>3. QED
  BY <1>1, <1>2 DEF GateNext

\* The calls keep the invariant of the checkpoint.
LEMMA GateApplies == GateSpec => []ApplyInv
<1>1. GateInit => Init
  BY DEF GateInit
<1>2. QED
  BY <1>1, GateStepApplies, ApplyInvariant, PTL DEF GateSpec, Spec

\* What a step adds to the previews and to the committed manifests is a draft; an edit by
\* hand leaves the hash of a preview as it was.
LEMMA CommitsDrafts ==
  ASSUME TypeOK, [Next]_vars
  PROVE  /\ \A m \in committed' \ committed : \E p \in Authors : m = draft[p]
         /\ \A i \in Ids : There(previews'[i]) =>
               \/ There(previews[i]) /\ previews'[i].hash = previews[i].hash
               \/ \E p \in Authors : IdOf[draft[p]] = i /\ previews'[i].hash = draft[p]
<1> USE DEF There, diskVars
<1>1. previews \in [Ids -> Stored]
  BY DEF TypeOK
<1> DEFINE Stays == UNCHANGED <<previews, committed>>
<1>2. ASSUME NEW p \in Authors, Author(p)
      PROVE  Stays \/ WritePreview(p) \/ WriteCheckpoint(p)
  BY <1>2 DEF Author, CheckTargets
<1>3. ASSUME NEW a \in Appliers, Check(a) PROVE Stays
  BY <1>3 DEF Check, TakeLock, LockRefused, ReadPreview, ReadMissing, ReadCheckpoint, PreflightPass,
              PreflightThrow, PreflightDone
<1>4. ASSUME NEW a \in Appliers, Write(a) PROVE Stays
  BY <1>4
  DEF Write, NextEntry, OpenTemp, OpenTempExists, FillTemp, LinkTarget, LinkTargetExists,
      RetryPrimitive, GiveUpPrimitive, RemoveTemp, RemoveTempFails, Release
<1>5. CASE Environment
  <2>1. Stays \/ \E i \in Ids : PreviewEdited(i)
    BY <1>5
    DEF Environment, LeaseRunsOut, DeadLeaseRunsOut, UserCreates, UserDeletes, StagingChanges,
        Crash, Meddle
  <2>2. ASSUME NEW i \in Ids, PreviewEdited(i)
        PROVE  /\ committed' = committed
               /\ \A j \in Ids : previews'[j].hash = previews[j].hash
    BY <1>1, <2>2 DEF PreviewEdited, Stored
  <2>3. QED
    BY <2>1, <2>2
<1>6. CASE UNCHANGED vars
  BY <1>6 DEF vars
<1>7. ASSUME NEW p \in Authors, WritePreview(p)
      PROVE  /\ committed' = committed
             /\ \A i \in Ids : \/ previews'[i] = previews[i]
                               \/ IdOf[draft[p]] = i /\ previews'[i].hash = draft[p]
  BY <1>1, <1>7 DEF WritePreview
<1>8. ASSUME NEW p \in Authors, WriteCheckpoint(p)
      PROVE  previews' = previews /\ committed' = committed \cup {draft[p]}
  BY <1>8 DEF WriteCheckpoint
<1>9. QED
  BY <1>2, <1>3, <1>4, <1>5, <1>6, <1>7, <1>8 DEF Next

\* An apply that has begun has begun for good, and who creates a file has begun.
LEMMA MakersBegan ==
  ASSUME TypeOK, [Next]_vars
  PROVE  /\ \A a \in Appliers : pc[a] # "idle" => pc'[a] # "idle"
         /\ \A t \in Targets : \/ maker'[t] \in {maker[t], NoOwner}
                               \/ maker'[t] \in Appliers /\ pc'[maker'[t]] # "idle"
<1> USE DEF Go, Throw, diskVars, applierVars
<1>1. pc \in [Appliers -> PC] /\ maker \in [Targets -> Appliers \cup {NoOwner}]
  BY DEF TypeOK
<1>2. ASSUME NEW p \in Authors, Author(p) PROVE UNCHANGED <<pc, maker>>
  BY <1>2 DEF Author, CheckTargets, WritePreview, WriteCheckpoint
<1>3. ASSUME NEW a \in Appliers, Check(a)
      PROVE  maker' = maker /\ \A b \in Appliers : pc[b] # "idle" => pc'[b] # "idle"
  BY <1>1, <1>3
  DEF Check, TakeLock, LockRefused, ReadPreview, ReadMissing, ReadCheckpoint, PreflightPass,
      PreflightThrow, PreflightDone
<1>4. ASSUME NEW a \in Appliers, Write(a)
      PROVE  /\ \A b \in Appliers : pc[b] # "idle" => pc'[b] # "idle"
             /\ \A t \in Targets : maker'[t] = maker[t] \/ (maker'[t] = a /\ pc'[a] # "idle")
  <2>1. CASE LinkTarget(a)
    BY <1>1, <2>1 DEF LinkTarget
  <2>2. CASE ~LinkTarget(a)
    BY <1>1, <1>4, <2>2
    DEF Write, NextEntry, OpenTemp, OpenTempExists, FillTemp, LinkTargetExists, RetryPrimitive,
        GiveUpPrimitive, RemoveTemp, RemoveTempFails, Release
  <2>3. QED
    BY <2>1, <2>2
<1>5. CASE Environment
  <2>1. \/ UNCHANGED <<pc, maker>> \/ \E a \in Appliers : Crash(a)
        \/ \E t \in Targets : UserCreates(t) \/ UserDeletes(t)
    BY <1>5 DEF Environment, LeaseRunsOut, DeadLeaseRunsOut, StagingChanges, PreviewEdited, Meddle
  <2>2. ASSUME NEW a \in Appliers, Crash(a)
        PROVE  maker' = maker /\ \A b \in Appliers : pc[b] # "idle" => pc'[b] # "idle"
    BY <1>1, <2>2 DEF Crash
  <2>3. ASSUME NEW t \in Targets, UserCreates(t) \/ UserDeletes(t)
        PROVE  pc' = pc /\ \A u \in Targets : maker'[u] \in {maker[u], NoOwner}
    BY <1>1, <2>3 DEF UserCreates, UserDeletes
  <2>4. QED
    BY <2>1, <2>2, <2>3
<1>6. CASE UNCHANGED vars
  BY <1>6 DEF vars
<1>7. QED
  BY <1>2, <1>3, <1>4, <1>5, <1>6 DEF Next

\* A call that applies nothing yet is not made to by the step of another.
LEMMA OthersWait ==
  ASSUME TypeOK, NEW c \in Appliers, NEW d \in Appliers, pc[d] = "idle",
         Environment \/ (c # d /\ (Check(c) \/ Write(c)))
  PROVE  pc'[d] = "idle"
<1> USE DEF Go, Throw
<1>1. pc \in [Appliers -> PC]
  BY DEF TypeOK
<1>2. CASE Environment
  BY <1>1, <1>2
  DEF Environment, LeaseRunsOut, DeadLeaseRunsOut, UserCreates, UserDeletes, StagingChanges,
      PreviewEdited, Crash, Meddle, applierVars
<1>3. CASE c # d /\ Check(c)
  BY <1>1, <1>3
  DEF Check, TakeLock, LockRefused, ReadPreview, ReadMissing, ReadCheckpoint, PreflightPass,
      PreflightThrow, PreflightDone
<1>4. CASE c # d /\ Write(c)
  BY <1>1, <1>4
  DEF Write, NextEntry, OpenTemp, OpenTempExists, FillTemp, LinkTarget, LinkTargetExists,
      RetryPrimitive, GiveUpPrimitive, RemoveTemp, RemoveTempFails, Release
<1>5. QED
  BY <1>2, <1>3, <1>4

\* What is shown and what is approved stay in step with what is committed and applied.
LEMMA GateStep ==
  ASSUME TypeOK, GateInv, [GateNext]_allVars
  PROVE  GateInv'
<1> USE GateAssumption
<1>1. [Next]_vars
  BY GateStepApplies
<1>2. job' = job /\ draft' = draft
  BY <1>1, ApplyJobsStay
<1>3. job \in [Appliers -> Ids] /\ draft \in [Authors -> Manifests] /\ previews \in [Ids -> Stored]
  BY DEF TypeOK
<1>4. GateTypeOK'
  <2>1. \A s \in shown : s.id \in Ids
    BY <1>3, ApplyAssumption DEF GateInv, CallsTold
  <2>2. QED
    BY <2>1
    DEF GateInv, GateTypeOK, GateNext, allVars, gateVars, World, Call, Run, Commit, Route, GateTo,
        ApplyApproved, RequestApproval
<1>5. CallsTold'
  <2>1. \A s \in shown' \ shown :
           \E i \in Ids : There(previews[i]) /\ s.id = i /\ s.hash = previews[i].hash
    BY <1>3
    DEF GateNext, allVars, gateVars, World, Call, Run, Commit, GateTo, ApplyApproved,
        RequestApproval, Summary
  <2>2. \A s \in shown' : \E c \in Authors : s.id = IdOf[draft[c]] /\ s.hash = draft[c]
    BY <2>1 DEF GateInv, CallsTold
  <2>3. \A m \in committed' : \E c \in Authors : m = draft[c]
    BY <1>1, CommitsDrafts DEF GateInv, CallsTold
  <2>4. \A i \in Ids : There(previews'[i]) =>
           \E c \in Authors : IdOf[draft[c]] = i /\ previews'[i].hash = draft[c]
    BY <1>1, CommitsDrafts DEF GateInv, CallsTold
  <2>5. QED
    BY <1>2, <2>2, <2>3, <2>4 DEF CallsTold, There
<1>6. ApprovedFirst'
  <2>1. \A t \in Targets : maker'[t] # NoOwner => pc'[maker'[t]] # "idle"
    <3>1. maker \in [Targets -> Appliers \cup {NoOwner}]
      BY DEF TypeOK
    <3>2. \A t \in Targets : maker[t] # NoOwner => pc[maker[t]] # "idle"
      BY DEF GateInv, ApprovedFirst
    <3>3. QED
      BY <1>1, <3>1, <3>2, MakersBegan
  <2> DEFINE Fine(d) ==
        /\ approved'[d] = NoId \/ \E s \in shown' : s.id = approved'[d]
        /\ gate'[d] = "apply" \/ pc'[d] # "idle" => approved'[d] = job[d]
        /\ gate'[d] \notin {"apply", "ended"} => pc'[d] = "idle"
  <2>2. ASSUME NEW d \in Appliers PROVE Fine(d)
    <3>1. /\ approved[d] = NoId \/ \E s \in shown : s.id = approved[d]
          /\ gate[d] = "apply" \/ pc[d] # "idle" => approved[d] = job[d]
          /\ gate[d] \notin {"apply", "ended"} => pc[d] = "idle"
          /\ job[d] = IdOf[draft[d]]
      BY DEF GateInv, ApprovedFirst
    <3>2. gate \in [Appliers -> {"idle", "commit", "apply", "summary", "ended"}]
          /\ approved \in [Appliers -> Ids \cup {NoId}]
      BY DEF GateInv, GateTypeOK
    <3>3. CASE World
      <4>1. UNCHANGED gateVars /\ (pc[d] = "idle" => pc'[d] = "idle")
        BY <3>3, OthersWait DEF World
      <4>2. QED
        BY <3>1, <4>1 DEF gateVars
    <3>4. ASSUME NEW c \in Appliers, Run(c) PROVE Fine(d)
      <4>1. /\ pc' = pc /\ shown' = shown /\ gate[c] = "idle" /\ gate'[c] = "commit"
            /\ approved'[c] = NoId \/ \E s \in shown : s.id = approved'[c]
            /\ c # d => gate'[d] = gate[d] /\ approved'[d] = approved[d]
        BY <3>2, <3>4 DEF Run, vars, applierVars
      <4>2. QED
        BY <3>1, <4>1
    <3>5. ASSUME NEW c \in Appliers, Commit(c) PROVE Fine(d)
      <4>1. /\ UNCHANGED <<pc, shown, approved>>
            /\ gate[c] = "commit" /\ gate'[c] \in {"ended", "commit", Route(c)}
            /\ c # d => gate'[d] = gate[d]
        BY <3>2, <3>5
        DEF Commit, GateTo, Author, CheckTargets, WritePreview, WriteCheckpoint, applierVars
      <4>2. QED
        BY <3>1, <4>1 DEF Route
    <3>6. ASSUME NEW c \in Appliers, ApplyApproved(c) PROVE Fine(d)
      <4>1. /\ UNCHANGED <<shown, approved>>
            /\ gate[c] = "apply" /\ gate'[c] \in {"ended", "apply"}
            /\ c # d => gate'[d] = gate[d]
        BY <3>2, <3>6 DEF ApplyApproved, GateTo
      <4>2. c # d /\ pc[d] = "idle" => pc'[d] = "idle"
        BY <3>6, OthersWait DEF ApplyApproved
      <4>3. QED
        BY <3>1, <4>1, <4>2
    <3>7. ASSUME NEW c \in Appliers, RequestApproval(c) PROVE Fine(d)
      <4>1. /\ UNCHANGED <<pc, approved>> /\ shown \subseteq shown'
            /\ gate[c] = "summary" /\ gate'[c] = "ended"
            /\ c # d => gate'[d] = gate[d]
        BY <3>2, <3>7 DEF RequestApproval, vars, applierVars
      <4>2. QED
        BY <3>1, <4>1
    <3>8. CASE UNCHANGED allVars
      BY <3>1, <3>8 DEF allVars, vars, gateVars, applierVars
    <3>9. QED
      BY <3>3, <3>4, <3>5, <3>6, <3>7, <3>8 DEF GateNext, Call
  <2>3. \A d \in Appliers : job[d] = IdOf[draft[d]]
    BY DEF GateInv, ApprovedFirst
  <2>4. QED
    BY <1>2, <2>1, <2>2, <2>3 DEF ApprovedFirst
<1>7. QED
  BY <1>4, <1>5, <1>6 DEF GateInv

\* The invariant of the gate holds whatever the calls and their surroundings do.
LEMMA GateInvariant == GateSpec => []GateInv
<1>1. GateInit => GateInv
  <2> SUFFICES ASSUME GateInit PROVE GateInv
    OBVIOUS
  <2>1. GateTypeOK
    BY DEF GateInit, GateTypeOK
  <2>2. CallsTold
    BY DEF GateInit, Init, CallsTold, There, NoFile
  <2>3. ApprovedFirst
    BY DEF GateInit, Init, ApprovedFirst
  <2>4. QED
    BY <2>1, <2>2, <2>3 DEF GateInv
<1>2. ApplyInv /\ GateInv /\ [GateNext]_allVars => GateInv'
  BY GateStep DEF ApplyInv
<1>3. QED
  BY <1>1, <1>2, GateApplies, PTL DEF GateSpec

\* What a call creates was in a summary shown under the id that the call was given, for
\* any number of calls, any edits by hand and any loss of the lock, as long as ids tell
\* the manifests of the calls apart (tinyYeahTool, requestApproval, applyApproved).
THEOREM GateAppliesAsShown == GateSpec => []AppliedAsShown
<1>1. ApplyInv /\ GateInv => AppliedAsShown
  <2> SUFFICES ASSUME ApplyInv, GateInv, IdsTellApart, NEW t \in Targets, maker[t] # NoOwner
               PROVE  \E s \in shown : s.id = approved[maker[t]] /\ Asks(s.hash, t, files[t])
    BY DEF AppliedAsShown
  <2>1. PICK m \in committed : IdOf[m] = job[maker[t]] /\ Asks(m, t, files[t])
    BY DEF ApplyInv, WrittenAsCommitted
  <2>2. maker[t] \in Appliers /\ job[maker[t]] \in Ids
    BY DEF ApplyInv, TypeOK
  <2>3. approved[maker[t]] = job[maker[t]] /\ approved[maker[t]] # NoId
    BY <2>2, GateAssumption DEF GateInv, ApprovedFirst
  <2>4. PICK s \in shown : s.id = approved[maker[t]]
    BY <2>2, <2>3 DEF GateInv, ApprovedFirst
  <2>5. s.hash = m
    <3>1. PICK c \in Authors : m = draft[c]
      BY DEF GateInv, CallsTold
    <3>2. PICK d \in Authors : s.id = IdOf[draft[d]] /\ s.hash = draft[d]
      BY DEF GateInv, CallsTold
    <3>3. QED
      BY <2>1, <2>3, <2>4, <3>1, <3>2 DEF IdsTellApart
  <2>6. QED
    BY <2>1, <2>4, <2>5
<1>2. QED
  BY <1>1, GateApplies, GateInvariant, PTL
================================================================================
