---------------------------- MODULE CheckpointApply ----------------------------
(***************************************************************************)
(* The create-only write path of core/checkpoint: createPreview stores a   *)
(* preview and a checkpoint, applyPreview checks every action against both *)
(* and then creates the files one by one, under the lock of lock-store.ts  *)
(* (here the abstract LeaseLock, whose lease may run out: applyPreview     *)
(* never asks again whether it still holds it).                            *)
(*                                                                         *)
(* A SHA-256 is the content it is the hash of.  One action of a process is *)
(* one await of the code, except that the checks of one manifest action in *)
(* the pre-flight loop are one step.                                       *)
(***************************************************************************)
EXTENDS Naturals, Sequences, FiniteSets

CONSTANTS
    Authors,          \* calls of createPreview
    Appliers,         \* calls of applyPreview
    Ids,              \* preview ids
    Names,            \* the `path` strings of actions
    Targets,          \* the files they resolve to under outDir
    Contents,         \* file contents, and their hashes
    Manifests,        \* the manifests authors preview: sequences of actions
    TargetOf,         \* Names -> Targets: resolvePathInsideRoot
    IdOf,             \* Manifests -> Ids: "preview-" and 12 hex digits of the hash
    Escapes,          \* the names whose parent's realpath leaves outDir
    UserContent,      \* what somebody else writes
    Absent,           \* no such file
    NoOwner,          \* the apply lock is free
    Edits,            \* the action lists somebody may leave in a stored preview
    Meddlers,         \* which others act: subset of {"lease", "create", "delete", "staging"}
    MaxRetries,       \* transient errors withWriteRetry can sleep through in its budget
    MaxMeddling,      \* how many steps the others take
    MaxCrashes        \* how many appliers may die

\* An action is [name, sha, body]: body is its inline content, or Absent when the
\* content is behind a sourcePointer into .tiny-yeah/staging/.
Actions == [name : Names, sha : Contents, body : Contents \cup {Absent}]

ASSUME ApplyAssumption ==
    /\ TargetOf \in [Names -> Targets]
    /\ Manifests \subseteq Seq(Actions)
    /\ \A m \in Manifests : m # <<>>
    /\ IdOf \in [Manifests -> Ids]
    /\ Escapes \subseteq Names
    /\ Edits \subseteq Seq(Actions)
    /\ UserContent \notin Contents /\ Absent \notin Contents \cup {UserContent}
    /\ NoOwner \notin Appliers
    /\ MaxRetries \in Nat /\ MaxMeddling \in Nat /\ MaxCrashes \in Nat

VARIABLES
    files,            \* Targets -> content or Absent
    temps,            \* the appliers whose current temp sibling exists
    previews,         \* Ids -> previews/<id>.json: manifestHash and actions, or NoFile
    checkpoints,      \* Ids -> checkpoints/<id>.json
    staging,          \* Contents -> what .tiny-yeah/staging/<sha> holds, or Absent
    holder,           \* the apply lock
    author,           \* where each createPreview call is
    draft,            \* its manifest
    pc,               \* where each applyPreview call is
    job,              \* its previewId
    view, stored,     \* the preview and the checkpoint it has read
    at,               \* the action it is at, in the pre-flight and in the write loop
    held,             \* the contents its pre-flight verified, in order
    retries,          \* transient errors of the primitive in progress
    outcome,          \* how the call ends
    written,          \* history: the targets it has linked, in order
    maker,            \* history: the applier that created each target, or NoOwner
    committed,        \* history: the manifests whose checkpoint was stored
    meddling, crashes \* steps spent of the two budgets

diskVars == <<files, temps, previews, checkpoints, staging, maker, committed>>
authorVars == <<author, draft>>
applierVars == <<pc, job, view, stored, at, held, retries, outcome, written>>
envVars == <<meddling, crashes>>
vars == <<diskVars, authorVars, applierVars, holder, envVars>>

Lock == INSTANCE LeaseLock WITH Clients <- Appliers

\* a manifestHash is the manifest it is the hash of, and never <<>>
NoFile == [hash |-> <<>>, list |-> <<>>]
There(file) == file.hash # <<>>

Outcomes == {"none", "ok", "APPLY_LOCKED", "INVALID", "PREVIEW_STALE",
             "STAGING_POINTER_INVALID", "APPLY_TARGET_UNSAFE", "APPLY_TARGET_EXISTS",
             "WRITE_LOCK_CONTENTION", "EEXIST", "IO", "TEMP_LEFT"}
PreflightFailures == {"INVALID", "PREVIEW_STALE", "STAGING_POINTER_INVALID",
                      "APPLY_TARGET_UNSAFE"}

Init ==
    /\ files \in [Targets -> {Absent, UserContent}]
    /\ temps = {}
    /\ previews = [i \in Ids |-> NoFile] /\ checkpoints = [i \in Ids |-> NoFile]
    /\ staging = [c \in Contents |-> c]
    /\ holder = NoOwner
    /\ author = [p \in Authors |-> "idle"]
    /\ draft \in [Authors -> Manifests]
    /\ pc = [a \in Appliers |-> "idle"]
    /\ job \in [Appliers -> Ids]
    /\ view = [a \in Appliers |-> NoFile] /\ stored = [a \in Appliers |-> NoFile]
    /\ at = [a \in Appliers |-> 1]
    /\ held = [a \in Appliers |-> <<>>]
    /\ retries = [a \in Appliers |-> 0]
    /\ outcome = [a \in Appliers |-> "none"]
    /\ written = [a \in Appliers |-> <<>>]
    /\ maker = [t \in Targets |-> NoOwner]
    /\ committed = {}
    /\ meddling = 0 /\ crashes = 0

--------------------------------------------------------------------------------
(* createPreview: the targets are looked at, then two files are replaced.    *)

\* the loop over exists(target), all of it before anything is written
CheckTargets(p) ==
    /\ author[p] = "idle"
    /\ author' = [author EXCEPT ![p] =
          IF \E k \in DOMAIN draft[p] : files[TargetOf[draft[p][k].name]] # Absent
          THEN "PREVIEW_TARGET_EXISTS" ELSE "writePreview"]
    /\ UNCHANGED <<draft, diskVars, applierVars, holder, envVars>>

\* writeStateJson(previews/<id>.json): temp and rename
WritePreview(p) ==
    /\ author[p] = "writePreview"
    /\ author' = [author EXCEPT ![p] = "writeCheckpoint"]
    /\ previews' = [previews EXCEPT ![IdOf[draft[p]]] =
                      [hash |-> draft[p], list |-> draft[p]]]
    /\ UNCHANGED <<draft, files, temps, checkpoints, staging, maker, committed,
                   applierVars, holder, envVars>>

\* writeStateJson(checkpoints/<id>.json): manifestHash and actionHashes
WriteCheckpoint(p) ==
    /\ author[p] = "writeCheckpoint"
    /\ author' = [author EXCEPT ![p] = "done"]
    /\ checkpoints' = [checkpoints EXCEPT ![IdOf[draft[p]]] =
                         [hash |-> draft[p], list |-> draft[p]]]
    /\ committed' = committed \cup {draft[p]}
    /\ UNCHANGED <<draft, files, temps, previews, staging, maker,
                   applierVars, holder, envVars>>

--------------------------------------------------------------------------------
(* applyPreview up to the write loop.                                        *)

Go(a, to) == pc' = [pc EXCEPT ![a] = to]

\* mutant: no finally around the loops
ThrowWithoutFinally(a, code) == Go(a, "ended") /\ outcome' = [outcome EXCEPT ![a] = code]

\* throw: on to the finally that releases the lock
Throw(a, code) == Go(a, "release") /\ outcome' = [outcome EXCEPT ![a] = code]

\* acquireTinyYeahLock(..., { nonBlocking: true })
TakeLock(a) ==
    /\ pc[a] = "idle"
    /\ Lock!Grant(a)
    /\ Go(a, "readPreview")
    /\ UNCHANGED <<job, view, stored, at, held, retries, outcome, written,
                   diskVars, authorVars, envVars>>

LockRefused(a) ==
    /\ pc[a] = "idle" /\ holder # NoOwner
    /\ Go(a, "ended")
    /\ outcome' = [outcome EXCEPT ![a] = "APPLY_LOCKED"]
    /\ UNCHANGED <<job, view, stored, at, held, retries, written,
                   diskVars, authorVars, holder, envVars>>

ReadPreview(a) ==
    /\ pc[a] = "readPreview" /\ There(previews[job[a]])
    /\ view' = [view EXCEPT ![a] = previews[job[a]]]
    /\ Go(a, "readCheckpoint")
    /\ UNCHANGED <<job, stored, at, held, retries, outcome, written,
                   diskVars, authorVars, holder, envVars>>

\* the zod schema rejects the `undefined` read for a missing file
ReadMissing(a) ==
    /\ \/ pc[a] = "readPreview" /\ ~There(previews[job[a]])
       \/ pc[a] = "readCheckpoint" /\ ~There(checkpoints[job[a]])
    /\ Throw(a, "INVALID")
    /\ UNCHANGED <<job, view, stored, at, held, retries, written,
                   diskVars, authorVars, holder, envVars>>

\* mutant: layer (a) is skipped
ReadCheckpointUnchecked(a) ==
    /\ pc[a] = "readCheckpoint" /\ There(checkpoints[job[a]])
    /\ stored' = [stored EXCEPT ![a] = checkpoints[job[a]]]
    /\ Go(a, "preflight")
    /\ UNCHANGED <<job, view, at, held, retries, outcome, written,
                   diskVars, authorVars, holder, envVars>>

\* layer (a): the two manifestHash fields must agree
ReadCheckpoint(a) ==
    /\ pc[a] = "readCheckpoint" /\ There(checkpoints[job[a]])
    /\ stored' = [stored EXCEPT ![a] = checkpoints[job[a]]]
    /\ IF view[a].hash = checkpoints[job[a]].hash
       THEN Go(a, "preflight") /\ UNCHANGED outcome
       ELSE Throw(a, "PREVIEW_STALE")
    /\ UNCHANGED <<job, view, at, held, retries, written,
                   diskVars, authorVars, holder, envVars>>

\* resolveActionContent: inline, or what the staging file holds now
ContentOf(x) == IF x.body # Absent THEN x.body ELSE staging[x.sha]

\* checkpoint.actionHashes.find(path): the first entry of that name decides
StoredSha(list, x) ==
    \E k \in DOMAIN list :
       /\ list[k].name = x.name /\ list[k].sha = x.sha
       /\ \A j \in 1..(k - 1) : list[j].name # x.name

\* the order of the checks decides which error the caller sees
Verdict(list, x) ==
    IF ContentOf(x) = Absent THEN "STAGING_POINTER_INVALID"
    ELSE IF ContentOf(x) # x.sha \/ ~StoredSha(list, x) THEN "PREVIEW_STALE"
    ELSE IF x.name \in Escapes THEN "APPLY_TARGET_UNSAFE"
    ELSE IF files[TargetOf[x.name]] # Absent THEN "APPLY_TARGET_EXISTS"
    ELSE "none"

\* one round of the pre-flight loop that finds nothing wrong
PreflightPass(a) ==
    /\ pc[a] = "preflight" /\ at[a] \in DOMAIN view[a].list
    /\ Verdict(stored[a].list, view[a].list[at[a]]) = "none"
    /\ held' = [held EXCEPT ![a] = Append(held[a], ContentOf(view[a].list[at[a]]))]
    /\ at' = [at EXCEPT ![a] = at[a] + 1]
    /\ UNCHANGED <<pc, job, view, stored, retries, outcome, written,
                   diskVars, authorVars, holder, envVars>>

PreflightThrow(a) ==
    /\ pc[a] = "preflight" /\ at[a] \in DOMAIN view[a].list
    /\ Verdict(stored[a].list, view[a].list[at[a]]) # "none"
    /\ Throw(a, Verdict(stored[a].list, view[a].list[at[a]]))
    /\ UNCHANGED <<job, view, stored, at, held, retries, written,
                   diskVars, authorVars, holder, envVars>>

\* mutant: one action too few
PreflightDoneEarly(a) ==
    /\ pc[a] = "preflight" /\ at[a] + 1 \notin DOMAIN view[a].list
    /\ Go(a, "next")
    /\ at' = [at EXCEPT ![a] = 1]
    /\ UNCHANGED <<job, view, stored, held, retries, outcome, written,
                   diskVars, authorVars, holder, envVars>>

PreflightDone(a) ==
    /\ pc[a] = "preflight" /\ at[a] \notin DOMAIN view[a].list
    /\ Go(a, "next")
    /\ at' = [at EXCEPT ![a] = 1]
    /\ UNCHANGED <<job, view, stored, held, retries, outcome, written,
                   diskVars, authorVars, holder, envVars>>

--------------------------------------------------------------------------------
(* The write loop and writeCreateOnlyFile.                                   *)

Target(a) == TargetOf[view[a].list[at[a]].name]

\* the next entry, or the end of the loop
NextEntry(a) ==
    /\ pc[a] = "next"
    /\ IF at[a] \in DOMAIN held[a]
       THEN Go(a, "open") /\ UNCHANGED outcome
       ELSE Throw(a, "ok")
    /\ retries' = [retries EXCEPT ![a] = 0]
    /\ UNCHANGED <<job, view, stored, at, held, written,
                   diskVars, authorVars, holder, envVars>>

\* open(temp, O_CREAT | O_EXCL | O_WRONLY | O_NOFOLLOW)
OpenTemp(a) ==
    /\ pc[a] = "open" /\ a \notin temps
    /\ temps' = temps \cup {a}
    /\ Go(a, "fill")
    /\ UNCHANGED <<job, view, stored, at, held, retries, outcome, written,
                   files, previews, checkpoints, staging, maker, committed,
                   authorVars, holder, envVars>>

\* mutant: the retry's error leaves without the finally of writeCreateOnlyFile
OpenTempExistsLeaks(a) ==
    /\ pc[a] = "open" /\ a \in temps
    /\ Throw(a, "EEXIST")
    /\ UNCHANGED <<job, view, stored, at, held, retries, written,
                   diskVars, authorVars, holder, envVars>>

\* a retry finds the temp file of the attempt before: EEXIST is not retryable
OpenTempExists(a) ==
    /\ pc[a] = "open" /\ a \in temps
    /\ Go(a, "removeTemp")
    /\ outcome' = [outcome EXCEPT ![a] = "EEXIST"]
    /\ UNCHANGED <<job, view, stored, at, held, retries, written,
                   diskVars, authorVars, holder, envVars>>

\* writeFile, sync, close; the second withWriteRetry starts with a fresh budget
FillTemp(a) ==
    /\ pc[a] = "fill"
    /\ Go(a, "link")
    /\ retries' = [retries EXCEPT ![a] = 0]
    /\ UNCHANGED <<job, view, stored, at, held, outcome, written,
                   diskVars, authorVars, holder, envVars>>

\* mutant: the staging file is read again when the file is written
LinkTargetRereads(a) ==
    /\ pc[a] = "link" /\ files[Target(a)] = Absent
    /\ files' = [files EXCEPT ![Target(a)] = ContentOf(view[a].list[at[a]])]
    /\ maker' = [maker EXCEPT ![Target(a)] = a]
    /\ written' = [written EXCEPT ![a] = Append(written[a], Target(a))]
    /\ Go(a, "removeTemp")
    /\ UNCHANGED <<job, view, stored, at, held, retries, outcome, temps,
                   previews, checkpoints, staging, committed, authorVars, holder, envVars>>

\* mutant: rename in place of link
RenameTarget(a) ==
    /\ pc[a] = "link"
    /\ files' = [files EXCEPT ![Target(a)] = held[a][at[a]]]
    /\ maker' = [maker EXCEPT ![Target(a)] = a]
    /\ written' = [written EXCEPT ![a] = Append(written[a], Target(a))]
    /\ Go(a, "removeTemp")
    /\ UNCHANGED <<job, view, stored, at, held, retries, outcome, temps,
                   previews, checkpoints, staging, committed, authorVars, holder, envVars>>

\* link(temp, target) succeeds only if there is no target
LinkTarget(a) ==
    /\ pc[a] = "link" /\ files[Target(a)] = Absent
    /\ files' = [files EXCEPT ![Target(a)] = held[a][at[a]]]
    /\ maker' = [maker EXCEPT ![Target(a)] = a]
    /\ written' = [written EXCEPT ![a] = Append(written[a], Target(a))]
    /\ Go(a, "removeTemp")
    /\ UNCHANGED <<job, view, stored, at, held, retries, outcome, temps,
                   previews, checkpoints, staging, committed, authorVars, holder, envVars>>

LinkTargetExists(a) ==
    /\ pc[a] = "link" /\ files[Target(a)] # Absent
    /\ Go(a, "removeTemp")
    /\ outcome' = [outcome EXCEPT ![a] = "APPLY_TARGET_EXISTS"]
    /\ UNCHANGED <<job, view, stored, at, held, retries, written,
                   diskVars, authorVars, holder, envVars>>

\* withWriteRetry: EPERM, EBUSY or EACCES while the budget lasts - the whole
\* function runs again, from open or from link
RetryPrimitive(a) ==
    /\ pc[a] \in {"open", "fill", "link"} /\ retries[a] < MaxRetries
    /\ Go(a, IF pc[a] = "link" THEN "link" ELSE "open")
    /\ retries' = [retries EXCEPT ![a] = retries[a] + 1]
    /\ UNCHANGED <<job, view, stored, at, held, outcome, written,
                   diskVars, authorVars, holder, envVars>>

\* the next sleep would pass the deadline: WRITE_LOCK_CONTENTION; or an error that
\* is not retryable, of mkdir(dirname) too
GiveUpPrimitive(a) ==
    /\ pc[a] \in {"open", "fill", "link"}
    /\ Go(a, "removeTemp")
    /\ \E code \in {"WRITE_LOCK_CONTENTION", "IO"} : outcome' = [outcome EXCEPT ![a] = code]
    /\ UNCHANGED <<job, view, stored, at, held, retries, written,
                   diskVars, authorVars, holder, envVars>>

\* mutant: the temp file is removed on success only
RemoveTempOnSuccess(a) ==
    /\ pc[a] = "removeTemp"
    /\ temps' = IF outcome[a] = "none" THEN temps \ {a} ELSE temps
    /\ IF outcome[a] = "none"
       THEN Go(a, "next") /\ at' = [at EXCEPT ![a] = at[a] + 1]
       ELSE Go(a, "release") /\ UNCHANGED at
    /\ UNCHANGED <<job, view, stored, held, retries, outcome, written,
                   files, previews, checkpoints, staging, maker, committed,
                   authorVars, holder, envVars>>

\* the finally of writeCreateOnlyFile; the files linked before stay where they are
RemoveTemp(a) ==
    /\ pc[a] = "removeTemp"
    /\ temps' = temps \ {a}
    /\ IF outcome[a] = "none"
       THEN Go(a, "next") /\ at' = [at EXCEPT ![a] = at[a] + 1]
       ELSE Go(a, "release") /\ UNCHANGED at
    /\ UNCHANGED <<job, view, stored, held, retries, outcome, written,
                   files, previews, checkpoints, staging, maker, committed,
                   authorVars, holder, envVars>>

\* safeRm fails (EPERM): its error replaces the outcome and the temp file stays
RemoveTempFails(a) ==
    /\ pc[a] = "removeTemp"
    /\ Throw(a, "TEMP_LEFT")
    /\ UNCHANGED <<job, view, stored, at, held, retries, written,
                   diskVars, authorVars, holder, envVars>>

\* lock.release(): nothing if the lock has a new owner.  One that cannot read owner.json or
\* remove the directory leaves the lock until its lease has run out, like a Crash here;
\* LockStore has these errors.
Release(a) ==
    /\ pc[a] = "release"
    /\ Go(a, "ended")
    /\ holder' = IF holder = a THEN NoOwner ELSE holder
    /\ UNCHANGED <<job, view, stored, at, held, retries, outcome, written,
                   diskVars, authorVars, envVars>>

--------------------------------------------------------------------------------
(* The environment.                                                          *)

Meddle(who) ==
    /\ who \in Meddlers /\ meddling < MaxMeddling
    /\ meddling' = meddling + 1
    /\ UNCHANGED crashes

\* the lease of a living holder runs out, after a stall, and is reaped
LeaseRunsOut ==
    /\ Lock!Drop
    /\ Meddle("lease")
    /\ UNCHANGED <<diskVars, authorVars, applierVars>>

\* the lease of a dead one does so without fail
DeadLeaseRunsOut ==
    /\ \E a \in Appliers : holder = a /\ pc[a] = "crashed"
    /\ Lock!Drop
    /\ UNCHANGED <<diskVars, authorVars, applierVars, envVars>>

UserCreates(t) ==
    /\ files[t] = Absent
    /\ files' = [files EXCEPT ![t] = UserContent]
    /\ maker' = [maker EXCEPT ![t] = NoOwner]
    /\ Meddle("create")
    /\ UNCHANGED <<temps, previews, checkpoints, staging, committed,
                   authorVars, applierVars, holder>>

UserDeletes(t) ==
    /\ files[t] # Absent
    /\ files' = [files EXCEPT ![t] = Absent]
    /\ maker' = [maker EXCEPT ![t] = NoOwner]
    /\ Meddle("delete")
    /\ UNCHANGED <<temps, previews, checkpoints, staging, committed,
                   authorVars, applierVars, holder>>

\* a staging file is rewritten or removed
StagingChanges(c) ==
    /\ \E d \in (Contents \cup {Absent}) \ {staging[c]} :
          staging' = [staging EXCEPT ![c] = d]
    /\ Meddle("staging")
    /\ UNCHANGED <<files, temps, previews, checkpoints, maker, committed,
                   authorVars, applierVars, holder>>

\* somebody changes the actions of a stored preview by hand
PreviewEdited(i) ==
    /\ There(previews[i]) /\ meddling < MaxMeddling
    /\ \E list \in Edits : previews' = [previews EXCEPT ![i].list = list]
    /\ meddling' = meddling + 1
    /\ UNCHANGED <<files, temps, checkpoints, staging, maker, committed,
                   authorVars, applierVars, holder, crashes>>

\* the process of an applyPreview call dies; lock, temp file and files stay
Crash(a) ==
    /\ crashes < MaxCrashes /\ pc[a] \notin {"idle", "ended", "crashed"}
    /\ crashes' = crashes + 1
    /\ Go(a, "crashed")
    /\ UNCHANGED <<job, view, stored, at, held, retries, outcome, written,
                   diskVars, authorVars, holder, meddling>>

--------------------------------------------------------------------------------

Author(p) == CheckTargets(p) \/ WritePreview(p) \/ WriteCheckpoint(p)

Check(a) ==
    \/ TakeLock(a) \/ LockRefused(a) \/ ReadPreview(a) \/ ReadMissing(a)
    \/ ReadCheckpoint(a) \/ PreflightPass(a) \/ PreflightThrow(a) \/ PreflightDone(a)

Write(a) ==
    \/ NextEntry(a) \/ OpenTemp(a) \/ OpenTempExists(a) \/ FillTemp(a)
    \/ LinkTarget(a) \/ LinkTargetExists(a) \/ RetryPrimitive(a) \/ GiveUpPrimitive(a)
    \/ RemoveTemp(a) \/ RemoveTempFails(a) \/ Release(a)

Environment ==
    \/ LeaseRunsOut \/ DeadLeaseRunsOut
    \/ \E t \in Targets : UserCreates(t) \/ UserDeletes(t)
    \/ \E c \in Contents : StagingChanges(c)
    \/ \E i \in Ids : PreviewEdited(i)
    \/ \E a \in Appliers : Crash(a)

Next ==
    \/ \E p \in Authors : Author(p)
    \/ \E a \in Appliers : Check(a) \/ Write(a)
    \/ Environment

Spec == Init /\ [][Next]_vars

--------------------------------------------------------------------------------
(* Properties.                                                               *)

ReadPC == {"readPreview", "readCheckpoint"}
WritePC == {"next", "open", "fill", "link", "removeTemp"}
PC == {"idle", "preflight", "release", "ended", "crashed"} \cup ReadPC \cup WritePC

Stored == [hash : Manifests \cup {<<>>}, list : Seq(Actions)]

TypeOK ==
    /\ files \in [Targets -> Contents \cup {Absent, UserContent}]
    /\ temps \subseteq Appliers
    /\ previews \in [Ids -> Stored] /\ checkpoints \in [Ids -> Stored]
    /\ staging \in [Contents -> Contents \cup {Absent}]
    /\ holder \in Appliers \cup {NoOwner}
    /\ author \in [Authors -> {"idle", "writePreview", "writeCheckpoint", "done",
                               "PREVIEW_TARGET_EXISTS"}]
    /\ draft \in [Authors -> Manifests]
    /\ pc \in [Appliers -> PC]
    /\ job \in [Appliers -> Ids]
    /\ view \in [Appliers -> Stored] /\ stored \in [Appliers -> Stored]
    /\ at \in [Appliers -> Nat]
    /\ held \in [Appliers -> Seq(Contents)]
    /\ retries \in [Appliers -> Nat]
    /\ outcome \in [Appliers -> Outcomes]
    /\ written \in [Appliers -> Seq(Targets)]
    /\ maker \in [Targets -> Appliers \cup {NoOwner}]
    /\ committed \subseteq Manifests
    /\ meddling \in Nat /\ crashes \in Nat

\* manifest m asks for target t with content c
Asks(m, t, c) == \E k \in DOMAIN m : TargetOf[m[k].name] = t /\ m[k].sha = c

\* A file an apply created has exactly the content that some manifest committed under the
\* id it was called with asks for there - whatever happened to the preview or to the
\* staging files between commit, pre-flight and link (layers (a) to (c) of applyPreview).
WrittenAsCommitted ==
    \A t \in Targets : maker[t] # NoOwner =>
       \E m \in committed : IdOf[m] = job[maker[t]] /\ Asks(m, t, files[t])

\* An apply that returns has created the targets of one committed manifest, all of
\* them and in its order - provided nobody edits the stored preview.
AppliesWholeManifest ==
    Edits = {} =>
       \A a \in Appliers : outcome[a] = "ok" =>
          \E m \in committed :
             /\ DOMAIN m = DOMAIN written[a]
             /\ \A k \in DOMAIN m : TargetOf[m[k].name] = written[a][k]

\* An apply leaves no temp sibling behind, on success or on any error but the one
\* of removing it (the finally of writeCreateOnlyFile).
NoTempLeft ==
    \A a \in Appliers : pc[a] = "ended" /\ outcome[a] # "TEMP_LEFT" => a \notin temps

\* Create-only: a file that is there is never replaced - not by an apply that passed
\* its pre-flight before the file came, nor by one whose lease has run out.
NoClobber ==
    [][\A t \in Targets : files[t] # Absent => files'[t] \in {files[t], Absent}]_vars

\* Unless its pre-flight has passed as a whole, an apply writes nothing
\* (batch all-or-nothing, REQ-TY-028).
NothingBeforePreflight ==
    \A a \in Appliers :
       outcome[a] \in PreflightFailures \/ Len(held[a]) < Len(view[a].list) =>
          written[a] = <<>> /\ a \notin temps

--------------------------------------------------------------------------------
(* Why they hold: the inductive invariant.                                   *)

\* a temp sibling is there only while writeCreateOnlyFile is at it, or its process
\* is dead, or safeRm failed
TempsInUse ==
    \A a \in temps :
       \/ pc[a] \in {"open", "fill", "link", "removeTemp", "crashed"}
       \/ pc[a] \in {"release", "ended"} /\ outcome[a] = "TEMP_LEFT"

\* what an applier read as its checkpoint is a manifest committed under its id
CheckpointsCommitted ==
    /\ \A i \in Ids : There(checkpoints[i]) =>
          checkpoints[i].list \in committed /\ IdOf[checkpoints[i].list] = i
    /\ \A a \in Appliers : There(stored[a]) =>
          stored[a].list \in committed /\ IdOf[stored[a].list] = job[a]

\* what an applier holds for its k-th action is what its checkpoint asks for there
HeldVerified ==
    \A a \in Appliers : \A k \in DOMAIN held[a] :
       /\ k \in DOMAIN view[a].list
       /\ There(stored[a])
       /\ \E j \in DOMAIN stored[a].list :
             /\ stored[a].list[j].name = view[a].list[k].name
             /\ stored[a].list[j].sha = held[a][k]

\* how far the two loops of an applier are
LoopsAligned ==
    \A a \in Appliers :
       /\ pc[a] \in {"idle"} \cup ReadPC => held[a] = <<>> /\ at[a] = 1
       /\ pc[a] = "preflight" => There(stored[a]) /\ Len(held[a]) = at[a] - 1
       /\ pc[a] \in {"open", "fill", "link"} => at[a] \in DOMAIN held[a]
       /\ pc[a] \notin {"removeTemp", "release", "ended", "crashed"} => outcome[a] = "none"

\* only an applier whose pre-flight has passed writes
WritersPassed ==
    \A a \in Appliers :
       written[a] # <<>> \/ a \in temps \/ pc[a] \in WritePC =>
          /\ Len(held[a]) = Len(view[a].list)
          /\ outcome[a] \notin PreflightFailures
          /\ pc[a] \in WritePC \cup {"release", "ended", "crashed"}

\* a list stored with a hash is the manifest of that hash
Unedited(file) == There(file) => file.list = file.hash

\* as long as nobody edits a preview: what an applier has read is one manifest, and what
\* it has written so far are the targets of its first actions
WritesInOrder(a) ==
    /\ Unedited(view[a]) /\ Unedited(stored[a])
    /\ pc[a] = "preflight" \/ pc[a] \in WritePC \/ outcome[a] = "ok" =>
          There(stored[a]) /\ view[a].hash = stored[a].hash
    /\ pc[a] \in {"next", "open", "fill", "link"} => Len(written[a]) = at[a] - 1
    /\ pc[a] = "removeTemp" /\ outcome[a] = "none" => Len(written[a]) = at[a]
    /\ \A k \in DOMAIN written[a] :
          k \in DOMAIN view[a].list /\ written[a][k] = TargetOf[view[a].list[k].name]
    /\ outcome[a] = "ok" =>
          /\ Len(written[a]) = Len(view[a].list)
          /\ pc[a] \in {"release", "ended", "crashed"}

WritesAligned ==
    Edits = {} =>
       /\ \A i \in Ids : Unedited(previews[i]) /\ Unedited(checkpoints[i])
       /\ \A a \in Appliers : WritesInOrder(a)

ApplyInv ==
    /\ TypeOK /\ TempsInUse /\ CheckpointsCommitted /\ HeldVerified /\ LoopsAligned
    /\ WritersPassed /\ WrittenAsCommitted /\ WritesAligned

--------------------------------------------------------------------------------
(* What the comments of the code say beyond that.                            *)

\* apply.ts: "the whole apply fails with APPLY_TARGET_EXISTS / ... and ZERO files
\* are written".
AllOrNothing ==
    \A a \in Appliers : outcome[a] = "APPLY_TARGET_EXISTS" => written[a] = <<>>

--------------------------------------------------------------------------------

\* The apply lock comes free again however the apply ends, in an error of any step
\* or in a crash: the finally of applyPreview is on every path.
LockComesFree == \A a \in Appliers : holder = a ~> holder # a
================================================================================
