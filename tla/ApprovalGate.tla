------------------------------ MODULE ApprovalGate ------------------------------
(***************************************************************************)
(* The approval gate: calls of the tools of head/opencode/tiny-tool.ts     *)
(* whose handler returns a manifest.  A call commits the manifest; then it *)
(* either applies the preview, if its caller has approved that very        *)
(* preview, or reads it back and returns a summary for approval.  Calls    *)
(* run side by side, and each is a createPreview and an applyPreview of    *)
(* CheckpointApply, step by step.  Handlers are pure; their outputs that   *)
(* are no manifest touch nothing and are left out.                         *)
(***************************************************************************)
EXTENDS CheckpointApply

CONSTANT NoId             \* approvedPreviewId is undefined

\* a call is the author of its preview and the applier of it
ASSUME GateAssumption == Authors = Appliers /\ NoId \notin Ids

VARIABLES
    gate,                 \* where each call is
    approved,             \* its approvedPreviewId
    shown                 \* the summaries returned so far

gateVars == <<gate, approved, shown>>
allVars == <<vars, gateVars>>

GateInit ==
    /\ Init
    /\ job = [c \in Appliers |-> IdOf[draft[c]]]
    /\ gate = [c \in Appliers |-> "idle"]
    /\ approved = [c \in Appliers |-> NoId]
    /\ shown = {}

GateTo(c, where) == gate' = [gate EXCEPT ![c] = where] /\ UNCHANGED <<approved, shown>>

\* run({ input, root, approvedPreviewId }): the caller has the id from a summary
Run(c) ==
    /\ gate[c] = "idle"
    /\ gate' = [gate EXCEPT ![c] = "commit"]
    /\ \E i \in {NoId} \cup {s.id : s \in shown} : approved' = [approved EXCEPT ![c] = i]
    /\ UNCHANGED <<vars, shown>>

\* mutant: that something is approved is enough
RouteOnAnyApproval(c) == IF approved[c] # NoId THEN "apply" ELSE "summary"

\* only the approval of this preview applies it
Route(c) == IF approved[c] = IdOf[draft[c]] THEN "apply" ELSE "summary"

\* commitManifest: the steps of createPreview, and the routing when it returns
Commit(c) ==
    /\ gate[c] = "commit" /\ Author(c)
    /\ \/ author'[c] = "PREVIEW_TARGET_EXISTS" /\ GateTo(c, "ended")
       \/ author'[c] = "done" /\ GateTo(c, Route(c))
       \/ author'[c] \notin {"PREVIEW_TARGET_EXISTS", "done"} /\ GateTo(c, "commit")

\* applyApproved: the steps of applyPreview
ApplyApproved(c) ==
    /\ gate[c] = "apply" /\ (Check(c) \/ Write(c))
    /\ GateTo(c, IF pc'[c] = "ended" THEN "ended" ELSE "apply")

Summary(id) == [id |-> id, hash |-> previews[id].hash, list |-> previews[id].list]

\* requestApproval: the preview is read back and summarized; a missing one is an error
RequestApproval(c) ==
    /\ gate[c] = "summary"
    /\ gate' = [gate EXCEPT ![c] = "ended"]
    /\ shown' = IF There(previews[job[c]]) THEN shown \cup {Summary(job[c])} ELSE shown
    /\ UNCHANGED <<vars, approved>>

Call(c) == Run(c) \/ Commit(c) \/ ApplyApproved(c) \/ RequestApproval(c)
World == Environment /\ UNCHANGED gateVars

GateNext == World \/ \E c \in Appliers : Call(c)

GateSpec == GateInit /\ [][GateNext]_allVars

\* as in CheckpointApply: an apply under way goes on until it ends or dies, and the lease
\* of a dead one runs out
GateFairness ==
    /\ \A c \in Appliers : WF_allVars(ApplyApproved(c) /\ pc[c] # "idle")
    /\ WF_allVars(DeadLeaseRunsOut /\ UNCHANGED gateVars)

GateFairSpec == GateSpec /\ GateFairness

--------------------------------------------------------------------------------
(* Properties.                                                               *)

\* the twelve digits of an id tell the manifests of the calls apart
IdsTellApart ==
    \A c, d \in Authors : IdOf[draft[c]] = IdOf[draft[d]] => draft[c] = draft[d]

\* Nothing is created that was not shown for approval: a file some call has created is what
\* a manifest asks for whose hash was in a summary under the id that call was given,
\* whatever happened to previews, staging files and the lock between the two.
AppliedAsShown ==
    IdsTellApart =>
       \A t \in Targets : maker[t] # NoOwner =>
          \E s \in shown : s.id = approved[maker[t]] /\ Asks(s.hash, t, files[t])

--------------------------------------------------------------------------------
(* Why it holds.                                                             *)

GateTypeOK ==
    /\ gate \in [Appliers -> {"idle", "commit", "apply", "summary", "ended"}]
    /\ approved \in [Appliers -> Ids \cup {NoId}]

\* what is stored or shown under an id is the manifest of a call with that id
CallsTold ==
    /\ \A m \in committed : \E c \in Authors : m = draft[c]
    /\ \A i \in Ids : There(previews[i]) =>
          \E c \in Authors : IdOf[draft[c]] = i /\ previews[i].hash = draft[c]
    /\ \A s \in shown : \E c \in Authors : s.id = IdOf[draft[c]] /\ s.hash = draft[c]

\* only a call approved for its own preview applies, and only an id that was shown is approved
ApprovedFirst ==
    /\ \A c \in Appliers :
          /\ job[c] = IdOf[draft[c]]
          /\ approved[c] = NoId \/ \E s \in shown : s.id = approved[c]
          /\ gate[c] = "apply" \/ pc[c] # "idle" => approved[c] = job[c]
          /\ gate[c] \notin {"apply", "ended"} => pc[c] = "idle"
    /\ \A t \in Targets : maker[t] # NoOwner => pc[maker[t]] # "idle"

GateInv == GateTypeOK /\ CallsTold /\ ApprovedFirst
================================================================================
