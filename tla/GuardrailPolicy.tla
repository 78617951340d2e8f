-------------------------- MODULE GuardrailPolicy --------------------------
(***************************************************************************)
(* The GuardrailPolicy controller                                          *)
(* (internal/controller/guardrailpolicy_controller.go): one policy name    *)
(* through all its incarnations, the single worker that reconciles it, and *)
(* the guardrails it creates at Bedrock.  Every call the handler makes to  *)
(* the API server or to Bedrock is a step of its own, so users, the watch, *)
(* timers and crashes come between any two of them.                        *)
(***************************************************************************)
EXTENDS Integers, Sequences

CONSTANTS
    Specs,        \* contents of a policy's spec
    Refused,      \* the contents Bedrock does not accept
    UniqueNames,  \* Bedrock refuses a second guardrail of the same name
    OutsideDeletes, \* guardrails may be deleted past the operator
    MaxLag,       \* bound: versions the cache may lack when a run starts
    MaxEdits,     \* bound on user actions
    MaxFaults     \* bound on failing calls, crashes and outside deletions

ASSUME ConstantsAssumption ==
    /\ Specs # {} /\ Refused \subseteq Specs
    /\ UniqueNames \in BOOLEAN /\ OutsideDeletes \in BOOLEAN
    /\ MaxLag \in Nat /\ MaxEdits \in Nat /\ MaxFaults \in Nat

VARIABLES
    log, seen, queued, timer, edits, faults,  \* see ApiObject
    pc,          \* the next call of the worker, "idle" between two runs
    read,        \* resourceVersion of the object the run works on
    next,        \* the status the run is going to patch
    guardrails   \* Bedrock: the guardrail with id i is guardrails[i]

(* GuardrailPolicyStatus, id 0 for the empty string: GuardrailVersion is   *)
(* what Bedrock answers and no property looks at it.                       *)
GuardrailStatus == [id: Nat, synced: {"Unset", "True", "False"}, obs: Nat]
NoGuardrail     == [id |-> 0, synced |-> "Unset", obs |-> 0]

INSTANCE ApiObject WITH Statuses <- GuardrailStatus, NoStatus <- NoGuardrail

worker == <<pc, read, next>>
vars   == <<apiVars, worker, guardrails>>

(***************************************************************************)
(* A guardrail at Bedrock. "owner" (the uid it was created for) and        *)
(* "asked" (DeleteGuardrail was called for it) are history: no step reads  *)
(* them.                                                                   *)
(***************************************************************************)
Guardrail == [owner: Nat, content: Specs, live: BOOLEAN, asked: BOOLEAN]

Steps == {"idle", "adopt", "create", "update", "patch", "delete", "release"}

TypeOK ==
    /\ ApiTypeOK
    /\ pc \in Steps
    /\ read \in 1 .. seen
    /\ next \in GuardrailStatus
    /\ guardrails \in Seq(Guardrail)
    /\ Server.status.id \in 0 .. Len(guardrails)

Init ==
    /\ ApiInit
    /\ pc = "idle" /\ read = 1 /\ next = NoGuardrail
    /\ guardrails = << >>

-----------------------------------------------------------------------------
(* The object the run has in its hands, as Get returned it. *)
gp == log[read]

(* Mutant of Synced: an id other than the one Bedrock answered. *)
SyncedNextId(id) == [id |-> id + 1, synced |-> "True", obs |-> gp.gen]

Synced(id) == [id |-> id, synced |-> "True", obs |-> gp.gen]

(* Mutant of SyncFailed: a failed run starts from an empty status. *)
SyncFailedAnew == [NoGuardrail EXCEPT !.synced = "False", !.obs = gp.gen]

SyncFailed == [gp.status EXCEPT !.synced = "False", !.obs = gp.gen]

(* Mutant of OnDeletion: where nothing was created, nothing is left to do. *)
OnDeletionRecorded(o) == IF o.finalizer /\ o.status.id # 0 THEN "delete" ELSE "idle"

(* handleGuardrailDeletion, up to its first call. *)
OnDeletion(o) ==
    CASE ~o.finalizer                      -> "idle"
      [] o.finalizer /\ o.status.id # 0    -> "delete"
      [] o.finalizer /\ o.status.id = 0    -> "release"

(* Mutant of OnSync: a generation once observed is never synced again. *)
OnSyncOnce(o) ==
    CASE o.status.id = 0                                -> "create"
      [] o.status.id # 0 /\ o.status.obs # o.gen        -> "update"
      [] o.status.id # 0 /\ o.status.obs = o.gen        -> "idle"

OnSync(o) == IF o.status.id = 0 THEN "create" ELSE "update"

(* Mutant of Branch: Bedrock is called before the finalizer is in place. *)
BranchUnguarded(o) ==
    CASE ~Exists(o)                  -> "idle"
      [] Exists(o) /\ o.deleting     -> OnDeletion(o)
      [] Live(o)                     -> OnSync(o)

(* The branch Reconcile takes on the object it got from the cache. *)
Branch(o) ==
    CASE ~Exists(o)                  -> "idle"
      [] Exists(o) /\ o.deleting     -> OnDeletion(o)
      [] Live(o) /\ ~o.finalizer     -> "adopt"
      [] Live(o) /\ o.finalizer      -> OnSync(o)

(* A run ends and forgets its object. *)
End == pc' = "idle" /\ read' = 1 /\ next' = NoGuardrail

(* The worker takes the key and gets the object from the cache. *)
Reconcile ==
    /\ pc = "idle" /\ queued /\ Lag <= MaxLag
    /\ queued' = FALSE
    /\ IF Branch(Cached) = "idle" THEN End
       ELSE pc' = Branch(Cached) /\ read' = seen /\ UNCHANGED next
    /\ UNCHANGED <<log, seen, timer, edits, faults, guardrails>>

(* The run ends with a Result or an error that adds the key again later. *)
EndRequeued ==
    /\ End /\ timer' = TRUE
    /\ UNCHANGED <<seen, queued, edits>>

(* Reconcile adds the finalizer and asks for a requeue. *)
AddFinalizer ==
    /\ pc = "adopt"
    /\ \/ UpToDate(read) /\ log' = Written([gp EXCEPT !.finalizer = TRUE])
                         /\ UNCHANGED faults
       \/ ~UpToDate(read) /\ UNCHANGED <<log, faults>>
       \/ Fault /\ UNCHANGED log
    /\ EndRequeued
    /\ UNCHANGED guardrails

-----------------------------------------------------------------------------
(* Bedrock's answers.  A call may also fail, or have its effect and lose   *)
(* its answer, which the handler cannot tell from a failure.               *)
Accepts(s) == s \notin Refused

NameTaken == UniqueNames /\ \E i \in DOMAIN guardrails : guardrails[i].live

WithCreated ==
    Append(guardrails, [owner |-> gp.uid, content |-> gp.spec,
                        live |-> TRUE, asked |-> FALSE])

Answered(st) ==
    /\ pc' = "patch" /\ next' = st
    /\ UNCHANGED <<log, seen, queued, timer, edits, read>>

(* createGuardrail *)
CreateGuardrail ==
    /\ pc = "create"
    /\ \/ /\ Accepts(gp.spec) /\ ~NameTaken
          /\ guardrails' = WithCreated
          /\ \/ Answered(Synced(Len(guardrails) + 1)) /\ UNCHANGED faults
             \/ Answered(SyncFailed) /\ Fault
       \/ /\ \/ (~Accepts(gp.spec) \/ NameTaken) /\ UNCHANGED faults
             \/ Fault
          /\ Answered(SyncFailed)
          /\ UNCHANGED guardrails

(* updateGuardrail *)
UpdateGuardrail ==
    /\ pc = "update"
    /\ LET id == gp.status.id IN
       \/ /\ Accepts(gp.spec) /\ guardrails[id].live
          /\ guardrails' = [guardrails EXCEPT ![id].content = gp.spec]
          /\ \/ Answered(Synced(id)) /\ UNCHANGED faults
             \/ Answered(SyncFailed) /\ Fault
       \/ /\ \/ ~(Accepts(gp.spec) /\ guardrails[id].live) /\ UNCHANGED faults
             \/ Fault
          /\ Answered(SyncFailed)
          /\ UNCHANGED guardrails

(* Mutant of Patched: the whole status is sent. *)
PatchedWhole == [Server EXCEPT !.status = next]

(* The server's object after the patch of the run's status. *)
Patched ==
    [Server EXCEPT !.status =
        [id     |-> Merged(@.id, gp.status.id, next.id),
         synced |-> Merged(@.synced, gp.status.synced, next.synced),
         obs    |-> Merged(@.obs, gp.status.obs, next.obs)]]

(* The status patch and the requeue that ends every run on a live policy. *)
PatchStatus ==
    /\ pc = "patch"
    /\ \/ Exists(Server) /\ log' = Written(Patched)
                         /\ UNCHANGED faults
       \/ ~Exists(Server) /\ UNCHANGED <<log, faults>>
       \/ Fault /\ UNCHANGED log
    /\ EndRequeued
    /\ UNCHANGED guardrails

-----------------------------------------------------------------------------
(* handleGuardrailDeletion: an error of DeleteGuardrail is only logged. *)
AskedToDelete(g, stays) ==
    [g EXCEPT !.live = IF stays THEN @ ELSE FALSE, !.asked = TRUE]

(* Mutant of DeleteGuardrail: after an error the run just ends. *)
DeleteGuardrailOrStop ==
    /\ pc = "delete"
    /\ \/ /\ guardrails' = [guardrails EXCEPT ![gp.status.id] =
                                AskedToDelete(guardrails[gp.status.id], FALSE)]
          /\ pc' = "release" /\ UNCHANGED <<faults, read, next>>
       \/ Fault /\ End /\ UNCHANGED guardrails
    /\ UNCHANGED <<log, seen, queued, timer, edits>>

DeleteGuardrail ==
    /\ pc = "delete"
    /\ \E stays \in BOOLEAN :
          /\ IF stays THEN Fault ELSE UNCHANGED faults
          /\ guardrails' = [guardrails EXCEPT ![gp.status.id] =
                                AskedToDelete(guardrails[gp.status.id], stays)]
    /\ pc' = "release"
    /\ UNCHANGED <<log, seen, queued, timer, edits, read, next>>

(* Mutant of RemoveFinalizer: a patch, which carries no resourceVersion. *)
RemoveFinalizerByPatch ==
    /\ pc = "release" /\ Exists(Server)
    /\ log' = Written(Collected([Server EXCEPT !.finalizer = FALSE]))
    /\ End
    /\ UNCHANGED <<seen, queued, timer, edits, faults, guardrails>>

RemoveFinalizer ==
    /\ pc = "release"
    /\ \/ /\ UpToDate(read)
          /\ log' = Written(Collected([gp EXCEPT !.finalizer = FALSE]))
          /\ End
          /\ UNCHANGED <<seen, queued, timer, edits, faults>>
       \/ ~UpToDate(read) /\ EndRequeued /\ UNCHANGED <<log, faults>>
       \/ Fault /\ EndRequeued /\ UNCHANGED log
    /\ UNCHANGED guardrails

-----------------------------------------------------------------------------
(* The manager's process ends, at any point of a run. *)
Crash ==
    /\ Relist
    /\ End
    /\ UNCHANGED guardrails

(* Somebody deletes the guardrail at Bedrock, past the operator. *)
OutsideDelete ==
    /\ OutsideDeletes /\ Fault
    /\ \E i \in DOMAIN guardrails :
          guardrails[i].live /\ guardrails' = [guardrails EXCEPT ![i].live = FALSE]
    /\ UNCHANGED <<log, seen, queued, timer, edits, worker>>

Worker == \/ Reconcile \/ AddFinalizer \/ CreateGuardrail \/ UpdateGuardrail
          \/ PatchStatus \/ DeleteGuardrail \/ RemoveFinalizer

Api == (User \/ Deliver \/ TimerFires) /\ UNCHANGED <<worker, guardrails>>

Next == Worker \/ Api \/ Crash \/ OutsideDelete

Spec == Init /\ [][Next]_vars

(***************************************************************************)
(* controller-runtime keeps its worker and its informer running and fires  *)
(* every timer; users owe nothing.                                         *)
(***************************************************************************)
Fairness ==
    /\ WF_vars(Worker)
    /\ WF_vars(Deliver /\ UNCHANGED <<worker, guardrails>>)
    /\ WF_vars(TimerFires /\ UNCHANGED <<worker, guardrails>>)

FairSpec == Spec /\ Fairness

-----------------------------------------------------------------------------
(***************************************************************************)
(* Safety.                                                                 *)
(***************************************************************************)

(* The finalizer does its work: whenever a version of the policy with the  *)
(* finalizer was followed by one without it, DeleteGuardrail had been      *)
(* called for the id recorded in that very version, even when the run that *)
(* removed the finalizer had started from an older one                     *)
(* (guardrailpolicy_controller.go:211-237).                                *)
DeleteBeforeRelease ==
    \A i \in 1 .. Len(log) - 1 :
        log[i].finalizer /\ ~log[i + 1].finalizer /\ log[i].status.id # 0
            => guardrails[log[i].status.id].asked

(* The id in the status of a policy that is not being deleted names a      *)
(* guardrail made for this incarnation of the policy, and the operator has *)
(* not asked Bedrock to delete it, although status patches name no         *)
(* incarnation (guardrailpolicy_controller.go:76-124).                     *)
RecordedIsOwn ==
    Live(Server) /\ Server.status.id # 0
        => LET g == guardrails[Server.status.id]
           IN  g.owner = Server.uid /\ ~g.asked

(* A run on a stale object takes nothing back: within one incarnation of   *)
(* the policy the observed generation never decreases, never passes the    *)
(* generation, and a recorded id never returns to empty                    *)
(* (guardrailpolicy_controller.go:77, 104, 122).                           *)
StatusMovesOn ==
    [][Exists(Server) /\ Server'.uid = Server.uid =>
          /\ Server.status.obs <= Server'.status.obs
          /\ Server'.status.obs <= Server'.gen
          /\ Server.status.id # 0 => Server'.status.id # 0]_vars

(* Nothing is held for a policy that names no guardrail, or one that       *)
(* Bedrock has been asked to delete.                                       *)
Clean == Server.status.id = 0 \/ guardrails[Server.status.id].asked

Promised == INSTANCE FinalizedObject
            WITH phase <- Phase, guarded <- Server.finalizer,
                 content <- Server.spec, clean <- Clean

(* The controller keeps the promise of its finalizer: only a live policy   *)
(* gets it, no run records a guardrail in a policy that does not have it,  *)
(* not even a run begun before the policy was deleted and made again, and  *)
(* it leaves only a deleted policy whose guardrail was asked to go         *)
(* (guardrailpolicy_controller.go:61-127, 211-237).                        *)
IsFinalizedObject == Promised!Promise

(* Where Bedrock holds names unique, a second CreateGuardrail from a stale *)
(* cache cannot replace the recorded id while its guardrail is live: the   *)
(* call is refused and the patch of the failed run leaves the id out       *)
(* (guardrailpolicy_controller.go:85-104).                                 *)
LiveGuardrailKept ==
    [][LET id == Server.status.id IN
       id # 0 /\ Server'.uid = Server.uid /\ guardrails[id].live
          => Server'.status.id = id]_vars

-----------------------------------------------------------------------------
(***************************************************************************)
(* Liveness, once users and faults have come to rest.                      *)
(***************************************************************************)
Reachable(st) ==
    IF st.id = 0 THEN ~NameTaken ELSE guardrails[st.id].live

InSync ==
    LET st == Server.status IN
    /\ Server.finalizer /\ st.obs = Server.gen
    /\ IF Accepts(Server.spec) /\ Reachable(st)
       THEN /\ st.synced = "True" /\ st.id # 0
            /\ guardrails[st.id].content = Server.spec
       ELSE st.synced = "False"

(* The policy ends up in step with Bedrock: its last spec is the content   *)
(* of the live guardrail it names, or its status says that it is not,      *)
(* because Bedrock refuses the spec, or the name is taken by an orphan, or *)
(* somebody has deleted the guardrail, which the operator never makes anew *)
(* (guardrailpolicy_controller.go:85-127, 189).                            *)
EventuallyInSync == <>[](Live(Server) => InSync)

(* A policy that is being deleted loses the finalizer, whatever becomes of *)
(* the DeleteGuardrail call (guardrailpolicy_controller.go:225-236).       *)
DeletionCompletes ==
    (Exists(Server) /\ Server.deleting) ~> ~Server.finalizer

-----------------------------------------------------------------------------
(***************************************************************************)
(* What the documentation says and the code does not do.                   *)
(***************************************************************************)

(* "On update: call UpdateGuardrail with the existing ID": CreateGuardrail *)
(* is never called for a policy that has an id                             *)
(* (guardrailpolicy_controller.go:50-51).                                  *)
CreateOnlyWithoutId ==
    [][CreateGuardrail => Server.uid # gp.uid \/ Server.status.id = 0]_vars

(* The operator "deletes the Bedrock guardrail on delete (before removing  *)
(* the finalizer)": no live guardrail belongs to an incarnation of the     *)
(* policy that is gone (docs/crd-reference.md:86-87).                      *)
NoGuardrailOutlivesPolicy ==
    \A i \in DOMAIN guardrails :
        guardrails[i].live => guardrails[i].owner = Server.uid

(* GuardrailSynced "indicates the GuardrailPolicy has been reconciled to   *)
(* the Bedrock API": with the observed generation current, Bedrock holds   *)
(* the spec of that generation (api/v1alpha1/shared_types.go:46-47).       *)
SyncedIsCurrent ==
    Live(Server) /\ Server.status.synced = "True"
                 /\ Server.status.obs = Server.gen
        => guardrails[Server.status.id].content = Server.spec
=============================================================================
