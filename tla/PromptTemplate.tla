--------------------------- MODULE PromptTemplate ---------------------------
(***************************************************************************)
(* The PromptTemplate controller                                           *)
(* (internal/controller/prompttemplate_controller.go): one template name   *)
(* through all its incarnations, the single worker that reconciles it and  *)
(* the ModelEndpoint it refers to, which it reads but does not watch.      *)
(***************************************************************************)
EXTENDS Integers, Sequences

CONSTANTS
    Specs,     \* contents of a template
    Broken,    \* those that are no Go template
    MaxLag,    \* bound: versions the cache may lack when a run starts
    MaxEdits,  \* bound on user actions and changes of the endpoint
    MaxFaults  \* bound on failing calls and crashes

ASSUME TemplateAssumption ==
    /\ Specs # {} /\ Broken \subseteq Specs
    /\ MaxLag \in Nat /\ MaxEdits \in Nat /\ MaxFaults \in Nat

VARIABLES
    log, seen, queued, timer, edits, faults,  \* see ApiObject
    pc, read,   \* the worker: its next call, the version it works on
    found,      \* the endpoint as the run found it
    endpoint    \* the endpoint in the informer cache

Endpoints == {"missing", "unavailable", "available"}

(* The two conditions travel in one list.  "valid" is the status of        *)
(* TemplateValid, "endpoint" the reason of Ready, whose status is True     *)
(* when the template is valid and the endpoint available.                  *)
Conditions == [valid: {"Unset", "True", "False"}, endpoint: {"unset"} \cup Endpoints]

TemplateStatus == [conditions: Conditions, obs: Nat]
NoTemplate     == [conditions |-> [valid |-> "Unset", endpoint |-> "unset"],
                   obs |-> 0]

INSTANCE ApiObject WITH Statuses <- TemplateStatus, NoStatus <- NoTemplate

worker == <<pc, read, found>>
vars   == <<apiVars, worker, endpoint>>

Steps == {"idle", "adopt", "resolve", "patch", "release"}

TypeOK ==
    /\ ApiTypeOK
    /\ pc \in Steps /\ read \in 1 .. seen
    /\ found \in Endpoints /\ endpoint \in Endpoints
    /\ (Server.status.obs = 0) = (Server.status.conditions.valid = "Unset")

Init ==
    /\ ApiInit
    /\ pc = "idle" /\ read = 1 /\ found = "missing"
    /\ endpoint \in Endpoints

-----------------------------------------------------------------------------
(* The object the run has in its hands, as Get returned it. *)
pt == log[read]

(* Mutant of Branch: the finalizer comes before the question of deletion. *)
BranchAdopting(o) ==
    CASE ~Exists(o)                             -> "idle"
      [] Exists(o) /\ ~o.finalizer              -> "adopt"
      [] Exists(o) /\ o.deleting /\ o.finalizer -> "release"
      [] Live(o) /\ o.finalizer                 -> "resolve"

(* The branch Reconcile takes on the object it got from the cache. *)
Branch(o) ==
    CASE ~Exists(o)                              -> "idle"
      [] Exists(o) /\ o.deleting /\ o.finalizer  -> "release"
      [] Exists(o) /\ o.deleting /\ ~o.finalizer -> "idle"
      [] Live(o) /\ ~o.finalizer                 -> "adopt"
      [] Live(o) /\ o.finalizer                  -> "resolve"

(* A run ends and forgets its object. *)
End == pc' = "idle" /\ read' = 1 /\ found' = "missing"

Reconcile ==
    /\ pc = "idle" /\ queued /\ Lag <= MaxLag
    /\ queued' = FALSE
    /\ IF Branch(Cached) = "idle" THEN End
       ELSE pc' = Branch(Cached) /\ read' = seen /\ UNCHANGED found
    /\ UNCHANGED <<log, seen, timer, edits, faults, endpoint>>

(* Mutant of EndRequeued: the template is not looked at again. *)
EndForgotten == End /\ UNCHANGED <<seen, queued, timer, edits>>

(* The run ends with a Result or an error that adds the key again later. *)
EndRequeued == End /\ timer' = TRUE /\ UNCHANGED <<seen, queued, edits>>

AddFinalizer ==
    /\ pc = "adopt"
    /\ \/ UpToDate(read) /\ log' = Written([pt EXCEPT !.finalizer = TRUE])
                         /\ UNCHANGED faults
       \/ ~UpToDate(read) /\ UNCHANGED <<log, faults>>
       \/ Fault /\ UNCHANGED log
    /\ EndRequeued /\ UNCHANGED endpoint

(* The Get of the referenced endpoint; a NotFound is an answer like others, *)
(* any other error ends the run.                                           *)
ResolveEndpoint ==
    /\ pc = "resolve"
    /\ \/ /\ pc' = "patch" /\ found' = endpoint
          /\ UNCHANGED <<log, seen, queued, timer, edits, faults, read>>
       \/ Fault /\ EndRequeued /\ UNCHANGED log
    /\ UNCHANGED endpoint

(* Mutant of Verdict: nothing is said of a template without faults. *)
VerdictOnFault(o, e) == [valid |-> IF o.spec \in Broken THEN "False" ELSE "Unset",
                         endpoint |-> IF o.spec \in Broken THEN e ELSE "unset"]

(* What the run says of the template it has read. *)
Verdict(o, e) == [valid |-> IF o.spec \in Broken THEN "False" ELSE "True",
                  endpoint |-> e]

Patched ==
    [Server EXCEPT !.status =
        [conditions |-> Merged(@.conditions, pt.status.conditions,
                               Verdict(pt, found)),
         obs        |-> Merged(@.obs, pt.status.obs, pt.gen)]]

PatchStatus ==
    /\ pc = "patch"
    /\ \/ Exists(Server) /\ log' = Written(Patched) /\ UNCHANGED faults
       \/ ~Exists(Server) /\ UNCHANGED <<log, faults>>
       \/ Fault /\ UNCHANGED log
    /\ EndRequeued /\ UNCHANGED endpoint

RemoveFinalizer ==
    /\ pc = "release"
    /\ \/ /\ UpToDate(read)
          /\ log' = Written(Collected([pt EXCEPT !.finalizer = FALSE]))
          /\ End /\ UNCHANGED <<seen, queued, timer, edits, faults>>
       \/ /\ (~UpToDate(read) /\ UNCHANGED faults) \/ Fault
          /\ EndRequeued /\ UNCHANGED log
    /\ UNCHANGED endpoint

-----------------------------------------------------------------------------
(* The endpoint comes, goes or changes its availability: nobody tells this *)
(* controller.                                                             *)
EndpointChanges ==
    /\ edits < MaxEdits /\ edits' = edits + 1
    /\ endpoint' \in Endpoints \ {endpoint}
    /\ UNCHANGED <<log, seen, queued, timer, faults, worker>>

Crash == Relist /\ End /\ UNCHANGED endpoint

Worker == \/ Reconcile \/ AddFinalizer \/ ResolveEndpoint \/ PatchStatus
          \/ RemoveFinalizer

Api == (User \/ Deliver \/ TimerFires) /\ UNCHANGED <<worker, endpoint>>

Next == Worker \/ Api \/ EndpointChanges \/ Crash

Spec == Init /\ [][Next]_vars

(* controller-runtime does its work; users and endpoints owe nothing. *)
Fairness ==
    /\ WF_vars(Worker)
    /\ WF_vars(Deliver /\ UNCHANGED <<worker, endpoint>>)
    /\ WF_vars(TimerFires /\ UNCHANGED <<worker, endpoint>>)

FairSpec == Spec /\ Fairness

-----------------------------------------------------------------------------
Promised == INSTANCE FinalizedObject
            WITH phase <- Phase, guarded <- Server.finalizer,
                 content <- Server.spec, clean <- TRUE

(* The operator guards only live templates and lets go only deleted ones,  *)
(* whatever the cache shows it (prompttemplate_controller.go:51-67).       *)
IsFinalizedObject == Promised!Promise

(* A run on a stale template takes nothing back: within one incarnation    *)
(* the observed generation never decreases and never passes the            *)
(* generation, and a verdict once given is there for good                  *)
(* (prompttemplate_controller.go:69-130).                                  *)
StatusMovesOn ==
    [][Exists(Server) /\ Server'.uid = Server.uid =>
          /\ Server.status.obs <= Server'.status.obs
          /\ Server'.status.obs <= Server'.gen
          /\ Server.status.conditions.valid # "Unset"
                => Server'.status.conditions.valid # "Unset"]_vars

(* In the end the status tells the truth about the last template and about *)
(* an endpoint that changes unseen, although single patches may leave an   *)
(* old condition with a new generation                                     *)
(* (prompttemplate_controller.go:69-130).                                  *)
EventuallyTrue ==
    <>[](Live(Server) => Server.status = [conditions |-> Verdict(Server, endpoint),
                                          obs |-> Server.gen])

(* A template that is being deleted loses the finalizer                    *)
(* (prompttemplate_controller.go:51-59).                                   *)
DeletionCompletes ==
    (Exists(Server) /\ Server.deleting) ~> ~Server.finalizer

-----------------------------------------------------------------------------
(***************************************************************************)
(* What the documentation says and the code does not do.                   *)
(***************************************************************************)

(* "sets Ready=True only when both the template is valid and the endpoint  *)
(* is available": a template whose generation has been observed and that   *)
(* is Ready is a valid one (docs/architecture.md:69).                      *)
Ready(st) == st.conditions.valid = "True" /\ st.conditions.endpoint = "available"

ReadyMeansValid ==
    Live(Server) /\ Server.status.obs = Server.gen /\ Ready(Server.status)
        => Server.spec \notin Broken
=============================================================================
