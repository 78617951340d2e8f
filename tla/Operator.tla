------------------------------ MODULE Operator ------------------------------
(***************************************************************************)
(* The process of the operator (Manager) and the life of one ModelEndpoint *)
(* (Admission) together: the pods that are ready answer the webhooks of    *)
(* everybody's writes, the writes of the pod that leads included.          *)
(***************************************************************************)
EXTENDS Manager, Admission

CONSTANT EnableWebhooks  \* the flag of the process, which is off by default

ASSUME OperatorAssumption == EnableWebhooks \in BOOLEAN

vars == <<managerVars, admissionVars>>

(* Only a process started with --enable-webhooks registers the webhooks;   *)
(* it needs no lease to answer them.  The Service that the configurations  *)
(* of config/webhook name, which no manifest defines, is taken to select   *)
(* the operator's pods.                                                    *)
Answering ==
    EnableWebhooks /\ \E p \in endpoints : stage[p] \notin {"off", "probes", "draining"}

TypeOK == ManagerTypeOK /\ AdmissionTypeOK

Init == ManagerInit /\ AdmissionInit

User == \/ Create(Answering) \/ Update(Answering) \/ Delete \/ SwitchHooks

Reconcile ==
    /\ Reconciling # {}
    /\ AddFinalizer(Answering) \/ RemoveFinalizer(Answering)

Next == \/ ManagerNext /\ UNCHANGED admissionVars
        \/ (User \/ Reconcile) /\ UNCHANGED managerVars

Spec == Init /\ [][Next]_vars

(* The controller keeps trying. *)
FairSpec ==
    Spec /\ ManagerFairness /\ WF_vars(Reconcile /\ UNCHANGED managerVars)

-----------------------------------------------------------------------------
Refused ==
    hooks /\ (~EnableWebhooks \/ ~validateModelEndpoint(ep.spec))

(* Rollouts, crashes and webhooks that nobody answers for a while never    *)
(* leave an endpoint behind: in the end it is in the operator's care or    *)
(* gone, unless the webhooks are installed and the validator refuses the   *)
(* spec it was stored with before, or no process was told to answer them   *)
(* (modelendpoint_controller.go:79-87, 171-187; main.go:170;               *)
(* modelendpoint_webhook.go:79-119).                                       *)
CaredForUnlessRefused ==
    <>[](ep.there => Refused \/ (ep.finalizer /\ ~ep.deleting))

-----------------------------------------------------------------------------
(***************************************************************************)
(* What the documentation says and the code does not do.                   *)
(***************************************************************************)

(* The finalizer "gates deletion until the operator has cleaned up": the   *)
(* deletion of an endpoint comes to an end                                 *)
(* (api/v1alpha1/shared_types.go:51-52).                                   *)
DeletionCompletes == ep.deleting ~> ~ep.deleting

(* "Default: 60 rpm (applied by the mutating webhook)": with the webhook   *)
(* in place no update leaves an endpoint without a limit                   *)
(* (docs/crd-reference.md:19).                                             *)
LimitAlways ==
    [][hooks /\ ep.there /\ ep'.there /\ ep.spec.rpm # Absent
          => ep'.spec.rpm # Absent]_vars

(* "gov region is valid", "gov-partition ARN accepted": what the validator *)
(* accepts can be stored                                                   *)
(* (internal/webhook/modelendpoint_webhook_test.go:18, 118-121).           *)
AcceptedIsStorable ==
    \A s \in Specs : validateModelEndpoint(s) => SchemaOK(s)
=============================================================================
