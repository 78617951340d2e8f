----------------------------- MODULE Admission -----------------------------
(***************************************************************************)
(* What a ModelEndpoint passes on its way into the API server: the         *)
(* mutating webhook, the schema of the CRD and the validating webhook      *)
(* (internal/webhook/modelendpoint_webhook.go,                             *)
(* api/v1alpha1/modelendpoint_types.go, config/webhook/manifests.yaml).    *)
(* Whether anybody answers the webhooks, and whether a controller runs, is *)
(* the business of Manager; Operator puts the two together.                *)
(***************************************************************************)
EXTENDS Integers

CONSTANTS
    Specs,    \* the contents a user may give an endpoint
    MaxEdits  \* bound on what users and administrators do

VARIABLES
    ep,     \* the endpoint in the API server
    hooks,  \* both webhook configurations are installed, failurePolicy Fail
    edits

admissionVars == <<ep, hooks, edits>>

(***************************************************************************)
(* A spec, by what the two validations tell apart.  Regions: "listed" in   *)
(* validRegions, "gov" listed too but not of the form the schema wants,    *)
(* "other" of that form and not listed.  Roles: an ARN of the partition    *)
(* "aws" or of another "partition".  Numbers are Absent when the field is. *)
(***************************************************************************)
Absent == -1

EndpointSpec ==
    [region: {"listed", "gov", "other", "malformed"},
     model: {"vendor", "other", "empty"},
     role: {"aws", "partition", "malformed"},
     budget: {"none", "set", "empty", "malformed"},
     rpm: Int, cap: Int]

ASSUME AdmissionAssumption == Specs # {} /\ Specs \subseteq EndpointSpec /\ MaxEdits \in Nat

(* ModelEndpointDefaulter *)
Default(s) == [s EXCEPT !.cap = IF @ = Absent THEN 4096 ELSE @,
                        !.rpm = IF @ = Absent THEN 60 ELSE @]

AbsentOr(n, max) == n = Absent \/ n \in 1 .. max

(* The CRD's schema, which knows neither vendors nor regions by name. *)
SchemaOK(s) ==
    /\ s.region \in {"listed", "other"} /\ s.model # "empty" /\ s.role = "aws"
    /\ s.budget # "malformed"
    /\ AbsentOr(s.rpm, 3600) /\ AbsentOr(s.cap, 131072)

(* validateModelEndpoint, which knows no form of the budget and no cap. *)
validateModelEndpoint(s) ==
    /\ s.region \in {"listed", "gov"} /\ s.model = "vendor" /\ s.role # "malformed"
    /\ s.budget # "empty" /\ AbsentOr(s.rpm, 3600)

(* Mutants of Admitted: where there is a webhook nobody looks at the        *)
(* schema; an object must hold what the defaulter would have filled in.    *)
AdmittedByHook(s, answering) ==
    IF hooks THEN answering /\ validateModelEndpoint(s) ELSE SchemaOK(s)

AdmittedDefaulted(s, answering) ==
    SchemaOK(s) /\ (hooks => answering /\ validateModelEndpoint(s) /\ s.rpm # Absent)

(* An update of the endpoint, whoever sends it: the schema, then, if it is *)
(* installed, the validating webhook, which somebody must answer.          *)
Admitted(s, answering) ==
    SchemaOK(s) /\ (hooks => answering /\ validateModelEndpoint(s))

-----------------------------------------------------------------------------
NoEndpoint == [there |-> FALSE, spec |-> CHOOSE s \in Specs : TRUE,
               finalizer |-> FALSE, deleting |-> FALSE]

Stored == Specs \cup {Default(s) : s \in Specs}

AdmissionTypeOK ==
    /\ ep \in [there: BOOLEAN, spec: Stored, finalizer: BOOLEAN, deleting: BOOLEAN]
    /\ hooks \in BOOLEAN /\ edits \in 0 .. MaxEdits
    /\ ep.there => SchemaOK(ep.spec)
    /\ ep.deleting => ep.finalizer

AdmissionInit == ep = NoEndpoint /\ hooks \in BOOLEAN /\ edits = 0

Touch == edits < MaxEdits /\ edits' = edits + 1

(* The mutating webhook is asked at creation only. *)
Create(answering) ==
    /\ Touch /\ ~ep.there
    /\ \E s \in Specs :
          LET stored == IF hooks THEN Default(s) ELSE s IN
          /\ Admitted(stored, answering)
          /\ ep' = [NoEndpoint EXCEPT !.there = TRUE, !.spec = stored]
    /\ UNCHANGED hooks

Update(answering) ==
    /\ Touch /\ ep.there
    /\ \E s \in Specs \ {ep.spec} :
          Admitted(s, answering) /\ ep' = [ep EXCEPT !.spec = s]
    /\ UNCHANGED hooks

(* No webhook is asked about a deletion. *)
Delete ==
    /\ Touch /\ ep.there /\ ~ep.deleting
    /\ ep' = IF ep.finalizer THEN [ep EXCEPT !.deleting = TRUE] ELSE NoEndpoint
    /\ UNCHANGED hooks

(* The administrator installs or removes the webhooks. *)
SwitchHooks == Touch /\ hooks' = ~hooks /\ UNCHANGED ep

-----------------------------------------------------------------------------
(* The controller's own updates go through the validating webhook too.     *)
AddFinalizer(answering) ==
    /\ ep.there /\ ~ep.deleting /\ ~ep.finalizer
    /\ Admitted(ep.spec, answering)
    /\ ep' = [ep EXCEPT !.finalizer = TRUE]
    /\ UNCHANGED <<hooks, edits>>

RemoveFinalizer(answering) ==
    /\ ep.deleting /\ Admitted(ep.spec, answering)
    /\ ep' = NoEndpoint
    /\ UNCHANGED <<hooks, edits>>
=============================================================================
