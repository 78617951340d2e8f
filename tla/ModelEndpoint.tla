--------------------------- MODULE ModelEndpoint ---------------------------
(***************************************************************************)
(* The ModelEndpoint controller                                            *)
(* (internal/controller/modelendpoint_controller.go): one endpoint name    *)
(* through all its incarnations, the single worker that reconciles it, the *)
(* proxy Service it keeps, the availability gauge and the Bedrock clients  *)
(* it holds in the process.                                                *)
(***************************************************************************)
EXTENDS Integers, Sequences

CONSTANTS
    Models, Keys, \* model ids; (IRSA role, region) pairs
    Specs,        \* the [model, key] pairs a user may give an endpoint
    Outages,      \* why Bedrock may be out of reach: the error messages
    MaxLag,       \* bound: versions the cache may lack when a run starts
    MaxEdits,     \* bound on user actions and changes of Bedrock's health
    MaxFaults     \* bound on failing calls and crashes

ASSUME EndpointAssumption ==
    /\ Specs # {} /\ Specs \subseteq [model: Models, key: Keys]
    /\ Outages # {} /\ Outages \cap {"Unset", "up"} = {}
    /\ MaxLag \in Nat /\ MaxEdits \in Nat /\ MaxFaults \in Nat

VARIABLES
    log, seen, queued, timer, edits, faults,  \* see ApiObject
    pc, read,    \* the worker: its next call, the version it works on
    found,       \* what the run's health check found
    health,      \* Bedrock: "up" or the reason why not
    svc,         \* the Service model-<name> in the API server
    svcSeen,     \* the same in the informer cache
    gauge,       \* the endpoint's series of EndpointAvailable, per model
    clients      \* the keys with a control-plane client that a health
                 \* check has cached; see BedrockClient for the cache

(***************************************************************************)
(* ModelEndpointStatus.  The CRD requires "available", which the server    *)
(* does not hold before the first patch that contains it.  Both conditions *)
(* (BedrockReachable, Ready) always carry the same value and travel in one *)
(* list: "cond" is that value, "up" or the message of the failed check.    *)
(***************************************************************************)
EndpointStatus == [available: {"Unset", "True", "False"},
                   cond: {"Unset", "up"} \cup Outages,
                   service: BOOLEAN, obs: Nat]
NoEndpoint == [available |-> "Unset", cond |-> "Unset",
               service |-> FALSE, obs |-> 0]

INSTANCE ApiObject WITH Statuses <- EndpointStatus, NoStatus <- NoEndpoint

worker  == <<pc, read, found>>
process == <<gauge, clients>>
service == <<svc, svcSeen>>
vars    == <<apiVars, worker, process, service, health>>

(* A Service: "right" when its spec is the ExternalName the operator       *)
(* wants, owner 0 when it has no controller reference to an endpoint.      *)
Service   == [there: BOOLEAN, right: BOOLEAN, owner: Nat]
NoService == [there |-> FALSE, right |-> FALSE, owner |-> 0]

Steps == {"idle", "adopt", "check", "service", "patch", "clean", "release"}

TypeOK ==
    /\ ApiTypeOK
    /\ pc \in Steps /\ read \in 1 .. seen
    /\ found \in {"up"} \cup Outages /\ health \in {"up"} \cup Outages
    /\ svc \in Service /\ svcSeen \in Service
    /\ gauge \in [Models -> {"none", "0", "1"}]
    /\ clients \subseteq Keys
    /\ Server.status.available = "Unset" => Server.status = NoEndpoint

Init ==
    /\ ApiInit
    /\ pc = "idle" /\ read = 1 /\ found = "up"
    /\ health \in {"up"} \cup Outages
    /\ svc = NoService /\ svcSeen = NoService
    /\ gauge = [m \in Models |-> "none"] /\ clients = {}

-----------------------------------------------------------------------------
(* The object the run has in its hands, as Get returned it. *)
ep == log[read]

(* Mutant of Branch: the health check comes before the finalizer. *)
BranchUnguarded(o) ==
    CASE ~Exists(o)                                -> "idle"
      [] Exists(o) /\ o.deleting /\ ~o.finalizer   -> "idle"
      [] Exists(o) /\ o.deleting /\ o.finalizer    -> "clean"
      [] Live(o)                                   -> "check"

(* The branch Reconcile takes on the object it got from the cache. *)
Branch(o) ==
    CASE ~Exists(o)                                -> "idle"
      [] Exists(o) /\ o.deleting /\ ~o.finalizer   -> "idle"
      [] Exists(o) /\ o.deleting /\ o.finalizer    -> "clean"
      [] Live(o) /\ ~o.finalizer                   -> "adopt"
      [] Live(o) /\ o.finalizer                    -> "check"

(* A run ends and forgets its object. *)
End == pc' = "idle" /\ read' = 1 /\ found' = "up"

Reconcile ==
    /\ pc = "idle" /\ queued /\ Lag <= MaxLag
    /\ queued' = FALSE
    /\ IF Branch(Cached) = "idle" THEN End
       ELSE pc' = Branch(Cached) /\ read' = seen /\ UNCHANGED found
    /\ UNCHANGED <<log, seen, timer, edits, faults, process, service, health>>

(* The run goes on with its next call. *)
Continue(step) ==
    /\ pc' = step
    /\ UNCHANGED <<log, seen, queued, timer, edits, read>>

(* Mutant of EndRequeued: the key is not added again. *)
EndForgotten == End /\ UNCHANGED <<seen, queued, timer, edits>>

(* The run ends with a Result or an error that adds the key again later. *)
EndRequeued == End /\ timer' = TRUE /\ UNCHANGED <<seen, queued, edits>>

AddFinalizer ==
    /\ pc = "adopt"
    /\ \/ UpToDate(read) /\ log' = Written([ep EXCEPT !.finalizer = TRUE])
                         /\ UNCHANGED faults
       \/ ~UpToDate(read) /\ UNCHANGED <<log, faults>>
       \/ Fault /\ UNCHANGED log
    /\ EndRequeued
    /\ UNCHANGED <<process, service, health>>

(* HealthCheck asks for the model through the client of the endpoint's     *)
(* key, which controlClient keeps.                                         *)
HealthCheck ==
    /\ pc = "check"
    /\ clients' = clients \cup {ep.spec.key}
    /\ \/ found' = health /\ UNCHANGED faults
       \/ Fault /\ found' \in Outages
    /\ Continue("service")
    /\ UNCHANGED <<gauge, service, health>>

-----------------------------------------------------------------------------
(* reconcileService: CreateOrUpdate gets the Service from the cache.  The  *)
(* mutate function sets the spec only, so an existing Service keeps its    *)
(* owner; the server's defaults make the wanted spec differ from the one   *)
(* it returns, so there always is an update.                               *)
Wanted == [there |-> TRUE, right |-> TRUE, owner |-> ep.uid]

(* Mutant of CreateOrUpdate: an existing Service is left as it is. *)
CreateOnly ==
    IF svcSeen.there THEN svc.there /\ svc' = svc
                     ELSE ~svc.there /\ svc' = Wanted

CreateOrUpdate ==
    IF svcSeen.there THEN svc = svcSeen /\ svc' = [svc EXCEPT !.right = TRUE]
                     ELSE ~svc.there /\ svc' = Wanted

Conflict == IF svcSeen.there THEN svc # svcSeen ELSE svc.there

(* With the Service in place the run sets the gauge and goes on to the     *)
(* patch.  An error ends it there: a conflict, a call that fails, or one   *)
(* whose answer is lost after the Service was written.                     *)
ReconcileService ==
    /\ pc = "service"
    /\ \/ /\ CreateOrUpdate
          /\ gauge' = [gauge EXCEPT ![ep.spec.model] =
                                    IF found = "up" THEN "1" ELSE "0"]
          /\ Continue("patch") /\ UNCHANGED <<faults, found>>
       \/ /\ \/ Conflict /\ UNCHANGED <<svc, faults>>
             \/ Fault /\ (UNCHANGED svc \/ CreateOrUpdate)
          /\ EndRequeued /\ UNCHANGED <<log, gauge>>
    /\ UNCHANGED <<svcSeen, clients, health>>

-----------------------------------------------------------------------------
(* Mutant of Outcome: the Service is named only when the model is reached. *)
OutcomeIfUp == [available |-> IF found = "up" THEN "True" ELSE "False",
                cond |-> found, service |-> found = "up", obs |-> ep.gen]

(* The status the run wants, and the object the server makes of the patch. *)
(* "available" is compared as the bool it is in Go, where unset is false.  *)
Outcome == [available |-> IF found = "up" THEN "True" ELSE "False",
                cond |-> found, service |-> TRUE, obs |-> ep.gen]

AsBool(a) == IF a = "Unset" THEN "False" ELSE a

Patched ==
    [Server EXCEPT !.status =
        [available |-> Merged(@.available, AsBool(ep.status.available),
                              Outcome.available),
         cond      |-> Merged(@.cond, ep.status.cond, Outcome.cond),
         service   |-> Merged(@.service, ep.status.service, Outcome.service),
         obs       |-> Merged(@.obs, ep.status.obs, Outcome.obs)]]

(* Mutant of Accepted: a schema that requires no field. *)
AcceptedAlways(o) == o.status \in EndpointStatus

(* The CRD's schema: a status without "available" is not accepted. *)
Accepted(o) == o.status.available # "Unset" \/ o.status = NoEndpoint

PatchStatus ==
    /\ pc = "patch"
    /\ \/ /\ Exists(Server) /\ Accepted(Patched)
          /\ log' = Written(Patched) /\ UNCHANGED faults
       \/ /\ (~(Exists(Server) /\ Accepted(Patched)) /\ UNCHANGED faults) \/ Fault
          /\ UNCHANGED log
    /\ EndRequeued
    /\ UNCHANGED <<process, service, health>>

-----------------------------------------------------------------------------
(* handleDeletion clears what the process keeps for the endpoint ... *)

(* Mutant of CleanUp: the cached client is not invalidated. *)
CleanUpSeries ==
    /\ pc = "clean"
    /\ gauge' = [gauge EXCEPT ![ep.spec.model] = "none"]
    /\ Continue("release")
    /\ UNCHANGED <<clients, faults, found, service, health>>

CleanUp ==
    /\ pc = "clean"
    /\ gauge' = [gauge EXCEPT ![ep.spec.model] = "none"]
    /\ clients' = clients \ {ep.spec.key}
    /\ Continue("release")
    /\ UNCHANGED <<faults, found, service, health>>

(* ... and takes the finalizer away. *)
RemoveFinalizer ==
    /\ pc = "release"
    /\ \/ /\ UpToDate(read)
          /\ log' = Written(Collected([ep EXCEPT !.finalizer = FALSE]))
          /\ End /\ UNCHANGED <<seen, queued, timer, edits, faults>>
       \/ /\ (~UpToDate(read) /\ UNCHANGED faults) \/ Fault
          /\ EndRequeued /\ UNCHANGED log
    /\ UNCHANGED <<process, service, health>>

-----------------------------------------------------------------------------
(* The environment.  Other people's hands on the Service, and the garbage  *)
(* collector that removes it once its owner is gone.                       *)
Touch == edits < MaxEdits /\ edits' = edits + 1

UserService ==
    /\ Touch
    /\ \/ svc.there /\ svc' = NoService
       \/ svc.there /\ svc' = [svc EXCEPT !.right = FALSE]
       \/ ~svc.there /\ svc' = [there |-> TRUE, right |-> FALSE, owner |-> 0]
    /\ svc' # svc
    /\ UNCHANGED <<log, seen, queued, timer, faults, worker, process, svcSeen, health>>

GarbageCollect ==
    /\ svc.owner # 0 /\ svc.owner # Server.uid
    /\ svc' = NoService
    /\ UNCHANGED <<log, seen, queued, timer, edits, faults>>
    /\ UNCHANGED <<worker, process, svcSeen, health>>

(* Owns(&corev1.Service{}): a change of a Service enqueues its owner. *)
DeliverService ==
    /\ svcSeen # svc
    /\ svcSeen' = svc
    /\ queued' = (queued \/ svc.owner # 0 \/ svcSeen.owner # 0)
    /\ UNCHANGED <<log, seen, timer, edits, faults, worker, process, svc, health>>

(* Bedrock comes and goes. *)
HealthChanges ==
    /\ Touch
    /\ health' \in ({"up"} \cup Outages) \ {health}
    /\ UNCHANGED <<log, seen, queued, timer, faults, worker, process, service>>

(* The manager's process ends: its gauges and clients go with it. *)
Crash ==
    /\ Relist
    /\ End
    /\ gauge' = [m \in Models |-> "none"] /\ clients' = {}
    /\ svcSeen' = svc
    /\ UNCHANGED <<svc, health>>

Worker == \/ Reconcile \/ AddFinalizer \/ HealthCheck \/ ReconcileService
          \/ PatchStatus \/ CleanUp \/ RemoveFinalizer

Api == (User \/ Deliver \/ TimerFires)
       /\ UNCHANGED <<worker, process, service, health>>

Next == \/ Worker \/ Api \/ Crash
        \/ UserService \/ GarbageCollect \/ DeliverService \/ HealthChanges

Spec == Init /\ [][Next]_vars

(* controller-runtime and the garbage collector do their work; users,      *)
(* Bedrock and faults owe nothing.                                         *)
Fairness ==
    /\ WF_vars(Worker)
    /\ WF_vars(Deliver /\ UNCHANGED <<worker, process, service, health>>)
    /\ WF_vars(TimerFires /\ UNCHANGED <<worker, process, service, health>>)
    /\ WF_vars(DeliverService)
    /\ WF_vars(GarbageCollect)

FairSpec == Spec /\ Fairness

-----------------------------------------------------------------------------
(***************************************************************************)
(* Safety.                                                                 *)
(***************************************************************************)

(* What the process holds for the endpoint as its spec now is. *)
Clean ==
    Exists(Server) => /\ gauge[Server.spec.model] = "none"
                      /\ Server.spec.key \notin clients

Promised == INSTANCE FinalizedObject
            WITH phase <- Phase, guarded <- Server.finalizer,
                 content <- Server.spec, clean <- Clean

(* The controller keeps the promise of its finalizer: only a live endpoint *)
(* gets it, series and clients are made only under it, and when it leaves, *)
(* there is neither for the model and the key of the version it leaves,    *)
(* even if the run began with an older one                                 *)
(* (modelendpoint_controller.go:71-91, 160-187).                           *)
IsFinalizedObject == Promised!Promise

(* A run on a stale endpoint takes nothing back: within one incarnation    *)
(* the observed generation never decreases and never passes the            *)
(* generation, and "available" and the Service's name, once reported, do   *)
(* not disappear, although patches send single fields                      *)
(* (modelendpoint_controller.go:98-157).                                   *)
StatusMovesOn ==
    [][Exists(Server) /\ Server'.uid = Server.uid =>
          /\ Server.status.obs <= Server'.status.obs
          /\ Server'.status.obs <= Server'.gen
          /\ Server.status.available # "Unset" => Server'.status.available # "Unset"
          /\ Server.status.service => Server'.status.service]_vars

(* Nothing the controller made outlives the last incarnation of an         *)
(* endpoint whose model and key never changed: no run, started from        *)
(* whatever the cache held, brings a series or a health check's client     *)
(* back after the release.  A proxy request still in flight may cache a    *)
(* runtime client of its own (modelendpoint_controller.go:71-187).         *)
NothingLeftBehind ==
    ~Exists(Server) /\ (\A i, j \in DOMAIN log :
                            Exists(log[i]) /\ Exists(log[j])
                               => log[i].spec = log[j].spec)
        => clients = {} /\ \A m \in Models : gauge[m] = "none"

-----------------------------------------------------------------------------
(***************************************************************************)
(* Liveness, once users, Bedrock and faults have come to rest.             *)
(***************************************************************************)
Reported ==
    /\ Server.status = [available |-> IF health = "up" THEN "True" ELSE "False",
                        cond |-> health, service |-> TRUE, obs |-> Server.gen]
    /\ gauge[Server.spec.model] = IF health = "up" THEN "1" ELSE "0"

(* The status and the gauge of an endpoint end up showing the health of    *)
(* its model, if the model has once been available                         *)
(* (modelendpoint_controller.go:98-157).                                   *)
HealthReported ==
    <>[](Live(Server) /\ (health = "up" \/ Server.status.available # "Unset")
            => Reported)

(* The proxy Service of an endpoint is there and right in the end, whoever *)
(* deletes or changes it and whichever incarnation created it              *)
(* (modelendpoint_controller.go:197-242).                                  *)
ServiceRestored ==
    <>[](Live(Server) => svc.there /\ svc.right /\ svc.owner \in {0, Server.uid})

(* An endpoint that is being deleted loses the finalizer                   *)
(* (modelendpoint_controller.go:160-187).                                  *)
DeletionCompletes ==
    (Exists(Server) /\ Server.deleting) ~> ~Server.finalizer

-----------------------------------------------------------------------------
(***************************************************************************)
(* What the documentation says and the code does not do.                   *)
(***************************************************************************)

(* Each reconcile "updates status conditions and the available field": the *)
(* status of an endpoint whose model is out of reach ends up saying so     *)
(* (docs/architecture.md:63).                                              *)
OutageReported == <>[](Live(Server) => Server.status.cond = health)

(* "available" is true when Bedrock is reachable, which is what the        *)
(* condition BedrockReachable says too: the two agree                      *)
(* (api/v1alpha1/modelendpoint_types.go:52).                               *)
AvailableMatchesCondition ==
    Server.status.cond # "Unset" =>
        (Server.status.available = "True" <=> Server.status.cond = "up")

(* handleDeletion deletes "the Prometheus metric series for this endpoint  *)
(* to avoid stale data" (modelendpoint_controller.go:171).                 *)
NoSeriesOutlivesEndpoint ==
    ~Exists(Server) => \A m \in Models : gauge[m] = "none"

(* "Call this when an endpoint's roleArn or region changes": once the new  *)
(* spec has been reconciled no client of the old key is cached             *)
(* (internal/bedrock/client.go:257-259).                                   *)
ClientsFollowSpec ==
    Live(Server) /\ pc = "idle" /\ Server.status.obs = Server.gen
        => clients \subseteq {Server.spec.key}
=============================================================================
