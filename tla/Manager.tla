------------------------------ MODULE Manager ------------------------------
(***************************************************************************)
(* The operator's process (cmd/manager/main.go, internal/proxy/server.go)  *)
(* as config/manager/manager.yaml runs it: one replica with leader         *)
(* election, replaced by a rolling update, and the requests that workloads *)
(* send through the Service k8s-ai-operator-proxy.  What controller-       *)
(* runtime, the kubelet and the Deployment do is modelled from how main.go *)
(* and the manifest use them.                                              *)
(***************************************************************************)
EXTENDS Integers, FiniteSets

CONSTANTS
    Pods,         \* names for the pods of the Deployment
    Requests,     \* each of them is sent once
    MaxRollouts,  \* bound on rolling updates
    MaxFaults     \* bound on crashes, lost leases and failing listeners

ASSUME ManagerAssumption ==
    /\ {"none", "stale", "unsent", "answered", "refused", "cut"} \cap Pods = {}
    /\ Pods # {}
    /\ MaxRollouts \in Nat /\ MaxFaults \in Nat

VARIABLES
    stage,      \* how far the process of each pod has come
    endpoints,  \* pods behind the Services: ready, as far as kube-proxy knows
    current,    \* the pod of the newest revision
    kept,       \* the pods the Deployment keeps running
    lease,      \* the process that leads; "stale" when that has ended
    req,        \* each request: unsent, at a pod, or how it ended
    rollouts, faults

managerVars == <<stage, endpoints, current, kept, lease, req, rollouts, faults>>

(* mgr.Start brings up the probes, then the webhook server, then the       *)
(* caches; the controllers and the proxy wait for the lease ("leading"),   *)
(* and the proxy then opens its port ("listening").                        *)
Stages == {"off", "probes", "webhooks", "synced", "leading", "listening",
           "draining"}

Ends == {"answered", "refused", "cut"}

ManagerTypeOK ==
    /\ stage \in [Pods -> Stages]
    /\ endpoints \subseteq Pods /\ current \in kept /\ kept \subseteq Pods
    /\ lease \in Pods \cup {"none", "stale"}
    /\ req \in [Requests -> {"unsent"} \cup Pods \cup Ends]
    /\ rollouts \in 0 .. MaxRollouts /\ faults \in 0 .. MaxFaults
    /\ \A r \in Requests :
          req[r] \in Pods => stage[req[r]] \in {"listening", "draining"}

ManagerInit ==
    /\ stage = [p \in Pods |-> "off"] /\ endpoints = {}
    /\ current \in Pods /\ kept = {current}
    /\ lease = "none"
    /\ req = [r \in Requests |-> "unsent"]
    /\ rollouts = 0 /\ faults = 0

-----------------------------------------------------------------------------
(* One process. *)
Come(p, from, to) == stage[p] = from /\ stage' = [stage EXCEPT ![p] = to]

(* The steps of mgr.Start before the election; the kubelet starts the      *)
(* process of a pod that is kept, also after it has ended.                 *)
StartUp(p) ==
    /\ p \in kept
    /\ \/ Come(p, "off", "probes") \/ Come(p, "probes", "webhooks")
       \/ Come(p, "webhooks", "synced")
    /\ UNCHANGED <<endpoints, current, kept, lease, req, rollouts, faults>>

(* Elected: the controllers start to work. *)
Lead(p) ==
    /\ lease = "none" /\ lease' = p
    /\ Come(p, "synced", "leading")
    /\ UNCHANGED <<endpoints, current, kept, req, rollouts, faults>>

(* proxy.Server.Start: ListenAndServe opens the port. *)
Listen(p) ==
    /\ Come(p, "leading", "listening")
    /\ UNCHANGED <<endpoints, current, kept, lease, req, rollouts, faults>>

(* The process ends, and with it what it was serving. *)
Exit(p) ==
    /\ stage' = [stage EXCEPT ![p] = "off"]
    /\ req' = [r \in Requests |-> IF req[r] = p THEN "cut" ELSE req[r]]
    /\ lease' = IF lease = p THEN "stale" ELSE lease

Fault == faults < MaxFaults /\ faults' = faults + 1

(* Out of memory, a failed liveness probe, a port in use, a lease that     *)
(* could not be renewed: in each case without grace.  The last one ends    *)
(* the process before the lease runs out, as long as its clock and its     *)
(* scheduler let it notice in time; HandOver is about when they do not.    *)
Crash(p) ==
    /\ Fault /\ stage[p] # "off" /\ Exit(p)
    /\ UNCHANGED <<endpoints, current, kept, rollouts>>

(* Mutant of Terminate: the lease is given back before the drain. *)
TerminateReleasing(p) ==
    /\ stage' = [stage EXCEPT ![p] = IF @ \in {"leading", "listening"}
                                    THEN "draining" ELSE "off"]
    /\ lease' = IF lease = p THEN "none" ELSE lease
    /\ UNCHANGED req

(* SIGTERM: the manager starts no more runs and waits for those in flight  *)
(* (GracefulShutdownTimeout), the proxy closes its port and begins         *)
(* Shutdown; the lease is kept until both are done.                        *)
Terminate(p) ==
    IF stage[p] \in {"leading", "listening"}
    THEN stage' = [stage EXCEPT ![p] = "draining"] /\ UNCHANGED <<lease, req>>
    ELSE Exit(p)

(* Runs and requests in flight are done, or their time is up (30 and ten   *)
(* seconds), and the manager ends.                                         *)
Drained(p) ==
    /\ stage[p] = "draining" /\ Exit(p)
    /\ UNCHANGED <<endpoints, current, kept, rollouts, faults>>

(* main.go does not have the lease released: it has to run out.  The       *)
(* leader renews it while it drains.                                       *)
LeaseRunsOut ==
    /\ lease = "stale" /\ lease' = "none"
    /\ UNCHANGED <<stage, endpoints, current, kept, req, rollouts, faults>>

-----------------------------------------------------------------------------
(* Mutant of Ready: readyz answers once the proxy serves. *)
ReadyServing(p) == stage[p] = "listening"

(* readyz is healthz.Ping: it answers as soon as the probes are served.    *)
Ready(p) == stage[p] \notin {"off", "draining"}

(* The kubelet's probe, and the way of its result into the Services. *)
Probe(p) ==
    /\ endpoints' = IF p \in kept /\ Ready(p) THEN endpoints \cup {p}
                                              ELSE endpoints \ {p}
    /\ endpoints' # endpoints
    /\ UNCHANGED <<stage, current, kept, lease, req, rollouts, faults>>

(* A new revision: its pod comes beside the old one (maxSurge rounds up to *)
(* 1, maxUnavailable down to 0) ...                                        *)
RollOut(p) ==
    /\ rollouts < MaxRollouts /\ rollouts' = rollouts + 1
    /\ kept = {current} /\ p # current /\ stage[p] = "off"
    /\ current' = p /\ kept' = {current, p}
    /\ UNCHANGED <<stage, endpoints, lease, req, faults>>

(* ... which is told to stop once the new one is ready. *)
Retire(p) ==
    /\ current \in endpoints
    /\ p \in kept \ {current} /\ kept' = kept \ {p}
    /\ Terminate(p)
    /\ UNCHANGED <<endpoints, current, rollouts, faults>>

-----------------------------------------------------------------------------
(* A request goes to some pod behind the Service; where nobody listens the *)
(* connection is refused.                                                  *)
Send(r) ==
    /\ req[r] = "unsent"
    /\ \E p \in endpoints :
          req' = [req EXCEPT ![r] = IF stage[p] = "listening" THEN p ELSE "refused"]
    /\ UNCHANGED <<stage, endpoints, current, kept, lease, rollouts, faults>>

Finish(r) ==
    /\ req[r] \in Pods /\ req' = [req EXCEPT ![r] = "answered"]
    /\ UNCHANGED <<stage, endpoints, current, kept, lease, rollouts, faults>>

(* What a pod gets done if it is let run. *)
Progress(p) == StartUp(p) \/ Lead(p) \/ Listen(p) \/ Drained(p)

ManagerNext ==
    \/ \E p \in Pods : \/ Progress(p) \/ Crash(p) \/ Probe(p)
                       \/ RollOut(p) \/ Retire(p)
    \/ \E r \in Requests : Send(r) \/ Finish(r)
    \/ LeaseRunsOut

(* Kubelet, Deployment and lease do their part; requests owe nothing.      *)
ManagerFairness ==
    /\ \A p \in Pods : /\ WF_managerVars(Progress(p))
                       /\ WF_managerVars(Probe(p))
                       /\ WF_managerVars(Retire(p))
    /\ WF_managerVars(LeaseRunsOut)

ManagerSpec == ManagerInit /\ [][ManagerNext]_managerVars /\ ManagerFairness

-----------------------------------------------------------------------------
(***************************************************************************)
(* Properties.                                                             *)
(***************************************************************************)

(* Pods that reconcile, if only to finish the runs in flight, or have a    *)
(* request of a workload in their hands.                                   *)
Reconciling == {p \in Pods : stage[p] \in {"leading", "listening", "draining"}}
Serving     == {p \in Pods : \E r \in Requests : req[r] = p}

(* As long as a process that cannot renew its lease ends before the lease  *)
(* runs out, no two are at work, not even while one drains or finishes a   *)
(* run and the next is ready: what the controllers and the rate limiters   *)
(* keep in memory is then all there is (cmd/manager/main.go:96-103,        *)
(* 184-195).  HandOver asks what is left when a leader outlives its lease. *)
OneAtWork == Cardinality(Reconciling \cup Serving) <= 1

(* After rollouts, crashes and leases that the dead have left, the newest  *)
(* revision serves, alone: readiness must not wait for leadership, or the  *)
(* old pod that holds the lease would never be told to stop                *)
(* (cmd/manager/main.go:197-206, config/manager/manager.yaml:18).          *)
NewestServes ==
    <>[](kept = {current} /\ endpoints = kept /\ stage[current] = "listening")

-----------------------------------------------------------------------------
(***************************************************************************)
(* What comments say and the code does not do.                             *)
(***************************************************************************)

(* "/readyz waits for cache sync" (cmd/manager/main.go:197). *)
ReadyMeansSynced ==
    [][\A p \in endpoints' \ endpoints :
          stage[p] \in {"synced", "leading", "listening"}]_managerVars

(* The proxy "shuts down cleanly when the manager context is cancelled":   *)
(* a drain cuts no request (cmd/manager/main.go:184-185).                  *)
CleanShutdown ==
    [][\A p \in Pods : Drained(p) => p \notin Serving]_managerVars
=============================================================================
