# A TLA+ development of k8s-ai-operator

This directory holds TLA+ models of the operator in `../src`, the TLC
configurations that model-check them and the theorems that TLAPS proves about
them. Paths below are relative to `src/`; `GP`, `ME`, `PT` stand for
`internal/controller/guardrailpolicy_controller.go`,
`modelendpoint_controller.go` and `prompttemplate_controller.go`.

1. [The system](#1-the-system)
2. [The modules and the plan](#2-the-modules-and-the-plan)
3. [How the models correspond to the code](#3-how-the-models-correspond-to-the-code)
4. [What the runs check](#4-what-the-runs-check)
5. [Where documents and code disagree](#5-where-documents-and-code-disagree)
6. [What is proved](#6-what-is-proved)
7. [What is not modelled](#7-what-is-not-modelled)
8. [Running it](#8-running-it)

## 1. The system

One process, the manager (`cmd/manager/main.go`), runs three controllers on
controller-runtime, an HTTP proxy in front of AWS Bedrock, and admission
webhooks. Everything it has to remember across restarts is in the status of its
custom resources; caches, gauges and rate limiters live in the process.

| Component | State it keeps | Operations | Talks to |
|---|---|---|---|
| GuardrailPolicy controller (`GP`) | the policy's status (guardrail id, version, condition, observed generation) and finalizer; the guardrail at Bedrock | Reconcile: add the finalizer, create or update the guardrail, patch the status; on deletion delete the guardrail and remove the finalizer | API server (through the informer cache for reads), Bedrock control plane |
| ModelEndpoint controller (`ME`) | status (available, two conditions, service name, observed generation), finalizer, the Service `model-<name>`, the series of `EndpointAvailable` | Reconcile: finalizer, health check, CreateOrUpdate of the Service, gauge, status patch; on deletion drop series and cached client, remove the finalizer | API server, Bedrock client, metrics |
| PromptTemplate controller (`PT`) | status (TemplateValid, Ready, observed generation), finalizer | Reconcile: finalizer, parse, look up the endpoint, patch | API server; reads ModelEndpoints without watching them |
| Bedrock client (`internal/bedrock/client.go`, `health.go`) | two maps of AWS clients, per (role, region), under one RWMutex | Invoke, HealthCheck (look up or make a client), InvalidateCache | called by proxy goroutines and by controller workers |
| Proxy (`internal/proxy/handler.go`) | one token bucket per endpoint, under a mutex; counters of calls, tokens and cost | HandleInvoke, HandleRender | informer cache, Bedrock client, cost model, metrics |
| Proxy server (`internal/proxy/server.go`) | an `http.Server` | Start, shutdown within 10 s | manager's context |
| Admission webhooks (`internal/webhook/modelendpoint_webhook.go`) | none | validate on create and update, default on create | called by the API server for every write of a ModelEndpoint, the operator's own too |
| Guardrail client (`internal/bedrock/guardrail.go`) | none | wraps three Bedrock calls | GuardrailPolicy controller |
| Cost model (`internal/bedrock/cost.go`), metrics, API types | none, or counters | CalculateCost, counters | - |
| Manager (`cmd/manager/main.go`, `config/manager/manager.yaml`) | leader lease, probes | starts and stops all of it; one replica, rolling updates | kubelet, Deployment, lease |

**Interactions.** The controllers meet only through the API server and the
process: the ModelEndpoint controller writes `status.available`, which the
PromptTemplate controller and the proxy read from the informer cache, and it
calls `InvalidateCache` on the client the proxy is using. No controller ever
tells another one; the PromptTemplate controller polls by its own requeue, and
the proxy reads at every request.

**Where it is hard, and what makes each part correct.**

* *GuardrailPolicy.* Bedrock and the API server cannot be changed in one step.
  Between `CreateGuardrail` and the status patch the id exists in memory only;
  the decision to create is taken from a cache that may lag; patches carry no
  resourceVersion; the process may die anywhere. Correct means: a recorded id is
  the policy's own guardrail, the finalizer does not go before `DeleteGuardrail`
  was called for it, the status never moves backwards, and in the end the
  guardrail holds the spec.
* *ModelEndpoint.* A merge patch leaves out what has not changed in the run's own
  copy; a Service is shared with users, with the garbage collector and with
  former incarnations; runs that started before a deletion must not bring back
  what the clean-up removed. Correct means: status, gauge and Service settle on
  the truth, and deletion leaves nothing behind in the process.
* *PromptTemplate.* Nothing announces a change of the endpoint. Correct means: the
  conditions settle on the truth anyhow.
* *Client cache.* Double-checked locking against concurrent invalidation. Correct
  means: it behaves like an atomic cache, makes one client per key, and every
  path releases the lock.
* *Proxy.* Requests race for the first bucket, and the endpoint is edited under
  them. Correct means: what passes stays within one bucket's burst and rate,
  each outcome is counted once, and tokens and cost go to the model that was called.
* *Manager.* Everything kept in memory (buckets, cached clients, the run in
  progress) relies on one process at a time, while a rolling update, a crash or
  a lost lease always involves two. Correct means: one process is at work, the
  newest one ends up serving, and no endpoint is left behind by the time in
  between, in which nobody answers the webhooks or reconciles. If a leader is
  held up past its lease, two are at work after all; what then still holds is a
  question of its own (`HandOver`).
* *Admission.* The webhooks are served by the operator and judge the operator's
  own updates. Correct means: that never keeps the operator from its work.

`PROJECT.json` lists every hazard at its line with the properties that watch it.

## 2. The modules and the plan

| Module | Models | Abstract view |
|---|---|---|
| `ApiObject` | one custom resource: the API server's object, the informer cache behind it, the work-queue key, timers (external to the code, instantiated by the three controllers) | - |
| `FinalizedObject` | what a finalizer promises: guard a live object, acquire things for it only under the guard, let go only a deleted object that is clean | it is the abstract view |
| `GuardrailPolicy` | `GP` and the guardrails at Bedrock | implements `FinalizedObject` |
| `GuardrailPolicy_proofs`, `GuardrailPolicy_refines` | theorems: three invariants and two action properties; the refinement | - |
| `HandOver` | two `GuardrailPolicy` processes on one policy | its properties are those of one |
| `HandOver_proofs` | theorems: two invariants and an action property of both processes together | - |
| `ModelEndpoint`, `MCModelEndpoint` | `ME`, the Service, the gauge, the cached clients | implements `FinalizedObject` |
| `ModelEndpoint_proofs` | theorems: two invariants, an action property and the refinement | - |
| `PromptTemplate` | `PT` | implements `FinalizedObject` |
| `PromptTemplate_proofs` | theorems: the type invariant, an action property and the refinement | - |
| `ClientCache` | what the client cache promises | it is the abstract view |
| `BedrockClient`, `MCBedrockClient` | the cache at the grain of lock operations | implements `ClientCache` |
| `BedrockClient_proofs` | theorems: four invariants and the refinement | - |
| `Cost` | `CalculateCost` on exact sums, rounded as `math.Round` does | - |
| `Proxy`, `MCProxy` | handlers, limiter, counters and bill of one endpoint; extends `Cost` | - |
| `Proxy_proofs` | theorems: four invariants and an action property | - |
| `Manager` | pods, stages of start-up, lease, probes, rolling update, drain, requests in flight | - |
| `Admission` | schema, validator, defaulter, and the writes of one ModelEndpoint | - |
| `Operator`, `MCOperator` | `Manager` and `Admission` together: who answers the webhooks, who reconciles | - |
| `Operator_proofs` | theorems: two invariants of the composition | - |

The order followed the weight of what can go wrong: first the guardrails, the
only state outside the cluster, with their proofs; then the endpoint, the client
cache, the proxy and the templates; then the promise the three controllers
share, and the process around them. What is left, in this order:

1. ModelEndpoint with messages that differ at every failure, for the loop that a
   status patch with a fresh AWS request id keeps up (`ME:139`).
2. `sanitizeLabel` and the translation of a guardrail's spec, as operators.

Every invariant, action property and refinement that a passing run checks is a
theorem by now; liveness stays with TLC (section 6).

No module uses RECURSIVE, so all of them can be proved about.

## 3. How the models correspond to the code

**Controllers.** A run of `Reconcile` is cut at its remote calls: the variable
`pc` names the call that comes next, and `Reconcile` in the model is the `Get`
with the early returns after it. What lies between two calls in the code
belongs to the step that follows the earlier call, so users, the watch, timers
and crashes come between any two calls and nowhere else. There is one worker,
as `MaxConcurrentReconciles` is left at its default of one, and one object name per
module; objects of other names share nothing with it but the work queue and, in
the client cache, a key.

| Model | Code |
|---|---|
| `log`, `Server`, `Cached`, `seen` | the object's versions; `resourceVersion` is the index; the informer cache is a prefix of the log |
| `UpToDate`, `Written`, `Collected` | `Update` with the resourceVersion that was read; no-op writes make no version; a deleted object goes with its last finalizer |
| `Merged` | `Status().Patch(MergeFrom(copy))`: a field goes over the wire only if it differs from the run's own copy |
| `queued`, `timer`, `Deliver`, `TimerFires` | the key in the work queue; `RequeueAfter`, `Requeue: true` and error back-off; watch events |
| `Relist`, `Crash` | the manager dies and a new one lists everything |
| `UserCreate`, `UserEdit`, `UserDelete`, `OtherRelease` | users, and a finalizer of someone else that keeps a deleted object around |
| `GuardrailPolicy!CreateGuardrail`, `UpdateGuardrail`, `DeleteGuardrail` | the three Bedrock calls: done, refused, failed, or done with the answer lost |
| `ModelEndpoint!HealthCheck`, `ReconcileService`, `PatchStatus`, `CleanUp` | `ME:98`, `:102` with the gauge of `:113-117`, `:147`, `:173-179`; the write of the Service may be done with the answer lost |
| `svc`, `svcSeen`, `DeliverService`, `GarbageCollect`, `UserService` | the Service in the API server and in the cache, its watch, its owner's collection, other people's hands |
| `PromptTemplate!ResolveEndpoint`, `Verdict` | `PT:95` and the two conditions |
| `BedrockClient` steps | `RLock`/`Look`(+`RUnlock`)/`Lock`/`Drained`/`CheckAgain`/`Make`(+`Unlock`), and the two deletes of `InvalidateCache` |
| `Proxy` steps | `Arrive` (method, path, body), `Render` (variables and template), `Fetch` (endpoint, availability, maxTokens), `GetLimiter`, `Allow`, `Call` with `Bill` (counters, `CalculateCost`) |
| `Manager!stage` | how far `mgr.Start` has come in a process: probes, webhook server, caches, lease, proxy port; `draining` is `Shutdown` at work |
| `Manager!Probe`, `RollOut`, `Retire` | readiness as the Services see it; a rolling update with one replica, which starts a pod and stops the old one when the new one is ready |
| `Manager!Terminate`, `Drained`, `Exit`, `LeaseRunsOut` | SIGTERM, after which a leader waits for its runs and for `Shutdown`; the end of the drain (all served, or ten seconds), the end of the process, and the lease, which `main.go` does not have released |
| `Admission!SchemaOK`, `validateModelEndpoint`, `Default` | the CRD's schema, the validator and the defaulter, on classes of values |
| `Admission!Admitted` | an update passes the schema and, if the configurations of `config/webhook` are installed, a validator that somebody must answer (`failurePolicy: Fail`) |
| `Operator!Answering`, `Reconcile` | a ready pod with its webhook server up, if `EnableWebhooks` (the flag `--enable-webhooks`, `main.go:170`); the process that leads writes the finalizer |
| `HandOver!Old`, `New`, `TakeOver`, `Exit` | the processes of two leaders: the new one lists and works while the old one goes on reconciling what is queued and what it hears of (`MaxLate` events at most), until it notices and ends |

**Abstractions**, and what they cost:

* A *spec* is a member of a small set. `GuardrailPolicy` only asks whether
  Bedrock accepts it (`Refused`), `PromptTemplate` whether it parses (`Broken`),
  `ModelEndpoint` for its model id and its (role, region).
* A *condition* is its status (guardrails), its cause (endpoints) or its verdict
  (templates). Two failures with the same cause have the same message, so a
  repeated failure patches nothing; AWS errors carry a request id, and with
  those each failing run changes the object and its watch event starts the next
  run at once. Every safety property here allows that extra patch; the loop
  itself is not modelled yet (section 2, item 1).
* Bedrock's guardrail *version* is left out: the code stores what it is answered
  and decides nothing by it.
* `UniqueNames`: the repository does not say whether Bedrock refuses a second
  guardrail with a name that is in use. Both worlds are checked; the theorems hold in
  both.
* The *cache* moves one version at a time and may skip ahead after a restart,
  but a new process never lists an older version than the old one had seen.
  Periodic resyncs of the informer (ten hours by default) are left out: they only add runs.
* A Service is compared by value where the API server compares resourceVersions.
  A Service that changed and changed back between a `Get` and its `Update` is
  therefore updated where the code gets a conflict and tries again.
* Deletion bumps the generation, as it does in the API server for custom
  resources.
* A *token bucket* counts sixtieths of a token, so that `rpm` per minute is
  exact; it is refilled by every tick, where the library refills it when asked.
* Time in the proxy is a clock of `TickSeconds`; requests and ticks interleave freely.
* *Prices* are integers in thousandths of a dollar per million tokens, so a sum
  is exact where the code adds floats. `Rounded` is `math.Round`, up at half a
  micro-dollar, except that a sum exactly half-way may also go down: there a
  float may lie on either side of it. A response says how many tokens were used; one
  small use stands for all of them in the run.
* `Admission` sees a spec by what the two validations tell apart; the other
  fields pass both. An object that does not decode is not modelled: the API
  server prunes and checks it before a webhook sees it.
* `Manager` has no clocks. The drain ends at any moment, with whatever is in
  flight (that is what ten seconds may do to a completion that takes longer);
  the lease of an ended process runs out at some time. The grace period of the
  pod and `GracefulShutdownTimeout` are both 30 s, and the drain takes ten, so
  neither ends it. *Assumption*: a leader whose lease is lost ends before another takes
  it, in one step, as in a crash; `OneAtWork` holds under this assumption only. That such a
  leader may go on for a while is what `HandOver` is for, and there for GuardrailPolicy alone.
* *Assumption*: in `Operator.cfg` the process runs with `--enable-webhooks`, and a Service sends the API
  server's calls to any ready pod. The repository's manifests give neither (section 5). `CaredForUnlessRefused`
  is about such an installation; `OperatorPlain.cfg` checks the same properties without the flag, where a
  webhook configuration that is installed is answered by nobody.
* In `Operator` a ModelEndpoint's reconciliation is its two writes that meet the
  webhook, with an up-to-date copy: conflicts, caches and everything else are `ModelEndpoint`'s.
* Token buckets live in a process: a restart gives every endpoint a fresh burst.
  `Proxy` models one process.
* Malformed requests (method, path, JSON, missing message) are one answer, 400.
  What a template renders to is left out; whether it renders is a choice.
* The `HandleInvoke` path records `admitted` (history) at the moment a request
  gets past its last check; no step reads it. `owner` and `asked` of a
  guardrail, `since`, `dropped` and `epoch` of the client cache are history too.

**Fairness.** `WF` of the worker (controller-runtime runs it whenever the queue is
not empty), of the watch, of the timers, and of the garbage collector; for the
client cache, of every goroutine inside a call (Go's scheduler). Nothing is
assumed of users, of Bedrock's health, of faults or of crashes; faults are
bounded by `MaxFaults`, so liveness says: once they cease, this follows. `WF` of the
worker as a whole suffices because the worker is sequential. RWMutex needs
nothing stronger than `WF`: a waiting writer keeps new readers out.
`Manager` asks `WF` of each process's start-up, election, listening and drain
(the program), of probes and of stopping the old pod (kubelet and Deployment
controller), and of the lease's expiry (its duration is fixed); crashes,
rollouts, requests and webhook switches owe nothing. One process at a time
waits for the lease in the end, so `WF` of the election is enough. `Operator` adds `WF` of
the controller's writes (retried with back-off; `WF`, not `SF`: once rollouts and
faults are over the webhook stays answered). `HandOver` asks `WF` of either
worker and its events, and that a leader without a lease ends
(the manager gives up when renewal fails), not that it loses one.

## 4. What the runs check

All passing runs are exhaustive. `CHECK_DEADLOCK FALSE` is set everywhere because the systems may
really stop: no key queued and no user acting, or all calls made.

| Run | Instance | States | Properties | What it shows |
|---|---|---|---|---|
| `guardrail` | two specs, one refused, unique names, guardrails may be deleted past the operator; 3 user actions, 2 faults, lag 1 | 587,870 | `TypeOK`, `DeleteBeforeRelease`, `RecordedIsOwn`, `IsFinalizedObject`, `StatusMovesOn`, `LiveGuardrailKept`, `EventuallyInSync`, `DeletionCompletes` | the controller's promises, and that status and Bedrock converge |
| `handover` | two processes, one spec, unique names; 3 user actions, lag 1, no late events | 361,608 | `TypeOK`, `DeleteBeforeRelease`, `LiveGuardrailKept`, `EventuallyInSync`, `DeletionCompletes` | what two leaders on one policy cannot break, or not for long |
| `endpoint` | two (model, key) pairs, one kind of outage; 3 actions of users or of Bedrock's health, 1 fault | 607,568 | `TypeOK`, `NothingLeftBehind`, `IsFinalizedObject`, `StatusMovesOn`, `HealthReported`, `ServiceRestored`, `DeletionCompletes` | clean deletion; the status is not taken back; status, gauge and Service converge |
| `client` | 3 callers, 2 keys, 3 calls | 134,941 | `TypeOK`, `AloneWhileWriting`, `OneClientPerKey`, `GotFresh`, `IsAtomic`, `EveryCallReturns` | the cache implements `ClientCache` and nobody blocks for good |
| `template` | two specs, one broken; 3 actions, 1 fault | 138,390 | `TypeOK`, `IsFinalizedObject`, `StatusMovesOn`, `EventuallyTrue`, `DeletionCompletes` | polling is enough; the status is not taken back |
| `proxy` | 3 requests, limits none/5/20 per minute, a model with a price and one without, 2 edits, 2 ticks of 6 s | 3,266,420 | `TypeOK`, `WithinRate`, `RejectsOnlyExcess`, `InvokesCounted`, `SpendTracked` | one bucket per endpoint bounds what passes, and rejects only what would exceed the bound; outcomes, tokens and cost are counted once and where they belong |
| `operator` | webhooks enabled; 2 pods, 1 request, 2 rollouts, 2 faults; 6 classes of specs, 3 writes or webhook switches | 871,204 | `TypeOK`, `OneAtWork`, `NewestServes`, `CaredForUnlessRefused` | one process at work, the newest serves in the end, no endpoint is left behind but by refusal |
| `guardrail_outlives`, `endpoint_outage`, `endpoint_series`, `proxy_rate_edited`, `operator_stuck` | small | - | one each | section 5 |

**Bounds.** `MaxLag` 1 (a run may start from a cache one version behind; during
the run any number of versions may be added) covers every race between one
stale read and one write; `MaxLag` 2 changes nothing in kind, and the theorems hold for every lag.
`MaxEdits` 3 allows create, edit and delete, or create, delete and create again, so
two incarnations of one name meet. `MaxFaults` 1 is one lost call, lost answer or crash at every point, 2 a second
one while the first is being repaired; liveness needs the system to get over each of them. `guardrail` allows both a
refused and an accepted spec, so that failure by refusal comes without any fault.
`GuardrailTwins.cfg` checks the same properties but `LiveGuardrailKept` and the refinement where names
need not be unique (the theorems hold in both worlds). In `handover` two processes do
what one fault or a second spec do elsewhere, so there are neither. The old leader starts
runs of its own in it, from what is queued when its lease goes. With one event that it
hears after that (`MaxLate` 1), `HandOverLate.cfg` checks the safety properties (934,773 states),
and with two specs and two user actions the liveness properties hold too (640,269 states); the
theorems hold for every `MaxLate`.
Two pods are all a rolling update of one replica ever has; two rollouts bring a pod's name back
with a process that has ended before, and two faults let either of two
processes crash, or one twice. One request is enough to be refused, cut or
served by a second process. The classes in `SomeSpecs` differ in what exactly one of
schema and validator refuses, and 3 writes let the webhooks come or go between creation and deletion.
Three callers of the cache are the least with which one waits for the
lock while two others race; `MaxCalls` 3 gives each one call, or one of them
three. A limit of 5 per minute has a burst of one only because the code puts it there
(`internal/proxy/handler.go:300-303`), 20 has a burst of two; three requests exceed both. Two ticks of six seconds
bring one token at 5 per minute, the second of them exactly, and two each at 20. `Symmetry` permutes requests in `MCProxy`; the proxy's
runs have no liveness property. The use in `OneUse` costs 0.63 micro-dollars at the
price of Nova Micro (`internal/bedrock/cost.go:57`), so that every call is rounded.

Each property has been seen to fail: the modules hold, next to the definition
they alter, operators commented "Mutant of ...", each a slip the code could
contain (a dropped resourceVersion, a missing second look-up, an error that ends a run), and TLC
refutes the property when the definition is replaced by it.

**Not vacuous.** `DeletionCompletes` is reached with and without a recorded
guardrail; `WithinRate` and `RejectsOnlyExcess` meet rejected requests at a burst of one and of
two, and a bucket whose limit is outdated; `NothingLeftBehind` is only about endpoints whose model and
key never changed, because it fails otherwise (section 5). `OneAtWork` counts a
draining pod with a request in flight while its successor is ready and waits for
the lease; if SIGTERM gave the lease back, TLC finds both at work. `NewestServes` fails as soon
as readiness waits for leadership, in the deadlock its comment names.
`CaredForUnlessRefused` excludes exactly what the validator refuses;
`operator_stuck` shows that the exception is needed.

## 5. Where documents and code disagree

Five runs end in a counterexample on purpose; each states what a document or
comment says. They are the ones it takes several steps to get to.

| Run | Says | What happens |
|---|---|---|
| `guardrail_outlives` | `docs/crd-reference.md:86-87`: the operator deletes the Bedrock guardrail before removing the finalizer | create, lose the answer (or die, or fail the patch), delete the policy: the guardrail stays |
| `endpoint_outage` | `docs/architecture.md:63`: each reconcile updates conditions and `available` | `available` is false before and after, so it is left out of the patch; the CRD requires it; the patch is refused until the model has once been reachable |
| `endpoint_series` | `ME:171`: deletion removes "the Prometheus metric series for this endpoint to avoid stale data" | the series of a model that was used before an edit stays, and the process goes on exporting it |
| `proxy_rate_edited` | `docs/architecture.md:88`: the bucket takes "requests/minute from the spec"; `:59`: deletion "cleans up rate limiter state" | the bucket keeps the first limit it has seen, through edits and re-creation; `internal/proxy/handler_test.go:190-203` tests that it does |
| `operator_stuck` | `api/v1alpha1/shared_types.go:51-53`: the finalizer gates deletion until the operator has cleaned up | an endpoint stored while the webhooks were off, in a region `validRegions` lacks: once they are on, the update that takes its finalizer away is refused for ever |

Further statements are formulas of the modules, each with a configuration of its own
that TLC refutes:

| Configuration (module) | Formula | Statement |
|---|---|---|
| `GuardrailStaleSync.cfg` (`GuardrailPolicy`) | `SyncedIsCurrent` | synced means "guardrailId/version are current" (`api/v1alpha1/shared_types.go:46-47`): a merge patch from a stale copy carries the generation but not the condition or the id, so `GuardrailSynced=True` stands beside a generation its guardrail does not hold |
| `GuardrailCreatedTwice.cfg` (`GuardrailPolicy`) | `CreateOnlyWithoutId` | "On update: call UpdateGuardrail with the existing ID" (`GP:50-51`): a run from a stale copy creates again |
| `EndpointAvailable.cfg` (`MCModelEndpoint`) | `AvailableMatchesCondition` | `available` "is true when Bedrock is reachable" (`api/v1alpha1/modelendpoint_types.go:52`): two patches from stale copies can leave it beside a contrary condition until the next run |
| `EndpointClients.cfg` (`MCModelEndpoint`) | `ClientsFollowSpec` | `InvalidateCache` is to be called "when an endpoint's roleArn or region changes" (`internal/bedrock/client.go:257-259`): only deletion calls it |
| `ProxyRenders.cfg` (`MCProxy`) | `RendersWithinRate` | "all rate limiting" applies to renders (`api/v1alpha1/prompttemplate_types.go:102-103`): `HandleRender` never calls `getLimiter` |
| `ProxyDefaults.cfg` (`MCProxy`) | `DefaultsUsed` | the default "is used when the variable is not supplied" (`prompttemplate_types.go:33-34`): without any `variables` in the body, putting the default into a nil map panics (`internal/proxy/handler.go:211`) |
| `ProxyCap.cfg` (`MCProxy`) | `CapKept` | "not more than the endpoint's maxTokens" (`docs/architecture.md:89`): a negative value is not above the cap, and Bedrock is then sent none |
| `ProxyCounts.cfg` (`MCProxy`) | `CallsCounted` | InvocationTotal counts invocations "by endpoint and outcome" (`internal/metrics/metrics.go:12-13`): failing renders are not counted |
| `TemplateStale.cfg` (`PromptTemplate`) | `ReadyMeansValid` | Ready only when the template is valid (`docs/architecture.md:69`): a patch from a stale copy may leave Ready beside the generation of a broken one, until the next run |
| `OperatorReady.cfg` (`MCOperator`) | `ReadyMeansSynced` | "/readyz waits for cache sync" (`cmd/manager/main.go:197`): it is `healthz.Ping` and answers at once |
| `OperatorDrain.cfg` (`MCOperator`) | `CleanShutdown` | the proxy "shuts down cleanly when the manager context is cancelled" (`cmd/manager/main.go:184-185`): after ten seconds (`internal/proxy/server.go:85`) what is in flight is cut, and a completion may take 120 |
| `OperatorLimit.cfg` (`MCOperator`) | `LimitAlways` | "Default: 60 rpm (applied by the mutating webhook)" (`docs/crd-reference.md:19`): only at creation; an update that drops the limit leaves none |
| `OperatorGov.cfg` (`MCOperator`) | `AcceptedIsStorable` | the validator's tests accept the gov partition (`internal/webhook/modelendpoint_webhook_test.go:18, 118-121`): the CRD's patterns refuse both its region and its role |
| `HandOverOwn.cfg`, `HandOverStatus.cfg` (`HandOver`) | `RecordedIsOwn`, `StatusMovesOn` | not a document's words, but what one worker guarantees and two do not: leader election is "required when running more than one replica" (`cmd/manager/main.go:57`), and a leader held up past its lease is a second one |

Read while modelling, with no formula of their own: inference profiles "are
supported; use the profile ARN form" (`api/v1alpha1/modelendpoint_types.go:11`), but the validator
wants a vendor's prefix; the webhook configurations name a Service
(`k8s-ai-operator-webhook`) that no manifest defines, `config/default` leaves them
out and the Deployment does not pass `--enable-webhooks` (`OperatorPlain.cfg` is that process); `costBudget` gates nothing
(`docs/architecture.md:91-93` says so, `docs/crd-reference.md:17` does not); a call that costs less than half
a micro-dollar adds nothing to the cost counter.

## 6. What is proved

`GuardrailPolicy_proofs` proves, for every set of specs, every subset Bedrock
refuses, both answers to `UniqueNames` and `OutsideDeletes`, and every lag, number of user actions and number of
faults, under `ConstantsAssumption` alone:

* `TypeCorrect`: `Spec => []TypeOK`. Not only types: the recorded id always
  names a guardrail that exists.
* `ReleaseCorrect`: `Spec => []DeleteBeforeRelease`.
* `RecordedCorrect`: `Spec => []RecordedIsOwn`.

None of the three is inductive. The invariant is `IInv`, the conjunction of

* `TypeOK`;
* `LogOK`: `VersionOK` of every version of the object (its recorded id names an
  existing guardrail that was made for the version's own uid, and a deletion is never taken back
  within one incarnation), and `Protects` of every version the cache may still
  show: if it is live and has the finalizer, the server still holds this very
  incarnation with the finalizer. A run works on such a version and the patch
  hits what the server holds, so this is what links the two although the patch
  names neither resourceVersion nor uid;
* `AskedOK`: a guardrail that the operator has asked Bedrock to delete is not the
  one recorded in a live policy. With `VersionOK` it gives `RecordedIsOwn`;
* `RunOK`: what a run may rely on before each of its calls. Before `create`, `update` and
  `patch` the version it has read was live, and the server holds the same incarnation
  with the finalizer; a new id that is about to be patched names a
  guardrail of that incarnation that nobody was asked to delete; before `release`,
  `DeleteGuardrail` was called for the id of the version read, if it had one;
* `DeleteBeforeRelease` itself. When `RemoveFinalizer` succeeds, the
  resourceVersion is current, so the version read is the version left, and
  `RunOK` says the call was made. That is the one step that adds a version without the finalizer
  after a version with it; without the comparison of resourceVersions the
  property fails (its mutant is
  `RemoveFinalizerByPatch`).

The proof has one lemma per kind of step and, under it, one step per conjunct. TLC checks
`TypeOK`, `DeleteBeforeRelease` and `RecordedIsOwn` on small instances in `guardrail`.

`GuardrailPolicy_refines` proves `KeepsPromise`, `Spec => IsFinalizedObject`: under
the mapping `Promised` (the phase, the finalizer and the spec of the server's
object; clean when no guardrail is recorded or Bedrock was asked to delete it)
every initial state is one of `FinalizedObject`, and every step is one of its
steps or a stutter. The argument again goes through `IInv`:

* a step that writes no version cannot make the object unclean (`Stays`), because
  nothing is ever un-asked (`Cleaner`);
* a write of users is `Appear`, `Change`, `BeginDeletion`, `Vanish` or a stutter,
  from the shape of the version alone (`UserRefines`);
* `AddFinalizer` writes only over the version it has read, which was live: `Guard`;
* `PatchStatus` may record an id, so the object must be guarded. The patch names
  no version; that the server still has the finalizer is `RunOK`, which holds because of `Protects`
  (`PatchStatusRefines`);
* `RemoveFinalizer` writes only over the version it has read, and `RunOK` says that
  its guardrail, if any, was asked to go: `Release`.

`Operator_proofs` proves `TypeCorrect` and `AloneAtWork` of `Operator`, for any
sets of pods, requests and specs and any bounds, under `ManagerAssumption` (a pod
is none of the words that stand for "no pod" or for the end of a request; there
is a pod), `AdmissionAssumption` and `OperatorAssumption` (`EnableWebhooks` is true or false), and
because a process that loses its lease ends in time, which is part of the model (section 3). `OneAtWork` is not inductive: that one
process works says nothing of a second one that is about to become leader. The
invariant adds `LeaseOK`, whoever reconciles, serves or drains holds the lease;
a process gets to work only by taking a free lease (`Lead`), the lease is free
only once its holder has ended or crashed (`ExitKeeps`, `LeaseRunsOut`), and a
drain keeps it until the process ends (`RetireKeeps`). `AdmissionKeeps`
shows that whoever writes the endpoint, the controller included, writes a spec
that the schema accepts. The two modules share no variable, so each keeps its part
(`StepKeeps`).

**Steps of the policy.** `StatusMovesOn` and `LiveGuardrailKept` are action
properties, and `IInv` does not give them: it says nothing about generations.
`MovesInv` adds three facts.

* `GenOK`: generations grow from version to version of one incarnation.
* `ObsOK`: the observed generation is not above that of any version the cache holds
  or may still come to hold. `GenOK` alone would leave room for a run that starts
  from an older copy and takes the status back.
* `RunMoves`: before `create`, `update` and `patch` the server's observed generation
  is at most that of the version read, and a `patch` carries exactly this
  generation; where names are unique, a patch that brings a new id meets a recorded
  guardrail that is not live (`CreateGuardrail` succeeds only if no live guardrail
  has the name).

`StatusCorrect` is `Spec => StatusMovesOn`. `LiveKept` is `UniqueNames => (Spec =>
LiveGuardrailKept)`: without unique names the property is false
(`GuardrailCreatedTwice.cfg` shows the run that makes a second guardrail).

**Two leaders.** `HandOver_proofs` proves `TypeCorrect`, `ReleaseCorrect` (`Spec
=> []DeleteBeforeRelease`) and `LiveKept` (`UniqueNames => (Spec =>
LiveGuardrailKept)`) for two workers on one policy, under `HandOverAssumption`. The proof for one worker does not carry over: it rests on
`Protects`, and with two workers a version that the one cache still shows protects
nothing. `RecordedIsOwn` and `StatusMovesOn` are false here (`HandOverOwn.cfg`,
`HandOverStatus.cfg`), so no invariant that implies them can be used. The proof goes
by rely and guarantee instead:

* `Grows` is what every step of either worker, of users and of the environment
  guarantees: a guardrail that was asked to go stays asked; at most one version is
  added; and a version without the finalizer follows one with it only if the
  guardrail it recorded was asked to go;
* `RunOK` is what a run knows between two calls, and it speaks of the version that
  was read, never of the server's: before `release` the guardrail of that version
  was asked to go. `RunKept` shows that no `Grows` of the other process disturbs it;
* `SharedOK` follows from `Grows` (`SharedKept`). `RemoveFinalizer` guarantees
  `Grows` because its update succeeds on the very version that was read.

`LiveKept` cannot follow the one worker's argument either: there the run that brings
a new id counts on the server's object being of the incarnation it has read, and with a second
worker it may not be. What does hold is a fact about all ids (`KeepInv`):

* `OneLive`: at most one guardrail is live, because `CreateGuardrail` is refused while
  one is (nothing is deleted past the operator in `HandOver`, and a deletion would
  only leave fewer);
* `HoldsOK`: a run that is about to patch an id it did not read (`Fresh`) has
  made that guardrail, it is the live one, and no version of the policy has ever
  named it. So no other run can ask for its deletion, which takes the id from a version;
* never are both runs `Fresh`.

A patch that replaces an id brings the id of the live guardrail; if the recorded
one was live too, they are the same. Each call of a worker is `Plain` (brings up no
id), `Makes` a guardrail or `Sends` a new id, and `DoesKeeps` shows once what each
of these leaves to the run that makes the step and to the other one.

The lemmas about a run come twice, for `Old` and for `New`, over shared lemmas about
what a step does to log and guardrails: the prover cannot cite a lemma through an
instance.

**ModelEndpoint.** `ModelEndpoint_proofs` proves `TypeCorrect`, `NothingLeft` (`Spec
=> []NothingLeftBehind`), `KeepsPromise` (`Spec => IsFinalizedObject`) and
`StatusCorrect` (`Spec => StatusMovesOn`), under `EndpointAssumption`. `NothingLeftBehind` speaks of an absent object; the invariant
adds

* `EmptyHanded`: without the finalizer on the server's object there is nothing to
  clean up. A series or a client is made under the finalizer only, by a run that has
  read a live version with it, and `Protects` says that the server holds it still;
* `HeldOK`: whatever the process holds, some version of the endpoint has named. With
  specs that were never edited, what `CleanUp` removes for the version it read is
  then everything;
* `RunOK`: before `release` the series and the clients of the version read are gone.

The refinement has the argument of `GuardrailPolicy_refines`, except that a crash
empties the process, which is `CleanAway`. For endpoints whose spec was edited only
the refinement holds: it is about the model and key of the present version.

`StatusMovesOn` needs `MovesInv`, which has the shape it has for the policy: `GenOK`
and `ObsOK` order the generations of all versions a run may still start from, and
`RunMoves` says that from the health check to the patch the server's observed
generation is at most that of the version in hand. `UidOK` (no version has a uid that
is yet to come) separates a new incarnation from all earlier ones. That "available"
and the Service's name do not disappear is not a matter of order: a patch sends only
what differs from the run's copy, and `KeepsWord` shows that what differs is never the
empty value.

**PromptTemplate.** `PromptTemplate_proofs` proves `TypeCorrect`, `KeepsPromise` and
`StatusCorrect` (`Spec => StatusMovesOn`).
`TypeOK` says that verdict and observed generation are both set or both unset, in
every version. A merge patch may carry one of them without the other, so this needs
more than the patch: within one incarnation a verdict is never taken back
(`VersionOK`), so a field that is left out of the patch was not empty before. `StatusMovesOn`
follows from `GenOK`, `ObsOK` and `RunMoves`, as for the endpoint.

**BedrockClient.** `BedrockClient_proofs` proves `TypeCorrect`, `AloneCorrect`,
`OneClientCorrect`, `FreshCorrect` and `ImplementsAtomic` (`Spec => IsAtomic`), for
any goroutines, keys and numbers of calls, under `CallersAssumption`. The invariant:

* `LockOK` ties the lock to where each goroutine is; a writer past `drain` has seen
  the last reader leave;
* `EntriesOK`: an entry of the maps is of its own kind and key and was made since
  the last `InvalidateCache` of its key. Between the two deletes of
  `InvalidateCache` this fails for the entry that goes second, so there it says that
  this entry is older. (Without that case it is not inductive: `DeleteControl` is
  where it breaks.)
* `MadeOK`, the converse: a client made since the last `InvalidateCache` is the
  entry. With `MissOK`, a caller that is about to make a client has seen that there
  is none, it gives `OneClientPerKey`;
* `CallsOK`: a caller holds a client only when it has its answer.

For the refinement a lookup takes effect at the `Look` or `CheckAgain` that finds an
entry or at `Make`, and `InvalidateCache` at its first delete: until the second one
nobody else reads, so the abstract cache shows the second entry as gone already.
`Lock`, `RLock` and `Drained` are stutters.

**Proxy.** `Proxy_proofs` proves `TypeCorrect`, `RateCorrect` (`Spec =>
[]WithinRate`), `RejectsCorrect` (`Spec => RejectsOnlyExcess`), `CountsCorrect` (`Spec =>
[]InvokesCounted`) and `SpendCorrect` (`Spec => []SpendTracked`), for any set of
requests, finite or not, any edits, and the limits the CRD allows
(`ProxyAssumption`; `config/crd/bases/ai.kernelpanic09.io_modelendpoints.yaml:90`).

* `WithinRate` compares two moments of admission, so it is not inductive. `RateOK`
  compares every admission with *now* and counts what is left in the bucket: what
  has passed since, plus the tokens the bucket still holds, is at most the burst
  plus what the time in between brings. A tick adds the same to both sides or fills
  the bucket to its burst, and a request moves a token from the one summand to the
  other. A new admission gives `WithinRate` for all pairs that end with it;
* `RejectsOnlyExcess` is the other side: a request is rejected only if one more would
  have been too many since some earlier admission, by the same measure. `EarnedOK` says that
  the bucket is full or there is an admission since which what has passed, plus the
  level, is at least the burst plus what the time has brought. The request that draws on a full bucket
  is such an admission, and a tick that does not fill the bucket adds the same to both sides. A
  bucket that rejects holds less than one token, so it is not full and the admission is the one asked for;
* `BucketOK`: there is one bucket at most, whose level is within its burst;
* `InvokesCounted` equates counters and cardinalities, so the invariant carries that
  the requests with an answer are finitely many, and every step that answers adds
  one request to exactly one of the sets (`EndedGrows`).

* `SpendTracked` is a sum over the calls. `SpendInv` adds that what they took is
  finite; one billed call adds its tokens to the sets of its own model and to no
  other's (`BilledGrows`), the price of what was taken grows by the price of the call
  (`PriceAdds`), and the counter by a number that differs from it by at most half a
  micro-dollar (`RoundedOff`, from `Rounded` as `math.Round` does it), so the bound grows
  by the same for every call.

`WithinRate` and `SpendTracked` count with `Cardinality`, about which the library has
theorems: the one counts admissions, the other tokens, each of which is a pair of a
request and a number. The length of a selected subsequence, or a fold over the
requests, would be a recursive definition, and what that computes needs induction over
data: the library's induction theorems take an operator as parameter, which the
installed provers cannot instantiate.

**Only model-checked**: all liveness properties (`EventuallyInSync`, `DeletionCompletes`,
`HealthReported`, `ServiceRestored`, `EveryCallReturns`, `EventuallyTrue`,
`NewestServes`, `CaredForUnlessRefused`): TLAPS does neither fairness nor ENABLED.
Whether `ClientCache` and `FinalizedObject` promise enough is a matter of reading
them.

## 7. What is not modelled

* Flags other than `--enable-webhooks`, logging and the wiring order of `main.go`; read and write timeouts of the proxy's
  connections.
* `sanitizeLabel`, `FormatCost`, the translation of a
  guardrail's spec into Bedrock's input: pure, planned as operators.
  `bedrock.DefaultBlockedInput` is called by nothing, although
  `guardrailpolicy_types.go:115-116` promises a default.
* A guardrail deleted outside is never made again: every later update fails.
  `guardrail` allows it, and `EventuallyInSync` asks that the status then says so.
* That several endpoints share a Bedrock client, and the proxy uses it while a
  controller invalidates it, is in `BedrockClient`; the two are not composed: a call of the proxy in flight
  may cache a runtime client again after the endpoint's deletion has invalidated its key, and
  `clients` of `ModelEndpoint` holds only what the controller makes.
* `guardrailPolicyRef` of an endpoint: the proxy never passes a guardrail to
  Bedrock (`internal/proxy/handler.go:130`), so there is nothing to model.
* Duration and reconcile-count metrics: data.
* Generated deep copies, manifests, build files, tests.

## 8. Running it

    tlc -workers 2 -config Guardrail.cfg GuardrailPolicy
    tlc -workers 2 -config Endpoint.cfg MCModelEndpoint
    tlc -workers 2 -config Client.cfg MCBedrockClient
    tlc -workers 2 -config Template.cfg PromptTemplate
    tlc -workers 2 -config ProxyRate.cfg MCProxy
    tlc -workers 2 -config Operator.cfg MCOperator
    tlc -workers 2 -config HandOver.cfg HandOver
    tlc -workers 2 -config HandOverLate.cfg HandOver
    tlc -workers 2 -config OperatorPlain.cfg MCOperator
    tlc -workers 2 -config GuardrailTwins.cfg GuardrailPolicy
    tlapm GuardrailPolicy_proofs.tla
    tlapm GuardrailPolicy_refines.tla
    tlapm HandOver_proofs.tla
    tlapm ModelEndpoint_proofs.tla
    tlapm PromptTemplate_proofs.tla
    tlapm BedrockClient_proofs.tla
    tlapm Proxy_proofs.tla
    tlapm Operator_proofs.tla

Section 5 names the module of every other configuration; `PROJECT.json` names the source lines
of every definition and the mutated form used for every property. The longest run, `ProxyRate.cfg`,
takes about three minutes on two workers.
