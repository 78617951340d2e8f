----------------------------- MODULE ApiObject -----------------------------
(***************************************************************************)
(* One Kubernetes custom resource as a controller of this operator meets   *)
(* it: the object in the API server, the informer cache that lags behind   *)
(* it, and the work queue that holds the object's key.  None of this is    *)
(* code of the repository; it is modelled from how internal/controller     *)
(* uses it (Get reads the cache, Update carries the resourceVersion that   *)
(* was read, Status().Patch sends a merge patch without one, For() without *)
(* predicates enqueues the key at every change of the object, a Result     *)
(* that asks for a requeue or an error adds the key again later).          *)
(*                                                                         *)
(* The log holds every version of the object, in order: the                *)
(* resourceVersion of a version is its index, log[Len(log)] is what the    *)
(* API server holds and log[seen] what the cache holds.                    *)
(***************************************************************************)
EXTENDS Integers, Sequences

CONSTANTS
    Specs,      \* the contents a user may give the resource's spec
    Statuses,   \* the values of its status subresource
    NoStatus,   \* the status of a new object
    MaxEdits,   \* bound: how often users touch the object
    MaxFaults   \* bound: how many calls and processes fail

VARIABLES
    log,        \* every version of the object so far
    seen,       \* index of the version in the informer cache
    queued,     \* the work queue holds the key
    timer,      \* a delayed add of the key (RequeueAfter, back-off) is pending
    edits,      \* user actions so far
    faults      \* faults so far

apiVars == <<log, seen, queued, timer, edits, faults>>

(***************************************************************************)
(* "finalizer" is the operator's finalizer, "held" the finalizer of some   *)
(* other controller.  A uid is the resourceVersion of the object's first   *)
(* version; uid 0 stands for "no such object".                             *)
(***************************************************************************)
Object == [uid: Nat, gen: Nat, spec: Specs, deleting: BOOLEAN,
           finalizer: BOOLEAN, held: BOOLEAN, status: Statuses]

Gone == [uid |-> 0, gen |-> 0, spec |-> CHOOSE s \in Specs : TRUE,
         deleting |-> FALSE, finalizer |-> FALSE, held |-> FALSE,
         status |-> NoStatus]

Exists(o) == o.uid # 0
Live(o)   == Exists(o) /\ ~o.deleting

Server == log[Len(log)]

(* The phase of the object in its life. *)
Phase == CASE ~Exists(Server)                    -> "absent"
           [] Live(Server)                       -> "live"
           [] Exists(Server) /\ Server.deleting  -> "deleting"

Cached == log[seen]
Lag    == Len(log) - seen

ApiTypeOK ==
    /\ log \in Seq(Object) /\ Len(log) > 0
    /\ seen \in 1 .. Len(log)
    /\ queued \in BOOLEAN /\ timer \in BOOLEAN
    /\ edits \in 0 .. MaxEdits /\ faults \in 0 .. MaxFaults

ApiInit ==
    /\ log = <<Gone>> /\ seen = 1
    /\ queued = FALSE /\ timer = FALSE
    /\ edits = 0 /\ faults = 0

(* A deleted object goes away with its last finalizer. *)
Collected(o) == IF o.deleting /\ ~o.finalizer /\ ~o.held THEN Gone ELSE o

(* A write that changes nothing makes no version and no watch event. *)
Written(o) == IF o = Server THEN log ELSE Append(log, o)

(* client.Update is refused unless it carries the current resourceVersion. *)
UpToDate(rv) == rv = Len(log)

(***************************************************************************)
(* Status().Patch(new, MergeFrom(old)) sends the fields in which new and   *)
(* old differ; the server keeps its own value of every other field.        *)
(***************************************************************************)
Merged(own, old, new) == IF new = old THEN own ELSE new

(***************************************************************************)
(* What users and other controllers do to the object.                      *)
(***************************************************************************)
UserStep(o) ==
    /\ edits < MaxEdits /\ edits' = edits + 1
    /\ log' = Append(log, o)
    /\ UNCHANGED <<seen, queued, timer, faults>>

UserCreate ==
    /\ ~Exists(Server)
    /\ \E s \in Specs, h \in BOOLEAN :
          UserStep([uid |-> Len(log) + 1, gen |-> 1, spec |-> s,
                    deleting |-> FALSE, finalizer |-> FALSE, held |-> h,
                    status |-> NoStatus])

UserEdit ==
    /\ Exists(Server)
    /\ \E s \in Specs \ {Server.spec} :
          UserStep([Server EXCEPT !.spec = s, !.gen = @ + 1])

UserDelete ==
    /\ Live(Server)
    /\ UserStep(Collected([Server EXCEPT !.deleting = TRUE, !.gen = @ + 1]))

OtherRelease ==
    /\ Exists(Server) /\ Server.held
    /\ UserStep(Collected([Server EXCEPT !.held = FALSE]))

User == UserCreate \/ UserEdit \/ UserDelete \/ OtherRelease

(***************************************************************************)
(* The watch moves the cache one version on and enqueues the key; a        *)
(* delayed add enqueues it when its time has come.                         *)
(***************************************************************************)
Deliver ==
    /\ seen < Len(log)
    /\ seen' = seen + 1 /\ queued' = TRUE
    /\ UNCHANGED <<log, timer, edits, faults>>

TimerFires ==
    /\ timer
    /\ timer' = FALSE /\ queued' = TRUE
    /\ UNCHANGED <<log, seen, edits, faults>>

(***************************************************************************)
(* The manager's process ends and another takes over: queue and timers are *)
(* lost, the new informer lists a version no older than the last one seen  *)
(* and enqueues every object it lists.                                     *)
(***************************************************************************)
Fault == faults < MaxFaults /\ faults' = faults + 1

Relist ==
    /\ Fault
    /\ seen' \in seen .. Len(log)
    /\ queued' = Exists(log[seen'])
    /\ timer' = FALSE
    /\ UNCHANGED <<log, edits>>
=============================================================================
