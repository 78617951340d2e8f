------------------------ MODULE ModelEndpoint_proofs ------------------------
(***************************************************************************)
(* What ModelEndpoint promises for every value of its constants: its type  *)
(* invariant, NothingLeftBehind, that it implements FinalizedObject, and   *)
(* that its status moves on.                                               *)
(***************************************************************************)
EXTENDS ModelEndpoint, SequenceTheorems, TLAPS

(* The versions of the endpoint: uid 0 is "no object", and the API server  *)
(* accepts none whose status lacks "available".                            *)
VersionOK(o) ==
    /\ o.uid = 0 => ~o.finalizer /\ ~o.deleting
    /\ Accepted(o)

(* A version not older than the cache that holds the finalizer and is not  *)
(* being deleted proves that the server still holds that incarnation.      *)
Protects(o) ==
    Live(o) /\ o.finalizer => Server.uid = o.uid /\ Server.finalizer

LogOK ==
    /\ \A i \in 1 .. Len(log) : VersionOK(log[i])
    /\ \A i \in seen .. Len(log) : Protects(log[i])

(* What the run knows about its object between two calls. *)
RunOK ==
    /\ pc \in {"check", "service", "patch"} =>
          Live(ep) /\ Server.uid = ep.uid /\ Server.finalizer
    /\ pc = "adopt" => Live(ep)
    /\ pc \in {"clean", "release"} => ep.deleting /\ ep.finalizer
    /\ pc = "release" => /\ ep.spec.key \notin clients
                         /\ gauge[ep.spec.model] = "none"

(* Whatever the process holds, some version of the endpoint has named. *)
HeldOK ==
    /\ \A k \in clients :
          \E i \in 1 .. Len(log) : Exists(log[i]) /\ log[i].spec.key = k
    /\ \A m \in Models : gauge[m] # "none" =>
          \E i \in 1 .. Len(log) : Exists(log[i]) /\ log[i].spec.model = m

(* The spec has never been edited, in no incarnation. *)
Unedited ==
    \A i, j \in DOMAIN log : Exists(log[i]) /\ Exists(log[j])
                                => log[i].spec = log[j].spec

Empty == clients = {} /\ \A m \in Models : gauge[m] = "none"

(* Without the finalizer there is nothing to clean up: this is what makes  *)
(* NothingLeftBehind inductive, which speaks of the absent object only.    *)
EmptyHanded == ~Server.finalizer /\ Unedited => Empty

IInv == TypeOK /\ LogOK /\ RunOK /\ HeldOK /\ EmptyHanded

-----------------------------------------------------------------------------
(* The state's parts have their types, as the steps use them. *)
LEMMA Basics ==
  ASSUME IInv
  PROVE  /\ log \in Seq(Object) /\ Len(log) \in Nat /\ Len(log) > 0
         /\ DOMAIN log = 1 .. Len(log)
         /\ seen \in 1 .. Len(log) /\ read \in 1 .. seen /\ read \in 1 .. Len(log)
         /\ Server \in Object /\ ep \in Object /\ Cached \in Object
         /\ \A i \in 1 .. Len(log) : log[i] \in Object
<1>1. /\ log \in Seq(Object) /\ Len(log) \in Nat /\ Len(log) > 0
      /\ DOMAIN log = 1 .. Len(log)
      /\ seen \in 1 .. Len(log) /\ read \in 1 .. seen
  BY LenProperties DEF IInv, TypeOK, ApiTypeOK
<1>2. \A i \in 1 .. Len(log) : log[i] \in Object
  BY <1>1, ElementOfSeq
<1>. QED
  BY <1>1, <1>2 DEF Server, ep, Cached

LEMMA Known ==
  ASSUME IInv
  PROVE  VersionOK(Server) /\ VersionOK(ep) /\ VersionOK(Cached) /\ Protects(Cached)
BY Basics DEF IInv, LogOK, Server, ep, Cached

LEMMA SpecType ==
  ASSUME NEW o \in Object
  PROVE  o.spec.model \in Models /\ o.spec.key \in Keys
BY EndpointAssumption DEF Object

LEMMA NoEndpointType == NoEndpoint \in EndpointStatus /\ NoEndpoint.available = "Unset"
BY DEF NoEndpoint, EndpointStatus

LEMMA GoneType == Gone \in Object /\ Gone.uid = 0 /\ ~Gone.finalizer /\ ~Gone.deleting
                  /\ Gone.status = NoEndpoint /\ VersionOK(Gone)
BY EndpointAssumption, NoEndpointType DEF Gone, Object, VersionOK, Accepted

(* What is left of an object that is collected. *)
LEMMA CollectedShape ==
  ASSUME NEW o \in Object
  PROVE  /\ Collected(o) \in Object
         /\ \/ Collected(o) = o
            \/ Collected(o) = Gone /\ o.deleting /\ ~o.finalizer
BY GoneType DEF Collected

LEMMA InitOK == Init => IInv
<1>. SUFFICES ASSUME Init PROVE IInv
  OBVIOUS
<1>1. /\ log = <<Gone>> /\ Len(log) = 1 /\ Server = Gone /\ ep = Gone
      /\ seen = 1 /\ read = 1 /\ pc = "idle" /\ log \in Seq(Object)
      /\ \A i \in 1 .. Len(log) : log[i] = Gone
  BY GoneType DEF Init, ApiInit, Server, ep
<1>2. TypeOK
  <2>1. queued \in BOOLEAN /\ timer \in BOOLEAN
    BY DEF Init, ApiInit
  <2>2. seen \in 1 .. Len(log) /\ edits \in 0 .. MaxEdits /\ faults \in 0 .. MaxFaults
    BY <1>1, EndpointAssumption DEF Init, ApiInit
  <2>3. ApiTypeOK
    BY <1>1, <2>1, <2>2 DEF ApiTypeOK
  <2>4. /\ pc \in Steps /\ read \in 1 .. seen /\ found \in {"up"} \cup Outages
        /\ health \in {"up"} \cup Outages
    BY <1>1 DEF Init, Steps
  <2>5. svc \in Service /\ svcSeen \in Service
    BY DEF Init, Service, NoService
  <2>6. gauge \in [Models -> {"none", "0", "1"}] /\ clients \subseteq Keys
    BY DEF Init
  <2>. QED  BY <1>1, <2>3, <2>4, <2>5, <2>6, GoneType DEF TypeOK
<1>3. LogOK
  BY <1>1, GoneType DEF LogOK, Protects, Live, Exists
<1>4. Empty
  BY DEF Init, Empty
<1>5. RunOK /\ HeldOK /\ EmptyHanded
  BY <1>1, <1>4 DEF RunOK, HeldOK, EmptyHanded, Empty
<1>. QED  BY <1>2, <1>3, <1>5 DEF IInv

-----------------------------------------------------------------------------
(* The log grows by one version, or stays. *)
Grows == /\ Len(log') \in Nat /\ Len(log') >= Len(log) /\ DOMAIN log' = 1 .. Len(log')
         /\ \A i \in 1 .. Len(log) : log'[i] = log[i]

(* What a new version must satisfy. *)
Continues(o) ==
    /\ VersionOK(o)
    /\ \A i \in seen .. Len(log) :
          Live(log[i]) /\ log[i].finalizer => o.uid = log[i].uid /\ o.finalizer

LEMMA Extend ==
  ASSUME IInv, NEW o \in Object, log' = Append(log, o), seen' = seen, Continues(o)
  PROVE  /\ log' \in Seq(Object) /\ Len(log') = Len(log) + 1
         /\ Server' = o /\ LogOK' /\ Grows
<1>1. /\ log' \in Seq(Object) /\ Len(log') = Len(log) + 1
      /\ \A i \in 1 .. Len(log) : log'[i] = log[i]
      /\ log'[Len(log) + 1] = o
  BY Basics, AppendProperties
<1>2. Server' = o
  BY <1>1 DEF Server
<1>3. ASSUME NEW i \in 1 .. Len(log') PROVE VersionOK(log'[i])
  <2>1. CASE i = Len(log) + 1
    BY <1>1, <2>1 DEF Continues
  <2>2. CASE i \in 1 .. Len(log)
    BY <1>1, <2>2 DEF IInv, LogOK
  <2>. QED  BY <1>1, <2>1, <2>2, Basics
<1>4. ASSUME NEW i \in seen' .. Len(log') PROVE Protects(log[i])'
  BY <1>1, <1>2, Basics DEF Protects, Live, Exists, Continues
<1>5. LogOK'
  BY <1>3, <1>4 DEF LogOK, VersionOK, Accepted
<1>6. Grows
  BY <1>1, Basics, LenProperties DEF Grows
<1>. QED
  BY <1>1, <1>2, <1>5, <1>6

(* The log stays, the cache may move on. *)
LEMMA Stay ==
  ASSUME IInv, log' = log, seen' \in seen .. Len(log)
  PROVE  Server' = Server /\ LogOK' /\ Grows
<1>1. Server' = Server
  BY DEF Server
<1>2. Grows
  BY Basics DEF Grows
<1>. QED
  BY <1>1, <1>2, Basics DEF IInv, LogOK, VersionOK, Accepted, Protects, Live, Exists

(* The process holds no more than before, or less. *)
Shrinks == /\ clients' \subseteq clients
           /\ gauge' \in [Models -> {"none", "0", "1"}]
           /\ \A m \in Models : gauge'[m] # "none" => gauge'[m] = gauge[m]

LEMMA Unchanged == ASSUME IInv, UNCHANGED process PROVE Shrinks
BY DEF Shrinks, process, IInv, TypeOK

(* What was named once, stays named. *)
LEMMA HeldStays ==
  ASSUME IInv, Grows, Shrinks
  PROVE  HeldOK'
<1>1. ASSUME NEW k \in clients'
      PROVE  \E i \in 1 .. Len(log') : Exists(log'[i]) /\ log'[i].spec.key = k
  <2>1. PICK i \in 1 .. Len(log) : Exists(log[i]) /\ log[i].spec.key = k
    BY <1>1 DEF Shrinks, IInv, HeldOK
  <2>. QED  BY <2>1, Basics DEF Grows
<1>2. ASSUME NEW m \in Models, gauge'[m] # "none"
      PROVE  \E i \in 1 .. Len(log') : Exists(log'[i]) /\ log'[i].spec.model = m
  <2>1. PICK i \in 1 .. Len(log) : Exists(log[i]) /\ log[i].spec.model = m
    BY <1>2 DEF Shrinks, IInv, HeldOK
  <2>. QED  BY <2>1, Basics DEF Grows
<1>. QED  BY <1>1, <1>2 DEF HeldOK, Exists

LEMMA EmptyStays ==
  ASSUME IInv, Grows, Shrinks, Server.finalizer => Server'.finalizer
  PROVE  EmptyHanded'
<1>. SUFFICES ASSUME ~Server'.finalizer, Unedited' PROVE Empty'
  BY DEF EmptyHanded
<1>1. Unedited
  BY Basics DEF Unedited, Grows, Exists
<1>2. Empty
  BY <1>1 DEF IInv, EmptyHanded
<1>. QED  BY <1>2 DEF Empty, Shrinks

-----------------------------------------------------------------------------
(* A step of others leaves the worker what it knows, as long as it leaves  *)
(* the finalizer where it is.                                              *)
LEMMA Bystander ==
  ASSUME IInv, UNCHANGED <<worker, process>>, Grows, ApiTypeOK', LogOK', seen' >= seen,
         svc' \in Service, svcSeen' \in Service, health' \in {"up"} \cup Outages,
         Server.finalizer => Server'.finalizer /\ Server'.uid = Server.uid
  PROVE  IInv'
<1>1. ep' = ep
  BY Basics DEF ep, worker, Grows
<1>2. Server'.status.available = "Unset" => Server'.status = NoEndpoint
  BY DEF LogOK, Server, ApiTypeOK, VersionOK, Accepted, Grows
<1>3. Shrinks
  BY Unchanged DEF process
<1>4. TypeOK'
  <2>1. pc' \in Steps /\ read' \in 1 .. seen' /\ found' \in {"up"} \cup Outages
    BY Basics DEF IInv, TypeOK, ApiTypeOK, worker
  <2>2. gauge' \in [Models -> {"none", "0", "1"}] /\ clients' \subseteq Keys
    BY DEF IInv, TypeOK, process
  <2>. QED  BY <1>2, <2>1, <2>2 DEF TypeOK
<1>5. RunOK'
  BY <1>1 DEF IInv, RunOK, worker, process
<1>6. HeldOK' /\ EmptyHanded'
  BY <1>3, HeldStays, EmptyStays
<1>. QED  BY <1>4, <1>5, <1>6 DEF IInv

(* A run that ends knows nothing; what remains is the log and what the     *)
(* process holds.                                                          *)
LEMMA Ended ==
  ASSUME IInv, End, Shrinks, Grows, ApiTypeOK', LogOK', EmptyHanded',
         svc' \in Service, svcSeen' \in Service, health' \in {"up"} \cup Outages
  PROVE  IInv'
<1>1. Server'.status.available = "Unset" => Server'.status = NoEndpoint
  BY DEF LogOK, Server, ApiTypeOK, VersionOK, Accepted, Grows
<1>2. TypeOK'
  <2>1. pc' \in Steps /\ read' \in 1 .. seen' /\ found' \in {"up"} \cup Outages
    BY DEF End, Steps, ApiTypeOK
  <2>2. gauge' \in [Models -> {"none", "0", "1"}] /\ clients' \subseteq Keys
    BY DEF IInv, TypeOK, Shrinks
  <2>. QED  BY <1>1, <2>1, <2>2 DEF TypeOK
<1>3. RunOK'
  BY DEF RunOK, End
<1>4. HeldOK'
  BY HeldStays
<1>. QED  BY <1>2, <1>3, <1>4 DEF IInv

(* A run ends without a write of the endpoint. *)
LEMMA EndsWithService ==
  ASSUME IInv, EndRequeued, log' = log, UNCHANGED <<process, svcSeen, health>>,
         svc' \in Service, UNCHANGED faults \/ Fault
  PROVE  IInv'
<1>1. LogOK' /\ Server' = Server /\ Grows
  BY Stay, Basics DEF EndRequeued
<1>2. ApiTypeOK'
  BY EndpointAssumption DEF IInv, TypeOK, ApiTypeOK, EndRequeued, Fault
<1>3. Shrinks
  BY Unchanged
<1>4. EmptyHanded'
  BY <1>1, <1>3, EmptyStays
<1>. QED
  BY <1>1, <1>2, <1>3, <1>4, Ended DEF EndRequeued, service, IInv, TypeOK

LEMMA EndsQuietly ==
  ASSUME IInv, EndRequeued, log' = log, UNCHANGED <<process, service, health>>,
         UNCHANGED faults \/ Fault
  PROVE  IInv'
<1>1. svc' \in Service /\ UNCHANGED <<process, svcSeen, health>>
  BY DEF IInv, TypeOK, service
<1>. QED  BY <1>1, EndsWithService

(* A run ends with a write; whether what the process holds is then as it   *)
(* should be is up to the write.                                           *)
LEMMA EndsWriting ==
  ASSUME IInv, End, NEW o \in Object, log' = Written(o), Continues(o),
         UNCHANGED <<process, service, health>>,
         timer' \in BOOLEAN, UNCHANGED <<seen, queued, edits, faults>>,
         o.finalizer \/ EmptyHanded'
  PROVE  IInv'
<1>1. /\ log' \in Seq(Object) /\ Len(log') > 0 /\ seen' \in 1 .. Len(log')
      /\ Server' = o /\ LogOK' /\ Grows
  <2>1. CASE log' = log /\ o = Server
    BY <2>1, Stay, Basics
  <2>2. CASE log' = Append(log, o)
    BY <2>2, Extend, Basics
  <2>. QED  BY <2>1, <2>2 DEF Written
<1>2. ApiTypeOK'
  BY <1>1 DEF IInv, TypeOK, ApiTypeOK
<1>3. Shrinks
  BY Unchanged
<1>4. EmptyHanded'
  BY <1>1 DEF EmptyHanded
<1>. QED
  BY <1>1, <1>2, <1>3, <1>4, Ended DEF service, IInv, TypeOK

-----------------------------------------------------------------------------
(* A write of users keeps the incarnation, its finalizer and its status    *)
(* and changes its spec or, perhaps, begins its deletion; or it replaces   *)
(* an object without the operator's finalizer, or none at all.             *)
KeepsObject(o) ==
    /\ Exists(Server) /\ o.uid = Server.uid
    /\ Server.deleting => o.deleting
    /\ o.spec # Server.spec => o.deleting = Server.deleting
    /\ o.finalizer = Server.finalizer /\ o.status = Server.status
    /\ Server.gen <= o.gen

Replaces(o) ==
    /\ ~Server.finalizer /\ ~o.finalizer /\ ~o.deleting /\ o.status = NoEndpoint
    /\ \/ o.uid = 0 /\ Exists(Server)
       \/ o.uid = Len(log) + 1 /\ ~Exists(Server)

LEMMA UserShape ==
  ASSUME IInv, User
  PROVE  \E o \in Object : UserStep(o) /\ (KeepsObject(o) \/ Replaces(o))
<1>1. /\ Server \in Object /\ VersionOK(Server) /\ Len(log) \in Nat
      /\ Server.gen \in Nat /\ Server.gen + 1 \in Nat
  <2>1. Server \in Object /\ VersionOK(Server) /\ Len(log) \in Nat
    BY Basics, Known
  <2>. QED  BY <2>1 DEF Object
<1>2. CASE UserCreate
  <2>1. PICK s \in Specs, h \in BOOLEAN :
           UserStep([uid |-> Len(log) + 1, gen |-> 1, spec |-> s,
                     deleting |-> FALSE, finalizer |-> FALSE, held |-> h,
                     status |-> NoEndpoint])
    BY <1>2 DEF UserCreate
  <2>. DEFINE o == [uid |-> Len(log) + 1, gen |-> 1, spec |-> s,
                    deleting |-> FALSE, finalizer |-> FALSE, held |-> h,
                    status |-> NoEndpoint]
  <2>2. o \in Object
    BY <1>1, NoEndpointType DEF Object
  <2>3. Replaces(o)
    BY <1>1, <1>2 DEF Replaces, UserCreate, VersionOK, Exists
  <2>. QED  BY <2>1, <2>2, <2>3
<1>3. CASE UserEdit
  <2>1. PICK s \in Specs : UserStep([Server EXCEPT !.spec = s, !.gen = @ + 1])
    BY <1>3 DEF UserEdit
  <2>. DEFINE o == [Server EXCEPT !.spec = s, !.gen = @ + 1]
  <2>2. /\ o \in Object /\ o.uid = Server.uid /\ o.deleting = Server.deleting
        /\ o.finalizer = Server.finalizer /\ o.status = Server.status
        /\ o.gen = Server.gen + 1
    BY <1>1 DEF Object
  <2>. HIDE DEF o
  <2>3. KeepsObject(o)
    BY <1>1, <1>3, <2>2 DEF KeepsObject, UserEdit
  <2>. QED  BY <2>1, <2>2, <2>3 DEF o
<1>4. CASE UserDelete
  <2>. DEFINE o == [Server EXCEPT !.deleting = TRUE, !.gen = @ + 1]
  <2>1. UserStep(Collected(o))
    BY <1>4 DEF UserDelete
  <2>2. /\ o \in Object /\ o.uid = Server.uid /\ o.spec = Server.spec
        /\ o.deleting /\ o.finalizer = Server.finalizer /\ o.status = Server.status
        /\ o.gen = Server.gen + 1
    BY <1>1 DEF Object
  <2>. HIDE DEF o
  <2>3. KeepsObject(o)
    BY <1>1, <1>4, <2>2 DEF KeepsObject, UserDelete, Live
  <2>4. CASE Collected(o) = o
    BY <2>1, <2>2, <2>3, <2>4
  <2>5. CASE Collected(o) = Gone /\ ~o.finalizer
    BY <2>1, <2>3, <2>5, GoneType DEF KeepsObject, Replaces
  <2>. QED  BY <2>2, <2>4, <2>5, CollectedShape
<1>5. CASE OtherRelease
  <2>. DEFINE o == [Server EXCEPT !.held = FALSE]
  <2>1. UserStep(Collected(o))
    BY <1>5 DEF OtherRelease
  <2>2. /\ o \in Object /\ o.uid = Server.uid /\ o.spec = Server.spec
        /\ o.deleting = Server.deleting /\ o.finalizer = Server.finalizer
        /\ o.status = Server.status /\ o.gen = Server.gen
    BY <1>1 DEF Object
  <2>. HIDE DEF o
  <2>3. KeepsObject(o)
    BY <1>1, <1>5, <2>2 DEF KeepsObject, OtherRelease
  <2>4. CASE Collected(o) = o
    BY <2>1, <2>2, <2>3, <2>4
  <2>5. CASE Collected(o) = Gone /\ ~o.finalizer
    BY <2>1, <2>3, <2>5, GoneType DEF KeepsObject, Replaces
  <2>. QED  BY <2>2, <2>4, <2>5, CollectedShape
<1>. QED  BY <1>2, <1>3, <1>4, <1>5 DEF User

LEMMA UserOK ==
  ASSUME IInv, User, UNCHANGED <<worker, process, service, health>>
  PROVE  IInv'
<1>1. PICK o \in Object : UserStep(o) /\ (KeepsObject(o) \/ Replaces(o))
  BY UserShape
<1>2. /\ log' = Append(log, o) /\ edits < MaxEdits /\ edits' = edits + 1
      /\ UNCHANGED <<seen, queued, timer, faults>>
  BY <1>1 DEF UserStep
<1>3. VersionOK(Server) /\ \A i \in seen .. Len(log) : Protects(log[i])
  BY Known DEF IInv, LogOK
<1>4. Continues(o)
  <2>1. \A i \in seen .. Len(log) :
           Live(log[i]) /\ log[i].finalizer => o.uid = log[i].uid /\ o.finalizer
    BY <1>1, <1>3 DEF KeepsObject, Replaces, Protects
  <2>2. VersionOK(o)
    BY <1>1, <1>3, NoEndpointType DEF KeepsObject, Replaces, VersionOK, Accepted, Exists
  <2>. QED  BY <2>1, <2>2 DEF Continues
<1>5. /\ log' \in Seq(Object) /\ Len(log') = Len(log) + 1 /\ Server' = o /\ LogOK'
      /\ Grows
  BY <1>2, <1>4, Extend
<1>6. ApiTypeOK'
  BY <1>2, <1>5, Basics, EndpointAssumption DEF IInv, TypeOK, ApiTypeOK
<1>7. Server.finalizer => o.finalizer /\ o.uid = Server.uid
  BY <1>1 DEF KeepsObject, Replaces
<1>. QED
  BY <1>2, <1>5, <1>6, <1>7, Basics, Bystander DEF IInv, TypeOK, service

LEMMA OthersOK ==
  ASSUME IInv, \/ (Deliver \/ TimerFires) /\ UNCHANGED <<worker, process, service, health>>
               \/ UserService \/ GarbageCollect \/ DeliverService \/ HealthChanges
  PROVE  IInv'
<1>1. log' = log /\ seen' \in seen .. Len(log) /\ UNCHANGED <<worker, process>>
  BY Basics
  DEF Deliver, TimerFires, UserService, GarbageCollect, DeliverService, HealthChanges
<1>2. Server' = Server /\ LogOK' /\ Grows
  BY <1>1, Stay
<1>3. svc' \in Service /\ svcSeen' \in Service /\ health' \in {"up"} \cup Outages
  <2>1. /\ svc \in Service /\ svcSeen \in Service /\ health \in {"up"} \cup Outages
        /\ NoService \in Service
        /\ [there |-> TRUE, right |-> FALSE, owner |-> 0] \in Service
        /\ [svc EXCEPT !.right = FALSE] \in Service
    BY DEF IInv, TypeOK, Service, NoService
  <2>. QED
    BY <2>1
    DEF service, UserService, GarbageCollect, DeliverService, HealthChanges
<1>4. ApiTypeOK'
  <2>1. timer' \in BOOLEAN /\ faults' \in 0 .. MaxFaults
    BY DEF Deliver, TimerFires, UserService, GarbageCollect, DeliverService, HealthChanges,
           IInv, TypeOK, ApiTypeOK
  <2>2. queued' \in BOOLEAN
    BY DEF Deliver, TimerFires, UserService, GarbageCollect, DeliverService, HealthChanges,
           IInv, TypeOK, ApiTypeOK
  <2>3. edits' \in 0 .. MaxEdits
    BY EndpointAssumption
    DEF Deliver, TimerFires, UserService, GarbageCollect, DeliverService, HealthChanges,
        Touch, IInv, TypeOK, ApiTypeOK
  <2>4. log' \in Seq(Object) /\ Len(log') > 0 /\ seen' \in 1 .. Len(log')
    BY <1>1, Basics
  <2>. QED  BY <2>1, <2>2, <2>3, <2>4 DEF ApiTypeOK
<1>. QED
  BY <1>1, <1>2, <1>3, <1>4, Basics, Bystander


-----------------------------------------------------------------------------
(* The worker. *)
LEMMA ReconcileOK == ASSUME IInv, Reconcile PROVE IInv'
<1>1. log' = log /\ seen' = seen /\ UNCHANGED <<process, service, health>>
  BY DEF Reconcile
<1>2. Server' = Server /\ LogOK' /\ Grows
  BY <1>1, Stay, Basics
<1>3. ApiTypeOK'
  BY DEF Reconcile, IInv, TypeOK, ApiTypeOK
<1>4. Shrinks
  BY <1>1, Unchanged
<1>5. HeldOK' /\ EmptyHanded'
  BY <1>2, <1>4, HeldStays, EmptyStays
<1>6. svc' \in Service /\ svcSeen' \in Service /\ health' \in {"up"} \cup Outages
  BY <1>1 DEF service, IInv, TypeOK
<1>7. CASE Branch(Cached) = "idle"
  BY <1>2, <1>3, <1>4, <1>5, <1>6, <1>7, Ended DEF Reconcile
<1>8. CASE Branch(Cached) # "idle"
  <2>1. pc' = Branch(Cached) /\ read' = seen /\ found' = found /\ ep' = Cached
    BY <1>1, <1>8 DEF Reconcile, ep, Cached
  <2>2. /\ Branch(Cached) \in {"adopt", "check", "clean"}
        /\ Branch(Cached) = "adopt" => Live(Cached)
        /\ Branch(Cached) = "check" => Live(Cached) /\ Cached.finalizer
        /\ Branch(Cached) = "clean" => Cached.deleting /\ Cached.finalizer
    BY <1>8, Basics DEF Branch, Live, Exists, Object
  <2>3. TypeOK'
    <3>1. pc' \in Steps /\ read' \in 1 .. seen' /\ found' \in {"up"} \cup Outages
      BY <1>1, <2>1, <2>2, Basics DEF Steps, IInv, TypeOK
    <3>2. gauge' \in [Models -> {"none", "0", "1"}] /\ clients' \subseteq Keys
      BY <1>1 DEF IInv, TypeOK, process
    <3>. QED  BY <1>2, <1>3, <1>6, <3>1, <3>2 DEF IInv, TypeOK
  <2>4. RunOK'
    BY <1>2, <2>1, <2>2, Known DEF RunOK, Protects, Live, Exists
  <2>. QED  BY <1>2, <1>5, <2>3, <2>4 DEF IInv
<1>. QED  BY <1>7, <1>8

(* Adding the finalizer to the version that the server holds. *)
LEMMA AddShape ==
  ASSUME IInv, pc = "adopt", UpToDate(read)
  PROVE  LET o == [ep EXCEPT !.finalizer = TRUE]
         IN  /\ o \in Object /\ Continues(o) /\ o.finalizer = TRUE
             /\ ep = Server /\ Live(Server)
             /\ o.uid = Server.uid /\ o.spec = Server.spec /\ o.deleting = Server.deleting
<1>1. ep = Server /\ Live(Server) /\ ep \in Object
  BY Basics DEF UpToDate, ep, Server, IInv, RunOK
<1>. DEFINE o == [ep EXCEPT !.finalizer = TRUE]
<1>2. /\ o \in Object /\ o.uid = Server.uid /\ o.spec = Server.spec /\ o.finalizer = TRUE
      /\ o.deleting = Server.deleting /\ o.status = Server.status
  BY <1>1 DEF Object
<1>. HIDE DEF o
<1>3. VersionOK(o)
  BY <1>1, <1>2, Known DEF VersionOK, Accepted, Live, Exists
<1>4. \A i \in seen .. Len(log) : Live(log[i]) /\ log[i].finalizer => o.uid = log[i].uid
  BY <1>2 DEF IInv, LogOK, Protects
<1>. QED  BY <1>1, <1>2, <1>3, <1>4 DEF o, Continues

LEMMA AddFinalizerOK == ASSUME IInv, AddFinalizer PROVE IInv'
<1>1. CASE UpToDate(read) /\ log' = Written([ep EXCEPT !.finalizer = TRUE])
             /\ UNCHANGED faults
  <2>. DEFINE o == [ep EXCEPT !.finalizer = TRUE]
  <2>1. o \in Object /\ Continues(o) /\ o.finalizer
    BY <1>1, AddShape DEF AddFinalizer
  <2>2. /\ End /\ log' = Written(o) /\ UNCHANGED <<process, service, health>>
        /\ timer' \in BOOLEAN /\ UNCHANGED <<seen, queued, edits, faults>>
    BY <1>1 DEF AddFinalizer, EndRequeued
  <2>. HIDE DEF o
  <2>. QED  BY <2>1, <2>2, EndsWriting
<1>2. CASE log' = log
  BY <1>2, EndsQuietly DEF AddFinalizer
<1>. QED  BY <1>1, <1>2 DEF AddFinalizer

(* A step between two calls that may acquire something for the object the  *)
(* run has read, which the server then guards.                             *)
LEMMA Acquiring ==
  ASSUME IInv, Server.finalizer, Exists(ep), UNCHANGED log,
         \A k \in clients' : k \in clients \/ k = ep.spec.key,
         \A m \in Models : gauge'[m] # "none" => gauge[m] # "none" \/ m = ep.spec.model
  PROVE  HeldOK' /\ EmptyHanded'
<1>1. Server' = Server
  BY DEF Server
<1>2. EmptyHanded'
  BY <1>1 DEF EmptyHanded
<1>3. ep = log[read] /\ read \in 1 .. Len(log)
  BY Basics DEF ep
<1>4. ASSUME NEW k \in clients'
      PROVE  \E i \in 1 .. Len(log) : Exists(log[i]) /\ log[i].spec.key = k
  <2>1. CASE k \in clients
    BY <2>1 DEF IInv, HeldOK
  <2>2. CASE k = ep.spec.key
    BY <1>3, <2>2
  <2>. QED  BY <1>4, <2>1, <2>2
<1>5. ASSUME NEW m \in Models, gauge'[m] # "none"
      PROVE  \E i \in 1 .. Len(log) : Exists(log[i]) /\ log[i].spec.model = m
  <2>1. CASE gauge[m] # "none"
    BY <2>1 DEF IInv, HeldOK
  <2>2. CASE m = ep.spec.model
    BY <1>3, <2>2
  <2>. QED  BY <1>5, <2>1, <2>2
<1>6. HeldOK'
  BY <1>4, <1>5 DEF HeldOK
<1>. QED  BY <1>2, <1>6

LEMMA HealthCheckOK == ASSUME IInv, HealthCheck PROVE IInv'
<1>1. /\ pc = "check" /\ pc' = "service" /\ clients' = clients \cup {ep.spec.key}
      /\ log' = log /\ seen' = seen /\ read' = read
      /\ UNCHANGED <<queued, timer, edits, gauge, svc, svcSeen, health>>
      /\ found' \in {"up"} \cup Outages
  BY DEF HealthCheck, Continue, service, IInv, TypeOK
<1>2. Live(ep) /\ Server.uid = ep.uid /\ Server.finalizer
  BY <1>1 DEF IInv, RunOK
<1>3. Server' = Server /\ LogOK' /\ ep' = ep
  BY <1>1, Stay, Basics DEF ep
<1>4. HeldOK' /\ EmptyHanded'
  BY <1>1, <1>2, Acquiring DEF Live
<1>5. TypeOK'
  <2>1. faults' \in 0 .. MaxFaults
    BY EndpointAssumption DEF HealthCheck, Fault, IInv, TypeOK, ApiTypeOK
  <2>2. ApiTypeOK'
    BY <1>1, <2>1 DEF IInv, TypeOK, ApiTypeOK
  <2>3. clients' \subseteq Keys
    BY <1>1, Basics, SpecType DEF IInv, TypeOK
  <2>. QED  BY <1>1, <1>3, <2>2, <2>3 DEF IInv, TypeOK, Steps
<1>6. RunOK'
  BY <1>1, <1>2, <1>3 DEF RunOK
<1>. QED  BY <1>4, <1>5, <1>6, <1>3 DEF IInv

LEMMA ReconcileServiceOK == ASSUME IInv, ReconcileService PROVE IInv'
<1>0. CreateOrUpdate => svc' \in Service
  <2>1. svc \in Service /\ ep.uid \in Nat
    BY Basics DEF IInv, TypeOK, Object
  <2>2. Wanted \in Service /\ [svc EXCEPT !.right = TRUE] \in Service
    BY <2>1 DEF Wanted, Service
  <2>. QED  BY <2>1, <2>2 DEF CreateOrUpdate
<1>1. CASE /\ CreateOrUpdate
           /\ gauge' = [gauge EXCEPT ![ep.spec.model] = IF found = "up" THEN "1" ELSE "0"]
           /\ Continue("patch") /\ UNCHANGED <<faults, found>>
  <2>1. /\ pc = "service" /\ pc' = "patch" /\ log' = log /\ seen' = seen /\ read' = read
        /\ UNCHANGED <<queued, timer, edits, faults, found, clients, svcSeen, health>>
    BY <1>1 DEF ReconcileService, Continue
  <2>2. Live(ep) /\ Server.uid = ep.uid /\ Server.finalizer
    BY <2>1 DEF IInv, RunOK
  <2>3. Server' = Server /\ LogOK' /\ ep' = ep
    BY <2>1, Stay, Basics DEF ep
  <2>4. /\ gauge' \in [Models -> {"none", "0", "1"}]
        /\ \A m \in Models : m # ep.spec.model => gauge'[m] = gauge[m]
    <3>1. gauge \in [Models -> {"none", "0", "1"}] /\ ep.spec.model \in Models
      BY Basics, SpecType DEF IInv, TypeOK
    <3>. QED  BY <1>1, <3>1
  <2>5. HeldOK' /\ EmptyHanded'
    BY <2>1, <2>2, <2>4, Acquiring DEF Live
  <2>6. svc' \in Service
    BY <1>0, <1>1
  <2>7. TypeOK'
    <3>1. ApiTypeOK'
      BY <2>1 DEF IInv, TypeOK, ApiTypeOK
    <3>. QED  BY <2>1, <2>3, <2>4, <2>6, <3>1 DEF IInv, TypeOK, Steps
  <2>8. RunOK'
    BY <2>1, <2>2, <2>3 DEF RunOK
  <2>. QED  BY <2>3, <2>5, <2>7, <2>8 DEF IInv
<1>2. CASE /\ \/ Conflict /\ UNCHANGED <<svc, faults>>
              \/ Fault /\ (UNCHANGED svc \/ CreateOrUpdate)
           /\ EndRequeued /\ UNCHANGED <<log, gauge>>
  <2>1. svc' \in Service /\ (UNCHANGED faults \/ Fault)
    BY <1>0, <1>2 DEF IInv, TypeOK
  <2>2. UNCHANGED <<process, svcSeen, health>> /\ EndRequeued /\ log' = log
    BY <1>2 DEF ReconcileService, process
  <2>. QED  BY <2>1, <2>2, EndsWithService
<1>. QED  BY <1>1, <1>2 DEF ReconcileService

(* The patch changes the status only. *)
LEMMA PatchedShape ==
  ASSUME IInv, pc = "patch"
  PROVE  /\ Patched \in Object /\ Server.finalizer
         /\ Patched.uid = Server.uid /\ Patched.spec = Server.spec
         /\ Patched.deleting = Server.deleting /\ Patched.finalizer = Server.finalizer
<1>1. /\ Server \in Object /\ ep \in Object /\ Server.finalizer
      /\ found \in {"up"} \cup Outages
  BY Basics DEF IInv, RunOK, TypeOK
<1>2. /\ Outcome.available \in {"True", "False"} /\ Outcome.cond \in {"up"} \cup Outages
      /\ Outcome.service \in BOOLEAN /\ Outcome.obs \in Nat
  BY <1>1 DEF Outcome, Object
<1>3. Server.status \in EndpointStatus
  BY <1>1 DEF Object
<1>. DEFINE st == [available |-> Merged(Server.status.available,
                                        AsBool(ep.status.available), Outcome.available),
                   cond |-> Merged(Server.status.cond, ep.status.cond, Outcome.cond),
                   service |-> Merged(Server.status.service, ep.status.service,
                                      Outcome.service),
                   obs |-> Merged(Server.status.obs, ep.status.obs, Outcome.obs)]
<1>4. st \in EndpointStatus
  <2>1. /\ Server.status.available \in {"Unset", "True", "False"}
        /\ Server.status.cond \in {"Unset", "up"} \cup Outages
        /\ Server.status.service \in BOOLEAN /\ Server.status.obs \in Nat
    BY <1>3 DEF EndpointStatus
  <2>2. /\ Merged(Server.status.available, AsBool(ep.status.available), Outcome.available)
             \in {"Unset", "True", "False"}
        /\ Merged(Server.status.cond, ep.status.cond, Outcome.cond)
             \in {"Unset", "up"} \cup Outages
    BY <1>2, <2>1 DEF Merged
  <2>3. /\ Merged(Server.status.service, ep.status.service, Outcome.service) \in BOOLEAN
        /\ Merged(Server.status.obs, ep.status.obs, Outcome.obs) \in Nat
    BY <1>2, <2>1 DEF Merged
  <2>. QED  BY <2>2, <2>3 DEF EndpointStatus
<1>5. Patched = [Server EXCEPT !.status = st]
  BY DEF Patched
<1>. HIDE DEF st
<1>. QED  BY <1>1, <1>4, <1>5 DEF Object

LEMMA PatchStatusOK == ASSUME IInv, PatchStatus PROVE IInv'
<1>1. CASE Accepted(Patched) /\ log' = Written(Patched) /\ UNCHANGED faults
  <2>1. /\ Patched \in Object /\ Patched.finalizer
        /\ Patched.uid = Server.uid /\ Patched.deleting = Server.deleting
    BY PatchedShape DEF PatchStatus
  <2>2. Continues(Patched)
    <3>1. VersionOK(Patched)
      BY <1>1, <2>1, Known, PatchedShape DEF VersionOK, PatchStatus
    <3>2. \A i \in seen .. Len(log) :
             Live(log[i]) /\ log[i].finalizer => Patched.uid = log[i].uid
      BY <2>1 DEF IInv, LogOK, Protects
    <3>. QED  BY <2>1, <3>1, <3>2 DEF Continues
  <2>3. /\ End /\ UNCHANGED <<process, service, health>>
        /\ timer' \in BOOLEAN /\ UNCHANGED <<seen, queued, edits, faults>>
    BY <1>1 DEF PatchStatus, EndRequeued
  <2>. QED  BY <1>1, <2>1, <2>2, <2>3, EndsWriting
<1>2. CASE log' = log
  BY <1>2, EndsQuietly DEF PatchStatus
<1>. QED  BY <1>1, <1>2 DEF PatchStatus

LEMMA CleanUpOK == ASSUME IInv, CleanUp PROVE IInv'
<1>1. /\ pc = "clean" /\ pc' = "release" /\ log' = log /\ seen' = seen /\ read' = read
      /\ clients' = clients \ {ep.spec.key}
      /\ gauge' = [gauge EXCEPT ![ep.spec.model] = "none"]
      /\ UNCHANGED <<queued, timer, edits, faults, found, svc, svcSeen, health>>
  BY DEF CleanUp, Continue, service
<1>2. gauge \in [Models -> {"none", "0", "1"}] /\ ep.spec.model \in Models
  BY Basics, SpecType DEF IInv, TypeOK
<1>3. Shrinks /\ gauge'[ep.spec.model] = "none" /\ ep.spec.key \notin clients'
  BY <1>1, <1>2 DEF Shrinks
<1>4. Server' = Server /\ LogOK' /\ ep' = ep /\ Grows
  BY <1>1, Stay, Basics DEF ep
<1>5. HeldOK' /\ EmptyHanded'
  BY <1>3, <1>4, HeldStays, EmptyStays
<1>6. TypeOK'
  <2>1. ApiTypeOK'
    BY <1>1 DEF IInv, TypeOK, ApiTypeOK
  <2>2. gauge' \in [Models -> {"none", "0", "1"}] /\ clients' \subseteq Keys
    BY <1>1, <1>3 DEF Shrinks, IInv, TypeOK
  <2>. QED  BY <1>1, <1>4, <2>1, <2>2 DEF IInv, TypeOK, Steps
<1>7. RunOK'
  BY <1>1, <1>3, <1>4 DEF IInv, RunOK
<1>. QED  BY <1>4, <1>5, <1>6, <1>7 DEF IInv

(* Removing the finalizer from the version that the server holds: the run  *)
(* has just cleaned up for this very version.                              *)
LEMMA ReleaseShape ==
  ASSUME IInv, pc = "release", UpToDate(read)
  PROVE  LET o == Collected([ep EXCEPT !.finalizer = FALSE])
         IN  /\ o \in Object /\ Continues(o) /\ ep = Server /\ Exists(Server)
             /\ Server.deleting /\ Server.finalizer /\ ~o.finalizer
             /\ \/ o.uid = Server.uid /\ o.deleting /\ o.spec = Server.spec
                \/ o = Gone
<1>1. /\ ep = Server /\ ep \in Object /\ Server.deleting /\ Server.finalizer
      /\ seen = Len(log) /\ log[seen] = Server /\ VersionOK(Server) /\ Len(log) \in Nat
  BY Basics, Known DEF UpToDate, ep, Server, IInv, RunOK
<1>. DEFINE p == [ep EXCEPT !.finalizer = FALSE]
            o == Collected(p)
<1>2. /\ p \in Object /\ p.uid = Server.uid /\ p.finalizer = FALSE
      /\ p.deleting = Server.deleting /\ p.status = Server.status /\ p.spec = Server.spec
  BY <1>1 DEF Object
<1>. HIDE DEF p
<1>3. o \in Object /\ (o = p \/ o = Gone)
  BY <1>2, CollectedShape
<1>4. \A i \in seen .. Len(log) : ~(Live(log[i]) /\ log[i].finalizer)
  BY <1>1 DEF Live
<1>5. Server.uid # 0
  BY <1>1 DEF VersionOK
<1>6. Continues(p)
  BY <1>1, <1>2, <1>4, <1>5 DEF Continues, VersionOK, Accepted
<1>7. Continues(Gone)
  BY <1>4, GoneType DEF Continues
<1>8. /\ o \in Object /\ Continues(o) /\ ~o.finalizer
      /\ (o.uid = Server.uid /\ o.deleting /\ o.spec = Server.spec) \/ o = Gone
  BY <1>1, <1>2, <1>3, <1>6, <1>7, GoneType
<1>. QED  BY <1>1, <1>5, <1>8 DEF o, p, Exists

LEMMA RemoveFinalizerOK == ASSUME IInv, RemoveFinalizer PROVE IInv'
<1>1. CASE /\ UpToDate(read)
           /\ log' = Written(Collected([ep EXCEPT !.finalizer = FALSE]))
           /\ End /\ UNCHANGED <<seen, queued, timer, edits, faults>>
  <2>. DEFINE o == Collected([ep EXCEPT !.finalizer = FALSE])
  <2>1. /\ o \in Object /\ Continues(o) /\ ep = Server /\ Exists(Server)
        /\ Server.finalizer /\ ~o.finalizer
    BY <1>1, ReleaseShape DEF RemoveFinalizer
  <2>2. /\ log' = Written(o) /\ End /\ UNCHANGED <<process, service, health>>
        /\ timer' \in BOOLEAN /\ UNCHANGED <<seen, queued, edits, faults>>
    BY <1>1 DEF RemoveFinalizer, IInv, TypeOK, ApiTypeOK
  <2>. HIDE DEF o
  <2>3. Grows
    BY <2>1, <2>2, Extend DEF Written
  <2>4. EmptyHanded'
    <3>. SUFFICES ASSUME Unedited' PROVE Empty'
      BY DEF EmptyHanded
    <3>1. \A i \in 1 .. Len(log) : Exists(log[i]) => log[i].spec = ep.spec
      <4>1. Unedited
        BY <2>3, Basics DEF Unedited, Grows, Exists
      <4>. QED  BY <2>1, <4>1, Basics DEF Unedited, Server
    <3>2. ep.spec.key \notin clients /\ gauge[ep.spec.model] = "none"
      BY DEF RemoveFinalizer, IInv, RunOK
    <3>3. clients = {}
      BY <3>1, <3>2 DEF IInv, HeldOK
    <3>4. \A m \in Models : gauge[m] = "none"
      BY <3>1, <3>2 DEF IInv, HeldOK
    <3>. QED  BY <2>2, <3>3, <3>4 DEF Empty, process
  <2>. QED  BY <2>1, <2>2, <2>4, EndsWriting
<1>2. CASE EndRequeued /\ log' = log
  BY <1>2, EndsQuietly DEF RemoveFinalizer
<1>. QED  BY <1>1, <1>2 DEF RemoveFinalizer

LEMMA CrashOK == ASSUME IInv, Crash PROVE IInv'
<1>1. /\ log' = log /\ seen' \in seen .. Len(log) /\ End
      /\ clients' = {} /\ gauge' = [m \in Models |-> "none"]
      /\ svcSeen' = svc /\ svc' = svc /\ health' = health
  BY DEF Crash, Relist
<1>2. LogOK' /\ Grows /\ Server' = Server
  BY <1>1, Stay
<1>3. ApiTypeOK'
  <2>1. queued' \in BOOLEAN /\ timer' \in BOOLEAN
    BY DEF Crash, Relist, Exists
  <2>2. edits' \in 0 .. MaxEdits /\ faults' \in 0 .. MaxFaults
    BY EndpointAssumption DEF IInv, TypeOK, ApiTypeOK, Crash, Relist, Fault
  <2>3. log' \in Seq(Object) /\ Len(log') > 0 /\ seen' \in 1 .. Len(log')
    BY <1>1, Basics
  <2>. QED  BY <2>1, <2>2, <2>3 DEF ApiTypeOK
<1>4. Shrinks
  BY <1>1 DEF Shrinks
<1>5. EmptyHanded'
  BY <1>2, <1>4, EmptyStays
<1>. QED  BY <1>1, <1>2, <1>3, <1>4, <1>5, Ended DEF IInv, TypeOK

LEMMA NextKeeps == IInv /\ [Next]_vars => IInv'
<1>. SUFFICES ASSUME IInv, [Next]_vars PROVE IInv'
  OBVIOUS
<1>1. CASE UNCHANGED vars
  BY <1>1
  DEF vars, apiVars, worker, process, service, IInv, TypeOK, ApiTypeOK, LogOK, RunOK,
      HeldOK, EmptyHanded, Unedited, Empty, VersionOK, Accepted, Protects, Server, ep
<1>. QED
  BY <1>1, ReconcileOK, AddFinalizerOK, HealthCheckOK, ReconcileServiceOK, PatchStatusOK,
     CleanUpOK, RemoveFinalizerOK, UserOK, OthersOK, CrashOK
  DEF Next, Worker, Api

LEMMA Invariance == Spec => []IInv
BY InitOK, NextKeeps, PTL DEF Spec

(* A status the API server holds always says whether the model is          *)
(* available, or says nothing at all, although its fields are merged one   *)
(* by one by patches that name no version                                  *)
(* (modelendpoint_controller.go:98-157).                                   *)
THEOREM TypeCorrect == Spec => []TypeOK
<1>1. IInv => TypeOK
  BY DEF IInv
<1>. QED  BY <1>1, Invariance, PTL

(* The deletion of an endpoint that was never edited leaves neither series *)
(* nor clients in the process, whatever versions the runs had read and     *)
(* wherever they failed or the process died                                *)
(* (modelendpoint_controller.go:71-187).                                   *)
THEOREM NothingLeft == Spec => []NothingLeftBehind
<1>1. IInv => NothingLeftBehind
  <2>. SUFFICES ASSUME IInv, ~Exists(Server), Unedited PROVE Empty
    BY DEF NothingLeftBehind, Unedited, Empty
  <2>1. ~Server.finalizer
    BY Known DEF VersionOK, Exists
  <2>. QED  BY <2>1 DEF IInv, EmptyHanded
<1>. QED  BY <1>1, Invariance, PTL


-----------------------------------------------------------------------------
(***************************************************************************)
(* The refinement: each step is one of the abstract object's, or leaves it *)
(* alone.                                                                  *)
(***************************************************************************)
AbstractStep == [Promised!AbstractNext]_(Promised!objectVars)

LEMMA CleanType == Clean \in BOOLEAN /\ Clean' \in BOOLEAN
BY DEF Clean

(* Nothing is acquired, and the server's object stays. *)
LEMMA Cleaner ==
  ASSUME Server' = Server, Clean => Clean'
  PROVE  AbstractStep
<1>1. Phase' = Phase
  BY DEF Phase, Live, Exists
<1>2. CASE Clean'
  BY <1>1, <1>2 DEF AbstractStep, Promised!AbstractNext, Promised!CleanAway
<1>3. CASE ~Clean'
  <2>1. Clean' = Clean
    BY <1>3, CleanType
  <2>. QED  BY <1>1, <2>1 DEF AbstractStep, Promised!objectVars
<1>. QED  BY <1>2, <1>3

(* Under the finalizer the process may come to hold more, or less. *)
LEMMA Acquires ==
  ASSUME Server.finalizer, Server'.uid = Server.uid, Server'.spec = Server.spec,
         Server'.deleting = Server.deleting, Server'.finalizer = Server.finalizer
  PROVE  AbstractStep
<1>1. Phase' = Phase
  BY DEF Phase, Live, Exists
<1>2. CASE Clean'
  BY <1>1, <1>2 DEF AbstractStep, Promised!AbstractNext, Promised!CleanAway
<1>3. CASE Clean /\ ~Clean'
  BY <1>1, <1>3 DEF AbstractStep, Promised!AbstractNext, Promised!Acquire
<1>4. CASE ~Clean /\ ~Clean'
  <2>1. Clean' = Clean
    BY <1>4, CleanType
  <2>. QED  BY <1>1, <2>1 DEF AbstractStep, Promised!objectVars
<1>. QED  BY <1>2, <1>3, <1>4

(* A write that leaves incarnation, spec and finalizer alone may begin the *)
(* deletion of a live object.                                              *)
LEMMA Remains ==
  ASSUME Server \in Object, Server' \in Object, UNCHANGED process,
         Server'.uid = Server.uid, Server'.spec = Server.spec,
         Server'.finalizer = Server.finalizer, Server.deleting => Server'.deleting,
         ~Exists(Server) => Server'.deleting = Server.deleting
  PROVE  AbstractStep
<1>1. Server.deleting \in BOOLEAN /\ Server'.deleting \in BOOLEAN
  BY DEF Object
<1>2. Clean' = Clean
  BY DEF Clean, Exists, process
<1>3. CASE Server'.deleting = Server.deleting
  <2>1. Phase' = Phase
    BY <1>3 DEF Phase, Live, Exists
  <2>. QED  BY <1>2, <2>1 DEF AbstractStep, Promised!objectVars
<1>4. CASE Exists(Server) /\ ~Server.deleting /\ Server'.deleting
  <2>1. Phase = "live" /\ Phase' = "deleting"
    BY <1>4 DEF Phase, Live, Exists
  <2>. QED
    BY <1>2, <2>1 DEF AbstractStep, Promised!AbstractNext, Promised!BeginDeletion
<1>. QED  BY <1>1, <1>3, <1>4

LEMMA Changes ==
  ASSUME Exists(Server), Server'.uid = Server.uid, Server'.spec # Server.spec,
         Server'.finalizer = Server.finalizer, Server'.deleting = Server.deleting
  PROVE  AbstractStep
<1>1. Phase' = Phase /\ Phase # "absent"
  BY DEF Phase, Live, Exists
<1>. QED  BY <1>1, CleanType DEF AbstractStep, Promised!AbstractNext, Promised!Change

LEMMA Appears ==
  ASSUME ~Exists(Server), Live(Server'), ~Server'.finalizer
  PROVE  AbstractStep
<1>1. Phase = "absent" /\ Phase' = "live"
  BY DEF Phase, Live, Exists
<1>. QED  BY <1>1, CleanType DEF AbstractStep, Promised!AbstractNext, Promised!Appear

(* The object vanishes with its last finalizer; when this is the           *)
(* operator's, nothing is left to clean.                                   *)
LEMMA Vanishes ==
  ASSUME Exists(Server), Server.finalizer => Server.deleting /\ Clean,
         ~Exists(Server'), ~Server'.finalizer
  PROVE  AbstractStep
<1>1. /\ Phase \in {"live", "deleting"} /\ Phase' = "absent"
      /\ Server.finalizer => Phase = "deleting"
  BY DEF Phase, Live, Exists
<1>2. Promised!Vanished
  BY <1>1 DEF Promised!Vanished, Clean
<1>. QED
  BY <1>1, <1>2
  DEF AbstractStep, Promised!AbstractNext, Promised!BeginDeletion, Promised!Vanish,
      Promised!Release

LEMMA UserRefines == ASSUME IInv, User, UNCHANGED process PROVE AbstractStep
<1>1. PICK o \in Object : log' = Append(log, o) /\ (KeepsObject(o) \/ Replaces(o))
  BY UserShape DEF UserStep
<1>2. Server' = o /\ Server \in Object
  BY <1>1, Basics, AppendProperties DEF Server
<1>3. CASE KeepsObject(o)
  <2>1. CASE o.spec = Server.spec
    BY <1>2, <1>3, <2>1, Remains DEF KeepsObject
  <2>2. CASE o.spec # Server.spec
    BY <1>2, <1>3, <2>2, Changes DEF KeepsObject
  <2>. QED  BY <2>1, <2>2
<1>4. CASE Replaces(o)
  <2>1. Len(log) + 1 # 0 /\ ~Server.finalizer /\ ~o.finalizer /\ ~o.deleting
    BY <1>4, Basics DEF Replaces
  <2>2. CASE o.uid = 0 /\ Exists(Server)
    BY <1>2, <2>1, <2>2, Vanishes DEF Exists
  <2>3. CASE o.uid = Len(log) + 1 /\ ~Exists(Server)
    BY <1>2, <2>1, <2>3, Appears DEF Live, Exists
  <2>. QED  BY <1>4, <2>2, <2>3 DEF Replaces
<1>. QED  BY <1>1, <1>3, <1>4

(* A step that writes nothing and takes nothing. *)
LEMMA Silent == ASSUME log' = log, UNCHANGED process PROVE AbstractStep
<1>1. Server' = Server
  BY DEF Server
<1>2. Clean' = Clean
  BY <1>1 DEF Clean, process
<1>. QED  BY <1>1, <1>2, Cleaner

LEMMA WrittenIs ==
  ASSUME IInv, NEW o \in Object, log' = Written(o)
  PROVE  Server' = o /\ Server \in Object
BY Basics, AppendProperties DEF Written, Server

(* The finalizer goes to the live version the server holds, or it is there *)
(* already.                                                                *)
LEMMA AddFinalizerRefines == ASSUME IInv, AddFinalizer PROVE AbstractStep
<1>. UNCHANGED process
  BY DEF AddFinalizer
<1>1. CASE UpToDate(read) /\ log' = Written([ep EXCEPT !.finalizer = TRUE])
  <2>. DEFINE o == [ep EXCEPT !.finalizer = TRUE]
  <2>1. /\ o \in Object /\ Live(Server) /\ o.finalizer = TRUE
        /\ o.uid = Server.uid /\ o.spec = Server.spec /\ o.deleting = Server.deleting
    BY <1>1, AddShape DEF AddFinalizer
  <2>. HIDE DEF o
  <2>2. Server' = o /\ Server \in Object
    BY <1>1, <2>1, WrittenIs DEF o
  <2>3. CASE Server.finalizer = TRUE
    BY <2>1, <2>2, <2>3, Remains DEF Live
  <2>4. CASE Server.finalizer = FALSE
    <3>1. Phase = "live" /\ Phase' = "live" /\ Clean' = Clean
      BY <2>1, <2>2 DEF Phase, Live, Exists, Clean, process
    <3>. QED
      BY <2>1, <2>2, <2>4, <3>1 DEF AbstractStep, Promised!AbstractNext, Promised!Guard
  <2>5. Server.finalizer \in BOOLEAN
    BY <2>2 DEF Object
  <2>. QED  BY <2>3, <2>4, <2>5
<1>2. CASE log' = log
  BY <1>2, Silent
<1>. QED  BY <1>1, <1>2 DEF AddFinalizer

(* Clients and series are made between two calls of a run that has found   *)
(* the endpoint guarded.                                                   *)
LEMMA AcquiringRefines ==
  ASSUME IInv, HealthCheck \/ ReconcileService
  PROVE  AbstractStep
<1>1. Server.finalizer /\ log' = log
  BY DEF HealthCheck, ReconcileService, Continue, IInv, RunOK
<1>2. Server' = Server
  BY <1>1 DEF Server
<1>. QED  BY <1>1, <1>2, Acquires

LEMMA CleanUpRefines == ASSUME IInv, CleanUp PROVE AbstractStep
<1>1. /\ log' = log /\ clients' = clients \ {ep.spec.key}
      /\ gauge' = [gauge EXCEPT ![ep.spec.model] = "none"]
  BY DEF CleanUp, Continue
<1>2. Server' = Server
  BY <1>1 DEF Server
<1>3. gauge \in [Models -> {"none", "0", "1"}] /\ Server.spec.model \in Models
  BY Basics, SpecType DEF IInv, TypeOK
<1>4. Clean => Clean'
  BY <1>1, <1>2, <1>3 DEF Clean, Exists
<1>. QED  BY <1>2, <1>4, Cleaner

LEMMA CrashRefines == ASSUME IInv, Crash PROVE AbstractStep
<1>1. log' = log /\ clients' = {} /\ gauge' = [m \in Models |-> "none"]
  BY DEF Crash, Relist
<1>2. Server' = Server /\ Server.spec.model \in Models
  BY <1>1, Basics, SpecType DEF Server
<1>3. Clean'
  BY <1>1, <1>2 DEF Clean
<1>. QED  BY <1>2, <1>3, Cleaner

LEMMA PatchStatusRefines == ASSUME IInv, PatchStatus PROVE AbstractStep
<1>. UNCHANGED process
  BY DEF PatchStatus
<1>1. CASE log' = Written(Patched)
  <2>1. /\ Patched \in Object /\ Patched.uid = Server.uid /\ Patched.spec = Server.spec
        /\ Patched.deleting = Server.deleting /\ Patched.finalizer = Server.finalizer
    BY PatchedShape DEF PatchStatus
  <2>2. Server' = Patched /\ Server \in Object
    BY <1>1, <2>1, WrittenIs
  <2>. QED  BY <2>1, <2>2, Remains
<1>2. CASE log' = log
  BY <1>2, Silent
<1>. QED  BY <1>1, <1>2 DEF PatchStatus

(* The finalizer leaves the version that has just been cleaned up; with no *)
(* other finalizer the object goes too.                                    *)
LEMMA RemoveFinalizerRefines == ASSUME IInv, RemoveFinalizer PROVE AbstractStep
<1>. UNCHANGED process
  BY DEF RemoveFinalizer
<1>1. CASE UpToDate(read) /\ log' = Written(Collected([ep EXCEPT !.finalizer = FALSE]))
  <2>. DEFINE o == Collected([ep EXCEPT !.finalizer = FALSE])
  <2>1. /\ o \in Object /\ Server.deleting /\ Server.finalizer /\ ~o.finalizer
        /\ ep = Server /\ Exists(Server)
        /\ \/ o.uid = Server.uid /\ o.deleting /\ o.spec = Server.spec
           \/ o = Gone
    BY <1>1, ReleaseShape DEF RemoveFinalizer
  <2>2. Clean
    BY <2>1 DEF RemoveFinalizer, IInv, RunOK, Clean
  <2>. HIDE DEF o
  <2>3. Server' = o
    BY <1>1, <2>1, WrittenIs DEF o
  <2>4. CASE o = Gone
    BY <2>1, <2>2, <2>3, <2>4, GoneType, Vanishes DEF Exists
  <2>5. CASE o.uid = Server.uid /\ o.deleting /\ o.spec = Server.spec
    <3>1. Phase = "deleting" /\ Phase' = "deleting" /\ Clean' = Clean
      BY <2>1, <2>3, <2>5 DEF Phase, Live, Exists, Clean, process
    <3>. QED
      BY <2>1, <2>2, <2>3, <2>5, <3>1
      DEF AbstractStep, Promised!AbstractNext, Promised!Release
  <2>. QED  BY <2>1, <2>4, <2>5
<1>2. CASE log' = log
  BY <1>2, Silent
<1>. QED  BY <1>1, <1>2 DEF RemoveFinalizer

LEMMA StepRefines == IInv /\ [Next]_vars => AbstractStep
<1>. SUFFICES ASSUME IInv, [Next]_vars PROVE AbstractStep
  OBVIOUS
<1>1. CASE \/ Reconcile \/ UserService \/ GarbageCollect \/ DeliverService
           \/ HealthChanges \/ UNCHANGED vars
           \/ (Deliver \/ TimerFires) /\ UNCHANGED process
  <2>1. log' = log /\ UNCHANGED process
    BY <1>1
    DEF Reconcile, UserService, GarbageCollect, DeliverService, HealthChanges, Deliver,
        TimerFires, vars, apiVars
  <2>. QED  BY <2>1, Silent
<1>. QED
  BY <1>1, AddFinalizerRefines, AcquiringRefines, PatchStatusRefines, CleanUpRefines,
     RemoveFinalizerRefines, UserRefines, CrashRefines
  DEF Next, Worker, Api

LEMMA InitRefines == Init => Promised!AbstractInit
<1>. SUFFICES ASSUME Init PROVE Promised!AbstractInit
  OBVIOUS
<1>1. Server = Gone /\ Gone.uid = 0 /\ Gone.finalizer = FALSE
  BY DEF Init, ApiInit, Server, Gone
<1>2. Phase = "absent"
  BY <1>1 DEF Phase, Live, Exists
<1>3. Clean = TRUE
  BY <1>1 DEF Clean, Exists
<1>. QED  BY <1>1, <1>2, <1>3 DEF Promised!AbstractInit

(* The ModelEndpoint controller keeps the promise of its finalizer: only   *)
(* live endpoints get it, series and clients are made only under it, and   *)
(* it leaves a deleted endpoint only when there is neither for the model   *)
(* and the key of the version it leaves                                    *)
(* (modelendpoint_controller.go:71-91, 160-187).                           *)
THEOREM KeepsPromise == Spec => IsFinalizedObject
<1>1. Init => Promised!AbstractInit
  BY InitRefines
<1>2. IInv /\ [Next]_vars => [Promised!AbstractNext]_(Promised!objectVars)
  BY StepRefines DEF AbstractStep
<1>. QED
  BY <1>1, <1>2, Invariance, PTL DEF Spec, IsFinalizedObject, Promised!Promise

-----------------------------------------------------------------------------
(***************************************************************************)
(* What a run may do to the status.                                        *)
(*                                                                         *)
(* Generations grow from version to version of one incarnation, and the    *)
(* observed one is behind every version the cache may still come to hold:  *)
(* the next run can only start from a generation that is no older.         *)
(***************************************************************************)
GenOK ==
    \A i, j \in 1 .. Len(log) :
        i <= j /\ log[i].uid = log[j].uid /\ log[j].uid # 0 => log[i].gen <= log[j].gen

ObsOK ==
    Exists(Server) =>
        \A i \in seen .. Len(log) :
            log[i].uid = Server.uid => Server.status.obs <= log[i].gen

RunMoves == pc \in {"check", "service", "patch"} => Server.status.obs <= ep.gen

(* A new incarnation takes a uid that no version has. *)
UidOK == \A i \in 1 .. Len(log) : log[i].uid <= Len(log)

MovesInv == IInv /\ GenOK /\ ObsOK /\ UidOK /\ RunMoves

(* The numbers the comparisons are about. *)
LEMMA MovesTypes ==
  ASSUME IInv
  PROVE  /\ Server.status.obs \in Nat /\ ep.gen \in Nat /\ Server.gen \in Nat
         /\ \A i \in 1 .. Len(log) : log[i].gen \in Nat /\ log[i].uid \in Nat
BY Basics DEF Object, EndpointStatus

(* What a version that is appended is like: of no or of a new incarnation, *)
(* or one that goes on.                                                    *)
GoesOn(o) ==
    /\ o.uid = Server.uid /\ Exists(Server) /\ Server.gen <= o.gen
    /\ \/ o.status.obs = Server.status.obs
       \/ /\ Server.uid = ep.uid /\ Server.status.obs <= ep.gen
          /\ o.status.obs = ep.gen

Starts(o) == o.uid = 0 \/ (o.uid = Len(log) + 1 /\ o.status.obs = 0)

LEMMA AppendMoves ==
  ASSUME MovesInv, NEW o \in Object, log' = Append(log, o), seen' = seen,
         GoesOn(o) \/ Starts(o)
  PROVE  /\ GenOK' /\ ObsOK' /\ UidOK' /\ Server' = o
         /\ Exists(o) => o.status.obs <= o.gen
         /\ GoesOn(o) => Server.status.obs <= o.status.obs
<1>1. /\ log \in Seq(Object) /\ Len(log) \in Nat /\ Len(log) > 0
      /\ seen \in 1 .. Len(log) /\ read \in 1 .. seen
      /\ Server.status.obs \in Nat /\ ep.gen \in Nat /\ Server.gen \in Nat
      /\ \A i \in 1 .. Len(log) : log[i].gen \in Nat /\ log[i].uid \in Nat
      /\ ep = log[read] /\ Server = log[Len(log)]
  BY Basics, MovesTypes DEF MovesInv, ep, Server
<1>2. /\ Len(log') = Len(log) + 1 /\ log'[Len(log) + 1] = o
      /\ \A i \in 1 .. Len(log) : log'[i] = log[i]
  BY <1>1, AppendProperties
<1>3. Server' = o /\ o.gen \in Nat /\ o.status.obs \in Nat /\ o.uid \in Nat
  BY <1>2 DEF Server, Object, EndpointStatus
<1>4. \A i \in 1 .. Len(log) : log[i].uid <= Len(log)
  BY DEF MovesInv, UidOK
<1>5. ASSUME NEW i \in 1 .. Len(log), log[i].uid = o.uid, o.uid # 0
      PROVE  GoesOn(o) /\ log[i].gen <= o.gen
  <2>1. GoesOn(o)
    BY <1>1, <1>4, <1>5 DEF Starts
  <2>2. log[i].gen <= Server.gen
    BY <1>1, <1>5, <2>1 DEF MovesInv, GenOK, GoesOn
  <2>3. Server.gen <= o.gen /\ log[i].gen \in Nat /\ Server.gen \in Nat /\ o.gen \in Nat
    BY <1>1, <1>3, <2>1 DEF GoesOn
  <2>. QED  BY ONLY <2>1, <2>2, <2>3
<1>6. GenOK'
  <2>1. ASSUME NEW i \in 1 .. Len(log'), NEW j \in 1 .. Len(log'), i <= j,
               log'[i].uid = log'[j].uid, log'[j].uid # 0
        PROVE  log'[i].gen <= log'[j].gen
    <3>1. CASE j \in 1 .. Len(log)
      BY <1>1, <1>2, <2>1, <3>1 DEF MovesInv, GenOK
    <3>2. CASE j = Len(log) + 1 /\ i \in 1 .. Len(log)
      BY <1>2, <1>5, <2>1, <3>2
    <3>3. CASE j = Len(log) + 1 /\ i = j
      BY <1>2, <1>3, <3>3
    <3>. QED  BY <1>1, <1>2, <2>1, <3>1, <3>2, <3>3
  <2>. QED  BY <2>1 DEF GenOK
<1>7. GoesOn(o) => /\ o.status.obs <= o.gen /\ Server.status.obs <= o.status.obs
                   /\ \A i \in seen .. Len(log) :
                         log[i].uid = o.uid => o.status.obs <= log[i].gen
  <2>. SUFFICES ASSUME GoesOn(o)
                PROVE  /\ o.status.obs <= o.gen /\ Server.status.obs <= o.status.obs
                       /\ \A i \in seen .. Len(log) :
                             log[i].uid = o.uid => o.status.obs <= log[i].gen
    OBVIOUS
  <2>1. ASSUME NEW i \in seen .. Len(log), log[i].uid = o.uid
        PROVE  o.status.obs <= log[i].gen
    <3>1. CASE o.status.obs = Server.status.obs
      BY <2>1, <3>1 DEF MovesInv, ObsOK, GoesOn
    <3>2. CASE ep.uid = Server.uid /\ o.status.obs = ep.gen
      <4>1. read \in 1 .. Len(log) /\ i \in 1 .. Len(log) /\ read <= i
        BY <1>1
      <4>. QED  BY <1>1, <2>1, <3>2, <4>1 DEF MovesInv, GenOK, GoesOn, Exists
    <3>. QED  BY <3>1, <3>2 DEF GoesOn
  <2>2. o.status.obs <= Server.gen
    <3>1. Len(log) \in seen .. Len(log)
      BY <1>1
    <3>. QED  BY <1>1, <2>1, <3>1 DEF GoesOn
  <2>3. o.status.obs <= o.gen
    BY <1>1, <1>3, <2>2 DEF GoesOn
  <2>4. Server.status.obs <= o.status.obs
    BY <1>1, <1>3 DEF GoesOn
  <2>. QED  BY <2>1, <2>3, <2>4
<1>8. Starts(o) /\ Exists(o) => o.status.obs <= o.gen
  BY <1>3 DEF Starts, Exists
<1>9. ObsOK'
  <2>. SUFFICES ASSUME Exists(o), NEW i \in seen .. Len(log) + 1, log'[i].uid = o.uid
                PROVE  o.status.obs <= log'[i].gen
    BY <1>1, <1>2, <1>3 DEF ObsOK, Exists
  <2>1. CASE i = Len(log) + 1
    BY <1>2, <1>7, <1>8, <2>1
  <2>2. CASE i \in seen .. Len(log)
    <3>1. i \in 1 .. Len(log) /\ log'[i] = log[i]
      BY <1>1, <1>2, <2>2
    <3>. QED  BY <1>5, <1>7, <2>2, <3>1 DEF Exists
  <2>. QED  BY <1>1, <2>1, <2>2
<1>10. UidOK'
  <2>1. o.uid <= Len(log) + 1
    BY <1>1, <1>4 DEF GoesOn, Starts
  <2>. QED  BY <1>1, <1>2, <1>4, <2>1 DEF UidOK
<1>. QED  BY <1>3, <1>6, <1>7, <1>8, <1>9, <1>10

-----------------------------------------------------------------------------
(* What a step may do to the status of one incarnation; what has been said *)
(* of its availability and its Service stays said.                         *)
KeepsWord(o) ==
    /\ Server.status.available # "Unset" => o.status.available # "Unset"
    /\ Server.status.service => o.status.service

MovesOn ==
    Exists(Server) /\ Server'.uid = Server.uid =>
        /\ Server.status.obs <= Server'.status.obs
        /\ Server'.status.obs <= Server'.gen
        /\ Server.status.available # "Unset" => Server'.status.available # "Unset"
        /\ Server.status.service => Server'.status.service

Moves == MovesInv' /\ MovesOn

LEMMA StillOK ==
  ASSUME MovesInv, log' = log, seen' \in seen .. Len(log), IInv', RunMoves'
  PROVE  Moves
<1>1. Server' = Server
  BY DEF Server
<1>2. ObsOK' /\ GenOK' /\ UidOK'
  BY <1>1, Basics DEF ObsOK, GenOK, UidOK, MovesInv, Exists
<1>3. Exists(Server) => Server.status.obs <= Server.gen
  <2>1. Len(log) \in seen .. Len(log)
    BY Basics DEF MovesInv
  <2>. QED  BY <2>1 DEF MovesInv, ObsOK, Server
<1>4. MovesOn
  BY <1>1, <1>3, MovesTypes DEF MovesOn, MovesInv
<1>. QED  BY <1>2, <1>4 DEF Moves, MovesInv

LEMMA AppendOK ==
  ASSUME MovesInv, NEW o \in Object, log' = Append(log, o), seen' = seen, IInv', RunMoves',
         (GoesOn(o) /\ KeepsWord(o)) \/ Starts(o)
  PROVE  Moves
<1>1. /\ GenOK' /\ ObsOK' /\ UidOK' /\ Server' = o
      /\ Exists(o) => o.status.obs <= o.gen
      /\ GoesOn(o) => Server.status.obs <= o.status.obs
  BY AppendMoves
<1>2. Starts(o) => o.uid # Server.uid \/ ~Exists(Server)
  <2>1. Server.uid <= Len(log) /\ Server.uid \in Nat /\ Len(log) \in Nat
    BY Basics DEF MovesInv, UidOK, Object, Server
  <2>. QED  BY <2>1 DEF Starts, Exists
<1>3. MovesOn
  BY <1>1, <1>2 DEF MovesOn, KeepsWord, Exists
<1>. QED  BY <1>1, <1>3 DEF Moves, MovesInv

(* A run that has ended, or does not look at the template's spec, has      *)
(* nothing to move.                                                        *)
LEMMA RestingOK == ASSUME pc' \notin {"check", "service", "patch"} PROVE RunMoves'
BY DEF RunMoves

LEMMA UserMoves == ASSUME MovesInv, User, UNCHANGED <<worker, process, service, health>>, IInv' PROVE Moves
<1>1. PICK o \in Object : UserStep(o) /\ (KeepsObject(o) \/ Replaces(o))
  BY UserShape DEF MovesInv
<1>2. log' = Append(log, o) /\ seen' = seen
  BY <1>1 DEF UserStep
<1>3. Server' = o /\ ep' = ep
  BY <1>2, Basics, AppendProperties DEF Server, ep, worker, MovesInv
<1>4. RunMoves'
  <2>1. CASE pc \in {"check", "service", "patch"}
    <3>1. Server.finalizer
      BY <2>1 DEF MovesInv, IInv, RunOK
    <3>2. o.status = Server.status
      BY <1>1, <3>1 DEF KeepsObject, Replaces
    <3>. QED  BY <1>3, <3>2 DEF MovesInv, RunMoves, worker
  <2>2. CASE pc \notin {"check", "service", "patch"}
    BY <2>2, RestingOK DEF worker
  <2>. QED  BY <2>1, <2>2
<1>5. (GoesOn(o) /\ KeepsWord(o)) \/ Starts(o)
  BY <1>1 DEF KeepsObject, Replaces, GoesOn, KeepsWord, Starts, NoEndpoint
<1>. QED  BY <1>2, <1>4, <1>5, AppendOK

LEMMA UndisturbedOK ==
  ASSUME MovesInv, log' = log, seen' \in seen .. Len(log), IInv', UNCHANGED worker
  PROVE  Moves
<1>1. Server' = Server /\ ep' = ep
  BY DEF Server, ep, worker
<1>2. RunMoves'
  BY <1>1 DEF MovesInv, RunMoves, worker
<1>. QED  BY <1>2, StillOK

(* A run that begins has read a generation that is not older than the      *)
(* observed one.                                                           *)
LEMMA ReconcileMoves == ASSUME MovesInv, Reconcile, IInv' PROVE Moves
<1>1. /\ seen \in 1 .. Len(log) /\ Len(log) \in Nat /\ Cached \in Object
      /\ Protects(Cached)
  BY Basics, Known DEF MovesInv
<1>2. log' = log /\ seen' = seen /\ seen \in seen .. Len(log)
  BY <1>1 DEF Reconcile
<1>3. CASE pc' = "idle"
  BY <1>2, <1>3, RestingOK, StillOK
<1>4. CASE pc' = Branch(Cached) /\ read' = seen
  <2>1. /\ pc' \notin {"service", "patch"}
        /\ pc' = "check" => Live(Cached) /\ Cached.finalizer
    BY <1>1, <1>4 DEF Branch, Live, Exists, Object
  <2>2. Server' = Server /\ ep' = Cached
    BY <1>2, <1>4 DEF Server, ep, Cached
  <2>3. pc' = "check" => Server.status.obs <= Cached.gen
    BY <1>1, <1>2, <2>1 DEF Protects, Live, Exists, MovesInv, ObsOK, Cached
  <2>4. RunMoves'
    BY <2>1, <2>2, <2>3 DEF RunMoves
  <2>. QED  BY <1>2, <2>4, StillOK
<1>. QED  BY <1>3, <1>4 DEF Reconcile, End

(* A run that ends: it has written nothing, or a version that goes on. *)
LEMMA EndingOK ==
  ASSUME MovesInv, IInv', pc' = "idle", seen' = seen,
         \/ log' = log
         \/ \E o \in Object : /\ log' = Append(log, o)
                              /\ (GoesOn(o) /\ KeepsWord(o)) \/ Starts(o)
  PROVE  Moves
<1>1. RunMoves'
  BY RestingOK
<1>2. CASE log' = log
  <2>1. seen' \in seen .. Len(log)
    BY Basics DEF MovesInv
  <2>. QED  BY <1>1, <1>2, <2>1, StillOK
<1>. QED  BY <1>1, <1>2, AppendOK

LEMMA AddFinalizerMoves == ASSUME MovesInv, AddFinalizer, IInv' PROVE Moves
<1>. DEFINE o == [ep EXCEPT !.finalizer = TRUE]
<1>1. /\ pc' = "idle" /\ seen' = seen /\ Live(ep) /\ ep \in Object
      /\ log' = log \/ (log' = Append(log, o) /\ ep = Server)
  BY Basics DEF AddFinalizer, EndRequeued, End, Written, UpToDate, ep, Server,
                MovesInv, IInv, RunOK
<1>2. CASE log' = Append(log, o) /\ ep = Server
  <2>1. o \in Object /\ o.uid = Server.uid /\ o.gen = Server.gen /\ o.status = Server.status
    BY <1>1, <1>2 DEF Object
  <2>. HIDE DEF o
  <2>2. GoesOn(o) /\ KeepsWord(o)
    BY <1>1, <1>2, <2>1, MovesTypes DEF GoesOn, KeepsWord, Live, MovesInv
  <2>. QED  BY <1>1, <1>2, <2>1, <2>2, EndingOK
<1>. QED  BY <1>1, <1>2, EndingOK

(* The run goes on with the endpoint it has read. *)
LEMMA ContinuesMoves ==
  ASSUME MovesInv, IInv', pc \in {"check", "service"}, Continue(pc') PROVE Moves
<1>1. UNCHANGED <<log, seen, read>>
  BY DEF Continue
<1>2. Server' = Server /\ ep' = ep /\ seen' \in seen .. Len(log)
  BY <1>1, Basics DEF Server, ep, MovesInv
<1>3. RunMoves'
  BY <1>2 DEF MovesInv, RunMoves
<1>. QED  BY <1>1, <1>2, <1>3, StillOK

LEMMA HealthCheckMoves == ASSUME MovesInv, HealthCheck, IInv' PROVE Moves
BY ContinuesMoves DEF HealthCheck, Continue

LEMMA ReconcileServiceMoves == ASSUME MovesInv, ReconcileService, IInv' PROVE Moves
<1>1. CASE Continue("patch")
  BY <1>1, ContinuesMoves DEF ReconcileService, Continue
<1>2. CASE EndRequeued /\ UNCHANGED log
  BY <1>2, EndingOK DEF EndRequeued, End
<1>. QED  BY <1>1, <1>2 DEF ReconcileService

LEMMA CleanUpMoves == ASSUME MovesInv, CleanUp, IInv' PROVE Moves
<1>1. log' = log /\ seen' = seen /\ pc' = "release" /\ seen \in seen .. Len(log)
  BY Basics DEF CleanUp, Continue, MovesInv
<1>. QED  BY <1>1, RestingOK, StillOK

(* The patch carries the observed generation forward: to the one the run   *)
(* has read, or not at all.                                                *)
LEMMA PatchStatusMoves == ASSUME MovesInv, PatchStatus, IInv' PROVE Moves
<1>1. /\ pc' = "idle" /\ seen' = seen /\ pc = "patch"
      /\ log' = log \/ log' = Append(log, Patched)
  BY DEF PatchStatus, EndRequeued, End, Written
<1>2. CASE log' = Append(log, Patched)
  <2>1. /\ Server \in Object /\ ep \in Object /\ Live(ep) /\ Server.uid = ep.uid
        /\ Server.status.obs <= ep.gen
    BY <1>1, Basics DEF MovesInv, IInv, RunOK, RunMoves
  <2>2. Patched \in Object /\ Patched.uid = Server.uid
    BY <1>1, PatchedShape DEF MovesInv
  <2>3. /\ Patched.gen = Server.gen
        /\ Patched.status.obs = Merged(Server.status.obs, ep.status.obs, ep.gen)
        /\ Patched.status.service = Merged(Server.status.service, ep.status.service, TRUE)
        /\ Patched.status.available = Merged(Server.status.available,
                                             AsBool(ep.status.available), Outcome.available)
    BY <2>1 DEF Patched, Object, Outcome
  <2>4. GoesOn(Patched)
    BY <2>1, <2>2, <2>3, MovesTypes DEF GoesOn, Merged, Live, Exists, MovesInv
  <2>5. KeepsWord(Patched)
    BY <2>3 DEF KeepsWord, Merged, Outcome
  <2>. QED  BY <1>1, <1>2, <2>2, <2>4, <2>5, EndingOK
<1>. QED  BY <1>1, <1>2, EndingOK

LEMMA RemoveFinalizerMoves == ASSUME MovesInv, RemoveFinalizer, IInv' PROVE Moves
<1>. DEFINE d == [ep EXCEPT !.finalizer = FALSE]
<1>1. /\ pc' = "idle" /\ seen' = seen /\ ep \in Object
      /\ log' = log \/ (log' = Append(log, Collected(d)) /\ ep = Server)
  BY Basics DEF RemoveFinalizer, EndRequeued, End, Written, UpToDate, ep, Server, MovesInv
<1>2. CASE log' = Append(log, Collected(d)) /\ ep = Server
  <2>1. d \in Object /\ d.uid = Server.uid /\ d.gen = Server.gen /\ d.status = Server.status
    BY <1>1, <1>2 DEF Object
  <2>. HIDE DEF d
  <2>2. Collected(d) \in Object /\ (Collected(d) = d \/ Collected(d) = Gone)
    BY <2>1, CollectedShape
  <2>3. (GoesOn(Collected(d)) /\ KeepsWord(Collected(d))) \/ Starts(Collected(d))
    BY <2>1, <2>2, GoneType, MovesTypes DEF GoesOn, KeepsWord, Starts, Exists, MovesInv
  <2>. QED  BY <1>1, <1>2, <2>2, <2>3, EndingOK
<1>. QED  BY <1>1, <1>2, EndingOK

LEMMA MovesInit == Init => MovesInv
<1>. SUFFICES ASSUME Init PROVE MovesInv
  OBVIOUS
<1>1. /\ log = <<Gone>> /\ Len(log) = 1 /\ Server = Gone /\ pc = "idle" /\ Gone.uid = 0
  BY DEF Init, ApiInit, Server, Gone
<1>2. GenOK /\ ObsOK /\ UidOK /\ RunMoves
  BY <1>1 DEF GenOK, ObsOK, UidOK, RunMoves, Exists
<1>. QED  BY <1>2, InitOK DEF MovesInv

LEMMA StepMoves == MovesInv /\ [Next]_vars => Moves
<1>. SUFFICES ASSUME MovesInv, [Next]_vars PROVE Moves
  OBVIOUS
<1>1. IInv'
  BY NextKeeps DEF MovesInv
<1>2. CASE Worker
  BY <1>1, <1>2, ReconcileMoves, AddFinalizerMoves, HealthCheckMoves,
     ReconcileServiceMoves, PatchStatusMoves, CleanUpMoves, RemoveFinalizerMoves
  DEF Worker
<1>3. CASE User /\ UNCHANGED <<worker, process, service, health>>
  BY <1>1, <1>3, UserMoves
<1>4. CASE \/ (Deliver \/ TimerFires) /\ UNCHANGED <<worker, process, service, health>>
           \/ UserService \/ GarbageCollect \/ DeliverService \/ HealthChanges
           \/ UNCHANGED vars
  <2>1. log' = log /\ seen' \in seen .. Len(log) /\ UNCHANGED worker
    BY <1>4, Basics
    DEF Deliver, TimerFires, UserService, GarbageCollect, DeliverService, HealthChanges,
        vars, apiVars, MovesInv
  <2>. QED  BY <1>1, <2>1, UndisturbedOK
<1>5. CASE Crash
  <2>1. log' = log /\ seen' \in seen .. Len(log) /\ pc' = "idle"
    BY <1>5 DEF Crash, Relist, End
  <2>. QED  BY <1>1, <2>1, RestingOK, StillOK
<1>. QED  BY <1>2, <1>3, <1>4, <1>5 DEF Next, Api

(* A run on a stale endpoint takes nothing back: however the cache lags    *)
(* and wherever a run is cut off, the observed generation of an            *)
(* incarnation never decreases and never passes the generation, and        *)
(* "available" and the Service's name, once reported, do not disappear     *)
(* (modelendpoint_controller.go:98-157).                                   *)
THEOREM StatusCorrect == Spec => StatusMovesOn
<1>1. Init => MovesInv
  BY MovesInit
<1>2. MovesInv /\ [Next]_vars => MovesInv' /\ MovesOn
  BY StepMoves DEF Moves
<1>. QED  BY <1>1, <1>2, PTL DEF Spec, StatusMovesOn, MovesOn
=============================================================================
