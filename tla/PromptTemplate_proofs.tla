----------------------- MODULE PromptTemplate_proofs -----------------------
(***************************************************************************)
(* What PromptTemplate promises for every value of its constants: its type *)
(* invariant, that it implements FinalizedObject, and that its status      *)
(* moves on.                                                               *)
(***************************************************************************)
EXTENDS PromptTemplate, SequenceTheorems, TLAPS

(* The versions of the template: uid 0 is "no object", deletion is not     *)
(* taken back, generation and verdict come together, and within one        *)
(* incarnation a verdict is not taken back.                                *)
VersionOK(o) ==
    /\ o.uid <= Len(log)
    /\ o.uid = 0 => ~o.finalizer /\ ~o.deleting /\ o.status = NoTemplate
    /\ o.uid # 0 => o.gen # 0
    /\ o.status.obs = 0 <=> o.status.conditions.valid = "Unset"
    /\ o.uid = Server.uid =>
          /\ o.deleting => Server.deleting
          /\ o.status.obs # 0 => Server.status.obs # 0

(* A version not older than the cache that holds the finalizer and is not  *)
(* being deleted proves that the server still holds that incarnation.      *)
Protects(o) ==
    Live(o) /\ o.finalizer => Server.uid = o.uid /\ Server.finalizer

LogOK ==
    /\ \A i \in 1 .. Len(log) : VersionOK(log[i])
    /\ \A i \in seen .. Len(log) : Protects(log[i])

(* What the run knows about its object between two calls. *)
RunOK ==
    /\ pc \in {"resolve", "patch"} =>
          Live(pt) /\ Server.uid = pt.uid /\ Server.finalizer
    /\ pc = "adopt" => Live(pt)
    /\ pc = "release" => pt.deleting /\ pt.finalizer

IInv == TypeOK /\ LogOK /\ RunOK

-----------------------------------------------------------------------------
(* The state's parts have their types, as the steps use them. *)
LEMMA Basics ==
  ASSUME IInv
  PROVE  /\ log \in Seq(Object) /\ Len(log) \in Nat /\ Len(log) > 0
         /\ seen \in 1 .. Len(log) /\ read \in 1 .. seen /\ read \in 1 .. Len(log)
         /\ Server \in Object /\ pt \in Object /\ Cached \in Object
         /\ \A i \in 1 .. Len(log) : log[i] \in Object
<1>1. /\ log \in Seq(Object) /\ Len(log) \in Nat /\ Len(log) > 0
      /\ seen \in 1 .. Len(log) /\ read \in 1 .. seen
  BY LenProperties DEF IInv, TypeOK, ApiTypeOK
<1>2. \A i \in 1 .. Len(log) : log[i] \in Object
  BY <1>1, ElementOfSeq
<1>. QED
  BY <1>1, <1>2 DEF Server, pt, Cached

LEMMA Known ==
  ASSUME IInv
  PROVE  VersionOK(Server) /\ VersionOK(pt) /\ VersionOK(Cached) /\ Protects(Cached)
BY Basics DEF IInv, LogOK, Server, pt, Cached

LEMMA GoneType == Gone \in Object /\ Gone.uid = 0 /\ ~Gone.finalizer /\ ~Gone.deleting
                  /\ Gone.status = NoTemplate /\ Gone.spec \in Specs
BY TemplateAssumption DEF Gone, Object, NoTemplate, TemplateStatus, Conditions

(* What is left of an object that is collected. *)
LEMMA CollectedShape ==
  ASSUME NEW o \in Object
  PROVE  /\ Collected(o) \in Object
         /\ \/ Collected(o) = o
            \/ Collected(o) = Gone /\ o.deleting /\ ~o.finalizer
BY GoneType DEF Collected

LEMMA InitOK == Init => IInv
<1>. SUFFICES ASSUME Init PROVE IInv
  OBVIOUS
<1>1. /\ log = <<Gone>> /\ Len(log) = 1 /\ Server = Gone /\ pt = Gone
      /\ seen = 1 /\ read = 1 /\ pc = "idle" /\ log \in Seq(Object)
  BY GoneType DEF Init, ApiInit, Server, pt
<1>2. NoTemplate.obs = 0 /\ NoTemplate.conditions.valid = "Unset"
  BY DEF NoTemplate
<1>3. TypeOK
  <2>1. queued \in BOOLEAN /\ timer \in BOOLEAN
    BY DEF Init, ApiInit
  <2>2. seen \in 1 .. Len(log) /\ edits \in 0 .. MaxEdits /\ faults \in 0 .. MaxFaults
    BY <1>1, TemplateAssumption DEF Init, ApiInit
  <2>3. ApiTypeOK
    BY <1>1, <2>1, <2>2 DEF ApiTypeOK
  <2>4. pc \in Steps /\ read \in 1 .. seen /\ found \in Endpoints /\ endpoint \in Endpoints
    BY <1>1 DEF Init, Steps, Endpoints
  <2>. QED  BY <1>1, <1>2, <2>3, <2>4, GoneType DEF TypeOK
<1>4. LogOK
  BY <1>1, <1>2, GoneType DEF LogOK, VersionOK, Protects, Live, Exists
<1>5. RunOK
  BY <1>1 DEF RunOK
<1>. QED  BY <1>3, <1>4, <1>5 DEF IInv

-----------------------------------------------------------------------------
(* The log grows by one version: what the new version must satisfy.        *)
Continues(o) ==
    /\ o.uid <= Len(log) + 1
    /\ o.uid = 0 => ~o.finalizer /\ ~o.deleting /\ o.status = NoTemplate
    /\ o.uid # 0 => o.gen # 0
    /\ o.status.obs = 0 <=> o.status.conditions.valid = "Unset"
    /\ o.uid \in {0, Server.uid, Len(log) + 1}
    /\ o.uid = Server.uid => /\ Server.deleting => o.deleting
                             /\ Server.status.obs # 0 => o.status.obs # 0
    /\ \A i \in seen .. Len(log) :
          Live(log[i]) /\ log[i].finalizer => o.uid = log[i].uid /\ o.finalizer

LEMMA Extend ==
  ASSUME IInv, NEW o \in Object, log' = Append(log, o), seen' = seen, Continues(o)
  PROVE  /\ log' \in Seq(Object) /\ Len(log') = Len(log) + 1
         /\ Server' = o /\ LogOK'
         /\ \A i \in 1 .. Len(log) : log'[i] = log[i]
<1>1. /\ log' \in Seq(Object) /\ Len(log') = Len(log) + 1
      /\ \A i \in 1 .. Len(log) : log'[i] = log[i]
      /\ log'[Len(log) + 1] = o
  BY Basics, AppendProperties
<1>2. Server' = o
  BY <1>1 DEF Server
<1>3. ASSUME NEW i \in 1 .. Len(log') PROVE VersionOK(log[i])'
  <2>1. CASE i = Len(log) + 1
    BY <1>1, <1>2, <2>1, Basics DEF VersionOK, Continues
  <2>2. CASE i \in 1 .. Len(log)
    <3>1. log'[i] = log[i] /\ log[i] \in Object /\ VersionOK(log[i])
      BY <1>1, <2>2, Basics DEF IInv, LogOK
    <3>2. log[i].uid \in Nat /\ log[i].uid <= Len(log)
      BY <3>1 DEF Object, VersionOK
    <3>3. o.uid = log[i].uid =>
             /\ log[i].deleting => o.deleting
             /\ log[i].status.obs # 0 => o.status.obs # 0
      <4>1. CASE o.uid = Server.uid
        BY <3>1, <4>1 DEF VersionOK, Continues
      <4>2. CASE o.uid = 0
        BY <3>1, <4>2 DEF VersionOK, NoTemplate
      <4>3. CASE o.uid = Len(log) + 1
        BY <3>2, <4>3, Basics
      <4>. QED  BY <4>1, <4>2, <4>3 DEF Continues
    <3>4. log[i].uid <= Len(log')
      BY <1>1, <3>2, Basics
    <3>. QED  BY <1>2, <3>1, <3>3, <3>4 DEF VersionOK
  <2>. QED  BY <1>1, <2>1, <2>2, Basics
<1>4. ASSUME NEW i \in seen' .. Len(log') PROVE Protects(log[i])'
  BY <1>1, <1>2, Basics DEF Protects, Live, Exists, Continues
<1>. QED
  BY <1>1, <1>2, <1>3, <1>4 DEF LogOK

(* The log stays, the cache may move on. *)
LEMMA Stay ==
  ASSUME IInv, log' = log, seen' \in seen .. Len(log)
  PROVE  Server' = Server /\ LogOK'
<1>1. Server' = Server
  BY DEF Server
<1>. QED
  BY <1>1, Basics DEF IInv, LogOK, VersionOK, Protects, Live, Exists

(* A step of others leaves the worker what it knows, as long as it leaves  *)
(* the finalizer where it is.                                              *)
LEMMA Bystander ==
  ASSUME IInv, UNCHANGED worker, endpoint' \in Endpoints, ApiTypeOK', LogOK',
         \A i \in 1 .. Len(log) : log'[i] = log[i], seen' >= seen,
         Len(log') \in Nat, Len(log') >= Len(log),
         Server.finalizer => Server'.finalizer /\ Server'.uid = Server.uid
  PROVE  IInv'
<1>1. pt' = pt
  BY Basics DEF pt, worker
<1>2. VersionOK(Server)'
  BY Basics DEF LogOK, Server, ApiTypeOK
<1>3. TypeOK'
  BY <1>2, Basics DEF IInv, TypeOK, ApiTypeOK, VersionOK, worker
<1>4. RunOK'
  BY <1>1 DEF IInv, RunOK, worker
<1>. QED  BY <1>3, <1>4 DEF IInv

-----------------------------------------------------------------------------
(* A write of users keeps the incarnation, its finalizer and its status    *)
(* and changes its spec or, perhaps, begins its deletion; or it replaces   *)
(* an object without the operator's finalizer, or none at all.             *)
KeepsObject(o) ==
    /\ Exists(Server) /\ o.uid = Server.uid /\ o.gen # 0
    /\ Server.deleting => o.deleting
    /\ o.spec # Server.spec => o.deleting = Server.deleting
    /\ o.finalizer = Server.finalizer /\ o.status = Server.status
    /\ Server.gen <= o.gen

Replaces(o) ==
    /\ ~Server.finalizer /\ ~o.finalizer /\ ~o.deleting /\ o.status = NoTemplate
    /\ \/ o.uid = 0 /\ Exists(Server)
       \/ o.uid = Len(log) + 1 /\ o.gen # 0 /\ ~Exists(Server)

LEMMA UserShape ==
  ASSUME IInv, User
  PROVE  \E o \in Object : UserStep(o) /\ (KeepsObject(o) \/ Replaces(o))
<1>1. Server \in Object /\ VersionOK(Server) /\ Len(log) \in Nat
  BY Basics, Known
<1>2. CASE UserCreate
  <2>1. PICK s \in Specs, h \in BOOLEAN :
           UserStep([uid |-> Len(log) + 1, gen |-> 1, spec |-> s,
                     deleting |-> FALSE, finalizer |-> FALSE, held |-> h,
                     status |-> NoTemplate])
    BY <1>2 DEF UserCreate
  <2>. DEFINE o == [uid |-> Len(log) + 1, gen |-> 1, spec |-> s,
                    deleting |-> FALSE, finalizer |-> FALSE, held |-> h,
                    status |-> NoTemplate]
  <2>2. o \in Object
    BY <1>1 DEF Object, NoTemplate, TemplateStatus, Conditions
  <2>3. Replaces(o)
    BY <1>1, <1>2 DEF Replaces, UserCreate, VersionOK, Exists
  <2>. QED  BY <2>1, <2>2, <2>3
<1>3. CASE UserEdit
  <2>1. PICK s \in Specs : UserStep([Server EXCEPT !.spec = s, !.gen = @ + 1])
    BY <1>3 DEF UserEdit
  <2>. DEFINE o == [Server EXCEPT !.spec = s, !.gen = @ + 1]
  <2>2. Server.gen \in Nat /\ Server.gen + 1 \in Nat /\ Server.gen + 1 # 0
    BY <1>1 DEF Object
  <2>3. /\ o \in Object /\ o.uid = Server.uid /\ o.gen = Server.gen + 1
        /\ o.deleting = Server.deleting /\ o.finalizer = Server.finalizer
        /\ o.status = Server.status
    BY <1>1, <2>2 DEF Object
  <2>. HIDE DEF o
  <2>4. KeepsObject(o)
    BY <1>3, <2>2, <2>3 DEF KeepsObject, UserEdit
  <2>. QED  BY <2>1, <2>3, <2>4 DEF o
<1>4. CASE UserDelete
  <2>. DEFINE o == [Server EXCEPT !.deleting = TRUE, !.gen = @ + 1]
  <2>2. UserStep(Collected(o))
    BY <1>4 DEF UserDelete
  <2>5. Server.gen \in Nat /\ Server.gen + 1 \in Nat /\ Server.gen + 1 # 0
    BY <1>1 DEF Object
  <2>6. /\ o \in Object /\ o.uid = Server.uid /\ o.gen = Server.gen + 1
        /\ o.deleting /\ o.finalizer = Server.finalizer /\ o.status = Server.status
        /\ o.spec = Server.spec
    BY <1>1, <2>5 DEF Object
  <2>. HIDE DEF o
  <2>1. o \in Object /\ KeepsObject(o)
    BY <1>4, <2>5, <2>6 DEF KeepsObject, UserDelete, Live
  <2>3. CASE Collected(o) = o
    BY <2>1, <2>2, <2>3
  <2>4. CASE Collected(o) = Gone /\ ~o.finalizer
    BY <2>1, <2>2, <2>4, GoneType DEF KeepsObject, Replaces
  <2>. QED  BY <2>1, <2>3, <2>4, CollectedShape
<1>5. CASE OtherRelease
  <2>. DEFINE o == [Server EXCEPT !.held = FALSE]
  <2>2. UserStep(Collected(o))
    BY <1>5 DEF OtherRelease
  <2>5. /\ o \in Object /\ o.uid = Server.uid /\ o.gen = Server.gen /\ Server.gen \in Nat
        /\ o.deleting = Server.deleting /\ o.finalizer = Server.finalizer
        /\ o.status = Server.status /\ o.spec = Server.spec
    BY <1>1 DEF Object
  <2>. HIDE DEF o
  <2>1. o \in Object /\ KeepsObject(o)
    BY <1>1, <1>5, <2>5 DEF KeepsObject, OtherRelease, VersionOK, Exists
  <2>3. CASE Collected(o) = o
    BY <2>1, <2>2, <2>3
  <2>4. CASE Collected(o) = Gone /\ ~o.finalizer
    BY <2>1, <2>2, <2>4, GoneType DEF KeepsObject, Replaces
  <2>. QED  BY <2>1, <2>3, <2>4, CollectedShape
<1>. QED  BY <1>2, <1>3, <1>4, <1>5 DEF User

LEMMA UserOK == ASSUME IInv, User, UNCHANGED <<worker, endpoint>> PROVE IInv'
<1>1. PICK o \in Object : UserStep(o) /\ (KeepsObject(o) \/ Replaces(o))
  BY UserShape
<1>2. /\ log' = Append(log, o) /\ edits < MaxEdits /\ edits' = edits + 1
      /\ UNCHANGED <<seen, queued, timer, faults>>
  BY <1>1 DEF UserStep
<1>3. VersionOK(Server) /\ \A i \in seen .. Len(log) : Protects(log[i])
  BY Known DEF IInv, LogOK
<1>4. Continues(o)
  <2>1. \A i \in seen .. Len(log) :
           Live(log[i]) /\ log[i].finalizer => o.uid = log[i].uid /\ o.finalizer
    BY <1>1, <1>3 DEF KeepsObject, Replaces, Protects
  <2>2. Server.uid \in Nat /\ Server.uid <= Len(log) /\ Len(log) \in Nat
    BY <1>3, Basics DEF VersionOK, Object
  <2>3. CASE KeepsObject(o)
    <3>1. o.uid = Server.uid /\ o.uid # 0 /\ o.uid <= Len(log) + 1
      BY <2>2, <2>3 DEF KeepsObject, Exists
    <3>. QED
      BY <1>3, <2>1, <2>3, <3>1 DEF KeepsObject, Continues, VersionOK
  <2>4. CASE Replaces(o)
    <3>1. /\ NoTemplate.obs = 0 /\ NoTemplate.conditions.valid = "Unset"
          /\ o.uid <= Len(log) + 1 /\ o.uid \in {0, Len(log) + 1}
      BY <2>2, <2>4 DEF Replaces, NoTemplate
    <3>2. o.uid = Server.uid => ~Server.deleting /\ Server.status.obs = 0
      BY <1>3, <2>2, <2>4, <3>1 DEF Replaces, VersionOK
    <3>. QED
      BY <1>3, <2>1, <2>4, <3>1, <3>2 DEF Replaces, Continues
  <2>. QED  BY <1>1, <2>3, <2>4
<1>5. /\ log' \in Seq(Object) /\ Len(log') = Len(log) + 1 /\ Server' = o /\ LogOK'
      /\ \A i \in 1 .. Len(log) : log'[i] = log[i]
  BY <1>2, <1>4, Extend
<1>6. ApiTypeOK'
  BY <1>2, <1>5, Basics, TemplateAssumption DEF IInv, TypeOK, ApiTypeOK
<1>7. Server.finalizer => o.finalizer /\ o.uid = Server.uid
  BY <1>1 DEF KeepsObject, Replaces
<1>. QED
  BY <1>2, <1>5, <1>6, <1>7, Basics, Bystander DEF IInv, TypeOK

LEMMA OthersOK ==
  ASSUME IInv, \/ (Deliver \/ TimerFires) /\ UNCHANGED <<worker, endpoint>>
               \/ EndpointChanges
  PROVE  IInv'
<1>1. /\ log' = log /\ seen' \in seen .. Len(log) /\ UNCHANGED worker
      /\ endpoint' \in Endpoints
  BY Basics DEF Deliver, TimerFires, EndpointChanges, IInv, TypeOK
<1>2. Server' = Server /\ LogOK'
  BY <1>1, Stay
<1>3. ApiTypeOK'
  <2>1. queued' \in BOOLEAN /\ timer' \in BOOLEAN /\ faults' \in 0 .. MaxFaults
    BY DEF Deliver, TimerFires, EndpointChanges, IInv, TypeOK, ApiTypeOK
  <2>2. edits' \in 0 .. MaxEdits
    BY TemplateAssumption
    DEF Deliver, TimerFires, EndpointChanges, IInv, TypeOK, ApiTypeOK
  <2>3. log' \in Seq(Object) /\ Len(log') > 0 /\ seen' \in 1 .. Len(log')
    BY <1>1, Basics
  <2>. QED  BY <2>1, <2>2, <2>3 DEF ApiTypeOK
<1>. QED
  BY <1>1, <1>2, <1>3, Basics, Bystander

-----------------------------------------------------------------------------
(* A run that ends knows nothing; what remains is the log. *)
LEMMA Ended ==
  ASSUME IInv, End, endpoint' = endpoint, ApiTypeOK', LogOK', Len(log') \in Nat
  PROVE  IInv'
<1>1. VersionOK(Server)'
  BY DEF LogOK, Server, ApiTypeOK
<1>2. read' \in 1 .. seen'
  BY DEF End, ApiTypeOK
<1>3. TypeOK'
  BY <1>1, <1>2 DEF IInv, TypeOK, Steps, Endpoints, VersionOK, End
<1>4. RunOK'
  BY DEF RunOK, End
<1>. QED  BY <1>3, <1>4 DEF IInv

(* A run ends, after a write or without one. *)
LEMMA EndsQuietly ==
  ASSUME IInv, EndRequeued, log' = log, endpoint' = endpoint,
         UNCHANGED faults \/ Fault
  PROVE  IInv'
<1>1. LogOK'
  BY Stay, Basics DEF EndRequeued
<1>2. ApiTypeOK'
  BY TemplateAssumption DEF IInv, TypeOK, ApiTypeOK, EndRequeued, Fault
<1>. QED  BY <1>1, <1>2, Ended, Basics DEF EndRequeued

LEMMA EndsWriting ==
  ASSUME IInv, End, NEW o \in Object, log' = Written(o), Continues(o),
         endpoint' = endpoint, timer' \in BOOLEAN, UNCHANGED <<seen, queued, edits, faults>>
  PROVE  IInv'
<1>1. CASE log' = log
  <2>1. LogOK'
    BY <1>1, Stay, Basics
  <2>2. ApiTypeOK'
    BY <1>1 DEF IInv, TypeOK, ApiTypeOK
  <2>. QED  BY <1>1, <2>1, <2>2, Ended, Basics
<1>2. CASE log' = Append(log, o)
  <2>1. log' \in Seq(Object) /\ Len(log') = Len(log) + 1 /\ LogOK'
    BY <1>2, Extend
  <2>2. ApiTypeOK'
    BY <2>1, Basics DEF IInv, TypeOK, ApiTypeOK
  <2>. QED  BY <2>1, <2>2, Ended, Basics
<1>. QED  BY <1>1, <1>2 DEF Written

LEMMA ReconcileOK == ASSUME IInv, Reconcile PROVE IInv'
<1>1. log' = log /\ seen' = seen /\ endpoint' = endpoint
  BY DEF Reconcile
<1>2. Server' = Server /\ LogOK'
  BY <1>1, Stay, Basics
<1>3. ApiTypeOK'
  BY DEF Reconcile, IInv, TypeOK, ApiTypeOK
<1>4. CASE Branch(Cached) = "idle"
  BY <1>1, <1>2, <1>3, <1>4, Ended, Basics DEF Reconcile
<1>5. CASE Branch(Cached) # "idle"
  <2>1. pc' = Branch(Cached) /\ read' = seen /\ found' = found /\ pt' = Cached
    BY <1>1, <1>5 DEF Reconcile, pt, Cached
  <2>2. /\ Branch(Cached) \in {"adopt", "resolve", "release"}
        /\ Branch(Cached) = "adopt" => Live(Cached)
        /\ Branch(Cached) = "resolve" => Live(Cached) /\ Cached.finalizer
        /\ Branch(Cached) = "release" => Cached.deleting /\ Cached.finalizer
    BY <1>5, Basics DEF Branch, Live, Exists, Object
  <2>3. TypeOK'
    BY <1>1, <1>2, <1>3, <2>1, <2>2, Basics DEF IInv, TypeOK, Steps
  <2>4. RunOK'
    BY <1>2, <2>1, <2>2, Known DEF RunOK, Protects, Live, Exists
  <2>. QED  BY <1>2, <2>3, <2>4 DEF IInv
<1>. QED  BY <1>4, <1>5

(* Adding the finalizer to the version that the server holds. *)
LEMMA AddShape ==
  ASSUME IInv, pc = "adopt", UpToDate(read)
  PROVE  /\ [pt EXCEPT !.finalizer = TRUE] \in Object
         /\ Continues([pt EXCEPT !.finalizer = TRUE])
<1>1. pt = Server /\ Live(Server) /\ pt \in Object
  BY Basics DEF UpToDate, pt, Server, IInv, RunOK
<1>. DEFINE o == [pt EXCEPT !.finalizer = TRUE]
<1>2. /\ o \in Object /\ o.uid = Server.uid /\ o.gen = Server.gen /\ o.finalizer
      /\ o.deleting = Server.deleting /\ o.status = Server.status
  BY <1>1 DEF Object
<1>. HIDE DEF o
<1>3. Continues(o)
  BY <1>1, <1>2, Known, Basics
  DEF Continues, VersionOK, Live, Exists, IInv, LogOK, Protects, Object
<1>. QED  BY <1>2, <1>3 DEF o

LEMMA AddFinalizerOK == ASSUME IInv, AddFinalizer PROVE IInv'
<1>1. CASE UpToDate(read) /\ log' = Written([pt EXCEPT !.finalizer = TRUE])
             /\ UNCHANGED faults
  BY <1>1, AddShape, EndsWriting DEF AddFinalizer, EndRequeued
<1>2. CASE log' = log
  BY <1>2, EndsQuietly DEF AddFinalizer
<1>. QED  BY <1>1, <1>2 DEF AddFinalizer

LEMMA ResolveOK == ASSUME IInv, ResolveEndpoint PROVE IInv'
<1>1. CASE pc' = "patch" /\ found' = endpoint
             /\ UNCHANGED <<log, seen, queued, timer, edits, faults, read>>
  <2>1. Server' = Server /\ LogOK'
    BY <1>1, Stay, Basics
  <2>2. pt' = pt
    BY <1>1 DEF pt
  <2>3. TypeOK'
    BY <1>1, <2>1 DEF IInv, TypeOK, ApiTypeOK, Steps, ResolveEndpoint
  <2>4. RunOK'
    BY <1>1, <2>1, <2>2 DEF IInv, RunOK, ResolveEndpoint
  <2>. QED  BY <2>1, <2>3, <2>4 DEF IInv
<1>2. CASE Fault /\ EndRequeued /\ UNCHANGED log
  BY <1>2, EndsQuietly DEF ResolveEndpoint
<1>. QED  BY <1>1, <1>2 DEF ResolveEndpoint

(* The patch changes the status only.  It brings a verdict if there is     *)
(* none: the version the run has read had none either, so what the run     *)
(* says differs from it in both fields.                                    *)
LEMMA PatchedShape ==
  ASSUME IInv, pc = "patch"
  PROVE  /\ Patched \in Object /\ Continues(Patched)
         /\ Patched.uid = Server.uid /\ Patched.spec = Server.spec
         /\ Patched.deleting = Server.deleting /\ Patched.finalizer = Server.finalizer
<1>1. /\ Server \in Object /\ pt \in Object /\ Live(pt) /\ Server.uid = pt.uid
      /\ Server.finalizer /\ VersionOK(Server) /\ VersionOK(pt) /\ found \in Endpoints
  BY Basics, Known DEF IInv, RunOK, TypeOK
<1>2. Verdict(pt, found) \in Conditions /\ Verdict(pt, found).valid # "Unset" /\ pt.gen # 0
  BY <1>1 DEF Verdict, Conditions, VersionOK, Live, Exists
<1>. DEFINE st == [conditions |-> Merged(Server.status.conditions, pt.status.conditions,
                                         Verdict(pt, found)),
                   obs |-> Merged(Server.status.obs, pt.status.obs, pt.gen)]
<1>3. /\ st \in TemplateStatus
      /\ st.conditions = Merged(Server.status.conditions, pt.status.conditions,
                                Verdict(pt, found))
      /\ st.obs = Merged(Server.status.obs, pt.status.obs, pt.gen)
  BY <1>1, <1>2 DEF Merged, TemplateStatus, Object
<1>. HIDE DEF st
<1>4. st.obs # 0 /\ st.conditions.valid # "Unset"
  BY <1>1, <1>2, <1>3 DEF Merged, VersionOK
<1>5. Patched = [Server EXCEPT !.status = st]
  BY DEF Patched, st
<1>6. /\ Patched \in Object /\ Patched.uid = Server.uid /\ Patched.spec = Server.spec
      /\ Patched.deleting = Server.deleting /\ Patched.finalizer = Server.finalizer
      /\ Patched.gen = Server.gen /\ Patched.status = st
  BY <1>1, <1>3, <1>5 DEF Object
<1>7. Continues(Patched)
  BY <1>1, <1>4, <1>6, Basics
  DEF Continues, VersionOK, Live, Exists, IInv, LogOK, Protects, Object
<1>. QED  BY <1>6, <1>7

LEMMA PatchStatusOK == ASSUME IInv, PatchStatus PROVE IInv'
<1>1. CASE log' = Written(Patched) /\ UNCHANGED faults
  BY <1>1, PatchedShape, EndsWriting DEF PatchStatus, EndRequeued
<1>2. CASE log' = log
  BY <1>2, EndsQuietly DEF PatchStatus
<1>. QED  BY <1>1, <1>2 DEF PatchStatus

(* Removing the finalizer from the version that the server holds. *)
LEMMA ReleaseShape ==
  ASSUME IInv, pc = "release", UpToDate(read)
  PROVE  LET o == Collected([pt EXCEPT !.finalizer = FALSE])
         IN  /\ o \in Object /\ Continues(o)
             /\ Server.deleting /\ Server.finalizer /\ ~o.finalizer
             /\ \/ o.uid = Server.uid /\ o.deleting /\ o.spec = Server.spec
                \/ o = Gone
<1>1. /\ pt = Server /\ pt \in Object /\ Server.deleting /\ Server.finalizer
      /\ seen = Len(log) /\ log[seen] = Server
  BY Basics DEF UpToDate, pt, Server, IInv, RunOK
<1>. DEFINE p == [pt EXCEPT !.finalizer = FALSE]
            o == Collected(p)
<1>2. /\ p \in Object /\ p.uid = Server.uid /\ p.gen = Server.gen /\ ~p.finalizer
      /\ p.deleting = Server.deleting /\ p.status = Server.status /\ p.spec = Server.spec
  BY <1>1 DEF Object
<1>. HIDE DEF p
<1>3. o \in Object /\ (o = p \/ o = Gone)
  BY <1>2, CollectedShape
<1>4. /\ Server.uid # 0 /\ Server.uid \in Nat /\ Server.uid <= Len(log) /\ Len(log) \in Nat
      /\ VersionOK(Server)
  BY <1>1, Known, Basics DEF VersionOK, Object
<1>7. \A i \in seen .. Len(log) : ~(Live(log[i]) /\ log[i].finalizer)
  BY <1>1, <1>4 DEF Live
<1>8. Continues(p)
  <2>1. p.uid # 0 /\ p.uid <= Len(log) + 1
    BY <1>2, <1>4
  <2>. QED  BY <1>2, <1>4, <1>7, <2>1 DEF Continues, VersionOK
<1>9. Continues(Gone)
  <2>1. NoTemplate.obs = 0 /\ NoTemplate.conditions.valid = "Unset" /\ Gone.uid <= Len(log) + 1
    BY <1>4, GoneType DEF NoTemplate
  <2>. QED  BY <1>4, <1>7, <2>1, GoneType DEF Continues
<1>5. Continues(p) /\ Continues(Gone)
  BY <1>8, <1>9
<1>6. /\ o \in Object /\ Continues(o) /\ ~o.finalizer
      /\ (o.uid = Server.uid /\ o.deleting /\ o.spec = Server.spec) \/ o = Gone
  BY <1>1, <1>2, <1>3, <1>5, GoneType
<1>. QED  BY <1>1, <1>6 DEF o, p

LEMMA RemoveFinalizerOK == ASSUME IInv, RemoveFinalizer PROVE IInv'
<1>1. CASE /\ UpToDate(read)
           /\ log' = Written(Collected([pt EXCEPT !.finalizer = FALSE]))
           /\ End /\ UNCHANGED <<seen, queued, timer, edits, faults>>
  BY <1>1, ReleaseShape, EndsWriting DEF RemoveFinalizer, IInv, TypeOK, ApiTypeOK
<1>2. CASE EndRequeued /\ log' = log
  BY <1>2, EndsQuietly DEF RemoveFinalizer
<1>. QED  BY <1>1, <1>2 DEF RemoveFinalizer

LEMMA CrashOK == ASSUME IInv, Crash PROVE IInv'
<1>1. log' = log /\ seen' \in seen .. Len(log) /\ End /\ endpoint' = endpoint
  BY DEF Crash, Relist
<1>2. LogOK'
  BY <1>1, Stay
<1>3. ApiTypeOK'
  <2>1. queued' \in BOOLEAN /\ timer' \in BOOLEAN
    BY DEF Crash, Relist, Exists
  <2>2. edits' \in 0 .. MaxEdits /\ faults' \in 0 .. MaxFaults
    BY TemplateAssumption DEF IInv, TypeOK, ApiTypeOK, Crash, Relist, Fault
  <2>3. log' \in Seq(Object) /\ Len(log') > 0 /\ seen' \in 1 .. Len(log')
    BY <1>1, Basics
  <2>. QED  BY <2>1, <2>2, <2>3 DEF ApiTypeOK
<1>. QED  BY <1>1, <1>2, <1>3, Ended, Basics

LEMMA NextKeeps == IInv /\ [Next]_vars => IInv'
<1>. SUFFICES ASSUME IInv, [Next]_vars PROVE IInv'
  OBVIOUS
<1>1. CASE UNCHANGED vars
  BY <1>1
  DEF vars, apiVars, worker, IInv, TypeOK, ApiTypeOK, LogOK, RunOK, VersionOK, Protects,
      Server, pt
<1>. QED
  BY <1>1, ReconcileOK, AddFinalizerOK, ResolveOK, PatchStatusOK, RemoveFinalizerOK,
     UserOK, OthersOK, CrashOK
  DEF Next, Worker, Api

LEMMA Invariance == Spec => []IInv
BY InitOK, NextKeeps, PTL DEF Spec

(* A verdict and the generation it is about always travel together, even   *)
(* though the two are merged into the status one by one, by patches that   *)
(* name no version (prompttemplate_controller.go:69-130).                  *)
THEOREM TypeCorrect == Spec => []TypeOK
<1>1. IInv => TypeOK
  BY DEF IInv
<1>. QED  BY <1>1, Invariance, PTL

-----------------------------------------------------------------------------
(***************************************************************************)
(* The refinement.  The template holds nothing outside the cluster, so the *)
(* abstract object is always clean and no step acquires anything.          *)
(***************************************************************************)
AbstractStep == [Promised!AbstractNext]_(Promised!objectVars)

(* A write that leaves incarnation, spec and finalizer alone may begin the *)
(* deletion of a live object.                                              *)
LEMMA Remains ==
  ASSUME Server \in Object, Server' \in Object,
         Server'.uid = Server.uid, Server'.spec = Server.spec,
         Server'.finalizer = Server.finalizer, Server.deleting => Server'.deleting,
         ~Exists(Server) => Server'.deleting = Server.deleting
  PROVE  AbstractStep
<1>1. Server.deleting \in BOOLEAN /\ Server'.deleting \in BOOLEAN
  BY DEF Object
<1>2. CASE Server'.deleting = Server.deleting
  <2>1. Phase' = Phase
    BY <1>2 DEF Phase, Live, Exists
  <2>. QED  BY <2>1 DEF AbstractStep, Promised!objectVars
<1>3. CASE Exists(Server) /\ ~Server.deleting /\ Server'.deleting
  <2>1. Phase = "live" /\ Phase' = "deleting"
    BY <1>3 DEF Phase, Live, Exists
  <2>. QED
    BY <2>1 DEF AbstractStep, Promised!AbstractNext, Promised!BeginDeletion
<1>. QED  BY <1>1, <1>2, <1>3

LEMMA Changes ==
  ASSUME Exists(Server), Server'.uid = Server.uid, Server'.spec # Server.spec,
         Server'.finalizer = Server.finalizer, Server'.deleting = Server.deleting
  PROVE  AbstractStep
<1>1. Phase' = Phase /\ Phase # "absent"
  BY DEF Phase, Live, Exists
<1>. QED  BY <1>1 DEF AbstractStep, Promised!AbstractNext, Promised!Change

LEMMA Appears ==
  ASSUME ~Exists(Server), Live(Server'), ~Server'.finalizer
  PROVE  AbstractStep
<1>1. Phase = "absent" /\ Phase' = "live"
  BY DEF Phase, Live, Exists
<1>. QED  BY <1>1 DEF AbstractStep, Promised!AbstractNext, Promised!Appear

(* The object vanishes with its last finalizer. *)
LEMMA Vanishes ==
  ASSUME Exists(Server), Server.finalizer => Server.deleting,
         ~Exists(Server'), ~Server'.finalizer
  PROVE  AbstractStep
<1>1. /\ Phase \in {"live", "deleting"} /\ Phase' = "absent"
      /\ Server.finalizer => Phase = "deleting"
  BY DEF Phase, Live, Exists
<1>2. Promised!Vanished
  BY <1>1 DEF Promised!Vanished
<1>. QED
  BY <1>1, <1>2
  DEF AbstractStep, Promised!AbstractNext, Promised!BeginDeletion, Promised!Vanish,
      Promised!Release

LEMMA UserRefines == ASSUME IInv, User PROVE AbstractStep
<1>1. PICK o \in Object : log' = Append(log, o) /\ (KeepsObject(o) \/ Replaces(o))
  BY UserShape DEF UserStep
<1>2. Server' = o /\ Server \in Object
  BY <1>1, Basics, AppendProperties DEF Server
<1>3. CASE KeepsObject(o)
  <2>1. CASE o.spec = Server.spec
    BY <1>2, <1>3, <2>1, Remains DEF KeepsObject
  <2>2. CASE o.spec # Server.spec
    BY <1>2, <1>3, <2>2, Changes DEF KeepsObject
  <2>. QED  BY <2>1, <2>2
<1>4. CASE Replaces(o)
  <2>1. Len(log) + 1 # 0 /\ ~Server.finalizer /\ ~o.finalizer /\ ~o.deleting
    BY <1>4, Basics DEF Replaces
  <2>2. CASE o.uid = 0 /\ Exists(Server)
    BY <1>2, <2>1, <2>2, Vanishes DEF Exists
  <2>3. CASE o.uid = Len(log) + 1 /\ ~Exists(Server)
    BY <1>2, <2>1, <2>3, Appears DEF Live, Exists
  <2>. QED  BY <1>4, <2>2, <2>3 DEF Replaces
<1>. QED  BY <1>1, <1>3, <1>4

(* A step that writes nothing. *)
LEMMA Silent == ASSUME log' = log PROVE AbstractStep
<1>1. Server' = Server
  BY DEF Server
<1>. QED  BY <1>1 DEF AbstractStep, Promised!objectVars, Phase

LEMMA WrittenIs ==
  ASSUME IInv, NEW o \in Object, log' = Written(o)
  PROVE  Server' = o /\ Server \in Object
BY Basics, AppendProperties DEF Written, Server

(* The finalizer goes to the live version the server holds, or it is there *)
(* already.                                                                *)
LEMMA AddFinalizerRefines == ASSUME IInv, AddFinalizer PROVE AbstractStep
<1>1. CASE UpToDate(read) /\ log' = Written([pt EXCEPT !.finalizer = TRUE])
  <2>. DEFINE o == [pt EXCEPT !.finalizer = TRUE]
  <2>1. pt = Server /\ Live(Server) /\ pt \in Object
    BY <1>1, Basics DEF UpToDate, pt, Server, IInv, RunOK, AddFinalizer
  <2>2. /\ o \in Object /\ o.uid = Server.uid /\ o.spec = Server.spec /\ o.finalizer
        /\ o.deleting = Server.deleting
    BY <2>1 DEF Object
  <2>. HIDE DEF o
  <2>3. Server' = o
    BY <1>1, <2>2, WrittenIs DEF o
  <2>4. CASE Server.finalizer = TRUE
    BY <2>1, <2>2, <2>3, <2>4, Remains DEF Live
  <2>5. CASE Server.finalizer = FALSE
    <3>1. Phase = "live" /\ Phase' = "live"
      BY <2>1, <2>2, <2>3 DEF Phase, Live, Exists
    <3>. QED
      BY <2>2, <2>3, <2>5, <3>1 DEF AbstractStep, Promised!AbstractNext, Promised!Guard
  <2>6. Server.finalizer \in BOOLEAN
    BY <2>1 DEF Object
  <2>. QED  BY <2>4, <2>5, <2>6
<1>2. CASE log' = log
  BY <1>2, Silent
<1>. QED  BY <1>1, <1>2 DEF AddFinalizer

LEMMA PatchStatusRefines == ASSUME IInv, PatchStatus PROVE AbstractStep
<1>1. CASE log' = Written(Patched)
  <2>1. /\ Patched \in Object /\ Patched.uid = Server.uid /\ Patched.spec = Server.spec
        /\ Patched.deleting = Server.deleting /\ Patched.finalizer = Server.finalizer
    BY PatchedShape DEF PatchStatus
  <2>2. Server' = Patched /\ Server \in Object
    BY <1>1, <2>1, WrittenIs
  <2>. QED  BY <2>1, <2>2, Remains
<1>2. CASE log' = log
  BY <1>2, Silent
<1>. QED  BY <1>1, <1>2 DEF PatchStatus

(* The finalizer leaves the deleted version the server holds; with no      *)
(* other finalizer the object goes too.                                    *)
LEMMA RemoveFinalizerRefines == ASSUME IInv, RemoveFinalizer PROVE AbstractStep
<1>1. CASE UpToDate(read) /\ log' = Written(Collected([pt EXCEPT !.finalizer = FALSE]))
  <2>. DEFINE o == Collected([pt EXCEPT !.finalizer = FALSE])
  <2>1. /\ o \in Object /\ Server.deleting /\ Server.finalizer /\ ~o.finalizer
        /\ \/ o.uid = Server.uid /\ o.deleting /\ o.spec = Server.spec
           \/ o = Gone
    BY <1>1, ReleaseShape DEF RemoveFinalizer
  <2>. HIDE DEF o
  <2>2. Server' = o /\ Exists(Server)
    BY <1>1, <2>1, WrittenIs, Known DEF o, VersionOK, Exists
  <2>3. CASE o = Gone
    BY <2>1, <2>2, <2>3, GoneType, Vanishes DEF Exists
  <2>4. CASE o.uid = Server.uid /\ o.deleting /\ o.spec = Server.spec
    <3>1. Phase = "deleting" /\ Phase' = "deleting"
      BY <2>1, <2>2, <2>4 DEF Phase, Live, Exists
    <3>. QED
      BY <2>1, <2>2, <2>4, <3>1 DEF AbstractStep, Promised!AbstractNext, Promised!Release
  <2>. QED  BY <2>1, <2>3, <2>4
<1>2. CASE log' = log
  BY <1>2, Silent
<1>. QED  BY <1>1, <1>2 DEF RemoveFinalizer

LEMMA StepRefines == IInv /\ [Next]_vars => AbstractStep
<1>. SUFFICES ASSUME IInv, [Next]_vars PROVE AbstractStep
  OBVIOUS
<1>1. CASE \/ Reconcile \/ ResolveEndpoint \/ Deliver \/ TimerFires
           \/ EndpointChanges \/ Crash \/ UNCHANGED vars
  <2>1. log' = log
    BY <1>1
    DEF Reconcile, ResolveEndpoint, Deliver, TimerFires, EndpointChanges, Crash, Relist,
        vars, apiVars
  <2>. QED  BY <2>1, Silent
<1>. QED
  BY <1>1, AddFinalizerRefines, PatchStatusRefines, RemoveFinalizerRefines, UserRefines
  DEF Next, Worker, Api

LEMMA InitRefines == Init => Promised!AbstractInit
<1>. SUFFICES ASSUME Init PROVE Promised!AbstractInit
  OBVIOUS
<1>1. Server = Gone /\ Gone.uid = 0 /\ Gone.finalizer = FALSE
  BY DEF Init, ApiInit, Server, Gone
<1>2. Phase = "absent"
  BY <1>1 DEF Phase, Live, Exists
<1>. QED  BY <1>1, <1>2 DEF Promised!AbstractInit

(* The PromptTemplate controller puts its finalizer on live templates and  *)
(* takes it from deleted ones only, whatever its cache shows it and        *)
(* whichever of its calls fail (prompttemplate_controller.go:51-67).       *)
THEOREM KeepsPromise == Spec => IsFinalizedObject
<1>1. Init => Promised!AbstractInit
  BY InitRefines
<1>2. IInv /\ [Next]_vars => [Promised!AbstractNext]_(Promised!objectVars)
  BY StepRefines DEF AbstractStep
<1>. QED
  BY <1>1, <1>2, Invariance, PTL DEF Spec, IsFinalizedObject, Promised!Promise

-----------------------------------------------------------------------------
(***************************************************************************)
(* What a run may do to the status.                                        *)
(*                                                                         *)
(* Generations grow from version to version of one incarnation, and the    *)
(* observed one is behind every version the cache may still come to hold:  *)
(* the next run can only start from a generation that is no older.         *)
(***************************************************************************)
GenOK ==
    \A i, j \in 1 .. Len(log) :
        i <= j /\ log[i].uid = log[j].uid /\ log[j].uid # 0 => log[i].gen <= log[j].gen

ObsOK ==
    Exists(Server) =>
        \A i \in seen .. Len(log) :
            log[i].uid = Server.uid => Server.status.obs <= log[i].gen

RunMoves == pc \in {"resolve", "patch"} => Server.status.obs <= pt.gen

MovesInv == IInv /\ GenOK /\ ObsOK /\ RunMoves

(* The numbers the comparisons are about. *)
LEMMA MovesTypes ==
  ASSUME IInv
  PROVE  /\ Server.status.obs \in Nat /\ pt.gen \in Nat /\ Server.gen \in Nat
         /\ \A i \in 1 .. Len(log) : log[i].gen \in Nat /\ log[i].uid \in Nat
BY Basics DEF Object, TemplateStatus

(* What a version that is appended is like: of no or of a new incarnation, *)
(* or one that goes on.                                                    *)
GoesOn(o) ==
    /\ o.uid = Server.uid /\ Exists(Server) /\ Server.gen <= o.gen
    /\ \/ o.status.obs = Server.status.obs
       \/ /\ Server.uid = pt.uid /\ Server.status.obs <= pt.gen
          /\ o.status.obs = pt.gen

Starts(o) == o.uid = 0 \/ (o.uid = Len(log) + 1 /\ o.status.obs = 0)

LEMMA AppendMoves ==
  ASSUME MovesInv, NEW o \in Object, log' = Append(log, o), seen' = seen,
         GoesOn(o) \/ Starts(o)
  PROVE  /\ GenOK' /\ ObsOK' /\ Server' = o
         /\ Exists(o) => o.status.obs <= o.gen
         /\ GoesOn(o) => Server.status.obs <= o.status.obs
<1>1. /\ log \in Seq(Object) /\ Len(log) \in Nat /\ Len(log) > 0
      /\ seen \in 1 .. Len(log) /\ read \in 1 .. seen
      /\ Server.status.obs \in Nat /\ pt.gen \in Nat /\ Server.gen \in Nat
      /\ \A i \in 1 .. Len(log) : log[i].gen \in Nat /\ log[i].uid \in Nat
      /\ pt = log[read] /\ Server = log[Len(log)]
  BY Basics, MovesTypes DEF MovesInv, pt, Server
<1>2. /\ Len(log') = Len(log) + 1 /\ log'[Len(log) + 1] = o
      /\ \A i \in 1 .. Len(log) : log'[i] = log[i]
  BY <1>1, AppendProperties
<1>3. Server' = o /\ o.gen \in Nat /\ o.status.obs \in Nat /\ o.uid \in Nat
  BY <1>2 DEF Server, Object, TemplateStatus
<1>4. \A i \in 1 .. Len(log) : log[i].uid <= Len(log)
  BY DEF MovesInv, IInv, LogOK, VersionOK
<1>5. ASSUME NEW i \in 1 .. Len(log), log[i].uid = o.uid, o.uid # 0
      PROVE  GoesOn(o) /\ log[i].gen <= o.gen
  <2>1. GoesOn(o)
    BY <1>1, <1>4, <1>5 DEF Starts
  <2>2. log[i].gen <= Server.gen
    BY <1>1, <1>5, <2>1 DEF MovesInv, GenOK, GoesOn
  <2>. QED  BY <1>1, <1>3, <2>1, <2>2 DEF GoesOn
<1>6. GenOK'
  <2>1. ASSUME NEW i \in 1 .. Len(log'), NEW j \in 1 .. Len(log'), i <= j,
               log'[i].uid = log'[j].uid, log'[j].uid # 0
        PROVE  log'[i].gen <= log'[j].gen
    <3>1. CASE j \in 1 .. Len(log)
      BY <1>1, <1>2, <2>1, <3>1 DEF MovesInv, GenOK
    <3>2. CASE j = Len(log) + 1 /\ i \in 1 .. Len(log)
      BY <1>2, <1>5, <2>1, <3>2
    <3>3. CASE j = Len(log) + 1 /\ i = j
      BY <1>2, <1>3, <3>3
    <3>. QED  BY <1>1, <1>2, <2>1, <3>1, <3>2, <3>3
  <2>. QED  BY <2>1 DEF GenOK
<1>7. GoesOn(o) => /\ o.status.obs <= o.gen /\ Server.status.obs <= o.status.obs
                   /\ \A i \in seen .. Len(log) :
                         log[i].uid = o.uid => o.status.obs <= log[i].gen
  <2>. SUFFICES ASSUME GoesOn(o)
                PROVE  /\ o.status.obs <= o.gen /\ Server.status.obs <= o.status.obs
                       /\ \A i \in seen .. Len(log) :
                             log[i].uid = o.uid => o.status.obs <= log[i].gen
    OBVIOUS
  <2>1. ASSUME NEW i \in seen .. Len(log), log[i].uid = o.uid
        PROVE  o.status.obs <= log[i].gen
    <3>1. CASE o.status.obs = Server.status.obs
      BY <2>1, <3>1 DEF MovesInv, ObsOK, GoesOn
    <3>2. CASE pt.uid = Server.uid /\ o.status.obs = pt.gen
      <4>1. read \in 1 .. Len(log) /\ i \in 1 .. Len(log) /\ read <= i
        BY <1>1
      <4>. QED  BY <1>1, <2>1, <3>2, <4>1 DEF MovesInv, GenOK, GoesOn, Exists
    <3>. QED  BY <3>1, <3>2 DEF GoesOn
  <2>2. o.status.obs <= Server.gen
    <3>1. Len(log) \in seen .. Len(log)
      BY <1>1
    <3>. QED  BY <1>1, <2>1, <3>1 DEF GoesOn
  <2>3. o.status.obs <= o.gen
    BY <1>1, <1>3, <2>2 DEF GoesOn
  <2>4. Server.status.obs <= o.status.obs
    BY <1>1, <1>3 DEF GoesOn
  <2>. QED  BY <2>1, <2>3, <2>4
<1>8. Starts(o) /\ Exists(o) => o.status.obs <= o.gen
  BY <1>3 DEF Starts, Exists
<1>9. ObsOK'
  <2>. SUFFICES ASSUME Exists(o), NEW i \in seen .. Len(log) + 1, log'[i].uid = o.uid
                PROVE  o.status.obs <= log'[i].gen
    BY <1>1, <1>2, <1>3 DEF ObsOK, Exists
  <2>1. CASE i = Len(log) + 1
    BY <1>2, <1>7, <1>8, <2>1
  <2>2. CASE i \in seen .. Len(log)
    <3>1. i \in 1 .. Len(log) /\ log'[i] = log[i]
      BY <1>1, <1>2, <2>2
    <3>. QED  BY <1>5, <1>7, <2>2, <3>1 DEF Exists
  <2>. QED  BY <1>1, <2>1, <2>2
<1>. QED  BY <1>3, <1>6, <1>7, <1>8, <1>9

-----------------------------------------------------------------------------
(* What a step may do to the status of one incarnation.  The verdict goes  *)
(* with the observed generation.                                           *)
MovesOn ==
    Exists(Server) /\ Server'.uid = Server.uid =>
        /\ Server.status.obs <= Server'.status.obs
        /\ Server'.status.obs <= Server'.gen
        /\ Server.status.conditions.valid # "Unset"
              => Server'.status.conditions.valid # "Unset"

Moves == MovesInv' /\ MovesOn

LEMMA VerdictStays ==
  ASSUME IInv, IInv', Exists(Server) /\ Server'.uid = Server.uid =>
            Server.status.obs <= Server'.status.obs /\ Server'.status.obs <= Server'.gen
  PROVE  MovesOn
<1>1. /\ Server.status.obs = 0 <=> Server.status.conditions.valid = "Unset"
      /\ Server'.status.obs = 0 <=> Server'.status.conditions.valid = "Unset"
  BY DEF IInv, TypeOK
<1>2. Server.status.obs \in Nat /\ Server'.status.obs \in Nat
  <2>1. log' \in Seq(Object) /\ Len(log') > 0
    BY DEF IInv, TypeOK, ApiTypeOK
  <2>2. Server' \in Object
    BY <2>1, LenProperties, ElementOfSeq DEF Server
  <2>3. Server'.status.obs \in Nat
    BY <2>2 DEF Object, TemplateStatus
  <2>. QED  BY <2>3, MovesTypes
<1>. QED  BY <1>1, <1>2 DEF MovesOn

LEMMA StillOK ==
  ASSUME MovesInv, log' = log, seen' \in seen .. Len(log), IInv', RunMoves'
  PROVE  Moves
<1>1. Server' = Server
  BY DEF Server
<1>2. ObsOK' /\ GenOK'
  BY <1>1, Basics DEF ObsOK, GenOK, MovesInv, Exists
<1>3. Exists(Server) => Server.status.obs <= Server.gen
  <2>1. Len(log) \in seen .. Len(log)
    BY Basics DEF MovesInv
  <2>. QED  BY <2>1 DEF MovesInv, ObsOK, Server
<1>4. MovesOn
  BY <1>1, <1>3, MovesTypes, VerdictStays DEF MovesInv
<1>. QED  BY <1>2, <1>4 DEF Moves, MovesInv

LEMMA AppendOK ==
  ASSUME MovesInv, NEW o \in Object, log' = Append(log, o), seen' = seen, IInv', RunMoves',
         GoesOn(o) \/ Starts(o)
  PROVE  Moves
<1>1. /\ GenOK' /\ ObsOK' /\ Server' = o
      /\ Exists(o) => o.status.obs <= o.gen
      /\ GoesOn(o) => Server.status.obs <= o.status.obs
  BY AppendMoves
<1>2. Starts(o) => o.uid # Server.uid \/ ~Exists(Server)
  <2>1. Server.uid <= Len(log) /\ Server.uid \in Nat /\ Len(log) \in Nat
    BY Basics, Known DEF MovesInv, VersionOK, Object
  <2>. QED  BY <2>1 DEF Starts, Exists
<1>3. MovesOn
  BY <1>1, <1>2, VerdictStays DEF MovesInv, Exists
<1>. QED  BY <1>1, <1>3 DEF Moves, MovesInv

(* A run that has ended, or does not look at the template's spec, has      *)
(* nothing to move.                                                        *)
LEMMA RestingOK == ASSUME pc' \notin {"resolve", "patch"} PROVE RunMoves'
BY DEF RunMoves

LEMMA UserMoves == ASSUME MovesInv, User, UNCHANGED <<worker, endpoint>>, IInv' PROVE Moves
<1>1. PICK o \in Object : UserStep(o) /\ (KeepsObject(o) \/ Replaces(o))
  BY UserShape DEF MovesInv
<1>2. log' = Append(log, o) /\ seen' = seen
  BY <1>1 DEF UserStep
<1>3. Server' = o /\ pt' = pt
  BY <1>2, Basics, AppendProperties DEF Server, pt, worker, MovesInv
<1>4. RunMoves'
  <2>1. CASE pc \in {"resolve", "patch"}
    <3>1. Server.finalizer
      BY <2>1 DEF MovesInv, IInv, RunOK
    <3>2. o.status = Server.status
      BY <1>1, <3>1 DEF KeepsObject, Replaces
    <3>. QED  BY <1>3, <3>2 DEF MovesInv, RunMoves, worker
  <2>2. CASE pc \notin {"resolve", "patch"}
    BY <2>2, RestingOK DEF worker
  <2>. QED  BY <2>1, <2>2
<1>5. GoesOn(o) \/ Starts(o)
  BY <1>1 DEF KeepsObject, Replaces, GoesOn, Starts, NoTemplate
<1>. QED  BY <1>2, <1>4, <1>5, AppendOK

LEMMA UndisturbedOK ==
  ASSUME MovesInv, log' = log, seen' \in seen .. Len(log), IInv', UNCHANGED worker
  PROVE  Moves
<1>1. Server' = Server /\ pt' = pt
  BY DEF Server, pt, worker
<1>2. RunMoves'
  BY <1>1 DEF MovesInv, RunMoves, worker
<1>. QED  BY <1>2, StillOK

(* A run that begins has read a generation that is not older than the      *)
(* observed one.                                                           *)
LEMMA ReconcileMoves == ASSUME MovesInv, Reconcile, IInv' PROVE Moves
<1>1. /\ seen \in 1 .. Len(log) /\ Len(log) \in Nat /\ Cached \in Object
      /\ Protects(Cached)
  BY Basics, Known DEF MovesInv
<1>2. log' = log /\ seen' = seen /\ seen \in seen .. Len(log)
  BY <1>1 DEF Reconcile
<1>3. CASE pc' = "idle"
  BY <1>2, <1>3, RestingOK, StillOK
<1>4. CASE pc' = Branch(Cached) /\ read' = seen
  <2>1. pc' # "patch" /\ (pc' = "resolve" => Live(Cached) /\ Cached.finalizer)
    BY <1>1, <1>4 DEF Branch, Live, Exists, Object
  <2>2. Server' = Server /\ pt' = Cached
    BY <1>2, <1>4 DEF Server, pt, Cached
  <2>3. pc' = "resolve" => Server.status.obs <= Cached.gen
    BY <1>1, <1>2, <2>1 DEF Protects, Live, Exists, MovesInv, ObsOK, Cached
  <2>4. RunMoves'
    BY <2>1, <2>2, <2>3 DEF RunMoves
  <2>. QED  BY <1>2, <2>4, StillOK
<1>. QED  BY <1>3, <1>4 DEF Reconcile, End

(* A run that ends: it has written nothing, or a version that goes on. *)
LEMMA EndingOK ==
  ASSUME MovesInv, IInv', pc' = "idle", seen' = seen,
         \/ log' = log
         \/ \E o \in Object : log' = Append(log, o) /\ (GoesOn(o) \/ Starts(o))
  PROVE  Moves
<1>1. RunMoves'
  BY RestingOK
<1>2. CASE log' = log
  <2>1. seen' \in seen .. Len(log)
    BY Basics DEF MovesInv
  <2>. QED  BY <1>1, <1>2, <2>1, StillOK
<1>. QED  BY <1>1, <1>2, AppendOK

LEMMA AddFinalizerMoves == ASSUME MovesInv, AddFinalizer, IInv' PROVE Moves
<1>. DEFINE o == [pt EXCEPT !.finalizer = TRUE]
<1>1. /\ pc' = "idle" /\ seen' = seen /\ Live(pt) /\ pt \in Object
      /\ log' = log \/ (log' = Append(log, o) /\ pt = Server)
  BY Basics DEF AddFinalizer, EndRequeued, End, Written, UpToDate, pt, Server,
                MovesInv, IInv, RunOK
<1>2. CASE log' = Append(log, o) /\ pt = Server
  <2>1. o \in Object /\ o.uid = Server.uid /\ o.gen = Server.gen /\ o.status = Server.status
    BY <1>1, <1>2 DEF Object
  <2>. HIDE DEF o
  <2>2. GoesOn(o)
    BY <1>1, <1>2, <2>1, MovesTypes DEF GoesOn, Live, MovesInv
  <2>. QED  BY <1>1, <1>2, <2>1, <2>2, EndingOK
<1>. QED  BY <1>1, <1>2, EndingOK

LEMMA ResolveMoves == ASSUME MovesInv, ResolveEndpoint, IInv' PROVE Moves
<1>1. CASE pc' = "patch" /\ UNCHANGED <<log, seen, read>>
  <2>1. Server' = Server /\ pt' = pt /\ seen' \in seen .. Len(log)
    BY <1>1, Basics DEF Server, pt, MovesInv
  <2>2. RunMoves'
    BY <1>1, <2>1 DEF MovesInv, RunMoves, ResolveEndpoint
  <2>. QED  BY <1>1, <2>1, <2>2, StillOK
<1>2. CASE EndRequeued /\ UNCHANGED log
  BY <1>2, EndingOK DEF EndRequeued, End
<1>. QED  BY <1>1, <1>2 DEF ResolveEndpoint

(* The patch carries the observed generation forward: to the one the run   *)
(* has read, or not at all.                                                *)
LEMMA PatchStatusMoves == ASSUME MovesInv, PatchStatus, IInv' PROVE Moves
<1>1. /\ pc' = "idle" /\ seen' = seen /\ pc = "patch"
      /\ log' = log \/ log' = Append(log, Patched)
  BY DEF PatchStatus, EndRequeued, End, Written
<1>2. CASE log' = Append(log, Patched)
  <2>1. /\ Server \in Object /\ pt \in Object /\ Live(pt) /\ Server.uid = pt.uid
        /\ Server.status.obs <= pt.gen
    BY <1>1, Basics DEF MovesInv, IInv, RunOK, RunMoves
  <2>2. Patched \in Object /\ Patched.uid = Server.uid
    BY <1>1, PatchedShape DEF MovesInv
  <2>3. /\ Patched.gen = Server.gen
        /\ Patched.status.obs = Merged(Server.status.obs, pt.status.obs, pt.gen)
    BY <2>1 DEF Patched, Object
  <2>4. GoesOn(Patched)
    BY <2>1, <2>2, <2>3, MovesTypes DEF GoesOn, Merged, Live, Exists, MovesInv
  <2>. QED  BY <1>1, <1>2, <2>2, <2>4, EndingOK
<1>. QED  BY <1>1, <1>2, EndingOK

LEMMA RemoveFinalizerMoves == ASSUME MovesInv, RemoveFinalizer, IInv' PROVE Moves
<1>. DEFINE d == [pt EXCEPT !.finalizer = FALSE]
<1>1. /\ pc' = "idle" /\ seen' = seen /\ pt \in Object
      /\ log' = log \/ (log' = Append(log, Collected(d)) /\ pt = Server)
  BY Basics DEF RemoveFinalizer, EndRequeued, End, Written, UpToDate, pt, Server, MovesInv
<1>2. CASE log' = Append(log, Collected(d)) /\ pt = Server
  <2>1. d \in Object /\ d.uid = Server.uid /\ d.gen = Server.gen /\ d.status = Server.status
    BY <1>1, <1>2 DEF Object
  <2>. HIDE DEF d
  <2>2. Collected(d) \in Object /\ (Collected(d) = d \/ Collected(d) = Gone)
    BY <2>1, CollectedShape
  <2>3. GoesOn(Collected(d)) \/ Starts(Collected(d))
    BY <2>1, <2>2, GoneType, MovesTypes DEF GoesOn, Starts, Exists, MovesInv
  <2>. QED  BY <1>1, <1>2, <2>2, <2>3, EndingOK
<1>. QED  BY <1>1, <1>2, EndingOK

LEMMA MovesInit == Init => MovesInv
<1>. SUFFICES ASSUME Init PROVE MovesInv
  OBVIOUS
<1>1. /\ log = <<Gone>> /\ Len(log) = 1 /\ Server = Gone /\ pc = "idle" /\ Gone.uid = 0
  BY DEF Init, ApiInit, Server, Gone
<1>2. GenOK /\ ObsOK /\ RunMoves
  BY <1>1 DEF GenOK, ObsOK, RunMoves, Exists
<1>. QED  BY <1>2, InitOK DEF MovesInv

LEMMA StepMoves == MovesInv /\ [Next]_vars => Moves
<1>. SUFFICES ASSUME MovesInv, [Next]_vars PROVE Moves
  OBVIOUS
<1>1. IInv'
  BY NextKeeps DEF MovesInv
<1>2. CASE Worker
  BY <1>1, <1>2, ReconcileMoves, AddFinalizerMoves, ResolveMoves, PatchStatusMoves,
     RemoveFinalizerMoves
  DEF Worker
<1>3. CASE User /\ UNCHANGED <<worker, endpoint>>
  BY <1>1, <1>3, UserMoves
<1>4. CASE \/ (Deliver \/ TimerFires) /\ UNCHANGED <<worker, endpoint>>
           \/ EndpointChanges \/ UNCHANGED vars
  <2>1. log' = log /\ seen' \in seen .. Len(log) /\ UNCHANGED worker
    BY <1>4, Basics DEF Deliver, TimerFires, EndpointChanges, vars, apiVars, MovesInv
  <2>. QED  BY <1>1, <2>1, UndisturbedOK
<1>5. CASE Crash
  <2>1. log' = log /\ seen' \in seen .. Len(log) /\ pc' = "idle"
    BY <1>5 DEF Crash, Relist, End
  <2>. QED  BY <1>1, <2>1, RestingOK, StillOK
<1>. QED  BY <1>2, <1>3, <1>4, <1>5 DEF Next, Api

(* A run on a stale template takes nothing back: however the cache lags    *)
(* and wherever a run is cut off, the observed generation of an            *)
(* incarnation never decreases and never passes the generation, and a      *)
(* verdict once given is there for good                                    *)
(* (prompttemplate_controller.go:69-130).                                  *)
THEOREM StatusCorrect == Spec => StatusMovesOn
<1>1. Init => MovesInv
  BY MovesInit
<1>2. MovesInv /\ [Next]_vars => MovesInv' /\ MovesOn
  BY StepMoves DEF Moves
<1>. QED  BY <1>1, <1>2, PTL DEF Spec, StatusMovesOn, MovesOn
=============================================================================
