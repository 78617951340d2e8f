----------------------- MODULE GuardrailPolicy_proofs -----------------------
(***************************************************************************)
(* What GuardrailPolicy promises for every value of its constants: the     *)
(* type invariant, DeleteBeforeRelease and RecordedIsOwn, and of its steps *)
(* StatusMovesOn and LiveGuardrailKept.                                    *)
(***************************************************************************)
EXTENDS GuardrailPolicy, SequenceTheorems, TLAPS

(* The versions of the policy.  uid 0 is "no object"; a recorded id names  *)
(* a guardrail of the same incarnation; deletion is not taken back; and a  *)
(* version not older than the cache that holds the finalizer and is not    *)
(* being deleted proves that the server still holds that incarnation.      *)
VersionOK(o) ==
    /\ o.uid <= Len(log)
    /\ o.uid = 0 => ~o.finalizer /\ ~o.deleting /\ o.status.id = 0
    /\ o.status.id \in 0 .. Len(guardrails)
    /\ o.status.id # 0 => guardrails[o.status.id].owner = o.uid
    /\ o.uid = Server.uid /\ o.deleting => Server.deleting

Protects(o) ==
    Live(o) /\ o.finalizer => Server.uid = o.uid /\ Server.finalizer

LogOK ==
    /\ \A i \in 1 .. Len(log) : VersionOK(log[i])
    /\ \A i \in seen .. Len(log) : Protects(log[i])

(* A guardrail the operator asked Bedrock to delete is not the one of a    *)
(* live policy.                                                            *)
AskedOK ==
    \A g \in 1 .. Len(guardrails) :
        guardrails[g].asked => ~(Live(Server) /\ Server.status.id = g)

(* What the run knows about its object between two calls. *)
RunOK ==
    /\ pc \in {"create", "update", "patch"} =>
          Live(gp) /\ Server.uid = gp.uid /\ Server.finalizer
    /\ pc = "adopt" => Live(gp)
    /\ pc = "update" => gp.status.id # 0
    /\ pc = "patch" /\ next.id # gp.status.id =>
          /\ next.id \in 1 .. Len(guardrails)
          /\ guardrails[next.id].owner = gp.uid
          /\ ~guardrails[next.id].asked
    /\ pc \in {"delete", "release"} => gp.deleting /\ gp.finalizer
    /\ pc = "delete" => gp.status.id # 0
    /\ pc = "release" /\ gp.status.id # 0 => guardrails[gp.status.id].asked

IInv == TypeOK /\ LogOK /\ AskedOK /\ RunOK /\ DeleteBeforeRelease

-----------------------------------------------------------------------------
(* Appending a version keeps the others and makes it the server's. *)
LEMMA AppendVersion ==
  ASSUME NEW o \in Object, log \in Seq(Object), Len(log) > 0
  PROVE  /\ Append(log, o) \in Seq(Object)
         /\ Len(Append(log, o)) = Len(log) + 1
         /\ \A i \in 1 .. Len(log) : Append(log, o)[i] = log[i]
         /\ Append(log, o)[Len(log) + 1] = o
  BY AppendProperties

(* A status patch keeps the object's type and touches only its status. *)
LEMMA PatchedType ==
  ASSUME gp \in Object, next \in GuardrailStatus, Server \in Object
  PROVE  /\ Patched \in Object
         /\ \A f \in {"uid", "gen", "deleting", "finalizer"} :
               Patched[f] = Server[f]
         /\ Patched.status.id = Merged(Server.status.id, gp.status.id, next.id)
  BY DEF Patched, Merged, Object, GuardrailStatus

(* Collecting an object yields an object; what is left of it is the object *)
(* itself or the absent one. *)
LEMMA CollectedType ==
  ASSUME NEW o \in Object, Specs # {}
  PROVE  /\ Collected(o) \in Object
         /\ Collected(o) = o \/ (Collected(o) = Gone /\ ~o.finalizer)
  BY DEF Collected, Object, Gone, NoGuardrail, GuardrailStatus

(* The initial state satisfies the inductive invariant. *)
LEMMA InitOK == Init => IInv
<1> SUFFICES ASSUME Init PROVE IInv
  OBVIOUS
<1>1. Gone \in Object
  BY ConstantsAssumption DEF Gone, Object, NoGuardrail, GuardrailStatus
<1>2. /\ Len(log) = 1 /\ Server = Gone /\ gp = Gone /\ Len(guardrails) = 0
      /\ log \in Seq(Object) /\ guardrails \in Seq(Guardrail)
      /\ \A i \in 1 .. Len(log) : log[i] = Gone
  BY <1>1 DEF Init, ApiInit, Server, gp
<1>3. /\ Gone.uid = 0 /\ ~Gone.finalizer /\ ~Gone.deleting
      /\ Gone.status.id = 0
  BY DEF Gone, NoGuardrail
<1>4. TypeOK
  <2>a. queued \in BOOLEAN /\ timer \in BOOLEAN
    BY DEF Init, ApiInit
  <2>b. seen \in 1 .. Len(log) /\ edits \in 0 .. MaxEdits /\ faults \in 0 .. MaxFaults
    BY <1>2, ConstantsAssumption DEF Init, ApiInit
  <2>1. ApiTypeOK
    BY <1>2, <2>a, <2>b DEF ApiTypeOK
  <2>2. next \in GuardrailStatus
    BY DEF Init, GuardrailStatus, NoGuardrail
  <2>3. pc \in Steps /\ read \in 1 .. seen
    BY DEF Init, ApiInit, Steps
  <2> QED
    BY <1>2, <1>3, <2>1, <2>2, <2>3 DEF TypeOK
<1>5. LogOK
  BY <1>2, <1>3 DEF LogOK, VersionOK, Protects, Live, Exists, Init, ApiInit
<1>6. AskedOK /\ RunOK /\ DeleteBeforeRelease
  BY <1>2 DEF AskedOK, RunOK, DeleteBeforeRelease, Init
<1> QED
  BY <1>4, <1>5, <1>6 DEF IInv

-----------------------------------------------------------------------------
(* The log grows by one version: what the new version must satisfy for the *)
(* log to stay in order and for DeleteBeforeRelease to hold.               *)
LEMMA Extend ==
  ASSUME TypeOK, LogOK, DeleteBeforeRelease,
         NEW o \in Object, log' = Append(log, o), seen' = seen,
         guardrails' = guardrails,
         o.uid <= Len(log) + 1,
         o.uid = 0 => ~o.finalizer /\ ~o.deleting /\ o.status.id = 0,
         o.status.id \in 0 .. Len(guardrails),
         o.status.id # 0 => guardrails[o.status.id].owner = o.uid,
         \A i \in 1 .. Len(log) :
             log[i].uid = o.uid /\ log[i].deleting => o.deleting,
         \A i \in seen .. Len(log) :
             Live(log[i]) /\ log[i].finalizer => o.uid = log[i].uid /\ o.finalizer,
         Server.finalizer /\ ~o.finalizer /\ Server.status.id # 0
             => guardrails[Server.status.id].asked
  PROVE  /\ log' \in Seq(Object) /\ Len(log') = Len(log) + 1
         /\ Server' = o
         /\ \A i \in 1 .. Len(log) : log'[i] = log[i]
         /\ LogOK' /\ DeleteBeforeRelease'
<1>1. /\ log \in Seq(Object) /\ Len(log) \in Nat /\ Len(log) > 0
      /\ seen \in 1 .. Len(log)
  BY LenProperties DEF TypeOK, ApiTypeOK
<1>2. /\ log' \in Seq(Object) /\ Len(log') = Len(log) + 1
      /\ \A i \in 1 .. Len(log) : log'[i] = log[i]
      /\ log'[Len(log) + 1] = o
  BY <1>1, AppendVersion
<1>3. Server' = o
  BY <1>2 DEF Server
<1>4. ASSUME NEW i \in 1 .. Len(log')  PROVE VersionOK(log[i])'
  <2>1. CASE i = Len(log) + 1
    BY <1>1, <1>2, <1>3, <2>1 DEF VersionOK
  <2>2. CASE i \in 1 .. Len(log)
    <3>1. VersionOK(log[i]) /\ log'[i] = log[i]
      BY <1>2, <2>2 DEF LogOK
    <3>a. log[i] \in Object
      BY <1>1, <2>2, ElementOfSeq
    <3>2. log[i].uid \in Nat
      BY <3>a DEF Object
    <3>3. Len(log') \in Nat /\ log[i].uid <= Len(log')
      BY <1>1, <1>2, <3>1, <3>2 DEF VersionOK
    <3>4. log[i].uid = o.uid /\ log[i].deleting => o.deleting
      BY <2>2
    <3> QED
      BY <1>3, <3>1, <3>3, <3>4 DEF VersionOK
  <2> QED
    BY <1>1, <1>2, <2>1, <2>2
<1>5. ASSUME NEW i \in seen' .. Len(log')  PROVE Protects(log[i])'
  BY <1>1, <1>2, <1>3 DEF Protects, Live, Exists
<1>6. DeleteBeforeRelease'
  <2>1. ASSUME NEW i \in 1 .. Len(log') - 1,
               log'[i].finalizer, ~log'[i + 1].finalizer, log'[i].status.id # 0
        PROVE  guardrails'[log'[i].status.id].asked
    <3>1. CASE i = Len(log)
      BY <1>1, <1>2, <2>1, <3>1 DEF Server
    <3>2. CASE i \in 1 .. Len(log) - 1
      BY <1>1, <1>2, <2>1, <3>2 DEF DeleteBeforeRelease
    <3> QED
      BY <1>1, <1>2, <3>1, <3>2
  <2> QED
    BY <2>1 DEF DeleteBeforeRelease
<1> QED
  BY <1>2, <1>3, <1>4, <1>5, <1>6 DEF LogOK

(* The log stays: the cache may move forward, guardrails may be added or   *)
(* change their content, and a call of DeleteGuardrail is not forgotten.   *)
LEMMA Keep ==
  ASSUME TypeOK, LogOK, DeleteBeforeRelease,
         log' = log, seen' \in seen .. Len(log), seen \in Nat,
         Len(guardrails') \in Nat, Len(guardrails') >= Len(guardrails),
         \A g \in 1 .. Len(guardrails) :
             /\ guardrails'[g].owner = guardrails[g].owner
             /\ guardrails[g].asked => guardrails'[g].asked
  PROVE  /\ Server' = Server
         /\ LogOK' /\ DeleteBeforeRelease'
<1>1. /\ log \in Seq(Object) /\ Len(log) \in Nat /\ Len(log) > 0
      /\ seen \in 1 .. Len(log) /\ Len(guardrails) \in Nat
  BY LenProperties DEF TypeOK, ApiTypeOK
<1>2. Server' = Server
  BY DEF Server
<1>3. ASSUME NEW i \in 1 .. Len(log)  PROVE VersionOK(log[i])'
  BY <1>1, <1>2 DEF LogOK, VersionOK
<1>4. ASSUME NEW i \in seen' .. Len(log)  PROVE Protects(log[i])'
  BY <1>1, <1>2 DEF LogOK, Protects, Live, Exists
<1>5. DeleteBeforeRelease'
  <2>1. ASSUME NEW i \in 1 .. Len(log) - 1
        PROVE  log[i].status.id \in 0 .. Len(guardrails)
    BY <1>1 DEF LogOK, VersionOK
  <2>2. ASSUME NEW i \in 1 .. Len(log) - 1,
               log[i].finalizer, ~log[i + 1].finalizer, log[i].status.id # 0
        PROVE  guardrails'[log[i].status.id].asked
    <3>1. guardrails[log[i].status.id].asked
      BY <2>2 DEF DeleteBeforeRelease
    <3> QED
      BY <1>1, <2>1, <2>2, <3>1
  <2> QED
    BY <2>2 DEF DeleteBeforeRelease
<1> QED
  BY <1>2, <1>3, <1>4, <1>5 DEF LogOK

(* Between two runs the worker knows nothing. *)
LEMMA IdleOK == ASSUME pc' = "idle" PROVE RunOK'
  BY DEF RunOK

-----------------------------------------------------------------------------
(* What a step that leaves worker and guardrails alone needs to show. *)
LEMMA Bystander ==
  ASSUME IInv, UNCHANGED <<worker, guardrails>>,
         log' \in Seq(Object), Len(log') >= Len(log),
         \A i \in 1 .. Len(log) : log'[i] = log[i],
         ApiTypeOK', seen' >= seen, LogOK', DeleteBeforeRelease',
         Live(Server') /\ Server'.status.id # 0 =>
             Live(Server) /\ Server'.status.id = Server.status.id,
         Server.finalizer => Server'.finalizer /\ Server'.uid = Server.uid,
         pc \in {"create", "update", "patch"} => Server.finalizer
  PROVE  IInv'
<1>1. /\ log \in Seq(Object) /\ Len(log) \in Nat /\ seen \in 1 .. Len(log)
      /\ read \in 1 .. seen
  BY LenProperties DEF IInv, TypeOK, ApiTypeOK
<1>2. gp' = gp
  BY <1>1 DEF gp, worker
<1>3. Server'.status.id \in 0 .. Len(guardrails)
  <2>1. Len(log') \in 1 .. Len(log')
    BY <1>1 DEF ApiTypeOK
  <2> QED
    BY <2>1 DEF LogOK, VersionOK, Server
<1>4. TypeOK'
  BY <1>1, <1>3 DEF TypeOK, ApiTypeOK, IInv, worker
<1>5. AskedOK'
  BY DEF AskedOK, IInv
<1>6. RunOK'
  BY <1>2 DEF RunOK, IInv, worker
<1> QED
  BY <1>4, <1>5, <1>6 DEF IInv

(* The state's parts have their types, as the other steps use them. *)
LEMMA Basics ==
  ASSUME IInv
  PROVE  /\ log \in Seq(Object) /\ Len(log) \in Nat /\ Len(log) > 0
         /\ seen \in 1 .. Len(log) /\ read \in 1 .. seen
         /\ Server \in Object /\ gp \in Object /\ Cached \in Object
         /\ \A i \in 1 .. Len(log) : log[i] \in Object
         /\ guardrails \in Seq(Guardrail) /\ Len(guardrails) \in Nat
<1>1. /\ log \in Seq(Object) /\ Len(log) \in Nat /\ Len(log) > 0
      /\ seen \in 1 .. Len(log) /\ read \in 1 .. seen
      /\ guardrails \in Seq(Guardrail) /\ Len(guardrails) \in Nat
  BY LenProperties DEF IInv, TypeOK, ApiTypeOK
<1>2. \A i \in 1 .. Len(log) : log[i] \in Object
  BY <1>1, ElementOfSeq
<1> QED
  BY <1>1, <1>2 DEF Server, gp, Cached

KeepsPolicy(o) ==
    /\ o.uid = Server.uid /\ Exists(Server)
    /\ Server.deleting => o.deleting
    /\ o.finalizer = Server.finalizer /\ o.status = Server.status
    /\ Server.gen <= o.gen

ReplacesUnguarded(o) ==
    /\ ~Server.finalizer /\ ~o.finalizer /\ ~o.deleting
    /\ o.status.id = 0 /\ o.status.obs = 0
    /\ o.uid = 0 \/ o.uid = Len(log) + 1

(* A write by a user either keeps finalizer, status and deletion of the    *)
(* incarnation, or replaces an object without the operator's finalizer.    *)
LEMMA UserWrite ==
  ASSUME IInv, NEW o \in Object, UserStep(o), UNCHANGED <<worker, guardrails>>,
         KeepsPolicy(o) \/ ReplacesUnguarded(o)
  PROVE  IInv'
<1>1. /\ log' = Append(log, o) /\ seen' = seen /\ guardrails' = guardrails
      /\ queued' = queued /\ timer' = timer /\ faults' = faults
      /\ edits' = edits + 1 /\ edits < MaxEdits
  BY DEF UserStep
<1>2. TypeOK /\ ApiTypeOK /\ LogOK /\ DeleteBeforeRelease
  BY DEF IInv, TypeOK
<1>3. /\ VersionOK(Server)
      /\ \A i \in 1 .. Len(log) : VersionOK(log[i]) /\ log[i].uid \in Nat
      /\ \A i \in seen .. Len(log) : Protects(log[i])
      /\ o.uid \in Nat
  BY Basics DEF LogOK, Server, IInv, Object
<1>4. \A i \in 1 .. Len(log) : log[i].uid = o.uid /\ log[i].deleting => o.deleting
  BY <1>3, Basics DEF VersionOK, KeepsPolicy, ReplacesUnguarded
<1>5. \A i \in seen .. Len(log) :
          Live(log[i]) /\ log[i].finalizer => o.uid = log[i].uid /\ o.finalizer
  BY <1>3 DEF Protects, KeepsPolicy, ReplacesUnguarded
<1>6. /\ o.uid <= Len(log) + 1
      /\ o.uid = 0 => ~o.finalizer /\ ~o.deleting /\ o.status.id = 0
      /\ o.status.id \in 0 .. Len(guardrails)
      /\ o.status.id # 0 => guardrails[o.status.id].owner = o.uid
      /\ Server.finalizer => o.finalizer
  BY <1>3, Basics DEF VersionOK, Exists, KeepsPolicy, ReplacesUnguarded
<1>7. /\ log' \in Seq(Object) /\ Len(log') = Len(log) + 1
      /\ Server' = o
      /\ \A i \in 1 .. Len(log) : log'[i] = log[i]
      /\ LogOK' /\ DeleteBeforeRelease'
  BY <1>1, <1>2, <1>4, <1>5, <1>6, Extend
<1>8. ApiTypeOK'
  <2>1. edits' \in 0 .. MaxEdits
    BY <1>1, <1>2, ConstantsAssumption DEF ApiTypeOK
  <2>2. seen' \in 1 .. Len(log') /\ Len(log') > 0
    BY <1>1, <1>7, Basics
  <2> QED
    BY <1>1, <1>2, <1>7, <2>1, <2>2 DEF ApiTypeOK
<1>9. pc \in {"create", "update", "patch"} => Server.finalizer
  BY DEF IInv, RunOK
<1>10. Live(o) /\ o.status.id # 0 =>
          Live(Server) /\ o.status.id = Server.status.id
  BY DEF Live, Exists, KeepsPolicy, ReplacesUnguarded
<1>11. Server.finalizer => o.finalizer /\ o.uid = Server.uid
  BY DEF KeepsPolicy, ReplacesUnguarded
<1> QED
  BY <1>1, <1>7, <1>8, <1>9, <1>10, <1>11, Basics, Bystander

(* What users and other controllers do is one or the other. *)
LEMMA UserShape ==
  ASSUME IInv, User
  PROVE  \E o \in Object : UserStep(o) /\ (KeepsPolicy(o) \/ ReplacesUnguarded(o))
<1>1. /\ Server \in Object /\ Len(log) \in Nat
      /\ Gone \in Object /\ Gone.uid = 0 /\ ~Gone.finalizer /\ ~Gone.deleting
      /\ Gone.status.id = 0 /\ Gone.status.obs = 0
  BY Basics, ConstantsAssumption
  DEF Gone, Object, NoGuardrail, GuardrailStatus
<1>2. ~Exists(Server) => ~Server.finalizer
  BY Basics DEF IInv, LogOK, VersionOK, Server, Exists
<1>3. CASE UserCreate
  <2>1. PICK s \in Specs, h \in BOOLEAN :
           UserStep([uid |-> Len(log) + 1, gen |-> 1, spec |-> s,
                     deleting |-> FALSE, finalizer |-> FALSE, held |-> h,
                     status |-> NoGuardrail])
    BY <1>3 DEF UserCreate
  <2> DEFINE o == [uid |-> Len(log) + 1, gen |-> 1, spec |-> s,
                   deleting |-> FALSE, finalizer |-> FALSE, held |-> h,
                   status |-> NoGuardrail]
  <2>2. o \in Object
    BY <1>1 DEF Object, NoGuardrail, GuardrailStatus
  <2>3. ReplacesUnguarded(o)
    BY <1>2, <1>3 DEF UserCreate, ReplacesUnguarded, NoGuardrail
  <2>4. UserStep(o)
    BY <2>1
  <2> HIDE DEF o
  <2> QED
    BY <2>2, <2>3, <2>4
<1>4. CASE UserEdit
  <2>1. PICK s \in Specs : UserStep([Server EXCEPT !.spec = s, !.gen = @ + 1])
    BY <1>4 DEF UserEdit
  <2> DEFINE o == [Server EXCEPT !.spec = s, !.gen = @ + 1]
  <2>a. Server.gen \in Nat /\ Server.gen + 1 \in Nat
    BY <1>1 DEF Object
  <2>2. o \in Object
    BY <1>1, <2>a DEF Object
  <2>3. UserStep(o) /\ KeepsPolicy(o)
    BY <1>1, <1>4, <2>1 DEF UserEdit, KeepsPolicy, Object
  <2> HIDE DEF o
  <2> QED
    BY <2>2, <2>3
<1>5. CASE UserDelete
  <2> DEFINE d == [Server EXCEPT !.deleting = TRUE, !.gen = @ + 1]
  <2>1. UserStep(Collected(d)) /\ Exists(Server)
    BY <1>5 DEF UserDelete, Live
  <2>a. Server.gen \in Nat /\ Server.gen + 1 \in Nat
    BY <1>1 DEF Object
  <2>2. d \in Object
    BY <1>1, <2>a DEF Object
  <2>b. KeepsPolicy(d)
    BY <1>1, <2>1 DEF Object, KeepsPolicy
  <2> HIDE DEF d
  <2>3. /\ Collected(d) \in Object
        /\ Collected(d) = d \/ (Collected(d) = Gone /\ ~d.finalizer)
    BY <2>2, CollectedType, ConstantsAssumption
  <2>4. Collected(d) = Gone => ReplacesUnguarded(Collected(d))
    BY <1>1, <2>b, <2>3 DEF KeepsPolicy, ReplacesUnguarded
  <2> QED
    BY <2>1, <2>b, <2>3, <2>4
<1>6. CASE OtherRelease
  <2> DEFINE d == [Server EXCEPT !.held = FALSE]
  <2>1. UserStep(Collected(d)) /\ Exists(Server)
    BY <1>6 DEF OtherRelease
  <2>a. Server.gen \in Nat
    BY <1>1 DEF Object
  <2>2. d \in Object /\ KeepsPolicy(d)
    <3>1. /\ d \in Object /\ d.uid = Server.uid /\ d.gen = Server.gen
          /\ d.deleting = Server.deleting /\ d.finalizer = Server.finalizer
          /\ d.status = Server.status
      BY <1>1 DEF Object
    <3>2. Server.gen <= Server.gen
      BY <2>a
    <3> HIDE DEF d
    <3> QED
      BY <2>1, <3>1, <3>2 DEF KeepsPolicy
  <2> HIDE DEF d
  <2>3. /\ Collected(d) \in Object
        /\ Collected(d) = d \/ (Collected(d) = Gone /\ ~d.finalizer)
    BY <2>2, CollectedType, ConstantsAssumption
  <2>4. Collected(d) = Gone => ReplacesUnguarded(Collected(d))
    BY <1>1, <2>2, <2>3 DEF KeepsPolicy, ReplacesUnguarded
  <2> QED
    BY <2>1, <2>2, <2>3, <2>4
<1> QED
  BY <1>3, <1>4, <1>5, <1>6 DEF User

LEMMA UserOK == ASSUME IInv, User, UNCHANGED <<worker, guardrails>> PROVE IInv'
BY UserShape, UserWrite

-----------------------------------------------------------------------------
(* The types of a step that users do not take. *)
LEMMA Typed ==
  ASSUME IInv, log' \in Seq(Object), Len(log') \in Nat, Len(log') >= Len(log),
         seen' \in seen .. Len(log'), queued' \in BOOLEAN, timer' \in BOOLEAN,
         edits' = edits, faults' = faults \/ Fault,
         pc' \in Steps, read' \in 1 .. seen', next' \in GuardrailStatus,
         guardrails' \in Seq(Guardrail), LogOK'
  PROVE  TypeOK'
<1>1. /\ Len(log) > 0 /\ seen \in 1 .. Len(log) /\ Len(log) \in Nat
  BY Basics
<1>2. faults' \in 0 .. MaxFaults
  BY ConstantsAssumption DEF Fault, IInv, TypeOK, ApiTypeOK
<1>3. edits' \in 0 .. MaxEdits
  BY DEF IInv, TypeOK, ApiTypeOK
<1>4. seen' \in 1 .. Len(log') /\ Len(log') > 0
  BY <1>1
<1>5. Server'.status.id \in 0 .. Len(guardrails')
  <2>1. Len(log') \in 1 .. Len(log')
    BY <1>4
  <2> QED
    BY <2>1 DEF LogOK, VersionOK, Server
<1>6. ApiTypeOK'
  BY <1>2, <1>3, <1>4 DEF ApiTypeOK
<1> QED
  BY <1>5, <1>6 DEF TypeOK

(* A run that ends without writing the object. *)
LEMMA EndsOK ==
  ASSUME IInv, End, log' = log, seen' \in seen .. Len(log),
         queued' \in BOOLEAN, timer' \in BOOLEAN, edits' = edits,
         faults' = faults \/ Fault, guardrails' = guardrails
  PROVE  IInv'
<1>1. /\ log' \in Seq(Object) /\ Len(log') \in Nat /\ Len(log') >= Len(log)
      /\ seen \in Nat /\ seen >= 1 /\ guardrails' \in Seq(Guardrail)
      /\ Len(guardrails') \in Nat
  BY Basics
<1>2. Server' = Server /\ LogOK' /\ DeleteBeforeRelease'
  BY <1>1, Keep DEF IInv
<1>3. pc' \in Steps /\ read' \in 1 .. seen' /\ next' \in GuardrailStatus
  <2>1. NoGuardrail \in GuardrailStatus
    BY DEF NoGuardrail, GuardrailStatus
  <2>2. read' \in 1 .. seen'
    BY <1>1, Basics DEF End
  <2> QED
    BY <2>1, <2>2 DEF End, Steps
<1>4. TypeOK'
  BY <1>1, <1>2, <1>3, Typed
<1>5. AskedOK'
  BY <1>2 DEF AskedOK, IInv
<1> QED
  BY <1>2, <1>4, <1>5, IdleOK DEF IInv, End

(* A run that ends with a write: the new version keeps uid and deletion of *)
(* the server's object, or is what is left of it without the finalizer.    *)
LEMMA EndsWriting ==
  ASSUME IInv, End, NEW o \in Object, log' = Append(log, o), seen' = seen,
         queued' \in BOOLEAN, timer' \in BOOLEAN, edits' = edits,
         faults' = faults \/ Fault, guardrails' = guardrails,
         o.uid = Server.uid \/ o = Gone,
         o.uid = Server.uid /\ Server.deleting => o.deleting,
         o.uid = 0 => ~o.finalizer /\ ~o.deleting /\ o.status.id = 0,
         o.status.id # 0 =>
             /\ o.status.id \in 1 .. Len(guardrails)
             /\ guardrails[o.status.id].owner = o.uid
             /\ Live(o) => ~guardrails[o.status.id].asked,
         \/ Server.finalizer => o.finalizer /\ o.uid = Server.uid
         \/ /\ seen = Len(log) /\ Server.deleting
            /\ Server.status.id # 0 => guardrails[Server.status.id].asked
  PROVE  IInv'
<1>1. /\ log \in Seq(Object) /\ Len(log) \in Nat /\ Len(log) > 0
      /\ seen \in 1 .. Len(log)
      /\ guardrails \in Seq(Guardrail) /\ Len(guardrails) \in Nat
      /\ \A i \in 1 .. Len(log) : log[i] \in Object
      /\ Server = log[Len(log)]
  BY Basics DEF Server
<1>b. o.uid \in Nat /\ o.status.id \in Nat
  BY DEF Object, GuardrailStatus
<1>c. \A i \in 1 .. Len(log) : log[i].uid \in Nat
  BY <1>1 DEF Object
<1>2. /\ \A i \in 1 .. Len(log) : VersionOK(log[i]) /\ log[i].uid \in Nat
      /\ \A i \in seen .. Len(log) : Protects(log[i])
      /\ VersionOK(Server) /\ o.uid \in Nat /\ o.status.id \in Nat
  BY <1>1, <1>b, <1>c DEF IInv, LogOK
<1>3. Gone.uid = 0
  BY DEF Gone
<1>a. Server.uid <= Len(log) /\ Server.uid \in Nat
  BY <1>1, <1>2 DEF VersionOK
<1>4. o.uid <= Len(log) + 1 /\ o.status.id \in 0 .. Len(guardrails)
  BY <1>a, <1>1, <1>2, <1>3
<1>5. ASSUME NEW i \in 1 .. Len(log), log[i].uid = o.uid, log[i].deleting
      PROVE  o.deleting
  BY <1>2, <1>3, <1>5 DEF VersionOK
<1>6. ASSUME NEW i \in seen .. Len(log), Live(log[i]), log[i].finalizer
      PROVE  o.uid = log[i].uid /\ o.finalizer
  BY <1>1, <1>2, <1>6 DEF Protects, Live
<1>7. Server.finalizer /\ ~o.finalizer /\ Server.status.id # 0
          => guardrails[Server.status.id].asked
  OBVIOUS
<1>8. /\ log' \in Seq(Object) /\ Len(log') = Len(log) + 1
      /\ Server' = o
      /\ LogOK' /\ DeleteBeforeRelease'
  BY <1>4, <1>5, <1>6, <1>7, Extend DEF IInv
<1>9. pc' \in Steps /\ read' \in 1 .. seen' /\ next' \in GuardrailStatus
  <2>1. NoGuardrail \in GuardrailStatus
    BY DEF NoGuardrail, GuardrailStatus
  <2>2. read' \in 1 .. seen'
    BY <1>1 DEF End
  <2> QED
    BY <2>1, <2>2 DEF End, Steps
<1>10. TypeOK'
  <2>1. Len(log') \in Nat /\ Len(log') >= Len(log) /\ seen' \in seen .. Len(log')
    BY <1>1, <1>8
  <2> QED
    BY <1>1, <1>8, <1>9, <2>1, Typed
<1>11. AskedOK'
  BY <1>1, <1>8 DEF AskedOK, IInv
<1> QED
  BY <1>8, <1>10, <1>11, IdleOK DEF IInv, End

-----------------------------------------------------------------------------
(* The watch and the timers. *)
LEMMA QueueOK ==
  ASSUME IInv, Deliver \/ TimerFires, UNCHANGED <<worker, guardrails>>
  PROVE  IInv'
<1>1. /\ log \in Seq(Object) /\ Len(log) \in Nat /\ seen \in 1 .. Len(log)
      /\ Len(guardrails) \in Nat
  BY Basics
<1>2. log' = log /\ seen' \in seen .. Len(log) /\ guardrails' = guardrails
  BY <1>1 DEF Deliver, TimerFires
<1>3. Server' = Server /\ LogOK' /\ DeleteBeforeRelease'
  BY <1>1, <1>2, Keep DEF IInv
<1>4. queued' \in BOOLEAN /\ timer' \in BOOLEAN
  BY DEF Deliver, TimerFires, IInv, TypeOK, ApiTypeOK
<1>5. ApiTypeOK'
  BY <1>1, <1>2, <1>4 DEF Deliver, TimerFires, IInv, TypeOK, ApiTypeOK
<1>6. pc \in {"create", "update", "patch"} => Server.finalizer
  BY DEF IInv, RunOK
<1>7. seen' >= seen /\ log' \in Seq(Object) /\ Len(log') >= Len(log)
  BY <1>1, <1>2
<1> QED
  BY <1>2, <1>3, <1>5, <1>6, <1>7, Bystander

(* A crash forgets the run. *)
LEMMA CrashOK == ASSUME IInv, Crash PROVE IInv'
<1>1. /\ log' = log /\ seen' \in seen .. Len(log) /\ guardrails' = guardrails
      /\ queued' \in BOOLEAN /\ timer' \in BOOLEAN /\ edits' = edits
      /\ End /\ Fault
  BY DEF Crash, Relist, Exists
<1> QED
  BY <1>1, EndsOK

(* Every branch of Reconcile fits the object it is taken on. *)
LEMMA BranchOK ==
  ASSUME NEW o \in Object, o.uid = 0 => ~o.finalizer /\ ~o.deleting
  PROVE  /\ Branch(o) \in Steps \ {"patch"}
         /\ Branch(o) \in {"create", "update"} => Live(o) /\ o.finalizer
         /\ Branch(o) = "adopt" => Live(o)
         /\ Branch(o) \in {"update", "delete"} => o.status.id # 0
         /\ Branch(o) \in {"delete", "release"} => o.deleting /\ o.finalizer
         /\ Branch(o) = "release" => o.status.id = 0
  BY DEF Branch, OnDeletion, OnSync, Steps, Live, Exists, Object

(* The worker takes the key: the cached object it works on is a version    *)
(* that protects its incarnation.                                          *)
LEMMA ReconcileOK == ASSUME IInv, Reconcile PROVE IInv'
<1>1. /\ log \in Seq(Object) /\ Len(log) \in Nat /\ seen \in 1 .. Len(log)
      /\ guardrails \in Seq(Guardrail) /\ Len(guardrails) \in Nat
      /\ Cached \in Object /\ timer \in BOOLEAN
  BY Basics DEF IInv, TypeOK, ApiTypeOK
<1>2. /\ log' = log /\ seen' = seen /\ guardrails' = guardrails
      /\ queued' = FALSE /\ timer' = timer /\ edits' = edits /\ faults' = faults
  BY DEF Reconcile
<1>3. CASE Branch(Cached) = "idle"
  <2>1. End
    BY <1>3 DEF Reconcile
  <2>2. seen' \in seen .. Len(log)
    BY <1>1, <1>2
  <2>3. queued' \in BOOLEAN /\ timer' \in BOOLEAN
    BY <1>1, <1>2
  <2> QED
    BY <1>2, <2>1, <2>2, <2>3, EndsOK
<1>4. CASE Branch(Cached) # "idle"
  <2>1. pc' = Branch(Cached) /\ read' = seen /\ next' = next
    BY <1>4 DEF Reconcile
  <2>2. Server' = Server /\ LogOK' /\ DeleteBeforeRelease'
    <3>1. seen \in Nat /\ seen' \in seen .. Len(log)
      BY <1>1, <1>2
    <3> QED
      BY <1>1, <1>2, <3>1, Keep DEF IInv
  <2>3. gp' = Cached
    BY <1>2, <2>1 DEF gp, Cached
  <2>4. VersionOK(Cached) /\ Protects(Cached)
    BY <1>1 DEF IInv, LogOK, Cached
  <2>5. /\ Branch(Cached) \in Steps \ {"patch"}
        /\ Branch(Cached) \in {"create", "update"} => Live(Cached) /\ Cached.finalizer
        /\ Branch(Cached) = "adopt" => Live(Cached)
        /\ Branch(Cached) \in {"update", "delete"} => Cached.status.id # 0
        /\ Branch(Cached) \in {"delete", "release"} =>
              Cached.deleting /\ Cached.finalizer
        /\ Branch(Cached) = "release" => Cached.status.id = 0
    BY <1>1, <2>4, BranchOK DEF VersionOK
  <2>6. RunOK'
    BY <1>2, <2>1, <2>2, <2>3, <2>4, <2>5 DEF RunOK, Protects, Live, Exists
  <2>7. AskedOK'
    BY <1>2, <2>2 DEF AskedOK, IInv
  <2>8. TypeOK'
    <3>1. seen' \in seen .. Len(log') /\ Len(log') \in Nat /\ Len(log') >= Len(log)
      BY <1>1, <1>2
    <3>2. read' \in 1 .. seen'
      BY <1>1, <1>2, <2>1
    <3>3. next' \in GuardrailStatus
      BY <2>1 DEF IInv, TypeOK
    <3> QED
      BY <1>1, <1>2, <2>1, <2>2, <2>5, <3>1, <3>2, <3>3, Typed
  <2> QED
    BY <2>2, <2>6, <2>7, <2>8 DEF IInv
<1> QED
  BY <1>3, <1>4

-----------------------------------------------------------------------------
(* What holds where a run is about to write or has just been told no. *)
LEMMA EndRequeuedOK ==
  ASSUME IInv, EndRequeued, log' = log, faults' = faults \/ Fault,
         guardrails' = guardrails
  PROVE  IInv'
<1>1. seen' \in seen .. Len(log)
  BY Basics DEF EndRequeued
<1>2. queued' \in BOOLEAN /\ timer' \in BOOLEAN
  BY DEF EndRequeued, IInv, TypeOK, ApiTypeOK
<1> QED
  BY <1>1, <1>2, EndsOK DEF EndRequeued

(* The finalizer is added to the version that was read, or not at all. *)
LEMMA AddFinalizerOK == ASSUME IInv, AddFinalizer PROVE IInv'
<1> DEFINE o == [gp EXCEPT !.finalizer = TRUE]
<1>1. /\ EndRequeued /\ guardrails' = guardrails /\ (faults' = faults \/ Fault)
      /\ log' = log \/ (log' = Append(log, o) /\ gp = Server)
  BY DEF AddFinalizer, Written, UpToDate, gp, Server
<1>2. CASE log' = log
  BY <1>1, <1>2, EndRequeuedOK
<1>3. CASE log' = Append(log, o) /\ gp = Server
  <2>a. Server \in Object /\ VersionOK(Server)
    BY Basics DEF IInv, LogOK, Server
  <2>b. Live(Server)
    BY <1>3 DEF IInv, RunOK, AddFinalizer
  <2>1. o \in Object /\ Server \in Object /\ VersionOK(Server) /\ Live(Server)
    BY <1>3, <2>a, <2>b DEF Object
  <2>2. /\ o.uid = Server.uid /\ o.deleting = Server.deleting
        /\ o.status = Server.status /\ o.finalizer = TRUE
    BY <1>3, <2>1 DEF Object
  <2>3. o.uid # 0
    BY <2>1, <2>2 DEF Live, Exists
  <2>4. o.status.id # 0 =>
             /\ o.status.id \in 1 .. Len(guardrails)
             /\ guardrails[o.status.id].owner = o.uid
             /\ ~guardrails[o.status.id].asked
    <3>1. Server.status.id \in 0 .. Len(guardrails) /\ Len(guardrails) \in Nat
      BY <2>1, Basics DEF VersionOK
    <3> QED
      BY <2>1, <2>2, <3>1 DEF VersionOK, IInv, AskedOK
  <2>5. queued' \in BOOLEAN /\ timer' \in BOOLEAN
    BY <1>1 DEF EndRequeued, IInv, TypeOK, ApiTypeOK
  <2>6. End /\ seen' = seen /\ edits' = edits
    BY <1>1 DEF EndRequeued
  <2> HIDE DEF o
  <2> QED
    BY <1>1, <1>3, <2>1, <2>2, <2>3, <2>4, <2>5, <2>6, EndsWriting
<1> QED
  BY <1>1, <1>2, <1>3

(* The status patch lands on the incarnation the run has read. *)
LEMMA PatchStatusOK == ASSUME IInv, PatchStatus PROVE IInv'
<1>1. /\ EndRequeued /\ guardrails' = guardrails /\ (faults' = faults \/ Fault)
      /\ log' = log \/ log' = Append(log, Patched)
  BY DEF PatchStatus, Written
<1>2. CASE log' = log
  BY <1>1, <1>2, EndRequeuedOK
<1>3. CASE log' = Append(log, Patched)
  <2>1. /\ Server \in Object /\ gp \in Object /\ next \in GuardrailStatus
        /\ VersionOK(Server) /\ Len(guardrails) \in Nat
    BY Basics DEF IInv, TypeOK, LogOK, Server
  <2>2. Live(gp) /\ Server.uid = gp.uid /\ Server.finalizer /\ pc = "patch"
    BY DEF PatchStatus, IInv, RunOK
  <2>3. /\ Patched \in Object
        /\ Patched.uid = Server.uid /\ Patched.deleting = Server.deleting
        /\ Patched.finalizer = Server.finalizer
        /\ Patched.status.id =
              IF next.id = gp.status.id THEN Server.status.id ELSE next.id
    BY <2>1, PatchedType DEF Merged
  <2>4. Patched.uid # 0
    BY <2>2, <2>3 DEF Live, Exists
  <2>5. CASE next.id = gp.status.id
    <3>1. Patched.status.id # 0 =>
               /\ Patched.status.id \in 1 .. Len(guardrails)
               /\ guardrails[Patched.status.id].owner = Patched.uid
               /\ Live(Patched) => ~guardrails[Patched.status.id].asked
      <4>1. Server.status.id \in 0 .. Len(guardrails)
        BY <2>1 DEF VersionOK
      <4>2. Server.status.id # 0 => Server.status.id \in 1 .. Len(guardrails)
        BY <2>1, <4>1
      <4>3. Live(Patched) => Live(Server)
        BY <2>3 DEF Live, Exists
      <4> QED
        BY <2>1, <2>3, <2>5, <4>2, <4>3 DEF VersionOK, IInv, AskedOK
    <3> QED
      BY <1>1, <1>3, <2>2, <2>3, <2>4, <3>1, EndsWriting
      DEF EndRequeued, IInv, TypeOK, ApiTypeOK
  <2>6. CASE next.id # gp.status.id
    <3>1. /\ Patched.status.id \in 1 .. Len(guardrails)
          /\ guardrails[Patched.status.id].owner = Patched.uid
          /\ ~guardrails[Patched.status.id].asked
      BY <2>2, <2>3, <2>6 DEF IInv, RunOK
    <3> QED
      BY <1>1, <1>3, <2>2, <2>3, <2>4, <3>1, EndsWriting
      DEF EndRequeued, IInv, TypeOK, ApiTypeOK
  <2> QED
    BY <2>5, <2>6
<1> QED
  BY <1>1, <1>2, <1>3

(* The finalizer is taken from the version that was read, or not at all. *)
LEMMA RemoveFinalizerOK == ASSUME IInv, RemoveFinalizer PROVE IInv'
<1> DEFINE d == [gp EXCEPT !.finalizer = FALSE]
<1>1. /\ guardrails' = guardrails /\ (faults' = faults \/ Fault)
      /\ \/ EndRequeued /\ log' = log
         \/ /\ End /\ UpToDate(read) /\ log' = Written(Collected(d))
            /\ UNCHANGED <<seen, queued, timer, edits, faults>>
  BY DEF RemoveFinalizer
<1>2. CASE EndRequeued /\ log' = log
  BY <1>1, <1>2, EndRequeuedOK
<1>3. CASE /\ End /\ UpToDate(read) /\ log' = Written(Collected(d))
           /\ UNCHANGED <<seen, queued, timer, edits, faults>>
  <2>1. /\ Server = gp /\ seen = Len(log) /\ Len(log) \in Nat
        /\ Server \in Object /\ VersionOK(Server)
        /\ Gone.uid = 0 /\ ~Gone.finalizer /\ ~Gone.deleting /\ Gone.status.id = 0
    BY <1>3, Basics DEF UpToDate, Server, gp, IInv, LogOK, Gone, NoGuardrail
  <2>2. /\ Server.deleting /\ Server.finalizer
        /\ Server.status.id # 0 => guardrails[Server.status.id].asked
    BY <2>1 DEF RemoveFinalizer, IInv, RunOK
  <2>3. queued' \in BOOLEAN /\ timer' \in BOOLEAN
    BY <1>3 DEF IInv, TypeOK, ApiTypeOK
  <2>4. CASE log' = log
    <3>1. seen' \in seen .. Len(log)
      BY <1>3, <2>1
    <3> QED
      BY <1>1, <1>3, <2>3, <2>4, <3>1, EndsOK
  <2>5. CASE log' = Append(log, Collected(d))
    <3>1. d \in Object
      BY <2>1 DEF Object
    <3>2. /\ d.uid = Server.uid /\ d.deleting = Server.deleting
          /\ d.status = Server.status
      BY <2>1 DEF Object
    <3> HIDE DEF d
    <3>3. /\ Collected(d) \in Object
          /\ Collected(d) = d \/ Collected(d) = Gone
      BY <3>1, CollectedType, ConstantsAssumption
    <3>4. Server.uid # 0
      BY <2>1, <2>2 DEF VersionOK
    <3>5. /\ Collected(d).uid = Server.uid \/ Collected(d) = Gone
          /\ Collected(d).uid = Server.uid => Collected(d).deleting
          /\ Collected(d).uid = 0 =>
                /\ ~Collected(d).finalizer /\ ~Collected(d).deleting
                /\ Collected(d).status.id = 0
      BY <2>1, <2>2, <3>2, <3>3, <3>4
    <3>6. Collected(d).status.id # 0 =>
             /\ Collected(d).status.id \in 1 .. Len(guardrails)
             /\ guardrails[Collected(d).status.id].owner = Collected(d).uid
             /\ ~Live(Collected(d))
      <4>1. Server.status.id \in 0 .. Len(guardrails) /\ Len(guardrails) \in Nat
        BY <2>1, Basics DEF VersionOK
      <4>2. Server.status.id # 0 => Server.status.id \in 1 .. Len(guardrails)
        BY <4>1
      <4>3. Live(Gone) = FALSE /\ Live(d) = FALSE
        BY <2>1, <2>2, <3>2 DEF Live, Exists
      <4> QED
        BY <2>1, <2>2, <3>2, <3>3, <4>2, <4>3 DEF VersionOK
    <3> QED
      BY <1>1, <1>3, <2>1, <2>2, <2>3, <2>5, <3>3, <3>5, <3>6, EndsWriting
  <2> QED
    BY <1>3, <2>4, <2>5 DEF Written
<1> QED
  BY <1>1, <1>2, <1>3

-----------------------------------------------------------------------------
(* A call to Bedrock: the log stays, and the run goes on with the answer.  *)
LEMMA CallOK ==
  ASSUME IInv, UNCHANGED <<log, seen, queued, timer, edits, read>>,
         faults' = faults \/ Fault, pc' \in Steps, next' \in GuardrailStatus,
         guardrails' \in Seq(Guardrail), Len(guardrails') >= Len(guardrails),
         \A g \in 1 .. Len(guardrails) :
             /\ guardrails'[g].owner = guardrails[g].owner
             /\ guardrails[g].asked => guardrails'[g].asked
  PROVE  /\ TypeOK' /\ LogOK' /\ DeleteBeforeRelease'
         /\ Server' = Server /\ gp' = gp
<1>1. /\ log \in Seq(Object) /\ Len(log) \in Nat /\ seen \in 1 .. Len(log)
      /\ read \in 1 .. seen /\ Len(guardrails') \in Nat
  BY Basics, LenProperties
<1>2. gp' = gp
  BY DEF gp
<1>3. seen' \in seen .. Len(log) /\ seen \in Nat
  BY <1>1
<1>4. Server' = Server /\ LogOK' /\ DeleteBeforeRelease'
  BY <1>1, <1>3, Keep DEF IInv
<1>5. queued' \in BOOLEAN /\ timer' \in BOOLEAN
  BY DEF IInv, TypeOK, ApiTypeOK
<1>6. Len(log') >= Len(log) /\ read' \in 1 .. seen' /\ seen' \in seen .. Len(log')
  BY <1>1, <1>3
<1>7. TypeOK'
  BY <1>1, <1>4, <1>5, <1>6, Typed
<1> QED
  BY <1>2, <1>4, <1>7

(* The two statuses a call may leave the run with. *)
LEMMA StatusType ==
  ASSUME gp \in Object
  PROVE  /\ SyncFailed \in GuardrailStatus /\ SyncFailed.id = gp.status.id
         /\ \A id \in Nat : Synced(id) \in GuardrailStatus /\ Synced(id).id = id
  BY DEF SyncFailed, Synced, Object, GuardrailStatus

(* createGuardrail: a new guardrail belongs to the incarnation of the run, *)
(* and nobody has asked to delete it.                                      *)
LEMMA CreateGuardrailOK == ASSUME IInv, CreateGuardrail PROVE IInv'
<1> DEFINE n == Len(guardrails) + 1
<1>1. /\ gp \in Object /\ guardrails \in Seq(Guardrail) /\ Len(guardrails) \in Nat
      /\ n \in Nat
  BY Basics
<1>2. Live(gp) /\ Server.uid = gp.uid /\ Server.finalizer
  BY DEF IInv, RunOK, CreateGuardrail
<1>3. /\ pc' = "patch" /\ next' \in {SyncFailed, Synced(n)}
      /\ UNCHANGED <<log, seen, queued, timer, edits, read>>
      /\ (faults' = faults \/ Fault)
      /\ \/ guardrails' = guardrails /\ next' = SyncFailed
         \/ guardrails' = WithCreated
  BY DEF CreateGuardrail, Answered
<1>4. pc' \in Steps /\ next' \in GuardrailStatus
  BY <1>1, <1>3, StatusType DEF Steps
<1>5. CASE guardrails' = guardrails /\ next' = SyncFailed
  <2>1. /\ TypeOK' /\ LogOK' /\ DeleteBeforeRelease'
        /\ Server' = Server /\ gp' = gp
    BY <1>1, <1>3, <1>4, <1>5, CallOK
  <2>2. RunOK'
    BY <1>1, <1>2, <1>3, <1>5, <2>1, StatusType DEF RunOK, Live, Exists
  <2>3. AskedOK'
    BY <1>5, <2>1 DEF AskedOK, IInv
  <2> QED
    BY <2>1, <2>2, <2>3 DEF IInv
<1>6. CASE guardrails' = WithCreated
  <2> DEFINE r == [owner |-> gp.uid, content |-> gp.spec,
                   live |-> TRUE, asked |-> FALSE]
  <2>1. r \in Guardrail /\ r.owner = gp.uid /\ r.asked = FALSE
    BY <1>1 DEF Object, Guardrail
  <2>2. guardrails' = Append(guardrails, r)
    BY <1>6 DEF WithCreated
  <2> HIDE DEF r
  <2>3. /\ guardrails' \in Seq(Guardrail) /\ Len(guardrails') = n
        /\ \A g \in 1 .. Len(guardrails) : guardrails'[g] = guardrails[g]
        /\ guardrails'[n] = r
    BY <1>1, <2>1, <2>2, AppendProperties
  <2>4. Len(guardrails') >= Len(guardrails)
    BY <1>1, <2>3
  <2>5. /\ TypeOK' /\ LogOK' /\ DeleteBeforeRelease'
        /\ Server' = Server /\ gp' = gp
    BY <1>1, <1>3, <1>4, <2>3, <2>4, CallOK
  <2>6. next'.id = gp.status.id \/ next'.id = n
    BY <1>1, <1>3, StatusType
  <2>7. n \in 1 .. Len(guardrails')
    BY <1>1, <2>3
  <2>8. RunOK'
    BY <1>2, <1>3, <2>1, <2>3, <2>5, <2>6, <2>7 DEF RunOK, Live, Exists
  <2>9. AskedOK'
    <3>1. ASSUME NEW g \in 1 .. Len(guardrails'), guardrails'[g].asked
          PROVE  ~(Live(Server') /\ Server'.status.id = g)
      <4>1. g \in 1 .. Len(guardrails)
        BY <1>1, <2>1, <2>3, <3>1
      <4> QED
        BY <2>3, <2>5, <3>1, <4>1 DEF AskedOK, IInv
    <3> QED
      BY <3>1 DEF AskedOK
  <2> QED
    BY <2>5, <2>8, <2>9 DEF IInv
<1> QED
  BY <1>3, <1>5, <1>6

(* updateGuardrail changes the content of the recorded guardrail only. *)
LEMMA UpdateGuardrailOK == ASSUME IInv, UpdateGuardrail PROVE IInv'
<1> DEFINE id == gp.status.id
<1>1. /\ gp \in Object /\ guardrails \in Seq(Guardrail) /\ Len(guardrails) \in Nat
      /\ VersionOK(gp) /\ id \in Nat
  <2>1. read \in 1 .. Len(log)
    BY Basics
  <2> QED
    BY <2>1, Basics DEF IInv, LogOK, gp, Object, GuardrailStatus
<1>2. Live(gp) /\ Server.uid = gp.uid /\ Server.finalizer /\ id # 0
  BY DEF IInv, RunOK, UpdateGuardrail
<1>3. id \in 1 .. Len(guardrails)
  BY <1>1, <1>2 DEF VersionOK
<1>4. /\ pc' = "patch" /\ next' \in {SyncFailed, Synced(id)}
      /\ UNCHANGED <<log, seen, queued, timer, edits, read>>
      /\ (faults' = faults \/ Fault)
      /\ \/ guardrails' = guardrails
         \/ guardrails' = [guardrails EXCEPT ![id].content = gp.spec]
  BY DEF UpdateGuardrail, Answered
<1>5. /\ guardrails' \in Seq(Guardrail) /\ Len(guardrails') = Len(guardrails)
      /\ \A g \in 1 .. Len(guardrails) :
            /\ guardrails'[g].owner = guardrails[g].owner
            /\ guardrails'[g].asked = guardrails[g].asked
  <2>1. CASE guardrails' = guardrails
    BY <1>1, <2>1
  <2>2. CASE guardrails' = [guardrails EXCEPT ![id].content = gp.spec]
    <3> DEFINE r == [guardrails[id] EXCEPT !.content = gp.spec]
    <3>1. guardrails[id] \in Guardrail
      BY <1>1, <1>3, ElementOfSeq
    <3>2. /\ r \in Guardrail /\ r.owner = guardrails[id].owner
          /\ r.asked = guardrails[id].asked
      BY <1>1, <3>1 DEF Guardrail, Object
    <3>3. guardrails' = [guardrails EXCEPT ![id] = r]
      BY <2>2
    <3> HIDE DEF r
    <3> QED
      BY <1>1, <1>3, <3>2, <3>3, ExceptSeq
  <2> QED
    BY <1>4, <2>1, <2>2
<1>6. pc' \in Steps /\ next' \in GuardrailStatus /\ next'.id = id
  BY <1>1, <1>4, StatusType DEF Steps
<1>7. /\ TypeOK' /\ LogOK' /\ DeleteBeforeRelease'
      /\ Server' = Server /\ gp' = gp
  <2>1. Len(guardrails') >= Len(guardrails)
    BY <1>1, <1>5
  <2> QED
    BY <1>4, <1>5, <1>6, <2>1, CallOK
<1>8. RunOK'
  BY <1>2, <1>4, <1>6, <1>7 DEF RunOK, Live, Exists
<1>9. AskedOK'
  BY <1>5, <1>7 DEF AskedOK, IInv
<1> QED
  BY <1>7, <1>8, <1>9 DEF IInv

(* DeleteGuardrail is called for the guardrail of a policy that is being   *)
(* deleted, and no other incarnation has recorded that guardrail.          *)
LEMMA DeleteGuardrailOK == ASSUME IInv, DeleteGuardrail PROVE IInv'
<1> DEFINE id == gp.status.id
<1>1. /\ gp \in Object /\ guardrails \in Seq(Guardrail) /\ Len(guardrails) \in Nat
      /\ VersionOK(gp) /\ VersionOK(Server) /\ id \in Nat
  <2>1. read \in 1 .. Len(log)
    BY Basics
  <2>2. VersionOK(gp) /\ VersionOK(Server)
    BY <2>1, Basics DEF IInv, LogOK, gp, Server
  <2>3. id \in Nat
    BY Basics DEF Object, GuardrailStatus
  <2> QED
    BY <2>2, <2>3, Basics
<1>2. gp.deleting /\ gp.finalizer /\ id # 0
  BY DEF IInv, RunOK, DeleteGuardrail
<1>3. id \in 1 .. Len(guardrails)
  BY <1>1, <1>2 DEF VersionOK
<1>4. /\ pc' = "release" /\ next' = next
      /\ UNCHANGED <<log, seen, queued, timer, edits, read>>
      /\ (faults' = faults \/ Fault)
  BY DEF DeleteGuardrail
<1>5. PICK stays \in BOOLEAN :
        guardrails' = [guardrails EXCEPT ![id] = AskedToDelete(guardrails[id], stays)]
  BY DEF DeleteGuardrail
<1>6. /\ guardrails' \in Seq(Guardrail) /\ Len(guardrails') = Len(guardrails)
      /\ \A g \in 1 .. Len(guardrails) :
            /\ guardrails'[g].owner = guardrails[g].owner
            /\ guardrails'[g].asked = (IF g = id THEN TRUE ELSE guardrails[g].asked)
  <2> DEFINE r == AskedToDelete(guardrails[id], stays)
  <2>1. guardrails[id] \in Guardrail
    BY <1>1, <1>3, ElementOfSeq
  <2>2. r \in Guardrail /\ r.owner = guardrails[id].owner /\ r.asked = TRUE
    BY <2>1 DEF Guardrail, AskedToDelete
  <2>3. guardrails' = [guardrails EXCEPT ![id] = r]
    BY <1>5
  <2> HIDE DEF r
  <2>4. /\ guardrails' \in Seq(Guardrail) /\ Len(guardrails') = Len(guardrails)
        /\ \A g \in 1 .. Len(guardrails) :
              guardrails'[g] = IF g = id THEN r ELSE guardrails[g]
    BY <1>1, <1>3, <2>2, <2>3, ExceptSeq
  <2>5. ASSUME NEW g \in 1 .. Len(guardrails)
        PROVE  /\ guardrails'[g].owner = guardrails[g].owner
               /\ guardrails'[g].asked = (IF g = id THEN TRUE ELSE guardrails[g].asked)
    BY <2>2, <2>4
  <2> QED
    BY <2>4, <2>5
<1>7. /\ TypeOK' /\ LogOK' /\ DeleteBeforeRelease'
      /\ Server' = Server /\ gp' = gp
  <2>1. Len(guardrails') >= Len(guardrails)
    BY <1>1, <1>6
  <2>2. pc' \in Steps /\ next' \in GuardrailStatus
    BY <1>4 DEF Steps, IInv, TypeOK
  <2> QED
    BY <1>4, <1>6, <2>1, <2>2, CallOK
<1>8. RunOK'
  BY <1>2, <1>3, <1>4, <1>6, <1>7 DEF RunOK
<1>9. ~(Live(Server) /\ Server.status.id = id)
  <2>1. SUFFICES ASSUME Live(Server), Server.status.id = id  PROVE FALSE
    OBVIOUS
  <2>2. Server.uid = gp.uid
    BY <1>1, <1>2, <2>1 DEF VersionOK
  <2> QED
    BY <1>1, <1>2, <2>1, <2>2 DEF VersionOK, Live
<1>10. AskedOK'
  BY <1>6, <1>7, <1>9 DEF AskedOK, IInv
<1> QED
  BY <1>7, <1>8, <1>10 DEF IInv

(* Someone else's deletion changes neither owner nor history. *)
LEMMA OutsideDeleteOK == ASSUME IInv, OutsideDelete PROVE IInv'
<1>1. /\ guardrails \in Seq(Guardrail) /\ Len(guardrails) \in Nat
      /\ DOMAIN guardrails = 1 .. Len(guardrails)
  BY Basics, LenProperties
<1>2. /\ UNCHANGED <<log, seen, queued, timer, edits, worker>>
      /\ Fault
  BY DEF OutsideDelete
<1>3. PICK i \in 1 .. Len(guardrails) :
         guardrails' = [guardrails EXCEPT ![i].live = FALSE]
  BY <1>1 DEF OutsideDelete
<1>4. /\ guardrails' \in Seq(Guardrail) /\ Len(guardrails') = Len(guardrails)
      /\ \A g \in 1 .. Len(guardrails) :
            /\ guardrails'[g].owner = guardrails[g].owner
            /\ guardrails'[g].asked = guardrails[g].asked
  <2> DEFINE r == [guardrails[i] EXCEPT !.live = FALSE]
  <2>1. guardrails[i] \in Guardrail
    BY <1>1, ElementOfSeq
  <2>2. r \in Guardrail /\ r.owner = guardrails[i].owner /\ r.asked = guardrails[i].asked
    BY <2>1 DEF Guardrail
  <2>3. guardrails' = [guardrails EXCEPT ![i] = r]
    BY <1>3
  <2> HIDE DEF r
  <2> QED
    BY <1>1, <2>2, <2>3, ExceptSeq
<1>5. /\ TypeOK' /\ LogOK' /\ DeleteBeforeRelease'
      /\ Server' = Server /\ gp' = gp
  <2>1. Len(guardrails') >= Len(guardrails)
    BY <1>1, <1>4
  <2>2. pc' \in Steps /\ next' \in GuardrailStatus
    BY <1>2 DEF IInv, TypeOK, worker
  <2> QED
    BY <1>2, <1>4, <2>1, <2>2, CallOK DEF worker
<1>6. RunOK'
  <2>1. VersionOK(gp) /\ gp.status.id \in Nat
    <3>1. read \in 1 .. Len(log) /\ gp \in Object
      BY Basics
    <3> QED
      BY <3>1 DEF IInv, LogOK, gp, Object, GuardrailStatus
  <2>2. gp.status.id # 0 => gp.status.id \in 1 .. Len(guardrails)
    BY <1>1, <2>1 DEF VersionOK
  <2> QED
    BY <1>2, <1>4, <1>5, <2>2 DEF RunOK, IInv, worker
<1>7. AskedOK'
  BY <1>4, <1>5 DEF AskedOK, IInv
<1> QED
  BY <1>5, <1>6, <1>7 DEF IInv

-----------------------------------------------------------------------------
(* Every step keeps the inductive invariant. *)
LEMMA StepOK == IInv /\ [Next]_vars => IInv'
<1> SUFFICES ASSUME IInv, [Next]_vars  PROVE IInv'
  OBVIOUS
<1>1. CASE Worker
  BY <1>1, ReconcileOK, AddFinalizerOK, CreateGuardrailOK, UpdateGuardrailOK,
     PatchStatusOK, DeleteGuardrailOK, RemoveFinalizerOK DEF Worker
<1>2. CASE Api
  BY <1>2, UserOK, QueueOK DEF Api
<1>3. CASE Crash
  BY <1>3, CrashOK
<1>4. CASE OutsideDelete
  BY <1>4, OutsideDeleteOK
<1>5. CASE UNCHANGED vars
  <2>1. /\ UNCHANGED <<log, seen, queued, timer, edits, faults>>
        /\ UNCHANGED <<pc, read, next, guardrails>>
    BY <1>5 DEF vars, apiVars, worker
  <2> QED
    BY <2>1 DEF IInv, TypeOK, ApiTypeOK, LogOK, VersionOK, Protects, AskedOK,
                RunOK, DeleteBeforeRelease, Server, gp
<1> QED
  BY <1>1, <1>2, <1>3, <1>4, <1>5 DEF Next

(* The inductive invariant holds in every reachable state. *)
LEMMA Invariance == Spec => []IInv
  BY InitOK, StepOK, PTL DEF Spec

(* The types hold. *)
THEOREM TypeCorrect == Spec => []TypeOK
<1>1. IInv => TypeOK
  BY DEF IInv
<1> QED
  BY <1>1, Invariance, PTL

(* The finalizer leaves a policy that has an id only after DeleteGuardrail *)
(* was called for that id (guardrailpolicy_controller.go:211-237).         *)
THEOREM ReleaseCorrect == Spec => []DeleteBeforeRelease
<1>1. IInv => DeleteBeforeRelease
  BY DEF IInv
<1> QED
  BY <1>1, Invariance, PTL

(* The id in the status of a live policy names a guardrail made for this   *)
(* incarnation, which the operator has not asked Bedrock to delete         *)
(* (guardrailpolicy_controller.go:76-124).                                 *)
THEOREM RecordedCorrect == Spec => []RecordedIsOwn
<1>1. IInv => RecordedIsOwn
  <2> SUFFICES ASSUME IInv, Live(Server), Server.status.id # 0
               PROVE  /\ guardrails[Server.status.id].owner = Server.uid
                      /\ ~guardrails[Server.status.id].asked
    BY DEF RecordedIsOwn
  <2>1. VersionOK(Server) /\ Len(guardrails) \in Nat
    BY Basics DEF IInv, LogOK, Server
  <2>2. Server.status.id \in 1 .. Len(guardrails)
    BY <2>1 DEF VersionOK
  <2> QED
    BY <2>1, <2>2 DEF VersionOK, IInv, AskedOK
<1> QED
  BY <1>1, Invariance, PTL
-----------------------------------------------------------------------------
(***************************************************************************)
(* What a run may do to the status.                                        *)
(*                                                                         *)
(* Generations grow from version to version of one incarnation, and the    *)
(* observed one is behind every version the cache may still come to hold:  *)
(* the next run can only start from a generation that is no older.         *)
(***************************************************************************)
GenOK ==
    \A i, j \in 1 .. Len(log) :
        i <= j /\ log[i].uid = log[j].uid /\ log[j].uid # 0 => log[i].gen <= log[j].gen

ObsOK ==
    Exists(Server) =>
        \A i \in seen .. Len(log) :
            log[i].uid = Server.uid => Server.status.obs <= log[i].gen

(* Where Bedrock holds names unique, a run has a new guardrail to record   *)
(* only if the recorded one is not live.                                   *)
RunMoves ==
    /\ pc \in {"create", "update", "patch"} => Server.status.obs <= gp.gen
    /\ pc = "patch" => next.obs = gp.gen
    /\ UniqueNames /\ pc = "patch" /\ next.id # gp.status.id /\ Server.status.id # 0
           => ~guardrails[Server.status.id].live

MovesInv == IInv /\ GenOK /\ ObsOK /\ RunMoves

(* The numbers the comparisons are about. *)
LEMMA MovesTypes ==
  ASSUME IInv
  PROVE  /\ Server.status.obs \in Nat /\ gp.gen \in Nat /\ Server.gen \in Nat
         /\ \A i \in 1 .. Len(log) : log[i].gen \in Nat /\ log[i].uid \in Nat
BY Basics DEF Object, GuardrailStatus

(* The log stays. *)
LEMMA StillMoves ==
  ASSUME MovesInv, log' = log, seen' \in seen .. Len(log)
  PROVE  GenOK' /\ ObsOK' /\ Server' = Server
<1>1. Server' = Server
  BY DEF Server
<1>2. ObsOK'
  BY <1>1, Basics DEF ObsOK, MovesInv, Exists
<1>. QED  BY <1>1, <1>2 DEF GenOK, MovesInv

(* What a version that is appended is like: of no or of a new incarnation, *)
(* or one that goes on.                                                    *)
GoesOn(o) ==
    /\ o.uid = Server.uid /\ Exists(Server) /\ Server.gen <= o.gen
    /\ \/ o.status.obs = Server.status.obs
       \/ /\ Server.uid = gp.uid /\ Server.status.obs <= gp.gen
          /\ o.status.obs = gp.gen

Starts(o) == o.uid = 0 \/ (o.uid = Len(log) + 1 /\ o.status.obs = 0)

LEMMA AppendMoves ==
  ASSUME MovesInv, NEW o \in Object, log' = Append(log, o), seen' = seen,
         GoesOn(o) \/ Starts(o)
  PROVE  /\ GenOK' /\ ObsOK' /\ Server' = o
         /\ Exists(o) => o.status.obs <= o.gen
         /\ GoesOn(o) => Server.status.obs <= o.status.obs
<1>1. /\ log \in Seq(Object) /\ Len(log) \in Nat /\ Len(log) > 0
      /\ seen \in 1 .. Len(log) /\ read \in 1 .. seen
      /\ Server.status.obs \in Nat /\ gp.gen \in Nat /\ Server.gen \in Nat
      /\ \A i \in 1 .. Len(log) : log[i].gen \in Nat /\ log[i].uid \in Nat
      /\ gp = log[read] /\ Server = log[Len(log)]
  BY Basics, MovesTypes DEF MovesInv, gp, Server
<1>2. /\ Len(log') = Len(log) + 1 /\ log'[Len(log) + 1] = o
      /\ \A i \in 1 .. Len(log) : log'[i] = log[i]
  BY <1>1, AppendVersion
<1>3. Server' = o /\ o.gen \in Nat /\ o.status.obs \in Nat /\ o.uid \in Nat
  BY <1>2 DEF Server, Object, GuardrailStatus
<1>4. \A i \in 1 .. Len(log) : log[i].uid <= Len(log)
  BY DEF MovesInv, IInv, LogOK, VersionOK
<1>5. ASSUME NEW i \in 1 .. Len(log), log[i].uid = o.uid, o.uid # 0
      PROVE  GoesOn(o) /\ log[i].gen <= o.gen
  <2>1. GoesOn(o)
    BY <1>1, <1>4, <1>5 DEF Starts
  <2>2. log[i].gen <= Server.gen
    BY <1>1, <1>5, <2>1 DEF MovesInv, GenOK, GoesOn
  <2>. QED  BY <1>1, <1>3, <2>1, <2>2 DEF GoesOn
<1>6. GenOK'
  <2>1. ASSUME NEW i \in 1 .. Len(log'), NEW j \in 1 .. Len(log'), i <= j,
               log'[i].uid = log'[j].uid, log'[j].uid # 0
        PROVE  log'[i].gen <= log'[j].gen
    <3>1. CASE j \in 1 .. Len(log)
      BY <1>1, <1>2, <2>1, <3>1 DEF MovesInv, GenOK
    <3>2. CASE j = Len(log) + 1 /\ i \in 1 .. Len(log)
      BY <1>2, <1>5, <2>1, <3>2
    <3>3. CASE j = Len(log) + 1 /\ i = j
      BY <1>2, <1>3, <3>3
    <3>. QED  BY <1>1, <1>2, <2>1, <3>1, <3>2, <3>3
  <2>. QED  BY <2>1 DEF GenOK
<1>7. GoesOn(o) => /\ o.status.obs <= o.gen /\ Server.status.obs <= o.status.obs
                   /\ \A i \in seen .. Len(log) :
                         log[i].uid = o.uid => o.status.obs <= log[i].gen
  <2>. SUFFICES ASSUME GoesOn(o)
                PROVE  /\ o.status.obs <= o.gen /\ Server.status.obs <= o.status.obs
                       /\ \A i \in seen .. Len(log) :
                             log[i].uid = o.uid => o.status.obs <= log[i].gen
    OBVIOUS
  <2>1. ASSUME NEW i \in seen .. Len(log), log[i].uid = o.uid
        PROVE  o.status.obs <= log[i].gen
    <3>1. CASE o.status.obs = Server.status.obs
      BY <2>1, <3>1 DEF MovesInv, ObsOK, GoesOn
    <3>2. CASE gp.uid = Server.uid /\ o.status.obs = gp.gen
      <4>1. read \in 1 .. Len(log) /\ i \in 1 .. Len(log) /\ read <= i
        BY <1>1
      <4>. QED  BY <1>1, <2>1, <3>2, <4>1 DEF MovesInv, GenOK, GoesOn, Exists
    <3>. QED  BY <3>1, <3>2 DEF GoesOn
  <2>2. o.status.obs <= Server.gen
    <3>1. Len(log) \in seen .. Len(log)
      BY <1>1
    <3>. QED  BY <1>1, <2>1, <3>1 DEF GoesOn
  <2>3. o.status.obs <= o.gen
    BY <1>1, <1>3, <2>2 DEF GoesOn
  <2>4. Server.status.obs <= o.status.obs
    BY <1>1, <1>3 DEF GoesOn
  <2>. QED  BY <2>1, <2>3, <2>4
<1>8. Starts(o) /\ Exists(o) => o.status.obs <= o.gen
  BY <1>3 DEF Starts, Exists
<1>9. ObsOK'
  <2>. SUFFICES ASSUME Exists(o), NEW i \in seen .. Len(log) + 1, log'[i].uid = o.uid
                PROVE  o.status.obs <= log'[i].gen
    BY <1>1, <1>2, <1>3 DEF ObsOK, Exists
  <2>1. CASE i = Len(log) + 1
    BY <1>2, <1>7, <1>8, <2>1
  <2>2. CASE i \in seen .. Len(log)
    <3>1. i \in 1 .. Len(log) /\ log'[i] = log[i]
      BY <1>1, <1>2, <2>2
    <3>. QED  BY <1>5, <1>7, <2>2, <3>1 DEF Exists
  <2>. QED  BY <1>1, <2>1, <2>2
<1>. QED  BY <1>3, <1>6, <1>7, <1>8, <1>9

-----------------------------------------------------------------------------
(* What a step may do to the status of one incarnation. *)
MovesOn ==
    Exists(Server) /\ Server'.uid = Server.uid =>
        /\ Server.status.obs <= Server'.status.obs
        /\ Server'.status.obs <= Server'.gen
        /\ Server.status.id # 0 => Server'.status.id # 0

KeepsLive ==
    LET id == Server.status.id IN
    id # 0 /\ Server'.uid = Server.uid /\ guardrails[id].live => Server'.status.id = id

Moves == MovesInv' /\ MovesOn /\ (UniqueNames => KeepsLive)

LEMMA StillOK ==
  ASSUME MovesInv, log' = log, seen' \in seen .. Len(log), IInv', RunMoves'
  PROVE  Moves
<1>1. GenOK' /\ ObsOK' /\ Server' = Server
  BY StillMoves
<1>2. Exists(Server) => Server.status.obs <= Server.gen
  <2>1. Len(log) \in seen .. Len(log)
    BY Basics DEF MovesInv
  <2>. QED  BY <2>1 DEF MovesInv, ObsOK, Server
<1>3. MovesOn
  BY <1>1, <1>2, MovesTypes DEF MovesOn, MovesInv
<1>4. KeepsLive
  BY <1>1 DEF KeepsLive
<1>. QED  BY <1>1, <1>3, <1>4 DEF Moves, MovesInv

LEMMA AppendOK ==
  ASSUME MovesInv, NEW o \in Object, log' = Append(log, o), seen' = seen, IInv', RunMoves',
         \/ Starts(o)
         \/ /\ GoesOn(o)
            /\ Server.status.id # 0 => o.status.id # 0
            /\ UniqueNames /\ Server.status.id # 0 /\ guardrails[Server.status.id].live
                   => o.status.id = Server.status.id
  PROVE  Moves
<1>1. /\ GenOK' /\ ObsOK' /\ Server' = o
      /\ Exists(o) => o.status.obs <= o.gen
      /\ GoesOn(o) => Server.status.obs <= o.status.obs
  BY AppendMoves
<1>2. MovesInv'
  BY <1>1 DEF MovesInv
<1>3. CASE Starts(o)
  <2>1. /\ Server.uid <= Len(log) /\ Server.uid \in Nat /\ Len(log) \in Nat
        /\ Server.uid = 0 => Server.status.id = 0
    <3>1. VersionOK(Server) /\ Server \in Object /\ Len(log) \in Nat
      BY Basics DEF MovesInv, IInv, LogOK, Server
    <3>. QED  BY <3>1 DEF VersionOK, Object
  <2>2. o.uid # Server.uid \/ (~Exists(Server) /\ Server.status.id = 0)
    BY <1>3, <2>1 DEF Starts, Exists
  <2>. QED  BY <1>1, <1>2, <2>2 DEF Moves, MovesOn, KeepsLive
<1>4. CASE /\ GoesOn(o)
           /\ Server.status.id # 0 => o.status.id # 0
           /\ UniqueNames /\ Server.status.id # 0 /\ guardrails[Server.status.id].live
                  => o.status.id = Server.status.id
  <2>1. Exists(o)
    BY <1>4 DEF GoesOn, Exists
  <2>2. MovesOn
    BY <1>1, <1>4, <2>1 DEF MovesOn
  <2>3. UniqueNames => KeepsLive
    BY <1>1, <1>4 DEF KeepsLive
  <2>. QED  BY <1>2, <2>2, <2>3 DEF Moves
<1>. QED  BY <1>3, <1>4

(* A run that has ended, or has not begun to call, has nothing to move. *)
LEMMA RestingOK == ASSUME pc' \notin {"create", "update", "patch"} PROVE RunMoves'
BY DEF RunMoves

(* A new version with the server's status. *)
LEMMA SameStatus ==
  ASSUME NEW o, o.uid = Server.uid, Exists(Server), Server.gen <= o.gen,
         o.status = Server.status
  PROVE  /\ GoesOn(o)
         /\ Server.status.id # 0 => o.status.id # 0
         /\ UniqueNames /\ Server.status.id # 0 /\ guardrails[Server.status.id].live
                => o.status.id = Server.status.id
BY DEF GoesOn

-----------------------------------------------------------------------------
LEMMA UserMoves ==
  ASSUME MovesInv, User, UNCHANGED <<worker, guardrails>>, IInv'
  PROVE  Moves
<1>1. PICK o \in Object : UserStep(o) /\ (KeepsPolicy(o) \/ ReplacesUnguarded(o))
  BY UserShape DEF MovesInv
<1>2. log' = Append(log, o) /\ seen' = seen /\ guardrails' = guardrails
  BY <1>1 DEF UserStep
<1>3. /\ log \in Seq(Object) /\ Len(log) \in Nat /\ Len(log) > 0
      /\ read \in 1 .. Len(log)
  BY Basics DEF MovesInv
<1>4. Server' = o /\ gp' = gp
  <2>1. /\ Len(log') = Len(log) + 1 /\ log'[Len(log) + 1] = o
        /\ \A i \in 1 .. Len(log) : log'[i] = log[i]
    BY <1>2, <1>3, AppendVersion
  <2>. QED  BY <1>3, <2>1 DEF Server, gp, worker
<1>5. RunMoves'
  <2>1. CASE pc \in {"create", "update", "patch"}
    <3>1. Server.finalizer
      BY <2>1 DEF MovesInv, IInv, RunOK
    <3>2. o.status = Server.status
      BY <1>1, <3>1 DEF KeepsPolicy, ReplacesUnguarded
    <3>. QED  BY <1>2, <1>4, <3>2 DEF MovesInv, RunMoves, worker
  <2>2. CASE pc \notin {"create", "update", "patch"}
    BY <2>2, RestingOK DEF worker
  <2>. QED  BY <2>1, <2>2
<1>6. CASE KeepsPolicy(o)
  <2>1. o.uid = Server.uid /\ Exists(Server) /\ Server.gen <= o.gen /\ o.status = Server.status
    BY <1>6 DEF KeepsPolicy
  <2>. QED  BY <1>2, <1>5, <2>1, SameStatus, AppendOK
<1>7. CASE ReplacesUnguarded(o)
  <2>1. Starts(o)
    BY <1>7 DEF ReplacesUnguarded, Starts
  <2>. QED  BY <1>2, <1>5, <2>1, AppendOK
<1>. QED  BY <1>1, <1>6, <1>7

(* The run goes on as it was. *)
LEMMA UndisturbedOK ==
  ASSUME MovesInv, log' = log, seen' \in seen .. Len(log), IInv',
         UNCHANGED <<worker, guardrails>>
  PROVE  Moves
<1>1. Server' = Server /\ gp' = gp
  BY DEF Server, gp, worker
<1>2. RunMoves'
  BY <1>1 DEF MovesInv, RunMoves, worker
<1>. QED  BY <1>2, StillOK

LEMMA CrashMoves == ASSUME MovesInv, Crash, IInv' PROVE Moves
<1>1. log' = log /\ seen' \in seen .. Len(log) /\ pc' = "idle"
  BY DEF Crash, Relist, End
<1>. QED  BY <1>1, RestingOK, StillOK

LEMMA OutsideDeleteMoves == ASSUME MovesInv, OutsideDelete, IInv' PROVE Moves
<1>1. /\ guardrails \in Seq(Guardrail) /\ Len(guardrails) \in Nat
      /\ DOMAIN guardrails = 1 .. Len(guardrails)
      /\ seen \in 1 .. Len(log) /\ Len(log) \in Nat
      /\ Server.status.id \in 0 .. Len(guardrails)
  BY Basics, LenProperties DEF MovesInv, IInv, TypeOK
<1>2. UNCHANGED <<log, seen, worker>>
  BY DEF OutsideDelete
<1>3. PICK i \in 1 .. Len(guardrails) :
         guardrails' = [guardrails EXCEPT ![i].live = FALSE]
  BY <1>1 DEF OutsideDelete
<1>4. ASSUME NEW g \in 1 .. Len(guardrails), ~guardrails[g].live PROVE ~guardrails'[g].live
  <2>1. guardrails[g] \in Guardrail
    BY <1>1, ElementOfSeq
  <2>2. CASE g = i
    BY <1>1, <1>3, <2>1, <2>2 DEF Guardrail
  <2>3. CASE g # i
    BY <1>1, <1>3, <1>4, <2>3
  <2>. QED  BY <2>2, <2>3
<1>5. Server' = Server /\ gp' = gp
  BY <1>2 DEF Server, gp, worker
<1>6. RunMoves'
  <2>1. Server.status.id # 0 => Server.status.id \in 1 .. Len(guardrails)
    BY <1>1
  <2>. QED  BY <1>2, <1>4, <1>5, <2>1 DEF MovesInv, RunMoves, worker
<1>7. seen' \in seen .. Len(log)
  BY <1>1, <1>2
<1>. QED  BY <1>2, <1>6, <1>7, StillOK

(* A run that begins has read a generation that is not older than the      *)
(* observed one.                                                           *)
LEMMA ReconcileMoves == ASSUME MovesInv, Reconcile, IInv' PROVE Moves
<1>1. /\ seen \in 1 .. Len(log) /\ Len(log) \in Nat
      /\ Cached \in Object /\ VersionOK(Cached) /\ Protects(Cached)
  BY Basics DEF MovesInv, IInv, LogOK, Cached
<1>2. log' = log /\ seen' = seen
  BY DEF Reconcile
<1>3. pc' = "idle" \/ (pc' = Branch(Cached) /\ read' = seen)
  BY DEF Reconcile, End
<1>4. RunMoves'
  <2>1. CASE pc' = "idle"
    BY <2>1, RestingOK
  <2>2. CASE pc' = Branch(Cached) /\ read' = seen
    <3>1. /\ pc' # "patch"
          /\ pc' \in {"create", "update"} => Live(Cached) /\ Cached.finalizer
      BY <1>1, <2>2, BranchOK DEF VersionOK
    <3>2. Server' = Server /\ gp' = Cached
      BY <1>2, <2>2 DEF Server, gp, Cached
    <3>3. CASE pc' \in {"create", "update"}
      <4>1. Server.uid = Cached.uid /\ Exists(Server)
        BY <1>1, <3>1, <3>3 DEF Protects, Live, Exists
      <4>2. Server.status.obs <= Cached.gen
        <5>1. seen \in seen .. Len(log)
          BY <1>1
        <5>. QED  BY <4>1, <5>1 DEF MovesInv, ObsOK, Cached
      <4>. QED  BY <3>1, <3>2, <4>2 DEF RunMoves
    <3>. QED  BY <3>1, <3>3, RestingOK
  <2>. QED  BY <1>3, <2>1, <2>2
<1>5. seen' \in seen .. Len(log)
  BY <1>1, <1>2
<1>. QED  BY <1>2, <1>4, <1>5, StillOK

(* A run that ends: it has written nothing, or a version that goes on. *)
LEMMA EndingOK ==
  ASSUME MovesInv, IInv', pc' = "idle", seen' = seen,
         \/ log' = log
         \/ \E o \in Object : /\ log' = Append(log, o)
                              /\ \/ Starts(o)
                                 \/ /\ GoesOn(o)
                                    /\ Server.status.id # 0 => o.status.id # 0
                                    /\ UniqueNames /\ Server.status.id # 0
                                         /\ guardrails[Server.status.id].live
                                           => o.status.id = Server.status.id
  PROVE  Moves
<1>1. RunMoves'
  BY RestingOK
<1>2. CASE log' = log
  <2>1. seen' \in seen .. Len(log)
    BY Basics DEF MovesInv
  <2>. QED  BY <1>1, <1>2, <2>1, StillOK
<1>. QED  BY <1>1, <1>2, AppendOK

LEMMA AddFinalizerMoves == ASSUME MovesInv, AddFinalizer, IInv' PROVE Moves
<1>. DEFINE o == [gp EXCEPT !.finalizer = TRUE]
<1>1. /\ pc' = "idle" /\ seen' = seen
      /\ log' = log \/ (log' = Append(log, o) /\ gp = Server)
      /\ Live(gp) /\ gp \in Object
  BY Basics DEF AddFinalizer, EndRequeued, End, Written, UpToDate, gp, Server,
                MovesInv, IInv, RunOK
<1>2. CASE log' = log
  BY <1>1, <1>2, EndingOK
<1>3. CASE log' = Append(log, o) /\ gp = Server
  <2>1. /\ o \in Object /\ o.uid = Server.uid /\ o.gen = Server.gen
        /\ o.status = Server.status
    BY <1>1, <1>3 DEF Object
  <2>2. Exists(Server) /\ Server.gen <= Server.gen
    BY <1>1, <1>3, MovesTypes DEF Live, MovesInv
  <2>. HIDE DEF o
  <2>. QED  BY <1>1, <1>3, <2>1, <2>2, SameStatus, EndingOK
<1>. QED  BY <1>1, <1>2, <1>3

LEMMA RemoveFinalizerMoves == ASSUME MovesInv, RemoveFinalizer, IInv' PROVE Moves
<1>. DEFINE d == [gp EXCEPT !.finalizer = FALSE]
<1>1. /\ pc' = "idle" /\ seen' = seen
      /\ log' = log \/ (log' = Append(log, Collected(d)) /\ gp = Server)
      /\ gp \in Object
  BY Basics DEF RemoveFinalizer, EndRequeued, End, Written, UpToDate, gp, Server, MovesInv
<1>2. CASE log' = log
  BY <1>1, <1>2, EndingOK
<1>3. CASE log' = Append(log, Collected(d)) /\ gp = Server
  <2>1. d \in Object /\ d.uid = Server.uid /\ d.gen = Server.gen /\ d.status = Server.status
    BY <1>1, <1>3 DEF Object
  <2>. HIDE DEF d
  <2>2. Collected(d) \in Object /\ (Collected(d) = d \/ Collected(d) = Gone)
    BY <2>1, CollectedType, ConstantsAssumption
  <2>3. CASE ~Exists(Collected(d))
    <3>1. Starts(Collected(d))
      BY <2>3 DEF Starts, Exists
    <3>. QED  BY <1>1, <1>3, <2>2, <3>1, EndingOK
  <2>4. CASE Exists(Collected(d))
    <3>1. Collected(d) = d /\ Exists(Server) /\ Server.gen <= Server.gen
      BY <2>1, <2>2, <2>4, MovesTypes DEF Exists, Gone, MovesInv
    <3>. QED  BY <1>1, <1>3, <2>1, <3>1, SameStatus, EndingOK
  <2>. QED  BY <2>3, <2>4
<1>. QED  BY <1>1, <1>2, <1>3

(* The patch carries the observed generation forward, and an id only where *)
(* there was none or its guardrail is not live.                            *)
LEMMA PatchStatusMoves == ASSUME MovesInv, PatchStatus, IInv' PROVE Moves
<1>1. /\ pc' = "idle" /\ seen' = seen /\ pc = "patch"
      /\ log' = log \/ log' = Append(log, Patched)
  BY DEF PatchStatus, EndRequeued, End, Written
<1>2. CASE log' = log
  BY <1>1, <1>2, EndingOK
<1>3. CASE log' = Append(log, Patched)
  <2>1. /\ Server \in Object /\ gp \in Object /\ next \in GuardrailStatus
        /\ Live(gp) /\ Server.uid = gp.uid
        /\ Server.status.obs <= gp.gen /\ next.obs = gp.gen
        /\ next.id # gp.status.id => next.id \in 1 .. Len(guardrails)
    BY <1>1, Basics DEF MovesInv, IInv, TypeOK, RunOK, RunMoves
  <2>2. /\ Patched \in Object /\ Patched.uid = Server.uid
        /\ Patched.status.id = Merged(Server.status.id, gp.status.id, next.id)
    BY <2>1, PatchedType
  <2>3. /\ Patched.gen = Server.gen
        /\ Patched.status.obs = Merged(Server.status.obs, gp.status.obs, next.obs)
    BY <2>1 DEF Patched, Object, Merged
  <2>4. Exists(Server) /\ Server.gen <= Patched.gen
    BY <2>1, <2>3, MovesTypes DEF Live, Exists, MovesInv
  <2>5. GoesOn(Patched)
    BY <2>1, <2>2, <2>3, <2>4 DEF GoesOn, Merged
  <2>6. Server.status.id # 0 => Patched.status.id # 0
    BY <2>1, <2>2 DEF Merged
  <2>7. UniqueNames /\ Server.status.id # 0 /\ guardrails[Server.status.id].live
            => Patched.status.id = Server.status.id
    BY <1>1, <2>2 DEF Merged, MovesInv, RunMoves
  <2>. QED  BY <1>1, <1>3, <2>2, <2>5, <2>6, <2>7, EndingOK
<1>. QED  BY <1>1, <1>2, <1>3

(* Bedrock makes a guardrail of a name only if no other is live. *)
LEMMA CreateGuardrailMoves == ASSUME MovesInv, CreateGuardrail, IInv' PROVE Moves
<1>1. /\ pc = "create" /\ pc' = "patch" /\ UNCHANGED <<log, seen, read>>
      /\ \/ guardrails' = guardrails /\ next' = SyncFailed
         \/ /\ ~NameTaken /\ guardrails' = WithCreated
            /\ next' \in {SyncFailed, Synced(Len(guardrails) + 1)}
  BY DEF CreateGuardrail, Answered
<1>2. /\ gp \in Object /\ guardrails \in Seq(Guardrail) /\ Len(guardrails) \in Nat
      /\ DOMAIN guardrails = 1 .. Len(guardrails)
      /\ Server.status.id \in 0 .. Len(guardrails)
      /\ seen \in 1 .. Len(log) /\ Len(log) \in Nat
  BY Basics, LenProperties DEF MovesInv, IInv, TypeOK
<1>3. Server' = Server /\ gp' = gp
  BY <1>1 DEF Server, gp
<1>4. /\ SyncFailed.obs = gp.gen /\ SyncFailed.id = gp.status.id
      /\ Synced(Len(guardrails) + 1).obs = gp.gen
  BY <1>2 DEF SyncFailed, Synced, Object, GuardrailStatus
<1>5. Server.status.obs <= gp.gen
  BY <1>1 DEF MovesInv, RunMoves
<1>6. next'.obs = gp.gen
  BY <1>1, <1>4
<1>7. ASSUME UniqueNames, next'.id # gp.status.id, Server.status.id # 0
      PROVE  ~guardrails'[Server.status.id].live
  <2>1. ~NameTaken /\ guardrails' = WithCreated
    BY <1>1, <1>4, <1>7
  <2>2. Server.status.id \in 1 .. Len(guardrails)
    BY <1>2, <1>7
  <2>3. guardrails'[Server.status.id] = guardrails[Server.status.id]
    BY <1>2, <2>1, <2>2 DEF WithCreated
  <2>. QED  BY <1>2, <1>7, <2>1, <2>2, <2>3 DEF NameTaken
<1>8. RunMoves'
  BY <1>1, <1>3, <1>5, <1>6, <1>7 DEF RunMoves
<1>9. seen' \in seen .. Len(log)
  BY <1>1, <1>2
<1>. QED  BY <1>1, <1>8, <1>9, StillOK

LEMMA UpdateGuardrailMoves == ASSUME MovesInv, UpdateGuardrail, IInv' PROVE Moves
<1>1. /\ pc = "update" /\ pc' = "patch" /\ UNCHANGED <<log, seen, read>>
      /\ next' \in {SyncFailed, Synced(gp.status.id)}
  BY DEF UpdateGuardrail, Answered
<1>2. gp \in Object /\ seen \in 1 .. Len(log) /\ Len(log) \in Nat
  BY Basics DEF MovesInv
<1>3. Server' = Server /\ gp' = gp
  BY <1>1 DEF Server, gp
<1>4. /\ SyncFailed.obs = gp.gen /\ SyncFailed.id = gp.status.id
      /\ Synced(gp.status.id).obs = gp.gen /\ Synced(gp.status.id).id = gp.status.id
  BY <1>2 DEF SyncFailed, Synced, Object, GuardrailStatus
<1>5. next'.obs = gp.gen /\ next'.id = gp.status.id
  BY <1>1, <1>4
<1>6. RunMoves'
  BY <1>1, <1>3, <1>5 DEF RunMoves, MovesInv
<1>7. seen' \in seen .. Len(log)
  BY <1>1, <1>2
<1>. QED  BY <1>1, <1>6, <1>7, StillOK

LEMMA DeleteGuardrailMoves == ASSUME MovesInv, DeleteGuardrail, IInv' PROVE Moves
<1>1. log' = log /\ seen' = seen /\ pc' = "release"
  BY DEF DeleteGuardrail
<1>2. seen' \in seen .. Len(log)
  BY <1>1, Basics DEF MovesInv
<1>. QED  BY <1>1, <1>2, RestingOK, StillOK

-----------------------------------------------------------------------------
LEMMA MovesInit == Init => MovesInv
<1>. SUFFICES ASSUME Init PROVE MovesInv
  OBVIOUS
<1>1. /\ log = <<Gone>> /\ Len(log) = 1 /\ Server = Gone /\ pc = "idle" /\ Gone.uid = 0
  BY DEF Init, ApiInit, Server, Gone
<1>2. GenOK
  BY <1>1 DEF GenOK
<1>3. ObsOK /\ RunMoves
  BY <1>1 DEF ObsOK, RunMoves, Exists
<1>. QED  BY <1>2, <1>3, InitOK DEF MovesInv

LEMMA StepMoves == MovesInv /\ [Next]_vars => Moves
<1>. SUFFICES ASSUME MovesInv, [Next]_vars PROVE Moves
  OBVIOUS
<1>1. IInv'
  BY StepOK DEF MovesInv
<1>2. CASE Worker
  BY <1>1, <1>2, ReconcileMoves, AddFinalizerMoves, CreateGuardrailMoves,
     UpdateGuardrailMoves, PatchStatusMoves, DeleteGuardrailMoves, RemoveFinalizerMoves
  DEF Worker
<1>3. CASE (Deliver \/ TimerFires) /\ UNCHANGED <<worker, guardrails>>
  <2>1. log' = log /\ seen' \in seen .. Len(log)
    BY <1>3, Basics DEF Deliver, TimerFires, MovesInv
  <2>. QED  BY <1>1, <1>3, <2>1, UndisturbedOK
<1>4. CASE User /\ UNCHANGED <<worker, guardrails>>
  BY <1>1, <1>4, UserMoves
<1>5. CASE Crash
  BY <1>1, <1>5, CrashMoves
<1>6. CASE OutsideDelete
  BY <1>1, <1>6, OutsideDeleteMoves
<1>7. CASE UNCHANGED vars
  <2>1. log' = log /\ seen' \in seen .. Len(log) /\ UNCHANGED <<worker, guardrails>>
    BY <1>7, Basics DEF vars, apiVars, MovesInv
  <2>. QED  BY <1>1, <2>1, UndisturbedOK
<1>. QED  BY <1>2, <1>3, <1>4, <1>5, <1>6, <1>7 DEF Next, Api

(* A run on a stale object takes nothing back: however the cache lags and  *)
(* wherever a run is cut off, the observed generation of an incarnation    *)
(* never decreases, never passes the generation, and a recorded id never   *)
(* returns to empty (guardrailpolicy_controller.go:77, 104, 122).          *)
THEOREM StatusCorrect == Spec => StatusMovesOn
<1>1. Init => MovesInv
  BY MovesInit
<1>2. MovesInv /\ [Next]_vars => MovesInv' /\ MovesOn
  BY StepMoves DEF Moves
<1>. QED  BY <1>1, <1>2, PTL DEF Spec, StatusMovesOn, MovesOn

(* Where Bedrock holds names unique, the id of a live guardrail is not     *)
(* replaced by that of another one (guardrailpolicy_controller.go:85-104). *)
THEOREM LiveKept == UniqueNames => (Spec => LiveGuardrailKept)
<1>. SUFFICES ASSUME UniqueNames PROVE Spec => LiveGuardrailKept
  OBVIOUS
<1>1. Init => MovesInv
  BY MovesInit
<1>2. MovesInv /\ [Next]_vars => MovesInv' /\ KeepsLive
  BY StepMoves DEF Moves
<1>. QED  BY <1>1, <1>2, PTL DEF Spec, LiveGuardrailKept, KeepsLive
=============================================================================
