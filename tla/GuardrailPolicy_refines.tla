---------------------- MODULE GuardrailPolicy_refines ----------------------
(***************************************************************************)
(* GuardrailPolicy implements FinalizedObject, for every value of its      *)
(* constants: each step of users, worker or environment is a step of the   *)
(* abstract object or leaves it alone.                                     *)
(***************************************************************************)
EXTENDS GuardrailPolicy_proofs

AbstractStep == [Promised!AbstractNext]_(Promised!objectVars)

(* As long as the server's object stays, it can only get cleaner. *)
LEMMA Cleaner ==
  ASSUME Server' = Server, Clean => Clean'
  PROVE  AbstractStep
<1>1. Phase' = Phase
  BY DEF Phase, Live, Exists
<1>2. CASE Clean'
  BY <1>1, <1>2 DEF AbstractStep, Promised!AbstractNext, Promised!CleanAway
<1>3. CASE ~Clean'
  <2>1. Clean \in BOOLEAN /\ Clean' \in BOOLEAN
    BY DEF Clean
  <2>2. Clean' = Clean
    BY <1>3, <2>1
  <2> QED
    BY <1>1, <2>2 DEF AbstractStep, Promised!objectVars
<1> QED
  BY <1>2, <1>3

(* The abstract steps, each from what it does to the server's object. *)
LEMMA Appears ==
  ASSUME ~Exists(Server), Live(Server'), ~Server'.finalizer
  PROVE  AbstractStep
<1>1. Phase = "absent" /\ Phase' = "live"
  BY DEF Phase, Live, Exists
<1>2. Clean' \in BOOLEAN
  BY DEF Clean
<1> QED
  BY <1>1, <1>2 DEF AbstractStep, Promised!AbstractNext, Promised!Appear

LEMMA Changes ==
  ASSUME Exists(Server), Server'.spec # Server.spec, Server'.uid = Server.uid,
         Server'.deleting = Server.deleting, Server'.finalizer = Server.finalizer
  PROVE  AbstractStep
<1>1. Phase' = Phase /\ Phase # "absent"
  BY DEF Phase, Live, Exists
<1>2. Clean' \in BOOLEAN
  BY DEF Clean
<1> QED
  BY <1>1, <1>2 DEF AbstractStep, Promised!AbstractNext, Promised!Change

(* The absent object carries no finalizer and nothing is held for it. *)
LEMMA Nothing ==
  ASSUME Server' = Gone
  PROVE  Phase' = "absent" /\ ~Server'.finalizer /\ Clean'
BY DEF Phase, Gone, NoGuardrail, Live, Exists, Clean

LEMMA Deletes ==
  ASSUME Live(Server),
         \/ Server' = [Server EXCEPT !.deleting = TRUE, !.gen = @ + 1]
         \/ Server' = Gone /\ ~Server.finalizer,
         Server \in Object, guardrails' = guardrails
  PROVE  AbstractStep
<1>1. Phase = "live"
  BY DEF Phase, Live, Exists
<1>2. CASE Server' = Gone /\ ~Server.finalizer
  BY <1>1, <1>2, Nothing
  DEF AbstractStep, Promised!AbstractNext, Promised!BeginDeletion, Promised!Vanished
<1>3. CASE Server' = [Server EXCEPT !.deleting = TRUE, !.gen = @ + 1]
  <2>1. /\ Server'.uid = Server.uid /\ Server'.deleting
        /\ Server'.finalizer = Server.finalizer /\ Server'.spec = Server.spec
        /\ Server'.status = Server.status
    BY <1>3 DEF Object
  <2>2. Phase' = "deleting"
    BY <2>1 DEF Phase, Live, Exists
  <2>3. Clean' = Clean
    BY <2>1 DEF Clean
  <2> QED
    BY <1>1, <2>1, <2>2, <2>3
    DEF AbstractStep, Promised!AbstractNext, Promised!BeginDeletion
<1> QED
  BY <1>2, <1>3

LEMMA Guards ==
  ASSUME Live(Server), ~Server.finalizer, Server \in Object,
         Server' = [Server EXCEPT !.finalizer = TRUE], guardrails' = guardrails
  PROVE  AbstractStep
<1>1. /\ Server'.uid = Server.uid /\ Server'.deleting = Server.deleting
      /\ Server'.finalizer /\ Server'.spec = Server.spec
      /\ Server'.status = Server.status
  BY DEF Object
<1>2. Phase = "live" /\ Phase' = "live"
  BY <1>1 DEF Phase, Live, Exists
<1>3. Clean' = Clean
  BY <1>1 DEF Clean
<1> QED
  BY <1>1, <1>2, <1>3 DEF AbstractStep, Promised!AbstractNext, Promised!Guard

(* A write of the status of an object that is guarded. *)
LEMMA Acquires ==
  ASSUME Server.finalizer, Server'.uid = Server.uid, Server'.spec = Server.spec,
         Server'.deleting = Server.deleting, Server'.finalizer = Server.finalizer
  PROVE  AbstractStep
<1>1. Phase' = Phase
  BY DEF Phase, Live, Exists
<1>2. Clean \in BOOLEAN /\ Clean' \in BOOLEAN
  BY DEF Clean
<1>3. CASE Clean'
  BY <1>1, <1>3 DEF AbstractStep, Promised!AbstractNext, Promised!CleanAway
<1>4. CASE Clean /\ ~Clean'
  BY <1>1, <1>4 DEF AbstractStep, Promised!AbstractNext, Promised!Acquire
<1>5. CASE ~Clean /\ ~Clean'
  <2>1. Clean' = Clean
    BY <1>2, <1>5
  <2> QED
    BY <1>1, <2>1 DEF AbstractStep, Promised!objectVars
<1> QED
  BY <1>3, <1>4, <1>5

(* The last finalizer, the operator's or another's, leaves a deleted object. *)
LEMMA Ends ==
  ASSUME Exists(Server), Server.deleting, Server \in Object,
         Server.finalizer => Clean,
         \/ Server' = Gone
         \/ Server.finalizer /\ Server' = [Server EXCEPT !.finalizer = FALSE],
         guardrails' = guardrails
  PROVE  AbstractStep
<1>1. Phase = "deleting"
  BY DEF Phase, Live, Exists
<1>2. CASE Server' = Gone
  BY <1>1, <1>2, Nothing
  DEF AbstractStep, Promised!AbstractNext, Promised!Release, Promised!Vanish,
      Promised!Vanished
<1>3. CASE Server.finalizer /\ Server' = [Server EXCEPT !.finalizer = FALSE]
  <2>1. /\ Server'.uid = Server.uid /\ Server'.deleting = Server.deleting
        /\ ~Server'.finalizer /\ Server'.spec = Server.spec
        /\ Server'.status = Server.status
    BY <1>3 DEF Object
  <2>2. Phase' = Phase
    BY <2>1 DEF Phase, Live, Exists
  <2>3. Clean' = Clean
    BY <2>1 DEF Clean
  <2> QED
    BY <1>1, <1>3, <2>1, <2>2, <2>3
    DEF AbstractStep, Promised!AbstractNext, Promised!Release
<1> QED
  BY <1>2, <1>3

-----------------------------------------------------------------------------
(* Once asked to delete, Bedrock stays asked: a step that leaves the       *)
(* server's object alone.                                                  *)
LEMMA Stays ==
  ASSUME IInv, Server' = Server,
         \A g \in 1 .. Len(guardrails) :
             guardrails[g].asked => guardrails'[g].asked
  PROVE  AbstractStep
<1>1. Server.status.id \in 0 .. Len(guardrails) /\ Len(guardrails) \in Nat
  BY Basics DEF IInv, TypeOK
<1>2. Server.status.id # 0 => Server.status.id \in 1 .. Len(guardrails)
  BY <1>1
<1>3. Clean => Clean'
  BY <1>2 DEF Clean
<1> QED
  BY <1>3, Cleaner

(* The version a write appends is the one the server holds. *)
LEMMA Appended ==
  ASSUME IInv, NEW o \in Object, log' = Append(log, o)
  PROVE  Server' = o
BY Basics, AppendVersion DEF Server

LEMMA UserRefines ==
  ASSUME IInv, User, UNCHANGED <<worker, guardrails>>
  PROVE  AbstractStep
<1>1. /\ Server \in Object /\ Len(log) \in Nat
      /\ Server.gen + 1 \in Nat /\ guardrails' = guardrails
  <2>1. Server \in Object /\ Len(log) \in Nat
    BY Basics
  <2> QED
    BY <2>1 DEF Object
<1>2. CASE UserCreate
  <2>1. PICK s \in Specs, h \in BOOLEAN :
           log' = Append(log, [uid |-> Len(log) + 1, gen |-> 1, spec |-> s,
                     deleting |-> FALSE, finalizer |-> FALSE, held |-> h,
                     status |-> NoGuardrail])
    BY <1>2 DEF UserCreate, UserStep
  <2> DEFINE o == [uid |-> Len(log) + 1, gen |-> 1, spec |-> s,
                   deleting |-> FALSE, finalizer |-> FALSE, held |-> h,
                   status |-> NoGuardrail]
  <2>2. o \in Object /\ Live(o) /\ ~o.finalizer
    BY <1>1 DEF Object, NoGuardrail, GuardrailStatus, Live, Exists
  <2>3. log' = Append(log, o)
    BY <2>1
  <2> HIDE DEF o
  <2>4. Server' = o
    BY <2>2, <2>3, Appended
  <2> QED
    BY <1>2, <2>2, <2>4, Appears DEF UserCreate, Live, Exists
<1>3. CASE UserEdit
  <2>1. PICK s \in Specs \ {Server.spec} :
           log' = Append(log, [Server EXCEPT !.spec = s, !.gen = @ + 1])
    BY <1>3 DEF UserEdit, UserStep
  <2> DEFINE o == [Server EXCEPT !.spec = s, !.gen = @ + 1]
  <2>2. /\ o \in Object /\ o.spec # Server.spec /\ o.uid = Server.uid
        /\ o.deleting = Server.deleting /\ o.finalizer = Server.finalizer
    BY <1>1, <2>1 DEF Object
  <2>3. log' = Append(log, o)
    BY <2>1
  <2> HIDE DEF o
  <2>4. Server' = o
    BY <2>2, <2>3, Appended
  <2> QED
    BY <1>3, <2>2, <2>4, Changes DEF UserEdit
<1>4. CASE UserDelete
  <2> DEFINE d == [Server EXCEPT !.deleting = TRUE, !.gen = @ + 1]
  <2>1. log' = Append(log, Collected(d)) /\ Live(Server)
    BY <1>4 DEF UserDelete, UserStep
  <2>2. d \in Object /\ d.finalizer = Server.finalizer
    BY <1>1 DEF Object
  <2>3. /\ Collected(d) \in Object
        /\ Collected(d) = d \/ (Collected(d) = Gone /\ ~Server.finalizer)
    <3> HIDE DEF d
    <3> QED
      BY <2>2, CollectedType, ConstantsAssumption
  <2>4. Server' = Collected(d)
    BY <2>1, <2>3, Appended
  <2> QED
    BY <1>1, <2>1, <2>3, <2>4, Deletes
<1>5. CASE OtherRelease
  <2> DEFINE d == [Server EXCEPT !.held = FALSE]
  <2>1. log' = Append(log, Collected(d)) /\ Exists(Server)
    BY <1>5 DEF OtherRelease, UserStep
  <2>2. /\ d \in Object /\ d.finalizer = Server.finalizer
        /\ d.uid = Server.uid /\ d.deleting = Server.deleting
        /\ d.spec = Server.spec /\ d.status = Server.status
    BY <1>1 DEF Object
  <2> HIDE DEF d
  <2>3. /\ Collected(d) \in Object
        /\ \/ Collected(d) = d
           \/ Collected(d) = Gone /\ Server.deleting /\ ~Server.finalizer
    BY <2>2, CollectedType, ConstantsAssumption DEF Collected
  <2>4. Server' = Collected(d)
    BY <2>1, <2>3, Appended
  <2>5. CASE Server' = d
    <3>1. Phase' = Phase /\ Clean' = Clean
      BY <1>1, <2>2, <2>5 DEF Phase, Live, Exists, Clean
    <3> QED
      BY <2>2, <2>5, <3>1 DEF AbstractStep, Promised!objectVars
  <2>6. CASE Server' = Gone /\ Server.deleting /\ ~Server.finalizer
    BY <1>1, <2>1, <2>6, Ends
  <2> QED
    BY <2>3, <2>4, <2>5, <2>6
<1> QED
  BY <1>2, <1>3, <1>4, <1>5 DEF User

(* The finalizer is added to the version the server holds. *)
LEMMA AddFinalizerRefines == ASSUME IInv, AddFinalizer PROVE AbstractStep
<1> DEFINE o == [gp EXCEPT !.finalizer = TRUE]
<1>1. /\ guardrails' = guardrails /\ Live(gp) /\ gp \in Object
      /\ log' = log \/ (log' = Append(log, o) /\ gp = Server /\ o # Server)
  BY Basics DEF AddFinalizer, Written, UpToDate, gp, Server, IInv, RunOK
<1>2. CASE log' = log
  <2>1. Server' = Server
    BY <1>2 DEF Server
  <2> QED
    BY <1>1, <2>1, Stays
<1>3. CASE log' = Append(log, o) /\ gp = Server /\ o # Server
  <2>1. o \in Object /\ ~Server.finalizer
    BY <1>1, <1>3 DEF Object
  <2>2. Server' = o
    BY <1>3, <2>1, Appended
  <2> QED
    BY <1>1, <1>3, <2>1, <2>2, Guards
<1> QED
  BY <1>1, <1>2, <1>3

(* A run that patches the status has found the policy guarded. *)
LEMMA PatchStatusRefines == ASSUME IInv, PatchStatus PROVE AbstractStep
<1>1. /\ guardrails' = guardrails /\ Server.finalizer
      /\ log' = log \/ log' = Append(log, Patched)
  BY DEF PatchStatus, Written, IInv, RunOK
<1>2. CASE log' = log
  <2>1. Server' = Server
    BY <1>2 DEF Server
  <2> QED
    BY <1>1, <2>1, Stays
<1>3. CASE log' = Append(log, Patched)
  <2>1. Server \in Object /\ gp \in Object /\ next \in GuardrailStatus
    BY Basics DEF IInv, TypeOK
  <2>2. /\ Patched \in Object /\ Patched.uid = Server.uid
        /\ Patched.deleting = Server.deleting
        /\ Patched.finalizer = Server.finalizer
    BY <2>1, PatchedType
  <2>3. Patched.spec = Server.spec
    BY <2>1 DEF Patched, Object
  <2>4. Server' = Patched
    BY <1>3, <2>2, Appended
  <2> QED
    BY <1>1, <2>2, <2>3, <2>4, Acquires
<1> QED
  BY <1>1, <1>2, <1>3

(* The finalizer leaves a policy Bedrock has been asked about. *)
LEMMA RemoveFinalizerRefines == ASSUME IInv, RemoveFinalizer PROVE AbstractStep
<1> DEFINE d == [gp EXCEPT !.finalizer = FALSE]
<1>1. /\ guardrails' = guardrails
      /\ log' = log \/ (log' = Append(log, Collected(d)) /\ gp = Server)
  BY DEF RemoveFinalizer, Written, UpToDate, gp, Server
<1>2. CASE log' = log
  <2>1. Server' = Server
    BY <1>2 DEF Server
  <2> QED
    BY <1>1, <2>1, Stays
<1>3. CASE log' = Append(log, Collected(d)) /\ gp = Server
  <2>1. /\ Server \in Object /\ Server.deleting /\ Server.finalizer
        /\ Server.status.id # 0 => guardrails[Server.status.id].asked
    BY <1>3, Basics DEF RemoveFinalizer, IInv, RunOK
  <2>2. Exists(Server)
    <3>1. VersionOK(Server)
      BY Basics DEF IInv, LogOK, Server
    <3> QED
      BY <2>1, <3>1 DEF VersionOK, Exists
  <2>3. d \in Object
    BY <1>3, <2>1 DEF Object
  <2>4. Collected(d) \in Object /\ (Collected(d) = d \/ Collected(d) = Gone)
    <3> HIDE DEF d
    <3> QED
      BY <2>3, CollectedType, ConstantsAssumption
  <2>5. Server' = Collected(d)
    BY <1>3, <2>4, Appended
  <2>6. Server.finalizer => Clean
    BY <2>1 DEF Clean
  <2> QED
    BY <1>1, <1>3, <2>1, <2>2, <2>4, <2>5, <2>6, Ends
<1> QED
  BY <1>1, <1>2, <1>3

(* The calls to Bedrock never take back what was asked. *)
LEMMA CallRefines ==
  ASSUME IInv, \/ CreateGuardrail \/ UpdateGuardrail
               \/ DeleteGuardrail \/ OutsideDelete
  PROVE  AbstractStep
<1>1. Server' = Server
  BY DEF CreateGuardrail, UpdateGuardrail, DeleteGuardrail, OutsideDelete,
         Answered, Server
<1>2. /\ guardrails \in Seq(Guardrail) /\ Len(guardrails) \in Nat
      /\ DOMAIN guardrails = 1 .. Len(guardrails)
  BY Basics, LenProperties
<1>3. ASSUME NEW g \in 1 .. Len(guardrails), guardrails[g].asked
      PROVE  guardrails'[g].asked
  <2>1. guardrails[g] \in Guardrail
    BY <1>2, ElementOfSeq
  <2>2. CASE guardrails' = guardrails
    BY <1>3, <2>2
  <2>3. CASE guardrails' = WithCreated
    BY <1>2, <1>3, <2>3 DEF WithCreated
  <2>4. CASE UpdateGuardrail /\ guardrails' # guardrails
    <3>1. guardrails' = [guardrails EXCEPT ![gp.status.id].content = gp.spec]
      BY <2>4 DEF UpdateGuardrail
    <3> QED
      BY <1>2, <1>3, <2>1, <3>1 DEF Guardrail
  <2>5. CASE DeleteGuardrail
    <3>1. PICK stays \in BOOLEAN :
             guardrails' = [guardrails EXCEPT ![gp.status.id] =
                               AskedToDelete(guardrails[gp.status.id], stays)]
      BY <2>5 DEF DeleteGuardrail
    <3> QED
      BY <1>2, <1>3, <2>1, <3>1 DEF Guardrail, AskedToDelete
  <2>6. CASE OutsideDelete
    <3>1. PICK i \in 1 .. Len(guardrails) :
             guardrails' = [guardrails EXCEPT ![i].live = FALSE]
      BY <1>2, <2>6 DEF OutsideDelete
    <3> QED
      BY <1>2, <1>3, <2>1, <3>1 DEF Guardrail
  <2> QED
    BY <2>2, <2>3, <2>4, <2>5, <2>6 DEF CreateGuardrail
<1> QED
  BY <1>1, <1>3, Stays

-----------------------------------------------------------------------------
(* Every step is one of the abstract object's, or a stutter. *)
LEMMA StepRefines == IInv /\ [Next]_vars => AbstractStep
<1> SUFFICES ASSUME IInv, [Next]_vars  PROVE AbstractStep
  OBVIOUS
<1>1. CASE log' = log /\ guardrails' = guardrails
  <2>1. Server' = Server
    BY <1>1 DEF Server
  <2> QED
    BY <1>1, <2>1, Stays
<1>2. CASE Worker
  <2>1. CASE Reconcile
    BY <1>1, <2>1 DEF Reconcile
  <2> QED
    BY <1>2, <2>1, AddFinalizerRefines, CallRefines, PatchStatusRefines,
       RemoveFinalizerRefines DEF Worker
<1>3. CASE Api
  <2>1. CASE Deliver \/ TimerFires
    BY <1>1, <1>3, <2>1 DEF Deliver, TimerFires, Api
  <2> QED
    BY <1>3, <2>1, UserRefines DEF Api
<1>4. CASE Crash
  BY <1>1, <1>4 DEF Crash, Relist
<1>5. CASE OutsideDelete
  BY <1>5, CallRefines
<1>6. CASE UNCHANGED vars
  BY <1>1, <1>6 DEF vars, apiVars
<1> QED
  BY <1>2, <1>3, <1>4, <1>5, <1>6 DEF Next

(* There is nothing yet: no policy, no finalizer, nothing held. *)
LEMMA InitRefines == Init => Promised!AbstractInit
<1> SUFFICES ASSUME Init PROVE Promised!AbstractInit
  OBVIOUS
<1>1. Server = Gone
  BY DEF Init, ApiInit, Server
<1>2. Phase = "absent" /\ Server.finalizer = FALSE /\ Clean
  BY <1>1 DEF Phase, Gone, NoGuardrail, Live, Exists, Clean
<1>3. Clean \in BOOLEAN
  BY DEF Clean
<1> QED
  BY <1>2, <1>3 DEF Promised!AbstractInit

(* The GuardrailPolicy controller keeps the promise of its finalizer: only *)
(* live policies get it, guardrails are recorded only under it, and it     *)
(* leaves a deleted policy only after DeleteGuardrail was called           *)
(* (guardrailpolicy_controller.go:61-127, 211-237).                        *)
THEOREM KeepsPromise == Spec => IsFinalizedObject
<1>1. Init => Promised!AbstractInit
  BY InitRefines
<1>2. IInv /\ [Next]_vars => [Promised!AbstractNext]_(Promised!objectVars)
  BY StepRefines DEF AbstractStep
<1> QED
  BY <1>1, <1>2, Invariance, PTL DEF Spec, IsFinalizedObject, Promised!Promise
=============================================================================
