-------------------------- MODULE Operator_proofs --------------------------
(***************************************************************************)
(* One process at work, for any number of pods, requests, rollouts and     *)
(* faults: the work goes where the lease is.                               *)
(***************************************************************************)
EXTENDS Operator, FiniteSetTheorems, TLAPS

(* What reconciles, serves or drains holds the lease. *)
AtWork  == {"leading", "listening", "draining"}
LeaseOK == \A p \in Pods : stage[p] \in AtWork => lease = p

IInv == ManagerTypeOK /\ LeaseOK

-----------------------------------------------------------------------------
(* Nothing runs in the beginning. *)
LEMMA ManagerStarts == ManagerInit => IInv
BY ManagerAssumption DEF ManagerInit, IInv, ManagerTypeOK, LeaseOK, AtWork, Stages, Ends

(* A process that ends takes its requests with it and leaves no leader. *)
LEMMA ExitKeeps ==
    ASSUME IInv, NEW p \in Pods, Exit(p), UNCHANGED <<endpoints, current, kept, rollouts>>,
           faults' \in 0 .. MaxFaults
    PROVE  IInv'
<1>1. ManagerTypeOK'
  BY ManagerAssumption DEF IInv, ManagerTypeOK, Exit, Stages, Ends
<1>2. LeaseOK'
  BY ManagerAssumption DEF IInv, ManagerTypeOK, LeaseOK, Exit, AtWork
<1>. QED  BY <1>1, <1>2 DEF IInv

(* The stages of a process that has not been told to stop. *)
LEMMA RunsKeep ==
    ASSUME IInv, NEW p \in Pods, StartUp(p) \/ Lead(p) \/ Listen(p)
    PROVE  IInv'
<1>1. CASE StartUp(p)
  BY <1>1 DEF IInv, ManagerTypeOK, LeaseOK, AtWork, Stages, StartUp, Come
<1>2. CASE Lead(p)
  <2>1. ManagerTypeOK'
    BY <1>2 DEF IInv, ManagerTypeOK, Stages, Lead, Come
  <2>2. LeaseOK'
    BY <1>2, ManagerAssumption DEF IInv, ManagerTypeOK, LeaseOK, AtWork, Lead, Come
  <2>. QED  BY <2>1, <2>2 DEF IInv
<1>3. CASE Listen(p)
  BY <1>3 DEF IInv, ManagerTypeOK, LeaseOK, AtWork, Stages, Listen, Come
<1>. QED  BY <1>1, <1>2, <1>3

(* SIGTERM begins the drain, or ends a process that does not lead yet. *)
LEMMA RetireKeeps == ASSUME IInv, NEW p \in Pods, Retire(p) PROVE IInv'
<1>1. CASE stage[p] \in {"leading", "listening"}
  BY <1>1 DEF IInv, ManagerTypeOK, LeaseOK, AtWork, Stages, Retire, Terminate
<1>2. CASE stage[p] \notin {"leading", "listening"}
  <2>1. ManagerTypeOK'
    BY <1>2, ManagerAssumption
    DEF IInv, ManagerTypeOK, Retire, Terminate, Exit, Stages, Ends
  <2>2. LeaseOK'
    BY <1>2, ManagerAssumption
    DEF IInv, ManagerTypeOK, LeaseOK, Retire, Terminate, Exit, AtWork
  <2>. QED  BY <2>1, <2>2 DEF IInv
<1>. QED  BY <1>1, <1>2

(* Every step of the manager keeps the invariant. *)
LEMMA ManagerKeeps == IInv /\ [ManagerNext]_managerVars => IInv'
<1>. SUFFICES ASSUME IInv, [ManagerNext]_managerVars PROVE IInv'
  OBVIOUS
<1>1. ASSUME NEW p \in Pods, Progress(p) PROVE IInv'
  <2>1. CASE StartUp(p) \/ Lead(p) \/ Listen(p)
    BY <2>1, RunsKeep
  <2>2. CASE Drained(p)
    BY <2>2, ExitKeeps DEF Drained, IInv, ManagerTypeOK
  <2>. QED  BY <1>1, <2>1, <2>2 DEF Progress
<1>2. ASSUME NEW p \in Pods, Crash(p) PROVE IInv'
  <2>1. faults' \in 0 .. MaxFaults
    BY <1>2, ManagerAssumption DEF Crash, Fault, IInv, ManagerTypeOK
  <2>. QED  BY <1>2, <2>1, ExitKeeps DEF Crash
<1>3. ASSUME NEW p \in Pods, Probe(p) PROVE IInv'
  BY <1>3 DEF Probe, IInv, ManagerTypeOK, LeaseOK
<1>4. ASSUME NEW p \in Pods, RollOut(p) PROVE IInv'
  BY <1>4, ManagerAssumption DEF RollOut, IInv, ManagerTypeOK, LeaseOK
<1>5. ASSUME NEW p \in Pods, Retire(p) PROVE IInv'
  BY <1>5, RetireKeeps
<1>6. ASSUME NEW r \in Requests, Send(r) PROVE IInv'
  BY <1>6, ManagerAssumption DEF Send, IInv, ManagerTypeOK, LeaseOK, Ends
<1>7. ASSUME NEW r \in Requests, Finish(r) PROVE IInv'
  BY <1>7, ManagerAssumption DEF Finish, IInv, ManagerTypeOK, LeaseOK, Ends
<1>8. CASE LeaseRunsOut
  BY <1>8, ManagerAssumption DEF LeaseRunsOut, IInv, ManagerTypeOK, LeaseOK
<1>9. CASE UNCHANGED managerVars
  BY <1>9 DEF managerVars, IInv, ManagerTypeOK, LeaseOK
<1>. QED
  BY <1>1, <1>2, <1>3, <1>4, <1>5, <1>6, <1>7, <1>8, <1>9 DEF ManagerNext

(* The work is where the lease is, hence in one place. *)
LEMMA LeaseAlone == IInv => OneAtWork
<1>. SUFFICES ASSUME IInv PROVE OneAtWork
  OBVIOUS
<1>. DEFINE S == Reconciling \cup Serving
<1>1. S \subseteq {lease}
  BY DEF IInv, ManagerTypeOK, LeaseOK, AtWork, Reconciling, Serving
<1>2. S = {} \/ S = {lease}
  BY <1>1
<1>3. Cardinality(S) \in {0, 1}
  BY <1>2, FS_EmptySet, FS_Singleton
<1>. HIDE DEF S
<1>4. Cardinality(S) <= 1
  BY <1>3
<1>. QED  BY <1>4 DEF S, OneAtWork

-----------------------------------------------------------------------------
(* The specs of the endpoint are its users' or what the defaulter made. *)
LEMMA AdmissionStarts == AdmissionInit => AdmissionTypeOK
BY AdmissionAssumption
DEF AdmissionInit, AdmissionTypeOK, NoEndpoint, Stored

(* Whoever writes the endpoint, what is stored has passed the schema. *)
LEMMA AdmissionKeeps ==
    ASSUME AdmissionTypeOK, User \/ Reconcile PROVE AdmissionTypeOK'
<1>. DEFINE Objects == [there: BOOLEAN, spec: Stored, finalizer: BOOLEAN, deleting: BOOLEAN]
<1>. DEFINE Fine(e) == /\ e \in Objects
                       /\ e.there => SchemaOK(e.spec)
                       /\ e.deleting => e.finalizer
<1>0. Fine(ep) /\ hooks \in BOOLEAN /\ edits \in 0 .. MaxEdits
  BY DEF AdmissionTypeOK
<1>. HIDE DEF Fine
<1>. DEFINE Rest == hooks \in BOOLEAN /\ edits \in 0 .. MaxEdits
<1>t. ASSUME Touch PROVE edits' \in 0 .. MaxEdits
  BY <1>0, <1>t, AdmissionAssumption DEF Touch
<1>f. ASSUME Fine(ep'), Rest' PROVE AdmissionTypeOK'
  BY <1>f DEF Fine, AdmissionTypeOK
<1>1. Fine(NoEndpoint)
  BY AdmissionAssumption DEF Fine, NoEndpoint, Stored
<1>2. ASSUME NEW s \in Stored, SchemaOK(s)
      PROVE  Fine([there |-> TRUE, spec |-> s, finalizer |-> FALSE, deleting |-> FALSE])
  BY <1>2 DEF Fine
<1>3. CASE Create(Answering)
  <2>1. PICK s \in Specs : LET stored == IF hooks THEN Default(s) ELSE s IN
                            /\ Admitted(stored, Answering)
                            /\ ep' = [NoEndpoint EXCEPT !.there = TRUE, !.spec = stored]
    BY <1>3 DEF Create
  <2>. DEFINE stored == IF hooks THEN Default(s) ELSE s
  <2>2. stored \in Stored
    BY DEF Stored
  <2>3. SchemaOK(stored) /\ ep' = [NoEndpoint EXCEPT !.there = TRUE, !.spec = stored]
    BY <2>1 DEF Admitted
  <2>. HIDE DEF stored
  <2>4. ep' = [there |-> TRUE, spec |-> stored, finalizer |-> FALSE, deleting |-> FALSE]
    BY <2>3 DEF NoEndpoint
  <2>5. Rest'
    BY <1>0, <1>3, <1>t DEF Create
  <2>. QED  BY <1>2, <1>f, <2>2, <2>3, <2>4, <2>5
<1>4. CASE Update(Answering)
  <2>1. PICK s \in Specs : Admitted(s, Answering) /\ ep' = [ep EXCEPT !.spec = s]
    BY <1>4 DEF Update
  <2>2. s \in Stored /\ SchemaOK(s)
    BY <2>1 DEF Stored, Admitted
  <2>3. Fine(ep')
    BY <1>0, <2>1, <2>2 DEF Fine
  <2>4. Rest'
    BY <1>0, <1>4, <1>t DEF Update
  <2>. QED  BY <1>f, <2>3, <2>4
<1>5. CASE Delete
  <2>1. Fine(ep')
    <3>1. CASE ep.finalizer
      BY <1>0, <1>5, <3>1 DEF Delete, Fine
    <3>2. CASE ~ep.finalizer
      BY <1>1, <1>5, <3>2 DEF Delete
    <3>. QED  BY <3>1, <3>2
  <2>2. Rest'
    BY <1>0, <1>5, <1>t DEF Delete
  <2>. QED  BY <1>f, <2>1, <2>2
<1>6. CASE SwitchHooks
  BY <1>0, <1>6, <1>f, <1>t DEF SwitchHooks
<1>7. CASE Reconcile
  <2>1. Fine(ep') /\ UNCHANGED <<hooks, edits>>
    <3>1. CASE AddFinalizer(Answering)
      BY <1>0, <3>1 DEF AddFinalizer, Fine
    <3>2. CASE RemoveFinalizer(Answering)
      BY <1>1, <3>2 DEF RemoveFinalizer
    <3>. QED  BY <1>7, <3>1, <3>2 DEF Reconcile
  <2>. QED  BY <1>0, <1>f, <2>1
<1>. QED
  <2>. HIDE DEF Fine, Rest
  <2>. QED  BY <1>3, <1>4, <1>5, <1>6, <1>7, Zenon DEF User

(* The two modules touch each other's state in no step. *)
LEMMA StepKeeps ==
    IInv /\ AdmissionTypeOK /\ [Next]_vars => IInv' /\ AdmissionTypeOK'
<1>. SUFFICES ASSUME IInv, AdmissionTypeOK, [Next]_vars
              PROVE  IInv' /\ AdmissionTypeOK'
  OBVIOUS
<1>1. CASE ManagerNext /\ UNCHANGED admissionVars
  BY <1>1, ManagerKeeps DEF admissionVars, AdmissionTypeOK
<1>2. CASE (User \/ Reconcile) /\ UNCHANGED managerVars
  BY <1>2, ManagerKeeps, AdmissionKeeps
<1>3. CASE UNCHANGED vars
  BY <1>3, ManagerKeeps DEF vars, admissionVars, AdmissionTypeOK
<1>. QED  BY <1>1, <1>2, <1>3 DEF Next

-----------------------------------------------------------------------------
(* Every reachable state has its type: no request is in the hands of a     *)
(* process that does not serve, and nothing is stored that the schema      *)
(* refuses (cmd/manager/main.go:184-218,                                   *)
(* internal/webhook/modelendpoint_webhook.go:79-119).                      *)
THEOREM TypeCorrect == Spec => []TypeOK
<1>1. Init => IInv /\ AdmissionTypeOK
  BY ManagerStarts, AdmissionStarts DEF Init
<1>2. IInv /\ AdmissionTypeOK => TypeOK
  BY DEF IInv, TypeOK
<1>. QED  BY <1>1, <1>2, StepKeeps, PTL DEF Spec

(* Whatever is rolled out, crashes or drains, one process at most is at    *)
(* work, if one that cannot renew its lease ends before the lease runs out *)
(* (cmd/manager/main.go:96-103, 184-195).                                  *)
THEOREM AloneAtWork == Spec => []OneAtWork
<1>1. Init => IInv /\ AdmissionTypeOK
  BY ManagerStarts, AdmissionStarts DEF Init
<1>. QED  BY <1>1, StepKeeps, LeaseAlone, PTL DEF Spec
=============================================================================
