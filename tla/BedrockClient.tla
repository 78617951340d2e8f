--------------------------- MODULE BedrockClient ---------------------------
(***************************************************************************)
(* bedrock.Client (internal/bedrock/client.go, health.go): the two maps of *)
(* cached AWS clients under one sync.RWMutex, as the goroutines of the     *)
(* proxy (Invoke) and the workers of the controllers (HealthCheck,         *)
(* InvalidateCache) use them.  A step is what a goroutine does between two *)
(* operations of the lock.                                                 *)
(***************************************************************************)
EXTENDS Integers, Sequences

CONSTANTS
    Callers,   \* goroutines of the proxy and workers of the controllers
    Keys,      \* EndpointKey: (IRSA role, region) pairs
    None,      \* no caller
    MaxCalls   \* bound on calls, for TLC

ASSUME CallersAssumption ==
    /\ None \notin Callers /\ Keys # {} /\ MaxCalls \in Nat

VARIABLES
    pc,        \* where each caller is
    op, key,   \* what it has called
    client,    \* the client it has got, by index in made; 0 for none
    runtime,   \* the map of runtime clients; 0: no entry
    control,   \* the map of control-plane clients
    made,      \* every client ever made
    readers,   \* the RWMutex: who holds it for reading,
    writer,    \* who holds it for writing or waits for readers to leave
    calls,     \* how many calls have been made
    dropped,   \* history: InvalidateCache calls per key so far
    since      \* history: "dropped" when the caller's call began

lock == <<readers, writer>>
maps == <<runtime, control, made>>
vars == <<pc, op, key, client, maps, lock, calls, dropped, since>>

Kinds == {"runtime", "control"}

(* Invoke looks for a runtime client, HealthCheck for a control client. *)
Ops == Kinds \cup {"invalidate"}

Steps == {"out", "rlock", "look", "lock", "drain", "check", "make",
          "delete", "deleted", "got"}

Client == [kind: Kinds, key: Keys, epoch: Nat]

TypeOK ==
    /\ pc \in [Callers -> Steps]
    /\ op \in [Callers -> Ops] /\ key \in [Callers -> Keys]
    /\ made \in Seq(Client)
    /\ client \in [Callers -> 0 .. Len(made)]
    /\ runtime \in [Keys -> 0 .. Len(made)]
    /\ control \in [Keys -> 0 .. Len(made)]
    /\ readers \subseteq Callers /\ writer \in Callers \cup {None}
    /\ calls \in 0 .. MaxCalls
    /\ dropped \in [Keys -> Nat] /\ since \in [Callers -> Nat]

Init ==
    /\ pc = [c \in Callers |-> "out"]
    /\ op = [c \in Callers |-> "runtime"]
    /\ key = [c \in Callers |-> CHOOSE k \in Keys : TRUE]
    /\ client = [c \in Callers |-> 0]
    /\ runtime = [k \in Keys |-> 0] /\ control = [k \in Keys |-> 0]
    /\ made = << >>
    /\ readers = {} /\ writer = None /\ calls = 0
    /\ dropped = [k \in Keys |-> 0] /\ since = [c \in Callers |-> 0]

-----------------------------------------------------------------------------
GoTo(c, step) == pc' = [pc EXCEPT ![c] = step]

(* Invoke, HealthCheck or InvalidateCache is called. *)
Begin(c) ==
    /\ pc[c] = "out" /\ calls < MaxCalls /\ calls' = calls + 1
    /\ \E o \in Ops, k \in Keys :
          /\ op' = [op EXCEPT ![c] = o] /\ key' = [key EXCEPT ![c] = k]
          /\ since' = [since EXCEPT ![c] = dropped[k]]
          /\ GoTo(c, IF o = "invalidate" THEN "lock" ELSE "rlock")
    /\ UNCHANGED <<client, maps, lock, dropped>>

(* sync.RWMutex: a writer that waits keeps new readers out. *)
RLock(c) ==
    /\ pc[c] = "rlock" /\ writer = None
    /\ readers' = readers \cup {c}
    /\ GoTo(c, "look")
    /\ UNCHANGED <<op, key, client, maps, writer, calls, dropped, since>>

Lock(c) ==
    /\ pc[c] = "lock" /\ writer = None
    /\ writer' = c
    /\ GoTo(c, "drain")
    /\ UNCHANGED <<op, key, client, maps, readers, calls, dropped, since>>

Drained(c) ==
    /\ pc[c] = "drain" /\ readers = {}
    /\ GoTo(c, IF op[c] = "invalidate" THEN "delete" ELSE "check")
    /\ UNCHANGED <<op, key, client, maps, lock, calls, dropped, since>>

-----------------------------------------------------------------------------
(* runtimeClient and controlClient differ in the map only. *)
Entry(c) == IF op[c] = "runtime" THEN runtime[key[c]] ELSE control[key[c]]

Hit(c) == Entry(c) # 0 /\ client' = [client EXCEPT ![c] = Entry(c)]
               /\ GoTo(c, "got")

Miss(c, step) == Entry(c) = 0 /\ GoTo(c, step) /\ UNCHANGED client

(* Mutant of Look: a hit returns without RUnlock. *)
LookAndKeep(c) ==
    /\ pc[c] = "look"
    /\ \/ Hit(c) /\ UNCHANGED readers
       \/ Miss(c, "lock") /\ readers' = readers \ {c}
    /\ UNCHANGED <<op, key, maps, writer, calls, dropped, since>>

(* Mutant of Look: a miss makes the client under the read lock. *)
LookAndMake(c) ==
    /\ pc[c] = "look"
    /\ \/ Hit(c) /\ readers' = readers \ {c}
       \/ Miss(c, "make") /\ UNCHANGED readers
    /\ UNCHANGED <<op, key, maps, writer, calls, dropped, since>>

(* The lookup under the read lock, and RUnlock. *)
Look(c) ==
    /\ pc[c] = "look"
    /\ Hit(c) \/ Miss(c, "lock")
    /\ readers' = readers \ {c}
    /\ UNCHANGED <<op, key, maps, writer, calls, dropped, since>>

(* Mutant of CheckAgain: the entry is not looked up again. *)
CheckNothing(c) ==
    /\ pc[c] = "check"
    /\ GoTo(c, "make") /\ UNCHANGED <<client, writer>>
    /\ UNCHANGED <<op, key, maps, readers, calls, dropped, since>>

(* "Double-check after acquiring write lock." *)
CheckAgain(c) ==
    /\ pc[c] = "check"
    /\ \/ Hit(c) /\ writer' = None
       \/ Miss(c, "make") /\ UNCHANGED writer
    /\ UNCHANGED <<op, key, maps, readers, calls, dropped, since>>

(* Mutant of Store: both kinds of client go to the map of runtime clients. *)
StoreInRuntime(c, n) == runtime' = [runtime EXCEPT ![key[c]] = n] /\ UNCHANGED control

(* Mutant of Store: the entry names the next client. *)
StoreNext(c, n) ==
    IF op[c] = "runtime"
    THEN runtime' = [runtime EXCEPT ![key[c]] = n + 1] /\ UNCHANGED control
    ELSE control' = [control EXCEPT ![key[c]] = n + 1] /\ UNCHANGED runtime

Store(c, n) ==
    IF op[c] = "runtime"
    THEN runtime' = [runtime EXCEPT ![key[c]] = n] /\ UNCHANGED control
    ELSE control' = [control EXCEPT ![key[c]] = n] /\ UNCHANGED runtime

(* assumeRoleConfig (which never returns an error) and NewFromConfig make  *)
(* the client; the entry is set and Unlock releases the lock.              *)
Make(c) ==
    /\ pc[c] = "make"
    /\ made' = Append(made, [kind |-> op[c], key |-> key[c],
                             epoch |-> dropped[key[c]]])
    /\ Store(c, Len(made'))
    /\ client' = [client EXCEPT ![c] = Len(made')]
    /\ GoTo(c, "got") /\ writer' = None
    /\ UNCHANGED <<op, key, readers, calls, dropped, since>>

(* InvalidateCache deletes the two entries one after the other. *)
DeleteRuntime(c) ==
    /\ pc[c] = "delete"
    /\ runtime' = [runtime EXCEPT ![key[c]] = 0]
    /\ dropped' = [dropped EXCEPT ![key[c]] = @ + 1]
    /\ GoTo(c, "deleted")
    /\ UNCHANGED <<op, key, client, control, made, lock, calls, since>>

(* Mutant of DeleteControl: the control-plane client stays. *)
DeleteNothing(c) ==
    /\ pc[c] = "deleted"
    /\ GoTo(c, "got") /\ writer' = None
    /\ UNCHANGED <<op, key, client, maps, readers, calls, dropped, since>>

DeleteControl(c) ==
    /\ pc[c] = "deleted"
    /\ control' = [control EXCEPT ![key[c]] = 0]
    /\ GoTo(c, "got") /\ writer' = None
    /\ UNCHANGED <<op, key, client, runtime, made, readers, calls, dropped, since>>

(* The call to AWS with the client, outside the lock, and the return. *)
Return(c) ==
    /\ pc[c] = "got"
    /\ GoTo(c, "out") /\ client' = [client EXCEPT ![c] = 0]
    /\ UNCHANGED <<op, key, maps, lock, calls, dropped, since>>

Step(c) ==
    \/ RLock(c) \/ Look(c) \/ Lock(c) \/ Drained(c) \/ CheckAgain(c) \/ Make(c)
    \/ DeleteRuntime(c) \/ DeleteControl(c) \/ Return(c)

Next == \E c \in Callers : Begin(c) \/ Step(c)

Spec == Init /\ [][Next]_vars

(* The Go scheduler runs every goroutine that can run; nobody has to call. *)
FairSpec == Spec /\ \A c \in Callers : WF_vars(Step(c))

-----------------------------------------------------------------------------
(* Go's maps must not be written while anybody else uses them: whoever is  *)
(* between two writes, or between check and entry, is alone under the lock *)
(* (client.go:126-176, 260-265).                                           *)
AloneWhileWriting ==
    \A c, d \in Callers :
        pc[c] \in {"check", "make", "delete", "deleted"} /\ d # c
            => pc[d] \notin {"look", "check", "make", "delete", "deleted"}

(* "One client per key is cached": however many callers miss at once, at   *)
(* most one client of a kind is made for a key between two invalidations   *)
(* (client.go:91-92, 137-140).                                             *)
OneClientPerKey ==
    \A i, j \in 1 .. Len(made) : made[i] = made[j] => i = j

(* A caller works with a client of the kind and of the credentials it      *)
(* asked for, and not with one that an InvalidateCache had dropped before  *)
(* the call began (client.go:128-149, 155-175, 257-265).                   *)
GotFresh ==
    \A c \in Callers : client[c] # 0 =>
        /\ made[client[c]].kind = op[c] /\ made[client[c]].key = key[c]
        /\ made[client[c]].epoch >= since[c]

(* Every call returns: the lock is released on every path (client.go:127-  *)
(* 149, 154-175, 261-262).                                                 *)
EveryCallReturns == \A c \in Callers : pc[c] # "out" ~> pc[c] = "out"

(***************************************************************************)
(* The two maps under the lock are the atomic cache of ClientCache.  A     *)
(* lookup takes effect when it finds or stores the entry, InvalidateCache  *)
(* with its first delete: nobody can look before the second.               *)
(***************************************************************************)
Deleting(k) == \E c \in Callers : pc[c] = "deleted" /\ key[c] = k

Called(c) ==
    IF pc[c] = "out"
    THEN [op |-> "none", key |-> CHOOSE k \in Keys : TRUE, taken |-> FALSE]
    ELSE [op |-> op[c], key |-> key[c], taken |-> pc[c] \in {"got", "deleted"}]

AbstractCall == [c \in Callers |-> Called(c)]

AbstractCache ==
    [kind \in Kinds |-> [k \in Keys |->
        CASE kind = "runtime" -> runtime[k]
          [] kind = "control" -> IF Deleting(k) THEN 0 ELSE control[k]]]

AbstractMade ==
    [i \in 1 .. Len(made) |-> [kind |-> made[i].kind, key |-> made[i].key]]

Atomic == INSTANCE ClientCache WITH
    call <- AbstractCall, answer <- client, cache <- AbstractCache, made <- AbstractMade

(* bedrock.Client implements the atomic cache: calls that overlap behave   *)
(* as if made one after the other (client.go:126-176, 260-265).            *)
IsAtomic == Atomic!Spec
=============================================================================
