------------------------ MODULE BedrockClient_proofs ------------------------
(***************************************************************************)
(* The client cache is safe, for any number of callers, keys and calls.    *)
(***************************************************************************)
EXTENDS BedrockClient, SequenceTheorems, TLAPS

-----------------------------------------------------------------------------
(***************************************************************************)
(* The inductive invariant.                                                *)
(***************************************************************************)

Writing == {"check", "make", "delete", "deleted"}

(* Who reads is a reader, who writes or waits for readers is the writer,   *)
(* and a writer that writes has seen the last reader leave.                *)
LockOK ==
    /\ \A c \in Callers : pc[c] = "look" <=> c \in readers
    /\ \A c \in Callers : pc[c] \in Writing \cup {"drain"} <=> writer = c
    /\ \A c \in Callers : pc[c] \in Writing => readers = {}

(* Where a call is, by what was called. *)
OpOK ==
    \A c \in Callers :
        /\ pc[c] \in {"rlock", "look", "check", "make"} => op[c] \in Kinds
        /\ pc[c] \in {"delete", "deleted"} => op[c] = "invalidate"

(* An entry names a client of its map and key, made since the last         *)
(* InvalidateCache of the key; the one a call is about to delete was not.  *)
EntriesOK ==
    \A k \in Keys :
        /\ runtime[k] # 0 => made[runtime[k]] =
              [kind |-> "runtime", key |-> k, epoch |-> dropped[k]]
        /\ control[k] # 0 =>
              /\ made[control[k]].kind = "control" /\ made[control[k]].key = k
              /\ IF Deleting(k) THEN made[control[k]].epoch < dropped[k]
                                ELSE made[control[k]].epoch = dropped[k]

Cached(kind, k) == IF kind = "runtime" THEN runtime[k] ELSE control[k]

(* A client made since the last InvalidateCache of its key is the entry. *)
MadeOK ==
    \A i \in 1 .. Len(made) :
        /\ made[i].epoch <= dropped[made[i].key]
        /\ made[i].epoch = dropped[made[i].key]
              => Cached(made[i].kind, made[i].key) = i

(* Who is about to make a client has seen that there is none.              *)
MissOK == \A c \in Callers : pc[c] = "make" => Entry(c) = 0

(* Only a call that has its answer holds a client, and no call began later *)
(* than now.                                                               *)
CallsOK ==
    \A c \in Callers :
        /\ client[c] # 0 => pc[c] = "got"
        /\ since[c] <= dropped[key[c]]

IInv == /\ TypeOK /\ LockOK /\ OpOK /\ EntriesOK /\ MadeOK /\ MissOK /\ CallsOK
        /\ OneClientPerKey /\ GotFresh
-----------------------------------------------------------------------------
(* What every step may use. *)
LEMMA MadeFacts ==
    ASSUME IInv
    PROVE  Len(made) \in Nat /\ \A i \in 1 .. Len(made) : made[i] \in Client
BY DEF IInv, TypeOK

(* A step that leaves the maps alone keeps what is said of them. *)
LEMMA EntriesStay ==
    ASSUME IInv, UNCHANGED <<key, runtime, control, made, dropped>>,
           \A c \in Callers : pc'[c] = "deleted" <=> pc[c] = "deleted"
    PROVE  EntriesOK' /\ MadeOK'
<1>1. \A k \in Keys : Deleting(k)' <=> Deleting(k)
  BY DEF Deleting
<1>2. EntriesOK'
  BY <1>1 DEF IInv, EntriesOK
<1>3. MadeOK'
  BY DEF IInv, MadeOK, Cached
<1>. QED  BY <1>2, <1>3

LEMMA EntryMade == ASSUME IInv, NEW c \in Callers PROVE Entry(c) \in 0 .. Len(made)
BY DEF IInv, TypeOK, Entry

(* The entry that a lookup finds is of its kind and key, and was made since *)
(* the call began: while the caller looks, nobody is between two deletes.   *)
LEMMA EntryFresh ==
    ASSUME IInv, NEW c \in Callers, pc[c] \in {"look", "check"}, Entry(c) # 0
    PROVE  /\ made[Entry(c)].kind = op[c] /\ made[Entry(c)].key = key[c]
           /\ made[Entry(c)].epoch >= since[c]
<1>1. key[c] \in Keys /\ op[c] \in Kinds
  BY DEF IInv, TypeOK, OpOK
<1>2. ~Deleting(key[c])
  BY DEF IInv, TypeOK, LockOK, Deleting, Writing
<1>3. since[c] <= dropped[key[c]]
  BY DEF IInv, CallsOK
<1>4. CASE op[c] = "runtime"
  <2>1. runtime[key[c]] # 0 /\ Entry(c) = runtime[key[c]]
    BY <1>4 DEF Entry
  <2>2. made[runtime[key[c]]] = [kind |-> "runtime", key |-> key[c], epoch |-> dropped[key[c]]]
    BY <1>1, <2>1 DEF IInv, EntriesOK
  <2>. QED  BY <1>1, <1>3, <1>4, <2>1, <2>2 DEF IInv, TypeOK
<1>5. CASE op[c] = "control"
  <2>1. control[key[c]] # 0 /\ Entry(c) = control[key[c]]
    BY <1>5 DEF Entry
  <2>2. made[control[key[c]]].epoch = dropped[key[c]]
    BY <1>1, <1>2, <2>1 DEF IInv, EntriesOK
  <2>3. made[control[key[c]]].kind = "control" /\ made[control[key[c]]].key = key[c]
    BY <1>1, <2>1 DEF IInv, EntriesOK
  <2>. QED  BY <1>1, <1>3, <1>5, <2>1, <2>2, <2>3 DEF IInv, TypeOK
<1>. QED
  BY <1>1, <1>4, <1>5 DEF Kinds

LEMMA BeginKeeps == ASSUME IInv, NEW c \in Callers, Begin(c) PROVE IInv'
<1>1. PICK o \in Ops, k \in Keys :
         /\ op' = [op EXCEPT ![c] = o] /\ key' = [key EXCEPT ![c] = k]
         /\ since' = [since EXCEPT ![c] = dropped[k]]
         /\ pc' = [pc EXCEPT ![c] = IF o = "invalidate" THEN "lock" ELSE "rlock"]
  BY DEF Begin, GoTo
<1>2. /\ pc[c] = "out" /\ calls' \in 0 .. MaxCalls
      /\ UNCHANGED <<client, runtime, control, made, readers, writer, dropped>>
  BY CallersAssumption DEF Begin, IInv, TypeOK, maps, lock
<1>3. TypeOK'
  BY <1>1, <1>2 DEF IInv, TypeOK, Steps
<1>4. LockOK'
  BY <1>1, <1>2 DEF IInv, TypeOK, LockOK, Writing
<1>5. OpOK'
  BY <1>1, <1>2 DEF IInv, TypeOK, OpOK, Ops, Kinds
<1>6. EntriesOK'
  BY <1>1, <1>2 DEF IInv, TypeOK, EntriesOK, Deleting
<1>7. MadeOK'
  BY <1>2 DEF IInv, MadeOK, Cached
<1>8. MissOK'
  BY <1>1, <1>2 DEF IInv, TypeOK, MissOK, Entry
<1>9. CallsOK'
  <2>. SUFFICES ASSUME NEW d \in Callers
                PROVE  (client[d] # 0 => pc'[d] = "got") /\ since'[d] <= dropped[key'[d]]
    BY <1>2 DEF CallsOK
  <2>1. CASE d = c
    BY <1>1, <1>2, <2>1 DEF IInv, TypeOK, CallsOK
  <2>2. CASE d # c
    BY <1>1, <2>2 DEF IInv, TypeOK, CallsOK
  <2>. QED  BY <2>1, <2>2
<1>10. OneClientPerKey' /\ GotFresh'
  BY <1>1, <1>2 DEF IInv, TypeOK, CallsOK, OneClientPerKey, GotFresh
<1>. QED  BY <1>3, <1>4, <1>5, <1>6, <1>7, <1>8, <1>9, <1>10 DEF IInv

LEMMA RLockKeeps == ASSUME IInv, NEW c \in Callers, RLock(c) PROVE IInv'
<1>1. /\ pc[c] = "rlock" /\ writer = None /\ readers' = readers \cup {c}
      /\ pc' = [pc EXCEPT ![c] = "look"]
      /\ UNCHANGED <<op, key, client, runtime, control, made, writer, calls, dropped, since>>
  BY DEF RLock, GoTo, maps
<1>2. TypeOK'
  BY <1>1 DEF IInv, TypeOK, Steps, Ops, Kinds
<1>3. LockOK'
  BY <1>1, CallersAssumption DEF IInv, TypeOK, LockOK, Writing
<1>4. OpOK'
  BY <1>1 DEF IInv, TypeOK, OpOK, Ops, Kinds
<1>5. EntriesOK'
  BY <1>1, EntriesStay DEF IInv, TypeOK
<1>6. MadeOK'
  BY <1>1, EntriesStay DEF IInv, TypeOK
<1>7. MissOK'
  BY <1>1 DEF IInv, TypeOK, MissOK, Entry, LockOK, Writing
<1>8. CallsOK'
  BY <1>1 DEF IInv, TypeOK, CallsOK
<1>9. OneClientPerKey'
  BY <1>1 DEF IInv, TypeOK, OneClientPerKey
<1>10. GotFresh'
  BY <1>1 DEF IInv, TypeOK, GotFresh, CallsOK, EntriesOK, OpOK, LockOK, Writing, Deleting
<1>. QED  BY <1>2, <1>3, <1>4, <1>5, <1>6, <1>7, <1>8, <1>9, <1>10 DEF IInv

LEMMA LockKeeps == ASSUME IInv, NEW c \in Callers, Lock(c) PROVE IInv'
<1>1. /\ pc[c] = "lock" /\ writer = None /\ writer' = c
      /\ pc' = [pc EXCEPT ![c] = "drain"]
      /\ UNCHANGED <<op, key, client, runtime, control, made, readers, calls, dropped, since>>
  BY DEF Lock, GoTo, maps
<1>2. TypeOK'
  BY <1>1, CallersAssumption DEF IInv, TypeOK, Steps, Ops, Kinds
<1>3. LockOK'
  BY <1>1, CallersAssumption DEF IInv, TypeOK, LockOK, Writing
<1>4. OpOK'
  BY <1>1, CallersAssumption DEF IInv, TypeOK, OpOK, Ops, Kinds
<1>5. EntriesOK'
  BY <1>1, EntriesStay DEF IInv, TypeOK
<1>6. MadeOK'
  BY <1>1, EntriesStay DEF IInv, TypeOK
<1>7. MissOK'
  BY <1>1, CallersAssumption DEF IInv, TypeOK, MissOK, Entry, LockOK, Writing
<1>8. CallsOK'
  BY <1>1, CallersAssumption DEF IInv, TypeOK, CallsOK
<1>9. OneClientPerKey'
  BY <1>1, CallersAssumption DEF IInv, TypeOK, OneClientPerKey
<1>10. GotFresh'
  BY <1>1, CallersAssumption
  DEF IInv, TypeOK, GotFresh, CallsOK, EntriesOK, OpOK, LockOK, Writing, Deleting
<1>. QED  BY <1>2, <1>3, <1>4, <1>5, <1>6, <1>7, <1>8, <1>9, <1>10 DEF IInv

LEMMA DrainedKeeps == ASSUME IInv, NEW c \in Callers, Drained(c) PROVE IInv'
<1>1. /\ pc[c] = "drain" /\ readers = {}
      /\ pc' = [pc EXCEPT ![c] = IF op[c] = "invalidate" THEN "delete" ELSE "check"]
      /\ UNCHANGED <<op, key, client, runtime, control, made, readers, writer, calls,
                     dropped, since>>
  BY DEF Drained, GoTo, maps, lock
<1>2. TypeOK'
  BY <1>1 DEF IInv, TypeOK, Steps, Ops, Kinds
<1>3. LockOK'
  BY <1>1, CallersAssumption DEF IInv, TypeOK, LockOK, Writing
<1>4. OpOK'
  BY <1>1 DEF IInv, TypeOK, OpOK, Ops, Kinds
<1>5. EntriesOK'
  BY <1>1, EntriesStay DEF IInv, TypeOK
<1>6. MadeOK'
  BY <1>1, EntriesStay DEF IInv, TypeOK
<1>7. MissOK'
  BY <1>1 DEF IInv, TypeOK, MissOK, Entry, LockOK, Writing
<1>8. CallsOK'
  BY <1>1 DEF IInv, TypeOK, CallsOK
<1>9. OneClientPerKey'
  BY <1>1 DEF IInv, TypeOK, OneClientPerKey
<1>10. GotFresh'
  BY <1>1 DEF IInv, TypeOK, GotFresh, CallsOK, EntriesOK, OpOK, LockOK, Writing, Deleting
<1>. QED  BY <1>2, <1>3, <1>4, <1>5, <1>6, <1>7, <1>8, <1>9, <1>10 DEF IInv

LEMMA LookKeeps == ASSUME IInv, NEW c \in Callers, Look(c) PROVE IInv'
<1>1. /\ pc[c] = "look" /\ readers' = readers \ {c}
      /\ \/ /\ client' = [client EXCEPT ![c] = Entry(c)] /\ Entry(c) # 0
            /\ pc' = [pc EXCEPT ![c] = "got"]
         \/ client' = client /\ pc' = [pc EXCEPT ![c] = "lock"]
      /\ UNCHANGED <<op, key, runtime, control, made, writer, calls, dropped, since>>
      /\ Entry(c) \in 0 .. Len(made)
  BY EntryMade DEF Look, Hit, Miss, GoTo, maps
<1>2. TypeOK'
  BY <1>1 DEF IInv, TypeOK, Steps, Ops, Kinds
<1>3. LockOK'
  BY <1>1, CallersAssumption DEF IInv, TypeOK, LockOK, Writing
<1>4. OpOK'
  BY <1>1 DEF IInv, TypeOK, OpOK, Ops, Kinds
<1>5. EntriesOK'
  BY <1>1, EntriesStay DEF IInv, TypeOK
<1>6. MadeOK'
  BY <1>1, EntriesStay DEF IInv, TypeOK
<1>7. MissOK'
  BY <1>1 DEF IInv, TypeOK, MissOK, Entry, LockOK, Writing
<1>8. CallsOK'
  BY <1>1 DEF IInv, TypeOK, CallsOK
<1>9. OneClientPerKey'
  BY <1>1 DEF IInv, TypeOK, OneClientPerKey
<1>10. GotFresh'
  <2>. SUFFICES ASSUME NEW d \in Callers, client'[d] # 0
                PROVE  /\ made[client'[d]].kind = op[d] /\ made[client'[d]].key = key[d]
                       /\ made[client'[d]].epoch >= since[d]
    BY <1>1 DEF GotFresh
  <2>1. CASE d = c /\ client'[c] = Entry(c)
    BY <1>1, <2>1, EntryFresh
  <2>2. CASE client'[d] = client[d]
    BY <1>1, <2>2 DEF IInv, GotFresh
  <2>. QED  BY <1>1, <2>1, <2>2 DEF IInv, TypeOK
<1>. QED  BY <1>2, <1>3, <1>4, <1>5, <1>6, <1>7, <1>8, <1>9, <1>10 DEF IInv

LEMMA CheckAgainKeeps == ASSUME IInv, NEW c \in Callers, CheckAgain(c) PROVE IInv'
<1>1. /\ pc[c] = "check"
      /\ \/ /\ client' = [client EXCEPT ![c] = Entry(c)] /\ Entry(c) # 0
            /\ pc' = [pc EXCEPT ![c] = "got"] /\ writer' = None
         \/ /\ client' = client /\ Entry(c) = 0
            /\ pc' = [pc EXCEPT ![c] = "make"] /\ writer' = writer
      /\ UNCHANGED <<op, key, runtime, control, made, readers, calls, dropped, since>>
      /\ Entry(c) \in 0 .. Len(made)
  BY EntryMade DEF CheckAgain, Hit, Miss, GoTo, maps
<1>2. TypeOK'
  BY <1>1 DEF IInv, TypeOK, Steps, Ops, Kinds
<1>3. LockOK'
  BY <1>1, CallersAssumption DEF IInv, TypeOK, LockOK, Writing
<1>4. OpOK'
  BY <1>1 DEF IInv, TypeOK, OpOK, Ops, Kinds
<1>5. EntriesOK'
  BY <1>1, EntriesStay DEF IInv, TypeOK
<1>6. MadeOK'
  BY <1>1, EntriesStay DEF IInv, TypeOK
<1>7. MissOK'
  BY <1>1 DEF IInv, TypeOK, MissOK, Entry, LockOK, Writing
<1>8. CallsOK'
  BY <1>1 DEF IInv, TypeOK, CallsOK
<1>9. OneClientPerKey'
  BY <1>1 DEF IInv, TypeOK, OneClientPerKey
<1>10. GotFresh'
  <2>. SUFFICES ASSUME NEW d \in Callers, client'[d] # 0
                PROVE  /\ made[client'[d]].kind = op[d] /\ made[client'[d]].key = key[d]
                       /\ made[client'[d]].epoch >= since[d]
    BY <1>1 DEF GotFresh
  <2>1. CASE d = c /\ client'[c] = Entry(c)
    BY <1>1, <2>1, EntryFresh
  <2>2. CASE client'[d] = client[d]
    BY <1>1, <2>2 DEF IInv, GotFresh
  <2>. QED  BY <1>1, <2>1, <2>2 DEF IInv, TypeOK
<1>. QED  BY <1>2, <1>3, <1>4, <1>5, <1>6, <1>7, <1>8, <1>9, <1>10 DEF IInv

LEMMA MakeKeeps == ASSUME IInv, NEW c \in Callers, Make(c) PROVE IInv'
<1>. DEFINE n   == Len(made')
            new == [kind |-> op[c], key |-> key[c], epoch |-> dropped[key[c]]]
<1>1. /\ pc[c] = "make" /\ op[c] \in Kinds /\ writer = c
      /\ key[c] \in Keys /\ dropped[key[c]] \in Nat /\ Entry(c) = 0
  BY DEF Make, IInv, TypeOK, OpOK, LockOK, Writing, MissOK
<1>2. /\ made' \in Seq(Client) /\ n = Len(made) + 1 /\ Len(made) \in Nat
      /\ made'[n] = new /\ \A i \in 1 .. Len(made) : made'[i] = made[i]
  <2>1. new \in Client
    BY <1>1 DEF Client
  <2>. QED  BY <1>1, <2>1, AppendProperties DEF Make, IInv, TypeOK
<1>3. /\ Store(c, n) /\ client' = [client EXCEPT ![c] = n]
      /\ pc' = [pc EXCEPT ![c] = "got"] /\ writer' = None
      /\ UNCHANGED <<op, key, readers, calls, dropped, since>>
  BY DEF Make, GoTo
<1>4. \A k \in Keys : ~Deleting(k) /\ ~Deleting(k)'
  BY <1>1, <1>3, CallersAssumption DEF Deleting, IInv, TypeOK, LockOK, Writing
<1>. HIDE DEF n, new
<1>5. TypeOK'
  <2>1. n \in Nat /\ 0 .. Len(made) \subseteq 0 .. n /\ n \in 0 .. n
    BY <1>2
  <2>2. /\ client' \in [Callers -> 0 .. n]
        /\ runtime' \in [Keys -> 0 .. n] /\ control' \in [Keys -> 0 .. n]
    BY <1>3, <2>1 DEF IInv, TypeOK, Store
  <2>. QED  BY <1>2, <1>3, <2>2 DEF IInv, TypeOK, Steps, n
<1>6. LockOK'
  BY <1>1, <1>3, CallersAssumption DEF IInv, TypeOK, LockOK, Writing
<1>7. OpOK'
  BY <1>3 DEF IInv, TypeOK, OpOK
<1>8. EntriesOK'
  <2>1. ASSUME NEW k \in Keys
        PROVE  /\ runtime'[k] # 0 => made'[runtime'[k]] =
                     [kind |-> "runtime", key |-> k, epoch |-> dropped[k]]
               /\ control'[k] # 0 => /\ made'[control'[k]].kind = "control"
                                     /\ made'[control'[k]].key = k
                                     /\ made'[control'[k]].epoch = dropped[k]
    <3>1. /\ runtime[k] \in 0 .. Len(made) /\ control[k] \in 0 .. Len(made)
          /\ runtime[k] # 0 => made'[runtime[k]] = made[runtime[k]]
          /\ control[k] # 0 => made'[control[k]] = made[control[k]]
      BY <1>2 DEF IInv, TypeOK
    <3>2. runtime'[k] = IF op[c] = "runtime" /\ key[c] = k THEN n ELSE runtime[k]
      BY <1>3 DEF Store, IInv, TypeOK
    <3>3. control'[k] = IF op[c] = "control" /\ key[c] = k THEN n ELSE control[k]
      BY <1>1, <1>3 DEF Store, IInv, TypeOK, Kinds
    <3>4. /\ runtime[k] # 0 => made[runtime[k]] =
                [kind |-> "runtime", key |-> k, epoch |-> dropped[k]]
          /\ control[k] # 0 => /\ made[control[k]].kind = "control"
                               /\ made[control[k]].key = k
                               /\ made[control[k]].epoch = dropped[k]
      BY <1>4 DEF IInv, EntriesOK
    <3>. QED  BY <1>2, <3>1, <3>2, <3>3, <3>4 DEF new
  <2>2. dropped' = dropped
    BY <1>3
  <2>. QED  BY <1>4, <2>1, <2>2 DEF EntriesOK
<1>9. \A i \in 1 .. Len(made) : made[i] # new
  BY <1>1 DEF IInv, MadeOK, Cached, Entry, Kinds, new
<1>10. MadeOK'
  <2>. DEFINE Now(kind, k) == IF kind = "runtime" THEN runtime'[k] ELSE control'[k]
  <2>. SUFFICES ASSUME NEW i \in 1 .. n
                PROVE  /\ made'[i].epoch <= dropped[made'[i].key]
                       /\ made'[i].epoch = dropped[made'[i].key]
                             => Now(made'[i].kind, made'[i].key) = i
    BY <1>3 DEF MadeOK, Cached, n
  <2>1. CASE i = n
    <3>1. Now(op[c], key[c]) = n
      BY <1>1, <1>3 DEF IInv, TypeOK, Store, Kinds
    <3>. HIDE DEF Now
    <3>. QED  BY <1>1, <1>2, <2>1, <3>1 DEF new
  <2>2. CASE i # n
    <3>1. i \in 1 .. Len(made) /\ made'[i] = made[i] /\ made[i] \in Client
      BY <1>2, <2>2 DEF IInv, TypeOK
    <3>2. made[i].epoch = dropped[made[i].key]
             => ~(made[i].kind = op[c] /\ made[i].key = key[c])
      BY <1>9, <3>1 DEF Client, new
    <3>3. made[i].epoch = dropped[made[i].key]
             => Now(made[i].kind, made[i].key) = Cached(made[i].kind, made[i].key)
      BY <1>1, <1>3, <3>1, <3>2 DEF IInv, TypeOK, Cached, Store, Kinds, Client
    <3>. HIDE DEF Now
    <3>. QED  BY <3>1, <3>3 DEF IInv, MadeOK
  <2>. QED  BY <2>1, <2>2
<1>11. MissOK'
  BY <1>1, <1>3 DEF IInv, TypeOK, MissOK, LockOK, Writing
<1>12. CallsOK'
  BY <1>3 DEF IInv, TypeOK, CallsOK
<1>13. OneClientPerKey'
  BY <1>2, <1>9 DEF IInv, OneClientPerKey, n
<1>14. GotFresh'
  <2>. SUFFICES ASSUME NEW d \in Callers, client'[d] # 0
                PROVE  /\ made'[client'[d]].kind = op[d] /\ made'[client'[d]].key = key[d]
                       /\ made'[client'[d]].epoch >= since[d]
    BY <1>3 DEF GotFresh
  <2>1. CASE d = c
    BY <1>1, <1>2, <1>3, <2>1 DEF IInv, TypeOK, CallsOK, new
  <2>2. CASE d # c
    <3>1. client'[d] = client[d] /\ client[d] \in 1 .. Len(made)
      BY <1>2, <1>3, <2>2 DEF IInv, TypeOK
    <3>. QED  BY <1>2, <3>1 DEF IInv, GotFresh
  <2>. QED  BY <2>1, <2>2
<1>. QED
  BY <1>5, <1>6, <1>7, <1>8, <1>10, <1>11, <1>12, <1>13, <1>14 DEF IInv

LEMMA DeleteRuntimeKeeps == ASSUME IInv, NEW c \in Callers, DeleteRuntime(c) PROVE IInv'
<1>1. /\ pc[c] = "delete" /\ pc' = [pc EXCEPT ![c] = "deleted"]
      /\ runtime' = [runtime EXCEPT ![key[c]] = 0]
      /\ dropped' = [dropped EXCEPT ![key[c]] = @ + 1]
      /\ UNCHANGED <<op, key, client, control, made, readers, writer, calls, since>>
  BY DEF DeleteRuntime, GoTo, lock
<1>2. TypeOK'
  <2>1. runtime' \in [Keys -> 0 .. Len(made)]
    BY <1>1, MadeFacts DEF IInv, TypeOK
  <2>2. dropped' \in [Keys -> Nat] /\ pc' \in [Callers -> Steps]
    BY <1>1 DEF IInv, TypeOK, Steps
  <2>. QED  BY <1>1, <2>1, <2>2 DEF IInv, TypeOK
<1>3. LockOK'
  BY <1>1, CallersAssumption DEF IInv, TypeOK, LockOK, Writing
<1>4. OpOK'
  BY <1>1 DEF IInv, TypeOK, OpOK, Ops, Kinds
<1>5. EntriesOK'
  BY <1>1 DEF IInv, TypeOK, EntriesOK, Deleting, LockOK, OpOK, Writing
<1>6. MadeOK'
  <2>. SUFFICES ASSUME NEW i \in 1 .. Len(made)
                PROVE  /\ made[i].epoch <= dropped'[made[i].key]
                       /\ made[i].epoch = dropped'[made[i].key]
                             => Cached(made[i].kind, made[i].key)' = i
    BY <1>1 DEF MadeOK
  <2>1. /\ made[i].kind \in Kinds /\ made[i].key \in Keys /\ made[i].epoch \in Nat
        /\ made[i].epoch <= dropped[made[i].key] /\ key[c] \in Keys
    BY MadeFacts DEF IInv, MadeOK, Client, TypeOK
  <2>2. CASE made[i].key = key[c]
    BY <1>1, <2>1, <2>2 DEF IInv, TypeOK
  <2>3. CASE made[i].key # key[c]
    <3>1. /\ dropped'[made[i].key] = dropped[made[i].key]
          /\ runtime'[made[i].key] = runtime[made[i].key] /\ control' = control
      BY <1>1, <2>1, <2>3 DEF IInv, TypeOK
    <3>. QED  BY <1>1, <2>1, <3>1 DEF IInv, MadeOK, Cached
  <2>. QED  BY <2>2, <2>3
<1>7. MissOK'
  BY <1>1 DEF IInv, TypeOK, MissOK, Entry, LockOK, Writing
<1>8. CallsOK'
  BY <1>1 DEF IInv, TypeOK, CallsOK
<1>9. OneClientPerKey'
  BY <1>1 DEF IInv, TypeOK, OneClientPerKey
<1>10. GotFresh'
  BY <1>1 DEF IInv, TypeOK, GotFresh, CallsOK, EntriesOK, OpOK, LockOK, Writing, Deleting
<1>. QED  BY <1>2, <1>3, <1>4, <1>5, <1>6, <1>7, <1>8, <1>9, <1>10 DEF IInv

LEMMA DeleteControlKeeps == ASSUME IInv, NEW c \in Callers, DeleteControl(c) PROVE IInv'
<1>1. /\ pc[c] = "deleted" /\ pc' = [pc EXCEPT ![c] = "got"] /\ writer' = None
      /\ control' = [control EXCEPT ![key[c]] = 0]
      /\ UNCHANGED <<op, key, client, runtime, made, readers, calls, dropped, since>>
  BY DEF DeleteControl, GoTo
<1>2. TypeOK'
  BY <1>1 DEF IInv, TypeOK, Steps, Ops, Kinds
<1>3. LockOK'
  BY <1>1, CallersAssumption DEF IInv, TypeOK, LockOK, Writing
<1>4. OpOK'
  BY <1>1 DEF IInv, TypeOK, OpOK, Ops, Kinds
<1>5. EntriesOK'
  BY <1>1 DEF IInv, TypeOK, EntriesOK, Deleting, LockOK, OpOK, Writing
<1>6. MadeOK'
  <2>. SUFFICES ASSUME NEW i \in 1 .. Len(made)
                PROVE  /\ made[i].epoch <= dropped[made[i].key]
                       /\ made[i].epoch = dropped[made[i].key]
                             => Cached(made[i].kind, made[i].key)' = i
    BY <1>1 DEF MadeOK
  <2>1. made[i].kind \in Kinds /\ made[i].key \in Keys /\ key[c] \in Keys
    BY MadeFacts DEF IInv, Client, TypeOK
  <2>2. CASE made[i].kind = "control" /\ made[i].key = key[c]
    <3>1. Deleting(key[c])
      BY <1>1 DEF Deleting
    <3>2. ASSUME control[key[c]] = i PROVE made[i].epoch < dropped[key[c]]
      <4>1. control[key[c]] # 0
        BY <3>2
      <4>. QED  BY <2>1, <3>1, <3>2, <4>1 DEF IInv, EntriesOK
    <3>3. made[i].epoch = dropped[made[i].key] => control[key[c]] = i
      BY <2>2 DEF IInv, MadeOK, Cached
    <3>4. made[i].epoch \in Nat /\ dropped[key[c]] \in Nat
      BY <2>1, MadeFacts DEF IInv, TypeOK, Client
    <3>. QED  BY <2>2, <3>2, <3>3, <3>4 DEF IInv, MadeOK
  <2>3. CASE ~(made[i].kind = "control" /\ made[i].key = key[c])
    BY <1>1, <2>1, <2>3 DEF IInv, TypeOK, MadeOK, Cached, Kinds
  <2>. QED  BY <2>2, <2>3
<1>7. MissOK'
  BY <1>1 DEF IInv, TypeOK, MissOK, Entry, LockOK, Writing
<1>8. CallsOK'
  BY <1>1 DEF IInv, TypeOK, CallsOK
<1>9. OneClientPerKey'
  BY <1>1 DEF IInv, TypeOK, OneClientPerKey
<1>10. GotFresh'
  BY <1>1 DEF IInv, TypeOK, GotFresh, CallsOK, EntriesOK, OpOK, LockOK, Writing, Deleting
<1>. QED  BY <1>2, <1>3, <1>4, <1>5, <1>6, <1>7, <1>8, <1>9, <1>10 DEF IInv

LEMMA ReturnKeeps == ASSUME IInv, NEW c \in Callers, Return(c) PROVE IInv'
<1>1. /\ pc[c] = "got" /\ pc' = [pc EXCEPT ![c] = "out"]
      /\ client' = [client EXCEPT ![c] = 0]
      /\ UNCHANGED <<op, key, runtime, control, made, readers, writer, calls, dropped, since>>
  BY DEF Return, GoTo, maps, lock
<1>2. TypeOK'
  <2>1. client' \in [Callers -> 0 .. Len(made)]
    BY <1>1, MadeFacts DEF IInv, TypeOK
  <2>. QED  BY <1>1, <2>1 DEF IInv, TypeOK, Steps
<1>3. LockOK'
  BY <1>1, CallersAssumption DEF IInv, TypeOK, LockOK, Writing
<1>4. OpOK'
  BY <1>1 DEF IInv, TypeOK, OpOK, Ops, Kinds
<1>5. EntriesOK'
  BY <1>1, EntriesStay DEF IInv, TypeOK
<1>6. MadeOK'
  BY <1>1, EntriesStay DEF IInv, TypeOK
<1>7. MissOK'
  BY <1>1 DEF IInv, TypeOK, MissOK, Entry, LockOK, Writing
<1>8. CallsOK'
  BY <1>1 DEF IInv, TypeOK, CallsOK
<1>9. OneClientPerKey'
  BY <1>1 DEF IInv, TypeOK, OneClientPerKey
<1>10. GotFresh'
  BY <1>1 DEF IInv, TypeOK, GotFresh, CallsOK, EntriesOK, OpOK, LockOK, Writing, Deleting
<1>. QED  BY <1>2, <1>3, <1>4, <1>5, <1>6, <1>7, <1>8, <1>9, <1>10 DEF IInv


-----------------------------------------------------------------------------
LEMMA InitOK == Init => IInv
BY CallersAssumption
DEF Init, IInv, TypeOK, Steps, Ops, Kinds, LockOK, Writing, OpOK, EntriesOK, MadeOK,
    MissOK, CallsOK, OneClientPerKey, GotFresh, Entry, Deleting

LEMMA NextKeeps == IInv /\ [Next]_vars => IInv'
<1>1. ASSUME IInv, UNCHANGED vars PROVE IInv'
  BY <1>1
  DEF vars, maps, lock, IInv, TypeOK, LockOK, OpOK, EntriesOK, MadeOK, MissOK, CallsOK,
      OneClientPerKey, GotFresh, Entry, Deleting, Cached
<1>. QED
  BY <1>1, BeginKeeps, RLockKeeps, LockKeeps, DrainedKeeps, LookKeeps, CheckAgainKeeps,
     MakeKeeps, DeleteRuntimeKeeps, DeleteControlKeeps, ReturnKeeps
  DEF Next, Step

LEMMA Invariance == Spec => []IInv
BY InitOK, NextKeeps, PTL DEF Spec

(* No call is ever given, and no map ever holds, a client that was not     *)
(* made (internal/bedrock/client.go:126-176).                              *)
THEOREM TypeCorrect == Spec => []TypeOK
<1>1. IInv => TypeOK
  BY DEF IInv
<1>. QED  BY <1>1, Invariance, PTL

(* Whoever writes the maps is alone with them, however many goroutines     *)
(* there are (internal/bedrock/client.go:126-176, 260-265).                *)
THEOREM AloneCorrect == Spec => []AloneWhileWriting
<1>1. IInv => AloneWhileWriting
  BY CallersAssumption DEF IInv, TypeOK, LockOK, Writing, AloneWhileWriting
<1>. QED  BY <1>1, Invariance, PTL

(* However many callers miss at once, one of them makes the client         *)
(* (internal/bedrock/client.go:91-92, 137-140).                            *)
THEOREM OneClientCorrect == Spec => []OneClientPerKey
<1>1. IInv => OneClientPerKey
  BY DEF IInv
<1>. QED  BY <1>1, Invariance, PTL

(* Nobody works with a client of another kind or key, or with one dropped  *)
(* before the call began (internal/bedrock/client.go:128-149, 257-265).    *)
THEOREM FreshCorrect == Spec => []GotFresh
<1>1. IInv => GotFresh
  BY DEF IInv
<1>. QED  BY <1>1, Invariance, PTL

-----------------------------------------------------------------------------
(***************************************************************************)
(* The cache is atomic: each step takes the effect of a call, or none.     *)
(***************************************************************************)

AbstractStep == [Atomic!Next]_(Atomic!vars)

(* A step of c leaves the calls of the others alone. *)
LEMMA CallMoves ==
    ASSUME NEW c \in Callers, NEW v, Called(c)' = v,
           \A d \in Callers \ {c} : UNCHANGED <<pc[d], op[d], key[d]>>
    PROVE  AbstractCall' = [AbstractCall EXCEPT ![c] = v]
BY DEF AbstractCall, Called

LEMMA CallStays ==
    ASSUME NEW c \in Callers, Called(c)' = Called(c),
           \A d \in Callers \ {c} : UNCHANGED <<pc[d], op[d], key[d]>>
    PROVE  AbstractCall' = AbstractCall
BY DEF AbstractCall, Called

LEMMA CacheStays ==
    ASSUME UNCHANGED <<runtime, control>>, \A k \in Keys : Deleting(k)' = Deleting(k)
    PROVE  AbstractCache' = AbstractCache
BY DEF AbstractCache

LEMMA MadeStays == made' = made => AbstractMade' = AbstractMade
BY DEF AbstractMade

(* Waiting for the lock, and looking without finding, is no effect. *)
LEMMA WaitStutters ==
    ASSUME IInv, NEW c \in Callers,
           RLock(c) \/ Lock(c) \/ Drained(c) \/ (Look(c) /\ Miss(c, "lock"))
              \/ (CheckAgain(c) /\ Miss(c, "make"))
    PROVE  AbstractStep
<1>1. /\ UNCHANGED <<op, key, client, runtime, control, made, calls>>
      /\ pc[c] \in {"rlock", "lock", "drain", "look", "check"}
      /\ \E s \in {"look", "drain", "check", "delete", "lock", "make"} :
            pc' = [pc EXCEPT ![c] = s]
  BY DEF RLock, Lock, Drained, Look, CheckAgain, Miss, GoTo, lock, maps
<1>2. Called(c)' = Called(c) /\ \A d \in Callers \ {c} : UNCHANGED <<pc[d], op[d], key[d]>>
  BY <1>1 DEF Called, IInv, TypeOK
<1>3. \A k \in Keys : Deleting(k)' = Deleting(k)
  BY <1>1 DEF Deleting, IInv, TypeOK
<1>4. AbstractCall' = AbstractCall /\ AbstractCache' = AbstractCache /\ AbstractMade' = AbstractMade
  BY <1>1, <1>2, <1>3, CallStays, CacheStays, MadeStays
<1>. QED  BY <1>1, <1>4 DEF AbstractStep, Atomic!vars

LEMMA BeginRefines == ASSUME IInv, NEW c \in Callers, Begin(c) PROVE Atomic!Begin(c)
<1>1. PICK o \in Ops, k \in Keys :
         /\ op' = [op EXCEPT ![c] = o] /\ key' = [key EXCEPT ![c] = k]
         /\ pc' = [pc EXCEPT ![c] = IF o = "invalidate" THEN "lock" ELSE "rlock"]
  BY DEF Begin, GoTo
<1>2. /\ pc[c] = "out" /\ calls < MaxCalls /\ calls' = calls + 1
      /\ UNCHANGED <<client, runtime, control, made>>
  BY DEF Begin, maps
<1>3. Called(c)' = [op |-> o, key |-> k, taken |-> FALSE]
  <2>1. pc'[c] \in {"lock", "rlock"} /\ op'[c] = o /\ key'[c] = k
    BY <1>1 DEF IInv, TypeOK
  <2>2. pc'[c] # "out" /\ (pc'[c] \in {"got", "deleted"}) = FALSE
    BY <2>1
  <2>. QED  BY <2>1, <2>2, Zenon DEF Called
<1>4. \A d \in Callers \ {c} : UNCHANGED <<pc[d], op[d], key[d]>>
  BY <1>1 DEF IInv, TypeOK
<1>5. AbstractCall' = [AbstractCall EXCEPT ![c] = [op |-> o, key |-> k, taken |-> FALSE]]
  BY <1>3, <1>4, CallMoves
<1>6. \A k1 \in Keys : Deleting(k1)' = Deleting(k1)
  BY <1>1, <1>2 DEF Deleting, IInv, TypeOK
<1>7. AbstractCall[c] = Atomic!Out
  BY <1>2 DEF AbstractCall, Called, Atomic!Out
<1>8. o \in Atomic!Ops
  BY DEF Ops, Kinds, Atomic!Ops, Atomic!Kinds
<1>. QED
  BY <1>2, <1>5, <1>6, <1>7, <1>8, CacheStays, MadeStays DEF Atomic!Begin

LEMMA Taken ==
    ASSUME NEW O, NEW K, NEW r \in [op: O, key: K, taken: BOOLEAN]
    PROVE  [r EXCEPT !.taken = TRUE] = [op |-> r.op, key |-> r.key, taken |-> TRUE]
<1>. DEFINE s == [r EXCEPT !.taken = TRUE]
<1>1. s \in [op: O, key: K, taken: BOOLEAN] /\ s.op = r.op /\ s.key = r.key /\ s.taken = TRUE
  OBVIOUS
<1>. HIDE DEF s
<1>2. s = [op |-> r.op, key |-> r.key, taken |-> TRUE]
  BY <1>1
<1>. QED  BY <1>2 DEF s

(* The call of c takes its effect, whatever that is. *)
LEMMA Takes ==
    ASSUME IInv, NEW c \in Callers, pc[c] \in {"look", "check", "make", "delete"},
           NEW s \in {"got", "deleted"}, pc' = [pc EXCEPT ![c] = s], UNCHANGED <<op, key>>
    PROVE  /\ Atomic!Take(c)
           /\ AbstractCall[c] = [op |-> op[c], key |-> key[c], taken |-> FALSE]
<1>1. /\ Called(c) = [op |-> op[c], key |-> key[c], taken |-> FALSE]
      /\ Called(c)' = [op |-> op[c], key |-> key[c], taken |-> TRUE]
  <2>1. /\ pc[c] # "out" /\ (pc[c] \in {"got", "deleted"}) = FALSE
        /\ pc'[c] # "out" /\ (pc'[c] \in {"got", "deleted"}) = TRUE
    BY DEF IInv, TypeOK
  <2>. QED  BY <2>1, Zenon DEF Called
<1>2. \A d \in Callers \ {c} : UNCHANGED <<pc[d], op[d], key[d]>>
  BY DEF IInv, TypeOK
<1>3. AbstractCall' = [AbstractCall EXCEPT ![c] = [op |-> op[c], key |-> key[c], taken |-> TRUE]]
  BY <1>1, <1>2, CallMoves
<1>4. AbstractCall[c] = [op |-> op[c], key |-> key[c], taken |-> FALSE]
  BY <1>1 DEF AbstractCall
<1>5. [AbstractCall[c] EXCEPT !.taken = TRUE] = [op |-> op[c], key |-> key[c], taken |-> TRUE]
  <2>. DEFINE r == AbstractCall[c]
  <2>1. r \in [op: Ops, key: Keys, taken: BOOLEAN] /\ r.op = op[c] /\ r.key = key[c]
    BY <1>4 DEF IInv, TypeOK
  <2>. HIDE DEF r
  <2>2. [r EXCEPT !.taken = TRUE] = [op |-> r.op, key |-> r.key, taken |-> TRUE]
    BY <2>1, Taken
  <2>. QED  BY <2>1, <2>2, Zenon DEF r
<1>. QED  BY <1>3, <1>4, <1>5, Zenon DEF Atomic!Take

(* Under either lock nobody is between two deletions. *)
LEMMA NobodyDeletes ==
    ASSUME IInv, NEW c \in Callers, pc[c] \in {"look", "check", "make", "delete"}
    PROVE  \A k \in Keys : ~Deleting(k)
BY CallersAssumption DEF IInv, TypeOK, LockOK, Writing, Deleting

LEMMA HitRefines ==
    ASSUME IInv, NEW c \in Callers, Look(c) \/ CheckAgain(c), Hit(c)
    PROVE  Atomic!Lookup(c)
<1>1. /\ pc[c] \in {"look", "check"} /\ UNCHANGED <<op, key, runtime, control, made, calls>>
      /\ Entry(c) # 0 /\ client' = [client EXCEPT ![c] = Entry(c)]
      /\ pc' = [pc EXCEPT ![c] = "got"]
  BY DEF Look, CheckAgain, Hit, GoTo, maps
<1>2. op[c] \in Kinds /\ key[c] \in Keys
  BY <1>1 DEF IInv, TypeOK, OpOK
<1>3. /\ Atomic!Take(c)
      /\ AbstractCall[c] = [op |-> op[c], key |-> key[c], taken |-> FALSE]
  BY <1>1, Takes
<1>4. AbstractCache[op[c]][key[c]] = Entry(c)
  BY <1>1, <1>2, NobodyDeletes DEF AbstractCache, Entry, Kinds
<1>5. \A k \in Keys : Deleting(k)' = Deleting(k)
  BY <1>1 DEF Deleting, IInv, TypeOK
<1>6. AbstractCache' = AbstractCache /\ AbstractMade' = AbstractMade
  BY <1>1, <1>5, CacheStays, MadeStays
<1>7. /\ AbstractCall[c].op = op[c] /\ AbstractCall[c].key = key[c]
      /\ ~AbstractCall[c].taken /\ op[c] \in Atomic!Kinds
  BY <1>2, <1>3 DEF Atomic!Kinds, Kinds
<1>. QED
  BY <1>1, <1>3, <1>4, <1>6, <1>7 DEF Atomic!Lookup

LEMMA MakeRefines == ASSUME IInv, NEW c \in Callers, Make(c) PROVE Atomic!Lookup(c)
<1>. DEFINE n   == Len(made)
            new == [kind |-> op[c], key |-> key[c], epoch |-> dropped[key[c]]]
<1>1. /\ pc[c] = "make" /\ pc' = [pc EXCEPT ![c] = "got"]
      /\ UNCHANGED <<op, key, calls>> /\ made' = Append(made, new)
  BY DEF Make, GoTo
<1>2. op[c] \in Kinds /\ key[c] \in Keys /\ Entry(c) = 0 /\ new \in Client
  BY <1>1 DEF IInv, TypeOK, OpOK, MissOK, Client
<1>3. /\ n \in Nat /\ Len(made') = n + 1 /\ made'[n + 1] = new
      /\ \A i \in 1 .. n : made'[i] = made[i]
  BY <1>1, <1>2, AppendProperties DEF IInv, TypeOK
<1>4. Store(c, n + 1) /\ client' = [client EXCEPT ![c] = n + 1]
  BY <1>3 DEF Make
<1>. HIDE DEF n, new
<1>5. /\ Atomic!Take(c)
      /\ AbstractCall[c] = [op |-> op[c], key |-> key[c], taken |-> FALSE]
  BY <1>1, Takes
<1>6. \A k \in Keys : ~Deleting(k) /\ ~Deleting(k)'
  <2>1. \A k \in Keys : ~Deleting(k)
    BY <1>1, NobodyDeletes
  <2>. QED  BY <1>1, <2>1 DEF Deleting, IInv, TypeOK
<1>7. AbstractCache[op[c]][key[c]] = 0
  BY <1>2, <1>6 DEF AbstractCache, Entry, Kinds
<1>8. AbstractMade' = Append(AbstractMade, [kind |-> op[c], key |-> key[c]])
  <2>. DEFINE Row == [kind: Kinds, key: Keys]
              row == [kind |-> op[c], key |-> key[c]]
  <2>1. AbstractMade \in Seq(Row) /\ Len(AbstractMade) = n
    BY <1>3, MadeFacts DEF AbstractMade, Client, n
  <2>2. row \in Row
    BY <1>2
  <2>3. AbstractMade' \in Seq(Row) /\ Len(AbstractMade') = n + 1
    BY <1>2, <1>3, MadeFacts DEF AbstractMade, Client, new, n
  <2>4. /\ Append(AbstractMade, row) \in Seq(Row) /\ Len(Append(AbstractMade, row)) = n + 1
        /\ \A i \in 1 .. n : Append(AbstractMade, row)[i] = AbstractMade[i]
        /\ Append(AbstractMade, row)[n + 1] = row
    BY <2>1, <2>2, AppendProperties
  <2>5. \A i \in 1 .. n + 1 : AbstractMade'[i] = Append(AbstractMade, row)[i]
    BY <1>3, <2>4 DEF AbstractMade, new, n
  <2>. HIDE DEF Row, row
  <2>6. AbstractMade' = Append(AbstractMade, row)
    BY <1>3, <2>3, <2>4, <2>5, SeqEqual
  <2>. QED  BY <2>6 DEF row
<1>9. Len(AbstractMade') = n + 1
  BY <1>3 DEF AbstractMade, n
<1>10. AbstractCache' = [AbstractCache EXCEPT ![op[c]][key[c]] = n + 1]
  <2>1. CASE op[c] = "runtime"
    BY <1>2, <1>4, <1>6, <2>1 DEF Store, AbstractCache, Kinds, IInv, TypeOK
  <2>2. CASE op[c] = "control"
    BY <1>2, <1>4, <1>6, <2>2 DEF Store, AbstractCache, Kinds, IInv, TypeOK
  <2>. QED  BY <1>2, <2>1, <2>2 DEF Kinds
<1>11. /\ AbstractCall[c].op = op[c] /\ AbstractCall[c].key = key[c]
       /\ ~AbstractCall[c].taken /\ op[c] \in Atomic!Kinds
  BY <1>2, <1>5 DEF Atomic!Kinds, Kinds
<1>. QED
  BY <1>1, <1>4, <1>5, <1>7, <1>8, <1>9, <1>10, <1>11 DEF Atomic!Lookup

(* InvalidateCache takes effect with its first deletion. *)
LEMMA DeleteRefines ==
    ASSUME IInv, NEW c \in Callers, DeleteRuntime(c) PROVE Atomic!Invalidate(c)
<1>1. /\ pc[c] = "delete" /\ pc' = [pc EXCEPT ![c] = "deleted"]
      /\ runtime' = [runtime EXCEPT ![key[c]] = 0]
      /\ UNCHANGED <<op, key, client, control, made, calls>>
  BY DEF DeleteRuntime, GoTo
<1>2. op[c] = "invalidate" /\ key[c] \in Keys
  BY <1>1 DEF IInv, TypeOK, OpOK
<1>3. /\ Atomic!Take(c)
      /\ AbstractCall[c] = [op |-> op[c], key |-> key[c], taken |-> FALSE]
  BY <1>1, Takes
<1>4. \A k \in Keys : ~Deleting(k) /\ (Deleting(k)' <=> k = key[c])
  <2>1. \A k \in Keys : ~Deleting(k)
    BY <1>1, NobodyDeletes
  <2>. QED  BY <1>1, <2>1 DEF Deleting, IInv, TypeOK
<1>5. AbstractCache' =
         [kind \in Kinds |-> [AbstractCache[kind] EXCEPT ![key[c]] = 0]]
  BY <1>1, <1>2, <1>4 DEF AbstractCache, Kinds, IInv, TypeOK
<1>6. AbstractCache' =
         [kind \in Atomic!Kinds |-> [AbstractCache[kind] EXCEPT ![AbstractCall[c].key] = 0]]
  BY <1>3, <1>5 DEF Kinds, Atomic!Kinds
<1>. QED
  BY <1>1, <1>2, <1>3, <1>6, MadeStays DEF Atomic!Invalidate

(* The second deletion is of an entry that nobody could have looked at. *)
LEMMA DeletedStutters ==
    ASSUME IInv, NEW c \in Callers, DeleteControl(c) PROVE AbstractStep
<1>1. /\ pc[c] = "deleted" /\ pc' = [pc EXCEPT ![c] = "got"]
      /\ control' = [control EXCEPT ![key[c]] = 0] /\ key[c] \in Keys
      /\ UNCHANGED <<op, key, client, runtime, made, calls>>
  BY DEF DeleteControl, GoTo, IInv, TypeOK
<1>2. Called(c)' = Called(c) /\ \A d \in Callers \ {c} : UNCHANGED <<pc[d], op[d], key[d]>>
  BY <1>1 DEF Called, IInv, TypeOK
<1>3. \A k \in Keys : (Deleting(k) <=> k = key[c]) /\ ~Deleting(k)'
  <2>1. \A d \in Callers : pc[d] = "deleted" => d = c
    BY <1>1 DEF IInv, LockOK, Writing
  <2>. QED  BY <1>1, <2>1 DEF Deleting, IInv, TypeOK
<1>4. AbstractCache' = AbstractCache
  BY <1>1, <1>3 DEF AbstractCache, Kinds, IInv, TypeOK
<1>. QED
  BY <1>1, <1>2, <1>4, CallStays, MadeStays DEF AbstractStep, Atomic!vars

LEMMA ReturnRefines ==
    ASSUME IInv, NEW c \in Callers, Return(c) PROVE Atomic!Return(c)
<1>1. /\ pc[c] = "got" /\ pc' = [pc EXCEPT ![c] = "out"]
      /\ client' = [client EXCEPT ![c] = 0]
      /\ UNCHANGED <<op, key, runtime, control, made, calls>>
  BY DEF Return, GoTo, maps
<1>2. AbstractCall[c].taken /\ Called(c)' = Atomic!Out
  BY <1>1 DEF AbstractCall, Called, Atomic!Out, IInv, TypeOK
<1>3. \A d \in Callers \ {c} : UNCHANGED <<pc[d], op[d], key[d]>>
  BY <1>1 DEF IInv, TypeOK
<1>4. AbstractCall' = [AbstractCall EXCEPT ![c] = Atomic!Out]
  BY <1>2, <1>3, CallMoves
<1>5. \A k \in Keys : Deleting(k)' = Deleting(k)
  BY <1>1 DEF Deleting, IInv, TypeOK
<1>. QED
  BY <1>1, <1>2, <1>4, <1>5, CacheStays, MadeStays DEF Atomic!Return

LEMMA StepRefines == IInv /\ [Next]_vars => AbstractStep
<1>. SUFFICES ASSUME IInv, [Next]_vars PROVE AbstractStep
  OBVIOUS
<1>1. ASSUME NEW c \in Callers, Begin(c) PROVE AbstractStep
  BY <1>1, BeginRefines DEF AbstractStep, Atomic!Next
<1>2. ASSUME NEW c \in Callers, RLock(c) \/ Lock(c) \/ Drained(c) PROVE AbstractStep
  BY <1>2, WaitStutters
<1>3. ASSUME NEW c \in Callers, Look(c) \/ CheckAgain(c) PROVE AbstractStep
  <2>1. CASE Hit(c)
    BY <1>3, <2>1, HitRefines DEF AbstractStep, Atomic!Next
  <2>2. CASE ~Hit(c)
    BY <1>3, <2>2, WaitStutters DEF Look, CheckAgain
  <2>. QED  BY <2>1, <2>2
<1>4. ASSUME NEW c \in Callers, Make(c) PROVE AbstractStep
  BY <1>4, MakeRefines DEF AbstractStep, Atomic!Next
<1>5. ASSUME NEW c \in Callers, DeleteRuntime(c) PROVE AbstractStep
  BY <1>5, DeleteRefines DEF AbstractStep, Atomic!Next
<1>6. ASSUME NEW c \in Callers, DeleteControl(c) PROVE AbstractStep
  BY <1>6, DeletedStutters
<1>7. ASSUME NEW c \in Callers, Return(c) PROVE AbstractStep
  BY <1>7, ReturnRefines DEF AbstractStep, Atomic!Next
<1>8. CASE UNCHANGED vars
  BY <1>8
  DEF vars, maps, AbstractStep, Atomic!vars, AbstractCall, Called, AbstractCache, Deleting,
      AbstractMade
<1>. QED
  BY <1>1, <1>2, <1>3, <1>4, <1>5, <1>6, <1>7, <1>8 DEF Next, Step

LEMMA InitRefines == Init => Atomic!Init
BY DEF Init, Atomic!Init, Atomic!Out, Atomic!Kinds, Kinds, AbstractCall, Called,
       AbstractCache, Deleting, AbstractMade

(* Calls that overlap behave as if made one after the other, for any       *)
(* number of goroutines and keys (internal/bedrock/client.go:126-176,      *)
(* 260-265).                                                               *)
THEOREM ImplementsAtomic == Spec => IsAtomic
BY InitRefines, StepRefines, Invariance, PTL DEF Spec, IsAtomic, Atomic!Spec, AbstractStep
=============================================================================
