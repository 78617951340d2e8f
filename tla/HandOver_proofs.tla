-------------------------- MODULE HandOver_proofs --------------------------
(***************************************************************************)
(* What two operators at work on one policy still guarantee, for every     *)
(* value of the constants: their types, DeleteBeforeRelease and, where     *)
(* Bedrock holds names unique, LiveGuardrailKept.                          *)
(*                                                                         *)
(* A worker relies on little of what it has read: by the time it acts, the *)
(* policy may be another one.  So the proof is by rely and guarantee:      *)
(* whatever a step of either worker or of a user does to log and           *)
(* guardrails, it Grows, and what a run knows (RunOK) survives that.  The  *)
(* second part goes the same way, from finer guarantees (Plain, Makes,     *)
(* Sends) to what a run holds (HoldsOK).                                   *)
(***************************************************************************)
EXTENDS HandOver, SequenceTheorems, TLAPS

Object == Old!Object
Status == Old!GuardrailStatus
Guardrail == Old!Guardrail
Server == Old!Server

(* "l" is the log, "g" the guardrails of a state. *)
VersionOK(o, g) ==
    /\ o.status.id \in 0 .. Len(g)
    /\ o.uid = 0 => ~o.finalizer

Released(l, g) ==
    \A i \in 1 .. Len(l) - 1 :
        l[i].finalizer /\ ~l[i + 1].finalizer /\ l[i].status.id # 0
            => g[l[i].status.id].asked

SharedOK(l, g) ==
    /\ l \in Seq(Object) /\ Len(l) > 0 /\ g \in Seq(Guardrail)
    /\ \A i \in 1 .. Len(l) : VersionOK(l[i], g)
    /\ Released(l, g)

(* What a run at step p, with version r in its hands and status n to be    *)
(* patched, may count on.                                                  *)
RunOK(s, p, r, n, l, g) ==
    /\ s \in 1 .. Len(l) /\ r \in 1 .. s
    /\ p \in Old!Steps /\ n \in Status
    /\ p = "idle" => r = 1
    /\ p = "patch" => n.id \in 0 .. Len(g)
    /\ p = "adopt" => l[r].uid # 0
    /\ p \in {"update", "delete"} => l[r].status.id # 0
    /\ p = "release" /\ l[r].status.id # 0 => g[l[r].status.id].asked

CountsOK == edits \in 0 .. MaxEdits /\ faults \in 0 .. MaxFaults

FlagsOK ==
    /\ queued \in BOOLEAN /\ timer \in BOOLEAN
    /\ queued2 \in BOOLEAN /\ timer2 \in BOOLEAN

PhaseOK ==
    /\ phase \in {"old", "both", "new"}
    /\ phase = "old" => pc2 = "idle" /\ ~queued2 /\ ~timer2
    /\ phase = "new" => pc = "idle" /\ ~queued /\ ~timer

IInv ==
    /\ SharedOK(log, guardrails)
    /\ RunOK(seen, pc, read, next, log, guardrails)
    /\ RunOK(seen2, pc2, read2, next2, log, guardrails)
    /\ CountsOK /\ FlagsOK /\ PhaseOK

-----------------------------------------------------------------------------
(* What a step may do to log and guardrails: no call of DeleteGuardrail is *)
(* forgotten, and the finalizer leaves only if its guardrail was asked to  *)
(* go.                                                                     *)
Fits(o) ==
    /\ VersionOK(o, guardrails')
    /\ Server.finalizer /\ ~o.finalizer /\ Server.status.id # 0
           => guardrails'[Server.status.id].asked

Grows ==
    /\ guardrails' \in Seq(Guardrail) /\ Len(guardrails') >= Len(guardrails)
    /\ \A i \in 1 .. Len(guardrails) : guardrails[i].asked => guardrails'[i].asked
    /\ \/ log' = log
       \/ \E o \in Object : log' = Append(log, o) /\ Fits(o)

-----------------------------------------------------------------------------
(* The two instances speak of the same objects. *)
LEMMA Same ==
  /\ New!Object = Object /\ New!GuardrailStatus = Status /\ New!Guardrail = Guardrail
  /\ New!Gone = Old!Gone /\ New!NoGuardrail = Old!NoGuardrail /\ New!Steps = Old!Steps
  /\ New!Server = Server
  /\ \A o : New!Written(o) = Old!Written(o)
  /\ \A o : New!Collected(o) = Old!Collected(o)
  /\ \A o : New!Exists(o) = Old!Exists(o)
BY DEF New!Object, Old!Object, Object, New!GuardrailStatus, Old!GuardrailStatus, Status,
       New!Guardrail, Old!Guardrail, Guardrail, New!Gone, Old!Gone,
       New!NoGuardrail, Old!NoGuardrail, New!Steps, Old!Steps, New!Server, Old!Server,
       Server, New!Written, Old!Written, New!Collected, Old!Collected,
       New!Exists, Old!Exists

LEMMA Basics ==
  ASSUME SharedOK(log, guardrails)
  PROVE  /\ Len(log) \in Nat /\ Len(guardrails) \in Nat /\ Server \in Object
         /\ VersionOK(Server, guardrails)
         /\ \A i \in 1 .. Len(log) : log[i] \in Object
<1>1. log \in Seq(Object) /\ Len(log) > 0 /\ guardrails \in Seq(Guardrail)
  BY DEF SharedOK
<1>2. Len(log) \in Nat /\ Len(guardrails) \in Nat
  BY <1>1, LenProperties
<1>3. \A i \in 1 .. Len(log) : log[i] \in Object
  BY <1>1, ElementOfSeq
<1>. QED  BY <1>1, <1>2, <1>3 DEF SharedOK, Server, Old!Server

LEMMA ObjectFields ==
  ASSUME NEW o \in Object
  PROVE  /\ o.uid \in Nat /\ o.deleting \in BOOLEAN /\ o.finalizer \in BOOLEAN
         /\ o.status \in Status /\ o.status.id \in Nat
BY DEF Object, Old!Object, Status, Old!GuardrailStatus

LEMMA GoneType ==
  /\ Old!Gone \in Object /\ Old!Gone.uid = 0 /\ ~Old!Gone.finalizer
  /\ Old!Gone.status.id = 0
BY HandOverAssumption
DEF Old!Gone, Object, Old!Object, Old!NoGuardrail, Old!GuardrailStatus

-----------------------------------------------------------------------------
(* The guarantee of every step, and what it preserves. *)
LEMMA SharedKept ==
  ASSUME SharedOK(log, guardrails), Grows
  PROVE  /\ SharedOK(log, guardrails)' /\ Len(log') \in Nat /\ Len(log') >= Len(log)
         /\ Len(guardrails') \in Nat
         /\ \A i \in 1 .. Len(log) : log'[i] = log[i]
<1>1. /\ log \in Seq(Object) /\ Len(log) > 0 /\ Len(log) \in Nat
      /\ Len(guardrails) \in Nat /\ Len(guardrails') \in Nat
      /\ guardrails' \in Seq(Guardrail) /\ Len(guardrails') >= Len(guardrails)
  BY Basics, LenProperties DEF SharedOK, Grows
<1>2. ASSUME NEW i \in 1 .. Len(log) PROVE VersionOK(log[i], guardrails')
  BY <1>1 DEF SharedOK, VersionOK
<1>3. ASSUME NEW i \in 1 .. Len(log), guardrails[log[i].status.id].asked, log[i].status.id # 0
      PROVE  guardrails'[log[i].status.id].asked
  BY <1>1, <1>3 DEF SharedOK, VersionOK, Grows
<1>4. CASE log' = log
  <2>1. Released(log', guardrails')
    BY <1>1, <1>3, <1>4 DEF SharedOK, Released
  <2>. QED  BY <1>1, <1>2, <1>4, <2>1 DEF SharedOK
<1>5. ASSUME NEW o \in Object, log' = Append(log, o), Fits(o)
      PROVE  /\ SharedOK(log, guardrails)' /\ Len(log') \in Nat /\ Len(log') >= Len(log)
             /\ \A i \in 1 .. Len(log) : log'[i] = log[i]
  <2>1. /\ log' \in Seq(Object) /\ Len(log') = Len(log) + 1
        /\ \A i \in 1 .. Len(log) : log'[i] = log[i]
        /\ log'[Len(log) + 1] = o
    BY <1>1, <1>5, AppendProperties
  <2>2. \A i \in 1 .. Len(log') : VersionOK(log'[i], guardrails')
    BY <1>1, <1>2, <1>5, <2>1 DEF Fits
  <2>3. Released(log', guardrails')
    <3>1. ASSUME NEW i \in 1 .. Len(log') - 1,
                 log'[i].finalizer, ~log'[i + 1].finalizer, log'[i].status.id # 0
          PROVE  guardrails'[log'[i].status.id].asked
      <4>1. CASE i = Len(log)
        BY <1>1, <1>5, <2>1, <3>1, <4>1 DEF Fits, Server, Old!Server
      <4>2. CASE i \in 1 .. Len(log) - 1
        BY <1>1, <1>3, <2>1, <3>1, <4>2 DEF SharedOK, Released
      <4>. QED  BY <1>1, <2>1, <4>1, <4>2
    <3>. QED  BY <3>1 DEF Released
  <2>. QED  BY <1>1, <2>1, <2>2, <2>3 DEF SharedOK
<1>. QED  BY <1>1, <1>4, <1>5 DEF Grows

(* The rely of a run: whatever others do, what it counts on stays.  Its    *)
(* own cache may move on.                                                  *)
LEMMA RunKept ==
  ASSUME SharedOK(log, guardrails), Grows, NEW s, NEW p, NEW r, NEW n,
         RunOK(s, p, r, n, log, guardrails), NEW t \in s .. Len(log')
  PROVE  RunOK(t, p, r, n, log', guardrails')
<1>1. /\ Len(log) \in Nat /\ Len(log') \in Nat /\ Len(log') >= Len(log)
      /\ Len(guardrails) \in Nat /\ Len(guardrails') \in Nat
      /\ Len(guardrails') >= Len(guardrails)
      /\ \A i \in 1 .. Len(log) : log'[i] = log[i]
  BY Basics, SharedKept DEF Grows
<1>2. r \in 1 .. Len(log) /\ s \in 1 .. Len(log) /\ r \in 1 .. s
  BY <1>1 DEF RunOK
<1>3. log'[r] = log[r] /\ log[r].status.id \in 0 .. Len(guardrails)
  BY <1>1, <1>2 DEF SharedOK, VersionOK
<1>4. p = "release" /\ log[r].status.id # 0 => guardrails'[log[r].status.id].asked
  BY <1>1, <1>3 DEF RunOK, Grows
<1>5. p = "patch" => n.id \in 0 .. Len(guardrails')
  BY <1>1 DEF RunOK
<1>6. t \in 1 .. Len(log') /\ r \in 1 .. t
  BY <1>1, <1>2
<1>. QED  BY <1>3, <1>4, <1>5, <1>6 DEF RunOK


-----------------------------------------------------------------------------
(* The calls of a worker, by what they do to log and guardrails.  "r" is   *)
(* the version in the hands of its run, "n" the status to be patched.      *)
Shared == SharedOK(log, guardrails)
Ended(s, p, r, n) == s \in 1 .. Len(log) /\ p = "idle" /\ r = 1 /\ n = Old!NoGuardrail

LEMMA EndedOK ==
  ASSUME Shared, Grows, NEW s \in 1 .. Len(log), NEW p, NEW r, NEW n, Ended(s, p, r, n)
  PROVE  RunOK(s, p, r, n, log', guardrails')
<1>1. Len(log) \in Nat /\ Len(log') \in Nat /\ Len(log') >= Len(log)
  BY Basics, SharedKept DEF Shared
<1>2. Old!NoGuardrail \in Status
  BY DEF Old!NoGuardrail, Status, Old!GuardrailStatus
<1>. QED  BY <1>1, <1>2 DEF Ended, RunOK, Old!Steps

LEMMA NothingWritten ==
  ASSUME Shared, UNCHANGED <<log, guardrails>> PROVE Grows
<1>1. guardrails \in Seq(Guardrail) /\ Len(guardrails) \in Nat
  BY Basics DEF Shared, SharedOK
<1>. QED  BY <1>1 DEF Grows

LEMMA VersionWritten ==
  ASSUME Shared, NEW o \in Object, log' = Append(log, o), guardrails' = guardrails,
         VersionOK(o, guardrails),
         Server.finalizer /\ ~o.finalizer /\ Server.status.id # 0
             => guardrails[Server.status.id].asked
  PROVE  Grows
<1>1. guardrails \in Seq(Guardrail) /\ Len(guardrails) \in Nat
  BY Basics DEF Shared, SharedOK
<1>. QED  BY <1>1 DEF Grows, Fits

LEMMA MaybeWritten ==
  ASSUME Shared, NEW o \in Object, log' = Old!Written(o), guardrails' = guardrails,
         VersionOK(o, guardrails),
         Server.finalizer /\ ~o.finalizer /\ Server.status.id # 0
             => guardrails[Server.status.id].asked
  PROVE  Grows
<1>1. CASE log' = log
  BY <1>1, NothingWritten
<1>2. CASE log' = Append(log, o)
  BY <1>2, VersionWritten
<1>. QED  BY <1>1, <1>2 DEF Old!Written

LEMMA Adopts ==
  ASSUME Shared, Server.uid # 0,
         log' = Old!Written([Server EXCEPT !.finalizer = TRUE]), guardrails' = guardrails
  PROVE  Grows
<1>. DEFINE o == [Server EXCEPT !.finalizer = TRUE]
<1>1. /\ o \in Object /\ o.uid = Server.uid /\ o.finalizer /\ o.status = Server.status
  BY Basics DEF Shared, Object, Old!Object
<1>2. log' = Old!Written(o)
  OBVIOUS
<1>. HIDE DEF o
<1>3. VersionOK(o, guardrails)
  BY <1>1, Basics DEF Shared, VersionOK
<1>. QED  BY <1>1, <1>2, <1>3, MaybeWritten

LEMMA CollectedOK ==
  ASSUME NEW o \in Object, VersionOK(o, guardrails), Len(guardrails) \in Nat
  PROVE  /\ Old!Collected(o) \in Object /\ VersionOK(Old!Collected(o), guardrails)
         /\ Old!Collected(o) = o \/ ~o.finalizer
<1>1. Old!Collected(o) = o \/ (Old!Collected(o) = Old!Gone /\ ~o.finalizer)
  BY DEF Old!Collected
<1>2. VersionOK(Old!Gone, guardrails)
  BY GoneType DEF VersionOK
<1>. QED  BY <1>1, <1>2, GoneType

LEMMA Releases ==
  ASSUME Shared, Server.status.id # 0 => guardrails[Server.status.id].asked,
         log' = Old!Written(Old!Collected([Server EXCEPT !.finalizer = FALSE])),
         guardrails' = guardrails
  PROVE  Grows
<1>. DEFINE d == [Server EXCEPT !.finalizer = FALSE]
<1>1. d \in Object /\ d.uid = Server.uid /\ ~d.finalizer /\ d.status = Server.status
  BY Basics DEF Shared, Object, Old!Object
<1>2. log' = Old!Written(Old!Collected(d))
  OBVIOUS
<1>. HIDE DEF d
<1>3. VersionOK(d, guardrails)
  BY <1>1, Basics DEF Shared, VersionOK
<1>. QED  BY <1>1, <1>2, <1>3, Basics, CollectedOK, MaybeWritten DEF Shared

PatchedBy(r, n) ==
    [Server EXCEPT !.status =
        [id     |-> Old!Merged(@.id, log[r].status.id, n.id),
         synced |-> Old!Merged(@.synced, log[r].status.synced, n.synced),
         obs    |-> Old!Merged(@.obs, log[r].status.obs, n.obs)]]

LEMMA PatchedType ==
  ASSUME Shared, NEW s, NEW r, NEW n, RunOK(s, "patch", r, n, log, guardrails)
  PROVE  /\ PatchedBy(r, n) \in Object
         /\ PatchedBy(r, n).uid = Server.uid
         /\ PatchedBy(r, n).finalizer = Server.finalizer
         /\ PatchedBy(r, n).status.id = Old!Merged(Server.status.id, log[r].status.id, n.id)
<1>. DEFINE o == PatchedBy(r, n)
<1>1. n \in Status /\ Server \in Object
  BY Basics DEF Shared, RunOK
<1>. DEFINE st == [id     |-> Old!Merged(Server.status.id, log[r].status.id, n.id),
                   synced |-> Old!Merged(Server.status.synced, log[r].status.synced, n.synced),
                   obs    |-> Old!Merged(Server.status.obs, log[r].status.obs, n.obs)]
<1>2. st \in Status
  BY <1>1 DEF Object, Old!Object, Status, Old!GuardrailStatus, Old!Merged
<1>3. st.id = Old!Merged(Server.status.id, log[r].status.id, n.id)
  OBVIOUS
<1>4. o = [Server EXCEPT !.status = st]
  BY DEF PatchedBy
<1>. HIDE DEF st, o
<1>5. /\ o \in Object /\ o.uid = Server.uid /\ o.finalizer = Server.finalizer
      /\ o.status.id = Old!Merged(Server.status.id, log[r].status.id, n.id)
  BY <1>1, <1>2, <1>3, <1>4 DEF Object, Old!Object, Status
<1>. QED  BY <1>5 DEF o

LEMMA Patches ==
  ASSUME Shared, NEW s, NEW r, NEW n, RunOK(s, "patch", r, n, log, guardrails),
         log' = Old!Written(PatchedBy(r, n)), guardrails' = guardrails
  PROVE  Grows
<1>. DEFINE o == PatchedBy(r, n)
<1>1. n.id \in 0 .. Len(guardrails) /\ VersionOK(Server, guardrails)
  BY Basics DEF Shared, RunOK
<1>2. /\ o \in Object /\ o.uid = Server.uid /\ o.finalizer = Server.finalizer
      /\ o.status.id = Old!Merged(Server.status.id, log[r].status.id, n.id)
  BY PatchedType
<1>3. log' = Old!Written(o)
  OBVIOUS
<1>. HIDE DEF o
<1>4. VersionOK(o, guardrails)
  BY <1>1, <1>2 DEF VersionOK, Old!Merged
<1>. QED  BY <1>2, <1>3, <1>4, MaybeWritten

-----------------------------------------------------------------------------
(* A call to Bedrock. *)
LEMMA Calls ==
  ASSUME Shared, log' = log, guardrails' \in Seq(Guardrail),
         Len(guardrails') >= Len(guardrails),
         \A i \in 1 .. Len(guardrails) : guardrails[i].asked => guardrails'[i].asked
  PROVE  Grows
BY DEF Grows

LEMMA Creates ==
  ASSUME Shared, NEW o \in Object, log' = log,
         guardrails' = Append(guardrails, [owner |-> o.uid, content |-> o.spec,
                                           live |-> TRUE, asked |-> FALSE])
  PROVE  Grows /\ Len(guardrails') = Len(guardrails) + 1
<1>. DEFINE g == [owner |-> o.uid, content |-> o.spec, live |-> TRUE, asked |-> FALSE]
<1>1. g \in Guardrail
  BY DEF Object, Old!Object, Guardrail, Old!Guardrail
<1>2. guardrails \in Seq(Guardrail) /\ Len(guardrails) \in Nat
  BY Basics DEF Shared, SharedOK
<1>3. guardrails' = Append(guardrails, g)
  OBVIOUS
<1>. HIDE DEF g
<1>4. /\ guardrails' \in Seq(Guardrail) /\ Len(guardrails') = Len(guardrails) + 1
      /\ \A i \in 1 .. Len(guardrails) : guardrails'[i] = guardrails[i]
  BY <1>1, <1>2, <1>3, AppendProperties
<1>. QED  BY <1>2, <1>4, Calls

(* One guardrail changes, and what was asked stays asked. *)
LEMMA Changes ==
  ASSUME Shared, NEW i \in 1 .. Len(guardrails), NEW g \in Guardrail, log' = log,
         guardrails[i].asked => g.asked,
         guardrails' = [guardrails EXCEPT ![i] = g]
  PROVE  Grows /\ guardrails'[i] = g
<1>1. guardrails \in Seq(Guardrail) /\ Len(guardrails) \in Nat
  BY Basics DEF Shared, SharedOK
<1>2. /\ guardrails' \in Seq(Guardrail) /\ Len(guardrails') = Len(guardrails)
      /\ \A j \in 1 .. Len(guardrails) :
            guardrails'[j] = IF j = i THEN g ELSE guardrails[j]
  BY <1>1, ExceptSeq
<1>3. \A j \in 1 .. Len(guardrails) : guardrails[j].asked => guardrails'[j].asked
  BY <1>2
<1>. QED  BY <1>1, <1>2, <1>3, Calls

LEMMA Updates ==
  ASSUME Shared, NEW i \in 1 .. Len(guardrails), NEW o \in Object, log' = log,
         guardrails' = [guardrails EXCEPT ![i].content = o.spec]
  PROVE  Grows
<1>. DEFINE g == [guardrails[i] EXCEPT !.content = o.spec]
<1>1. guardrails[i] \in Guardrail
  BY ElementOfSeq DEF Shared, SharedOK
<1>2. g \in Guardrail /\ g.asked = guardrails[i].asked
  BY <1>1 DEF Guardrail, Old!Guardrail, Object, Old!Object
<1>3. guardrails' = [guardrails EXCEPT ![i] = g]
  OBVIOUS
<1>. HIDE DEF g
<1>. QED  BY <1>2, <1>3, Changes

LEMMA Asks ==
  ASSUME Shared, NEW i \in 1 .. Len(guardrails), NEW stays \in BOOLEAN, log' = log,
         guardrails' = [guardrails EXCEPT ![i] =
                            [guardrails[i] EXCEPT !.live = IF stays THEN @ ELSE FALSE,
                                                  !.asked = TRUE]]
  PROVE  Grows /\ guardrails'[i].asked
<1>. DEFINE g == [guardrails[i] EXCEPT !.live = IF stays THEN @ ELSE FALSE, !.asked = TRUE]
<1>1. guardrails[i] \in Guardrail
  BY ElementOfSeq DEF Shared, SharedOK
<1>2. g \in Guardrail /\ g.asked
  BY <1>1 DEF Guardrail, Old!Guardrail
<1>3. guardrails' = [guardrails EXCEPT ![i] = g]
  OBVIOUS
<1>. HIDE DEF g
<1>. QED  BY <1>2, <1>3, Changes


-----------------------------------------------------------------------------
(* The steps of the old leader. *)
OldDone ==
    /\ Grows /\ RunOK(seen', pc', read', next', log', guardrails')
    /\ seen' = seen /\ CountsOK' /\ queued' \in BOOLEAN /\ timer' \in BOOLEAN

OldQuiet ==
    /\ seen' = seen /\ edits' = edits /\ (faults' = faults \/ Old!Fault)
    /\ queued' \in BOOLEAN /\ timer' \in BOOLEAN

OldEnded == OldQuiet /\ Ended(seen, pc', read', next')

LEMMA OldBasics ==
  ASSUME IInv
  PROVE  /\ Shared /\ queued \in BOOLEAN /\ timer \in BOOLEAN /\ Len(guardrails) \in Nat
         /\ seen \in 1 .. Len(log) /\ read \in 1 .. Len(log) /\ Len(log) \in Nat
         /\ Old!gp \in Object /\ VersionOK(Old!gp, guardrails) /\ Old!gp = log[read]
         /\ RunOK(seen, pc, read, next, log, guardrails)
         /\ read = Len(log) => Server = Old!gp
<1>1. Shared /\ RunOK(seen, pc, read, next, log, guardrails)
  BY DEF IInv, Shared
<1>2. queued \in BOOLEAN /\ timer \in BOOLEAN
  BY DEF IInv, FlagsOK
<1>3. /\ seen \in 1 .. Len(log) /\ read \in 1 .. Len(log) /\ Len(log) \in Nat
      /\ Len(guardrails) \in Nat
  BY <1>1, Basics DEF RunOK, Shared
<1>4. log[read] \in Object /\ VersionOK(log[read], guardrails)
  BY <1>1, <1>3, Basics DEF Shared, SharedOK
<1>. QED  BY <1>1, <1>2, <1>3, <1>4 DEF Old!gp, Server, Old!Server

LEMMA OldCounts == ASSUME IInv, OldQuiet PROVE CountsOK'
<1>1. faults' = faults \/ (faults < MaxFaults /\ faults' = faults + 1)
  BY DEF OldQuiet, Old!Fault
<1>. QED  BY <1>1, HandOverAssumption DEF IInv, CountsOK, OldQuiet

(* A run that ends counts on nothing. *)
LEMMA OldEndsOK == ASSUME IInv, OldEnded, Grows PROVE OldDone
<1>1. OldQuiet /\ Ended(seen, pc', read', next')
  BY DEF OldEnded
<1>2. RunOK(seen, pc', read', next', log', guardrails')
  BY <1>1, OldBasics, EndedOK
<1>. QED  BY <1>1, <1>2, OldCounts DEF OldDone, OldQuiet

LEMMA OldReconcileOK == ASSUME IInv, Old!Reconcile PROVE OldDone
<1>1. /\ UNCHANGED <<log, seen, timer, edits, faults, guardrails>>
      /\ queued' = FALSE
  BY DEF Old!Reconcile
<1>2. Grows /\ OldQuiet
  BY <1>1, OldBasics, NothingWritten DEF OldQuiet
<1>3. CASE Old!End
  <2>1. Ended(seen, pc', read', next')
    BY <1>3, OldBasics, Same DEF Old!End, Ended
  <2>. QED  BY <1>2, <2>1, OldEndsOK DEF OldEnded
<1>4. CASE /\ pc' = Old!Branch(Old!Cached) /\ read' = seen /\ next' = next
           /\ pc' # "idle"
  <2>. DEFINE o == log[seen]
  <2>1. pc' = Old!Branch(o)
    BY <1>4 DEF Old!Cached
  <2>2. o \in Object
    BY OldBasics, Basics DEF Shared
  <2>. HIDE DEF o
  <2>3. /\ pc' \in {"adopt", "create", "update", "delete", "release"}
        /\ pc' = "adopt" => o.uid # 0
        /\ pc' \in {"update", "delete"} => o.status.id # 0
        /\ pc' = "release" => o.status.id = 0
    BY <1>4, <2>1, <2>2, ObjectFields
    DEF Old!Branch, Old!OnDeletion, Old!OnSync, Old!Live, Old!Exists
  <2>4. RunOK(seen', pc', read', next', log', guardrails')
    BY <1>1, <1>4, <2>3, OldBasics DEF RunOK, Old!Steps, o
  <2>. QED  BY <1>1, <1>2, <2>4, OldCounts DEF OldDone, OldQuiet
<1>. QED  BY <1>3, <1>4 DEF Old!Reconcile

LEMMA OldAddFinalizerOK == ASSUME IInv, Old!AddFinalizer PROVE OldDone
<1>1. pc = "adopt" /\ guardrails' = guardrails /\ Old!EndRequeued
      /\ (faults' = faults \/ Old!Fault)
  BY DEF Old!AddFinalizer
<1>2. OldEnded
  BY <1>1, OldBasics, Same DEF OldEnded, OldQuiet, Ended, Old!EndRequeued, Old!End
<1>3. CASE log' = log
  BY <1>1, <1>2, <1>3, OldBasics, NothingWritten, OldEndsOK
<1>4. CASE Old!UpToDate(read) /\ log' = Old!Written([Old!gp EXCEPT !.finalizer = TRUE])
  <2>1. Server = Old!gp /\ Server.uid # 0
    BY <1>1, <1>4, OldBasics DEF Old!UpToDate, RunOK
  <2>2. log' = Old!Written([Server EXCEPT !.finalizer = TRUE])
    BY <1>4, <2>1, Same
  <2>3. Grows
    BY <1>1, <2>1, <2>2, OldBasics, Adopts
  <2>. QED  BY <1>2, <2>3, OldEndsOK
<1>. QED  BY <1>3, <1>4 DEF Old!AddFinalizer

LEMMA OldPatchStatusOK == ASSUME IInv, Old!PatchStatus PROVE OldDone
<1>1. pc = "patch" /\ guardrails' = guardrails /\ Old!EndRequeued
      /\ (faults' = faults \/ Old!Fault)
  BY DEF Old!PatchStatus
<1>2. OldEnded
  BY <1>1, OldBasics, Same DEF OldEnded, OldQuiet, Ended, Old!EndRequeued, Old!End
<1>3. CASE log' = log
  BY <1>1, <1>2, <1>3, OldBasics, NothingWritten, OldEndsOK
<1>4. CASE log' = Old!Written(Old!Patched)
  <2>1. Old!Patched = PatchedBy(read, next)
    BY DEF Old!Patched, PatchedBy, Server, Old!Server, Old!gp, Old!Merged
  <2>2. log' = Old!Written(PatchedBy(read, next))
    BY <1>4, <2>1, Same
  <2>3. Grows
    BY <1>1, <2>2, OldBasics, Patches
  <2>. QED  BY <1>2, <2>3, OldEndsOK
<1>. QED  BY <1>3, <1>4 DEF Old!PatchStatus

LEMMA OldRemoveFinalizerOK == ASSUME IInv, Old!RemoveFinalizer PROVE OldDone
<1>1. pc = "release" /\ guardrails' = guardrails /\ Old!End
      /\ UNCHANGED <<seen, queued, edits>> /\ (timer' = timer \/ timer' = TRUE)
      /\ (faults' = faults \/ Old!Fault)
  BY DEF Old!RemoveFinalizer, Old!EndRequeued
<1>2. OldEnded
  BY <1>1, OldBasics, Same DEF OldEnded, OldQuiet, Ended, Old!End
<1>3. CASE log' = log
  BY <1>1, <1>2, <1>3, OldBasics, NothingWritten, OldEndsOK
<1>4. CASE /\ Old!UpToDate(read)
           /\ log' = Old!Written(Old!Collected([Old!gp EXCEPT !.finalizer = FALSE]))
  <2>1. Server = Old!gp /\ (Server.status.id # 0 => guardrails[Server.status.id].asked)
    BY <1>1, <1>4, OldBasics DEF Old!UpToDate, RunOK
  <2>2. log' = Old!Written(Old!Collected([Server EXCEPT !.finalizer = FALSE]))
    BY <1>4, <2>1, Same
  <2>3. Grows
    BY <1>1, <2>1, <2>2, OldBasics, Releases
  <2>. QED  BY <1>2, <2>3, OldEndsOK
<1>. QED  BY <1>3, <1>4 DEF Old!RemoveFinalizer

(* The statuses a call may leave the run with. *)
LEMMA OldStatuses ==
  ASSUME IInv
  PROVE  /\ Old!SyncFailed \in Status /\ Old!SyncFailed.id = Old!gp.status.id
         /\ \A id \in Nat : Old!Synced(id) \in Status /\ Old!Synced(id).id = id
BY OldBasics DEF Old!SyncFailed, Old!Synced, Status, Old!GuardrailStatus, Object, Old!Object

(* A call was answered: the run goes on to patch the status. *)
LEMMA OldAnswers ==
  ASSUME IInv, Grows, OldQuiet, log' = log, read' = read, pc' = "patch",
         next' \in Status, next'.id \in 0 .. Len(guardrails')
  PROVE  OldDone
<1>1. RunOK(seen', pc', read', next', log', guardrails')
  BY OldBasics DEF RunOK, Old!Steps, OldQuiet
<1>. QED  BY <1>1, OldCounts DEF OldDone, OldQuiet

LEMMA OldCreateGuardrailOK == ASSUME IInv, Old!CreateGuardrail PROVE OldDone
<1>1. /\ \/ guardrails' = guardrails /\ next' = Old!SyncFailed
         \/ /\ guardrails' = Old!WithCreated
            /\ next' \in {Old!SyncFailed, Old!Synced(Len(guardrails) + 1)}
      /\ pc' = "patch" /\ UNCHANGED <<log, seen, queued, timer, edits, read>>
      /\ (faults' = faults \/ Old!Fault)
  BY DEF Old!CreateGuardrail, Old!Answered
<1>2. OldQuiet
  BY <1>1, OldBasics DEF OldQuiet
<1>3. Old!gp.status.id \in 0 .. Len(guardrails)
  BY OldBasics DEF VersionOK
<1>4. CASE guardrails' = guardrails /\ next' = Old!SyncFailed
  <2>1. Grows
    BY <1>1, <1>4, OldBasics, NothingWritten
  <2>. QED  BY <1>1, <1>2, <1>3, <1>4, <2>1, OldStatuses, OldAnswers
<1>5. CASE /\ guardrails' = Old!WithCreated
           /\ next' \in {Old!SyncFailed, Old!Synced(Len(guardrails) + 1)}
  <2>1. Grows /\ Len(guardrails') = Len(guardrails) + 1
    BY <1>1, <1>5, OldBasics, Creates DEF Old!WithCreated
  <2>2. next' \in Status /\ next'.id \in 0 .. Len(guardrails')
    BY <1>3, <1>5, <2>1, OldBasics, OldStatuses
  <2>. QED  BY <1>1, <1>2, <2>1, <2>2, OldAnswers
<1>. QED  BY <1>1, <1>4, <1>5

LEMMA OldUpdateGuardrailOK == ASSUME IInv, Old!UpdateGuardrail PROVE OldDone
<1>. DEFINE id == Old!gp.status.id
<1>1. /\ \/ guardrails' = guardrails
         \/ guardrails' = [guardrails EXCEPT ![id].content = Old!gp.spec]
      /\ next' \in {Old!SyncFailed, Old!Synced(id)} /\ pc = "update"
      /\ pc' = "patch" /\ UNCHANGED <<log, seen, queued, timer, edits, read>>
      /\ (faults' = faults \/ Old!Fault)
  BY DEF Old!UpdateGuardrail, Old!Answered
<1>2. OldQuiet
  BY <1>1, OldBasics DEF OldQuiet
<1>3. id \in 1 .. Len(guardrails)
  BY <1>1, OldBasics DEF VersionOK, RunOK
<1>4. Grows
  BY <1>1, <1>3, OldBasics, NothingWritten, Updates
<1>5. next' \in Status /\ next'.id = id
  BY <1>1, <1>3, OldBasics, OldStatuses
<1>6. id \in 0 .. Len(guardrails')
  BY <1>3, <1>4, OldBasics, SharedKept DEF Grows, Shared
<1>. QED  BY <1>1, <1>2, <1>4, <1>5, <1>6, OldAnswers

LEMMA OldDeleteGuardrailOK == ASSUME IInv, Old!DeleteGuardrail PROVE OldDone
<1>. DEFINE id == Old!gp.status.id
<1>1. /\ pc = "delete" /\ pc' = "release"
      /\ UNCHANGED <<log, seen, queued, timer, edits, read, next>>
      /\ (faults' = faults \/ Old!Fault)
  BY DEF Old!DeleteGuardrail
<1>2. PICK stays \in BOOLEAN :
        guardrails' = [guardrails EXCEPT ![id] =
                           [guardrails[id] EXCEPT !.live = IF stays THEN @ ELSE FALSE,
                                                  !.asked = TRUE]]
  BY DEF Old!DeleteGuardrail, Old!AskedToDelete
<1>3. OldQuiet
  BY <1>1, OldBasics DEF OldQuiet
<1>4. id \in 1 .. Len(guardrails)
  BY <1>1, OldBasics DEF VersionOK, RunOK
<1>5. Grows /\ guardrails'[id].asked
  BY <1>1, <1>2, <1>4, OldBasics, Asks
<1>6. RunOK(seen', pc', read', next', log', guardrails')
  BY <1>1, <1>5, OldBasics DEF RunOK, Old!Steps
<1>. QED  BY <1>1, <1>3, <1>5, <1>6, OldCounts DEF OldDone, OldQuiet

LEMMA OldWorkerOK == ASSUME IInv, Old!Worker PROVE OldDone
BY OldReconcileOK, OldAddFinalizerOK, OldCreateGuardrailOK, OldUpdateGuardrailOK,
   OldPatchStatusOK, OldDeleteGuardrailOK, OldRemoveFinalizerOK DEF Old!Worker


-----------------------------------------------------------------------------
(* The steps of its successor. *)
NewDone ==
    /\ Grows /\ RunOK(seen2', pc2', read2', next2', log', guardrails')
    /\ seen2' = seen2 /\ CountsOK' /\ queued2' \in BOOLEAN /\ timer2' \in BOOLEAN

NewQuiet ==
    /\ seen2' = seen2 /\ edits' = edits /\ (faults' = faults \/ New!Fault)
    /\ queued2' \in BOOLEAN /\ timer2' \in BOOLEAN

NewEnded == NewQuiet /\ Ended(seen2, pc2', read2', next2')

LEMMA NewBasics ==
  ASSUME IInv
  PROVE  /\ Shared /\ queued2 \in BOOLEAN /\ timer2 \in BOOLEAN /\ Len(guardrails) \in Nat
         /\ seen2 \in 1 .. Len(log) /\ read2 \in 1 .. Len(log) /\ Len(log) \in Nat
         /\ New!gp \in Object /\ VersionOK(New!gp, guardrails) /\ New!gp = log[read2]
         /\ RunOK(seen2, pc2, read2, next2, log, guardrails)
         /\ read2 = Len(log) => Server = New!gp
<1>1. Shared /\ RunOK(seen2, pc2, read2, next2, log, guardrails)
  BY DEF IInv, Shared
<1>2. queued2 \in BOOLEAN /\ timer2 \in BOOLEAN
  BY DEF IInv, FlagsOK
<1>3. /\ seen2 \in 1 .. Len(log) /\ read2 \in 1 .. Len(log) /\ Len(log) \in Nat
      /\ Len(guardrails) \in Nat
  BY <1>1, Basics DEF RunOK, Shared
<1>4. log[read2] \in Object /\ VersionOK(log[read2], guardrails)
  BY <1>1, <1>3, Basics DEF Shared, SharedOK
<1>. QED  BY <1>1, <1>2, <1>3, <1>4 DEF New!gp, Server, Old!Server

LEMMA NewCounts == ASSUME IInv, NewQuiet PROVE CountsOK'
<1>1. faults' = faults \/ (faults < MaxFaults /\ faults' = faults + 1)
  BY DEF NewQuiet, New!Fault
<1>. QED  BY <1>1, HandOverAssumption DEF IInv, CountsOK, NewQuiet

(* A run that ends counts on nothing. *)
LEMMA NewEndsOK == ASSUME IInv, NewEnded, Grows PROVE NewDone
<1>1. NewQuiet /\ Ended(seen2, pc2', read2', next2')
  BY DEF NewEnded
<1>2. RunOK(seen2, pc2', read2', next2', log', guardrails')
  BY <1>1, NewBasics, EndedOK
<1>. QED  BY <1>1, <1>2, NewCounts DEF NewDone, NewQuiet

LEMMA NewReconcileOK == ASSUME IInv, New!Reconcile PROVE NewDone
<1>1. /\ UNCHANGED <<log, seen2, timer2, edits, faults, guardrails>>
      /\ queued2' = FALSE
  BY DEF New!Reconcile
<1>2. Grows /\ NewQuiet
  BY <1>1, NewBasics, NothingWritten DEF NewQuiet
<1>3. CASE New!End
  <2>1. Ended(seen2, pc2', read2', next2')
    BY <1>3, NewBasics, Same DEF New!End, Ended
  <2>. QED  BY <1>2, <2>1, NewEndsOK DEF NewEnded
<1>4. CASE /\ pc2' = New!Branch(New!Cached) /\ read2' = seen2 /\ next2' = next2
           /\ pc2' # "idle"
  <2>. DEFINE o == log[seen2]
  <2>1. pc2' = New!Branch(o)
    BY <1>4 DEF New!Cached
  <2>2. o \in Object
    BY NewBasics, Basics DEF Shared
  <2>. HIDE DEF o
  <2>3. /\ pc2' \in {"adopt", "create", "update", "delete", "release"}
        /\ pc2' = "adopt" => o.uid # 0
        /\ pc2' \in {"update", "delete"} => o.status.id # 0
        /\ pc2' = "release" => o.status.id = 0
    BY <1>4, <2>1, <2>2, ObjectFields
    DEF New!Branch, New!OnDeletion, New!OnSync, New!Live, New!Exists
  <2>4. RunOK(seen2', pc2', read2', next2', log', guardrails')
    BY <1>1, <1>4, <2>3, NewBasics DEF RunOK, Old!Steps, o
  <2>. QED  BY <1>1, <1>2, <2>4, NewCounts DEF NewDone, NewQuiet
<1>. QED  BY <1>3, <1>4 DEF New!Reconcile

LEMMA NewAddFinalizerOK == ASSUME IInv, New!AddFinalizer PROVE NewDone
<1>1. pc2 = "adopt" /\ guardrails' = guardrails /\ New!EndRequeued
      /\ (faults' = faults \/ New!Fault)
  BY DEF New!AddFinalizer
<1>2. NewEnded
  BY <1>1, NewBasics, Same DEF NewEnded, NewQuiet, Ended, New!EndRequeued, New!End
<1>3. CASE log' = log
  BY <1>1, <1>2, <1>3, NewBasics, NothingWritten, NewEndsOK
<1>4. CASE New!UpToDate(read2) /\ log' = New!Written([New!gp EXCEPT !.finalizer = TRUE])
  <2>1. Server = New!gp /\ Server.uid # 0
    BY <1>1, <1>4, NewBasics DEF New!UpToDate, RunOK
  <2>2. log' = Old!Written([Server EXCEPT !.finalizer = TRUE])
    BY <1>4, <2>1, Same
  <2>3. Grows
    BY <1>1, <2>1, <2>2, NewBasics, Adopts
  <2>. QED  BY <1>2, <2>3, NewEndsOK
<1>. QED  BY <1>3, <1>4 DEF New!AddFinalizer

LEMMA NewPatchStatusOK == ASSUME IInv, New!PatchStatus PROVE NewDone
<1>1. pc2 = "patch" /\ guardrails' = guardrails /\ New!EndRequeued
      /\ (faults' = faults \/ New!Fault)
  BY DEF New!PatchStatus
<1>2. NewEnded
  BY <1>1, NewBasics, Same DEF NewEnded, NewQuiet, Ended, New!EndRequeued, New!End
<1>3. CASE log' = log
  BY <1>1, <1>2, <1>3, NewBasics, NothingWritten, NewEndsOK
<1>4. CASE log' = New!Written(New!Patched)
  <2>1. New!Patched = PatchedBy(read2, next2)
    BY DEF New!Patched, PatchedBy, Server, New!Server, Old!Server, New!gp, New!Merged, Old!Merged
  <2>2. log' = Old!Written(PatchedBy(read2, next2))
    BY <1>4, <2>1, Same
  <2>3. Grows
    BY <1>1, <2>2, NewBasics, Patches
  <2>. QED  BY <1>2, <2>3, NewEndsOK
<1>. QED  BY <1>3, <1>4 DEF New!PatchStatus

LEMMA NewRemoveFinalizerOK == ASSUME IInv, New!RemoveFinalizer PROVE NewDone
<1>1. pc2 = "release" /\ guardrails' = guardrails /\ New!End
      /\ UNCHANGED <<seen2, queued2, edits>> /\ (timer2' = timer2 \/ timer2' = TRUE)
      /\ (faults' = faults \/ New!Fault)
  BY DEF New!RemoveFinalizer, New!EndRequeued
<1>2. NewEnded
  BY <1>1, NewBasics, Same DEF NewEnded, NewQuiet, Ended, New!End
<1>3. CASE log' = log
  BY <1>1, <1>2, <1>3, NewBasics, NothingWritten, NewEndsOK
<1>4. CASE /\ New!UpToDate(read2)
           /\ log' = New!Written(New!Collected([New!gp EXCEPT !.finalizer = FALSE]))
  <2>1. Server = New!gp /\ (Server.status.id # 0 => guardrails[Server.status.id].asked)
    BY <1>1, <1>4, NewBasics DEF New!UpToDate, RunOK
  <2>2. log' = Old!Written(Old!Collected([Server EXCEPT !.finalizer = FALSE]))
    BY <1>4, <2>1, Same
  <2>3. Grows
    BY <1>1, <2>1, <2>2, NewBasics, Releases
  <2>. QED  BY <1>2, <2>3, NewEndsOK
<1>. QED  BY <1>3, <1>4 DEF New!RemoveFinalizer

(* The statuses a call may leave the run with. *)
LEMMA NewStatuses ==
  ASSUME IInv
  PROVE  /\ New!SyncFailed \in Status /\ New!SyncFailed.id = New!gp.status.id
         /\ \A id \in Nat : New!Synced(id) \in Status /\ New!Synced(id).id = id
BY NewBasics DEF New!SyncFailed, New!Synced, Status, Old!GuardrailStatus, Object, Old!Object

(* A call was answered: the run goes on to patch the status. *)
LEMMA NewAnswers ==
  ASSUME IInv, Grows, NewQuiet, log' = log, read2' = read2, pc2' = "patch",
         next2' \in Status, next2'.id \in 0 .. Len(guardrails')
  PROVE  NewDone
<1>1. RunOK(seen2', pc2', read2', next2', log', guardrails')
  BY NewBasics DEF RunOK, Old!Steps, NewQuiet
<1>. QED  BY <1>1, NewCounts DEF NewDone, NewQuiet

LEMMA NewCreateGuardrailOK == ASSUME IInv, New!CreateGuardrail PROVE NewDone
<1>1. /\ \/ guardrails' = guardrails /\ next2' = New!SyncFailed
         \/ /\ guardrails' = New!WithCreated
            /\ next2' \in {New!SyncFailed, New!Synced(Len(guardrails) + 1)}
      /\ pc2' = "patch" /\ UNCHANGED <<log, seen2, queued2, timer2, edits, read2>>
      /\ (faults' = faults \/ New!Fault)
  BY DEF New!CreateGuardrail, New!Answered
<1>2. NewQuiet
  BY <1>1, NewBasics DEF NewQuiet
<1>3. New!gp.status.id \in 0 .. Len(guardrails)
  BY NewBasics DEF VersionOK
<1>4. CASE guardrails' = guardrails /\ next2' = New!SyncFailed
  <2>1. Grows
    BY <1>1, <1>4, NewBasics, NothingWritten
  <2>. QED  BY <1>1, <1>2, <1>3, <1>4, <2>1, NewStatuses, NewAnswers
<1>5. CASE /\ guardrails' = New!WithCreated
           /\ next2' \in {New!SyncFailed, New!Synced(Len(guardrails) + 1)}
  <2>1. Grows /\ Len(guardrails') = Len(guardrails) + 1
    BY <1>1, <1>5, NewBasics, Creates DEF New!WithCreated
  <2>2. next2' \in Status /\ next2'.id \in 0 .. Len(guardrails')
    BY <1>3, <1>5, <2>1, NewBasics, NewStatuses
  <2>. QED  BY <1>1, <1>2, <2>1, <2>2, NewAnswers
<1>. QED  BY <1>1, <1>4, <1>5

LEMMA NewUpdateGuardrailOK == ASSUME IInv, New!UpdateGuardrail PROVE NewDone
<1>. DEFINE id == New!gp.status.id
<1>1. /\ \/ guardrails' = guardrails
         \/ guardrails' = [guardrails EXCEPT ![id].content = New!gp.spec]
      /\ next2' \in {New!SyncFailed, New!Synced(id)} /\ pc2 = "update"
      /\ pc2' = "patch" /\ UNCHANGED <<log, seen2, queued2, timer2, edits, read2>>
      /\ (faults' = faults \/ New!Fault)
  BY DEF New!UpdateGuardrail, New!Answered
<1>2. NewQuiet
  BY <1>1, NewBasics DEF NewQuiet
<1>3. id \in 1 .. Len(guardrails)
  BY <1>1, NewBasics DEF VersionOK, RunOK
<1>4. Grows
  BY <1>1, <1>3, NewBasics, NothingWritten, Updates
<1>5. next2' \in Status /\ next2'.id = id
  BY <1>1, <1>3, NewBasics, NewStatuses
<1>6. id \in 0 .. Len(guardrails')
  BY <1>3, <1>4, NewBasics, SharedKept DEF Grows, Shared
<1>. QED  BY <1>1, <1>2, <1>4, <1>5, <1>6, NewAnswers

LEMMA NewDeleteGuardrailOK == ASSUME IInv, New!DeleteGuardrail PROVE NewDone
<1>. DEFINE id == New!gp.status.id
<1>1. /\ pc2 = "delete" /\ pc2' = "release"
      /\ UNCHANGED <<log, seen2, queued2, timer2, edits, read2, next2>>
      /\ (faults' = faults \/ New!Fault)
  BY DEF New!DeleteGuardrail
<1>2. PICK stays \in BOOLEAN :
        guardrails' = [guardrails EXCEPT ![id] =
                           [guardrails[id] EXCEPT !.live = IF stays THEN @ ELSE FALSE,
                                                  !.asked = TRUE]]
  BY DEF New!DeleteGuardrail, New!AskedToDelete
<1>3. NewQuiet
  BY <1>1, NewBasics DEF NewQuiet
<1>4. id \in 1 .. Len(guardrails)
  BY <1>1, NewBasics DEF VersionOK, RunOK
<1>5. Grows /\ guardrails'[id].asked
  BY <1>1, <1>2, <1>4, NewBasics, Asks
<1>6. RunOK(seen2', pc2', read2', next2', log', guardrails')
  BY <1>1, <1>5, NewBasics DEF RunOK, Old!Steps
<1>. QED  BY <1>1, <1>3, <1>5, <1>6, NewCounts DEF NewDone, NewQuiet

LEMMA NewWorkerOK == ASSUME IInv, New!Worker PROVE NewDone
BY NewReconcileOK, NewAddFinalizerOK, NewCreateGuardrailOK, NewUpdateGuardrailOK,
   NewPatchStatusOK, NewDeleteGuardrailOK, NewRemoveFinalizerOK DEF New!Worker


-----------------------------------------------------------------------------
(* The steps of the composition. *)
LEMMA OldWorksOK == ASSUME IInv, OldWorks PROVE IInv'
<1>1. /\ OldDone /\ UNCHANGED <<seen2, queued2, timer2, pc2, read2, next2, phase>>
      /\ phase # "new"
  BY OldWorkerOK DEF OldWorks, newVars
<1>2. Grows /\ Shared
  BY <1>1, OldBasics DEF OldDone
<1>3. /\ SharedOK(log, guardrails)' /\ seen2 \in seen2 .. Len(log')
      /\ RunOK(seen2, pc2, read2, next2, log, guardrails)
  BY <1>2, NewBasics, SharedKept DEF Shared
<1>4. RunOK(seen2, pc2, read2, next2, log', guardrails')
  BY <1>2, <1>3, RunKept DEF Shared
<1>5. FlagsOK'
  BY <1>1 DEF OldDone, FlagsOK, IInv
<1>6. PhaseOK'
  BY <1>1 DEF PhaseOK, IInv
<1>. QED  BY <1>1, <1>3, <1>4, <1>5, <1>6 DEF IInv, OldDone

LEMMA NewWorksOK == ASSUME IInv, NewWorks PROVE IInv'
<1>1. /\ NewDone /\ UNCHANGED <<seen, queued, timer, pc, read, next, phase>>
      /\ phase # "old"
  BY NewWorkerOK DEF NewWorks, oldVars
<1>2. Grows /\ Shared
  BY <1>1, NewBasics DEF NewDone
<1>3. /\ SharedOK(log, guardrails)' /\ seen \in seen .. Len(log')
      /\ RunOK(seen, pc, read, next, log, guardrails)
  BY <1>2, OldBasics, SharedKept DEF Shared
<1>4. RunOK(seen, pc, read, next, log', guardrails')
  BY <1>2, <1>3, RunKept DEF Shared
<1>5. FlagsOK'
  BY <1>1 DEF NewDone, FlagsOK, IInv
<1>6. PhaseOK'
  BY <1>1 DEF PhaseOK, IInv
<1>. QED  BY <1>1, <1>3, <1>4, <1>5, <1>6 DEF IInv, NewDone

(* A step of anybody else: both runs go on, and their caches may move.     *)
LEMMA OthersOK ==
  ASSUME IInv, Grows, CountsOK', FlagsOK', PhaseOK', UNCHANGED <<pc, read, next>>,
         UNCHANGED <<pc2, read2, next2>>,
         seen' \in seen .. Len(log'), seen2' \in seen2 .. Len(log')
  PROVE  IInv'
<1>1. Shared
  BY OldBasics
<1>2. SharedOK(log, guardrails)'
  BY <1>1, SharedKept DEF Shared
<1>3. RunOK(seen', pc, read, next, log', guardrails')
  BY <1>1, OldBasics, RunKept DEF Shared
<1>4. RunOK(seen2', pc2, read2, next2, log', guardrails')
  BY <1>1, NewBasics, RunKept DEF Shared
<1>. QED  BY <1>2, <1>3, <1>4 DEF IInv

(* Users never touch the operator's finalizer. *)
LEMMA UserGrows == ASSUME IInv, Old!User, guardrails' = guardrails PROVE Grows
<1>1. /\ Shared /\ Server \in Object /\ VersionOK(Server, guardrails)
      /\ Len(log) \in Nat /\ Len(guardrails) \in Nat
  BY OldBasics, Basics DEF Shared
<1>2. CASE Old!UserCreate
  <2>1. PICK s \in Specs, h \in BOOLEAN :
           Old!UserStep([uid |-> Len(log) + 1, gen |-> 1, spec |-> s,
                         deleting |-> FALSE, finalizer |-> FALSE, held |-> h,
                         status |-> Old!NoGuardrail])
    BY <1>2 DEF Old!UserCreate
  <2>. DEFINE o == [uid |-> Len(log) + 1, gen |-> 1, spec |-> s,
                    deleting |-> FALSE, finalizer |-> FALSE, held |-> h,
                    status |-> Old!NoGuardrail]
  <2>2. o \in Object /\ ~o.finalizer /\ o.status.id = 0
    BY <1>1 DEF Object, Old!Object, Old!NoGuardrail, Old!GuardrailStatus
  <2>3. log' = Append(log, o)
    BY <2>1 DEF Old!UserStep
  <2>4. ~Server.finalizer
    BY <1>1, <1>2 DEF Old!UserCreate, Old!Exists, Server, VersionOK
  <2>. HIDE DEF o
  <2>5. VersionOK(o, guardrails)
    BY <1>1, <2>2 DEF VersionOK
  <2>. QED  BY <1>1, <2>2, <2>3, <2>4, <2>5, VersionWritten
<1>3. ASSUME NEW o \in Object, log' = Append(log, o), VersionOK(o, guardrails),
             Server.finalizer => o.finalizer
      PROVE  Grows
  BY <1>1, <1>3, VersionWritten
<1>4. CASE Old!UserEdit
  <2>1. PICK s \in Specs : Old!UserStep([Server EXCEPT !.spec = s, !.gen = @ + 1])
    BY <1>4 DEF Old!UserEdit, Server
  <2>. DEFINE o == [Server EXCEPT !.spec = s, !.gen = @ + 1]
  <2>2. /\ o \in Object /\ o.uid = Server.uid /\ o.finalizer = Server.finalizer
        /\ o.status = Server.status
    <3>1. Server.gen + 1 \in Nat
      BY <1>1 DEF Object, Old!Object
    <3>. QED  BY <1>1, <3>1 DEF Object, Old!Object
  <2>3. log' = Append(log, o)
    BY <2>1 DEF Old!UserStep
  <2>. HIDE DEF o
  <2>4. VersionOK(o, guardrails)
    BY <1>1, <2>2 DEF VersionOK
  <2>. QED  BY <1>3, <2>2, <2>3, <2>4
<1>5. CASE Old!UserDelete
  <2>. DEFINE d == [Server EXCEPT !.deleting = TRUE, !.gen = @ + 1]
  <2>1. /\ d \in Object /\ d.uid = Server.uid /\ d.finalizer = Server.finalizer
        /\ d.status = Server.status
    <3>1. Server.gen + 1 \in Nat
      BY <1>1 DEF Object, Old!Object
    <3>. QED  BY <1>1, <3>1 DEF Object, Old!Object
  <2>2. log' = Append(log, Old!Collected(d))
    BY <1>5 DEF Old!UserDelete, Old!UserStep, Server
  <2>. HIDE DEF d
  <2>3. VersionOK(d, guardrails)
    BY <1>1, <2>1 DEF VersionOK
  <2>. QED  BY <1>1, <1>3, <2>1, <2>2, <2>3, CollectedOK
<1>6. CASE Old!OtherRelease
  <2>. DEFINE d == [Server EXCEPT !.held = FALSE]
  <2>1. /\ d \in Object /\ d.uid = Server.uid /\ d.finalizer = Server.finalizer
        /\ d.status = Server.status
    BY <1>1 DEF Object, Old!Object
  <2>2. log' = Append(log, Old!Collected(d))
    BY <1>6 DEF Old!OtherRelease, Old!UserStep, Server
  <2>. HIDE DEF d
  <2>3. VersionOK(d, guardrails)
    BY <1>1, <2>1 DEF VersionOK
  <2>. QED  BY <1>1, <1>3, <2>1, <2>2, <2>3, CollectedOK
<1>. QED  BY <1>2, <1>4, <1>5, <1>6 DEF Old!User

LEMMA UsersOK == ASSUME IInv, Users PROVE IInv'
<1>1. /\ Old!User /\ guardrails' = guardrails /\ UNCHANGED <<pc, read, next, phase>>
      /\ UNCHANGED <<seen2, queued2, timer2, pc2, read2, next2>>
  BY DEF Users, newVars
<1>2. /\ edits < MaxEdits /\ edits' = edits + 1
      /\ UNCHANGED <<seen, queued, timer, faults>>
  BY <1>1 DEF Old!User, Old!UserCreate, Old!UserEdit, Old!UserDelete, Old!OtherRelease,
              Old!UserStep
<1>3. Grows
  BY <1>1, UserGrows
<1>4. CountsOK'
  BY <1>2, HandOverAssumption DEF CountsOK, IInv
<1>5. FlagsOK' /\ PhaseOK'
  BY <1>1, <1>2 DEF FlagsOK, PhaseOK, IInv
<1>6. seen' \in seen .. Len(log') /\ seen2' \in seen2 .. Len(log')
  BY <1>1, <1>2, <1>3, OldBasics, NewBasics, SharedKept DEF Shared
<1>. QED  BY <1>1, <1>3, <1>4, <1>5, <1>6, OthersOK

LEMMA OldHearsOK == ASSUME IInv, OldHears PROVE IInv'
<1>1. /\ UNCHANGED <<log, guardrails, edits, faults, phase, pc, read, next>>
      /\ UNCHANGED <<seen2, queued2, timer2, pc2, read2, next2>>
      /\ queued' = TRUE /\ (timer' = timer \/ timer' = FALSE)
      /\ seen' = seen \/ (seen < Len(log) /\ seen' = seen + 1)
      /\ phase # "new"
  BY DEF OldHears, newVars, Old!Deliver, Old!TimerFires
<1>2. Grows
  BY <1>1, OldBasics, NothingWritten
<1>3. seen' \in seen .. Len(log') /\ seen2' \in seen2 .. Len(log')
  BY <1>1, OldBasics, NewBasics
<1>4. FlagsOK' /\ PhaseOK'
  BY <1>1 DEF FlagsOK, PhaseOK, IInv
<1>5. CountsOK'
  BY <1>1 DEF CountsOK, IInv
<1>. QED  BY <1>1, <1>2, <1>3, <1>4, <1>5, OthersOK

LEMMA NewHearsOK == ASSUME IInv, NewHears PROVE IInv'
<1>1. /\ UNCHANGED <<log, guardrails, edits, faults, phase, pc2, read2, next2>>
      /\ UNCHANGED <<seen, queued, timer, pc, read, next>>
      /\ queued2' = TRUE /\ (timer2' = timer2 \/ timer2' = FALSE)
      /\ seen2' = seen2 \/ (seen2 < Len(log) /\ seen2' = seen2 + 1)
      /\ phase # "old"
  BY DEF NewHears, oldVars, New!Deliver, New!TimerFires
<1>2. Grows
  BY <1>1, OldBasics, NothingWritten
<1>3. seen' \in seen .. Len(log') /\ seen2' \in seen2 .. Len(log')
  BY <1>1, OldBasics, NewBasics
<1>4. FlagsOK' /\ PhaseOK'
  BY <1>1 DEF FlagsOK, PhaseOK, IInv
<1>5. CountsOK'
  BY <1>1 DEF CountsOK, IInv
<1>. QED  BY <1>1, <1>2, <1>3, <1>4, <1>5, OthersOK

(* The successor has not run yet; the leader ends wherever it is.          *)
LEMMA TakeOverOK == ASSUME IInv, TakeOver PROVE IInv'
<1>1. /\ phase = "old" /\ phase' = "both" /\ seen2' \in seen .. Len(log)
      /\ queued2' = New!Exists(log[seen2'])
      /\ UNCHANGED <<log, edits, faults, guardrails, timer2, pc2, read2, next2>>
      /\ UNCHANGED <<seen, queued, timer, pc, read, next>>
  BY DEF TakeOver, oldVars
<1>2. Grows
  BY <1>1, OldBasics, NothingWritten
<1>3. SharedOK(log, guardrails)' /\ CountsOK'
  BY <1>1 DEF IInv, CountsOK
<1>4. RunOK(seen, pc, read, next, log, guardrails)'
  BY <1>1 DEF IInv
<1>5. RunOK(seen2, pc2, read2, next2, log, guardrails)'
  <2>1. pc2 = "idle" /\ read2 = 1
    BY <1>1 DEF IInv, PhaseOK, RunOK
  <2>2. seen2' \in 1 .. Len(log) /\ 1 \in 1 .. seen2'
    BY <1>1, OldBasics
  <2>. QED  BY <1>1, <2>1, <2>2, NewBasics DEF RunOK
<1>6. FlagsOK'
  <2>1. queued2' \in BOOLEAN
    BY <1>1 DEF New!Exists
  <2>. QED  BY <1>1, <2>1 DEF IInv, FlagsOK
<1>7. PhaseOK'
  BY <1>1 DEF PhaseOK
<1>. QED  BY <1>3, <1>4, <1>5, <1>6, <1>7 DEF IInv

LEMMA ExitOK == ASSUME IInv, Exit PROVE IInv'
<1>1. /\ phase' = "new" /\ Old!End /\ seen' = 1 /\ queued' = FALSE /\ timer' = FALSE
      /\ UNCHANGED <<log, edits, faults, guardrails>>
      /\ UNCHANGED <<seen2, queued2, timer2, pc2, read2, next2>>
  BY DEF Exit, newVars
<1>2. Grows
  BY <1>1, OldBasics, NothingWritten
<1>3. SharedOK(log, guardrails)' /\ CountsOK'
  BY <1>1 DEF IInv, CountsOK
<1>4. RunOK(seen2, pc2, read2, next2, log, guardrails)'
  BY <1>1 DEF IInv
<1>5. RunOK(seen, pc, read, next, log, guardrails)'
  <2>1. seen' \in 1 .. Len(log) /\ Ended(seen', pc', read', next')
    BY <1>1, OldBasics DEF Ended, Old!End
  <2>. QED  BY <1>1, <1>2, <2>1, OldBasics, EndedOK
<1>6. FlagsOK'
  BY <1>1 DEF IInv, FlagsOK
<1>7. PhaseOK'
  BY <1>1 DEF PhaseOK, Old!End
<1>. QED  BY <1>3, <1>4, <1>5, <1>6, <1>7 DEF IInv

-----------------------------------------------------------------------------
LEMMA InitOK == Init => IInv
<1>. SUFFICES ASSUME Init PROVE IInv
  OBVIOUS
<1>1. /\ log = <<Old!Gone>> /\ guardrails = << >> /\ edits = 0 /\ faults = 0
      /\ seen = 1 /\ pc = "idle" /\ read = 1 /\ next = Old!NoGuardrail
      /\ queued = FALSE /\ timer = FALSE /\ phase = "old"
  BY DEF Init, Old!Init, Old!ApiInit
<1>2. /\ seen2 = 1 /\ pc2 = "idle" /\ read2 = 1 /\ next2 = Old!NoGuardrail
      /\ queued2 = FALSE /\ timer2 = FALSE
  BY Same DEF Init, New!Init, New!ApiInit
<1>3. /\ log \in Seq(Object) /\ Len(log) = 1 /\ Len(guardrails) = 0
      /\ guardrails \in Seq(Guardrail)
      /\ \A i \in 1 .. Len(log) : log[i] = Old!Gone
  BY <1>1, GoneType
<1>4. SharedOK(log, guardrails)
  BY <1>3, GoneType DEF SharedOK, VersionOK, Released
<1>5. /\ RunOK(seen, pc, read, next, log, guardrails)
      /\ RunOK(seen2, pc2, read2, next2, log, guardrails)
  <2>1. Old!NoGuardrail \in Status
    BY DEF Old!NoGuardrail, Status, Old!GuardrailStatus
  <2>. QED  BY <1>1, <1>2, <1>3, <2>1 DEF RunOK, Old!Steps
<1>6. CountsOK
  BY <1>1, HandOverAssumption DEF CountsOK
<1>7. FlagsOK /\ PhaseOK
  BY <1>1, <1>2 DEF FlagsOK, PhaseOK
<1>. QED  BY <1>4, <1>5, <1>6, <1>7 DEF IInv

LEMMA NextKeeps == IInv /\ [Next]_vars => IInv'
<1>. SUFFICES ASSUME IInv, [Next]_vars PROVE IInv'
  OBVIOUS
<1>1. CASE UNCHANGED vars
  <2>1. /\ UNCHANGED <<log, edits, faults, guardrails, phase>>
        /\ UNCHANGED <<seen, queued, timer, pc, read, next>>
        /\ UNCHANGED <<seen2, queued2, timer2, pc2, read2, next2>>
    BY <1>1 DEF vars, oldVars, newVars
  <2>2. /\ SharedOK(log, guardrails)' /\ RunOK(seen, pc, read, next, log, guardrails)'
        /\ RunOK(seen2, pc2, read2, next2, log, guardrails)'
    BY <2>1 DEF IInv
  <2>3. CountsOK' /\ FlagsOK' /\ PhaseOK'
    BY <2>1 DEF IInv, CountsOK, FlagsOK, PhaseOK
  <2>. QED  BY <2>2, <2>3 DEF IInv
<1>. QED
  BY <1>1, UsersOK, OldWorksOK, OldHearsOK, NewWorksOK, NewHearsOK, TakeOverOK, ExitOK
  DEF Next

LEMMA Invariance == Spec => []IInv
BY InitOK, NextKeeps, PTL DEF Spec

LEMMA OldTypes == ASSUME IInv PROVE Old!TypeOK
<1>1. /\ log \in Seq(Old!Object) /\ Len(log) > 0 /\ guardrails \in Seq(Old!Guardrail)
      /\ Old!Server.status.id \in 0 .. Len(guardrails)
  BY OldBasics, Basics DEF Shared, SharedOK, Object, Guardrail, VersionOK, Server
<1>2. /\ seen \in 1 .. Len(log) /\ read \in 1 .. seen /\ pc \in Old!Steps
      /\ next \in Old!GuardrailStatus
  BY DEF IInv, RunOK, Status
<1>3. edits \in 0 .. MaxEdits /\ faults \in 0 .. MaxFaults
  BY DEF IInv, CountsOK
<1>4. queued \in BOOLEAN /\ timer \in BOOLEAN
  BY DEF IInv, FlagsOK
<1>. QED  BY ONLY <1>1, <1>2, <1>3, <1>4, Zenon DEF Old!TypeOK, Old!ApiTypeOK

LEMMA NewTypes == ASSUME IInv PROVE New!TypeOK
<1>1. /\ log \in Seq(New!Object) /\ Len(log) > 0 /\ guardrails \in Seq(New!Guardrail)
      /\ New!Server.status.id \in 0 .. Len(guardrails)
  BY OldBasics, Basics, Same DEF Shared, SharedOK, VersionOK
<1>2. /\ seen2 \in 1 .. Len(log) /\ read2 \in 1 .. seen2 /\ pc2 \in New!Steps
      /\ next2 \in New!GuardrailStatus
  BY Same DEF IInv, RunOK
<1>3. edits \in 0 .. MaxEdits /\ faults \in 0 .. MaxFaults
  BY DEF IInv, CountsOK
<1>4. queued2 \in BOOLEAN /\ timer2 \in BOOLEAN
  BY DEF IInv, FlagsOK
<1>. QED  BY ONLY <1>1, <1>2, <1>3, <1>4, Zenon DEF New!TypeOK, New!ApiTypeOK

(* The bound on what is heard late is kept. *)
LEMMA LateOK == Spec => [](late \in 0 .. MaxLate)
<1>1. Init => late \in 0 .. MaxLate
  BY HandOverAssumption DEF Init
<1>2. late \in 0 .. MaxLate /\ [Next]_vars => (late \in 0 .. MaxLate)'
  <2>. SUFFICES ASSUME late \in 0 .. MaxLate, [Next]_vars PROVE late' \in 0 .. MaxLate
    OBVIOUS
  <2>1. late' = late \/ late' = 0 \/ (late < MaxLate /\ late' = late + 1)
    BY DEF Next, vars, Users, OldWorks, OldHears, NewWorks, NewHears, TakeOver, Exit
  <2>2. MaxLate \in Nat
    BY HandOverAssumption
  <2>. QED  BY <2>1, <2>2
<1>. QED  BY <1>1, <1>2, PTL DEF Spec

(* The types hold, and a process that is not at work holds nothing that a  *)
(* run could use (cmd/manager/main.go:96-102).                             *)
THEOREM TypeCorrect == Spec => []TypeOK
<1>1. IInv /\ late \in 0 .. MaxLate => TypeOK
  BY OldTypes, NewTypes DEF IInv, PhaseOK, TypeOK
<1>. QED  BY <1>1, LateOK, Invariance, PTL

(* Two workers, each with a cache of its own and however they overlap, do  *)
(* not get the finalizer off a policy whose guardrail nobody was asked to  *)
(* delete (guardrailpolicy_controller.go:219-237).                         *)
THEOREM ReleaseCorrect == Spec => []DeleteBeforeRelease
<1>1. IInv => DeleteBeforeRelease
  BY DEF IInv, SharedOK, Released, DeleteBeforeRelease, New!DeleteBeforeRelease
<1>. QED  BY <1>1, Invariance, PTL

-----------------------------------------------------------------------------
(* One live guardrail at most: what LiveGuardrailKept rests on.            *)

(* A version of the policy names the guardrail with id "i". *)
Recorded(l, i) == \E j \in 1 .. Len(l) : l[j].status.id = i

(* The run is about to patch an id it did not read. *)
Fresh(p, r, n, l) == p = "patch" /\ n.id # l[r].status.id

OneLive(g) == \A i, j \in 1 .. Len(g) : g[i].live /\ g[j].live => i = j

(* Such an id is that of the live guardrail, and nobody else knows it.     *)
HoldsOK(p, r, n, l, g) ==
    /\ Fresh(p, r, n, l) => /\ n.id \in 1 .. Len(g) /\ g[n.id].live
                            /\ ~Recorded(l, n.id)
    /\ p \in {"delete", "release"} => l[r].uid # 0

KeepInv ==
    /\ IInv /\ OneLive(guardrails)
    /\ HoldsOK(pc, read, next, log, guardrails)
    /\ HoldsOK(pc2, read2, next2, log, guardrails)
    /\ ~(Fresh(pc, read, next, log) /\ Fresh(pc2, read2, next2, log))

Stays ==
    LET id == Server.status.id IN
    id # 0 /\ Server'.uid = Server.uid /\ guardrails[id].live
        => Server'.status.id = id

(* A step that brings up no id: only guardrails on record may die by it.   *)
Plain ==
    /\ \/ log' = log
       \/ \E o \in Object :
             /\ log' = Append(log, o)
             /\ o.status.id = Server.status.id \/ (o.status.id = 0 /\ o.uid # Server.uid)
    /\ Len(guardrails') = Len(guardrails)
    /\ \A i \in 1 .. Len(guardrails) :
          /\ guardrails'[i].live => guardrails[i].live
          /\ guardrails[i].live => guardrails'[i].live \/ Recorded(log, i)

(* A guardrail is created where none was live. *)
Makes ==
    /\ log' = log /\ Len(guardrails') = Len(guardrails) + 1
    /\ \A i \in 1 .. Len(guardrails) : ~guardrails[i].live /\ ~guardrails'[i].live
    /\ guardrails'[Len(guardrails) + 1].live

(* The id of status "n" gets on record. *)
Sends(n) ==
    /\ guardrails' = guardrails
    /\ \E o \in Object : log' = Append(log, o) /\ o.status.id = n.id

(* What a worker's step does to its run and to what is shared. *)
Does(p, r, n, pp, rp, np) ==
    /\ \/ Plain /\ ~Fresh(pp, rp, np, log')
       \/ Makes /\ (Fresh(pp, rp, np, log') => np.id = Len(guardrails) + 1)
       \/ Fresh(p, r, n, log) /\ Sends(n) /\ ~Fresh(pp, rp, np, log')
    /\ pp \in {"delete", "release"} => log'[rp].uid # 0

(* The log of the next state, and the ids on record in it. *)
LEMMA Appends ==
  ASSUME Shared, NEW o \in Object, log' = Append(log, o)
  PROVE  /\ \A i \in 1 .. Len(log) : log'[i] = log[i]
         /\ Server' = o
         /\ \A i : Recorded(log', i) => Recorded(log, i) \/ i = o.status.id
<1>1. log \in Seq(Object) /\ Len(log) \in Nat
  BY Basics DEF Shared, SharedOK
<1>2. /\ Len(log') = Len(log) + 1 /\ log'[Len(log) + 1] = o
      /\ \A i \in 1 .. Len(log) : log'[i] = log[i]
  BY <1>1, AppendProperties
<1>3. Server' = o
  BY <1>2 DEF Server, Old!Server
<1>4. ASSUME NEW i, Recorded(log', i) PROVE Recorded(log, i) \/ i = o.status.id
  <2>1. PICK j \in 1 .. Len(log') : log'[j].status.id = i
    BY <1>4 DEF Recorded
  <2>2. CASE j = Len(log) + 1
    BY <1>2, <2>1, <2>2
  <2>3. CASE j \in 1 .. Len(log)
    BY <1>2, <2>1, <2>3 DEF Recorded
  <2>. QED  BY <1>1, <1>2, <2>2, <2>3
<1>. QED  BY <1>2, <1>3, <1>4

LEMMA ServerRecorded ==
  ASSUME Shared
  PROVE  /\ Recorded(log, Server.status.id) /\ Server.status.id \in 0 .. Len(guardrails)
         /\ Len(guardrails) \in Nat /\ ~Recorded(log, Len(guardrails) + 1)
<1>1. Len(log) \in Nat /\ Len(log) > 0 /\ Len(guardrails) \in Nat
  BY Basics DEF Shared, SharedOK
<1>2. Recorded(log, Server.status.id)
  BY <1>1 DEF Recorded, Server, Old!Server
<1>3. \A j \in 1 .. Len(log) : log[j].status.id \in 0 .. Len(guardrails)
  BY DEF Shared, SharedOK, VersionOK
<1>4. ~Recorded(log, Len(guardrails) + 1)
  BY <1>1, <1>3 DEF Recorded
<1>. QED  BY <1>1, <1>2, <1>4, Basics DEF Shared, VersionOK

(* A plain step leaves a run that rests what it holds. *)
LEMMA PlainRests ==
  ASSUME Shared, Plain, NEW p, NEW r \in 1 .. Len(log), NEW n,
         HoldsOK(p, r, n, log, guardrails)
  PROVE  /\ HoldsOK(p, r, n, log', guardrails')
         /\ Fresh(p, r, n, log') => Fresh(p, r, n, log)
<1>1. /\ log'[r] = log[r]
      /\ \A i : i # 0 /\ Recorded(log', i) => Recorded(log, i)
  <2>1. CASE log' = log
    BY <2>1
  <2>2. ASSUME NEW o \in Object, log' = Append(log, o),
               o.status.id = Server.status.id \/ o.status.id = 0
        PROVE  /\ log'[r] = log[r]
               /\ \A i : i # 0 /\ Recorded(log', i) => Recorded(log, i)
    BY <2>2, Appends, ServerRecorded
  <2>. QED  BY <2>1, <2>2 DEF Plain
<1>2. Fresh(p, r, n, log') => Fresh(p, r, n, log)
  BY <1>1 DEF Fresh
<1>3. ASSUME Fresh(p, r, n, log)
      PROVE  /\ n.id \in 1 .. Len(guardrails') /\ guardrails'[n.id].live
             /\ ~Recorded(log', n.id)
  <2>1. n.id \in 1 .. Len(guardrails) /\ guardrails[n.id].live /\ ~Recorded(log, n.id)
    BY <1>3 DEF HoldsOK
  <2>. QED  BY <1>1, <2>1 DEF Plain
<1>. QED  BY <1>1, <1>2, <1>3 DEF HoldsOK

LEMMA PlainShares ==
  ASSUME Shared, Plain, OneLive(guardrails) PROVE OneLive(guardrails') /\ Stays
<1>1. OneLive(guardrails')
  BY DEF Plain, OneLive
<1>2. ASSUME log' = log PROVE Stays
  BY <1>2 DEF Stays, Server, Old!Server
<1>3. ASSUME NEW o \in Object, log' = Append(log, o),
             o.status.id = Server.status.id \/ (o.status.id = 0 /\ o.uid # Server.uid)
      PROVE  Stays
  BY <1>3, Appends DEF Stays
<1>. QED  BY <1>1, <1>2, <1>3 DEF Plain

(* The run of one worker makes a step, that of the other rests. *)
LEMMA DoesKeeps ==
  ASSUME Shared, OneLive(guardrails), NEW p, NEW r, NEW n, NEW pp, NEW rp, NEW np,
         NEW q, NEW s \in 1 .. Len(log), NEW m,
         HoldsOK(p, r, n, log, guardrails), HoldsOK(q, s, m, log, guardrails),
         ~(Fresh(p, r, n, log) /\ Fresh(q, s, m, log)), Does(p, r, n, pp, rp, np)
  PROVE  /\ OneLive(guardrails') /\ Stays
         /\ HoldsOK(pp, rp, np, log', guardrails') /\ HoldsOK(q, s, m, log', guardrails')
         /\ ~(Fresh(pp, rp, np, log') /\ Fresh(q, s, m, log'))
<1>1. pp \in {"delete", "release"} => log'[rp].uid # 0
  BY DEF Does
<1>2. CASE Plain /\ ~Fresh(pp, rp, np, log')
  BY <1>1, <1>2, PlainRests, PlainShares DEF HoldsOK
<1>3. CASE Makes /\ (Fresh(pp, rp, np, log') => np.id = Len(guardrails) + 1)
  <2>1. log' = log /\ Stays
    BY <1>3 DEF Makes, Stays, Server, Old!Server
  <2>2. OneLive(guardrails')
    BY <1>3, ServerRecorded DEF Makes, OneLive
  <2>3. ~Fresh(q, s, m, log)
    BY <1>3 DEF HoldsOK, Makes
  <2>4. HoldsOK(q, s, m, log', guardrails')
    BY <2>1, <2>3 DEF HoldsOK
  <2>5. HoldsOK(pp, rp, np, log', guardrails')
    BY <1>1, <1>3, <2>1, ServerRecorded DEF HoldsOK, Makes
  <2>. QED  BY <2>1, <2>2, <2>3, <2>4, <2>5
<1>4. CASE Fresh(p, r, n, log) /\ Sends(n) /\ ~Fresh(pp, rp, np, log')
  <2>1. PICK o \in Object : log' = Append(log, o) /\ o.status.id = n.id
    BY <1>4 DEF Sends
  <2>2. log'[s] = log[s] /\ Server' = o /\ guardrails' = guardrails
    BY <1>4, <2>1, Appends DEF Sends
  <2>3. ~Fresh(q, s, m, log')
    BY <1>4, <2>2 DEF Fresh
  <2>4. HoldsOK(q, s, m, log', guardrails') /\ HoldsOK(pp, rp, np, log', guardrails')
    BY <1>1, <1>4, <2>2, <2>3 DEF HoldsOK
  <2>5. n.id \in 1 .. Len(guardrails) /\ guardrails[n.id].live
    BY <1>4 DEF HoldsOK
  <2>6. Stays
    BY <2>1, <2>2, <2>5, ServerRecorded DEF Stays, OneLive
  <2>. QED  BY <2>2, <2>3, <2>4, <2>6
<1>. QED  BY <1>2, <1>3, <1>4 DEF Does

(* Steps that touch no guardrail, or write a version that has the status.  *)
LEMMA NothingPlain == ASSUME UNCHANGED <<log, guardrails>> PROVE Plain
BY DEF Plain

LEMMA WritesPlain ==
  ASSUME guardrails' = guardrails, NEW o \in Object, log' = log \/ log' = Append(log, o),
         o.status.id = Server.status.id \/ (o.status.id = 0 /\ o.uid # Server.uid)
  PROVE  Plain
BY DEF Plain

LEMMA CollectedPlain ==
  ASSUME guardrails' = guardrails, NEW o \in Object, Server.uid # 0,
         o.status = Server.status,
         log' = log \/ log' = Append(log, Old!Collected(o))
  PROVE  Plain
<1>1. Old!Collected(o) = o \/ Old!Collected(o) = Old!Gone
  BY DEF Old!Collected
<1>. QED  BY <1>1, GoneType, WritesPlain

-----------------------------------------------------------------------------
(* Steps of the old leader.  The other run rests. *)
OldDoes == Does(pc, read, next, pc', read', next')

LEMMA OldReconcileDoes == ASSUME KeepInv, Old!Reconcile PROVE OldDoes
<1>1. UNCHANGED <<log, guardrails>>
  BY DEF Old!Reconcile
<1>2. Plain
  BY <1>1, NothingPlain
<1>3. CASE Old!End
  BY <1>2, <1>3 DEF Old!End, OldDoes, Does, Fresh
<1>4. CASE pc' = Old!Branch(Old!Cached) /\ read' = seen
  <2>. DEFINE o == log[seen]
  <2>1. pc' = Old!Branch(o) /\ log'[read'] = o
    BY <1>1, <1>4 DEF Old!Cached
  <2>. HIDE DEF o
  <2>2. pc' # "patch" /\ (pc' \in {"delete", "release"} => o.uid # 0)
    BY <2>1 DEF Old!Branch, Old!OnDeletion, Old!OnSync, Old!Live, Old!Exists
  <2>. QED  BY <1>2, <2>1, <2>2 DEF OldDoes, Does, Fresh
<1>. QED  BY <1>3, <1>4 DEF Old!Reconcile

LEMMA OldRunEnds == ASSUME Plain, Old!End PROVE OldDoes
BY DEF Old!End, OldDoes, Does, Fresh

LEMMA OldAddFinalizerDoes == ASSUME KeepInv, Old!AddFinalizer PROVE OldDoes
<1>1. guardrails' = guardrails /\ Old!End
  BY DEF Old!AddFinalizer, Old!EndRequeued
<1>2. CASE log' = log
  BY <1>1, <1>2, NothingPlain, OldRunEnds
<1>3. CASE Old!UpToDate(read) /\ log' = Old!Written([Old!gp EXCEPT !.finalizer = TRUE])
  <2>. DEFINE o == [Old!gp EXCEPT !.finalizer = TRUE]
  <2>1. Server = Old!gp /\ Old!gp \in Object
    BY <1>3, OldBasics DEF Old!UpToDate, KeepInv
  <2>2. o \in Object /\ o.status = Server.status
    BY <2>1 DEF Object, Old!Object
  <2>3. log' = log \/ log' = Append(log, o)
    BY <1>3 DEF Old!Written
  <2>. HIDE DEF o
  <2>. QED  BY <1>1, <2>2, <2>3, WritesPlain, OldRunEnds
<1>. QED  BY <1>2, <1>3 DEF Old!AddFinalizer

LEMMA OldCreateGuardrailDoes ==
  ASSUME UniqueNames, KeepInv, Old!CreateGuardrail PROVE OldDoes
<1>1. log' = log /\ read' = read /\ pc' = "patch"
  BY DEF Old!CreateGuardrail, Old!Answered
<1>2. Old!gp = log'[read'] /\ Old!SyncFailed.id = Old!gp.status.id
  BY <1>1, OldBasics, OldStatuses DEF KeepInv
<1>3. CASE guardrails' = guardrails /\ next' = Old!SyncFailed
  BY <1>1, <1>2, <1>3, NothingPlain DEF OldDoes, Does, Fresh
<1>4. CASE /\ guardrails' = Old!WithCreated /\ ~Old!NameTaken
           /\ next' \in {Old!SyncFailed, Old!Synced(Len(guardrails) + 1)}
  <2>1. guardrails \in Seq(Guardrail) /\ Len(guardrails) \in Nat /\ Old!gp \in Object
    BY OldBasics DEF KeepInv, Shared, SharedOK
  <2>. DEFINE g == [owner |-> Old!gp.uid, content |-> Old!gp.spec, live |-> TRUE,
                    asked |-> FALSE]
  <2>2. guardrails' = Append(guardrails, g) /\ g.live
    BY <1>4 DEF Old!WithCreated
  <2>3. g \in Guardrail
    BY <2>1 DEF Guardrail, Old!Guardrail, Object, Old!Object
  <2>. HIDE DEF g
  <2>4. /\ Len(guardrails') = Len(guardrails) + 1 /\ guardrails'[Len(guardrails) + 1] = g
        /\ \A i \in 1 .. Len(guardrails) : guardrails'[i] = guardrails[i]
    BY <2>1, <2>2, <2>3, AppendProperties
  <2>5. \A i \in 1 .. Len(guardrails) : ~guardrails[i].live
    BY <1>4, <2>1 DEF Old!NameTaken
  <2>6. Makes
    BY <1>1, <2>2, <2>4, <2>5 DEF Makes
  <2>7. Old!Synced(Len(guardrails) + 1).id = Len(guardrails) + 1
    BY <2>1, OldStatuses DEF KeepInv
  <2>. QED  BY <1>1, <1>2, <1>4, <2>6, <2>7 DEF OldDoes, Does, Fresh
<1>. QED  BY <1>3, <1>4 DEF Old!CreateGuardrail, Old!Answered

LEMMA OldUpdateGuardrailDoes == ASSUME KeepInv, Old!UpdateGuardrail PROVE OldDoes
<1>. DEFINE id == Old!gp.status.id
<1>1. /\ \/ guardrails' = guardrails
         \/ guardrails' = [guardrails EXCEPT ![id].content = Old!gp.spec]
      /\ next' \in {Old!SyncFailed, Old!Synced(id)} /\ pc = "update"
      /\ log' = log /\ read' = read /\ pc' = "patch"
  BY DEF Old!UpdateGuardrail, Old!Answered
<1>2. Old!gp = log'[read'] /\ id \in 1 .. Len(guardrails)
  BY <1>1, OldBasics DEF KeepInv, VersionOK, RunOK
<1>3. next'.id = id
  BY <1>1, <1>2, OldStatuses, OldBasics DEF KeepInv
<1>4. ASSUME guardrails' = [guardrails EXCEPT ![id].content = Old!gp.spec] PROVE Plain
  <2>1. guardrails \in Seq(Guardrail) /\ guardrails[id] \in Guardrail /\ Old!gp \in Object
    BY <1>2, OldBasics, ElementOfSeq DEF KeepInv, Shared, SharedOK
  <2>. DEFINE g == [guardrails[id] EXCEPT !.content = Old!gp.spec]
  <2>2. g \in Guardrail /\ g.live = guardrails[id].live
    BY <2>1 DEF Guardrail, Old!Guardrail, Object, Old!Object
  <2>3. guardrails' = [guardrails EXCEPT ![id] = g]
    BY <1>4
  <2>. HIDE DEF g
  <2>4. /\ Len(guardrails') = Len(guardrails)
        /\ \A j \in 1 .. Len(guardrails) :
              guardrails'[j] = IF j = id THEN g ELSE guardrails[j]
    BY <1>2, <2>1, <2>2, <2>3, ExceptSeq
  <2>. QED  BY <1>1, <2>2, <2>4 DEF Plain
<1>5. Plain
  BY <1>1, <1>4, NothingPlain
<1>. QED  BY <1>1, <1>2, <1>3, <1>5 DEF OldDoes, Does, Fresh

LEMMA OldPatchStatusDoes == ASSUME KeepInv, Old!PatchStatus PROVE OldDoes
<1>1. pc = "patch" /\ guardrails' = guardrails /\ Old!End
  BY DEF Old!PatchStatus, Old!EndRequeued
<1>2. CASE log' = log
  BY <1>1, <1>2, NothingPlain, OldRunEnds
<1>3. CASE log' = Append(log, Old!Patched)
  <2>. DEFINE o == Old!Patched
  <2>1. /\ o \in Object
        /\ o.status.id = Old!Merged(Server.status.id, log[read].status.id, next.id)
    <3>1. Old!Patched = PatchedBy(read, next)
      BY DEF Old!Patched, PatchedBy, Server, Old!Server, Old!gp, Old!Merged
    <3>. QED  BY <1>1, <3>1, OldBasics, PatchedType DEF KeepInv
  <2>. HIDE DEF o
  <2>2. CASE next.id = log[read].status.id
    BY <1>1, <1>3, <2>1, <2>2, WritesPlain, OldRunEnds DEF o, Old!Merged
  <2>3. CASE next.id # log[read].status.id
    <3>1. Sends(next)
      BY <1>1, <1>3, <2>1, <2>3 DEF o, Old!Merged, Sends
    <3>. QED  BY <1>1, <2>3, <3>1 DEF Fresh, OldDoes, Does, Old!End
  <2>. QED  BY <2>2, <2>3
<1>. QED  BY <1>2, <1>3 DEF Old!PatchStatus, Old!Written

LEMMA OldDeleteGuardrailDoes == ASSUME KeepInv, Old!DeleteGuardrail PROVE OldDoes
<1>. DEFINE id == Old!gp.status.id
<1>1. pc = "delete" /\ pc' = "release" /\ log' = log /\ read' = read
  BY DEF Old!DeleteGuardrail
<1>2. PICK stays \in BOOLEAN :
        guardrails' = [guardrails EXCEPT ![id] =
                           [guardrails[id] EXCEPT !.live = IF stays THEN @ ELSE FALSE,
                                                  !.asked = TRUE]]
  BY DEF Old!DeleteGuardrail, Old!AskedToDelete
<1>3. /\ id \in 1 .. Len(guardrails) /\ Recorded(log, id)
  BY <1>1, OldBasics DEF KeepInv, VersionOK, RunOK, Recorded
<1>4. Plain
  <2>. DEFINE g == [guardrails[id] EXCEPT !.live = IF stays THEN @ ELSE FALSE,
                                          !.asked = TRUE]
  <2>1. guardrails \in Seq(Guardrail) /\ guardrails[id] \in Guardrail
    BY <1>3, OldBasics, ElementOfSeq DEF KeepInv, Shared, SharedOK
  <2>2. g \in Guardrail /\ (g.live => guardrails[id].live)
    BY <2>1 DEF Guardrail, Old!Guardrail
  <2>3. guardrails' = [guardrails EXCEPT ![id] = g]
    BY <1>2
  <2>. HIDE DEF g
  <2>4. /\ Len(guardrails') = Len(guardrails)
        /\ \A j \in 1 .. Len(guardrails) :
              guardrails'[j] = IF j = id THEN g ELSE guardrails[j]
    BY <1>3, <2>1, <2>2, <2>3, ExceptSeq
  <2>. QED  BY <1>1, <1>3, <2>2, <2>4 DEF Plain
<1>5. log[read].uid # 0
  BY <1>1 DEF KeepInv, HoldsOK
<1>. QED  BY <1>1, <1>4, <1>5 DEF OldDoes, Does, Fresh

LEMMA OldRemoveFinalizerDoes == ASSUME KeepInv, Old!RemoveFinalizer PROVE OldDoes
<1>1. pc = "release" /\ guardrails' = guardrails /\ Old!End
  BY DEF Old!RemoveFinalizer, Old!EndRequeued
<1>2. CASE log' = log
  BY <1>1, <1>2, NothingPlain, OldRunEnds
<1>3. CASE /\ Old!UpToDate(read)
           /\ log' = Old!Written(Old!Collected([Old!gp EXCEPT !.finalizer = FALSE]))
  <2>. DEFINE o == [Old!gp EXCEPT !.finalizer = FALSE]
  <2>1. Server = Old!gp /\ Old!gp \in Object /\ Old!gp = log[read]
    BY <1>3, OldBasics DEF Old!UpToDate, KeepInv
  <2>2. Server.uid # 0
    BY <1>1, <2>1 DEF KeepInv, HoldsOK
  <2>3. o \in Object /\ o.status = Server.status
    BY <2>1 DEF Object, Old!Object
  <2>4. log' = log \/ log' = Append(log, Old!Collected(o))
    BY <1>3 DEF Old!Written
  <2>. HIDE DEF o
  <2>. QED  BY <1>1, <2>2, <2>3, <2>4, CollectedPlain, OldRunEnds
<1>. QED  BY <1>2, <1>3 DEF Old!RemoveFinalizer

LEMMA OldWorkerDoes == ASSUME UniqueNames, KeepInv, Old!Worker PROVE OldDoes
BY OldReconcileDoes, OldAddFinalizerDoes, OldCreateGuardrailDoes,
   OldUpdateGuardrailDoes, OldPatchStatusDoes, OldDeleteGuardrailDoes,
   OldRemoveFinalizerDoes DEF Old!Worker

-----------------------------------------------------------------------------
(* Steps of its successor. *)
NewDoes == Does(pc2, read2, next2, pc2', read2', next2')

LEMMA NewReconcileDoes == ASSUME KeepInv, New!Reconcile PROVE NewDoes
<1>1. UNCHANGED <<log, guardrails>>
  BY DEF New!Reconcile
<1>2. Plain
  BY <1>1, NothingPlain
<1>3. CASE New!End
  BY <1>2, <1>3 DEF New!End, NewDoes, Does, Fresh
<1>4. CASE pc2' = New!Branch(New!Cached) /\ read2' = seen2
  <2>. DEFINE o == log[seen2]
  <2>1. pc2' = New!Branch(o) /\ log'[read2'] = o
    BY <1>1, <1>4 DEF New!Cached
  <2>. HIDE DEF o
  <2>2. pc2' # "patch" /\ (pc2' \in {"delete", "release"} => o.uid # 0)
    BY <2>1 DEF New!Branch, New!OnDeletion, New!OnSync, New!Live, New!Exists
  <2>. QED  BY <1>2, <2>1, <2>2 DEF NewDoes, Does, Fresh
<1>. QED  BY <1>3, <1>4 DEF New!Reconcile

LEMMA NewRunEnds == ASSUME Plain, New!End PROVE NewDoes
BY DEF New!End, NewDoes, Does, Fresh

LEMMA NewAddFinalizerDoes == ASSUME KeepInv, New!AddFinalizer PROVE NewDoes
<1>1. guardrails' = guardrails /\ New!End
  BY DEF New!AddFinalizer, New!EndRequeued
<1>2. CASE log' = log
  BY <1>1, <1>2, NothingPlain, NewRunEnds
<1>3. CASE New!UpToDate(read2) /\ log' = New!Written([New!gp EXCEPT !.finalizer = TRUE])
  <2>. DEFINE o == [New!gp EXCEPT !.finalizer = TRUE]
  <2>1. Server = New!gp /\ New!gp \in Object
    BY <1>3, NewBasics DEF New!UpToDate, KeepInv
  <2>2. o \in Object /\ o.status = Server.status
    BY <2>1 DEF Object, Old!Object
  <2>3. log' = log \/ log' = Append(log, o)
    BY <1>3 DEF New!Written
  <2>. HIDE DEF o
  <2>. QED  BY <1>1, <2>2, <2>3, WritesPlain, NewRunEnds
<1>. QED  BY <1>2, <1>3 DEF New!AddFinalizer

LEMMA NewCreateGuardrailDoes ==
  ASSUME UniqueNames, KeepInv, New!CreateGuardrail PROVE NewDoes
<1>1. log' = log /\ read2' = read2 /\ pc2' = "patch"
  BY DEF New!CreateGuardrail, New!Answered
<1>2. New!gp = log'[read2'] /\ New!SyncFailed.id = New!gp.status.id
  BY <1>1, NewBasics, NewStatuses DEF KeepInv
<1>3. CASE guardrails' = guardrails /\ next2' = New!SyncFailed
  BY <1>1, <1>2, <1>3, NothingPlain DEF NewDoes, Does, Fresh
<1>4. CASE /\ guardrails' = New!WithCreated /\ ~New!NameTaken
           /\ next2' \in {New!SyncFailed, New!Synced(Len(guardrails) + 1)}
  <2>1. guardrails \in Seq(Guardrail) /\ Len(guardrails) \in Nat /\ New!gp \in Object
    BY NewBasics DEF KeepInv, Shared, SharedOK
  <2>. DEFINE g == [owner |-> New!gp.uid, content |-> New!gp.spec, live |-> TRUE,
                    asked |-> FALSE]
  <2>2. guardrails' = Append(guardrails, g) /\ g.live
    BY <1>4 DEF New!WithCreated
  <2>3. g \in Guardrail
    BY <2>1 DEF Guardrail, Old!Guardrail, Object, Old!Object
  <2>. HIDE DEF g
  <2>4. /\ Len(guardrails') = Len(guardrails) + 1 /\ guardrails'[Len(guardrails) + 1] = g
        /\ \A i \in 1 .. Len(guardrails) : guardrails'[i] = guardrails[i]
    BY <2>1, <2>2, <2>3, AppendProperties
  <2>5. \A i \in 1 .. Len(guardrails) : ~guardrails[i].live
    BY <1>4, <2>1 DEF New!NameTaken
  <2>6. Makes
    BY <1>1, <2>2, <2>4, <2>5 DEF Makes
  <2>7. New!Synced(Len(guardrails) + 1).id = Len(guardrails) + 1
    BY <2>1, NewStatuses DEF KeepInv
  <2>. QED  BY <1>1, <1>2, <1>4, <2>6, <2>7 DEF NewDoes, Does, Fresh
<1>. QED  BY <1>3, <1>4 DEF New!CreateGuardrail, New!Answered

LEMMA NewUpdateGuardrailDoes == ASSUME KeepInv, New!UpdateGuardrail PROVE NewDoes
<1>. DEFINE id == New!gp.status.id
<1>1. /\ \/ guardrails' = guardrails
         \/ guardrails' = [guardrails EXCEPT ![id].content = New!gp.spec]
      /\ next2' \in {New!SyncFailed, New!Synced(id)} /\ pc2 = "update"
      /\ log' = log /\ read2' = read2 /\ pc2' = "patch"
  BY DEF New!UpdateGuardrail, New!Answered
<1>2. New!gp = log'[read2'] /\ id \in 1 .. Len(guardrails)
  BY <1>1, NewBasics DEF KeepInv, VersionOK, RunOK
<1>3. next2'.id = id
  BY <1>1, <1>2, NewStatuses, NewBasics DEF KeepInv
<1>4. ASSUME guardrails' = [guardrails EXCEPT ![id].content = New!gp.spec] PROVE Plain
  <2>1. guardrails \in Seq(Guardrail) /\ guardrails[id] \in Guardrail /\ New!gp \in Object
    BY <1>2, NewBasics, ElementOfSeq DEF KeepInv, Shared, SharedOK
  <2>. DEFINE g == [guardrails[id] EXCEPT !.content = New!gp.spec]
  <2>2. g \in Guardrail /\ g.live = guardrails[id].live
    BY <2>1 DEF Guardrail, Old!Guardrail, Object, Old!Object
  <2>3. guardrails' = [guardrails EXCEPT ![id] = g]
    BY <1>4
  <2>. HIDE DEF g
  <2>4. /\ Len(guardrails') = Len(guardrails)
        /\ \A j \in 1 .. Len(guardrails) :
              guardrails'[j] = IF j = id THEN g ELSE guardrails[j]
    BY <1>2, <2>1, <2>2, <2>3, ExceptSeq
  <2>. QED  BY <1>1, <2>2, <2>4 DEF Plain
<1>5. Plain
  BY <1>1, <1>4, NothingPlain
<1>. QED  BY <1>1, <1>2, <1>3, <1>5 DEF NewDoes, Does, Fresh

LEMMA NewPatchStatusDoes == ASSUME KeepInv, New!PatchStatus PROVE NewDoes
<1>1. pc2 = "patch" /\ guardrails' = guardrails /\ New!End
  BY DEF New!PatchStatus, New!EndRequeued
<1>2. CASE log' = log
  BY <1>1, <1>2, NothingPlain, NewRunEnds
<1>3. CASE log' = Append(log, New!Patched)
  <2>. DEFINE o == New!Patched
  <2>1. /\ o \in Object
        /\ o.status.id = Old!Merged(Server.status.id, log[read2].status.id, next2.id)
    <3>1. New!Patched = PatchedBy(read2, next2)
      BY DEF New!Patched, PatchedBy, Server, New!Server, Old!Server, New!gp, New!Merged,
             Old!Merged
    <3>. QED  BY <1>1, <3>1, NewBasics, PatchedType DEF KeepInv
  <2>. HIDE DEF o
  <2>2. CASE next2.id = log[read2].status.id
    BY <1>1, <1>3, <2>1, <2>2, WritesPlain, NewRunEnds DEF o, Old!Merged
  <2>3. CASE next2.id # log[read2].status.id
    <3>1. Sends(next2)
      BY <1>1, <1>3, <2>1, <2>3 DEF o, Old!Merged, Sends
    <3>. QED  BY <1>1, <2>3, <3>1 DEF Fresh, NewDoes, Does, New!End
  <2>. QED  BY <2>2, <2>3
<1>. QED  BY <1>2, <1>3 DEF New!PatchStatus, New!Written

LEMMA NewDeleteGuardrailDoes == ASSUME KeepInv, New!DeleteGuardrail PROVE NewDoes
<1>. DEFINE id == New!gp.status.id
<1>1. pc2 = "delete" /\ pc2' = "release" /\ log' = log /\ read2' = read2
  BY DEF New!DeleteGuardrail
<1>2. PICK stays \in BOOLEAN :
        guardrails' = [guardrails EXCEPT ![id] =
                           [guardrails[id] EXCEPT !.live = IF stays THEN @ ELSE FALSE,
                                                  !.asked = TRUE]]
  BY DEF New!DeleteGuardrail, New!AskedToDelete
<1>3. /\ id \in 1 .. Len(guardrails) /\ Recorded(log, id)
  BY <1>1, NewBasics DEF KeepInv, VersionOK, RunOK, Recorded
<1>4. Plain
  <2>. DEFINE g == [guardrails[id] EXCEPT !.live = IF stays THEN @ ELSE FALSE,
                                          !.asked = TRUE]
  <2>1. guardrails \in Seq(Guardrail) /\ guardrails[id] \in Guardrail
    BY <1>3, NewBasics, ElementOfSeq DEF KeepInv, Shared, SharedOK
  <2>2. g \in Guardrail /\ (g.live => guardrails[id].live)
    BY <2>1 DEF Guardrail, Old!Guardrail
  <2>3. guardrails' = [guardrails EXCEPT ![id] = g]
    BY <1>2
  <2>. HIDE DEF g
  <2>4. /\ Len(guardrails') = Len(guardrails)
        /\ \A j \in 1 .. Len(guardrails) :
              guardrails'[j] = IF j = id THEN g ELSE guardrails[j]
    BY <1>3, <2>1, <2>2, <2>3, ExceptSeq
  <2>. QED  BY <1>1, <1>3, <2>2, <2>4 DEF Plain
<1>5. log[read2].uid # 0
  BY <1>1 DEF KeepInv, HoldsOK
<1>. QED  BY <1>1, <1>4, <1>5 DEF NewDoes, Does, Fresh

LEMMA NewRemoveFinalizerDoes == ASSUME KeepInv, New!RemoveFinalizer PROVE NewDoes
<1>1. pc2 = "release" /\ guardrails' = guardrails /\ New!End
  BY DEF New!RemoveFinalizer, New!EndRequeued
<1>2. CASE log' = log
  BY <1>1, <1>2, NothingPlain, NewRunEnds
<1>3. CASE /\ New!UpToDate(read2)
           /\ log' = New!Written(New!Collected([New!gp EXCEPT !.finalizer = FALSE]))
  <2>. DEFINE o == [New!gp EXCEPT !.finalizer = FALSE]
  <2>1. Server = New!gp /\ New!gp \in Object /\ New!gp = log[read2]
    BY <1>3, NewBasics DEF New!UpToDate, KeepInv
  <2>2. Server.uid # 0
    BY <1>1, <2>1 DEF KeepInv, HoldsOK
  <2>3. o \in Object /\ o.status = Server.status
    BY <2>1 DEF Object, Old!Object
  <2>4. log' = log \/ log' = Append(log, Old!Collected(o))
    BY <1>3, Same DEF Old!Written
  <2>. HIDE DEF o
  <2>. QED  BY <1>1, <2>2, <2>3, <2>4, CollectedPlain, NewRunEnds
<1>. QED  BY <1>2, <1>3 DEF New!RemoveFinalizer

LEMMA NewWorkerDoes == ASSUME UniqueNames, KeepInv, New!Worker PROVE NewDoes
BY NewReconcileDoes, NewAddFinalizerDoes, NewCreateGuardrailDoes,
   NewUpdateGuardrailDoes, NewPatchStatusDoes, NewDeleteGuardrailDoes,
   NewRemoveFinalizerDoes DEF New!Worker

-----------------------------------------------------------------------------
(* The steps of the composition. *)
LEMMA KeepBasics ==
  ASSUME KeepInv
  PROVE  /\ IInv /\ Shared /\ OneLive(guardrails)
         /\ read \in 1 .. Len(log) /\ read2 \in 1 .. Len(log)
         /\ HoldsOK(pc, read, next, log, guardrails)
         /\ HoldsOK(pc2, read2, next2, log, guardrails)
         /\ ~(Fresh(pc, read, next, log) /\ Fresh(pc2, read2, next2, log))
BY OldBasics, NewBasics DEF KeepInv

LEMMA OldWorksKeeps ==
  ASSUME UniqueNames, KeepInv, OldWorks, IInv' PROVE KeepInv' /\ Stays
<1>1. OldDoes /\ UNCHANGED <<pc2, read2, next2>>
  BY OldWorkerDoes DEF OldWorks, newVars
<1>2. /\ OneLive(guardrails') /\ Stays
      /\ HoldsOK(pc', read', next', log', guardrails')
      /\ HoldsOK(pc2, read2, next2, log', guardrails')
      /\ ~(Fresh(pc', read', next', log') /\ Fresh(pc2, read2, next2, log'))
  BY <1>1, KeepBasics, DoesKeeps DEF OldDoes
<1>. QED  BY <1>1, <1>2 DEF KeepInv

LEMMA NewWorksKeeps ==
  ASSUME UniqueNames, KeepInv, NewWorks, IInv' PROVE KeepInv' /\ Stays
<1>1. NewDoes /\ UNCHANGED <<pc, read, next>>
  BY NewWorkerDoes DEF NewWorks, oldVars
<1>2. /\ OneLive(guardrails') /\ Stays
      /\ HoldsOK(pc2', read2', next2', log', guardrails')
      /\ HoldsOK(pc, read, next, log', guardrails')
      /\ ~(Fresh(pc2', read2', next2', log') /\ Fresh(pc, read, next, log'))
  BY <1>1, KeepBasics, DoesKeeps DEF NewDoes
<1>. QED  BY <1>1, <1>2 DEF KeepInv

(* A step of anybody else: both runs rest, or that of the old leader ends. *)
LEMMA OthersKeep ==
  ASSUME KeepInv, Plain, IInv', UNCHANGED <<pc2, read2, next2>>,
         Old!End \/ UNCHANGED <<pc, read, next>>
  PROVE  KeepInv' /\ Stays
<1>1. OneLive(guardrails') /\ Stays
  BY KeepBasics, PlainShares
<1>2. /\ HoldsOK(pc2, read2, next2, log', guardrails')
      /\ Fresh(pc2, read2, next2, log') => Fresh(pc2, read2, next2, log)
  BY KeepBasics, PlainRests
<1>3. /\ HoldsOK(pc', read', next', log', guardrails')
      /\ Fresh(pc', read', next', log') => Fresh(pc, read, next, log)
  <2>1. CASE Old!End
    BY <2>1 DEF Old!End, HoldsOK, Fresh
  <2>2. CASE UNCHANGED <<pc, read, next>>
    BY <2>2, KeepBasics, PlainRests
  <2>. QED  BY <2>1, <2>2
<1>. QED  BY <1>1, <1>2, <1>3, KeepBasics DEF KeepInv

LEMMA UserPlain == ASSUME IInv, Old!User, guardrails' = guardrails PROVE Plain
<1>1. Shared /\ Server \in Object /\ Len(log) \in Nat
  BY OldBasics, Basics DEF Shared
<1>2. CASE Old!UserCreate
  <2>1. PICK s \in Specs, h \in BOOLEAN :
           Old!UserStep([uid |-> Len(log) + 1, gen |-> 1, spec |-> s,
                         deleting |-> FALSE, finalizer |-> FALSE, held |-> h,
                         status |-> Old!NoGuardrail])
    BY <1>2 DEF Old!UserCreate
  <2>. DEFINE o == [uid |-> Len(log) + 1, gen |-> 1, spec |-> s,
                    deleting |-> FALSE, finalizer |-> FALSE, held |-> h,
                    status |-> Old!NoGuardrail]
  <2>2. o \in Object /\ o.uid # 0 /\ o.status.id = 0
    BY <1>1 DEF Object, Old!Object, Old!NoGuardrail, Old!GuardrailStatus
  <2>3. log' = Append(log, o)
    BY <2>1 DEF Old!UserStep
  <2>4. Server.uid = 0
    BY <1>2 DEF Old!UserCreate, Old!Exists, Server
  <2>. HIDE DEF o
  <2>. QED  BY <2>2, <2>3, <2>4, WritesPlain
<1>3. CASE Old!UserEdit
  <2>1. PICK s \in Specs : Old!UserStep([Server EXCEPT !.spec = s, !.gen = @ + 1])
    BY <1>3 DEF Old!UserEdit, Server
  <2>. DEFINE o == [Server EXCEPT !.spec = s, !.gen = @ + 1]
  <2>2. Server.gen + 1 \in Nat
    BY <1>1 DEF Object, Old!Object
  <2>3. o \in Object /\ o.status = Server.status
    BY <1>1, <2>2 DEF Object, Old!Object
  <2>4. log' = Append(log, o)
    BY <2>1 DEF Old!UserStep
  <2>. HIDE DEF o
  <2>. QED  BY <2>3, <2>4, WritesPlain
<1>4. CASE Old!UserDelete
  <2>. DEFINE o == [Server EXCEPT !.deleting = TRUE, !.gen = @ + 1]
  <2>1. Server.gen + 1 \in Nat
    BY <1>1 DEF Object, Old!Object
  <2>2. o \in Object /\ o.status = Server.status
    BY <1>1, <2>1 DEF Object, Old!Object
  <2>3. log' = Append(log, Old!Collected(o)) /\ Server.uid # 0
    BY <1>4 DEF Old!UserDelete, Old!UserStep, Old!Live, Old!Exists, Server
  <2>. HIDE DEF o
  <2>. QED  BY <2>2, <2>3, CollectedPlain
<1>5. CASE Old!OtherRelease
  <2>. DEFINE o == [Server EXCEPT !.held = FALSE]
  <2>1. o \in Object /\ o.status = Server.status
    BY <1>1 DEF Object, Old!Object
  <2>2. log' = Append(log, Old!Collected(o)) /\ Server.uid # 0
    BY <1>5 DEF Old!OtherRelease, Old!UserStep, Old!Exists, Server
  <2>. HIDE DEF o
  <2>. QED  BY <2>1, <2>2, CollectedPlain
<1>. QED  BY <1>2, <1>3, <1>4, <1>5 DEF Old!User

LEMMA NextKeepsLive ==
  ASSUME UniqueNames, KeepInv, [Next]_vars, IInv' PROVE KeepInv' /\ Stays
<1>1. CASE UNCHANGED vars
  BY <1>1, NothingPlain, OthersKeep DEF vars, oldVars, newVars
<1>2. CASE Users
  BY <1>2, KeepBasics, UserPlain, OthersKeep DEF Users, newVars
<1>3. CASE OldHears \/ NewHears
  BY <1>3, NothingPlain, OthersKeep
  DEF OldHears, NewHears, oldVars, newVars, Old!Deliver, Old!TimerFires,
      New!Deliver, New!TimerFires
<1>4. CASE TakeOver \/ Exit
  BY <1>4, NothingPlain, OthersKeep DEF TakeOver, Exit, oldVars, newVars
<1>. QED
  BY <1>1, <1>2, <1>3, <1>4, OldWorksKeeps, NewWorksKeeps DEF Next

LEMMA KeepInit == Init => KeepInv
<1>. SUFFICES ASSUME Init PROVE KeepInv
  OBVIOUS
<1>1. guardrails = << >> /\ pc = "idle" /\ pc2 = "idle"
  BY DEF Init, Old!Init, New!Init
<1>2. OneLive(guardrails)
  BY <1>1 DEF OneLive
<1>. QED  BY <1>1, <1>2, InitOK DEF KeepInv, HoldsOK, Fresh

(* Not even two workers, at most one of which is the leader, replace the   *)
(* id of a live guardrail: Bedrock refuses the second of a name, so the    *)
(* run that has created the live one is the only one that can bring up an  *)
(* id (guardrailpolicy_controller.go:85-104).                              *)
THEOREM LiveKept == UniqueNames => (Spec => LiveGuardrailKept)
<1>. SUFFICES ASSUME UniqueNames PROVE Spec => LiveGuardrailKept
  OBVIOUS
<1>. DEFINE Kept == LET id == New!Server.status.id IN
                    id # 0 /\ New!Server'.uid = New!Server.uid /\ guardrails[id].live
                        => New!Server'.status.id = id
<1>1. KeepInv /\ [Next]_vars => KeepInv' /\ [Kept]_(New!vars)
  <2>. SUFFICES ASSUME KeepInv, [Next]_vars PROVE KeepInv' /\ Kept
    OBVIOUS
  <2>1. IInv'
    BY NextKeeps DEF KeepInv
  <2>2. KeepInv' /\ Stays
    BY <2>1, NextKeepsLive
  <2>3. Kept
    BY <2>2, Same DEF Stays, Server, Old!Server, New!Server
  <2>. QED  BY <2>2, <2>3
<1>. HIDE DEF Kept
<1>2. Init => KeepInv
  BY KeepInit
<1>3. Spec => [][Kept]_(New!vars)
  BY <1>1, <1>2, PTL DEF Spec
<1>. QED  BY <1>3 DEF LiveGuardrailKept, New!LiveGuardrailKept, Kept
=============================================================================
