------------------------------ MODULE HandOver ------------------------------
(***************************************************************************)
(* Two operators at work on one GuardrailPolicy: a leader that was held up *)
(* for longer than its lease goes on as if it had it until it notices and  *)
(* exits, while its successor has begun (cmd/manager/main.go:96-102).      *)
(* Each has a cache, a queue and a worker of its own.                      *)
(***************************************************************************)
EXTENDS Integers, Sequences

CONSTANTS
    Specs, Refused, UniqueNames, MaxLag, MaxEdits, MaxFaults,  \* as there
    MaxLate  \* bound on what the old leader hears after its lease has gone

ASSUME HandOverAssumption ==
    /\ Specs # {} /\ Refused \subseteq Specs /\ UniqueNames \in BOOLEAN
    /\ MaxLag \in Nat /\ MaxEdits \in Nat /\ MaxFaults \in Nat
    /\ MaxLate \in Nat

VARIABLES
    log, edits, faults, guardrails,         \* the API server and Bedrock
    seen, queued, timer, pc, read, next,    \* the old leader's process
    seen2, queued2, timer2, pc2, read2, next2, \* its successor's
    phase,   \* who is at work: "old", "both" or "new"
    late     \* counts up to MaxLate

Old == INSTANCE GuardrailPolicy WITH OutsideDeletes <- FALSE

New == INSTANCE GuardrailPolicy
       WITH OutsideDeletes <- FALSE,
            seen <- seen2, queued <- queued2, timer <- timer2,
            pc <- pc2, read <- read2, next <- next2

oldVars == <<seen, queued, timer, pc, read, next>>
newVars == <<seen2, queued2, timer2, pc2, read2, next2>>
vars    == <<log, edits, faults, guardrails, oldVars, newVars, phase, late>>

TypeOK ==
    /\ Old!TypeOK /\ New!TypeOK
    /\ phase \in {"old", "both", "new"} /\ late \in 0 .. MaxLate
    /\ phase = "old" => pc2 = "idle" /\ ~queued2 /\ ~timer2
    /\ phase = "new" => pc = "idle" /\ ~queued /\ ~timer

Init == Old!Init /\ New!Init /\ phase = "old" /\ late = 0

-----------------------------------------------------------------------------
(* Users do what they do to the one object both operators watch. *)
Users ==
    /\ Old!User
    /\ UNCHANGED <<pc, read, next, guardrails, newVars, phase, late>>

(* The old leader finishes the run it is in and may start others.          *)
OldWorks ==
    /\ phase # "new" /\ Old!Worker
    /\ UNCHANGED <<newVars, phase, late>>

OldHears ==
    /\ phase # "new" /\ (Old!Deliver \/ Old!TimerFires)
    /\ IF phase = "old" THEN UNCHANGED late
                        ELSE late < MaxLate /\ late' = late + 1
    /\ UNCHANGED <<pc, read, next, guardrails, newVars, phase>>

NewWorks ==
    /\ phase # "old" /\ New!Worker
    /\ UNCHANGED <<oldVars, phase, late>>

NewHears ==
    /\ phase # "old" /\ (New!Deliver \/ New!TimerFires)
    /\ UNCHANGED <<pc2, read2, next2, guardrails, oldVars, phase, late>>

(* The successor lists the objects and gets some recent version of ours.   *)
TakeOver ==
    /\ phase = "old" /\ phase' = "both"
    /\ seen2' \in seen .. Len(log)
    /\ queued2' = New!Exists(log[seen2'])
    /\ UNCHANGED <<log, edits, faults, guardrails, oldVars>>
    /\ UNCHANGED <<timer2, pc2, read2, next2, late>>

(* The old leader notices: its process ends, wherever it is in a run.      *)
Exit ==
    /\ phase = "both" /\ phase' = "new"
    /\ Old!End /\ seen' = 1 /\ queued' = FALSE /\ timer' = FALSE /\ late' = 0
    /\ UNCHANGED <<log, edits, faults, guardrails, newVars>>

Next == Users \/ OldWorks \/ OldHears \/ NewWorks \/ NewHears \/ TakeOver \/ Exit

Spec == Init /\ [][Next]_vars

(* Both processes do their work, and a leader that lost its lease exits;   *)
(* nobody has to lose it.                                                  *)
Fairness ==
    /\ WF_vars(Exit) /\ WF_vars(OldWorks) /\ WF_vars(NewWorks)
    /\ WF_vars(OldHears /\ Old!Deliver) /\ WF_vars(OldHears /\ Old!TimerFires)
    /\ WF_vars(NewHears /\ New!Deliver) /\ WF_vars(NewHears /\ New!TimerFires)

FairSpec == Spec /\ Fairness

-----------------------------------------------------------------------------
(* Two workers do not get the finalizer off a policy whose guardrail       *)
(* nobody was asked to delete: the update carries the version that was     *)
(* read (guardrailpolicy_controller.go:219-237).                           *)
DeleteBeforeRelease == New!DeleteBeforeRelease

(* Where Bedrock holds names unique, not even two workers replace the id   *)
(* of a live guardrail by that of another one: at most one guardrail is    *)
(* live, and a run that has created it is the only one that knows its id   *)
(* (guardrailpolicy_controller.go:85-104).                                 *)
LiveGuardrailKept == New!LiveGuardrailKept

(* What two workers did to each other's status does not last: once the old *)
(* one is gone, policy and Bedrock end up in step                          *)
(* (guardrailpolicy_controller.go:76-127).                                 *)
EventuallyInSync == New!EventuallyInSync

(* A deleted policy loses its finalizer, whichever of the two takes it.    *)
(* (guardrailpolicy_controller.go:211-237)                                 *)
DeletionCompletes == New!DeletionCompletes

-----------------------------------------------------------------------------
(***************************************************************************)
(* What one worker guarantees and two do not: leader election is           *)
(* "Required when running more than one replica" (cmd/manager/main.go:57). *)
(***************************************************************************)

(* The recorded guardrail is of this incarnation and not asked to go.      *)
RecordedIsOwn == New!RecordedIsOwn

(* A live policy never takes back its status. *)
StatusMovesOn == New!StatusMovesOn
=============================================================================
