-------------------------- MODULE FinalizedObject --------------------------
(***************************************************************************)
(* What a finalizer promises (the comment of FinalizerName in              *)
(* api/v1alpha1/shared_types.go and the three controllers that use it):    *)
(* the operator guards a live object, acquires things for it only while it *)
(* guards it, and lets a deleted object go only when none of them is left. *)
(* The controllers are shown to implement this specification.              *)
(***************************************************************************)
VARIABLES
    phase,    \* "absent", "live" or "deleting"
    guarded,  \* it carries the operator's finalizer
    content,  \* what its owner wants
    clean     \* nothing is held for the object as it now is

objectVars == <<phase, guarded, content, clean>>

AbstractInit == phase = "absent" /\ guarded = FALSE /\ clean = TRUE

(* Things of an earlier incarnation may still be there. *)
Appear ==
    /\ phase = "absent" /\ phase' = "live"
    /\ ~guarded' /\ clean' \in BOOLEAN

(* The owner changes the object, which then names other things. *)
Change ==
    /\ phase # "absent" /\ content' # content
    /\ clean' \in BOOLEAN
    /\ UNCHANGED <<phase, guarded>>

(* The object is gone with its last finalizer. *)
Vanished == phase' = "absent" /\ ~guarded' /\ clean'

BeginDeletion ==
    /\ phase = "live"
    /\ \/ phase' = "deleting" /\ UNCHANGED <<guarded, content, clean>>
       \/ ~guarded /\ Vanished

Guard ==
    /\ phase = "live" /\ ~guarded /\ guarded'
    /\ UNCHANGED <<phase, content, clean>>

Acquire ==
    /\ guarded /\ clean /\ ~clean'
    /\ UNCHANGED <<phase, guarded, content>>

CleanAway == clean' /\ UNCHANGED <<phase, guarded, content>>

Release ==
    /\ phase = "deleting" /\ guarded /\ clean
    /\ \/ ~guarded' /\ UNCHANGED <<phase, content, clean>>
       \/ Vanished

(* Some other controller takes the last finalizer away. *)
Vanish == phase = "deleting" /\ ~guarded /\ Vanished

AbstractNext == \/ Appear \/ Change \/ BeginDeletion
                \/ Guard \/ Acquire \/ CleanAway \/ Release \/ Vanish

Promise == AbstractInit /\ [][AbstractNext]_objectVars
=============================================================================
