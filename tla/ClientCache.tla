---------------------------- MODULE ClientCache ----------------------------
(***************************************************************************)
(* What bedrock.Client promises its callers (internal/bedrock/client.go):  *)
(* every call takes effect at once, somewhere between its start and its    *)
(* return.  A lookup answers with the cached client of its kind and key,   *)
(* or makes and caches one; InvalidateCache drops both clients of a key.   *)
(***************************************************************************)
EXTENDS Integers, Sequences

CONSTANTS
    Callers,   \* goroutines of the proxy and workers of the controllers
    Keys,      \* (IRSA role, region) pairs
    MaxCalls   \* bound on calls, for TLC

Kinds == {"runtime", "control"}

(* "runtime" and "control" name a lookup of that kind. *)
Ops == Kinds \cup {"invalidate"}

VARIABLES
    call,     \* what every caller has asked for
    answer,   \* the client it was given, by index in made; 0 for none
    cache,    \* the index of the cached client of every kind and key
    made,     \* every client ever made
    calls     \* how many calls have been made

vars == <<call, answer, cache, made, calls>>

Out  == [op |-> "none", key |-> CHOOSE k \in Keys : TRUE, taken |-> FALSE]

Init ==
    /\ call = [c \in Callers |-> Out]
    /\ answer = [c \in Callers |-> 0]
    /\ cache = [kind \in Kinds |-> [k \in Keys |-> 0]]
    /\ made = << >> /\ calls = 0

Begin(c) ==
    /\ call[c] = Out /\ calls < MaxCalls /\ calls' = calls + 1
    /\ \E op \in Ops, k \in Keys :
          call' = [call EXCEPT ![c] = [op |-> op, key |-> k, taken |-> FALSE]]
    /\ UNCHANGED <<answer, cache, made>>

Take(c) == call' = [call EXCEPT ![c].taken = TRUE]

Lookup(c) ==
    LET kind == call[c].op
        key  == call[c].key
    IN  /\ kind \in Kinds /\ ~call[c].taken
        /\ Take(c)
        /\ \/ /\ cache[kind][key] # 0
              /\ answer' = [answer EXCEPT ![c] = cache[kind][key]]
              /\ UNCHANGED <<cache, made>>
           \/ /\ cache[kind][key] = 0
              /\ made' = Append(made, [kind |-> kind, key |-> key])
              /\ cache' = [cache EXCEPT ![kind][key] = Len(made')]
              /\ answer' = [answer EXCEPT ![c] = Len(made')]
        /\ UNCHANGED calls

Invalidate(c) ==
    /\ call[c].op = "invalidate" /\ ~call[c].taken
    /\ Take(c)
    /\ cache' = [kind \in Kinds |-> [cache[kind] EXCEPT ![call[c].key] = 0]]
    /\ UNCHANGED <<answer, made, calls>>

Return(c) ==
    /\ call[c].taken
    /\ call' = [call EXCEPT ![c] = Out]
    /\ answer' = [answer EXCEPT ![c] = 0]
    /\ UNCHANGED <<cache, made, calls>>

Next == \E c \in Callers : Begin(c) \/ Lookup(c) \/ Invalidate(c) \/ Return(c)

Spec == Init /\ [][Next]_vars
=============================================================================
