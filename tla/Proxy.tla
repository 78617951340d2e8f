------------------------------- MODULE Proxy -------------------------------
(***************************************************************************)
(* The HTTP proxy (internal/proxy/handler.go): requests to /invoke and     *)
(* /render of one ModelEndpoint, each served by a goroutine of its own,    *)
(* the endpoint they read from the informer cache, and the token bucket    *)
(* they share.                                                             *)
(***************************************************************************)
EXTENDS Integers, Sequences, FiniteSets, Cost

CONSTANTS
    Requests,     \* each of them is served once
    Limits,       \* rateLimit.requestsPerMinute, 0 for no rateLimit
    Caps,         \* maxTokens of an endpoint or a template, 0 for none
    Asks,         \* the maxTokens a caller may send; the body is an int32
    Variables,    \* PromptTemplateSpec.Variables, in order
    Models,       \* spec.modelId
    Uses,         \* the token counts Bedrock may answer with
    TickSeconds,  \* how long a tick of the clock is
    MaxTicks,     \* bound on the clock
    MaxEdits      \* bound on changes of the endpoint

ASSUME ProxyAssumption ==
    /\ Limits \subseteq 0 .. 3600 /\ Limits # {}
    /\ Caps \subseteq Nat /\ Caps # {} /\ Asks \subseteq Int /\ Asks # {}
    /\ \A i \in DOMAIN Variables :
          Variables[i].required \in BOOLEAN /\ Variables[i].default \in BOOLEAN
    /\ Models # {} /\ Uses \subseteq [input: Nat, output: Nat]
    /\ TickSeconds \in Nat /\ MaxTicks \in Nat /\ MaxEdits \in Nat

VARIABLES
    ep,        \* the endpoint in the informer cache
    req,       \* what every request's goroutine does
    entry,     \* rateLimiters["namespace/name"]: the limiter's index, or 0
    limiters,  \* every limiter ever made
    counters,  \* RateLimitedTotal and InvocationTotal by status
    spend,     \* tokens and micro-dollars counted, by model
    now, edits,
    admitted   \* history: when a request went on to Bedrock, and its limiter

vars == <<ep, req, entry, limiters, counters, spend, now, edits, admitted>>

Endpoint == [there: BOOLEAN, available: BOOLEAN, rpm: Limits, cap: Caps,
             model: Models]

Answers == {"none", "200", "400", "404", "429", "502", "503", "panic"}

(* The "variables" of a body: no map at all, or the declared variables (by *)
(* position) it has values for.                                            *)
Nil == [map |-> FALSE, names |-> {}]
Supplies == {Nil} \cup [map: {TRUE}, names: SUBSET (DOMAIN Variables)]

Spent == [input: Nat, output: Nat, micros: Nat]

NoBill == [model |-> CHOOSE m \in Models : TRUE,
           use |-> [input |-> 0, output |-> 0]]

(* "ep" is the endpoint the goroutine has read, "asked" the maxTokens of   *)
(* the body or of the template, "sent" the one that Bedrock is sent;       *)
(* "bill" is history: the model that was called and the tokens it took.    *)
Request == [pc: {"new", "render", "fetch", "limit", "allow", "call", "done"},
            via: {"invoke", "render"}, asked: Asks \cup Caps, sent: Int,
            supplied: Supplies, ep: Endpoint, limiter: Nat, answer: Answers,
            bill: [model: Models, use: Uses \cup {NoBill.use}]]

TypeOK ==
    /\ ep \in Endpoint /\ req \in [Requests -> Request]
    /\ limiters \in Seq([rpm: Limits, level: Nat])
    /\ entry \in 0 .. Len(limiters)
    /\ counters \in [{"limited", "success", "error"} -> Nat]
    /\ spend \in [Models -> Spent]
    /\ now \in 0 .. MaxTicks /\ edits \in 0 .. MaxEdits
    /\ \A r \in Requests : req[r].limiter \in 0 .. Len(limiters)
    /\ \A i \in DOMAIN admitted :
          admitted[i] \in [at: 0 .. now, limiter: 0 .. Len(limiters)]

NoEndpoint == CHOOSE e \in Endpoint : ~e.there

(* What a goroutine that has answered leaves of its request. *)
Nothing == [pc |-> "done", via |-> "invoke", asked |-> CHOOSE a \in Asks : TRUE,
            sent |-> 0, supplied |-> Nil, ep |-> NoEndpoint, limiter |-> 0,
            answer |-> "none", bill |-> NoBill]

Init ==
    /\ ep \in {e \in Endpoint : e.there}
    /\ req = [r \in Requests |-> [Nothing EXCEPT !.pc = "new"]]
    /\ entry = 0 /\ limiters = << >>
    /\ counters = [limited |-> 0, success |-> 0, error |-> 0]
    /\ spend = [m \in Models |-> [input |-> 0, output |-> 0, micros |-> 0]]
    /\ now = 0 /\ edits = 0 /\ admitted = << >>

-----------------------------------------------------------------------------
(* Small steps of a goroutine. *)
GoTo(r, step) == req' = [req EXCEPT ![r].pc = step]

Answer(r, a) ==
    req' = [req EXCEPT ![r] = [Nothing EXCEPT !.via = req[r].via, !.answer = a]]

Count(c) == counters' = [counters EXCEPT ![c] = @ + 1]

(* A request arrives; a wrong method, path or body is answered at once.    *)
Arrive(r) ==
    /\ req[r].pc = "new"
    /\ \/ Answer(r, "400")
       \/ \E a \in Asks :
             req' = [req EXCEPT ![r].pc = "fetch", ![r].asked = a]
       \/ \E s \in Supplies :
             req' = [req EXCEPT ![r].pc = "render", ![r].via = "render",
                                ![r].supplied = s]
    /\ UNCHANGED <<ep, entry, limiters, counters, spend, now, edits, admitted>>

-----------------------------------------------------------------------------
(* HandleRender walks through the declared variables in order.  A required *)
(* one that is missing ends the request; so does a default, which cannot   *)
(* be put into the nil map of a body without "variables".                  *)
Missing(i, supplied) == i \notin supplied.names

Fatal(i, supplied) ==
    Missing(i, supplied) /\ (Variables[i].required
                               \/ (~supplied.map /\ Variables[i].default))

(* Where the walk ends early, and with which answer. *)
EndsAt(i, supplied) ==
    Fatal(i, supplied) /\ \A j \in 1 .. i - 1 : ~Fatal(j, supplied)

Render(r) ==
    /\ req[r].pc = "render"
    /\ \/ Answer(r, "404")  \* no such template
       \/ \E i \in DOMAIN Variables :
             /\ EndsAt(i, req[r].supplied)
             /\ Answer(r, IF Variables[i].required THEN "400" ELSE "panic")
       \/ /\ \A i \in DOMAIN Variables : ~Fatal(i, req[r].supplied)
          /\ \/ Answer(r, "400")  \* renderTemplate fails
             \/ \E a \in Caps :
                   req' = [req EXCEPT ![r].pc = "fetch", ![r].asked = a,
                                      ![r].supplied = Nil]
    /\ UNCHANGED <<ep, entry, limiters, counters, spend, now, edits, admitted>>

-----------------------------------------------------------------------------
(* The maxTokens cap of the handlers, and Invoke, which leaves out what is *)
(* not positive: 0 then means that Bedrock is sent none.                   *)
Capped(asked, cap) ==
    IF cap # 0 /\ (asked = 0 \/ asked > cap) THEN cap ELSE asked

Sent(asked, cap) ==
    IF Capped(asked, cap) > 0 THEN Capped(asked, cap) ELSE 0

(* The request goes on to Bedrock, past limiter n or past none (0). *)
Admit(n) == admitted' = Append(admitted, [at |-> now, limiter |-> n])

(* fetchEndpoint, and what the handlers do with what it finds.  Only       *)
(* HandleInvoke looks at the rate limit.                                   *)
Fetch(r) ==
    /\ req[r].pc = "fetch"
    /\ LET step == IF req[r].via = "invoke" /\ ep.rpm # 0 THEN "limit" ELSE "call"
       IN  \/ ~ep.there /\ Answer(r, "404") /\ UNCHANGED admitted
           \/ ep.there /\ ~ep.available /\ Answer(r, "503") /\ UNCHANGED admitted
           \/ /\ ep.there /\ ep.available
              /\ req' = [req EXCEPT ![r].pc = step, ![r].ep = ep,
                                    ![r].sent = Sent(req[r].asked, ep.cap)]
              /\ IF step = "call" THEN Admit(0) ELSE UNCHANGED admitted
    /\ UNCHANGED <<ep, entry, limiters, counters, spend, now, edits>>

-----------------------------------------------------------------------------
(* A token bucket: "level" is in sixtieths of a token, of which a second   *)
(* brings rpm.                                                             *)

(* Mutant of Burst: without the floor, a small limit has no burst at all. *)
BurstFloorless(rpm) == rpm \div 10

(* A tenth of the limit, but at least one. *)
Burst(rpm) == IF rpm \div 10 < 1 THEN 1 ELSE rpm \div 10

NewLimiter(rpm) == [rpm |-> rpm, level |-> 60 * Burst(rpm)]

(* Mutant of GetLimiter: another limit gets another bucket. *)
GetLimiterOf(r) ==
    /\ req[r].pc = "limit"
    /\ IF entry # 0 /\ limiters[entry].rpm = req[r].ep.rpm
       THEN UNCHANGED <<entry, limiters>>
       ELSE /\ limiters' = Append(limiters, NewLimiter(req[r].ep.rpm))
            /\ entry' = Len(limiters')
    /\ req' = [req EXCEPT ![r].pc = "allow", ![r].limiter = entry']
    /\ UNCHANGED <<ep, counters, spend, now, edits, admitted>>

(* getLimiter, under the mutex: the first request makes the limiter. *)
GetLimiter(r) ==
    /\ req[r].pc = "limit"
    /\ IF entry # 0
       THEN UNCHANGED <<entry, limiters>>
       ELSE /\ limiters' = Append(limiters, NewLimiter(req[r].ep.rpm))
            /\ entry' = Len(limiters')
    /\ req' = [req EXCEPT ![r].pc = "allow", ![r].limiter = entry']
    /\ UNCHANGED <<ep, counters, spend, now, edits, admitted>>

(* Mutant of Allow: rejected requests are not counted. *)
AllowQuietly(r) ==
    /\ req[r].pc = "allow"
    /\ LET n == req[r].limiter IN
       \/ /\ limiters[n].level >= 60
          /\ limiters' = [limiters EXCEPT ![n].level = @ - 60]
          /\ GoTo(r, "call") /\ Admit(n)
       \/ /\ limiters[n].level < 60
          /\ Answer(r, "429")
          /\ UNCHANGED <<limiters, admitted>>
    /\ UNCHANGED <<ep, entry, counters, spend, now, edits>>

(* Mutant of Allow: a request takes its token in advance. *)
AllowAhead(r) ==
    /\ req[r].pc = "allow"
    /\ LET n == req[r].limiter IN
          /\ limiters' = [limiters EXCEPT ![n].level = @ - 60]
          /\ GoTo(r, "call") /\ Admit(n)
    /\ UNCHANGED <<ep, entry, counters, spend, now, edits>>

(* limiter.Allow takes a token if there is one. *)
Allow(r) ==
    /\ req[r].pc = "allow"
    /\ LET n == req[r].limiter IN
       \/ /\ limiters[n].level >= 60
          /\ limiters' = [limiters EXCEPT ![n].level = @ - 60]
          /\ GoTo(r, "call") /\ Admit(n) /\ UNCHANGED counters
       \/ /\ limiters[n].level < 60
          /\ Answer(r, "429") /\ Count("limited")
          /\ UNCHANGED <<limiters, admitted>>
    /\ UNCHANGED <<ep, entry, spend, now, edits>>

Add(m, use, micros) ==
    spend' = [spend EXCEPT ![m] = [input  |-> @.input + use.input,
                                   output |-> @.output + use.output,
                                   micros |-> @.micros + micros]]

(* Mutant of Bill: the endpoint is read once more. *)
BillCurrent(r, use) ==
    \E c \in IF KnownModel(ep.model) THEN CalculateCost(ep.model, use) ELSE {0} :
        Add(ep.model, use, c)

(* Tokens and cost go to the model of the endpoint that was read; a model  *)
(* without a price adds nothing to the cost.                               *)
Bill(r, use) ==
    LET m == req[r].ep.model IN
    \E c \in IF KnownModel(m) THEN CalculateCost(m, use) ELSE {0} :
        Add(m, use, c)

(* Bedrock answers; HandleRender does not count an error. *)
Call(r) ==
    /\ req[r].pc = "call"
    /\ \/ /\ Count("success")
          /\ \E use \in Uses :
                /\ req' = [req EXCEPT ![r] =
                       [Nothing EXCEPT !.via = req[r].via, !.answer = "200",
                           !.bill = [model |-> req[r].ep.model, use |-> use]]]
                /\ Bill(r, use)
       \/ /\ Answer(r, "502") /\ UNCHANGED spend
          /\ IF req[r].via = "invoke" THEN Count("error") ELSE UNCHANGED counters
    /\ UNCHANGED <<ep, entry, limiters, now, edits, admitted>>

-----------------------------------------------------------------------------
(* The endpoint changes, goes or comes; time passes. *)
EndpointChanges ==
    /\ edits < MaxEdits /\ edits' = edits + 1
    /\ ep' \in {e \in Endpoint : e.there \/ e = NoEndpoint} \ {ep}
    /\ UNCHANGED <<req, entry, limiters, counters, spend, now, admitted>>

AtMost(a, b) == IF a < b THEN a ELSE b

Tick ==
    /\ now < MaxTicks /\ now' = now + 1
    /\ limiters' = [i \in DOMAIN limiters |->
          [limiters[i] EXCEPT !.level =
              AtMost(60 * Burst(limiters[i].rpm),
                     @ + TickSeconds * limiters[i].rpm)]]
    /\ UNCHANGED <<ep, req, entry, counters, spend, edits, admitted>>

Serve(r) == \/ Arrive(r) \/ Render(r) \/ Fetch(r) \/ GetLimiter(r)
            \/ Allow(r) \/ Call(r)

Next == (\E r \in Requests : Serve(r)) \/ EndpointChanges \/ Tick

Spec == Init /\ [][Next]_vars

-----------------------------------------------------------------------------
(***************************************************************************)
(* Safety.                                                                 *)
(***************************************************************************)
(* "calls" are indexes of admitted. *)
Within(calls, rpm) ==
    \A i, j \in calls : i <= j =>
        60 * Cardinality(calls \cap (i .. j))
            <= 60 * Burst(rpm)
                 + TickSeconds * rpm * (admitted[j].at - admitted[i].at)

Limited == {k \in DOMAIN admitted : admitted[k].limiter # 0}

(* However the endpoint is edited, deleted and made again, the requests of *)
(* HandleInvoke that pass the limiter stay, over every stretch of time,    *)
(* within the burst and the rate of the process's one bucket for it        *)
(* (handler.go:107-116, 289-308).                                          *)
WithinRate == limiters # << >> => Within(Limited, limiters[1].rpm)

(* It rejects no more than that takes: a request is answered 429 only when *)
(* one more call would have been too many since some earlier one.  So the  *)
(* first is never rejected, however small the limit, and neither is one    *)
(* that has waited long enough (handler.go:107-116, 299-304).              *)
OneTooMany(i, rpm) ==
    60 * (Cardinality(Limited \cap (i .. Len(admitted))) + 1)
        > 60 * Burst(rpm) + TickSeconds * rpm * (now - admitted[i].at)

RejectsOnlyExcess ==
    [][\A r \in Requests :
          req[r].pc = "allow" /\ req'[r].answer = "429" =>
              \E i \in Limited : OneTooMany(i, limiters[1].rpm)]_vars

(* Every request of HandleInvoke that got as far as the limiter ends up in *)
(* exactly one counter: rejected, successful or failed                     *)
(* (handler.go:107-149).                                                   *)
Ended(via, answers) ==
    Cardinality({r \in Requests : req[r].via = via /\ req[r].answer \in answers})

InvokesCounted ==
    /\ counters.limited = Ended("invoke", {"429"})
    /\ counters.error = Ended("invoke", {"502"})
    /\ counters.success = Ended("invoke", {"200"}) + Ended("render", {"200"})

(* What the calls to a model took: every token of every call is an element *)
(* of its own.                                                             *)
CallsTo(m) == {r \in Requests : req[r].answer = "200" /\ req[r].bill.model = m}

Tokens(m, kind) == UNION {{r} \X (1 .. req[r].bill.use[kind]) : r \in CallsTo(m)}

Took(m) == [input  |-> Cardinality(Tokens(m, "input")),
            output |-> Cardinality(Tokens(m, "output"))]

(* What has been counted for a model is what the calls to that very model  *)
(* took, even when the endpoint names another one by the time Bedrock      *)
(* answers: its tokens exactly, its price with at most half a micro-dollar *)
(* lost or won on every call (handler.go:150-159, 259-269, cost.go:100).   *)
SpendTracked ==
    \A m \in Models :
       LET off  == 1000 * spend[m].micros - Price(m, Took(m))
           most == 500 * Cardinality(CallsTo(m))
       IN  /\ spend[m].input = Took(m).input /\ spend[m].output = Took(m).output
           /\ IF KnownModel(m) THEN off \in -most .. most ELSE spend[m].micros = 0

-----------------------------------------------------------------------------
(***************************************************************************)
(* What the documentation says and the code does not do.                   *)
(***************************************************************************)

(* Render requests: "all rate limiting, cost tracking, and guardrails      *)
(* apply automatically" (api/v1alpha1/prompttemplate_types.go:102-103).    *)
RendersWithinRate == Within(DOMAIN admitted, CHOOSE l \in Limits : TRUE)

(* "per-endpoint token bucket (requests/minute from the spec)": a request  *)
(* is held to the rate of the spec it was served with                      *)
(* (docs/architecture.md:88).                                              *)
RateFromSpec ==
    \A r \in Requests :
        req[r].limiter # 0 => limiters[req[r].limiter].rpm = req[r].ep.rpm

(* "callers can request fewer tokens but not more than the endpoint's      *)
(* maxTokens" (docs/architecture.md:89).                                   *)
CapKept ==
    \A r \in Requests :
        req[r].pc = "call" /\ req[r].ep.cap # 0 => req[r].sent \in 1 .. req[r].ep.cap

(* "Default is used when the variable is not supplied at render time"      *)
(* (api/v1alpha1/prompttemplate_types.go:33-36).                           *)
DefaultsUsed == \A r \in Requests : req[r].answer # "panic"

(* "InvocationTotal counts Bedrock invocations by endpoint and outcome"    *)
(* (internal/metrics/metrics.go:12-13).                                    *)
CallsCounted ==
    counters.success + counters.error =
        Ended("invoke", {"200", "502"}) + Ended("render", {"200", "502"})
=============================================================================
