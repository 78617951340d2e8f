---------------------------- MODULE Proxy_proofs ----------------------------
(***************************************************************************)
(* What Proxy promises for every value of its constants: its type          *)
(* invariant, WithinRate, RejectsOnlyExcess, InvokesCounted, SpendTracked. *)
(***************************************************************************)
EXTENDS Proxy, SequenceTheorems, FiniteSetTheorems, FunctionTheorems, TLAPS

(* A request that has not ended has no answer; only HandleInvoke asks for  *)
(* a limiter, and it holds one when it asks for a token.                   *)
RequestOK(q) ==
    /\ q.pc # "done" => q.answer = "none"
    /\ q.pc \in {"limit", "allow"} => q.via = "invoke"
    /\ q.pc = "allow" => q.limiter # 0

(* However many requests there are, finitely many have been answered.      *)
Answered == {r \in Requests : req[r].answer # "none"}

ReqInv ==
    /\ req \in [Requests -> Request]
    /\ \A r \in Requests : RequestOK(req[r])
    /\ IsFiniteSet(Answered)
    /\ counters \in [{"limited", "success", "error"} -> Nat]
    /\ InvokesCounted

(* There is one bucket at most, and it never holds more than the burst.    *)
BucketOK ==
    /\ limiters \in Seq([rpm: Limits, level: Nat])
    /\ entry = Len(limiters) /\ Len(limiters) <= 1
    /\ \A n \in 1 .. Len(limiters) : limiters[n].level <= 60 * Burst(limiters[n].rpm)

AdmittedOK ==
    /\ now \in 0 .. MaxTicks
    /\ admitted \in Seq([at: 0 .. now, limiter: 0 .. Len(limiters)])

(* What has passed since a request passed, together with what the bucket   *)
(* still holds, is within burst and rate up to now: this is what makes     *)
(* WithinRate inductive.                                                   *)
Passed(i) == Limited \cap (i .. Len(admitted))

RateOK ==
    limiters # << >> =>
        \A i \in Limited :
            60 * Cardinality(Passed(i)) + limiters[1].level
                <= 60 * Burst(limiters[1].rpm)
                     + TickSeconds * limiters[1].rpm * (now - admitted[i].at)

RateInv == BucketOK /\ AdmittedOK /\ RateOK /\ WithinRate

IInv == TypeOK /\ ReqInv /\ RateInv

-----------------------------------------------------------------------------
(* Constants and initial values have their types. *)
LEMMA NothingType ==
  /\ NoEndpoint \in Endpoint /\ NoBill \in [model: Models, use: Uses \cup {NoBill.use}]
  /\ Nothing \in Request
  /\ Nothing.pc = "done" /\ Nothing.answer = "none" /\ Nothing.limiter = 0
<1>1. NoEndpoint \in Endpoint
  <2>0. Limits # {} /\ Caps # {} /\ Models # {}
    BY ProxyAssumption
  <2>1. PICK l \in Limits, c \in Caps, m \in Models : TRUE
    BY <2>0
  <2>. DEFINE e == [there |-> FALSE, available |-> FALSE, rpm |-> l, cap |-> c,
                    model |-> m]
  <2>2. e \in Endpoint /\ ~e.there
    BY <2>1 DEF Endpoint
  <2>. HIDE DEF e
  <2>. QED  BY <2>2 DEF NoEndpoint
<1>2. NoBill \in [model: Models, use: Uses \cup {NoBill.use}]
  BY ProxyAssumption DEF NoBill
<1>3. (CHOOSE a \in Asks : TRUE) \in Asks
  BY ProxyAssumption
<1>4. Nil \in Supplies
  BY DEF Supplies
<1>5. Nothing \in Request
  BY <1>1, <1>2, <1>3, <1>4 DEF Nothing, Request, Answers
<1>. QED
  BY <1>1, <1>2, <1>5 DEF Nothing

(* What a request is when it has been answered. *)
LEMMA AnswerType ==
  ASSUME NEW via \in {"invoke", "render"}, NEW a \in Answers
  PROVE  LET q == [Nothing EXCEPT !.via = via, !.answer = a]
         IN  q \in Request /\ q.via = via /\ q.answer = a /\ q.limiter = 0 /\ RequestOK(q)
<1>. DEFINE q == [Nothing EXCEPT !.via = via, !.answer = a]
<1>1. q \in Request
  BY NothingType DEF Request
<1>2. q.via = via /\ q.answer = a /\ q.limiter = 0 /\ q.pc = "done"
  BY NothingType DEF Request
<1>. HIDE DEF q
<1>3. RequestOK(q)
  BY <1>2 DEF RequestOK
<1>. QED  BY <1>1, <1>2, <1>3 DEF q

-----------------------------------------------------------------------------
(* Ended, with the set it counts given a name. *)
Those(via, answers) == {r \in Requests : req[r].via = via /\ req[r].answer \in answers}

LEMMA ThoseFinite ==
  ASSUME IsFiniteSet(Answered), NEW via, NEW answers, "none" \notin answers
  PROVE  /\ IsFiniteSet(Those(via, answers)) /\ Ended(via, answers) \in Nat
         /\ Ended(via, answers) = Cardinality(Those(via, answers))
<1>1. Those(via, answers) \subseteq Answered
  BY DEF Those, Answered
<1>2. IsFiniteSet(Those(via, answers))
  BY <1>1, FS_Subset
<1>3. Ended(via, answers) = Cardinality(Those(via, answers))
  BY DEF Ended, Those
<1>. QED  BY <1>2, <1>3, FS_CardinalityType

(* One goroutine moves: its request becomes q, the others stay. *)
Moves(r, q) ==
    /\ req' \in [Requests -> Request] /\ req'[r] = q
    /\ \A s \in Requests \ {r} : req'[s] = req[s]

LEMMA MovesBy ==
  ASSUME ReqInv, NEW r \in Requests, NEW q \in Request, req' = [req EXCEPT ![r] = q]
  PROVE  Moves(r, q)
BY DEF ReqInv, Moves

LEMMA AnsweredGrows ==
  ASSUME ReqInv, NEW r \in Requests, NEW q, Moves(r, q)
  PROVE  IsFiniteSet(Answered')
<1>1. Answered' \subseteq Answered \cup {r}
  BY DEF Answered, Moves
<1>2. IsFiniteSet(Answered \cup {r})
  BY FS_AddElement DEF ReqInv
<1>. QED  BY <1>1, <1>2, FS_Subset

(* Answering a request puts it into one count, and takes it from none. *)
LEMMA EndedGrows ==
  ASSUME ReqInv, NEW r \in Requests, NEW q, Moves(r, q), req[r].answer = "none",
         NEW via, NEW answers, "none" \notin answers
  PROVE  Ended(via, answers)' =
            IF q.via = via /\ q.answer \in answers THEN Ended(via, answers) + 1
                                                   ELSE Ended(via, answers)
<1>. DEFINE T == {s \in Requests : req'[s].via = via /\ req'[s].answer \in answers}
<1>1. IsFiniteSet(Those(via, answers)) /\ Ended(via, answers) = Cardinality(Those(via, answers))
  BY ThoseFinite DEF ReqInv
<1>2. Ended(via, answers)' = Cardinality(T)
  BY DEF Ended
<1>3. r \notin Those(via, answers)
  BY DEF Those
<1>4. CASE q.via = via /\ q.answer \in answers
  <2>1. T = Those(via, answers) \cup {r}
    BY <1>4 DEF Those, Moves
  <2>. QED  BY <1>1, <1>2, <1>3, <1>4, <2>1, FS_AddElement
<1>5. CASE ~(q.via = via /\ q.answer \in answers)
  <2>1. T = Those(via, answers)
    BY <1>3, <1>5 DEF Those, Moves
  <2>. QED  BY <1>1, <1>2, <1>5, <2>1
<1>. QED  BY <1>4, <1>5

(* The counters follow what becomes of the request. *)
One(b) == IF b THEN 1 ELSE 0

CountersFollow(q) ==
    /\ counters' \in [{"limited", "success", "error"} -> Nat]
    /\ counters'.limited = counters.limited + One(q.via = "invoke" /\ q.answer = "429")
    /\ counters'.error = counters.error + One(q.via = "invoke" /\ q.answer = "502")
    /\ counters'.success = counters.success + One(q.answer = "200")

LEMMA ReqKept ==
  ASSUME ReqInv, NEW r \in Requests, NEW q \in Request, req[r].pc # "done",
         Moves(r, q), RequestOK(q), CountersFollow(q)
  PROVE  ReqInv'
<1>1. req[r].answer = "none" /\ q.via \in {"invoke", "render"}
  BY DEF ReqInv, RequestOK, Request
<1>2. IsFiniteSet(Answered')
  BY AnsweredGrows
<1>3. \A s \in Requests : RequestOK(req'[s])
  BY DEF ReqInv, Moves
<1>4. counters.limited \in Nat /\ counters.error \in Nat /\ counters.success \in Nat
  BY DEF ReqInv
<1>5. /\ Ended("invoke", {"429"}) \in Nat /\ Ended("invoke", {"502"}) \in Nat
      /\ Ended("invoke", {"200"}) \in Nat /\ Ended("render", {"200"}) \in Nat
  <2>1. /\ "none" \notin {"429"} /\ "none" \notin {"502"} /\ "none" \notin {"200"}
        /\ IsFiniteSet(Answered)
    BY DEF ReqInv
  <2>. QED  BY ONLY <2>1, ThoseFinite
<1>6. counters'.limited = Ended("invoke", {"429"})'
  <2>1. Ended("invoke", {"429"})' = Ended("invoke", {"429"}) + One(q.via = "invoke" /\ q.answer = "429")
    BY <1>1, <1>5, EndedGrows DEF One
  <2>. QED  BY <2>1 DEF CountersFollow, ReqInv, InvokesCounted
<1>7. counters'.error = Ended("invoke", {"502"})'
  <2>1. Ended("invoke", {"502"})' = Ended("invoke", {"502"}) + One(q.via = "invoke" /\ q.answer = "502")
    BY <1>1, <1>5, EndedGrows DEF One
  <2>. QED  BY <2>1 DEF CountersFollow, ReqInv, InvokesCounted
<1>8. counters'.success = Ended("invoke", {"200"})' + Ended("render", {"200"})'
  <2>1. Ended("invoke", {"200"})' = Ended("invoke", {"200"}) + One(q.via = "invoke" /\ q.answer = "200")
    BY <1>1, <1>5, EndedGrows DEF One
  <2>2. Ended("render", {"200"})' = Ended("render", {"200"}) + One(q.via = "render" /\ q.answer = "200")
    BY <1>1, <1>5, EndedGrows DEF One
  <2>3. One(q.answer = "200") = One(q.via = "invoke" /\ q.answer = "200")
                                  + One(q.via = "render" /\ q.answer = "200")
    BY <1>1 DEF One
  <2>4. counters'.success = counters.success + One(q.answer = "200")
    BY DEF CountersFollow
  <2>5. counters.success = Ended("invoke", {"200"}) + Ended("render", {"200"})
    BY DEF ReqInv, InvokesCounted
  <2>6. /\ One(q.via = "invoke" /\ q.answer = "200") \in Nat
        /\ One(q.via = "render" /\ q.answer = "200") \in Nat
    BY DEF One
  <2>. QED  BY <1>5, <2>1, <2>2, <2>3, <2>4, <2>5, <2>6
<1>. QED
  BY <1>2, <1>3, <1>6, <1>7, <1>8 DEF ReqInv, InvokesCounted, CountersFollow, Moves

LEMMA Uncounted ==
  ASSUME ReqInv, counters' = counters, NEW q,
         q.answer \notin {"200", "429", "502"} \/ (q.via # "invoke" /\ q.answer = "502")
  PROVE  CountersFollow(q)
BY DEF CountersFollow, One, ReqInv

LEMMA ReqUnchanged == ASSUME ReqInv, UNCHANGED <<req, counters>> PROVE ReqInv'
<1>1. Answered' = Answered
  BY DEF Answered
<1>2. \A via, answers : Ended(via, answers)' = Ended(via, answers)
  BY DEF Ended
<1>. QED  BY <1>1, <1>2 DEF ReqInv, InvokesCounted


-----------------------------------------------------------------------------
(* Functions on an initial part of the naturals are sequences, and the     *)
(* elements of a sequence give it its type.                                *)
LEMMA FunctionIsSeq ==
  ASSUME NEW n \in Nat, NEW T, NEW f \in [1 .. n -> T]
  PROVE  f \in Seq(T) /\ Len(f) = n
<1>1. f \in Seq(T)
  BY SeqDef
<1>2. Len(f) \in Nat /\ DOMAIN f = 1 .. Len(f)
  BY <1>1, LenProperties
<1>3. \A k \in Nat : 1 .. k = 1 .. n => k = n
  <2>. SUFFICES ASSUME NEW k \in Nat, 1 .. k = 1 .. n PROVE k = n
    OBVIOUS
  <2>1. \A i \in Int : i \in 1 .. k <=> i \in 1 .. n
    OBVIOUS
  <2>. QED  BY <2>1
<1>. QED  BY <1>1, <1>2, <1>3

LEMMA Retyped ==
  ASSUME NEW S, NEW T, NEW s \in Seq(S), \A k \in 1 .. Len(s) : s[k] \in T
  PROVE  s \in Seq(T)
<1>1. Len(s) \in Nat /\ s \in [1 .. Len(s) -> S]
  BY LenProperties
<1>2. s \in [1 .. Len(s) -> T]
  BY <1>1
<1>. QED  BY <1>1, <1>2, FunctionIsSeq

-----------------------------------------------------------------------------
(* The numbers of a bucket. *)
LEMMA BurstType ==
  ASSUME NEW rpm \in Limits
  PROVE  /\ rpm \in Nat /\ Burst(rpm) \in Nat /\ Burst(rpm) >= 1
         /\ TickSeconds * rpm \in Nat
<1>1. rpm \in 0 .. 3600 /\ TickSeconds \in Nat
  BY ProxyAssumption
<1>. QED  BY <1>1 DEF Burst

LEMMA BucketBasics ==
  ASSUME RateInv
  PROVE  /\ Len(limiters) \in {0, 1} /\ entry = Len(limiters)
         /\ DOMAIN limiters = 1 .. Len(limiters)
         /\ limiters # << >> <=> Len(limiters) = 1
         /\ limiters # << >> => /\ limiters[1] \in [rpm: Limits, level: Nat]
                                /\ limiters[1].rpm \in Limits /\ limiters[1].level \in Nat
                                /\ limiters[1].level <= 60 * Burst(limiters[1].rpm)
<1>1. limiters \in Seq([rpm: Limits, level: Nat]) /\ Len(limiters) <= 1
  BY DEF RateInv, BucketOK
<1>2. Len(limiters) \in {0, 1} /\ DOMAIN limiters = 1 .. Len(limiters)
  <2>1. Len(limiters) \in Nat /\ DOMAIN limiters = 1 .. Len(limiters)
    BY <1>1, LenProperties
  <2>. QED  BY <1>1, <2>1
<1>3. limiters # << >> <=> Len(limiters) = 1
  BY <1>1, <1>2, EmptySeq
<1>4. Len(limiters) = 1 => limiters[1] \in [rpm: Limits, level: Nat]
  <2>. SUFFICES ASSUME Len(limiters) = 1
                PROVE  limiters[1] \in [rpm: Limits, level: Nat]
    OBVIOUS
  <2>1. 1 \in 1 .. Len(limiters)
    OBVIOUS
  <2>. QED  BY ONLY <1>1, <2>1, ElementOfSeq
<1>. QED  BY <1>2, <1>3, <1>4 DEF RateInv, BucketOK

LEMMA AdmittedBasics ==
  ASSUME RateInv
  PROVE  /\ Len(admitted) \in Nat /\ DOMAIN admitted = 1 .. Len(admitted)
         /\ now \in Nat /\ now \in 0 .. MaxTicks
         /\ \A k \in 1 .. Len(admitted) :
               /\ admitted[k] \in [at: 0 .. now, limiter: 0 .. Len(limiters)]
               /\ admitted[k].at \in 0 .. now
               /\ admitted[k].limiter \in 0 .. Len(limiters)
<1>1. /\ admitted \in Seq([at: 0 .. now, limiter: 0 .. Len(limiters)])
      /\ now \in 0 .. MaxTicks
  BY DEF RateInv, AdmittedOK
<1>2. \A k \in 1 .. Len(admitted) :
         admitted[k] \in [at: 0 .. now, limiter: 0 .. Len(limiters)]
  BY <1>1, ElementOfSeq
<1>. QED  BY <1>1, <1>2, LenProperties

(* The indexes of the requests that passed the limiter. *)
LEMMA LimitedBasics ==
  ASSUME RateInv
  PROVE  /\ Limited \subseteq 1 .. Len(admitted)
         /\ limiters = << >> => Limited = {}
         /\ \A i \in Limited : \A j \in Nat :
               /\ IsFiniteSet(Limited \cap (i .. j))
               /\ Cardinality(Limited \cap (i .. j)) \in Nat
<1>1. Limited \subseteq 1 .. Len(admitted)
  BY AdmittedBasics DEF Limited
<1>2. limiters = << >> => Limited = {}
  BY BucketBasics, AdmittedBasics DEF Limited
<1>3. ASSUME NEW i \in Limited, NEW j \in Nat
      PROVE  /\ IsFiniteSet(Limited \cap (i .. j))
             /\ Cardinality(Limited \cap (i .. j)) \in Nat
  <2>1. i \in Int /\ j \in Int
    BY <1>1, AdmittedBasics
  <2>2. IsFiniteSet(i .. j)
    BY <2>1, FS_Interval
  <2>3. IsFiniteSet(Limited \cap (i .. j))
    BY <2>2, FS_Subset
  <2>. QED  BY <2>3, FS_CardinalityType
<1>. QED  BY <1>1, <1>2, <1>3

LEMMA RateUnchanged ==
  ASSUME RateInv, UNCHANGED <<limiters, entry, admitted, now>>
  PROVE  RateInv'
<1>1. Limited' = Limited
  BY DEF Limited
<1>2. BucketOK' /\ AdmittedOK'
  BY DEF RateInv, BucketOK, AdmittedOK
<1>3. WithinRate' /\ RateOK'
  BY <1>1 DEF RateInv, RateOK, WithinRate, Within, Passed
<1>. QED  BY <1>2, <1>3 DEF RateInv

(* The history grows by one. *)
LEMMA AdmittedGrows ==
  ASSUME RateInv, NEW l \in 0 .. Len(limiters), Admit(l), now' = now,
         Len(limiters') = Len(limiters)
  PROVE  /\ AdmittedOK' /\ Len(admitted') = Len(admitted) + 1
         /\ \A k \in 1 .. Len(admitted) : admitted'[k] = admitted[k]
         /\ admitted'[Len(admitted) + 1] = [at |-> now, limiter |-> l]
         /\ Limited' = IF l = 0 THEN Limited ELSE Limited \cup {Len(admitted) + 1}
         /\ \A i \in Limited : admitted'[i].at = admitted[i].at
<1>1. /\ [at |-> now, limiter |-> l] \in [at: 0 .. now, limiter: 0 .. Len(limiters)]
      /\ admitted \in Seq([at: 0 .. now, limiter: 0 .. Len(limiters)])
  BY AdmittedBasics DEF RateInv, AdmittedOK
<1>2. /\ admitted' \in Seq([at: 0 .. now, limiter: 0 .. Len(limiters)])
      /\ Len(admitted') = Len(admitted) + 1
      /\ \A k \in 1 .. Len(admitted) : admitted'[k] = admitted[k]
      /\ admitted'[Len(admitted) + 1] = [at |-> now, limiter |-> l]
  BY <1>1, AppendProperties DEF Admit
<1>3. AdmittedOK'
  BY <1>2, AdmittedBasics DEF AdmittedOK
<1>4. DOMAIN admitted' = 1 .. Len(admitted) + 1
  BY <1>2, LenProperties
<1>5. Limited' = IF l = 0 THEN Limited ELSE Limited \cup {Len(admitted) + 1}
  <2>1. \A k : k \in Limited' <=> /\ k \in 1 .. Len(admitted) + 1
                                  /\ admitted'[k].limiter # 0
    BY <1>4 DEF Limited
  <2>2. \A k : k \in Limited <=> k \in 1 .. Len(admitted) /\ admitted[k].limiter # 0
    BY AdmittedBasics DEF Limited
  <2>3. admitted'[Len(admitted) + 1].limiter = l
    BY <1>2
  <2>4. Len(admitted) \in Nat
    BY AdmittedBasics
  <2>5. ASSUME NEW k
        PROVE  k \in Limited' <=> k \in Limited \/ (l # 0 /\ k = Len(admitted) + 1)
    <3>1. CASE k \in 1 .. Len(admitted)
      <4>1. admitted'[k] = admitted[k] /\ k \in 1 .. Len(admitted) + 1 /\ k # Len(admitted) + 1
        BY <1>2, <2>4, <3>1
      <4>. QED  BY <2>1, <2>2, <3>1, <4>1
    <3>2. CASE k = Len(admitted) + 1
      <4>1. k \in 1 .. Len(admitted) + 1 /\ k \notin 1 .. Len(admitted)
        BY <2>4, <3>2
      <4>. QED  BY <2>1, <2>2, <2>3, <3>2, <4>1
    <3>3. k \in 1 .. Len(admitted) + 1 => k \in 1 .. Len(admitted) \/ k = Len(admitted) + 1
      BY <2>4
    <3>. QED  BY <2>1, <2>2, <3>1, <3>2, <3>3
  <2>. QED  BY <2>5
<1>. QED  BY <1>2, <1>3, <1>5, LimitedBasics

(* A render, or an endpoint without a limit, goes past the bucket. *)
LEMMA AdmitFree ==
  ASSUME RateInv, Admit(0), UNCHANGED <<limiters, entry, now>>
  PROVE  RateInv'
<1>1. 0 \in 0 .. Len(limiters)
  BY BucketBasics
<1>2. /\ AdmittedOK' /\ Len(admitted') = Len(admitted) + 1 /\ Limited' = Limited
      /\ \A i \in Limited : admitted'[i].at = admitted[i].at
  BY <1>1, AdmittedGrows
<1>3. BucketOK'
  BY DEF RateInv, BucketOK
<1>4. WithinRate'
  BY <1>2 DEF RateInv, WithinRate, Within
<1>5. \A i \in Limited : Limited \cap (i .. Len(admitted) + 1) = Passed(i)
  BY LimitedBasics, AdmittedBasics DEF Passed
<1>6. RateOK'
  <2>. SUFFICES ASSUME limiters # << >>, NEW i \in Limited
                PROVE  60 * Cardinality(Limited \cap (i .. Len(admitted) + 1))
                           + limiters[1].level
                         <= 60 * Burst(limiters[1].rpm)
                              + TickSeconds * limiters[1].rpm * (now - admitted[i].at)
    BY <1>2 DEF RateOK, Passed
  <2>. QED  BY <1>5 DEF RateInv, RateOK
<1>. QED  BY <1>2, <1>3, <1>4, <1>6 DEF RateInv

(* A token is taken for the request that passes. *)
LEMMA AdmitPaid ==
  ASSUME RateInv, limiters # << >>, limiters[1].level >= 60, Admit(1),
         limiters' = [limiters EXCEPT ![1].level = @ - 60], UNCHANGED <<entry, now>>
  PROVE  RateInv'
<1>. DEFINE n     == Len(admitted) + 1
            rpm   == limiters[1].rpm
            level == limiters[1].level
            since(i) == TickSeconds * rpm * (now - admitted[i].at)
<1>1. /\ Len(limiters) = 1 /\ limiters[1] \in [rpm: Limits, level: Nat]
      /\ rpm \in Limits /\ level \in Nat /\ level >= 60 /\ level <= 60 * Burst(rpm)
      /\ DOMAIN limiters = 1 .. 1 /\ entry = 1
  BY BucketBasics
<1>2. /\ Len(limiters') = 1 /\ limiters'[1].rpm = rpm /\ limiters'[1].level = level - 60
      /\ limiters' \in Seq([rpm: Limits, level: Nat]) /\ limiters' # << >>
  <2>. DEFINE e == [limiters[1] EXCEPT !.level = level - 60]
  <2>1. limiters' = [limiters EXCEPT ![1] = e]
    BY <1>1
  <2>2. e \in [rpm: Limits, level: Nat] /\ e.rpm = rpm /\ e.level = level - 60
    BY <1>1
  <2>3. limiters \in Seq([rpm: Limits, level: Nat]) /\ 1 \in 1 .. Len(limiters)
    BY <1>1 DEF RateInv, BucketOK
  <2>. HIDE DEF e
  <2>4. /\ limiters' \in Seq([rpm: Limits, level: Nat]) /\ Len(limiters') = 1
        /\ limiters'[1] = e
    BY <1>1, <2>1, <2>2, <2>3, ExceptSeq
  <2>. QED  BY <2>2, <2>4, EmptySeq
<1>3. /\ Burst(rpm) \in Nat /\ Burst(rpm) >= 1 /\ TickSeconds * rpm \in Nat
  BY <1>1, BurstType
<1>4. BucketOK'
  <2>1. limiters'[1].level <= 60 * Burst(rpm) /\ entry' = 1
    BY <1>1, <1>2, <1>3
  <2>3. Len(limiters') = 1
    BY <1>2
  <2>2. \A k \in 1 .. Len(limiters') : k = 1
    BY ONLY <2>3
  <2>. HIDE DEF rpm, level, n
  <2>. QED  BY <1>2, <2>1, <2>2 DEF BucketOK
<1>5. /\ AdmittedOK' /\ Len(admitted') = n /\ n \in Nat
      /\ admitted'[n].at = now
      /\ Limited' = Limited \cup {n}
      /\ \A i \in Limited : admitted'[i].at = admitted[i].at
  BY <1>1, <1>2, AdmittedGrows, AdmittedBasics
<1>6. /\ now \in Nat /\ n \in Nat
      /\ \A i \in Limited : i \in Nat /\ i < n /\ admitted[i].at \in 0 .. now
  BY LimitedBasics, AdmittedBasics
<1>7. ASSUME NEW i \in Limited
      PROVE  /\ (Limited \cup {n}) \cap (i .. n) = Passed(i) \cup {n}
             /\ Cardinality(Passed(i)) \in Nat
             /\ Cardinality((Limited \cup {n}) \cap (i .. n)) = Cardinality(Passed(i)) + 1
             /\ since(i) \in Nat
             /\ 60 * Cardinality(Passed(i)) + level <= 60 * Burst(rpm) + since(i)
  <2>1. (Limited \cup {n}) \cap (i .. n) = Passed(i) \cup {n} /\ n \notin Passed(i)
    BY <1>6, AdmittedBasics DEF Passed
  <2>2. IsFiniteSet(Passed(i)) /\ Cardinality(Passed(i)) \in Nat
    BY LimitedBasics, AdmittedBasics DEF Passed
  <2>3. Cardinality(Passed(i) \cup {n}) = Cardinality(Passed(i)) + 1
    BY <2>1, <2>2, FS_AddElement
  <2>4. since(i) \in Nat
    <3>1. now - admitted[i].at \in Nat
      BY <1>6
    <3>. QED  BY <1>3, <3>1
  <2>5. 60 * Cardinality(Passed(i)) + level <= 60 * Burst(rpm) + since(i)
    BY <1>1 DEF RateInv, RateOK
  <2>. QED  BY <2>1, <2>2, <2>3, <2>4, <2>5
<1>8. /\ (Limited \cup {n}) \cap (n .. n) = {n}
      /\ Cardinality((Limited \cup {n}) \cap (n .. n)) = 1
      /\ TickSeconds * rpm * (now - now) = 0
  <2>1. (Limited \cup {n}) \cap (n .. n) = {n}
    BY <1>6
  <2>2. TickSeconds * rpm * (now - now) = 0
    BY <1>3, <1>6
  <2>. QED  BY <2>1, <2>2, FS_Singleton
<1>9. RateOK'
  <2>. SUFFICES ASSUME NEW i \in Limited \cup {n}
                PROVE  60 * Cardinality((Limited \cup {n}) \cap (i .. n)) + (level - 60)
                         <= 60 * Burst(rpm) + TickSeconds * rpm * (now - admitted'[i].at)
    BY <1>2, <1>5 DEF RateOK, Passed
  <2>1. CASE i \in Limited
    <3>. DEFINE c == Cardinality(Passed(i))
    <3>1. TickSeconds * rpm * (now - admitted'[i].at) = since(i)
      BY <1>5, <2>1
    <3>2. /\ Cardinality((Limited \cup {n}) \cap (i .. n)) = c + 1 /\ c \in Nat
          /\ since(i) \in Nat /\ 60 * c + level <= 60 * Burst(rpm) + since(i)
      BY <1>7, <2>1
    <3>. HIDE DEF since, n, rpm, level, c
    <3>3. 60 * (c + 1) + (level - 60) = 60 * c + level
      BY <1>1, <3>2
    <3>. QED  BY <3>1, <3>2, <3>3
  <2>2. CASE i = n
    <3>1. TickSeconds * rpm * (now - admitted'[i].at) = 0
      BY <1>5, <1>8, <2>2
    <3>. HIDE DEF since, n, rpm, level
    <3>. QED  BY <1>1, <1>3, <1>8, <2>2, <3>1
  <2>. QED  BY <2>1, <2>2
<1>10. WithinRate'
  <2>. SUFFICES ASSUME NEW i \in Limited \cup {n}, NEW j \in Limited \cup {n}, i <= j
                PROVE  60 * Cardinality((Limited \cup {n}) \cap (i .. j))
                         <= 60 * Burst(rpm)
                              + TickSeconds * rpm * (admitted'[j].at - admitted'[i].at)
    BY <1>2, <1>5 DEF WithinRate, Within
  <2>1. CASE i \in Limited /\ j \in Limited
    <3>1. (Limited \cup {n}) \cap (i .. j) = Limited \cap (i .. j)
      BY <1>6, <2>1
    <3>2. 60 * Cardinality(Limited \cap (i .. j))
            <= 60 * Burst(rpm) + TickSeconds * rpm * (admitted[j].at - admitted[i].at)
      BY <1>1, <2>1 DEF RateInv, WithinRate, Within
    <3>. QED  BY <1>5, <2>1, <3>1, <3>2
  <2>2. CASE i \in Limited /\ j = n
    <3>. DEFINE c == Cardinality(Passed(i))
    <3>1. TickSeconds * rpm * (admitted'[j].at - admitted'[i].at) = since(i)
      BY <1>5, <2>2
    <3>2. /\ Cardinality((Limited \cup {n}) \cap (i .. n)) = c + 1 /\ c \in Nat
          /\ since(i) \in Nat /\ 60 * c + level <= 60 * Burst(rpm) + since(i)
      BY <1>7, <2>2
    <3>. HIDE DEF since, n, rpm, level, c
    <3>3. 60 * (c + 1) <= 60 * Burst(rpm) + since(i)
      BY <1>1, <1>3, <3>2
    <3>. QED  BY <2>2, <3>1, <3>2, <3>3
  <2>3. CASE i = n /\ j = n
    <3>1. TickSeconds * rpm * (admitted'[j].at - admitted'[i].at) = 0
      BY <1>5, <1>8, <2>3
    <3>. HIDE DEF since, n, rpm, level
    <3>. QED  BY <1>3, <1>8, <2>3, <3>1
  <2>4. ~(i = n /\ j \in Limited)
    BY <1>6
  <2>. QED  BY <2>1, <2>2, <2>3, <2>4
<1>. QED  BY <1>4, <1>5, <1>9, <1>10 DEF RateInv

(* The first request that comes to the limiter finds none and makes it. *)
LEMMA NewBucket ==
  ASSUME RateInv, entry = 0, NEW rpm \in Limits,
         limiters' = Append(limiters, NewLimiter(rpm)), entry' = Len(limiters'),
         UNCHANGED <<admitted, now>>
  PROVE  RateInv' /\ Len(limiters') = 1
<1>1. limiters = << >> /\ Len(limiters) = 0 /\ Limited = {}
  BY BucketBasics, LimitedBasics
<1>2. Burst(rpm) \in Nat
  BY BurstType
<1>3. NewLimiter(rpm) \in [rpm: Limits, level: Nat]
  BY <1>2 DEF NewLimiter
<1>4. /\ limiters' \in Seq([rpm: Limits, level: Nat]) /\ Len(limiters') = 1
      /\ limiters'[1] = NewLimiter(rpm)
  BY <1>1, <1>3, AppendProperties DEF RateInv, BucketOK
<1>5. BucketOK'
  BY <1>2, <1>4 DEF BucketOK, NewLimiter
<1>6. AdmittedOK'
  <2>1. \A k \in 1 .. Len(admitted) :
           admitted[k] \in [at: 0 .. now, limiter: 0 .. Len(limiters')]
    BY <1>1, <1>4, AdmittedBasics
  <2>0. admitted \in Seq([at: 0 .. now, limiter: 0 .. Len(limiters)])
    BY DEF RateInv, AdmittedOK
  <2>2. admitted \in Seq([at: 0 .. now, limiter: 0 .. Len(limiters')])
    BY ONLY <2>0, <2>1, Retyped
  <2>. QED  BY <2>2, AdmittedBasics DEF AdmittedOK
<1>7. Limited' = {}
  BY <1>1 DEF Limited
<1>. QED
  BY <1>4, <1>5, <1>6, <1>7 DEF RateInv, RateOK, WithinRate, Within

(* A tick brings what the rate says, up to the burst. *)
LEMMA TickRate == ASSUME RateInv, Tick PROVE RateInv'
<1>. DEFINE filled(l) == [l EXCEPT !.level =
                 AtMost(60 * Burst(l.rpm), @ + TickSeconds * l.rpm)]
<1>1. /\ now < MaxTicks /\ now' = now + 1 /\ entry' = entry /\ admitted' = admitted
      /\ limiters' = [i \in DOMAIN limiters |-> filled(limiters[i])]
  BY DEF Tick
<1>2. Limited' = Limited
  BY <1>1 DEF Limited
<1>3. now' \in 0 .. MaxTicks /\ now' \in Nat /\ now \in Nat
  BY <1>1, AdmittedBasics, ProxyAssumption
<1>4. CASE limiters = << >>
  <2>1. limiters' = << >>
    BY <1>1, <1>4
  <2>2. BucketOK'
    BY <1>1, <1>4, <2>1 DEF RateInv, BucketOK
  <2>3. AdmittedOK'
    <3>1. \A k \in 1 .. Len(admitted) :
             admitted[k] \in [at: 0 .. now', limiter: 0 .. Len(limiters')]
      BY <1>1, <1>3, <1>4, <2>1, AdmittedBasics
    <3>2. admitted \in Seq([at: 0 .. now', limiter: 0 .. Len(limiters')])
      BY <3>1, Retyped DEF RateInv, AdmittedOK
    <3>. QED  BY <1>1, <1>3, <3>2 DEF AdmittedOK
  <2>. QED  BY <2>1, <2>2, <2>3 DEF RateInv, RateOK, WithinRate
<1>5. CASE limiters # << >>
  <2>. DEFINE rpm   == limiters[1].rpm
              level == limiters[1].level
              x     == TickSeconds * rpm
  <2>1. /\ Len(limiters) = 1 /\ limiters[1] \in [rpm: Limits, level: Nat]
        /\ rpm \in Limits /\ level \in Nat /\ level <= 60 * Burst(rpm)
        /\ DOMAIN limiters = 1 .. 1 /\ entry = 1
    BY <1>5, BucketBasics
  <2>2. Burst(rpm) \in Nat /\ x \in Nat
    BY <2>1, BurstType
  <2>3. limiters' = [k \in 1 .. 1 |-> filled(limiters[1])]
    BY <1>1, <2>1
  <2>4. /\ AtMost(60 * Burst(rpm), level + x) \in Nat
        /\ AtMost(60 * Burst(rpm), level + x) <= 60 * Burst(rpm)
        /\ AtMost(60 * Burst(rpm), level + x) <= level + x
    BY <2>1, <2>2 DEF AtMost
  <2>5. /\ filled(limiters[1]) \in [rpm: Limits, level: Nat]
        /\ filled(limiters[1]).rpm = rpm
        /\ filled(limiters[1]).level = AtMost(60 * Burst(rpm), level + x)
    BY <2>1, <2>4
  <2>6. /\ limiters' \in Seq([rpm: Limits, level: Nat]) /\ Len(limiters') = 1
        /\ limiters'[1].rpm = rpm /\ limiters'[1].level \in Nat
        /\ limiters'[1].level <= 60 * Burst(rpm) /\ limiters'[1].level <= level + x
    <3>. HIDE DEF filled
    <3>1. limiters' \in Seq([rpm: Limits, level: Nat]) /\ Len(limiters') = 1
      BY <2>3, <2>5, FunctionIsSeq
    <3>2. limiters'[1] = filled(limiters[1])
      BY <2>3
    <3>. QED  BY <2>4, <2>5, <3>1, <3>2
  <2>7. BucketOK'
    BY <1>1, <2>1, <2>6 DEF BucketOK
  <2>8. AdmittedOK'
    <3>1. \A k \in 1 .. Len(admitted) :
             admitted[k] \in [at: 0 .. now', limiter: 0 .. Len(limiters')]
      BY <1>1, <1>3, <2>1, <2>6, AdmittedBasics
    <3>2. admitted \in Seq([at: 0 .. now', limiter: 0 .. Len(limiters')])
      BY <3>1, Retyped DEF RateInv, AdmittedOK
    <3>. QED  BY <1>1, <1>3, <3>2 DEF AdmittedOK
  <2>9. WithinRate'
    BY <1>1, <1>2, <1>5, <2>6 DEF RateInv, WithinRate, Within
  <2>10. RateOK'
    <3>. SUFFICES ASSUME NEW i \in Limited
                  PROVE  60 * Cardinality(Passed(i)) + limiters'[1].level
                           <= 60 * Burst(limiters'[1].rpm)
                                + TickSeconds * limiters'[1].rpm * (now' - admitted'[i].at)
      <4>1. \A i : Passed(i)' = Passed(i)
        BY <1>1, <1>2 DEF Passed
      <4>. QED  BY <1>2, <4>1, Zenon DEF RateOK
    <3>1. 60 * Cardinality(Passed(i)) + level
            <= 60 * Burst(rpm) + x * (now - admitted[i].at)
      BY <1>5 DEF RateInv, RateOK
    <3>2. admitted[i].at \in 0 .. now /\ Cardinality(Passed(i)) \in Nat
      BY LimitedBasics, AdmittedBasics DEF Passed
    <3>3. /\ x * ((now + 1) - admitted[i].at) = x * (now - admitted[i].at) + x
          /\ x * (now - admitted[i].at) \in Int
      <4>1. admitted[i].at \in Int /\ now \in Int /\ x \in Int
        BY <1>3, <2>2, <3>2
      <4>. HIDE DEF x
      <4>. QED  BY <4>1
    <3>. DEFINE c == Cardinality(Passed(i))
                y == x * (now - admitted[i].at)
                b == 60 * Burst(rpm)
                new == limiters'[1].level
    <3>4. /\ c \in Nat /\ y \in Int /\ b \in Nat /\ new \in Nat /\ x \in Nat /\ level \in Nat
          /\ 60 * c + level <= b + y /\ new <= level + x
          /\ x * ((now + 1) - admitted[i].at) = y + x
      BY <2>1, <2>2, <2>6, <3>1, <3>2, <3>3
    <3>5. 60 * c + new <= b + (y + x)
      <4>. HIDE DEF c, y, b, new, x, level
      <4>. QED  BY <3>4
    <3>6. TickSeconds * limiters'[1].rpm * (now' - admitted'[i].at) = y + x
      <4>1. limiters'[1].rpm = rpm
        BY <2>6
      <4>2. now' - admitted'[i].at = (now + 1) - admitted[i].at
        <5>1. now' = now + 1 /\ admitted' = admitted
          BY <1>1
        <5>. QED  BY ONLY <5>1, Zenon
      <4>3. x * ((now + 1) - admitted[i].at) = y + x
        BY <3>4
      <4>. QED  BY ONLY <4>1, <4>2, <4>3, Zenon
    <3>. QED  BY <2>6, <3>5, <3>6
  <2>. QED  BY <2>7, <2>8, <2>9, <2>10 DEF RateInv
<1>. QED  BY <1>4, <1>5


-----------------------------------------------------------------------------
(* A step of goroutine r: its request becomes q, the counters follow, and  *)
(* the bucket does as it must.                                             *)
LEMMA ServeStep ==
  ASSUME IInv, NEW r \in Requests, NEW q \in Request, req[r].pc # "done",
         req' = [req EXCEPT ![r] = q], RequestOK(q), CountersFollow(q), RateInv',
         q.limiter \in 0 .. Len(limiters'), Len(limiters') >= Len(limiters),
         ep' = ep, edits' = edits, spend' \in [Models -> Spent]
  PROVE  IInv'
<1>1. Moves(r, q)
  BY MovesBy DEF IInv
<1>2. ReqInv'
  BY <1>1, ReqKept DEF IInv
<1>3. Len(limiters) \in Nat /\ Len(limiters') \in Nat /\ entry' = Len(limiters')
  BY BucketBasics, LenProperties DEF IInv, RateInv, BucketOK
<1>4. \A s \in Requests : req'[s].limiter \in 0 .. Len(limiters')
  <2>1. ASSUME NEW s \in Requests \ {r} PROVE req'[s].limiter \in 0 .. Len(limiters')
    <3>1. req'[s] = req[s] /\ req[s].limiter \in 0 .. Len(limiters)
      BY <1>1 DEF Moves, IInv, TypeOK
    <3>. QED  BY <1>3, <3>1
  <2>. QED  BY <1>1, <2>1 DEF Moves
<1>5. \A i \in DOMAIN admitted' :
         admitted'[i] \in [at: 0 .. now', limiter: 0 .. Len(limiters')]
  <2>1. admitted' \in Seq([at: 0 .. now', limiter: 0 .. Len(limiters')])
    BY DEF RateInv, AdmittedOK
  <2>. QED  BY ONLY <2>1, LenProperties, ElementOfSeq
<1>6. TypeOK'
  <2>1. ep' \in Endpoint /\ edits' \in 0 .. MaxEdits /\ now' \in 0 .. MaxTicks
    BY DEF IInv, TypeOK, RateInv, AdmittedOK
  <2>2. /\ req' \in [Requests -> Request]
        /\ counters' \in [{"limited", "success", "error"} -> Nat]
    BY <1>2 DEF ReqInv
  <2>3. limiters' \in Seq([rpm: Limits, level: Nat]) /\ entry' \in 0 .. Len(limiters')
    BY <1>3 DEF RateInv, BucketOK
  <2>. QED  BY <1>4, <1>5, <2>1, <2>2, <2>3 DEF TypeOK
<1>. QED  BY <1>2, <1>6 DEF IInv

(* What a request is before it has ended. *)
LEMMA Going ==
  ASSUME IInv, NEW r \in Requests, req[r].pc # "done"
  PROVE  /\ req[r] \in Request /\ RequestOK(req[r]) /\ req[r].answer = "none"
         /\ req[r].via \in {"invoke", "render"} /\ req[r].asked \in Asks \cup Caps
         /\ req[r].limiter \in 0 .. Len(limiters) /\ req[r].ep \in Endpoint
         /\ spend \in [Models -> Spent] /\ ep \in Endpoint /\ Len(limiters) \in Nat
<1>1. req[r] \in Request /\ RequestOK(req[r])
  BY DEF IInv, ReqInv
<1>2. req[r].limiter \in 0 .. Len(limiters) /\ spend \in [Models -> Spent] /\ ep \in Endpoint
  BY DEF IInv, TypeOK
<1>3. Len(limiters) \in Nat
  BY BucketBasics DEF IInv
<1>. QED  BY <1>1, <1>2, <1>3 DEF Request, RequestOK

others == <<ep, entry, limiters, counters, spend, now, edits, admitted>>

(* A step of a goroutine that touches nothing but its own request. *)
LEMMA OwnStep ==
  ASSUME IInv, NEW r \in Requests, NEW q \in Request, req[r].pc # "done",
         req' = [req EXCEPT ![r] = q], RequestOK(q), UNCHANGED others,
         q.answer \in {"none", "400", "404", "503", "panic"},
         q.limiter \in 0 .. Len(limiters)
  PROVE  IInv'
<1>1. RateInv'
  BY RateUnchanged DEF IInv, others
<1>2. CountersFollow(q)
  BY Uncounted DEF IInv, others
<1>3. Len(limiters') >= Len(limiters)
  BY Going DEF others
<1>. QED  BY <1>1, <1>2, <1>3, Going, ServeStep DEF others

LEMMA AnswersOwn ==
  ASSUME IInv, NEW r \in Requests, req[r].pc # "done", UNCHANGED others,
         NEW a \in {"400", "404", "503", "panic"}, Answer(r, a)
  PROVE  IInv'
<1>. DEFINE q == [Nothing EXCEPT !.via = req[r].via, !.answer = a]
<1>1. req' = [req EXCEPT ![r] = q]
  BY DEF Answer
<1>2. a \in Answers
  BY DEF Answers
<1>3. q \in Request /\ q.answer = a /\ q.limiter = 0 /\ RequestOK(q)
  <2>1. req[r].via \in {"invoke", "render"}
    BY Going
  <2>. QED  BY ONLY <1>2, <2>1, AnswerType
<1>4. q.limiter \in 0 .. Len(limiters)
  BY <1>3, Going
<1>. HIDE DEF q
<1>. QED  BY <1>1, <1>3, <1>4, OwnStep

LEMMA ArriveOK == ASSUME IInv, NEW r \in Requests, Arrive(r) PROVE IInv'
<1>1. req[r].pc = "new" /\ UNCHANGED others
  BY DEF Arrive, others
<1>2. CASE Answer(r, "400")
  BY <1>1, <1>2, AnswersOwn
<1>3. ASSUME NEW a \in Asks, req' = [req EXCEPT ![r].pc = "fetch", ![r].asked = a]
      PROVE  IInv'
  <2>. DEFINE q == [req[r] EXCEPT !.pc = "fetch", !.asked = a]
  <2>1. req' = [req EXCEPT ![r] = q]
    BY <1>3 DEF IInv, ReqInv
  <2>2. /\ q \in Request /\ q.pc = "fetch" /\ q.answer = req[r].answer
        /\ q.limiter = req[r].limiter
    BY <1>1, Going DEF Request
  <2>. HIDE DEF q
  <2>3. RequestOK(q) /\ q.answer = "none" /\ q.limiter \in 0 .. Len(limiters)
    BY <1>1, <2>2, Going DEF RequestOK
  <2>. QED  BY <1>1, <2>1, <2>2, <2>3, OwnStep
<1>4. ASSUME NEW s \in Supplies,
             req' = [req EXCEPT ![r].pc = "render", ![r].via = "render", ![r].supplied = s]
      PROVE  IInv'
  <2>. DEFINE q == [req[r] EXCEPT !.pc = "render", !.via = "render", !.supplied = s]
  <2>1. req' = [req EXCEPT ![r] = q]
    BY <1>4 DEF IInv, ReqInv
  <2>2. /\ q \in Request /\ q.pc = "render" /\ q.answer = req[r].answer
        /\ q.limiter = req[r].limiter
    BY <1>1, Going DEF Request
  <2>. HIDE DEF q
  <2>3. RequestOK(q) /\ q.answer = "none" /\ q.limiter \in 0 .. Len(limiters)
    BY <1>1, <2>2, Going DEF RequestOK
  <2>. QED  BY <1>1, <2>1, <2>2, <2>3, OwnStep
<1>. QED  BY <1>2, <1>3, <1>4 DEF Arrive

LEMMA RenderOK == ASSUME IInv, NEW r \in Requests, Render(r) PROVE IInv'
<1>1. req[r].pc = "render" /\ UNCHANGED others
  BY DEF Render, others
<1>2. ASSUME NEW a \in {"400", "404", "panic"}, Answer(r, a) PROVE IInv'
  BY <1>1, <1>2, AnswersOwn
<1>3. ASSUME NEW a \in Caps,
             req' = [req EXCEPT ![r].pc = "fetch", ![r].asked = a, ![r].supplied = Nil]
      PROVE  IInv'
  <2>. DEFINE q == [req[r] EXCEPT !.pc = "fetch", !.asked = a, !.supplied = Nil]
  <2>1. req' = [req EXCEPT ![r] = q]
    BY <1>3 DEF IInv, ReqInv
  <2>2. Nil \in Supplies
    BY DEF Supplies
  <2>3. /\ q \in Request /\ q.pc = "fetch" /\ q.answer = req[r].answer
        /\ q.limiter = req[r].limiter
    BY <1>1, <2>2, Going DEF Request
  <2>. HIDE DEF q
  <2>4. RequestOK(q) /\ q.answer = "none" /\ q.limiter \in 0 .. Len(limiters)
    BY <1>1, <2>3, Going DEF RequestOK
  <2>. QED  BY <1>1, <2>1, <2>3, <2>4, OwnStep
<1>. QED  BY <1>2, <1>3 DEF Render

(* Only integers are sent. *)
LEMMA SentType ==
  ASSUME NEW asked \in Asks \cup Caps, NEW cap \in Caps
  PROVE  Sent(asked, cap) \in Int
<1>1. asked \in Int /\ cap \in Int
  BY ProxyAssumption
<1>. QED  BY <1>1 DEF Sent, Capped

LEMMA FetchOK == ASSUME IInv, NEW r \in Requests, Fetch(r) PROVE IInv'
<1>1. /\ req[r].pc = "fetch"
      /\ UNCHANGED <<ep, entry, limiters, counters, spend, now, edits>>
  BY DEF Fetch
<1>2. ASSUME NEW a \in {"404", "503"}, Answer(r, a), admitted' = admitted PROVE IInv'
  BY <1>1, <1>2, AnswersOwn DEF others
<1>3. ASSUME NEW step \in {"limit", "call"},
             step = "limit" => req[r].via = "invoke",
             req' = [req EXCEPT ![r].pc = step, ![r].ep = ep,
                                ![r].sent = Sent(req[r].asked, ep.cap)],
             IF step = "call" THEN Admit(0) ELSE UNCHANGED admitted
      PROVE  IInv'
  <2>. DEFINE q == [req[r] EXCEPT !.pc = step, !.ep = ep,
                                  !.sent = Sent(req[r].asked, ep.cap)]
  <2>1. req' = [req EXCEPT ![r] = q]
    BY <1>3 DEF IInv, ReqInv
  <2>2. Sent(req[r].asked, ep.cap) \in Int
    <3>1. ep.cap \in Caps
      BY <1>1, Going DEF Endpoint
    <3>. QED  BY <1>1, <3>1, Going, SentType
  <2>3. /\ q \in Request /\ q.pc = step /\ q.answer = req[r].answer
        /\ q.limiter = req[r].limiter /\ q.via = req[r].via
    BY <1>1, <1>3, <2>2, Going DEF Request
  <2>. HIDE DEF q
  <2>4. RequestOK(q) /\ q.answer = "none" /\ q.limiter \in 0 .. Len(limiters)
    BY <1>1, <1>3, <2>3, Going DEF RequestOK
  <2>5. RateInv'
    BY <1>1, <1>3, AdmitFree, RateUnchanged DEF IInv
  <2>6. CountersFollow(q)
    BY <1>1, <2>4, Uncounted DEF IInv
  <2>7. /\ ep' = ep /\ edits' = edits /\ spend' \in [Models -> Spent]
        /\ Len(limiters') >= Len(limiters) /\ q.limiter \in 0 .. Len(limiters')
        /\ req[r].pc # "done"
    BY <1>1, <2>4, Going
  <2>8. q \in Request /\ RequestOK(q)
    BY <2>3, <2>4
  <2>. QED  BY ONLY IInv, r \in Requests, <2>1, <2>5, <2>6, <2>7, <2>8, ServeStep
<1>. QED  BY <1>2, <1>3 DEF Fetch

LEMMA GetLimiterOK == ASSUME IInv, NEW r \in Requests, GetLimiter(r) PROVE IInv'
<1>1. /\ req[r].pc = "limit"
      /\ UNCHANGED <<ep, counters, spend, now, edits, admitted>>
      /\ req' = [req EXCEPT ![r].pc = "allow", ![r].limiter = entry']
  BY DEF GetLimiter
<1>2. RateInv' /\ entry' \in 1 .. Len(limiters') /\ Len(limiters') >= Len(limiters)
  <2>1. CASE entry # 0
    <3>1. UNCHANGED <<entry, limiters>>
      BY <2>1 DEF GetLimiter
    <3>. QED  BY <1>1, <2>1, <3>1, RateUnchanged, BucketBasics DEF IInv
  <2>2. CASE entry = 0
    <3>1. /\ limiters' = Append(limiters, NewLimiter(req[r].ep.rpm))
          /\ entry' = Len(limiters')
      BY <2>2 DEF GetLimiter
    <3>2. req[r].ep.rpm \in Limits
      BY <1>1, Going DEF Endpoint
    <3>. QED  BY <1>1, <2>2, <3>1, <3>2, NewBucket, BucketBasics DEF IInv
  <2>. QED  BY <2>1, <2>2
<1>. DEFINE q == [req[r] EXCEPT !.pc = "allow", !.limiter = entry']
<1>3. req' = [req EXCEPT ![r] = q]
  BY <1>1 DEF IInv, ReqInv
<1>4. /\ q \in Request /\ q.pc = "allow" /\ q.answer = req[r].answer
      /\ q.limiter = entry' /\ q.via = req[r].via
  <2>1. entry' \in Nat
    BY <1>2
  <2>. QED  BY <1>1, <2>1, Going DEF Request
<1>. HIDE DEF q
<1>5. RequestOK(q) /\ q.answer = "none" /\ q.limiter \in 0 .. Len(limiters')
  BY <1>1, <1>2, <1>4, Going DEF RequestOK
<1>6. CountersFollow(q)
  BY <1>1, <1>5, Uncounted DEF IInv
<1>. QED  BY <1>1, <1>2, <1>3, <1>4, <1>5, <1>6, Going, ServeStep

(* A counter counts one. *)
LEMMA CountsOne ==
  ASSUME ReqInv, NEW c \in {"limited", "success", "error"}, Count(c), NEW q,
         c = "limited" <=> q.via = "invoke" /\ q.answer = "429",
         c = "error" <=> q.via = "invoke" /\ q.answer = "502",
         c = "success" <=> q.answer = "200"
  PROVE  CountersFollow(q)
BY DEF ReqInv, Count, CountersFollow, One

LEMMA AllowOK == ASSUME IInv, NEW r \in Requests, Allow(r) PROVE IInv'
<1>1. req[r].pc = "allow" /\ UNCHANGED <<ep, entry, spend, now, edits>>
  BY DEF Allow
<1>2. req[r].via = "invoke" /\ req[r].limiter = 1 /\ limiters # << >> /\ Len(limiters) = 1
  BY <1>1, Going, BucketBasics DEF RequestOK, IInv
<1>3. CASE /\ limiters[1].level >= 60
           /\ limiters' = [limiters EXCEPT ![1].level = @ - 60]
           /\ GoTo(r, "call") /\ Admit(1) /\ UNCHANGED counters
  <2>. DEFINE q == [req[r] EXCEPT !.pc = "call"]
  <2>1. req' = [req EXCEPT ![r] = q]
    BY <1>3 DEF GoTo, IInv, ReqInv
  <2>2. /\ q \in Request /\ q.pc = "call" /\ q.answer = req[r].answer
        /\ q.limiter = req[r].limiter
    BY <1>1, Going DEF Request
  <2>. HIDE DEF q
  <2>3. RequestOK(q) /\ q.answer = "none"
    BY <1>1, <2>2, Going DEF RequestOK
  <2>4. RateInv'
    BY <1>1, <1>2, <1>3, AdmitPaid DEF IInv
  <2>5. CountersFollow(q)
    BY <1>3, <2>3, Uncounted DEF IInv
  <2>6. Len(limiters') = 1
    <3>1. limiters \in Seq([rpm: Limits, level: Nat]) /\ limiters' \in Seq([rpm: Limits, level: Nat])
      BY <2>4 DEF IInv, RateInv, BucketOK
    <3>2. DOMAIN limiters' = DOMAIN limiters
      BY <1>3
    <3>3. DOMAIN limiters = 1 .. Len(limiters) /\ DOMAIN limiters' = 1 .. Len(limiters')
             /\ Len(limiters') \in Nat /\ Len(limiters') <= 1
      BY <2>4, <3>1, LenProperties DEF RateInv, BucketOK
    <3>4. 1 \in 1 .. Len(limiters')
      BY <1>2, <3>2, <3>3
    <3>. QED  BY ONLY <3>3, <3>4
  <2>7. q.limiter \in 0 .. Len(limiters')
    BY <1>2, <2>2, <2>6
  <2>8. /\ ep' = ep /\ edits' = edits /\ spend' \in [Models -> Spent]
        /\ Len(limiters') >= Len(limiters) /\ req[r].pc # "done"
    BY <1>1, <1>2, <2>6, Going
  <2>9. q \in Request /\ RequestOK(q)
    BY <2>2, <2>3
  <2>. QED  BY ONLY IInv, r \in Requests, <2>1, <2>4, <2>5, <2>7, <2>8, <2>9, ServeStep
<1>4. CASE Answer(r, "429") /\ Count("limited") /\ UNCHANGED <<limiters, admitted>>
  <2>. DEFINE q == [Nothing EXCEPT !.via = req[r].via, !.answer = "429"]
  <2>1. req' = [req EXCEPT ![r] = q]
    BY <1>4 DEF Answer
  <2>2. q \in Request /\ q.via = "invoke" /\ q.answer = "429" /\ q.limiter = 0 /\ RequestOK(q)
    BY <1>2, AnswerType DEF Answers
  <2>. HIDE DEF q
  <2>3. CountersFollow(q)
    BY <1>4, <2>2, CountsOne DEF IInv
  <2>4. RateInv'
    BY <1>1, <1>4, RateUnchanged DEF IInv
  <2>5. q.limiter \in 0 .. Len(limiters') /\ Len(limiters') >= Len(limiters)
    BY <1>2, <1>4, <2>2
  <2>. QED  BY <1>1, <2>1, <2>2, <2>3, <2>4, <2>5, Going, ServeStep
<1>. QED  BY <1>2, <1>3, <1>4 DEF Allow

(* What a call costs is a natural number. *)
LEMMA CostType ==
  ASSUME NEW m \in DOMAIN Pricing, NEW use \in [input: Nat, output: Nat]
  PROVE  CalculateCost(m, use) \subseteq Nat
<1>1. use.input \in Nat /\ use.output \in Nat
  OBVIOUS
<1>2. Pricing[m].input \in Nat /\ Pricing[m].output \in Nat
  BY PricingAssumption
<1>3. Price(m, use) \in Nat
  BY <1>1, <1>2 DEF Price
<1>. DEFINE p == Price(m, use)
<1>. HIDE DEF p
<1>4. p \in Nat => p \div 1000 \in Nat /\ p \div 1000 + 1 \in Nat
  OBVIOUS
<1>5. CalculateCost(m, use) \subseteq {p \div 1000, p \div 1000 + 1}
  BY DEF CalculateCost, Rounded, p
<1>. QED  BY <1>3, <1>4, <1>5 DEF p

LEMMA SpendType ==
  ASSUME IInv, NEW r \in Requests, req[r] \in Request, NEW use \in Uses, Bill(r, use)
  PROVE  spend' \in [Models -> Spent]
<1>. DEFINE m == req[r].ep.model
<1>1. m \in Models /\ spend \in [Models -> Spent] /\ use \in [input: Nat, output: Nat]
  <2>1. req[r].ep \in Endpoint
    BY DEF Request
  <2>2. m \in Models
    BY <2>1 DEF Endpoint
  <2>3. spend \in [Models -> Spent]
    BY DEF IInv, TypeOK
  <2>4. use \in [input: Nat, output: Nat]
    BY ONLY use \in Uses, ProxyAssumption
  <2>. QED  BY <2>2, <2>3, <2>4
<1>2. PICK c \in IF KnownModel(m) THEN CalculateCost(m, use) ELSE {0} : Add(m, use, c)
  BY DEF Bill
<1>3. c \in Nat
  BY <1>1, <1>2, CostType DEF KnownModel
<1>. DEFINE s == [input  |-> spend[m].input + use.input,
                  output |-> spend[m].output + use.output,
                  micros |-> spend[m].micros + c]
<1>4. s \in Spent
  BY <1>1, <1>3 DEF Spent
<1>5. spend' = [spend EXCEPT ![m] = s]
  BY <1>1, <1>2 DEF Add
<1>. HIDE DEF s, m
<1>. QED  BY <1>1, <1>4, <1>5

LEMMA CallOK == ASSUME IInv, NEW r \in Requests, Call(r) PROVE IInv'
<1>1. req[r].pc = "call" /\ UNCHANGED <<ep, entry, limiters, now, edits, admitted>>
  BY DEF Call
<1>2. RateInv' /\ Len(limiters') >= Len(limiters) /\ 0 \in 0 .. Len(limiters')
  BY <1>1, RateUnchanged, Going DEF IInv
<1>3. ASSUME NEW use \in Uses, Count("success"), Bill(r, use),
             req' = [req EXCEPT ![r] =
                       [Nothing EXCEPT !.via = req[r].via, !.answer = "200",
                           !.bill = [model |-> req[r].ep.model, use |-> use]]]
      PROVE  IInv'
  <2>. DEFINE b == [model |-> req[r].ep.model, use |-> use]
              q == [Nothing EXCEPT !.via = req[r].via, !.answer = "200", !.bill = b]
  <2>1. b \in [model: Models, use: Uses \cup {NoBill.use}]
    BY <1>1, Going DEF Endpoint
  <2>2. q \in Request /\ q.answer = "200" /\ q.limiter = 0 /\ q.pc = "done"
    <3>. HIDE DEF b
    <3>. QED  BY <1>1, <2>1, NothingType, Going DEF Request, Answers
  <2>3. spend' \in [Models -> Spent]
    BY <1>1, <1>3, Going, SpendType
  <2>4. req' = [req EXCEPT ![r] = q]
    BY <1>3
  <2>. HIDE DEF q
  <2>5. CountersFollow(q)
    BY <1>3, <2>2, CountsOne DEF IInv
  <2>6. RequestOK(q)
    BY <2>2 DEF RequestOK
  <2>. QED  BY <1>1, <1>2, <2>2, <2>3, <2>4, <2>5, <2>6, ServeStep
<1>4. CASE /\ Answer(r, "502") /\ UNCHANGED spend
           /\ IF req[r].via = "invoke" THEN Count("error") ELSE UNCHANGED counters
  <2>. DEFINE q == [Nothing EXCEPT !.via = req[r].via, !.answer = "502"]
  <2>1. req' = [req EXCEPT ![r] = q]
    BY <1>4 DEF Answer
  <2>2. /\ q \in Request /\ q.via = req[r].via /\ q.answer = "502" /\ q.limiter = 0
        /\ RequestOK(q)
    BY <1>1, Going, AnswerType DEF Answers
  <2>. HIDE DEF q
  <2>3. CountersFollow(q)
    <3>1. CASE req[r].via = "invoke"
      BY <1>4, <2>2, <3>1, CountsOne DEF IInv
    <3>2. CASE req[r].via # "invoke"
      BY <1>4, <2>2, <3>2, Uncounted DEF IInv
    <3>. QED  BY <3>1, <3>2
  <2>. QED  BY <1>1, <1>2, <1>4, <2>1, <2>2, <2>3, Going, ServeStep
<1>. QED  BY <1>3, <1>4 DEF Call

-----------------------------------------------------------------------------
(* The endpoint changes; time passes. *)
LEMMA EndpointChangesOK == ASSUME IInv, EndpointChanges PROVE IInv'
<1>1. /\ UNCHANGED <<req, entry, limiters, counters, spend, now, admitted>>
      /\ ep' \in Endpoint /\ edits < MaxEdits /\ edits' = edits + 1
  BY DEF EndpointChanges
<1>2. ReqInv' /\ RateInv'
  BY <1>1, ReqUnchanged, RateUnchanged DEF IInv
<1>3. edits' \in 0 .. MaxEdits
  BY <1>1, ProxyAssumption DEF IInv, TypeOK
<1>4. TypeOK'
  BY <1>1, <1>3 DEF IInv, TypeOK
<1>. QED  BY <1>2, <1>4 DEF IInv

LEMMA TickOK == ASSUME IInv, Tick PROVE IInv'
<1>1. UNCHANGED <<ep, req, entry, counters, spend, edits, admitted>>
  BY DEF Tick
<1>2. ReqInv' /\ RateInv'
  BY <1>1, ReqUnchanged, TickRate DEF IInv
<1>3. entry = Len(limiters) /\ entry' = Len(limiters')
  BY <1>2 DEF IInv, RateInv, BucketOK
<1>4. \A i \in DOMAIN admitted' :
         admitted'[i] \in [at: 0 .. now', limiter: 0 .. Len(limiters')]
  <2>1. admitted' \in Seq([at: 0 .. now', limiter: 0 .. Len(limiters')])
    BY <1>2 DEF RateInv, AdmittedOK
  <2>. QED  BY ONLY <2>1, LenProperties, ElementOfSeq
<1>5. TypeOK'
  <2>1. limiters' \in Seq([rpm: Limits, level: Nat]) /\ now' \in 0 .. MaxTicks
    BY <1>2 DEF RateInv, BucketOK, AdmittedOK
  <2>2. /\ ep' \in Endpoint /\ req' \in [Requests -> Request] /\ edits' \in 0 .. MaxEdits
        /\ counters' \in [{"limited", "success", "error"} -> Nat]
        /\ spend' \in [Models -> Spent] /\ entry' \in 0 .. Len(limiters')
        /\ \A r \in Requests : req'[r].limiter \in 0 .. Len(limiters')
    BY <1>1, <1>3 DEF IInv, TypeOK
  <2>. QED  BY <1>4, <2>1, <2>2 DEF TypeOK
<1>. QED  BY <1>2, <1>5 DEF IInv

LEMMA InitOK == Init => IInv
<1>. SUFFICES ASSUME Init PROVE IInv
  OBVIOUS
<1>. DEFINE q == [Nothing EXCEPT !.pc = "new"]
<1>1. q \in Request /\ q.pc = "new" /\ q.answer = "none" /\ q.limiter = 0
  BY NothingType DEF Request
<1>2. /\ req = [r \in Requests |-> q] /\ limiters = << >> /\ entry = 0 /\ admitted = << >>
      /\ now = 0 /\ edits = 0 /\ ep \in Endpoint
      /\ counters = [limited |-> 0, success |-> 0, error |-> 0]
      /\ spend = [m \in Models |-> [input |-> 0, output |-> 0, micros |-> 0]]
  BY DEF Init
<1>. HIDE DEF q
<1>3. counters \in [{"limited", "success", "error"} -> Nat]
  BY <1>2
<1>4. \A via, answers : "none" \notin answers => Ended(via, answers) = 0
  <2>. SUFFICES ASSUME NEW via, NEW answers, "none" \notin answers
                PROVE  Ended(via, answers) = 0
    OBVIOUS
  <2>1. {r \in Requests : req[r].via = via /\ req[r].answer \in answers} = {}
    BY <1>1, <1>2
  <2>. QED  BY <2>1, FS_EmptySet DEF Ended
<1>5. InvokesCounted
  <2>1. /\ Ended("invoke", {"429"}) = 0 /\ Ended("invoke", {"502"}) = 0
        /\ Ended("invoke", {"200"}) = 0 /\ Ended("render", {"200"}) = 0
    BY <1>4
  <2>. QED  BY <1>2, <2>1 DEF InvokesCounted
<1>6. ReqInv
  <2>1. Answered = {}
    BY <1>1, <1>2 DEF Answered
  <2>. QED  BY <1>1, <1>2, <1>3, <1>5, <2>1, FS_EmptySet DEF ReqInv, RequestOK
<1>7. RateInv
  <2>1. BucketOK
    BY <1>2, EmptySeq DEF BucketOK
  <2>2. AdmittedOK
    BY <1>2, EmptySeq, ProxyAssumption DEF AdmittedOK
  <2>. QED  BY <1>2, <2>1, <2>2 DEF RateInv, RateOK, WithinRate
<1>8. TypeOK
  <2>1. limiters \in Seq([rpm: Limits, level: Nat]) /\ Len(limiters) = 0
    BY <1>2, EmptySeq
  <2>2. now \in 0 .. MaxTicks /\ edits \in 0 .. MaxEdits
    BY <1>2, ProxyAssumption
  <2>3. spend \in [Models -> Spent]
    BY <1>2 DEF Spent
  <2>4. \A i \in DOMAIN admitted :
          admitted[i] \in [at: 0 .. now, limiter: 0 .. Len(limiters)]
    BY <1>2
  <2>. QED  BY <1>1, <1>2, <1>3, <2>1, <2>2, <2>3, <2>4 DEF TypeOK
<1>. QED  BY <1>6, <1>7, <1>8 DEF IInv

LEMMA NextKeeps == IInv /\ [Next]_vars => IInv'
<1>. SUFFICES ASSUME IInv, [Next]_vars PROVE IInv'
  OBVIOUS
<1>1. CASE UNCHANGED vars
  <2>1. ReqInv' /\ RateInv'
    BY <1>1, ReqUnchanged, RateUnchanged DEF IInv, vars
  <2>2. TypeOK'
    BY <1>1 DEF IInv, TypeOK, vars
  <2>. QED  BY <2>1, <2>2 DEF IInv
<1>. QED
  BY <1>1, ArriveOK, RenderOK, FetchOK, GetLimiterOK, AllowOK, CallOK,
     EndpointChangesOK, TickOK
  DEF Next, Serve

LEMMA Invariance == Spec => []IInv
BY InitOK, NextKeeps, PTL DEF Spec

(* Whatever is counted, spent or left in the bucket is a natural number: a *)
(* request takes a token only if there is one (handler.go:107-159).        *)
THEOREM TypeCorrect == Spec => []TypeOK
<1>1. IInv => TypeOK
  BY DEF IInv
<1>. QED  BY <1>1, Invariance, PTL

(* For any number of requests, any limits and any edits of the endpoint,   *)
(* what passes the limiter stays within burst and rate over every stretch  *)
(* of time (handler.go:107-116, 289-308).                                  *)
THEOREM RateCorrect == Spec => []WithinRate
<1>1. IInv => WithinRate
  BY DEF IInv, RateInv
<1>. QED  BY <1>1, Invariance, PTL

(* The counters agree with what became of the requests                     *)
(* (handler.go:107-149).                                                   *)
THEOREM CountsCorrect == Spec => []InvokesCounted
<1>1. IInv => InvokesCounted
  BY DEF IInv, ReqInv
<1>. QED  BY <1>1, Invariance, PTL

-----------------------------------------------------------------------------
(* The other side of RateOK: what has passed since some request, and what  *)
(* the bucket still holds, use up burst and rate, unless the bucket is     *)
(* full.                                                                   *)
UsedUp(i) ==
    60 * Cardinality(Passed(i)) + limiters[1].level
        >= 60 * Burst(limiters[1].rpm)
             + TickSeconds * limiters[1].rpm * (now - admitted[i].at)

EarnedOK ==
    limiters # << >> =>
        \/ limiters[1].level = 60 * Burst(limiters[1].rpm)
        \/ \E i \in Limited : UsedUp(i)

LEMMA EarnedUnchanged ==
  ASSUME EarnedOK, UNCHANGED <<limiters, admitted, now>>
  PROVE  EarnedOK'
<1>1. Limited' = Limited
  BY DEF Limited
<1>. QED  BY <1>1 DEF EarnedOK, UsedUp, Passed

LEMMA EarnedFree ==
  ASSUME RateInv, EarnedOK, Admit(0), UNCHANGED <<limiters, now>>
  PROVE  EarnedOK'
<1>1. 0 \in 0 .. Len(limiters)
  BY BucketBasics
<1>2. /\ Len(admitted') = Len(admitted) + 1 /\ Limited' = Limited
      /\ \A i \in Limited : admitted'[i].at = admitted[i].at
  BY <1>1, AdmittedGrows
<1>3. \A i \in Limited : Passed(i)' = Passed(i)
  BY <1>2, LimitedBasics, AdmittedBasics DEF Passed
<1>4. \A i \in Limited : UsedUp(i) => UsedUp(i)'
  BY <1>2, <1>3 DEF UsedUp
<1>. QED  BY <1>2, <1>4 DEF EarnedOK

(* A full bucket that gives a token is used up by that very request; one   *)
(* that was used up stays so.                                              *)
LEMMA EarnedPaid ==
  ASSUME RateInv, EarnedOK, limiters # << >>, limiters[1].level >= 60, Admit(1),
         limiters' = [limiters EXCEPT ![1].level = @ - 60],
         UNCHANGED <<entry, now>>
  PROVE  EarnedOK'
<1>0. PICK n : n = Len(admitted) + 1
  OBVIOUS
<1>. DEFINE rpm   == limiters[1].rpm
            level == limiters[1].level
            x     == TickSeconds * rpm
<1>1. /\ Len(limiters) = 1 /\ limiters[1] \in [rpm: Limits, level: Nat]
      /\ rpm \in Limits /\ level \in Nat /\ DOMAIN limiters = 1 .. 1
  BY BucketBasics
<1>2. limiters'[1].rpm = rpm /\ limiters'[1].level = level - 60
  BY <1>1
<1>3. Burst(rpm) \in Nat /\ x \in Nat
  BY <1>1, BurstType
<1>4. /\ Len(admitted') = n /\ n \in Nat
      /\ admitted'[n].at = now
      /\ Limited' = Limited \cup {n}
      /\ \A i \in Limited : admitted'[i].at = admitted[i].at
  <2>1. 1 \in 0 .. Len(limiters) /\ Len(limiters') = Len(limiters)
    <3>1. entry' = Len(limiters') /\ entry = Len(limiters)
      BY AdmitPaid DEF RateInv, BucketOK
    <3>. QED  BY <1>1, <3>1
  <2>2. /\ Len(admitted') = Len(admitted) + 1
        /\ admitted'[Len(admitted) + 1] = [at |-> now, limiter |-> 1]
        /\ Limited' = IF 1 = 0 THEN Limited ELSE Limited \cup {Len(admitted) + 1}
        /\ \A i \in Limited : admitted'[i].at = admitted[i].at
    BY <2>1, AdmittedGrows
  <2>3. Len(admitted) \in Nat
    BY AdmittedBasics
  <2>. QED  BY <1>0, <2>2, <2>3
<1>5. /\ now \in Nat
      /\ \A i \in Limited : i \in Nat /\ i < n /\ admitted[i].at \in 0 .. now
  BY <1>0, LimitedBasics, AdmittedBasics
<1>6. CASE level = 60 * Burst(rpm)
  <2>1. Passed(n)' = {n}
    BY <1>4, <1>5 DEF Passed
  <2>0. TickSeconds * rpm * (now - now) = 0
    BY <1>3, <1>5
  <2>2. Cardinality(Passed(n)') = 1 /\ TickSeconds * rpm * (now - now) = 0
    BY <2>0, <2>1, FS_Singleton
  <2>3. UsedUp(n)'
    <3>. SUFFICES 60 * Cardinality(Passed(n)') + (level - 60)
                    >= 60 * Burst(rpm) + TickSeconds * rpm * (now - now)
      BY <1>2, <1>4 DEF UsedUp
    <3>. HIDE DEF rpm, level
    <3>. QED  BY <1>1, <1>3, <1>6, <2>2
  <2>. QED  BY <1>4, <2>3 DEF EarnedOK
<1>7. ASSUME NEW i \in Limited, UsedUp(i) PROVE EarnedOK'
  <2>0. Passed(i)' = (Limited \cup {n}) \cap (i .. n) /\ Len(admitted) \in Nat
    BY <1>4, AdmittedBasics DEF Passed
  <2>1. Passed(i)' = Passed(i) \cup {n} /\ n \notin Passed(i)
    BY <1>0, <1>5, <2>0 DEF Passed
  <2>2. IsFiniteSet(Passed(i)) /\ Cardinality(Passed(i)) \in Nat
    BY LimitedBasics, AdmittedBasics DEF Passed
  <2>. DEFINE c == Cardinality(Passed(i))
              y == TickSeconds * rpm * (now - admitted[i].at)
  <2>3. Cardinality(Passed(i)') = c + 1 /\ c \in Nat
    BY <2>1, <2>2, FS_AddElement
  <2>4. y \in Nat
    <3>1. now - admitted[i].at \in Nat
      BY <1>5
    <3>. QED  BY <1>3, <3>1
  <2>5. 60 * c + level >= 60 * Burst(rpm) + y
    BY <1>7 DEF UsedUp
  <2>6. UsedUp(i)'
    <3>. SUFFICES 60 * (c + 1) + (level - 60) >= 60 * Burst(rpm) + y
      BY <1>2, <1>4, <2>3 DEF UsedUp
    <3>. HIDE DEF rpm, level, c, y
    <3>. QED  BY <1>1, <1>3, <2>3, <2>4, <2>5
  <2>. QED  BY <1>4, <2>6 DEF EarnedOK
<1>. QED  BY <1>6, <1>7 DEF EarnedOK

(* What time brings is earned; what does not fit makes the bucket full.    *)
LEMMA EarnedTick == ASSUME RateInv, EarnedOK, Tick PROVE EarnedOK'
<1>1. /\ now' = now + 1 /\ admitted' = admitted
      /\ limiters' = [k \in DOMAIN limiters |->
            [limiters[k] EXCEPT !.level =
                AtMost(60 * Burst(limiters[k].rpm),
                       @ + TickSeconds * limiters[k].rpm)]]
  BY DEF Tick
<1>2. CASE limiters = << >>
  <2>1. limiters' = << >>
    BY <1>1, <1>2
  <2>. QED  BY <2>1 DEF EarnedOK
<1>3. CASE limiters # << >>
  <2>. DEFINE rpm   == limiters[1].rpm
              level == limiters[1].level
              x     == TickSeconds * rpm
  <2>1. /\ limiters[1] \in [rpm: Limits, level: Nat] /\ rpm \in Limits
        /\ level \in Nat /\ DOMAIN limiters = 1 .. 1
    BY <1>3, BucketBasics
  <2>2. Burst(rpm) \in Nat /\ x \in Nat
    BY <2>1, BurstType
  <2>3. limiters'[1].rpm = rpm /\ limiters'[1].level = AtMost(60 * Burst(rpm), level + x)
    BY <1>1, <2>1
  <2>4. CASE 60 * Burst(rpm) <= level + x
    <3>1. AtMost(60 * Burst(rpm), level + x) = 60 * Burst(rpm)
      <4>. HIDE DEF rpm, level, x
      <4>. QED  BY <2>1, <2>2, <2>4 DEF AtMost
    <3>. QED  BY <2>3, <3>1 DEF EarnedOK
  <2>5. CASE ~(60 * Burst(rpm) <= level + x)
    <3>1. AtMost(60 * Burst(rpm), level + x) = level + x /\ level # 60 * Burst(rpm)
      <4>. HIDE DEF rpm, level, x
      <4>. QED  BY <2>1, <2>2, <2>5 DEF AtMost
    <3>2. PICK i \in Limited : UsedUp(i)
      BY <1>3, <3>1 DEF EarnedOK
    <3>3. /\ admitted[i].at \in 0 .. now /\ now \in Nat /\ Cardinality(Passed(i)) \in Nat
      BY LimitedBasics, AdmittedBasics DEF Passed
    <3>. DEFINE c == Cardinality(Passed(i))
                y == x * (now - admitted[i].at)
    <3>4. y \in Int /\ x * ((now + 1) - admitted[i].at) = y + x
      <4>1. admitted[i].at \in Int /\ now \in Int /\ x \in Int
        BY <2>2, <3>3
      <4>. HIDE DEF x
      <4>. QED  BY <4>1
    <3>5. 60 * c + level >= 60 * Burst(rpm) + y
      BY <3>2 DEF UsedUp
    <3>6. 60 * c + (level + x) >= 60 * Burst(rpm) + (y + x)
      <4>. HIDE DEF c, y, x, level, rpm
      <4>. QED  BY <2>1, <2>2, <3>3, <3>4, <3>5 DEF c
    <3>7. Limited' = Limited /\ Passed(i)' = Passed(i)
      BY <1>1 DEF Limited, Passed
    <3>8. UsedUp(i)'
      <4>. SUFFICES 60 * c + (level + x) >= 60 * Burst(rpm) + x * ((now + 1) - admitted[i].at)
        BY <1>1, <2>3, <3>1, <3>7 DEF UsedUp
      <4>. QED  BY <3>4, <3>6
    <3>. QED  BY <3>7, <3>8 DEF EarnedOK
  <2>. QED  BY <2>4, <2>5
<1>. QED  BY <1>2, <1>3

LEMMA EarnedKept == IInv /\ EarnedOK /\ [Next]_vars => EarnedOK'
<1>. SUFFICES ASSUME IInv, EarnedOK, [Next]_vars PROVE EarnedOK'
  OBVIOUS
<1>1. RateInv
  BY DEF IInv
<1>2. CASE UNCHANGED <<limiters, admitted, now>>
  BY <1>2, EarnedUnchanged
<1>3. ASSUME NEW r \in Requests, Fetch(r) PROVE EarnedOK'
  <2>1. UNCHANGED <<limiters, now>> /\ (Admit(0) \/ UNCHANGED admitted)
    BY <1>3 DEF Fetch
  <2>. QED  BY <1>1, <1>2, <2>1, EarnedFree
<1>4. ASSUME NEW r \in Requests, GetLimiter(r) PROVE EarnedOK'
  <2>1. CASE entry # 0
    BY <1>2, <1>4, <2>1 DEF GetLimiter
  <2>2. CASE entry = 0
    <3>. DEFINE new == NewLimiter(req[r].ep.rpm)
    <3>1. limiters' = Append(limiters, new) /\ Len(limiters) = 0
      BY <1>1, <1>4, <2>2, BucketBasics DEF GetLimiter
    <3>2. limiters \in Seq([rpm: Limits, level: Nat])
      BY <1>1 DEF RateInv, BucketOK
    <3>3. limiters' = <<new>>
      BY <1>1, <2>2, <3>1, BucketBasics
    <3>. QED  BY <3>3 DEF EarnedOK, NewLimiter
  <2>. QED  BY <2>1, <2>2
<1>5. ASSUME NEW r \in Requests, Allow(r) PROVE EarnedOK'
  <2>1. req[r].pc = "allow" /\ now' = now
    BY <1>5 DEF Allow
  <2>2. req[r].limiter = 1 /\ limiters # << >>
    BY <1>1, <2>1, Going, BucketBasics DEF RequestOK
  <2>. QED  BY <1>1, <1>2, <1>5, <2>1, <2>2, EarnedPaid DEF Allow
<1>6. ASSUME NEW r \in Requests, Arrive(r) \/ Render(r) \/ Call(r) PROVE EarnedOK'
  BY <1>2, <1>6 DEF Arrive, Render, Call
<1>7. CASE EndpointChanges \/ UNCHANGED vars
  BY <1>2, <1>7 DEF EndpointChanges, vars
<1>. QED
  BY <1>1, <1>3, <1>4, <1>5, <1>6, <1>7, EarnedTick DEF Next, Serve

(* A bucket that has no token is not full, so some request has used up     *)
(* what there was.                                                         *)
LEMMA RejectedForExcess ==
  ASSUME IInv, EarnedOK, [Next]_vars, NEW r \in Requests,
         req[r].pc = "allow", req'[r].answer = "429"
  PROVE  \E i \in Limited : OneTooMany(i, limiters[1].rpm)
<1>1. req[r] \in Request /\ req[r].answer = "none" /\ req[r].limiter = 1 /\ limiters # << >>
  BY Going, BucketBasics DEF RequestOK, IInv
<1>2. limiters[1].level < 60
  <2>1. ASSUME NEW s \in Requests, Serve(s), s # r PROVE FALSE
    <3>1. req \in [Requests -> Request]
      BY DEF IInv, ReqInv
    <3>2. CASE Arrive(s) \/ Render(s)
      <4>1. req'[r] = req[r]
        BY <2>1, <3>1, <3>2 DEF Arrive, Render, Answer
      <4>. QED  BY <1>1, <4>1
    <3>3. CASE Fetch(s) \/ GetLimiter(s)
      <4>1. req'[r] = req[r]
        BY <2>1, <3>1, <3>3 DEF Fetch, GetLimiter, Answer
      <4>. QED  BY <1>1, <4>1
    <3>4. CASE Allow(s) \/ Call(s)
      <4>1. req'[r] = req[r]
        BY <2>1, <3>1, <3>4 DEF Allow, Call, Answer, GoTo
      <4>. QED  BY <1>1, <4>1
    <3>. QED  BY <2>1, <3>2, <3>3, <3>4 DEF Serve
  <2>2. CASE Serve(r)
    <3>1. Allow(r)
      BY <2>2 DEF Serve, Arrive, Render, Fetch, GetLimiter, Call
    <3>2. ~GoTo(r, "call")
      <4>1. GoTo(r, "call") => req'[r].answer = req[r].answer
        BY DEF GoTo, IInv, ReqInv, Request
      <4>. QED  BY <1>1, <4>1
    <3>. QED  BY <1>1, <3>1, <3>2 DEF Allow
  <2>3. CASE EndpointChanges \/ Tick \/ UNCHANGED vars
    BY <1>1, <2>3 DEF EndpointChanges, Tick, vars
  <2>. QED  BY <2>1, <2>2, <2>3 DEF Next
<1>. DEFINE rpm == limiters[1].rpm
            level == limiters[1].level
<1>3. rpm \in Limits /\ level \in Nat
  BY <1>1, BucketBasics DEF IInv
<1>4. Burst(rpm) \in Nat /\ Burst(rpm) >= 1 /\ TickSeconds * rpm \in Nat
  BY <1>3, BurstType
<1>5. level # 60 * Burst(rpm)
  <2>. HIDE DEF rpm, level
  <2>. QED  BY <1>2, <1>3, <1>4 DEF level
<1>6. PICK i \in Limited : UsedUp(i)
  BY <1>1, <1>5 DEF EarnedOK
<1>7. Cardinality(Passed(i)) \in Nat /\ now - admitted[i].at \in Nat
  <2>1. RateInv
    BY DEF IInv
  <2>2. Cardinality(Passed(i)) \in Nat /\ admitted[i].at \in 0 .. now /\ now \in Nat
    BY <2>1, LimitedBasics, AdmittedBasics DEF Passed
  <2>. QED  BY <2>2
<1>. DEFINE c == Cardinality(Passed(i))
            y == TickSeconds * rpm * (now - admitted[i].at)
<1>8. 60 * c + level >= 60 * Burst(rpm) + y
  BY <1>6 DEF UsedUp
<1>9. y \in Nat
  BY <1>4, <1>7
<1>10. 60 * (c + 1) > 60 * Burst(rpm) + y
  <2>1. level < 60 /\ c \in Nat
    BY <1>2, <1>7
  <2>. HIDE DEF rpm, level, c, y
  <2>. QED  BY <1>3, <1>4, <1>8, <1>9, <2>1
<1>. QED  BY <1>10 DEF OneTooMany, Passed

(* For any limits, however small, and any number of requests, a request is *)
(* rejected only when one more call would have been too many since some    *)
(* earlier one (handler.go:107-116, 299-304).                              *)
THEOREM RejectsCorrect == Spec => RejectsOnlyExcess
<1>1. Init => EarnedOK
  BY DEF Init, EarnedOK
<1>2. IInv /\ EarnedOK /\ [Next]_vars =>
         [\A r \in Requests :
             req[r].pc = "allow" /\ req'[r].answer = "429" =>
                 \E i \in Limited : OneTooMany(i, limiters[1].rpm)]_vars
  BY RejectedForExcess
<1>. QED  BY <1>1, <1>2, EarnedKept, Invariance, PTL DEF Spec, RejectsOnlyExcess

-----------------------------------------------------------------------------
(* What has been spent.  Tokens is a set of pairs so that it grows by the  *)
(* tokens of one call at a time.                                           *)
Kinds == {"input", "output"}

SpendInv ==
    /\ SpendTracked
    /\ \A m \in Models : \A kind \in Kinds : IsFiniteSet(Tokens(m, kind))

LEMMA TokensOf ==
  ASSUME NEW r, NEW n \in Nat
  PROVE  IsFiniteSet({r} \X (1 .. n)) /\ Cardinality({r} \X (1 .. n)) = n
<1>. DEFINE f == [i \in 1 .. n |-> <<r, i>>]
<1>1. f \in Bijection(1 .. n, {r} \X (1 .. n))
  <2>1. f \in [1 .. n -> {r} \X (1 .. n)]
    OBVIOUS
  <2>2. \A a, b \in 1 .. n : f[a] = f[b] => a = b
    OBVIOUS
  <2>3. \A t \in {r} \X (1 .. n) : \E s \in 1 .. n : f[s] = t
    OBVIOUS
  <2>. HIDE DEF f
  <2>. QED  BY <2>1, <2>2, <2>3, Fun_IsBij
<1>2. ExistsBijection(1 .. n, {r} \X (1 .. n))
  BY <1>1 DEF ExistsBijection
<1>3. IsFiniteSet(1 .. n) /\ Cardinality(1 .. n) = n
  BY FS_Interval
<1>. QED  BY <1>2, <1>3, FS_Bijection

(* The answered calls, their tokens and their numbers. *)
LEMMA SpendBasics ==
  ASSUME IInv, SpendInv, NEW m \in Models
  PROVE  /\ IsFiniteSet(CallsTo(m)) /\ Cardinality(CallsTo(m)) \in Nat
         /\ Cardinality(Tokens(m, "input")) \in Nat
         /\ Cardinality(Tokens(m, "output")) \in Nat
         /\ spend \in [Models -> Spent]
         /\ spend[m].input \in Nat /\ spend[m].output \in Nat /\ spend[m].micros \in Nat
<1>1. CallsTo(m) \subseteq Answered /\ IsFiniteSet(Answered)
  BY DEF CallsTo, Answered, IInv, ReqInv
<1>2. spend \in [Models -> Spent]
  BY DEF IInv, TypeOK
<1>3. spend[m] \in Spent
  BY <1>2
<1>4. /\ IsFiniteSet(CallsTo(m)) /\ IsFiniteSet(Tokens(m, "input"))
      /\ IsFiniteSet(Tokens(m, "output"))
  BY <1>1, FS_Subset DEF SpendInv, Kinds
<1>. QED  BY <1>2, <1>3, <1>4, FS_CardinalityType DEF Spent

(* A step that bills no call.                                              *)
Quiet ==
    /\ spend' = spend
    /\ \A s \in Requests : req'[s] = req[s]
                             \/ (req[s].answer # "200" /\ req'[s].answer # "200")

LEMMA QuietKeeps == ASSUME SpendInv, Quiet PROVE SpendInv'
<1>1. ASSUME NEW m
      PROVE  /\ CallsTo(m)' = CallsTo(m)
             /\ \A kind : Tokens(m, kind)' = Tokens(m, kind)
  <2>1. CallsTo(m)' = CallsTo(m) /\ \A s \in CallsTo(m) : req'[s] = req[s]
    BY DEF Quiet, CallsTo
  <2>. QED  BY <2>1 DEF Tokens
<1>2. \A m : Took(m)' = Took(m)
  BY <1>1 DEF Took
<1>. QED  BY <1>1, <1>2 DEF SpendInv, SpendTracked, Quiet

LEMMA AnswersQuietly ==
  ASSUME IInv, NEW r \in Requests, req[r].pc # "done",
         NEW a \in Answers \ {"200"}, Answer(r, a), spend' = spend
  PROVE  Quiet
<1>. DEFINE q == [Nothing EXCEPT !.via = req[r].via, !.answer = a]
<1>1. q.answer = a
  BY Going, AnswerType
<1>2. req' = [req EXCEPT ![r] = q] /\ req \in [Requests -> Request]
  BY DEF Answer, IInv, ReqInv
<1>3. req[r].answer = "none"
  BY Going
<1>. HIDE DEF q
<1>. QED  BY <1>1, <1>2, <1>3 DEF Quiet

LEMMA ServesQuietly ==
  ASSUME IInv, NEW r \in Requests,
         Arrive(r) \/ Render(r) \/ Fetch(r) \/ GetLimiter(r) \/ Allow(r)
  PROVE  Quiet
<1>1. /\ req[r].pc # "done" /\ spend' = spend /\ req \in [Requests -> Request]
  BY DEF Arrive, Render, Fetch, GetLimiter, Allow, IInv, ReqInv
<1>2. req[r].answer = "none" /\ req[r] \in Request
  BY <1>1, Going
<1>3. CASE \E a \in {"400", "404", "503", "429", "panic"} : Answer(r, a)
  BY <1>1, <1>3, AnswersQuietly DEF Answers
<1>4. CASE \E q : q.answer = "none" /\ req' = [req EXCEPT ![r] = q]
  BY <1>1, <1>2, <1>4 DEF Quiet
<1>5. CASE Arrive(r)
  <2>1. ASSUME NEW a \in Asks, req' = [req EXCEPT ![r].pc = "fetch", ![r].asked = a]
        PROVE  Quiet
    <3>. DEFINE q == [req[r] EXCEPT !.pc = "fetch", !.asked = a]
    <3>1. req' = [req EXCEPT ![r] = q] /\ q.answer = "none"
      BY <1>1, <1>2, <2>1 DEF Request
    <3>. HIDE DEF q
    <3>. QED  BY <1>4, <3>1
  <2>2. ASSUME NEW s \in Supplies,
               req' = [req EXCEPT ![r].pc = "render", ![r].via = "render", ![r].supplied = s]
        PROVE  Quiet
    <3>. DEFINE q == [req[r] EXCEPT !.pc = "render", !.via = "render", !.supplied = s]
    <3>1. req' = [req EXCEPT ![r] = q] /\ q.answer = "none"
      BY <1>1, <1>2, <2>2 DEF Request
    <3>. HIDE DEF q
    <3>. QED  BY <1>4, <3>1
  <2>. QED  BY <1>3, <1>5, <2>1, <2>2 DEF Arrive
<1>6. CASE Render(r)
  <2>1. ASSUME NEW a \in Caps,
               req' = [req EXCEPT ![r].pc = "fetch", ![r].asked = a, ![r].supplied = Nil]
        PROVE  Quiet
    <3>. DEFINE q == [req[r] EXCEPT !.pc = "fetch", !.asked = a, !.supplied = Nil]
    <3>1. req' = [req EXCEPT ![r] = q] /\ q.answer = "none"
      BY <1>1, <1>2, <2>1 DEF Request
    <3>. HIDE DEF q
    <3>. QED  BY <1>4, <3>1
  <2>. QED  BY <1>3, <1>6, <2>1 DEF Render
<1>7. CASE Fetch(r)
  <2>1. ASSUME NEW step, req' = [req EXCEPT ![r].pc = step, ![r].ep = ep,
                                            ![r].sent = Sent(req[r].asked, ep.cap)]
        PROVE  Quiet
    <3>. DEFINE q == [req[r] EXCEPT !.pc = step, !.ep = ep,
                                    !.sent = Sent(req[r].asked, ep.cap)]
    <3>1. req' = [req EXCEPT ![r] = q] /\ q.answer = "none"
      BY <1>1, <1>2, <2>1 DEF Request
    <3>. HIDE DEF q
    <3>. QED  BY <1>4, <3>1
  <2>. QED  BY <1>3, <1>7, <2>1 DEF Fetch
<1>8. CASE GetLimiter(r)
  <2>. DEFINE q == [req[r] EXCEPT !.pc = "allow", !.limiter = entry']
  <2>1. req' = [req EXCEPT ![r] = q] /\ q.answer = "none"
    BY <1>1, <1>2, <1>8 DEF Request, GetLimiter
  <2>. HIDE DEF q
  <2>. QED  BY <1>4, <2>1
<1>9. CASE Allow(r)
  <2>1. CASE GoTo(r, "call")
    <3>. DEFINE q == [req[r] EXCEPT !.pc = "call"]
    <3>1. req' = [req EXCEPT ![r] = q] /\ q.answer = "none"
      BY <1>1, <1>2, <2>1 DEF Request, GoTo
    <3>. HIDE DEF q
    <3>. QED  BY <1>4, <3>1
  <2>. QED  BY <1>3, <1>9, <2>1 DEF Allow
<1>. QED  BY <1>5, <1>6, <1>7, <1>8, <1>9

(* Rounding loses or wins half a micro-dollar at most; and the price of    *)
(* what two sets of calls took is the sum of their prices.                 *)
LEMMA RoundedOff ==
  ASSUME NEW x \in Nat, NEW c \in Rounded(x)
  PROVE  c \in Nat /\ 1000 * c - x \in -500 .. 500
<1>. DEFINE d == x \div 1000
            e == x % 1000
<1>1. d \in Nat /\ e \in 0 .. 999 /\ x = 1000 * d + e
  OBVIOUS
<1>2. (c = d /\ e <= 500) \/ (c = d + 1 /\ e >= 500)
  BY DEF Rounded
<1>. HIDE DEF d, e
<1>. QED  BY <1>1, <1>2

LEMMA PriceAdds ==
  ASSUME NEW m \in DOMAIN Pricing, NEW a \in [input: Nat, output: Nat],
         NEW b \in [input: Nat, output: Nat]
  PROVE  /\ Price(m, a) \in Nat /\ Price(m, b) \in Nat
         /\ Price(m, [input |-> a.input + b.input, output |-> a.output + b.output])
              = Price(m, a) + Price(m, b)
<1>1. /\ Pricing[m].input \in Nat /\ Pricing[m].output \in Nat
      /\ a.input \in Nat /\ a.output \in Nat /\ b.input \in Nat /\ b.output \in Nat
  BY PricingAssumption
<1>2. \A x, y, z \in Nat : (x + y) * z = x * z + y * z /\ x * z \in Nat
  OBVIOUS
<1>. QED  BY <1>1, <1>2 DEF Price

(* A call is answered and billed. *)
LEMMA BilledGrows ==
  ASSUME IInv, SpendInv, NEW r \in Requests, NEW q \in Request, Moves(r, q),
         req[r].answer = "none", q.answer = "200",
         NEW m \in Models
  PROVE  LET u == q.bill.use
             mine == q.bill.model = m
         IN  /\ Cardinality(CallsTo(m))' = Cardinality(CallsTo(m)) + (IF mine THEN 1 ELSE 0)
             /\ \A kind \in Kinds :
                   /\ u[kind] \in Nat /\ IsFiniteSet(Tokens(m, kind)')
                   /\ Cardinality(Tokens(m, kind)')
                        = Cardinality(Tokens(m, kind)) + (IF mine THEN u[kind] ELSE 0)
<1>1. q.bill.use \in [input: Nat, output: Nat]
  <2>1. q.bill.use \in Uses \cup {NoBill.use}
    BY DEF Request
  <2>2. NoBill.use \in [input: Nat, output: Nat]
    BY DEF NoBill
  <2>. QED  BY <2>1, <2>2, ProxyAssumption
<1>2. \A kind \in Kinds : q.bill.use[kind] \in Nat
  BY <1>1 DEF Kinds
<1>3. r \notin CallsTo(m) /\ IsFiniteSet(CallsTo(m)) /\ Cardinality(CallsTo(m)) \in Nat
  BY SpendBasics DEF CallsTo
<1>4. \A s \in CallsTo(m) : req'[s] = req[s]
  BY <1>3 DEF Moves, CallsTo
<1>5. CASE q.bill.model # m
  <2>1. CallsTo(m)' = CallsTo(m)
    BY <1>3, <1>5 DEF CallsTo, Moves
  <2>2. \A kind : Tokens(m, kind)' = Tokens(m, kind)
    BY <1>4, <2>1 DEF Tokens
  <2>3. \A kind \in Kinds : IsFiniteSet(Tokens(m, kind)) /\ Cardinality(Tokens(m, kind)) \in Nat
    BY FS_CardinalityType DEF SpendInv
  <2>. QED  BY <1>2, <1>3, <1>5, <2>1, <2>2, <2>3
<1>6. CASE q.bill.model = m
  <2>1. CallsTo(m)' = CallsTo(m) \cup {r}
    BY <1>6 DEF CallsTo, Moves
  <2>2. Cardinality(CallsTo(m)') = Cardinality(CallsTo(m)) + 1
    BY <1>3, <2>1, FS_AddElement
  <2>3. ASSUME NEW kind \in Kinds
        PROVE  /\ IsFiniteSet(Tokens(m, kind)')
               /\ Cardinality(Tokens(m, kind)') = Cardinality(Tokens(m, kind)) + q.bill.use[kind]
    <3>. DEFINE new == {r} \X (1 .. q.bill.use[kind])
    <3>1. Tokens(m, kind)' = Tokens(m, kind) \cup new
      <4>1. Tokens(m, kind)' = UNION {{s} \X (1 .. req'[s].bill.use[kind]) : s \in CallsTo(m) \cup {r}}
        BY <2>1 DEF Tokens
      <4>2. req'[r] = q
        BY DEF Moves
      <4>. QED  BY <1>4, <4>1, <4>2 DEF Tokens
    <3>2. Tokens(m, kind) \cap new = {}
      BY <1>3 DEF Tokens
    <3>3. IsFiniteSet(new) /\ Cardinality(new) = q.bill.use[kind]
      BY <1>2, TokensOf
    <3>4. IsFiniteSet(Tokens(m, kind)) /\ Cardinality(Tokens(m, kind)) \in Nat
      BY FS_CardinalityType DEF SpendInv
    <3>. HIDE DEF new
    <3>5. /\ IsFiniteSet(Tokens(m, kind) \cup new)
          /\ Cardinality(Tokens(m, kind) \cup new)
               = Cardinality(Tokens(m, kind)) + Cardinality(new) - Cardinality({})
      BY ONLY <3>2, <3>3, <3>4, FS_Union
    <3>6. q.bill.use[kind] \in Nat /\ Cardinality({}) = 0
      BY <1>2, FS_EmptySet
    <3>. QED  BY ONLY <3>1, <3>3, <3>4, <3>5, <3>6
  <2>. QED  BY <1>2, <1>6, <2>2, <2>3
<1>. QED  BY <1>5, <1>6

LEMMA CallSpends == ASSUME IInv, SpendInv, NEW r \in Requests, Call(r) PROVE SpendInv'
<1>1. req[r].pc = "call"
  BY DEF Call
<1>2. /\ req[r].answer = "none" /\ req[r].ep \in Endpoint
      /\ req[r].via \in {"invoke", "render"} /\ req \in [Requests -> Request]
  BY <1>1, Going DEF IInv, ReqInv
<1>3. CASE Answer(r, "502") /\ UNCHANGED spend
  BY <1>1, <1>3, AnswersQuietly, QuietKeeps DEF Answers
<1>4. ASSUME NEW use \in Uses, Bill(r, use),
             req' = [req EXCEPT ![r] =
                       [Nothing EXCEPT !.via = req[r].via, !.answer = "200",
                           !.bill = [model |-> req[r].ep.model, use |-> use]]]
      PROVE  SpendInv'
  <2>. DEFINE b == [model |-> req[r].ep.model, use |-> use]
              q == [Nothing EXCEPT !.via = req[r].via, !.answer = "200", !.bill = b]
              to == req[r].ep.model
  <2>1. to \in Models /\ b \in [model: Models, use: Uses \cup {NoBill.use}]
    BY <1>2 DEF Endpoint
  <2>2. q \in Request /\ q.answer = "200" /\ q.bill.model = to /\ q.bill.use = use
    <3>1. b.model = to /\ b.use = use
      OBVIOUS
    <3>. HIDE DEF b
    <3>. QED  BY <1>2, <2>1, <3>1, NothingType DEF Request, Answers
  <2>3. Moves(r, q)
    <3>1. req' = [req EXCEPT ![r] = q]
      BY <1>4
    <3>. HIDE DEF q
    <3>. QED  BY <2>2, <3>1, MovesBy DEF IInv
  <2>4. PICK c \in IF KnownModel(to) THEN CalculateCost(to, use) ELSE {0} : Add(to, use, c)
    BY <1>4 DEF Bill
  <2>5. use \in [input: Nat, output: Nat] /\ use.input \in Nat /\ use.output \in Nat
    BY ProxyAssumption
  <2>. HIDE DEF q
  <2>6. ASSUME NEW m \in Models
        PROVE  /\ IsFiniteSet(Tokens(m, "input")') /\ IsFiniteSet(Tokens(m, "output")')
               /\ spend'[m].input = Took(m)'.input /\ spend'[m].output = Took(m)'.output
               /\ IF KnownModel(m)
                  THEN 1000 * spend'[m].micros - Price(m, Took(m)')
                         \in -(500 * Cardinality(CallsTo(m)')) .. 500 * Cardinality(CallsTo(m)')
                  ELSE spend'[m].micros = 0
    <3>. DEFINE mine == to = m
    <3>1. /\ Cardinality(CallsTo(m))' = Cardinality(CallsTo(m)) + (IF mine THEN 1 ELSE 0)
          /\ \A kind \in Kinds :
                /\ use[kind] \in Nat /\ IsFiniteSet(Tokens(m, kind)')
                /\ Cardinality(Tokens(m, kind)')
                     = Cardinality(Tokens(m, kind)) + (IF mine THEN use[kind] ELSE 0)
      BY <1>2, <2>2, <2>3, BilledGrows
    <3>2. /\ IsFiniteSet(Tokens(m, "input")') /\ IsFiniteSet(Tokens(m, "output")')
          /\ Took(m)'.input = Took(m).input + (IF mine THEN use.input ELSE 0)
          /\ Took(m)'.output = Took(m).output + (IF mine THEN use.output ELSE 0)
      BY <3>1 DEF Took, Kinds
    <3>3. /\ Took(m) \in [input: Nat, output: Nat] /\ Cardinality(CallsTo(m)) \in Nat
          /\ spend \in [Models -> Spent] /\ spend[m].micros \in Nat
          /\ spend[m].input \in Nat /\ spend[m].output \in Nat
      BY SpendBasics DEF Took
    <3>4. /\ spend[m].input = Took(m).input /\ spend[m].output = Took(m).output
          /\ IF KnownModel(m)
             THEN 1000 * spend[m].micros - Price(m, Took(m))
                    \in -(500 * Cardinality(CallsTo(m))) .. 500 * Cardinality(CallsTo(m))
             ELSE spend[m].micros = 0
      BY DEF SpendInv, SpendTracked
    <3>5. CASE ~mine
      <4>1. spend'[m] = spend[m]
        BY <2>1, <2>4, <3>3, <3>5 DEF Add
      <4>2. Took(m)' = Took(m) /\ Cardinality(CallsTo(m)') = Cardinality(CallsTo(m))
        BY <3>1, <3>3, <3>5 DEF Took, Kinds
      <4>. QED  BY <3>2, <3>4, <4>1, <4>2
    <3>6. CASE mine
      <4>1. /\ spend'[m].input = spend[m].input + use.input
            /\ spend'[m].output = spend[m].output + use.output
            /\ spend'[m].micros = spend[m].micros + c
        BY <2>1, <2>4, <3>3, <3>6 DEF Add
      <4>2. Took(m)' = [input  |-> Took(m).input + use.input,
                        output |-> Took(m).output + use.output]
        BY <3>2, <3>6 DEF Took
      <4>3. Cardinality(CallsTo(m)') = Cardinality(CallsTo(m)) + 1
        BY <3>1, <3>6
      <4>4. CASE KnownModel(m)
        <5>1. /\ Price(m, Took(m)) \in Nat /\ Price(m, use) \in Nat
              /\ Price(m, Took(m)') = Price(m, Took(m)) + Price(m, use)
          BY <2>5, <3>3, <4>2, <4>4, PriceAdds DEF KnownModel
        <5>2. c \in Rounded(Price(m, use))
          BY <2>4, <3>6, <4>4 DEF CalculateCost
        <5>3. c \in Nat /\ 1000 * c - Price(m, use) \in -500 .. 500
          BY ONLY <5>1, <5>2, RoundedOff
        <5>4. 1000 * spend'[m].micros - Price(m, Took(m)')
                \in -(500 * Cardinality(CallsTo(m)')) .. 500 * Cardinality(CallsTo(m)')
          BY <3>3, <3>4, <4>1, <4>3, <4>4, <5>1, <5>3
        <5>. QED  BY <3>2, <3>4, <3>6, <4>1, <4>4, <5>4
      <4>5. CASE ~KnownModel(m)
        <5>1. c = 0
          BY <2>4, <3>6, <4>5
        <5>. QED  BY <3>2, <3>3, <3>4, <3>6, <4>1, <4>5, <5>1
      <4>. QED  BY <4>4, <4>5
    <3>. QED  BY <3>5, <3>6
  <2>. QED  BY <2>6 DEF SpendInv, SpendTracked, Kinds
<1>. QED  BY <1>3, <1>4 DEF Call

LEMMA SpendStart == Init => SpendInv
<1>. SUFFICES ASSUME Init, NEW m \in Models
              PROVE  /\ IsFiniteSet(Tokens(m, "input")) /\ IsFiniteSet(Tokens(m, "output"))
                     /\ spend[m].input = Took(m).input /\ spend[m].output = Took(m).output
                     /\ IF KnownModel(m)
                        THEN 1000 * spend[m].micros - Price(m, Took(m))
                               \in -(500 * Cardinality(CallsTo(m))) .. 500 * Cardinality(CallsTo(m))
                        ELSE spend[m].micros = 0
  BY DEF SpendInv, SpendTracked, Kinds
<1>1. CallsTo(m) = {}
  <2>1. \A r \in Requests : req[r].answer = "none"
    BY NothingType DEF Init, Request
  <2>. QED  BY <2>1 DEF CallsTo
<1>2. \A kind : Tokens(m, kind) = {}
  BY <1>1 DEF Tokens
<1>3. Took(m) = [input |-> 0, output |-> 0] /\ Cardinality(CallsTo(m)) = 0
  BY <1>1, <1>2, FS_EmptySet DEF Took
<1>4. spend[m] = [input |-> 0, output |-> 0, micros |-> 0]
  BY DEF Init
<1>5. KnownModel(m) => Price(m, Took(m)) = 0
  <2>1. KnownModel(m) => Pricing[m].input \in Nat /\ Pricing[m].output \in Nat
    BY PricingAssumption DEF KnownModel
  <2>. QED  BY <1>3, <2>1 DEF Price
<1>. QED  BY <1>2, <1>3, <1>4, <1>5, FS_EmptySet

LEMMA SpendKept == IInv /\ SpendInv /\ [Next]_vars => SpendInv'
<1>. SUFFICES ASSUME IInv, SpendInv, [Next]_vars PROVE SpendInv'
  OBVIOUS
<1>1. CASE UNCHANGED vars \/ EndpointChanges \/ Tick
  BY <1>1, QuietKeeps DEF vars, EndpointChanges, Tick, Quiet
<1>. QED  BY <1>1, ServesQuietly, QuietKeeps, CallSpends DEF Next, Serve

(* What is counted for a model is what the calls to that model took: its   *)
(* tokens exactly, its price within half a micro-dollar a call, for any    *)
(* number of requests, any prices and any changes of spec.modelId          *)
(* (handler.go:150-159, 259-269, cost.go:100).                             *)
THEOREM SpendCorrect == Spec => []SpendTracked
<1>1. SpendInv => SpendTracked
  BY DEF SpendInv
<1>. QED  BY <1>1, SpendStart, SpendKept, Invariance, PTL DEF Spec
=============================================================================
