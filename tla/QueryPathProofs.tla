--------------------------- MODULE QueryPathProofs ---------------------------
(***************************************************************************)
(* What the caches serve, for all questions, names, models, requests and   *)
(* lifetimes.  None of the properties is inductive: each needs to know     *)
(* what the entries of the caches were made from, and what a request that  *)
(* is under way carries.                                                   *)
(***************************************************************************)
EXTENDS QueryPath, TLAPS

\* The filter of the searches whose answers a key is for.
KeyFilter(k) ==
  [spaces |-> k.scope.spaces, projects |-> k.scope.projects,
   product |-> IF k.scope.product = NoName THEN Absent ELSE k.scope.product]

(* An entry of the answer cache answers the question of its key under the  *)
(* scope of its key, has not expired, and will before it is too old.       *)
AnswersFit ==
  \A k \in Key : answers[k] # NoAnswer =>
    /\ answers[k].answer.query = k.query /\ answers[k].answer.filter = KeyFilter(k)
    /\ clock < answers[k].expires
    /\ answers[k].expires <= answers[k].answer.asof + Patience + AnswerTTL

(* An entry of the embedding cache is the vector of its key.               *)
VectorsFit ==
  \A k \in EmbKey : vectors[k] # NoVec => vectors[k] = [model |-> k.model, query |-> k.query]

(* From its search on a request carries an answer to its own question, in  *)
(* its own scope; at its search, the embedding of its question.            *)
RequestFits(r) ==
  /\ req[r].pc = "search" => req[r].vec = [model |-> model, query |-> req[r].query]
  /\ req[r].pc \in {"generate", "store", "answered"} =>
       /\ req[r].answer \in Answer
       /\ req[r].answer.query = req[r].query
       /\ req[r].answer.filter = Filter(req[r].header)
  /\ Working(r) => clock <= req[r].answer.asof + Patience
  /\ req[r].pc = "answered" => req[r].at < req[r].answer.asof + Patience + AnswerTTL

Inv ==
  /\ TypeOK
  /\ AnswersFit
  /\ VectorsFit
  /\ \A r \in Req : RequestFits(r)

-------------------------------------------------------------------------------

LEMMA FreshType == Fresh \in Request /\ Fresh.pc = "idle"
<1>1. Unlimited \in Header
  BY DEF Unlimited, Header, List
<1> QED BY <1>1, QueryAssumption, TimesAssumption DEF Fresh, Request

(* Every request looks up a key of its own question and scope.             *)
LEMMA KeysFit ==
  ASSUME TypeOK, NEW r \in Req
  PROVE  /\ AnswerKey(r) \in Key /\ EmbeddingKey(r) \in EmbKey
         /\ AnswerKey(r).query = req[r].query
         /\ KeyFilter(AnswerKey(r)) = Filter(req[r].header)
         /\ EmbeddingKey(r).query = req[r].query /\ EmbeddingKey(r).model = model
         /\ Filter(req[r].header) \in Scope
<1> DEFINE h == req[r].header
           scope == [spaces |-> Listed(h.spaces), projects |-> Listed(h.projects),
                     product |-> h.product]
<1>1. h \in Header /\ req[r].query \in Query /\ model \in Model
  BY DEF TypeOK, Request
<1>2. /\ h.spaces \in {Absent} \union SUBSET Name /\ h.projects \in {Absent} \union SUBSET Name
      /\ h.product \in Name \union {Absent, NoName}
  BY <1>1 DEF Header, List
<1>3. Listed(h.spaces) \in SUBSET Name /\ Listed(h.projects) \in SUBSET Name
  BY <1>2 DEF Listed
<1>4. scope \in Scope /\ AnswerKey(r) = [query |-> req[r].query, scope |-> scope]
  BY <1>2, <1>3 DEF Scope, AnswerKey
<1>5. KeyFilter(AnswerKey(r)) = Filter(h)
  BY <1>4 DEF KeyFilter, Filter
<1>6. Filter(h) \in Scope
  BY <1>2, <1>3 DEF Filter, Scope
<1>7. /\ AnswerKey(r) \in Key /\ AnswerKey(r).query = req[r].query
  BY <1>1, <1>4 DEF Key
<1>8. /\ EmbeddingKey(r) \in EmbKey
      /\ EmbeddingKey(r).query = req[r].query /\ EmbeddingKey(r).model = model
  BY <1>1 DEF EmbeddingKey, EmbKey
<1> QED BY <1>5, <1>6, <1>7, <1>8

LEMMA InitInv == Init => Inv
<1> SUFFICES ASSUME Init PROVE Inv
  OBVIOUS
<1>1. TypeOK
  BY FreshType, TimesAssumption DEF Init, TypeOK
<1>2. AnswersFit /\ VectorsFit
  BY DEF Init, AnswersFit, VectorsFit
<1>3. \A r \in Req : RequestFits(r)
  BY FreshType DEF Init, RequestFits, Working
<1> QED BY <1>1, <1>2, <1>3 DEF Inv

(* A step of request r leaves the clock, the model and the other requests  *)
(* alone.                                                                  *)
LEMMA OneRequest ==
  ASSUME Inv, NEW r \in Req,
         UNCHANGED <<clock, model>>,
         req' = [req EXCEPT ![r] = req'[r]],
         req'[r] \in Request,
         answers' \in [Key -> Entry \union {NoAnswer}],
         vectors' \in [EmbKey -> Vector \union {NoVec}],
         AnswersFit', VectorsFit', RequestFits(r)'
  PROVE  Inv'
<1>1. ASSUME NEW s \in Req, s # r
      PROVE  RequestFits(s)'
  <2>1. req'[s] = req[s]
    BY <1>1 DEF Inv, TypeOK
  <2> QED BY <2>1 DEF Inv, RequestFits, Working
<1>2. TypeOK'
  BY DEF Inv, TypeOK
<1> QED BY <1>1, <1>2 DEF Inv

(* The caches as they are fit, as long as the clock stands still.          *)
LEMMA CachesKept ==
  ASSUME Inv, UNCHANGED <<clock, answers, vectors>>
  PROVE  /\ answers' \in [Key -> Entry \union {NoAnswer}]
         /\ vectors' \in [EmbKey -> Vector \union {NoVec}]
         /\ AnswersFit' /\ VectorsFit'
BY DEF Inv, TypeOK, AnswersFit, VectorsFit

-------------------------------------------------------------------------------
(* Around the service. *)

LEMMA TickStep ==
  ASSUME Inv, Tick
  PROVE  Inv'
<1>1. clock \in Nat /\ clock' \in 0 .. MaxClock /\ clock' = clock + 1
  BY TimesAssumption DEF Inv, TypeOK, Tick
<1>2. TypeOK'
  BY <1>1 DEF Inv, TypeOK, Tick
<1>3. AnswersFit'
  <2> SUFFICES ASSUME NEW k \in Key, answers'[k] # NoAnswer
               PROVE  /\ answers'[k].answer.query = k.query
                      /\ answers'[k].answer.filter = KeyFilter(k)
                      /\ clock + 1 < answers'[k].expires
                      /\ answers'[k].expires <= answers'[k].answer.asof + Patience + AnswerTTL
    BY <1>1 DEF AnswersFit
  <2>1. /\ answers'[k] = answers[k] /\ answers[k] # NoAnswer
        /\ ~(answers[k].expires <= clock + 1)
    BY DEF Tick
  <2>2. answers[k].expires \in Nat
    BY <2>1 DEF Inv, TypeOK, Entry
  <2> QED BY <1>1, <2>1, <2>2 DEF Inv, AnswersFit
<1>4. VectorsFit'
  BY DEF Inv, VectorsFit, Tick
<1>5. ASSUME NEW r \in Req
      PROVE  RequestFits(r)'
  <2>1. Working(r) => clock + 1 <= req[r].answer.asof + Patience
    <3>1. Working(r) => req[r].answer \in Answer
      BY DEF Inv, RequestFits, Working
    <3>2. Working(r) => req[r].answer.asof \in Nat
      BY <3>1, TimesAssumption DEF Answer
    <3> QED BY <1>1, <3>2, TimesAssumption DEF Tick
  <2> QED BY <1>1, <2>1 DEF Inv, RequestFits, Working, Tick
<1> QED BY <1>2, <1>3, <1>4, <1>5 DEF Inv

LEMMA RedeployStep ==
  ASSUME Inv, Redeploy
  PROVE  Inv'
<1>1. TypeOK'
  BY FreshType DEF Inv, TypeOK, Redeploy
<1>2. AnswersFit' /\ VectorsFit'
  BY CachesKept DEF Redeploy
<1>3. \A r \in Req : RequestFits(r)'
  BY DEF Redeploy, RequestFits, Working, Fresh
<1> QED BY <1>1, <1>2, <1>3 DEF Inv

LEMMA AskStep ==
  ASSUME Inv, NEW r \in Req, NEW q \in Query, NEW h \in Headers, Ask(r, q, h)
  PROVE  Inv'
<1>1. UNCHANGED <<clock, model, answers, vectors>>
  BY DEF Ask
<1>2. req' = [req EXCEPT ![r] = req'[r]]
      /\ req'[r] = [Fresh EXCEPT !.pc = "lookup", !.query = q, !.header = h]
  BY DEF Inv, TypeOK, Ask
<1>3. req'[r] \in Request /\ req'[r].pc = "lookup"
  BY <1>2, FreshType, QueryAssumption DEF Request
<1>4. RequestFits(r)'
  BY <1>3 DEF RequestFits, Working
<1> QED BY <1>1, <1>2, <1>3, <1>4, CachesKept, OneRequest

-------------------------------------------------------------------------------
(* The handler. *)

LEMMA HitStep ==
  ASSUME Inv, NEW r \in Req, AnswerHit(r)
  PROVE  Inv'
<1> DEFINE k == AnswerKey(r)
           a == answers[k].answer
<1>1. k \in Key /\ answers[k] # NoAnswer
  BY KeysFit DEF Inv, AnswerHit
<1>2. answers[k] \in Entry /\ a \in Answer
  BY <1>1 DEF Inv, TypeOK, Entry
<1>3. /\ a.query = req[r].query /\ a.filter = Filter(req[r].header)
      /\ clock < answers[k].expires
      /\ answers[k].expires <= a.asof + Patience + AnswerTTL
  BY <1>1, KeysFit DEF Inv, AnswersFit
<1>4. clock < a.asof + Patience + AnswerTTL
  <2>1. clock \in Nat /\ answers[k].expires \in Nat /\ a.asof \in Nat
    BY <1>2, TimesAssumption DEF Inv, TypeOK, Answer, Entry
  <2> QED BY <1>3, <2>1, TimesAssumption
<1>5. /\ UNCHANGED <<clock, model, answers, vectors>>
      /\ req' = [req EXCEPT ![r] = req'[r]]
      /\ req'[r] = [req[r] EXCEPT !.pc = "answered", !.at = clock, !.answer = a]
  BY DEF Inv, TypeOK, AnswerHit
<1> HIDE DEF a, k
<1>6. req[r] \in Request /\ clock \in 0 .. MaxClock
  BY DEF Inv, TypeOK
<1>7. req'[r] \in Request
  BY <1>2, <1>5, <1>6 DEF Request
<1>8. RequestFits(r)'
  BY <1>2, <1>3, <1>4, <1>5, <1>6 DEF RequestFits, Working, Request
<1> QED BY <1>5, <1>7, <1>8, CachesKept, OneRequest

LEMMA MissStep ==
  ASSUME Inv, NEW r \in Req, AnswerMiss(r) \/ VectorMiss(r)
  PROVE  Inv'
<1>1. PICK p \in {"vector", "embed"} :
        /\ UNCHANGED <<clock, model, answers, vectors>>
        /\ req' = [req EXCEPT ![r].pc = p]
  BY DEF AnswerMiss, VectorMiss
<1>2. /\ req[r] \in Request /\ req' = [req EXCEPT ![r] = req'[r]]
      /\ req'[r] = [req[r] EXCEPT !.pc = p]
  BY <1>1 DEF Inv, TypeOK
<1>3. req'[r] \in Request /\ req'[r].pc = p
  BY <1>2 DEF Request
<1>4. RequestFits(r)'
  BY <1>3 DEF RequestFits, Working
<1> QED BY <1>1, <1>2, <1>3, <1>4, CachesKept, OneRequest

LEMMA VectorHitStep ==
  ASSUME Inv, NEW r \in Req, VectorHit(r)
  PROVE  Inv'
<1> DEFINE v == vectors[EmbeddingKey(r)]
<1>1. EmbeddingKey(r) \in EmbKey /\ v # NoVec
  BY KeysFit DEF Inv, VectorHit
<1>2. v = [model |-> model, query |-> req[r].query] /\ v \in Vector \union {NoVec}
  BY <1>1, KeysFit DEF Inv, TypeOK, VectorsFit
<1>3. /\ UNCHANGED <<clock, model, answers, vectors>>
      /\ req[r] \in Request /\ req' = [req EXCEPT ![r] = req'[r]]
      /\ req'[r] = [req[r] EXCEPT !.pc = "search", !.vec = v]
  BY DEF Inv, TypeOK, VectorHit
<1> HIDE DEF v
<1>4. req'[r] \in Request
  BY <1>2, <1>3 DEF Request
<1>5. RequestFits(r)'
  BY <1>2, <1>3 DEF RequestFits, Working, Request
<1> QED BY <1>3, <1>4, <1>5, CachesKept, OneRequest

LEMMA EmbedStep ==
  ASSUME Inv, NEW r \in Req, Embed(r)
  PROVE  Inv'
<1> DEFINE v == [model |-> model, query |-> req[r].query]
           k == EmbeddingKey(r)
<1>1. req[r] \in Request /\ req[r].query \in Query
  BY DEF Inv, TypeOK, Request
<1>2. k \in EmbKey /\ v \in Vector /\ v = [model |-> k.model, query |-> k.query]
  BY <1>1, KeysFit DEF Inv, TypeOK, Vector
<1>3. /\ UNCHANGED <<clock, model, answers>>
      /\ req' = [req EXCEPT ![r] = req'[r]]
      /\ req'[r] = [req[r] EXCEPT !.pc = "search", !.vec = v]
      /\ vectors' = [vectors EXCEPT ![k] = v] \/ vectors' = vectors
  BY DEF Inv, TypeOK, Embed
<1>4. v = [model |-> model, query |-> req[r].query]
  OBVIOUS
<1> HIDE DEF v, k
<1>5. req'[r] \in Request
  BY <1>1, <1>2, <1>3 DEF Request
<1>6. answers' \in [Key -> Entry \union {NoAnswer}]
      /\ vectors' \in [EmbKey -> Vector \union {NoVec}]
  BY <1>2, <1>3 DEF Inv, TypeOK
<1>7. AnswersFit'
  BY <1>3 DEF Inv, AnswersFit
<1>8. VectorsFit'
  BY <1>2, <1>3 DEF Inv, TypeOK, VectorsFit
<1>9. RequestFits(r)'
  BY <1>1, <1>3, <1>4 DEF RequestFits, Working, Request
<1> QED BY <1>3, <1>5, <1>6, <1>7, <1>8, <1>9, OneRequest

(* Search and SearchFails: a result of this moment, this question and this *)
(* scope.                                                                  *)
LEMMA SearchStep ==
  ASSUME Inv, NEW r \in Req, Search(r) \/ SearchFails(r)
  PROVE  Inv'
<1> DEFINE found(f) == [asof |-> clock, filter |-> Filter(req[r].header),
                        query |-> req[r].query, found |-> f]
<1>1. /\ UNCHANGED <<clock, model, answers, vectors>> /\ req[r].pc = "search"
      /\ req[r] \in Request /\ req[r].down \in BOOLEAN /\ req[r].query \in Query
      /\ req' = [req EXCEPT ![r] = req'[r]]
      /\ clock \in 0 .. MaxClock
  BY DEF Inv, TypeOK, Search, SearchFails, Request
<1>2. req[r].vec.query = req[r].query
  <2>1. req[r].vec = [model |-> model, query |-> req[r].query]
    BY <1>1 DEF Inv, RequestFits
  <2> QED BY <2>1
<1>3. \E f, b \in BOOLEAN :
        req'[r] = [req[r] EXCEPT !.pc = "generate", !.down = b, !.answer = found(f)]
  <2>1. CASE Search(r)
    <3>1. PICK f \in BOOLEAN :
            req'[r] = [req[r] EXCEPT !.pc = "generate", !.answer = found(f)]
      BY <1>2, <2>1 DEF Inv, TypeOK, Search
    <3> DEFINE a == found(f)
    <3> HIDE DEF a
    <3>2. [req[r] EXCEPT !.pc = "generate", !.answer = a]
            = [req[r] EXCEPT !.pc = "generate", !.down = req[r].down, !.answer = a]
      BY <1>1 DEF Request
    <3> QED BY <1>1, <3>1, <3>2 DEF a
  <2>2. CASE SearchFails(r)
    <3>1. req'[r] = [req[r] EXCEPT !.pc = "generate", !.down = TRUE, !.answer = found(FALSE)]
      BY <1>2, <2>2 DEF Inv, TypeOK, SearchFails
    <3> QED BY <3>1
  <2> QED BY <2>1, <2>2
<1>4. PICK f \in BOOLEAN, b \in BOOLEAN :
        req'[r] = [req[r] EXCEPT !.pc = "generate", !.down = b, !.answer = found(f)]
  BY <1>3
<1> DEFINE a == found(f)
<1>5. a \in Answer
  BY <1>1, KeysFit DEF Inv, Answer
<1>6. /\ a.asof = clock /\ a.query = req[r].query /\ a.filter = Filter(req[r].header)
      /\ req'[r] = [req[r] EXCEPT !.pc = "generate", !.down = b, !.answer = a]
  BY <1>4
<1> HIDE DEF a
<1>7. req'[r] \in Request
  BY <1>1, <1>5, <1>6 DEF Request
<1>8. clock <= clock + Patience
  BY <1>1, TimesAssumption
<1>9. RequestFits(r)'
  BY <1>1, <1>5, <1>6, <1>8 DEF RequestFits, Working, Request
<1> QED BY <1>1, <1>7, <1>9, CachesKept, OneRequest

LEMMA AnswerStep ==
  ASSUME Inv, NEW r \in Req, Generate(r) \/ ProviderFails(r)
  PROVE  Inv'
<1>1. PICK p \in {"store", "error"} :
        /\ UNCHANGED <<clock, model, answers, vectors>>
        /\ req' = [req EXCEPT ![r].pc = p]
        /\ p = "store" => req[r].pc = "generate"
  BY DEF Generate, ProviderFails
<1>2. /\ req[r] \in Request /\ req' = [req EXCEPT ![r] = req'[r]]
      /\ req'[r] = [req[r] EXCEPT !.pc = p]
  BY <1>1 DEF Inv, TypeOK
<1>3. req'[r] \in Request
  BY <1>2 DEF Request
<1>4. RequestFits(r)'
  BY <1>1, <1>2 DEF Inv, RequestFits, Working, Request
<1> QED BY <1>1, <1>2, <1>3, <1>4, CachesKept, OneRequest

LEMMA StoreStep ==
  ASSUME Inv, NEW r \in Req, StoreAnswer(r)
  PROVE  Inv'
<1> DEFINE k == AnswerKey(r)
           a == req[r].answer
           entry == [answer |-> a, expires |-> clock + AnswerTTL]
<1>1. /\ k \in Key /\ a \in Answer /\ a.query = k.query /\ a.filter = KeyFilter(k)
      /\ a.query = req[r].query /\ a.filter = Filter(req[r].header)
      /\ clock <= a.asof + Patience
  BY KeysFit DEF Inv, RequestFits, Working, StoreAnswer
<1>2. a.asof \in Nat /\ clock \in Nat /\ clock \in 0 .. MaxClock /\ req[r] \in Request
  BY <1>1, TimesAssumption DEF Inv, TypeOK, Answer
<1>3. /\ UNCHANGED <<clock, model, vectors>>
      /\ req' = [req EXCEPT ![r] = req'[r]]
      /\ req'[r] = [req[r] EXCEPT !.pc = "answered", !.at = clock]
      /\ answers' = [answers EXCEPT ![k] = entry] \/ answers' = answers
  BY DEF Inv, TypeOK, StoreAnswer
<1>4. entry.answer = a /\ entry.expires = clock + AnswerTTL /\ entry \in Entry
  BY <1>1, <1>2, TimesAssumption DEF Entry
<1>5. /\ clock < a.asof + Patience + AnswerTTL /\ clock < clock + AnswerTTL
      /\ clock + AnswerTTL <= a.asof + Patience + AnswerTTL
  BY <1>1, <1>2, TimesAssumption
<1> HIDE DEF k, entry
<1>6. req'[r] \in Request
  BY <1>2, <1>3 DEF Request
<1>7. answers' \in [Key -> Entry \union {NoAnswer}]
      /\ vectors' \in [EmbKey -> Vector \union {NoVec}]
  BY <1>1, <1>3, <1>4 DEF Inv, TypeOK
<1>8. AnswersFit'
  <2>1. ASSUME NEW x \in Key, answers'[x] # NoAnswer
        PROVE  /\ answers'[x].answer.query = x.query
               /\ answers'[x].answer.filter = KeyFilter(x)
               /\ clock < answers'[x].expires
               /\ answers'[x].expires <= answers'[x].answer.asof + Patience + AnswerTTL
    <3>1. CASE answers'[x] = answers[x]
      BY <2>1, <3>1 DEF Inv, AnswersFit
    <3>2. CASE x = k /\ answers'[x] = entry
      BY <1>1, <1>4, <1>5, <3>2
    <3> QED BY <1>3, <3>1, <3>2 DEF Inv, TypeOK
  <2> QED BY <1>3, <2>1 DEF AnswersFit
<1>9. VectorsFit'
  BY <1>3 DEF Inv, VectorsFit
<1>10. RequestFits(r)'
  BY <1>1, <1>2, <1>3, <1>5 DEF RequestFits, Working, Request
<1> QED BY <1>3, <1>6, <1>7, <1>8, <1>9, <1>10, OneRequest

-------------------------------------------------------------------------------

LEMMA NextInv == Inv /\ [Next]_vars => Inv'
<1> SUFFICES ASSUME Inv, [Next]_vars PROVE Inv'
  OBVIOUS
<1>1. CASE Tick
  BY <1>1, TickStep
<1>2. CASE Redeploy
  BY <1>2, RedeployStep
<1>3. ASSUME NEW r \in Req, NEW q \in Query, NEW h \in Headers, Ask(r, q, h)
      PROVE  Inv'
  BY <1>3, AskStep
<1>4. ASSUME NEW r \in Req, Handle(r)
      PROVE  Inv'
  BY <1>4, HitStep, MissStep, VectorHitStep, EmbedStep, SearchStep, AnswerStep, StoreStep DEF Handle
<1>5. CASE UNCHANGED vars
  BY <1>5 DEF vars, Inv, TypeOK, AnswersFit, VectorsFit, RequestFits, Working
<1> QED BY <1>1, <1>2, <1>3, <1>4, <1>5 DEF Next

THEOREM Invariant == Spec => []Inv
BY InitInv, NextInv, PTL DEF Spec

(* Requests, caches and clock stay what the handler and Redis make them.   *)
THEOREM TypeCorrect == Spec => []TypeOK
<1>1. Inv => TypeOK
  BY DEF Inv
<1> QED BY <1>1, Invariant, PTL

(* Every answer is one to the question asked, from a search limited as the *)
(* request is, whoever else's answer it was before (cache.answer_key).     *)
THEOREM AnswersInScope == Spec => []AnswerForItsScope
<1>1. Inv => AnswerForItsScope
  BY DEF Inv, RequestFits, AnswerForItsScope, Answered
<1> QED BY <1>1, Invariant, PTL

(* No answer is older than the lifetime of a cached one and the time its   *)
(* request took, however Redis fails and the service is redeployed.        *)
THEOREM AnswersRecent == Spec => []NotTooOld
<1>1. Inv => NotTooOld
  BY DEF Inv, RequestFits, NotTooOld, Answered
<1> QED BY <1>1, Invariant, PTL

(* No search runs with the embedding of another question or another model, *)
(* though the cache outlives deployments (cache.embedding_key).            *)
THEOREM VectorsMatch == Spec => []VectorOfThisModel
<1>1. Inv => VectorOfThisModel
  BY DEF Inv, RequestFits, VectorOfThisModel
<1> QED BY <1>1, Invariant, PTL
=============================================================================
