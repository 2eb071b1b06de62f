------------------------------- MODULE QueryPath -------------------------------
(***************************************************************************)
(* POST /query of the query service: the answer cache, the embedding and   *)
(* its cache, the hybrid search, the reranking and the answer of the LLM,  *)
(* for requests served concurrently over an index that changes meanwhile.  *)
(* Both caches are Redis; they outlive the service.                        *)
(*                                                                         *)
(* An answer is represented by what it was made from: the moment of its    *)
(* search, the filter the search applied, and whether it found anything.   *)
(***************************************************************************)
EXTENDS Integers, FiniteSets

CONSTANTS
  Query,       \* questions; all requests ask for the same top_k, part of the key
  Name,        \* names a space, a project or a product may have
  NoName,      \* the empty string
  Absent,      \* the header is not sent
  Headers,     \* bound: the headers that are sent
  Model,       \* embedding models the service is deployed with
  NoVec,       \* no embedding
  NoAnswer,    \* no answer
  Req,         \* requests in flight
  AnswerTTL,   \* cache_answer_ttl, in ticks
  Patience,    \* what the timeouts leave a request after its search, in ticks
  MaxClock,    \* bound: ticks of the clock
  Faults       \* the failures that happen, out of AllFaults

AllFaults == {"redis", "db", "ai"}

\* What a request may be limited to.  _parse_header_list makes an empty list
\* of a header of nothing but commas.
List == {Absent} \union SUBSET Name
Header == [spaces : List, projects : List, product : Name \union {Absent, NoName}]
Unlimited == [spaces |-> Absent, projects |-> Absent, product |-> Absent]

ASSUME TimesAssumption == AnswerTTL \in Nat \ {0} /\ Patience \in Nat \ {0}
                          /\ MaxClock \in Nat
ASSUME QueryAssumption == Query # {} /\ Headers \subseteq Header
ASSUME FaultsAssumption == Faults \subseteq AllFaults

VARIABLES
  clock,    \* the time
  model,    \* the embedding model of the running service
  answers,  \* the answer cache
  vectors,  \* the embedding cache
  req       \* the requests
vars == <<clock, model, answers, vectors, req>>

\* The WHERE clause leaves out what is absent or empty.
Listed(list) == IF list = Absent THEN {} ELSE list
Filter(header) ==
  [spaces |-> Listed(header.spaces), projects |-> Listed(header.projects),
   product |-> IF header.product = NoName THEN Absent ELSE header.product]

Vector == [model : Model, query : Query]
Scope == [spaces : SUBSET Name, projects : SUBSET Name, product : Name \union {Absent, NoName}]
Answer == [asof : 0 .. MaxClock, filter : Scope, query : Query, found : BOOLEAN]
Key == [query : Query, scope : Scope]
EmbKey == [model : Model, query : Query]

Fresh == [pc |-> "idle", query |-> CHOOSE q \in Query : TRUE, header |-> Unlimited,
          vec |-> NoVec, answer |-> NoAnswer, down |-> FALSE, at |-> 0]

Request == [pc : {"idle", "lookup", "vector", "embed", "search", "generate",
                  "store", "answered", "error"},
            query : Query, header : Header, vec : Vector \union {NoVec},
            answer : Answer \union {NoAnswer}, down : BOOLEAN, at : 0 .. MaxClock]
Entry == [answer : Answer, expires : Nat]

TypeOK ==
  /\ clock \in 0 .. MaxClock
  /\ model \in Model
  /\ answers \in [Key -> Entry \union {NoAnswer}]
  /\ vectors \in [EmbKey -> Vector \union {NoVec}]
  /\ req \in [Req -> Request]

\* Mutant: the names of both lists are put in one.
AnswerKey_OneList(r) ==
  LET h == req[r].header
  IN  [query |-> req[r].query,
       scope |-> [spaces |-> Listed(h.spaces) \union Listed(h.projects), projects |-> {},
                  product |-> h.product]]
\* sorted(... or []): an absent header and an empty list give the same key;
\* an absent and an empty product do not.
AnswerKey(r) ==
  LET h == req[r].header
  IN  [query |-> req[r].query,
       scope |-> [spaces |-> Listed(h.spaces), projects |-> Listed(h.projects),
                  product |-> h.product]]

\* Mutant: the model is left out of the key.
EmbeddingKey_NoModel(r) == [model |-> CHOOSE m \in Model : TRUE, query |-> req[r].query]
EmbeddingKey(r) == [model |-> model, query |-> req[r].query]

Init ==
  /\ clock = 0
  /\ model \in Model
  /\ answers = [k \in Key |-> NoAnswer]
  /\ vectors = [k \in EmbKey |-> NoVec]
  /\ req = [r \in Req |-> Fresh]

-------------------------------------------------------------------------------
(* Around the service. *)

\* A request that has searched, and has not answered yet.
Working(r) == req[r].pc \in {"generate", "store"}

\* Time passes, and the index may change; Redis drops what has expired.
Tick ==
  /\ clock < MaxClock
  /\ \A r \in Req : Working(r) => clock < req[r].answer.asof + Patience
  /\ clock' = clock + 1
  /\ answers' = [k \in Key |-> IF answers[k] # NoAnswer /\ answers[k].expires <= clock + 1
                               THEN NoAnswer ELSE answers[k]]
  /\ UNCHANGED <<model, vectors, req>>

\* The service restarts, possibly with another model; Redis does not.
Redeploy ==
  /\ model' \in Model
  /\ req' = [r \in Req |-> Fresh]
  /\ UNCHANGED <<clock, answers, vectors>>

Ask(r, q, h) ==
  /\ req[r].pc \in {"idle", "answered", "error"}
  /\ req' = [req EXCEPT ![r] = [Fresh EXCEPT !.pc = "lookup", !.query = q, !.header = h]]
  /\ UNCHANGED <<clock, model, answers, vectors>>

-------------------------------------------------------------------------------
(* The handler. *)

RedisFails == "redis" \in Faults

\* A hit is returned as it is.
AnswerHit(r) ==
  /\ req[r].pc = "lookup"
  /\ answers[AnswerKey(r)] # NoAnswer
  /\ req' = [req EXCEPT ![r].pc = "answered", ![r].at = clock,
                        ![r].answer = answers[AnswerKey(r)].answer]
  /\ UNCHANGED <<clock, model, answers, vectors>>

\* A miss, or any error of Redis.
AnswerMiss(r) ==
  /\ req[r].pc = "lookup"
  /\ answers[AnswerKey(r)] = NoAnswer \/ RedisFails
  /\ req' = [req EXCEPT ![r].pc = "vector"]
  /\ UNCHANGED <<clock, model, answers, vectors>>

VectorHit(r) ==
  /\ req[r].pc = "vector"
  /\ vectors[EmbeddingKey(r)] # NoVec
  /\ req' = [req EXCEPT ![r].pc = "search", ![r].vec = vectors[EmbeddingKey(r)]]
  /\ UNCHANGED <<clock, model, answers, vectors>>

VectorMiss(r) ==
  /\ req[r].pc = "vector"
  /\ vectors[EmbeddingKey(r)] = NoVec \/ RedisFails
  /\ req' = [req EXCEPT ![r].pc = "embed"]
  /\ UNCHANGED <<clock, model, answers, vectors>>

\* The provider embeds the question; the vector is stored if Redis lets us.
Embed(r) ==
  LET v == [model |-> model, query |-> req[r].query]
  IN  /\ req[r].pc = "embed"
      /\ req' = [req EXCEPT ![r].pc = "search", ![r].vec = v]
      /\ \/ vectors' = [vectors EXCEPT ![EmbeddingKey(r)] = v]
         \/ RedisFails /\ UNCHANGED vectors
      /\ UNCHANGED <<clock, model, answers>>

\* Mutant: a result is dated by when its answer expires.
Search_DatedAhead(r) ==
  /\ req[r].pc = "search"
  /\ \E found \in BOOLEAN :
       req' = [req EXCEPT ![r].pc = "generate",
         ![r].answer = [asof |-> clock + AnswerTTL, filter |-> Filter(req[r].header),
                        query |-> req[r].vec.query, found |-> found]]
  /\ UNCHANGED <<clock, model, answers, vectors>>

\* hybrid_search and, from the rows it returned, the order of rerank, which
\* keeps the order it has when the LLM fails it.
Search(r) ==
  /\ req[r].pc = "search"
  /\ \E found \in BOOLEAN :
       req' = [req EXCEPT ![r].pc = "generate",
         ![r].answer = [asof |-> clock, filter |-> Filter(req[r].header),
                        query |-> req[r].vec.query, found |-> found]]
  /\ UNCHANGED <<clock, model, answers, vectors>>

\* A statement that fails is logged, and gives no rows.
SearchFails(r) ==
  /\ "db" \in Faults
  /\ req[r].pc = "search"
  /\ req' = [req EXCEPT ![r].pc = "generate", ![r].down = TRUE,
       ![r].answer = [asof |-> clock, filter |-> Filter(req[r].header),
                      query |-> req[r].vec.query, found |-> FALSE]]
  /\ UNCHANGED <<clock, model, answers, vectors>>

\* The answer of the LLM - or the sentence that there is nothing, without it.
Generate(r) ==
  /\ req[r].pc = "generate"
  /\ req' = [req EXCEPT ![r].pc = "store"]
  /\ UNCHANGED <<clock, model, answers, vectors>>

\* Mutant: no expiry is given to Redis.
StoreAnswer_Forever(r) ==
  /\ req[r].pc = "store"
  /\ \/ answers' = [answers EXCEPT ![AnswerKey(r)] =
                      [answer |-> req[r].answer, expires |-> MaxClock + 1]]
     \/ RedisFails /\ UNCHANGED answers
  /\ req' = [req EXCEPT ![r].pc = "answered", ![r].at = clock]
  /\ UNCHANGED <<clock, model, vectors>>

\* Whatever the answer, it is stored if Redis lets us, and returned.
StoreAnswer(r) ==
  /\ req[r].pc = "store"
  /\ \/ answers' = [answers EXCEPT ![AnswerKey(r)] =
                      [answer |-> req[r].answer, expires |-> clock + AnswerTTL]]
     \/ RedisFails /\ UNCHANGED answers
  /\ req' = [req EXCEPT ![r].pc = "answered", ![r].at = clock]
  /\ UNCHANGED <<clock, model, vectors>>

\* An error of the provider leaves the handler: 500.
ProviderFails(r) ==
  /\ "ai" \in Faults
  /\ \/ req[r].pc = "embed"
     \/ req[r].pc = "generate" /\ req[r].answer.found
  /\ req' = [req EXCEPT ![r].pc = "error"]
  /\ UNCHANGED <<clock, model, answers, vectors>>

-------------------------------------------------------------------------------

Handle(r) ==
  \/ AnswerHit(r) \/ AnswerMiss(r) \/ VectorHit(r) \/ VectorMiss(r)
  \/ Embed(r)     \/ Search(r)     \/ SearchFails(r)
  \/ Generate(r)  \/ StoreAnswer(r) \/ ProviderFails(r)

Next ==
  \/ Tick \/ Redeploy
  \/ \E r \in Req : \/ \E q \in Query, h \in Headers : Ask(r, q, h)
                    \/ Handle(r)

Spec == Init /\ [][Next]_vars

-------------------------------------------------------------------------------
(* Properties. *)

Answered(r) == req[r].pc = "answered"

(* An answer, cached or not, is an answer to the question that was asked,  *)
(* from a search limited exactly as this request is: of requests that      *)
(* share an entry of the cache none sees more, or less, than its own.      *)
AnswerForItsScope ==
  \A r \in Req : Answered(r) => /\ req[r].answer.query = req[r].query
                                /\ req[r].answer.filter = Filter(req[r].header)

(* config.py:67, "Answers can change as the corpus is re-indexed": nobody  *)
(* is told what was found longer ago than the lifetime of a cached answer, *)
(* plus the time the request that made it took; redeploys and failures of  *)
(* Redis make it no longer.                                                *)
NotTooOld ==
  \A r \in Req : Answered(r) => req[r].at < req[r].answer.asof + Patience + AnswerTTL

(* The search is given the embedding of this question by the model that    *)
(* runs now, though the cache holds those of earlier deployments.          *)
VectorOfThisModel ==
  \A r \in Req : req[r].pc = "search" => req[r].vec = [model |-> model, query |-> req[r].query]

(* TESTING.md:210, "DB down -> query returns a 500 error envelope".        *)
OutageIsAnError == \A r \in Req : req[r].down => ~Answered(r)
=============================================================================
