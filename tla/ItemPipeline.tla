----------------------------- MODULE ItemPipeline -----------------------------
(***************************************************************************)
(* One item on its way from its cleaned text to its rows: _process_jira_   *)
(* issue, _process_confluence_page and /ingest/document alike.  It is cut  *)
(* into chunks, they are embedded in batches, the item is classified, and  *)
(* the document is written with its chunks.  The AI services may fail at   *)
(* every call, or answer with fewer vectors than they were sent texts.     *)
(*                                                                         *)
(* A vector is named by the text, or the label, it embeds.                 *)
(***************************************************************************)
EXTENDS Chunker, Classifier

CONSTANTS
  Batch,        \* EMBEDDING_BATCH_SIZE
  Short,        \* may an embedding be missing from an answer?
  MaxFollowed   \* bound: windows and texts followed past the chunker

ASSUME ItemAssumption ==
  Batch \in Nat \ {0} /\ MaxFollowed \in Nat /\ Short \in BOOLEAN

VARIABLES
  stage,     \* the await the item is at, or how it ended
  sent,      \* how many chunks have been sent to be embedded
  vecs,      \* the vectors that came back
  cache,     \* the classifier's _node_embeddings, shared by the items of a run
  labels,    \* those this item uses
  value,     \* what the loop over the nodes has computed: scores, or similarities
  best,      \* the best of them, and whose it is
  class,     \* its classification
  stored     \* the rows written
item == <<stage, sent, vecs, cache, labels, value, best, class, stored>>
itemVars == <<vars, item>>

\* Before there is any: no list of vectors or class looks so.
Nothing == <<0>>
NoClass == [Fallback EXCEPT !.method = "none"]

\* The answer to k texts, sorted by the index each vector carries: all, in
\* order, or fewer.
\* Mutant: it is taken in the order it comes in.
All_Unsorted(k) == {s \in [1 .. k -> 1 .. k] : \A i, j \in 1 .. k : s[i] = s[j] => i = j}
All(k) == {[i \in 1 .. k |-> i]}
Fewer(k) == IF Short THEN {s \in UNION {[1 .. m -> 1 .. k] : m \in 0 .. k - 1} :
                             \A i, j \in DOMAIN s : i < j => s[i] < s[j]}
                     ELSE {}

ItemInit ==
  /\ Init
  /\ stage = "chunk"
  /\ sent = 0 /\ vecs = <<>>
  /\ cache = Nothing /\ labels = Nothing
  /\ value = <<>> /\ best = NoBest(0)
  /\ class = NoClass /\ stored = <<>>

-------------------------------------------------------------------------------
(* Chunks and vectors *)

ChunkStep == stage = "chunk" /\ Next /\ UNCHANGED item

\* No chunks: the item is skipped, or refused with a 422.
Chunked ==
  /\ stage = "chunk" /\ done
  /\ total <= MaxFollowed /\ window.width <= MaxFollowed
  /\ stage' = IF chunks = <<>> THEN "skipped" ELSE "embed"
  /\ UNCHANGED <<vars, sent, vecs, cache, labels, value, best, class, stored>>

\* One batch of embed_batch.
EmbedBatch ==
  LET k == Smaller(Batch, Len(chunks) - sent)
  IN  /\ stage = "embed" /\ sent < Len(chunks)
      /\ \E s \in All(k) \union Fewer(k) :
           vecs' = vecs \o [i \in DOMAIN s |-> sent + s[i]]
      /\ sent' = sent + k
      /\ UNCHANGED <<vars, stage, cache, labels, value, best, class, stored>>

\* The API fails, and the item with it.
EmbedFails ==
  /\ stage = "embed" /\ sent < Len(chunks)
  /\ stage' = "failed"
  /\ UNCHANGED <<vars, sent, vecs, cache, labels, value, best, class, stored>>

-------------------------------------------------------------------------------
(* classify() *)

Begin(lowest) == value' = <<>> /\ best' = NoBest(lowest)
Compare(v) ==
  /\ value' = Append(value, v)
  /\ best' = Better(best, Len(value) + 1, v)

\* Rules first: node by node its score, of which the highest counts.
Rules ==
  /\ stage = "embed" /\ sent = Len(chunks)
  /\ stage' = "rules" /\ Begin(0)
  /\ UNCHANGED <<vars, sent, vecs, cache, labels, class, stored>>

ScoreNode ==
  /\ stage = "rules" /\ Len(value) < Len(Nodes)
  /\ \E hits \in Scores : Compare(NodeScore(Len(value) + 1, hits))
  /\ UNCHANGED <<vars, stage, sent, vecs, cache, labels, class, stored>>

RuleMatch ==
  /\ stage = "rules" /\ Len(value) = Len(Nodes)
  /\ class' \in RuleMatches(best)
  /\ stage' = "store"
  /\ UNCHANGED <<vars, sent, vecs, cache, labels, value, best, stored>>

\* Without a match the semantic fallback, if it is switched on and there are
\* nodes, or else the LLM.
NoRuleMatch ==
  /\ stage = "rules" /\ Len(value) = Len(Nodes)
  /\ RuleMatches(best) = {}
  /\ stage' \in IF Label = {} THEN {"llm"} ELSE {"labels", "llm"}
  /\ Begin(0)
  /\ UNCHANGED <<vars, sent, vecs, cache, labels, class, stored>>

\* _ensure_node_embeddings: the vectors another item left, or an await.
ReadCache ==
  /\ stage = "labels"
  /\ IF cache = Nothing THEN stage' = "labelling" /\ UNCHANGED labels
                        ELSE stage' = "semantic" /\ labels' = cache
  /\ UNCHANGED <<vars, sent, vecs, cache, value, best, class, stored>>

FillCache ==
  /\ stage = "labelling"
  /\ cache' \in All(Len(Nodes)) \union Fewer(Len(Nodes))
  /\ labels' = cache'
  /\ stage' = "semantic"
  /\ UNCHANGED <<vars, sent, vecs, value, best, class, stored>>

\* Another item of the run that has found no vectors either, while this one
\* awaits; what it leaves once this one has read the cache is not seen.
OtherFills ==
  /\ stage \in {"embed", "labelling"}
  /\ cache' \in All(Len(Nodes)) \union Fewer(Len(Nodes))
  /\ UNCHANGED <<vars, stage, sent, vecs, labels, value, best, class, stored>>

\* The document has its vector: it is compared with those of the nodes.
Semantic ==
  /\ stage = "semantic" /\ labels # <<>>
  /\ stage' = "nearest" /\ Begin(-10000)
  /\ UNCHANGED <<vars, sent, vecs, cache, labels, class, stored>>

CompareVector ==
  /\ stage = "nearest" /\ Len(value) < Len(labels)
  /\ \E sim \in Sims : Compare(sim)
  /\ UNCHANGED <<vars, stage, sent, vecs, cache, labels, class, stored>>

SemanticMatch ==
  /\ stage = "nearest" /\ Len(value) = Len(labels)
  /\ class' \in SemanticMatches(best)
  /\ stage' = "store"
  /\ UNCHANGED <<vars, sent, vecs, cache, labels, value, best, stored>>

\* No vectors, none near enough, or an error of the API in either call, which
\* is caught: the LLM is asked.
NoSemanticMatch ==
  /\ \/ stage \in {"labelling", "semantic"}
     \/ stage = "nearest" /\ Len(value) = Len(labels) /\ SemanticMatches(best) = {}
  /\ stage' = "llm" /\ labels' = Nothing /\ Begin(0)
  /\ UNCHANGED <<vars, sent, vecs, cache, class, stored>>

\* embed_single takes the first of no vectors: that error is not.
NoVector ==
  /\ stage = "semantic" /\ Short
  /\ stage' = "failed"
  /\ UNCHANGED <<vars, sent, vecs, cache, labels, value, best, class, stored>>

\* An object with names, or nothing usable: a text that is no object, an
\* error of the API.
AskLLM ==
  /\ stage = "llm"
  /\ \/ \E p, f, c \in Names : class' \in LLMResults(p, f, c)
     \/ class' = Fallback
  /\ stage' = "store"
  /\ UNCHANGED <<vars, sent, vecs, cache, labels, value, best, stored>>

\* An answer without choices: the error is not among those caught.
NoChoices ==
  /\ stage = "llm"
  /\ stage' = "failed"
  /\ UNCHANGED <<vars, sent, vecs, cache, labels, value, best, class, stored>>

-------------------------------------------------------------------------------
\* A record per chunk, with the vector of its position - embeddings[i] fails
\* where there is none - and the transaction that writes them.
Store ==
  /\ stage = "store"
  /\ IF Len(vecs) < Len(chunks)
     THEN stage' = "failed" /\ UNCHANGED stored
     ELSE /\ stage' = "stored"
          /\ stored' = [i \in DOMAIN chunks |->
                          [chunk |-> chunks[i], of |-> i, vector |-> vecs[i]]]
  /\ UNCHANGED <<vars, sent, vecs, cache, labels, value, best, class>>

ItemNext ==
  \/ ChunkStep \/ Chunked \/ EmbedBatch \/ EmbedFails
  \/ Rules \/ ScoreNode \/ RuleMatch \/ NoRuleMatch
  \/ ReadCache \/ FillCache \/ OtherFills
  \/ Semantic \/ CompareVector \/ SemanticMatch \/ NoSemanticMatch \/ NoVector
  \/ AskLLM \/ NoChoices \/ Store

ItemSpec == ItemInit /\ [][ItemNext]_itemVars
FairItemSpec == ItemSpec /\ WF_vars(ChunkStep)

-------------------------------------------------------------------------------
(* Properties. *)

Class == [place : Seq(Names), method : {"rule", "semantic", "llm", "fallback"},
          confidence : 0 .. 1000, needs_review : BOOLEAN]

ItemTypeOK ==
  /\ TypeOK
  /\ stage \in {"chunk", "embed", "rules", "labels", "labelling", "semantic", "nearest",
                "llm", "store", "stored", "skipped", "failed"}
  /\ sent \in Nat /\ vecs \in Seq(Nat)
  /\ cache = Nothing \/ cache \in Seq(Label)
  /\ labels = Nothing \/ labels \in Seq(Label)
  /\ value \in Seq(Int) /\ best \in [node : Label \union {0}, value : Int]
  /\ class = NoClass \/ class \in Class

(* What is stored of an item is its whole text, and every row has the      *)
(* vector of its own chunk, however the answers were cut short: a batch    *)
(* that misses a vector shifts those after it, and must not be written.    *)
RowsMatchVectors ==
  stage = "stored" =>
    /\ \A p \in 0 .. total - 1 :
         \E i \in DOMAIN stored : stored[i].chunk.from <= p /\ p < stored[i].chunk.to
    /\ \A i \in DOMAIN stored : stored[i].chunk.index = i - 1 /\ stored[i].vector = i

(* "Hierarchy consistency is always enforced": whatever the LLM answers, a *)
(* document is put at a path of the taxonomy, or in the catch-all.         *)
RealBranch == stage \in {"store", "stored"} => class.place \in Places

\* The value below which a node is not taken.
Enough == IF class.method = "rule" THEN RuleMinScore ELSE SemanticThreshold

(* A document is put at the node that suits it best, the first of them in  *)
(* the file, and at none that suits it too little: the rules go by score,  *)
(* the semantic stage's by similarity, when the vectors it uses - its own, *)
(* or another item's - are those of all labels.                            *)
BestNode ==
  /\ stage \in {"store", "stored"}
  /\ class.method = "rule" \/ (class.method = "semantic" /\ labels \in All(Len(Nodes)))
  => \E i \in Label :
       /\ class.place = Nodes[i]
       /\ value[i] >= Enough
       /\ \A j \in Label : value[j] <= value[i] /\ (j < i => value[j] < value[i])
=============================================================================
