-------------------------- MODULE ItemPipelineProofs --------------------------
(***************************************************************************)
(* Theorems about ItemPipeline, for every text, window, batch size and     *)
(* taxonomy, and whatever the AI services answer.                          *)
(***************************************************************************)
EXTENDS ItemPipeline, ChunkerProofs

\* What is known of the chunks.
ChunksRight ==
  /\ Inv
  /\ \A i \in DOMAIN chunks : chunks[i].index = i - 1
  /\ stage # "chunk" => done

\* As long as no vector is missing, each is where its text is.
Aligned ==
  /\ sent \in 0 .. Len(chunks) /\ vecs \in Seq(Nat)
  /\ Len(vecs) <= sent
  /\ Len(vecs) = sent => \A i \in 1 .. sent : vecs[i] = i
  /\ stage = "chunk" => sent = 0 /\ vecs = <<>>
  /\ stage \notin {"chunk", "embed", "skipped", "failed"} => sent = Len(chunks)

Rows == [i \in DOMAIN chunks |-> [chunk |-> chunks[i], of |-> i, vector |-> vecs[i]]]

RowsRight == stage = "stored" => stored = Rows /\ Len(vecs) = Len(chunks)

\* Of the nodes compared so far none is better than the best, and none
\* before it as good.
BestSoFar ==
  /\ best.node \in 0 .. Len(value)
  /\ \A j \in 1 .. Len(value) : value[j] <= best.value
  /\ best.node # 0 =>
       /\ value[best.node] = best.value
       /\ \A j \in 1 .. Len(value) : j < best.node => value[j] < best.value

\* Vectors of labels, no more of them than nodes.
LabelVectors(l) == l \in Seq(Label) /\ Len(l) <= Len(Nodes)

\* The semantic stage has vectors to look at.
LabelsRead ==
  /\ cache # Nothing => LabelVectors(cache)
  /\ stage \in {"semantic", "nearest"} => LabelVectors(labels)

Compared ==
  /\ stage = "rules" => Len(value) <= Len(Nodes)
  /\ stage = "nearest" => Len(value) <= Len(labels)

\* Which node has been taken.
FromBest ==
  /\ class.method \in {"rule", "semantic"} => best.node \in Label /\ class.place = Nodes[best.node]
  /\ class.method = "rule" => Len(value) = Len(Nodes) /\ best.value >= RuleMinScore
  /\ class.method = "semantic" =>
       LabelVectors(labels) /\ Len(value) = Len(labels) /\ best.value >= SemanticThreshold

TenThousandths == 0 .. 10000

ClassRight ==
  stage \in {"store", "stored"} =>
    class \in Class /\ class.place \in Places /\ FromBest

IInv ==
  /\ ItemTypeOK /\ ChunksRight /\ Aligned /\ RowsRight
  /\ BestSoFar /\ LabelsRead /\ Compared /\ ClassRight

-------------------------------------------------------------------------------
(* What the services answer, and what is made of it *)

(* A full answer names every text in its place; a shorter one is shorter.  *)
LEMMA AnswerType ==
  ASSUME NEW k \in Nat, NEW s \in All(k) \union Fewer(k)
  PROVE  /\ s \in Seq(1 .. k) /\ Len(s) <= k
         /\ Len(s) = k => \A i \in 1 .. k : s[i] = i
<1>1. CASE s \in All(k)
  <2>1. s = [i \in 1 .. k |-> i]
    BY <1>1 DEF All
  <2>2. s \in [1 .. k -> 1 .. k] /\ \A i \in 1 .. k : s[i] = i
    BY <2>1
  <2>3. s \in Seq(1 .. k) /\ Len(s) = k
    BY <2>2
  <2> QED BY <2>2, <2>3
<1>2. CASE s \in Fewer(k)
  <2>1. PICK m \in 0 .. k - 1 : s \in [1 .. m -> 1 .. k]
    BY <1>2 DEF Fewer
  <2>2. s \in Seq(1 .. k) /\ Len(s) = m
    BY <2>1
  <2> QED BY <2>1, <2>2
<1> QED BY <1>1, <1>2

LEMMA LabelType == Len(Nodes) \in Nat /\ Label = 1 .. Len(Nodes)
<1>1. Nodes \in Seq(Seq(Names))
  BY TaxonomyAssumption
<1> QED BY <1>1, LenProperties DEF Label

LEMMA PlaceType ==
  /\ Places \subseteq Seq(Names)
  /\ \A i \in Label : Nodes[i] \in Places
<1>1. \A i \in Label : Nodes[i] \in Seq(Names)
  <2>1. Nodes \in Seq(Seq(Names))
    BY TaxonomyAssumption
  <2> QED BY <2>1, LabelType, ElementOfSeq
<1>2. General \in Seq(Names) /\ Uncategorized \in Seq(Names)
  BY TaxonomyAssumption DEF General, Uncategorized
<1>3. CatchAll \subseteq {General, Uncategorized}
  BY TaxonomyAssumption
<1> QED BY <1>1, <1>2, <1>3 DEF Places, Branches

(* A result is in the range of the confidences.                            *)
LEMMA ResultType ==
  ASSUME NEW place \in Places, NEW c \in TenThousandths,
         NEW method \in {"rule", "semantic", "llm"},
         NEW x \in Results(place, c, method)
  PROVE  x \in Class /\ x.place = place /\ x.method = method
<1> DEFINE low == c < ReviewThreshold
<1>1. PICK t \in Rounded(c) :
        x = [place |-> place, method |-> method, confidence |-> t, needs_review |-> low]
  BY DEF Results
<1>2. t \in Int /\ 10 * t <= c + 5 /\ c <= 10 * t + 5
  <2>1. t \in c \div 10 .. c \div 10 + 1 /\ 10 * t - c \in -5 .. 5
    BY <1>1 DEF Rounded
  <2>2. c \div 10 \in Int /\ c \in Int
    BY DEF TenThousandths
  <2>3. t \in Int
    BY <2>1, <2>2
  <2> QED BY <2>1, <2>2, <2>3
<1>3. t \in 0 .. 1000
  <2>1. 0 <= c /\ c <= 10000 /\ c \in Int
    BY DEF TenThousandths
  <2>2. 10 * t <= 10005 /\ 0 <= 10 * t + 5
    BY <1>2, <2>1
  <2> QED BY <1>2, <2>2
<1>4. place \in Seq(Names)
  BY PlaceType
<1>5. low \in BOOLEAN
  OBVIOUS
<1>6. method \in {"rule", "semantic", "llm", "fallback"}
  OBVIOUS
<1> HIDE DEF low
<1> QED BY <1>1, <1>3, <1>4, <1>5, <1>6 DEF Class

LEMMA RuleType ==
  ASSUME NEW b, b.node \in 0 .. Len(Nodes), b.value \in Int, NEW x \in RuleMatches(b)
  PROVE  /\ x \in Class /\ x.method = "rule" /\ b.value >= RuleMinScore
         /\ b.node \in Label /\ x.place = Nodes[b.node]
<1> DEFINE v == b.value
<1>1. /\ b.node # 0 /\ ~(v < RuleMinScore)
      /\ x \in Results(Nodes[b.node], RuleConfidence(v), "rule")
  BY DEF RuleMatches
<1>2. RuleMinScore \in Nat /\ v \in Int
  BY NumbersAssumption2
<1>3. b.node \in Label /\ Nodes[b.node] \in Places
  <2>1. b.node \in Label
    BY <1>1, LabelType
  <2> QED BY <2>1, PlaceType
<1> HIDE DEF v
<1>4. v \in Nat /\ v >= RuleMinScore
  BY <1>1, <1>2
<1>5. RuleConfidence(v) \in TenThousandths
  BY <1>4 DEF RuleConfidence, Min2, TenThousandths
<1>6. x \in Class /\ x.place = Nodes[b.node] /\ x.method = "rule"
  BY <1>1, <1>3, <1>5, ResultType
<1> QED BY <1>3, <1>4, <1>6 DEF v

LEMMA SemanticType ==
  ASSUME NEW b, b.node \in 0 .. Len(Nodes), b.value \in Int, NEW x \in SemanticMatches(b)
  PROVE  /\ x \in Class /\ x.method = "semantic" /\ b.value >= SemanticThreshold
         /\ b.node \in Label /\ x.place = Nodes[b.node]
<1> DEFINE v == b.value
<1>1. /\ b.node # 0 /\ ~(v < SemanticThreshold)
      /\ x \in Results(Nodes[b.node], Min2(9000, Max2(5000, v)), "semantic")
  BY DEF SemanticMatches
<1>2. SemanticThreshold \in Nat /\ v \in Int
  BY NumbersAssumption2
<1>3. b.node \in Label /\ Nodes[b.node] \in Places
  <2>1. b.node \in Label
    BY <1>1, LabelType
  <2> QED BY <2>1, PlaceType
<1> HIDE DEF v
<1>4. v >= SemanticThreshold
  BY <1>1, <1>2
<1>5. Min2(9000, Max2(5000, v)) \in TenThousandths
  BY <1>2 DEF Min2, Max2, TenThousandths
<1>6. x \in Class /\ x.place = Nodes[b.node] /\ x.method = "semantic"
  BY <1>1, <1>3, <1>5, ResultType
<1> QED BY <1>3, <1>4, <1>6 DEF v

(* One more node is compared.                                              *)
LEMMA BestNext ==
  ASSUME value \in Seq(Int), best \in [node : Label \union {0}, value : Int], BestSoFar,
         Len(value) < Len(Nodes), NEW v \in Int, Compare(v)
  PROVE  /\ value' \in Seq(Int) /\ Len(value') = Len(value) + 1
         /\ best' \in [node : Label \union {0}, value : Int] /\ BestSoFar'
<1> DEFINE n == Len(value)
<1>1. n \in Nat /\ Len(Nodes) \in Nat /\ n + 1 \in Label
  BY LabelType
<1>2. /\ value' \in Seq(Int) /\ Len(value') = n + 1 /\ value'[n + 1] = v
      /\ \A j \in 1 .. n : value'[j] = value[j] /\ value[j] \in Int
  <2>1. value' = Append(value, v)
    BY DEF Compare
  <2> QED BY <2>1
<1>3. /\ best.node \in 0 .. n /\ best.value \in Int
      /\ \A j \in 1 .. n : value[j] <= best.value
      /\ best.node # 0 =>
           /\ value[best.node] = best.value
           /\ \A j \in 1 .. n : j < best.node => value[j] < best.value
  BY DEF BestSoFar
<1>4. best' = IF v > best.value THEN [node |-> n + 1, value |-> v] ELSE best
  BY DEF Compare, Better
<1> HIDE DEF n
<1>5. CASE v > best.value
  <2>1. best' = [node |-> n + 1, value |-> v]
    BY <1>4, <1>5
  <2>2. best'.node = n + 1 /\ best'.value = v
    BY <2>1
  <2>3. \A j \in 1 .. n : value'[j] < v
    BY <1>2, <1>3, <1>5
  <2>4. \A j \in 1 .. n + 1 : j = n + 1 \/ j \in 1 .. n
    BY <1>1
  <2>5. n + 1 \in 0 .. n + 1 /\ n + 1 # 0 /\ \A j \in 1 .. n + 1 : ~(j < n + 1) <=> j = n + 1
    BY <1>1
  <2>6. \A j \in 1 .. n + 1 : value'[j] <= v /\ (j < n + 1 => value'[j] < v)
    BY <1>2, <2>3, <2>4, <2>5
  <2>7. BestSoFar'
    BY <1>2, <2>2, <2>5, <2>6 DEF BestSoFar
  <2> QED BY <1>1, <1>2, <2>1, <2>7 DEF n
<1>6. CASE ~(v > best.value)
  <2>1. best' = best
    BY <1>4, <1>6
  <2>2. \A j \in 1 .. n + 1 : j = n + 1 \/ j \in 1 .. n
    BY <1>1
  <2>3. v <= best.value
    BY <1>3, <1>6
  <2>4. \A j \in 1 .. n + 1 : value'[j] <= best.value
    BY <1>2, <1>3, <2>2, <2>3
  <2>5. best.node # 0 =>
          /\ value'[best.node] = best.value
          /\ \A j \in 1 .. n + 1 : j < best.node => value'[j] < best.value
    <3> SUFFICES ASSUME best.node # 0
                 PROVE  /\ value'[best.node] = best.value
                        /\ \A j \in 1 .. n + 1 : j < best.node => value'[j] < best.value
      OBVIOUS
    <3>1. best.node \in 1 .. n
      BY <1>1, <1>3
    <3>2. \A j \in 1 .. n + 1 : j < best.node => j \in 1 .. n
      BY <1>1, <3>1
    <3> QED BY <1>2, <1>3, <3>1, <3>2
  <2>6. best.node \in 0 .. n + 1
    BY <1>1, <1>3
  <2>7. BestSoFar'
    BY <1>2, <2>1, <2>4, <2>5, <2>6 DEF BestSoFar
  <2> QED BY <1>2, <2>1, <2>7 DEF n
<1> QED BY <1>5, <1>6

(* Before the first is.                                                    *)
LEMMA BestBegins ==
  ASSUME NEW lowest \in Int, Begin(lowest)
  PROVE  /\ value' \in Seq(Int) /\ Len(value') = 0
         /\ best' \in [node : Label \union {0}, value : Int] /\ BestSoFar'
BY DEF Begin, NoBest, BestSoFar

(* What is left of the answer of the LLM is a path of the file.            *)
LEMMA ValidateType ==
  ASSUME NEW p, NEW f, NEW c
  PROVE  Validate(p, f, c) \in Places
BY DEF Validate, Places

LEMMA LLMType ==
  ASSUME NEW p, NEW f, NEW c, NEW x \in LLMResults(p, f, c)
  PROVE  x \in Class /\ x.place \in Places /\ x.method = "llm"
<1> DEFINE place == Validate(p, f, c)
           confidence == IF FullyValid(p, f, c) THEN 7000 ELSE 5000
           capped == IF place[1] = "General" THEN Min2(confidence, 3000) ELSE confidence
<1>1. x \in Results(place, capped, "llm")
  BY DEF LLMResults
<1>2. capped \in TenThousandths
  BY DEF Min2, TenThousandths
<1> HIDE DEF place, capped
<1>3. place \in Places
  BY ValidateType DEF place
<1> QED BY <1>1, <1>2, <1>3, ResultType

LEMMA FallbackType ==
  Fallback \in Class /\ Fallback.place \in Places /\ Fallback.method = "fallback"
<1>1. Uncategorized \in Places
  BY DEF Places
<1>2. Uncategorized \in Seq(Names)
  BY <1>1, PlaceType
<1> QED BY <1>1, <1>2 DEF Fallback, Class

-------------------------------------------------------------------------------
(* The chunker *)

LEMMA ChunkerStays ==
  ASSUME Inv, UNCHANGED vars
  PROVE  Inv'
BY DEF vars, Inv, TypeOK, Advances, Position, Last, CoveredSoFar, NoRedundantChunk,
       NeighboursOverlap

LEMMA ChunksStay ==
  ASSUME ChunksRight, UNCHANGED vars, stage # "chunk"
  PROVE  ChunksRight'
BY ChunkerStays DEF ChunksRight, vars

LEMMA ChunkerStep ==
  ASSUME ChunksRight, Next, UNCHANGED stage, stage = "chunk"
  PROVE  ChunksRight'
<1>1. Inv'
  BY IterateInv, ExitInv DEF ChunksRight, Next
<1>2. \A i \in DOMAIN chunks' : chunks'[i].index = i - 1
  <2>1. CASE Exit
    BY <2>1 DEF Exit, ChunksRight
  <2>2. CASE Iterate
    <3>1. PICK to : chunks' = Append(chunks, [index |-> Len(chunks), from |-> start, to |-> to])
      BY <2>2 DEF Iterate
    <3> DEFINE new == [index |-> Len(chunks), from |-> start, to |-> to]
    <3>2. chunks \in Seq(Span) /\ chunks' \in Seq(Span)
      BY <1>1 DEF ChunksRight, Inv, TypeOK
    <3>3. chunks' = chunks \o <<new>> /\ new.index = Len(chunks)
      BY <3>1, <3>2
    <3>4. /\ Len(chunks) \in Nat /\ DOMAIN chunks = 1 .. Len(chunks)
          /\ DOMAIN chunks' = 1 .. Len(chunks) + 1
          /\ chunks'[Len(chunks) + 1] = new
          /\ \A i \in 1 .. Len(chunks) : chunks'[i] = chunks[i]
      BY <3>1, <3>2, LenProperties
    <3> HIDE DEF new
    <3> QED BY <3>3, <3>4 DEF ChunksRight
  <2> QED BY <2>1, <2>2 DEF Next
<1> QED BY <1>1, <1>2 DEF ChunksRight

(* To the item, the chunker is what it is alone: its module's theorems     *)
(* hold of it.                                                             *)
THEOREM ItemRunsChunker == ItemSpec => Spec
<1>1. ItemInit => Init
  BY DEF ItemInit
<1>2. [ItemNext]_itemVars => [Next]_vars
  BY DEF ItemNext, itemVars, vars, ChunkStep, Chunked, EmbedBatch, EmbedFails, Rules,
         ScoreNode, RuleMatch, NoRuleMatch, ReadCache, FillCache, OtherFills, Semantic,
         CompareVector, SemanticMatch, NoSemanticMatch, NoVector, AskLLM, NoChoices, Store
<1> QED BY <1>1, <1>2, PTL DEF ItemSpec, Spec

-------------------------------------------------------------------------------
(* The item *)

LEMMA ItemInitInv == ItemInit => IInv
<1> SUFFICES ASSUME ItemInit PROVE IInv
  OBVIOUS
<1>1. Inv /\ chunks = <<>> /\ Len(chunks) = 0 /\ DOMAIN chunks = {}
  BY InitInv DEF ItemInit, Init
<1>2. vecs = <<>> /\ vecs \in Seq(Nat) /\ Len(vecs) = 0
  BY EmptySeq DEF ItemInit
<1>3. value = <<>> /\ best = [node |-> 0, value |-> 0]
  BY DEF ItemInit, NoBest
<1>4. ItemTypeOK
  BY <1>1, <1>2, <1>3 DEF ItemInit, ItemTypeOK, Inv
<1>5. BestSoFar
  BY <1>3 DEF BestSoFar
<1> QED BY <1>1, <1>2, <1>4, <1>5 DEF ItemInit, IInv, LabelsRead, ChunksRight, Aligned,
                                     RowsRight, ClassRight, Compared

LEMMA ChunkStepInv ==
  ASSUME IInv, ChunkStep
  PROVE  IInv'
<1>1. stage = "chunk" /\ Next /\ UNCHANGED item
  BY DEF ChunkStep
<1>2. ChunksRight'
  BY <1>1, ChunkerStep DEF IInv, item
<1>3. ItemTypeOK'
  BY <1>1, <1>2 DEF IInv, ItemTypeOK, item, ChunksRight, Inv
<1>4. Aligned'
  <2>1. chunks' \in Seq(Span)
    BY <1>2 DEF ChunksRight, Inv, TypeOK
  <2>2. Len(chunks') \in Nat
    BY <2>1, LenProperties
  <2> QED BY <1>1, <2>2, EmptySeq DEF IInv, Aligned, item
<1> QED BY <1>1, <1>2, <1>3, <1>4 DEF IInv, LabelsRead, BestSoFar, Compared, RowsRight, ClassRight, item

\* A step of the item itself, past the chunker.
LEMMA ItemStepKeeps ==
  ASSUME IInv, stage # "chunk", stage' # "chunk", UNCHANGED vars
  PROVE  ChunksRight' /\ TypeOK'
<1>1. ChunksRight'
  BY ChunksStay DEF IInv, ChunksRight, vars
<1> QED BY <1>1 DEF IInv, ChunksRight, Inv, ItemTypeOK

LEMMA ChunkedInv ==
  ASSUME IInv, Chunked
  PROVE  IInv'
<1>1. /\ stage = "chunk" /\ done /\ stage' \in {"skipped", "embed"}
      /\ UNCHANGED <<vars, sent, vecs, cache, labels, value, best, class, stored>>
  BY DEF Chunked
<1>2. ChunksRight'
  BY <1>1, ChunkerStays DEF IInv, ChunksRight, vars
<1>3. ItemTypeOK'
  BY <1>1, <1>2 DEF IInv, ItemTypeOK, ChunksRight, Inv
<1> QED BY <1>1, <1>2, <1>3 DEF IInv, LabelsRead, BestSoFar, Compared, Aligned, RowsRight, ClassRight, vars

(* The vectors of a batch go where its texts are, unless one is missing.   *)
LEMMA EmbedBatchInv ==
  ASSUME IInv, EmbedBatch
  PROVE  IInv'
<1> DEFINE k == Smaller(Batch, Len(chunks) - sent)
<1>1. /\ stage = "embed" /\ sent < Len(chunks) /\ sent' = sent + k
      /\ UNCHANGED <<vars, stage, cache, labels, value, best, class, stored>>
  BY DEF EmbedBatch
<1>2. PICK s \in All(k) \union Fewer(k) : vecs' = vecs \o [i \in DOMAIN s |-> sent + s[i]]
  BY DEF EmbedBatch
<1>3. /\ Len(chunks) \in Nat /\ sent \in Nat
      /\ vecs \in Seq(Nat) /\ Len(vecs) \in Nat /\ Len(vecs) <= sent
      /\ Len(vecs) = sent => \A i \in 1 .. sent : vecs[i] = i
  <2>1. chunks \in Seq(Span) /\ vecs \in Seq(Nat)
    BY DEF IInv, ChunksRight, Inv, TypeOK, Aligned
  <2> QED BY <2>1, LenProperties DEF IInv, Aligned
<1>4. k \in Nat \ {0} /\ sent + k <= Len(chunks)
  BY <1>1, <1>3, ItemAssumption DEF Smaller
<1> HIDE DEF k
<1> DEFINE t == [i \in DOMAIN s |-> sent + s[i]]
<1>5. /\ t \in Seq(Nat) /\ Len(t) \in Nat /\ Len(t) <= k
      /\ Len(t) = k => \A i \in 1 .. k : t[i] = sent + i
  <2>1. /\ s \in Seq(1 .. k) /\ Len(s) <= k
        /\ Len(s) = k => \A i \in 1 .. k : s[i] = i
    BY <1>2, <1>4, AnswerType
  <2>2. Len(s) \in Nat /\ DOMAIN s = 1 .. Len(s) /\ \A i \in 1 .. Len(s) : s[i] \in Nat
    <3>1. \A i \in 1 .. Len(s) : s[i] \in 1 .. k
      BY <2>1, ElementOfSeq
    <3> QED BY <2>1, <3>1, LenProperties
  <2>3. t \in [1 .. Len(s) -> Nat]
    BY <1>3, <2>2
  <2>4. t \in Seq(Nat) /\ Len(t) = Len(s)
    BY <2>2, <2>3
  <2> QED BY <2>1, <2>2, <2>4
<1> HIDE DEF t
<1>6. /\ vecs' \in Seq(Nat) /\ Len(vecs') = Len(vecs) + Len(t)
      /\ \A i \in 1 .. Len(vecs) + Len(t) :
           vecs'[i] = IF i <= Len(vecs) THEN vecs[i] ELSE t[i - Len(vecs)]
  <2>1. vecs' = vecs \o t
    BY <1>2 DEF t
  <2> QED BY <1>3, <1>5, <2>1, ConcatProperties
<1>7. Aligned'
  <2>1. sent' \in 0 .. Len(chunks') /\ Len(vecs') <= sent'
    BY <1>1, <1>3, <1>4, <1>5, <1>6 DEF vars
  <2>2. ASSUME Len(vecs') = sent', NEW i \in 1 .. sent' PROVE vecs'[i] = i
    <3>1. Len(vecs) = sent /\ Len(t) = k
      BY <1>1, <1>3, <1>4, <1>5, <1>6, <2>2
    <3>2. CASE i <= sent
      BY <1>1, <1>3, <1>4, <1>6, <3>1, <3>2
    <3>3. CASE ~(i <= sent)
      <4>1. i - sent \in 1 .. k /\ sent + (i - sent) = i
        BY <1>1, <1>3, <1>4, <3>3
      <4>2. vecs'[i] = t[i - sent]
        BY <1>1, <1>3, <1>4, <1>6, <3>1, <3>3
      <4> QED BY <1>5, <3>1, <4>1, <4>2
    <3> QED BY <3>2, <3>3
  <2> QED BY <1>1, <1>6, <2>1, <2>2 DEF Aligned
<1>8. ItemTypeOK'
  <2>1. sent' \in Nat
    BY <1>1, <1>3, <1>4
  <2> QED BY <1>1, <1>6, <2>1, ItemStepKeeps DEF IInv, ItemTypeOK
<1> QED BY <1>1, <1>7, <1>8, ItemStepKeeps DEF IInv, LabelsRead, BestSoFar, Compared, RowsRight, ClassRight

\* The steps that leave the chunks and their vectors alone.
LEMMA ClassifyKeeps ==
  ASSUME IInv, UNCHANGED <<vars, sent, vecs, stored>>,
         stage \notin {"chunk", "stored", "skipped", "failed"},
         stage' \notin {"chunk", "stored"},
         stage' \in {"embed", "failed"} \/ sent = Len(chunks)
  PROVE  ChunksRight' /\ Aligned' /\ RowsRight' /\ TypeOK'
<1>1. ChunksRight' /\ TypeOK'
  BY ItemStepKeeps
<1> QED BY <1>1 DEF IInv, Aligned, RowsRight, vars

LEMMA EmbeddedLabels ==
  ASSUME NEW s \in All(Len(Nodes)) \union Fewer(Len(Nodes))
  PROVE  LabelVectors(s)
BY AnswerType, LabelType DEF LabelVectors

\* Those that end before anything is classified.
LEMMA FailsInv ==
  ASSUME IInv, EmbedFails \/ NoVector \/ NoChoices
  PROVE  IInv'
<1>1. /\ stage \in {"embed", "semantic", "llm"} /\ stage' = "failed"
      /\ UNCHANGED <<vars, sent, vecs, cache, labels, value, best, class, stored>>
  BY DEF EmbedFails, NoVector, NoChoices
<1>2. ItemTypeOK'
  BY <1>1, ItemStepKeeps DEF IInv, ItemTypeOK
<1> QED BY <1>1, <1>2, ClassifyKeeps DEF IInv, LabelsRead, BestSoFar, Compared, ClassRight

\* The loops.
LEMMA BeginInv ==
  ASSUME IInv, Rules \/ NoRuleMatch \/ Semantic \/ NoSemanticMatch
  PROVE  IInv'
<1>1. /\ stage \in {"embed", "rules", "labelling", "semantic", "nearest"}
      /\ sent = Len(chunks)
      /\ UNCHANGED <<vars, sent, vecs, cache, class, stored>>
  BY DEF Rules, NoRuleMatch, Semantic, NoSemanticMatch, IInv, Aligned
<1>2. /\ Begin(0) \/ Begin(-10000)
      /\ stage' \in {"rules", "labels", "llm", "nearest"}
      /\ labels' \in {labels, Nothing}
      /\ stage' = "nearest" => stage = "semantic" /\ labels' = labels
  BY DEF Rules, NoRuleMatch, Semantic, NoSemanticMatch
<1>3. /\ value' \in Seq(Int) /\ Len(value') = 0
      /\ best' \in [node : Label \union {0}, value : Int] /\ BestSoFar'
  BY <1>2, BestBegins
<1>4. ChunksRight' /\ Aligned' /\ RowsRight' /\ TypeOK'
  BY <1>1, <1>2, ClassifyKeeps
<1>5. ItemTypeOK'
  BY <1>1, <1>2, <1>3, <1>4 DEF IInv, ItemTypeOK
<1>6. LabelsRead'
  BY <1>1, <1>2 DEF IInv, LabelsRead
<1>7. Compared'
  <2>1. stage' = "nearest" => Len(labels') \in Nat
    BY <1>6, LenProperties DEF LabelsRead, LabelVectors
  <2> QED BY <1>3, <2>1, LabelType DEF Compared
<1> QED BY <1>2, <1>3, <1>4, <1>5, <1>6, <1>7 DEF IInv, ClassRight

LEMMA CompareInv ==
  ASSUME IInv, ScoreNode \/ CompareVector
  PROVE  IInv'
<1>1. /\ stage \in {"rules", "nearest"} /\ sent = Len(chunks)
      /\ UNCHANGED <<vars, stage, sent, vecs, cache, labels, class, stored>>
  BY DEF ScoreNode, CompareVector, IInv, Aligned
<1>2. value \in Seq(Int) /\ best \in [node : Label \union {0}, value : Int] /\ BestSoFar
  BY DEF IInv, ItemTypeOK
<1>3. /\ Len(value) \in Nat /\ Len(Nodes) \in Nat
      /\ stage = "nearest" => Len(labels) \in Nat /\ Len(labels) <= Len(Nodes)
  BY <1>2, LabelType, LenProperties DEF IInv, LabelsRead, LabelVectors
<1>4. Len(value) < Len(Nodes) /\ (stage = "nearest" => Len(value) < Len(labels))
  BY <1>3 DEF ScoreNode, CompareVector
<1>5. \E v \in Int : Compare(v)
  <2>1. CASE ScoreNode
    <3>1. PICK hits \in Scores : Compare(NodeScore(Len(value) + 1, hits))
      BY <2>1 DEF ScoreNode
    <3>2. hits \in Nat
      BY NumbersAssumption2
    <3>3. Len(value) + 1 \in Label
      BY <1>3, <1>4, LabelType
    <3>4. Len(Nodes[Len(value) + 1]) \in Nat
      BY <3>3, PlaceType, LenProperties
    <3>5. NodeScore(Len(value) + 1, hits) \in Int
      BY <3>2, <3>4 DEF NodeScore
    <3> QED BY <3>1, <3>5
  <2>2. CASE CompareVector
    BY <2>2, NumbersAssumption2 DEF CompareVector
  <2> QED BY <2>1, <2>2
<1>6. /\ value' \in Seq(Int) /\ Len(value') = Len(value) + 1
      /\ best' \in [node : Label \union {0}, value : Int] /\ BestSoFar'
  BY <1>2, <1>4, <1>5, BestNext
<1>7. ChunksRight' /\ Aligned' /\ RowsRight' /\ TypeOK'
  BY <1>1, ClassifyKeeps
<1>8. ItemTypeOK'
  BY <1>1, <1>6, <1>7 DEF IInv, ItemTypeOK
<1>9. LabelsRead'
  BY <1>1 DEF IInv, LabelsRead
<1>10. Compared'
  BY <1>1, <1>3, <1>4, <1>6 DEF Compared
<1> QED BY <1>1, <1>6, <1>7, <1>8, <1>9, <1>10 DEF IInv, ClassRight

\* They end with a node that is good enough.
LEMMA MatchInv ==
  ASSUME IInv, RuleMatch \/ SemanticMatch
  PROVE  IInv'
<1>1. /\ stage \in {"rules", "nearest"} /\ stage' = "store" /\ sent = Len(chunks)
      /\ UNCHANGED <<vars, sent, vecs, cache, labels, value, best, stored>>
  BY DEF RuleMatch, SemanticMatch, IInv, Aligned
<1>2. /\ value \in Seq(Int) /\ BestSoFar /\ Len(value) \in Nat
      /\ best.node \in 0 .. Len(value) /\ best.value \in Int
  BY LenProperties DEF IInv, ItemTypeOK, BestSoFar
<1>3. stage = "nearest" => /\ labels \in Seq(Label) /\ Len(labels) <= Len(Nodes)
                           /\ Len(labels) \in Nat
  BY LenProperties DEF IInv, LabelsRead, LabelVectors
<1>4. /\ class' \in Class /\ class'.method \in {"rule", "semantic"}
      /\ best.node \in Label /\ class'.place = Nodes[best.node]
      /\ class'.method = "rule" => Len(value) = Len(Nodes) /\ best.value >= RuleMinScore
      /\ class'.method = "semantic" => /\ stage = "nearest" /\ Len(value) = Len(labels)
                                       /\ best.value >= SemanticThreshold
  <2>1. CASE RuleMatch
    <3>1. class' \in RuleMatches(best) /\ Len(value) = Len(Nodes)
      BY <2>1 DEF RuleMatch
    <3> QED BY <1>2, <3>1, RuleType
  <2>2. CASE SemanticMatch
    <3>1. class' \in SemanticMatches(best) /\ Len(value) = Len(labels) /\ stage = "nearest"
      BY <2>2 DEF SemanticMatch
    <3>2. best.node \in 0 .. Len(Nodes)
      BY <1>2, <1>3, <3>1, LabelType
    <3> QED BY <1>2, <3>1, <3>2, SemanticType
  <2> QED BY <2>1, <2>2
<1>5. class'.place \in Places
  BY <1>4, PlaceType
<1>6. ChunksRight' /\ Aligned' /\ RowsRight' /\ TypeOK'
  BY <1>1, ClassifyKeeps
<1>7. ItemTypeOK'
  BY <1>1, <1>4, <1>6 DEF IInv, ItemTypeOK
<1>8. ClassRight'
  BY <1>1, <1>3, <1>4, <1>5 DEF ClassRight, FromBest, LabelVectors
<1>9. BestSoFar' /\ LabelsRead' /\ Compared'
  BY <1>1, <1>2 DEF IInv, BestSoFar, LabelsRead, Compared
<1> QED BY <1>6, <1>7, <1>8, <1>9 DEF IInv

\* The label vectors: none of these steps classifies.
LEMMA LabelsInv ==
  ASSUME IInv, ReadCache \/ FillCache \/ OtherFills
  PROVE  IInv'
<1>1. /\ stage \in {"embed", "labels", "labelling"}
      /\ stage' \in {"labelling", "semantic"} \/ stage' = stage
      /\ UNCHANGED <<vars, sent, vecs, value, best, class, stored>>
  BY DEF ReadCache, FillCache, OtherFills
<1>2. cache' = cache \/ cache' \in All(Len(Nodes)) \union Fewer(Len(Nodes))
  BY DEF ReadCache, FillCache, OtherFills
<1>3. labels' \in {labels, cache, cache', Nothing}
  BY DEF ReadCache, FillCache, OtherFills
<1>4. /\ cache' = Nothing \/ cache' \in Seq(Label)
      /\ labels' = Nothing \/ labels' \in Seq(Label)
  BY <1>2, <1>3, EmbeddedLabels DEF IInv, ItemTypeOK, LabelVectors
<1>5. stage = "embed" \/ sent = Len(chunks)
  BY <1>1 DEF IInv, Aligned
<1>6. stage = "embed" => stage' = "embed"
  BY DEF ReadCache, FillCache, OtherFills
<1>7. ItemTypeOK'
  BY <1>1, <1>4, ItemStepKeeps DEF IInv, ItemTypeOK
<1>8. LabelsRead'
  <2>1. CASE ReadCache
    BY <2>1 DEF ReadCache, LabelsRead, IInv
  <2>2. CASE FillCache
    BY <2>2, EmbeddedLabels DEF FillCache, LabelsRead
  <2>3. CASE OtherFills
    BY <2>3, EmbeddedLabels DEF OtherFills, LabelsRead
  <2> QED BY <2>1, <2>2, <2>3
<1>9. BestSoFar' /\ Compared'
  BY <1>1 DEF IInv, BestSoFar, Compared
<1> QED BY <1>1, <1>5, <1>6, <1>7, <1>8, <1>9, ClassifyKeeps DEF IInv, ClassRight

LEMMA AskInv ==
  ASSUME IInv, AskLLM
  PROVE  IInv'
<1>1. /\ stage = "llm" /\ stage' = "store" /\ sent = Len(chunks)
      /\ UNCHANGED <<vars, sent, vecs, cache, labels, value, best, stored>>
  BY DEF AskLLM, IInv, Aligned
<1>2. /\ class' \in Class /\ class'.place \in Places
      /\ class'.method \in {"llm", "fallback"}
  <2>1. CASE \E p, f, c \in Names : class' \in LLMResults(p, f, c)
    BY <2>1, LLMType
  <2>2. CASE class' = Fallback
    BY <2>2, FallbackType
  <2> QED BY <2>1, <2>2 DEF AskLLM
<1>3. ItemTypeOK'
  BY <1>1, <1>2, ItemStepKeeps DEF IInv, ItemTypeOK
<1>4. ClassRight'
  BY <1>1, <1>2 DEF ClassRight, FromBest
<1> QED BY <1>1, <1>3, <1>4, ClassifyKeeps
  DEF IInv, LabelsRead, BestSoFar, Compared

LEMMA StoreInv ==
  ASSUME IInv, Store
  PROVE  IInv'
<1>1. /\ stage = "store" /\ sent = Len(chunks)
      /\ UNCHANGED <<vars, sent, vecs, cache, labels, value, best, class>>
  BY DEF Store, IInv, Aligned
<1>2. /\ stage' \in {"stored", "failed"}
      /\ stage' = "stored" => stored' = Rows /\ ~(Len(vecs) < Len(chunks))
  BY DEF Store, Rows
<1>3. Len(vecs) \in Nat /\ Len(chunks) \in Nat /\ Len(vecs) <= Len(chunks)
  <2>1. chunks \in Seq(Span) /\ vecs \in Seq(Nat)
    BY DEF IInv, ChunksRight, Inv, TypeOK, Aligned
  <2> QED BY <1>1, <2>1, LenProperties DEF IInv, Aligned
<1>4. ChunksRight' /\ TypeOK'
  BY <1>1, <1>2, ItemStepKeeps
<1>5. Aligned'
  BY <1>1, <1>2 DEF IInv, Aligned, vars
<1>6. RowsRight'
  BY <1>1, <1>2, <1>3 DEF RowsRight, Rows, vars
<1>7. ClassRight'
  BY <1>1, <1>2 DEF IInv, ClassRight, FromBest
<1>8. ItemTypeOK'
  BY <1>1, <1>2, <1>4 DEF IInv, ItemTypeOK
<1> QED BY <1>1, <1>2, <1>4, <1>5, <1>6, <1>7, <1>8
  DEF IInv, LabelsRead, BestSoFar, Compared

THEOREM ItemInvariant == ItemSpec => []IInv
<1>1. IInv /\ UNCHANGED itemVars => IInv'
  <2> SUFFICES ASSUME IInv, UNCHANGED itemVars PROVE IInv'
    OBVIOUS
  <2>1. UNCHANGED vars /\ UNCHANGED item
    BY DEF itemVars
  <2>2. ChunksRight'
    BY <2>1, ChunkerStays DEF IInv, ChunksRight, vars, item
  <2> QED BY <2>1, <2>2 DEF IInv, ItemTypeOK, ChunksRight, Inv, Aligned, RowsRight, Rows,
                            ClassRight, FromBest, LabelsRead, BestSoFar, Compared, vars, item
<1>2. IInv /\ [ItemNext]_itemVars => IInv'
  BY <1>1, ChunkStepInv, ChunkedInv, EmbedBatchInv, FailsInv, BeginInv, CompareInv,
     MatchInv, LabelsInv, AskInv, StoreInv DEF ItemNext
<1> QED BY <1>2, ItemInitInv, PTL DEF ItemSpec

-------------------------------------------------------------------------------
(* Every variable keeps its type: confidences stay in 0 .. 1, label        *)
(* vectors are those of labels.                                            *)
THEOREM ItemTypeCorrect == ItemSpec => []ItemTypeOK
<1>1. IInv => ItemTypeOK
  BY DEF IInv
<1> QED BY <1>1, ItemInvariant, PTL

(* The rows of a document are its whole text, each with its own vector,    *)
(* whatever batches it takes and however the answers to them are cut short. *)
THEOREM OwnVectors == ItemSpec => []RowsMatchVectors
<1>1. IInv => RowsMatchVectors
  <2> SUFFICES ASSUME IInv, stage = "stored" PROVE RowsMatchVectors
    BY DEF RowsMatchVectors
  <2>1. /\ done /\ Inv /\ stored = Rows /\ Len(vecs) = Len(chunks)
        /\ \A i \in DOMAIN chunks : chunks[i].index = i - 1
        /\ sent = Len(chunks) /\ (Len(vecs) = sent => \A i \in 1 .. sent : vecs[i] = i)
    BY DEF IInv, ChunksRight, RowsRight, Aligned
  <2>2. DOMAIN chunks = 1 .. Len(chunks)
    BY <2>1, LenProperties DEF Inv, TypeOK
  <2>3. /\ DOMAIN stored = DOMAIN chunks
        /\ \A i \in DOMAIN stored : /\ stored[i].chunk = chunks[i]
                                   /\ stored[i].vector = vecs[i]
    BY <2>1 DEF Rows
  <2>4. ASSUME NEW p \in 0 .. total - 1
        PROVE  \E i \in DOMAIN chunks : chunks[i].from <= p /\ p < chunks[i].to
    <3>1. chunks # <<>> /\ Last.to = total
      BY <2>1 DEF Inv, TypeOK, Position
    <3> QED BY <2>1, <3>1 DEF Inv, CoveredSoFar
  <2> QED BY <2>1, <2>2, <2>3, <2>4 DEF RowsMatchVectors
<1> QED BY <1>1, ItemInvariant, PTL

(* A document is put at a path of the taxonomy file, or in the catch-all.  *)
THEOREM HierarchyConsistent == ItemSpec => []RealBranch
<1>1. IInv => RealBranch
  BY DEF IInv, ClassRight, RealBranch
<1> QED BY <1>1, ItemInvariant, PTL

(* Whatever the scores and the similarities are, the two loops put a       *)
(* document at the first of the nodes that suit it best: the rules always,  *)
(* the semantic stage's with the vectors of all labels.                    *)
THEOREM BestOfAll == ItemSpec => []BestNode
<1>1. IInv => BestNode
  <2> SUFFICES ASSUME IInv, stage \in {"store", "stored"},
                      \/ class.method = "rule"
                      \/ class.method = "semantic" /\ labels \in All(Len(Nodes))
               PROVE  \E i \in Label :
                        /\ class.place = Nodes[i]
                        /\ value[i] >= Enough
                        /\ \A j \in Label : value[j] <= value[i] /\ (j < i => value[j] < value[i])
    BY Zenon DEF BestNode
  <2>1. BestSoFar /\ FromBest
    BY DEF IInv, ClassRight
  <2>2. best.node \in Label /\ class.place = Nodes[best.node] /\ best.node # 0
    BY <2>1, LabelType DEF FromBest
  <2>3. Len(value) = Len(Nodes)
    <3>1. labels \in All(Len(Nodes)) => Len(labels) = Len(Nodes)
      BY LabelType DEF All
    <3> QED BY <2>1, <3>1 DEF FromBest
  <2>4. /\ value[best.node] = best.value
        /\ \A j \in Label : value[j] <= best.value /\ (j < best.node => value[j] < best.value)
    BY <2>1, <2>2, <2>3, LabelType DEF BestSoFar
  <2>5. best.value >= Enough
    BY <2>1 DEF FromBest, Enough
  <2> QED BY <2>2, <2>4, <2>5
<1> QED BY <1>1, ItemInvariant, PTL
=============================================================================
