------------------------------ MODULE Classifier ------------------------------
(***************************************************************************)
(* What the stages of HierarchyClassifier make of their inputs: keyword    *)
(* scores, similarities to the labels of the nodes, the answer of the LLM. *)
(*                                                                         *)
(* A node of the taxonomy is its path, <<product>>, <<product, feature>>   *)
(* or <<product, feature, component>>.  Names are compared in lower case,  *)
(* so that a name is one value.  Scores are in hundredths, similarities    *)
(* and confidences in ten thousandths.                                     *)
(***************************************************************************)
EXTENDS Integers, Sequences

CONSTANTS
  Names,              \* names of nodes, and others the LLM may come up with; "" for none
  Nodes,              \* the nodes as the file lists them, but for the catch-all's
  CatchAll,           \* the paths of the catch-all in the file, if it lists any
  RuleMinScore,       \* CLASSIFICATION_RULE_MIN_SCORE
  SemanticThreshold,  \* CLASSIFICATION_SEMANTIC_THRESHOLD
  ReviewThreshold,    \* CLASSIFICATION_REVIEW_THRESHOLD
  Scores, Sims        \* sums of keyword hits, similarities

General == <<"General">>
Uncategorized == <<"General", "Uncategorized">>
Label == DOMAIN Nodes

\* The paths the file lists.
Branches == {Nodes[i] : i \in Label} \union CatchAll

ASSUME TaxonomyAssumption ==
  /\ {"General", "Uncategorized"} \subseteq Names
  /\ Nodes \in Seq(Seq(Names))
  /\ CatchAll \subseteq {General, Uncategorized}
  /\ \A b \in Branches : Len(b) \in 1 .. 3

ASSUME NumbersAssumption2 ==
  /\ RuleMinScore \in Nat \ {0} /\ SemanticThreshold \in Nat /\ ReviewThreshold \in Int
  /\ Scores \subseteq Nat /\ Sims \subseteq Int

\* Where a document may be put: a path of the file, or the catch-all.
Places == Branches \union {General, Uncategorized}

Min2(a, b) == IF a < b THEN a ELSE b
Max2(a, b) == IF a < b THEN b ELSE a

\* A confidence rounded to three digits; ties fall as the binary fraction does.
Rounded(c) == {t \in c \div 10 .. c \div 10 + 1 : 10 * t - c \in -5 .. 5}

\* _result: the flag is set by the confidence before it is rounded.
Results(place, confidence, method) ==
  {[place |-> place, method |-> method, confidence |-> t,
    needs_review |-> confidence < ReviewThreshold] : t \in Rounded(confidence)}

Fallback ==
  [place |-> Uncategorized, method |-> "fallback", confidence |-> 0, needs_review |-> TRUE]

-------------------------------------------------------------------------------
\* The best of the nodes compared so far; node 0 is none of them.
NoBest(value) == [node |-> 0, value |-> value]

\* Mutant: any value that counts replaces the one before.
Better_Any(best, i, v) == IF v > 0 THEN [node |-> i, value |-> v] ELSE best
\* Both loops over the nodes keep the first of the highest value.
Better(best, i, v) == IF v > best.value THEN [node |-> i, value |-> v] ELSE best

\* A node that is hit at all is preferred to those above it.
NodeScore(i, hits) == IF hits > 0 THEN hits + Len(Nodes[i]) ELSE 0

\* Mutant: it has no upper bound.
RuleConfidence_Uncapped(s) == 5000 + 7 * s
RuleConfidence(s) == Min2(9500, 5000 + 7 * s)

\* The end of _rule_match: nothing, if no node scores enough.
RuleMatches(best) ==
  IF best.node = 0 \/ best.value < RuleMinScore THEN {}
  ELSE Results(Nodes[best.node], RuleConfidence(best.value), "rule")

\* The end of _semantic_match; it takes vector i for that of node i.
SemanticMatches(best) ==
  IF best.node = 0 \/ best.value < SemanticThreshold THEN {}
  ELSE Results(Nodes[best.node], Min2(9000, Max2(5000, best.value)), "semantic")

-------------------------------------------------------------------------------
\* Mutant: the feature is not looked for under the product.
Validate_AnyProduct(product, feature, component) ==
  IF <<product>> \notin Branches THEN Uncategorized
  ELSE IF \A b \in Branches : Len(b) # 2 \/ b[2] # feature THEN <<product>>
  ELSE IF <<product, feature, component>> \notin Branches THEN <<product, feature>>
  ELSE <<product, feature, component>>
\* _validate: as much of the answer as is a path of the file.
Validate(product, feature, component) ==
  IF <<product>> \notin Branches THEN Uncategorized
  ELSE IF <<product, feature>> \notin Branches THEN <<product>>
  ELSE IF <<product, feature, component>> \notin Branches THEN <<product, feature>>
  ELSE <<product, feature, component>>

\* Whether nothing had to be repaired; no component is no fault.
FullyValid(product, feature, component) ==
  /\ <<product, feature>> \in Branches
  /\ component = "" \/ <<product, feature, component>> \in Branches

\* What _llm_classify makes of an object with these three members.
LLMResults(product, feature, component) ==
  LET place == Validate(product, feature, component)
      confidence == IF FullyValid(product, feature, component) THEN 7000 ELSE 5000
  IN  Results(place, IF place[1] = "General" THEN Min2(confidence, 3000) ELSE confidence,
              "llm")
=============================================================================
