-------------------------------- MODULE Rerank --------------------------------
(***************************************************************************)
(* rerank() of the query service: the rows of a search, in the order of    *)
(* their fused rank, are sorted by a blend of signals; an LLM may reorder  *)
(* the first of them; the best top_k are returned.  What the LLM replies   *)
(* is anything, and _parse_order makes an order of it.                     *)
(*                                                                         *)
(* Rows are 1 .. rows, their fused rank.  A blended score is a number to   *)
(* compare; how it is weighted is left out.                                *)
(***************************************************************************)
EXTENDS Integers, FiniteSets, Sequences

CONSTANTS
  MaxRows,   \* rerank_candidate_pool
  Scores,    \* blended scores
  TopKs,     \* values of top_k in a request
  TopN,      \* rerank_llm_top_n
  MaxItems   \* bound: items in the list the LLM replies with

ASSUME SizesAssumption ==
  /\ MaxRows \in Nat /\ TopN \in Nat /\ MaxItems \in Nat
  /\ Scores \subseteq Int /\ TopKs \subseteq Nat \ {0}

VARIABLES
  settings,  \* rerank_enabled, rerank_llm_enabled
  rows,      \* how many rows the search returned
  score,     \* their blended scores
  topk,      \* how many the request asks for
  pc,        \* where the call is
  signal,    \* the rows sorted by score
  reply,     \* what the LLM replied
  at,        \* the index the loop of _parse_order has reached
  order,     \* the indices it has collected
  ranked,    \* the rows in their final order
  result     \* what is returned
vars == <<settings, rows, score, topk, pc, signal, reply, at, order, ranked, result>>
asked == <<settings, rows, score, topk>>

Smaller(a, b) == IF a < b THEN a ELSE b
Row == 1 .. rows

\* The rows the LLM is shown, by the indices 0 .. Shown - 1.
Shown == Smaller(TopN, rows)

\* A JSON value in the list: a number, one of the two truth values, which
\* Python takes for 0 and 1, or anything else.
Item == [type : {"int"}, val : -1 .. MaxRows] \union [type : {"bool"}, val : {0, 1}]
          \union [type : {"other"}, val : {0}]
Lists == UNION {[1 .. k -> Item] : k \in 0 .. MaxItems}

\* A list; a text without one, or an error of the API; or no choice at all.
Reply == [kind : {"list"}, items : Lists]
           \union [kind : {"unusable", "no choices"}, items : {<<>>}]
NoReply == [kind |-> "unusable", items |-> <<>>]

Init ==
  /\ settings \in [blend : BOOLEAN, llm : BOOLEAN]
  /\ rows \in 0 .. MaxRows
  /\ score \in [Row -> Scores]
  /\ topk \in TopKs
  /\ pc = "blend"
  /\ signal = <<>> /\ ranked = <<>> /\ result = <<>>
  /\ reply = NoReply /\ at = 0 /\ order = <<>>

-------------------------------------------------------------------------------

\* The sort is stable: rows of equal score keep the order they had.
Before(a, b) ==
  IF settings.blend THEN score[a] > score[b] \/ (score[a] = score[b] /\ a < b)
                    ELSE a < b

Sorted == {p \in [Row -> Row] : /\ \A r \in Row : \E i \in Row : p[i] = r
                                /\ \A i, j \in Row : i < j => Before(p[i], p[j])}

\* Nothing to rerank, or reranking is switched off: the rows as they came.
\* Otherwise the LLM is asked, if there is anything to choose.
Blend ==
  /\ pc = "blend"
  /\ signal' \in Sorted
  /\ ranked' = signal'
  /\ pc' = IF settings.blend /\ settings.llm /\ rows > 1 THEN "ask" ELSE "cut"
  /\ UNCHANGED <<asked, reply, at, order, result>>

\* The reply is awaited.  An exception that is none of those caught -
\* response.choices[0] of an empty list - leaves rerank().
AskLLM ==
  /\ pc = "ask"
  /\ reply' \in Reply
  /\ pc' = CASE reply'.kind = "list" -> "take"
             [] reply'.kind = "unusable" -> "cut"
             [] reply'.kind = "no choices" -> "error"
  /\ UNCHANGED <<asked, signal, at, order, ranked, result>>

Seen == {order[i] : i \in DOMAIN order}

\* Mutants: no bound above; a truth value counts as a number.
Takes_Any(item) == item.type = "int" /\ item.val >= 0 /\ item.val \notin Seen
Takes_Bool(item) ==
  item.type # "other" /\ item.val \in 0 .. Shown - 1 /\ item.val \notin Seen
\* What _parse_order takes of the list.
Takes(item) ==
  item.type = "int" /\ item.val \in 0 .. Shown - 1 /\ item.val \notin Seen

\* The loop over the items of the list.
TakeItem ==
  LET item == reply.items[at + 1]
  IN  /\ pc = "take" /\ at < Len(reply.items)
      /\ order' = IF Takes(item) THEN Append(order, item.val) ELSE order
      /\ at' = at + 1
      /\ UNCHANGED <<asked, pc, signal, reply, ranked, result>>

\* Mutant: indices that were dropped are not made up for.
EndItems_Drops ==
  /\ pc = "take" /\ at = Len(reply.items)
  /\ pc' = "append" /\ at' = Shown
  /\ UNCHANGED <<asked, signal, reply, order, ranked, result>>
EndItems ==
  /\ pc = "take" /\ at = Len(reply.items)
  /\ pc' = "append" /\ at' = 0
  /\ UNCHANGED <<asked, signal, reply, order, ranked, result>>

\* The loop over the indices, for those the LLM dropped.
AppendDropped ==
  /\ pc = "append" /\ at < Shown
  /\ order' = IF at \in Seen THEN order ELSE Append(order, at)
  /\ at' = at + 1
  /\ UNCHANGED <<asked, pc, signal, reply, ranked, result>>

\* Mutant: the tail is put first.
Reorder_TailFirst ==
  /\ pc = "append" /\ at = Shown
  /\ ranked' = IF order = <<>> THEN signal
               ELSE SubSeq(signal, Shown + 1, rows)
                      \o [i \in DOMAIN order |-> signal[order[i] + 1]]
  /\ pc' = "cut"
  /\ UNCHANGED <<asked, signal, reply, at, order, result>>

\* The head in that order, and the tail.  No index at all is no order.
Reorder ==
  /\ pc = "append" /\ at = Shown
  /\ ranked' = IF order = <<>> THEN signal
               ELSE [i \in DOMAIN order |-> signal[order[i] + 1]]
                      \o SubSeq(signal, Shown + 1, rows)
  /\ pc' = "cut"
  /\ UNCHANGED <<asked, signal, reply, at, order, result>>

Cut ==
  /\ pc = "cut"
  /\ result' = SubSeq(ranked, 1, Smaller(topk, Len(ranked)))
  /\ pc' = "returned"
  /\ UNCHANGED <<asked, signal, reply, at, order, ranked>>

Next == Blend \/ AskLLM \/ TakeItem \/ EndItems \/ AppendDropped \/ Reorder \/ Cut

Spec == Init /\ [][Next]_vars

-------------------------------------------------------------------------------
(* Properties. *)

TypeOK ==
  /\ settings \in [blend : BOOLEAN, llm : BOOLEAN]
  /\ rows \in 0 .. MaxRows
  /\ score \in [Row -> Scores]
  /\ topk \in TopKs
  /\ pc \in {"blend", "ask", "take", "append", "cut", "returned", "error"}
  /\ signal \in Seq(Row) /\ ranked \in Seq(Row) /\ result \in Seq(Row)
  /\ reply \in Reply
  /\ at \in Nat
  /\ order \in Seq(0 .. Shown - 1)

Ranked == pc \in {"cut", "returned"}

(* Whatever the LLM replies - indices missing, doubled, foreign or no      *)
(* numbers - every row of the search is ranked, and ranked once; so that   *)
(* as many rows are returned as were asked for and found, and none twice.  *)
NothingLostOrDoubled ==
  /\ Ranked => Len(ranked) = rows /\ \A r \in Row : \E i \in Row : ranked[i] = r
  /\ pc = "returned" => /\ Len(result) = Smaller(topk, rows)
                        /\ \A i, j \in DOMAIN result : result[i] = result[j] => i = j

(* The LLM orders the rows it was shown, and no others: a row past the     *)
(* head is behind all that its signals put before it, as it would be if    *)
(* nobody had been asked.                                                  *)
TailKeepsItsPlace ==
  Ranked => \A i, j \in DOMAIN ranked :
              i < j /\ Shown < j => Before(ranked[i], ranked[j])

\* Where a list speaks of the index k first; indices it leaves out come
\* after those it does not, in their own order.
Names(i, k) == reply.items[i].type = "int" /\ reply.items[i].val = k
Mention(k) ==
  IF \E i \in DOMAIN reply.items : Names(i, k)
  THEN CHOOSE i \in DOMAIN reply.items :
         Names(i, k) /\ \A j \in 1 .. i - 1 : ~Names(j, k)
  ELSE Len(reply.items) + 1 + k

(* A list is followed as far as it can be: the rows the LLM was shown are  *)
(* in the order in which it first mentions their indices - whatever else   *)
(* is in the list, foreign or doubled indices, truth values, other values, *)
(* is passed over - and those it does not mention, which are all of them   *)
(* without a list, come after these in the order of the signals.           *)
ListIsObeyed ==
  Ranked => \A k, l \in 0 .. Shown - 1 : Mention(k) < Mention(l) =>
              \E i, j \in DOMAIN ranked :
                i < j /\ ranked[i] = signal[k + 1] /\ ranked[j] = signal[l + 1]
=============================================================================
