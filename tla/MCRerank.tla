------------------------------- MODULE MCRerank -------------------------------
(* Ranges for TLC. *)
EXTENDS Rerank

TwoScores == {0, 1}
FewOrMany == {1, 3}
=============================================================================
