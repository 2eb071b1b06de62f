----------------------------- MODULE MCDocStoreTx -----------------------------
(* Values for TLC: a short content of one chunk, a long one of two. *)
EXTENDS DocStoreTx, TLC

CONSTANTS short, long

Counts == short :> 1 @@ long :> 2
Symmetric == Permutations(Tx) \union Permutations(Doc)
=============================================================================
