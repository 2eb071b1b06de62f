---------------------------- MODULE MCItemPipeline ----------------------------
(* Ranges for TLC: every ratio of overlap, window and text up to the bounds, *)
(* and a taxonomy whose second product has no features.                      *)
EXTENDS ItemPipeline
CONSTANTS MaxSize, MaxTotal
SmallSizes == 1 .. MaxSize
SmallOverlaps == 0 .. MaxSize
SmallTotals == 0 .. MaxTotal
SmallTree == <<<<"P">>, <<"P", "F">>, <<"P", "F", "C">>, <<"Q">>>>
SmallCatchAll == {<<"General">>}
HitSums == {0, 200, 300, 900}
SomeSims == {3000, 4600, 9500}
SomeNames == {"P", "Q", "F", "C", "General", "Uncategorized", "other", ""}
=============================================================================
