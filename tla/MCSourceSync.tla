----------------------------- MODULE MCSourceSync -----------------------------
(* Values for TLC; the model values of a run are interchangeable. *)
EXTENDS SourceSync, TLC

CONSTANTS empty, b1, b2, j1, j2

OneText == {empty, b1}
TwoTexts == {empty, b1, b2}
OneSpace == [d \in Doc |-> 1]
TwoSpaces == [d \in Doc |-> IF d = 1 THEN 2 ELSE 1]
NoFaults == {}
JobFaults == {"fetch", "db", "crash"}
ItemFaults == {"item", "fetch", "crash", "outage"}
Symmetric == Permutations({b1, b2}) \union Permutations(Job)
=============================================================================
