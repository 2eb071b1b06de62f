------------------------------ MODULE MCQueryPath ------------------------------
(* Values for TLC. *)
EXTENDS QueryPath, TLC

NoProduct == [Unlimited EXCEPT !.product = NoName]
Spaces == [NoProduct EXCEPT !.spaces = {"x"}]
Projects == [NoProduct EXCEPT !.projects = {"x"}]
Commas == [Projects EXCEPT !.spaces = {}]
\* A space; a project of that name, without and with an empty list of spaces;
\* and an empty product.
SomeHeaders == {Spaces, Projects, Commas}
NoHeaders == {Unlimited}

Database == {"db"}
Symmetric == Permutations(Req)
=============================================================================
