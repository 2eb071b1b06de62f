---------------------------- MODULE SyncRunProofs ----------------------------
(***************************************************************************)
(* For all products, runs and texts:                                       *)
(*  - overlapping refreshes never take an expert away (ExpertsStay).  What *)
(*    is needed beside the types: a run that is refreshing a product has   *)
(*    one, and has made its draft from documents;                          *)
(*  - a run that nothing interferes with leaves every indexed product with *)
(*    a current expert (CleanRunsRefresh).  What is needed: once it lists  *)
(*    the products, each of them is still to be done, at hand, or current; *)
(*  - a row of product_experts has one writer, which replaces it by its    *)
(*    draft (RowsHaveOneWriter) and can always go on (NoCircularWait);     *)
(*  - each step of a run brings it nearer to its end (EveryStepCounts).    *)
(***************************************************************************)
EXTENDS SyncRun, FiniteSetTheorems, TLAPS

Refreshing == {"think", "delete", "insert", "commit"}

Holds(s) == s.phase \in Refreshing => s.product \in Product /\ s.draft \in Text

Inv == TypeOK /\ \A r \in Run : Holds(run[r])

(* A state of one run that a step may leave it in.                         *)
Fine(s) == s \in RunState /\ Holds(s)

LEMMA IdleFine == Fine(Idle)
BY DEF Fine, Idle, RunState, Phase, Kind, Holds, Refreshing

LEMMA InitInv == Init => Inv
<1> SUFFICES ASSUME Init PROVE Inv
  OBVIOUS
<1>1. TypeOK
  BY IdleFine, ValuesAssumption DEF Init, TypeOK, Fine
<1>2. \A r \in Run : Holds(run[r])
  BY IdleFine DEF Init, Fine
<1> QED BY <1>1, <1>2 DEF Inv

(* The parts of a run's state.                                             *)
LEMMA Parts ==
  ASSUME Inv, NEW r \in Run
  PROVE  /\ run[r] \in RunState /\ Holds(run[r])
         /\ run[r].phase \in Phase /\ run[r].kind \in Kind
         /\ run[r].todo \subseteq Product /\ run[r].product \in Product \union {None}
         /\ run[r].draft \in Text \union {None} /\ run[r].found \in BOOLEAN
BY DEF Inv, TypeOK, RunState

(* A step of the run r, with the other variables of their types, preserves *)
(* the invariant when it leaves that run in a fine state.                  *)
LEMMA OneRun ==
  ASSUME Inv, NEW r \in Run, Fine(run'[r]),
         run' = [run EXCEPT ![r] = run'[r]],
         docs' \in [Product -> Text \union {None}], changes' \in 0 .. MaxChanges,
         expert' \in [Product -> Text \union {None}],
         holder' \in [Product -> Run \union {NoRun}], failures' \in 0 .. MaxFailures,
         clean' \in [Run -> BOOLEAN]
  PROVE  Inv'
<1>1. TypeOK'
  BY DEF Inv, TypeOK, Fine
<1>2. ASSUME NEW s \in Run PROVE Holds(run'[s])
  BY DEF Inv, TypeOK, Fine
<1> QED BY <1>1, <1>2 DEF Inv

(* A failure is counted, and there are no more than the bound.             *)
LEMMA CountFailures ==
  ASSUME failures \in 0 .. MaxFailures, NEW fault, Fails(fault)
  PROVE  failures' \in 0 .. MaxFailures
BY ValuesAssumption DEF Fails

LEMMA AfterType ==
  ASSUME NEW kind,
         NEW phase \in {"jira", "confluence", "reconcile", "refreshed"}
  PROVE  After(phase, kind) \in Phase \ Refreshing
BY DEF After, Phase, Refreshing

(* Steps of a run outside of the refresh.                                  *)
LEMMA OuterStep ==
  ASSUME Inv, NEW r \in Run,
         StartAny(r) \/ PhaseEnds(r) \/ PhaseFails(r) \/ EndRefresh(r) \/ ListFails(r)
  PROVE  Inv' /\ expert' = expert
<1>0. failures' \in 0 .. MaxFailures
  BY CountFailures DEF Inv, TypeOK, StartAny, Start, PhaseEnds, PhaseFails, EndRefresh, ListFails
<1>1. UNCHANGED <<docs, changes, expert, holder>> /\ clean' \in [Run -> BOOLEAN]
  BY DEF Inv, TypeOK, StartAny, Start, Meet, Active, PhaseEnds, PhaseFails, EndRefresh,
         ListFails
<1>2. run' = [run EXCEPT ![r] = run'[r]]
  BY DEF Inv, TypeOK, StartAny, Start, PhaseEnds, PhaseFails, EndRefresh, ListFails
<1>3. Fine(run'[r])
  <2>1. CASE StartAny(r)
    <3>1. PICK kind \in Kinds :
            run'[r] = [Idle EXCEPT !.phase = First(kind), !.kind = kind]
      BY <2>1 DEF Inv, TypeOK, StartAny, Start
    <3>2. kind \in Kind /\ First(kind) \in Phase \ Refreshing
      BY ValuesAssumption DEF Kind, First, Phase, Refreshing
    <3> QED BY <3>1, <3>2, IdleFine DEF Fine, RunState, Holds, Idle
  <2>2. ASSUME NEW phase \in {"jira", "confluence", "reconcile", "refreshed"},
               \/ run'[r] = Idle
               \/ run'[r] = [run[r] EXCEPT !.phase = After(phase, run[r].kind)]
        PROVE  Fine(run'[r])
    <3>1. After(phase, run[r].kind) \in Phase \ Refreshing
      BY AfterType
    <3> QED BY <2>2, <3>1, Parts, IdleFine DEF Fine, RunState, Holds
  <2>3. CASE PhaseEnds(r)
    <3>1. /\ run[r].phase \in {"jira", "confluence", "reconcile"}
          /\ \/ run'[r] = Idle
             \/ run'[r] = [run[r] EXCEPT !.phase = After(run[r].phase, run[r].kind)]
      BY <2>3 DEF Inv, TypeOK, PhaseEnds
    <3> QED BY <2>2, <3>1
  <2>4. CASE EndRefresh(r)
    <3>1. \/ run'[r] = Idle
          \/ run'[r] = [run[r] EXCEPT !.phase = After("refreshed", run[r].kind)]
      BY <2>4 DEF Inv, TypeOK, EndRefresh
    <3> QED BY <2>2, <3>1
  <2>5. CASE PhaseFails(r) \/ ListFails(r)
    <3>1. run'[r] = Idle \/ run'[r] = [run[r] EXCEPT !.phase = "products"]
      BY <2>5 DEF Inv, TypeOK, PhaseFails, ListFails
    <3> QED BY <3>1, Parts, IdleFine DEF Fine, RunState, Holds, Phase, Refreshing
  <2> QED BY <2>1, <2>3, <2>4, <2>5
<1> QED BY <1>0, <1>1, <1>2, <1>3, OneRun DEF Inv, TypeOK

(* Documents change, by a leg or from outside.                             *)
LEMMA ChangeStep ==
  ASSUME Inv, NEW p \in Product, NEW t \in Text \union {None},
         (\E r \in Run : ChangeDocs(r, p, t)) \/ PostDocument(p, t)
  PROVE  Inv' /\ expert' = expert
<1>1. UNCHANGED <<expert, holder, run, failures>> /\ clean' \in [Run -> BOOLEAN]
  BY DEF Inv, TypeOK, ChangeDocs, PostDocument, Active
<1>2. docs' \in [Product -> Text \union {None}]
  BY DEF Inv, TypeOK, ChangeDocs, PostDocument
<1>3. changes' \in 0 .. MaxChanges
  BY ValuesAssumption DEF Inv, TypeOK, ChangeDocs, PostDocument
<1> QED BY <1>1, <1>2, <1>3 DEF Inv, TypeOK

(* Steps of the refresh that touch the run alone.                          *)
LEMMA ReadStep ==
  ASSUME Inv, NEW r \in Run, ListProducts(r) \/ ReadProduct(r) \/ Synthesise(r)
  PROVE  Inv' /\ expert' = expert
<1>1. UNCHANGED <<docs, changes, expert, holder, clean, failures>>
      /\ run' = [run EXCEPT ![r] = run'[r]]
  BY DEF Inv, TypeOK, ListProducts, ReadProduct, Synthesise
<1>2. CASE ListProducts(r)
  <2>1. run'[r] = [run[r] EXCEPT !.phase = "pick", !.todo = Indexed]
    BY <1>2 DEF Inv, TypeOK, ListProducts
  <2>2. Indexed \subseteq Product
    BY DEF Indexed
  <2>3. Fine(run'[r])
    BY <2>1, <2>2, Parts DEF Fine, RunState, Holds, Phase, Refreshing
  <2> QED BY <1>1, <2>3, OneRun DEF Inv, TypeOK
<1>3. CASE ReadProduct(r)
  <2>1. PICK p \in run[r].todo :
          run'[r] = [run[r] EXCEPT !.todo = @ \ {p},
                       !.phase = IF docs[p] = None THEN "pick" ELSE "think",
                       !.product = IF docs[p] = None THEN None ELSE p,
                       !.draft = docs[p]]
    BY <1>3 DEF Inv, TypeOK, ReadProduct
  <2>2. p \in Product /\ docs[p] \in Text \union {None}
    BY Parts DEF Inv, TypeOK
  <2>3. CASE docs[p] = None
    <3>1. run'[r] = [run[r] EXCEPT !.todo = @ \ {p}, !.phase = "pick",
                                   !.product = None, !.draft = None]
      BY <2>1, <2>3
    <3>2. Fine(run'[r])
      BY <3>1, Parts DEF Fine, RunState, Holds, Phase, Refreshing
    <3> QED BY <1>1, <3>2, OneRun DEF Inv, TypeOK
  <2>4. CASE docs[p] # None
    <3>1. run'[r] = [run[r] EXCEPT !.todo = @ \ {p}, !.phase = "think",
                                   !.product = p, !.draft = docs[p]]
      BY <2>1, <2>4
    <3>2. docs[p] \in Text
      BY <2>2, <2>4
    <3>3. Fine(run'[r])
      BY <2>2, <3>1, <3>2, Parts DEF Fine, RunState, Holds, Phase
    <3> QED BY <1>1, <3>3, OneRun DEF Inv, TypeOK
  <2> QED BY <2>3, <2>4
<1>4. CASE Synthesise(r)
  <2>1. /\ run[r].phase = "think"
        /\ run'[r] = [run[r] EXCEPT !.phase = "delete",
                                    !.found = expert[run[r].product] # None]
    BY <1>4 DEF Inv, TypeOK, Synthesise
  <2>2. (expert[run[r].product] # None) \in BOOLEAN
    OBVIOUS
  <2>3. Fine(run'[r])
    BY <2>1, <2>2, Parts DEF Fine, RunState, Holds, Phase, Refreshing
  <2> QED BY <1>1, <2>3, OneRun DEF Inv, TypeOK
<1> QED BY <1>2, <1>3, <1>4

(* The statements before the commit, and whatever ends a product early.    *)
LEMMA StatementStep ==
  ASSUME Inv, NEW r \in Run, DeleteExpert(r) \/ InsertExpert(r) \/ ProductFails(r)
  PROVE  Inv' /\ expert' = expert
<1>0. failures' \in 0 .. MaxFailures
  BY CountFailures DEF Inv, TypeOK, DeleteExpert, InsertExpert, ProductFails
<1>1. UNCHANGED <<docs, changes, expert>> /\ clean' \in [Run -> BOOLEAN]
  BY DEF Inv, TypeOK, DeleteExpert, InsertExpert, ProductFails
<1>2. holder' \in [Product -> Run \union {NoRun}]
  BY DEF Inv, TypeOK, DeleteExpert, InsertExpert, ProductFails, Released
<1>3. run' = [run EXCEPT ![r] = run'[r]]
  BY DEF Inv, TypeOK, DeleteExpert, InsertExpert, ProductFails
<1>4. Fine(run'[r])
  <2>1. CASE DeleteExpert(r) \/ InsertExpert(r)
    <3>1. PICK phase \in {"insert", "commit"} :
            run[r].phase \in Refreshing /\ run'[r] = [run[r] EXCEPT !.phase = phase]
      BY <2>1 DEF Inv, TypeOK, DeleteExpert, InsertExpert, Refreshing
    <3> QED BY <3>1, Parts DEF Fine, RunState, Holds, Phase, Refreshing
  <2>2. CASE ProductFails(r)
    <3>1. run'[r] = [run[r] EXCEPT !.phase = "pick", !.product = None,
                                   !.draft = None, !.found = FALSE]
      BY <2>2 DEF Inv, TypeOK, ProductFails
    <3> QED BY <3>1, Parts DEF Fine, RunState, Holds, Phase, Refreshing
  <2> QED BY <2>1, <2>2
<1> QED BY <1>0, <1>1, <1>2, <1>3, <1>4, OneRun DEF Inv, TypeOK

(* The commit replaces an expert by one made from documents.               *)
LEMMA CommitStep ==
  ASSUME Inv, NEW r \in Run, CommitExpert(r)
  PROVE  Inv' /\ \A p \in Product : expert[p] # None => expert'[p] # None
<1> DEFINE p == run[r].product
<1>1. p \in Product /\ run[r].draft \in Text
  BY Parts DEF CommitExpert, Holds, Refreshing
<1>2. /\ expert' = [expert EXCEPT ![p] = run[r].draft]
      /\ holder' = [holder EXCEPT ![p] = NoRun]
      /\ UNCHANGED <<docs, changes, clean, failures>>
  BY DEF CommitExpert
<1>3. ASSUME NEW s \in Run
      PROVE  Fine(run'[s])
  <2>1. CASE s = r
    <3>1. run'[s] = [run[s] EXCEPT !.phase = "pick", !.product = None, !.draft = None,
                                   !.found = FALSE]
      BY <2>1 DEF CommitExpert
    <3> QED BY <3>1, Parts DEF Fine, RunState, Holds, Phase, Refreshing
  <2>2. CASE s # r
    <3>1. run'[s] = run[s] \/ run'[s] = [run[s] EXCEPT !.found = FALSE]
      BY <2>2 DEF CommitExpert
    <3> QED BY <3>1, Parts DEF Fine, RunState, Holds
  <2> QED BY <2>1, <2>2
<1>4. run' \in [Run -> RunState] /\ \A s \in Run : Holds(run'[s])
  <2>1. run' = [s \in Run |-> run'[s]]
    BY DEF CommitExpert
  <2> QED BY <1>3, <2>1 DEF Fine
<1>5. Inv'
  BY <1>1, <1>2, <1>4 DEF Inv, TypeOK
<1>6. \A q \in Product : expert[q] # None => expert'[q] # None
  BY <1>1, <1>2, NoneAssumption DEF Inv, TypeOK
<1> QED BY <1>5, <1>6

LEMMA CrashStep ==
  ASSUME Inv, Crash
  PROVE  Inv' /\ expert' = expert
<1>1. \A r \in Run : run'[r] = Idle
  BY DEF Crash
<1>2. failures' \in 0 .. MaxFailures
  BY CountFailures DEF Inv, TypeOK, Crash
<1>3. TypeOK'
  BY <1>2, IdleFine DEF Inv, TypeOK, Crash, Fine
<1> QED BY <1>1, <1>3, IdleFine DEF Inv, Crash, Fine

-------------------------------------------------------------------------------

Stays == \A p \in Product : Found(p) => Found(p)'

LEMMA NextInv == Inv /\ [Next]_vars => Inv' /\ Stays
<1> SUFFICES ASSUME Inv, [Next]_vars PROVE Inv' /\ Stays
  OBVIOUS
<1>1. ASSUME NEW r \in Run, StartAny(r) \/ PhaseFails(r) \/ ListFails(r) \/ Goes(r) \/ Waits(r)
                            \/ ProductFails(r)
      PROVE  Inv' /\ Stays
  <2>1. CASE CommitExpert(r)
    BY <2>1, CommitStep DEF Stays, Found
  <2>2. CASE ~CommitExpert(r)
    BY <1>1, <2>2, OuterStep, ReadStep, StatementStep DEF Stays, Found, Goes, Waits
  <2> QED BY <2>1, <2>2
<1>2. ASSUME NEW r \in Run, NEW p \in Product, NEW t \in Text \union {None}, ChangeDocs(r, p, t)
      PROVE  Inv' /\ Stays
  BY <1>2, ChangeStep DEF Stays, Found
<1>3. ASSUME NEW p \in Product, NEW t \in Text, PostDocument(p, t)
      PROVE  Inv' /\ Stays
  BY <1>3, ChangeStep DEF Stays, Found
<1>4. CASE Crash
  BY <1>4, CrashStep DEF Stays, Found
<1>5. CASE UNCHANGED vars
  BY <1>5 DEF vars, Inv, TypeOK, Stays, Found
<1> QED BY <1>1, <1>2, <1>3, <1>4, <1>5 DEF Next

(* The inductive invariant: types, and what a run at a product has.        *)
THEOREM Invariant == Spec => []Inv
BY InitInv, NextInv, PTL DEF Spec

(* Every run is in a state that _refresh_product and run() have.           *)
THEOREM TypeCorrect == Spec => []TypeOK
<1>1. Inv => TypeOK
  BY DEF Inv
<1> QED BY <1>1, Invariant, PTL

(* A product that has an expert has one for good, in the eyes of readers,  *)
(* though upsert_product_expert deletes it first, fails, or is overlapped. *)
THEOREM ExpertsStay == Spec => ExpertStays
<1>1. Inv /\ [Next]_vars => [Stays]_vars
  BY NextInv
<1> QED BY <1>1, Invariant, PTL DEF Spec, ExpertStays, Stays
-------------------------------------------------------------------------------
(* What a run that nothing interferes with has done so far.  Nobody else   *)
(* is active; while it refreshes, each indexed product is still to do, is  *)
(* at hand with its present documents, or has its present expert.          *)

Alone(r) == clean[r] /\ Active(r) => \A s \in Run \ {r} : ~Active(s)

AtHand(r, p) == run[r].phase \in Refreshing /\ run[r].product = p

Progress(r) ==
  clean[r] /\ run[r].phase \in Refreshing \union {"pick"} =>
    /\ run[r].phase \in Refreshing => run[r].draft = docs[run[r].product]
    /\ \A p \in Indexed : p \in run[r].todo \/ AtHand(r, p) \/ expert[p] = docs[p]

(* Reconciliation is the last phase of nothing but a reconciliation.       *)
KindFits(r) == run[r].phase = "reconcile" => run[r].kind \in {"full", "reconcile"}

CleanInv == \A r \in Run : Alone(r) /\ Progress(r) /\ KindFits(r)

(* What the property asks of a step at which the run r ends.               *)
EndsCurrent(r) ==
  Active(r) /\ ~Active(r)' /\ clean'[r] /\ run[r].kind # "reconcile" =>
    \A p \in Indexed' : expert'[p] = docs'[p]

LEMMA CleanInit == Init => CleanInv
BY DEF Init, CleanInv, Alone, Progress, KindFits, Active, Idle, Refreshing

(* A step of one active run leaves nothing to show of the others: none of  *)
(* them is both active and clean.                                          *)
LEMMA ByItself ==
  ASSUME CleanInv, NEW r \in Run, Active(r),
         \A s \in Run \ {r} : run'[s].phase = run[s].phase /\ run'[s].kind = run[s].kind,
         \A s \in Run : clean'[s] => clean[s],
         Progress(r)', KindFits(r)', EndsCurrent(r)
  PROVE  CleanInv' /\ \A s \in Run : EndsCurrent(s)
<1>1. ASSUME NEW s \in Run \ {r}, clean'[s] PROVE ~Active(s) /\ ~Active(s)'
  BY <1>1 DEF CleanInv, Alone, Active
<1>2. ASSUME NEW s \in Run \ {r}
      PROVE  Alone(s)' /\ Progress(s)' /\ KindFits(s)' /\ EndsCurrent(s)
  BY <1>1, <1>2 DEF CleanInv, Alone, Progress, KindFits, EndsCurrent, Active, Refreshing
<1>3. Alone(r)'
  BY DEF CleanInv, Alone, Active
<1> QED BY <1>2, <1>3 DEF CleanInv

(* A run that has failed has nothing more to show.                         *)
LEMMA FailedStep ==
  ASSUME Inv, CleanInv, NEW r \in Run, PhaseFails(r) \/ ListFails(r) \/ ProductFails(r)
  PROVE  CleanInv' /\ \A s \in Run : EndsCurrent(s)
<1>1. Active(r)
  BY DEF PhaseFails, ListFails, ProductFails, Active
<1>2. clean' = [clean EXCEPT ![r] = FALSE] /\ ~clean'[r]
  BY DEF Inv, TypeOK, PhaseFails, ListFails, ProductFails
<1>3. \A s \in Run : clean'[s] => clean[s]
  BY <1>2 DEF Inv, TypeOK
<1>4. run' = [run EXCEPT ![r] = run'[r]] /\ run'[r].phase \in {"idle", "products", "pick"}
  <2>1. CASE PhaseFails(r)
    BY <2>1, Parts DEF Inv, TypeOK, PhaseFails, RunState, Idle
  <2>2. CASE ListFails(r)
    BY <2>2 DEF Inv, TypeOK, ListFails, Idle
  <2>3. CASE ProductFails(r)
    BY <2>3, Parts DEF Inv, TypeOK, ProductFails, RunState
  <2> QED BY <2>1, <2>2, <2>3
<1>5. Progress(r)' /\ KindFits(r)' /\ EndsCurrent(r)
  BY <1>2, <1>4 DEF Progress, KindFits, EndsCurrent
<1>6. \A s \in Run \ {r} : run'[s] = run[s]
  BY <1>4 DEF Inv, TypeOK
<1> QED BY <1>1, <1>3, <1>5, <1>6, ByItself

(* The legs and reconciliation go on to the refresh, in the end.           *)
LEMMA LegStep ==
  ASSUME Inv, CleanInv, NEW r \in Run,
         \/ PhaseEnds(r)
         \/ \E p \in Product, t \in Text \union {None} : ChangeDocs(r, p, t)
  PROVE  CleanInv' /\ \A s \in Run : EndsCurrent(s)
<1>1. Active(r) /\ clean' = clean /\ run[r].phase \in {"jira", "confluence", "reconcile"}
  BY DEF PhaseEnds, ChangeDocs, Active
<1>2. CASE PhaseEnds(r)
  <2> DEFINE next == After(run[r].phase, run[r].kind)
  <2>1. run' = [run EXCEPT ![r] = run'[r]]
        /\ run'[r] = IF next = "idle" THEN Idle ELSE [run[r] EXCEPT !.phase = next]
    BY <1>2 DEF Inv, TypeOK, PhaseEnds
  <2>2. /\ next \in {"confluence", "reconcile", "products", "idle"}
        /\ next = "reconcile" => run[r].kind = "full"
        /\ next = "idle" => run[r].kind = "reconcile"
    BY <1>1 DEF CleanInv, KindFits, After
  <2>3. CASE next = "idle"
    BY <1>1, <2>1, <2>2, <2>3, ByItself
       DEF Inv, TypeOK, Idle, Progress, KindFits, EndsCurrent, Refreshing
  <2>4. CASE next # "idle"
    <3>1. run'[r].phase = next /\ run'[r].kind = run[r].kind
      BY <2>1, <2>4, Parts DEF RunState
    <3>2. Progress(r)' /\ KindFits(r)' /\ EndsCurrent(r)
      BY <2>2, <2>4, <3>1 DEF Progress, KindFits, EndsCurrent, Active, Refreshing
    <3>3. \A s \in Run \ {r} : run'[s] = run[s]
      BY <2>1 DEF Inv, TypeOK
    <3> QED BY <1>1, <3>2, <3>3, ByItself
  <2> QED BY <2>3, <2>4
<1>3. CASE \E p \in Product, t \in Text \union {None} : ChangeDocs(r, p, t)
  <2>1. run' = run
    BY <1>3 DEF ChangeDocs
  <2>2. Progress(r)' /\ KindFits(r)' /\ EndsCurrent(r)
    BY <1>1, <2>1 DEF CleanInv, Progress, KindFits, EndsCurrent, Active, Refreshing
  <2> QED BY <1>1, <2>1, <2>2, ByItself
<1> QED BY <1>2, <1>3

(* The refresh takes every product that is indexed, and no more are while  *)
(* nobody interferes.                                                      *)
LEMMA RefreshStep ==
  ASSUME Inv, CleanInv, NEW r \in Run,
         \/ ListProducts(r) \/ ReadProduct(r) \/ Synthesise(r)
         \/ DeleteExpert(r) \/ InsertExpert(r)
  PROVE  CleanInv' /\ \A s \in Run : EndsCurrent(s)
<1>1. /\ Active(r) /\ UNCHANGED <<docs, expert, clean>>
      /\ run' = [run EXCEPT ![r] = run'[r]]
  BY DEF Inv, TypeOK, ListProducts, ReadProduct, Synthesise, DeleteExpert, InsertExpert, Active
<1>2. Indexed' = Indexed
  BY <1>1 DEF Indexed
<1>3. Progress(r)' /\ run'[r].phase \in Refreshing \union {"pick"}
  <2>1. CASE ListProducts(r)
    <3>1. run'[r].phase = "pick" /\ run'[r].todo = Indexed
      BY <2>1, Parts DEF Inv, TypeOK, ListProducts, RunState
    <3> QED BY <1>2, <3>1 DEF Progress, Refreshing
  <2>2. CASE ReadProduct(r)
    <3>1. PICK p \in run[r].todo :
            run'[r] = [run[r] EXCEPT !.todo = @ \ {p},
                         !.phase = IF docs[p] = None THEN "pick" ELSE "think",
                         !.product = IF docs[p] = None THEN None ELSE p,
                         !.draft = docs[p]]
      BY <2>2 DEF Inv, TypeOK, ReadProduct
    <3>2. /\ run'[r].todo = run[r].todo \ {p}
          /\ run'[r].phase = IF docs[p] = None THEN "pick" ELSE "think"
          /\ run'[r].product = IF docs[p] = None THEN None ELSE p
          /\ run'[r].draft = docs[p]
      BY <3>1, Parts DEF RunState
    <3>3. run[r].phase = "pick" /\ Progress(r)
      BY <2>2 DEF ReadProduct, CleanInv
    <3>4. ASSUME clean[r], NEW q \in Indexed
          PROVE  q \in run'[r].todo \/ AtHand(r, q)' \/ expert[q] = docs[q]
      <4>1. q \in run[r].todo \/ expert[q] = docs[q]
        BY <3>3, <3>4 DEF Progress, AtHand, Refreshing
      <4> QED BY <3>2, <4>1 DEF AtHand, Indexed, Refreshing
    <3>5. run'[r].phase \in Refreshing => run'[r].draft = docs[run'[r].product]
      BY <3>2 DEF Refreshing
    <3>6. Progress(r)'
      BY <1>1, <1>2, <3>4, <3>5 DEF Progress
    <3> QED BY <3>2, <3>6 DEF Refreshing
  <2>3. CASE Synthesise(r) \/ DeleteExpert(r) \/ InsertExpert(r)
    <3>1. /\ run[r].phase \in Refreshing /\ run'[r].phase \in Refreshing
          /\ run'[r].todo = run[r].todo /\ run'[r].product = run[r].product
          /\ run'[r].draft = run[r].draft
      BY <2>3, Parts DEF Inv, TypeOK, Synthesise, DeleteExpert, InsertExpert, RunState, Refreshing
    <3> QED BY <1>1, <1>2, <3>1 DEF CleanInv, Progress, AtHand
  <2> QED BY <2>1, <2>2, <2>3
<1>4. KindFits(r)' /\ EndsCurrent(r)
  BY <1>3 DEF KindFits, EndsCurrent, Active, Refreshing
<1>5. \A s \in Run \ {r} : run'[s] = run[s]
  BY <1>1 DEF Inv, TypeOK
<1> QED BY <1>1, <1>3, <1>4, <1>5, ByItself

(* The commit makes the product at hand current.                           *)
LEMMA CleanCommit ==
  ASSUME Inv, CleanInv, NEW r \in Run, CommitExpert(r)
  PROVE  CleanInv' /\ \A s \in Run : EndsCurrent(s)
<1> DEFINE p == run[r].product
<1>1. /\ Active(r) /\ run[r].phase \in Refreshing /\ UNCHANGED <<docs, clean>>
      /\ expert' = [expert EXCEPT ![p] = run[r].draft]
  BY DEF CommitExpert, Active, Refreshing
<1>2. run'[r].phase = "pick" /\ run'[r].todo = run[r].todo
  <2>1. run'[r] = [run[r] EXCEPT !.phase = "pick", !.product = None, !.draft = None,
                                 !.found = FALSE]
    BY DEF CommitExpert
  <2> QED BY <2>1, Parts DEF RunState
<1>3. \A s \in Run \ {r} : run'[s].phase = run[s].phase /\ run'[s].kind = run[s].kind
  <2> SUFFICES ASSUME NEW s \in Run \ {r}
               PROVE  run'[s].phase = run[s].phase /\ run'[s].kind = run[s].kind
    OBVIOUS
  <2>1. run'[s] = run[s] \/ run'[s] = [run[s] EXCEPT !.found = FALSE]
    BY DEF CommitExpert
  <2> QED BY <2>1, Parts DEF RunState
<1>4. ASSUME clean[r], NEW q \in Indexed
      PROVE  q \in run[r].todo \/ expert'[q] = docs[q]
  <2>1. q \in Product /\ expert \in [Product -> Text \union {None}]
    BY DEF Indexed, Inv, TypeOK
  <2>2. run[r].draft = docs[p] /\ (q \in run[r].todo \/ q = p \/ expert[q] = docs[q])
    BY <1>1, <1>4 DEF CleanInv, Progress, AtHand
  <2> QED BY <1>1, <2>1, <2>2
<1>5. Progress(r)'
  BY <1>1, <1>2, <1>4 DEF Progress, Indexed, Refreshing
<1>6. KindFits(r)' /\ EndsCurrent(r)
  BY <1>2 DEF KindFits, EndsCurrent, Active
<1> QED BY <1>1, <1>3, <1>5, <1>6, ByItself

LEMMA EndStep ==
  ASSUME Inv, CleanInv, NEW r \in Run, EndRefresh(r)
  PROVE  CleanInv' /\ \A s \in Run : EndsCurrent(s)
<1>1. /\ Active(r) /\ run[r].phase = "pick" /\ run[r].todo = {}
      /\ UNCHANGED <<docs, expert, clean>>
      /\ run' = [run EXCEPT ![r] = Idle]
  BY DEF EndRefresh, After, Active
<1>2. run'[r] = Idle /\ \A s \in Run \ {r} : run'[s] = run[s]
  BY <1>1 DEF Inv, TypeOK
<1>3. Progress(r)' /\ KindFits(r)'
  BY <1>2 DEF Progress, KindFits, Idle, Refreshing
<1>4. EndsCurrent(r)
  BY <1>1 DEF CleanInv, Progress, AtHand, EndsCurrent, Indexed, Refreshing
<1> QED BY <1>1, <1>2, <1>3, <1>4, ByItself

(* Whoever starts, posts or restarts leaves no clean run behind but one    *)
(* that is at its beginning, or over.                                      *)
LEMMA OtherStep ==
  ASSUME Inv, CleanInv,
         \/ \E r \in Run : StartAny(r)
         \/ \E p \in Product, t \in Text : PostDocument(p, t)
         \/ Crash
  PROVE  CleanInv' /\ \A s \in Run : EndsCurrent(s)
<1>1. ASSUME NEW r \in Run, StartAny(r)
      PROVE  CleanInv' /\ \A s \in Run : EndsCurrent(s)
  <2>1. PICK kind \in Kinds : Start(r, kind)
    BY <1>1 DEF StartAny
  <2>2. run'[r].phase = First(kind) /\ run'[r].kind = kind
    BY <2>1 DEF Inv, TypeOK, Start, Idle
  <2>3. /\ First(kind) \in {"jira", "products", "reconcile"}
        /\ First(kind) = "reconcile" => kind = "reconcile"
    BY DEF First
  <2>4. /\ ~Active(r) /\ \A s \in Run \ {r} : run'[s] = run[s]
        /\ clean'[r] => \A s \in Run \ {r} : ~Active(s)
        /\ \A s \in Run \ {r} : clean'[s] => ~Active(s)
    BY <2>1 DEF Inv, TypeOK, Start, Meet
  <2>5. Alone(r)' /\ Progress(r)' /\ KindFits(r)' /\ EndsCurrent(r)
    BY <2>2, <2>3, <2>4 DEF Alone, Progress, KindFits, EndsCurrent, Active, Refreshing
  <2>6. ASSUME NEW s \in Run \ {r}
        PROVE  Alone(s)' /\ Progress(s)' /\ KindFits(s)' /\ EndsCurrent(s)
    BY <2>4 DEF CleanInv, Alone, Progress, KindFits, EndsCurrent, Active, Refreshing
  <2> QED BY <2>5, <2>6 DEF CleanInv
<1>2. ASSUME NEW p \in Product, NEW t \in Text, PostDocument(p, t)
      PROVE  CleanInv' /\ \A s \in Run : EndsCurrent(s)
  <2>1. run' = run /\ \A s \in Run : clean'[s] => ~Active(s)
    BY <1>2 DEF PostDocument
  <2> QED BY <2>1 DEF CleanInv, Alone, Progress, KindFits, EndsCurrent, Active, Refreshing
<1>3. CASE Crash
  <2>1. \A s \in Run : run'[s] = Idle /\ ~clean'[s]
    BY <1>3 DEF Crash
  <2> QED BY <2>1 DEF CleanInv, Alone, Progress, KindFits, EndsCurrent, Idle
<1> QED BY <1>1, <1>2, <1>3

LEMMA CleanNext ==
  Inv /\ CleanInv /\ [Next]_vars => CleanInv' /\ [\A r \in Run : EndsCurrent(r)]_vars
<1> SUFFICES ASSUME Inv, CleanInv, [Next]_vars
             PROVE  CleanInv' /\ [\A r \in Run : EndsCurrent(r)]_vars
  OBVIOUS
<1>1. CASE UNCHANGED vars
  BY <1>1 DEF vars, CleanInv, Alone, Progress, AtHand, KindFits, Active, Indexed
<1>2. ASSUME NEW r \in Run, Goes(r) \/ Waits(r) \/ PhaseFails(r) \/ ListFails(r) \/ ProductFails(r)
      PROVE  CleanInv' /\ \A s \in Run : EndsCurrent(s)
  BY <1>2, FailedStep, LegStep, RefreshStep, CleanCommit, EndStep DEF Goes, Waits
<1> QED BY <1>1, <1>2, LegStep, OtherStep DEF Next

(* A run that nothing interferes with, and no part of which fails, leaves  *)
(* every indexed product with an expert made from its present documents.   *)
THEOREM CleanRunsRefresh == Spec => CleanRunExpertsCurrent
<1>1. Spec => []CleanInv
  BY CleanInit, CleanNext, Invariant, PTL DEF Spec
<1>2. Inv /\ CleanInv /\ [Next]_vars =>
        [\A r \in Run :
           /\ Active(r) /\ ~Active(r)'
           /\ clean'[r] /\ run[r].kind # "reconcile"
           => \A p \in Indexed' : expert'[p] = docs'[p]]_vars
  BY CleanNext DEF EndsCurrent
<1> QED BY <1>1, <1>2, Invariant, PTL DEF Spec, CleanRunExpertsCurrent
-------------------------------------------------------------------------------
(* Who has the row of a product, and who may replace its expert.  A run    *)
(* that has a row is in the transaction that inserts its new expert, and   *)
(* has no other row.                                                       *)

Writing == {"insert", "commit"}

RowsHeld ==
  \A p \in Product : holder[p] # NoRun =>
    run[holder[p]].product = p /\ run[holder[p]].phase \in Writing

CommitsHold ==
  \A r \in Run : run[r].phase = "commit" => holder[run[r].product] = r

LockInv == RowsHeld /\ CommitsHold

LEMMA LockInit == Init => LockInv
BY DEF Init, LockInv, RowsHeld, CommitsHold, Idle

(* A step of a run outside of these two phases, that takes no row.         *)
LEMMA LocksKept ==
  ASSUME Inv, LockInv, NEW r \in Run, run[r].phase \notin Writing,
         run'[r].phase # "commit", \A s \in Run \ {r} : run'[s] = run[s],
         holder' = holder
  PROVE  LockInv'
<1>1. ASSUME NEW p \in Product, holder[p] # NoRun
      PROVE  holder[p] \in Run \ {r}
  BY <1>1 DEF LockInv, RowsHeld, Inv, TypeOK
<1>2. RowsHeld'
  BY <1>1 DEF LockInv, RowsHeld
<1>3. CommitsHold'
  BY DEF LockInv, CommitsHold
<1> QED BY <1>2, <1>3 DEF LockInv

(* Statements take a free row, or the one the run has.                     *)
LEMMA TakesRow ==
  ASSUME Inv, LockInv, NEW r \in Run, DeleteExpert(r) \/ InsertExpert(r)
  PROVE  LockInv'
<1> DEFINE p == run[r].product
<1>1. /\ p \in Product /\ run[r].phase \in {"delete", "insert"}
      /\ run'[r].product = p
      /\ run'[r].phase = IF DeleteExpert(r) THEN "insert" ELSE "commit"
      /\ \A s \in Run \ {r} : run'[s] = run[s]
  BY Parts DEF Inv, TypeOK, DeleteExpert, InsertExpert, RunState, Holds, Refreshing
<1>2. CASE holder' = holder
  <2>1. DeleteExpert(r) \/ holder[p] = r
    BY <1>1, <1>2 DEF InsertExpert, Inv, TypeOK
  <2>2. RowsHeld'
    BY <1>1, <1>2 DEF LockInv, RowsHeld, Writing, Inv, TypeOK
  <2>3. CommitsHold'
    BY <1>1, <1>2, <2>1 DEF LockInv, CommitsHold
  <2> QED BY <2>2, <2>3 DEF LockInv
<1>3. CASE holder' = [holder EXCEPT ![p] = r] /\ holder[p] = NoRun
  <2>1. \A s \in Run \ {r} : run[s].phase = "commit" => run[s].product # p
    BY <1>3, RunAssumption DEF LockInv, CommitsHold
  <2>2. CommitsHold'
    <3>1. holder'[p] = r
      BY <1>1, <1>3 DEF Inv, TypeOK
    <3>2. ASSUME NEW s \in Run \ {r}, run'[s].phase = "commit"
          PROVE  holder'[run'[s].product] = s
      BY <1>1, <1>3, <2>1, <3>2, Parts DEF LockInv, CommitsHold, Inv, TypeOK, Holds, Refreshing
    <3> QED BY <1>1, <3>1, <3>2 DEF CommitsHold
  <2>3. RowsHeld'
    BY <1>1, <1>3 DEF LockInv, RowsHeld, Writing, Inv, TypeOK
  <2> QED BY <2>2, <2>3 DEF LockInv
<1>4. \/ holder' = holder
      \/ holder' = [holder EXCEPT ![p] = r] /\ holder[p] = NoRun
  BY <1>1 DEF DeleteExpert, InsertExpert, Inv, TypeOK
<1> QED BY <1>2, <1>3, <1>4

(* The commit and the rollback free the rows of their run, and no others.  *)
LEMMA FreesRow ==
  ASSUME Inv, LockInv, NEW r \in Run, CommitExpert(r) \/ ProductFails(r)
  PROVE  LockInv'
<1>1. run'[r].phase = "pick" /\ holder' = Released(r)
  <2>1. CASE CommitExpert(r)
    <3> DEFINE p == run[r].product
    <3>1. p \in Product /\ holder[p] = r /\ holder' = [holder EXCEPT ![p] = NoRun]
      BY <2>1, Parts DEF CommitExpert, LockInv, CommitsHold, Holds, Refreshing
    <3>2. \A q \in Product : holder[q] = r => q = p
      BY RunAssumption DEF LockInv, RowsHeld
    <3>3. holder' = Released(r)
      BY <3>1, <3>2 DEF Released, Inv, TypeOK
    <3>4. run'[r] = [run[r] EXCEPT !.phase = "pick", !.product = None, !.draft = None,
                                   !.found = FALSE]
      BY <2>1 DEF CommitExpert
    <3> QED BY <3>3, <3>4, Parts DEF RunState
  <2>2. CASE ProductFails(r)
    BY <2>2, Parts DEF ProductFails, Inv, TypeOK, RunState
  <2> QED BY <2>1, <2>2
<1>2. \A s \in Run \ {r} : run'[s].phase = run[s].phase /\ run'[s].product = run[s].product
  <2> SUFFICES ASSUME NEW s \in Run \ {r}
               PROVE  run'[s].phase = run[s].phase /\ run'[s].product = run[s].product
    OBVIOUS
  <2>1. run'[s] = run[s] \/ run'[s] = [run[s] EXCEPT !.found = FALSE]
    BY DEF CommitExpert, ProductFails, Inv, TypeOK
  <2> QED BY <2>1, Parts DEF RunState
<1>3. \A p \in Product : holder'[p] = IF holder[p] = r THEN NoRun ELSE holder[p]
  BY <1>1 DEF Released
<1>4. RowsHeld'
  BY <1>2, <1>3 DEF LockInv, RowsHeld, Inv, TypeOK
<1>5. CommitsHold'
  <2> SUFFICES ASSUME NEW s \in Run, run'[s].phase = "commit"
               PROVE  holder'[run'[s].product] = s
    BY DEF CommitsHold
  <2>1. s # r /\ run[s].phase = "commit" /\ run'[s].product = run[s].product
    BY <1>1, <1>2
  <2>2. run[s].product \in Product /\ holder[run[s].product] = s
    BY <2>1, Parts DEF LockInv, CommitsHold, Holds, Refreshing
  <2> QED BY <1>3, <2>1, <2>2
<1> QED BY <1>4, <1>5 DEF LockInv

(* The steps of a run that touch no row.                                   *)
LEMMA OffTheRows ==
  ASSUME Inv, LockInv, NEW r \in Run,
         \/ StartAny(r) \/ PhaseEnds(r) \/ PhaseFails(r) \/ ListFails(r)
         \/ ListProducts(r) \/ ReadProduct(r) \/ Synthesise(r) \/ EndRefresh(r)
  PROVE  LockInv'
<1>1. /\ run[r].phase \notin Writing /\ holder' = holder
      /\ \A s \in Run \ {r} : run'[s] = run[s]
  BY DEF Inv, TypeOK, StartAny, Start, Active, PhaseEnds, PhaseFails, ListFails, ListProducts,
         ReadProduct, Synthesise, EndRefresh, Writing
<1>2. run'[r].phase # "commit"
  <2>1. CASE StartAny(r)
    <3>1. PICK kind \in Kinds : run'[r] = [Idle EXCEPT !.phase = First(kind), !.kind = kind]
      BY <2>1 DEF StartAny, Start, Inv, TypeOK
    <3> QED BY <3>1 DEF Idle, First
  <2>2. CASE PhaseEnds(r) \/ EndRefresh(r)
    <3>1. PICK phase \in {"jira", "confluence", "reconcile", "refreshed"} :
            \/ run'[r] = Idle
            \/ run'[r] = [run[r] EXCEPT !.phase = After(phase, run[r].kind)]
      BY <2>2 DEF PhaseEnds, EndRefresh, Inv, TypeOK
    <3> QED BY <3>1, AfterType, Parts DEF Idle, RunState, Refreshing
  <2>3. CASE PhaseFails(r) \/ ListFails(r)
    BY <2>3, Parts DEF PhaseFails, ListFails, Inv, TypeOK, Idle, RunState
  <2>4. CASE ReadProduct(r)
    <3>1. PICK p \in run[r].todo :
            run'[r] = [run[r] EXCEPT !.todo = @ \ {p},
                         !.phase = IF docs[p] = None THEN "pick" ELSE "think",
                         !.product = IF docs[p] = None THEN None ELSE p,
                         !.draft = docs[p]]
      BY <2>4 DEF Inv, TypeOK, ReadProduct
    <3> QED BY <3>1, Parts DEF RunState
  <2>5. CASE ListProducts(r) \/ Synthesise(r)
    BY <2>5, Parts DEF ListProducts, Synthesise, Inv, TypeOK, RunState
  <2> QED BY <2>1, <2>2, <2>3, <2>4, <2>5
<1> QED BY <1>1, <1>2, LocksKept

LEMMA LockNext == Inv /\ LockInv /\ [Next]_vars => LockInv'
<1> SUFFICES ASSUME Inv, LockInv, [Next]_vars PROVE LockInv'
  OBVIOUS
<1>1. ASSUME NEW r \in Run, \/ StartAny(r) \/ PhaseFails(r) \/ ListFails(r) \/ ProductFails(r)
                            \/ Goes(r) \/ Waits(r)
      PROVE  LockInv'
  BY <1>1, OffTheRows, TakesRow, FreesRow DEF Goes, Waits
<1>2. CASE Crash
  BY <1>2 DEF Crash, LockInv, RowsHeld, CommitsHold, Idle
<1>3. ASSUME run' = run, holder' = holder
      PROVE  LockInv'
  BY <1>3 DEF LockInv, RowsHeld, CommitsHold
<1> QED BY <1>1, <1>2, <1>3 DEF Next, ChangeDocs, PostDocument, vars

(* A row is held by the run that writes it, from its first statement on it *)
(* to its commit, and by nobody else.                                      *)
THEOREM Locks == Spec => []LockInv
BY LockInit, LockNext, Invariant, PTL DEF Spec

(* Whether the next statement of a run waits for nobody.                   *)
GoesOn(r) ==
  \/ run[r].phase = "commit"
  \/ run[r].phase = "insert" /\ holder[run[r].product] \in {NoRun, r} /\ ~Conflict(r)

(* No row is held by a run that waits.                                     *)
HoldersGoOn == \A p \in Product : holder[p] # NoRun => GoesOn(holder[p])

(* Whoever has a row of product_experts can go on to its commit: nobody    *)
(* waits for it in a circle, however many refreshes meet at a product.     *)
THEOREM NoCircularWait == Spec => []HoldersGoOn
<1>1. Inv /\ LockInv => HoldersGoOn
  BY DEF Inv, TypeOK, LockInv, RowsHeld, HoldersGoOn, GoesOn, Writing, Conflict
<1> QED BY <1>1, Locks, Invariant, PTL

(* What is put in the place of an expert is the draft of the one run that  *)
(* holds its row, at that run's commit, which lets go of the row.          *)
Replaces(p) ==
  expert'[p] # expert[p] =>
    /\ holder[p] \in Run /\ holder'[p] = NoRun
    /\ run[holder[p]].phase = "commit" /\ run[holder[p]].product = p
    /\ expert'[p] = run[holder[p]].draft

OneWriterPerProduct == [][\A p \in Product : Replaces(p)]_vars

(* For all products, runs and failures: the lock makes each refresh of a   *)
(* product one step.                                                       *)
THEOREM RowsHaveOneWriter == Spec => OneWriterPerProduct
<1>1. Inv /\ LockInv /\ [Next]_vars => [\A p \in Product : Replaces(p)]_vars
  <2> SUFFICES ASSUME Inv, LockInv, Next PROVE \A p \in Product : Replaces(p)
    BY DEF vars, Replaces
  <2>1. ASSUME NEW r \in Run, CommitExpert(r)
        PROVE  \A p \in Product : Replaces(p)
    <3> DEFINE p == run[r].product
    <3>1. /\ p \in Product /\ holder[p] = r /\ run[r].phase = "commit"
          /\ expert' = [expert EXCEPT ![p] = run[r].draft]
          /\ holder' = [holder EXCEPT ![p] = NoRun]
      BY <2>1, Parts DEF CommitExpert, LockInv, CommitsHold, Holds, Refreshing
    <3> QED BY <3>1 DEF Replaces, Inv, TypeOK
  <2>2. ASSUME expert' = expert PROVE \A p \in Product : Replaces(p)
    BY <2>2 DEF Replaces
  <2>3. (\E r \in Run : CommitExpert(r)) \/ expert' = expert
    BY DEF Next, StartAny, Start, ChangeDocs, PhaseFails, ListFails, ProductFails, Goes, Waits,
           PhaseEnds, ListProducts, ReadProduct, Synthesise, EndRefresh, DeleteExpert,
           InsertExpert, PostDocument, Crash
  <2> QED BY <2>1, <2>2, <2>3
<1> QED BY <1>1, Locks, Invariant, PTL DEF Spec, OneWriterPerProduct

-------------------------------------------------------------------------------
(* How far a run is from its end: five steps for a product that it still   *)
(* has to take, and one for each phase before.                             *)

Left(r) ==
  LET todo == 5 * Cardinality(run[r].todo)
      all  == 5 * Cardinality(Product)
      phase == run[r].phase
  IN  CASE phase = "idle" -> 0
        [] phase = "pick" -> todo + 1
        [] phase = "commit" -> todo + 2
        [] phase = "insert" -> todo + 3
        [] phase = "delete" -> todo + 4
        [] phase = "think" -> todo + 5
        [] phase = "products" -> all + 2
        [] phase = "reconcile" -> all + 3
        [] phase = "confluence" -> all + 4
        [] phase = "jira" -> all + 5

(* No step takes an active run away from its end, and its own lead there.  *)
Nearer(r) ==
  Active(r) =>
    /\ Left(r)' <= Left(r)
    /\ Goes(r) \/ Waits(r) => Left(r)' < Left(r)

LEMMA TodoIsFinite ==
  ASSUME IsFiniteSet(Product), Inv, NEW r \in Run
  PROVE  /\ Cardinality(Product) \in Nat /\ Cardinality(run[r].todo) \in Nat
         /\ Cardinality(run[r].todo) <= Cardinality(Product)
         /\ \A p \in run[r].todo :
              Cardinality(run[r].todo \ {p}) = Cardinality(run[r].todo) - 1
<1>1. run[r].todo \subseteq Product
  BY Parts
<1>2. IsFiniteSet(run[r].todo) /\ Cardinality(run[r].todo) <= Cardinality(Product)
  BY <1>1, FS_Subset
<1>3. Cardinality(Product) \in Nat /\ Cardinality(run[r].todo) \in Nat
  BY <1>2, FS_CardinalityType
<1>4. \A p \in run[r].todo : Cardinality(run[r].todo \ {p}) = Cardinality(run[r].todo) - 1
  BY <1>2, FS_RemoveElement
<1> QED BY <1>2, <1>3, <1>4

LEMMA LeftIsNatural ==
  ASSUME IsFiniteSet(Product), Inv, NEW r \in Run
  PROVE  Left(r) \in Nat /\ (Active(r) => Left(r) > 0)
<1> DEFINE todo == Cardinality(run[r].todo)
           all == Cardinality(Product)
<1>1. todo \in Nat /\ all \in Nat
  BY TodoIsFinite
<1> HIDE DEF todo, all
<1>2. run[r].phase \in Phase
  BY Parts
<1> QED BY <1>1, <1>2 DEF Left, Active, Phase, todo, all

(* A step that leaves the run as it is, or forgets it in a crash.          *)
LEMMA Untouched ==
  ASSUME IsFiniteSet(Product), Inv, NEW r \in Run,
         \/ run'[r].phase = run[r].phase /\ run'[r].todo = run[r].todo
         \/ run'[r] = Idle
  PROVE  Left(r)' <= Left(r) /\ (Active(r) /\ run'[r] = Idle => Left(r)' < Left(r))
<1>1. Left(r) \in Nat /\ (Active(r) => Left(r) > 0)
  BY LeftIsNatural
<1>2. CASE run'[r] = Idle
  <2>1. Left(r)' = 0
    BY <1>2 DEF Left, Idle
  <2> QED BY <1>1, <2>1
<1>3. CASE run'[r] # Idle
  <2>1. Left(r)' = Left(r)
    BY <1>3 DEF Left
  <2> QED BY <1>1, <1>3, <2>1
<1> QED BY <1>2, <1>3

(* Between the phases of run().                                            *)
LEMMA PhaseNearer ==
  ASSUME IsFiniteSet(Product), Inv, CleanInv, NEW r \in Run,
         PhaseEnds(r) \/ PhaseFails(r) \/ ListFails(r) \/ ListProducts(r) \/ EndRefresh(r)
  PROVE  Left(r)' < Left(r) /\ Left(r)' <= Left(r)
<1> DEFINE all == Cardinality(Product)
<1>0. Active(r) /\ all \in Nat /\ Cardinality(Indexed) \in Nat /\ Cardinality(Indexed) <= all
  <2>1. IsFiniteSet(Indexed) /\ Cardinality(Indexed) <= all
    BY FS_Subset DEF Indexed
  <2> QED BY <2>1, FS_CardinalityType
          DEF PhaseEnds, PhaseFails, ListFails, ListProducts, EndRefresh, Active
<1>1. CASE run'[r] = Idle
  BY <1>0, <1>1, Untouched
<1>2. CASE ListProducts(r)
  <2>1. run'[r].phase = "pick" /\ run'[r].todo = Indexed /\ run[r].phase = "products"
    BY <1>2, Parts DEF ListProducts, Inv, TypeOK, RunState
  <2>2. Left(r)' = 5 * Cardinality(Indexed) + 1 /\ Left(r) = 5 * all + 2
    BY <2>1 DEF Left
  <2> QED BY <1>0, <2>2
<1>3. CASE run'[r] # Idle /\ ~ListProducts(r)
  <2>1. \/ run[r].phase = "jira" /\ run'[r].phase = "confluence"
        \/ run[r].phase = "confluence" /\ run'[r].phase \in {"reconcile", "products"}
        \/ run[r].phase = "reconcile" /\ run'[r].phase = "products"
    <3>1. CASE PhaseEnds(r)
      <4>1. /\ run[r].phase \in {"jira", "confluence", "reconcile"}
            /\ run'[r] = [run[r] EXCEPT !.phase = After(run[r].phase, run[r].kind)]
            /\ After(run[r].phase, run[r].kind) # "idle"
        BY <1>3, <3>1 DEF PhaseEnds, Inv, TypeOK
      <4>2. run'[r].phase = After(run[r].phase, run[r].kind)
        BY <4>1, Parts DEF RunState
      <4> QED BY <4>1, <4>2 DEF After
    <3>2. CASE PhaseFails(r)
      BY <1>3, <3>2, Parts DEF PhaseFails, Inv, TypeOK, RunState
    <3>3. CASE EndRefresh(r)
      BY <1>3, <3>3 DEF EndRefresh, After, Inv, TypeOK
    <3>4. CASE ListFails(r)
      BY <1>3, <3>4 DEF ListFails, Inv, TypeOK
    <3> QED BY <1>3, <3>1, <3>2, <3>3, <3>4
  <2> QED BY <1>0, <2>1 DEF Left
<1> QED BY <1>1, <1>2, <1>3

(* On the way of one product.                                              *)
LEMMA ProductNearer ==
  ASSUME IsFiniteSet(Product), Inv, NEW r \in Run,
         \/ ReadProduct(r) \/ Synthesise(r) \/ DeleteExpert(r) \/ InsertExpert(r)
         \/ CommitExpert(r) \/ ProductFails(r)
  PROVE  Left(r)' < Left(r) /\ Left(r)' <= Left(r)
<1> DEFINE todo == Cardinality(run[r].todo)
<1>1. todo \in Nat
  BY TodoIsFinite
<1>2. CASE ReadProduct(r)
  <2>1. PICK p \in run[r].todo :
          run'[r] = [run[r] EXCEPT !.todo = @ \ {p},
                       !.phase = IF docs[p] = None THEN "pick" ELSE "think",
                       !.product = IF docs[p] = None THEN None ELSE p,
                       !.draft = docs[p]]
    BY <1>2 DEF Inv, TypeOK, ReadProduct
  <2>2. run'[r].todo = run[r].todo \ {p} /\ run'[r].phase \in {"pick", "think"}
        /\ run[r].phase = "pick"
    BY <1>2, <2>1, Parts DEF RunState, ReadProduct
  <2>3. Cardinality(run'[r].todo) = todo - 1
    BY <2>2, TodoIsFinite
  <2> QED BY <1>1, <2>2, <2>3 DEF Left
<1>3. CASE ~ReadProduct(r)
  <2>1. /\ run'[r].todo = run[r].todo
        /\ \/ run[r].phase = "think" /\ run'[r].phase = "delete"
           \/ run[r].phase = "delete" /\ run'[r].phase = "insert"
           \/ run[r].phase = "insert" /\ run'[r].phase = "commit"
           \/ run[r].phase \in Refreshing /\ run'[r].phase = "pick"
    <3>1. CASE CommitExpert(r)
      <4>1. run'[r] = [run[r] EXCEPT !.phase = "pick", !.product = None, !.draft = None,
                                     !.found = FALSE]
        BY <3>1 DEF CommitExpert
      <4> QED BY <3>1, <4>1, Parts DEF CommitExpert, RunState, Refreshing
    <3>2. CASE Synthesise(r) \/ DeleteExpert(r) \/ InsertExpert(r)
      BY <3>2, Parts DEF Synthesise, DeleteExpert, InsertExpert, Inv, TypeOK, RunState
    <3>3. CASE ProductFails(r)
      <4>1. /\ run'[r] = [run[r] EXCEPT !.phase = "pick", !.product = None, !.draft = None,
                                        !.found = FALSE]
            /\ run[r].phase \in Refreshing
        BY <3>3 DEF ProductFails, Inv, TypeOK, Refreshing
      <4> QED BY <4>1, Parts DEF RunState
    <3> QED BY <1>3, <3>1, <3>2, <3>3
  <2> QED BY <1>1, <2>1 DEF Left, Refreshing
<1> QED BY <1>2, <1>3

LEMMA NearerStep ==
  ASSUME IsFiniteSet(Product), Inv, CleanInv, Next, NEW r \in Run
  PROVE  Nearer(r)
<1> SUFFICES ASSUME Active(r)
             PROVE  Left(r)' <= Left(r) /\ (Goes(r) \/ Waits(r) => Left(r)' < Left(r))
  BY DEF Nearer
<1>1. CASE PhaseFails(r) \/ ListFails(r) \/ ProductFails(r) \/ Goes(r) \/ Waits(r)
  BY <1>1, PhaseNearer, ProductNearer DEF Goes, Waits
<1>2. CASE ~(PhaseFails(r) \/ ListFails(r) \/ ProductFails(r) \/ Goes(r) \/ Waits(r))
  <2>1. \/ run'[r].phase = run[r].phase /\ run'[r].todo = run[r].todo
        \/ run'[r] = Idle
    <3>1. ASSUME NEW s \in Run \ {r}, CommitExpert(s)
          PROVE  run'[r].phase = run[r].phase /\ run'[r].todo = run[r].todo
      <4>1. run'[r] = run[r] \/ run'[r] = [run[r] EXCEPT !.found = FALSE]
        BY <3>1 DEF CommitExpert
      <4> QED BY <4>1, Parts DEF RunState
    <3>2. ASSUME NEW s \in Run \ {r}, ~CommitExpert(s),
                 \/ StartAny(s) \/ PhaseFails(s) \/ ListFails(s) \/ ProductFails(s)
                 \/ Goes(s) \/ Waits(s)
          PROVE  run'[r] = run[r]
      BY <3>2 DEF Inv, TypeOK, StartAny, Start, PhaseFails, ListFails, ProductFails, Goes,
                  Waits, PhaseEnds, ListProducts, ReadProduct, Synthesise, EndRefresh,
                  DeleteExpert, InsertExpert
    <3>3. CASE Crash
      BY <3>3 DEF Crash
    <3>4. ~StartAny(r)
      BY DEF StartAny, Start
    <3> QED BY <1>2, <3>1, <3>2, <3>3, <3>4 DEF Next, ChangeDocs, PostDocument
  <2> QED BY <1>2, <2>1, Untouched
<1> QED BY <1>1, <1>2

(* A run is nearer to its end with each of its steps, whatever the others  *)
(* do between them, and however documents change and things fail: it takes *)
(* no more of them than five for each product, and five.                   *)
RunsProgress == [][\A r \in Run : Nearer(r)]_vars

THEOREM EveryStepCounts ==
  ASSUME IsFiniteSet(Product) PROVE Spec => RunsProgress
<1>1. Spec => []CleanInv
  BY CleanInit, CleanNext, Invariant, PTL DEF Spec
<1>2. Inv /\ CleanInv /\ [Next]_vars => [\A r \in Run : Nearer(r)]_vars
  BY NearerStep
<1> QED BY <1>1, <1>2, Invariant, PTL DEF Spec, RunsProgress
=============================================================================
