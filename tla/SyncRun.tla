-------------------------------- MODULE SyncRun --------------------------------
(***************************************************************************)
(* What the ingestion service runs in the background: IngestionPipeline's  *)
(* run() - the Jira leg, the Confluence leg, reconciliation on a full sync *)
(* and then ProductExpertRefresher -, reconciliation alone, and the expert *)
(* refresh alone.  The scheduler and the routes start runs; any number of  *)
(* them overlap, and meet at the rows of product_experts.                  *)
(*                                                                         *)
(* A leg is seen from here only by the documents it changes: SourceSync    *)
(* has its details.                                                        *)
(***************************************************************************)
EXTENDS Integers, FiniteSets

CONSTANTS
  Product,     \* products documents are classified to, "General" excepted
  Text,        \* what the documents of a product say, taken together
  None,        \* no document, no expert
  Run,         \* runs that may be active at once
  NoRun,       \* nobody holds the lock
  Kinds,       \* the kinds of runs that are started
  MaxChanges,  \* bound: how often the documents change
  MaxFailures, \* bound: how often something fails
  Faults       \* the failures that happen, out of AllFaults

AllKinds == {"cron", "incremental", "full", "reconcile", "refresh"}
AllFaults == {"leg", "llm", "db", "crash"}

ASSUME RunAssumption == NoRun \notin Run
ASSUME NoneAssumption == None \notin Text
ASSUME ValuesAssumption ==
  /\ Kinds \subseteq AllKinds /\ Faults \subseteq AllFaults
  /\ MaxChanges \in Nat /\ MaxFailures \in Nat

VARIABLES
  docs,     \* the indexed documents of each product
  changes,  \* how often they changed
  expert,   \* committed rows of product_experts: what each was made from
  holder,   \* who deleted or inserted a product's row, uncommitted
  run,      \* the local state of each run
  failures, \* how often something failed
  clean     \* history: nothing else acted while it ran, and nothing failed
vars == <<docs, changes, expert, holder, run, failures, clean>>

Idle == [phase |-> "idle", kind |-> "none", todo |-> {}, product |-> None,
         draft |-> None, found |-> FALSE]

Phase == {"idle", "jira", "confluence", "reconcile", "products", "pick",
          "think", "delete", "insert", "commit"}
Kind == AllKinds \union {"none"}

RunState == [phase : Phase, kind : Kind, todo : SUBSET Product,
             product : Product \union {None}, draft : Text \union {None},
             found : BOOLEAN]

TypeOK ==
  /\ docs \in [Product -> Text \union {None}]
  /\ changes \in 0 .. MaxChanges
  /\ expert \in [Product -> Text \union {None}]
  /\ holder \in [Product -> Run \union {NoRun}]
  /\ run \in [Run -> RunState]
  /\ failures \in 0 .. MaxFailures
  /\ clean \in [Run -> BOOLEAN]

Active(r) == run[r].phase # "idle"

Init ==
  /\ docs = [p \in Product |-> None]
  /\ changes = 0
  /\ expert = [p \in Product |-> None]
  /\ holder = [p \in Product |-> NoRun]
  /\ run = [r \in Run |-> Idle]
  /\ failures = 0
  /\ clean = [r \in Run |-> FALSE]

-------------------------------------------------------------------------------
(* Starting a run. *)

\* Mutant: experts are refreshed before the deletions.
After_RefreshFirst(phase, kind) ==
  CASE phase = "jira" -> "confluence"
    [] phase = "confluence" -> "products"
    [] phase = "reconcile" -> "idle"
    [] phase = "refreshed" -> IF kind = "full" THEN "reconcile" ELSE "idle"

\* What run() does next, after a phase that did not raise.
After(phase, kind) ==
  CASE phase = "jira" -> "confluence"
    [] phase = "confluence" -> IF kind = "full" THEN "reconcile" ELSE "products"
    [] phase = "reconcile" -> IF kind = "full" THEN "products" ELSE "idle"
    [] phase = "refreshed" -> "idle"

\* Mutant: a run starts with the phase it is named after.
First_ByName(kind) == IF kind \in {"reconcile", "refresh"} THEN kind ELSE "jira"

First(kind) ==
  CASE kind = "reconcile" -> "reconcile"
    [] kind = "refresh" -> "products"
    [] OTHER -> "jira"

\* Everybody active is disturbed by r, and r by everybody active.
Meet(r) ==
  clean' = [s \in Run |-> IF s = r THEN \A t \in Run \ {r} : ~Active(t)
                          ELSE clean[s] /\ ~Active(s)]

\* The scheduler never runs two instances of its job, and skips instead.
Start(r, kind) ==
  /\ ~Active(r)
  /\ kind = "cron" => \A s \in Run : run[s].kind # "cron"
  /\ run' = [run EXCEPT ![r] = [Idle EXCEPT !.phase = First(kind), !.kind = kind]]
  /\ Meet(r)
  /\ UNCHANGED <<docs, changes, expert, holder, failures>>

StartAny(r) == \E kind \in Kinds : Start(r, kind)

-------------------------------------------------------------------------------
(* The legs of the sources, and reconciliation. *)

\* A leg stores documents - of a new text, or now of another product - and
\* reconciliation removes some.
ChangeDocs(r, p, t) ==
  /\ run[r].phase \in {"jira", "confluence", "reconcile"}
  /\ run[r].phase = "reconcile" => docs[p] # None
  /\ changes < MaxChanges
  /\ changes' = changes + 1
  /\ t # docs[p]
  /\ docs' = [docs EXCEPT ![p] = t]
  /\ UNCHANGED <<expert, holder, run, clean, failures>>

\* A document is posted directly; no refresh follows.
PostDocument(p, t) ==
  /\ changes < MaxChanges
  /\ changes' = changes + 1
  /\ t # docs[p]
  /\ docs' = [docs EXCEPT ![p] = t]
  /\ clean' = [r \in Run |-> clean[r] /\ ~Active(r)]
  /\ UNCHANGED <<expert, holder, run, failures>>

PhaseEnds(r) ==
  LET next == After(run[r].phase, run[r].kind)
  IN  /\ run[r].phase \in {"jira", "confluence", "reconcile"}
      /\ run' = [run EXCEPT ![r] =
           IF next = "idle" THEN Idle ELSE [@ EXCEPT !.phase = next]]
      /\ UNCHANGED <<docs, changes, expert, holder, clean, failures>>

\* Something fails, out of Faults.
Fails(fault) ==
  /\ fault \in Faults /\ failures < MaxFailures
  /\ failures' = failures + 1

\* An exception of a leg leaves run(); one of reconciliation does not.
PhaseFails(r) ==
  /\ Fails("leg")
  /\ run[r].phase \in {"jira", "confluence", "reconcile"}
  /\ run' = [run EXCEPT ![r] =
       IF @.phase = "reconcile" /\ @.kind = "full"
       THEN [@ EXCEPT !.phase = "products"] ELSE Idle]
  /\ clean' = [clean EXCEPT ![r] = FALSE]
  /\ UNCHANGED <<docs, changes, expert, holder>>

-------------------------------------------------------------------------------
(* refresh_all and _refresh_product. *)

Indexed == {p \in Product : docs[p] # None}

\* Mutant: products that have an expert are not looked at again.
ListProducts_New(r) ==
  /\ run[r].phase = "products"
  /\ run' = [run EXCEPT ![r].phase = "pick",
                        ![r].todo = {p \in Indexed : expert[p] = None}]
  /\ UNCHANGED <<docs, changes, expert, holder, clean, failures>>

ListProducts(r) ==
  /\ run[r].phase = "products"
  /\ run' = [run EXCEPT ![r].phase = "pick", ![r].todo = Indexed]
  /\ UNCHANGED <<docs, changes, expert, holder, clean, failures>>

\* The documents are read; the answer of the LLM is awaited without a lock.
ReadProduct(r) ==
  /\ run[r].phase = "pick"
  /\ \E p \in run[r].todo :
       run' = [run EXCEPT ![r].todo = @ \ {p},
                          ![r].phase = IF docs[p] = None THEN "pick" ELSE "think",
                          ![r].product = IF docs[p] = None THEN None ELSE p,
                          ![r].draft = docs[p]]
  /\ UNCHANGED <<docs, changes, expert, holder, clean, failures>>

\* The LLM answers with the JSON asked for.  The DELETE starts, and finds
\* the row that is committed now.
Synthesise(r) ==
  /\ run[r].phase = "think"
  /\ run' = [run EXCEPT ![r].phase = "delete",
                        ![r].found = expert[run[r].product] # None]
  /\ UNCHANGED <<docs, changes, expert, holder, clean, failures>>

\* Mutant: the deletion is committed on its own.
DeleteExpert_Commits(r) ==
  LET p == run[r].product
  IN  /\ run[r].phase = "delete"
      /\ run[r].found => holder[p] = NoRun
      /\ expert' = IF run[r].found THEN [expert EXCEPT ![p] = None] ELSE expert
      /\ run' = [run EXCEPT ![r].phase = "insert"]
      /\ UNCHANGED <<docs, changes, holder, clean, failures>>

\* It waits while another transaction has the row it found.
DeleteExpert(r) ==
  LET p == run[r].product
  IN  /\ run[r].phase = "delete"
      /\ run[r].found => holder[p] = NoRun
      /\ holder' = IF run[r].found THEN [holder EXCEPT ![p] = r] ELSE holder
      /\ run' = [run EXCEPT ![r].phase = "insert"]
      /\ UNCHANGED <<docs, changes, expert, clean, failures>>

\* Somebody else's committed row, which the DELETE did not see, is in the way.
Conflict(r) == expert[run[r].product] # None /\ holder[run[r].product] # r
Violates(r) == run[r].phase = "insert" /\ holder[run[r].product] = NoRun /\ Conflict(r)

\* The INSERT waits for the transaction that has the key.
InsertExpert(r) ==
  LET p == run[r].product
  IN  /\ run[r].phase = "insert"
      /\ holder[p] \in {NoRun, r}
      /\ ~Conflict(r)
      /\ holder' = [holder EXCEPT ![p] = r]
      /\ run' = [run EXCEPT ![r].phase = "commit"]
      /\ UNCHANGED <<docs, changes, expert, clean, failures>>

\* Whoever waits to delete the old row finds it gone, and deletes nothing.
CommitExpert(r) ==
  LET p == run[r].product
  IN  /\ run[r].phase = "commit"
      /\ expert' = [expert EXCEPT ![p] = run[r].draft]
      /\ holder' = [holder EXCEPT ![p] = NoRun]
      /\ run' = [s \in Run |->
           IF s = r
           THEN [run[r] EXCEPT !.phase = "pick", !.product = None, !.draft = None,
                               !.found = FALSE]
           ELSE IF run[s].phase = "delete" /\ run[s].product = p
           THEN [run[s] EXCEPT !.found = FALSE]
           ELSE run[s]]
      /\ UNCHANGED <<docs, changes, clean, failures>>

Released(r) == [p \in Product |-> IF holder[p] = r THEN NoRun ELSE holder[p]]

\* Mutant: the session of the failed product is not closed.
ProductFails_KeepsSession(r) ==
  /\ run[r].phase \in {"think", "delete", "insert", "commit"}
  /\ \/ run[r].phase = "think" /\ Fails("llm")
     \/ run[r].phase # "think" /\ Fails("db")
     \/ Violates(r) /\ UNCHANGED failures
  /\ run' = [run EXCEPT ![r] = [@ EXCEPT !.phase = "pick", !.product = None,
                                         !.draft = None, !.found = FALSE]]
  /\ clean' = [clean EXCEPT ![r] = FALSE]
  /\ UNCHANGED <<docs, changes, expert, holder>>

\* Not JSON, a statement that fails, or a unique violation: the product is
\* skipped, with its session rolled back.
ProductFails(r) ==
  /\ run[r].phase \in {"think", "delete", "insert", "commit"}
  /\ \/ run[r].phase = "think" /\ Fails("llm")
     \/ run[r].phase # "think" /\ Fails("db")
     \/ Violates(r) /\ UNCHANGED failures
  /\ holder' = Released(r)
  /\ run' = [run EXCEPT ![r] = [@ EXCEPT !.phase = "pick", !.product = None,
                                         !.draft = None, !.found = FALSE]]
  /\ clean' = [clean EXCEPT ![r] = FALSE]
  /\ UNCHANGED <<docs, changes, expert>>

\* Every product was tried.
EndRefresh(r) ==
  LET next == After("refreshed", run[r].kind)
  IN  /\ run[r].phase = "pick" /\ run[r].todo = {}
      /\ run' = [run EXCEPT ![r] =
           IF next = "idle" THEN Idle ELSE [@ EXCEPT !.phase = next]]
      /\ UNCHANGED <<docs, changes, expert, holder, clean, failures>>

\* The products cannot be listed: the exception is swallowed, the run ends.
ListFails(r) ==
  /\ Fails("db")
  /\ run[r].phase = "products"
  /\ run' = [run EXCEPT ![r] = Idle]
  /\ clean' = [clean EXCEPT ![r] = FALSE]
  /\ UNCHANGED <<docs, changes, expert, holder>>

\* The service restarts; PostgreSQL rolls back what its sessions left.
Crash ==
  /\ Fails("crash")
  /\ \E r \in Run : Active(r)
  /\ run' = [r \in Run |-> Idle]
  /\ holder' = [p \in Product |-> NoRun]
  /\ clean' = [r \in Run |-> FALSE]
  /\ UNCHANGED <<docs, changes, expert>>

-------------------------------------------------------------------------------

\* Steps of a run that come by themselves.
Goes(r) ==
  \/ PhaseEnds(r)    \/ ListProducts(r) \/ ReadProduct(r) \/ Synthesise(r)
  \/ CommitExpert(r) \/ EndRefresh(r)

\* Statements that queue for a row; an INSERT may find there, at its turn,
\* that it violates the unique index.
Waits(r) ==
  DeleteExpert(r) \/ InsertExpert(r) \/ (Violates(r) /\ ProductFails(r))

Next ==
  \/ \E r \in Run :
       \/ StartAny(r)
       \/ \E p \in Product, t \in Text \union {None} : ChangeDocs(r, p, t)
       \/ PhaseFails(r) \/ ListFails(r) \/ ProductFails(r)
       \/ Goes(r) \/ Waits(r)
  \/ \E p \in Product, t \in Text : PostDocument(p, t)
  \/ Crash

Spec == Init /\ [][Next]_vars

\* The event loop runs what is ready, and PostgreSQL serves the queue of a
\* lock in order.
FairSpec == Spec /\ \A r \in Run : WF_vars(Goes(r)) /\ SF_vars(Waits(r))

\* Besides, the scheduler's job comes round again and again.
CronSpec == FairSpec /\ SF_vars(\E r \in Run : Start(r, "cron"))

-------------------------------------------------------------------------------
(* Properties. *)

(* A run that nothing interfered with, and no part of which failed, ends   *)
(* with the expert of every indexed product made from its present          *)
(* documents: the refresh comes after all that changes them, and misses no *)
(* product.                                                                *)
CleanRunExpertsCurrent ==
  [][\A r \in Run :
       /\ Active(r) /\ ~Active(r)'
       /\ clean'[r] /\ run[r].kind # "reconcile"
       => \A p \in Indexed' : expert'[p] = docs'[p]]_vars

\* GET /experts/{product} of the query service: one SELECT, and 404 when it
\* finds no row.
Found(p) == expert[p] # None

(* Readers, of whatever moment, find an expert of a product that ever had  *)
(* one: replacing it, failing to, or dying meanwhile never takes it away.  *)
ExpertStays == [][\A p \in Product : Found(p) => Found(p)']_vars

(* Every run ends: none waits for good for a row another one left locked.  *)
RunsEnd == \A r \in Run : Active(r) ~> ~Active(r)

(* Once documents stop changing, hourly runs - overlapped by others or not *)
(* - leave the expert of every product current, for good.                  *)
ExpertsCatchUp == <>[](\A p \in Indexed : expert[p] = docs[p])
=============================================================================
