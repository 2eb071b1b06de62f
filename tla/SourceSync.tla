------------------------------ MODULE SourceSync ------------------------------
(***************************************************************************)
(* One source (Jira or Confluence) of the ingestion pipeline: the remote   *)
(* listing, the rows of "documents" it is copied to, the row of            *)
(* "sync_state", and the jobs that run concurrently on them - the cron     *)
(* job, the background tasks of /ingest/sync/* and /ingest/reconcile.      *)
(*                                                                         *)
(* A job reads the listing page by page, buffers items, indexes them one   *)
(* at a time (Jira) or in windows of concurrent tasks (Confluence), stamps *)
(* and stores the watermark and, on a full sync, enumerates the source     *)
(* again and deletes the rows it did not see.  An upsert and a delete are  *)
(* single steps here: DocStoreTx shows that their transactions are.        *)
(***************************************************************************)
EXTENDS Integers, FiniteSets, Sequences

CONSTANTS
  NumDocs,      \* documents the source may hold; their ids are 1..NumDocs
  Body,         \* cleaned texts; equal SHA-256 hashes mean equal texts
  EmptyBody,    \* the text the chunker yields no chunk for
  Meta,         \* title, labels, spaces...: everything the hash leaves out
  NoDoc,        \* no such document
  Job,          \* jobs that may be running at once
  Kind,         \* "jira" or "confluence"
  NumSpaces,    \* spaces of Confluence, listed one after the other
  SpaceOf,      \* the space each page is in
  PageSize,     \* jira_page_size, confluence_page_size
  Concurrency,  \* ingest_concurrency
  Minute,       \* clock ticks in a minute, the precision of a JQL date
  Zone,         \* ticks the time zone of the Jira account is ahead of UTC
  MaxClock,     \* bound: ticks of the clock, one for every edit or post
  BusySource,   \* may the source change while a job runs?
  Posts,        \* are documents posted directly, too?
  Faults        \* the failures that happen, out of AllFaults

AllFaults == {"fetch", "outage", "item", "db", "crash"}

Doc == 1 .. NumDocs
Version == [body : Body, meta : Meta, upd : 1 .. MaxClock]

\* Mutant: Jira issues are gathered in windows too.
Window_AlwaysConcurrent == Concurrency
\* Jira is indexed issue by issue.
Window == IF Kind = "jira" THEN 1 ELSE Concurrency

ASSUME SizesAssumption ==
  /\ NumDocs \in Nat
  /\ NumSpaces \in Nat \ {0} /\ SpaceOf \in [Doc -> 1 .. NumSpaces]
  /\ Kind = "jira" => NumSpaces = 1
  /\ PageSize \in Nat \ {0}
  /\ Concurrency \in Nat \ {0}
  /\ Minute \in Nat \ {0} /\ Zone \in Int
  /\ MaxClock \in Nat \ {0}
ASSUME ValuesAssumption ==
  /\ EmptyBody \in Body
  /\ NoDoc \notin Version
  /\ Kind \in {"jira", "confluence"}
  /\ BusySource \in BOOLEAN /\ Posts \in BOOLEAN
  /\ Faults \subseteq AllFaults

VARIABLES
  clock,      \* the time of the latest edit or post
  remote,     \* what the source holds
  db,         \* the committed rows of documents
  state,      \* the row of sync_state; watermark 0 is NULL
  job,        \* the local state of each job
  disturbed   \* history: did something else act while this job ran, or the
              \*          source withhold items from it?
vars == <<clock, remote, db, state, job, disturbed>>

Item == [doc : Doc, ver : Version]
Task == [item : Item, stage : {"check", "write", "done"}]

IdleJob == [phase |-> "idle", full |-> FALSE, since |-> 0, space |-> 1,
            offset |-> 0, more |-> FALSE, buf |-> <<>>, task |-> <<>>, failed |-> FALSE,
            stamp |-> 0, ids |-> {}, stale |-> {}]

JobState ==
  [phase : {"idle", "fetch", "record", "enum", "delete"}, full : BOOLEAN,
   since : 0 .. MaxClock, space : 1 .. NumSpaces, offset : Nat,
   more : BOOLEAN, buf : Seq(Item), task : Seq(Task), failed : BOOLEAN, stamp : 0 .. MaxClock,
   ids : SUBSET Doc, stale : SUBSET Doc]

TypeOK ==
  /\ clock \in 1 .. MaxClock
  /\ remote \in [Doc -> Version \union {NoDoc}]
  /\ db \in [Doc -> Version \union {NoDoc}]
  /\ state \in [wm : 0 .. MaxClock, status : {"never_run", "success", "partial"}]
  /\ job \in [Job -> JobState]
  /\ disturbed \in [Job -> BOOLEAN]

Present(store) == {d \in Doc : store[d] # NoDoc}
Active(j) == job[j].phase # "idle"

Init ==
  /\ clock = 1
  /\ remote \in [Doc -> [body : Body, meta : Meta, upd : {1}] \union {NoDoc}]
  /\ db = [d \in Doc |-> NoDoc]
  /\ state = [wm |-> 0, status |-> "never_run"]
  /\ job = [j \in Job |-> IdleJob]
  /\ disturbed = [j \in Job |-> FALSE]

-------------------------------------------------------------------------------
(* The remote service. *)

SourceMayChange == BusySource \/ \A j \in Job : ~Active(j)
DisturbAll == disturbed' = [j \in Job |-> disturbed[j] \/ Active(j)]

\* Somebody creates, edits or restores a document.
SourceEdit(d) ==
  /\ SourceMayChange
  /\ clock < MaxClock
  /\ clock' = clock + 1
  /\ \E b \in Body, m \in Meta :
       remote' = [remote EXCEPT ![d] = [body |-> b, meta |-> m, upd |-> clock + 1]]
  /\ DisturbAll
  /\ UNCHANGED <<db, state, job>>

SourceDelete(d) ==
  /\ SourceMayChange
  /\ remote[d] # NoDoc
  /\ remote' = [remote EXCEPT ![d] = NoDoc]
  /\ DisturbAll
  /\ UNCHANGED <<clock, db, state, job>>

\* Mutant: the JQL date is rounded up to the next minute.
Matching_RoundsUp(since) ==
  {d \in Present(remote) :
     Kind = "jira" /\ since > 0 =>
       remote[d].upd >= since + Minute - (since % Minute) - Zone}

\* JQL filters on the server, to the minute, and takes the date, which names
\* no zone, for one of the account's; Confluence lists everything.
Matching(since) ==
  {d \in Present(remote) :
     Kind = "jira" /\ since > 0 =>
       remote[d].upd >= since - (since % Minute) - Zone}

\* What the query of job r matches: Confluence is asked for one space, Jira
\* for all of its projects at once.
Listing(r) == {d \in Matching(r.since) : SpaceOf[d] = r.space}

\* Jira lists by update time, Confluence by id.
Before(d, e) ==
  IF Kind = "jira" /\ remote[d].upd # remote[e].upd
  THEN remote[d].upd < remote[e].upd
  ELSE d < e

\* The page of the current listing at the offset of job r.
Page(r) ==
  {d \in Listing(r) :
     LET position == Cardinality({e \in Listing(r) : Before(e, d)})
     IN  r.offset <= position /\ position < r.offset + PageSize}

\* An ailing API may also answer 200 with no items.
Answers(r) == {Page(r)} \union (IF "outage" \in Faults THEN {{}} ELSE {})

-------------------------------------------------------------------------------
(* The clients' paging. *)

\* What the generator yields of an answered page.
Yielded(P, since) ==
  {d \in P : Kind = "confluence" => remote[d].upd > since}

\* Mutant: only the first page is read.
Advance_FirstPageOnly(r, P) == [r EXCEPT !.more = FALSE]

\* Mutant: the offset stays where it is.
Advance_SamePage(r, P) ==
  [r EXCEPT !.more = P # {} /\ r.offset < Cardinality(Listing(r))]

\* The offset after an answered page, and whether more pages follow it.
NextOffset(r, P) == r.offset + (IF Kind = "jira" THEN Cardinality(P) ELSE PageSize)
GoesOn(r, P) == P # {} /\ NextOffset(r, P) < Cardinality(Listing(r))

\* Mutant: the offset is kept from one space to the next.
Advance_KeepsOffset(r, P) ==
  IF ~GoesOn(r, P) /\ r.space < NumSpaces
  THEN [r EXCEPT !.space = @ + 1, !.offset = NextOffset(r, P)]
  ELSE [r EXCEPT !.offset = NextOffset(r, P), !.more = GoesOn(r, P)]

\* The next page, the first one of the next space, or the end.
Advance(r, P) ==
  IF ~GoesOn(r, P) /\ r.space < NumSpaces
  THEN [r EXCEPT !.space = @ + 1, !.offset = 0]
  ELSE [r EXCEPT !.offset = NextOffset(r, P), !.more = GoesOn(r, P)]

InOrder(K) ==
  {p \in [1 .. Cardinality(K) -> K] :
     \A a, b \in 1 .. Cardinality(K) : a < b => Before(p[a], p[b])}

-------------------------------------------------------------------------------
(* A job: fetch, index, store the watermark, enumerate, delete. *)

Ghosts(j) ==
  disturbed' = [k \in Job |-> IF k = j THEN \E i \in Job \ {j} : Active(i)
                              ELSE disturbed[k] \/ Active(k)]
Withheld(j, P) ==
  disturbed' = [disturbed EXCEPT ![j] = @ \/ P # Page(job[j])]

\* run() reaches the leg of this source, reading the watermark for it.
StartSync(j, full) ==
  /\ ~Active(j)
  /\ job' = [job EXCEPT ![j] = [IdleJob EXCEPT
               !.phase = "fetch", !.full = full, !.more = TRUE,
               !.since = IF full THEN 0 ELSE state.wm]]
  /\ Ghosts(j)
  /\ UNCHANGED <<clock, remote, db, state>>

\* reconcile_deletions() on its own.
StartReconcile(j) ==
  /\ ~Active(j)
  /\ job' = [job EXCEPT ![j] = [IdleJob EXCEPT !.phase = "enum", !.more = TRUE]]
  /\ Ghosts(j)
  /\ UNCHANGED <<clock, remote, db, state>>

\* The loop body asks the generator for more than it holds: the next page.
WantsPage(j) ==
  /\ job[j].phase = "fetch" /\ job[j].more
  /\ job[j].task = <<>> /\ Len(job[j].buf) < Window

FetchPage(j) ==
  /\ WantsPage(j)
  /\ \E P \in Answers(job[j]) : \E p \in InOrder(Yielded(P, job[j].since)) :
       /\ job' = [job EXCEPT ![j] = [Advance(job[j], P) EXCEPT
                 !.buf = @ \o [i \in 1 .. Cardinality(Yielded(P, job[j].since)) |->
                                 [doc |-> p[i], ver |-> remote[p[i]]]]]]
       /\ Withheld(j, P)
  /\ UNCHANGED <<clock, remote, db, state>>

\* A full window, or what is left when the listing ends, becomes tasks.
StartWindow(j) ==
  /\ job[j].phase = "fetch" /\ job[j].task = <<>>
  /\ job[j].buf # <<>>
  /\ Len(job[j].buf) >= Window \/ ~job[j].more
  /\ LET n == IF Len(job[j].buf) >= Window THEN Window ELSE Len(job[j].buf)
     IN  job' = [job EXCEPT
           ![j].task = [i \in 1 .. n |-> [item |-> job[j].buf[i], stage |-> "check"]],
           ![j].buf  = SubSeq(@, n + 1, Len(@))]
  /\ UNCHANGED <<clock, remote, db, state, disturbed>>

\* Mutant: a full sync trusts the hash as well.
MaySkip_Always(j, d, ver) == db[d] # NoDoc /\ db[d].body = ver.body

\* Incremental syncs skip a document whose content hash is stored already.
MaySkip(j, d, ver) == ~job[j].full /\ db[d] # NoDoc /\ db[d].body = ver.body

\* Up to the embedding: the hash comparison and the chunker's verdict.
CheckItem(j, i) ==
  LET t == job[j].task[i]
      skip == MaySkip(j, t.item.doc, t.item.ver) \/ t.item.ver.body = EmptyBody
  IN  /\ t.stage = "check"
      /\ job' = [job EXCEPT ![j].task[i].stage = IF skip THEN "done" ELSE "write"]
      /\ UNCHANGED <<clock, remote, db, state, disturbed>>

\* The upsert, after the embedding and the classification were awaited.
WriteItem(j, i) ==
  LET t == job[j].task[i]
  IN  /\ t.stage = "write"
      /\ db' = [db EXCEPT ![t.item.doc] = t.item.ver]
      /\ job' = [job EXCEPT ![j].task[i].stage = "done"]
      /\ UNCHANGED <<clock, remote, state, disturbed>>

\* An exception of one item is counted and does not stop the others.
ItemFails(j, i) ==
  /\ "item" \in Faults
  /\ job[j].task[i].stage # "done"
  /\ job' = [job EXCEPT ![j].task[i].stage = "done", ![j].failed = TRUE]
  /\ UNCHANGED <<clock, remote, db, state, disturbed>>

\* gather() returns; the window is empty again.
CloseWindow(j) ==
  /\ job[j].task # <<>>
  /\ \A i \in DOMAIN job[j].task : job[j].task[i].stage = "done"
  /\ job' = [job EXCEPT ![j].task = <<>>]
  /\ UNCHANGED <<clock, remote, db, state, disturbed>>

\* Mutant: the last, incomplete window is dropped.
Finish_DropsWindow(j) ==
  /\ job[j].phase = "fetch" /\ ~job[j].more
  /\ job[j].task = <<>> /\ Len(job[j].buf) < Window
  /\ job' = [job EXCEPT ![j].phase = "record", ![j].stamp = clock, ![j].buf = <<>>]
  /\ UNCHANGED <<clock, remote, db, state, disturbed>>

\* Mutant: the watermark allows for a minute of clock skew.
Finish_Ahead(j) ==
  /\ job[j].phase = "fetch" /\ ~job[j].more
  /\ job[j].task = <<>> /\ job[j].buf = <<>>
  /\ job' = [job EXCEPT ![j].phase = "record", ![j].stamp = clock + Minute]
  /\ UNCHANGED <<clock, remote, db, state, disturbed>>

\* "finished" is read off the clock when the listing is exhausted ...
Finish(j) ==
  /\ job[j].phase = "fetch" /\ ~job[j].more
  /\ job[j].task = <<>> /\ job[j].buf = <<>>
  /\ job' = [job EXCEPT ![j].phase = "record", ![j].stamp = clock]
  /\ UNCHANGED <<clock, remote, db, state, disturbed>>

\* ... and stored, failures or not.  A full sync goes on to reconcile.
Record(j) ==
  /\ job[j].phase = "record"
  /\ state' = [wm |-> job[j].stamp,
               status |-> IF job[j].failed THEN "partial" ELSE "success"]
  /\ job' = [job EXCEPT ![j] =
       IF job[j].full
       THEN [@ EXCEPT !.phase = "enum", !.since = 0, !.space = 1, !.offset = 0,
                      !.more = TRUE]
       ELSE IdleJob]
  /\ UNCHANGED <<clock, remote, db, disturbed>>

EnumeratePage(j) ==
  /\ job[j].phase = "enum" /\ job[j].more
  /\ \E P \in Answers(job[j]) :
       /\ job' = [job EXCEPT ![j] = [Advance(job[j], P) EXCEPT
                                       !.ids = @ \union Yielded(P, job[j].since)]]
       /\ Withheld(j, P)
  /\ UNCHANGED <<clock, remote, db, state>>

\* The rows that were not listed - unless nothing was.
Stale(ids) == IF ids = {} THEN {} ELSE Present(db) \ ids

Diff(j) ==
  /\ job[j].phase = "enum" /\ ~job[j].more
  /\ job' = [job EXCEPT ![j] =
               IF Stale(job[j].ids) = {} THEN IdleJob
               ELSE [@ EXCEPT !.phase = "delete", !.stale = Stale(job[j].ids)]]
  /\ UNCHANGED <<clock, remote, db, state, disturbed>>

Delete(j) ==
  /\ job[j].phase = "delete"
  /\ db' = [d \in Doc |-> IF d \in job[j].stale THEN NoDoc ELSE db[d]]
  /\ job' = [job EXCEPT ![j] = IdleJob]
  /\ UNCHANGED <<clock, remote, state, disturbed>>

\* A document is posted under this source's type: its row is replaced at
\* once, whatever the source has of it.
PostDocument(d, body, meta) ==
  /\ Posts
  /\ body # EmptyBody
  /\ clock < MaxClock
  /\ clock' = clock + 1
  /\ db' = [db EXCEPT ![d] = [body |-> body, meta |-> meta, upd |-> clock + 1]]
  /\ DisturbAll
  /\ UNCHANGED <<remote, state, job>>

-------------------------------------------------------------------------------
(* Failures. *)

\* A request for a page fails: the exception leaves run().
FetchFails(j) ==
  /\ "fetch" \in Faults
  /\ WantsPage(j) \/ (job[j].phase = "enum" /\ job[j].more)
  /\ job' = [job EXCEPT ![j] = IdleJob]
  /\ UNCHANGED <<clock, remote, db, state, disturbed>>

\* So does a failing statement outside of an item.
DbFails(j) ==
  /\ "db" \in Faults
  /\ \/ job[j].phase \in {"record", "delete"}
     \/ job[j].phase = "enum" /\ ~job[j].more
  /\ job' = [job EXCEPT ![j] = IdleJob]
  /\ UNCHANGED <<clock, remote, db, state, disturbed>>

\* The service dies and comes back with nothing running.
Crash ==
  /\ "crash" \in Faults
  /\ \E j \in Job : Active(j)
  /\ job' = [j \in Job |-> IdleJob]
  /\ UNCHANGED <<clock, remote, db, state, disturbed>>

-------------------------------------------------------------------------------

TaskStep(j) ==
  \E i \in DOMAIN job[j].task : CheckItem(j, i) \/ WriteItem(j, i) \/ ItemFails(j, i)

JobStep(j) ==
  \/ FetchPage(j)     \/ FetchFails(j) \/ StartWindow(j) \/ TaskStep(j)
  \/ CloseWindow(j)   \/ Finish(j)     \/ Record(j)
  \/ EnumeratePage(j) \/ Diff(j)       \/ Delete(j)      \/ DbFails(j)

Next ==
  \/ \E d \in Doc : SourceEdit(d) \/ SourceDelete(d)
  \/ \E d \in Doc, body \in Body, meta \in Meta : PostDocument(d, body, meta)
  \/ \E j \in Job : \/ \E full \in BOOLEAN : StartSync(j, full)
                    \/ StartReconcile(j)
                    \/ JobStep(j)
  \/ Crash

Spec == Init /\ [][Next]_vars

\* The event loop runs every task that is ready; nobody has to start one.
FairSpec == Spec /\ \A j \in Job : WF_vars(JobStep(j))

\* Besides, the scheduler starts an incremental sync again and again,
\* whatever else is started.
CronSpec == FairSpec /\ SF_vars(\E j \in Job : StartSync(j, FALSE))

-------------------------------------------------------------------------------
(* Properties. *)

\* A document of the source whose text is indexed as it stands, or that was
\* posted after its last edit.
Current(d) ==
  /\ db[d] # NoDoc
  /\ db[d].body = remote[d].body \/ db[d].upd > remote[d].upd

Indexable == {d \in Present(remote) : remote[d].body # EmptyBody}

(* What the watermark claims, and the next incremental sync relies on: an  *)
(* item last updated before it is indexed with its present text, or with   *)
(* one that was posted since.                                              *)
WatermarkCovers == \A d \in Indexable : remote[d].upd <= state.wm => Current(d)

(* The delta that an incremental sync computes from the watermark: a       *)
(* document whose indexed text is no longer the source's is in it, once    *)
(* no sync is left that could index it.                                    *)
EditsAreFound ==
  (\A j \in Job : ~Active(j)) =>
    \A d \in Indexable : db[d] # NoDoc /\ ~Current(d)
      => d \in Yielded(Matching(state.wm), state.wm)

(* A full sync that nothing interferes with ends with the index equal to   *)
(* the source, whatever rows, jobs or failures came before it: every text  *)
(* and all of its metadata, and no row of a document that is gone.         *)
Converged ==
  /\ \A d \in Indexable : db[d] = remote[d]
  /\ Present(remote) # {} => Present(db) \subseteq Present(remote)
CleanFullSyncConverges ==
  [][\A j \in Job :
       /\ Diff(j) \/ Delete(j)
       /\ ~Active(j)'
       /\ job[j].full /\ ~job[j].failed /\ ~disturbed[j]
       => Converged']_vars

(* reconcile_deletions: "Remove documents that no longer exist at the      *)
(* source": no row is removed of a document that the source holds then.    *)
ReconcileOnlyRemovesGone ==
  [][\A d \in Doc : db[d] # NoDoc /\ db'[d] = NoDoc => remote[d] = NoDoc]_vars

(* No older version of a document goes over a newer one: not while syncs   *)
(* that index item by item, as Jira's do, page in turn through a source    *)
(* that changes, nor while any syncs overlap on one that does not.         *)
NeverOlder ==
  [][\A d \in Doc : db[d] # NoDoc /\ db'[d] # NoDoc => db[d].upd <= db'[d].upd]_vars

(* Every job comes to an end: paging stops, windows drain, no phase waits  *)
(* for something that does not come.                                       *)
JobsEnd == \A j \in Job : Active(j) ~> ~Active(j)

(* Once the source is quiet, hourly incremental syncs alone bring every    *)
(* text of it into the index and it stays there.                           *)
CatchesUp == <>[](\A d \in Indexable : Current(d))
=============================================================================
