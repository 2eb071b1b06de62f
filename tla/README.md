# iWiki in TLA+

iWiki copies Jira issues and Confluence pages into PostgreSQL, cuts them into
embedded chunks, classifies them to products, and answers questions about them
with a hybrid search and an LLM. Two FastAPI services share one database:
`ingestion-service` writes it, `query-service` reads it. This directory models
what can go wrong between their concurrent parts, checks it with TLC and proves
the parts of it that matter for every size of the system with TLAPS.

    tlc -config SyncOverlap.cfg MCSourceSync      # any run of PROJECT.json
    tlapm DocStoreTxProofs.tla                    # any *Proofs module

## 1. Inventory

| Component (source) | State | Operations | Works with |
|---|---|---|---|
| Source clients (`clients/jira_client.py`, `confluence_client.py`) | space and offset of a listing in progress | pages of a filtered, ordered, *live* listing | Jira, Confluence over HTTP |
| Pipeline (`pipeline/ingestion_pipeline.py`) | the window of a job, its watermark stamp, the ids it enumerated | `run`, `_sync_jira`, `_sync_confluence`, `reconcile_deletions` | clients, chunker, embedder, classifier, repository, refresher |
| Repository (`db/repository.py`, `db/init.sql`) | `documents`, `chunks`, `sync_state`, `product_experts` | upsert with chunks, delete by ids, watermark, expert upsert | PostgreSQL at READ COMMITTED |
| Chunker (`pipeline/chunker.py`) | position in a text | windows of tokens, or of words | - |
| Expert refresher (`pipeline/expert_refresher.py`) | products still to do | list, read, ask the LLM, replace the row | repository, LLM |
| Scheduler and routes (`main.py`, `api/routes.py`) | which runs are active | hourly incremental sync, `/ingest/*` background tasks, `/ingest/document` | pipeline, refresher |
| `/query` (`query-service/app/api/routes.py`, `search/`, `rag/`) | requests in flight | cache, embed, search, rerank, answer | Redis, PostgreSQL, LLM |
| Query cache (`query-service/app/cache.py`) | answers and embeddings in Redis | fail-open get and set with expiry | Redis |
| Reranker (`search/reranker.py`) | the list of an LLM's reply, the order made of it | blends signals, lets an LLM reorder the head, cuts to `top_k` | LLM |
| Classifier (`pipeline/classifier.py`) | vectors of the taxonomy's labels, cached for a run | rules, embedding similarity, LLM, validation, fallback | LLM, the other items of a run |
| Embedder (`pipeline/embedder.py`) | vectors gathered so far | batches of texts to vectors | LLM |
| Expert reads (`query-service/app/db/expert_repository.py`) | - | list, get, 404 | `product_experts` |
| Cleaner, settings, LLM client | - | text and values | - |

What is hard here, and what would make each part correct:

* **Syncs over a live listing.** The source changes while it is paged through by
  offset; several jobs (the cron job and anything started by hand) overlap, and
  nothing locks them out. Correct means: the watermark claims nothing the index
  lacks, a full sync converges, reconciliation removes only what is gone, an
  older version never replaces a newer one, and jobs end and catch up.
* **Concurrent transactions.** Upserts delete and reinsert chunks statement by
  statement, reconciliation deletes many rows at once, searches read meanwhile.
  Correct means: a search sees a document whole or not at all, whatever fails.
* **Overlapping expert refreshes.** Documents are read, an LLM is awaited with no
  lock, then the row is deleted and inserted under a partial unique index.
  Correct means: experts reflect what was indexed, are never lost to readers,
  and nobody waits for ever.
* **Caches.** Answers and embeddings outlive requests, limits, index changes and
  deployments. Correct means: an entry is only served to requests it fits.
* **Answers of an LLM.** A list of indices or an object of names may be anything;
  a batch of vectors may be short or out of order. Correct means: a ranking stays
  a permutation and moves only what the LLM was shown, a row gets its own vector,
  a document ends at a place of the taxonomy, at the one that suits it best when
  rules or similarity decide.
* **Boundaries.** Window arithmetic at the end of a text, the minute precision of
  JQL, the last and incomplete window of tasks, a listing that goes on with the
  next space.

`PROJECT.json` lists each hazard at the line where it bites.

## 2. Modules

| Module | Models | Checked with | Proofs |
|---|---|---|---|
| `SourceSync` | one source: listing, `documents`, `sync_state`, concurrent jobs | `MCSourceSync` | `SourceSyncProofs`, `ListingProofs` |
| `DocStore` | abstract: a document and its chunks change in one step | as a property of `DocStoreTx` | |
| `DocStoreTx` | the transactions of `repository.py`, statement by statement | `MCDocStoreTx` | `DocStoreTxProofs` |
| `Chunker` | both sliding windows of `TextChunker` | as part of `ItemPipeline` | `ChunkerProofs` |
| `Classifier` | what each stage of `HierarchyClassifier` makes of its input (operators) | as part of `ItemPipeline` | in `ItemPipelineProofs` |
| `ItemPipeline` | an item from its text to its rows: `Chunker`, embedder, `Classifier`, store | `MCItemPipeline` | `ItemPipelineProofs` |
| `SyncRun` | `run()`, reconciliation, the expert refresh, and the runs that overlap | `MCSyncRun` | `SyncRunProofs` |
| `QueryPath` | `/query` with its two caches | `MCQueryPath` | `QueryPathProofs` |
| `Rerank` | `rerank()`, `_llm_rerank` and `_parse_order` | `MCRerank` | `RerankProofs` |

How they fit together: `SyncRun` is what the service runs; a *leg* of a run is one
`JIRA`/`CONFLUENCE` job of `SourceSync`, seen from `SyncRun` only by the documents
it changes. `SourceSync` writes and deletes documents in single steps: its
behaviours are behaviours of `DocStore` (`JobsUseDocStore`), and so are those of
`DocStoreTx`, which does the same in many (`Refinement`). `Chunker` says which chunks a
content has; `ItemPipeline` extends it, so that every behaviour of an item is one
of the chunker (`ItemRunsChunker`), and is what `CheckItem` ... `WriteItem` of
`SourceSync` leave out: which chunks, vectors and class a version is stored with.
`QueryPath` reads what they leave, and sees the index only as the moment at which
it was searched; `Rerank` is the last part of its `Search` step, which it never
gives another set of rows (`NothingLostOrDoubled`).

### SourceSync

A document is an id and a version: its cleaned text (`body`, whose equality is
the equality of the SHA-256 content hash), everything the hash leaves out
(`meta`), and its update time. `remote` is what the source holds, `db` the
committed rows, `state` the row of `sync_state`; `job[j]` is the local state of a
background job, with the loop variables of the client generator inside:

| Action | Code |
|---|---|
| `StartSync`, `StartReconcile` | a leg reads the watermark; `/ingest/reconcile` |
| `FetchPage` (`Listing`, `Page`, `Yielded`, `Advance`) | the next page: filter, order, offset, the loop condition. Jira is asked for all projects in one query and filters on the server, to the minute, by a date that names no zone (`Zone`); Confluence is asked for one space after the other, from offset 0, and filtered in the client |
| `StartWindow`, `CheckItem`, `WriteItem`, `CloseWindow` | one issue at a time for Jira; `gather` over `ingest_concurrency` pages for Confluence; hash comparison and chunker verdict before, upsert after the awaited embedding and classification |
| `Finish`, `Record` | `finished = now()` when the listing is exhausted; the statement that stores it |
| `EnumeratePage`, `Diff`, `Delete` | the three parts of `reconcile_deletions`, each its own session |
| `ItemFails`, `FetchFails`, `DbFails`, `Crash` | an item is counted and skipped; a request or statement outside an item ends the job; the service restarts |
| `PostDocument` | `/ingest/document` for an id of this source, if `Posts` |
| `SourceEdit`, `SourceDelete` | people editing (external) |

`disturbed` is a history variable; no action's guard reads it. A job is disturbed
by whatever else writes the rows, by a source that changes under it, and by an
answer that withholds items it should hold. The clock ticks with every edit and
post; a space a page is in is a constant of the page.

### DocStoreTx and DocStore

A transaction keeps what it has done and not committed (`gone`, `new`) and locks
the document row it wrote, as PostgreSQL does; a delete finds the rows committed
when it starts and locks them in any order (the order of the query plan), so two
reconciliations may deadlock, and PostgreSQL rolls one back. `Abort` is an
exception, a lost connection or a crash, at any point. `row` and `chunk` are what
a search sees. `ImplementsDocStore` maps each commit to a `Put` or a `Drop`.

### Chunker

Positions stand for tokens and words. `Iterate` is one turn of the loop with its
`break`; the word path converts both settings with `int(n / 1.3)`. `Init` admits
only settings for which the window advances (`overlap < size` in the unit used):
for others the code's loop never ends, which is a hazard, not a behaviour one
can check a result of.

### ItemPipeline and Classifier

`stage` is the await an item is at. `_process_jira_issue`,
`_process_confluence_page` and `/ingest/document` are the same sequence:

| Action | Code |
|---|---|
| `ChunkStep`, `Chunked` | the chunker; no chunks: skipped (or a 422) |
| `EmbedBatch`, `EmbedFails` | `embed_batch`: an answer is sorted by the index of each vector, and may be short (`Short`) |
| `Rules`, `ScoreNode`, `RuleMatch`, `NoRuleMatch` | `_rule_match`: the loop over the nodes with its running best, and what is made of that |
| `ReadCache`, `FillCache`, `OtherFills` | `_ensure_node_embeddings`: an await between looking for the cached vectors and setting them, so that tasks of a window fill it twice |
| `Semantic`, `CompareVector`, `SemanticMatch`, `NoSemanticMatch`, `NoVector` | `_semantic_match`: the loop over the vectors with its running best; API errors are caught, an `IndexError` is not |
| `AskLLM`, `NoChoices` | `_llm_classify` with `_validate`; the fallback |
| `Store` | `embeddings[i]` for each chunk, then the transaction of `DocStoreTx` |

A vector is named by the text, or the label, it embeds. Keyword hits and
similarities come out of small sets; the loops, caps, thresholds and the rounding
of a confidence are those of the code. `value` keeps what a loop has computed, so
that its result can be compared with all of it; no step reads it but for its
length, which is the loop's index.

### Rerank

Rows are numbered by their fused rank. `Blend` sorts them by any scores (a stable
sort); `TakeItem` and `AppendDropped` are the turns of the two loops of
`_parse_order`, over every list of numbers, truth values (which Python takes for
0 and 1, and the code for neither) and other values. An answer without choices
leaves `rerank()` as an exception: the outcome `error`.

### SyncRun

The phases of `run()` in order, with the refresher's inner loop. `holder` is the
lock on a product's row; `DeleteExpert` and `InsertExpert` wait for it as the
statements do, and an insert that finds a row its delete did not see violates
the partial unique index (`Conflict`) and makes the product fail. `clean` is a
history variable: nobody else acted and nothing failed. `Found` is what the
read-only endpoints of the query service answer. The documents of a
product (the refresher reads the 50 most recent) are one value, and experts have
no component, since the refresher writes none that has.

### QueryPath

An answer is represented by what it was made from: when it was searched, under
which filter, for which embedded question, and whether anything was found. One
action per await of the handler, so requests interleave between them. Redis may
miss, drop an entry or fail at any access, and is never an error; the provider's
failures leave the handler; those of the database do not. The three headers are
three members of the key and of the filter (`AnswerKey`, `Filter`): a list that is
absent and one that is empty have one key and one search, an absent and an empty
product two keys and one search. `Headers` bounds which of them are sent. All
requests ask for the same `top_k`. Reranking keeps its
input when it fails and never changes the set of rows (`Rerank`), so it is part of
`Search`.

## 3. Runs

All bounds are in the `.cfg` files.

| Run | What it shows | Bounds, and why they are enough |
|---|---|---|
| `SyncOverlap` | two overlapping Jira jobs, posts, all job failures: `WatermarkCovers`, `ReconcileOnlyRemovesGone`, `CleanFullSyncConverges` | 2 documents on pages of one, so that a job pages, is overtaken and dies in between; a minute is 2 ticks of 4, so that rounding matters; the source is quiet while jobs run, but posts move the clock then, so that of two jobs the one that stamped first may store its watermark last |
| `SyncJiraBusy` | a source that changes under a single job and may answer with nothing: `NeverOlder`, `CleanFullSyncConverges`, `TypeOK` | pages of one and three ticks: an edit moves an issue to a later page, so items repeat and are skipped; two metas, so a hash that hides a change matters |
| `SyncEnds` | Confluence: `WatermarkCovers`, `JobsEnd`, `CatchesUp` | 4 documents in two spaces of three and one, pages and windows of 2: the last page of a space and the last window are incomplete, and a window spans pages and spaces |
| `StoreTx` | three transactions: `ChunksMatchRow`, `NobodyWaitsInVain`, `ImplementsDocStore`, `TransactionsEnd`, `TypeOK` | contents of one and two chunks, so an upsert may shrink a document; two documents, so deletes deadlock; a third transaction to wait behind them |
| `Items` | the chunker's `EveryTokenCovered`, `NoRedundantChunk`, `NeighboursOverlap`, `CountAsExpected`, `Terminates`; the item's `RowsMatchVectors`, `RealBranch`, `BestNode`, `ItemTypeOK` | every window up to 8 and text up to 18, i.e. past two windows, in both units; items of at most 4 tokens and windows of at most 4 are followed further: up to 4 chunks in batches of 2, so that a batch that is short has one after it. A taxonomy of three levels with a product that has no features and a catch-all the file lists in part; every three names out of eight; scores and similarities that tie, that are too low and that reach the caps, so that the running best changes more than once |
| `RunRefresh` | `CleanRunExpertsCurrent`, `ExpertStays`, `RunsEnd`, `ExpertsCatchUp`, `TypeOK` | two runs of any kind but `incremental` (it takes the steps of `cron`, less the scheduler's skipping) on two products; two changes of documents; one failure of any kind, anywhere (`MaxFailures`): with unlimited ones nothing ever becomes current |
| `Ranking` | `NothingLostOrDoubled`, `TailKeepsItsPlace`, `ListIsObeyed`, `TypeOK` | up to 4 rows of which 3 are shown, so there is a tail; lists of up to 4 items, so one may be doubled and one foreign; equal scores |
| `QueryScopes` | `AnswerForItsScope`, `NotTooOld`, `VectorOfThisModel`, `TypeOK` | two requests meeting in the caches: limited to a space, to a project of the same name, or to that project with an empty list of spaces (one key, one search); two models; a clock long enough for an answer to be stored late and expire |
| `SyncEditMissed`, `SyncPageShift`, `SyncNewDeleted`, `QueryOutage` | violated: section 5 | pages of one for the first two, so that a listing is several answers; one page for the third, so that it is one |

Stopping is legitimate only for one item and for one call of `rerank()`, so only
`Items` and `Ranking` do not check deadlock. Every property has a mutant of the code (marked `Mutant` in the
modules, listed in `PROJECT.json`) that TLC refutes under the same run.

`Patience` in `QueryPath` bounds how long a request works after its search; the
code's figure is the timeout of the LLM client (120 s, with its retries), and
`NotTooOld` says that an answer may be that much older than `cache_answer_ttl`.

### Fairness

* A task of the event loop that is ready runs: weak fairness of a job's steps
  (`SourceSync`, `SyncRun`), and of the chunker's loop (`ItemPipeline`). Starting one is fair to nobody, except that
* APScheduler fires the incremental sync every hour, and skips it only while its
  last instance runs: strong fairness of starting it (`CronSpec`).
* PostgreSQL serves the queue of a lock in order and breaks deadlocks: strong
  fairness of a statement that waits, weak fairness of `Abort` for a transaction
  in a cycle - of no other abort.

No fairness is assumed of failures, of people or of requests.

## 4. Proofs

| Theorem | States | For |
|---|---|---|
| `SourceSyncProofs!TypeCorrect` | `Spec => []TypeOK` | all constants |
| `SourceSyncProofs!OnlyTextIsWritten` | no task goes on to write a document without text | all constants |
| `SourceSyncProofs!JobsUseDocStore` | `Spec => Store!Spec`: the jobs and posts implement `DocStore` | all constants, any number of chunks in a text |
| `ListingProofs!PagedReconcile` | `Spec => ReconcileOnlyRemovesGone` | all constants without `BusySource` and without outages: any number of pages, spaces and overlapping jobs, other failures, posts |
| `ListingProofs!FullSyncConverges` | `Spec => CleanFullSyncConverges` | all constants |
| `ListingProofs!QuietWatermark` | `Spec => []WatermarkCovers` | all constants with `Quiet`: the source changes only between jobs, no item fails, no outage, and the clock of Jira's account is not behind (`Zone >= 0`); any number of overlapping jobs, crashes, posts |
| `ListingProofs!QuietNeverOlder` | `Spec => NeverOlder` | all constants without `BusySource` and `Posts`: any number of overlapping jobs, any failures |
| `ListingProofs!WindowsNeverOlder` | `Spec => OlderOnlyInWindow`: only a window that holds a document twice goes back to an older version | all constants with `Alone`: at most one job, no posts; any window, source and failures |
| `ListingProofs!OneByOneNeverOlder` | `Spec => NeverOlder` | the same, with a window of one |
| `ListingProofs!EveryStepCounts` | `Spec => JobsProgress`: a bounded number falls with each step of a job | all constants |
| `DocStoreTxProofs!SearchSeesWholeDocuments` | `Spec => []ChunksMatchRow` | all constants |
| `DocStoreTxProofs!Refinement` | `Spec => ImplementsDocStore` | all constants |
| `DocStoreTxProofs!WaitersAreServed` | `Spec => []NobodyWaitsInVain` | all constants |
| `DocStoreTxProofs!EveryStatementCounts` | `Spec => TransactionsProgress`: what is left of a transaction falls with each statement | all finite sets of documents |
| `ChunkerProofs!NothingLost`, `NothingRepeated`, `NeighboursShare`, `RightCount` | `Spec => []EveryTokenCovered`, `[]NoRedundantChunk`, `[]NeighboursOverlap`, `[]CountAsExpected` | all sizes, overlaps, texts |
| `ItemPipelineProofs!ItemRunsChunker` | `ItemSpec => Spec` (of `Chunker`), so the four above hold of items | all constants |
| `ItemPipelineProofs!OwnVectors` | `ItemSpec => []RowsMatchVectors` | all batch sizes, answers cut short anywhere |
| `ItemPipelineProofs!HierarchyConsistent`, `BestOfAll` | `ItemSpec => []RealBranch`, `[]BestNode` | all taxonomies, answers, scores, similarities |
| `ItemPipelineProofs!ItemTypeCorrect` | `ItemSpec => []ItemTypeOK` | all constants |
| `RerankProofs!TypeCorrect`, `RanksEveryRowOnce`, `TailIsNotMoved`, `ListIsFollowed` | `Spec => []TypeOK`, `[]NothingLostOrDoubled`, `[]TailKeepsItsPlace`, `[]ListIsObeyed` | all rows, heads, scores and replies |
| `SyncRunProofs!TypeCorrect`, `ExpertsStay`, `CleanRunsRefresh` | `Spec => []TypeOK`, `Spec => ExpertStays`, `Spec => CleanRunExpertsCurrent` | all constants |
| `SyncRunProofs!RowsHaveOneWriter` | `Spec => OneWriterPerProduct`: an expert is replaced only by the commit of the run that holds its row, with its draft | all constants |
| `SyncRunProofs!NoCircularWait` | `Spec => []HoldersGoOn`: whoever holds a row can go on to its commit | all constants |
| `SyncRunProofs!EveryStepCounts` | `Spec => RunsProgress`: what is left of a run falls with each step | all finite sets of products |
| `DocStoreTxProofs!TypeCorrect`, `QueryPathProofs!TypeCorrect` | `Spec => []TypeOK` | all constants |
| `QueryPathProofs!AnswersInScope` | `Spec => []AnswerForItsScope` | all constants |
| `QueryPathProofs!AnswersRecent` | `Spec => []NotTooOld` | all constants |
| `QueryPathProofs!VectorsMatch` | `Spec => []VectorOfThisModel` | all constants |

Assumptions are the named ASSUMEs of the modules, evaluated by TLC in the runs.

* *Reconciliation.* That only what is gone is removed is not inductive, and over a
  source that changes it is not true, be it on one page (`SyncNewDeleted`) or on
  several (`SyncPageShift`). Over a source at rest `PagesInv`, which is `Right`
  (below) with every document counted as good, says that all a space and an
  offset have passed is in the list, which in the end holds the source, so that
  none of the rows about to be deleted is of a document the source has.
* *Using the store.* A step of `SourceSync` changes no row, one, or drops a set;
  what remains to be shown is that what is put has chunks, as `DocStore` assumes
  of its contents: a task that gets past `CheckItem` has a text.
* *Listing.* A listing is sorted, so what an offset has passed of it is a set
  (`Below`: the spaces before this one, and of this one what is below the offset), and a page is exactly what the next offset adds (`Slice`, from the
  injectivity and surjectivity of positions). The invariant `Right` says that each
  document passed is still pending in the job, or good; that the rows at hand are
  those of the source; and that the whole source is good once the listing ended.
  Good means *the row is the item* for the clean full sync, which then has only
  what is gone left to delete, and *the row is current* for the watermark: there,
  rows that overlapping jobs write are current too, the source being at rest, and
  what is below a job's own start was good when it read the watermark.
* *Never older.* Over a source at rest, what jobs hold of a document is the
  document as it is, and no row is newer (`HeldInv`), so overlapping jobs write the
  same. Over a source that changes, a job's items, from the row through the tasks
  at hand to the buffer and the source, have versions that never go down
  (`TurnInv`): only tasks of one window that are for the same document may write
  out of turn, which a window of one does not have.
* *Transactions.* `ChunksMatchRow` is strengthened by what an open transaction
  knows: it holds the lock of what it wrote, an upsert past its purge has all of
  the committed chunks in `gone` (nobody else can have changed them, having no
  lock), and has inserted exactly the chunks below `next`. The commit then is one
  `Put`; a delete's commit is one `Drop` of the rows it locked.
* *Waiting.* A lock belongs to a transaction in progress that has written or locked
  the row (`LocksInv`). So a session that waits for an upsert waits for one that waits for
  nothing; if all it waits for are deletes that wait, they are a deadlock. Of
  experts the like is simpler: a run has at most one row, and has it only between
  its own two statements and its commit (`LockInv`), so that no circle can form,
  and what a commit replaces nobody else can be replacing.
* *Progress.* Three measures: pages, items and statements left of a job, chunks or
  rows left of a transaction, products left of a run. Each step makes them
  smaller, and what others do meanwhile does not make them larger; for a job,
  because there are so many spaces, with room for so many documents, for a run, because it
  lists the products once. With the fairness of section 3 this is why
  `JobsEnd`, `TransactionsEnd` and `RunsEnd` hold; that a step is always enabled,
  and so the conclusion, stays with TLC.
* *Chunker.* The invariant gives the k-th chunk in closed form from its
  neighbour: the first starts at 0, neighbours overlap exactly, and `start` is
  where the last one but the overlap ended, so a gap is impossible. The count is
  that of a quotient (`Quotient`): each chunk but the last begins a stride further.
* *Items.* Chunks are as the chunker's invariant says, from its theorems; as long
  as no vector is missing, vector i is that of chunk i (`vecs` is short of `sent`
  otherwise, and stays so), which is all that `Store` may write; a class is a
  result of a stage, hence a place of the taxonomy with a sound confidence. That
  it is the best one is the invariant of the loops (`BestSoFar`): of the nodes
  compared so far none is better than the best, and none before it as good.
* *Ranking.* `order` has no index twice, only indices of the head, and after the
  second loop all of them: the head of `ranked` is a permutation of the head of
  `signal`, and the tail is untouched. Both loops go up one scale (`Reach`), on
  which each index has its place (`Mention`): `order` holds those that have been
  reached, and in that order (`Collected`).
* *Experts.* Beside its type, a run that refreshes a product has a product and a
  draft made from documents; so the only step that writes an expert, a commit,
  replaces it by one that exists. The deletion is not visible to anybody before.
  Of a clean run (`Progress`): from its list of products on, each indexed product
  is still to be done, at hand, or has a current expert; nobody else changes
  documents or experts meanwhile.
* *Caches.* The answer of a request is right because the entry it found was, so
  the invariant describes the caches: an entry answers the question and scope of
  its key and expires within its answer's lifetime; a vector is the one its key
  names; and a request carries, from its search on, its own answer.

Model-checked only: liveness (fairness and ENABLED are beyond the prover); every
invariant and action property of a passing run is also a theorem, under the
hypotheses of the table.

Where `NeverOlder` fails, and why it is claimed for no more: with a second job in
`SyncJiraBusy` TLC finds a job that fetched an item before an edit and writes it
after the other job wrote the edit. With one Confluence job over a busy source (3
documents, pages of one, windows of two) it finds a page fetched, shifted by a new
one, edited and fetched again into the same window, whose two tasks write in the
wrong order; by `WindowsNeverOlder` there is no other way.

## 5. Where the code and its documentation disagree

Four runs exhibit one each:

* `SyncEditMissed`: the watermark is the time the listing *ended*. A page edited
  after it was listed is written with its old text, and the watermark stored then
  is not older than the edit: the next incremental sync, which reads it "to compute
  incremental deltas" (`ARCHITECTURE.md:166`), passes over the page. The old text
  stays until the page is edited again or somebody starts a full sync, for which
  `ARCHITECTURE.md:198` knows other occasions.
* `SyncPageShift`: a page deleted during the enumeration shifts the offsets;
  another page is never listed and its row is deleted though it still exists.
* `SyncNewDeleted`: a page created after the enumeration, and indexed by another
  job before the rows are read, is not among the listed ids, and its row is deleted
  though the page exists. `ingestion_pipeline.py:312` promises to remove "documents
  that no longer exist at the source", and so does `ARCHITECTURE.md:232`. A page of
  any size does not help.
* `QueryOutage`: with the database down, `/query` answers 200 "No relevant
  information found" and caches that, where `TESTING.md:210` expects a 500.

Modelled as the code does it, and visible in the actions, without a run:

* the watermark moves although items failed (`Record`, cf. `db/init.sql:72`);
* an exception of one leg ends the run (`PhaseFails`, cf. `ARCHITECTURE.md:449`);
* a document emptied at its source keeps its old text (`CheckItem`), and a product
  without documents its expert (`ListProducts`);
* two refreshes may collide on the unique index and fail a product (`Conflict`);
* a second page, or one of several spaces, answered empty ends an enumeration
  early, and the rows of what was not listed are deleted: the guard on an empty id
  set (`ARCHITECTURE.md:234`) only helps when nothing at all was listed (`Answers`,
  `Stale`);
* JQL takes the date of the watermark, which is in UTC and says so nowhere
  (`jira_client.py:57`), for one in the account's zone. East of UTC that lists a
  few hours more than needed; west of it, items updated in the hours after the
  watermark are not listed by the sync that should, whose own watermark is past
  them (`Zone`; with a negative one TLC finds `WatermarkCovers` violated);
* the reordering of the LLM is followed as far as it can be: of `[99, true, 2]` the
  index 2 comes first, although the docstring (`reranker.py:13`) and
  `ARCHITECTURE.md:340` say that parsing is strict and that *any* malformed response
  leaves the signal order intact. Only a reply without a list of indices does. That
  is what `ListIsObeyed` states and `ListIsFollowed` proves: what the code does
  (`Takes`, `AppendDropped`);
* the review flag compares the exact confidence and a rounded one is stored: under a
  threshold of more than three digits, which nothing forbids, a document may be
  unflagged with a stored confidence below it (`Results`, cf. `ARCHITECTURE.md:134`);
* a document posted as `jira` or `confluence` that the source does not know goes
  with the next reconciliation (`PostDocument`, cf. `routes.py:149` of the
  ingestion service); the default `source_type`, `manual`, the table refuses;
* an answer without choices raises an `IndexError` nobody catches: out of
  `rerank()` (`reranker.py:147`, cf. its docstring, line 14), and out of
  `classify()` (`NoChoices`); so does an embedding answer without a vector
  (`NoVector`): the request, or the item, fails;
* vectors of labels that come back short are used, and cached for the rest of the
  run, as those of the first nodes (`SemanticMatches`): of the semantic stage
  `BestNode` speaks only for items that have all of them;
* an LLM answer only part of which is a path has confidence 0.5, and is not
  flagged under the default threshold of 0.5 (`LLMResults`).

## 6. Not modelled

* The cleaner's regular expressions and the parsing of remote items: their result
  is the `body` and `meta` of `SourceSync`, the text of `ItemPipeline`.
* What SQL ranks, the fusion of the rankings, the weights of the blended score,
  prompts and the wording of answers: data, out of small sets here.
* Pages that move from one space to another; names given twice in a header, which
  only make another key of the cache.
* The pool of connections: a driver's timeout ends what waits for it, and is then
  a statement that fails, which the models have.
* The admin key, the status and health endpoints: they change no state.
* The settings are the CONSTANTS; the LLM client of the query service is created
  once and has no state; the end-to-end scripts drive the services from outside.

What would come next: a composition of `SourceSync` with `SyncRun`, whose legs
are abstract there: documents change in one step.
