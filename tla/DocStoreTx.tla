------------------------------ MODULE DocStoreTx ------------------------------
(***************************************************************************)
(* The transactions of repository.py on documents and chunks, statement by *)
(* statement, run concurrently at PostgreSQL's READ COMMITTED: the upsert  *)
(* of a document with its chunks, and the delete of a set of documents.    *)
(* A transaction sees what is committed and what it did itself; a row it   *)
(* wrote, or a key it inserted, is locked until it ends.                   *)
(*                                                                         *)
(* DocStore is what this implements.                                       *)
(***************************************************************************)
EXTENDS Integers, FiniteSets

CONSTANTS Doc, Content, ChunkCount, NoRow,
  Tx,     \* database sessions
  NoTx    \* nobody holds the lock

ASSUME TxAssumption == NoTx \notin Tx
ASSUME NoRowAssumption == NoRow \notin Content
\* A document without chunks is never stored: both callers return before.
ASSUME CountAssumption == ChunkCount \in [Content -> Nat \ {0}]

VARIABLES
  row,     \* committed rows of documents
  chunk,   \* committed rows of chunks, by document
  holder,  \* who holds the lock of a document's row or key
  tx       \* what each transaction is doing and has not committed yet
vars == <<row, chunk, holder, tx>>

Store == INSTANCE DocStore WITH
  store <- [d \in Doc |-> [row |-> row[d], chunks |-> chunk[d]]]

Idle == [pc |-> "idle"]

\* upsert_document_with_chunks: the chunks it deleted and inserted so far.
Upsert == [pc : {"row", "purge", "insert"}, doc : Doc, content : Content,
           next : Nat, gone : SUBSET Store!Chunk, new : SUBSET Store!Chunk]

\* delete_documents_by_source_ids: the rows it found, and locked so far.
Delete == [pc : {"lock"}, todo : SUBSET Doc, locked : SUBSET Doc]

TypeOK ==
  /\ row \in [Doc -> Content \union {NoRow}]
  /\ chunk \in [Doc -> SUBSET Store!Chunk]
  /\ holder \in [Doc -> Tx \union {NoTx}]
  /\ tx \in [Tx -> {Idle} \union Upsert \union Delete]

Init ==
  /\ row = [d \in Doc |-> NoRow]
  /\ chunk = [d \in Doc |-> {}]
  /\ holder = [d \in Doc |-> NoTx]
  /\ tx = [t \in Tx |-> Idle]

\* Mutant: the session is left open, and with it the locks.
Released_Never(t) == holder
\* The locks once transaction t has ended.
Released(t) == [d \in Doc |-> IF holder[d] = t THEN NoTx ELSE holder[d]]

-------------------------------------------------------------------------------
(* The upsert of a document. *)

BeginUpsert(t, d, c) ==
  /\ tx[t] = Idle
  /\ tx' = [tx EXCEPT ![t] = [pc |-> "row", doc |-> d, content |-> c, next |-> 0,
                              gone |-> {}, new |-> {}]]
  /\ UNCHANGED <<row, chunk, holder>>

\* INSERT ... ON CONFLICT DO UPDATE waits for whoever wrote the row or key.
UpsertRow(t) ==
  /\ tx[t].pc = "row"
  /\ holder[tx[t].doc] = NoTx
  /\ holder' = [holder EXCEPT ![tx[t].doc] = t]
  /\ tx' = [tx EXCEPT ![t].pc = "purge"]
  /\ UNCHANGED <<row, chunk>>

\* Mutant: the old chunks are left to the ON CONFLICT of the new ones.
PurgeChunks_Skipped(t) ==
  /\ tx[t].pc = "purge"
  /\ tx' = [tx EXCEPT ![t].pc = "insert"]
  /\ UNCHANGED <<row, chunk, holder>>

PurgeChunks(t) ==
  /\ tx[t].pc = "purge"
  /\ tx' = [tx EXCEPT ![t].pc = "insert", ![t].gone = chunk[tx[t].doc]]
  /\ UNCHANGED <<row, chunk, holder>>

\* A chunk with the same index, visible or its own, gives way.
InsertChunk(t) ==
  LET k == [index |-> tx[t].next, of |-> tx[t].content]
  IN  /\ tx[t].pc = "insert"
      /\ tx[t].next < ChunkCount[tx[t].content]
      /\ tx' = [tx EXCEPT
           ![t].next = @ + 1,
           ![t].gone = @ \union {x \in chunk[tx[t].doc] : x.index = k.index},
           ![t].new  = {x \in @ : x.index # k.index} \union {k}]
      /\ UNCHANGED <<row, chunk, holder>>

\* Mutants: commit after any chunk; forget to leave the transaction.
CommitUpsert_Early(t) ==
  LET d == tx[t].doc
  IN  /\ tx[t].pc = "insert"
      /\ row' = [row EXCEPT ![d] = tx[t].content]
      /\ chunk' = [chunk EXCEPT ![d] = (@ \ tx[t].gone) \union tx[t].new]
      /\ holder' = Released(t)
      /\ tx' = [tx EXCEPT ![t] = Idle]
CommitUpsert_KeepsState(t) ==
  LET d == tx[t].doc
  IN  /\ tx[t].pc = "insert"
      /\ tx[t].next = ChunkCount[tx[t].content]
      /\ row' = [row EXCEPT ![d] = tx[t].content]
      /\ chunk' = [chunk EXCEPT ![d] = (@ \ tx[t].gone) \union tx[t].new]
      /\ holder' = Released(t)
      /\ tx' = [tx EXCEPT ![t].pc = "idle"]

CommitUpsert(t) ==
  LET d == tx[t].doc
  IN  /\ tx[t].pc = "insert"
      /\ tx[t].next = ChunkCount[tx[t].content]
      /\ row' = [row EXCEPT ![d] = tx[t].content]
      /\ chunk' = [chunk EXCEPT ![d] = (@ \ tx[t].gone) \union tx[t].new]
      /\ holder' = Released(t)
      /\ tx' = [tx EXCEPT ![t] = Idle]

-------------------------------------------------------------------------------
(* The delete of a set of documents; their chunks cascade. *)

\* The DELETE finds the rows that are committed when it starts ...
BeginDelete(t, D) ==
  /\ tx[t] = Idle
  /\ tx' = [tx EXCEPT ![t] = [pc |-> "lock", locked |-> {},
                              todo |-> {d \in D : row[d] # NoRow}]]
  /\ UNCHANGED <<row, chunk, holder>>

\* ... and locks them one by one, in the order of whatever plan it runs.
LockRow(t) ==
  /\ tx[t].pc = "lock"
  /\ \E d \in tx[t].todo :
       /\ holder[d] = NoTx
       /\ holder' = [holder EXCEPT ![d] = t]
       /\ tx' = [tx EXCEPT ![t].todo = @ \ {d}, ![t].locked = @ \union {d}]
  /\ UNCHANGED <<row, chunk>>

\* Whoever waits for one of these rows finds it deleted, and passes on.
CommitDelete(t) ==
  /\ tx[t].pc = "lock"
  /\ tx[t].todo = {}
  /\ row' = [d \in Doc |-> IF d \in tx[t].locked THEN NoRow ELSE row[d]]
  /\ chunk' = [d \in Doc |-> IF d \in tx[t].locked THEN {} ELSE chunk[d]]
  /\ holder' = Released(t)
  /\ tx' = [u \in Tx |-> IF u = t THEN Idle
                         ELSE IF tx[u].pc = "lock"
                         THEN [tx[u] EXCEPT !.todo = @ \ tx[t].locked]
                         ELSE tx[u]]

-------------------------------------------------------------------------------
\* An exception, a lost connection or a crash: the transaction rolls back.
Abort(t) ==
  /\ tx[t] # Idle
  /\ holder' = Released(t)
  /\ tx' = [tx EXCEPT ![t] = Idle]
  /\ UNCHANGED <<row, chunk>>

\* t waits in a circle of transactions that wait for each other.
Deadlocked(t) ==
  \E S \in SUBSET Tx :
    /\ t \in S
    /\ \A u \in S : /\ tx[u].pc = "lock" /\ tx[u].todo # {}
                    /\ \A d \in tx[u].todo : holder[d] \in S

Statement(t) ==
  PurgeChunks(t) \/ InsertChunk(t) \/ CommitUpsert(t) \/ CommitDelete(t)

Next ==
  \E t \in Tx :
    \/ \E d \in Doc, c \in Content : BeginUpsert(t, d, c)
    \/ \E D \in SUBSET Doc : BeginDelete(t, D)
    \/ UpsertRow(t) \/ LockRow(t) \/ Statement(t) \/ Abort(t)

Spec == Init /\ [][Next]_vars

\* PostgreSQL queues for a lock first come, first served, and rolls a
\* transaction of a deadlock back; it never aborts another for no reason.
FairSpec ==
  Spec /\ \A t \in Tx : /\ SF_vars(UpsertRow(t) \/ LockRow(t))
                        /\ WF_vars(Statement(t))
                        /\ WF_vars(Deadlocked(t) /\ Abort(t))

-------------------------------------------------------------------------------
(* Properties. *)

\* The documents whose lock t still needs, all of them or one.
Wanted(t) ==
  CASE tx[t].pc = "row"  -> {tx[t].doc}
    [] tx[t].pc = "lock" -> tx[t].todo
    [] OTHER             -> {}

\* Nobody is in the way of its next statement.
CanGoOn(t) ==
  /\ tx[t] # Idle
  /\ Wanted(t) = {} \/ \E d \in Wanted(t) : holder[d] = NoTx
  /\ tx[t].pc = "insert" => tx[t].next <= ChunkCount[tx[t].content]

(* A search, which joins chunks with documents in one statement, sees of   *)
(* every document the chunks of its present content: all, and no others,   *)
(* whatever transactions run and wherever they fail.                       *)
ChunksMatchRow ==
  \A d \in Doc : chunk[d] = IF row[d] = NoRow THEN {} ELSE Store!ChunksOf(row[d])

(* Every transaction is a single Put or Drop of DocStore, at its commit.   *)
ImplementsDocStore == Store!Spec

(* Whoever waits waits for a transaction that goes on, or is in a deadlock *)
(* that PostgreSQL finds: in no group of sessions that wait for each other *)
(* alone is everybody stuck - no lock outlives its transaction, and an     *)
(* upsert that holds its row waits for nothing.                            *)
NobodyWaitsInVain ==
  \A S \in SUBSET Tx :
    /\ \E t \in S : tx[t] # Idle
    /\ \A t \in S : \A d \in Wanted(t) : holder[d] \in S \union {NoTx}
    => \E t \in S : CanGoOn(t) \/ Deadlocked(t)

(* Every transaction ends, reconciles that lock the same rows in different *)
(* orders included.                                                        *)
TransactionsEnd == \A t \in Tx : tx[t] # Idle ~> tx[t] = Idle
=============================================================================
