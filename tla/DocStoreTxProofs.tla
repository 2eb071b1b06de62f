--------------------------- MODULE DocStoreTxProofs ---------------------------
(***************************************************************************)
(* Theorems about DocStoreTx, for every set of documents, contents and     *)
(* sessions: the row locks make each transaction one step of DocStore      *)
(* (Refinement, SearchSeesWholeDocuments), whoever waits for one waits for *)
(* somebody that goes on (WaitersAreServed), and each statement brings its *)
(* transaction nearer to its end (EveryStatementCounts).                   *)
(***************************************************************************)
EXTENDS DocStoreTx, FiniteSetTheorems, TLAPS

\* The first n chunks of a content.
Prefix(c, n) == [index : 0 .. n - 1, of : {c}]

(* What transaction t relies on: the lock of what it wrote, the committed  *)
(* chunks of its document as they were when it deleted them, and its own   *)
(* as a prefix of the content's.                                           *)
TxInv(t) ==
  LET x == tx[t]
  IN  /\ x.pc \in {"purge", "insert"} => holder[x.doc] = t
      /\ x.pc \in {"row", "purge"} => x.next = 0 /\ x.gone = {} /\ x.new = {}
      /\ x.pc = "insert" => /\ x.gone = chunk[x.doc]
                            /\ x.next <= ChunkCount[x.content]
                            /\ x.new = Prefix(x.content, x.next)
      /\ x.pc = "lock" => \A d \in x.locked : holder[d] = t

Inv == TypeOK /\ ChunksMatchRow /\ \A t \in Tx : TxInv(t)

-------------------------------------------------------------------------------
(* The program counter tells what kind of transaction it is.               *)
LEMMA Shapes ==
  ASSUME TypeOK, NEW t \in Tx
  PROVE  /\ tx[t].pc \in {"idle", "row", "purge", "insert", "lock"}
         /\ tx[t].pc = "idle" => tx[t] = Idle
         /\ tx[t].pc \in {"row", "purge", "insert"} => tx[t] \in Upsert
         /\ tx[t].pc = "lock" => tx[t] \in Delete
BY DEF TypeOK, Idle, Upsert, Delete

LEMMA EmptyPrefix ==
  ASSUME NEW c
  PROVE  Prefix(c, 0) = {}
<1>1. 0 .. 0 - 1 = {}
  OBVIOUS
<1> QED BY <1>1 DEF Prefix

LEMMA NextPrefix ==
  ASSUME NEW c \in Content, NEW n \in Nat
  PROVE  /\ Prefix(c, n + 1) =
              {x \in Prefix(c, n) : x.index # n} \union {[index |-> n, of |-> c]}
         /\ Prefix(c, n) \subseteq Store!Chunk
         /\ \A x \in Prefix(c, n) : x.index # n
<1>1. ASSUME NEW x
      PROVE  x \in Prefix(c, n + 1) <=> x \in Prefix(c, n) \/ x = [index |-> n, of |-> c]
  <2>1. \A i : i \in 0 .. n <=> i \in 0 .. n - 1 \/ i = n
    OBVIOUS
  <2>2. n + 1 - 1 = n
    OBVIOUS
  <2> QED BY <2>1, <2>2 DEF Prefix
<1>2. \A x \in Prefix(c, n) : x.index # n
  BY DEF Prefix
<1>3. Prefix(c, n) \subseteq Store!Chunk
  BY DEF Prefix, Store!Chunk
<1> QED BY <1>1, <1>2, <1>3

LEMMA WholePrefix ==
  ASSUME NEW c
  PROVE  Prefix(c, ChunkCount[c]) = Store!ChunksOf(c)
BY DEF Prefix, Store!ChunksOf

LEMMA InitInv == Init => Inv
<1> SUFFICES ASSUME Init PROVE Inv
  OBVIOUS
<1>1. TypeOK
  BY DEF Init, TypeOK
<1>2. ChunksMatchRow
  BY DEF Init, ChunksMatchRow
<1>3. \A t \in Tx : TxInv(t)
  BY DEF Init, TxInv, Idle
<1> QED BY <1>1, <1>2, <1>3 DEF Inv

(* A transaction keeps what it relies on as long as nobody takes its locks *)
(* or touches the chunks of a document it has locked.                      *)
LEMMA Frame ==
  ASSUME TypeOK, NEW u \in Tx, TxInv(u),
         \/ tx'[u] = tx[u]
         \/ /\ tx[u].pc = "lock" /\ tx'[u].pc = "lock"
            /\ tx'[u].locked = tx[u].locked,
         \A d \in Doc : holder[d] = u => holder'[d] = u /\ chunk'[d] = chunk[d]
  PROVE  TxInv(u)'
<1>1. CASE tx[u].pc \in {"purge", "insert"}
  <2>1. tx[u].doc \in Doc /\ holder[tx[u].doc] = u
    BY <1>1, Shapes DEF TxInv, Upsert
  <2> QED BY <1>1, <2>1 DEF TxInv
<1>2. CASE tx[u].pc = "lock"
  <2>1. tx[u].locked \subseteq Doc
    BY <1>2, Shapes DEF Delete
  <2> QED BY <1>2, <2>1 DEF TxInv
<1>3. CASE tx[u].pc \in {"idle", "row"}
  BY <1>3 DEF TxInv
<1> QED BY <1>1, <1>2, <1>3, Shapes

LEMMA BeginStep ==
  ASSUME Inv, NEW t \in Tx,
         \/ \E d \in Doc, c \in Content : BeginUpsert(t, d, c)
         \/ \E D \in SUBSET Doc : BeginDelete(t, D)
  PROVE  Inv'
<1>1. CASE \E d \in Doc, c \in Content : BeginUpsert(t, d, c)
  <2>1. PICK d \in Doc, c \in Content : BeginUpsert(t, d, c)
    BY <1>1
  <2> DEFINE new == [pc |-> "row", doc |-> d, content |-> c, next |-> 0,
                     gone |-> {}, new |-> {}]
  <2>2. new \in Upsert
    BY DEF Upsert
  <2>3. tx' = [tx EXCEPT ![t] = new]
    BY <2>1 DEF BeginUpsert
  <2>4. TypeOK'
    <3> HIDE DEF new
    <3> QED BY <2>1, <2>2, <2>3 DEF BeginUpsert, Inv, TypeOK
  <2>5. TxInv(t)'
    BY <2>1 DEF BeginUpsert, Inv, TypeOK, TxInv
  <2>6. ASSUME NEW u \in Tx \ {t}
        PROVE  TxInv(u)'
    BY <2>1, Frame DEF BeginUpsert, Inv, TypeOK
  <2> QED BY <2>1, <2>4, <2>5, <2>6 DEF BeginUpsert, Inv, ChunksMatchRow
<1>2. CASE \E D \in SUBSET Doc : BeginDelete(t, D)
  <2>1. PICK D \in SUBSET Doc : BeginDelete(t, D)
    BY <1>2
  <2>2. TypeOK'
    BY <2>1 DEF BeginDelete, Inv, TypeOK, Delete
  <2>3. TxInv(t)'
    BY <2>1 DEF BeginDelete, Inv, TypeOK, TxInv
  <2>4. ASSUME NEW u \in Tx \ {t}
        PROVE  TxInv(u)'
    BY <2>1, Frame DEF BeginDelete, Inv, TypeOK
  <2> QED BY <2>1, <2>2, <2>3, <2>4 DEF BeginDelete, Inv, ChunksMatchRow
<1> QED BY <1>1, <1>2

LEMMA LockStep ==
  ASSUME Inv, NEW t \in Tx, UpsertRow(t) \/ LockRow(t)
  PROVE  Inv'
<1>1. PICK d \in Doc : holder[d] = NoTx /\ holder' = [holder EXCEPT ![d] = t]
  BY Shapes DEF UpsertRow, LockRow, Inv, Upsert, Delete
<1>2. chunk' = chunk /\ row' = row
  BY DEF UpsertRow, LockRow
<1>3. ASSUME NEW u \in Tx \ {t}
      PROVE  TxInv(u)'
  <2>1. tx'[u] = tx[u]
    BY DEF UpsertRow, LockRow, Inv, TypeOK
  <2> QED BY <1>1, <1>2, <2>1, Frame, TxAssumption DEF Inv, TypeOK
<1>4. TypeOK' /\ TxInv(t)'
  <2>1. CASE UpsertRow(t)
    <3>1. tx[t] \in Upsert
      BY <2>1, Shapes DEF UpsertRow, Inv
    <3>2. tx' = [tx EXCEPT ![t] = [tx[t] EXCEPT !.pc = "purge"]]
      BY <2>1 DEF UpsertRow, Inv, TypeOK
    <3>3. [tx[t] EXCEPT !.pc = "purge"] \in Upsert
      BY <3>1 DEF Upsert
    <3>4. TypeOK'
      BY <1>1, <1>2, <3>2, <3>3 DEF Inv, TypeOK
    <3>5. holder'[tx[t].doc] = t
      BY <2>1, <3>1 DEF UpsertRow, Inv, TypeOK, Upsert
    <3>6. TxInv(t)'
      BY <2>1, <3>1, <3>2, <3>5 DEF UpsertRow, Inv, TypeOK, TxInv, Upsert
    <3> QED BY <3>4, <3>6
  <2>2. CASE LockRow(t)
    <3>1. tx[t] \in Delete
      BY <2>2, Shapes DEF LockRow, Inv
    <3>2. PICK e \in tx[t].todo :
            /\ holder[e] = NoTx /\ holder' = [holder EXCEPT ![e] = t]
            /\ tx' = [tx EXCEPT ![t].todo = @ \ {e}, ![t].locked = @ \union {e}]
      BY <2>2 DEF LockRow
    <3> DEFINE new == [tx[t] EXCEPT !.todo = @ \ {e}, !.locked = @ \union {e}]
    <3>3. tx' = [tx EXCEPT ![t] = new]
      BY <3>2 DEF Inv, TypeOK
    <3>4. e \in Doc
      BY <3>1, <3>2 DEF Delete
    <3>5. new \in Delete /\ new.locked = tx[t].locked \union {e}
      BY <3>1, <3>4 DEF Delete
    <3> HIDE DEF new
    <3>6. TypeOK'
      BY <1>1, <1>2, <3>3, <3>5 DEF Inv, TypeOK
    <3>7. \A f \in tx[t].locked : holder[f] = t
      BY <3>1 DEF Inv, TxInv, Delete
    <3>8. \A f \in new.locked : holder'[f] = t
      BY <3>1, <3>2, <3>4, <3>5, <3>7 DEF Inv, TypeOK, Delete
    <3>9. TxInv(t)'
      BY <3>3, <3>5, <3>8 DEF Inv, TypeOK, TxInv, Delete
    <3> QED BY <3>6, <3>9
  <2> QED BY <2>1, <2>2
<1> QED BY <1>2, <1>3, <1>4 DEF Inv, ChunksMatchRow

LEMMA PurgeStep ==
  ASSUME Inv, NEW t \in Tx, PurgeChunks(t)
  PROVE  Inv'
<1>1. tx[t] \in Upsert /\ tx[t].doc \in Doc /\ tx[t].content \in Content
  BY Shapes DEF PurgeChunks, Inv, Upsert
<1>2. UNCHANGED <<row, chunk, holder>>
  BY DEF PurgeChunks
<1> DEFINE new == [tx[t] EXCEPT !.pc = "insert", !.gone = chunk[tx[t].doc]]
<1>3. tx' = [tx EXCEPT ![t] = new]
  BY DEF PurgeChunks, Inv, TypeOK
<1>4. chunk[tx[t].doc] \in SUBSET Store!Chunk
  BY <1>1 DEF Inv, TypeOK
<1>5. new \in Upsert
  BY <1>1, <1>4 DEF Upsert
<1>6. /\ new.pc = "insert" /\ new.doc = tx[t].doc /\ new.content = tx[t].content
      /\ new.gone = chunk[tx[t].doc] /\ new.next = tx[t].next /\ new.new = tx[t].new
  BY <1>1 DEF Upsert
<1>7. holder[tx[t].doc] = t /\ tx[t].next = 0 /\ tx[t].new = {}
  BY DEF PurgeChunks, Inv, TxInv
<1>8. tx'[t] = new
  BY <1>3 DEF Inv, TypeOK
<1> HIDE DEF new
<1>9. TypeOK'
  BY <1>2, <1>3, <1>5 DEF Inv, TypeOK
<1>10. 0 <= ChunkCount[tx[t].content]
  BY <1>1, CountAssumption
<1>11. TxInv(t)'
  BY <1>2, <1>6, <1>7, <1>8, <1>10, EmptyPrefix DEF TxInv
<1>12. ASSUME NEW u \in Tx \ {t}
       PROVE  TxInv(u)'
  BY <1>2, <1>3, Frame DEF Inv, TypeOK
<1> QED BY <1>2, <1>9, <1>11, <1>12 DEF Inv, ChunksMatchRow

LEMMA InsertStep ==
  ASSUME Inv, NEW t \in Tx, InsertChunk(t)
  PROVE  Inv'
<1> DEFINE c == tx[t].content
           n == tx[t].next
           gone == tx[t].gone \union {x \in chunk[tx[t].doc] : x.index = n}
           ins == {x \in tx[t].new : x.index # n} \union {[index |-> n, of |-> c]}
           new == [tx[t] EXCEPT !.next = n + 1, !.gone = gone, !.new = ins]
<1>1. tx[t] \in Upsert /\ tx[t].doc \in Doc /\ c \in Content /\ n \in Nat
  BY Shapes DEF InsertChunk, Inv, Upsert
<1>2. UNCHANGED <<row, chunk, holder>>
  BY DEF InsertChunk
<1>3. /\ holder[tx[t].doc] = t /\ tx[t].gone = chunk[tx[t].doc]
      /\ tx[t].new = Prefix(c, n) /\ n < ChunkCount[c]
  BY DEF InsertChunk, Inv, TxInv
<1>4. tx' = [tx EXCEPT ![t] = new]
  BY DEF InsertChunk, Inv, TypeOK
<1>5. gone = chunk[tx[t].doc] /\ gone \in SUBSET Store!Chunk
  BY <1>1, <1>3 DEF Inv, TypeOK
<1>6. ins = Prefix(c, n + 1) /\ ins \in SUBSET Store!Chunk
  <2>1. n + 1 \in Nat
    BY <1>1
  <2>2. ins = Prefix(c, n + 1)
    BY <1>1, <1>3, NextPrefix
  <2>3. Prefix(c, n + 1) \in SUBSET Store!Chunk
    BY <1>1, <2>1, NextPrefix
  <2> QED BY <2>2, <2>3
<1>7. n + 1 <= ChunkCount[c]
  BY <1>1, <1>3, CountAssumption
<1> HIDE DEF gone, ins
<1>8. new \in Upsert
  <2>1. n + 1 \in Nat
    BY <1>1
  <2> QED BY <1>1, <1>5, <1>6, <2>1 DEF Upsert
<1>9. /\ new.pc = "insert" /\ new.doc = tx[t].doc /\ new.content = c
      /\ new.gone = gone /\ new.next = n + 1 /\ new.new = ins
  <2>1. tx[t].pc = "insert"
    BY DEF InsertChunk
  <2> QED BY <1>1, <2>1 DEF Upsert
<1>10. tx'[t] = new
  BY <1>4 DEF Inv, TypeOK
<1> HIDE DEF new
<1>11. TypeOK'
  BY <1>2, <1>4, <1>8 DEF Inv, TypeOK
<1>12. TxInv(t)'
  BY <1>2, <1>3, <1>5, <1>6, <1>7, <1>9, <1>10 DEF TxInv
<1>13. ASSUME NEW u \in Tx \ {t}
       PROVE  TxInv(u)'
  BY <1>2, <1>4, Frame DEF Inv, TypeOK
<1> QED BY <1>2, <1>11, <1>12, <1>13 DEF Inv, ChunksMatchRow

(* At its commit an upsert has exactly the chunks of its content.          *)
LEMMA CommitsWhole ==
  ASSUME Inv, NEW t \in Tx, CommitUpsert(t)
  PROVE  /\ tx[t].doc \in Doc /\ tx[t].content \in Content
         /\ holder[tx[t].doc] = t
         /\ row' = [row EXCEPT ![tx[t].doc] = tx[t].content]
         /\ chunk' = [chunk EXCEPT ![tx[t].doc] = Store!ChunksOf(tx[t].content)]
<1>1. tx[t].doc \in Doc /\ tx[t].content \in Content
  BY Shapes DEF CommitUpsert, Inv, Upsert
<1>2. /\ holder[tx[t].doc] = t /\ tx[t].gone = chunk[tx[t].doc]
      /\ tx[t].new = Prefix(tx[t].content, ChunkCount[tx[t].content])
  BY DEF CommitUpsert, Inv, TxInv
<1>3. (chunk[tx[t].doc] \ tx[t].gone) \union tx[t].new = Store!ChunksOf(tx[t].content)
  BY <1>2, WholePrefix
<1> QED BY <1>1, <1>2, <1>3 DEF CommitUpsert

LEMMA CommitUpsertStep ==
  ASSUME Inv, NEW t \in Tx, CommitUpsert(t)
  PROVE  Inv'
<1> DEFINE d == tx[t].doc
           c == tx[t].content
<1>1. /\ d \in Doc /\ c \in Content /\ holder[d] = t
      /\ row' = [row EXCEPT ![d] = c]
      /\ chunk' = [chunk EXCEPT ![d] = Store!ChunksOf(c)]
  BY CommitsWhole
<1>2. holder' = Released(t) /\ tx' = [tx EXCEPT ![t] = Idle]
  BY DEF CommitUpsert
<1> HIDE DEF d, c
<1>3. Store!ChunksOf(c) \in SUBSET Store!Chunk
  BY <1>1, CountAssumption DEF Store!ChunksOf, Store!Chunk
<1>4. TypeOK'
  BY <1>1, <1>2, <1>3 DEF Inv, TypeOK, Released
<1>5. ChunksMatchRow'
  BY <1>1, NoRowAssumption DEF Inv, ChunksMatchRow, TypeOK
<1>6. TxInv(t)'
  BY <1>2 DEF Inv, TypeOK, TxInv, Idle
<1>7. ASSUME NEW u \in Tx \ {t}
      PROVE  TxInv(u)'
  <2>1. \A e \in Doc : holder[e] = u => holder'[e] = u /\ chunk'[e] = chunk[e]
    BY <1>1, <1>2 DEF Inv, TypeOK, Released
  <2> QED BY <1>2, <2>1, Frame DEF Inv, TypeOK
<1> QED BY <1>4, <1>5, <1>6, <1>7 DEF Inv

LEMMA CommitDeleteStep ==
  ASSUME Inv, NEW t \in Tx, CommitDelete(t)
  PROVE  Inv'
<1>1. tx[t] \in Delete /\ \A d \in tx[t].locked : holder[d] = t
  BY Shapes DEF CommitDelete, Inv, TxInv
<1>2. /\ row' = [d \in Doc |-> IF d \in tx[t].locked THEN NoRow ELSE row[d]]
      /\ chunk' = [d \in Doc |-> IF d \in tx[t].locked THEN {} ELSE chunk[d]]
      /\ holder' = Released(t)
  BY DEF CommitDelete
<1>3. tx'[t] = Idle
  BY DEF CommitDelete
<1>4. ASSUME NEW u \in Tx \ {t}
      PROVE  /\ tx'[u] \in {Idle} \union Upsert \union Delete
             /\ \/ tx'[u] = tx[u]
                \/ /\ tx[u].pc = "lock" /\ tx'[u].pc = "lock"
                   /\ tx'[u].locked = tx[u].locked
  <2>1. CASE tx[u].pc = "lock"
    <3>1. tx[u] \in Delete
      BY <2>1, Shapes DEF Inv
    <3>2. tx'[u] = [tx[u] EXCEPT !.todo = @ \ tx[t].locked]
      BY <2>1 DEF CommitDelete
    <3> QED BY <3>1, <3>2 DEF Delete
  <2>2. CASE tx[u].pc # "lock"
    BY <2>2 DEF CommitDelete, Inv, TypeOK
  <2> QED BY <2>1, <2>2
<1>5. TypeOK'
  <2>1. tx' \in [Tx -> {Idle} \union Upsert \union Delete]
    <3>1. \E F : tx' = [u \in Tx |-> F[u]]
      BY DEF CommitDelete
    <3> QED BY <1>3, <1>4 DEF CommitDelete
  <2> QED BY <1>2, <2>1 DEF Inv, TypeOK, Released
<1>6. ChunksMatchRow'
  BY <1>2 DEF Inv, ChunksMatchRow
<1>7. TxInv(t)'
  BY <1>3 DEF TxInv, Idle
<1>8. ASSUME NEW u \in Tx \ {t}
      PROVE  TxInv(u)'
  <2>1. \A e \in Doc : holder[e] = u => holder'[e] = u /\ chunk'[e] = chunk[e]
    BY <1>1, <1>2 DEF Released
  <2> QED BY <1>4, <2>1, Frame DEF Inv
<1> QED BY <1>5, <1>6, <1>7, <1>8 DEF Inv

LEMMA AbortStep ==
  ASSUME Inv, NEW t \in Tx, Abort(t)
  PROVE  Inv'
<1>1. TypeOK'
  BY DEF Abort, Inv, TypeOK, Released
<1>2. TxInv(t)'
  BY DEF Abort, Inv, TypeOK, TxInv, Idle
<1>3. ASSUME NEW u \in Tx \ {t}
      PROVE  TxInv(u)'
  <2>1. tx'[u] = tx[u]
    BY DEF Abort, Inv, TypeOK
  <2>2. \A e \in Doc : holder[e] = u => holder'[e] = u /\ chunk'[e] = chunk[e]
    BY DEF Abort, Released
  <2> QED BY <2>1, <2>2, Frame DEF Inv
<1> QED BY <1>1, <1>2, <1>3 DEF Abort, Inv, ChunksMatchRow

LEMMA NextInv == Inv /\ [Next]_vars => Inv'
<1> SUFFICES ASSUME Inv, [Next]_vars
             PROVE  Inv'
  OBVIOUS
<1>1. ASSUME NEW t \in Tx,
             \/ \E d \in Doc, c \in Content : BeginUpsert(t, d, c)
             \/ \E D \in SUBSET Doc : BeginDelete(t, D)
      PROVE  Inv'
  BY <1>1, BeginStep
<1>2. ASSUME NEW t \in Tx, UpsertRow(t) \/ LockRow(t)
      PROVE  Inv'
  BY <1>2, LockStep
<1>3. ASSUME NEW t \in Tx, Statement(t)
      PROVE  Inv'
  BY <1>3, PurgeStep, InsertStep, CommitUpsertStep, CommitDeleteStep DEF Statement
<1>4. ASSUME NEW t \in Tx, Abort(t)
      PROVE  Inv'
  BY <1>4, AbortStep
<1>5. CASE UNCHANGED vars
  BY <1>5 DEF vars, Inv, TypeOK, ChunksMatchRow, TxInv
<1> QED BY <1>1, <1>2, <1>3, <1>4, <1>5 DEF Next

(* The inductive invariant: types, chunks that match, locks that hold.     *)
THEOREM Invariant == Spec => []Inv
BY InitInv, NextInv, PTL DEF Spec

(* Every transaction is in a state its statements lead to.                 *)
THEOREM TypeCorrect == Spec => []TypeOK
<1>1. Inv => TypeOK
  BY DEF Inv
<1> QED BY <1>1, Invariant, PTL

(* A search never sees a document with chunks missing, or with chunks of   *)
(* another content, whatever transactions run and wherever they fail.      *)
THEOREM SearchSeesWholeDocuments == Spec => []ChunksMatchRow
<1>1. Inv => ChunksMatchRow
  BY DEF Inv
<1> QED BY <1>1, Invariant, PTL

-------------------------------------------------------------------------------
(* Waiting for locks *)

(* What entitles a transaction to a lock.                                  *)
Holding(t, d) ==
  \/ tx[t].pc \in {"purge", "insert"} /\ tx[t].doc = d
  \/ tx[t].pc = "lock" /\ d \in tx[t].locked

(* No lock outlives its transaction.                                       *)
LocksInv == \A d \in Doc : holder[d] \in Tx => Holding(holder[d], d)

LEMMA LocksInit == Init => LocksInv
BY TxAssumption DEF Init, LocksInv

LEMMA HoldingFrame ==
  ASSUME TypeOK, NEW u \in Tx, NEW d, Holding(u, d),
         \/ tx'[u] = tx[u]
         \/ /\ tx[u].pc = "lock" /\ tx'[u].pc = "lock"
            /\ tx[u].locked \subseteq tx'[u].locked
         \/ /\ tx[u].pc \in {"purge", "insert"} /\ tx'[u].pc \in {"purge", "insert"}
            /\ tx'[u].doc = tx[u].doc
  PROVE  Holding(u, d)'
BY DEF Holding

(* A transaction that takes no lock and stays what it is.                  *)
LEMMA LocksFrame ==
  ASSUME TypeOK, LocksInv,
         \A u \in Tx, d \in Doc : holder'[d] = u => holder[d] = u \/ Holding(u, d)',
         \A u \in Tx, d \in Doc : Holding(u, d) /\ holder'[d] = u => Holding(u, d)'
  PROVE  LocksInv'
<1> SUFFICES ASSUME NEW d \in Doc, holder'[d] \in Tx
             PROVE  Holding(holder[d], d)'
  BY DEF LocksInv
<1>1. PICK u \in Tx : holder'[d] = u
  OBVIOUS
<1>2. holder[d] = u => Holding(u, d)
  BY DEF LocksInv
<1>3. Holding(u, d)'
  BY <1>1, <1>2
<1> QED BY <1>1, <1>3 DEF Holding

LEMMA LocksNext ==
  ASSUME Inv, LocksInv, [Next]_vars
  PROVE  LocksInv'
<1>0. TypeOK
  BY DEF Inv
<1>1. ASSUME NEW t \in Tx,
             \/ \E d \in Doc, c \in Content : BeginUpsert(t, d, c)
             \/ \E D \in SUBSET Doc : BeginDelete(t, D)
      PROVE  LocksInv'
  <2>1. /\ holder' = holder /\ tx[t] = Idle
        /\ \A u \in Tx \ {t} : tx'[u] = tx[u]
    BY <1>0, <1>1 DEF BeginUpsert, BeginDelete, TypeOK
  <2>2. ASSUME NEW u \in Tx, NEW d \in Doc, Holding(u, d) PROVE Holding(u, d)'
    <3>1. u # t
      BY <2>1, <2>2 DEF Holding, Idle
    <3> QED BY <1>0, <2>1, <2>2, <3>1, HoldingFrame
  <2> QED BY <1>0, <2>1, <2>2, LocksFrame
<1>2. ASSUME NEW t \in Tx, UpsertRow(t) PROVE LocksInv'
  <2> DEFINE e == tx[t].doc
  <2>1. /\ tx[t] \in Upsert /\ e \in Doc /\ tx[t].pc = "row"
        /\ holder' = [holder EXCEPT ![e] = t]
        /\ tx' = [tx EXCEPT ![t] = [tx[t] EXCEPT !.pc = "purge"]]
    BY <1>0, <1>2, Shapes DEF UpsertRow, Upsert, TypeOK
  <2>2. tx'[t].pc = "purge" /\ tx'[t].doc = e /\ holder'[e] = t
    BY <1>0, <2>1 DEF TypeOK, Upsert
  <2>3. Holding(t, e)'
    BY <2>2 DEF Holding
  <2>4. ASSUME NEW d \in Doc, d # e PROVE holder'[d] = holder[d]
    BY <1>0, <2>1, <2>4 DEF TypeOK
  <2>5. ASSUME NEW u \in Tx, NEW d \in Doc, Holding(u, d) PROVE Holding(u, d)'
    <3>1. u # t
      BY <2>1, <2>5 DEF Holding
    <3>2. tx'[u] = tx[u]
      BY <1>0, <2>1, <3>1 DEF TypeOK
    <3> QED BY <1>0, <2>5, <3>2, HoldingFrame
  <2> HIDE DEF e
  <2>6. ASSUME NEW u \in Tx, NEW d \in Doc, holder'[d] = u
        PROVE  holder[d] = u \/ Holding(u, d)'
    <3>1. CASE d = e
      BY <2>2, <2>6, <3>1, Zenon DEF Holding
    <3>2. CASE d # e
      BY <2>4, <2>6, <3>2
    <3> QED BY <3>1, <3>2
  <2> QED BY <1>0, <2>5, <2>6, LocksFrame
<1>3. ASSUME NEW t \in Tx, LockRow(t) PROVE LocksInv'
  <2>1. PICK e \in tx[t].todo :
          /\ holder' = [holder EXCEPT ![e] = t]
          /\ tx' = [tx EXCEPT ![t].todo = @ \ {e}, ![t].locked = @ \union {e}]
    BY <1>3 DEF LockRow
  <2>2. tx[t] \in Delete /\ e \in Doc /\ tx[t].pc = "lock"
    BY <1>0, <1>3, <2>1, Shapes DEF LockRow, Delete
  <2>3. /\ tx'[t].pc = "lock" /\ tx'[t].locked = tx[t].locked \union {e} /\ holder'[e] = t
        /\ \A u \in Tx \ {t} : tx'[u] = tx[u]
    BY <1>0, <2>1, <2>2 DEF TypeOK, Delete
  <2>4. ASSUME NEW d \in Doc, d # e PROVE holder'[d] = holder[d]
    BY <1>0, <2>1, <2>4 DEF TypeOK
  <2>5. ASSUME NEW u \in Tx, NEW d \in Doc, Holding(u, d) PROVE Holding(u, d)'
    BY <1>0, <2>2, <2>3, <2>5, HoldingFrame
  <2>6. ASSUME NEW u \in Tx, NEW d \in Doc, holder'[d] = u
        PROVE  holder[d] = u \/ Holding(u, d)'
    <3>1. CASE d = e
      BY <2>3, <2>6, <3>1 DEF Holding
    <3>2. CASE d # e
      BY <2>4, <2>6, <3>2
    <3> QED BY <3>1, <3>2
  <2> QED BY <1>0, <2>5, <2>6, LocksFrame
<1>4. ASSUME NEW t \in Tx, PurgeChunks(t) \/ InsertChunk(t) PROVE LocksInv'
  <2>1. holder' = holder /\ tx[t] \in Upsert /\ tx[t].pc \in {"purge", "insert"}
    BY <1>0, <1>4, Shapes DEF PurgeChunks, InsertChunk
  <2>2. /\ tx'[t].pc = "insert" /\ tx'[t].doc = tx[t].doc
        /\ \A u \in Tx \ {t} : tx'[u] = tx[u]
    <3>1. CASE PurgeChunks(t)
      <4>1. tx' = [tx EXCEPT ![t] = [tx[t] EXCEPT !.pc = "insert", !.gone = chunk[tx[t].doc]]]
        BY <1>0, <3>1 DEF PurgeChunks, TypeOK
      <4> QED BY <1>0, <2>1, <4>1 DEF TypeOK, Upsert
    <3>2. CASE InsertChunk(t)
      <4> DEFINE n == tx[t].next
                 c == tx[t].content
                 gone == tx[t].gone \union {x \in chunk[tx[t].doc] : x.index = n}
                 ins == {x \in tx[t].new : x.index # n} \union {[index |-> n, of |-> c]}
      <4>1. /\ tx[t].pc = "insert"
            /\ tx' = [tx EXCEPT ![t] = [tx[t] EXCEPT !.next = n + 1, !.gone = gone,
                                                     !.new = ins]]
        BY <1>0, <3>2 DEF InsertChunk, TypeOK
      <4> HIDE DEF gone, ins
      <4> QED BY <1>0, <2>1, <4>1 DEF TypeOK, Upsert
    <3> QED BY <1>4, <3>1, <3>2
  <2>3. ASSUME NEW u \in Tx, NEW d \in Doc, Holding(u, d) PROVE Holding(u, d)'
    BY <1>0, <2>1, <2>2, <2>3, HoldingFrame
  <2> QED BY <1>0, <2>1, <2>3, LocksFrame
<1>5. ASSUME NEW t \in Tx, CommitUpsert(t) \/ CommitDelete(t) \/ Abort(t) PROVE LocksInv'
  <2>1. \A d \in Doc : /\ holder'[d] # t
                       /\ holder'[d] \in Tx => holder'[d] = holder[d]
    BY <1>5, TxAssumption DEF CommitUpsert, CommitDelete, Abort, Released
  <2>2. ASSUME NEW u \in Tx \ {t}
        PROVE  \/ tx'[u] = tx[u]
               \/ tx[u].pc = "lock" /\ tx'[u].pc = "lock" /\ tx'[u].locked = tx[u].locked
    <3>1. CASE CommitUpsert(t) \/ Abort(t)
      BY <1>0, <3>1 DEF CommitUpsert, Abort, TypeOK
    <3>2. CASE CommitDelete(t) /\ tx[u].pc # "lock"
      BY <3>2 DEF CommitDelete
    <3>3. CASE CommitDelete(t) /\ tx[u].pc = "lock"
      <4>1. tx[u] \in Delete /\ tx'[u] = [tx[u] EXCEPT !.todo = @ \ tx[t].locked]
        BY <1>0, <3>3, Shapes DEF CommitDelete
      <4> QED BY <3>3, <4>1 DEF Delete
    <3> QED BY <1>5, <3>1, <3>2, <3>3
  <2>3. ASSUME NEW u \in Tx, NEW d \in Doc, Holding(u, d), holder'[d] = u
        PROVE  Holding(u, d)'
    BY <1>0, <2>1, <2>2, <2>3, HoldingFrame
  <2> QED BY <1>0, <2>1, <2>3, LocksFrame
<1>6. CASE UNCHANGED vars
  BY <1>6 DEF vars, LocksInv, Holding
<1> QED BY <1>1, <1>2, <1>3, <1>4, <1>5, <1>6 DEF Next, Statement

(* Who holds a lock either waits for none or waits to lock more rows.      *)
LEMMA HolderShape ==
  ASSUME Inv, LocksInv, NEW d \in Doc, NEW t \in Tx, holder[d] = t
  PROVE  CanGoOn(t) \/ tx[t].pc = "lock"
<1>1. tx[t].pc \in {"purge", "insert"} \/ tx[t].pc = "lock"
  BY DEF LocksInv, Holding
<1>2. ASSUME tx[t].pc \in {"purge", "insert"} PROVE CanGoOn(t)
  <2>1. tx[t] # Idle /\ Wanted(t) = {}
    BY <1>2 DEF Idle, Wanted
  <2>2. tx[t].pc = "insert" => tx[t].next <= ChunkCount[tx[t].content]
    BY DEF Inv, TxInv
  <2> QED BY <2>1, <2>2 DEF CanGoOn
<1> QED BY <1>1, <1>2

(* Nobody waits in vain, for any number of sessions and documents: among   *)
(* sessions that wait for each other alone, one goes on or there is a      *)
(* deadlock, which ends with a rollback.                                   *)
THEOREM WaitersAreServed == Spec => []NobodyWaitsInVain
<1>1. Spec => []LocksInv
  BY LocksInit, LocksNext, Invariant, PTL DEF Spec
<1>2. Inv /\ LocksInv => NobodyWaitsInVain
  <2> SUFFICES ASSUME Inv, LocksInv, NEW S \in SUBSET Tx,
                      \E t \in S : tx[t] # Idle,
                      \A t \in S : \A d \in Wanted(t) : holder[d] \in S \union {NoTx},
                      \A t \in S : ~CanGoOn(t)
               PROVE  \E t \in S : Deadlocked(t)
    BY DEF NobodyWaitsInVain
  <2> DEFINE L == {u \in S : tx[u].pc = "lock"}
  <2>1. ASSUME NEW t \in S, tx[t] # Idle
        PROVE  /\ tx[t].pc \in {"row", "lock"} /\ Wanted(t) # {} /\ Wanted(t) \subseteq Doc
               /\ \A d \in Wanted(t) : holder[d] \in L
    <3>1. tx[t].pc \in {"row", "purge", "insert", "lock"}
          /\ (tx[t].pc = "row" => tx[t] \in Upsert) /\ (tx[t].pc = "lock" => tx[t] \in Delete)
      BY <2>1, Shapes DEF Inv
    <3>2. tx[t].pc = "insert" => tx[t].next <= ChunkCount[tx[t].content]
      BY DEF Inv, TxInv
    <3>3. Wanted(t) # {} /\ \A d \in Wanted(t) : holder[d] # NoTx
      BY <2>1, <3>2 DEF CanGoOn
    <3>4. tx[t].pc \in {"row", "lock"}
      BY <3>1, <3>3 DEF Wanted
    <3>5. Wanted(t) \subseteq Doc
      BY <3>1, <3>4 DEF Wanted, Upsert, Delete
    <3>6. ASSUME NEW d \in Wanted(t) PROVE holder[d] \in L
      <4>1. d \in Doc /\ holder[d] \in S /\ holder[d] \in Tx
        BY <3>3, <3>5
      <4> QED BY <4>1, HolderShape
    <3> QED BY <3>3, <3>4, <3>5, <3>6
  <2>2. L # {}
    BY <2>1
  <2>3. ASSUME NEW u \in L
        PROVE  tx[u].todo # {} /\ \A d \in tx[u].todo : holder[d] \in L
    <3>1. tx[u] # Idle /\ Wanted(u) = tx[u].todo
      BY DEF Idle, Wanted
    <3> QED BY <2>1, <3>1
  <2> QED BY <2>2, <2>3 DEF Deadlocked
<1> QED BY <1>1, <1>2, Invariant, PTL

-------------------------------------------------------------------------------
(* What DocStore sees of the tables.                                       *)
Seen == [d \in Doc |-> [row |-> row[d], chunks |-> chunk[d]]]

LEMMA InitRefines == Init => Store!Init
BY DEF Init, Store!Init, Store!Absent

LEMMA StepRefines == Inv /\ [Next]_vars => [Store!Next]_Seen
<1> SUFFICES ASSUME Inv, [Next]_vars
             PROVE  Store!Next \/ Seen' = Seen
  OBVIOUS
<1>1. CASE UNCHANGED <<row, chunk>>
  BY <1>1 DEF Seen
<1>2. ASSUME NEW t \in Tx, CommitUpsert(t)
      PROVE  Store!Next
  <2> DEFINE d == tx[t].doc
             c == tx[t].content
  <2>1. /\ d \in Doc /\ c \in Content
        /\ row' = [row EXCEPT ![d] = c]
        /\ chunk' = [chunk EXCEPT ![d] = Store!ChunksOf(c)]
    BY <1>2, CommitsWhole
  <2> HIDE DEF d, c
  <2>2. Seen' = [Seen EXCEPT ![d] = Store!Whole(c)]
    BY <2>1 DEF Seen, Store!Whole, Inv, TypeOK
  <2>3. Store!Put(d, c)
    BY <2>2 DEF Seen, Store!Put
  <2> QED BY <2>1, <2>3 DEF Store!Next, Store!Put, Store!Drop
<1>3. ASSUME NEW t \in Tx, CommitDelete(t)
      PROVE  Store!Next
  <2>1. tx[t].locked \in SUBSET Doc
    BY <1>3, Shapes DEF CommitDelete, Inv, Delete
  <2>2. Seen' = [d \in Doc |-> IF d \in tx[t].locked THEN Store!Absent ELSE Seen[d]]
    BY <1>3 DEF CommitDelete, Seen, Store!Absent
  <2>3. Store!Drop(tx[t].locked)
    BY <2>2 DEF Seen, Store!Drop
  <2> QED BY <2>1, <2>3 DEF Store!Next, Store!Put, Store!Drop
<1> QED BY <1>1, <1>2, <1>3 DEF Next, Statement, BeginUpsert, BeginDelete, UpsertRow,
           LockRow, PurgeChunks, InsertChunk, Abort, vars

(* The transactions implement DocStore: every commit is a Put of one       *)
(* document with all of its chunks, or a Drop of a set of documents.       *)
THEOREM Refinement == Spec => ImplementsDocStore
<1>1. Inv /\ [Next]_vars => [Store!Next]_Seen
  BY StepRefines
<1> QED BY <1>1, InitRefines, Invariant, PTL
        DEF Spec, ImplementsDocStore, Store!Spec, Seen


-------------------------------------------------------------------------------
(* How far a transaction is from its end: the chunks it still inserts, or  *)
(* the rows it still locks, and its other statements.                      *)

Left(x) ==
  CASE x.pc = "idle"   -> 0
    [] x.pc = "row"    -> ChunkCount[x.content] + 3
    [] x.pc = "purge"  -> ChunkCount[x.content] + 2
    [] x.pc = "insert" -> ChunkCount[x.content] - x.next + 1
    [] x.pc = "lock"   -> Cardinality(x.todo) + 1

Advances(t) == UpsertRow(t) \/ LockRow(t) \/ Statement(t) \/ Abort(t)

(* A transaction is nearer to its end with each of its statements, and the *)
(* statements of others take none back.                                    *)
Nearer(t) ==
  tx[t] # Idle =>
    /\ Left(tx'[t]) <= Left(tx[t])
    /\ Advances(t) => Left(tx'[t]) < Left(tx[t])

LEMMA LeftType ==
  ASSUME IsFiniteSet(Doc), Inv, NEW t \in Tx
  PROVE  /\ Left(tx[t]) \in Nat /\ (tx[t] # Idle => Left(tx[t]) > 0)
         /\ tx[t].pc = "lock" =>
              IsFiniteSet(tx[t].todo) /\ Cardinality(tx[t].todo) \in Nat
         /\ tx[t].pc \in {"row", "purge", "insert"} =>
              /\ ChunkCount[tx[t].content] \in Nat /\ tx[t].next \in Nat
              /\ tx[t].pc = "insert" => tx[t].next <= ChunkCount[tx[t].content]
<1> DEFINE x == tx[t]
           n == ChunkCount[x.content]
<1>1. /\ x.pc \in {"idle", "row", "purge", "insert", "lock"}
      /\ x.pc = "idle" => x = Idle
      /\ x.pc \in {"row", "purge", "insert"} => x \in Upsert
      /\ x.pc = "lock" => x \in Delete
  BY Shapes DEF Inv
<1>2. x.pc = "lock" => IsFiniteSet(x.todo) /\ Cardinality(x.todo) \in Nat
  BY <1>1, FS_Subset, FS_CardinalityType DEF Delete
<1>3. x.pc \in {"row", "purge", "insert"} =>
        n \in Nat /\ x.next \in Nat /\ (x.pc = "insert" => x.next <= n)
  BY <1>1, CountAssumption DEF Upsert, Inv, TxInv
<1>4. Left(x) \in Nat /\ (x # Idle => Left(x) > 0)
  <2> HIDE DEF n, x
  <2>1. CASE x.pc = "idle"
    BY <1>1, <2>1 DEF Left
  <2>2. CASE x.pc = "lock"
    BY <1>2, <2>2 DEF Left
  <2>3. CASE x.pc \in {"row", "purge", "insert"}
    <3>1. Left(x) = IF x.pc = "row" THEN n + 3
                    ELSE IF x.pc = "purge" THEN n + 2 ELSE n - x.next + 1
      BY <2>3 DEF Left, n
    <3> QED BY <1>3, <2>3, <3>1
  <2> QED BY <1>1, <2>1, <2>2, <2>3
<1> QED BY <1>2, <1>3, <1>4

LEMMA NearerStep ==
  ASSUME IsFiniteSet(Doc), Inv, NEW t \in Tx, tx[t] # Idle, Advances(t)
  PROVE  Left(tx'[t]) < Left(tx[t]) /\ Left(tx'[t]) <= Left(tx[t])
<1> DEFINE x == tx[t]
           y == tx'[t]
           n == ChunkCount[x.content]
<1>1. /\ x.pc \in {"row", "purge", "insert"} => x \in Upsert /\ n \in Nat /\ x.next \in Nat
      /\ x.pc = "lock" => x \in Delete /\ IsFiniteSet(x.todo) /\ Cardinality(x.todo) \in Nat
      /\ Left(x) \in Nat /\ Left(x) > 0
  BY LeftType, Shapes DEF Inv
<1>2. CASE y = Idle
  <2>1. Left(Idle) = 0
    BY DEF Left, Idle
  <2>2. Left(y) = 0
    BY <1>2, <2>1, Zenon
  <2> HIDE DEF x, y
  <2>3. Left(y) < Left(x)
    BY <1>1, <2>2
  <2> QED BY <1>1, <2>2, <2>3 DEF x, y
<1>3. CASE UpsertRow(t)
  <2>1. y = [x EXCEPT !.pc = "purge"] /\ x.pc = "row"
    BY <1>3 DEF UpsertRow, Inv, TypeOK
  <2>2. y.pc = "purge" /\ y.content = x.content
    BY <1>1, <2>1 DEF Upsert
  <2>3. Left(y) = n + 2 /\ Left(x) = n + 3
    BY <2>1, <2>2 DEF Left
  <2> QED BY <1>1, <2>1, <2>3
<1>4. CASE PurgeChunks(t)
  <2>1. y = [x EXCEPT !.pc = "insert", !.gone = chunk[x.doc]] /\ x.pc = "purge" /\ x.next = 0
    BY <1>4 DEF PurgeChunks, Inv, TypeOK, TxInv
  <2>2. y.pc = "insert" /\ y.content = x.content /\ y.next = 0
    BY <1>1, <2>1 DEF Upsert
  <2>3. Left(y) = n - 0 + 1 /\ Left(x) = n + 2
    BY <2>1, <2>2 DEF Left
  <2> QED BY <1>1, <2>1, <2>3
<1>5. CASE InsertChunk(t)
  <2>1. PICK gone, new :
          y = [x EXCEPT !.next = x.next + 1, !.gone = gone, !.new = new]
    BY <1>5, Zenon DEF InsertChunk, Inv, TypeOK
  <2>2. x.pc = "insert"
    BY <1>5, Zenon DEF InsertChunk
  <2>3. x.pc = "insert" /\ y.pc = "insert" /\ y.content = x.content /\ y.next = x.next + 1
    <3> HIDE DEF x, y, n
    <3> QED BY <1>1, <2>2, <2>1 DEF Upsert
  <2>4. Left(y) = n - (x.next + 1) + 1 /\ Left(x) = n - x.next + 1
    BY <2>3 DEF Left
  <2> QED BY <1>1, <2>3, <2>4
<1>6. CASE LockRow(t)
  <2>1. x.pc = "lock"
    BY <1>6 DEF LockRow
  <2>2. PICK d \in x.todo :
          tx' = [tx EXCEPT ![t].todo = @ \ {d}, ![t].locked = @ \union {d}]
    BY <1>6 DEF LockRow
  <2>3. y = [x EXCEPT !.todo = @ \ {d}, !.locked = @ \union {d}]
    BY <2>2 DEF Inv, TypeOK
  <2>4. y.pc = "lock" /\ y.todo = x.todo \ {d}
    BY <1>1, <2>1, <2>3 DEF Delete
  <2>5. Cardinality(y.todo) = Cardinality(x.todo) - 1
    BY <1>1, <2>1, <2>4, FS_RemoveElement
  <2>6. Left(y) = Cardinality(x.todo) - 1 + 1 /\ Left(x) = Cardinality(x.todo) + 1
    BY <2>1, <2>4, <2>5 DEF Left
  <2> QED BY <1>1, <2>1, <2>6
<1>7. CommitUpsert(t) \/ CommitDelete(t) \/ Abort(t) => y = Idle
  BY DEF CommitUpsert, CommitDelete, Abort, Inv, TypeOK
<1> QED BY <1>2, <1>3, <1>4, <1>5, <1>6, <1>7 DEF Advances, Statement

LEMMA NearerOthers ==
  ASSUME IsFiniteSet(Doc), Inv, NEW t \in Tx, tx[t] # Idle, Next, ~Advances(t)
  PROVE  Left(tx'[t]) <= Left(tx[t])
<1>1. Left(tx[t]) \in Nat
  BY LeftType
<1>2. CASE tx'[t] = tx[t]
  BY <1>1, <1>2
<1>3. ASSUME NEW u \in Tx \ {t}, CommitDelete(u), tx[t].pc = "lock"
      PROVE  Left(tx'[t]) <= Left(tx[t])
  <2>1. tx[t] \in Delete /\ IsFiniteSet(tx[t].todo)
    BY <1>3, LeftType, Shapes DEF Inv
  <2>2. tx'[t] = [tx[t] EXCEPT !.todo = @ \ tx[u].locked]
    BY <1>3 DEF CommitDelete
  <2>3. tx'[t].pc = "lock" /\ tx'[t].todo = tx[t].todo \ tx[u].locked
    BY <1>3, <2>1, <2>2 DEF Delete
  <2>4. /\ Cardinality(tx[t].todo) \in Nat /\ Cardinality(tx'[t].todo) \in Nat
        /\ Cardinality(tx'[t].todo) <= Cardinality(tx[t].todo)
    BY <2>1, <2>3, FS_Subset, FS_CardinalityType
  <2>5. /\ Left(tx'[t]) = Cardinality(tx'[t].todo) + 1
        /\ Left(tx[t]) = Cardinality(tx[t].todo) + 1
    BY <1>3, <2>3 DEF Left
  <2> QED BY <2>4, <2>5
<1>4. tx'[t] = tx[t] \/ \E u \in Tx \ {t} : CommitDelete(u) /\ tx[t].pc = "lock"
  <2>1. ASSUME NEW u \in Tx \ {t},
               \/ \E d \in Doc, c \in Content : BeginUpsert(u, d, c)
               \/ \E D \in SUBSET Doc : BeginDelete(u, D)
        PROVE  tx'[t] = tx[t]
    BY <2>1 DEF BeginUpsert, BeginDelete, Inv, TypeOK
  <2>2. ASSUME NEW u \in Tx \ {t}, Advances(u), ~CommitDelete(u)
        PROVE  tx'[t] = tx[t]
    <3>1. CASE LockRow(u)
      <4>1. PICK d \in tx[u].todo :
              tx' = [tx EXCEPT ![u].todo = @ \ {d}, ![u].locked = @ \union {d}]
        BY <3>1 DEF LockRow
      <4> QED BY <4>1 DEF Inv, TypeOK
    <3>2. CASE InsertChunk(u)
      <4>1. PICK r : tx' = [tx EXCEPT ![u] = r]
        BY <3>2, Zenon DEF InsertChunk
      <4> QED BY <4>1 DEF Inv, TypeOK
    <3>3. CASE UpsertRow(u) \/ PurgeChunks(u) \/ CommitUpsert(u) \/ Abort(u)
      BY <3>3 DEF UpsertRow, PurgeChunks, CommitUpsert, Abort, Inv, TypeOK
    <3> QED BY <2>2, <3>1, <3>2, <3>3 DEF Advances, Statement
  <2>3. ASSUME NEW u \in Tx \ {t}, CommitDelete(u), tx[t].pc # "lock"
        PROVE  tx'[t] = tx[t]
    BY <2>3 DEF CommitDelete, Inv, TypeOK
  <2>4. ~ \E d \in Doc, c \in Content : BeginUpsert(t, d, c)
    BY DEF BeginUpsert
  <2>5. ~ \E D \in SUBSET Doc : BeginDelete(t, D)
    BY DEF BeginDelete
  <2> QED BY <2>1, <2>2, <2>3, <2>4, <2>5 DEF Next, Advances
<1> QED BY <1>2, <1>3, <1>4

(* A transaction is nearer to its end with each of its statements, and no  *)
(* statement of another sets it back.                                      *)
TransactionsProgress == [][\A t \in Tx : Nearer(t)]_vars

(* What keeps a transaction from going on for ever, for every number of    *)
(* documents, chunks and sessions: what is left of it, at most the chunks  *)
(* or rows it is about and three statements, falls with each statement it  *)
(* gets through.                                                           *)
THEOREM EveryStatementCounts ==
  ASSUME IsFiniteSet(Doc) PROVE Spec => TransactionsProgress
<1>1. Inv /\ [Next]_vars => [\A t \in Tx : Nearer(t)]_vars
  <2> SUFFICES ASSUME Inv, Next, NEW t \in Tx, tx[t] # Idle
               PROVE  /\ Left(tx'[t]) <= Left(tx[t])
                      /\ Advances(t) => Left(tx'[t]) < Left(tx[t])
    BY DEF Nearer
  <2>1. CASE Advances(t)
    BY <2>1, NearerStep
  <2>2. CASE ~Advances(t)
    BY <2>2, NearerOthers
  <2> QED BY <2>1, <2>2
<1> QED BY <1>1, Invariant, PTL DEF Spec, TransactionsProgress
=============================================================================
