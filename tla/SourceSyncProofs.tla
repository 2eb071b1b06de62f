--------------------------- MODULE SourceSyncProofs ---------------------------
(***************************************************************************)
(* Theorems about SourceSync, for every number of documents, page size,    *)
(* number of spaces, window, set of jobs and set of faults: its types, and *)
(* that it uses its store as DocStore allows (JobsUseDocStore).            *)
(***************************************************************************)
EXTENDS SourceSync, FiniteSetTheorems, SequenceTheorems, TLAPS

(* Any set of documents is finite, and no larger than the source.          *)
LEMMA DocsFinite ==
  ASSUME NEW S \in SUBSET Doc
  PROVE  IsFiniteSet(S) /\ Cardinality(S) \in Nat /\ Cardinality(S) <= NumDocs
<1>1. IsFiniteSet(Doc) /\ Cardinality(Doc) = NumDocs
  BY FS_Interval, SizesAssumption DEF Doc
<1> QED BY <1>1, FS_Subset, FS_CardinalityType

(* What a page of answers leaves of a job is a job state again.            *)
LEMMA AdvanceType ==
  ASSUME NEW r \in JobState, NEW P \in SUBSET Doc
  PROVE  /\ Advance(r, P) \in JobState
         /\ Advance(r, P).phase = r.phase
         /\ Advance(r, P).since = r.since
         /\ Advance(r, P).ids = r.ids
<1> DEFINE off == NextOffset(r, P)
           mor == GoesOn(r, P)
           spc == r.space + 1
<1>1. \/ /\ ~mor /\ r.space < NumSpaces
         /\ Advance(r, P) = [r EXCEPT !.space = spc, !.offset = 0]
      \/ Advance(r, P) = [r EXCEPT !.offset = off, !.more = mor]
  BY DEF Advance
<1>2. off \in Nat
  BY DocsFinite, SizesAssumption DEF JobState, NextOffset
<1>3. mor \in BOOLEAN
  BY DEF GoesOn
<1>4. r.space < NumSpaces => spc \in 1 .. NumSpaces
  BY SizesAssumption DEF JobState
<1> HIDE DEF off, mor, spc
<1>5. CASE Advance(r, P) = [r EXCEPT !.offset = off, !.more = mor]
  BY <1>2, <1>3, <1>5 DEF JobState
<1>6. CASE r.space < NumSpaces /\ Advance(r, P) = [r EXCEPT !.space = spc, !.offset = 0]
  <2>1. spc \in 1 .. NumSpaces
    BY <1>4, <1>6
  <2>2. [r EXCEPT !.space = spc, !.offset = 0] \in JobState
    BY <2>1 DEF JobState
  <2>3. Advance(r, P) \in JobState
    BY <1>6, <2>2
  <2> QED BY <1>6, <2>3 DEF JobState
<1> QED BY <1>1, <1>5, <1>6

LEMMA AnswersType ==
  ASSUME NEW r, NEW P \in Answers(r), NEW since
  PROVE  P \in SUBSET Present(remote) /\ Yielded(P, since) \in SUBSET Present(remote)
BY DEF Answers, Page, Listing, Matching, Yielded, Present

LEMMA IdleJobType == IdleJob \in JobState
BY SizesAssumption DEF IdleJob, JobState

LEMMA TypeInit == Init => TypeOK
BY IdleJobType, SizesAssumption, ValuesAssumption DEF Init, TypeOK, Version

(* A page of items is appended to the buffer.                              *)
LEMMA BufferType ==
  ASSUME TypeOK, NEW K \in SUBSET Present(remote), NEW p \in InOrder(K),
         NEW b \in Seq(Item)
  PROVE  b \o [i \in 1 .. Cardinality(K) |-> [doc |-> p[i], ver |-> remote[p[i]]]]
           \in Seq(Item)
<1>1. K \in SUBSET Doc
  BY DEF Present
<1>2. Cardinality(K) \in Nat
  BY <1>1, DocsFinite
<1> DEFINE items == [i \in 1 .. Cardinality(K) |-> [doc |-> p[i], ver |-> remote[p[i]]]]
<1>3. ASSUME NEW i \in 1 .. Cardinality(K)
      PROVE  [doc |-> p[i], ver |-> remote[p[i]]] \in Item
  <2>1. p[i] \in K
    BY DEF InOrder
  <2>2. p[i] \in Doc /\ remote[p[i]] \in Version
    BY <2>1, ValuesAssumption DEF Present, TypeOK
  <2> QED BY <2>2 DEF Item
<1>4. items \in [1 .. Cardinality(K) -> Item]
  BY <1>3
<1>5. items \in Seq(Item)
  BY <1>2, <1>4, SeqDef
<1> HIDE DEF items
<1>6. b \o items \in Seq(Item)
  BY <1>5, ConcatProperties
<1> QED BY <1>6 DEF items

(* Setting the stage of a task.                                            *)
LEMMA StageType ==
  ASSUME NEW s \in Seq(Task), NEW i \in DOMAIN s,
         NEW st \in {"check", "write", "done"}
  PROVE  [s EXCEPT ![i].stage = st] \in Seq(Task)
<1>1. i \in 1 .. Len(s) /\ s[i] \in Task
  BY LenProperties, ElementOfSeq
<1>2. [s[i] EXCEPT !.stage = st] \in Task
  BY <1>1 DEF Task
<1> QED BY <1>1, <1>2, ExceptSeq

\* The variables that only one or two actions touch.
LEMMA TypeSource ==
  ASSUME TypeOK, NEW d \in Doc, SourceEdit(d) \/ SourceDelete(d)
  PROVE  TypeOK'
<1>1. CASE SourceEdit(d)
  <2>1. clock + 1 \in 1 .. MaxClock
    BY <1>1, SizesAssumption DEF SourceEdit, TypeOK
  <2>2. remote' \in [Doc -> Version \union {NoDoc}]
    <3>1. PICK b \in Body, m \in Meta :
            remote' = [remote EXCEPT ![d] = [body |-> b, meta |-> m, upd |-> clock + 1]]
      BY <1>1 DEF SourceEdit
    <3>2. [body |-> b, meta |-> m, upd |-> clock + 1] \in Version
      BY <2>1 DEF Version
    <3> QED BY <3>1, <3>2 DEF TypeOK
  <2>3. disturbed' \in [Job -> BOOLEAN]
    BY <1>1 DEF SourceEdit, DisturbAll, Active, TypeOK
  <2> QED BY <1>1, <2>1, <2>2, <2>3 DEF SourceEdit, TypeOK
<1>2. CASE SourceDelete(d)
  <2>1. disturbed' \in [Job -> BOOLEAN]
    BY <1>2 DEF SourceDelete, DisturbAll, Active, TypeOK
  <2> QED BY <1>2, <2>1 DEF SourceDelete, TypeOK
<1> QED BY <1>1, <1>2

(* An action that does nothing but give one job a new state.               *)
LEMMA TypeOneJob ==
  ASSUME TypeOK, NEW j \in Job, NEW r \in JobState,
         job' = [job EXCEPT ![j] = r],
         UNCHANGED <<clock, remote, db, state, disturbed>>
  PROVE  TypeOK'
BY DEF TypeOK

\* The same with an answered page, which may have withheld something.
LEMMA TypeAnswered ==
  ASSUME TypeOK, NEW j \in Job, NEW r \in JobState, NEW P, Withheld(j, P),
         job' = [job EXCEPT ![j] = r], UNCHANGED <<clock, remote, db, state>>
  PROVE  TypeOK'
<1>1. disturbed' \in [Job -> BOOLEAN]
  BY DEF Withheld, TypeOK
<1> QED BY <1>1 DEF TypeOK

\* A posted document changes a row and the clock.
LEMMA TypePost ==
  ASSUME TypeOK, NEW d \in Doc, NEW body \in Body, NEW meta \in Meta,
         PostDocument(d, body, meta)
  PROVE  TypeOK'
<1>1. clock + 1 \in 1 .. MaxClock
  BY SizesAssumption DEF PostDocument, TypeOK
<1>2. [body |-> body, meta |-> meta, upd |-> clock + 1] \in Version
  BY <1>1 DEF Version
<1>3. disturbed' \in [Job -> BOOLEAN]
  BY DEF PostDocument, DisturbAll, Active, TypeOK
<1> QED BY <1>1, <1>2, <1>3 DEF PostDocument, TypeOK

LEMMA TypeStart ==
  ASSUME TypeOK, NEW j \in Job,
         (\E full \in BOOLEAN : StartSync(j, full)) \/ StartReconcile(j)
  PROVE  TypeOK'
<1>1. disturbed' \in [Job -> BOOLEAN]
  BY DEF StartSync, StartReconcile, Ghosts, Active, TypeOK
<1>2. job' \in [Job -> JobState]
  <2>1. ASSUME NEW full \in BOOLEAN, StartSync(j, full)
        PROVE  job' \in [Job -> JobState]
    <3> DEFINE since == IF full THEN 0 ELSE state.wm
               new == [IdleJob EXCEPT !.phase = "fetch", !.full = full,
                                      !.more = TRUE, !.since = since]
    <3>1. since \in 0 .. MaxClock
      BY SizesAssumption DEF TypeOK
    <3> HIDE DEF since
    <3>2. new \in JobState
      BY <3>1, IdleJobType DEF JobState
    <3>3. job' = [job EXCEPT ![j] = new]
      BY <2>1 DEF StartSync, since
    <3> HIDE DEF new
    <3> QED BY <3>2, <3>3 DEF TypeOK
  <2>2. CASE StartReconcile(j)
    <3>1. [IdleJob EXCEPT !.phase = "enum", !.more = TRUE] \in JobState
      BY IdleJobType DEF JobState
    <3> QED BY <2>2, <3>1 DEF StartReconcile, TypeOK
  <2> QED BY <2>1, <2>2
<1> QED BY <1>1, <1>2 DEF StartSync, StartReconcile, TypeOK

LEMMA TypeFetchPage ==
  ASSUME TypeOK, NEW j \in Job, FetchPage(j)
  PROVE  TypeOK'
<1>1. job[j] \in JobState /\ job[j].buf \in Seq(Item)
  BY DEF TypeOK, JobState
<1>2. PICK P \in Answers(job[j]) : \E p \in InOrder(Yielded(P, job[j].since)) :
       /\ job' = [job EXCEPT ![j] = [Advance(job[j], P) EXCEPT
                 !.buf = @ \o [i \in 1 .. Cardinality(Yielded(P, job[j].since)) |->
                                 [doc |-> p[i], ver |-> remote[p[i]]]]]]
       /\ Withheld(j, P)
  BY DEF FetchPage
<1> DEFINE K == Yielded(P, job[j].since)
<1>3. PICK p \in InOrder(K) :
       job' = [job EXCEPT ![j] = [Advance(job[j], P) EXCEPT
                 !.buf = @ \o [i \in 1 .. Cardinality(K) |->
                                 [doc |-> p[i], ver |-> remote[p[i]]]]]]
  BY <1>2
<1>4. P \in SUBSET Present(remote) /\ K \in SUBSET Present(remote)
  BY AnswersType
<1>5. P \in SUBSET Doc
  BY <1>4 DEF Present
<1> HIDE DEF K
<1> DEFINE adv == Advance(job[j], P)
           items == [i \in 1 .. Cardinality(K) |-> [doc |-> p[i], ver |-> remote[p[i]]]]
<1>6. adv \in JobState
  BY <1>1, <1>5, AdvanceType
<1>7. adv.buf \in Seq(Item)
  BY <1>6 DEF JobState
<1>8. adv.buf \o items \in Seq(Item)
  BY <1>4, <1>7, BufferType
<1>9. job' = [job EXCEPT ![j] = [adv EXCEPT !.buf = adv.buf \o items]]
  BY <1>3
<1> HIDE DEF adv, items
<1>10. [adv EXCEPT !.buf = adv.buf \o items] \in JobState
  BY <1>6, <1>8 DEF JobState
<1> QED BY <1>2, <1>9, <1>10, TypeAnswered DEF FetchPage

LEMMA TypeStartWindow ==
  ASSUME TypeOK, NEW j \in Job, StartWindow(j)
  PROVE  TypeOK'
<1> DEFINE b == job[j].buf
           n == IF Len(b) >= Window THEN Window ELSE Len(b)
           tasks == [i \in 1 .. n |-> [item |-> b[i], stage |-> "check"]]
           new == [job[j] EXCEPT !.task = tasks, !.buf = SubSeq(b, n + 1, Len(b))]
<1>1. job[j] \in JobState /\ b \in Seq(Item)
  BY DEF TypeOK, JobState
<1>2. Window \in Nat /\ Len(b) \in Nat
  BY <1>1, LenProperties, SizesAssumption DEF Window
<1>3. n \in Nat /\ n <= Len(b)
  BY <1>2
<1>4. tasks \in Seq(Task)
  <2>1. \A i \in 1 .. n : b[i] \in Item
    BY <1>1, <1>2, <1>3, ElementOfSeq
  <2> HIDE DEF n, b
  <2>2. tasks \in [1 .. n -> Task]
    BY <2>1 DEF Task
  <2> QED BY <1>3, <2>2, SeqDef
<1>5. SubSeq(b, n + 1, Len(b)) \in Seq(Item)
  <2> HIDE DEF n, b
  <2> QED BY <1>1, <1>2, <1>3, SubSeqProperties
<1>6. job' = [job EXCEPT ![j] = new]
  BY DEF StartWindow, TypeOK
<1> HIDE DEF b, n, tasks
<1>7. new \in JobState
  BY <1>1, <1>4, <1>5 DEF JobState
<1> QED BY <1>6, <1>7, TypeOneJob DEF StartWindow

(* What an action of a task changes of the job: a stage, "failed" perhaps. *)
LEMMA TypeTaskStep ==
  ASSUME TypeOK, NEW j \in Job, TaskStep(j)
  PROVE  TypeOK'
<1> DEFINE Staged(i, st) == [job[j].task EXCEPT ![i].stage = st]
<1>1. job[j] \in JobState /\ job[j].task \in Seq(Task)
  BY DEF TypeOK, JobState
<1>2. PICK i \in DOMAIN job[j].task :
        CheckItem(j, i) \/ WriteItem(j, i) \/ ItemFails(j, i)
  BY DEF TaskStep
<1>3. \A st \in {"check", "write", "done"} : Staged(i, st) \in Seq(Task)
  BY <1>1, StageType
<1>4. \A st \in {"check", "write", "done"} :
        /\ [job[j] EXCEPT !.task = Staged(i, st)] \in JobState
        /\ [job[j] EXCEPT !.task = Staged(i, st), !.failed = TRUE] \in JobState
  <2> HIDE DEF Staged
  <2> QED BY <1>1, <1>3 DEF JobState
<1>5. CASE CheckItem(j, i)
  <2>1. PICK st \in {"check", "write", "done"} :
          job' = [job EXCEPT ![j].task[i].stage = st]
    BY <1>5 DEF CheckItem
  <2>2. job' = [job EXCEPT ![j] = [job[j] EXCEPT !.task = Staged(i, st)]]
    BY <2>1 DEF TypeOK
  <2> QED BY <1>4, <1>5, <2>2, TypeOneJob DEF CheckItem
<1>6. CASE WriteItem(j, i)
  <2>1. job' = [job EXCEPT ![j] = [job[j] EXCEPT !.task = Staged(i, "done")]]
    BY <1>6 DEF WriteItem, TypeOK
  <2>2. job' \in [Job -> JobState]
    BY <1>4, <2>1 DEF TypeOK
  <2>3. job[j].task[i] \in Task
    BY <1>1, LenProperties, ElementOfSeq
  <2>4. db' \in [Doc -> Version \union {NoDoc}]
    BY <1>6, <2>3 DEF WriteItem, TypeOK, Item, Task
  <2> QED BY <1>6, <2>2, <2>4 DEF WriteItem, TypeOK
<1>7. CASE ItemFails(j, i)
  <2>1. job' = [job EXCEPT ![j] =
                  [job[j] EXCEPT !.task = Staged(i, "done"), !.failed = TRUE]]
    BY <1>7 DEF ItemFails, TypeOK
  <2> QED BY <1>4, <1>7, <2>1, TypeOneJob DEF ItemFails
<1> QED BY <1>2, <1>5, <1>6, <1>7

LEMMA TypeCloseFinish ==
  ASSUME TypeOK, NEW j \in Job, CloseWindow(j) \/ Finish(j)
  PROVE  TypeOK'
<1>1. job[j] \in JobState
  BY DEF TypeOK
<1>2. CASE CloseWindow(j)
  <2>1. [job[j] EXCEPT !.task = <<>>] \in JobState
    BY <1>1, EmptySeq DEF JobState
  <2>2. job' = [job EXCEPT ![j] = [job[j] EXCEPT !.task = <<>>]]
    BY <1>2 DEF CloseWindow, TypeOK
  <2> QED BY <1>2, <2>1, <2>2, TypeOneJob DEF CloseWindow
<1>3. CASE Finish(j)
  <2>1. [job[j] EXCEPT !.phase = "record", !.stamp = clock] \in JobState
    <3>1. clock \in 0 .. MaxClock
      BY SizesAssumption DEF TypeOK
    <3> QED BY <1>1, <3>1 DEF JobState
  <2>2. job' = [job EXCEPT ![j] = [job[j] EXCEPT !.phase = "record", !.stamp = clock]]
    BY <1>3 DEF Finish, TypeOK
  <2> QED BY <1>3, <2>1, <2>2, TypeOneJob DEF Finish
<1> QED BY <1>2, <1>3

LEMMA TypeRecord ==
  ASSUME TypeOK, NEW j \in Job, Record(j)
  PROVE  TypeOK'
<1>1. job[j] \in JobState
  BY DEF TypeOK
<1>2. state' \in [wm : 0 .. MaxClock, status : {"never_run", "success", "partial"}]
  BY <1>1 DEF Record, JobState
<1>3. job' \in [Job -> JobState]
  <2> DEFINE new == [job[j] EXCEPT !.phase = "enum", !.since = 0, !.space = 1,
                                   !.offset = 0, !.more = TRUE]
  <2>1. new \in JobState
    <3>1. 0 \in 0 .. MaxClock /\ 0 \in Nat /\ 1 \in 1 .. NumSpaces
      BY SizesAssumption
    <3> QED BY <1>1, <3>1 DEF JobState
  <2>2. job' = [job EXCEPT ![j] = new] \/ job' = [job EXCEPT ![j] = IdleJob]
    BY DEF Record
  <2> HIDE DEF new
  <2> QED BY <2>1, <2>2, IdleJobType DEF TypeOK
<1> QED BY <1>2, <1>3 DEF Record, TypeOK

LEMMA TypeEnumeratePage ==
  ASSUME TypeOK, NEW j \in Job, EnumeratePage(j)
  PROVE  TypeOK'
<1>1. job[j] \in JobState
  BY DEF TypeOK
<1>2. PICK P \in Answers(job[j]) :
       /\ job' = [job EXCEPT ![j] = [Advance(job[j], P) EXCEPT
                                    !.ids = @ \union Yielded(P, job[j].since)]]
       /\ Withheld(j, P)
  BY DEF EnumeratePage
<1> DEFINE K == Yielded(P, job[j].since)
           adv == Advance(job[j], P)
<1>3. P \in SUBSET Doc /\ K \in SUBSET Doc
  BY AnswersType DEF Present
<1>4. adv \in JobState
  BY <1>1, <1>3, AdvanceType
<1>5. job' = [job EXCEPT ![j] = [adv EXCEPT !.ids = adv.ids \union K]]
  BY <1>2
<1> HIDE DEF K, adv
<1>6. [adv EXCEPT !.ids = adv.ids \union K] \in JobState
  BY <1>3, <1>4 DEF JobState
<1> QED BY <1>2, <1>5, <1>6, TypeAnswered DEF EnumeratePage

LEMMA TypeDiffDelete ==
  ASSUME TypeOK, NEW j \in Job, Diff(j) \/ Delete(j)
  PROVE  TypeOK'
<1>1. job[j] \in JobState
  BY DEF TypeOK
<1>2. CASE Diff(j)
  <2> DEFINE stale == Stale(job[j].ids)
             new == [job[j] EXCEPT !.phase = "delete", !.stale = stale]
  <2>1. stale \in SUBSET Doc
    BY DEF Stale, Present
  <2>2. job' = [job EXCEPT ![j] = IF stale = {} THEN IdleJob ELSE new]
    BY <1>2 DEF Diff
  <2> HIDE DEF stale
  <2>3. new \in JobState
    BY <1>1, <2>1 DEF JobState
  <2> HIDE DEF new
  <2>4. (IF stale = {} THEN IdleJob ELSE new) \in JobState
    BY <2>3, IdleJobType
  <2> QED BY <1>2, <2>2, <2>4, TypeOneJob DEF Diff
<1>3. CASE Delete(j)
  BY <1>3, IdleJobType DEF Delete, TypeOK
<1> QED BY <1>2, <1>3

LEMMA TypeFailures ==
  ASSUME TypeOK, (\E j \in Job : FetchFails(j) \/ DbFails(j)) \/ Crash
  PROVE  TypeOK'
<1>1. ASSUME NEW j \in Job, FetchFails(j) \/ DbFails(j)
      PROVE  TypeOK'
  BY <1>1, IdleJobType, TypeOneJob DEF FetchFails, DbFails
<1>2. CASE Crash
  BY <1>2, IdleJobType DEF Crash, TypeOK
<1> QED BY <1>1, <1>2

(* Every value the code keeps stays in the range it is declared with.      *)
THEOREM TypeCorrect == Spec => []TypeOK
<1>1. TypeOK /\ [Next]_vars => TypeOK'
  <2> SUFFICES ASSUME TypeOK, [Next]_vars
               PROVE  TypeOK'
    OBVIOUS
  <2>1. ASSUME NEW d \in Doc, SourceEdit(d) \/ SourceDelete(d)
        PROVE  TypeOK'
    BY <2>1, TypeSource
  <2>2. ASSUME NEW j \in Job,
               (\E full \in BOOLEAN : StartSync(j, full)) \/ StartReconcile(j)
        PROVE  TypeOK'
    BY <2>2, TypeStart
  <2>3. ASSUME NEW j \in Job, JobStep(j)
        PROVE  TypeOK'
    BY <2>3, TypeFetchPage, TypeStartWindow, TypeTaskStep, TypeCloseFinish,
       TypeRecord, TypeEnumeratePage, TypeDiffDelete, TypeFailures DEF JobStep
  <2>4. CASE Crash
    BY <2>4, TypeFailures
  <2>5. CASE UNCHANGED vars
    BY <2>5 DEF vars, TypeOK
  <2>6. ASSUME NEW d \in Doc, NEW body \in Body, NEW meta \in Meta,
               PostDocument(d, body, meta)
        PROVE  TypeOK'
    BY <2>6, TypePost
  <2> QED BY <2>1, <2>2, <2>3, <2>4, <2>5, <2>6 DEF Next
<1> QED BY <1>1, TypeInit, PTL DEF Spec

-------------------------------------------------------------------------------
(* Rows *)

(* The item of a task is a version of a document.                          *)
LEMMA TaskItem ==
  ASSUME TypeOK, NEW j \in Job, NEW i \in DOMAIN job[j].task
  PROVE  /\ job[j].task[i].item.doc \in Doc
         /\ job[j].task[i].item.ver \in Version
<1>1. job[j].task \in Seq(Task)
  BY DEF TypeOK, JobState
<1>2. job[j].task[i] \in Task
  BY <1>1, LenProperties, ElementOfSeq
<1> QED BY <1>2 DEF Task, Item

(* What a step of a job does to a row.                                     *)
LEMMA JobStepRows ==
  ASSUME TypeOK, NEW j \in Job, JobStep(j), NEW d \in Doc, db'[d] # db[d]
  PROVE  \/ \E i \in DOMAIN job[j].task :
              /\ WriteItem(j, i) /\ job[j].task[i].item.doc = d
              /\ db'[d] = job[j].task[i].item.ver
         \/ Delete(j) /\ d \in job[j].stale /\ db'[d] = NoDoc
<1>1. TaskStep(j) \/ Delete(j)
  BY DEF JobStep, FetchPage, FetchFails, StartWindow, CloseWindow, Finish, Record,
         EnumeratePage, Diff, DbFails
<1>2. CASE TaskStep(j)
  <2>1. PICK i \in DOMAIN job[j].task : WriteItem(j, i)
    BY <1>2 DEF TaskStep, CheckItem, ItemFails
  <2> QED BY <2>1 DEF WriteItem, TypeOK
<1>3. CASE Delete(j)
  BY <1>3 DEF Delete
<1> QED BY <1>1, <1>2, <1>3

(* Nothing but a job's delete removes a row.                               *)
LEMMA RowsRemoved ==
  ASSUME TypeOK, Next, NEW d \in Doc, db[d] # NoDoc, db'[d] = NoDoc
  PROVE  \E j \in Job : Delete(j) /\ d \in job[j].stale
<1>1. ASSUME NEW e \in Doc, NEW body \in Body, NEW meta \in Meta, PostDocument(e, body, meta)
      PROVE  FALSE
  <2>1. clock + 1 \in 1 .. MaxClock
    BY <1>1, SizesAssumption DEF PostDocument, TypeOK
  <2>2. [body |-> body, meta |-> meta, upd |-> clock + 1] \in Version
    BY <2>1 DEF Version
  <2> QED BY <1>1, <2>2, ValuesAssumption DEF PostDocument, TypeOK
<1>2. PICK j \in Job : JobStep(j)
  BY <1>1 DEF Next, SourceEdit, SourceDelete, StartSync, StartReconcile, Crash
<1>3. CASE \E i \in DOMAIN job[j].task :
            /\ WriteItem(j, i) /\ job[j].task[i].item.doc = d
            /\ db'[d] = job[j].task[i].item.ver
  BY <1>3, TaskItem, ValuesAssumption
<1> QED BY <1>2, <1>3, JobStepRows

-------------------------------------------------------------------------------
(***************************************************************************)
(* The repository under the jobs.                                          *)
(*                                                                         *)
(* The jobs and the posted documents use the tables through the interface  *)
(* that DocStore describes and DocStoreTx implements: documents are put    *)
(* whole and dropped in sets, and a content of which the chunker makes     *)
(* nothing is never put - what CountAssumption of DocStoreTx takes for     *)
(* granted of its callers.  ChunkCount is any count of chunks.             *)
(***************************************************************************)
CONSTANT ChunkCount

Text == {v \in Version : v.body # EmptyBody}
StoreView ==
  [d \in Doc |-> [row    |-> db[d],
                  chunks |-> IF db[d] = NoDoc THEN {}
                             ELSE [index : 0 .. ChunkCount[db[d]] - 1, of : {db[d]}]]]
Store == INSTANCE DocStore WITH Content <- Text, NoRow <- NoDoc, store <- StoreView

(* A task goes on to write only what has a text.                           *)
TasksHaveText ==
  \A j \in Job : \A i \in DOMAIN job[j].task :
    job[j].task[i].stage = "write" => job[j].task[i].item.ver.body # EmptyBody

LEMMA TasksFrame ==
  ASSUME TasksHaveText, \A j \in Job : job'[j].task = job[j].task \/ job'[j].task = <<>>
  PROVE  TasksHaveText'
BY DEF TasksHaveText

LEMMA TasksStart ==
  ASSUME TypeOK, TasksHaveText, NEW j \in Job,
         (\E full \in BOOLEAN : StartSync(j, full)) \/ StartReconcile(j)
  PROVE  TasksHaveText'
<1>1. job'[j].task = <<>> /\ \A k \in Job \ {j} : job'[k] = job[k]
  <2>1. CASE StartReconcile(j)
    BY <2>1 DEF StartReconcile, IdleJob, TypeOK
  <2>2. ASSUME NEW full \in BOOLEAN, StartSync(j, full)
        PROVE  job'[j].task = <<>> /\ \A k \in Job \ {j} : job'[k] = job[k]
    BY <2>2 DEF StartSync, IdleJob, TypeOK
  <2> QED BY <2>1, <2>2
<1> QED BY <1>1, TasksFrame

LEMMA TasksJobStep ==
  ASSUME TypeOK, TasksHaveText, NEW j \in Job, JobStep(j)
  PROVE  TasksHaveText'
<1> DEFINE r == job[j]
<1>1. r \in JobState
  BY DEF TypeOK
<1>2. \A k \in Job \ {j} : job'[k] = job[k]
  BY DEF JobStep, FetchPage, FetchFails, StartWindow, TaskStep, CheckItem, WriteItem,
         ItemFails, CloseWindow, Finish, Record, EnumeratePage, Diff, Delete, DbFails,
         TypeOK
<1>3. CASE FetchPage(j) \/ EnumeratePage(j)
  <2>1. PICK P \in Answers(r) : \/ \E b : job'[j] = [Advance(r, P) EXCEPT !.buf = b]
                                \/ \E s : job'[j] = [Advance(r, P) EXCEPT !.ids = s]
    BY <1>3, Zenon DEF FetchPage, EnumeratePage, TypeOK
  <2>2. job'[j].task = r.task
    BY <1>1, <2>1 DEF Advance, JobState
  <2> QED BY <1>2, <2>2, TasksFrame
<1>4. CASE StartWindow(j)
  <2>1. PICK n, b : job'[j] = [r EXCEPT !.task = [i \in 1 .. n |->
                                 [item |-> r.buf[i], stage |-> "check"]], !.buf = b]
    BY <1>4, Zenon DEF StartWindow, TypeOK
  <2>2. job'[j].task = [i \in 1 .. n |-> [item |-> r.buf[i], stage |-> "check"]]
    BY <1>1, <2>1 DEF JobState
  <2>3. \A i \in DOMAIN job'[j].task : job'[j].task[i].stage = "check"
    BY <2>2
  <2> QED BY <1>2, <2>3 DEF TasksHaveText
<1>5. CASE TaskStep(j)
  <2>1. PICK i \in DOMAIN r.task : CheckItem(j, i) \/ WriteItem(j, i) \/ ItemFails(j, i)
    BY <1>5 DEF TaskStep
  <2>2. PICK st : /\ st = "write" => r.task[i].item.ver.body # EmptyBody
                  /\ \/ job'[j] = [r EXCEPT !.task = [r.task EXCEPT ![i].stage = st]]
                     \/ job'[j] = [r EXCEPT !.task = [r.task EXCEPT ![i].stage = st],
                                            !.failed = TRUE]
    <3>1. CASE CheckItem(j, i)
      BY <3>1 DEF CheckItem, TypeOK
    <3>2. CASE WriteItem(j, i)
      BY <3>2 DEF WriteItem, TypeOK
    <3>3. CASE ItemFails(j, i)
      BY <3>3 DEF ItemFails, TypeOK
    <3> QED BY <2>1, <3>1, <3>2, <3>3
  <2>3. job'[j].task = [r.task EXCEPT ![i].stage = st]
    BY <1>1, <2>2 DEF JobState
  <2>4. \A k \in DOMAIN r.task : r.task[k] \in Task
    BY <1>1, LenProperties, ElementOfSeq DEF JobState
  <2>5. /\ DOMAIN job'[j].task = DOMAIN r.task
        /\ \A k \in DOMAIN r.task : job'[j].task[k].item = r.task[k].item
        /\ \A k \in DOMAIN r.task : job'[j].task[k].stage = IF k = i THEN st ELSE r.task[k].stage
    BY <2>3, <2>4 DEF Task
  <2>6. \A k \in DOMAIN job'[j].task :
          job'[j].task[k].stage = "write" => job'[j].task[k].item.ver.body # EmptyBody
    BY <2>2, <2>5 DEF TasksHaveText
  <2> QED BY <1>2, <2>6 DEF TasksHaveText
<1>6. CASE CloseWindow(j)
  <2>1. job'[j].task = <<>>
    BY <1>1, <1>6 DEF CloseWindow, TypeOK, JobState
  <2> QED BY <1>2, <2>1, TasksFrame
<1>7. CASE Finish(j) \/ Record(j) \/ Diff(j) \/ Delete(j) \/ FetchFails(j) \/ DbFails(j)
  <2>1. \/ job'[j] = IdleJob
        \/ job'[j] = [r EXCEPT !.phase = "record", !.stamp = clock]
        \/ job'[j] = [r EXCEPT !.phase = "enum", !.since = 0, !.space = 1, !.offset = 0,
                               !.more = TRUE]
        \/ job'[j] = [r EXCEPT !.phase = "delete", !.stale = Stale(r.ids)]
    BY <1>7 DEF Finish, FetchFails, Delete, DbFails, Record, Diff, TypeOK
  <2>2. job'[j].task = <<>> \/ job'[j].task = r.task
    <3>1. IdleJob.task = <<>>
      BY DEF IdleJob
    <3>2. CASE job'[j] # IdleJob
      BY <1>1, <2>1, <3>2 DEF JobState
    <3> QED BY <3>1, <3>2
  <2> QED BY <1>2, <2>2, TasksFrame
<1> QED BY <1>3, <1>4, <1>5, <1>6, <1>7 DEF JobStep

(* A document without text never reaches the transaction that stores it,   *)
(* which is what DocStore, and the code, assume of each content.           *)
THEOREM OnlyTextIsWritten == Spec => []TasksHaveText
<1>1. Init => TasksHaveText
  BY DEF Init, TasksHaveText, IdleJob
<1>2. TypeOK /\ TasksHaveText /\ [Next]_vars => TasksHaveText'
  <2> SUFFICES ASSUME TypeOK, TasksHaveText, [Next]_vars
               PROVE  TasksHaveText'
    OBVIOUS
  <2>1. CASE UNCHANGED job
    BY <2>1, TasksFrame
  <2>2. CASE Crash
    BY <2>2, TasksFrame DEF Crash, IdleJob
  <2> QED BY <2>1, <2>2, TasksStart, TasksJobStep
          DEF Next, vars, SourceEdit, SourceDelete, PostDocument
<1> QED BY <1>1, <1>2, TypeCorrect, PTL DEF Spec

(* What a put and a drop look like through the view.                       *)
LEMMA ViewOfPut ==
  ASSUME TypeOK, NEW d \in Doc, NEW v \in Text, db' = [db EXCEPT ![d] = v]
  PROVE  Store!Put(d, v)
<1>1. v # NoDoc
  BY ValuesAssumption DEF Text
<1>2. ASSUME NEW e \in Doc
      PROVE  StoreView'[e] = IF e = d THEN Store!Whole(v) ELSE StoreView[e]
  BY <1>1, <1>2 DEF StoreView, Store!Whole, Store!ChunksOf, TypeOK
<1>3. StoreView' = [StoreView EXCEPT ![d] = Store!Whole(v)]
  BY <1>2 DEF StoreView
<1> QED BY <1>3 DEF Store!Put

LEMMA ViewOfDrop ==
  ASSUME NEW D \in SUBSET Doc, db' = [d \in Doc |-> IF d \in D THEN NoDoc ELSE db[d]]
  PROVE  Store!Drop(D)
BY DEF StoreView, Store!Drop, Store!Absent

(* The jobs and posts on one source are behaviours of DocStore, whatever   *)
(* the chunker makes of a text: each write puts one document whole, a      *)
(* reconcile drops a set, and nothing without a text is ever put.          *)
THEOREM JobsUseDocStore == Spec => Store!Spec
<1>1. Init => Store!Init
  BY DEF Init, Store!Init, Store!Absent, StoreView
<1>2. TypeOK /\ TypeOK' /\ TasksHaveText /\ [Next]_vars => [Store!Next]_StoreView
  <2> SUFFICES ASSUME TypeOK, TypeOK', TasksHaveText, [Next]_vars
               PROVE  Store!Next \/ StoreView' = StoreView
    OBVIOUS
  <2>1. CASE db' = db
    BY <2>1 DEF StoreView
  <2>2. ASSUME NEW j \in Job, NEW i \in DOMAIN job[j].task, WriteItem(j, i)
        PROVE  Store!Next
    <3> DEFINE item == job[j].task[i].item
    <3>1. item.doc \in Doc /\ item.ver \in Text
      BY <2>2, TaskItem DEF WriteItem, TasksHaveText, Text
    <3>2. db' = [db EXCEPT ![item.doc] = item.ver]
      BY <2>2 DEF WriteItem
    <3> HIDE DEF item
    <3>3. Store!Put(item.doc, item.ver)
      BY <3>1, <3>2, ViewOfPut
    <3> QED BY <3>1, <3>3 DEF Store!Next
  <2>3. ASSUME NEW j \in Job, Delete(j)
        PROVE  Store!Next
    <3>1. job[j].stale \in SUBSET Doc
      BY DEF TypeOK, JobState
    <3>2. Store!Drop(job[j].stale)
      BY <2>3, <3>1, ViewOfDrop DEF Delete
    <3> QED BY <3>1, <3>2 DEF Store!Next
  <2>4. ASSUME NEW d \in Doc, NEW body \in Body, NEW meta \in Meta,
               PostDocument(d, body, meta)
        PROVE  Store!Next
    <3> DEFINE v == [body |-> body, meta |-> meta, upd |-> clock + 1]
    <3>1. v \in Text /\ db' = [db EXCEPT ![d] = v]
      <4>1. clock + 1 \in 1 .. MaxClock
        BY <2>4, SizesAssumption DEF PostDocument, TypeOK
      <4> QED BY <2>4, <4>1 DEF PostDocument, Text, Version
    <3> HIDE DEF v
    <3>2. Store!Put(d, v)
      BY <3>1, ViewOfPut
    <3> QED BY <3>1, <3>2 DEF Store!Next
  <2>5. CASE \E j \in Job : JobStep(j) /\ db' # db
    <3>1. PICK j \in Job : TaskStep(j) \/ Delete(j)
      BY <2>5 DEF JobStep, FetchPage, FetchFails, StartWindow, CloseWindow, Finish, Record,
                  EnumeratePage, Diff, DbFails
    <3>2. TaskStep(j) => \E i \in DOMAIN job[j].task : WriteItem(j, i) \/ db' = db
      BY DEF TaskStep, CheckItem, ItemFails
    <3> QED BY <2>1, <2>2, <2>3, <3>1, <3>2
  <2> QED BY <2>1, <2>4, <2>5
          DEF Next, vars, SourceEdit, SourceDelete, StartSync, StartReconcile, Crash
<1> QED BY <1>1, <1>2, OnlyTextIsWritten, TypeCorrect, PTL DEF Spec, Store!Spec

=============================================================================
