------------------------------- MODULE DocStore -------------------------------
(***************************************************************************)
(* What repository.py promises of the tables documents and chunks: a       *)
(* document is stored or replaced together with all of its chunks, and a   *)
(* set of documents disappears together with theirs, each in one step.     *)
(* Searches and the sync jobs rely on nothing else.                        *)
(***************************************************************************)
EXTENDS Integers

CONSTANTS
  Doc,         \* (source_type, source_id) pairs
  Content,     \* what a document's row and chunks are made from
  ChunkCount,  \* how many chunks the chunker cuts a content into
  NoRow        \* no such document

VARIABLE store

\* The chunks of a content: their index, and what they were cut from.
Chunk == [index : Nat, of : Content]
ChunksOf(c) == [index : 0 .. ChunkCount[c] - 1, of : {c}]

Absent == [row |-> NoRow, chunks |-> {}]
Whole(c) == [row |-> c, chunks |-> ChunksOf(c)]

Init == store = [d \in Doc |-> Absent]

Put(d, c) == store' = [store EXCEPT ![d] = Whole(c)]
Drop(D) == store' = [d \in Doc |-> IF d \in D THEN Absent ELSE store[d]]

Next == \/ \E d \in Doc, c \in Content : Put(d, c)
        \/ \E D \in SUBSET Doc : Drop(D)

Spec == Init /\ [][Next]_store
=============================================================================
