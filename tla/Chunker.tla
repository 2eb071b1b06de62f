-------------------------------- MODULE Chunker --------------------------------
(***************************************************************************)
(* TextChunker: a window of size tokens slides over a text, each step      *)
(* overlap tokens short of the window, until it reaches the end.  Without  *)
(* tiktoken it slides over words, with both numbers converted to words.    *)
(* Tokens and words are their positions 0 .. total - 1.                    *)
(***************************************************************************)
EXTENDS Integers, Sequences

CONSTANTS
  Sizes, Overlaps,  \* values of CHUNK_SIZE and CHUNK_OVERLAP
  Totals            \* lengths of the texts

ASSUME NumbersAssumption ==
  Sizes \subseteq Nat \ {0} /\ Overlaps \subseteq Nat /\ Totals \subseteq Nat

VARIABLES
  window,  \* width and overlap, in the unit of the path taken
  total,   \* tokens or words in the text
  start,   \* where the next chunk starts
  chunks,  \* the chunks appended so far
  done     \* has the loop ended?
vars == <<window, total, start, chunks, done>>

Smaller(a, b) == IF a < b THEN a ELSE b

\* _chunk_tiktoken uses the settings as they are.
TokenWindow(size, overlap) == [width |-> size, overlap |-> overlap]

\* _chunk_words: int(n / 1.3), and a window of one word at least.
Words(n) == (10 * n) \div 13
WordWindow(size, overlap) ==
  [width |-> IF Words(size) > 1 THEN Words(size) ELSE 1, overlap |-> Words(overlap)]

\* The settings under which the loop advances.
Advances(w) == w.overlap < w.width

Init ==
  /\ \E size \in Sizes, overlap \in Overlaps :
       window \in {TokenWindow(size, overlap), WordWindow(size, overlap)}
  /\ Advances(window)
  /\ total \in Totals
  /\ start = 0
  /\ chunks = <<>>
  /\ done = FALSE

\* Mutants: the overlap is forgotten, or taken to the wrong side.
Stride_NoOverlap(w) == w.width
Stride_Added(w) == w.width + w.overlap
\* How far the window moves.
Stride(w) == w.width - w.overlap

\* Mutant: no break at the end of the text.
IsLast_Never(end) == FALSE
\* The chunk that reaches the end is the last.
IsLast(end) == end = total

\* One iteration of the while loop, the break included.
Iterate ==
  LET end == Smaller(start + window.width, total)
  IN  /\ ~done /\ start < total
      /\ chunks' = Append(chunks, [index |-> Len(chunks), from |-> start, to |-> end])
      /\ IF IsLast(end)
         THEN done' = TRUE /\ UNCHANGED start
         ELSE start' = start + Stride(window) /\ UNCHANGED done
      /\ UNCHANGED <<window, total>>

\* Mutant: an empty text does not leave the loop.
Exit_Late == ~done /\ start > total /\ done' = TRUE /\ UNCHANGED <<window, total, start, chunks>>

\* The loop condition fails: the text is empty.
Exit == ~done /\ start >= total /\ done' = TRUE /\ UNCHANGED <<window, total, start, chunks>>

Next == Iterate \/ Exit
Spec == Init /\ [][Next]_vars
FairSpec == Spec /\ WF_vars(Next)

-------------------------------------------------------------------------------
Span == [index : Nat, from : Nat, to : Nat]

TypeOK ==
  /\ window \in [width : Nat \ {0}, overlap : Nat]
  /\ total \in Nat /\ start \in Nat
  /\ chunks \in Seq(Span)
  /\ done \in BOOLEAN

(* Nothing of the text is lost: when the loop ends, every token is in some *)
(* chunk.                                                                  *)
EveryTokenCovered ==
  done => \A p \in 0 .. total - 1 :
            \E i \in DOMAIN chunks : chunks[i].from <= p /\ p < chunks[i].to

(* No chunk repeats what another one holds already - a tail that is all    *)
(* overlap would - and two chunks next to each other share exactly the     *)
(* overlap, unless the text ends first; indexes count from 0, so that      *)
(* (document_id, chunk_index) is unique.                                   *)
NoRedundantChunk ==
  \A i, k \in DOMAIN chunks : i < k =>
    chunks[i].from < chunks[k].from /\ chunks[i].to < chunks[k].to
NeighboursOverlap ==
  \A i \in 1 .. Len(chunks) - 1 :
    /\ chunks[i].to - chunks[i + 1].from = window.overlap
    /\ chunks[i + 1].index = chunks[i].index + 1

(* The loop makes the number of chunks its geometry calls for: one, and a  *)
(* further one for every stride, whole or not, past the first window.      *)
Expected ==
  LET beyond == total - window.width
  IN  IF total = 0 THEN 0
      ELSE IF beyond <= 0 THEN 1 ELSE 1 + (beyond + Stride(window) - 1) \div Stride(window)
CountAsExpected == done => Len(chunks) = Expected

(* It ends, whatever the text, when the overlap is smaller than the window *)
(* - in tokens, or in words after the conversion.                          *)
Terminates == <>done
=============================================================================
