---------------------------- MODULE ChunkerProofs ----------------------------
(***************************************************************************)
(* Theorems about Chunker, for every window that advances and every text.  *)
(***************************************************************************)
EXTENDS Chunker, SequenceTheorems, TLAPS

Last == chunks[Len(chunks)]

(* Where the loop stands: nothing appended yet, or the next chunk starts   *)
(* an overlap before the end of the last one, or that end is the text's.   *)
Position ==
  IF chunks = <<>> THEN start = 0 /\ (done => total = 0)
  ELSE /\ Last.from < Last.to
       /\ Last.to <= total
       /\ Last.index = Len(chunks) - 1
       /\ IF done THEN Last.to = total
          ELSE /\ Last.to = Last.from + window.width
               /\ start = Last.from + Stride(window)
               /\ start < total /\ Last.to < total

\* Everything before the end of the last chunk is in some chunk.
CoveredSoFar ==
  chunks # <<>> =>
    \A p \in 0 .. Last.to - 1 :
      \E i \in DOMAIN chunks : chunks[i].from <= p /\ p < chunks[i].to

Inv == /\ TypeOK /\ Advances(window) /\ Position
       /\ CoveredSoFar /\ NoRedundantChunk /\ NeighboursOverlap

-------------------------------------------------------------------------------
(* Both paths slide a window of at least one token or word.                *)
LEMMA WindowType ==
  ASSUME NEW size \in Nat \ {0}, NEW overlap \in Nat
  PROVE  /\ TokenWindow(size, overlap) \in [width : Nat \ {0}, overlap : Nat]
         /\ WordWindow(size, overlap) \in [width : Nat \ {0}, overlap : Nat]
<1>1. Words(size) \in Nat /\ Words(overlap) \in Nat
  BY DEF Words
<1>2. (IF Words(size) > 1 THEN Words(size) ELSE 1) \in Nat \ {0}
  BY <1>1
<1> QED BY <1>1, <1>2 DEF TokenWindow, WordWindow

LEMMA InitInv == Init => Inv
<1> SUFFICES ASSUME Init PROVE Inv
  OBVIOUS
<1>1. window \in [width : Nat \ {0}, overlap : Nat]
  <2>1. PICK size \in Sizes, overlap \in Overlaps :
          window \in {TokenWindow(size, overlap), WordWindow(size, overlap)}
    BY DEF Init
  <2>2. size \in Nat \ {0} /\ overlap \in Nat
    BY NumbersAssumption
  <2> QED BY <2>1, <2>2, WindowType
<1>2. TypeOK
  <2>1. total \in Nat /\ start \in Nat
    BY NumbersAssumption DEF Init
  <2>2. chunks \in Seq(Span) /\ done \in BOOLEAN
    BY EmptySeq DEF Init
  <2> QED BY <1>1, <2>1, <2>2 DEF TypeOK
<1>3. chunks = <<>> /\ Len(chunks) = 0 /\ DOMAIN chunks = {}
  BY DEF Init
<1> QED BY <1>2, <1>3 DEF Init, Inv, Position, CoveredSoFar, NoRedundantChunk,
                          NeighboursOverlap

(* One iteration appends the chunk that starts at start.                   *)
LEMMA IterateInv ==
  ASSUME Inv, Iterate
  PROVE  Inv'
<1> DEFINE end == Smaller(start + window.width, total)
           new == [index |-> Len(chunks), from |-> start, to |-> end]
           n == Len(chunks)
<1>1. /\ window.width \in Nat \ {0} /\ window.overlap \in Nat
      /\ window.overlap < window.width
      /\ total \in Nat /\ start \in Nat /\ chunks \in Seq(Span)
      /\ start < total /\ ~done
  BY DEF Inv, TypeOK, Advances, Iterate
<1>2. n \in Nat
  BY <1>1, LenProperties
<1>3. /\ end \in Nat /\ start < end /\ end <= total
      /\ end # total => end = start + window.width
  BY <1>1 DEF Smaller
<1>4. /\ chunks' = Append(chunks, new)
      /\ window' = window /\ total' = total
      /\ end = total => done' = TRUE /\ start' = start
      /\ end # total => done' = FALSE /\ start' = start + Stride(window)
  BY <1>1 DEF Inv, TypeOK, Iterate, IsLast
<1>5. new \in Span
  BY <1>1, <1>2, <1>3 DEF Span
<1>6. /\ chunks' \in Seq(Span) /\ Len(chunks') = n + 1
      /\ chunks'[n + 1] = new
      /\ \A i \in 1 .. n : chunks'[i] = chunks[i]
      /\ DOMAIN chunks' = 1 .. n + 1 /\ DOMAIN chunks = 1 .. n
  BY <1>1, <1>2, <1>4, <1>5, AppendProperties, LenProperties
<1>7. chunks' # <<>> /\ Last' = new
  BY <1>2, <1>6 DEF Last
<1>8. /\ Stride(window) \in Nat \ {0}
      /\ Stride(window) = window.width - window.overlap
  BY <1>1 DEF Stride
<1> HIDE DEF end, n
<1>9. TypeOK'
  <2>1. start' \in Nat
    BY <1>1, <1>4, <1>8
  <2>2. done' \in BOOLEAN
    BY <1>4
  <2> QED BY <1>4, <1>6, <2>1, <2>2 DEF Inv, TypeOK
<1>10. Position'
  <2>1. /\ new.from = start /\ new.to = end /\ new.index = n
    BY DEF n
  <2>2. CASE end = total
    BY <1>2, <1>3, <1>4, <1>6, <1>7, <2>1, <2>2 DEF Position
  <2>3. CASE end # total
    <3>1. start + Stride(window) < total
      BY <1>1, <1>3, <1>8, <2>3
    <3>2. end = start + window.width /\ end < total
      BY <1>1, <1>3, <2>3
    <3>3. Last'.from = start /\ Last'.to = end /\ Last'.index = Len(chunks') - 1
      BY <1>2, <1>6, <1>7, <2>1
    <3>4. window' = window /\ total' = total /\ done' = FALSE
          /\ start' = start + Stride(window)'
      BY <1>4, <2>3 DEF Stride
    <3> QED BY <1>3, <1>4, <1>7, <3>1, <3>2, <3>3, <3>4, <2>3 DEF Position
  <2> QED BY <2>2, <2>3
\* How the new chunk lies to the last one.
<1>11. n # 0 =>
         /\ Last \in Span /\ Last = chunks[n]
         /\ Last.from < start /\ Last.to < end
         /\ Last.to - start = window.overlap /\ Last.index = n - 1
  <2> SUFFICES ASSUME n # 0
               PROVE  /\ Last \in Span /\ Last = chunks[n]
                      /\ Last.from < start /\ Last.to < end
                      /\ Last.to - start = window.overlap /\ Last.index = n - 1
    OBVIOUS
  <2>1. chunks # <<>> /\ Last = chunks[n] /\ Last \in Span
    BY <1>1, <1>2, <1>6, ElementOfSeq DEF Last, n
  <2>2. /\ Last.to = Last.from + window.width /\ Last.to <= total
        /\ start = Last.from + Stride(window) /\ Last.index = n - 1
    BY <1>1, <2>1 DEF Inv, Position, n
  <2>3. Last.from \in Nat /\ Last.to \in Nat
    BY <2>1 DEF Span
  <2>4. Last.to < end
    <3>1. CASE end = start + window.width
      BY <1>1, <1>8, <2>2, <2>3, <3>1
    <3>2. CASE end = total
      BY <1>1, <2>1, <2>2, <2>3, <3>2 DEF Inv, Position
    <3> QED BY <1>3, <3>1, <3>2
  <2> QED BY <1>1, <1>8, <2>1, <2>2, <2>3, <2>4
<1>12. CoveredSoFar'
  <2> SUFFICES ASSUME NEW p \in 0 .. end - 1
               PROVE  \E i \in DOMAIN chunks' : chunks'[i].from <= p /\ p < chunks'[i].to
    BY <1>7 DEF CoveredSoFar
  <2>1. CASE start <= p
    <3>1. chunks'[n + 1].from <= p /\ p < chunks'[n + 1].to
      BY <1>1, <1>3, <1>6, <2>1
    <3> QED BY <1>2, <1>6, <3>1
  <2>2. CASE p < start
    <3>1. n # 0
      BY <1>1, <1>2, <2>2, EmptySeq DEF Inv, Position, n
    <3>2. p \in 0 .. Last.to - 1 /\ chunks # <<>>
      <4>1. chunks # <<>>
        BY <3>1 DEF n
      <4>2. Last.to \in Nat /\ start <= Last.to
        BY <1>1, <1>11, <3>1 DEF Span
      <4> QED BY <1>1, <2>2, <4>1, <4>2
    <3>3. PICK i \in DOMAIN chunks : chunks[i].from <= p /\ p < chunks[i].to
      BY <3>2 DEF Inv, CoveredSoFar
    <3>4. i \in 1 .. n + 1 /\ chunks'[i] = chunks[i]
      BY <1>2, <1>6, <3>3
    <3> QED BY <1>6, <3>3, <3>4
  <2> QED BY <1>1, <2>1, <2>2
<1>13. NoRedundantChunk'
  <2> SUFFICES ASSUME NEW i \in 1 .. n + 1, NEW k \in 1 .. n + 1, i < k
               PROVE  /\ chunks'[i].from < chunks'[k].from
                      /\ chunks'[i].to < chunks'[k].to
    BY <1>6 DEF NoRedundantChunk
  <2>1. i \in 1 .. n /\ chunks'[i] = chunks[i] /\ n # 0 /\ chunks[i] \in Span
    BY <1>1, <1>2, <1>6, ElementOfSeq DEF n
  <2>2. CASE k \in 1 .. n
    BY <1>6, <2>1, <2>2 DEF Inv, NoRedundantChunk
  <2>3. CASE k = n + 1
    <3>1. chunks[i].from <= Last.from /\ chunks[i].to <= Last.to
      <4>1. CASE i = n
        BY <1>11, <2>1, <4>1 DEF Span
      <4>2. CASE i # n
        <5>1. i \in DOMAIN chunks /\ n \in DOMAIN chunks /\ i < n
          BY <1>2, <1>6, <2>1, <4>2
        <5>2. chunks[i].from < chunks[n].from /\ chunks[i].to < chunks[n].to
          BY <5>1 DEF Inv, NoRedundantChunk
        <5> QED BY <1>11, <2>1, <5>2 DEF Span
      <4> QED BY <4>1, <4>2
    <3> QED BY <1>1, <1>3, <1>6, <1>11, <2>1, <2>3, <3>1 DEF Span
  <2> QED BY <1>2, <2>2, <2>3
<1>14. NeighboursOverlap'
  <2> SUFFICES ASSUME NEW i \in 1 .. n
               PROVE  /\ chunks'[i].to - chunks'[i + 1].from = window.overlap
                      /\ chunks'[i + 1].index = chunks'[i].index + 1
    BY <1>2, <1>4, <1>6 DEF NeighboursOverlap
  <2>1. CASE i = n
    BY <1>2, <1>6, <1>11, <2>1 DEF n
  <2>2. CASE i # n
    <3>1. i \in 1 .. n - 1 /\ i + 1 \in 1 .. n
      BY <1>2, <2>2
    <3>2. chunks'[i] = chunks[i] /\ chunks'[i + 1] = chunks[i + 1]
      BY <1>6, <3>1
    <3>3. i \in 1 .. Len(chunks) - 1
      BY <3>1 DEF n
    <3> QED BY <3>2, <3>3 DEF Inv, NeighboursOverlap
  <2> QED BY <2>1, <2>2
<1> QED BY <1>1, <1>4, <1>9, <1>10, <1>12, <1>13, <1>14 DEF Inv, Advances

LEMMA ExitInv ==
  ASSUME Inv, Exit
  PROVE  Inv'
<1>1. /\ UNCHANGED <<window, total, start, chunks>> /\ done' = TRUE
      /\ ~done /\ start >= total
  BY DEF Exit
<1>2. chunks = <<>>
  BY <1>1 DEF Inv, TypeOK, Position
<1>3. Position'
  BY <1>1, <1>2 DEF Inv, TypeOK, Position
<1> QED BY <1>1, <1>2, <1>3 DEF Inv, TypeOK, Advances, CoveredSoFar, NoRedundantChunk,
                                NeighboursOverlap

THEOREM Invariant == Spec => []Inv
<1>1. Inv /\ [Next]_vars => Inv'
  <2> SUFFICES ASSUME Inv, [Next]_vars
               PROVE  Inv'
    OBVIOUS
  <2>1. CASE UNCHANGED vars
    BY <2>1 DEF vars, Inv, TypeOK, Advances, Position, Last, CoveredSoFar,
                NoRedundantChunk, NeighboursOverlap
  <2> QED BY <2>1, IterateInv, ExitInv DEF Next
<1> QED BY <1>1, InitInv, PTL DEF Spec

(* When the chunker returns, no token of the text is missing from the      *)
(* chunks.                                                                 *)
THEOREM NothingLost == Spec => []EveryTokenCovered
<1>1. Inv => EveryTokenCovered
  <2> SUFFICES ASSUME Inv, done, NEW p \in 0 .. total - 1
               PROVE  \E i \in DOMAIN chunks : chunks[i].from <= p /\ p < chunks[i].to
    BY DEF EveryTokenCovered
  <2>1. chunks # <<>> /\ Last.to = total
    BY DEF Inv, TypeOK, Position
  <2> QED BY <2>1 DEF Inv, CoveredSoFar
<1> QED BY <1>1, Invariant, PTL

(* No chunk is contained in another.                                       *)
THEOREM NothingRepeated == Spec => []NoRedundantChunk
<1>1. Inv => NoRedundantChunk
  BY DEF Inv
<1> QED BY <1>1, Invariant, PTL

(* Neighbours share exactly the overlap, and are numbered in turn.         *)
THEOREM NeighboursShare == Spec => []NeighboursOverlap
<1>1. Inv => NeighboursOverlap
  BY DEF Inv
<1> QED BY <1>1, Invariant, PTL

-------------------------------------------------------------------------------
(* The count.  The window has moved by one stride for every chunk but the  *)
(* last, which is the first to reach the end of the text.                  *)
Counted ==
  /\ ~done => start = Len(chunks) * Stride(window)
  /\ done /\ total = 0 => Len(chunks) = 0
  /\ done /\ total # 0 =>
       /\ Len(chunks) >= 1 /\ start = (Len(chunks) - 1) * Stride(window)
       /\ total <= start + window.width
       /\ Len(chunks) = 1 \/ start - Stride(window) + window.width < total

LEMMA InitCounted == Init => Counted
<1> SUFFICES ASSUME Init PROVE Counted
  OBVIOUS
<1>1. Len(chunks) = 0 /\ ~done /\ start = 0
  BY DEF Init
<1>2. Stride(window) \in Int
  BY InitInv DEF Inv, TypeOK, Stride
<1> QED BY <1>1, <1>2 DEF Counted

LEMMA IterateCounted ==
  ASSUME Inv, Counted, Iterate
  PROVE  Counted'
<1> DEFINE n == Len(chunks)
           S == Stride(window)
           end == Smaller(start + window.width, total)
<1>1. /\ window.width \in Nat \ {0} /\ window.overlap \in Nat
      /\ total \in Nat /\ start \in Nat /\ chunks \in Seq(Span)
      /\ start < total /\ ~done
  BY DEF Inv, TypeOK, Iterate
<1>2. n \in Nat /\ S \in Nat \ {0}
  BY <1>1, LenProperties DEF Inv, Advances, Stride
<1>3. start = n * S
  BY <1>1 DEF Counted
<1>4. Len(chunks') = n + 1 /\ window' = window /\ total' = total /\ S' = S
  BY <1>1, AppendProperties DEF Iterate, Stride, Span
<1>5. CASE end = total
  <2>1. done' = TRUE /\ start' = start
    BY <1>5 DEF Iterate, IsLast
  <2>2. total <= start + window.width
    BY <1>1, <1>5 DEF Smaller
  <2>3. n = 0 \/ start - S + window.width < total
    <3> SUFFICES ASSUME n # 0 PROVE start - S + window.width < total
      OBVIOUS
    <3>1. chunks # <<>> /\ Last \in Span
      BY <1>1, <1>2, ElementOfSeq DEF Last
    <3>2. /\ Last.to = Last.from + window.width /\ Last.to < total
          /\ start = Last.from + S
      BY <1>1, <3>1 DEF Inv, Position
    <3> QED BY <1>1, <1>2, <3>1, <3>2 DEF Span
  <2>4. start = ((n + 1) - 1) * S /\ n + 1 >= 1
    BY <1>2, <1>3
  <2>5. n + 1 = 1 \/ start - S + window.width < total
    BY <1>2, <2>3
  <2> HIDE DEF n, S, end
  <2> QED BY <1>1, <1>2, <1>4, <2>1, <2>2, <2>4, <2>5 DEF Counted, S, n
<1>6. CASE end # total
  <2>1. done' = FALSE /\ start' = start + S
    BY <1>1, <1>6 DEF Iterate, IsLast, Inv, TypeOK
  <2>2. n * S + S = (n + 1) * S
    BY <1>2
  <2> QED BY <1>3, <1>4, <2>1, <2>2 DEF Counted
<1> QED BY <1>5, <1>6

LEMMA ExitCounted ==
  ASSUME Inv, Counted, Exit
  PROVE  Counted'
<1>1. chunks = <<>> /\ total = 0
  BY DEF Exit, Inv, TypeOK, Position
<1> QED BY <1>1 DEF Exit, Counted

(* The quotient between two multiples.                                     *)
LEMMA Quotient ==
  ASSUME NEW a \in Nat, NEW s \in Nat \ {0}, NEW q \in Nat, q * s <= a, a < q * s + s
  PROVE  a \div s = q
<1> DEFINE d == a \div s
<1>1. d \in Int /\ d * s <= a /\ a < d * s + s
  OBVIOUS
<1> HIDE DEF d
<1>2. ~(d < q)
  <2> SUFFICES ASSUME d < q PROVE FALSE
    OBVIOUS
  <2>1. d + 1 <= q
    BY <1>1
  <2>2. (d + 1) * s <= q * s
    BY <1>1, <2>1
  <2> QED BY <1>1, <2>2
<1>3. ~(q < d)
  <2> SUFFICES ASSUME q < d PROVE FALSE
    OBVIOUS
  <2>1. q + 1 <= d
    BY <1>1
  <2>2. (q + 1) * s <= d * s
    BY <1>1, <2>1
  <2> QED BY <1>1, <2>2
<1>4. d = q
  BY <1>1, <1>2, <1>3
<1> QED BY <1>4 DEF d

LEMMA CountedIsExpected == Inv /\ Counted => CountAsExpected
<1> SUFFICES ASSUME Inv, Counted, done PROVE Len(chunks) = Expected
  BY DEF CountAsExpected
<1> DEFINE n == Len(chunks)
           S == Stride(window)
           beyond == total - window.width
<1>1. /\ window.width \in Nat \ {0} /\ total \in Nat /\ start \in Nat
      /\ n \in Nat /\ S \in Nat \ {0}
  BY LenProperties DEF Inv, TypeOK, Advances, Stride
<1>2. CASE total = 0
  BY <1>2 DEF Counted, Expected
<1>3. CASE total # 0
  <2>1. /\ n >= 1 /\ start = (n - 1) * S /\ total <= start + window.width
        /\ n = 1 \/ start - S + window.width < total
    BY <1>3 DEF Counted
  <2> HIDE DEF n, S
  <2>2. n = 1 => beyond <= 0
    <3>1. n = 1 => start = 0
      BY <1>1, <2>1
    <3> QED BY <1>1, <2>1, <3>1
  <2>3. n # 1 => beyond > 0 /\ (n - 1) * S <= beyond + S - 1 /\ beyond + S - 1 < (n - 1) * S + S
    <3> SUFFICES ASSUME n # 1
                 PROVE  /\ beyond > 0 /\ (n - 1) * S <= beyond + S - 1
                        /\ beyond + S - 1 < (n - 1) * S + S
      OBVIOUS
    <3>1. (n - 1) * S = (n - 2) * S + S
      BY <1>1
    <3>2. n - 2 \in Nat
      BY <1>1, <2>1
    <3>3. (n - 2) * S >= 0
      BY <1>1, <3>2
    <3> QED BY <1>1, <2>1, <3>1, <3>3
  <2>4. CASE n = 1
    BY <1>1, <1>3, <2>2, <2>4 DEF Expected, n
  <2>5. CASE n # 1
    <3>1. beyond + S - 1 \in Nat /\ n - 1 \in Nat
      BY <1>1, <2>1, <2>3, <2>5
    <3>2. (beyond + S - 1) \div S = n - 1
      BY <1>1, <2>3, <2>5, <3>1, Quotient
    <3>3. ~(beyond <= 0)
      BY <1>1, <2>3, <2>5
    <3>4. Expected = 1 + ((beyond + S - 1) \div S)
      BY <1>3, <3>3 DEF Expected, S
    <3> QED BY <1>1, <3>2, <3>4 DEF n
  <2> QED BY <2>4, <2>5
<1> QED BY <1>2, <1>3

(* The chunker makes exactly as many chunks as the text needs windows.     *)
THEOREM RightCount == Spec => []CountAsExpected
<1>1. Inv /\ Counted /\ [Next]_vars => Counted'
  <2> SUFFICES ASSUME Inv, Counted, [Next]_vars PROVE Counted'
    OBVIOUS
  <2>1. CASE UNCHANGED vars
    BY <2>1 DEF vars, Counted
  <2> QED BY <2>1, IterateCounted, ExitCounted DEF Next
<1> QED BY <1>1, InitCounted, Invariant, CountedIsExpected, PTL DEF Spec
=============================================================================
