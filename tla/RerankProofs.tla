---------------------------- MODULE RerankProofs ----------------------------
(***************************************************************************)
(* Theorems about Rerank, for any number of rows and whatever the LLM      *)
(* replies.                                                                *)
(***************************************************************************)
EXTENDS Rerank, Functions, FunctionTheorems, FiniteSetTheorems, SequenceTheorems,
        WellFoundedInduction, TLAPS

\* The rows of s are those of the search, each once.
Permutes(s) ==
  /\ s \in Seq(Row) /\ Len(s) = rows
  /\ \A r \in Row : \E i \in Row : s[i] = r
  /\ \A i, j \in Row : s[i] = s[j] => i = j

\* s is the signal order with at most its head rearranged.
OnlyHeadMoved(s) ==
  /\ \A j \in Row : Shown < j => s[j] = signal[j]
  /\ \A i \in Row : i <= Shown => \E k \in Row : k <= Shown /\ s[i] = signal[k]

SignalSorted ==
  /\ Permutes(signal)
  /\ \A i, j \in Row : i < j => Before(signal[i], signal[j])

OrderInjective == \A i, j \in DOMAIN order : order[i] = order[j] => i = j

Inv ==
  /\ TypeOK
  /\ pc # "blend" => SignalSorted
  /\ OrderInjective
  /\ pc \in {"blend", "ask"} => order = <<>> /\ at = 0
  /\ pc = "append" => \A k \in 0 .. Shown - 1 : k < at => k \in Seen
  /\ pc = "ask" => ranked = signal
  /\ Ranked => Permutes(ranked) /\ OnlyHeadMoved(ranked)
  /\ pc = "returned" => result = SubSeq(ranked, 1, Smaller(topk, Len(ranked)))

-------------------------------------------------------------------------------
LEMMA SmallerType ==
  ASSUME NEW a \in Int, NEW b \in Int
  PROVE  /\ Smaller(a, b) \in {a, b}
         /\ Smaller(a, b) <= a /\ Smaller(a, b) <= b
BY DEF Smaller

LEMMA RowsType == TypeOK => rows \in Nat /\ Shown \in 0 .. rows
<1> SUFFICES ASSUME TypeOK PROVE rows \in Nat /\ Shown \in 0 .. rows
  OBVIOUS
<1>1. rows \in 0 .. MaxRows
  BY DEF TypeOK
<1> QED BY <1>1, SizesAssumption DEF Shown, Smaller

(* A sequence of indices without repetition to which one more is appended. *)
LEMMA AppendToOrder ==
  ASSUME TypeOK, OrderInjective, NEW k \in 0 .. Shown - 1, k \notin Seen,
         NEW o, o = Append(order, k)
  PROVE  /\ o \in Seq(0 .. Shown - 1)
         /\ \A i, j \in DOMAIN o : o[i] = o[j] => i = j
         /\ \A l \in Seen \union {k} : \E i \in DOMAIN o : o[i] = l
<1> DEFINE n == Len(order)
<1>1. /\ n \in Nat /\ DOMAIN order = 1 .. n
      /\ o \in Seq(0 .. Shown - 1)
      /\ DOMAIN o = 1 .. n + 1
      /\ o[n + 1] = k /\ \A i \in 1 .. n : o[i] = order[i]
  <2>1. order \in Seq(0 .. Shown - 1)
    BY DEF TypeOK
  <2> QED BY <2>1, LenProperties, AppendProperties
<1>2. \A i \in 1 .. n : order[i] \in Seen
  BY <1>1 DEF Seen
<1> HIDE DEF n
<1>3. ASSUME NEW i \in 1 .. n + 1, NEW j \in 1 .. n + 1, o[i] = o[j] PROVE i = j
  <2>1. CASE i \in 1 .. n /\ j \in 1 .. n
    BY <1>1, <1>3, <2>1 DEF OrderInjective
  <2>2. CASE i = n + 1 /\ j \in 1 .. n
    BY <1>1, <1>2, <1>3, <2>2
  <2>3. CASE j = n + 1 /\ i \in 1 .. n
    BY <1>1, <1>2, <1>3, <2>3
  <2> QED BY <1>1, <2>1, <2>2, <2>3
<1>4. ASSUME NEW l \in Seen \union {k} PROVE \E i \in DOMAIN o : o[i] = l
  <2>1. CASE l = k
    BY <1>1, <2>1
  <2>2. CASE l \in Seen
    <3>1. PICK i \in 1 .. n : order[i] = l
      BY <1>1, <2>2 DEF Seen
    <3> QED BY <1>1, <3>1
  <2> QED BY <2>1, <2>2
<1> QED BY <1>1, <1>3, <1>4

(* When no index is missing, the order is one of Shown indices.            *)
LEMMA OrderLength ==
  ASSUME TypeOK, OrderInjective, \A k \in 0 .. Shown - 1 : k \in Seen
  PROVE  Len(order) = Shown
<1> DEFINE n == Len(order)
           T == 0 .. Shown - 1
<1>1. n \in Nat /\ order \in [1 .. n -> T] /\ DOMAIN order = 1 .. n
  BY LenProperties DEF TypeOK
<1>2. Shown \in Nat
  BY RowsType
<1>3. order \in Bijection(1 .. n, T)
  <2>1. \A t \in T : \E i \in 1 .. n : order[i] = t
    BY <1>1 DEF Seen
  <2> QED BY <1>1, <2>1 DEF OrderInjective, Bijection, Injection, Surjection, IsInjective
<1>4. IsFiniteSet(1 .. n) /\ Cardinality(1 .. n) = n
  BY <1>1, FS_Interval
<1>5. Cardinality(T) = Shown
  BY <1>2, FS_Interval
<1>6. Cardinality(T) = Cardinality(1 .. n)
  <2>1. ExistsBijection(1 .. n, T)
    BY <1>3 DEF ExistsBijection
  <2> HIDE DEF n, T
  <2> QED BY <1>4, <2>1, FS_Bijection
<1> QED BY <1>4, <1>5, <1>6

\* A step that asks nothing else leaves the types what they were.
LEMMA FrameType ==
  ASSUME TypeOK, UNCHANGED asked
  PROVE  /\ settings' \in [blend : BOOLEAN, llm : BOOLEAN] /\ rows' \in 0 .. MaxRows
         /\ score' \in [Row' -> Scores] /\ topk' \in TopKs
         /\ Row' = Row /\ Shown' = Shown
BY DEF TypeOK, asked, Row, Shown

-------------------------------------------------------------------------------
LEMMA InitInv == Init => Inv
<1> SUFFICES ASSUME Init PROVE Inv
  OBVIOUS
<1>1. \A S : <<>> \in Seq(S)
  BY EmptySeq
<1>2. NoReply \in Reply
  BY DEF NoReply, Reply
<1>3. TypeOK
  BY <1>1, <1>2 DEF Init, TypeOK
<1> QED BY <1>3 DEF Init, Inv, OrderInjective, Ranked

LEMMA BlendInv ==
  ASSUME Inv, Blend
  PROVE  Inv'
<1>1. /\ TypeOK /\ pc = "blend" /\ order = <<>> /\ at = 0
      /\ signal' \in Sorted /\ ranked' = signal'
      /\ pc' \in {"ask", "cut"}
      /\ UNCHANGED <<asked, reply, at, order, result>>
  BY DEF Inv, Blend
<1>2. rows \in Nat /\ Row' = Row /\ Shown' = Shown
  BY <1>1, RowsType DEF asked, Row, Shown
<1>3. /\ signal' \in [Row -> Row]
      /\ \A r \in Row : \E i \in Row : signal'[i] = r
      /\ \A i, j \in Row : i < j => Before(signal'[i], signal'[j])
  BY <1>1 DEF Sorted
<1>4. signal' \in Seq(Row) /\ Len(signal') = rows
  BY <1>2, <1>3 DEF Row
<1>5. \A a, b \in Row : Before(a, b) => a # b
  <2>1. \A a \in Row : score[a] \in Int /\ a \in Int
    <3>1. score \in [Row -> Scores]
      BY <1>1 DEF TypeOK
    <3>2. \A a \in Row : score[a] \in Scores
      BY <3>1
    <3>3. Scores \subseteq Int /\ Row \subseteq Int
      BY <1>2, SizesAssumption DEF Row
    <3> QED BY <3>2, <3>3
  <2> QED BY <2>1 DEF Before
<1>6. \A i, j \in Row : signal'[i] = signal'[j] => i = j
  <2> SUFFICES ASSUME NEW i \in Row, NEW j \in Row, signal'[i] = signal'[j], i # j
               PROVE  FALSE
    OBVIOUS
  <2>1. i < j \/ j < i
    BY DEF Row
  <2> QED BY <1>3, <1>5, <2>1
<1>7. SignalSorted'
  <2>1. Permutes(signal)'
    BY <1>1, <1>2, <1>3, <1>4, <1>6 DEF Permutes, asked
  <2>2. (\A i, j \in Row : i < j => Before(signal[i], signal[j]))'
    BY <1>1, <1>2, <1>3 DEF Before, asked
  <2> QED BY <1>2, <2>1, <2>2 DEF SignalSorted
<1>8. Permutes(ranked)' /\ OnlyHeadMoved(ranked)'
  BY <1>1, <1>2, <1>7 DEF SignalSorted, Permutes, OnlyHeadMoved
<1>9. TypeOK'
  BY <1>1, <1>2, <1>4 DEF TypeOK, asked, Reply, Lists, Item
<1> QED BY <1>1, <1>7, <1>8, <1>9 DEF Inv, Ranked, OrderInjective

\* What stays when only the reply and the loops over it move on.
LEMMA SignalStays ==
  ASSUME SignalSorted, UNCHANGED <<asked, signal>>
  PROVE  SignalSorted'
BY DEF SignalSorted, Permutes, Before, Row, asked

LEMMA RankedStays ==
  ASSUME UNCHANGED <<asked, signal, ranked>>
  PROVE  /\ Permutes(ranked) => Permutes(ranked)'
         /\ OnlyHeadMoved(ranked) => OnlyHeadMoved(ranked)'
BY DEF Permutes, OnlyHeadMoved, Row, Shown, asked

LEMMA SignalRanks ==
  ASSUME TypeOK, SignalSorted
  PROVE  Permutes(signal) /\ OnlyHeadMoved(signal)
BY DEF SignalSorted, OnlyHeadMoved

LEMMA AskInv ==
  ASSUME Inv, AskLLM
  PROVE  Inv'
<1>1. /\ TypeOK /\ SignalSorted /\ OrderInjective /\ pc = "ask" /\ ranked = signal
      /\ order = <<>> /\ reply' \in Reply
      /\ UNCHANGED <<asked, signal, at, order, ranked, result>>
  BY DEF Inv, AskLLM
<1>2. pc' \in {"take", "cut", "error"}
  <2>1. reply'.kind \in {"list", "unusable", "no choices"}
    BY <1>1 DEF Reply
  <2> QED BY <2>1 DEF AskLLM
<1>3. TypeOK'
  BY <1>1, <1>2 DEF TypeOK, asked, Row, Shown, Reply, Lists, Item
<1>4. Permutes(ranked)' /\ OnlyHeadMoved(ranked)'
  BY <1>1, SignalRanks, RankedStays
<1> QED BY <1>1, <1>2, <1>3, <1>4, SignalStays DEF Inv, Ranked, OrderInjective

LEMMA TakeInv ==
  ASSUME Inv, TakeItem
  PROVE  Inv'
<1> DEFINE item == reply.items[at + 1]
<1>1. /\ TypeOK /\ SignalSorted /\ OrderInjective /\ pc = "take"
      /\ order' = IF Takes(item) THEN Append(order, item.val) ELSE order
      /\ at' = at + 1
      /\ UNCHANGED <<asked, pc, signal, reply, ranked, result>>
  BY DEF Inv, TakeItem
<1>2. Takes(item) => item.val \in 0 .. Shown - 1 /\ item.val \notin Seen
  BY DEF Takes
<1> HIDE DEF item
<1>3. order' \in Seq(0 .. Shown - 1) /\ OrderInjective'
  <2>1. CASE Takes(item)
    BY <1>1, <1>2, <2>1, AppendToOrder DEF OrderInjective
  <2>2. CASE ~Takes(item)
    BY <1>1, <2>2 DEF OrderInjective, TypeOK
  <2> QED BY <2>1, <2>2
<1>4. TypeOK'
  BY <1>1, <1>3, FrameType DEF TypeOK
<1> QED BY <1>1, <1>3, <1>4, SignalStays DEF Inv, Ranked

LEMMA EndItemsInv ==
  ASSUME Inv, EndItems
  PROVE  Inv'
<1>1. /\ TypeOK /\ SignalSorted /\ OrderInjective
      /\ pc' = "append" /\ at' = 0
      /\ UNCHANGED <<asked, signal, reply, order, ranked, result>>
  BY DEF Inv, EndItems
<1>2. TypeOK'
  BY <1>1 DEF TypeOK, asked, Row, Shown, Reply, Lists, Item
<1>3. \A k \in (0 .. Shown - 1)' : ~(k < at')
  BY <1>1, RowsType DEF asked, Shown
<1> QED BY <1>1, <1>2, <1>3, SignalStays DEF Inv, Ranked, OrderInjective

LEMMA AppendInv ==
  ASSUME Inv, AppendDropped
  PROVE  Inv'
<1>1. /\ TypeOK /\ SignalSorted /\ OrderInjective
      /\ pc = "append" /\ at < Shown
      /\ \A k \in 0 .. Shown - 1 : k < at => k \in Seen
      /\ order' = IF at \in Seen THEN order ELSE Append(order, at)
      /\ at' = at + 1
      /\ UNCHANGED <<asked, pc, signal, reply, ranked, result>>
  BY DEF Inv, AppendDropped
<1>2. Shown \in Nat /\ at \in 0 .. Shown - 1 /\ Shown' = Shown
  BY <1>1, RowsType DEF TypeOK, asked, Shown
<1>3. /\ order' \in Seq(0 .. Shown - 1) /\ OrderInjective'
      /\ \A l \in Seen \union {at} : l \in Seen'
  <2>1. CASE at \notin Seen
    <3>1. order' = Append(order, at)
      BY <1>1, <2>1
    <3>2. /\ order' \in Seq(0 .. Shown - 1)
          /\ \A i, j \in DOMAIN order' : order'[i] = order'[j] => i = j
          /\ \A l \in Seen \union {at} : \E i \in DOMAIN order' : order'[i] = l
      BY <1>1, <1>2, <2>1, <3>1, AppendToOrder
    <3> QED BY <3>2 DEF OrderInjective, Seen
  <2>2. CASE at \in Seen
    BY <1>1, <2>2 DEF OrderInjective, TypeOK, Seen
  <2> QED BY <2>1, <2>2
<1>4. TypeOK'
  BY <1>1, <1>2, <1>3, FrameType DEF TypeOK
<1>5. \A k \in 0 .. Shown - 1 : k < at' => k \in Seen'
  <2> SUFFICES ASSUME NEW k \in 0 .. Shown - 1, k < at + 1 PROVE k \in Seen'
    BY <1>1
  <2>1. k < at \/ k = at
    BY <1>2
  <2> QED BY <1>1, <1>3, <2>1
<1> QED BY <1>1, <1>2, <1>3, <1>4, <1>5, SignalStays DEF Inv, Ranked

(* The head in the order collected, and the tail as it was.                *)
LEMMA Reordered ==
  ASSUME Inv, Reorder
  PROVE  /\ DOMAIN order = 1 .. Shown /\ \A k \in 0 .. Shown - 1 : k \in Seen
         /\ \A i \in 1 .. Shown : order[i] \in 0 .. Shown - 1
         /\ ranked' \in Seq(Row) /\ Len(ranked') = rows
         /\ \A i \in 1 .. Shown : ranked'[i] = signal[order[i] + 1]
         /\ \A i \in Row : Shown < i => ranked'[i] = signal[i]
<1> DEFINE head == [i \in DOMAIN order |-> signal[order[i] + 1]]
           tail == SubSeq(signal, Shown + 1, rows)
<1>1. /\ TypeOK /\ SignalSorted /\ OrderInjective
      /\ pc = "append" /\ at = Shown /\ pc' = "cut"
      /\ \A k \in 0 .. Shown - 1 : k < at => k \in Seen
      /\ ranked' = IF order = <<>> THEN signal ELSE head \o tail
      /\ UNCHANGED <<asked, signal, reply, at, order, result>>
  BY DEF Inv, Reorder
<1>2. /\ rows \in Nat /\ Shown \in 0 .. rows /\ Row' = Row /\ Shown' = Shown
      /\ Row = 1 .. rows
  BY <1>1, RowsType DEF asked, Row, Shown
<1>3. \A k \in 0 .. Shown - 1 : k \in Seen
  BY <1>1, <1>2
<1>4. Len(order) = Shown
  BY <1>1, <1>3, OrderLength
<1>5. DOMAIN order = 1 .. Shown /\ \A i \in 1 .. Shown : order[i] \in 0 .. Shown - 1
  BY <1>1, <1>4, LenProperties DEF TypeOK
<1>6. /\ signal \in Seq(Row) /\ Len(signal) = rows /\ DOMAIN signal = Row
      /\ \A i \in Row : signal[i] \in Row
      /\ \A r \in Row : \E i \in Row : signal[i] = r
      /\ \A i, j \in Row : signal[i] = signal[j] => i = j
  <2>1. Permutes(signal)
    BY <1>1 DEF SignalSorted
  <2>2. signal \in Seq(Row) /\ Len(signal) = rows
    BY <2>1 DEF Permutes
  <2>3. DOMAIN signal = Row /\ signal \in [Row -> Row]
    BY <1>2, <2>2, LenProperties
  <2> QED BY <2>1, <2>2, <2>3 DEF Permutes
<1>7. \A i \in 1 .. Shown : head[i] = signal[order[i] + 1] /\ head[i] \in Row
  <2>1. \A i \in 1 .. Shown : order[i] + 1 \in Row
    BY <1>2, <1>5
  <2> QED BY <1>5, <1>6, <2>1
<1>8. head \in Seq(Row) /\ Len(head) = Shown
  <2>1. head \in [1 .. Shown -> Row]
    BY <1>5, <1>7
  <2> HIDE DEF head
  <2> QED BY <1>2, <2>1
<1>9. /\ tail \in Seq(Row) /\ Len(tail) = rows - Shown
      /\ \A i \in 1 .. rows - Shown : tail[i] = signal[Shown + i]
  <2>1. \A i \in Shown + 1 .. rows : signal[i] \in Row
    BY <1>2, <1>6
  <2>2. /\ tail \in Seq(Row)
        /\ Len(tail) = IF Shown + 1 <= rows THEN rows - (Shown + 1) + 1 ELSE 0
        /\ \A i \in 1 .. rows - (Shown + 1) + 1 : tail[i] = signal[Shown + 1 + i - 1]
    <3>1. Shown + 1 \in Int /\ rows \in Int
      BY <1>2
    <3> QED BY <2>1, <3>1, SubSeqProperties
  <2> HIDE DEF tail
  <2> QED BY <1>2, <2>2
<1> HIDE DEF head, tail
<1>10. /\ ranked' \in Seq(Row) /\ Len(ranked') = rows
       /\ \A i \in 1 .. Shown : ranked'[i] = signal[order[i] + 1]
       /\ \A i \in Row : Shown < i => ranked'[i] = signal[i]
  <2>1. CASE order = <<>>
    <3>1. Shown = 0
      BY <1>4, <2>1
    <3> QED BY <1>1, <1>6, <2>1, <3>1
  <2>2. CASE order # <<>>
    <3>1. /\ ranked' \in Seq(Row) /\ Len(ranked') = Shown + (rows - Shown)
          /\ \A i \in 1 .. Shown + (rows - Shown) :
               ranked'[i] = IF i <= Shown THEN head[i] ELSE tail[i - Shown]
      <4>1. ranked' = head \o tail
        BY <1>1, <2>2
      <4> QED BY <1>8, <1>9, <4>1, ConcatProperties
    <3>2. \A i \in Row : Shown < i => ranked'[i] = signal[i]
      <4> SUFFICES ASSUME NEW i \in Row, Shown < i PROVE ranked'[i] = signal[i]
        OBVIOUS
      <4>1. ranked'[i] = tail[i - Shown] /\ i - Shown \in 1 .. rows - Shown
        BY <1>2, <3>1
      <4>2. tail[i - Shown] = signal[Shown + (i - Shown)]
        BY <1>9, <4>1
      <4>3. Shown + (i - Shown) = i
        BY <1>2
      <4> QED BY <4>1, <4>2, <4>3
    <3> QED BY <1>2, <1>7, <3>1, <3>2
  <2> QED BY <2>1, <2>2
<1> QED BY <1>3, <1>5, <1>10

LEMMA ReorderInv ==
  ASSUME Inv, Reorder
  PROVE  Inv'
<1>1. /\ TypeOK /\ SignalSorted /\ OrderInjective
      /\ pc = "append" /\ at = Shown /\ pc' = "cut"
      /\ UNCHANGED <<asked, signal, reply, at, order, result>>
  BY DEF Inv, Reorder
<1>2. /\ rows \in Nat /\ Shown \in 0 .. rows /\ Row' = Row /\ Shown' = Shown
      /\ Row = 1 .. rows
  BY <1>1, RowsType DEF asked, Row, Shown
<1>3. \A k \in 0 .. Shown - 1 : k \in Seen
  BY Reordered
<1>4. DOMAIN order = 1 .. Shown /\ \A i \in 1 .. Shown : order[i] \in 0 .. Shown - 1
  BY Reordered
<1>5. /\ \A r \in Row : \E i \in Row : signal[i] = r
      /\ \A i, j \in Row : signal[i] = signal[j] => i = j
  BY <1>1 DEF SignalSorted, Permutes
<1>6. /\ ranked' \in Seq(Row) /\ Len(ranked') = rows
      /\ \A i \in 1 .. Shown : ranked'[i] = signal[order[i] + 1]
      /\ \A i \in Row : Shown < i => ranked'[i] = signal[i]
  BY Reordered
<1>7. \A r \in Row : \E i \in Row : ranked'[i] = r
  <2> SUFFICES ASSUME NEW r \in Row PROVE \E i \in Row : ranked'[i] = r
    OBVIOUS
  <2>1. PICK k \in Row : signal[k] = r
    BY <1>5
  <2>2. CASE Shown < k
    BY <1>6, <2>1, <2>2
  <2>3. CASE k <= Shown
    <3>1. k - 1 \in 0 .. Shown - 1
      BY <1>2, <2>3
    <3>2. PICK i \in 1 .. Shown : order[i] = k - 1
      BY <1>3, <1>4, <3>1 DEF Seen
    <3>3. order[i] + 1 = k /\ i \in Row
      BY <1>2, <3>2
    <3> QED BY <1>6, <2>1, <3>3
  <2> QED BY <1>2, <2>2, <2>3
<1>8. ASSUME NEW i \in Row, NEW j \in Row, ranked'[i] = ranked'[j] PROVE i = j
  <2> DEFINE from(x) == IF x <= Shown THEN order[x] + 1 ELSE x
  <2>1. ASSUME NEW x \in Row
        PROVE  /\ ranked'[x] = signal[from(x)] /\ from(x) \in Row
               /\ from(x) <= Shown <=> x <= Shown
    <3>1. CASE x <= Shown
      <4>1. x \in 1 .. Shown
        BY <1>2, <3>1
      <4>2. order[x] \in 0 .. Shown - 1
        BY <1>4, <4>1
      <4>3. from(x) = order[x] + 1
        BY <3>1
      <4>4. from(x) \in Row /\ from(x) <= Shown
        BY <1>2, <4>2, <4>3
      <4> QED BY <1>6, <3>1, <4>1, <4>3, <4>4
    <3>2. CASE ~(x <= Shown)
      <4>1. from(x) = x /\ Shown < x
        BY <1>2, <3>2
      <4> QED BY <1>6, <3>2, <4>1
    <3> QED BY <3>1, <3>2
  <2>2. from(i) = from(j)
    <3>1. signal[from(i)] = signal[from(j)] /\ from(i) \in Row /\ from(j) \in Row
      BY <1>8, <2>1
    <3> HIDE DEF from
    <3> QED BY <1>5, <3>1
  <2>3. CASE i <= Shown
    <3>1. j <= Shown
      BY <2>1, <2>2, <2>3
    <3>2. i \in 1 .. Shown /\ j \in 1 .. Shown
      BY <1>2, <2>3, <3>1
    <3>3. order[i] = order[j]
      BY <1>4, <2>2, <3>2
    <3> QED BY <1>1, <1>4, <3>2, <3>3 DEF OrderInjective
  <2>4. CASE ~(i <= Shown)
    <3>1. ~(j <= Shown)
      BY <2>1, <2>2, <2>4
    <3> QED BY <2>2, <2>4, <3>1
  <2> QED BY <2>3, <2>4
<1>9. Permutes(ranked)'
  BY <1>1, <1>2, <1>6, <1>7, <1>8 DEF Permutes, asked
<1>10. OnlyHeadMoved(ranked)'
  <2>1. ASSUME NEW i \in Row, i <= Shown
        PROVE  \E k \in Row : k <= Shown /\ ranked'[i] = signal[k]
    <3>1. order[i] + 1 \in Row /\ order[i] + 1 <= Shown /\ i \in 1 .. Shown
      BY <1>2, <1>4, <2>1
    <3> QED BY <1>6, <3>1
  <2>2. signal' = signal /\ Row' = Row /\ Shown' = Shown
    BY <1>1, <1>2
  <2> QED BY <1>6, <2>1, <2>2 DEF OnlyHeadMoved
<1>11. TypeOK'
  BY <1>1, <1>2, <1>6 DEF TypeOK, asked, Reply, Lists, Item
<1> QED BY <1>1, <1>9, <1>10, <1>11, SignalStays DEF Inv, OrderInjective

LEMMA CutInv ==
  ASSUME Inv, Cut
  PROVE  Inv'
<1>1. /\ TypeOK /\ SignalSorted /\ OrderInjective /\ pc = "cut" /\ pc' = "returned"
      /\ Permutes(ranked) /\ OnlyHeadMoved(ranked)
      /\ result' = SubSeq(ranked, 1, Smaller(topk, Len(ranked)))
      /\ UNCHANGED <<asked, signal, reply, at, order, ranked>>
  BY DEF Inv, Cut, Ranked
<1>2. result' \in Seq(Row)
  <2>1. rows \in Nat /\ topk \in Nat /\ Len(ranked) = rows
    BY <1>1, RowsType, SizesAssumption DEF TypeOK, Permutes
  <2>2. Smaller(topk, Len(ranked)) \in Int /\ Smaller(topk, Len(ranked)) <= Len(ranked)
    BY <2>1, SmallerType
  <2>3. \A i \in 1 .. Smaller(topk, Len(ranked)) : ranked[i] \in Row
    BY <1>1, <2>1, <2>2, ElementOfSeq DEF Permutes
  <2> QED BY <1>1, <2>2, <2>3, SubSeqProperties
<1>3. TypeOK'
  BY <1>1, <1>2 DEF TypeOK, asked, Row, Shown, Reply, Lists, Item
<1>4. result' = SubSeq(ranked, 1, Smaller(topk, Len(ranked)))'
  BY <1>1 DEF asked
<1> QED BY <1>1, <1>3, <1>4, SignalStays, RankedStays DEF Inv, Ranked, OrderInjective

LEMMA StutterInv ==
  ASSUME Inv, UNCHANGED vars
  PROVE  Inv'
<1>1. UNCHANGED <<asked, pc, signal, reply, at, order, ranked, result>>
  BY DEF vars, asked
<1>2. TypeOK'
  BY <1>1, FrameType DEF Inv, TypeOK
<1>3. Shown' = Shown /\ Seen' = Seen
  BY <1>1 DEF Shown, Seen, asked
<1> QED BY <1>1, <1>2, <1>3, SignalStays, RankedStays DEF Inv, Ranked, OrderInjective, asked

THEOREM SpecInv == Spec => []Inv
<1>1. Inv /\ [Next]_vars => Inv'
  BY BlendInv, AskInv, TakeInv, EndItemsInv, AppendInv, ReorderInv, CutInv, StutterInv
     DEF Next
<1> QED BY <1>1, InitInv, PTL DEF Spec

-------------------------------------------------------------------------------
(* Every variable keeps its type: the order holds indices of the head, the *)
(* rankings rows of the search.                                            *)
THEOREM TypeCorrect == Spec => []TypeOK
<1>1. Inv => TypeOK
  BY DEF Inv
<1> QED BY <1>1, SpecInv, PTL

(* Whatever the LLM replies, rerank() ranks every row and ranks it once,   *)
(* and returns as many as were asked for and found, none twice.            *)
THEOREM RanksEveryRowOnce == Spec => []NothingLostOrDoubled
<1>1. Inv => NothingLostOrDoubled
  <2> SUFFICES ASSUME Inv, Ranked PROVE NothingLostOrDoubled
    BY DEF NothingLostOrDoubled, Ranked
  <2>1. /\ rows \in Nat /\ topk \in Nat /\ Row = 1 .. rows
        /\ ranked \in Seq(Row) /\ Len(ranked) = rows
        /\ \A r \in Row : \E i \in Row : ranked[i] = r
        /\ \A i, j \in Row : ranked[i] = ranked[j] => i = j
    BY RowsType, SizesAssumption DEF Inv, TypeOK, Permutes, Row
  <2>2. ASSUME pc = "returned"
        PROVE  /\ Len(result) = Smaller(topk, rows)
               /\ \A i, j \in DOMAIN result : result[i] = result[j] => i = j
    <3> DEFINE n == Smaller(topk, rows)
    <3>1. n \in Nat /\ n <= rows
      BY <2>1, SmallerType
    <3>2. result = SubSeq(ranked, 1, n)
      BY <2>1, <2>2 DEF Inv
    <3> HIDE DEF n
    <3>3. /\ result \in Seq(Row)
          /\ Len(result) = IF 1 <= n THEN n - 1 + 1 ELSE 0
          /\ \A i \in 1 .. n - 1 + 1 : result[i] = ranked[1 + i - 1]
      <4>1. \A i \in 1 .. n : ranked[i] \in Row
        BY <2>1, <3>1, ElementOfSeq
      <4> QED BY <3>1, <3>2, <4>1, SubSeqProperties
    <3>4. Len(result) = n /\ DOMAIN result = 1 .. n
          /\ \A i \in 1 .. n : result[i] = ranked[i] /\ i \in Row
      <4>1. Len(result) = n
        BY <3>1, <3>3
      <4>2. DOMAIN result = 1 .. n
        BY <3>3, <4>1, LenProperties
      <4>3. \A i \in 1 .. n : i \in Row /\ i \in 1 .. n - 1 + 1 /\ 1 + i - 1 = i
        BY <2>1, <3>1
      <4>4. \A i \in 1 .. n : result[i] = ranked[i]
        BY <3>3, <4>3
      <4> QED BY <4>1, <4>2, <4>3, <4>4
    <3> QED BY <2>1, <3>4 DEF n
  <2> QED BY <2>1, <2>2 DEF NothingLostOrDoubled
<1> QED BY <1>1, SpecInv, PTL

(* The LLM moves only the rows it was shown: past them every row stands    *)
(* behind all that its signals put before it.                              *)
THEOREM TailIsNotMoved == Spec => []TailKeepsItsPlace
<1>1. Inv => TailKeepsItsPlace
  <2> SUFFICES ASSUME Inv, Ranked, NEW i \in DOMAIN ranked, NEW j \in DOMAIN ranked,
                      i < j, Shown < j
               PROVE  Before(ranked[i], ranked[j])
    BY DEF TailKeepsItsPlace
  <2>1. /\ SignalSorted /\ Permutes(ranked) /\ OnlyHeadMoved(ranked)
        /\ rows \in Nat /\ Shown \in 0 .. rows
    BY RowsType DEF Inv, Ranked
  <2>2. i \in Row /\ j \in Row /\ Row = 1 .. rows
    BY <2>1, LenProperties DEF Permutes, Row
  <2>3. ranked[j] = signal[j]
    BY <2>1, <2>2 DEF OnlyHeadMoved
  <2>4. CASE Shown < i
    BY <2>1, <2>2, <2>3, <2>4 DEF OnlyHeadMoved, SignalSorted
  <2>5. CASE i <= Shown
    <3>1. PICK k \in Row : k <= Shown /\ ranked[i] = signal[k]
      BY <2>1, <2>2, <2>5 DEF OnlyHeadMoved
    <3>2. k < j
      BY <2>1, <2>2, <3>1
    <3> QED BY <2>1, <2>2, <2>3, <3>1, <3>2 DEF SignalSorted
  <2> QED BY <2>1, <2>2, <2>4, <2>5
<1> QED BY <1>1, SpecInv, PTL

-------------------------------------------------------------------------------
(* The order of the list *)

Index == 0 .. Shown - 1

(* How far the loops have come, on the scale of Mention.                   *)
Reach == IF pc = "append" THEN Len(reply.items) + at ELSE at

(* The indices collected are those that Reach has come to, in that order.  *)
Collected ==
  /\ \A k \in Index : k \in Seen <=> Mention(k) <= Reach
  /\ \A x, y \in DOMAIN order : x < y => Mention(order[x]) < Mention(order[y])

ListInv ==
  /\ pc \in {"blend", "ask"} => reply = NoReply
  /\ pc \in {"take", "append"} => Collected
  /\ ListIsObeyed

LEMMA ReplyItems ==
  ASSUME TypeOK
  PROVE  Len(reply.items) \in Nat /\ DOMAIN reply.items = 1 .. Len(reply.items)
<1>1. reply.items = <<>> \/ reply.items \in Lists
  BY DEF TypeOK, Reply
<1>2. CASE reply.items \in Lists
  BY <1>2 DEF Lists
<1> QED BY <1>1, <1>2

(* A set of positions has a first.                                         *)
LEMMA FirstPosition ==
  ASSUME NEW T \in SUBSET Nat, T # {}
  PROVE  \E i \in T : \A j \in T : ~(j < i)
<1>1. \E i \in T : \A j \in T : ~(<<j, i>> \in OpToRel(<, Nat))
  BY NatLessThanWellFounded, WFMin
<1> QED BY <1>1 DEF OpToRel

(* An index is mentioned at its first place in the list; those that are    *)
(* not come after it, one by one.                                          *)
LEMMA MentionIs ==
  ASSUME TypeOK, NEW k \in Index
  PROVE  LET n == Len(reply.items)
             m == Mention(k)
         IN  \/ /\ m \in 1 .. n /\ Names(m, k)
                /\ \A j \in 1 .. n : j < m => ~Names(j, k)
             \/ m = n + 1 + k /\ \A j \in 1 .. n : ~Names(j, k)
<1> DEFINE n == Len(reply.items)
           T == {i \in DOMAIN reply.items : Names(i, k)}
           m == Mention(k)
<1>1. n \in Nat /\ DOMAIN reply.items = 1 .. n
  BY ReplyItems
<1> HIDE DEF n
<1>2. CASE T = {}
  BY <1>1, <1>2 DEF Mention, n
<1>3. CASE T # {}
  <2>1. T \in SUBSET Nat
    BY <1>1
  <2>2. PICK i \in T : \A j \in T : ~(j < i)
    BY <1>3, <2>1, FirstPosition
  <2>3. Names(i, k) /\ i \in 1 .. n /\ \A j \in 1 .. i - 1 : ~Names(j, k)
    BY <1>1, <2>2
  <2>4. m = CHOOSE x \in DOMAIN reply.items :
              Names(x, k) /\ \A j \in 1 .. x - 1 : ~Names(j, k)
    BY <2>2 DEF Mention
  <2>5. m \in 1 .. n /\ Names(m, k) /\ \A j \in 1 .. m - 1 : ~Names(j, k)
    <3> HIDE DEF m
    <3> QED BY <1>1, <2>3, <2>4
  <2>6. \A j \in 1 .. n : j < m => j \in 1 .. m - 1
    <3> HIDE DEF m
    <3> QED BY <1>1, <2>5
  <2> QED BY <2>5, <2>6 DEF n
<1> QED BY <1>2, <1>3

LEMMA MentionType ==
  ASSUME TypeOK, NEW k \in Index
  PROVE  Mention(k) \in Nat /\ k \in Nat /\ Mention(k) > 0
<1>1. k \in Nat
  BY RowsType DEF Index
<1>2. Len(reply.items) \in Nat
  BY ReplyItems
<1> QED BY <1>1, <1>2, MentionIs

LEMMA Mentions == TypeOK => \A k \in Index : Mention(k) > 0 /\ Mention(k) \in Nat
BY MentionType

(* Nothing of the list, nor of what is shown, changes after the reply.     *)
LEMMA MentionStays ==
  ASSUME UNCHANGED <<asked, reply>>
  PROVE  Index' = Index /\ \A k : Mention(k)' = Mention(k)
BY DEF asked, Index, Shown, Mention, Names

(* When there is no list, the order of the signals is what it asks for.    *)
LEMMA Unasked ==
  ASSUME Inv, reply.items = <<>>, ranked = signal, Ranked
  PROVE  ListIsObeyed
<1>1. \A k \in Index : Mention(k) = 1 + k
  BY DEF Mention
<1>2. /\ rows \in Nat /\ Shown \in 0 .. rows /\ DOMAIN ranked = 1 .. rows
  BY RowsType, LenProperties DEF Inv, Permutes
<1>3. ASSUME NEW k \in 0 .. Shown - 1, NEW l \in 0 .. Shown - 1, Mention(k) < Mention(l)
      PROVE  \E i, j \in DOMAIN ranked :
               i < j /\ ranked[i] = signal[k + 1] /\ ranked[j] = signal[l + 1]
  <2>1. k < l
    BY <1>1, <1>2, <1>3 DEF Index
  <2>2. k + 1 \in DOMAIN ranked /\ l + 1 \in DOMAIN ranked /\ k + 1 < l + 1
    BY <1>2, <2>1
  <2> QED BY <2>2
<1> QED BY <1>3 DEF ListIsObeyed

LEMMA ListInit == Init => ListInv
BY DEF Init, ListInv, ListIsObeyed, Ranked

LEMMA ListBlend ==
  ASSUME Inv, Inv', ListInv, Blend
  PROVE  ListInv'
<1>1. /\ reply' = NoReply /\ reply = NoReply /\ ranked' = signal' /\ pc' \in {"ask", "cut"}
  BY DEF Blend, ListInv
<1>2. CASE pc' = "ask"
  BY <1>1, <1>2 DEF ListInv, ListIsObeyed, Ranked
<1>3. CASE pc' = "cut"
  <2>1. (reply.items = <<>>)' /\ (ranked = signal)' /\ Ranked'
    BY <1>1, <1>3 DEF NoReply, Ranked
  <2>2. ListIsObeyed'
    BY <2>1, Unasked, PTL
  <2> QED BY <1>3, <2>2 DEF ListInv
<1> QED BY <1>1, <1>2, <1>3

LEMMA ListAsk ==
  ASSUME Inv, Inv', ListInv, AskLLM
  PROVE  ListInv'
<1>1. /\ pc = "ask" /\ reply' \in Reply /\ ranked' = ranked /\ signal' = signal
      /\ ranked = signal /\ at' = 0 /\ order' = <<>> /\ order = <<>>
  BY DEF Inv, AskLLM
<1>2. reply'.kind \in {"list", "unusable", "no choices"}
  BY <1>1 DEF Reply
<1>3. CASE reply'.kind = "list"
  <2>1. pc' = "take"
    BY <1>3 DEF AskLLM
  <2>2. Collected'
    <3>1. TypeOK'
      BY DEF Inv
    <3>2. (\A k \in Index : Mention(k) > 0 /\ Mention(k) \in Nat)'
      BY <3>1, Mentions, PTL
    <3>3. Seen' = {} /\ Reach' = 0 /\ DOMAIN order' = {}
      BY <1>1, <2>1 DEF Seen, Reach
    <3> QED BY <3>2, <3>3 DEF Collected
  <2> QED BY <2>1, <2>2 DEF ListInv, ListIsObeyed, Ranked
<1>4. CASE reply'.kind = "unusable"
  <2>1. pc' = "cut" /\ reply'.items = <<>>
    BY <1>1, <1>4 DEF AskLLM, Reply
  <2>2. (reply.items = <<>>)' /\ (ranked = signal)' /\ Ranked'
    BY <1>1, <2>1 DEF Ranked
  <2>3. ListIsObeyed'
    BY <2>2, Unasked, PTL
  <2> QED BY <2>1, <2>3 DEF ListInv
<1>5. CASE reply'.kind = "no choices"
  BY <1>5 DEF AskLLM, ListInv, ListIsObeyed, Ranked
<1> QED BY <1>2, <1>3, <1>4, <1>5

(* An index is appended that comes next.                                   *)
LEMMA NextMention ==
  ASSUME TypeOK, Collected, NEW k \in Index, k \notin Seen, order' = Append(order, k),
         UNCHANGED <<asked, reply>>,
         \A l \in Index : Mention(l) <= Reach' <=> (Mention(l) <= Reach \/ l = k)
  PROVE  Collected'
<1> DEFINE n == Len(order)
<1>1. /\ n \in Nat /\ DOMAIN order = 1 .. n /\ DOMAIN order' = 1 .. n + 1
      /\ order'[n + 1] = k /\ \A i \in 1 .. n : order'[i] = order[i] /\ order[i] \in Index
  <2>1. order \in Seq(Index) /\ k \in Index
    BY DEF TypeOK, Index
  <2>2. \A i \in 1 .. n : order[i] \in Index
    BY <2>1, ElementOfSeq
  <2> QED BY <2>1, <2>2, LenProperties, AppendProperties
<1>2. Index' = Index /\ \A l : Mention(l)' = Mention(l)
  BY MentionStays
<1> HIDE DEF n
<1>3. \A l : l \in Seen' <=> l \in Seen \/ l = k
  <2>1. Seen = {order[i] : i \in 1 .. n} /\ Seen' = {order'[i] : i \in 1 .. n + 1}
    BY <1>1 DEF Seen
  <2>2. \A i : i \in 1 .. n + 1 <=> i \in 1 .. n \/ i = n + 1
    BY <1>1
  <2> QED BY <1>1, <2>1, <2>2
<1>4. ASSUME NEW x \in 1 .. n + 1, NEW y \in 1 .. n + 1, x < y
      PROVE  Mention(order'[x]) < Mention(order'[y])
  <2>1. x \in 1 .. n
    BY <1>1, <1>4
  <2>2. CASE y \in 1 .. n
    BY <1>1, <1>4, <2>1, <2>2 DEF Collected
  <2>3. CASE y \notin 1 .. n
    <3>1. y = n + 1
      BY <1>1, <2>3
    <3>2. order[x] \in Seen /\ order[x] \in Index /\ order'[x] = order[x]
      BY <1>1, <2>1 DEF Seen
    <3>3. Mention(order[x]) <= Reach /\ ~(Mention(k) <= Reach)
      BY <3>2 DEF Collected
    <3>4. Mention(order[x]) \in Nat /\ Mention(k) \in Nat /\ Reach \in Int
      BY <3>2, MentionType, ReplyItems DEF Reach, TypeOK
    <3> QED BY <1>1, <3>1, <3>2, <3>3, <3>4
  <2> QED BY <2>2, <2>3
<1>5. \A l \in Index : l \in Seen' <=> Mention(l) <= Reach'
  BY <1>3 DEF Collected
<1> QED BY <1>1, <1>2, <1>4, <1>5 DEF Collected

(* Or none is, there being none to append.                                 *)
LEMMA SameMention ==
  ASSUME Collected, order' = order, UNCHANGED <<asked, reply>>,
         \A l \in Index : Mention(l) <= Reach' <=> Mention(l) <= Reach
  PROVE  Collected'
<1>1. Index' = Index /\ \A l : Mention(l)' = Mention(l)
  BY MentionStays
<1> QED BY <1>1 DEF Collected, Seen

LEMMA ListTake ==
  ASSUME Inv, ListInv, TakeItem
  PROVE  ListInv'
<1> DEFINE item == reply.items[at + 1]
           n == Len(reply.items)
<1>1. /\ TypeOK /\ Collected /\ pc = "take" /\ pc' = pc /\ at < n /\ at' = at + 1
      /\ order' = IF Takes(item) THEN Append(order, item.val) ELSE order
      /\ UNCHANGED <<asked, reply>>
  BY DEF Inv, ListInv, TakeItem
<1>2. n \in Nat /\ at \in Nat /\ at + 1 \in 1 .. n
  BY <1>1, ReplyItems DEF TypeOK
<1>3. Reach = at /\ Reach' = at + 1
  BY <1>1 DEF Reach
<1>4. ASSUME NEW l \in Index
      PROVE  Mention(l) <= at + 1 <=> Mention(l) <= at \/ (Takes(item) /\ l = item.val)
  <2>1. Mention(l) \in Nat
    BY <1>1, MentionType
  <2>2. ASSUME Mention(l) = at + 1 PROVE Takes(item) /\ l = item.val
    <3>1. Names(at + 1, l)
      BY <1>1, <1>2, <2>2, MentionIs, RowsType DEF Index
    <3>2. l \notin Seen
      BY <1>1, <1>2, <1>3, <2>2 DEF Collected
    <3> QED BY <3>1, <3>2 DEF Names, Takes, Index
  <2>3. ASSUME Takes(item), l = item.val PROVE Mention(l) <= at + 1
    <3>1. Names(at + 1, l)
      BY <2>3 DEF Names, Takes
    <3> QED BY <1>1, <1>2, <2>1, <3>1, MentionIs
  <2> QED BY <1>2, <2>1, <2>2, <2>3
<1>5. Collected'
  <2>1. CASE Takes(item)
    <3>1. item.val \in Index /\ item.val \notin Seen
      BY <2>1 DEF Takes, Index
    <3> HIDE DEF item
    <3> QED BY <1>1, <1>3, <1>4, <2>1, <3>1, NextMention
  <2>2. CASE ~Takes(item)
    <3> HIDE DEF item
    <3> QED BY <1>1, <1>3, <1>4, <2>2, SameMention
  <2> QED BY <2>1, <2>2
<1> QED BY <1>1, <1>5 DEF ListInv, ListIsObeyed, Ranked

LEMMA ListEnd ==
  ASSUME Inv, ListInv, EndItems
  PROVE  ListInv'
<1>1. /\ TypeOK /\ Collected /\ pc = "take" /\ pc' = "append" /\ at = Len(reply.items)
      /\ at' = 0 /\ order' = order /\ UNCHANGED <<asked, reply>>
  BY DEF Inv, ListInv, EndItems
<1>2. Reach' = Reach
  BY <1>1, ReplyItems DEF Reach
<1>3. Collected'
  BY <1>1, <1>2, SameMention
<1> QED BY <1>1, <1>3 DEF ListInv, ListIsObeyed, Ranked

LEMMA ListAppend ==
  ASSUME Inv, ListInv, AppendDropped
  PROVE  ListInv'
<1> DEFINE n == Len(reply.items)
<1>1. /\ TypeOK /\ Collected /\ pc = "append" /\ pc' = pc /\ at < Shown /\ at' = at + 1
      /\ order' = IF at \in Seen THEN order ELSE Append(order, at)
      /\ UNCHANGED <<asked, reply>>
  BY DEF Inv, ListInv, AppendDropped
<1>2. n \in Nat /\ at \in Nat /\ at \in Index
  BY <1>1, ReplyItems, RowsType DEF TypeOK, Index
<1>3. Reach = n + at /\ Reach' = n + (at + 1)
  BY <1>1 DEF Reach
<1>4. ASSUME NEW l \in Index
      PROVE  Mention(l) <= n + (at + 1)
               <=> Mention(l) <= n + at \/ (at \notin Seen /\ l = at)
  <2>1. /\ Mention(l) \in Nat /\ l \in Nat
        /\ Mention(l) \in 1 .. n \/ Mention(l) = n + 1 + l
    BY <1>1, MentionType, MentionIs
  <2> HIDE DEF n
  <2>2. ASSUME Mention(l) = n + (at + 1) PROVE at \notin Seen /\ l = at
    <3>1. l = at
      BY <1>2, <2>1, <2>2
    <3>2. ~(Mention(l) <= Reach)
      BY <1>2, <1>3, <2>2
    <3> QED BY <1>1, <3>1, <3>2 DEF Collected
  <2>3. ASSUME at \notin Seen, l = at PROVE Mention(l) <= n + (at + 1)
    BY <1>2, <2>1, <2>3
  <2>4. Mention(l) <= n + at => Mention(l) <= n + (at + 1)
    BY <1>2, <2>1
  <2>5. Mention(l) <= n + (at + 1) => Mention(l) <= n + at \/ Mention(l) = n + (at + 1)
    BY <1>2, <2>1
  <2> QED BY <2>2, <2>3, <2>4, <2>5
<1>5. Collected'
  <2> HIDE DEF n
  <2>1. CASE at \notin Seen
    BY <1>1, <1>2, <1>3, <1>4, <2>1, NextMention
  <2>2. CASE at \in Seen
    BY <1>1, <1>3, <1>4, <2>2, SameMention
  <2> QED BY <2>1, <2>2
<1> QED BY <1>1, <1>5 DEF ListInv, ListIsObeyed, Ranked

LEMMA ListReorder ==
  ASSUME Inv, ListInv, Reorder
  PROVE  ListInv'
<1>1. /\ TypeOK /\ Collected /\ pc = "append" /\ pc' = "cut"
      /\ UNCHANGED <<asked, reply, signal>>
  BY DEF Inv, ListInv, Reorder
<1>2. /\ DOMAIN order = 1 .. Shown /\ \A k \in Index : k \in Seen
      /\ Len(ranked') = rows /\ DOMAIN ranked' = 1 .. rows
      /\ \A i \in 1 .. Shown : ranked'[i] = signal[order[i] + 1]
  BY Reordered, LenProperties DEF Index
<1>3. Index' = Index /\ \A l : Mention(l)' = Mention(l)
  BY <1>1, MentionStays
<1>4. ASSUME NEW k \in Index, NEW l \in Index, Mention(k) < Mention(l)
      PROVE  \E i, j \in DOMAIN ranked' :
               i < j /\ ranked'[i] = signal[k + 1] /\ ranked'[j] = signal[l + 1]
  <2>1. PICK x \in 1 .. Shown : order[x] = k
    BY <1>2 DEF Seen
  <2>2. PICK y \in 1 .. Shown : order[y] = l
    BY <1>2 DEF Seen
  <2>3. Mention(k) \in Nat /\ Mention(l) \in Nat
    BY <1>1, MentionType
  <2>4. x < y
    <3>1. ~(y < x)
      BY <1>1, <1>2, <1>4, <2>1, <2>2, <2>3 DEF Collected
    <3>2. x # y
      BY <1>4, <2>1, <2>2, <2>3
    <3> QED BY <3>1, <3>2
  <2>5. x \in DOMAIN ranked' /\ y \in DOMAIN ranked'
    BY <1>1, <1>2, RowsType
  <2> QED BY <1>2, <2>1, <2>2, <2>4, <2>5
<1>5. ListIsObeyed'
  <2> SUFFICES ASSUME NEW k \in Index', NEW l \in Index', Mention(k)' < Mention(l)'
               PROVE  (\E i, j \in DOMAIN ranked :
                         i < j /\ ranked[i] = signal[k + 1] /\ ranked[j] = signal[l + 1])'
    BY DEF ListIsObeyed, Index
  <2> QED BY <1>1, <1>3, <1>4
<1> QED BY <1>1, <1>5 DEF ListInv

LEMMA ListSame ==
  ASSUME ListInv, Cut \/ UNCHANGED vars
  PROVE  ListInv'
<1>1. /\ UNCHANGED <<asked, signal, reply, at, order, ranked>>
      /\ pc' = pc \/ (pc = "cut" /\ pc' = "returned")
  BY DEF Cut, vars, asked
<1>2. Index' = Index /\ \A l : Mention(l)' = Mention(l)
  BY <1>1, MentionStays
<1>3. ListIsObeyed'
  <2> SUFFICES ASSUME Ranked', NEW k \in Index', NEW l \in Index', Mention(k)' < Mention(l)'
               PROVE  (\E i, j \in DOMAIN ranked :
                         i < j /\ ranked[i] = signal[k + 1] /\ ranked[j] = signal[l + 1])'
    BY DEF ListIsObeyed, Index
  <2>1. Ranked /\ k \in Index /\ l \in Index /\ Mention(k) < Mention(l)
    BY <1>1, <1>2 DEF Ranked
  <2>2. \E i, j \in DOMAIN ranked :
          i < j /\ ranked[i] = signal[k + 1] /\ ranked[j] = signal[l + 1]
    BY <2>1 DEF ListInv, ListIsObeyed, Index
  <2> QED BY <1>1, <2>2
<1>4. pc' \in {"take", "append"} => Collected'
  BY <1>1, <1>2 DEF ListInv, Collected, Seen, Reach
<1> QED BY <1>1, <1>3, <1>4 DEF ListInv

(* The head is in the order in which the LLM's list first mentions it, and *)
(* what the list does not mention in the order of the signals - duplicate, *)
(* foreign and mistyped indices notwithstanding.                           *)
THEOREM ListIsFollowed == Spec => []ListIsObeyed
<1>1. Inv /\ Inv' /\ ListInv /\ [Next]_vars => ListInv'
  BY ListBlend, ListAsk, ListTake, ListEnd, ListAppend, ListReorder, ListSame DEF Next
<1>2. ListInv => ListIsObeyed
  BY DEF ListInv
<1> QED BY <1>1, <1>2, ListInit, SpecInv, PTL DEF Spec
=============================================================================
