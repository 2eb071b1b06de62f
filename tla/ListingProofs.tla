----------------------------- MODULE ListingProofs -----------------------------
(***************************************************************************)
(* What a sync makes of the listing it pages through, for every number of  *)
(* documents, page size, window and set of jobs:                           *)
(*  - over a source that is as it is, a full sync that nothing interferes  *)
(*    with converges (FullSyncConverges), and whatever jobs overlap, the   *)
(*    watermark covers no more than is indexed (QuietWatermark), a         *)
(*    reconcile removes nothing that is there (PagedReconcile), and no     *)
(*    write goes back to an older version (QuietNeverOlder);               *)
(*  - over a source that changes, syncs that do not overlap go back to an  *)
(*    older version only within a window that holds both                   *)
(*    (WindowsNeverOlder), and never where a window is one item            *)
(*    (OneByOneNeverOlder);                                                *)
(*  - each step of a job brings it nearer to its end, whatever the source  *)
(*    does (EveryStepCounts).                                              *)
(*                                                                         *)
(* Most of the first rest on one invariant of a job, Right: of what its    *)
(* listing has passed, each document is still pending in the job or good;  *)
(* they differ in what good means.  The second rest on TurnInv: what the   *)
(* job holds of a document is in the order in which the source had it.     *)
(***************************************************************************)
EXTENDS SourceSyncProofs

(* Where a document is in a listing, and what of it an offset has passed.  *)
Pos(M, d) == Cardinality({e \in M : Before(e, d)})
Below(r) ==
  {d \in Matching(r.since) :
     \/ SpaceOf[d] < r.space
     \/ SpaceOf[d] = r.space /\ Pos(Listing(r), d) < r.offset}

(* The offset is inside the listing while there is more of it, and at its  *)
(* end every space is passed.                                              *)
Paging(r) ==
  /\ r.more => r.offset = 0 \/ r.offset < Cardinality(Listing(r))
  /\ ~r.more => Below(r) = Matching(r.since)

Pending(r, d) ==
  \/ \E i \in DOMAIN r.buf : r.buf[i].doc = d
  \/ \E i \in DOMAIN r.task : r.task[i].item.doc = d /\ r.task[i].stage # "done"

(* What a job holds of a document is what the source holds.                *)
Fresh(r) ==
  /\ \A i \in DOMAIN r.buf : r.buf[i].ver = remote[r.buf[i].doc]
  /\ \A i \in DOMAIN r.task : r.task[i].item.ver = remote[r.task[i].item.doc]

Older(since) == {d \in Present(remote) : remote[d].upd <= since}

(* The part that is lost when an item fails.                               *)
Covers(r, good) ==
  /\ r.phase = "fetch" =>
       /\ Older(r.since) \subseteq good
       /\ \A d \in Below(r) : Pending(r, d) \/ d \in good
  /\ r.phase = "record" \/ (r.full /\ r.phase \in {"enum", "delete"}) =>
       Present(remote) \subseteq good

Right(r, good) ==
  /\ r.full \/ r.phase = "enum" => r.since = 0
  /\ r.phase \in {"fetch", "enum"} => Paging(r)
  /\ Fresh(r)
  /\ r.phase \in {"fetch", "record"} => r.ids = {}
  /\ r.phase = "enum" => Below(r) \subseteq r.ids /\ r.ids \subseteq Present(remote)
  /\ r.phase = "delete" => r.stale \intersect Present(remote) = {}
  /\ ~r.failed => Covers(r, good)

(* Documents whose rows equal the source's; whose texts do.                *)
Same == {d \in Present(remote) : remote[d].body = EmptyBody \/ db[d] = remote[d]}
Indexed == {d \in Present(remote) : remote[d].body = EmptyBody \/ Current(d)}

(* Only a job that runs has tasks.                                         *)
Resting == \A j \in Job : ~Active(j) => job[j].task = <<>>

CleanInv ==
  \A j \in Job :
    Active(j) /\ job[j].full /\ ~disturbed[j] =>
      /\ \A k \in Job \ {j} : ~Active(k)
      /\ Right(job[j], Same)
      /\ job[j].phase = "delete" => Present(db) \subseteq job[j].stale \union Present(remote)

QuietInv ==
  /\ state.wm <= clock
  /\ \A d \in Present(remote) : remote[d].upd <= clock
  /\ WatermarkCovers
  /\ \A j \in Job : /\ ~job[j].failed
                    /\ Active(j) => Right(job[j], Indexed)
                    /\ job[j].phase = "record" => job[j].stamp <= clock

-------------------------------------------------------------------------------
(* Positions in a listing *)

LEMMA Updates ==
  ASSUME TypeOK, NEW d \in Present(remote)
  PROVE  d \in Doc /\ d \in Nat /\ remote[d] \in Version /\ remote[d].upd \in Nat \ {0}
BY ValuesAssumption, SizesAssumption DEF Present, TypeOK, Version, Doc

(* Both orders are strict and total.                                       *)
LEMMA Order ==
  ASSUME TypeOK, NEW d \in Present(remote), NEW e \in Present(remote)
  PROVE  /\ ~Before(d, d)
         /\ Before(d, e) => ~Before(e, d)
         /\ d # e => Before(d, e) \/ Before(e, d)
         /\ \A f \in Present(remote) : Before(d, e) /\ Before(e, f) => Before(d, f)
BY Updates DEF Before

LEMMA PosType ==
  ASSUME NEW M \in SUBSET Doc, NEW d
  PROVE  Pos(M, d) \in Nat /\ IsFiniteSet({e \in M : Before(e, d)})
BY DocsFinite, {e \in M : Before(e, d)} \in SUBSET Doc DEF Pos

LEMMA PosGrows ==
  ASSUME TypeOK, NEW M \in SUBSET Present(remote), NEW d \in M, NEW e \in M, Before(d, e)
  PROVE  Pos(M, d) < Pos(M, e)
<1> DEFINE D == {f \in M : Before(f, d)}
           E == {f \in M : Before(f, e)}
<1>1. M \in SUBSET Doc
  BY DEF Present
<1>2. IsFiniteSet(D) /\ IsFiniteSet(E) /\ Cardinality(D) \in Nat /\ Cardinality(E) \in Nat
  BY <1>1, PosType DEF Pos
<1>3. d \notin D /\ D \union {d} \subseteq E
  BY Order
<1> HIDE DEF D, E
<1>4. Cardinality(D \union {d}) = Cardinality(D) + 1
  BY <1>2, <1>3, FS_AddElement
<1>5. Cardinality(D \union {d}) <= Cardinality(E)
  BY <1>2, <1>3, FS_Subset
<1> QED BY <1>2, <1>4, <1>5 DEF Pos, D, E

LEMMA PosInjective ==
  ASSUME TypeOK, NEW M \in SUBSET Present(remote), NEW d \in M, NEW e \in M,
         Pos(M, d) = Pos(M, e)
  PROVE  d = e
<1>1. Pos(M, d) \in Nat /\ Pos(M, e) \in Nat
  BY PosType DEF Present
<1> QED BY <1>1, PosGrows, Order

LEMMA PosInside ==
  ASSUME TypeOK, NEW M \in SUBSET Present(remote), NEW d \in M
  PROVE  Pos(M, d) \in 0 .. Cardinality(M) - 1
<1> DEFINE D == {f \in M : Before(f, d)}
<1>1. M \in SUBSET Doc
  BY DEF Present
<1>2. IsFiniteSet(D) /\ Cardinality(D) \in Nat /\ IsFiniteSet(M) /\ Cardinality(M) \in Nat
  BY <1>1, PosType, DocsFinite DEF Pos
<1>3. d \notin D /\ D \union {d} \subseteq M
  BY Order
<1> HIDE DEF D
<1>4. Cardinality(D \union {d}) = Cardinality(D) + 1
  BY <1>2, <1>3, FS_AddElement
<1>5. Cardinality(D \union {d}) <= Cardinality(M)
  BY <1>2, <1>3, FS_Subset
<1> QED BY <1>2, <1>4, <1>5 DEF Pos, D

(* No position of a listing is empty.                                      *)
LEMMA PosOnto ==
  ASSUME TypeOK, NEW M \in SUBSET Present(remote), NEW k \in Nat, k < Cardinality(M)
  PROVE  \E d \in M : Pos(M, d) = k
<1> DEFINE n == Cardinality(M)
           S == 0 .. n - 1
           f == [d \in M |-> Pos(M, d)]
<1>1. n \in Nat
  BY DocsFinite DEF Present
<1>2. IsFiniteSet(S) /\ Cardinality(S) = n
  <2> HIDE DEF n
  <2>1. IsFiniteSet(0 .. n - 1)
        /\ Cardinality(0 .. n - 1) = IF 0 > n - 1 THEN 0 ELSE (n - 1) - 0 + 1
    BY <1>1, FS_Interval
  <2> QED BY <1>1, <2>1
<1>3. f \in Injection(M, S)
  BY PosInside, PosInjective DEF Injection, IsInjective
<1> HIDE DEF S, f
<1>4. f \in Surjection(M, S)
  BY <1>2, <1>3, FS_Injection
<1>5. k \in S
  BY <1>1 DEF S
<1>6. \E d \in M : f[d] = k
  BY <1>4, <1>5 DEF Surjection
<1> QED BY <1>6 DEF f

(* As many documents as positions, at most.                                *)
LEMMA Slice ==
  ASSUME TypeOK, NEW M \in SUBSET Present(remote), NEW o \in Nat, NEW n \in Nat,
         NEW P \in SUBSET M, \A d \in P : o <= Pos(M, d) /\ Pos(M, d) < o + n
  PROVE  Cardinality(P) <= n
<1> DEFINE S == o .. o + n - 1
           f == [d \in P |-> Pos(M, d)]
<1>1. IsFiniteSet(S) /\ Cardinality(S) = n
  BY FS_Interval
<1>2. ASSUME NEW d \in P PROVE Pos(M, d) \in S
  <2>1. Pos(M, d) \in Nat
    BY PosType DEF Present
  <2> QED BY <2>1
<1>3. f \in Injection(P, S)
  BY <1>2, PosInjective DEF Injection, IsInjective
<1> HIDE DEF S, f
<1> QED BY <1>1, <1>3, FS_Injection

(* What the client yields of a page is all of it, in some order.           *)
LEMMA InOrderOnto ==
  ASSUME TypeOK, NEW K \in SUBSET Present(remote), NEW p \in InOrder(K), NEW d \in K
  PROVE  \E i \in 1 .. Cardinality(K) : p[i] = d
<1> DEFINE n == Cardinality(K)
<1>1. n \in Nat /\ IsFiniteSet(K)
  BY DocsFinite DEF Present
<1>2. IsFiniteSet(1 .. n) /\ Cardinality(1 .. n) = n
  BY <1>1, FS_Interval
<1>3. p \in [1 .. n -> K] /\ \A a, b \in 1 .. n : a < b => Before(p[a], p[b])
  BY DEF InOrder
<1> HIDE DEF n
<1>4. ASSUME NEW a \in 1 .. n, NEW b \in 1 .. n, p[a] = p[b]
      PROVE  a = b
  <2>1. a < b \/ b < a \/ a = b
    BY <1>1
  <2> QED BY <1>3, <1>4, <2>1, Order
<1>5. p \in Injection(1 .. n, K)
  BY <1>3, <1>4 DEF Injection, IsInjective
<1>6. p \in Surjection(1 .. n, K)
  BY <1>1, <1>2, <1>5, FS_Injection DEF n
<1> QED BY <1>6 DEF Surjection, n

-------------------------------------------------------------------------------
(* Steps of a job's listing *)

(* The clock of Jira's account is not behind that of the service.          *)
NotBehind == Kind = "jira" => Zone >= 0

LEMMA Matches ==
  ASSUME TypeOK, NEW since \in 0 .. MaxClock
  PROVE  /\ Matching(since) \in SUBSET Present(remote)
         /\ NotBehind => Present(remote) \ Matching(since) \subseteq Older(since)
         /\ since = 0 => Matching(since) = Present(remote) /\ Older(since) = {}
<1>1. since \in Nat /\ since % Minute \in Nat /\ since - (since % Minute) <= since
  BY SizesAssumption
<1>2. Zone >= 0 => since - (since % Minute) - Zone <= since
  BY <1>1, SizesAssumption
<1>3. \A d \in Present(remote) : remote[d].upd \in Nat \ {0}
  BY Updates
<1>4. Zone \in Int /\ since % Minute \in Int
  BY <1>1, SizesAssumption
<1>5. Matching(since) \in SUBSET Present(remote)
  BY DEF Matching
<1>6. since = 0 => Matching(since) = Present(remote) /\ Older(since) = {}
  BY <1>1, <1>3 DEF Matching, Older
<1> HIDE DEF Older
<1>7. ASSUME NotBehind, NEW d \in Present(remote) \ Matching(since) PROVE d \in Older(since)
  <2>1. Kind = "jira" /\ ~(remote[d].upd >= since - (since % Minute) - Zone)
    BY <1>7 DEF Matching
  <2>2. remote[d].upd <= since
    BY <1>1, <1>2, <1>3, <1>4, <1>7, <2>1 DEF NotBehind
  <2> QED BY <2>2 DEF Older
<1> QED BY <1>5, <1>6, <1>7

(* Of the listing, only these fields matter.                               *)
LEMMA SameListing ==
  ASSUME NEW r, NEW q, q.since = r.since, q.space = r.space, q.offset = r.offset
  PROVE  Below(q) = Below(r) /\ (q.more = r.more => (Paging(q) <=> Paging(r)))
<1>1. Listing(q) = Listing(r)
  BY DEF Listing
<1>2. Below(q) = Below(r)
  BY <1>1 DEF Below
<1> QED BY <1>1, <1>2 DEF Paging

LEMMA AdvanceFields ==
  ASSUME NEW r \in JobState, NEW P \in SUBSET Doc
  PROVE  LET q == Advance(r, P)
         IN  /\ q \in JobState
             /\ \/ /\ ~GoesOn(r, P) /\ r.space < NumSpaces
                   /\ q.space = r.space + 1 /\ q.offset = 0 /\ q.more = r.more
                \/ /\ GoesOn(r, P) \/ ~(r.space < NumSpaces)
                   /\ q.space = r.space /\ q.offset = NextOffset(r, P)
                   /\ q.more = GoesOn(r, P)
             /\ q.phase = r.phase /\ q.full = r.full /\ q.since = r.since
             /\ q.buf = r.buf /\ q.task = r.task /\ q.failed = r.failed
             /\ q.stamp = r.stamp /\ q.ids = r.ids /\ q.stale = r.stale
<1> DEFINE off == NextOffset(r, P)
           mor == GoesOn(r, P)
           spc == r.space + 1
           Kept(q) == /\ q.phase = r.phase /\ q.full = r.full /\ q.since = r.since
                      /\ q.buf = r.buf /\ q.task = r.task /\ q.failed = r.failed
                      /\ q.stamp = r.stamp /\ q.ids = r.ids /\ q.stale = r.stale
           here == [r EXCEPT !.offset = off, !.more = mor]
           next == [r EXCEPT !.space = spc, !.offset = 0]
<1>1. \/ ~mor /\ r.space < NumSpaces /\ Advance(r, P) = next
      \/ (mor \/ ~(r.space < NumSpaces)) /\ Advance(r, P) = here
  BY DEF Advance
<1>2. Advance(r, P) \in JobState
  BY AdvanceType
<1> HIDE DEF off, mor, spc
<1>3. here.space = r.space /\ here.offset = off /\ here.more = mor /\ Kept(here)
  BY DEF JobState
<1>4. next.space = spc /\ next.offset = 0 /\ next.more = r.more /\ Kept(next)
  BY DEF JobState
<1> HIDE DEF here, next
<1>5. CASE ~mor /\ r.space < NumSpaces /\ Advance(r, P) = next
  BY <1>2, <1>4, <1>5 DEF spc, mor
<1>6. CASE (mor \/ ~(r.space < NumSpaces)) /\ Advance(r, P) = here
  BY <1>2, <1>3, <1>6 DEF off, mor
<1> QED BY <1>1, <1>5, <1>6

(* A page answered in full passes what it holds, and nothing besides; with *)
(* the last one of the last space the whole listing is passed.             *)
LEMMA NextPage ==
  ASSUME TypeOK, NEW r \in JobState, Paging(r), r.more
  PROVE  LET P == Page(r)
             q == Advance(r, P)
         IN  /\ P \in SUBSET Matching(r.since)
             /\ Below(q) \subseteq Below(r) \union P
             /\ Paging(q)
<1> DEFINE M == Listing(r)
           W == Matching(r.since)
           P == Page(r)
           q == Advance(r, P)
           next == NextOffset(r, P)
           on == GoesOn(r, P)
<1>1. r.since \in 0 .. MaxClock /\ r.offset \in Nat /\ r.space \in 1 .. NumSpaces
  BY DEF JobState
<1>2. W \in SUBSET Present(remote) /\ M \in SUBSET W /\ W \in SUBSET Doc
  BY <1>1, Matches DEF Listing, Present
<1>3. P = {d \in M : r.offset <= Pos(M, d) /\ Pos(M, d) < r.offset + PageSize}
  BY DEF Page, Pos
<1>4. P \in SUBSET M /\ P \in SUBSET Doc
  BY <1>2, <1>3
<1>5. Cardinality(P) \in Nat /\ Cardinality(M) \in Nat
  BY <1>2, <1>4, DocsFinite
<1>6. /\ next \in Nat /\ next <= r.offset + PageSize
      /\ on = (P # {} /\ next < Cardinality(M))
  <2> DEFINE size == IF Kind = "jira" THEN Cardinality(P) ELSE PageSize
  <2>1. Cardinality(P) <= PageSize
    BY <1>1, <1>2, <1>3, <1>4, Slice, SizesAssumption
  <2>2. size \in Nat /\ size <= PageSize
    BY <1>5, <2>1, SizesAssumption
  <2>3. next = r.offset + size /\ on = (P # {} /\ next < Cardinality(M))
    BY DEF NextOffset, GoesOn
  <2> HIDE DEF size, P, M, next
  <2> QED BY <1>1, <2>2, <2>3, SizesAssumption
<1>7. \A d \in M : Pos(M, d) \in Nat /\ Pos(M, d) < Cardinality(M)
  BY <1>2, <1>5, PosInside
<1>8. /\ q.since = r.since
      /\ \/ ~on /\ r.space < NumSpaces
            /\ q.space = r.space + 1 /\ q.offset = 0 /\ q.more = r.more
         \/ /\ on \/ ~(r.space < NumSpaces)
            /\ q.space = r.space /\ q.offset = next /\ q.more = on
  BY <1>4, AdvanceFields
<1>9. /\ \A d \in W : d \in M <=> SpaceOf[d] = r.space
      /\ \A d \in W : SpaceOf[d] \in 1 .. NumSpaces
      /\ \A d \in W : d \in Below(r) <=> \/ SpaceOf[d] < r.space
                                         \/ d \in M /\ Pos(M, d) < r.offset
  <2>1. \A d \in W : d \in M <=> SpaceOf[d] = r.space
    BY DEF Listing
  <2>2. \A d \in W : SpaceOf[d] \in 1 .. NumSpaces
    BY <1>2, SizesAssumption
  <2> QED BY <2>1, <2>2 DEF Below
<1> HIDE DEF q, P, on, next
<1>10. \A d \in M : Pos(M, d) < next => Pos(M, d) < r.offset \/ d \in P
  BY <1>1, <1>3, <1>6, <1>7, SizesAssumption
<1>11. ASSUME ~on PROVE \A d \in M : Pos(M, d) < next
  <2>1. CASE P = {}
    <3>1. ~(r.offset < Cardinality(M))
      <4> SUFFICES ASSUME r.offset < Cardinality(M) PROVE FALSE
        OBVIOUS
      <4>1. PICK d \in M : Pos(M, d) = r.offset
        BY <1>1, <1>2, PosOnto
      <4> QED BY <1>1, <1>3, <2>1, <4>1, SizesAssumption
    <3>2. \A d \in M : FALSE
      BY <1>1, <1>5, <1>7, <3>1 DEF Paging
    <3> QED BY <3>2
  <2>2. CASE P # {}
    <3>1. ~(next < Cardinality(M))
      BY <1>6, <1>11, <2>2, Zenon
    <3> HIDE DEF M
    <3> QED BY <1>5, <1>6, <1>7, <3>1
  <2> QED BY <2>1, <2>2
<1>12. CASE ~on /\ r.space < NumSpaces
  <2>1. q.space = r.space + 1 /\ q.offset = 0 /\ q.more = TRUE
    BY <1>8, <1>12
  <2>2. Paging(q)
    BY <2>1 DEF Paging
  <2>3. ASSUME NEW d \in Below(q) PROVE d \in Below(r) \union P
    <3>1. d \in W /\ (\/ SpaceOf[d] < q.space
                      \/ SpaceOf[d] = q.space /\ Pos(Listing(q), d) < q.offset)
      BY <1>8 DEF Below
    <3>2. Pos(Listing(q), d) \in Nat
      <4>1. Listing(q) \in SUBSET Doc
        BY <1>2, <1>8 DEF Listing
      <4> QED BY <4>1, PosType
    <3>3. SpaceOf[d] < r.space \/ SpaceOf[d] = r.space
      BY <1>1, <1>9, <2>1, <3>1, <3>2, SizesAssumption
    <3> QED BY <1>9, <1>10, <1>11, <1>12, <3>1, <3>3
  <2> QED BY <1>2, <1>4, <2>2, <2>3 DEF q, P
<1>13. CASE on \/ ~(r.space < NumSpaces)
  <2>1. q.space = r.space /\ q.offset = next /\ q.more = on
    BY <1>8, <1>13, Zenon
  <2>2. Listing(q) = M
    BY <1>8, <2>1 DEF Listing
  <2>3. \A d : d \in Below(q) <=> /\ d \in W
                                  /\ SpaceOf[d] < r.space \/ (d \in M /\ Pos(M, d) < next)
    BY <1>8, <1>9, <2>1, <2>2 DEF Below
  <2>4. Below(q) \subseteq Below(r) \union P
    BY <1>9, <1>10, <2>3
  <2>5. q.more => q.offset < Cardinality(Listing(q))
    BY <1>6, <2>1, <2>2
  <2>6. ASSUME ~q.more PROVE Below(q) = Matching(q.since)
    <3>1. ~on /\ ~(r.space < NumSpaces)
      BY <1>13, <2>1, <2>6, Zenon
    <3>2. \A d \in W : SpaceOf[d] < r.space \/ SpaceOf[d] = r.space
      BY <1>1, <1>9, <3>1, SizesAssumption
    <3>3. \A d \in W : SpaceOf[d] < r.space \/ (d \in M /\ Pos(M, d) < next)
      BY <1>9, <1>11, <3>1, <3>2
    <3> QED BY <1>8, <2>3, <3>3
  <2>7. Paging(q)
    BY <2>5, <2>6 DEF Paging
  <2> QED BY <1>2, <1>4, <2>4, <2>7 DEF q, P
<1> QED BY <1>12, <1>13, Zenon

-------------------------------------------------------------------------------
(* Steps of a job, on its local state alone *)

(* At its beginning a listing has passed nothing.                          *)
LEMMA NothingPassed ==
  ASSUME TypeOK, NEW q, q.since \in 0 .. MaxClock, q.space = 1, q.offset = 0
  PROVE  Below(q) = {}
<1>1. Matching(q.since) \in SUBSET Doc /\ Listing(q) \in SUBSET Doc
  BY Matches DEF Listing, Present
<1>2. \A d \in Matching(q.since) : Pos(Listing(q), d) \in Nat /\ SpaceOf[d] \in 1 .. NumSpaces
  BY <1>1, PosType, SizesAssumption
<1> QED BY <1>2, SizesAssumption DEF Below

LEMMA RightIdle == ASSUME NEW good PROVE Right(IdleJob, good)
BY DEF Right, IdleJob, Fresh, Covers

(* A sync starts; it relies on what is not after the watermark it read.    *)
LEMMA RightStart ==
  ASSUME TypeOK, NEW good, NEW full \in BOOLEAN, NEW since \in 0 .. MaxClock,
         full => since = 0, Older(since) \subseteq good
  PROVE  Right([IdleJob EXCEPT !.phase = "fetch", !.full = full, !.more = TRUE,
                               !.since = since], good)
<1> DEFINE q == [IdleJob EXCEPT !.phase = "fetch", !.full = full, !.more = TRUE,
                                !.since = since]
<1>1. /\ q.phase = "fetch" /\ q.full = full /\ q.more = TRUE /\ q.since = since
      /\ q.space = 1 /\ q.offset = 0 /\ q.buf = <<>> /\ q.task = <<>> /\ q.ids = {}
  BY DEF IdleJob
<1>2. Below(q) = {}
  <2> HIDE DEF q
  <2> QED BY <1>1, NothingPassed
<1> HIDE DEF q
<1>3. Right(q, good)
  BY <1>1, <1>2 DEF Right, Paging, Fresh, Covers
<1> QED BY <1>3 DEF q

LEMMA RightEnumeration ==
  ASSUME TypeOK, NEW good, NEW q, q.phase = "enum", q.since = 0, q.space = 1, q.offset = 0,
         q.more = TRUE, q.ids = {}, Fresh(q), q.full /\ ~q.failed => Present(remote) \subseteq good
  PROVE  Right(q, good)
<1>1. Below(q) = {}
  <2>1. 0 \in 0 .. MaxClock
    BY SizesAssumption
  <2> QED BY <2>1, NothingPassed
<1> QED BY <1>1 DEF Right, Paging, Covers

(* A buffer with the items of a page appended.                             *)
LEMMA Appended ==
  ASSUME TypeOK, NEW b \in Seq(Item), NEW K \in SUBSET Present(remote), NEW p \in InOrder(K)
  PROVE  LET n == Cardinality(K)
             c == b \o [i \in 1 .. n |-> [doc |-> p[i], ver |-> remote[p[i]]]]
         IN  /\ n \in Nat /\ Len(b) \in Nat /\ DOMAIN b = 1 .. Len(b)
             /\ DOMAIN c = 1 .. Len(b) + n
             /\ \A i \in 1 .. Len(b) : c[i] = b[i]
             /\ \A i \in 1 .. n : /\ c[Len(b) + i].doc = p[i]
                                  /\ c[Len(b) + i].ver = remote[p[i]]
             /\ \A i \in 1 .. n : p[i] \in K
<1> DEFINE n == Cardinality(K)
           items == [i \in 1 .. n |-> [doc |-> p[i], ver |-> remote[p[i]]]]
           c == b \o items
<1>1. n \in Nat
  BY DocsFinite DEF Present
<1>2. \A i \in 1 .. n : p[i] \in K
  BY DEF InOrder
<1> HIDE DEF n
<1>3. items \in Seq(Item)
  <2>1. ASSUME NEW i \in 1 .. n PROVE items[i] \in Item
    <3>1. p[i] \in Doc /\ remote[p[i]] \in Version
      BY <1>2, Updates
    <3> QED BY <3>1 DEF Item
  <2>2. items \in [1 .. n -> Item]
    BY <2>1
  <2> QED BY <1>1, <2>2, SeqDef
<1>4. Len(items) = n /\ DOMAIN items = 1 .. n
  BY <1>1, <1>3, LenProperties
<1>5. \A i \in 1 .. n : items[i].doc = p[i] /\ items[i].ver = remote[p[i]]
  OBVIOUS
<1>6. Len(b) \in Nat /\ DOMAIN b = 1 .. Len(b)
  BY LenProperties
<1> HIDE DEF items
<1>7. /\ c \in Seq(Item) /\ Len(c) = Len(b) + n
      /\ \A i \in 1 .. Len(b) + n : c[i] = IF i <= Len(b) THEN b[i] ELSE items[i - Len(b)]
  BY <1>3, <1>4, ConcatProperties
<1>8. DOMAIN c = 1 .. Len(b) + n
  BY <1>7, LenProperties
<1>9. \A i \in 1 .. Len(b) : c[i] = b[i]
  BY <1>1, <1>6, <1>7
<1>10. ASSUME NEW i \in 1 .. n PROVE c[Len(b) + i] = items[i]
  <2>1. /\ Len(b) + i \in 1 .. Len(b) + n /\ ~(Len(b) + i <= Len(b))
        /\ (Len(b) + i) - Len(b) = i
    BY <1>1, <1>6
  <2> QED BY <1>7, <2>1
<1> QED BY <1>1, <1>2, <1>5, <1>6, <1>8, <1>9, <1>10 DEF n, items

(* A page is buffered: what the offset passes becomes pending.             *)
LEMMA RightFetch ==
  ASSUME TypeOK, NEW good, NEW r \in JobState, Right(r, good), r.phase = "fetch", r.more,
         NEW p \in InOrder(Yielded(Page(r), r.since))
  PROVE  Right([Advance(r, Page(r)) EXCEPT !.buf = @ \o
                  [i \in 1 .. Cardinality(Yielded(Page(r), r.since)) |->
                     [doc |-> p[i], ver |-> remote[p[i]]]]], good)
<1> DEFINE P == Page(r)
           K == Yielded(P, r.since)
           n == Cardinality(K)
           items == [i \in 1 .. n |-> [doc |-> p[i], ver |-> remote[p[i]]]]
           adv == Advance(r, P)
           q == [adv EXCEPT !.buf = adv.buf \o items]
<1>1. r.since \in 0 .. MaxClock /\ r.buf \in Seq(Item) /\ Paging(r)
  BY DEF JobState, Right
<1>2. /\ P \in SUBSET Matching(r.since) /\ Below(adv) \subseteq Below(r) \union P
      /\ Paging(adv)
  BY <1>1, NextPage
<1>3. /\ Matching(r.since) \in SUBSET Present(remote) /\ P \in SUBSET Present(remote)
      /\ P \in SUBSET Doc /\ K \in SUBSET P
  BY <1>1, <1>2, Matches DEF Present, Yielded
<1>4. /\ adv \in JobState /\ adv.phase = r.phase /\ adv.full = r.full /\ adv.since = r.since
      /\ adv.buf = r.buf /\ adv.task = r.task /\ adv.failed = r.failed /\ adv.ids = r.ids
  BY <1>3, AdvanceFields
<1>5. ASSUME NEW d \in P \ K PROVE d \in Older(r.since)
  <2>1. Kind = "confluence" /\ ~(remote[d].upd > r.since) /\ d \in Present(remote)
    BY <1>3 DEF Yielded
  <2>2. r.since \in Nat /\ remote[d].upd \in Nat
    BY <1>1, <2>1, Updates, SizesAssumption
  <2> QED BY <2>1, <2>2 DEF Older
<1>6. ASSUME NEW d \in K PROVE \E i \in 1 .. n : p[i] = d
  BY <1>3, InOrderOnto
<1>7. n \in Nat
  BY <1>3, DocsFinite
<1>8. /\ Len(r.buf) \in Nat /\ DOMAIN r.buf = 1 .. Len(r.buf)
      /\ DOMAIN (r.buf \o items) = 1 .. Len(r.buf) + n
      /\ \A i \in 1 .. Len(r.buf) : (r.buf \o items)[i] = r.buf[i]
      /\ \A i \in 1 .. n : /\ (r.buf \o items)[Len(r.buf) + i].doc = p[i]
                           /\ (r.buf \o items)[Len(r.buf) + i].ver = remote[p[i]]
  BY <1>1, <1>3, Appended
<1> HIDE DEF P, K, n, adv, items
<1>9. /\ q.phase = r.phase /\ q.full = r.full /\ q.since = r.since /\ q.more = adv.more
      /\ q.buf = r.buf \o items /\ q.task = r.task /\ q.failed = r.failed
      /\ q.ids = r.ids /\ q.space = adv.space /\ q.offset = adv.offset
  BY <1>4 DEF JobState
<1> HIDE DEF q
<1>10. /\ Len(r.buf) \in Nat /\ DOMAIN r.buf = 1 .. Len(r.buf)
       /\ DOMAIN q.buf = 1 .. Len(r.buf) + n
       /\ \A i \in 1 .. Len(r.buf) : q.buf[i] = r.buf[i]
       /\ \A i \in 1 .. n : /\ q.buf[Len(r.buf) + i].doc = p[i]
                            /\ q.buf[Len(r.buf) + i].ver = remote[p[i]]
  BY <1>8, <1>9
<1>11. Fresh(q)
  <2>1. ASSUME NEW i \in DOMAIN q.buf PROVE q.buf[i].ver = remote[q.buf[i].doc]
    <3>1. CASE i \in 1 .. Len(r.buf)
      BY <1>10, <3>1 DEF Right, Fresh
    <3>2. CASE i \notin 1 .. Len(r.buf)
      <4>0. i \in 1 .. Len(r.buf) + n /\ Len(r.buf) \in Nat
        BY <1>10
      <4>1. i - Len(r.buf) \in 1 .. n /\ i = Len(r.buf) + (i - Len(r.buf))
        BY <1>7, <3>2, <4>0
      <4>2. q.buf[i].doc = p[i - Len(r.buf)] /\ q.buf[i].ver = remote[p[i - Len(r.buf)]]
        BY <1>10, <4>1
      <4> QED BY <4>2
    <3> QED BY <3>1, <3>2
  <2> QED BY <1>9, <2>1 DEF Right, Fresh
<1>12. ASSUME NEW d, Pending(r, d) PROVE Pending(q, d)
  <2>1. CASE \E i \in DOMAIN r.buf : r.buf[i].doc = d
    <3>1. PICK i \in 1 .. Len(r.buf) : r.buf[i].doc = d
      BY <1>10, <2>1
    <3>2. i \in 1 .. Len(r.buf) + n /\ q.buf[i] = r.buf[i]
      BY <1>7, <1>10
    <3> QED BY <1>10, <3>1, <3>2 DEF Pending
  <2> QED BY <1>9, <1>12, <2>1 DEF Pending
<1>13. ASSUME NEW d \in K PROVE Pending(q, d)
  <2>1. PICK i \in 1 .. n : p[i] = d
    BY <1>6
  <2>2. Len(r.buf) + i \in 1 .. Len(r.buf) + n
    BY <1>7, <1>8
  <2>3. Len(r.buf) + i \in DOMAIN q.buf
    BY <1>10, <2>2
  <2>4. q.buf[Len(r.buf) + i].doc = p[i]
    BY <1>10
  <2> QED BY <2>1, <2>3, <2>4 DEF Pending
<1>14. Below(q) \subseteq Below(r) \union P /\ Paging(q)
  BY <1>2, <1>4, <1>9, SameListing
<1>15. ~q.failed => Covers(q, good)
  <2> SUFFICES ASSUME ~r.failed
               PROVE  /\ Older(r.since) \subseteq good
                      /\ \A d \in Below(q) : Pending(q, d) \/ d \in good
    BY <1>9 DEF Covers
  <2>1. Older(r.since) \subseteq good /\ \A e \in Below(r) : Pending(r, e) \/ e \in good
    BY DEF Right, Covers
  <2> QED BY <1>5, <1>12, <1>13, <1>14, <2>1
<1>16. Right(q, good)
  BY <1>9, <1>11, <1>14, <1>15 DEF Right
<1> QED BY <1>16 DEF q, adv, items, n, K, P

(* A buffer with its first items taken off.                                *)
LEMMA Remainder ==
  ASSUME NEW b \in Seq(Item), NEW n \in 0 .. Len(b)
  PROVE  LET c == SubSeq(b, n + 1, Len(b))
         IN  /\ DOMAIN c = 1 .. Len(b) - n
             /\ \A i \in 1 .. Len(b) - n : c[i] = b[n + i]
<1> DEFINE c == SubSeq(b, n + 1, Len(b))
<1>1. Len(b) \in Nat /\ n \in Nat /\ n <= Len(b)
  BY LenProperties
<1>2. /\ c \in Seq(Item) /\ Len(c) = IF n + 1 <= Len(b) THEN Len(b) - (n + 1) + 1 ELSE 0
      /\ \A i \in 1 .. Len(b) - (n + 1) + 1 : c[i] = b[n + 1 + i - 1]
  BY <1>1, SubSeqProperties
<1> HIDE DEF c
<1>3. Len(c) = Len(b) - n
  BY <1>1, <1>2
<1>4. DOMAIN c = 1 .. Len(b) - n
  BY <1>2, <1>3, LenProperties
<1>5. \A i \in 1 .. Len(b) - n : n + 1 + i - 1 = n + i /\ i \in 1 .. Len(b) - (n + 1) + 1
  BY <1>1
<1> QED BY <1>2, <1>4, <1>5 DEF c

(* A window is taken off the buffer.                                       *)
LEMMA RightWindow ==
  ASSUME NEW good, NEW r \in JobState, Right(r, good), r.task = <<>>,
         NEW n \in 0 .. Len(r.buf)
  PROVE  Right([r EXCEPT !.task = [i \in 1 .. n |-> [item |-> r.buf[i], stage |-> "check"]],
                         !.buf = SubSeq(r.buf, n + 1, Len(r.buf))], good)
<1> DEFINE b == r.buf
           tasks == [i \in 1 .. n |-> [item |-> b[i], stage |-> "check"]]
           rest == SubSeq(b, n + 1, Len(b))
           q == [r EXCEPT !.task = tasks, !.buf = rest]
<1>1. b \in Seq(Item) /\ Len(b) \in Nat /\ DOMAIN b = 1 .. Len(b)
  BY LenProperties DEF JobState
<1>2. /\ DOMAIN rest = 1 .. Len(b) - n
      /\ \A i \in 1 .. Len(b) - n : rest[i] = b[n + i]
  BY <1>1, Remainder
<1>3. DOMAIN tasks = 1 .. n /\ \A i \in 1 .. n : tasks[i].item = b[i] /\ tasks[i].stage = "check"
  OBVIOUS
<1> HIDE DEF tasks, rest
<1>4. /\ q.phase = r.phase /\ q.full = r.full /\ q.since = r.since /\ q.offset = r.offset
      /\ q.space = r.space /\ q.more = r.more /\ q.buf = rest /\ q.task = tasks /\ q.failed = r.failed
      /\ q.ids = r.ids /\ q.stale = r.stale
  BY DEF JobState
<1> HIDE DEF q
<1>5. \A i \in 1 .. Len(b) - n : n + i \in 1 .. Len(b)
  BY <1>1
<1>6. Fresh(q)
  <2>1. \A i \in DOMAIN b : b[i].ver = remote[b[i].doc]
    BY DEF Right, Fresh
  <2>2. \A i \in 1 .. n : i \in DOMAIN b
    BY <1>1
  <2> HIDE DEF b
  <2>3. \A i \in DOMAIN tasks : tasks[i].item.ver = remote[tasks[i].item.doc]
    BY <1>3, <2>1, <2>2
  <2>4. ASSUME NEW i \in DOMAIN rest PROVE rest[i].ver = remote[rest[i].doc]
    <3>1. i \in 1 .. Len(b) - n /\ n + i \in DOMAIN b /\ rest[i] = b[n + i]
      BY <1>1, <1>2, <1>5
    <3> QED BY <2>1, <3>1
  <2> QED BY <1>4, <2>3, <2>4 DEF Fresh
<1>7. ASSUME NEW d, Pending(r, d) PROVE Pending(q, d)
  <2>1. PICK i \in 1 .. Len(b) : b[i].doc = d
    BY <1>1, <1>7 DEF Pending
  <2>2. CASE i <= n
    BY <1>3, <1>4, <2>1, <2>2 DEF Pending
  <2>3. CASE ~(i <= n)
    <3>1. i - n \in 1 .. Len(b) - n /\ n + (i - n) = i
      BY <1>1, <2>3
    <3> QED BY <1>2, <1>4, <2>1, <3>1 DEF Pending
  <2> QED BY <2>2, <2>3
<1>8. Below(q) = Below(r) /\ (Paging(q) <=> Paging(r))
  BY <1>4, SameListing
<1>9. Right(q, good)
  BY <1>4, <1>6, <1>7, <1>8 DEF Right, Covers
<1> QED BY <1>9 DEF q, tasks, rest, b

(* A task goes on, or ends with its document good, or fails.               *)
LEMMA RightTask ==
  ASSUME NEW good, NEW more, NEW r \in JobState, Right(r, good), good \subseteq more,
         NEW i \in DOMAIN r.task, NEW st \in {"check", "write", "done"}, NEW q,
         \/ /\ q = [r EXCEPT !.task = [r.task EXCEPT ![i].stage = st]]
            /\ st = "done" => r.task[i].item.doc \in more
         \/ q = [r EXCEPT !.task = [r.task EXCEPT ![i].stage = st], !.failed = TRUE]
  PROVE  Right(q, more)
<1> DEFINE s == [r.task EXCEPT ![i].stage = st]
<1>1. r.task \in Seq(Task) /\ DOMAIN r.task = 1 .. Len(r.task)
  BY LenProperties DEF JobState
<1>2. \A k \in DOMAIN r.task : r.task[k] \in Task
  BY <1>1, ElementOfSeq
<1>3. /\ DOMAIN s = DOMAIN r.task
      /\ \A k \in DOMAIN r.task : s[k].item = r.task[k].item
      /\ \A k \in DOMAIN r.task : k # i => s[k].stage = r.task[k].stage
      /\ s[i].stage = st
  BY <1>1, <1>2 DEF Task
<1> HIDE DEF s
<1>4. /\ q.phase = r.phase /\ q.full = r.full /\ q.since = r.since /\ q.offset = r.offset
      /\ q.space = r.space /\ q.more = r.more /\ q.buf = r.buf /\ q.task = s
      /\ q.ids = r.ids /\ q.stale = r.stale
      /\ ~q.failed => ~r.failed /\ (st = "done" => r.task[i].item.doc \in more)
  BY DEF JobState, s
<1>5. Fresh(q)
  BY <1>3, <1>4 DEF Right, Fresh
<1>6. ASSUME NEW d, ~q.failed, Pending(r, d) PROVE Pending(q, d) \/ d \in more
  BY <1>3, <1>4, <1>6 DEF Pending
<1>7. Below(q) = Below(r) /\ (Paging(q) <=> Paging(r))
  BY <1>4, SameListing
<1> QED BY <1>4, <1>5, <1>6, <1>7 DEF Right, Covers

LEMMA RightClose ==
  ASSUME NEW good, NEW r \in JobState, Right(r, good),
         \A i \in DOMAIN r.task : r.task[i].stage = "done"
  PROVE  Right([r EXCEPT !.task = <<>>], good)
<1> DEFINE q == [r EXCEPT !.task = <<>>]
<1>1. /\ q.phase = r.phase /\ q.full = r.full /\ q.since = r.since /\ q.offset = r.offset
      /\ q.space = r.space /\ q.more = r.more /\ q.buf = r.buf /\ q.task = <<>> /\ q.failed = r.failed
      /\ q.ids = r.ids /\ q.stale = r.stale
  BY DEF JobState
<1> HIDE DEF q
<1>2. Fresh(q) /\ \A d : Pending(r, d) => Pending(q, d)
  BY <1>1 DEF Right, Fresh, Pending
<1>3. Below(q) = Below(r) /\ (Paging(q) <=> Paging(r))
  BY <1>1, SameListing
<1>4. Right(q, good)
  BY <1>1, <1>2, <1>3 DEF Right, Covers
<1> QED BY <1>4 DEF q

(* The listing is exhausted: nothing is pending, and all of it is passed.  *)
LEMMA RightFinish ==
  ASSUME TypeOK, NEW good, NEW r \in JobState, Right(r, good), NEW stamp,
         r.phase = "fetch", ~r.more, r.buf = <<>>, r.task = <<>>,
         r.full \/ NotBehind \/ Doc \subseteq good
  PROVE  Right([r EXCEPT !.phase = "record", !.stamp = stamp], good)
<1> DEFINE q == [r EXCEPT !.phase = "record", !.stamp = stamp]
<1>1. /\ q.phase = "record" /\ q.full = r.full /\ q.since = r.since
      /\ q.buf = <<>> /\ q.task = <<>> /\ q.failed = r.failed /\ q.ids = r.ids
  BY DEF JobState
<1> HIDE DEF q
<1>2. r.since \in 0 .. MaxClock
  BY DEF JobState
<1>3. ASSUME ~r.failed PROVE Present(remote) \subseteq good
  <2>1. Below(r) = Matching(r.since) /\ Older(r.since) \subseteq good
    BY <1>3 DEF Right, Paging, Covers
  <2>2. \A d \in Below(r) : d \in good
    BY <1>3 DEF Right, Covers, Pending
  <2>3. CASE Doc \subseteq good
    BY <2>3 DEF Present
  <2>4. r.full => r.since = 0
    BY DEF Right
  <2> QED BY <1>2, <2>1, <2>2, <2>3, <2>4, Matches
<1>4. Right(q, good)
  BY <1>1, <1>3 DEF Right, Fresh, Covers
<1> QED BY <1>4 DEF q

(* A full sync goes on to reconcile.                                       *)
LEMMA RightRecord ==
  ASSUME TypeOK, NEW good, NEW r \in JobState, Right(r, good), r.phase = "record"
  PROVE  Right([r EXCEPT !.phase = "enum", !.since = 0, !.space = 1, !.offset = 0,
                         !.more = TRUE], good)
<1> DEFINE q == [r EXCEPT !.phase = "enum", !.since = 0, !.space = 1, !.offset = 0,
                          !.more = TRUE]
<1>1. /\ q.phase = "enum" /\ q.full = r.full /\ q.since = 0 /\ q.space = 1
      /\ q.offset = 0 /\ q.more = TRUE
      /\ q.buf = r.buf /\ q.task = r.task /\ q.failed = r.failed /\ q.ids = r.ids
  BY DEF JobState
<1> HIDE DEF q
<1>2. /\ q.ids = {} /\ Fresh(q)
      /\ q.full /\ ~q.failed => Present(remote) \subseteq good
  BY <1>1 DEF Right, Fresh, Covers
<1>3. Right(q, good)
  BY <1>1, <1>2, RightEnumeration
<1> QED BY <1>3 DEF q

LEMMA RightEnumerate ==
  ASSUME TypeOK, NEW good, NEW r \in JobState, Right(r, good), r.phase = "enum", r.more
  PROVE  Right([Advance(r, Page(r)) EXCEPT !.ids = @ \union Yielded(Page(r), r.since)], good)
<1> DEFINE P == Page(r)
           adv == Advance(r, P)
           q == [adv EXCEPT !.ids = adv.ids \union Yielded(P, r.since)]
<1>1. r.since = 0 /\ r.since \in 0 .. MaxClock /\ Paging(r)
  BY DEF JobState, Right
<1>2. /\ P \in SUBSET Matching(r.since) /\ Below(adv) \subseteq Below(r) \union P
      /\ Paging(adv)
  BY <1>1, NextPage
<1>3. P \in SUBSET Present(remote) /\ P \in SUBSET Doc
  BY <1>1, <1>2, Matches DEF Present
<1>4. /\ adv \in JobState /\ adv.phase = r.phase /\ adv.full = r.full /\ adv.since = r.since
      /\ adv.buf = r.buf /\ adv.task = r.task /\ adv.failed = r.failed /\ adv.ids = r.ids
  BY <1>3, AdvanceFields
<1>5. Yielded(P, r.since) = P
  BY <1>1, <1>3, Updates DEF Yielded
<1> HIDE DEF adv, P
<1>6. /\ q.phase = "enum" /\ q.full = r.full /\ q.since = 0 /\ q.more = adv.more
      /\ q.buf = r.buf /\ q.task = r.task /\ q.failed = r.failed
      /\ q.ids = r.ids \union P /\ q.space = adv.space /\ q.offset = adv.offset
  BY <1>1, <1>4, <1>5 DEF JobState
<1> HIDE DEF q
<1>7. Below(q) \subseteq Below(r) \union P /\ Paging(q)
  BY <1>1, <1>2, <1>4, <1>6, SameListing
<1>8. Fresh(q) /\ (~q.failed => Covers(q, good))
  BY <1>6 DEF Right, Fresh, Covers
<1>9. Right(q, good)
  BY <1>3, <1>6, <1>7, <1>8 DEF Right
<1> QED BY <1>9 DEF q, adv, P

(* The enumeration is complete: no row of a document that is there is      *)
(* stale.                                                                  *)
LEMMA RightDiff ==
  ASSUME TypeOK, NEW good, NEW r \in JobState, Right(r, good), r.phase = "enum", ~r.more
  PROVE  /\ r.ids = Present(remote)
         /\ Right([r EXCEPT !.phase = "delete", !.stale = Stale(r.ids)], good)
<1> DEFINE q == [r EXCEPT !.phase = "delete", !.stale = Stale(r.ids)]
<1>1. r.ids = Present(remote)
  <2>1. 0 \in 0 .. MaxClock
    BY SizesAssumption
  <2> QED BY <2>1, Matches DEF Right, Paging
<1>2. /\ q.phase = "delete" /\ q.full = r.full /\ q.since = r.since /\ q.stale = Stale(r.ids)
      /\ q.buf = r.buf /\ q.task = r.task /\ q.failed = r.failed
  BY DEF JobState
<1> HIDE DEF q
<1>3. q.stale \intersect Present(remote) = {}
  BY <1>1, <1>2 DEF Stale
<1>4. Right(q, good)
  BY <1>2, <1>3 DEF Right, Fresh, Covers
<1> QED BY <1>1, <1>4 DEF q

-------------------------------------------------------------------------------
(* From a job's local state to the state of the system *)

LEMMA RightMore ==
  ASSUME NEW r, NEW good, NEW more, Right(r, good), good \subseteq more
  PROVE  Right(r, more)
BY DEF Right, Covers

(* While the source is as it is, the two jobs' local states are all that   *)
(* matters.                                                                *)
LEMMA RightNext ==
  ASSUME remote' = remote, NEW j \in Job
  PROVE  /\ Right(job'[j], Same') => Right(job[j], Same)'
         /\ Right(job'[j], Indexed') => Right(job[j], Indexed)'
         /\ Right(job'[j], Doc) => Right(job[j], Doc)'
<1>1. Present(remote)' = Present(remote)
  BY DEF Present
<1>2. Matching(job[j].since)' = Matching(job'[j].since)
  BY <1>1 DEF Matching
<1>3. ASSUME NEW M, NEW d PROVE Pos(M, d)' = Pos(M, d)
  BY DEF Pos, Before
<1>4. Listing(job[j])' = Listing(job'[j])
  BY <1>2 DEF Listing
<1>5. Below(job[j])' = Below(job'[j])
  BY <1>2, <1>3, <1>4 DEF Below
<1>6. Paging(job[j])' <=> Paging(job'[j])
  BY <1>2, <1>5, <1>4 DEF Paging
<1>7. Fresh(job[j])' <=> Fresh(job'[j])
  BY DEF Fresh
<1>8. Older(job[j].since)' = Older(job'[j].since)
  BY <1>1 DEF Older
<1>9. /\ Covers(job[j], Same)' <=> Covers(job'[j], Same')
      /\ Covers(job[j], Indexed)' <=> Covers(job'[j], Indexed')
      /\ Covers(job[j], Doc)' <=> Covers(job'[j], Doc)
  BY <1>1, <1>5, <1>8 DEF Covers, Pending
<1> QED BY <1>1, <1>5, <1>6, <1>7, <1>9 DEF Right

(* A step of a job, the answers of which hold what they should: items that *)
(* are done with, and not failed, must be good.                            *)
Skips(j, i) ==
  LET item == job[j].task[i].item
  IN  CheckItem(j, i) /\ (MaySkip(j, item.doc, item.ver) \/ item.ver.body = EmptyBody)

LEMMA JobStepRight ==
  ASSUME TypeOK, NEW j \in Job, NEW good, NEW more, Right(job[j], good), JobStep(j),
         good \subseteq more, ~disturbed'[j] \/ "outage" \notin Faults,
         job[j].full \/ NotBehind \/ Doc \subseteq more,
         \A i \in DOMAIN job[j].task :
           Skips(j, i) \/ WriteItem(j, i) => job[j].task[i].item.doc \in more
  PROVE  Right(job'[j], more)
<1> DEFINE r == job[j]
<1>1. r \in JobState /\ Right(r, more)
  BY RightMore DEF TypeOK
<1>2. \A P \in Answers(r) : Withheld(j, P) => P = Page(r)
  BY DEF Answers, Withheld, TypeOK
<1>3. CASE FetchPage(j)
  <2>1. PICK P \in Answers(r) : \E p \in InOrder(Yielded(P, r.since)) :
          /\ job' = [job EXCEPT ![j] = [Advance(r, P) EXCEPT
                    !.buf = @ \o [i \in 1 .. Cardinality(Yielded(P, r.since)) |->
                                    [doc |-> p[i], ver |-> remote[p[i]]]]]]
          /\ Withheld(j, P)
    BY <1>3 DEF FetchPage
  <2>2. P = Page(r)
    BY <1>2, <2>1
  <2>3. PICK p \in InOrder(Yielded(Page(r), r.since)) :
          job'[j] = [Advance(r, Page(r)) EXCEPT
                    !.buf = @ \o [i \in 1 .. Cardinality(Yielded(Page(r), r.since)) |->
                                    [doc |-> p[i], ver |-> remote[p[i]]]]]
    BY <2>1, <2>2 DEF TypeOK
  <2>4. r.phase = "fetch" /\ r.more
    BY <1>3 DEF FetchPage, WantsPage
  <2> HIDE DEF r
  <2>5. Right([Advance(r, Page(r)) EXCEPT
                 !.buf = @ \o [i \in 1 .. Cardinality(Yielded(Page(r), r.since)) |->
                                 [doc |-> p[i], ver |-> remote[p[i]]]]], more)
    BY <1>1, <2>4, RightFetch
  <2> QED BY <2>3, <2>5, Zenon
<1>4. CASE StartWindow(j)
  <2> DEFINE n == IF Len(r.buf) >= Window THEN Window ELSE Len(r.buf)
  <2>1. Window \in Nat /\ Len(r.buf) \in Nat
    BY <1>1, LenProperties, SizesAssumption DEF Window, JobState
  <2>2. n \in 0 .. Len(r.buf)
    BY <2>1
  <2>3. r.task = <<>>
        /\ job'[j] = [r EXCEPT !.task = [i \in 1 .. n |-> [item |-> r.buf[i], stage |-> "check"]],
                               !.buf = SubSeq(r.buf, n + 1, Len(r.buf))]
    BY <1>4 DEF StartWindow, TypeOK
  <2> HIDE DEF r, n
  <2>4. Right([r EXCEPT !.task = [i \in 1 .. n |-> [item |-> r.buf[i], stage |-> "check"]],
                        !.buf = SubSeq(r.buf, n + 1, Len(r.buf))], more)
    BY <1>1, <2>2, <2>3, RightWindow
  <2> QED BY <2>3, <2>4, Zenon
<1>5. CASE TaskStep(j)
  <2>1. PICK i \in DOMAIN r.task : CheckItem(j, i) \/ WriteItem(j, i) \/ ItemFails(j, i)
    BY <1>5 DEF TaskStep
  <2>2. PICK st \in {"check", "write", "done"} :
          \/ /\ job'[j] = [r EXCEPT !.task = [r.task EXCEPT ![i].stage = st]]
             /\ st = "done" => r.task[i].item.doc \in more
          \/ job'[j] = [r EXCEPT !.task = [r.task EXCEPT ![i].stage = st], !.failed = TRUE]
    <3>1. CASE CheckItem(j, i)
      <4>1. CASE Skips(j, i)
        <5>1. job'[j] = [r EXCEPT !.task = [r.task EXCEPT ![i].stage = "done"]]
          BY <4>1 DEF Skips, CheckItem, TypeOK
        <5> QED BY <4>1, <5>1
      <4>2. CASE ~Skips(j, i)
        <5>1. job'[j] = [r EXCEPT !.task = [r.task EXCEPT ![i].stage = "write"]]
          BY <3>1, <4>2 DEF Skips, CheckItem, TypeOK
        <5> QED BY <5>1
      <4> QED BY <4>1, <4>2
    <3>2. CASE WriteItem(j, i)
      <4>1. job'[j] = [r EXCEPT !.task = [r.task EXCEPT ![i].stage = "done"]]
        BY <3>2 DEF WriteItem, TypeOK
      <4> QED BY <3>2, <4>1
    <3>3. CASE ItemFails(j, i)
      <4>1. job'[j] = [r EXCEPT !.task = [r.task EXCEPT ![i].stage = "done"], !.failed = TRUE]
        BY <3>3 DEF ItemFails, TypeOK
      <4> QED BY <4>1
    <3> QED BY <2>1, <3>1, <3>2, <3>3
  <2> HIDE DEF r
  <2> QED BY <1>1, <2>2, RightTask
<1>6. CASE CloseWindow(j)
  <2>1. job'[j] = [r EXCEPT !.task = <<>>] /\ \A i \in DOMAIN r.task : r.task[i].stage = "done"
    BY <1>6 DEF CloseWindow, TypeOK
  <2> HIDE DEF r
  <2> QED BY <1>1, <2>1, RightClose
<1>7. CASE Finish(j)
  <2>1. /\ job'[j] = [r EXCEPT !.phase = "record", !.stamp = clock]
        /\ r.phase = "fetch" /\ ~r.more /\ r.buf = <<>> /\ r.task = <<>>
    BY <1>7 DEF Finish, TypeOK
  <2>0. r.full \/ NotBehind \/ Doc \subseteq more
    OBVIOUS
  <2> HIDE DEF r
  <2>2. Right([r EXCEPT !.phase = "record", !.stamp = clock], more)
    BY <1>1, <2>0, <2>1, RightFinish
  <2> QED BY <2>1, <2>2, Zenon
<1>8. CASE Record(j)
  <2>1. /\ r.phase = "record"
        /\ \/ job'[j] = IdleJob
           \/ job'[j] = [r EXCEPT !.phase = "enum", !.since = 0, !.space = 1, !.offset = 0, !.more = TRUE]
    BY <1>8 DEF Record, TypeOK
  <2> HIDE DEF r
  <2> QED BY <1>1, <2>1, RightRecord, RightIdle
<1>9. CASE EnumeratePage(j)
  <2>1. PICK P \in Answers(r) :
          /\ job' = [job EXCEPT ![j] = [Advance(r, P) EXCEPT !.ids = @ \union Yielded(P, r.since)]]
          /\ Withheld(j, P)
    BY <1>9 DEF EnumeratePage
  <2>2. P = Page(r)
    BY <1>2, <2>1
  <2>3. /\ job'[j] = [Advance(r, Page(r)) EXCEPT !.ids = @ \union Yielded(Page(r), r.since)]
        /\ r.phase = "enum" /\ r.more
    BY <1>9, <2>1, <2>2 DEF EnumeratePage, TypeOK
  <2> HIDE DEF r
  <2> QED BY <1>1, <2>3, RightEnumerate
<1>10. CASE Diff(j)
  <2>1. /\ r.phase = "enum" /\ ~r.more
        /\ \/ job'[j] = IdleJob
           \/ job'[j] = [r EXCEPT !.phase = "delete", !.stale = Stale(r.ids)]
    BY <1>10 DEF Diff, TypeOK
  <2> HIDE DEF r
  <2> QED BY <1>1, <2>1, RightDiff, RightIdle
<1>11. CASE FetchFails(j) \/ DbFails(j) \/ Delete(j)
  BY <1>11, RightIdle DEF FetchFails, DbFails, Delete, TypeOK
<1> QED BY <1>3, <1>4, <1>5, <1>6, <1>7, <1>8, <1>9, <1>10, <1>11 DEF JobStep

(* What a step of a job leaves alone.                                      *)
LEMMA JobStepFrame ==
  ASSUME TypeOK, Resting, NEW j \in Job, JobStep(j)
  PROVE  /\ remote' = remote /\ clock' = clock
         /\ \A k \in Job \ {j} : job'[k] = job[k] /\ disturbed'[k] = disturbed[k]
         /\ disturbed[j] => disturbed'[j]
         /\ Active(j)
         /\ Active(j)' => job'[j].full = job[j].full
         /\ ~Active(j)' => job'[j].task = <<>>
<1>1. /\ remote' = remote /\ clock' = clock
      /\ \A k \in Job \ {j} : job'[k] = job[k] /\ disturbed'[k] = disturbed[k]
      /\ disturbed[j] => disturbed'[j]
  BY DEF JobStep, FetchPage, FetchFails, StartWindow, TaskStep, CheckItem, WriteItem,
         ItemFails, CloseWindow, Finish, Record, EnumeratePage, Diff, Delete, DbFails,
         Withheld, TypeOK
<1>2. Active(j)
  <2>1. job[j].task # <<>> => Active(j)
    BY DEF Resting
  <2>2. TaskStep(j) => job[j].task # <<>>
    BY DEF TaskStep
  <2> QED BY <2>1, <2>2 DEF JobStep, Active, FetchPage, FetchFails, WantsPage, StartWindow,
             CloseWindow, Finish, Record, EnumeratePage, Diff, Delete, DbFails
<1>3. /\ Active(j)' => job'[j].full = job[j].full
      /\ ~Active(j)' => job'[j].task = <<>>
  <2> DEFINE r == job[j]
  <2>1. r \in JobState /\ r.phase # "idle"
    BY <1>2 DEF TypeOK, Active
  <2>2. CASE \/ FetchFails(j) \/ Delete(j) \/ DbFails(j) \/ Record(j) \/ Diff(j)
    <3>1. \/ job'[j] = IdleJob
          \/ job'[j] = [r EXCEPT !.phase = "enum", !.since = 0, !.space = 1, !.offset = 0, !.more = TRUE]
          \/ job'[j] = [r EXCEPT !.phase = "delete", !.stale = Stale(r.ids)]
      BY <2>2, Zenon DEF FetchFails, Delete, DbFails, Record, Diff, TypeOK
    <3>2. CASE job'[j] = IdleJob
      BY <3>2 DEF IdleJob, Active
    <3>3. CASE job'[j] # IdleJob
      BY <2>1, <3>1, <3>3 DEF JobState, Active
    <3> QED BY <3>2, <3>3
  <2>3. CASE FetchPage(j) \/ EnumeratePage(j)
    <3>1. PICK P \in Answers(r) : job'[j] = Advance(r, P)
             \/ (\E b : job'[j] = [Advance(r, P) EXCEPT !.buf = b])
             \/ (\E s : job'[j] = [Advance(r, P) EXCEPT !.ids = s])
      BY <2>3, Zenon DEF FetchPage, EnumeratePage, TypeOK
    <3> QED BY <2>1, <3>1 DEF Advance, JobState, Active
  <2>4. CASE StartWindow(j) \/ CloseWindow(j) \/ Finish(j)
    BY <2>1, <2>4 DEF StartWindow, CloseWindow, Finish, TypeOK, JobState, Active
  <2>5. CASE TaskStep(j)
    BY <2>1, <2>5 DEF TaskStep, CheckItem, WriteItem, ItemFails, TypeOK, JobState, Active
  <2> QED BY <2>2, <2>3, <2>4, <2>5 DEF JobStep
<1> QED BY <1>1, <1>2, <1>3

LEMMA RestingInit == Init => Resting
BY DEF Init, Resting, IdleJob

LEMMA RestingNext ==
  ASSUME TypeOK, Resting, [Next]_vars
  PROVE  Resting'
<1>1. ASSUME NEW j \in Job, JobStep(j) PROVE Resting'
  <2>1. \A k \in Job \ {j} : job'[k] = job[k]
    BY <1>1, JobStepFrame
  <2>2. ~Active(j)' => job'[j].task = <<>>
    BY <1>1, JobStepFrame
  <2> QED BY <2>1, <2>2 DEF Resting, Active
<1>2. CASE job' = job
  BY <1>2 DEF Resting, Active
<1>3. ASSUME NEW j \in Job, (\E full \in BOOLEAN : StartSync(j, full)) \/ StartReconcile(j)
      PROVE  Resting'
  <2>1. job'[j].task = <<>> /\ \A k \in Job \ {j} : job'[k] = job[k]
    <3>1. CASE StartReconcile(j)
      BY <3>1 DEF StartReconcile, IdleJob, TypeOK
    <3>2. ASSUME NEW full \in BOOLEAN, StartSync(j, full)
          PROVE  job'[j].task = <<>> /\ \A k \in Job \ {j} : job'[k] = job[k]
      BY <3>2 DEF StartSync, IdleJob, TypeOK
    <3> QED BY <1>3, <3>1, <3>2
  <2> QED BY <2>1 DEF Resting, Active
<1>4. CASE Crash
  BY <1>4 DEF Crash, Resting, Active, IdleJob
<1> QED BY <1>1, <1>2, <1>3, <1>4
        DEF Next, vars, SourceEdit, SourceDelete, PostDocument

(* A fresh item is of a document that the source still holds.              *)
LEMMA FreshItem ==
  ASSUME TypeOK, NEW j \in Job, Fresh(job[j]), NEW i \in DOMAIN job[j].task
  PROVE  LET item == job[j].task[i].item
         IN  item.doc \in Present(remote) /\ item.ver = remote[item.doc]
BY TaskItem, ValuesAssumption DEF Fresh, Present

-------------------------------------------------------------------------------
(* A full sync that nothing interferes with *)

LEMMA CleanStepSame ==
  ASSUME TypeOK, Resting, NEW j \in Job, JobStep(j), Right(job[j], Same)
  PROVE  Same \subseteq Same'
<1>1. remote' = remote
  BY JobStepFrame
<1>2. ASSUME NEW d \in Same, db'[d] # db[d], remote[d].body # EmptyBody
      PROVE  db'[d] = remote[d]
  <2>1. d \in Doc /\ d \in Present(remote)
    BY DEF Same, Present
  <2>2. CASE \E i \in DOMAIN job[j].task :
              /\ WriteItem(j, i) /\ job[j].task[i].item.doc = d
              /\ db'[d] = job[j].task[i].item.ver
    BY <2>2, FreshItem DEF Right
  <2>3. CASE Delete(j) /\ d \in job[j].stale
    BY <2>1, <2>3 DEF Delete, Right
  <2> QED BY <1>2, <2>1, <2>2, <2>3, JobStepRows
<1> QED BY <1>1, <1>2 DEF Same, Present

LEMMA CleanStepRight ==
  ASSUME TypeOK, Resting, NEW j \in Job, JobStep(j), job[j].full, ~disturbed'[j],
         Right(job[j], Same)
  PROVE  Right(job[j], Same)'
<1>1. remote' = remote
  BY JobStepFrame
<1>2. ASSUME NEW i \in DOMAIN job[j].task, Skips(j, i) \/ WriteItem(j, i)
      PROVE  job[j].task[i].item.doc \in Same'
  <2> DEFINE item == job[j].task[i].item
  <2>1. item.doc \in Present(remote) /\ item.ver = remote[item.doc]
    BY FreshItem DEF Right
  <2>2. CASE Skips(j, i)
    <3>1. remote[item.doc].body = EmptyBody
      BY <2>1, <2>2 DEF Skips, MaySkip
    <3> QED BY <1>1, <2>1, <3>1 DEF Same, Present
  <2>3. CASE WriteItem(j, i)
    <3>1. db'[item.doc] = remote[item.doc]
      BY <2>1, <2>3 DEF WriteItem, TypeOK, Present
    <3> QED BY <1>1, <2>1, <3>1 DEF Same, Present
  <2> QED BY <1>2, <2>2, <2>3
<1>3. Right(job'[j], Same')
  BY <1>2, CleanStepSame, JobStepRight
<1> QED BY <1>1, <1>3, RightNext

LEMMA CleanStepStale ==
  ASSUME TypeOK, NEW j \in Job, JobStep(j), Right(job[j], Same),
         job[j].phase = "delete" =>
           Present(db) \subseteq job[j].stale \union Present(remote),
         job'[j].phase = "delete"
  PROVE  Present(db') \subseteq job'[j].stale \union Present(remote)
<1> DEFINE r == job[j]
<1>1. r \in JobState
  BY DEF TypeOK
<1>2. CASE Diff(j)
  <2>1. r.ids = Present(remote)
    BY <1>1, <1>2, RightDiff DEF Diff
  <2>2. job'[j].stale = Stale(r.ids) /\ Stale(r.ids) # {} /\ db' = db
    BY <1>1, <1>2 DEF Diff, TypeOK, IdleJob, JobState
  <2> QED BY <2>1, <2>2 DEF Stale
<1>3. CASE TaskStep(j)
  <2>1. r.phase = "delete" /\ job'[j].stale = r.stale
    BY <1>1, <1>3 DEF TaskStep, CheckItem, WriteItem, ItemFails, TypeOK, JobState
  <2>2. ASSUME NEW d \in Present(db'), db'[d] # db[d] PROVE d \in Present(remote)
    <3>1. PICK i \in DOMAIN r.task : r.task[i].item.doc = d
      BY <2>2, JobStepRows DEF Present
    <3> QED BY <3>1, FreshItem DEF Right
  <2> QED BY <2>1, <2>2 DEF Present
<1>4. CASE CloseWindow(j)
  BY <1>1, <1>4 DEF CloseWindow, TypeOK, JobState
<1>5. ~Diff(j) /\ ~TaskStep(j) /\ ~CloseWindow(j) => FALSE
  <2>1. CASE FetchPage(j) \/ EnumeratePage(j)
    <3>1. PICK P \in Answers(r) : job'[j] = Advance(r, P)
             \/ (\E b : job'[j] = [Advance(r, P) EXCEPT !.buf = b])
             \/ (\E s : job'[j] = [Advance(r, P) EXCEPT !.ids = s])
      BY <2>1, Zenon DEF FetchPage, EnumeratePage, TypeOK
    <3>2. job'[j].phase = r.phase
      BY <1>1, <3>1 DEF Advance, JobState
    <3> QED BY <2>1, <3>2 DEF FetchPage, WantsPage, EnumeratePage
  <2>2. CASE StartWindow(j)
    BY <1>1, <2>2 DEF StartWindow, TypeOK, JobState
  <2>4. CASE Finish(j)
    BY <1>1, <2>4 DEF Finish, TypeOK, JobState
  <2>5. CASE Record(j)
    <3>1. \/ job'[j] = IdleJob
          \/ job'[j] = [r EXCEPT !.phase = "enum", !.since = 0, !.space = 1, !.offset = 0, !.more = TRUE]
      BY <2>5, Zenon DEF Record, TypeOK
    <3>2. IdleJob.phase # "delete"
      BY DEF IdleJob
    <3> QED BY <1>1, <3>1, <3>2 DEF JobState
  <2>3. CASE FetchFails(j) \/ DbFails(j) \/ Delete(j)
    BY <2>3 DEF FetchFails, DbFails, Delete, TypeOK, IdleJob
  <2> QED BY <2>1, <2>2, <2>3, <2>4, <2>5 DEF JobStep
<1> QED BY <1>2, <1>3, <1>4, <1>5

LEMMA CleanInit == Init => CleanInv
BY DEF Init, CleanInv, Active, IdleJob

LEMMA CleanStart ==
  ASSUME TypeOK, CleanInv, NEW j \in Job,
         (\E full \in BOOLEAN : StartSync(j, full)) \/ StartReconcile(j)
  PROVE  CleanInv'
<1>1. /\ Ghosts(j) /\ ~Active(j) /\ remote' = remote /\ db' = db
      /\ \A k \in Job \ {j} : job'[k] = job[k]
  BY DEF StartSync, StartReconcile, TypeOK
<1>2. ASSUME NEW k \in Job \ {j}, Active(k)' PROVE disturbed'[k]
  BY <1>1, <1>2 DEF Ghosts, Active
<1>3. ASSUME Active(j)', job'[j].full, ~disturbed'[j]
      PROVE  /\ \A k \in Job \ {j} : ~Active(k)'
             /\ Right(job[j], Same)'
             /\ job'[j].phase = "fetch"
  <2>1. \A k \in Job \ {j} : ~Active(k)'
    BY <1>1, <1>3 DEF Ghosts, Active
  <2>2. job'[j] = [IdleJob EXCEPT !.phase = "fetch", !.full = TRUE, !.more = TRUE,
                                  !.since = 0]
    <3>1. CASE StartReconcile(j)
      BY <1>3, <3>1 DEF StartReconcile, IdleJob, TypeOK
    <3>2. ASSUME NEW full \in BOOLEAN, StartSync(j, full)
          PROVE  job'[j] = [IdleJob EXCEPT !.phase = "fetch", !.full = TRUE, !.more = TRUE,
                                           !.since = 0]
      <4>1. job'[j] = [IdleJob EXCEPT !.phase = "fetch", !.full = full, !.more = TRUE,
                                      !.since = IF full THEN 0 ELSE state.wm]
        BY <3>2 DEF StartSync, TypeOK
      <4>2. full = TRUE
        BY <1>3, <4>1 DEF IdleJob
      <4> QED BY <4>1, <4>2
    <3> QED BY <3>1, <3>2
  <2>3. 0 \in 0 .. MaxClock /\ Older(0) = {}
    BY SizesAssumption, Matches
  <2>4. Right(job'[j], Same')
    <3>1. Older(0) \subseteq Same'
      BY <2>3
    <3>2. Right([IdleJob EXCEPT !.phase = "fetch", !.full = TRUE, !.more = TRUE,
                                !.since = 0], Same')
      BY <2>3, <3>1, RightStart
    <3> QED BY <2>2, <3>2, Zenon
  <2>5. job'[j].phase = "fetch"
    BY <2>2 DEF IdleJob
  <2> QED BY <1>1, <2>1, <2>4, <2>5, RightNext
<1> QED BY <1>2, <1>3 DEF CleanInv, Active

LEMMA CleanJobStep ==
  ASSUME TypeOK, Resting, CleanInv, NEW j \in Job, JobStep(j)
  PROVE  CleanInv'
<1>1. /\ remote' = remote /\ Active(j)
      /\ \A k \in Job \ {j} : job'[k] = job[k] /\ disturbed'[k] = disturbed[k]
      /\ disturbed[j] => disturbed'[j]
      /\ Active(j)' => job'[j].full = job[j].full
  BY JobStepFrame
<1>2. ASSUME NEW k \in Job \ {j}, Active(k)', job'[k].full, ~disturbed'[k] PROVE FALSE
  BY <1>1, <1>2 DEF CleanInv, Active
<1>3. ASSUME Active(j)', job'[j].full, ~disturbed'[j]
      PROVE  /\ \A k \in Job \ {j} : ~Active(k)'
             /\ Right(job[j], Same)'
             /\ job'[j].phase = "delete" =>
                  Present(db)' \subseteq job'[j].stale \union Present(remote)'
  <2>1. /\ job[j].full /\ ~disturbed[j]
        /\ \A k \in Job \ {j} : ~Active(k)
        /\ Right(job[j], Same)
        /\ job[j].phase = "delete" =>
             Present(db) \subseteq job[j].stale \union Present(remote)
    BY <1>1, <1>3 DEF CleanInv
  <2>2. \A k \in Job \ {j} : ~Active(k)'
    BY <1>1, <2>1 DEF Active
  <2>3. Right(job[j], Same)'
    BY <1>3, <2>1, CleanStepRight
  <2>4. job'[j].phase = "delete" =>
          Present(db') \subseteq job'[j].stale \union Present(remote)
    BY <2>1, CleanStepStale
  <2> QED BY <1>1, <2>2, <2>3, <2>4 DEF Present
<1> QED BY <1>2, <1>3 DEF CleanInv

LEMMA CleanNext ==
  ASSUME TypeOK, Resting, CleanInv, [Next]_vars
  PROVE  CleanInv'
<1>1. ASSUME DisturbAll, job' = job PROVE CleanInv'
  BY <1>1 DEF DisturbAll, CleanInv, Active
<1>2. CASE UNCHANGED vars
  <2>1. UNCHANGED <<remote, db, job, disturbed>>
    BY <1>2 DEF vars
  <2>2. Same' = Same /\ Present(db)' = Present(db) /\ Present(remote)' = Present(remote)
    BY <2>1 DEF Same, Present
  <2>3. \A j \in Job : Right(job[j], Same) => Right(job[j], Same)'
    BY <2>1, <2>2, RightNext
  <2> QED BY <2>1, <2>2, <2>3 DEF CleanInv, Active
<1>3. CASE Crash
  BY <1>3 DEF Crash, CleanInv, Active, IdleJob
<1> QED BY <1>1, <1>2, <1>3, CleanStart, CleanJobStep
        DEF Next, SourceEdit, SourceDelete, PostDocument

(* Whatever rows, jobs and failures came before: a full sync that nothing  *)
(* interferes with ends with every text and all metadata of the source in  *)
(* the index, and no row of a document that is gone - for every number of  *)
(* documents and pages.                                                    *)
THEOREM FullSyncConverges == Spec => CleanFullSyncConverges
<1>1. Spec => [](Resting /\ CleanInv)
  BY RestingInit, RestingNext, CleanInit, CleanNext, TypeCorrect, PTL DEF Spec
<1>2. TypeOK /\ Resting /\ CleanInv /\ [Next]_vars =>
        [\A j \in Job :
           /\ Diff(j) \/ Delete(j)
           /\ ~Active(j)'
           /\ job[j].full /\ ~job[j].failed /\ ~disturbed[j]
           => Converged']_vars
  <2> SUFFICES ASSUME TypeOK, CleanInv, NEW j \in Job, Diff(j) \/ Delete(j), ~Active(j)',
                      job[j].full, ~job[j].failed, ~disturbed[j]
               PROVE  Converged'
    OBVIOUS
  <2> DEFINE r == job[j]
  <2>1. r \in JobState /\ r.phase \in {"enum", "delete"} /\ remote' = remote
    BY DEF TypeOK, Diff, Delete
  <2>2. /\ Right(r, Same) /\ Present(remote) \subseteq Same
        /\ r.phase = "delete" => Present(db) \subseteq r.stale \union Present(remote)
    BY <2>1 DEF CleanInv, Active, Right, Covers
  <2>3. \A d \in Indexable : db[d] = remote[d]
    BY <2>2 DEF Indexable, Same
  <2>4. CASE Diff(j)
    <3>1. r.ids = Present(remote) /\ db' = db
      BY <2>1, <2>2, <2>4, RightDiff DEF Diff
    <3>2. Stale(r.ids) = {}
      BY <2>4 DEF Diff, Active, TypeOK, JobState
    <3> QED BY <2>1, <2>3, <3>1, <3>2 DEF Converged, Indexable, Present, Stale
  <2>5. CASE Delete(j)
    <3>1. r.stale \intersect Present(remote) = {}
      BY <2>2, <2>5 DEF Delete, Right
    <3>2. db' = [d \in Doc |-> IF d \in r.stale THEN NoDoc ELSE db[d]] /\ r.phase = "delete"
      BY <2>5 DEF Delete
    <3> QED BY <2>1, <2>2, <2>3, <3>1, <3>2 DEF Converged, Indexable, Present
  <2> QED BY <2>4, <2>5
<1> QED BY <1>1, <1>2, TypeCorrect, PTL DEF Spec, CleanFullSyncConverges

-------------------------------------------------------------------------------
(* Jobs that overlap, over a quiet source *)

Quiet == ~BusySource /\ NotBehind /\ "item" \notin Faults /\ "outage" \notin Faults

(* The parts of a job's state that the watermark comes from.               *)
LEMMA StepStamp ==
  ASSUME TypeOK, Resting, "item" \notin Faults, NEW j \in Job, JobStep(j), ~job[j].failed,
         job[j].phase = "record" => job[j].stamp <= clock
  PROVE  /\ ~job'[j].failed
         /\ job'[j].phase = "record" => job'[j].stamp <= clock
         /\ state' = state \/ (Record(j) /\ state'.wm = job[j].stamp)
<1> DEFINE r == job[j]
<1>1. r \in JobState /\ clock \in Nat
  BY SizesAssumption DEF TypeOK
<1>2. /\ ~IdleJob.failed /\ IdleJob.phase # "record"
  BY DEF IdleJob
<1>3. CASE FetchFails(j) \/ DbFails(j) \/ Delete(j) \/ Diff(j) \/ Record(j)
  <2>1. \/ job'[j] = IdleJob
        \/ job'[j] = [r EXCEPT !.phase = "enum", !.since = 0, !.space = 1, !.offset = 0, !.more = TRUE]
        \/ job'[j] = [r EXCEPT !.phase = "delete", !.stale = Stale(r.ids)]
    BY <1>3, Zenon DEF FetchFails, Delete, DbFails, Record, Diff, TypeOK
  <2>2. ~job'[j].failed /\ job'[j].phase # "record"
    BY <1>1, <1>2, <2>1 DEF JobState
  <2>3. state' = state \/ (Record(j) /\ state'.wm = job[j].stamp)
    BY <1>3 DEF FetchFails, Delete, DbFails, Record, Diff
  <2> QED BY <2>2, <2>3
<1>4. CASE FetchPage(j) \/ EnumeratePage(j)
  <2>1. PICK P \in Answers(r) : job'[j] = Advance(r, P)
           \/ (\E b : job'[j] = [Advance(r, P) EXCEPT !.buf = b])
           \/ (\E s : job'[j] = [Advance(r, P) EXCEPT !.ids = s])
    BY <1>4, Zenon DEF FetchPage, EnumeratePage, TypeOK
  <2>2. P \in SUBSET Doc
    BY <2>1, AnswersType DEF Present
  <2>3. /\ Advance(r, P) \in JobState /\ Advance(r, P).phase = r.phase
        /\ Advance(r, P).failed = r.failed /\ Advance(r, P).stamp = r.stamp
    BY <1>1, <2>2, AdvanceFields
  <2>4. job'[j].phase = r.phase /\ job'[j].failed = r.failed /\ job'[j].stamp = r.stamp
    BY <2>1, <2>3 DEF JobState
  <2>5. state' = state
    BY <1>4 DEF FetchPage, EnumeratePage
  <2> QED BY <2>4, <2>5
<1>5. CASE StartWindow(j)
  BY <1>1, <1>5 DEF StartWindow, TypeOK, JobState
<1>6. CASE CloseWindow(j)
  BY <1>1, <1>6 DEF CloseWindow, TypeOK, JobState
<1>7. CASE Finish(j)
  BY <1>1, <1>7 DEF Finish, TypeOK, JobState
<1>8. CASE TaskStep(j)
  <2>1. PICK i \in DOMAIN r.task : CheckItem(j, i) \/ WriteItem(j, i)
    BY <1>8 DEF TaskStep, ItemFails
  <2>2. \E st : job'[j] = [r EXCEPT !.task[i].stage = st]
    BY <2>1, Zenon DEF CheckItem, WriteItem, TypeOK
  <2>3. job'[j].phase = r.phase /\ job'[j].failed = r.failed /\ job'[j].stamp = r.stamp
    BY <1>1, <2>2 DEF JobState
  <2>4. state' = state
    BY <2>1 DEF CheckItem, WriteItem
  <2> QED BY <2>3, <2>4
<1> QED BY <1>3, <1>4, <1>5, <1>6, <1>7, <1>8 DEF JobStep

LEMMA QuietStepIndexed ==
  ASSUME TypeOK, Resting, NEW j \in Job, JobStep(j), Right(job[j], Indexed)
  PROVE  Indexed \subseteq Indexed'
<1>1. remote' = remote
  BY JobStepFrame
<1>2. ASSUME NEW d \in Indexed, db'[d] # db[d]
      PROVE  db'[d] = remote[d]
  <2>1. d \in Doc /\ d \in Present(remote)
    BY DEF Indexed, Present
  <2>2. CASE \E i \in DOMAIN job[j].task :
              /\ WriteItem(j, i) /\ job[j].task[i].item.doc = d
              /\ db'[d] = job[j].task[i].item.ver
    BY <2>2, FreshItem DEF Right
  <2>3. CASE Delete(j) /\ d \in job[j].stale
    BY <2>1, <2>3 DEF Delete, Right
  <2> QED BY <1>2, <2>1, <2>2, <2>3, JobStepRows
<1> QED BY <1>1, <1>2 DEF Indexed, Present, Current

LEMMA QuietStepRight ==
  ASSUME TypeOK, Resting, NotBehind, "outage" \notin Faults, NEW j \in Job, JobStep(j),
         Right(job[j], Indexed)
  PROVE  Right(job[j], Indexed)'
<1>1. remote' = remote /\ Indexed \subseteq Indexed'
  BY JobStepFrame, QuietStepIndexed
<1>2. ASSUME NEW i \in DOMAIN job[j].task, Skips(j, i) \/ WriteItem(j, i)
      PROVE  job[j].task[i].item.doc \in Indexed'
  <2> DEFINE item == job[j].task[i].item
  <2>1. item.doc \in Present(remote) /\ item.ver = remote[item.doc]
    BY FreshItem DEF Right
  <2>2. CASE Skips(j, i)
    <3>1. item.doc \in Indexed
      BY <2>1, <2>2 DEF Skips, MaySkip, Indexed, Current
    <3> QED BY <1>1, <3>1
  <2>3. CASE WriteItem(j, i)
    <3>1. db'[item.doc] = remote[item.doc] /\ remote[item.doc] # NoDoc
      BY <2>1, <2>3 DEF WriteItem, TypeOK, Present
    <3> QED BY <1>1, <2>1, <3>1 DEF Indexed, Current, Present
  <2> QED BY <1>2, <2>2, <2>3
<1>3. Right(job'[j], Indexed')
  BY <1>1, <1>2, JobStepRight
<1> QED BY <1>1, <1>3, RightNext

LEMMA QuietInit == Init => QuietInv
<1> SUFFICES ASSUME Init PROVE QuietInv
  OBVIOUS
<1>1. \A d \in Present(remote) : remote[d].upd = 1
  BY DEF Init, Present
<1>2. WatermarkCovers
  BY <1>1 DEF Init, WatermarkCovers, Indexable
<1> QED BY <1>1, <1>2 DEF Init, QuietInv, Active, IdleJob

LEMMA QuietSource ==
  ASSUME TypeOK, Quiet, QuietInv, NEW d \in Doc, SourceEdit(d) \/ SourceDelete(d)
  PROVE  QuietInv'
<1>1. \A j \in Job : ~Active(j) /\ job[j].phase = "idle"
  BY DEF SourceEdit, SourceDelete, SourceMayChange, Quiet, Active
<1>2. job' = job /\ db' = db /\ state' = state
  BY DEF SourceEdit, SourceDelete
<1>3. \A j \in Job : /\ ~job'[j].failed /\ ~Active(j)' /\ job'[j].phase # "record"
  BY <1>1, <1>2 DEF QuietInv, Active
<1>4. state.wm \in Nat /\ clock \in Nat
  BY SizesAssumption DEF TypeOK
<1>5. CASE SourceEdit(d)
  <2>1. PICK ver : /\ remote' = [remote EXCEPT ![d] = ver] /\ ver.upd = clock + 1
                   /\ clock' = clock + 1
    BY <1>5 DEF SourceEdit
  <2>2. state'.wm <= clock' /\ \A e \in Present(remote)' : remote'[e].upd <= clock'
    <3>1. ASSUME NEW e \in Present(remote)' PROVE remote'[e].upd <= clock'
      <4>1. CASE e = d
        BY <1>4, <2>1, <3>1, <4>1 DEF TypeOK
      <4>2. CASE e # d
        <5>1. remote'[e] = remote[e] /\ e \in Present(remote)
          BY <2>1, <3>1, <4>2 DEF TypeOK, Present
        <5>2. remote[e].upd \in Nat /\ remote[e].upd <= clock
          BY <5>1, Updates DEF QuietInv
        <5> QED BY <1>4, <2>1, <5>1, <5>2
      <4> QED BY <4>1, <4>2
    <3>2. state.wm <= clock
      BY DEF QuietInv
    <3>3. state'.wm <= clock'
      BY <1>2, <1>4, <2>1, <3>2
    <3> QED BY <3>1, <3>3
  <2>3. ASSUME NEW e \in Indexable', remote'[e].upd <= state'.wm
        PROVE  Current(e)'
    <3>1. e # d
      BY <1>2, <1>4, <2>1, <2>3 DEF QuietInv, TypeOK
    <3>2. remote'[e] = remote[e] /\ e \in Indexable
      BY <2>1, <3>1 DEF TypeOK, Indexable, Present
    <3> QED BY <1>2, <2>3, <3>2 DEF QuietInv, WatermarkCovers, Current
  <2>4. WatermarkCovers'
    BY <2>3 DEF WatermarkCovers
  <2> HIDE DEF WatermarkCovers
  <2> QED BY <1>3, <2>2, <2>4 DEF QuietInv
<1>6. CASE SourceDelete(d)
  <2>1. remote' = [remote EXCEPT ![d] = NoDoc] /\ clock' = clock
    BY <1>6 DEF SourceDelete
  <2>2. ASSUME NEW e \in Indexable', remote'[e].upd <= state'.wm
        PROVE  Current(e)'
    <3>1. remote'[e] = remote[e] /\ e \in Indexable
      BY <2>1 DEF TypeOK, Indexable, Present
    <3> QED BY <1>2, <2>2, <3>1 DEF QuietInv, WatermarkCovers, Current
  <2>3. \A e \in Present(remote)' : remote'[e].upd <= clock'
    BY <2>1 DEF TypeOK, Present, QuietInv
  <2> QED BY <1>2, <1>3, <2>1, <2>2, <2>3 DEF QuietInv, WatermarkCovers
<1> QED BY <1>5, <1>6

(* What is posted is newer than what the source has, whoever listed it.    *)
LEMMA QuietPost ==
  ASSUME TypeOK, QuietInv, NEW d \in Doc, NEW body \in Body, NEW meta \in Meta,
         PostDocument(d, body, meta)
  PROVE  QuietInv'
<1> DEFINE v == [body |-> body, meta |-> meta, upd |-> clock + 1]
<1>1. /\ db' = [db EXCEPT ![d] = v] /\ v.upd = clock + 1 /\ clock' = clock + 1
      /\ remote' = remote /\ state' = state /\ job' = job
  BY DEF PostDocument
<1>2. clock \in Nat /\ state.wm \in Nat /\ v # NoDoc
  <2>1. clock + 1 \in 1 .. MaxClock
    BY SizesAssumption DEF PostDocument, TypeOK
  <2>2. v \in Version
    BY <2>1 DEF Version
  <2> QED BY <2>2, SizesAssumption, ValuesAssumption DEF TypeOK
<1> HIDE DEF v
<1>3. ASSUME NEW e \in Present(remote), e = d \/ Current(e) PROVE Current(e)'
  <2>1. CASE e = d
    <3>1. remote[d].upd \in Nat /\ remote[d].upd <= clock
      BY <1>3, <2>1, Updates DEF QuietInv
    <3>2. db'[d] = v
      BY <1>1 DEF TypeOK
    <3>3. v.upd > remote[d].upd
      BY <1>1, <1>2, <3>1
    <3> QED BY <1>1, <1>2, <2>1, <3>2, <3>3 DEF Current
  <2>2. CASE e # d
    <3>1. db'[e] = db[e]
      BY <1>1, <2>2 DEF TypeOK
    <3> QED BY <1>1, <1>3, <2>2, <3>1 DEF Current
  <2> QED BY <2>1, <2>2
<1>4. Indexed \subseteq Indexed' /\ WatermarkCovers'
  BY <1>1, <1>3 DEF Indexed, Present, QuietInv, WatermarkCovers, Indexable
<1>5. ASSUME NEW j \in Job, Active(j)' PROVE Right(job[j], Indexed)'
  <2>1. Right(job'[j], Indexed')
    BY <1>1, <1>4, <1>5, RightMore DEF QuietInv, Active
  <2> QED BY <1>1, <2>1, RightNext
<1>6. \A j \in Job : job[j].stamp \in Nat
  BY SizesAssumption DEF TypeOK, JobState
<1>7. \A e \in Present(remote) : remote[e].upd \in Nat
  BY Updates
<1>8. state'.wm <= clock' /\ \A e \in Present(remote)' : remote'[e].upd <= clock'
  BY <1>1, <1>2, <1>7 DEF QuietInv, Present
<1>9. ASSUME NEW j \in Job, job'[j].phase = "record" PROVE job'[j].stamp <= clock'
  BY <1>1, <1>2, <1>6, <1>9 DEF QuietInv
<1> QED BY <1>1, <1>4, <1>5, <1>8, <1>9 DEF QuietInv

(* A sync that starts relies on the watermark.                             *)
LEMMA QuietStart ==
  ASSUME TypeOK, QuietInv, NEW j \in Job,
         (\E full \in BOOLEAN : StartSync(j, full)) \/ StartReconcile(j)
  PROVE  QuietInv'
<1>1. /\ remote' = remote /\ db' = db /\ state' = state /\ clock' = clock
      /\ \A k \in Job \ {j} : job'[k] = job[k]
  BY DEF StartSync, StartReconcile, TypeOK
<1>2. Indexed' = Indexed
  BY <1>1 DEF Indexed, Present, Current
<1>3. /\ Right(job'[j], Indexed) /\ ~job'[j].failed /\ job'[j].phase # "record"
  <2>1. ASSUME NEW full \in BOOLEAN, StartSync(j, full)
        PROVE  Right(job'[j], Indexed) /\ ~job'[j].failed /\ job'[j].phase # "record"
    <3> DEFINE since == IF full THEN 0 ELSE state.wm
    <3>1. job'[j] = [IdleJob EXCEPT !.phase = "fetch", !.full = full, !.more = TRUE,
                                    !.since = since]
      BY <2>1 DEF StartSync, TypeOK
    <3>2. since \in 0 .. MaxClock /\ (full => since = 0)
      BY SizesAssumption DEF TypeOK
    <3>3. Older(since) \subseteq Indexed
      <4>1. CASE full
        BY <3>2, <4>1, Matches
      <4>2. CASE ~full
        BY <4>2 DEF Older, Indexed, QuietInv, WatermarkCovers, Indexable
      <4> QED BY <4>1, <4>2
    <3> HIDE DEF since
    <3>4. Right([IdleJob EXCEPT !.phase = "fetch", !.full = full, !.more = TRUE,
                                !.since = since], Indexed)
      BY <3>2, <3>3, RightStart
    <3>5. ~job'[j].failed /\ job'[j].phase # "record"
      BY <3>1 DEF IdleJob
    <3> QED BY <3>1, <3>4, <3>5, Zenon
  <2>2. CASE StartReconcile(j)
    <3>1. job'[j] = [IdleJob EXCEPT !.phase = "enum", !.more = TRUE]
      BY <2>2 DEF StartReconcile, TypeOK
    <3>2. /\ job'[j].phase = "enum" /\ job'[j].since = 0
          /\ job'[j].space = 1 /\ job'[j].offset = 0
          /\ job'[j].more = TRUE /\ job'[j].ids = {} /\ ~job'[j].full /\ ~job'[j].failed
          /\ job'[j].buf = <<>> /\ job'[j].task = <<>>
      BY <3>1 DEF IdleJob
    <3>3. Fresh(job'[j])
      BY <3>2 DEF Fresh
    <3> QED BY <3>2, <3>3, RightEnumeration
  <2> QED BY <2>1, <2>2
<1>4. ASSUME NEW k \in Job, Active(k)' PROVE Right(job[k], Indexed)'
  <2>1. Right(job'[k], Indexed)
    BY <1>1, <1>3, <1>4 DEF QuietInv, Active
  <2> QED BY <1>1, <1>2, <2>1, RightNext
<1>5. WatermarkCovers'
  BY <1>1 DEF QuietInv, WatermarkCovers, Indexable, Present, Current
<1> QED BY <1>1, <1>3, <1>4, <1>5 DEF QuietInv

LEMMA QuietJobStep ==
  ASSUME TypeOK, Resting, Quiet, QuietInv, NEW j \in Job, JobStep(j)
  PROVE  QuietInv'
<1>1. /\ remote' = remote /\ clock' = clock /\ Active(j)
      /\ \A k \in Job \ {j} : job'[k] = job[k]
  BY JobStepFrame
<1>2. Right(job[j], Indexed) /\ ~job[j].failed
      /\ (job[j].phase = "record" => job[j].stamp <= clock)
  BY <1>1 DEF QuietInv
<1>3. Indexed \subseteq Indexed'
  BY <1>2, QuietStepIndexed
<1>4. /\ ~job'[j].failed
      /\ job'[j].phase = "record" => job'[j].stamp <= clock
      /\ state' = state \/ (Record(j) /\ state'.wm = job[j].stamp)
  BY <1>2, StepStamp DEF Quiet
<1>5. ASSUME NEW k \in Job, Active(k)' PROVE Right(job[k], Indexed)'
  <2>1. CASE k = j
    BY <1>2, <2>1, QuietStepRight DEF Quiet
  <2>2. CASE k # j
    <3>1. job'[k] = job[k] /\ Right(job[k], Indexed)
      BY <1>1, <1>5, <2>2 DEF QuietInv, Active
    <3>2. Right(job'[k], Indexed')
      BY <1>3, <3>1, RightMore
    <3> QED BY <1>1, <3>2, RightNext
  <2> QED BY <2>1, <2>2
<1>6. state'.wm <= clock' /\ WatermarkCovers'
  <2>1. CASE state' = state
    <3>1. ASSUME NEW d \in Indexable', remote'[d].upd <= state'.wm PROVE Current(d)'
      <4>1. d \in Indexed
        BY <1>1, <2>1, <3>1 DEF QuietInv, WatermarkCovers, Indexable, Indexed, Present
      <4> QED BY <1>1, <1>3, <3>1, <4>1 DEF Indexable, Indexed
    <3> QED BY <1>1, <2>1, <3>1 DEF QuietInv, WatermarkCovers
  <2>2. CASE Record(j) /\ state'.wm = job[j].stamp
    <3>1. job[j].phase = "record"
      BY <2>2 DEF Record
    <3>2. Present(remote) \subseteq Indexed
      BY <1>2, <3>1 DEF Right, Covers
    <3>3. ASSUME NEW d \in Indexable' PROVE Current(d)'
      <4>1. d \in Indexed'
        BY <1>1, <1>3, <3>2, <3>3 DEF Indexable, Present
      <4> QED BY <3>3, <4>1 DEF Indexable, Indexed
    <3> QED BY <1>1, <1>2, <2>2, <3>1, <3>3 DEF WatermarkCovers
  <2> QED BY <1>4, <2>1, <2>2
<1> QED BY <1>1, <1>4, <1>5, <1>6 DEF QuietInv

LEMMA QuietNext ==
  ASSUME TypeOK, Resting, Quiet, QuietInv, [Next]_vars
  PROVE  QuietInv'
<1>1. CASE UNCHANGED vars
  <2>1. /\ WatermarkCovers' /\ Indexed' = Indexed /\ remote' = remote /\ job' = job
    BY <1>1 DEF vars, QuietInv, WatermarkCovers, Indexable, Indexed, Present, Current
  <2>2. ASSUME NEW k \in Job, Active(k)' PROVE Right(job[k], Indexed)'
    BY <2>1, <2>2, RightNext DEF QuietInv, Active
  <2> QED BY <1>1, <2>1, <2>2 DEF vars, QuietInv
<1>2. CASE Crash
  <2>1. WatermarkCovers'
    BY <1>2 DEF Crash, QuietInv, WatermarkCovers, Indexable, Present, Current
  <2>2. \A j \in Job : ~job'[j].failed /\ ~Active(j)' /\ job'[j].phase # "record"
    BY <1>2 DEF Crash, IdleJob, Active
  <2> QED BY <1>2, <2>1, <2>2 DEF Crash, QuietInv
<1> QED BY <1>1, <1>2, QuietPost, QuietSource, QuietStart, QuietJobStep DEF Next

(* While the source only changes between jobs and every item goes through, *)
(* whatever syncs and reconciliations overlap, fail or die, whatever is    *)
(* posted meanwhile, and unless the clock of Jira's account is behind: an  *)
(* item last updated at the watermark or before is indexed with its        *)
(* present text, or with one that was posted since.                        *)
THEOREM QuietWatermark ==
  ASSUME Quiet
  PROVE  Spec => []WatermarkCovers
<1>1. TypeOK /\ Resting /\ QuietInv /\ [Next]_vars => QuietInv'
  BY QuietNext
<1>2. Spec => [](Resting /\ QuietInv)
  BY <1>1, RestingInit, RestingNext, QuietInit, TypeCorrect, PTL DEF Spec
<1>3. QuietInv => WatermarkCovers
  BY DEF QuietInv
<1> QED BY <1>2, <1>3, PTL

-------------------------------------------------------------------------------
(* Reconciling page by page, over a source that changes between jobs only *)

(* What a job's enumeration passed is in its list, whatever becomes of the *)
(* items: any document counts as good.                                     *)
PagesInv == \A j \in Job : Active(j) => Right(job[j], Doc)

LEMMA PagesInit == Init => PagesInv
BY DEF Init, PagesInv, Active, IdleJob

(* Jobs that are left alone, and jobs that come to rest.                   *)
LEMMA PagesFrame ==
  ASSUME PagesInv, remote' = remote, NEW j \in Job, job'[j] \in {IdleJob, job[j]}, Active(j)'
  PROVE  Right(job[j], Doc)'
<1>1. job'[j] = job[j] /\ Active(j)
  BY DEF Active, IdleJob
<1> QED BY <1>1, RightNext DEF PagesInv

LEMMA PagesStart ==
  ASSUME TypeOK, PagesInv, NEW j \in Job,
         (\E full \in BOOLEAN : StartSync(j, full)) \/ StartReconcile(j)
  PROVE  PagesInv'
<1>1. remote' = remote /\ \A k \in Job \ {j} : job'[k] = job[k]
  BY DEF StartSync, StartReconcile, TypeOK
<1>2. Right(job'[j], Doc)
  <2>1. ASSUME NEW full \in BOOLEAN, StartSync(j, full)
        PROVE  Right(job'[j], Doc)
    <3> DEFINE since == IF full THEN 0 ELSE state.wm
    <3>1. job'[j] = [IdleJob EXCEPT !.phase = "fetch", !.full = full, !.more = TRUE,
                                    !.since = since]
      BY <2>1 DEF StartSync, TypeOK
    <3>2. since \in 0 .. MaxClock /\ (full => since = 0) /\ Older(since) \subseteq Doc
      BY SizesAssumption DEF TypeOK, Older, Present
    <3> HIDE DEF since
    <3>3. Right([IdleJob EXCEPT !.phase = "fetch", !.full = full, !.more = TRUE,
                                !.since = since], Doc)
      BY <3>2, RightStart
    <3> QED BY <3>1, <3>3, Zenon
  <2>2. CASE StartReconcile(j)
    <3>1. job'[j] = [IdleJob EXCEPT !.phase = "enum", !.more = TRUE]
      BY <2>2 DEF StartReconcile, TypeOK
    <3>2. /\ job'[j].phase = "enum" /\ job'[j].since = 0
          /\ job'[j].space = 1 /\ job'[j].offset = 0
          /\ job'[j].more = TRUE /\ job'[j].ids = {} /\ ~job'[j].full
          /\ job'[j].buf = <<>> /\ job'[j].task = <<>>
      BY <3>1 DEF IdleJob
    <3>3. Fresh(job'[j])
      BY <3>2 DEF Fresh
    <3> QED BY <3>2, <3>3, RightEnumeration
  <2> QED BY <2>1, <2>2
<1>3. Right(job[j], Doc)'
  BY <1>1, <1>2, RightNext
<1> QED BY <1>1, <1>3, PagesFrame DEF PagesInv

LEMMA PagesJobStep ==
  ASSUME TypeOK, Resting, PagesInv, "outage" \notin Faults, NEW j \in Job, JobStep(j)
  PROVE  PagesInv'
<1>1. /\ remote' = remote /\ Active(j)
      /\ \A k \in Job \ {j} : job'[k] = job[k]
  BY JobStepFrame
<1>2. Right(job[j], Doc)
  BY <1>1 DEF PagesInv
<1>3. Right(job'[j], Doc)
  BY <1>2, TaskItem, JobStepRight
<1>4. Right(job[j], Doc)'
  BY <1>1, <1>3, RightNext
<1> QED BY <1>1, <1>4, PagesFrame DEF PagesInv

LEMMA PagesNext ==
  ASSUME TypeOK, Resting, ~BusySource, "outage" \notin Faults, PagesInv, [Next]_vars
  PROVE  PagesInv'
<1>1. ASSUME NEW d \in Doc, SourceEdit(d) \/ SourceDelete(d) PROVE PagesInv'
  <2>1. \A j \in Job : ~Active(j)
    BY <1>1 DEF SourceEdit, SourceDelete, SourceMayChange
  <2>2. job' = job
    BY <1>1 DEF SourceEdit, SourceDelete
  <2> QED BY <2>1, <2>2 DEF PagesInv, Active
<1>2. ASSUME remote' = remote, \A j \in Job : job'[j] \in {IdleJob, job[j]}
      PROVE  PagesInv'
  BY <1>2, PagesFrame DEF PagesInv
<1>3. CASE UNCHANGED vars
  BY <1>2, <1>3 DEF vars
<1>4. CASE Crash
  BY <1>2, <1>4 DEF Crash
<1>5. ASSUME NEW d \in Doc, NEW body \in Body, NEW meta \in Meta, PostDocument(d, body, meta)
      PROVE  PagesInv'
  BY <1>2, <1>5 DEF PostDocument
<1> QED BY <1>1, <1>3, <1>4, <1>5, PagesStart, PagesJobStep DEF Next

(* While the source only changes between jobs and answers with what it     *)
(* has, no reconcile removes the row of a document that the source holds - *)
(* for every number of documents, pages and spaces, whatever jobs overlap, *)
(* fail or die, and whatever is posted meanwhile.                          *)
THEOREM PagedReconcile ==
  ASSUME ~BusySource, "outage" \notin Faults
  PROVE  Spec => ReconcileOnlyRemovesGone
<1>1. TypeOK /\ Resting /\ PagesInv /\ [Next]_vars => PagesInv'
  BY PagesNext
<1>2. Spec => [](Resting /\ PagesInv)
  BY <1>1, RestingInit, RestingNext, PagesInit, TypeCorrect, PTL DEF Spec
<1>3. TypeOK /\ PagesInv /\ [Next]_vars =>
        [\A d \in Doc : db[d] # NoDoc /\ db'[d] = NoDoc => remote[d] = NoDoc]_vars
  <2> SUFFICES ASSUME TypeOK, PagesInv, Next, NEW d \in Doc, db[d] # NoDoc, db'[d] = NoDoc
               PROVE  remote[d] = NoDoc
    OBVIOUS
  <2>1. PICK j \in Job : Delete(j) /\ d \in job[j].stale
    BY RowsRemoved
  <2>2. job[j].stale \intersect Present(remote) = {}
    BY <2>1 DEF Delete, PagesInv, Active, Right
  <2> QED BY <2>1, <2>2 DEF Present
<1> QED BY <1>2, <1>3, TypeCorrect, PTL DEF Spec, ReconcileOnlyRemovesGone

-------------------------------------------------------------------------------
(* Jobs that overlap, over a source that changes between jobs only: what   *)
(* they hold *)

(* A version of a document as recent as any the source has had of it until *)
(* now: what it holds later is more recent.                                *)
Seen(d, u) == u <= clock /\ (remote[d] # NoDoc => u <= remote[d].upd)

(* A change of the source goes forward: what was as recent as all that the *)
(* source had still is.                                                    *)
SourceKeeps ==
  /\ \A d \in Doc : remote'[d] # NoDoc => remote'[d].upd <= clock'
  /\ \A d \in Doc, u \in Nat : Seen(d, u) => Seen(d, u)'
  /\ \A d \in Doc : db'[d] # NoDoc => Seen(d, db[d].upd)'

LEMMA SourceKeepsSeen ==
  ASSUME TypeOK, NEW d \in Doc, SourceEdit(d) \/ SourceDelete(d),
         \A e \in Doc : remote[e] # NoDoc => remote[e].upd <= clock,
         \A e \in Doc : db[e] # NoDoc => Seen(e, db[e].upd)
  PROVE  SourceKeeps
<1>1. db' = db /\ job' = job
  BY DEF SourceEdit, SourceDelete
<1>2. clock \in Nat /\ clock' \in Nat /\ clock <= clock'
  BY SizesAssumption DEF SourceEdit, SourceDelete, TypeOK
<1>3. /\ \A e \in Doc \ {d} : remote'[e] = remote[e]
      /\ remote'[d] # NoDoc => remote'[d].upd = clock'
      /\ remote'[d] # NoDoc => clock' = clock + 1
  <2>1. CASE SourceEdit(d)
    BY <2>1 DEF SourceEdit, TypeOK
  <2>2. CASE SourceDelete(d)
    BY <2>2 DEF SourceDelete, TypeOK
  <2> QED BY <2>1, <2>2
<1>4. ASSUME NEW e \in Doc, remote'[e] # NoDoc PROVE remote'[e].upd <= clock'
  <2>1. CASE e = d
    BY <1>2, <1>3, <1>4, <2>1
  <2>2. CASE e # d
    <3>1. remote[e] # NoDoc /\ remote'[e] = remote[e] /\ remote[e].upd <= clock
      BY <1>3, <1>4, <2>2
    <3>2. remote[e].upd \in Nat
      BY <3>1, Updates DEF Present
    <3> QED BY <1>2, <3>1, <3>2
  <2> QED BY <2>1, <2>2
<1>5. ASSUME NEW e \in Doc, NEW u \in Nat, Seen(e, u) PROVE Seen(e, u)'
  <2>1. u <= clock /\ u <= clock'
    BY <1>2, <1>5 DEF Seen
  <2>2. ASSUME remote'[e] # NoDoc PROVE u <= remote'[e].upd
    <3>1. CASE e = d
      BY <1>2, <1>3, <2>1, <2>2, <3>1
    <3>2. CASE e # d
      BY <1>3, <1>5, <2>2, <3>2 DEF Seen
    <3> QED BY <3>1, <3>2
  <2> QED BY <2>1, <2>2 DEF Seen
<1>6. ASSUME NEW e \in Doc, db'[e] # NoDoc PROVE Seen(e, db[e].upd)'
  <2>1. Seen(e, db[e].upd) /\ db[e].upd \in Nat
    BY <1>1, <1>6, SizesAssumption DEF TypeOK, Version
  <2>2. Seen(e, db'[e].upd) => Seen(e, db[e].upd)
    BY <1>1
  <2>3. Seen(e, db[e].upd)' <=> (db'[e].upd <= clock'
                                 /\ (remote'[e] # NoDoc => db'[e].upd <= remote'[e].upd))
    BY DEF Seen
  <2>4. \A u \in Nat : Seen(e, u) => u <= clock' /\ (remote'[e] # NoDoc => u <= remote'[e].upd)
    BY <1>5 DEF Seen
  <2> QED BY <1>1, <2>1, <2>3, <2>4
<1> QED BY <1>4, <1>5, <1>6 DEF SourceKeeps

LEMMA ItemsTyped ==
  ASSUME NEW r \in JobState
  PROVE  /\ r.buf \in Seq(Item) /\ Len(r.buf) \in Nat /\ DOMAIN r.buf = 1 .. Len(r.buf)
         /\ r.task \in Seq(Task) /\ Len(r.task) \in Nat /\ DOMAIN r.task = 1 .. Len(r.task)
         /\ \A i \in DOMAIN r.buf : r.buf[i] \in Item /\ r.buf[i].ver.upd \in Nat
         /\ \A i \in DOMAIN r.task : r.task[i].item \in Item /\ r.task[i].item.ver.upd \in Nat
<1>1. r.buf \in Seq(Item) /\ r.task \in Seq(Task)
  BY DEF JobState
<1>2. /\ \A i \in DOMAIN r.buf : r.buf[i] \in Item
      /\ \A i \in DOMAIN r.task : r.task[i].item \in Item
  <2>1. ASSUME NEW i \in DOMAIN r.buf PROVE r.buf[i] \in Item
    BY <1>1, LenProperties, ElementOfSeq
  <2>2. ASSUME NEW i \in DOMAIN r.task PROVE r.task[i] \in Task
    BY <1>1, LenProperties, ElementOfSeq
  <2> QED BY <2>1, <2>2 DEF Task
<1>3. \A item \in Item : item.ver.upd \in Nat
  BY SizesAssumption DEF Item, Version
<1> QED BY <1>1, <1>2, <1>3, LenProperties

(* The items that a job is to index.                                       *)
Holds(r) == {r.buf[i] : i \in DOMAIN r.buf} \union {r.task[i].item : i \in DOMAIN r.task}

LEMMA FreshHolds ==
  ASSUME NEW r
  PROVE  Fresh(r) <=> \A item \in Holds(r) : item.ver = remote[item.doc]
BY DEF Fresh, Holds

(* Whatever a page is answered with, and however often: a job holds what   *)
(* it held, and what the source holds now.                                 *)
LEMMA StepHolds ==
  ASSUME TypeOK, NEW j \in Job, JobStep(j), NEW item \in Holds(job'[j])
  PROVE  item \in Holds(job[j]) \/ item.ver = remote[item.doc]
<1> DEFINE r == job[j]
<1>1. r \in JobState
  BY DEF TypeOK
<1>2. CASE FetchPage(j)
  <2>0. PICK P \in Answers(r) : \E p \in InOrder(Yielded(P, r.since)) :
          job'[j] = [Advance(r, P) EXCEPT
                    !.buf = @ \o [i \in 1 .. Cardinality(Yielded(P, r.since)) |->
                                    [doc |-> p[i], ver |-> remote[p[i]]]]]
    BY <1>2 DEF FetchPage, TypeOK
  <2>1. PICK p \in InOrder(Yielded(P, r.since)) :
          job'[j] = [Advance(r, P) EXCEPT
                    !.buf = @ \o [i \in 1 .. Cardinality(Yielded(P, r.since)) |->
                                    [doc |-> p[i], ver |-> remote[p[i]]]]]
    BY <2>0
  <2>2. P \in SUBSET Doc /\ Yielded(P, r.since) \in SUBSET Present(remote) /\ r.task = <<>>
    BY <1>2, AnswersType DEF Present, FetchPage, WantsPage
  <2>3. Advance(r, P) \in JobState /\ Advance(r, P).buf = r.buf /\ Advance(r, P).task = r.task
    BY <1>1, <2>2, AdvanceFields
  <2> DEFINE n == Cardinality(Yielded(P, r.since))
             l == Len(r.buf)
             c == r.buf \o [i \in 1 .. n |-> [doc |-> p[i], ver |-> remote[p[i]]]]
  <2>4. job'[j].task = <<>> /\ job'[j].buf = c
    BY <2>1, <2>2, <2>3 DEF JobState
  <2>5. /\ n \in Nat /\ l \in Nat /\ DOMAIN r.buf = 1 .. l /\ DOMAIN c = 1 .. l + n
        /\ \A i \in 1 .. l : c[i] = r.buf[i]
        /\ \A i \in 1 .. n : c[l + i].doc = p[i] /\ c[l + i].ver = remote[p[i]]
    BY <1>1, <2>2, ItemsTyped, Appended
  <2> HIDE DEF c, n, l
  <2>6. PICK i \in 1 .. l + n : item = c[i]
    BY <2>4, <2>5 DEF Holds
  <2>7. CASE i \in 1 .. l
    BY <2>5, <2>6, <2>7 DEF Holds
  <2>8. CASE i \notin 1 .. l
    <3>1. i - l \in 1 .. n /\ l + (i - l) = i
      BY <2>5, <2>8
    <3>2. item.doc = p[i - l] /\ item.ver = remote[p[i - l]]
      BY <2>5, <2>6, <3>1
    <3> QED BY <3>2
  <2> QED BY <2>7, <2>8
<1>3. CASE StartWindow(j)
  <2> DEFINE n == IF Len(r.buf) >= Window THEN Window ELSE Len(r.buf)
  <2>1. Len(r.buf) \in Nat /\ Window \in Nat
    BY <1>1, ItemsTyped, SizesAssumption DEF Window
  <2>2. n \in 0 .. Len(r.buf)
    BY <2>1
  <2>3. job'[j] = [r EXCEPT !.task = [i \in 1 .. n |-> [item |-> r.buf[i], stage |-> "check"]],
                            !.buf = SubSeq(r.buf, n + 1, Len(r.buf))]
    BY <1>3 DEF StartWindow, TypeOK
  <2> HIDE DEF n
  <2>4. /\ job'[j].task = [i \in 1 .. n |-> [item |-> r.buf[i], stage |-> "check"]]
        /\ job'[j].buf = SubSeq(r.buf, n + 1, Len(r.buf))
    BY <1>1, <2>3 DEF JobState
  <2> HIDE DEF r
  <2>5. /\ DOMAIN r.buf = 1 .. Len(r.buf) /\ DOMAIN job'[j].buf = 1 .. Len(r.buf) - n
        /\ \A i \in 1 .. Len(r.buf) - n : job'[j].buf[i] = r.buf[n + i]
    BY <1>1, <2>2, <2>4, ItemsTyped, Remainder
  <2>6. /\ \A i \in 1 .. n : i \in DOMAIN r.buf
        /\ \A i \in 1 .. Len(r.buf) - n : n + i \in DOMAIN r.buf
    BY <2>1, <2>2, <2>5
  <2>7. /\ DOMAIN job'[j].task = 1 .. n
        /\ \A i \in 1 .. n : job'[j].task[i].item = r.buf[i]
    BY <2>4
  <2> QED BY <2>5, <2>6, <2>7 DEF Holds, r
<1>4. CASE TaskStep(j)
  <2>1. PICK i \in DOMAIN r.task : CheckItem(j, i) \/ WriteItem(j, i) \/ ItemFails(j, i)
    BY <1>4 DEF TaskStep
  <2>2. PICK st : \/ job'[j] = [r EXCEPT !.task = [r.task EXCEPT ![i].stage = st]]
                  \/ job'[j] = [r EXCEPT !.task = [r.task EXCEPT ![i].stage = st], !.failed = TRUE]
    BY <2>1 DEF CheckItem, WriteItem, ItemFails, TypeOK
  <2>3. job'[j].buf = r.buf /\ job'[j].task = [r.task EXCEPT ![i].stage = st]
    BY <1>1, <2>2 DEF JobState
  <2>4. r.task \in Seq(Task) /\ \A k \in DOMAIN r.task : r.task[k] \in Task
    BY <1>1, ElementOfSeq, LenProperties DEF JobState
  <2>5. /\ DOMAIN job'[j].task = DOMAIN r.task
        /\ \A k \in DOMAIN r.task : job'[j].task[k].item = r.task[k].item
    BY <2>3, <2>4 DEF Task
  <2> QED BY <2>3, <2>5 DEF Holds
<1>5. CASE CloseWindow(j)
  <2>1. job'[j].buf = r.buf /\ job'[j].task = <<>>
    BY <1>1, <1>5 DEF CloseWindow, TypeOK, JobState
  <2> QED BY <2>1 DEF Holds
<1>6. CASE EnumeratePage(j)
  <2>1. PICK P \in Answers(r) : \E s : job'[j] = [Advance(r, P) EXCEPT !.ids = s]
    BY <1>6, Zenon DEF EnumeratePage, TypeOK
  <2>2. P \in SUBSET Doc
    BY AnswersType DEF Present
  <2>3. Advance(r, P) \in JobState /\ Advance(r, P).buf = r.buf /\ Advance(r, P).task = r.task
    BY <1>1, <2>2, AdvanceFields
  <2>4. job'[j].buf = r.buf /\ job'[j].task = r.task
    BY <2>1, <2>3 DEF JobState
  <2> QED BY <2>4 DEF Holds
<1>7. CASE Finish(j) \/ Record(j) \/ Diff(j) \/ Delete(j) \/ FetchFails(j) \/ DbFails(j)
  <2>1. \/ job'[j] = IdleJob
        \/ job'[j] = [r EXCEPT !.phase = "record", !.stamp = clock]
        \/ job'[j] = [r EXCEPT !.phase = "enum", !.since = 0, !.space = 1, !.offset = 0, !.more = TRUE]
        \/ job'[j] = [r EXCEPT !.phase = "delete", !.stale = Stale(r.ids)]
    BY <1>7 DEF Finish, FetchFails, Delete, DbFails, Record, Diff, TypeOK
  <2>2. \/ job'[j].buf = <<>> /\ job'[j].task = <<>>
        \/ job'[j].buf = r.buf /\ job'[j].task = r.task
    <3>1. IdleJob.buf = <<>> /\ IdleJob.task = <<>>
      BY DEF IdleJob
    <3>2. CASE job'[j] # IdleJob
      BY <1>1, <2>1, <3>2 DEF JobState
    <3> QED BY <3>1, <3>2
  <2> QED BY <2>2 DEF Holds
<1> QED BY <1>2, <1>3, <1>4, <1>5, <1>6, <1>7 DEF JobStep

(* What is in the table the source had; what runs holds what it has.       *)
HeldInv ==
  /\ \A d \in Doc : remote[d] # NoDoc => remote[d].upd <= clock
  /\ \A d \in Doc : db[d] # NoDoc => Seen(d, db[d].upd)
  /\ \A j \in Job : Active(j) => Fresh(job[j])

LEMMA HeldInit == Init => HeldInv
BY SizesAssumption DEF Init, HeldInv, Version, Active, IdleJob

LEMMA HeldFrame ==
  ASSUME HeldInv, remote' = remote, clock' = clock, db' = db,
         \A j \in Job : job'[j] = job[j] \/ (job'[j].buf = <<>> /\ job'[j].task = <<>>)
  PROVE  HeldInv'
BY DEF HeldInv, Seen, Fresh, Active

LEMMA HeldJobStep ==
  ASSUME TypeOK, Resting, HeldInv, NEW j \in Job, JobStep(j)
  PROVE  HeldInv'
<1>1. /\ remote' = remote /\ clock' = clock /\ Active(j)
      /\ \A k \in Job \ {j} : job'[k] = job[k]
  BY JobStepFrame
<1>2. Fresh(job[j])
  BY <1>1 DEF HeldInv
<1>3. Fresh(job'[j])
  BY <1>2, FreshHolds, StepHolds
<1>4. \A k \in Job : Active(k)' => Fresh(job[k])'
  BY <1>1, <1>3 DEF HeldInv, Fresh, Active
<1>5. ASSUME NEW d \in Doc, db'[d] # NoDoc PROVE Seen(d, db[d].upd)'
  <2>1. CASE db'[d] = db[d]
    BY <1>1, <1>5, <2>1 DEF HeldInv, Seen
  <2>2. CASE db'[d] # db[d]
    <3>1. PICK i \in DOMAIN job[j].task : /\ job[j].task[i].item.doc = d
                                          /\ db'[d] = job[j].task[i].item.ver
      BY <1>5, <2>2, JobStepRows
    <3>2. d \in Present(remote) /\ db'[d] = remote[d]
      BY <1>2, <3>1, FreshItem
    <3>3. remote[d].upd <= clock /\ remote[d].upd \in Nat
      BY <3>2, Updates DEF HeldInv, Present
    <3> QED BY <1>1, <3>2, <3>3 DEF Seen
  <2> QED BY <2>1, <2>2
<1> QED BY <1>1, <1>4, <1>5 DEF HeldInv

LEMMA HeldNext ==
  ASSUME TypeOK, TypeOK', Resting, ~BusySource, ~Posts, HeldInv, [Next]_vars
  PROVE  HeldInv'
<1>1. ASSUME NEW d \in Doc, SourceEdit(d) \/ SourceDelete(d) PROVE HeldInv'
  <2>1. \A j \in Job : ~Active(j)'
    BY <1>1 DEF SourceEdit, SourceDelete, SourceMayChange, Active
  <2>2. SourceKeeps
    BY <1>1, SourceKeepsSeen DEF HeldInv
  <2> QED BY <1>1, <2>1, <2>2 DEF HeldInv, SourceKeeps
<1>2. CASE UNCHANGED vars
  BY <1>2, HeldFrame DEF vars
<1>3. CASE Crash
  BY <1>3, HeldFrame DEF Crash, IdleJob
<1>4. ASSUME NEW j \in Job, (\E full \in BOOLEAN : StartSync(j, full)) \/ StartReconcile(j)
      PROVE  HeldInv'
  <2>1. /\ remote' = remote /\ clock' = clock /\ db' = db
        /\ job'[j].buf = <<>> /\ job'[j].task = <<>>
        /\ \A k \in Job \ {j} : job'[k] = job[k]
    <3>1. CASE StartReconcile(j)
      BY <3>1 DEF StartReconcile, IdleJob, TypeOK
    <3>2. ASSUME NEW full \in BOOLEAN, StartSync(j, full)
          PROVE  /\ remote' = remote /\ clock' = clock /\ db' = db
                 /\ job'[j].buf = <<>> /\ job'[j].task = <<>>
                 /\ \A k \in Job \ {j} : job'[k] = job[k]
      BY <3>2 DEF StartSync, IdleJob, TypeOK
    <3> QED BY <1>4, <3>1, <3>2
  <2> QED BY <2>1, HeldFrame
<1>5. ~(\E d \in Doc, body \in Body, meta \in Meta : PostDocument(d, body, meta))
  BY DEF PostDocument
<1> QED BY <1>1, <1>2, <1>3, <1>4, <1>5, HeldJobStep DEF Next

(* While the source only changes between jobs and nothing is posted:       *)
(* syncs of either kind, full or incremental, however many overlap and     *)
(* whatever fails, put no older version of a document over a newer one.    *)
THEOREM QuietNeverOlder ==
  ASSUME ~BusySource, ~Posts
  PROVE  Spec => NeverOlder
<1>1. TypeOK /\ TypeOK' /\ Resting /\ HeldInv /\ [Next]_vars => HeldInv'
  BY HeldNext
<1>2. Spec => [](Resting /\ HeldInv)
  BY <1>1, RestingInit, RestingNext, HeldInit, TypeCorrect, PTL DEF Spec
<1>3. TypeOK /\ Resting /\ HeldInv /\ [Next]_vars =>
        [\A d \in Doc : db[d] # NoDoc /\ db'[d] # NoDoc => db[d].upd <= db'[d].upd]_vars
  <2> SUFFICES ASSUME TypeOK, Resting, HeldInv, Next, NEW d \in Doc,
                      db[d] # NoDoc, db'[d] # NoDoc
               PROVE  db[d].upd <= db'[d].upd
    OBVIOUS
  <2>1. db[d].upd \in Nat
    BY SizesAssumption DEF TypeOK, Version
  <2>2. CASE db'[d] = db[d]
    BY <2>1, <2>2
  <2>3. CASE db'[d] # db[d]
    <3>1. PICK j \in Job : JobStep(j)
      BY <2>3 DEF Next, PostDocument, SourceEdit, SourceDelete, StartSync,
                  StartReconcile, Crash
    <3>2. PICK i \in DOMAIN job[j].task :
            /\ job[j].task[i].item.doc = d /\ db'[d] = job[j].task[i].item.ver
      BY <2>3, <3>1, JobStepRows
    <3>3. Fresh(job[j])
      BY <3>1, JobStepFrame DEF HeldInv
    <3>4. d \in Present(remote) /\ db'[d] = remote[d]
      BY <3>2, <3>3, FreshItem
    <3> QED BY <3>4 DEF HeldInv, Seen, Present
  <2> QED BY <2>2, <2>3
<1> QED BY <1>2, <1>3, TypeCorrect, PTL DEF Spec, NeverOlder

-------------------------------------------------------------------------------
(* A single job, over a source that changes while it pages *)

Alone == ~Posts /\ \A j, k \in Job : j = k
OneByOne == Alone /\ Window = 1

(* The listing shifted: a window holds the document of its i-th task again. *)
Repeats(r, i) ==
  \E k \in DOMAIN r.task : k # i /\ r.task[k].item.doc = r.task[i].item.doc

(* What the job is to write of a document follows what is written of it.   *)
Waits(item) ==
  /\ Seen(item.doc, item.ver.upd)
  /\ db[item.doc] # NoDoc => db[item.doc].upd <= item.ver.upd

(* Seen and Waits, of the state after a step.                              *)
SeenNext(d, u) == u <= clock' /\ (remote'[d] # NoDoc => u <= remote'[d].upd)
WaitsNext(item) ==
  /\ SeenNext(item.doc, item.ver.upd)
  /\ db'[item.doc] # NoDoc => db'[item.doc].upd <= item.ver.upd

Precedes(a, b) == a.doc = b.doc => a.ver.upd <= b.ver.upd

InTurn(r) ==
  /\ Len(r.task) <= Window
  /\ \A i \in DOMAIN r.buf : Waits(r.buf[i])
  /\ \A i, k \in DOMAIN r.buf : i < k => Precedes(r.buf[i], r.buf[k])
  /\ \A t \in DOMAIN r.task : r.task[t].stage # "done" =>
       /\ Seen(r.task[t].item.doc, r.task[t].item.ver.upd)
       /\ Repeats(r, t) \/ Waits(r.task[t].item)
       /\ \A i \in DOMAIN r.buf : Precedes(r.task[t].item, r.buf[i])

TurnInv ==
  /\ \A d \in Doc : remote[d] # NoDoc => remote[d].upd <= clock
  /\ \A d \in Doc : db[d] # NoDoc => Seen(d, db[d].upd)
  /\ \A j \in Job : InTurn(job[j])

LEMMA WindowType == Window \in Nat \ {0}
BY SizesAssumption DEF Window

LEMMA InTurnIdle == InTurn(IdleJob)
BY WindowType DEF InTurn, IdleJob

(* The parts of a job that InTurn is about.                                *)
LEMMA InTurnSame ==
  ASSUME NEW r, NEW q, InTurn(r), q.buf = r.buf, q.task = r.task
  PROVE  InTurn(q)
BY DEF InTurn, Repeats

LEMMA InTurnAppended ==
  ASSUME TypeOK, TurnInv, NEW r \in JobState, InTurn(r), NEW q, q.task = <<>>,
         NEW K \in SUBSET Present(remote), NEW l \in Nat, NEW n \in Nat, NEW p,
         DOMAIN r.buf = 1 .. l, DOMAIN q.buf = 1 .. l + n,
         \A i \in 1 .. l : q.buf[i] = r.buf[i],
         \A i \in 1 .. n : q.buf[l + i].doc = p[i] /\ q.buf[l + i].ver = remote[p[i]],
         \A i \in 1 .. n : p[i] \in K
  PROVE  InTurn(q)
<1>2. ASSUME NEW i \in DOMAIN q.buf, i \notin 1 .. l
      PROVE  \E d \in K : q.buf[i].doc = d /\ q.buf[i].ver = remote[d]
  <2>1. i \in 1 .. l + n
    OBVIOUS
  <2>2. i - l \in 1 .. n /\ l + (i - l) = i
    BY <1>2, <2>1
  <2> QED BY <2>2
<1>3. ASSUME NEW d \in K
      PROVE  /\ d \in Doc /\ remote[d] # NoDoc /\ remote[d].upd \in Nat
             /\ Seen(d, remote[d].upd)
             /\ db[d] # NoDoc => db[d].upd <= remote[d].upd
  <2>1. d \in Doc /\ remote[d] # NoDoc /\ remote[d].upd \in Nat
    BY Updates DEF Present
  <2>2. Seen(d, remote[d].upd)
    BY <2>1 DEF TurnInv, Seen
  <2>3. db[d] # NoDoc => db[d].upd <= remote[d].upd
    BY <2>1 DEF TurnInv, Seen
  <2> QED BY <2>1, <2>2, <2>3
<1>4. ASSUME NEW i \in DOMAIN q.buf PROVE Waits(q.buf[i])
  <2>1. CASE i \in 1 .. l
    BY <2>1 DEF InTurn
  <2>2. CASE i \notin 1 .. l
    BY <1>2, <1>3, <2>2 DEF Waits
  <2> QED BY <2>1, <2>2
<1>5. ASSUME NEW i \in DOMAIN q.buf, NEW k \in DOMAIN q.buf, i < k
      PROVE  Precedes(q.buf[i], q.buf[k])
  <2>1. i \in 1 .. l + n /\ k \in 1 .. l + n
    OBVIOUS
  <2>2. CASE k \in 1 .. l
    <3>1. i \in 1 .. l
      BY <1>5, <2>1, <2>2
    <3> QED BY <1>5, <2>2, <3>1 DEF InTurn
  <2>3. CASE k \notin 1 .. l
    <3>1. q.buf[k].doc \in K /\ q.buf[k].ver = remote[q.buf[k].doc]
      BY <1>2, <2>3
    <3>2. CASE i \in 1 .. l
      <4>1. Waits(q.buf[i])
        BY <1>4
      <4> QED BY <1>3, <3>1, <4>1 DEF Waits, Seen, Precedes
    <3>3. CASE i \notin 1 .. l
      <4>1. q.buf[i].doc \in K /\ q.buf[i].ver = remote[q.buf[i].doc]
        BY <1>2, <3>3
      <4>2. ASSUME q.buf[i].doc = q.buf[k].doc
            PROVE  q.buf[i].ver = q.buf[k].ver /\ q.buf[k].ver.upd \in Nat
        BY <1>3, <3>1, <4>1, <4>2
      <4>3. ASSUME q.buf[i].doc = q.buf[k].doc
            PROVE  q.buf[i].ver.upd <= q.buf[k].ver.upd
        BY <4>2, <4>3
      <4> QED BY <4>3 DEF Precedes
    <3> QED BY <3>2, <3>3
  <2> QED BY <2>2, <2>3
<1>6. Len(q.task) <= Window /\ \A t \in DOMAIN q.task : FALSE
  BY WindowType
<1> QED BY <1>4, <1>5, <1>6 DEF InTurn

LEMMA InTurnFetch ==
  ASSUME TypeOK, TurnInv, NEW r \in JobState, InTurn(r), r.task = <<>>,
         NEW K \in SUBSET Present(remote), NEW p \in InOrder(K)
  PROVE  \A q : /\ q.task = <<>>
                /\ q.buf = r.buf \o [i \in 1 .. Cardinality(K) |->
                                       [doc |-> p[i], ver |-> remote[p[i]]]]
                => InTurn(q)
<1>1. r.buf \in Seq(Item)
  BY ItemsTyped
<1> DEFINE n == Cardinality(K)
           l == Len(r.buf)
           c == r.buf \o [i \in 1 .. n |-> [doc |-> p[i], ver |-> remote[p[i]]]]
<1>2. /\ n \in Nat /\ l \in Nat /\ DOMAIN r.buf = 1 .. l /\ DOMAIN c = 1 .. l + n
      /\ \A i \in 1 .. l : c[i] = r.buf[i]
      /\ \A i \in 1 .. n : c[l + i].doc = p[i] /\ c[l + i].ver = remote[p[i]]
      /\ \A i \in 1 .. n : p[i] \in K
  BY <1>1, Appended
<1> SUFFICES ASSUME NEW q, q.task = <<>>, q.buf = c PROVE InTurn(q)
  OBVIOUS
<1> HIDE DEF c, n, l
<1>3. /\ DOMAIN q.buf = 1 .. l + n /\ \A i \in 1 .. l : q.buf[i] = r.buf[i]
      /\ \A i \in 1 .. n : q.buf[l + i].doc = p[i] /\ q.buf[l + i].ver = remote[p[i]]
  BY <1>2, Zenon
<1> QED BY <1>2, <1>3, InTurnAppended

LEMMA InTurnWindow ==
  ASSUME NEW r \in JobState, InTurn(r), NEW n \in 0 .. Len(r.buf), n <= Window, NEW q,
         q.task = [i \in 1 .. n |-> [item |-> r.buf[i], stage |-> "check"]],
         q.buf = SubSeq(r.buf, n + 1, Len(r.buf))
  PROVE  InTurn(q)
<1> DEFINE l == Len(r.buf)
<1>1. /\ r.buf \in Seq(Item) /\ l \in Nat /\ DOMAIN r.buf = 1 .. l
      /\ DOMAIN q.buf = 1 .. l - n /\ \A i \in 1 .. l - n : q.buf[i] = r.buf[n + i]
  BY ItemsTyped, Remainder
<1>2. n \in Nat /\ n <= l /\ n \in 0 .. l
  BY <1>1
<1> HIDE DEF l
<1>3. \A i \in 1 .. l - n : n + i \in DOMAIN r.buf
  BY <1>1, <1>2
<1>4. DOMAIN q.task = 1 .. n /\ \A t \in 1 .. n : q.task[t].item = r.buf[t]
  OBVIOUS
<1>5. Len(q.task) = n
  BY <1>2, <1>4
<1>6. \A t \in 1 .. n : t \in DOMAIN r.buf
  BY <1>1, <1>2
<1>7. \A i \in DOMAIN q.buf : Waits(q.buf[i])
  BY <1>1, <1>3 DEF InTurn
<1>8. ASSUME NEW i \in DOMAIN q.buf, NEW k \in DOMAIN q.buf, i < k
      PROVE  Precedes(q.buf[i], q.buf[k])
  <2>1. i \in 1 .. l - n /\ k \in 1 .. l - n
    BY <1>1
  <2>2. n + i \in DOMAIN r.buf /\ n + k \in DOMAIN r.buf /\ n + i < n + k
    BY <1>2, <1>3, <1>8, <2>1
  <2> QED BY <1>1, <2>1, <2>2 DEF InTurn
<1>9. ASSUME NEW t \in DOMAIN q.task
      PROVE  /\ Waits(q.task[t].item)
             /\ \A i \in DOMAIN q.buf : Precedes(q.task[t].item, q.buf[i])
  <2>1. t \in 1 .. n /\ t \in DOMAIN r.buf /\ q.task[t].item = r.buf[t]
    BY <1>4, <1>6
  <2>2. ASSUME NEW i \in DOMAIN q.buf PROVE Precedes(r.buf[t], q.buf[i])
    <3>1. i \in 1 .. l - n
      BY <1>1
    <3>2. n + i \in DOMAIN r.buf /\ q.buf[i] = r.buf[n + i] /\ t < n + i
      BY <1>1, <1>2, <1>3, <2>1, <3>1
    <3> QED BY <2>1, <3>2 DEF InTurn
  <2> QED BY <2>1, <2>2 DEF InTurn
<1> QED BY <1>5, <1>7, <1>8, <1>9 DEF InTurn, Waits

(* A task is checked, or fails.                                            *)
LEMMA InTurnStage ==
  ASSUME NEW r \in JobState, InTurn(r), NEW i \in DOMAIN r.task, NEW st, NEW q,
         q.buf = r.buf, q.task = [r.task EXCEPT ![i].stage = st],
         st # "done" => r.task[i].stage # "done"
  PROVE  InTurn(q)
<1>1. r.task \in Seq(Task) /\ \A k \in DOMAIN r.task : r.task[k] \in Task
  <2>1. r.task \in Seq(Task)
    BY DEF JobState
  <2> QED BY <2>1, LenProperties, ElementOfSeq
<1>2. /\ DOMAIN q.task = DOMAIN r.task /\ Len(q.task) = Len(r.task)
      /\ \A k \in DOMAIN r.task : q.task[k].item = r.task[k].item
      /\ \A k \in DOMAIN r.task : q.task[k].stage = IF k = i THEN st ELSE r.task[k].stage
  BY <1>1 DEF Task
<1>3. \A t \in DOMAIN r.task : Repeats(q, t) <=> Repeats(r, t)
  BY <1>2 DEF Repeats
<1> QED BY <1>2, <1>3 DEF InTurn

(* What the source's and the table's changes leave true of a job.          *)
LEMMA InTurnNext ==
  ASSUME TypeOK', NEW j \in Job, InTurn(job'[j]),
         \A d \in Doc, u \in Nat : Seen(d, u) => Seen(d, u)',
         \A d \in Doc : db'[d] = NoDoc \/ db'[d] = db[d]
  PROVE  InTurn(job[j])'
<1>1. job'[j] \in JobState
  BY DEF TypeOK
<1>2. ASSUME NEW item \in Item, item.ver.upd \in Nat, Waits(item) PROVE WaitsNext(item)
  <2>1. item.doc \in Doc
    BY DEF Item
  <2> DEFINE d == item.doc
             u == item.ver.upd
  <2>2. Seen(d, u)'
    BY <1>2, <2>1 DEF Waits
  <2>3. db'[d] # NoDoc => db'[d].upd <= u
    BY <1>2, <2>1 DEF Waits
  <2> QED BY <2>2, <2>3 DEF Seen, SeenNext, WaitsNext
<1>3. \A i \in DOMAIN job'[j].buf : WaitsNext(job'[j].buf[i])
  BY <1>1, <1>2, ItemsTyped DEF InTurn
<1>4. \A t \in DOMAIN job'[j].task : job'[j].task[t].stage # "done"
        => Repeats(job'[j], t) \/ WaitsNext(job'[j].task[t].item)
  BY <1>1, <1>2, ItemsTyped DEF InTurn
<1>5. ASSUME NEW t \in DOMAIN job'[j].task, job'[j].task[t].stage # "done"
      PROVE  Seen(job[j].task[t].item.doc, job[j].task[t].item.ver.upd)'
  <2> DEFINE item == job'[j].task[t].item
  <2>1. item.doc \in Doc /\ item.ver.upd \in Nat
    BY <1>1, ItemsTyped DEF Item
  <2>2. Seen(item.doc, item.ver.upd)
    BY <1>5 DEF InTurn
  <2>3. \A d \in Doc, u \in Nat : Seen(d, u) =>
           u <= clock' /\ (remote'[d] # NoDoc => u <= remote'[d].upd)
    BY DEF Seen
  <2> QED BY <2>1, <2>2, <2>3 DEF Seen
<1> QED BY <1>3, <1>4, <1>5 DEF InTurn, Precedes, Waits, Seen, SeenNext, WaitsNext, Repeats

LEMMA TurnSource ==
  ASSUME TypeOK, TypeOK', TurnInv, NEW d \in Doc, SourceEdit(d) \/ SourceDelete(d)
  PROVE  TurnInv'
<1>1. db' = db /\ job' = job
  BY DEF SourceEdit, SourceDelete
<1>2. SourceKeeps
  BY SourceKeepsSeen DEF TurnInv
<1>3. \A j \in Job : InTurn(job[j])'
  BY <1>1, <1>2, InTurnNext DEF TurnInv, SourceKeeps
<1> QED BY <1>2, <1>3 DEF TurnInv, SourceKeeps

(* The job moves on, writing nothing.                                      *)
LEMMA TurnJob ==
  ASSUME TypeOK, TypeOK', TurnInv, remote' = remote, clock' = clock,
         \A d \in Doc : db'[d] = NoDoc \/ db'[d] = db[d],
         \A j \in Job : InTurn(job'[j])
  PROVE  TurnInv'
<1>1. \A d \in Doc : db'[d] # NoDoc => Seen(d, db[d].upd)'
  BY DEF TurnInv, Seen
<1>2. \A d \in Doc, u \in Nat : Seen(d, u) => Seen(d, u)'
  BY DEF Seen
<1>3. \A j \in Job : InTurn(job[j])'
  BY <1>2, InTurnNext
<1> QED BY <1>1, <1>3 DEF TurnInv

LEMMA TurnWrite ==
  ASSUME TypeOK, TypeOK', TurnInv, Alone, NEW j \in Job, NEW i \in DOMAIN job[j].task,
         WriteItem(j, i)
  PROVE  TurnInv'
<1> DEFINE r == job[j]
           item == r.task[i].item
<1>1. /\ r \in JobState /\ r.task[i].stage = "write" /\ remote' = remote /\ clock' = clock
      /\ db' = [db EXCEPT ![item.doc] = item.ver]
      /\ job'[j] = [r EXCEPT !.task = [r.task EXCEPT ![i].stage = "done"]]
  BY DEF WriteItem, TypeOK
<1>2. /\ item.doc \in Doc /\ item.ver \in Version /\ Seen(item.doc, item.ver.upd)
      /\ \A k \in DOMAIN r.buf : Waits(r.buf[k]) /\ Precedes(item, r.buf[k])
      /\ InTurn(r)
  BY <1>1, TaskItem DEF TurnInv, InTurn
<1>3. /\ db'[item.doc] = item.ver
      /\ \A d \in Doc : d # item.doc => db'[d] = db[d]
  BY <1>1, <1>2 DEF TypeOK
<1>4. /\ r.task \in Seq(Task) /\ DOMAIN r.task = 1 .. Len(r.task) /\ Len(r.task) \in Nat
      /\ \A k \in DOMAIN r.buf : r.buf[k].doc \in Doc
  BY <1>1, ItemsTyped DEF Item
<1>5. /\ DOMAIN job'[j].task = DOMAIN r.task /\ Len(job'[j].task) = Len(r.task)
      /\ job'[j].task[i].stage = "done" /\ job'[j].buf = r.buf
      /\ \A k \in DOMAIN r.task : job'[j].task[k].item = r.task[k].item
      /\ \A k \in DOMAIN r.task : k # i => job'[j].task[k].stage = r.task[k].stage
  <2>1. \A k \in DOMAIN r.task : r.task[k] \in Task
    BY <1>4, ElementOfSeq
  <2>2. job'[j].task = [r.task EXCEPT ![i].stage = "done"] /\ job'[j].buf = r.buf
    BY <1>1 DEF JobState
  <2> QED BY <1>4, <2>1, <2>2 DEF Task
<1>6. ASSUME NEW t \in DOMAIN r.task, job'[j].task[t].stage # "done"
      PROVE  /\ SeenNext(r.task[t].item.doc, r.task[t].item.ver.upd)
             /\ Repeats(r, t) \/ WaitsNext(r.task[t].item)
             /\ \A k \in DOMAIN r.buf : Precedes(r.task[t].item, r.buf[k])
  <2>1. t # i /\ r.task[t].stage # "done" /\ r.task[t].item.doc \in Doc
    BY <1>1, <1>5, <1>6, TaskItem
  <2>2. /\ Seen(r.task[t].item.doc, r.task[t].item.ver.upd)
        /\ Repeats(r, t) \/ Waits(r.task[t].item)
        /\ \A k \in DOMAIN r.buf : Precedes(r.task[t].item, r.buf[k])
    BY <1>2, <2>1 DEF InTurn
  <2>3. SeenNext(r.task[t].item.doc, r.task[t].item.ver.upd)
    BY <1>1, <2>2 DEF Seen, SeenNext
  <2>4. CASE r.task[t].item.doc = item.doc
    BY <2>1, <2>2, <2>3, <2>4 DEF Repeats
  <2>5. CASE r.task[t].item.doc # item.doc
    BY <1>1, <1>3, <2>1, <2>2, <2>3, <2>5 DEF Waits, WaitsNext, SeenNext, Seen
  <2> QED BY <2>4, <2>5
<1> HIDE DEF r, item
<1>7. ASSUME NEW k \in DOMAIN r.buf PROVE WaitsNext(r.buf[k])
  <2>1. /\ r.buf[k].doc \in Doc /\ Waits(r.buf[k]) /\ Precedes(item, r.buf[k])
    BY <1>2, <1>4
  <2> QED BY <1>1, <1>3, <2>1 DEF Waits, Precedes, Seen, SeenNext, WaitsNext
<1>8. InTurn(job[j])'
  <2>1. \A t \in DOMAIN r.task : Repeats(job'[j], t) <=> Repeats(r, t)
    BY <1>5 DEF Repeats
  <2>2. Len(job'[j].task) <= Window
    BY <1>2, <1>5 DEF InTurn
  <2>3. \A k \in DOMAIN job'[j].buf : WaitsNext(job'[j].buf[k])
    BY <1>5, <1>7
  <2>4. \A k, l \in DOMAIN job'[j].buf : k < l => Precedes(job'[j].buf[k], job'[j].buf[l])
    BY <1>2, <1>5 DEF InTurn
  <2>5. \A t \in DOMAIN job'[j].task : job'[j].task[t].stage # "done" =>
          /\ SeenNext(job'[j].task[t].item.doc, job'[j].task[t].item.ver.upd)
          /\ Repeats(job'[j], t) \/ WaitsNext(job'[j].task[t].item)
          /\ \A k \in DOMAIN job'[j].buf : Precedes(job'[j].task[t].item, job'[j].buf[k])
    BY <1>5, <1>6, <2>1
  <2> QED BY <2>2, <2>3, <2>4, <2>5 DEF InTurn, Waits, WaitsNext, SeenNext, Seen, Precedes, Repeats
<1>9. \A d \in Doc : db'[d] # NoDoc => Seen(d, db[d].upd)'
  BY <1>1, <1>2, <1>3 DEF TurnInv, Seen
<1>10. \A d \in Doc : remote'[d] # NoDoc => remote'[d].upd <= clock'
  BY <1>1 DEF TurnInv
<1>11. \A k \in Job : InTurn(job[k])'
  BY <1>8 DEF Alone
<1> QED BY <1>9, <1>10, <1>11 DEF TurnInv

LEMMA TurnJobStep ==
  ASSUME TypeOK, TypeOK', TurnInv, Alone, NEW j \in Job, JobStep(j),
         ~(\E i \in DOMAIN job[j].task : WriteItem(j, i))
  PROVE  TurnInv'
<1> DEFINE r == job[j]
<1>1. /\ r \in JobState /\ InTurn(r)
      /\ remote' = remote /\ clock' = clock
      /\ \A d \in Doc : db'[d] = NoDoc \/ db'[d] = db[d]
  BY DEF JobStep, FetchPage, FetchFails, StartWindow, TaskStep, CheckItem,
         ItemFails, CloseWindow, Finish, Record, EnumeratePage, Diff, Delete, DbFails,
         TypeOK, TurnInv
<1> SUFFICES InTurn(job'[j])
  BY <1>1, TurnJob DEF Alone
<1>2. CASE FetchPage(j)
  <2>0. PICK P \in Answers(r) : \E p \in InOrder(Yielded(P, r.since)) :
          job'[j] = [Advance(r, P) EXCEPT
                    !.buf = @ \o [i \in 1 .. Cardinality(Yielded(P, r.since)) |->
                                    [doc |-> p[i], ver |-> remote[p[i]]]]]
    BY <1>2 DEF FetchPage, TypeOK
  <2>1. PICK p \in InOrder(Yielded(P, r.since)) :
          job'[j] = [Advance(r, P) EXCEPT
                    !.buf = @ \o [i \in 1 .. Cardinality(Yielded(P, r.since)) |->
                                    [doc |-> p[i], ver |-> remote[p[i]]]]]
    BY <2>0
  <2>2. P \in SUBSET Doc /\ Yielded(P, r.since) \in SUBSET Present(remote) /\ r.task = <<>>
    BY <1>2, AnswersType DEF Present, FetchPage, WantsPage
  <2>3. Advance(r, P) \in JobState /\ Advance(r, P).buf = r.buf /\ Advance(r, P).task = r.task
    BY <1>1, <2>2, AdvanceFields
  <2>4. job'[j].task = <<>>
        /\ job'[j].buf = r.buf \o [i \in 1 .. Cardinality(Yielded(P, r.since)) |->
                                    [doc |-> p[i], ver |-> remote[p[i]]]]
    BY <2>1, <2>2, <2>3 DEF JobState
  <2> HIDE DEF r
  <2> QED BY <1>1, <2>2, <2>4, InTurnFetch
<1>3. CASE StartWindow(j)
  <2> DEFINE n == IF Len(r.buf) >= Window THEN Window ELSE Len(r.buf)
  <2>1. Len(r.buf) \in Nat
    BY <1>1, LenProperties DEF JobState
  <2>2. n \in 0 .. Len(r.buf) /\ n <= Window
    BY <2>1, WindowType
  <2>3. job'[j] = [r EXCEPT !.task = [i \in 1 .. n |-> [item |-> r.buf[i], stage |-> "check"]],
                            !.buf = SubSeq(r.buf, n + 1, Len(r.buf))]
    BY <1>3 DEF StartWindow, TypeOK
  <2> HIDE DEF n
  <2>4. /\ job'[j].task = [i \in 1 .. n |-> [item |-> r.buf[i], stage |-> "check"]]
        /\ job'[j].buf = SubSeq(r.buf, n + 1, Len(r.buf))
    BY <1>1, <2>3 DEF JobState
  <2> HIDE DEF r
  <2> QED BY <1>1, <2>2, <2>4, InTurnWindow
<1>4. CASE TaskStep(j)
  <2>1. PICK i \in DOMAIN r.task : CheckItem(j, i) \/ ItemFails(j, i)
    BY <1>4 DEF TaskStep
  <2>2. PICK st : /\ st # "done" => r.task[i].stage # "done"
                  /\ \/ job'[j] = [r EXCEPT !.task = [r.task EXCEPT ![i].stage = st]]
                     \/ job'[j] = [r EXCEPT !.task = [r.task EXCEPT ![i].stage = st],
                                            !.failed = TRUE]
    <3>1. CASE CheckItem(j, i)
      BY <3>1 DEF CheckItem, TypeOK
    <3>2. CASE ItemFails(j, i)
      BY <3>2 DEF ItemFails, TypeOK
    <3> QED BY <2>1, <3>1, <3>2
  <2>3. job'[j].buf = r.buf /\ job'[j].task = [r.task EXCEPT ![i].stage = st]
    BY <1>1, <2>2 DEF JobState
  <2> HIDE DEF r
  <2> QED BY <1>1, <2>2, <2>3, InTurnStage
<1>5. CASE CloseWindow(j)
  <2>1. job'[j].buf = r.buf /\ job'[j].task = <<>>
    BY <1>1, <1>5 DEF CloseWindow, TypeOK, JobState
  <2> QED BY <1>1, <2>1, WindowType DEF InTurn
<1>6. CASE EnumeratePage(j)
  <2>1. PICK P \in Answers(r) : \E s : job'[j] = [Advance(r, P) EXCEPT !.ids = s]
    BY <1>6, Zenon DEF EnumeratePage, TypeOK
  <2>2. P \in SUBSET Doc
    BY AnswersType DEF Present
  <2>3. Advance(r, P) \in JobState /\ Advance(r, P).buf = r.buf /\ Advance(r, P).task = r.task
    BY <1>1, <2>2, AdvanceFields
  <2>4. job'[j].buf = r.buf /\ job'[j].task = r.task
    BY <2>1, <2>3 DEF JobState
  <2> QED BY <1>1, <2>4, InTurnSame
<1>7. CASE Finish(j) \/ Record(j) \/ Diff(j) \/ Delete(j) \/ FetchFails(j) \/ DbFails(j)
  <2>1. \/ job'[j] = IdleJob
        \/ job'[j] = [r EXCEPT !.phase = "record", !.stamp = clock]
        \/ job'[j] = [r EXCEPT !.phase = "enum", !.since = 0, !.space = 1, !.offset = 0, !.more = TRUE]
        \/ job'[j] = [r EXCEPT !.phase = "delete", !.stale = Stale(r.ids)]
    BY <1>7 DEF Finish, FetchFails, Delete, DbFails, Record, Diff, TypeOK
  <2>2. job'[j] = IdleJob \/ (job'[j].buf = r.buf /\ job'[j].task = r.task)
    BY <1>1, <2>1 DEF JobState
  <2> QED BY <1>1, <2>2, InTurnSame, InTurnIdle
<1> QED BY <1>2, <1>3, <1>4, <1>5, <1>6, <1>7 DEF JobStep

LEMMA TurnInit == Init => TurnInv
BY InTurnIdle, SizesAssumption DEF Init, TurnInv, Version

LEMMA TurnNext ==
  ASSUME TypeOK, TypeOK', Alone, TurnInv, [Next]_vars
  PROVE  TurnInv'
<1>1. CASE UNCHANGED vars
  BY <1>1, TurnJob DEF vars, TurnInv
<1>2. CASE Crash
  BY <1>2, TurnJob, InTurnIdle DEF Crash
<1>3. ASSUME NEW j \in Job, (\E full \in BOOLEAN : StartSync(j, full)) \/ StartReconcile(j)
      PROVE  TurnInv'
  <2>1. /\ remote' = remote /\ clock' = clock /\ db' = db
        /\ job'[j].buf = IdleJob.buf /\ job'[j].task = IdleJob.task
    <3>1. CASE StartReconcile(j)
      BY <3>1 DEF StartReconcile, IdleJob, TypeOK
    <3>2. ASSUME NEW full \in BOOLEAN, StartSync(j, full)
          PROVE  /\ remote' = remote /\ clock' = clock /\ db' = db
                 /\ job'[j].buf = IdleJob.buf /\ job'[j].task = IdleJob.task
      BY <3>2 DEF StartSync, IdleJob, TypeOK
    <3> QED BY <1>3, <3>1, <3>2
  <2>2. \A k \in Job : InTurn(job'[k])
    BY <2>1, InTurnIdle, InTurnSame DEF Alone
  <2> QED BY <2>1, <2>2, TurnJob
<1>4. ~(\E d \in Doc, body \in Body, meta \in Meta : PostDocument(d, body, meta))
  BY DEF Alone, PostDocument
<1> QED BY <1>1, <1>2, <1>3, <1>4, TurnSource, TurnJobStep, TurnWrite DEF Next

(* The version that is written of a document.                              *)
LEMMA TurnWrites ==
  ASSUME TypeOK, Alone, TurnInv, Next, NEW d \in Doc, db[d] # NoDoc, db'[d] # NoDoc,
         ~(db[d].upd <= db'[d].upd)
  PROVE  \E j \in Job : \E i \in DOMAIN job[j].task :
           job[j].task[i].item.doc = d /\ Repeats(job[j], i)
<1>1. db[d].upd \in Nat /\ db'[d] # db[d]
  BY SizesAssumption DEF TypeOK, Version
<1>2. PICK j \in Job : JobStep(j)
  BY <1>1 DEF Next, Alone, PostDocument, SourceEdit, SourceDelete, StartSync,
              StartReconcile, Crash
<1>3. PICK i \in DOMAIN job[j].task :
        /\ WriteItem(j, i) /\ job[j].task[i].item.doc = d
        /\ db'[d] = job[j].task[i].item.ver
  BY <1>1, <1>2, JobStepRows
<1>4. Repeats(job[j], i) \/ Waits(job[j].task[i].item)
  BY <1>3 DEF WriteItem, TurnInv, InTurn
<1> QED BY <1>3, <1>4 DEF Waits

(* An older version goes over a newer one only while a window holds both.  *)
OlderOnlyInWindow ==
  [][\A d \in Doc : db[d] # NoDoc /\ db'[d] # NoDoc /\ ~(db[d].upd <= db'[d].upd)
       => \E j \in Job : \E i \in DOMAIN job[j].task :
            job[j].task[i].item.doc = d /\ Repeats(job[j], i)]_vars

LEMMA TurnInvariant ==
  ASSUME Alone
  PROVE  Spec => []TurnInv
BY TurnInit, TurnNext, TypeCorrect, PTL DEF Spec

(* However the source changes and the pages shift: syncs that do not       *)
(* overlap put an older version of a document over a newer one only when   *)
(* the listing brought both into one window of concurrent tasks, which     *)
(* write in any order - the one thing between Confluence's windows and     *)
(* NeverOlder.                                                             *)
THEOREM WindowsNeverOlder ==
  ASSUME Alone
  PROVE  Spec => OlderOnlyInWindow
<1>1. TypeOK /\ TurnInv /\ [Next]_vars =>
        [\A d \in Doc : db[d] # NoDoc /\ db'[d] # NoDoc /\ ~(db[d].upd <= db'[d].upd)
           => \E j \in Job : \E i \in DOMAIN job[j].task :
                job[j].task[i].item.doc = d /\ Repeats(job[j], i)]_vars
  BY TurnWrites
<1> QED BY <1>1, TurnInvariant, TypeCorrect, PTL DEF Spec, OlderOnlyInWindow

(* So syncs that do not overlap and index item by item, as Jira's do, put  *)
(* no older version of a document over a newer one.                        *)
THEOREM OneByOneNeverOlder ==
  ASSUME OneByOne
  PROVE  Spec => NeverOlder
<1>1. Alone
  BY DEF OneByOne
<1>2. TypeOK /\ TurnInv /\ [Next]_vars =>
        [\A d \in Doc : db[d] # NoDoc /\ db'[d] # NoDoc => db[d].upd <= db'[d].upd]_vars
  <2> SUFFICES ASSUME TypeOK, TurnInv, Next, NEW d \in Doc, db[d] # NoDoc, db'[d] # NoDoc,
                      ~(db[d].upd <= db'[d].upd)
               PROVE  FALSE
    OBVIOUS
  <2>1. PICK j \in Job : \E i \in DOMAIN job[j].task : Repeats(job[j], i)
    BY <1>1, TurnWrites
  <2>2. /\ Len(job[j].task) <= 1 /\ Len(job[j].task) \in Nat
        /\ DOMAIN job[j].task = 1 .. Len(job[j].task)
    BY ItemsTyped DEF TurnInv, InTurn, OneByOne, TypeOK
  <2> QED BY <2>1, <2>2 DEF Repeats
<1> QED BY <1>1, <1>2, TurnInvariant, TypeCorrect, PTL DEF Spec, NeverOlder

-------------------------------------------------------------------------------
(* How far a job is from its end.  Pages that may still come count for all *)
(* the items they may bring; an item in the buffer for the two steps of    *)
(* its task and for its share of a window.                                 *)

\* Every space may hold every document.
SpacesLeft(s) == (NumDocs + 1) * (NumSpaces + 1 - s)
PagesLeft(r) == IF r.more THEN SpacesLeft(r.space) - r.offset ELSE 0
Unfinished(r) == {i \in DOMAIN r.task : r.task[i].stage # "done"}
Unchecked(r) == {i \in DOMAIN r.task : r.task[i].stage = "check"}

Begun(r) == IF r.task = <<>> THEN 0 ELSE 1

Work(r) ==
  4 * Len(r.buf) + Cardinality(Unfinished(r)) + Cardinality(Unchecked(r)) + Begun(r)

PageCost == 4 * NumDocs + 1

Left(r) ==
  CASE r.phase = "idle"   -> 0
    [] r.phase = "delete" -> 1
    [] r.phase = "enum"   -> PagesLeft(r) + 2
    [] r.phase = "record" -> SpacesLeft(1) + 3
    [] r.phase = "fetch"  -> SpacesLeft(1) + 4 + Work(r) + PageCost * PagesLeft(r)

(* Tasks are for the fetching phase only, and paging goes no further than  *)
(* the source is large.                                                    *)
Bounded(r) ==
  /\ r.phase # "fetch" => r.task = <<>>
  /\ r.more => r.offset <= NumDocs

Lower(q, r) == Bounded(q) /\ Left(q) \in Nat /\ Left(q) < Left(r)

LEMMA WorkType ==
  ASSUME NEW r \in JobState
  PROVE  /\ Len(r.buf) \in Nat /\ Work(r) \in Nat
         /\ IsFiniteSet(Unfinished(r)) /\ Cardinality(Unfinished(r)) \in Nat
         /\ IsFiniteSet(Unchecked(r)) /\ Cardinality(Unchecked(r)) \in Nat
<1>1. Len(r.buf) \in Nat /\ Len(r.task) \in Nat /\ DOMAIN r.task = 1 .. Len(r.task)
  BY LenProperties DEF JobState
<1>2. IsFiniteSet(1 .. Len(r.task))
  BY <1>1, FS_Interval
<1>3. IsFiniteSet(Unfinished(r)) /\ IsFiniteSet(Unchecked(r))
  BY <1>1, <1>2, FS_Subset DEF Unfinished, Unchecked
<1>4. Cardinality(Unfinished(r)) \in Nat /\ Cardinality(Unchecked(r)) \in Nat
  BY <1>3, FS_CardinalityType
<1>5. Begun(r) \in Nat
  BY DEF Begun
<1> DEFINE l == Len(r.buf)
           u == Cardinality(Unfinished(r))
           c == Cardinality(Unchecked(r))
           b == Begun(r)
<1>6. l \in Nat /\ u \in Nat /\ c \in Nat /\ b \in Nat /\ Work(r) = 4 * l + u + c + b
  BY <1>1, <1>4, <1>5 DEF Work
<1> HIDE DEF l, u, c, b
<1>7. Work(r) \in Nat
  BY <1>6
<1> QED BY <1>1, <1>3, <1>4, <1>7

(* The cost of so many, and of one less.                                   *)
LEMMA CostType ==
  ASSUME NEW c \in Nat, NEW n \in Nat, NEW m \in Nat, m < n
  PROVE  /\ c * n \in Nat /\ c * m \in Nat
         /\ c * m + c <= c * n
<1>1. PICK k \in Nat : n = m + 1 + k
  <2>1. n - m - 1 \in Nat /\ n = m + 1 + (n - m - 1)
    OBVIOUS
  <2> QED BY <2>1
<1>2. c * n = c * m + c + c * k
  BY <1>1
<1>3. c * k \in Nat /\ c * m \in Nat /\ c * n \in Nat
  OBVIOUS
<1> QED BY <1>2, <1>3

LEMMA SpacesLeftType ==
  ASSUME NEW s \in 1 .. NumSpaces
  PROVE  /\ SpacesLeft(s) \in Nat /\ SpacesLeft(s) >= NumDocs + 1
         /\ SpacesLeft(1) \in Nat
         /\ s < NumSpaces => SpacesLeft(s + 1) + NumDocs + 1 <= SpacesLeft(s)
<1> DEFINE c == NumDocs + 1
           n == NumSpaces + 1 - s
<1>1. /\ c \in Nat /\ n \in Nat /\ 0 < n /\ NumSpaces + 1 - 1 \in Nat
      /\ s < NumSpaces => NumSpaces + 1 - (s + 1) \in Nat /\ NumSpaces + 1 - (s + 1) < n
  BY SizesAssumption
<1>2. SpacesLeft(s) = c * n /\ SpacesLeft(1) = c * (NumSpaces + 1 - 1)
      /\ SpacesLeft(s + 1) = c * (NumSpaces + 1 - (s + 1))
  BY DEF SpacesLeft
<1> HIDE DEF c, n
<1>3. c * n \in Nat /\ c * 0 = 0 /\ c * 0 + c <= c * n /\ c * (NumSpaces + 1 - 1) \in Nat
  BY <1>1, CostType
<1>4. s < NumSpaces => /\ c * (NumSpaces + 1 - (s + 1)) \in Nat
                       /\ c * (NumSpaces + 1 - (s + 1)) + c <= c * n
  BY <1>1, CostType
<1>5. NumDocs + 1 = c /\ NumDocs \in Nat
  BY SizesAssumption DEF c
<1>6. s < NumSpaces => SpacesLeft(s + 1) \in Nat /\ SpacesLeft(s + 1) + c <= SpacesLeft(s)
  BY <1>2, <1>4
<1>7. SpacesLeft(s) \in Nat /\ SpacesLeft(s) >= c /\ SpacesLeft(1) \in Nat
  BY <1>1, <1>2, <1>3
<1> HIDE DEF SpacesLeft
<1>8. s < NumSpaces => SpacesLeft(s + 1) + NumDocs + 1 <= SpacesLeft(s)
  BY <1>1, <1>5, <1>6
<1> QED BY <1>5, <1>7, <1>8

LEMMA PagesLeftType ==
  ASSUME NEW r \in JobState, Bounded(r)
  PROVE  PagesLeft(r) \in Nat /\ (r.more => PagesLeft(r) > 0) /\ SpacesLeft(1) \in Nat
<1>1. r.space \in 1 .. NumSpaces /\ r.offset \in Nat
  BY DEF JobState
<1>2. SpacesLeft(r.space) \in Nat /\ SpacesLeft(r.space) >= NumDocs + 1 /\ SpacesLeft(1) \in Nat
  BY <1>1, SpacesLeftType
<1> HIDE DEF SpacesLeft
<1> QED BY <1>1, <1>2, SizesAssumption DEF PagesLeft, Bounded

LEMMA LeftType ==
  ASSUME NEW r \in JobState, Bounded(r)
  PROVE  Left(r) \in Nat /\ (r.phase # "idle" => Left(r) > 0)
<1>1. PagesLeft(r) \in Nat /\ Work(r) \in Nat /\ SpacesLeft(1) \in Nat
  BY WorkType, PagesLeftType
<1>2. PageCost * PagesLeft(r) \in Nat
  BY <1>1, SizesAssumption DEF PageCost
<1>3. r.phase \in {"idle", "fetch", "record", "enum", "delete"}
  BY DEF JobState
<1> HIDE DEF PageCost, SpacesLeft, PagesLeft
<1> QED BY <1>1, <1>2, <1>3 DEF Left

LEMMA LowerIdle ==
  ASSUME NEW r \in JobState, Bounded(r), r.phase # "idle"
  PROVE  Lower(IdleJob, r)
BY LeftType DEF Lower, Left, Bounded, IdleJob

(* An answered page leaves fewer to come.                                  *)
LEMMA PageTaken ==
  ASSUME NEW r \in JobState, Bounded(r), r.more, NEW P \in Answers(r)
  PROVE  LET q == Advance(r, P)
         IN  /\ q.more => q.offset <= NumDocs
             /\ PagesLeft(q) \in Nat /\ PagesLeft(q) < PagesLeft(r)
<1> DEFINE q == Advance(r, P)
           on == GoesOn(r, P)
           size == IF Kind = "jira" THEN Cardinality(P) ELSE PageSize
           here == SpacesLeft(r.space)
           next == SpacesLeft(r.space + 1)
<1>1. P \in SUBSET Doc /\ Listing(r) \in SUBSET Doc
  BY AnswersType DEF Present, Matching, Listing
<1>2. /\ Cardinality(P) \in Nat /\ (P # {} => Cardinality(P) # 0)
      /\ Cardinality(Listing(r)) \in Nat /\ Cardinality(Listing(r)) <= NumDocs
  BY <1>1, DocsFinite, FS_EmptySet
<1>3. \/ /\ ~on /\ r.space < NumSpaces
         /\ q.space = r.space + 1 /\ q.offset = 0 /\ q.more = r.more
      \/ q.space = r.space /\ q.offset = NextOffset(r, P) /\ q.more = on
  BY <1>1, AdvanceFields, Zenon
<1>4. r.offset \in Nat /\ r.offset <= NumDocs /\ PagesLeft(r) = here - r.offset
  BY DEF Bounded, PagesLeft, JobState
<1>5. /\ here \in Nat /\ here >= NumDocs + 1
      /\ r.space < NumSpaces => next \in Nat /\ next + NumDocs + 1 <= here
  <2>1. r.space \in 1 .. NumSpaces /\ (r.space < NumSpaces => r.space + 1 \in 1 .. NumSpaces)
    BY SizesAssumption DEF JobState
  <2>2. /\ here \in Nat /\ here >= NumDocs + 1
        /\ r.space < NumSpaces => next + NumDocs + 1 <= here
    BY <2>1, SpacesLeftType
  <2>3. r.space < NumSpaces => next \in Nat
    BY <2>1, SpacesLeftType
  <2> QED BY <2>2, <2>3
<1>6. on => P # {} /\ NextOffset(r, P) < Cardinality(Listing(r))
  BY DEF GoesOn
<1>7. NextOffset(r, P) = r.offset + size
  BY DEF NextOffset
<1>8. size \in Nat /\ (P # {} => size > 0)
  <2>1. Cardinality(P) \in Nat /\ (P # {} => Cardinality(P) > 0)
    <3>1. \A k : k \in Nat /\ k # 0 => k > 0
      OBVIOUS
    <3> QED BY <1>2, <3>1
  <2> QED BY <2>1, SizesAssumption
<1>9. PagesLeft(q) = IF q.more THEN SpacesLeft(q.space) - q.offset ELSE 0
  BY DEF PagesLeft
<1> HIDE DEF q, on, size, here, next
<1>10. CASE ~on /\ r.space < NumSpaces /\ q.space = r.space + 1 /\ q.offset = 0 /\ q.more = r.more
  <2>1. PagesLeft(q) = next - 0 /\ q.offset <= NumDocs
    BY <1>9, <1>10, SizesAssumption DEF next
  <2>2. next \in Nat /\ next + NumDocs + 1 <= here /\ NumDocs \in Nat
    BY <1>5, <1>10, SizesAssumption
  <2> QED BY <1>4, <1>5, <2>1, <2>2 DEF q
<1>11. CASE q.space = r.space /\ q.offset = NextOffset(r, P) /\ q.more = on
  <2>1. CASE on
    <3>1. q.offset = r.offset + size /\ size > 0 /\ q.offset < Cardinality(Listing(r))
      BY <1>6, <1>7, <1>8, <1>11, <2>1
    <3>2. q.offset \in Nat /\ q.offset > r.offset /\ q.offset <= NumDocs
      BY <1>2, <1>4, <1>8, <3>1, SizesAssumption
    <3>3. PagesLeft(q) = here - q.offset
      BY <1>9, <1>11, <2>1 DEF here
    <3> QED BY <1>4, <1>5, <3>2, <3>3, SizesAssumption DEF q
  <2>2. CASE ~on
    <3>1. PagesLeft(q) = 0 /\ ~q.more
      BY <1>9, <1>11, <2>2
    <3> QED BY <1>4, <1>5, <3>1, SizesAssumption DEF q
  <2> QED BY <2>1, <2>2
<1> QED BY <1>3, <1>10, <1>11

LEMMA LowerFetch ==
  ASSUME TypeOK, NEW r \in JobState, Bounded(r), r.phase = "fetch", r.more, r.task = <<>>,
         NEW P \in Answers(r), NEW p \in InOrder(Yielded(P, r.since))
  PROVE  Lower([Advance(r, P) EXCEPT !.buf = @ \o
                  [i \in 1 .. Cardinality(Yielded(P, r.since)) |->
                     [doc |-> p[i], ver |-> remote[p[i]]]]], r)
<1> DEFINE K == Yielded(P, r.since)
           n == Cardinality(K)
           items == [i \in 1 .. n |-> [doc |-> p[i], ver |-> remote[p[i]]]]
           adv == Advance(r, P)
           b == adv.buf \o items
           q == [adv EXCEPT !.buf = b]
<1>1. K \in SUBSET Present(remote) /\ P \in SUBSET Doc /\ K \in SUBSET Doc
  BY AnswersType DEF Present
<1>2. n \in Nat /\ n <= NumDocs
  BY <1>1, DocsFinite
<1>3. /\ adv \in JobState /\ adv.phase = "fetch" /\ adv.buf = r.buf /\ adv.task = <<>>
      /\ adv.more => adv.offset <= NumDocs
      /\ PagesLeft(adv) \in Nat /\ PagesLeft(adv) < PagesLeft(r)
  BY <1>1, AdvanceFields, PageTaken
<1>4. b \in Seq(Item) /\ Len(b) = Len(r.buf) + n
  <2>1. r.buf \in Seq(Item)
    BY DEF JobState
  <2>2. DOMAIN b = 1 .. Len(r.buf) + n /\ Len(r.buf) \in Nat
    BY <1>1, <1>3, <2>1, Appended
  <2>3. b \in Seq(Item)
    BY <1>1, <1>3, <2>1, BufferType
  <2>4. Len(b) \in Nat /\ DOMAIN b = 1 .. Len(b)
    BY <2>3, LenProperties
  <2>5. Len(b) = Len(r.buf) + n
    BY <1>2, <2>2, <2>4
  <2> QED BY <2>3, <2>5
<1> HIDE DEF adv, b, n, K
<1>5. /\ q.phase = "fetch" /\ q.buf = b /\ q.task = <<>> /\ q.more = adv.more
      /\ q.offset = adv.offset /\ q.space = adv.space
  BY <1>3 DEF JobState
<1>6. Bounded(q) /\ PagesLeft(q) = PagesLeft(adv)
  BY <1>3, <1>5 DEF Bounded, PagesLeft
<1>7. Work(q) = 4 * Len(b) /\ Work(r) = 4 * Len(r.buf)
  <2>1. \A x : x.task = <<>> => Unfinished(x) = {} /\ Unchecked(x) = {}
    BY DEF Unfinished, Unchecked
  <2>2. Cardinality({}) = 0
    BY FS_EmptySet
  <2>3. Len(b) \in Nat /\ Len(r.buf) \in Nat
    BY <1>2, <1>4, WorkType
  <2>4. Unfinished(q) = {} /\ Unchecked(q) = {} /\ Unfinished(r) = {} /\ Unchecked(r) = {}
    BY <1>5, <2>1
  <2>6. 4 * Len(b) + 0 + 0 + 0 = 4 * Len(b) /\ 4 * Len(r.buf) + 0 + 0 + 0 = 4 * Len(r.buf)
    BY <2>3
  <2>5. Begun(q) = 0 /\ Begun(r) = 0
    BY <1>5 DEF Begun
  <2> HIDE DEF q
  <2> QED BY <1>5, <2>2, <2>4, <2>5, <2>6 DEF Work
<1>8. /\ Left(q) = SpacesLeft(1) + 4 + Work(q) + PageCost * PagesLeft(adv)
      /\ Left(r) = SpacesLeft(1) + 4 + Work(r) + PageCost * PagesLeft(r)
  BY <1>5, <1>6 DEF Left
<1>9. PagesLeft(r) \in Nat /\ SpacesLeft(1) \in Nat /\ PageCost \in Nat
  BY PagesLeftType, SizesAssumption DEF PageCost
<1>10. /\ PageCost * PagesLeft(r) \in Nat /\ PageCost * PagesLeft(adv) \in Nat
       /\ PageCost * PagesLeft(adv) + PageCost <= PageCost * PagesLeft(r)
  BY <1>3, <1>9, CostType
<1>11. Left(q) \in Nat /\ Left(q) < Left(r)
  <2> DEFINE x == PageCost * PagesLeft(r)
             y == PageCost * PagesLeft(adv)
             z == SpacesLeft(1)
  <2>1. x \in Nat /\ y \in Nat /\ y + (4 * NumDocs + 1) <= x
    BY <1>10 DEF PageCost
  <2>2. /\ Left(q) = z + 4 + 4 * (Len(r.buf) + n) + y
        /\ Left(r) = z + 4 + 4 * Len(r.buf) + x
    BY <1>4, <1>7, <1>8
  <2> DEFINE l == Len(r.buf)
  <2>3. l \in Nat /\ NumDocs \in Nat /\ z \in Nat
    BY <1>9, WorkType, SizesAssumption
  <2>4. Left(q) = z + 4 + 4 * (l + n) + y /\ Left(r) = z + 4 + 4 * l + x
    BY <2>2
  <2> HIDE DEF x, y, z, q, l
  <2> QED BY <1>2, <2>1, <2>3, <2>4
<1> QED BY <1>6, <1>11 DEF Lower, q, adv, b, n, K

(* Less work, with as many pages to come.                                  *)
LEMMA LowerWork ==
  ASSUME NEW r \in JobState, Bounded(r), NEW q, r.phase = "fetch", q.phase = "fetch",
         PagesLeft(q) = PagesLeft(r), Work(q) \in Nat, Work(q) < Work(r)
  PROVE  Left(q) \in Nat /\ Left(q) < Left(r)
<1>1. PagesLeft(r) \in Nat /\ Work(r) \in Nat /\ SpacesLeft(1) \in Nat
  BY PagesLeftType, WorkType
<1> DEFINE x == PageCost * PagesLeft(r)
           z == SpacesLeft(1)
<1>2. x \in Nat /\ z \in Nat
  BY <1>1, SizesAssumption DEF PageCost
<1>3. Left(q) = z + 4 + Work(q) + x /\ Left(r) = z + 4 + Work(r) + x
  BY DEF Left
<1> HIDE DEF x, z
<1> QED BY <1>1, <1>2, <1>3

(* What a step within the phase leaves of a job.                           *)
Moves(q, r, buf, tasks) ==
  /\ q.phase = "fetch" /\ q.more = r.more /\ q.space = r.space /\ q.offset = r.offset
  /\ q.buf = buf /\ q.task = tasks

(* A window that is started has at least one item.                         *)
LEMMA LowerWindow ==
  ASSUME NEW r \in JobState, Bounded(r), r.phase = "fetch", r.task = <<>>,
         NEW n \in 1 .. Len(r.buf), NEW tasks, DOMAIN tasks = 1 .. n,
         \A i \in 1 .. n : tasks[i].stage = "check",
         NEW q, Moves(q, r, SubSeq(r.buf, n + 1, Len(r.buf)), tasks)
  PROVE  Lower(q, r)
<1> DEFINE c == SubSeq(r.buf, n + 1, Len(r.buf))
<1>1. Len(r.buf) \in Nat /\ n \in Nat /\ n >= 1 /\ n <= Len(r.buf)
  BY WorkType
<1>2. Len(c) = Len(r.buf) - n
  <2>1. r.buf \in Seq(Item)
    BY DEF JobState
  <2>2. DOMAIN c = 1 .. Len(r.buf) - n
    BY <1>1, <2>1, Remainder
  <2>3. c \in Seq(Item)
    BY <1>1, <2>1, SubSeqProperties
  <2>4. Len(c) \in Nat /\ DOMAIN c = 1 .. Len(c)
    BY <2>3, LenProperties
  <2> HIDE DEF c
  <2> QED BY <1>1, <2>2, <2>4
<1>3. /\ q.phase = "fetch" /\ q.buf = c /\ q.task = tasks /\ q.more = r.more
      /\ q.space = r.space /\ q.offset = r.offset
  BY DEF Moves
<1> HIDE DEF c
<1>4. Unfinished(q) = 1 .. n /\ Unchecked(q) = 1 .. n
  BY <1>3 DEF Unfinished, Unchecked
<1>5. Unfinished(r) = {} /\ Unchecked(r) = {}
  BY DEF Unfinished, Unchecked
<1>6. Cardinality(1 .. n) = n /\ Cardinality({}) = 0
  BY <1>1, FS_Interval, FS_EmptySet
<1>7. /\ Work(q) \in Nat /\ Work(r) \in Nat /\ Work(q) < Work(r)
  <2>1. Work(r) = 4 * Len(r.buf)
    BY <1>1, <1>5, <1>6 DEF Work, Begun
  <2>2. Work(q) = 4 * (Len(r.buf) - n) + n + n + Begun(q)
    BY <1>2, <1>3, <1>4, <1>6 DEF Work
  <2>3. Begun(q) \in Nat /\ Begun(q) <= 1
    BY DEF Begun
  <2> DEFINE l == Len(r.buf)
             b == Begun(q)
  <2>4. /\ l \in Nat /\ n \in Nat /\ n >= 1 /\ n <= l /\ b \in Nat /\ b <= 1
        /\ Work(r) = 4 * l /\ Work(q) = 4 * (l - n) + n + n + b
    BY <1>1, <2>1, <2>2, <2>3
  <2> HIDE DEF l, b
  <2> QED BY <2>4
<1>8. Bounded(q) /\ PagesLeft(q) = PagesLeft(r)
  BY <1>3 DEF Bounded, PagesLeft
<1>9. Left(q) \in Nat /\ Left(q) < Left(r)
  BY <1>3, <1>7, <1>8, LowerWork
<1> QED BY <1>8, <1>9 DEF Lower

(* A task is checked before it is written, and either ends it or not.      *)
LEMMA LowerTask ==
  ASSUME NEW r \in JobState, Bounded(r), r.phase = "fetch", NEW i \in DOMAIN r.task,
         NEW st \in {"write", "done"},
         r.task[i].stage = "check" \/ (r.task[i].stage = "write" /\ st = "done"),
         NEW q, Moves(q, r, r.buf, [r.task EXCEPT ![i].stage = st])
  PROVE  Lower(q, r)
<1> DEFINE t == [r.task EXCEPT ![i].stage = st]
<1>1. /\ q.phase = "fetch" /\ q.buf = r.buf /\ q.task = t /\ q.more = r.more
      /\ q.space = r.space /\ q.offset = r.offset
  BY DEF Moves
<1>2. /\ DOMAIN t = DOMAIN r.task /\ t[i].stage = st
      /\ \A k \in DOMAIN r.task \ {i} : t[k] = r.task[k]
  <2>1. r.task \in Seq(Task)
    BY DEF JobState
  <2>2. r.task[i] \in Task
    BY <2>1, LenProperties, ElementOfSeq
  <2>3. t[i] = [r.task[i] EXCEPT !.stage = st]
    OBVIOUS
  <2>4. t[i].stage = st
    BY <2>2, <2>3 DEF Task
  <2> QED BY <2>4
<1> HIDE DEF t
<1>3. Unchecked(q) = Unchecked(r) \ {i}
  BY <1>1, <1>2 DEF Unchecked
<1>4. Unfinished(q) = IF st = "done" THEN Unfinished(r) \ {i} ELSE Unfinished(r)
  BY <1>1, <1>2 DEF Unfinished
<1>5. i \in Unfinished(r) /\ (st # "done" => i \in Unchecked(r))
  BY DEF Unfinished, Unchecked
<1> DEFINE l == Len(r.buf)
           u == Cardinality(Unfinished(r))
           v == Cardinality(Unfinished(q))
           c == Cardinality(Unchecked(r))
           d == Cardinality(Unchecked(q))
           b == Begun(r)
<1>6. /\ l \in Nat /\ u \in Nat /\ c \in Nat /\ b \in Nat /\ v \in Nat /\ d \in Nat
      /\ v <= u /\ d <= c /\ (v = u - 1 \/ d = c - 1)
  <2>1. /\ l \in Nat /\ u \in Nat /\ c \in Nat
        /\ IsFiniteSet(Unfinished(r)) /\ IsFiniteSet(Unchecked(r))
    BY WorkType
  <2>2. b \in Nat
    BY DEF Begun
  <2>3. u > 0 /\ Cardinality(Unfinished(r) \ {i}) = u - 1
    BY <1>5, <2>1, FS_RemoveElement, FS_EmptySet, FS_CardinalityType
  <2>4. d = IF i \in Unchecked(r) THEN c - 1 ELSE c
    BY <1>3, <2>1, FS_RemoveElement
  <2>5. IsFiniteSet(Unchecked(q)) /\ d \in Nat
    BY <1>3, <2>1, FS_Subset, FS_CardinalityType
  <2>6. v = IF st = "done" THEN u - 1 ELSE u
    BY <1>4, <2>3
  <2> HIDE DEF l, u, v, c, d, b
  <2> QED BY <1>5, <2>1, <2>2, <2>3, <2>4, <2>5, <2>6
<1>7. Begun(q) = b
  BY <1>1, <1>2, r.task # <<>>, t # <<>> DEF Begun
<1>8. Work(r) = 4 * l + u + c + b /\ Work(q) = 4 * l + v + d + b
  BY <1>1, <1>7 DEF Work
<1> HIDE DEF l, u, v, c, d, b
<1>9. Work(q) \in Nat /\ Work(q) < Work(r)
  BY <1>6, <1>8
<1>10. Bounded(q) /\ PagesLeft(q) = PagesLeft(r)
  BY <1>1 DEF Bounded, PagesLeft
<1>11. Left(q) \in Nat /\ Left(q) < Left(r)
  BY <1>1, <1>9, <1>10, LowerWork
<1> QED BY <1>10, <1>11 DEF Lower

LEMMA LowerClose ==
  ASSUME NEW r \in JobState, Bounded(r), r.phase = "fetch", r.task # <<>>,
         \A i \in DOMAIN r.task : r.task[i].stage = "done"
  PROVE  Lower([r EXCEPT !.task = <<>>], r)
<1> DEFINE q == [r EXCEPT !.task = <<>>]
<1>1. /\ q.phase = "fetch" /\ q.buf = r.buf /\ q.task = <<>> /\ q.more = r.more
      /\ q.space = r.space /\ q.offset = r.offset
  BY DEF JobState
<1> HIDE DEF q
<1>2. Unfinished(q) = {} /\ Unchecked(q) = {} /\ Unfinished(r) = {} /\ Unchecked(r) = {}
  BY <1>1 DEF Unfinished, Unchecked
<1>3. Begun(q) = 0 /\ Begun(r) = 1
  BY <1>1 DEF Begun
<1> DEFINE l == Len(r.buf)
<1>4. l \in Nat /\ Cardinality({}) = 0
  BY WorkType, FS_EmptySet
<1>5. Work(q) = 4 * l + 0 + 0 + 0 /\ Work(r) = 4 * l + 0 + 0 + 1
  BY <1>1, <1>2, <1>3, <1>4 DEF Work
<1> HIDE DEF l
<1>6. Work(q) \in Nat /\ Work(q) < Work(r)
  BY <1>4, <1>5
<1>7. Bounded(q) /\ PagesLeft(q) = PagesLeft(r)
  BY <1>1 DEF Bounded, PagesLeft
<1>8. Left(q) \in Nat /\ Left(q) < Left(r)
  BY <1>1, <1>6, <1>7, LowerWork
<1> QED BY <1>7, <1>8 DEF Lower, q

(* From phase to phase.                                                    *)
LEMMA LowerPhase ==
  ASSUME NEW r \in JobState, Bounded(r), NEW q, q.task = r.task, q.offset = r.offset \/ q.offset = 0,
         \/ r.phase = "fetch" /\ q.phase = "record" /\ ~q.more /\ r.task = <<>> /\ ~r.more
         \/ r.phase = "record" /\ q.phase = "enum" /\ q.more /\ q.space = 1 /\ q.offset = 0
         \/ r.phase = "enum" /\ q.phase = "delete" /\ ~q.more
  PROVE  Lower(q, r)
<1>1. Bounded(q)
  BY SizesAssumption DEF Bounded
<1>2. /\ Work(r) \in Nat /\ PagesLeft(r) \in Nat /\ NumDocs \in Nat
      /\ SpacesLeft(1) \in Nat
  BY WorkType, PagesLeftType, SizesAssumption
<1>3. CASE r.phase = "fetch"
  <2> DEFINE x == PageCost * PagesLeft(r)
             w == Work(r)
             z == SpacesLeft(1)
  <2>1. x \in Nat /\ w \in Nat /\ z \in Nat
    BY <1>2 DEF PageCost
  <2>2. Left(q) = z + 3 /\ Left(r) = z + 4 + w + x
    BY <1>3 DEF Left
  <2> HIDE DEF x, w, z
  <2>3. Left(q) \in Nat /\ Left(q) < Left(r)
    BY <1>2, <2>1, <2>2
  <2> QED BY <1>1, <2>3 DEF Lower
<1>4. CASE r.phase = "record"
  <2>1. Left(q) = SpacesLeft(1) - 0 + 2 /\ Left(r) = SpacesLeft(1) + 3
    BY <1>4 DEF Left, PagesLeft
  <2> HIDE DEF SpacesLeft
  <2> QED BY <1>1, <1>2, <2>1 DEF Lower
<1>5. CASE r.phase = "enum"
  <2>1. Left(q) = 1 /\ Left(r) = PagesLeft(r) + 2
    BY <1>5 DEF Left
  <2> QED BY <1>1, <1>2, <2>1 DEF Lower
<1> QED BY <1>3, <1>4, <1>5

LEMMA LowerEnumerate ==
  ASSUME NEW r \in JobState, Bounded(r), r.phase = "enum", r.more, NEW P \in Answers(r), NEW s
  PROVE  Lower([Advance(r, P) EXCEPT !.ids = s], r)
<1> DEFINE adv == Advance(r, P)
           q == [adv EXCEPT !.ids = s]
<1>1. P \in SUBSET Doc
  BY AnswersType DEF Present
<1>2. /\ adv \in JobState /\ adv.phase = "enum" /\ adv.task = <<>>
      /\ adv.more => adv.offset <= NumDocs
      /\ PagesLeft(adv) \in Nat /\ PagesLeft(adv) < PagesLeft(r)
  BY <1>1, AdvanceFields, PageTaken DEF Bounded
<1> HIDE DEF adv
<1>3. q.phase = "enum" /\ q.task = <<>> /\ q.more = adv.more /\ q.offset = adv.offset
      /\ q.space = adv.space
  BY <1>2 DEF JobState
<1>4. Bounded(q) /\ PagesLeft(q) = PagesLeft(adv)
  BY <1>2, <1>3 DEF Bounded, PagesLeft
<1>5. Left(q) = PagesLeft(adv) + 2 /\ Left(r) = PagesLeft(r) + 2
  BY <1>3, <1>4 DEF Left
<1>6. Left(q) \in Nat /\ Left(q) < Left(r)
  BY <1>2, <1>5, PagesLeftType
<1> QED BY <1>4, <1>6 DEF Lower, q, adv

LEMMA LowerStep ==
  ASSUME TypeOK, NEW j \in Job, Bounded(job[j]), JobStep(j)
  PROVE  Lower(job'[j], job[j])
<1> DEFINE r == job[j]
<1>1. r \in JobState /\ Bounded(r)
  BY DEF TypeOK
<1> SUFFICES Lower(job'[j], r)
  OBVIOUS
<1>2. CASE FetchPage(j)
  <2>1. PICK P \in Answers(r) : \E p \in InOrder(Yielded(P, r.since)) :
          job' = [job EXCEPT ![j] = [Advance(r, P) EXCEPT
                    !.buf = @ \o [i \in 1 .. Cardinality(Yielded(P, r.since)) |->
                                    [doc |-> p[i], ver |-> remote[p[i]]]]]]
    BY <1>2 DEF FetchPage
  <2>2. PICK p \in InOrder(Yielded(P, r.since)) :
          job'[j] = [Advance(r, P) EXCEPT
                    !.buf = @ \o [i \in 1 .. Cardinality(Yielded(P, r.since)) |->
                                    [doc |-> p[i], ver |-> remote[p[i]]]]]
    BY <2>1 DEF TypeOK
  <2>3. r.phase = "fetch" /\ r.more /\ r.task = <<>>
    BY <1>2 DEF FetchPage, WantsPage
  <2> HIDE DEF r
  <2>4. Lower([Advance(r, P) EXCEPT
                 !.buf = @ \o [i \in 1 .. Cardinality(Yielded(P, r.since)) |->
                                 [doc |-> p[i], ver |-> remote[p[i]]]]], r)
    BY <1>1, <2>3, LowerFetch
  <2> QED BY <2>2, <2>4, Zenon
<1>3. CASE StartWindow(j)
  <2> DEFINE n == IF Len(r.buf) >= Window THEN Window ELSE Len(r.buf)
  <2>1. /\ Window \in Nat /\ Window >= 1 /\ Len(r.buf) \in Nat
        /\ (Len(r.buf) = 0 => r.buf = <<>>)
    BY <1>1, LenProperties, EmptySeq, SizesAssumption DEF Window, JobState
  <2>2. /\ r.phase = "fetch" /\ r.task = <<>> /\ r.buf # <<>>
        /\ job'[j] = [r EXCEPT !.task = [i \in 1 .. n |-> [item |-> r.buf[i], stage |-> "check"]],
                               !.buf = SubSeq(r.buf, n + 1, Len(r.buf))]
    BY <1>3 DEF StartWindow, TypeOK
  <2>3. n \in 1 .. Len(r.buf)
    BY <2>1, <2>2
  <2> DEFINE tasks == [i \in 1 .. n |-> [item |-> r.buf[i], stage |-> "check"]]
             c == SubSeq(r.buf, n + 1, Len(r.buf))
  <2>4. DOMAIN tasks = 1 .. n /\ \A i \in 1 .. n : tasks[i].stage = "check"
    OBVIOUS
  <2>5. job'[j] = [r EXCEPT !.task = tasks, !.buf = c]
    BY <2>2
  <2> HIDE DEF r, n, tasks
  <2>6. Moves(job'[j], r, c, tasks)
    <3> HIDE DEF c
    <3> QED BY <1>1, <2>2, <2>5 DEF Moves, JobState
  <2> QED BY <1>1, <2>2, <2>3, <2>4, <2>6, LowerWindow
<1>4. CASE TaskStep(j)
  <2>1. PICK i \in DOMAIN r.task : CheckItem(j, i) \/ WriteItem(j, i) \/ ItemFails(j, i)
    BY <1>4 DEF TaskStep
  <2>2. r.phase = "fetch"
    BY <2>1 DEF Bounded
  <2>3. r.task[i].stage \in {"check", "write", "done"}
    <3>1. r.task \in Seq(Task)
      BY <1>1 DEF JobState
    <3>2. r.task[i] \in Task
      BY <3>1, LenProperties, ElementOfSeq
    <3> QED BY <3>2 DEF Task
  <2>4. PICK st \in {"write", "done"} :
          /\ r.task[i].stage = "check" \/ (r.task[i].stage = "write" /\ st = "done")
          /\ \/ job'[j] = [r EXCEPT !.task = [r.task EXCEPT ![i].stage = st]]
             \/ job'[j] = [r EXCEPT !.task = [r.task EXCEPT ![i].stage = st], !.failed = TRUE]
    <3>1. CASE CheckItem(j, i)
      <4>1. PICK st \in {"write", "done"} : job' = [job EXCEPT ![j].task[i].stage = st]
        BY <3>1 DEF CheckItem
      <4>2. job'[j] = [r EXCEPT !.task = [r.task EXCEPT ![i].stage = st]]
        BY <4>1 DEF TypeOK
      <4> QED BY <3>1, <4>2 DEF CheckItem
    <3>2. CASE WriteItem(j, i)
      <4>1. job'[j] = [r EXCEPT !.task = [r.task EXCEPT ![i].stage = "done"]]
        BY <3>2 DEF WriteItem, TypeOK
      <4> QED BY <3>2, <4>1 DEF WriteItem
    <3>3. CASE ItemFails(j, i)
      <4>1. job'[j] = [r EXCEPT !.task = [r.task EXCEPT ![i].stage = "done"], !.failed = TRUE]
        BY <3>3 DEF ItemFails, TypeOK
      <4> QED BY <2>3, <3>3, <4>1 DEF ItemFails
    <3> QED BY <2>1, <3>1, <3>2, <3>3
  <2> HIDE DEF r
  <2>5. Moves(job'[j], r, r.buf, [r.task EXCEPT ![i].stage = st])
    <3> DEFINE t == [r.task EXCEPT ![i].stage = st]
    <3>1. job'[j] = [r EXCEPT !.task = t] \/ job'[j] = [r EXCEPT !.task = t, !.failed = TRUE]
      BY <2>4
    <3> HIDE DEF t
    <3>2. Moves(job'[j], r, r.buf, t)
      BY <1>1, <2>2, <3>1 DEF Moves, JobState
    <3> QED BY <3>2 DEF t
  <2> QED BY <1>1, <2>2, <2>4, <2>5, LowerTask
<1>5. CASE CloseWindow(j)
  <2>1. /\ job'[j] = [r EXCEPT !.task = <<>>] /\ r.task # <<>>
        /\ \A i \in DOMAIN r.task : r.task[i].stage = "done"
    BY <1>5 DEF CloseWindow, TypeOK
  <2>2. Bounded(r) /\ r.phase = "fetch"
    BY <2>1 DEF Bounded
  <2> HIDE DEF r
  <2> QED BY <1>1, <2>1, <2>2, LowerClose
<1>6. CASE Finish(j) \/ Record(j) \/ Diff(j)
  <2>1. CASE job'[j] = IdleJob
    <3>1. r.phase # "idle"
      BY <1>6 DEF Finish, Record, Diff
    <3> QED BY <1>1, <2>1, <3>1, LowerIdle
  <2>2. CASE job'[j] # IdleJob
    <3>1. \/ /\ r.phase = "fetch" /\ r.task = <<>> /\ ~r.more
             /\ job'[j] = [r EXCEPT !.phase = "record", !.stamp = clock]
          \/ /\ r.phase = "record"
             /\ job'[j] = [r EXCEPT !.phase = "enum", !.since = 0, !.space = 1, !.offset = 0, !.more = TRUE]
          \/ /\ r.phase = "enum" /\ ~r.more
             /\ job'[j] = [r EXCEPT !.phase = "delete", !.stale = Stale(r.ids)]
      BY <1>6, <2>2 DEF Finish, Record, Diff, TypeOK
    <3> DEFINE q == job'[j]
    <3>2. /\ q.task = r.task /\ (q.offset = r.offset \/ q.offset = 0)
          /\ \/ r.phase = "fetch" /\ q.phase = "record" /\ ~q.more /\ r.task = <<>> /\ ~r.more
             \/ r.phase = "record" /\ q.phase = "enum" /\ q.more /\ q.space = 1 /\ q.offset = 0
             \/ r.phase = "enum" /\ q.phase = "delete" /\ ~q.more
      BY <1>1, <3>1 DEF JobState
    <3> HIDE DEF r, q
    <3>3. Lower(q, r)
      BY <1>1, <3>2, LowerPhase
    <3> QED BY <3>3 DEF q
  <2> QED BY <2>1, <2>2
<1>7. CASE EnumeratePage(j)
  <2>1. PICK P \in Answers(r) :
          job' = [job EXCEPT ![j] = [Advance(r, P) EXCEPT !.ids = @ \union Yielded(P, r.since)]]
    BY <1>7 DEF EnumeratePage
  <2> DEFINE s == Advance(r, P).ids \union Yielded(P, r.since)
  <2>2. job'[j] = [Advance(r, P) EXCEPT !.ids = s] /\ r.phase = "enum" /\ r.more
    BY <1>7, <2>1 DEF EnumeratePage, TypeOK
  <2> HIDE DEF r, s
  <2>3. Lower([Advance(r, P) EXCEPT !.ids = s], r)
    BY <1>1, <2>2, LowerEnumerate
  <2> QED BY <2>2, <2>3, Zenon
<1>8. CASE FetchFails(j) \/ DbFails(j) \/ Delete(j)
  <2>1. r.phase # "idle" /\ job'[j] = IdleJob
    BY <1>8 DEF FetchFails, WantsPage, DbFails, Delete, TypeOK
  <2> QED BY <1>1, <2>1, LowerIdle
<1> QED BY <1>2, <1>3, <1>4, <1>5, <1>6, <1>7, <1>8 DEF JobStep

AllBounded == \A j \in Job : Bounded(job[j])

(* Each of a job's steps brings it nearer to its end, and no step of the   *)
(* source, of another job or of whoever posts takes it back.               *)
Nearer(j) ==
  Active(j) =>
    /\ Left(job'[j]) <= Left(job[j])
    /\ JobStep(j) => Left(job'[j]) < Left(job[j])

LEMMA NearerStep ==
  ASSUME TypeOK, AllBounded, [Next]_vars
  PROVE  AllBounded' /\ \A j \in Job : Nearer(j)
<1> SUFFICES ASSUME NEW j \in Job PROVE Bounded(job'[j]) /\ Nearer(j)
  BY DEF AllBounded, Bounded
<1>1. job[j] \in JobState /\ Bounded(job[j])
  BY DEF TypeOK, AllBounded
<1>2. Left(job[j]) \in Nat
  BY <1>1, LeftType
<1>3. CASE JobStep(j)
  <2>1. Lower(job'[j], job[j])
    BY <1>1, <1>3, LowerStep
  <2> QED BY <1>2, <2>1 DEF Lower, Nearer
<1>4. CASE ~JobStep(j) /\ job'[j] = job[j]
  BY <1>1, <1>2, <1>4 DEF Nearer
<1>5. CASE ~JobStep(j) /\ job'[j] = IdleJob
  <2>1. Active(j) => Lower(job'[j], job[j])
    BY <1>1, <1>5, LowerIdle DEF Active
  <2>2. Bounded(IdleJob)
    BY DEF Bounded, IdleJob
  <2> QED BY <1>2, <1>5, <2>1, <2>2 DEF Lower, Nearer
<1>6. CASE ~Active(j) /\ ((\E full \in BOOLEAN : StartSync(j, full)) \/ StartReconcile(j))
  <2>1. job'[j].task = <<>> /\ job'[j].offset = 0
    <3>1. CASE StartReconcile(j)
      BY <3>1 DEF StartReconcile, TypeOK, IdleJob
    <3>2. ASSUME NEW full \in BOOLEAN, StartSync(j, full)
          PROVE  job'[j].task = <<>> /\ job'[j].offset = 0
      BY <3>2 DEF StartSync, TypeOK, IdleJob
    <3> QED BY <1>6, <3>1, <3>2
  <2>2. Bounded(job'[j])
    BY <2>1, SizesAssumption DEF Bounded
  <2> QED BY <1>6, <2>2 DEF Nearer
<1>7. ASSUME NEW k \in Job \ {j},
             \/ \E full \in BOOLEAN : StartSync(k, full)
             \/ StartReconcile(k) \/ JobStep(k)
      PROVE  job'[j] = job[j]
  <2>1. JobStep(k) => job'[j] = job[j]
    BY DEF JobStep, FetchPage, FetchFails, StartWindow, TaskStep, CheckItem, WriteItem,
           ItemFails, CloseWindow, Finish, Record, EnumeratePage, Diff, Delete, DbFails, TypeOK
  <2>2. StartReconcile(k) => job'[j] = job[j]
    BY DEF StartReconcile, TypeOK
  <2>3. ASSUME NEW full \in BOOLEAN, StartSync(k, full)
        PROVE  job'[j] = job[j]
    BY <2>3 DEF StartSync, TypeOK
  <2> QED BY <1>7, <2>1, <2>2, <2>3
<1>8. CASE Crash
  BY <1>3, <1>5, <1>8 DEF Crash
<1>9. CASE UNCHANGED vars
  BY <1>3, <1>4, <1>9 DEF vars
<1>10. ASSUME NEW d \in Doc,
              \/ SourceEdit(d) \/ SourceDelete(d)
              \/ \E body \in Body, meta \in Meta : PostDocument(d, body, meta)
       PROVE  job' = job
  BY <1>10 DEF SourceEdit, SourceDelete, PostDocument
<1>11. StartReconcile(j) \/ (\E full \in BOOLEAN : StartSync(j, full)) => ~Active(j)
  BY Zenon DEF StartReconcile, StartSync
<1> QED BY <1>3, <1>4, <1>6, <1>7, <1>8, <1>9, <1>10, <1>11 DEF Next

(* A job is nearer to its end with each of its steps, and no step of       *)
(* anything else sets it back.                                             *)
JobsProgress == [][\A j \in Job : Nearer(j)]_vars

(* What keeps a job from going on for ever, for every number of documents, *)
(* page size and window: the number Left, which is bounded by the size of  *)
(* the source, falls with every step of the job, though documents come and *)
(* go while it pages through them.                                         *)
THEOREM EveryStepCounts == Spec => JobsProgress
<1>1. Init => AllBounded
  BY DEF Init, AllBounded, Bounded, IdleJob
<1>2. TypeOK /\ AllBounded /\ [Next]_vars => AllBounded' /\ [\A j \in Job : Nearer(j)]_vars
  BY NearerStep
<1>3. Spec => []AllBounded
  BY <1>1, <1>2, TypeCorrect, PTL DEF Spec
<1> QED BY <1>2, <1>3, TypeCorrect, PTL DEF Spec, JobsProgress
=============================================================================
