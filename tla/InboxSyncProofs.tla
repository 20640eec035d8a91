-------------------------- MODULE InboxSyncProofs ---------------------------
(***************************************************************************)
(* The inbox of a tab for any number of servers, tasks and messages.       *)
(*                                                                         *)
(* Whatever the user does, the list libraryEntries is the library, newest  *)
(* first: the binary search finds the place of a new entry, and the sort   *)
(* of a batch is one.  When the user changes the session only while the    *)
(* tab is quiet (~Overlap; the run MCInboxOverlap shows what happens       *)
(* otherwise), no stored message is skipped by a cursor and no library     *)
(* mixes servers.                                                          *)
(***************************************************************************)
EXTENDS InboxSync, FiniteSetTheorems, SequenceTheorems, TLAPS

-----------------------------------------------------------------------------
(* Numbers and pages                                                       *)

\* A finite set of numbers has a greatest one: of the sets of what is greater
\* than one of them, take one with no smaller such set.
LEMMA MaxExists ==
  ASSUME NEW S \in SUBSET Nat, IsFiniteSet(S), S # {}
  PROVE  \E i \in S : \A j \in S : j <= i
<1> DEFINE Above(i) == {j \in S : j > i}
           T == {Above(i) : i \in S}
<1>1. T # {} /\ T \subseteq FiniteSubsetsOf(S)
  <2>1. \A i \in S : Above(i) \in SUBSET S /\ IsFiniteSet(Above(i))
    BY FS_Subset
  <2> QED BY <2>1 DEF FiniteSubsetsOf
<1>2. PICK x \in T : \A y \in T : <<y, x>> \notin StrictSubsetOrdering(S)
  BY <1>1, FS_StrictSubsetOrderingWellFounded, WFMin
<1>3. PICK i \in S : x = Above(i)
  OBVIOUS
<1>4. ASSUME NEW j \in S, j > i PROVE FALSE
  <2>0. i \in Nat /\ j \in Nat /\ \A k \in S : k \in Nat
    OBVIOUS
  <2>1. Above(j) \in T /\ Above(j) \subseteq Above(i) /\ j \in Above(i) /\ j \notin Above(j)
    <3>1. \A k \in Above(j) : k \in Above(i)
      BY <1>4, <2>0
    <3>2. j \in Above(i) /\ j \notin Above(j)
      BY <1>4, <2>0
    <3>3. Above(j) \in T
      OBVIOUS
    <3> QED BY <3>1, <3>2, <3>3
  <2>2. Above(j) \subseteq S /\ Above(i) \subseteq S /\ Above(j) # Above(i)
    BY <2>1
  <2>3. <<Above(j), Above(i)>> \in StrictSubsetOrdering(S)
    BY <2>1, <2>2 DEF StrictSubsetOrdering
  <2> QED BY <1>2, <1>3, <2>1, <2>3
<1> QED BY <1>4

Rows == [id : 1..MaxId, to : {Me}]

\* The rows of a server are finitely many, and so are their ids.
LEMMA RowsFinite ==
  ASSUME NEW rows \in SUBSET Rows
  PROVE  IsFiniteSet(rows) /\ IdsOf(rows) \subseteq 1..MaxId /\ IsFiniteSet(IdsOf(rows))
<1> DEFINE f == [r \in rows |-> r.id]
<1>0. MaxId \in Nat /\ IsFiniteSet(1..MaxId)
  BY FS_Interval, InboxAssumption
<1>1. f \in Injection(rows, 1..MaxId)
  BY DEF Rows, Injection, IsInjective
<1>2. IdsOf(rows) \in SUBSET (1..MaxId)
  BY DEF Rows, IdsOf
<1> QED BY <1>0, <1>1, <1>2, FS_Injection, FS_Subset

\* Top is the greatest id, or the floor.
LEMMA TopIs ==
  ASSUME NEW rows \in SUBSET Rows, NEW floor \in 0..MaxId
  PROVE  LET top == Top(IdsOf(rows), floor)
         IN /\ top \in 0..MaxId /\ floor <= top
            /\ top = floor \/ \E r \in rows : r.id = top
            /\ \A r \in rows : r.id <= top
<1> DEFINE S == IdsOf(rows) \union {floor}
<1>1. S \in SUBSET (0..MaxId) /\ S # {} /\ IsFiniteSet(S) /\ MaxId \in Nat
  BY RowsFinite, FS_AddElement, InboxAssumption
<1>2. \E i \in S : \A j \in S : j <= i
  BY <1>1, MaxExists
<1>3. Top(IdsOf(rows), floor) \in S /\ \A j \in S : j <= Top(IdsOf(rows), floor)
  BY <1>2 DEF Top
<1> QED BY <1>1, <1>3 DEF IdsOf

\* A page leaves nothing out below its greatest row (ORDER BY id ASC LIMIT).
LEMMA PageDense ==
  ASSUME NEW rows \in SUBSET Rows, NEW after \in Nat,
         NEW q \in Page(rows, Me, after, Batch), NEW r \in rows, after < r.id, r.id <= q.id
  PROVE  r \in Page(rows, Me, after, Batch)
<1> DEFINE M == Matching(rows, Me, after)
           Before(x) == {y \in M : y.id < x.id}
<1>0. /\ \A x \in rows : x.id \in Nat /\ x.to = Me
      /\ ClampLimit(Batch) \in Nat
  BY MaxLimitAssumption, InboxAssumption DEF Rows, ClampLimit
<1>1. IsFiniteSet(M)
  BY RowsFinite, FS_Subset DEF Matching
<1>2. IsFiniteSet(Before(q)) /\ IsFiniteSet(Before(r))
  BY <1>1, FS_Subset
<1>3. r \in M /\ q \in rows
  BY <1>0 DEF Matching, Page
<1>4. Before(r) \subseteq Before(q)
  BY <1>0, <1>3 DEF Matching
<1>5. Cardinality(Before(r)) <= Cardinality(Before(q))
  BY <1>2, <1>4, FS_Subset
<1>6. Cardinality(Before(q)) < ClampLimit(Batch)
  BY DEF Page
<1>7. Cardinality(Before(r)) < ClampLimit(Batch)
  BY <1>0, <1>2, <1>5, <1>6, FS_CardinalityType
<1> QED BY <1>3, <1>7 DEF Page

-----------------------------------------------------------------------------
(* The library's list                                                      *)

\* The elements of a finite set in the order R: each is where as many are
\* before it.
Places(D, R) ==
  [i \in 1..Cardinality(D) |-> CHOOSE k \in D : Cardinality({j \in D : <<j, k>> \in R}) = i - 1]

Orders(D, R) ==
  /\ \A k \in D : <<k, k>> \notin R
  /\ \A j, k \in D : j # k => <<j, k>> \in R \/ <<k, j>> \in R
  /\ \A i, j, k \in D : <<i, j>> \in R /\ <<j, k>> \in R => <<i, k>> \in R

\* In a strict total order each element has its place: the number of those
\* before it is one to one.
LEMMA PlacesAre ==
  ASSUME NEW D, IsFiniteSet(D), NEW n, n = Cardinality(D), NEW R, Orders(D, R),
         NEW at, at = Places(D, R)
  PROVE  /\ n \in Nat /\ at \in [1..n -> D]
         /\ \A i, j \in 1..n : i < j => <<at[i], at[j]>> \in R
         /\ \A k \in D : \E i \in 1..n : at[i] = k
<1> DEFINE Ahead(k) == {j \in D : <<j, k>> \in R}
<1>0. n \in Nat
  BY FS_CardinalityType
<1>1. \A k \in D : IsFiniteSet(Ahead(k)) /\ Cardinality(Ahead(k)) \in 0..(n - 1)
  <2> SUFFICES ASSUME NEW k \in D
               PROVE  IsFiniteSet(Ahead(k)) /\ Cardinality(Ahead(k)) \in 0..(n - 1)
    OBVIOUS
  <2>1. Ahead(k) \in SUBSET D /\ Ahead(k) # D
    BY DEF Orders
  <2> HIDE DEF Ahead
  <2>2. /\ IsFiniteSet(Ahead(k)) /\ Cardinality(Ahead(k)) <= Cardinality(D)
        /\ Cardinality(Ahead(k)) = Cardinality(D) => Ahead(k) = D
    BY <2>1, FS_Subset
  <2>3. Cardinality(Ahead(k)) \in Nat
    BY <2>2, FS_CardinalityType
  <2> QED BY <1>0, <2>1, <2>2, <2>3
<1>2. \A j, k \in D : <<j, k>> \in R => Cardinality(Ahead(j)) < Cardinality(Ahead(k))
  <2> SUFFICES ASSUME NEW j \in D, NEW k \in D, <<j, k>> \in R
               PROVE  Cardinality(Ahead(j)) < Cardinality(Ahead(k))
    OBVIOUS
  <2>1. Ahead(j) \subseteq Ahead(k) /\ j \in Ahead(k) /\ j \notin Ahead(j)
    BY DEF Orders
  <2> HIDE DEF Ahead
  <2>2. /\ Cardinality(Ahead(j)) <= Cardinality(Ahead(k))
        /\ Cardinality(Ahead(j)) # Cardinality(Ahead(k))
    BY <1>1, <2>1, FS_Subset
  <2>3. Cardinality(Ahead(j)) \in 0..(n - 1) /\ Cardinality(Ahead(k)) \in 0..(n - 1)
    BY <1>1
  <2> QED BY <1>0, <2>2, <2>3
<1> DEFINE rank == [k \in D |-> Cardinality(Ahead(k)) + 1]
<1>3. at = [i \in 1..n |-> CHOOSE k \in D : Cardinality(Ahead(k)) = i - 1]
  BY DEF Places
<1> HIDE DEF Ahead
<1>4. rank \in [D -> 1..n] /\ \A k \in D : rank[k] \in Nat
  BY <1>0, <1>1
<1>5. \A j, k \in D : <<j, k>> \in R => rank[j] < rank[k]
  <2> SUFFICES ASSUME NEW j \in D, NEW k \in D, <<j, k>> \in R PROVE rank[j] < rank[k]
    OBVIOUS
  <2>1. Cardinality(Ahead(j)) \in 0..(n - 1) /\ Cardinality(Ahead(k)) \in 0..(n - 1)
    BY <1>1
  <2>2. Cardinality(Ahead(j)) < Cardinality(Ahead(k))
    BY <1>2
  <2> QED BY <1>0, <2>1, <2>2
<1>6. ASSUME NEW i \in 1..n, NEW k \in D
      PROVE  Cardinality(Ahead(k)) = i - 1 <=> rank[k] = i
  <2>1. Cardinality(Ahead(k)) \in 0..(n - 1) /\ rank[k] = Cardinality(Ahead(k)) + 1
    BY <1>1
  <2> HIDE DEF rank
  <2>2. i \in Int /\ Cardinality(Ahead(k)) \in Int
    BY <1>0, <2>1
  <2> QED BY <2>1, <2>2
<1> HIDE DEF rank
<1>7. \A j, k \in D : rank[j] = rank[k] => j = k
  <2> SUFFICES ASSUME NEW j \in D, NEW k \in D, rank[j] = rank[k], j # k PROVE FALSE
    OBVIOUS
  <2>1. rank[j] < rank[k] \/ rank[k] < rank[j]
    BY <1>5 DEF Orders
  <2> QED BY <1>4, <2>1
<1>8. \A i \in 1..n : \E k \in D : rank[k] = i
  <2>1. rank \in Injection(D, 1..n)
    BY <1>4, <1>7 DEF Injection, IsInjective
  <2>2. IsFiniteSet(1..n) /\ Cardinality(1..n) = n
    BY <1>0, FS_Interval
  <2>3. rank \in Surjection(D, 1..n)
    BY <2>1, <2>2, FS_Injection
  <2> QED BY <2>3 DEF Surjection
<1>9. \A i \in 1..n : at[i] \in D /\ rank[at[i]] = i
  <2> SUFFICES ASSUME NEW i \in 1..n PROVE at[i] \in D /\ rank[at[i]] = i
    OBVIOUS
  <2>1. at[i] = CHOOSE k \in D : rank[k] = i
    <3>1. \A k \in D : Cardinality(Ahead(k)) = i - 1 <=> rank[k] = i
      BY <1>6
    <3> QED BY <1>3, <3>1
  <2> QED BY <1>8, <2>1
<1>10. at \in [1..n -> D]
  BY <1>3, <1>9
<1>11. ASSUME NEW i \in 1..n, NEW j \in 1..n, i < j PROVE <<at[i], at[j]>> \in R
  <2>1. i \in Nat /\ j \in Nat /\ ~(j < i) /\ i # j
    BY <1>0, <1>11
  <2>2. at[i] \in D /\ at[j] \in D /\ rank[at[i]] = i /\ rank[at[j]] = j
    BY <1>9
  <2>3. <<at[j], at[i]>> \in R => rank[at[j]] < rank[at[i]]
    BY <1>5, <2>2
  <2>4. <<at[j], at[i]>> \notin R
    BY <2>1, <2>2, <2>3
  <2> QED BY <2>1, <2>2, <2>4 DEF Orders
<1>12. ASSUME NEW k \in D PROVE \E i \in 1..n : at[i] = k
  <2>1. rank[k] \in 1..n
    BY <1>4
  <2>2. at[rank[k]] \in D /\ rank[at[rank[k]]] = rank[k]
    BY <1>9, <2>1
  <2>3. at[rank[k]] = k
    BY <1>7, <2>2
  <2> QED BY <2>1, <2>3
<1> QED BY <1>0, <1>10, <1>11, <1>12

OneEach(rows) == \A e, f \in rows : e.id = f.id => e = f

\* The rows of a page, in a list.
LEMMA InOrderIs ==
  ASSUME NEW rows \in SUBSET Entries, OneEach(rows), NEW list, list = InOrder(rows)
  PROVE  /\ list \in Seq(rows) /\ ToSet(list) = rows
         /\ \A i, j \in DOMAIN list : list[i].id = list[j].id => i = j
<1> DEFINE n == Cardinality(rows)
           R == {p \in rows \X rows : p[1].id < p[2].id}
<1>0. \A r \in rows : r.id \in Nat
  BY InboxAssumption DEF Entries
<1>1. IsFiniteSet(rows)
  <2> DEFINE f == [r \in rows |-> r.id]
  <2>1. f \in Injection(rows, 1..MaxId)
    BY DEF Entries, OneEach, Injection, IsInjective
  <2>2. IsFiniteSet(1..MaxId)
    BY InboxAssumption, FS_Interval
  <2> QED BY <2>1, <2>2, FS_Injection
<1>2. \A q, r \in rows : <<q, r>> \in R <=> q.id < r.id
  OBVIOUS
<1>3. Orders(rows, R)
  <2> HIDE DEF R
  <2>1. \A k \in rows : <<k, k>> \notin R
    BY <1>0, <1>2
  <2>2. \A j, k \in rows : j # k => <<j, k>> \in R \/ <<k, j>> \in R
    BY <1>0, <1>2 DEF OneEach
  <2>3. \A i, j, k \in rows : <<i, j>> \in R /\ <<j, k>> \in R => <<i, k>> \in R
    BY <1>0, <1>2
  <2> QED BY <2>1, <2>2, <2>3 DEF Orders
<1> HIDE DEF R
<1>4. list = Places(rows, R)
  <2> DEFINE before(k) == {q \in rows : q.id < k.id}
             ahead(k) == {j \in rows : <<j, k>> \in R}
             there(i) == CHOOSE k \in rows : Cardinality(before(k)) = i - 1
             here(i) == CHOOSE k \in rows : Cardinality(ahead(k)) = i - 1
  <2>1. \A k \in rows : ahead(k) = before(k)
    BY <1>2
  <2>2. list = [i \in 1..n |-> there(i)] /\ Places(rows, R) = [i \in 1..n |-> here(i)]
    BY DEF InOrder, Places
  <2> HIDE DEF before, ahead
  <2>3. ASSUME NEW i \in 1..n PROVE there(i) = here(i)
    <3>1. \A k \in rows : Cardinality(ahead(k)) = i - 1 <=> Cardinality(before(k)) = i - 1
      BY <2>1
    <3> QED BY <3>1
  <2> HIDE DEF here, there
  <2> QED BY <2>2, <2>3
<1> HIDE DEF n
<1>5. /\ n \in Nat /\ list \in [1..n -> rows]
      /\ \A i, j \in 1..n : i < j => <<list[i], list[j]>> \in R
      /\ \A k \in rows : \E i \in 1..n : list[i] = k
  BY <1>1, <1>3, <1>4, PlacesAre DEF n
<1>6. list \in Seq(rows) /\ DOMAIN list = 1..n
  BY <1>5, SeqDef
<1>7. ToSet(list) = rows
  BY <1>5, <1>6 DEF ToSet
<1>8. ASSUME NEW i \in 1..n, NEW j \in 1..n, list[i].id = list[j].id PROVE i = j
  <2>1. list[i] \in rows /\ list[j] \in rows /\ i \in Nat /\ j \in Nat
    BY <1>5
  <2>2. list[i].id \in Nat /\ ~(list[i].id < list[j].id) /\ ~(list[j].id < list[i].id)
    BY <1>0, <1>8, <2>1
  <2>3. ~(i < j) /\ ~(j < i)
    BY <1>2, <1>5, <2>1, <2>2
  <2> QED BY <2>1, <2>3
<1> QED BY <1>6, <1>7, <1>8

\* In a descending list the entries with a greater id than some number are the
\* first ones.
LEMMA BoundaryExists ==
  ASSUME NEW list \in Seq(Entries), Descending(list), NEW id \in Nat
  PROVE  \E p \in 0..Len(list) : \A k \in 1..Len(list) : list[k].id > id <=> k <= p
<1> DEFINE n == Len(list)
           S == {k \in 1..n : list[k].id > id} \union {0}
<1>0. n \in Nat /\ DOMAIN list = 1..n /\ \A k \in 1..n : list[k].id \in Nat
  <2>1. n \in Nat /\ DOMAIN list = 1..n
    BY LenProperties
  <2>2. \A k \in 1..n : list[k] \in Entries
    BY <2>1, ElementOfSeq
  <2> QED BY <2>1, <2>2, InboxAssumption DEF Entries
<1> HIDE DEF n
<1>1. S \in SUBSET (0..n) /\ S # {} /\ IsFiniteSet(0..n) /\ S \in SUBSET Nat
  BY <1>0, FS_Interval
<1>2. IsFiniteSet(S)
  BY <1>1, FS_Subset
<1>3. PICK p \in S : \A k \in S : k <= p
  BY <1>1, <1>2, MaxExists
<1>4. p \in 0..n
  BY <1>1, <1>3
<1>5. ASSUME NEW k \in 1..n, list[k].id > id PROVE k <= p
  BY <1>3, <1>5
<1>6. ASSUME NEW k \in 1..n, k <= p PROVE list[k].id > id
  <2>1. p \in 1..n /\ list[p].id > id
    BY <1>0, <1>3, <1>4, <1>6
  <2>2. CASE k = p
    BY <2>1, <2>2
  <2>3. CASE k # p
    <3>1. k < p
      BY <1>0, <1>4, <1>6, <2>3
    <3>2. list[k].id > list[p].id
      BY <1>0, <2>1, <3>1 DEF Descending
    <3> QED BY <1>0, <2>1, <3>2
  <2> QED BY <2>2, <2>3
<1> QED BY <1>4, <1>5, <1>6 DEF n

LEMMA MinExists ==
  ASSUME NEW n \in Nat, NEW S \in SUBSET (0..n), S # {}
  PROVE  \E i \in S : \A j \in S : i <= j
<1> DEFINE T == {n - x : x \in S}
<1>0. \A x \in S : x \in 0..n
  OBVIOUS
<1>1. T \subseteq 0..n /\ T # {} /\ IsFiniteSet(0..n) /\ T \in SUBSET Nat
  <2>1. \A x \in S : n - x \in 0..n
    BY <1>0
  <2>2. IsFiniteSet(0..n)
    BY FS_Interval
  <2>3. T \subseteq 0..n
    BY <2>1
  <2>4. T # {}
    <3>1. PICK x \in S : TRUE
      OBVIOUS
    <3>2. n - x \in T
      OBVIOUS
    <3> QED BY <3>2
  <2>5. \A x \in 0..n : x \in Nat
    OBVIOUS
  <2> HIDE DEF T
  <2> QED BY <2>2, <2>3, <2>4, <2>5
<1>2. IsFiniteSet(T)
  BY <1>1, FS_Subset
<1>3. PICK t \in T : \A u \in T : u <= t
  BY <1>1, <1>2, MaxExists
<1>4. PICK i \in S : t = n - i
  OBVIOUS
<1>5. ASSUME NEW j \in S PROVE i <= j
  <2>1. n - j <= n - i
    BY <1>3, <1>4
  <2> QED BY <1>0, <2>1
<1> QED BY <1>5

\* The binary search finds that boundary.
LEMMA RankIs ==
  ASSUME NEW list \in Seq(Entries), NEW id \in Nat, NEW p \in 0..Len(list),
         \A k \in 1..Len(list) : list[k].id > id <=> k <= p
  PROVE  Rank(list, id) = p
<1> DEFINE n == Len(list)
           Bounds == (0..n) \X (0..n)
           Body(f, at) ==
             LET lo == at[1]
                 hi == at[2]
                 mid == (lo + hi) \div 2
             IN IF lo >= hi THEN lo
                ELSE IF list[mid + 1].id > id THEN f[<<mid + 1, hi>>]
                ELSE f[<<lo, mid>>]
           search == CHOOSE f : f = [at \in Bounds |-> Body(f, at)]
<1>0. n \in Nat /\ p \in Nat /\ p <= n
  BY LenProperties
<1>1. Rank(list, id) = search[<<0, n>>]
  BY DEF Rank
\* What the search returns between two bounds: the boundary, put between them.
<1> DEFINE Found(lo, hi) == IF lo >= hi \/ p <= lo THEN lo ELSE IF p >= hi THEN hi ELSE p
           found == [at \in Bounds |-> Found(at[1], at[2])]
<1> HIDE DEF n, search
<1>2. ASSUME NEW lo \in 0..n, NEW hi \in 0..n, lo < hi, NEW mid, mid = (lo + hi) \div 2
      PROVE  /\ mid \in 0..n /\ mid + 1 \in 0..n /\ lo <= mid /\ mid < hi
             /\ Found(lo, hi) = IF list[mid + 1].id > id THEN Found(mid + 1, hi)
                                ELSE Found(lo, mid)
  <2>0. lo \in Nat /\ hi \in Nat
    BY <1>0
  <2>1. mid \in Nat /\ lo <= mid /\ mid < hi /\ hi <= n
    BY <1>0, <1>2, <2>0
  <2>2. mid + 1 \in 1..n /\ mid \in 0..n
    BY <1>0, <2>1
  <2>3. list[mid + 1].id > id <=> mid + 1 <= p
    BY <2>2 DEF n
  <2>4. Found(lo, hi) = IF mid + 1 <= p THEN Found(mid + 1, hi) ELSE Found(lo, mid)
    BY <1>0, <1>2, <2>0, <2>1
  <2> HIDE DEF Found
  <2> QED BY <1>0, <2>1, <2>2, <2>3, <2>4
<1>3. \A lo, hi \in 0..n : <<lo, hi>> \in Bounds /\ found[<<lo, hi>>] = Found(lo, hi)
  <2>1. ASSUME NEW lo \in 0..n, NEW hi \in 0..n
        PROVE  <<lo, hi>> \in Bounds /\ found[<<lo, hi>>] = Found(lo, hi)
    <3>1. <<lo, hi>> \in Bounds /\ <<lo, hi>>[1] = lo /\ <<lo, hi>>[2] = hi
      OBVIOUS
    <3> HIDE DEF Found
    <3> QED BY <3>1
  <2> QED BY <2>1
\* One step of the loop, as an equation on the bounds.
<1>4. ASSUME NEW f, NEW lo \in 0..n, NEW hi \in 0..n, NEW mid, mid = (lo + hi) \div 2
      PROVE  Body(f, <<lo, hi>>) = IF lo >= hi THEN lo
                                   ELSE IF list[mid + 1].id > id THEN f[<<mid + 1, hi>>]
                                   ELSE f[<<lo, mid>>]
  BY <1>4
<1>5. \A lo, hi \in 0..n : Body(found, <<lo, hi>>) = Found(lo, hi)
  <2>1. ASSUME NEW lo \in 0..n, NEW hi \in 0..n PROVE Body(found, <<lo, hi>>) = Found(lo, hi)
    <3> DEFINE mid == (lo + hi) \div 2
    <3>1. Body(found, <<lo, hi>>) = IF lo >= hi THEN lo
                                    ELSE IF list[mid + 1].id > id THEN found[<<mid + 1, hi>>]
                                    ELSE found[<<lo, mid>>]
      BY <1>4
    <3>2. CASE lo >= hi
      BY <3>1, <3>2
    <3>3. CASE ~(lo >= hi)
      <4>1. lo < hi
        BY <1>0, <3>3
      <4> HIDE DEF mid, Found, found, Body
      <4>2. /\ mid \in 0..n /\ mid + 1 \in 0..n
            /\ Found(lo, hi) = IF list[mid + 1].id > id THEN Found(mid + 1, hi)
                               ELSE Found(lo, mid)
        BY <1>2, <4>1 DEF mid
      <4>3. found[<<mid + 1, hi>>] = Found(mid + 1, hi) /\ found[<<lo, mid>>] = Found(lo, mid)
        BY <1>3, <4>2
      <4> QED BY <3>1, <3>3, <4>2, <4>3
    <3> QED BY <3>2, <3>3
  <2> QED BY <2>1
<1>6. \A at \in Bounds : \E lo, hi \in 0..n : at = <<lo, hi>>
  OBVIOUS
<1>7. \A at \in Bounds : found[at] = Body(found, at)
  <2> HIDE DEF found, Found, Body, Bounds
  <2> QED BY <1>3, <1>5, <1>6
<1>8. found = [at \in Bounds |-> Body(found, at)]
  <2>1. found = [at \in Bounds |-> found[at]]
    OBVIOUS
  <2> HIDE DEF found, Found, Body, Bounds
  <2> QED BY <1>7, <2>1
<1>9. search = [at \in Bounds |-> Body(search, at)]
  <2> HIDE DEF found, Body, Bounds
  <2> QED BY <1>8 DEF search
<1>10. \A lo, hi \in 0..n : search[<<lo, hi>>] = Body(search, <<lo, hi>>)
  <2> HIDE DEF found, Body
  <2> QED BY <1>3, <1>9
\* Of the bounds with another result take the closest ones.
<1>11. \A lo, hi \in 0..n : search[<<lo, hi>>] = Found(lo, hi)
  <2> DEFINE Wrong == {d \in 0..n : \E lo, hi \in 0..n :
                         lo < hi /\ d = hi - lo /\ search[<<lo, hi>>] # Found(lo, hi)}
  <2>1. ASSUME NEW lo \in 0..n, NEW hi \in 0..n, lo >= hi
        PROVE  search[<<lo, hi>>] = Found(lo, hi)
    <3>1. Body(search, <<lo, hi>>) = lo
      BY <2>1
    <3> QED BY <1>10, <2>1, <3>1
  <2>2. CASE Wrong # {}
    <3>0. Wrong \in SUBSET (0..n)
      OBVIOUS
    <3>1. PICK d \in Wrong : \A e \in Wrong : d <= e
      <4> HIDE DEF Wrong
      <4> QED BY <1>0, <2>2, <3>0, MinExists
    <3>2. PICK lo \in 0..n, hi \in 0..n :
            lo < hi /\ d = hi - lo /\ search[<<lo, hi>>] # Found(lo, hi)
      OBVIOUS
    <3> DEFINE mid == (lo + hi) \div 2
    <3>3. search[<<lo, hi>>] = IF list[mid + 1].id > id THEN search[<<mid + 1, hi>>]
                               ELSE search[<<lo, mid>>]
      <4>1. ~(lo >= hi)
        BY <1>0, <3>2
      <4>2. Body(search, <<lo, hi>>) =
              IF lo >= hi THEN lo
              ELSE IF list[mid + 1].id > id THEN search[<<mid + 1, hi>>]
              ELSE search[<<lo, mid>>]
        BY <1>4
      <4> HIDE DEF Body, mid
      <4> QED BY <1>10, <4>1, <4>2
    <3>4. /\ mid \in 0..n /\ mid + 1 \in 0..n /\ lo <= mid /\ mid < hi
          /\ Found(lo, hi) = IF list[mid + 1].id > id THEN Found(mid + 1, hi)
                             ELSE Found(lo, mid)
      <4>1. lo < hi /\ mid = (lo + hi) \div 2
        BY <3>2
      <4> HIDE DEF Found, mid, Wrong, Body, search
      <4> QED BY <1>2, <4>1
    <3> HIDE DEF mid, Found, Body, Bounds
    <3>5. ASSUME NEW x \in 0..n, NEW y \in 0..n, y - x < d, d <= n
          PROVE  search[<<x, y>>] = Found(x, y)
      <4>1. CASE x >= y
        BY <2>1, <4>1
      <4>2. CASE ~(x >= y)
        <5>1. x < y /\ y - x \in 0..n /\ ~(d <= y - x)
          BY <1>0, <3>0, <3>5, <4>2
        <5>2. y - x \notin Wrong
          BY <3>1, <5>1
        <5> QED BY <5>1, <5>2
      <4> QED BY <4>1, <4>2
    <3>6. d <= n /\ hi - (mid + 1) < d /\ mid - lo < d
      BY <1>0, <3>2, <3>4
    <3>7. /\ search[<<mid + 1, hi>>] = Found(mid + 1, hi)
          /\ search[<<lo, mid>>] = Found(lo, mid)
      BY <3>4, <3>5, <3>6
    <3> QED BY <3>2, <3>3, <3>4, <3>7
  <2>3. CASE Wrong = {}
    <3>1. ASSUME NEW lo \in 0..n, NEW hi \in 0..n PROVE search[<<lo, hi>>] = Found(lo, hi)
      <4> HIDE DEF Found, Body
      <4>1. CASE lo >= hi
        BY <2>1, <4>1
      <4>2. CASE ~(lo >= hi)
        <5>1. lo < hi /\ hi - lo \in 0..n
          BY <1>0, <4>2
        <5> QED BY <2>3, <5>1
      <4> QED BY <4>1, <4>2
    <3> HIDE DEF Found, Body
    <3> QED BY <3>1
  <2> QED BY <2>2, <2>3
<1>12. Found(0, n) = p
  BY <1>0
<1>13. 0 \in 0..n /\ n \in 0..n
  BY <1>0
<1> HIDE DEF Found
<1> QED BY <1>1, <1>11, <1>12, <1>13

\* An entry with a new id is put in its place.
LEMMA InsertIs ==
  ASSUME NEW list \in Seq(Entries), Descending(list), NEW e \in Entries,
         \A k \in DOMAIN list : list[k].id # e.id,
         NEW more, more = Insert(list, e)
  PROVE  more \in Seq(Entries) /\ Descending(more) /\ ToSet(more) = ToSet(list) \union {e}
<1> DEFINE n == Len(list)
<1>0. /\ n \in Nat /\ DOMAIN list = 1..n /\ e.id \in Nat
      /\ \A k \in 1..n : list[k] \in Entries /\ list[k].id \in Nat
  <2>1. n \in Nat /\ DOMAIN list = 1..n
    BY LenProperties
  <2>2. \A k \in 1..n : list[k] \in Entries
    BY <2>1, ElementOfSeq
  <2>3. \A x \in Entries : x.id \in Nat
    BY InboxAssumption DEF Entries
  <2> QED BY <2>1, <2>2, <2>3
<1>1. PICK p \in 0..n : \A k \in 1..n : list[k].id > e.id <=> k <= p
  BY <1>0, BoundaryExists
<1>2. Rank(list, e.id) = p
  BY <1>0, <1>1, RankIs
<1> DEFINE a == SubSeq(list, 1, p)
           b == SubSeq(list, p + 1, n)
<1>3. more = (a \o <<e>>) \o b
  <2>1. (p + 1) - 1 = p
    BY <1>0
  <2> QED BY <1>2, <2>1 DEF Insert, InsertAt
<1> HIDE DEF n
<1>4. a \in Seq(Entries) /\ Len(a) = p /\ \A i \in 1..p : a[i] = list[i]
  <2>1. /\ 1 \in Int /\ p \in Int /\ \A i \in 1..p : list[i] \in Entries
        /\ (p - 1) + 1 = p /\ (1 <= p \/ p = 0) /\ \A i \in 1..p : (1 + i) - 1 = i
    BY <1>0
  <2>2. /\ a \in Seq(Entries) /\ Len(a) = IF 1 <= p THEN (p - 1) + 1 ELSE 0
        /\ \A i \in 1..((p - 1) + 1) : a[i] = list[(1 + i) - 1]
    BY <2>1, SubSeqProperties
  <2> HIDE DEF a
  <2> QED BY <2>1, <2>2
<1>5. b \in Seq(Entries) /\ Len(b) = n - p /\ \A i \in 1..(n - p) : b[i] = list[p + i]
  <2>1. /\ p + 1 \in Int /\ n \in Int /\ \A i \in (p + 1)..n : list[i] \in Entries
        /\ (n - (p + 1)) + 1 = n - p /\ (p + 1 <= n \/ n - p = 0)
        /\ \A i \in 1..(n - p) : ((p + 1) + i) - 1 = p + i
    BY <1>0
  <2>2. /\ b \in Seq(Entries) /\ Len(b) = IF p + 1 <= n THEN (n - (p + 1)) + 1 ELSE 0
        /\ \A i \in 1..((n - (p + 1)) + 1) : b[i] = list[((p + 1) + i) - 1]
    BY <2>1, SubSeqProperties
  <2> HIDE DEF b
  <2> QED BY <2>1, <2>2
<1> HIDE DEF a, b
<1> DEFINE c == a \o <<e>>
<1>6. /\ c \in Seq(Entries) /\ Len(c) = p + 1 /\ c[p + 1] = e
      /\ \A i \in 1..p : c[i] = list[i]
  <2>1. <<e>> \in Seq(Entries) /\ Len(<<e>>) = 1 /\ <<e>>[1] = e
    OBVIOUS
  <2>2. /\ c \in Seq(Entries) /\ Len(c) = p + 1
        /\ \A i \in 1..(p + 1) : c[i] = IF i <= p THEN a[i] ELSE <<e>>[i - p]
    BY <1>4, <2>1, ConcatProperties
  <2>3. p + 1 \in 1..(p + 1) /\ ~(p + 1 <= p) /\ (p + 1) - p = 1
    BY <1>0
  <2>4. \A i \in 1..p : i \in 1..(p + 1) /\ i <= p
    BY <1>0
  <2> HIDE DEF c
  <2> QED BY <1>4, <2>1, <2>2, <2>3, <2>4
<1> HIDE DEF c
<1>7. /\ more \in Seq(Entries) /\ DOMAIN more = 1..(n + 1) /\ more[p + 1] = e
      /\ \A i \in 1..p : more[i] = list[i]
      /\ \A i \in (p + 1)..n : more[i + 1] = list[i]
  <2>1. more = c \o b
    BY <1>3 DEF c
  <2>2. /\ more \in Seq(Entries) /\ Len(more) = (p + 1) + (n - p)
        /\ \A i \in 1..((p + 1) + (n - p)) : more[i] = IF i <= p + 1 THEN c[i] ELSE b[i - (p + 1)]
    <3>1. /\ c \o b \in Seq(Entries) /\ Len(c \o b) = Len(c) + Len(b)
          /\ \A i \in 1..(Len(c) + Len(b)) : (c \o b)[i] = IF i <= Len(c) THEN c[i] ELSE b[i - Len(c)]
      <4>1. b \in Seq(Entries) /\ c \in Seq(Entries)
        BY <1>5, <1>6
      <4> QED BY <4>1, ConcatProperties
    <3>2. Len(c) = p + 1 /\ Len(b) = n - p
      BY <1>5, <1>6
    <3> QED BY <2>1, <3>1, <3>2
  <2>3. (p + 1) + (n - p) = n + 1
    BY <1>0
  <2>4. DOMAIN more = 1..(n + 1)
    BY <2>2, <2>3, LenProperties
  <2>5. more[p + 1] = e /\ \A i \in 1..p : more[i] = list[i]
    <3>1. p + 1 \in 1..(n + 1) /\ \A i \in 1..p : i \in 1..(n + 1) /\ i <= p + 1
      BY <1>0
    <3> QED BY <1>6, <2>2, <2>3, <3>1
  <2>6. \A i \in (p + 1)..n : more[i + 1] = list[i]
    <3>1. \A i \in (p + 1)..n : /\ i + 1 \in 1..(n + 1) /\ ~(i + 1 <= p + 1)
                                /\ (i + 1) - (p + 1) = i - p
                                /\ i - p \in 1..(n - p) /\ p + (i - p) = i
      BY <1>0
    <3> QED BY <1>5, <2>2, <2>3, <3>1
  <2> QED BY <2>2, <2>4, <2>5, <2>6
\* Every place but p + 1 is one of the old list, and all of them are there.
<1> DEFINE old(i) == IF i <= p THEN i ELSE i - 1
<1>8. \A i \in 1..(n + 1) : i = p + 1 \/ (old(i) \in 1..n /\ more[i] = list[old(i)])
  <2> SUFFICES ASSUME NEW i \in 1..(n + 1), i # p + 1
               PROVE  old(i) \in 1..n /\ more[i] = list[old(i)]
    OBVIOUS
  <2>1. CASE i <= p
    <3>1. i \in 1..p /\ i \in 1..n
      BY <1>0, <2>1
    <3> QED BY <1>7, <2>1, <3>1
  <2>2. CASE ~(i <= p)
    <3>1. i - 1 \in (p + 1)..n /\ i - 1 \in 1..n /\ (i - 1) + 1 = i
      BY <1>0, <2>2
    <3> QED BY <1>7, <2>2, <3>1
  <2> QED BY <2>1, <2>2
<1>9. Descending(more)
  <2> SUFFICES ASSUME NEW i \in 1..(n + 1), NEW j \in 1..(n + 1), i < j
               PROVE  more[i].id > more[j].id
    BY <1>7 DEF Descending
  <2>0. i \in Nat /\ j \in Nat /\ p \in Nat
    BY <1>0
  <2>1. CASE i = p + 1
    <3>1. old(j) \in 1..n /\ more[j] = list[old(j)] /\ ~(old(j) <= p)
      BY <1>8, <2>0, <2>1
    <3>2. ~(list[old(j)].id > e.id) /\ list[old(j)].id # e.id
      BY <1>0, <1>1, <3>1
    <3>3. list[old(j)].id \in Nat
      BY <1>0, <3>1
    <3> HIDE DEF old
    <3>4. e.id > list[old(j)].id
      BY <1>0, <3>2, <3>3
    <3> QED BY <1>7, <2>1, <3>1, <3>4
  <2>2. CASE j = p + 1
    <3>1. i \in 1..p /\ i \in 1..n /\ i <= p
      BY <1>0, <2>0, <2>2
    <3> QED BY <1>1, <1>7, <2>2, <3>1
  <2>3. CASE i # p + 1 /\ j # p + 1
    <3>1. /\ old(i) \in 1..n /\ more[i] = list[old(i)]
          /\ old(j) \in 1..n /\ more[j] = list[old(j)]
      BY <1>8, <2>3
    <3>2. old(i) < old(j)
      BY <2>0, <2>3
    <3> HIDE DEF old
    <3> QED BY <1>0, <3>1, <3>2 DEF Descending
  <2> QED BY <2>1, <2>2, <2>3
<1>10. ToSet(more) = ToSet(list) \union {e}
  <2>1. ASSUME NEW x \in ToSet(more) PROVE x \in ToSet(list) \union {e}
    <3>1. PICK i \in 1..(n + 1) : more[i] = x
      BY <1>7 DEF ToSet
    <3> HIDE DEF old
    <3>2. CASE i = p + 1
      BY <1>7, <3>1, <3>2
    <3>3. CASE i # p + 1
      <4>1. old(i) \in 1..n /\ x = list[old(i)]
        BY <1>8, <3>1, <3>3
      <4> QED BY <1>0, <4>1 DEF ToSet
    <3> QED BY <3>2, <3>3
  <2>2. e \in ToSet(more)
    <3>1. p + 1 \in 1..(n + 1)
      BY <1>0
    <3> QED BY <1>7, <3>1 DEF ToSet
  <2>3. ASSUME NEW i \in 1..n PROVE list[i] \in ToSet(more)
    <3>1. CASE i <= p
      <4>1. i \in 1..p /\ i \in 1..(n + 1)
        BY <1>0, <3>1
      <4>2. more[i] = list[i]
        BY <1>7, <4>1
      <4> QED BY <1>7, <4>1, <4>2 DEF ToSet
    <3>2. CASE ~(i <= p)
      <4>1. i \in (p + 1)..n /\ i + 1 \in 1..(n + 1)
        BY <1>0, <3>2
      <4>2. more[i + 1] = list[i]
        BY <1>7, <4>1
      <4> QED BY <1>7, <4>1, <4>2 DEF ToSet
    <3> QED BY <3>1, <3>2
  <2>4. \A x \in ToSet(list) : x \in ToSet(more)
    BY <1>0, <2>3 DEF ToSet
  <2> QED BY <2>1, <2>2, <2>4
<1> QED BY <1>7, <1>9, <1>10

\* A page of new ids is put in place entry by entry.
LEMMA InsertEachIs ==
  ASSUME NEW list \in Seq(Entries), Descending(list),
         NEW rows \in SUBSET Entries, OneEach(rows),
         \A r \in rows : \A k \in DOMAIN list : list[k].id # r.id,
         NEW more, more = InsertEach(list, rows)
  PROVE  more \in Seq(Entries) /\ Descending(more) /\ ToSet(more) = ToSet(list) \union rows
<1> DEFINE ord == InOrder(rows)
           n == Len(ord)
           Grow(f, i) == IF i = 0 THEN list ELSE Insert(f[i - 1], ord[i])
           Chain(m, f) == f = [i \in 0..m |-> Grow(f, i)]
           merged == CHOOSE f : Chain(n, f)
<1>1. more = merged[n]
  BY DEF InsertEach
<1>2. /\ ord \in Seq(rows) /\ ToSet(ord) = rows
      /\ \A i, j \in DOMAIN ord : ord[i].id = ord[j].id => i = j
  BY InOrderIs
<1>3. n \in Nat /\ DOMAIN ord = 1..n /\ \A i \in 1..n : ord[i] \in rows
  BY <1>2, LenProperties, ElementOfSeq
<1> HIDE DEF ord, n
\* The equation that defines the chain of lists has a solution: were there a
\* first length without one, the chain before it could be made one longer.
<1>4. \E f : Chain(n, f)
  <2> DEFINE Wrong == {m \in 0..n : ~\E f : Chain(m, f)}
  <2>1. CASE Wrong # {}
    <3>1. PICK m \in Wrong : \A k \in Wrong : m <= k
      BY <1>3, <2>1, MinExists
    <3>2. m \in 0..n /\ ~\E f : Chain(m, f)
      OBVIOUS
    <3>3. m # 0
      <4>1. ASSUME m = 0 PROVE FALSE
        <5> DEFINE g == [i \in 0..m |-> list]
        <5>1. \A i \in 0..m : i = 0
          BY <4>1
        <5>2. Chain(m, g)
          BY <5>1
        <5> HIDE DEF Chain
        <5> QED BY <3>2, <5>2
      <4> QED BY <4>1
    <3>4. m - 1 \in 0..n /\ ~(m <= m - 1) /\ m \in Nat /\ m \in 1..n
      BY <1>3, <3>2, <3>3
    <3>5. PICK f : Chain(m - 1, f)
      <4>1. m - 1 \notin Wrong
        BY <3>1, <3>4
      <4> HIDE DEF Chain
      <4> QED BY <3>4, <4>1
    <3> DEFINE g == [i \in 0..m |-> IF i = m THEN Insert(f[m - 1], ord[m]) ELSE f[i]]
    <3>6. \A i \in 0..m : g[i] = Grow(g, i)
      <4> SUFFICES ASSUME NEW i \in 0..m PROVE g[i] = Grow(g, i)
        OBVIOUS
      <4>0. i \in Int /\ m - 1 \in 0..m /\ m - 1 # m
        BY <3>4
      <4>1. CASE i = m
        <5>1. g[i] = Insert(f[m - 1], ord[m]) /\ g[m - 1] = f[m - 1]
          BY <4>0, <4>1
        <5> HIDE DEF g
        <5> QED BY <3>3, <4>1, <5>1
      <4>2. CASE i # m
        <5>1. i \in 0..(m - 1) /\ i - 1 # m /\ (i # 0 => i - 1 \in 0..m)
          BY <3>4, <4>0, <4>2
        <5>2. f[i] = Grow(f, i)
          BY <3>5, <5>1
        <5>3. g[i] = f[i] /\ (i # 0 => g[i - 1] = f[i - 1])
          BY <4>2, <5>1
        <5> HIDE DEF g
        <5> QED BY <5>2, <5>3
      <4> QED BY <4>1, <4>2
    <3>7. Chain(m, g)
      <4> HIDE DEF Grow
      <4>1. g = [i \in 0..m |-> g[i]]
        OBVIOUS
      <4> HIDE DEF g
      <4> QED BY <3>6, <4>1
    <3> HIDE DEF Chain
    <3> QED BY <3>2, <3>7
  <2>2. CASE Wrong = {}
    <3>1. n \in 0..n
      BY <1>3
    <3> HIDE DEF Chain
    <3>2. \A m \in 0..n : \E f : Chain(m, f)
      BY <2>2
    <3> QED BY <3>1, <3>2
  <2> QED BY <2>1, <2>2
<1>5. Chain(n, merged)
  <2> HIDE DEF Chain
  <2> QED BY <1>4
<1> HIDE DEF merged
<1>6. \A i \in 0..n : merged[i] = Grow(merged, i)
  BY <1>5
<1> HIDE DEF Chain
\* After i rows the list is in order and holds the first i of them.
<1> DEFINE Upto(i) == {ord[k] : k \in 1..i}
           Right(l, i) == /\ l \in Seq(Entries) /\ Descending(l)
                          /\ ToSet(l) = ToSet(list) \union Upto(i)
           Wrong == {i \in 0..n : ~Right(merged[i], i)}
<1>7. ASSUME NEW i \in 1..n, Right(merged[i - 1], i - 1) PROVE Right(merged[i], i)
  <2> DEFINE l == merged[i - 1]
  <2>0. i - 1 \in 0..n /\ i \in 0..n /\ i # 0 /\ i \in Nat
    BY <1>3
  <2>1. merged[i] = Insert(l, ord[i])
    BY <1>6, <2>0
  <2>2. \A k \in 1..(i - 1) : k \in 1..n /\ k # i
    BY <1>3, <2>0
  <2>3. ord[i] \in Entries /\ ord[i] \in rows
    BY <1>3
  <2>4. \A x \in ToSet(l) : x.id # ord[i].id
    <3>1. \A x \in ToSet(list) : x.id # ord[i].id
      BY <2>3 DEF ToSet
    <3>2. \A k \in 1..(i - 1) : ord[k].id # ord[i].id
      BY <1>2, <1>3, <2>2
    <3> QED BY <1>7, <3>1, <3>2
  <2>5. l \in Seq(Entries) /\ Descending(l)
    BY <1>7
  <2>6. \A k \in DOMAIN l : l[k].id # ord[i].id
    BY <2>4 DEF ToSet
  <2> HIDE DEF l
  <2>7. /\ merged[i] \in Seq(Entries) /\ Descending(merged[i])
        /\ ToSet(merged[i]) = ToSet(l) \union {ord[i]}
    BY <2>1, <2>3, <2>5, <2>6, InsertIs
  <2>8. Upto(i) = Upto(i - 1) \union {ord[i]}
    <3>1. \A k \in 1..i : k \in 1..(i - 1) \/ k = i
      BY <2>0
    <3>2. i \in 1..i /\ \A k \in 1..(i - 1) : k \in 1..i
      BY <2>0
    <3> QED BY <3>1, <3>2
  <2>9. ToSet(l) = ToSet(list) \union Upto(i - 1)
    BY <1>7 DEF l
  <2> HIDE DEF Upto
  <2> QED BY <2>7, <2>8, <2>9
<1>8. Right(merged[0], 0)
  <2>1. 0 \in 0..n /\ 1..0 = {}
    BY <1>3
  <2>2. merged[0] = list
    BY <1>6, <2>1
  <2>3. Upto(0) = {}
    BY <2>1
  <2> HIDE DEF Upto
  <2> QED BY <2>2, <2>3
<1>9. Right(merged[n], n)
  <2> HIDE DEF Right
  <2>1. CASE Wrong # {}
    <3>1. PICK m \in Wrong : \A k \in Wrong : m <= k
      BY <1>3, <2>1, MinExists
    <3>2. m \in 0..n /\ m # 0 /\ ~Right(merged[m], m)
      BY <1>8
    <3>3. m - 1 \in 0..n /\ ~(m <= m - 1) /\ m \in 1..n
      BY <1>3, <3>2
    <3>4. Right(merged[m - 1], m - 1)
      BY <3>1, <3>3
    <3> QED BY <1>7, <3>2, <3>3, <3>4
  <2>2. CASE Wrong = {}
    <3>1. n \in 0..n
      BY <1>3
    <3> QED BY <2>2, <3>1
  <2> QED BY <2>1, <2>2
<1>10. Upto(n) = rows
  BY <1>2, <1>3 DEF ToSet
<1> HIDE DEF Upto
<1> QED BY <1>1, <1>9, <1>10

\* The sort of a list of distinct ids: the same entries, newest first.
LEMMA SortedIs ==
  ASSUME NEW list \in Seq(Entries),
         \A j, k \in DOMAIN list : list[j].id = list[k].id => j = k,
         NEW more, more = Sorted(list)
  PROVE  more \in Seq(Entries) /\ Descending(more) /\ ToSet(more) = ToSet(list)
<1> DEFINE n == Len(list)
           D == DOMAIN list
           R == {p \in D \X D : list[p[1]].id > list[p[2]].id}
           Before(j, k) == list[j].id > list[k].id \/ (list[j].id = list[k].id /\ j < k)
           at == Places(D, R)
<1>0. /\ n \in Nat /\ D = 1..n
      /\ \A k \in D : list[k] \in Entries /\ list[k].id \in Nat
  <2>1. n \in Nat /\ D = 1..n
    BY LenProperties
  <2>2. \A k \in D : list[k] \in Entries
    BY <2>1, ElementOfSeq
  <2>3. \A x \in Entries : x.id \in Nat
    BY InboxAssumption DEF Entries
  <2> QED BY <2>1, <2>2, <2>3
<1> HIDE DEF n
<1>1. \A j, k \in D : <<j, k>> \in R <=> list[j].id > list[k].id
  OBVIOUS
<1>2. \A j, k \in D : <<j, k>> \in R <=> Before(j, k)
  <2> SUFFICES ASSUME NEW j \in D, NEW k \in D PROVE <<j, k>> \in R <=> Before(j, k)
    OBVIOUS
  <2>1. j \in Nat /\ k \in Nat /\ (list[j].id = list[k].id => j = k)
    BY <1>0
  <2> HIDE DEF D, R
  <2> QED BY <1>1, <2>1
<1>3. Orders(D, R)
  <2> HIDE DEF R
  <2>1. \A k \in D : <<k, k>> \notin R
    BY <1>0, <1>1
  <2>2. \A j, k \in D : j # k => <<j, k>> \in R \/ <<k, j>> \in R
    BY <1>0, <1>1
  <2>3. \A i, j, k \in D : <<i, j>> \in R /\ <<j, k>> \in R => <<i, k>> \in R
    BY <1>0, <1>1
  <2> QED BY <2>1, <2>2, <2>3 DEF Orders
<1>4. D = 1..n /\ IsFiniteSet(D) /\ n = Cardinality(D)
  BY <1>0, FS_Interval
<1>5. more = [i \in 1..n |-> list[at[i]]]
  <2> DEFINE before(k) == {j \in D : Before(j, k)}
             ahead(k) == {j \in D : <<j, k>> \in R}
             there(i) == CHOOSE k \in D : Cardinality(before(k)) = i - 1
             here(i) == CHOOSE k \in D : Cardinality(ahead(k)) = i - 1
  <2>1. more = [i \in D |-> list[there(i)]]
    BY DEF Sorted
  <2>2. at = [i \in 1..n |-> here(i)]
    BY <1>4 DEF Places
  <2>3. \A k \in D : ahead(k) = before(k)
    BY <1>2
  <2> HIDE DEF before, ahead, at, D
  <2>4. ASSUME NEW i \in 1..n PROVE there(i) = here(i)
    <3>1. \A k \in D : Cardinality(ahead(k)) = i - 1 <=> Cardinality(before(k)) = i - 1
      BY <2>3
    <3> QED BY <3>1
  <2> HIDE DEF here, there
  <2> QED BY <1>4, <2>1, <2>2, <2>4
<1> HIDE DEF R, Before
<1>6. /\ at \in [1..n -> D]
      /\ \A i, j \in 1..n : i < j => <<at[i], at[j]>> \in R
      /\ \A k \in D : \E i \in 1..n : at[i] = k
  <2> HIDE DEF D
  <2> QED BY <1>3, <1>4, PlacesAre
<1> HIDE DEF at
<1>7. more \in Seq(Entries) /\ DOMAIN more = 1..n
  <2>1. more \in [1..n -> Entries]
    BY <1>0, <1>5, <1>6
  <2> QED BY <1>0, <2>1, SeqDef
<1>8. Descending(more)
  <2> SUFFICES ASSUME NEW i \in 1..n, NEW j \in 1..n, i < j PROVE more[i].id > more[j].id
    BY <1>7 DEF Descending
  <2>1. at[i] \in D /\ at[j] \in D /\ <<at[i], at[j]>> \in R
    BY <1>6
  <2> QED BY <1>1, <1>5, <2>1
<1>9. ToSet(more) = ToSet(list)
  <2>1. ToSet(more) = {more[i] : i \in 1..n} /\ ToSet(list) = {list[k] : k \in D}
    BY <1>7 DEF ToSet
  <2>2. \A i \in 1..n : at[i] \in D /\ more[i] = list[at[i]]
    BY <1>5, <1>6
  <2>3. \A k \in D : \E i \in 1..n : list[k] = more[i]
    BY <1>6, <2>2
  <2>4. ASSUME NEW x PROVE x \in ToSet(more) <=> x \in ToSet(list)
    BY <2>1, <2>2, <2>3
  <2> QED BY <2>4
<1> QED BY <1>7, <1>8, <1>9

\* A page of new ids is appended and sorted.
LEMMA InsertBatchIs ==
  ASSUME NEW list \in Seq(Entries), Descending(list),
         NEW rows \in SUBSET Entries, OneEach(rows),
         \A r \in rows : \A k \in DOMAIN list : list[k].id # r.id,
         NEW more, more = InsertBatch(list, rows)
  PROVE  more \in Seq(Entries) /\ Descending(more) /\ ToSet(more) = ToSet(list) \union rows
<1> DEFINE ord == InOrder(rows)
           n == Len(list)
           m == Len(ord)
           both == list \o ord
<1>1. more = Sorted(both)
  BY DEF InsertBatch
<1>2. /\ ord \in Seq(rows) /\ ToSet(ord) = rows
      /\ \A i, j \in DOMAIN ord : ord[i].id = ord[j].id => i = j
  BY InOrderIs
<1> HIDE DEF ord
<1>3. /\ n \in Nat /\ DOMAIN list = 1..n /\ m \in Nat /\ DOMAIN ord = 1..m
      /\ \A i \in 1..m : ord[i] \in rows /\ ord[i] \in Entries
      /\ \A i \in 1..n : list[i] \in Entries /\ list[i].id \in Nat
  <2>1. n \in Nat /\ DOMAIN list = 1..n /\ m \in Nat /\ DOMAIN ord = 1..m
    BY <1>2, LenProperties
  <2>2. \A i \in 1..m : ord[i] \in rows
    BY <1>2, <2>1, ElementOfSeq
  <2>3. \A i \in 1..n : list[i] \in Entries
    BY <2>1, ElementOfSeq
  <2>4. \A x \in Entries : x.id \in Nat
    BY InboxAssumption DEF Entries
  <2> QED BY <2>1, <2>2, <2>3, <2>4
<1>4. ord \in Seq(Entries)
  <2>1. ord \in [1..m -> Entries]
    BY <1>2, <1>3, SeqDef
  <2> QED BY <1>3, <2>1, SeqDef
<1>5. /\ both \in Seq(Entries) /\ Len(both) = n + m
      /\ \A i \in 1..(n + m) : both[i] = IF i <= n THEN list[i] ELSE ord[i - n]
  <2> HIDE DEF ord
  <2> QED BY <1>4, ConcatProperties
<1>6. DOMAIN both = 1..(n + m)
  BY <1>5, LenProperties
<1> HIDE DEF n, m, both
<1>7. /\ \A i \in 1..n : i \in 1..(n + m) /\ both[i] = list[i]
      /\ \A i \in 1..m : n + i \in 1..(n + m) /\ both[n + i] = ord[i]
  <2>1. \A i \in 1..n : i \in 1..(n + m) /\ i <= n
    BY <1>3
  <2>2. \A i \in 1..m : n + i \in 1..(n + m) /\ ~(n + i <= n) /\ (n + i) - n = i
    BY <1>3
  <2> QED BY <1>5, <2>1, <2>2
<1>8. \A i \in 1..(n + m) : i \in 1..n \/ (i - n \in 1..m /\ n + (i - n) = i)
  BY <1>3
<1>9. ASSUME NEW i \in 1..n, NEW j \in 1..m PROVE list[i].id # ord[j].id
  BY <1>3
<1>10. ASSUME NEW i \in 1..n, NEW j \in 1..n, list[i].id = list[j].id PROVE i = j
  <2>1. i \in Nat /\ j \in Nat /\ list[i].id \in Nat /\ list[j].id \in Nat
    BY <1>3
  <2>2. /\ i < j => list[i].id > list[j].id
        /\ j < i => list[j].id > list[i].id
    BY <1>3 DEF Descending
  <2> QED BY <1>10, <2>1, <2>2
<1>11. ASSUME NEW i \in DOMAIN both, NEW j \in DOMAIN both, both[i].id = both[j].id
       PROVE  i = j
  <2>0. i \in 1..(n + m) /\ j \in 1..(n + m)
    BY <1>6
  <2>1. CASE i \in 1..n /\ j \in 1..n
    <3>1. list[i].id = list[j].id
      BY <1>7, <1>11, <2>1
    <3> QED BY <1>10, <2>1, <3>1
  <2>2. CASE i \in 1..n /\ j \notin 1..n
    <3>1. j - n \in 1..m /\ n + (j - n) = j
      BY <1>8, <2>0, <2>2
    <3>2. both[i] = list[i] /\ both[j] = ord[j - n]
      BY <1>7, <2>2, <3>1
    <3> QED BY <1>9, <1>11, <2>2, <3>1, <3>2
  <2>3. CASE i \notin 1..n /\ j \in 1..n
    <3>1. i - n \in 1..m /\ n + (i - n) = i
      BY <1>8, <2>0, <2>3
    <3>2. both[j] = list[j] /\ both[i] = ord[i - n]
      BY <1>7, <2>3, <3>1
    <3> QED BY <1>9, <1>11, <2>3, <3>1, <3>2
  <2>4. CASE i \notin 1..n /\ j \notin 1..n
    <3>1. i - n \in 1..m /\ n + (i - n) = i /\ j - n \in 1..m /\ n + (j - n) = j
      BY <1>8, <2>0, <2>4
    <3>2. both[i] = ord[i - n] /\ both[j] = ord[j - n]
      BY <1>7, <3>1
    <3>3. i - n = j - n
      BY <1>2, <1>3, <1>11, <3>1, <3>2
    <3> QED BY <3>1, <3>3
  <2> QED BY <2>1, <2>2, <2>3, <2>4
<1>12. ToSet(both) = ToSet(list) \union rows
  <2>1. /\ ToSet(both) = {both[i] : i \in 1..(n + m)}
        /\ ToSet(list) = {list[i] : i \in 1..n}
        /\ rows = {ord[i] : i \in 1..m}
    BY <1>2, <1>3, <1>6 DEF ToSet
  <2>2. ASSUME NEW i \in 1..(n + m) PROVE both[i] \in ToSet(list) \union rows
    <3>1. CASE i \in 1..n
      BY <1>7, <2>1, <3>1
    <3>2. CASE i \notin 1..n
      <4>1. i - n \in 1..m /\ n + (i - n) = i
        BY <1>8, <3>2
      <4>2. both[i] = ord[i - n]
        BY <1>7, <4>1
      <4> QED BY <2>1, <4>1, <4>2
    <3> QED BY <3>1, <3>2
  <2>3. \A i \in 1..n : list[i] \in ToSet(both)
    BY <1>7, <2>1
  <2>4. \A i \in 1..m : ord[i] \in ToSet(both)
    BY <1>7, <2>1
  <2>5. ASSUME NEW x PROVE x \in ToSet(both) <=> x \in ToSet(list) \union rows
    BY <2>1, <2>2, <2>3, <2>4
  <2> QED BY <2>5
<1>13. more \in Seq(Entries) /\ Descending(more) /\ ToSet(more) = ToSet(both)
  BY <1>1, <1>5, <1>11, SortedIs
<1> QED BY <1>12, <1>13

-----------------------------------------------------------------------------
(* The inductive invariant                                                 *)

TaskType ==
  [pc : {"idle", "stats", "pulling"} \union Auth \union Waiting,
   reset : BOOLEAN, boot : BOOLEAN, tok : Servers \union {None},
   asked : Servers \union {None}, cursor : 0..MaxId, answered : BOOLEAN,
   ok : BOOLEAN, rows : SUBSET Rows]

\* TypeOK, as far as the properties need it.
Typed ==
  /\ box \in [Servers -> SUBSET Rows]
  /\ last \in [Servers -> 0..MaxId]
  /\ url \in Servers
  /\ token \in Servers \union {None}
  /\ lastMsgId \in 0..MaxId
  /\ library \subseteq Entries
  /\ task \in [Tasks -> TaskType]

\* Ids are given out in ascending order.
Numbered == \A s \in Servers : \A r \in box[s] : r.id <= last[s]

\* While a session is being set up nothing else runs.
Alone ==
  \A t, u \in Tasks : task[t].pc \in Auth /\ task[u].pc # "idle" => u = t

\* The stored token and whatever is under way are the configured server's.
Current ==
  /\ token \in {None, url}
  /\ \A t \in Tasks : task[t].pc \in Auth \union Waiting => task[t].asked = url
  /\ \A t \in Tasks : task[t].pc \in Waiting => token = url

\* The library has what the server stores up to n.
Holds(entries, rows, srv, n) ==
  \A r \in rows : r.id <= n => [id |-> r.id, srv |-> srv] \in entries
Covered(n) == Holds(library, box[url], url, n)

\* An answer leaves nothing out between its cursor and its greatest row.
Dense(cursor, rows) ==
  \A q \in rows : /\ q.id <= last[url]
                  /\ \A r \in box[url] : cursor < r.id /\ r.id <= q.id => r \in rows

\* What is missing above the cursor of a fetch is in its answer.
Reading ==
  \A t \in Tasks : task[t].pc \in Waiting =>
    /\ Covered(task[t].cursor) /\ task[t].cursor <= last[url]
    /\ Dense(task[t].cursor, task[t].rows)

\* A pull starts without an answer.
Fresh == \A t \in Tasks : task[t].pc = "pulling" => task[t].rows = {}

\* With a token, the library is the configured server's, without a gap.
InStep ==
  token # None =>
    /\ \A e \in library : e.srv = url
    /\ Covered(lastMsgId) /\ lastMsgId <= last[url]

SyncInv == Typed /\ Numbered /\ Alone /\ Current /\ Reading /\ Fresh /\ InStep

-----------------------------------------------------------------------------
(* Steps of one task                                                       *)

LEMMA IdleType ==
  /\ Idle \in TaskType
  /\ \A reset, boot \in BOOLEAN, tok \in Servers \union {None}, srv \in Servers :
       SetupTask(reset, boot, tok, srv) \in TaskType
<1>1. Idle \in TaskType
  BY InboxAssumption DEF Idle, TaskType
<1>2. ASSUME NEW reset \in BOOLEAN, NEW boot \in BOOLEAN, NEW tok \in Servers \union {None},
             NEW srv \in Servers
      PROVE  SetupTask(reset, boot, tok, srv) \in TaskType
  BY <1>1, <1>2 DEF SetupTask, TaskType, Auth
<1> QED BY <1>1, <1>2

\* A task goes on, and neither storage nor library change.
LEMMA TaskStep ==
  ASSUME SyncInv, NEW t \in Tasks, NEW k \in TaskType, Continue(t, k),
         UNCHANGED <<box, last, url, token, lastMsgId, library>>,
         k.pc \in Auth => task[t].pc \in Auth,
         k.pc # "idle" => task[t].pc # "idle" \/ ~InAuth,
         k.pc \in Auth \union Waiting => k.asked = url,
         k.pc \in Waiting =>
           /\ token = url
           /\ Covered(k.cursor) /\ k.cursor <= last[url]
           /\ Dense(k.cursor, k.rows),
         k.pc = "pulling" => k.rows = {}
  PROVE  SyncInv'
<1>1. task' \in [Tasks -> TaskType] /\ task'[t] = k /\ \A u \in Tasks \ {t} : task'[u] = task[u]
  BY DEF Continue, SyncInv, Typed
<1>2. Typed' /\ Numbered' /\ InStep'
  BY <1>1 DEF SyncInv, Typed, Numbered, InStep, Covered, Holds
<1>3. Alone'
  <2> SUFFICES ASSUME NEW u \in Tasks, NEW v \in Tasks, task'[u].pc \in Auth, task'[v].pc # "idle"
               PROVE  v = u
    BY DEF Alone
  <2>1. task[u].pc \in Auth
    BY <1>1
  <2>2. task[v].pc # "idle"
    BY <1>1, <2>1 DEF InAuth
  <2> QED BY <2>1, <2>2 DEF SyncInv, Alone
<1>4. Current'
  BY <1>1 DEF SyncInv, Current
<1>5. Reading'
  <2> SUFFICES ASSUME NEW u \in Tasks, task'[u].pc \in Waiting
               PROVE  /\ Covered(task'[u].cursor) /\ task'[u].cursor <= last[url]
                      /\ Dense(task'[u].cursor, task'[u].rows)
    BY DEF Reading, Covered, Holds, Dense
  <2> QED BY <1>1 DEF SyncInv, Reading
<1>6. Fresh'
  BY <1>1 DEF SyncInv, Fresh
<1> QED BY <1>2, <1>3, <1>4, <1>5, <1>6 DEF SyncInv

\* A task goes on alone, in a session that may be another one now.
LEMMA SessionStep ==
  ASSUME SyncInv, NEW t \in Tasks, task' \in [Tasks -> TaskType],
         \A u \in Tasks \ {t} : task'[u].pc = "idle",
         task'[t].pc \notin Waiting \union {"pulling"},
         task'[t].pc \in Auth => task'[t].asked = url',
         UNCHANGED <<box, last>>,
         url' \in Servers, token' \in {None, url'},
         \/ token' = None /\ UNCHANGED <<lastMsgId, library>>
         \/ lastMsgId' = 0 /\ library' = {}
         \/ UNCHANGED <<token, url, lastMsgId, library>>
  PROVE  SyncInv'
<1>0. "idle" \notin Auth \union Waiting /\ MaxId \in Nat
  BY InboxAssumption DEF Auth, Waiting
<1>1. Typed' /\ Numbered'
  BY <1>0 DEF SyncInv, Typed, Numbered
<1>2. Alone'
  BY <1>0 DEF Alone
<1>3. Current'
  BY <1>0 DEF Current
<1>4. Reading'
  BY <1>0 DEF Reading
<1>6. Fresh'
  BY DEF Fresh
<1>5. InStep'
  <2>1. CASE token' = None
    BY <2>1 DEF InStep
  <2>2. CASE lastMsgId' = 0 /\ library' = {}
    <3>1. last'[url'] \in Nat /\ \A r \in box'[url'] : r.id # 0 /\ r.id \in Nat
      BY <1>1 DEF Typed, Rows
    <3> QED BY <2>2, <3>1 DEF InStep, Covered, Holds
  <2>3. CASE UNCHANGED <<token, url, lastMsgId, library>>
    BY <2>3 DEF SyncInv, InStep, Covered, Holds
  <2> QED BY <2>1, <2>2, <2>3
<1> QED BY <1>1, <1>2, <1>3, <1>4, <1>5, <1>6 DEF SyncInv

\* Rows of an answer are merged: all of them, or those above lastMsgId.  What
\* the server stores up to any of them is then in the library.
LEMMA MergeStep ==
  ASSUME SyncInv, NEW t \in Tasks, task[t].pc \in Waiting,
         NEW rows \in SUBSET task[t].rows,
         \A r \in task[t].rows : r.id > lastMsgId => r \in rows,
         library' = library \union New(rows, task[t].asked),
         lastMsgId' = Top(IdsOf(rows), lastMsgId),
         UNCHANGED <<box, last, url, token>>
  PROVE  /\ library' \subseteq Entries /\ lastMsgId' \in 0..MaxId
         /\ \A e \in library' : e.srv = url
         /\ lastMsgId' <= last[url]
         /\ \A n : Covered(n) => Covered(n)'
         /\ \A q \in rows : Covered(q.id)'
         /\ Covered(lastMsgId)'
<1>0. /\ task[t].asked = url /\ token = url /\ url \in Servers /\ token # None
      /\ rows \in SUBSET Rows /\ task[t].rows \in SUBSET Rows
      /\ task[t].cursor \in Nat /\ lastMsgId \in 0..MaxId
      /\ box[url] \in SUBSET Rows
      /\ library \subseteq Entries
    BY InboxAssumption DEF SyncInv, Typed, Current, TaskType
<1>1. /\ \A e \in library : e.srv = url
      /\ Covered(lastMsgId) /\ lastMsgId <= last[url]
      /\ Covered(task[t].cursor) /\ Dense(task[t].cursor, task[t].rows)
  BY <1>0 DEF SyncInv, InStep, Reading
<1>2. \A r \in rows : [id |-> r.id, srv |-> url] \in library'
  <2> SUFFICES ASSUME NEW r \in rows PROVE [id |-> r.id, srv |-> url] \in library'
    OBVIOUS
  <2>1. CASE r.id \in IdsOf(library)
    <3>1. PICK e \in library : e.id = r.id
      BY <2>1 DEF IdsOf
    <3>2. e = [id |-> r.id, srv |-> url]
      BY <1>0, <1>1, <3>1 DEF Entries
    <3> QED BY <3>2
  <2>2. CASE r.id \notin IdsOf(library)
    BY <1>0, <2>2 DEF New
  <2> QED BY <2>1, <2>2
<1>3. \A n : Covered(n) => Covered(n)'
  BY DEF Covered, Holds
<1>4. \A q \in rows : Covered(q.id)'
  <2> SUFFICES ASSUME NEW q \in rows, NEW r \in box[url], r.id <= q.id
               PROVE  [id |-> r.id, srv |-> url] \in library'
    BY DEF Covered, Holds
  <2>0. r.id \in Nat /\ q.id \in Nat
    BY <1>0 DEF Rows
  <2>1. CASE r.id <= task[t].cursor
    BY <1>1, <2>1 DEF Covered, Holds
  <2>2. CASE r.id <= lastMsgId
    BY <1>1, <2>2 DEF Covered, Holds
  <2>3. CASE r.id > task[t].cursor /\ r.id > lastMsgId
    <3>1. r \in task[t].rows
      BY <1>1, <2>3 DEF Dense
    <3> QED BY <1>2, <2>3, <3>1
  <2> QED BY <1>0, <2>0, <2>1, <2>2, <2>3
<1>5. /\ lastMsgId' \in 0..MaxId
      /\ lastMsgId' = lastMsgId \/ \E r \in rows : r.id = lastMsgId'
  BY <1>0, TopIs
<1>6. Covered(lastMsgId)' /\ lastMsgId' <= last[url]
  <2>1. CASE lastMsgId' = lastMsgId
    BY <1>1, <2>1 DEF Covered, Holds
  <2>2. ASSUME NEW r \in rows, r.id = lastMsgId' PROVE Covered(lastMsgId)' /\ lastMsgId' <= last[url]
    BY <1>1, <1>4, <2>2 DEF Covered, Holds, Dense
  <2> QED BY <1>5, <2>1, <2>2
<1>7. New(rows, url) \subseteq [id : 1..MaxId, srv : {url}]
  BY <1>0 DEF New, Rows
<1>8. library' \subseteq Entries /\ \A e \in library' : e.srv = url
  BY <1>0, <1>1, <1>7 DEF Entries
<1> QED BY <1>3, <1>4, <1>5, <1>6, <1>8

\* While one task sets the session up, the others do nothing.
LEMMA OthersIdle ==
  ASSUME SyncInv, NEW t \in Tasks, task[t].pc \in Auth
  PROVE  \A u \in Tasks \ {t} : task[u].pc = "idle"
BY DEF SyncInv, Alone

\* After a merge: the task that merged goes on as k.
LEMMA MergedStep ==
  ASSUME SyncInv, NEW t \in Tasks, task[t].pc \in Waiting,
         NEW rows \in SUBSET task[t].rows,
         \A r \in task[t].rows : r.id > lastMsgId => r \in rows,
         library' = library \union New(rows, task[t].asked),
         lastMsgId' = Top(IdsOf(rows), lastMsgId),
         UNCHANGED <<box, last, url, token>>,
         NEW k \in TaskType, Continue(t, k), k.pc \notin Auth,
         k.pc \in Waiting =>
           /\ k.asked = url /\ k.rows = {}
           /\ k.cursor = 0 \/ \E q \in rows : k.cursor = q.id,
         k.pc = "pulling" => k.rows = {}
  PROVE  SyncInv'
<1>1. task' \in [Tasks -> TaskType] /\ task'[t] = k /\ \A u \in Tasks \ {t} : task'[u] = task[u]
  BY DEF Continue, SyncInv, Typed
<1>2. /\ library' \subseteq Entries /\ lastMsgId' \in 0..MaxId
      /\ \A e \in library' : e.srv = url
      /\ lastMsgId' <= last[url]
      /\ \A n : Covered(n) => Covered(n)'
      /\ \A q \in rows : Covered(q.id)'
      /\ Covered(lastMsgId)'
  BY MergeStep
<1>3. Typed' /\ Numbered'
  BY <1>1, <1>2 DEF SyncInv, Typed, Numbered
<1>4. Alone'
  <2> SUFFICES ASSUME NEW u \in Tasks, NEW v \in Tasks, task'[u].pc \in Auth, task'[v].pc # "idle"
               PROVE  v = u
    BY DEF Alone
  <2>1. u # t /\ task[u].pc \in Auth
    BY <1>1
  <2>2. task[t].pc # "idle"
    BY DEF Waiting
  <2> QED BY <2>1, <2>2 DEF SyncInv, Alone
<1>5. Current'
  BY <1>1 DEF SyncInv, Current
<1>6. Reading'
  <2> DEFINE covered(n) == Holds(library', box[url], url, n)
  <2>0. /\ \A n : Covered(n) => covered(n)
        /\ \A q \in rows : covered(q.id)
    BY <1>2 DEF Covered, Holds
  <2> SUFFICES ASSUME NEW u \in Tasks, task'[u].pc \in Waiting
               PROVE  /\ covered(task'[u].cursor) /\ task'[u].cursor <= last[url]
                      /\ Dense(task'[u].cursor, task'[u].rows)
    BY DEF Reading, Covered, Holds, Dense
  <2>1. CASE u # t
    <3>1. /\ task'[u] = task[u]
          /\ Covered(task[u].cursor) /\ task[u].cursor <= last[url]
          /\ Dense(task[u].cursor, task[u].rows)
      BY <1>1, <2>1 DEF SyncInv, Reading
    <3> QED BY <2>0, <3>1
  <2>2. CASE u = t
    <3>1. task'[u] = k /\ k.pc \in Waiting
      BY <1>1, <2>2
    <3>2. Dense(k.cursor, k.rows)
      BY <3>1 DEF Dense
    <3>3. CASE k.cursor = 0
      <4>1. last[url] \in Nat /\ \A r \in box[url] : r.id \in Nat /\ r.id # 0
        BY DEF SyncInv, Typed, Rows
      <4>2. covered(0) /\ 0 <= last[url]
        BY <4>1 DEF Holds
      <4> QED BY <3>1, <3>2, <3>3, <4>2
    <3>4. ASSUME NEW q \in rows, k.cursor = q.id
          PROVE  covered(k.cursor) /\ k.cursor <= last[url]
      <4>1. q.id <= last[url]
        BY DEF SyncInv, Reading, Dense
      <4> QED BY <2>0, <3>4, <4>1
    <3> QED BY <3>1, <3>2, <3>3, <3>4
  <2> QED BY <2>1, <2>2
<1>8. Fresh'
  BY <1>1 DEF SyncInv, Fresh
<1>7. InStep'
  BY <1>2 DEF InStep, Covered, Holds
<1> QED BY <1>3, <1>4, <1>5, <1>6, <1>7, <1>8 DEF SyncInv

-----------------------------------------------------------------------------
(* The steps                                                               *)

LEMMA UserSteps ==
  ASSUME SyncInv, ~Overlap, NEW t \in Tasks, NEW srv \in Servers,
         SaveServer(t, srv) \/ Reregister(t) \/ Reload
  PROVE  SyncInv'
<1>0. Typed /\ token \in {None, url} /\ url \in Servers /\ First \in Tasks
  BY InboxAssumption DEF SyncInv, Typed, Current, First
<1>1. CASE SaveServer(t, srv)
  <2> DEFINE k == SetupTask(TRUE, FALSE, token', srv)
  <2>1. /\ AllIdle /\ url' = srv /\ token' \in {None, srv} /\ Continue(t, k)
        /\ token' = None \/ UNCHANGED <<token, url>>
        /\ UNCHANGED <<box, last, lastMsgId, library>>
    BY <1>0, <1>1 DEF SaveServer, MayAct, servers, lib
  <2>2. k \in TaskType /\ k.pc \in {"challenge", "verify"} /\ k.asked = srv
    <3>1. TRUE \in BOOLEAN /\ FALSE \in BOOLEAN /\ token' \in Servers \union {None}
      BY <2>1
    <3>2. k \in TaskType
      BY <3>1, IdleType, Zenon
    <3>3. k.pc \in {"challenge", "verify"} /\ k.asked = srv
      BY DEF SetupTask, Idle
    <3> QED BY <3>2, <3>3
  <2> HIDE DEF k
  <2>3. /\ task' \in [Tasks -> TaskType] /\ task'[t] = k
        /\ \A u \in Tasks \ {t} : task'[u].pc = "idle"
    BY <1>0, <2>1, <2>2 DEF Typed, Continue, AllIdle
  <2> QED BY <2>1, <2>2, <2>3, SessionStep DEF Waiting
<1>2. CASE Reregister(t)
  <2> DEFINE k == SetupTask(TRUE, FALSE, None, url)
  <2>1. /\ AllIdle /\ token' = None /\ Continue(t, k)
        /\ UNCHANGED <<box, last, url, lastMsgId, library>>
    BY <1>2 DEF Reregister, MayAct, servers, lib
  <2>2. k \in TaskType /\ k.pc \in {"challenge", "verify"} /\ k.asked = url
    <3>1. TRUE \in BOOLEAN /\ FALSE \in BOOLEAN /\ None \in Servers \union {None}
      OBVIOUS
    <3>2. k \in TaskType
      BY <1>0, <3>1, IdleType, Zenon
    <3>3. k.pc \in {"challenge", "verify"} /\ k.asked = url
      BY DEF SetupTask, Idle
    <3> QED BY <3>2, <3>3
  <2> HIDE DEF k
  <2>3. /\ task' \in [Tasks -> TaskType] /\ task'[t] = k
        /\ \A u \in Tasks \ {t} : task'[u].pc = "idle"
    BY <1>0, <2>1, <2>2 DEF Typed, Continue, AllIdle
  <2> QED BY <1>0, <2>1, <2>2, <2>3, SessionStep DEF Waiting
<1>3. CASE Reload
  <2> DEFINE k == SetupTask(FALSE, TRUE, token, url)
  <2>1. /\ task' = [u \in Tasks |-> IF u = First THEN k ELSE Idle]
        /\ lastMsgId' = 0 /\ library' = {}
        /\ UNCHANGED <<box, last, url, token>>
    BY <1>3 DEF Reload, ResetLibrary, servers, storage
  <2>2. k \in TaskType /\ k.pc \in {"challenge", "verify"} /\ k.asked = url
    <3>1. TRUE \in BOOLEAN /\ FALSE \in BOOLEAN /\ token \in Servers \union {None}
      BY <1>0
    <3>2. k \in TaskType
      BY <1>0, <3>1, IdleType, Zenon
    <3>3. k.pc \in {"challenge", "verify"} /\ k.asked = url
      BY DEF SetupTask, Idle
    <3> QED BY <3>2, <3>3
  <2> HIDE DEF k
  <2>3. /\ task' \in [Tasks -> TaskType] /\ task'[First] = k
        /\ \A u \in Tasks \ {First} : task'[u].pc = "idle"
    BY <1>0, <2>1, <2>2, IdleType DEF Idle
  <2> QED BY <1>0, <2>1, <2>2, <2>3, SessionStep DEF Waiting
<1> QED BY <1>1, <1>2, <1>3

LEMMA SetupSteps ==
  ASSUME SyncInv, NEW t \in Tasks, VerifyOk(t) \/ VerifyRefused(t) \/ RegisterOk(t)
  PROVE  SyncInv'
<1>0. /\ task \in [Tasks -> TaskType] /\ token \in {None, url} /\ url \in Servers
      /\ task[t].pc \in Auth /\ task[t].asked = url
      /\ \A u \in Tasks \ {t} : task[u].pc = "idle"
  BY OthersIdle
  DEF SyncInv, Typed, Current, VerifyOk, VerifyRefused, RegisterOk, Auth
<1>1. ASSUME NEW k \in TaskType, Continue(t, k)
      PROVE  /\ task' \in [Tasks -> TaskType] /\ task'[t] = k
             /\ \A u \in Tasks \ {t} : task'[u].pc = "idle"
  BY <1>0, <1>1 DEF Continue
<1>2. CASE VerifyRefused(t)
  <2> DEFINE k == [task[t] EXCEPT !.pc = "challenge", !.tok = None, !.asked = url]
  <2>1. token' = None /\ Continue(t, k) /\ UNCHANGED <<box, last, url, lastMsgId, library>>
    BY <1>2 DEF VerifyRefused, servers, lib
  <2>2. k \in TaskType /\ k.pc = "challenge" /\ k.asked = url
    <3>1. \A g \in TaskType :
            LET h == [g EXCEPT !.pc = "challenge", !.tok = None, !.asked = url]
            IN h \in TaskType /\ h.pc = "challenge" /\ h.asked = url
      BY <1>0 DEF TaskType, Auth
    <3> QED BY <1>0, <3>1
  <2> HIDE DEF k
  <2> QED BY <1>0, <1>1, <2>1, <2>2, SessionStep DEF Waiting
<1>3. CASE VerifyOk(t) \/ RegisterOk(t)
  <2> DEFINE k == [Idle EXCEPT !.pc = "stats", !.boot = task[t].boot]
  <2>1. k \in TaskType /\ k.pc = "stats"
    <3>1. task[t].boot \in BOOLEAN
      BY <1>0 DEF TaskType
    <3> QED BY <3>1, IdleType DEF Idle, TaskType
  <2>2. PICK isNew \in BOOLEAN :
          /\ SetupGoesOn(t, isNew) /\ UNCHANGED <<box, last, url>>
          /\ ~isNew => token' = token
          /\ isNew => token' = url
    BY <1>0, <1>3 DEF VerifyOk, RegisterOk, servers, storage
  <2>3. (lastMsgId' = 0 /\ library' = {}) \/ UNCHANGED <<lastMsgId, library>>
    BY <2>2 DEF SetupGoesOn, ResetLibrary, lib
  <2>4. Continue(t, k)
    BY <2>2 DEF SetupGoesOn
  <2>5. isNew => lastMsgId' = 0 /\ library' = {}
    BY <2>2 DEF SetupGoesOn, ResetLibrary
  <2> HIDE DEF k
  <2>6. task'[t].pc \notin Waiting \union Auth \union {"pulling"}
    BY <1>1, <2>1, <2>4 DEF Waiting, Auth
  <2> QED BY <1>0, <1>1, <2>1, <2>2, <2>3, <2>4, <2>5, <2>6, SessionStep
<1> QED BY <1>2, <1>3

LEMMA RefreshTaskIs ==
  ASSUME SyncInv, NEW k \in TaskType, k.rows = {}
  PROVE  /\ RefreshTask(k) \in TaskType
         /\ RefreshTask(k).pc \in {"pulling", "backfill"} /\ RefreshTask(k).rows = {}
         /\ RefreshTask(k).pc = "backfill" =>
              /\ RefreshTask(k).asked = url /\ token = url
              /\ RefreshTask(k).cursor = 0
<1>0. token \in {None, url} /\ url \in Servers /\ MaxId \in Nat
  BY InboxAssumption DEF SyncInv, Typed, Current
<1>1. /\ [k EXCEPT !.pc = "pulling"] \in TaskType
      /\ [k EXCEPT !.pc = "pulling"].pc = "pulling" /\ [k EXCEPT !.pc = "pulling"].rows = {}
  BY DEF TaskType
<1> DEFINE h(g, tok, srv, c) ==
             [g EXCEPT !.pc = "backfill", !.tok = tok, !.asked = srv, !.cursor = c]
<1>2. \A g \in TaskType, tok, srv \in Servers \union {None}, c \in 0..MaxId :
        h(g, tok, srv, c) \in TaskType
  BY DEF TaskType, Waiting
<1>3. \A g \in TaskType : \A tok, srv, c :
        /\ h(g, tok, srv, c).pc = "backfill" /\ h(g, tok, srv, c).asked = srv
        /\ h(g, tok, srv, c).cursor = c /\ h(g, tok, srv, c).rows = g.rows
  BY DEF TaskType
<1>4. 0 \in 0..MaxId /\ token \in Servers \union {None} /\ url \in Servers \union {None}
  BY <1>0
<1>5. \/ RefreshTask(k) = [k EXCEPT !.pc = "pulling"]
      \/ token # None /\ RefreshTask(k) = h(k, token, url, 0)
  BY DEF RefreshTask
<1> HIDE DEF h
<1>6. /\ h(k, token, url, 0) \in TaskType
      /\ h(k, token, url, 0).pc = "backfill" /\ h(k, token, url, 0).asked = url
      /\ h(k, token, url, 0).cursor = 0 /\ h(k, token, url, 0).rows = {}
  BY <1>2, <1>3, <1>4
<1> QED BY <1>0, <1>1, <1>5, <1>6

\* The beginning of the library is always there.
LEMMA CoveredZero == ASSUME Typed PROVE Covered(0) /\ 0 <= last[url]
<1>1. /\ \A r \in box[url] : r.id \in Nat /\ r.id # 0
      /\ last[url] \in Nat
  BY DEF Typed, Rows
<1> QED BY <1>1 DEF Covered, Holds

\* What a task may go on as: a fresh one in "pulling", or the old one with
\* another request.
LEMMA GoesOnType ==
  ASSUME NEW g \in TaskType
  PROVE  /\ [Idle EXCEPT !.boot = g.boot] \in TaskType
         /\ [Idle EXCEPT !.boot = g.boot].rows = {}
         /\ [Idle EXCEPT !.pc = "pulling", !.boot = g.boot] \in TaskType
         /\ [Idle EXCEPT !.pc = "pulling", !.boot = g.boot].pc = "pulling"
         /\ [Idle EXCEPT !.pc = "pulling", !.boot = g.boot].rows = {}
<1>1. g.boot \in BOOLEAN
  BY DEF TaskType
<1>2. \A i \in TaskType, b \in BOOLEAN :
        [i EXCEPT !.boot = b] \in TaskType /\ [i EXCEPT !.boot = b].rows = i.rows
  BY DEF TaskType
<1>3. \A i \in TaskType, b \in BOOLEAN :
        LET h == [i EXCEPT !.pc = "pulling", !.boot = b]
        IN h \in TaskType /\ h.pc = "pulling" /\ h.rows = i.rows
  BY DEF TaskType
<1>4. Idle \in TaskType /\ Idle.rows = {}
  BY IdleType DEF Idle
<1>5. [Idle EXCEPT !.boot = g.boot] \in TaskType /\ [Idle EXCEPT !.boot = g.boot].rows = {}
  BY <1>1, <1>2, <1>4, Zenon
<1>6. /\ [Idle EXCEPT !.pc = "pulling", !.boot = g.boot] \in TaskType
      /\ [Idle EXCEPT !.pc = "pulling", !.boot = g.boot].pc = "pulling"
      /\ [Idle EXCEPT !.pc = "pulling", !.boot = g.boot].rows = {}
  BY <1>1, <1>3, <1>4, Zenon
<1> QED BY <1>5, <1>6

\* The steps of session setup that leave storage and library alone.
LEMMA QuietSetupSteps ==
  ASSUME SyncInv, NEW t \in Tasks, ChallengeOk(t) \/ RegisterRefused(t) \/ StatsDone(t)
  PROVE  SyncInv'
<1>0. /\ task[t] \in TaskType /\ token \in {None, url} /\ url \in Servers
      /\ Typed
  BY DEF SyncInv, Typed, Current
<1>1. CASE ChallengeOk(t)
  <2> DEFINE k == [task[t] EXCEPT !.pc = "register", !.tok = task[t].asked, !.asked = url]
  <2>1. /\ Continue(t, k) /\ task[t].pc \in Auth
        /\ UNCHANGED <<box, last, url, token, lastMsgId, library>>
    BY <1>1 DEF ChallengeOk, servers, storage, lib, Auth
  <2>2. k \in TaskType /\ k.pc = "register" /\ k.asked = url
    <3>1. \A g \in TaskType :
            LET h == [g EXCEPT !.pc = "register", !.tok = g.asked, !.asked = url]
            IN h \in TaskType /\ h.pc = "register" /\ h.asked = url
      BY <1>0 DEF TaskType, Auth
    <3> QED BY <1>0, <3>1
  <2>3. k.pc \notin Waiting \union {"pulling"} /\ task[t].pc # "idle"
    BY <2>1, <2>2 DEF Waiting, Auth
  <2> HIDE DEF k
  <2> QED BY <2>1, <2>2, <2>3, TaskStep
<1>2. CASE RegisterRefused(t)
  <2>1. /\ Continue(t, Idle)
        /\ UNCHANGED <<box, last, url, token, lastMsgId, library>>
    BY <1>2 DEF RegisterRefused, servers, storage, lib
  <2>2. Idle \in TaskType /\ Idle.pc = "idle" /\ "idle" \notin Auth \union Waiting \union {"pulling"}
    BY IdleType DEF Idle, Auth, Waiting
  <2> QED BY <2>1, <2>2, TaskStep
<1>3. CASE StatsDone(t)
  <2> DEFINE k == RefreshTask([Idle EXCEPT !.boot = task[t].boot])
  <2>1. /\ Continue(t, k) /\ task[t].pc # "idle"
        /\ UNCHANGED <<box, last, url, token, lastMsgId, library>>
    BY <1>3 DEF StatsDone, servers, storage, lib
  <2>2. /\ k \in TaskType /\ k.pc \in {"pulling", "backfill"} /\ k.rows = {}
        /\ k.pc = "backfill" => k.asked = url /\ token = url /\ k.cursor = 0
    BY <1>0, GoesOnType, RefreshTaskIs
  <2>3. /\ k.pc \notin Auth /\ (k.pc \in Waiting => k.pc = "backfill")
        /\ Covered(0) /\ 0 <= last[url] /\ Dense(k.cursor, {})
    BY <1>0, <2>2, CoveredZero DEF Waiting, Auth, Dense
  <2> HIDE DEF k
  <2> QED BY <2>1, <2>2, <2>3, TaskStep
<1> QED BY <1>1, <1>2, <1>3

\* The timer and the hints start a refresh when no session is being set up.
LEMMA RefreshStartStep ==
  ASSUME SyncInv, ~Overlap, NEW t \in Tasks, RefreshStart(t)
  PROVE  SyncInv'
<1> DEFINE k == RefreshTask(Idle)
<1>1. /\ Continue(t, k) /\ ~InAuth
      /\ UNCHANGED <<box, last, url, token, lastMsgId, library>>
  BY DEF RefreshStart, servers, storage, lib
<1>2. /\ k \in TaskType /\ k.pc \in {"pulling", "backfill"} /\ k.rows = {}
      /\ k.pc = "backfill" => k.asked = url /\ token = url /\ k.cursor = 0
  <2>1. Idle \in TaskType /\ Idle.rows = {}
    BY IdleType DEF Idle
  <2> QED BY <2>1, RefreshTaskIs
<1>3. /\ k.pc \notin Auth /\ (k.pc \in Waiting => k.pc = "backfill")
      /\ Covered(0) /\ 0 <= last[url] /\ Dense(k.cursor, {})
  BY <1>2, CoveredZero DEF Waiting, Auth, Dense, SyncInv
<1> HIDE DEF k
<1> QED BY <1>1, <1>2, <1>3, TaskStep

\* The answers of the server.
LEMMA AnswerSteps ==
  ASSUME SyncInv, NEW t \in Tasks, Serve(t) \/ ServeFault(t)
  PROVE  SyncInv'
<1>0. /\ task[t] \in TaskType /\ task[t].pc \in Waiting
      /\ task[t].asked = url /\ token = url
      /\ Covered(task[t].cursor) /\ task[t].cursor <= last[url]
      /\ Dense(task[t].cursor, task[t].rows)
      /\ box[url] \in SUBSET Rows /\ last[url] \in Nat
      /\ "idle" \notin Waiting /\ task[t].pc \notin Auth \union {"pulling"}
  BY DEF SyncInv, Typed, Current, Reading, Serve, ServeFault, Waiting, Auth
<1>1. CASE Serve(t)
  <2> DEFINE valid == task[t].tok = task[t].asked
             rows == IF valid THEN Page(box[task[t].asked], Me, task[t].cursor, Batch) ELSE {}
             k == [task[t] EXCEPT !.answered = TRUE, !.ok = valid, !.rows = rows]
  <2>1. Continue(t, k) /\ UNCHANGED <<box, last, url, token, lastMsgId, library>>
    BY <1>1 DEF Serve, servers, storage, lib
  <2>2. rows \subseteq box[url] /\ \A r \in rows : r \in Page(box[url], Me, task[t].cursor, Batch)
    BY <1>0 DEF Page, Matching
  <2>3. Dense(task[t].cursor, rows)
    <3> SUFFICES ASSUME NEW q \in rows
                 PROVE  /\ q.id <= last[url]
                        /\ \A r \in box[url] : task[t].cursor < r.id /\ r.id <= q.id => r \in rows
      BY DEF Dense
    <3>1. q.id <= last[url]
      BY <1>0, <2>2 DEF SyncInv, Numbered, Typed
    <3>2. ASSUME NEW r \in box[url], task[t].cursor < r.id, r.id <= q.id PROVE r \in rows
      <4>1. q \in Page(box[url], Me, task[t].cursor, Batch) /\ valid
        BY <2>2
      <4>2. task[t].cursor \in Nat
        BY <1>0, InboxAssumption DEF TaskType
      <4>3. r \in Page(box[url], Me, task[t].cursor, Batch)
        BY <1>0, <3>2, <4>1, <4>2, PageDense
      <4> QED BY <1>0, <4>1, <4>3
    <3> QED BY <3>1, <3>2
  <2>4. valid \in BOOLEAN /\ rows \in SUBSET Rows
    BY <1>0, <2>2
  <2> HIDE DEF rows, valid
  <2>5. /\ k \in TaskType
        /\ k.pc = task[t].pc /\ k.asked = task[t].asked
        /\ k.cursor = task[t].cursor /\ k.rows = rows
    <3> DEFINE h(g, b, rs) == [g EXCEPT !.answered = TRUE, !.ok = b, !.rows = rs]
    <3>1. \A g \in TaskType, b \in BOOLEAN, rs \in SUBSET Rows : h(g, b, rs) \in TaskType
      BY DEF TaskType
    <3>2. \A g \in TaskType, b \in BOOLEAN, rs \in SUBSET Rows :
            /\ h(g, b, rs).pc = g.pc /\ h(g, b, rs).asked = g.asked
            /\ h(g, b, rs).cursor = g.cursor /\ h(g, b, rs).rows = rs
      BY DEF TaskType
    <3>3. k = h(task[t], valid, rows)
      OBVIOUS
    <3> HIDE DEF h, k
    <3>0. task[t] \in TaskType /\ valid \in BOOLEAN /\ rows \in SUBSET Rows
      BY <1>0, <2>4
    <3>4. k \in TaskType
      BY <3>0, <3>1, <3>3, Zenon
    <3>5. /\ k.pc = task[t].pc /\ k.asked = task[t].asked
          /\ k.cursor = task[t].cursor /\ k.rows = rows
      BY <3>0, <3>2, <3>3, Zenon
    <3> QED BY <3>4, <3>5
  <2> HIDE DEF k
  <2> QED BY <1>0, <2>1, <2>3, <2>5, TaskStep
<1>2. CASE ServeFault(t)
  <2> DEFINE k == [task[t] EXCEPT !.answered = TRUE]
  <2>1. Continue(t, k) /\ UNCHANGED <<box, last, url, token, lastMsgId, library>>
    BY <1>2 DEF ServeFault, servers, storage, lib
  <2>2. /\ k \in TaskType
        /\ k.pc = task[t].pc /\ k.asked = task[t].asked
        /\ k.cursor = task[t].cursor /\ k.rows = task[t].rows
    BY <1>0 DEF TaskType
  <2> HIDE DEF k
  <2> QED BY <1>0, <2>1, <2>2, TaskStep
<1> QED BY <1>1, <1>2

\* A refresh moves on, or ends, without a merge.
LEMMA RefreshSteps ==
  ASSUME SyncInv, NEW t \in Tasks,
         BackfillStop(t) \/ PullSend(t) \/ PullSkip(t) \/ NetworkError(t)
  PROVE  SyncInv'
<1>0. /\ task[t] \in TaskType /\ Typed
      /\ token \in {None, url} /\ url \in Servers /\ lastMsgId \in 0..MaxId
  BY DEF SyncInv, Typed, Current
<1>1. CASE BackfillStop(t)
  <2> DEFINE k == [Idle EXCEPT !.pc = "pulling", !.boot = task[t].boot]
  <2>1. /\ Continue(t, k) /\ task[t].pc # "idle"
        /\ UNCHANGED <<box, last, url, token, lastMsgId, library>>
    BY <1>1 DEF BackfillStop, BackfillEnds, servers, storage
  <2>2. k \in TaskType /\ k.pc = "pulling" /\ k.rows = {}
    BY <1>0, GoesOnType
  <2>3. k.pc \notin Auth \union Waiting
    BY <2>2 DEF Auth, Waiting
  <2> HIDE DEF k
  <2> QED BY <2>1, <2>2, <2>3, TaskStep
<1>2. CASE PullSend(t)
  <2> DEFINE k == [task[t] EXCEPT !.pc = "pull", !.tok = token, !.asked = url,
                                  !.cursor = lastMsgId]
  <2>1. /\ Continue(t, k) /\ task[t].pc = "pulling" /\ token # None
        /\ UNCHANGED <<box, last, url, token, lastMsgId, library>>
    BY <1>2 DEF PullSend, servers, storage, lib
  <2>2. /\ k \in TaskType /\ k.pc = "pull" /\ k.asked = url
        /\ k.cursor = lastMsgId /\ k.rows = {}
    <3> DEFINE h(g, tok, srv, c) ==
                 [g EXCEPT !.pc = "pull", !.tok = tok, !.asked = srv, !.cursor = c]
    <3>1. \A g \in TaskType, tok, srv \in Servers \union {None}, c \in 0..MaxId :
            h(g, tok, srv, c) \in TaskType
      BY DEF TaskType, Waiting
    <3>2. \A g \in TaskType : \A tok, srv, c :
            /\ h(g, tok, srv, c).pc = "pull" /\ h(g, tok, srv, c).asked = srv
            /\ h(g, tok, srv, c).cursor = c /\ h(g, tok, srv, c).rows = g.rows
      BY DEF TaskType
    <3>3. k = h(task[t], token, url, lastMsgId)
      OBVIOUS
    <3>4. token \in Servers \union {None} /\ url \in Servers \union {None}
      BY <1>0
    <3>5. task[t].rows = {}
      BY <2>1 DEF SyncInv, Fresh
    <3> HIDE DEF h, k
    <3>6. k \in TaskType
      BY <1>0, <3>1, <3>3, <3>4, Zenon
    <3>7. /\ k.pc = "pull" /\ k.asked = url
          /\ k.cursor = lastMsgId /\ k.rows = {}
      BY <1>0, <3>2, <3>3, <3>5
    <3> QED BY <3>6, <3>7
  <2>3. k.pc \notin Auth /\ task[t].pc # "idle"
    BY <2>1, <2>2 DEF Auth
  <2>4. /\ Covered(lastMsgId) /\ lastMsgId <= last[url]
        /\ token = url /\ Dense(lastMsgId, {}) /\ k.pc # "pulling"
    BY <1>0, <2>1, <2>2 DEF SyncInv, InStep, Dense
  <2> HIDE DEF k
  <2> QED BY <1>0, <2>1, <2>2, <2>3, <2>4, TaskStep
<1>3. CASE PullSkip(t) \/ NetworkError(t)
  <2>1. Continue(t, Idle) /\ UNCHANGED <<box, last, url, token, lastMsgId, library>>
    BY <1>3 DEF PullSkip, NetworkError, servers, storage, lib
  <2>2. Idle \in TaskType /\ Idle.pc = "idle" /\ "idle" \notin Auth \union Waiting \union {"pulling"}
    BY IdleType DEF Idle, Auth, Waiting
  <2> QED BY <2>1, <2>2, TaskStep
<1> QED BY <1>1, <1>2, <1>3

\* The steps that merge an answer.
LEMMA MergeSteps ==
  ASSUME SyncInv, NEW t \in Tasks, BackfillPage(t) \/ PullDone(t)
  PROVE  SyncInv'
<1>0. /\ task[t] \in TaskType /\ task[t].pc \in Waiting /\ url \in Servers
      /\ task[t].rows \in SUBSET Rows /\ lastMsgId \in 0..MaxId
      /\ \A r \in task[t].rows : r.id \in Nat /\ r.id # 0
  BY DEF SyncInv, Typed, BackfillPage, PullDone, Waiting, TaskType, Rows
<1>1. CASE PullDone(t)
  <2> DEFINE fresh == {r \in task[t].rows : r.id > lastMsgId}
  <2>1. /\ library' = library \union New(fresh, task[t].asked)
        /\ lastMsgId' = Top(IdsOf(fresh), lastMsgId)
        /\ Continue(t, Idle) /\ UNCHANGED <<box, last, url, token>>
    BY <1>1 DEF PullDone, MergeEach, servers, storage
  <2>2. Idle \in TaskType /\ Idle.pc = "idle" /\ "idle" \notin Auth \union Waiting \union {"pulling"}
    BY IdleType DEF Idle, Auth, Waiting
  <2>3. fresh \in SUBSET task[t].rows /\ \A r \in task[t].rows : r.id > lastMsgId => r \in fresh
    OBVIOUS
  <2> HIDE DEF fresh
  <2> QED BY <1>0, <2>1, <2>2, <2>3, MergedStep
<1>2. CASE BackfillPage(t)
  <2> DEFINE rows == task[t].rows
             more == [task[t] EXCEPT !.cursor = Top(IdsOf(rows), 0), !.asked = url,
                        !.answered = FALSE, !.ok = FALSE, !.rows = {}]
             done == [Idle EXCEPT !.pc = "pulling", !.boot = task[t].boot]
  <2>1. /\ library' = library \union New(rows, task[t].asked)
        /\ lastMsgId' = Top(IdsOf(rows), lastMsgId)
        /\ Continue(t, more) \/ Continue(t, done)
        /\ UNCHANGED <<box, last, url, token>> /\ task[t].pc = "backfill"
    BY <1>2 DEF BackfillPage, MergeEntries, BackfillEnds, servers, storage
  <2>2. done \in TaskType /\ done.pc = "pulling" /\ done.rows = {}
    BY <1>0, GoesOnType
  <2>3. /\ Top(IdsOf(rows), 0) \in 0..MaxId
        /\ Top(IdsOf(rows), 0) = 0 \/ \E q \in rows : Top(IdsOf(rows), 0) = q.id
    <3>1. 0 \in 0..MaxId
      BY InboxAssumption
    <3> QED BY <1>0, <3>1, TopIs
  <2>4. /\ more \in TaskType /\ more.pc = "backfill" /\ more.asked = url
        /\ more.rows = {} /\ more.cursor = Top(IdsOf(rows), 0)
    <3> DEFINE h(g, c, srv) == [g EXCEPT !.cursor = c, !.asked = srv,
                                  !.answered = FALSE, !.ok = FALSE, !.rows = {}]
    <3>1. \A g \in TaskType, c \in 0..MaxId, srv \in Servers : h(g, c, srv) \in TaskType
      BY DEF TaskType
    <3>2. \A g \in TaskType : \A c, srv :
            /\ h(g, c, srv).pc = g.pc /\ h(g, c, srv).asked = srv
            /\ h(g, c, srv).rows = {} /\ h(g, c, srv).cursor = c
      BY DEF TaskType
    <3>3. more = h(task[t], Top(IdsOf(rows), 0), url)
      OBVIOUS
    <3> HIDE DEF h, more
    <3>4. more \in TaskType
      BY <1>0, <2>3, <3>1, <3>3, Zenon
    <3> QED BY <1>0, <2>1, <3>2, <3>3, <3>4
  <2>5. /\ done.pc \notin Auth \union Waiting /\ more.pc \notin Auth \union {"pulling"}
        /\ \A r \in rows : r.id > lastMsgId => r \in rows
    BY <2>2, <2>4 DEF Auth, Waiting
  <2> HIDE DEF more, done
  <2>6. CASE Continue(t, more)
    BY <1>0, <2>1, <2>3, <2>4, <2>5, <2>6, MergedStep
  <2>7. CASE Continue(t, done)
    BY <1>0, <2>1, <2>2, <2>5, <2>7, MergedStep
  <2> QED BY <2>1, <2>6, <2>7
<1> QED BY <1>1, <1>2

\* What the servers do: a new id is above every cursor, and an expired row is
\* owed to nobody.
LEMMA ServerSteps ==
  ASSUME SyncInv, NEW s \in Servers,
         Deliver(s) \/ \E r \in box[s] : Expire(s, r)
  PROVE  SyncInv'
<1>0. /\ Typed /\ box \in [Servers -> SUBSET Rows] /\ last \in [Servers -> 0..MaxId]
      /\ url \in Servers /\ MaxId \in Nat
      /\ UNCHANGED <<url, token, lastMsgId, library, task>>
  BY InboxAssumption DEF SyncInv, Typed, Deliver, Expire, storage, lib
<1>1. /\ box' \in [Servers -> SUBSET Rows] /\ last' \in [Servers -> 0..MaxId]
      /\ Numbered'
      /\ last[url] <= last'[url]
      /\ \A r \in box'[url] : r \in box[url] \/ r.id > last[url]
  <2>1. CASE Deliver(s)
    <3> DEFINE new == [id |-> last[s] + 1, to |-> Me]
    <3>1. new \in Rows /\ new.id = last[s] + 1
      BY <1>0, <2>1 DEF Deliver, Rows
    <3>2. /\ last' = [last EXCEPT ![s] = last[s] + 1]
          /\ box' = [box EXCEPT ![s] = box[s] \union {new}]
          /\ last[s] < MaxId
      BY <2>1 DEF Deliver
    <3> HIDE DEF new
    <3>3. /\ last'[s] = last[s] + 1 /\ box'[s] = box[s] \union {new}
          /\ \A v \in Servers \ {s} : last'[v] = last[v] /\ box'[v] = box[v]
      BY <1>0, <3>2
    <3>4. box' \in [Servers -> SUBSET Rows] /\ last' \in [Servers -> 0..MaxId]
      BY <1>0, <3>1, <3>2
    <3>5. \A v \in Servers : \A r \in box[v] : r.id \in Nat /\ last[v] \in Nat /\ r.id <= last[v]
      BY <1>0 DEF SyncInv, Numbered, Rows
    <3>6. \A v \in Servers : last[v] \in Nat
      BY <1>0
    <3>7. Numbered'
      BY <3>1, <3>3, <3>5, <3>6 DEF Numbered
    <3>8. last[url] <= last'[url] /\ \A r \in box'[url] : r \in box[url] \/ r.id > last[url]
      BY <1>0, <3>1, <3>3, <3>6
    <3> QED BY <3>4, <3>7, <3>8
  <2>2. ASSUME NEW r \in box[s], Expire(s, r)
        PROVE  /\ box' \in [Servers -> SUBSET Rows] /\ last' = last
               /\ \A v \in Servers : box'[v] \subseteq box[v]
    BY <1>0, <2>2 DEF Expire
  <2>3. CASE \E r \in box[s] : Expire(s, r)
    BY <1>0, <2>2, <2>3 DEF SyncInv, Numbered
  <2> QED BY <2>1, <2>3
<1>2. Typed' /\ Alone' /\ Current' /\ Fresh'
  BY <1>0, <1>1 DEF SyncInv, Typed, Alone, Current, Fresh
<1> DEFINE covered(n) == Holds(library, box'[url], url, n)
<1>3. ASSUME NEW n \in Nat, Covered(n), n <= last[url] PROVE covered(n) /\ n <= last'[url]
  <2>1. last[url] \in Nat /\ last'[url] \in Nat /\ \A r \in box'[url] : r.id \in Nat
    BY <1>0, <1>1 DEF Rows
  <2> QED BY <1>1, <1>3, <2>1 DEF Covered, Holds
<1>4. InStep'
  <2> SUFFICES ASSUME token # None
               PROVE  /\ \A e \in library : e.srv = url
                      /\ covered(lastMsgId) /\ lastMsgId <= last'[url]
    BY <1>0 DEF InStep, Covered
  <2>1. lastMsgId \in Nat
    BY <1>0 DEF Typed
  <2> QED BY <1>3, <2>1 DEF SyncInv, InStep
<1>5. Reading'
  <2> SUFFICES ASSUME NEW u \in Tasks, task[u].pc \in Waiting
               PROVE  /\ covered(task[u].cursor) /\ task[u].cursor <= last'[url]
                      /\ \A q \in task[u].rows :
                           /\ q.id <= last'[url]
                           /\ \A r \in box'[url] :
                                task[u].cursor < r.id /\ r.id <= q.id => r \in task[u].rows
    BY <1>0 DEF Reading, Covered, Dense
  <2>1. /\ Covered(task[u].cursor) /\ task[u].cursor <= last[url]
        /\ Dense(task[u].cursor, task[u].rows)
        /\ task[u].cursor \in Nat /\ task[u].rows \subseteq Rows
    BY <1>0 DEF SyncInv, Reading, Typed, TaskType
  <2>2. last[url] \in Nat /\ last'[url] \in Nat /\ \A r \in Rows : r.id \in Nat
    BY <1>0, <1>1 DEF Rows
  <2>3. ASSUME NEW q \in task[u].rows
        PROVE  /\ q.id <= last'[url]
               /\ \A r \in box'[url] :
                    task[u].cursor < r.id /\ r.id <= q.id => r \in task[u].rows
    <3>1. q.id \in Nat /\ q.id <= last[url]
      BY <2>1, <2>2 DEF Dense
    <3>2. \A r \in box'[url] : r.id \in Nat
      BY <1>0, <1>1, <2>2
    <3> QED BY <1>1, <2>1, <2>2, <3>1, <3>2 DEF Dense
  <2> QED BY <1>3, <2>1, <2>3
<1> QED BY <1>1, <1>2, <1>4, <1>5 DEF SyncInv

-----------------------------------------------------------------------------
(* The list, whatever the user does                                        *)

Scalars ==
  /\ box \in [Servers -> SUBSET Rows]
  /\ last \in [Servers -> 0..MaxId]
  /\ url \in Servers
  /\ token \in Servers \union {None}
  /\ lastMsgId \in 0..MaxId
  /\ didFullBackfill \in BOOLEAN
  /\ page \in {"booting", "polling", "dead"}
  /\ linked \in BOOLEAN
  /\ acts \in 0..MaxActs
  /\ faults \in 0..MaxFaults

\* A pending request went to some server.
Tasked ==
  /\ task \in [Tasks -> TaskType]
  /\ \A t \in Tasks : task[t].pc \in Auth \union Waiting => task[t].asked \in Servers

\* libraryEntries is libraryById, newest first.
Listed ==
  /\ library \subseteq Entries /\ OneEach(library)
  /\ libraryEntries \in Seq(Entries)
  /\ Descending(libraryEntries)
  /\ ToSet(libraryEntries) = library

ListInv == Scalars /\ Tasked /\ Listed

LEMMA TaskedStep ==
  ASSUME Tasked, NEW t \in Tasks, NEW k \in TaskType, Continue(t, k),
         k.pc \in Auth \union Waiting => k.asked \in Servers
  PROVE  Tasked'
<1>1. task' \in [Tasks -> TaskType] /\ task'[t] = k /\ \A u \in Tasks \ {t} : task'[u] = task[u]
  BY DEF Continue, Tasked
<1> QED BY <1>1 DEF Tasked

LEMMA ListedStep ==
  ASSUME Listed,
         UNCHANGED <<library, libraryEntries>> \/ (library' = {} /\ libraryEntries' = <<>>)
  PROVE  Listed'
<1>1. CASE UNCHANGED <<library, libraryEntries>>
  BY <1>1 DEF Listed, OneEach, Descending, ToSet
<1>2. CASE library' = {} /\ libraryEntries' = <<>>
  <2>1. /\ libraryEntries' \in Seq(Entries) /\ Descending(libraryEntries')
        /\ ToSet(libraryEntries') = {}
    BY <1>2 DEF Descending, ToSet
  <2> QED BY <1>2, <2>1 DEF Listed, OneEach
<1> QED BY <1>1, <1>2

\* Rows of an answer are merged, one by one or as a batch: those whose id the
\* library does not have yet.
LEMMA MergeListed ==
  ASSUME Listed, NEW rows \in SUBSET Rows, NEW srv \in Servers,
         MergeEach(rows, srv) \/ MergeEntries(rows, srv)
  PROVE  Listed'
<1> DEFINE new == New(rows, srv)
<1>1. /\ new \in SUBSET Entries
      /\ \A e \in new : e.id \notin IdsOf(library)
      /\ \A e \in new : e = [id |-> e.id, srv |-> srv]
  BY DEF New, Rows, Entries
<1>2. library' = library \union new
  BY DEF MergeEach, MergeEntries
<1>3. libraryEntries' = InsertEach(libraryEntries, new) \/ libraryEntries' = InsertBatch(libraryEntries, new)
  BY DEF MergeEach, MergeEntries
<1> HIDE DEF new
<1>4. OneEach(new)
  BY <1>1 DEF OneEach
<1>5. \A r \in new : \A k \in DOMAIN libraryEntries : libraryEntries[k].id # r.id
  <2>1. \A k \in DOMAIN libraryEntries : libraryEntries[k] \in library
    BY DEF Listed, ToSet
  <2> QED BY <1>1, <2>1 DEF IdsOf
<1>6. /\ libraryEntries' \in Seq(Entries) /\ Descending(libraryEntries')
      /\ ToSet(libraryEntries') = ToSet(libraryEntries) \union new
  <2>0. libraryEntries \in Seq(Entries) /\ Descending(libraryEntries)
    BY DEF Listed
  <2>1. CASE libraryEntries' = InsertEach(libraryEntries, new)
    BY <1>1, <1>4, <1>5, <2>0, <2>1, InsertEachIs
  <2>2. CASE libraryEntries' = InsertBatch(libraryEntries, new)
    BY <1>1, <1>4, <1>5, <2>0, <2>2, InsertBatchIs
  <2> QED BY <1>3, <2>1, <2>2
<1>7. OneEach(library)'
  <2> SUFFICES ASSUME NEW e \in library', NEW f \in library', e.id = f.id PROVE e = f
    BY DEF OneEach
  <2> QED BY <1>1, <1>2, <1>4 DEF Listed, OneEach, IdsOf
<1>8. library' \subseteq Entries /\ ToSet(libraryEntries') = library'
  BY <1>1, <1>2, <1>6 DEF Listed
<1> QED BY <1>6, <1>7, <1>8 DEF Listed

\* The requests a task may go on with.
LEMMA RequestType ==
  ASSUME Scalars, NEW g \in TaskType, NEW srv \in Servers, NEW tok \in Servers \union {None},
         NEW c \in 0..MaxId
  PROVE  /\ \A b \in BOOLEAN, r \in BOOLEAN : SetupTask(r, b, tok, srv) \in TaskType
         /\ [g EXCEPT !.pc = "challenge", !.tok = None, !.asked = srv] \in TaskType
         /\ [g EXCEPT !.pc = "register", !.tok = tok, !.asked = srv] \in TaskType
         /\ [g EXCEPT !.pc = "pull", !.tok = tok, !.asked = srv, !.cursor = c] \in TaskType
         /\ [g EXCEPT !.pc = "backfill", !.tok = tok, !.asked = srv, !.cursor = c] \in TaskType
         /\ [g EXCEPT !.cursor = c, !.asked = srv, !.answered = FALSE, !.ok = FALSE,
                      !.rows = {}] \in TaskType
         /\ [g EXCEPT !.pc = "pulling"] \in TaskType
         /\ [Idle EXCEPT !.pc = "stats", !.boot = g.boot] \in TaskType
<1>1. \A b \in BOOLEAN, r \in BOOLEAN : SetupTask(r, b, tok, srv) \in TaskType
  BY IdleType
<1>2. /\ [g EXCEPT !.pc = "challenge", !.tok = None, !.asked = srv] \in TaskType
      /\ [g EXCEPT !.pc = "register", !.tok = tok, !.asked = srv] \in TaskType
  BY DEF TaskType, Auth
<1>3. /\ [g EXCEPT !.pc = "pull", !.tok = tok, !.asked = srv, !.cursor = c] \in TaskType
      /\ [g EXCEPT !.pc = "backfill", !.tok = tok, !.asked = srv, !.cursor = c] \in TaskType
  BY DEF TaskType, Waiting
<1>4. [g EXCEPT !.cursor = c, !.asked = srv, !.answered = FALSE, !.ok = FALSE,
                !.rows = {}] \in TaskType
  BY DEF TaskType
<1>5. [g EXCEPT !.pc = "pulling"] \in TaskType
  BY DEF TaskType
<1>6. [Idle EXCEPT !.pc = "stats", !.boot = g.boot] \in TaskType
  BY IdleType DEF TaskType
<1> QED BY <1>1, <1>2, <1>3, <1>4, <1>5, <1>6

\* A task goes on as k, and the library is kept, dropped, or an answer merged.
LEMMA ListStep ==
  ASSUME ListInv, Scalars', NEW t \in Tasks, NEW k \in TaskType, Continue(t, k),
         k.pc \in Auth \union Waiting => k.asked \in Servers,
         \/ UNCHANGED <<library, libraryEntries>>
         \/ library' = {} /\ libraryEntries' = <<>>
         \/ \E rows \in SUBSET Rows, srv \in Servers :
              MergeEach(rows, srv) \/ MergeEntries(rows, srv)
  PROVE  ListInv'
<1>1. Tasked'
  BY TaskedStep DEF ListInv
<1>2. Listed'
  BY ListedStep, MergeListed DEF ListInv
<1> QED BY <1>1, <1>2 DEF ListInv

LEMMA UserList ==
  ASSUME ListInv, NEW t \in Tasks, NEW srv \in Servers,
         SaveServer(t, srv) \/ Reregister(t) \/ Reload
  PROVE  ListInv'
<1>0. /\ Scalars /\ Idle \in TaskType /\ Idle.pc = "idle"
      /\ "idle" \notin Auth \union Waiting /\ None \in Servers \union {None}
      /\ MaxId \in Nat /\ MaxActs \in Nat /\ 0 \in 0..MaxId
  BY IdleType, InboxAssumption DEF ListInv, Idle, Auth, Waiting
<1>1. \A tok \in Servers \union {None}, s \in Servers, b \in BOOLEAN, r \in BOOLEAN :
        SetupTask(r, b, tok, s) \in TaskType /\ SetupTask(r, b, tok, s).asked = s
  <2>1. \A tok, s, b, r : SetupTask(r, b, tok, s).asked = s
    BY DEF SetupTask, Idle
  <2> QED BY <2>1, IdleType
\* The user's actions are counted.
<1>2. ASSUME acts < MaxActs, acts' = acts + 1 PROVE acts' \in 0..MaxActs
  BY <1>0, <1>2 DEF Scalars
<1>3. CASE SaveServer(t, srv)
  <2> DEFINE k == SetupTask(TRUE, FALSE, token', srv)
  <2>1. Continue(t, k) /\ token' \in Servers \union {None} /\ UNCHANGED <<library, libraryEntries>>
    BY <1>0, <1>3 DEF SaveServer, Scalars, lib
  <2>2. k \in TaskType /\ k.asked \in Servers
    BY <1>1, <2>1
  <2>3. Scalars'
    <3>1. acts' \in 0..MaxActs
      BY <1>2, <1>3 DEF SaveServer, MayAct
    <3>2. /\ url' \in Servers /\ token' \in Servers \union {None}
          /\ UNCHANGED <<box, last, lastMsgId, didFullBackfill, page, faults>>
          /\ linked' = FALSE
      BY <1>0, <1>3, <2>1 DEF SaveServer, Scalars, servers, lib
    <3> QED BY <1>0, <3>1, <3>2 DEF Scalars
  <2> HIDE DEF k
  <2> QED BY <2>1, <2>2, <2>3, ListStep
<1>4. CASE Reregister(t)
  <2> DEFINE k == SetupTask(TRUE, FALSE, None, url)
  <2>1. Continue(t, k) /\ UNCHANGED <<library, libraryEntries>> /\ url \in Servers
    BY <1>0, <1>4 DEF Reregister, Scalars, lib
  <2>2. k \in TaskType /\ k.asked \in Servers
    BY <1>0, <1>1, <2>1
  <2>3. Scalars'
    <3>1. acts' \in 0..MaxActs
      BY <1>2, <1>4 DEF Reregister, MayAct
    <3>2. /\ url' \in Servers /\ token' \in Servers \union {None}
          /\ UNCHANGED <<box, last, lastMsgId, didFullBackfill, page, faults>>
          /\ linked' = FALSE
      BY <1>0, <1>4 DEF Reregister, Scalars, servers, lib
    <3> QED BY <1>0, <3>1, <3>2 DEF Scalars
  <2> HIDE DEF k
  <2> QED BY <2>1, <2>2, <2>3, ListStep
<1>5. CASE Reload
  <2> DEFINE k == SetupTask(FALSE, TRUE, token, url)
  <2>1. url \in Servers /\ token \in Servers \union {None}
    BY <1>0 DEF Scalars
  <2>2. k \in TaskType /\ k.asked \in Servers
    BY <1>1, <2>1
  <2> HIDE DEF k
  <2>3. task' = [u \in Tasks |-> IF u = First THEN k ELSE Idle]
    BY <1>5 DEF Reload, k
  <2>4. Tasked'
    <3>1. task' \in [Tasks -> TaskType] /\ \A u \in Tasks : task'[u] = k \/ task'[u] = Idle
      BY <1>0, <2>2, <2>3
    <3> QED BY <1>0, <2>2, <3>1 DEF Tasked
  <2>5. Scalars'
    <3>1. acts' \in 0..MaxActs
      BY <1>5, <1>2 DEF Reload
    <3>2. /\ UNCHANGED <<box, last, url, token, faults>>
          /\ lastMsgId' = 0 /\ didFullBackfill' = FALSE
          /\ page' = "booting" /\ linked' = FALSE
      BY <1>5 DEF Reload, ResetLibrary, servers, storage
    <3> QED BY <1>0, <3>1, <3>2 DEF Scalars
  <2>6. Listed'
    BY <1>5, ListedStep DEF Reload, ResetLibrary, ListInv
  <2> QED BY <2>4, <2>5, <2>6 DEF ListInv
<1> QED BY <1>3, <1>4, <1>5

LEMMA SetupList ==
  ASSUME ListInv, NEW t \in Tasks,
         \/ VerifyOk(t) \/ VerifyRefused(t) \/ ChallengeOk(t)
         \/ RegisterOk(t) \/ RegisterRefused(t)
  PROVE  ListInv'
<1>0. /\ Scalars /\ task[t] \in TaskType /\ Idle \in TaskType /\ Idle.pc = "idle"
      /\ "idle" \notin Auth \union Waiting /\ "stats" \notin Auth \union Waiting
      /\ 0 \in 0..MaxId /\ url \in Servers /\ None \in Servers \union {None}
      /\ MaxFaults \in Nat /\ task[t].tok \in Servers \union {None}
      /\ task[t].boot \in BOOLEAN
  BY IdleType, InboxAssumption
     DEF ListInv, Scalars, Tasked, TaskType, Idle, Auth, Waiting
<1> DEFINE stats == [Idle EXCEPT !.pc = "stats", !.boot = task[t].boot]
<1>1. stats \in TaskType /\ stats.pc = "stats"
  BY <1>0, RequestType DEF Idle
<1> HIDE DEF stats
<1>2. CASE VerifyOk(t)
  <2>1. /\ Continue(t, stats)
        /\ UNCHANGED <<library, libraryEntries>> \/ (library' = {} /\ libraryEntries' = <<>>)
    BY <1>2 DEF VerifyOk, SetupGoesOn, ResetLibrary, lib, stats
  <2>2. Scalars'
    BY <1>0, <1>2 DEF VerifyOk, SetupGoesOn, ResetLibrary, lib, Scalars, servers, storage, bounds
  <2> QED BY <1>0, <1>1, <2>1, <2>2, ListStep
<1>3. CASE VerifyRefused(t)
  <2> DEFINE k == [task[t] EXCEPT !.pc = "challenge", !.tok = None, !.asked = url]
  <2>1. Continue(t, k) /\ UNCHANGED <<library, libraryEntries>>
    BY <1>3 DEF VerifyRefused, lib
  <2>2. k \in TaskType
    BY <1>0, RequestType
  <2>4. k.asked = url
    BY <1>0 DEF TaskType
  <2>3. Scalars'
    BY <1>0, <1>3 DEF VerifyRefused, Fault, lib, Scalars, servers
  <2> HIDE DEF k
  <2> QED BY <1>0, <2>1, <2>2, <2>3, <2>4, ListStep
<1>4. CASE ChallengeOk(t)
  <2> DEFINE k == [task[t] EXCEPT !.pc = "register", !.tok = task[t].asked, !.asked = url]
  <2>0. task[t].asked \in Servers \union {None}
    BY <1>0 DEF TaskType
  <2>1. Continue(t, k) /\ UNCHANGED <<library, libraryEntries>>
    BY <1>4 DEF ChallengeOk, lib
  <2>2. k \in TaskType
    BY <1>0, <2>0, RequestType
  <2>4. k.asked = url
    BY <1>0 DEF TaskType
  <2>3. Scalars'
    BY <1>0, <1>4 DEF ChallengeOk, lib, Scalars, servers, storage, bounds
  <2> HIDE DEF k
  <2> QED BY <1>0, <2>1, <2>2, <2>3, <2>4, ListStep
<1>5. CASE RegisterOk(t)
  <2>1. /\ Continue(t, stats)
        /\ UNCHANGED <<library, libraryEntries>> \/ (library' = {} /\ libraryEntries' = <<>>)
    BY <1>5 DEF RegisterOk, SetupGoesOn, ResetLibrary, lib, stats
  <2>2. task[t].asked \in Servers
    BY <1>5 DEF RegisterOk, ListInv, Tasked, Auth
  <2>3. Scalars'
    BY <1>0, <1>5, <2>2 DEF RegisterOk, SetupGoesOn, ResetLibrary, lib, Scalars, servers, bounds
  <2> QED BY <1>0, <1>1, <2>1, <2>3, ListStep
<1>6. CASE RegisterRefused(t)
  <2>1. Continue(t, Idle) /\ UNCHANGED <<library, libraryEntries>>
    BY <1>6 DEF RegisterRefused, lib
  <2>2. Scalars'
    BY <1>0, <1>6 DEF RegisterRefused, Booted, Fault, lib, Scalars, servers, storage
  <2> QED BY <1>0, <2>1, <2>2, ListStep
<1> QED BY <1>2, <1>3, <1>4, <1>5, <1>6

\* A refresh starts with the token and the server of this moment.
LEMMA RefreshTaskType ==
  ASSUME Scalars, NEW k \in TaskType
  PROVE  /\ RefreshTask(k) \in TaskType
         /\ RefreshTask(k).pc \in Auth \union Waiting => RefreshTask(k).asked \in Servers
<1>0. /\ url \in Servers /\ token \in Servers \union {None} /\ 0 \in 0..MaxId
      /\ "pulling" \notin Auth \union Waiting
  BY InboxAssumption DEF Scalars, Auth, Waiting
<1> DEFINE p == [k EXCEPT !.pc = "pulling"]
           b == [k EXCEPT !.pc = "backfill", !.tok = token, !.asked = url, !.cursor = 0]
<1>1. p \in TaskType /\ b \in TaskType
  BY <1>0, RequestType
<1>2. p.pc = "pulling" /\ b.asked = url
  BY DEF TaskType
<1>3. RefreshTask(k) = p \/ RefreshTask(k) = b
  BY DEF RefreshTask
<1> HIDE DEF p, b
<1> QED BY <1>0, <1>1, <1>2, <1>3

LEMMA RefreshList ==
  ASSUME ListInv, NEW t \in Tasks,
         \/ StatsDone(t) \/ RefreshStart(t) \/ Serve(t) \/ ServeFault(t)
         \/ PullSend(t) \/ PullSkip(t) \/ NetworkError(t)
  PROVE  ListInv'
<1>0. /\ Scalars /\ task[t] \in TaskType /\ Idle \in TaskType /\ Idle.pc = "idle"
      /\ "idle" \notin Auth \union Waiting
      /\ url \in Servers /\ token \in Servers \union {None} /\ lastMsgId \in 0..MaxId
      /\ MaxFaults \in Nat
      /\ task[t].pc \in Auth \union Waiting => task[t].asked \in Servers
      /\ UNCHANGED <<library, libraryEntries>>
  BY IdleType, InboxAssumption
     DEF ListInv, Scalars, Tasked, Idle, Auth, Waiting, lib, StatsDone, RefreshStart,
         Serve, ServeFault, PullSend, PullSkip, NetworkError
<1>1. Scalars'
  <2> USE <1>0 DEF Scalars, lib, servers, storage, bounds, Fault, Booted
  <2>1. CASE StatsDone(t)
    BY <2>1 DEF StatsDone
  <2>2. CASE RefreshStart(t) \/ Serve(t) \/ PullSend(t)
    BY <2>2 DEF RefreshStart, Serve, PullSend
  <2>3. CASE ServeFault(t)
    BY <2>3 DEF ServeFault
  <2>4. CASE PullSkip(t)
    BY <2>4 DEF PullSkip
  <2>5. CASE NetworkError(t)
    BY <2>5 DEF NetworkError
  <2> QED BY <2>1, <2>2, <2>3, <2>4, <2>5
<1>2. CASE StatsDone(t)
  <2>1. [Idle EXCEPT !.boot = task[t].boot] \in TaskType
    BY <1>0, GoesOnType
  <2>2. Continue(t, RefreshTask([Idle EXCEPT !.boot = task[t].boot]))
    BY <1>2 DEF StatsDone
  <2> QED BY <1>0, <1>1, <2>1, <2>2, RefreshTaskType, ListStep
<1>3. CASE RefreshStart(t)
  <2>1. Continue(t, RefreshTask(Idle))
    BY <1>3 DEF RefreshStart
  <2> QED BY <1>0, <1>1, <2>1, RefreshTaskType, ListStep
<1>4. CASE Serve(t)
  <2> DEFINE valid == task[t].tok = task[t].asked
             rows == IF valid THEN Page(box[task[t].asked], Me, task[t].cursor, Batch) ELSE {}
             k == [task[t] EXCEPT !.answered = TRUE, !.ok = valid, !.rows = rows]
  <2>1. Continue(t, k) /\ task[t].asked \in Servers
    BY <1>0, <1>4 DEF Serve, Waiting
  <2>2. rows \in SUBSET Rows /\ valid \in BOOLEAN
    <3>1. box[task[t].asked] \in SUBSET Rows
      BY <1>0, <2>1 DEF Scalars
    <3> QED BY <3>1 DEF Page, Matching
  <2> HIDE DEF rows, valid
  <2>3. k \in TaskType /\ k.asked = task[t].asked
    BY <1>0, <2>2 DEF TaskType
  <2> HIDE DEF k
  <2> QED BY <1>0, <1>1, <2>1, <2>3, ListStep
<1>5. CASE ServeFault(t)
  <2> DEFINE k == [task[t] EXCEPT !.answered = TRUE]
  <2>1. Continue(t, k) /\ task[t].asked \in Servers
    BY <1>0, <1>5 DEF ServeFault, Waiting
  <2>2. k \in TaskType /\ k.asked = task[t].asked
    BY <1>0 DEF TaskType
  <2> HIDE DEF k
  <2> QED BY <1>0, <1>1, <2>1, <2>2, ListStep
<1>6. CASE PullSend(t)
  <2> DEFINE k == [task[t] EXCEPT !.pc = "pull", !.tok = token, !.asked = url,
                                  !.cursor = lastMsgId]
  <2>1. Continue(t, k)
    BY <1>6 DEF PullSend
  <2>2. k \in TaskType
    BY <1>0, RequestType
  <2>3. k.asked = url
    BY <1>0 DEF TaskType
  <2> HIDE DEF k
  <2> QED BY <1>0, <1>1, <2>1, <2>2, <2>3, ListStep
<1>7. CASE PullSkip(t) \/ NetworkError(t)
  <2>1. Continue(t, Idle)
    BY <1>7 DEF PullSkip, NetworkError
  <2> QED BY <1>0, <1>1, <2>1, ListStep
<1> QED BY <1>2, <1>3, <1>4, <1>5, <1>6, <1>7

LEMMA MergeList ==
  ASSUME ListInv, NEW t \in Tasks, BackfillPage(t) \/ BackfillStop(t) \/ PullDone(t)
  PROVE  ListInv'
<1>0. /\ Scalars /\ task[t] \in TaskType /\ task[t].pc \in Waiting
      /\ task[t].asked \in Servers /\ task[t].rows \in SUBSET Rows
      /\ url \in Servers /\ lastMsgId \in 0..MaxId /\ 0 \in 0..MaxId
      /\ Idle \in TaskType /\ Idle.pc = "idle"
      /\ "idle" \notin Auth \union Waiting /\ "pulling" \notin Auth \union Waiting
  BY IdleType, InboxAssumption
     DEF ListInv, Scalars, Tasked, TaskType, Idle, Auth, Waiting, BackfillPage, BackfillStop,
         PullDone
<1> DEFINE done == [Idle EXCEPT !.pc = "pulling", !.boot = task[t].boot]
<1>1. done \in TaskType /\ done.pc = "pulling"
  BY <1>0, GoesOnType
<1> HIDE DEF done
<1>2. CASE BackfillPage(t)
  <2> DEFINE rows == task[t].rows
             more == [task[t] EXCEPT !.cursor = Top(IdsOf(rows), 0), !.asked = url,
                        !.answered = FALSE, !.ok = FALSE, !.rows = {}]
  <2>1. /\ MergeEntries(rows, task[t].asked)
        /\ Continue(t, more) \/ Continue(t, done)
    BY <1>2 DEF BackfillPage, BackfillEnds, done
  <2>2. Top(IdsOf(rows), 0) \in 0..MaxId /\ Top(IdsOf(rows), lastMsgId) \in 0..MaxId
    BY <1>0, TopIs
  <2>3. Scalars'
    BY <1>0, <1>2, <2>2 DEF BackfillPage, BackfillEnds, Scalars, servers, storage, bounds
  <2>4. more \in TaskType
    BY <1>0, <2>2, RequestType
  <2>5. more.asked = url
    BY <1>0 DEF TaskType
  <2> HIDE DEF more, rows
  <2>6. \E rs \in SUBSET Rows, srv \in Servers : MergeEach(rs, srv) \/ MergeEntries(rs, srv)
    BY <1>0, <2>1 DEF rows
  <2>7. CASE Continue(t, more)
    BY <1>0, <2>3, <2>4, <2>5, <2>6, <2>7, ListStep
  <2>8. CASE Continue(t, done)
    BY <1>0, <1>1, <2>3, <2>6, <2>8, ListStep
  <2> QED BY <2>1, <2>7, <2>8
<1>3. CASE BackfillStop(t)
  <2>1. Continue(t, done) /\ UNCHANGED <<library, libraryEntries>>
    BY <1>3 DEF BackfillStop, BackfillEnds, done
  <2>2. Scalars'
    BY <1>0, <1>3 DEF BackfillStop, BackfillEnds, Scalars, servers, storage, bounds
  <2> QED BY <1>0, <1>1, <2>1, <2>2, ListStep
<1>4. CASE PullDone(t)
  <2> DEFINE fresh == {r \in task[t].rows : r.id > lastMsgId}
  <2>1. /\ MergeEach(fresh, task[t].asked) /\ Continue(t, Idle)
        /\ fresh \in SUBSET Rows
    BY <1>0, <1>4 DEF PullDone
  <2>2. lastMsgId' = Top(IdsOf(fresh), lastMsgId)
    BY <1>4 DEF PullDone
  <2> HIDE DEF fresh
  <2>3. lastMsgId' \in 0..MaxId
    BY <1>0, <2>1, <2>2, TopIs
  <2>4. Scalars'
    BY <1>0, <1>4, <2>3 DEF PullDone, Booted, Scalars, servers, storage, bounds
  <2>5. \E rs \in SUBSET Rows, srv \in Servers : MergeEach(rs, srv) \/ MergeEntries(rs, srv)
    BY <1>0, <2>1
  <2> QED BY <1>0, <2>1, <2>4, <2>5, ListStep
<1> QED BY <1>2, <1>3, <1>4

LEMMA ServerList ==
  ASSUME ListInv, NEW s \in Servers,
         Deliver(s) \/ \E r \in box[s] : Expire(s, r)
  PROVE  ListInv'
<1>0. /\ Scalars /\ MaxId \in Nat /\ last[s] \in 0..MaxId /\ box[s] \in SUBSET Rows
      /\ UNCHANGED <<url, token, lastMsgId, library, libraryEntries, didFullBackfill, page,
                     linked, task, acts, faults>>
  BY InboxAssumption DEF ListInv, Scalars, Deliver, Expire, storage, lib, bounds
<1>1. box' \in [Servers -> SUBSET Rows] /\ last' \in [Servers -> 0..MaxId]
  <2>1. CASE Deliver(s)
    <3> DEFINE new == [id |-> last[s] + 1, to |-> Me]
    <3>1. new \in Rows /\ last[s] + 1 \in 0..MaxId
      BY <1>0, <2>1 DEF Deliver, Rows
    <3>2. /\ last' = [last EXCEPT ![s] = last[s] + 1]
          /\ box' = [box EXCEPT ![s] = box[s] \union {new}]
      BY <2>1 DEF Deliver
    <3> HIDE DEF new
    <3> QED BY <1>0, <3>1, <3>2 DEF Scalars
  <2>2. ASSUME NEW r \in box[s], Expire(s, r)
        PROVE  box' \in [Servers -> SUBSET Rows] /\ last' \in [Servers -> 0..MaxId]
    BY <1>0, <2>2 DEF Expire, Scalars
  <2> QED BY <2>1, <2>2
<1>2. Scalars'
  BY <1>0, <1>1 DEF Scalars
<1>3. Tasked'
  BY <1>0 DEF ListInv, Tasked
<1>4. Listed'
  BY <1>0, ListedStep DEF ListInv
<1> QED BY <1>2, <1>3, <1>4 DEF ListInv

-----------------------------------------------------------------------------
(* The theorems                                                            *)

LEMMA SyncInit == Init => SyncInv
<1> SUFFICES ASSUME Init PROVE SyncInv
  OBVIOUS
<1> DEFINE k == SetupTask(FALSE, TRUE, token, Home)
<1>0. /\ Home \in Servers /\ MaxId \in Nat /\ First \in Tasks /\ token \in {None, Home}
      /\ box = [s \in Servers |-> {}] /\ last = [s \in Servers |-> 0]
      /\ url = Home /\ lastMsgId = 0 /\ library = {}
      /\ task = [t \in Tasks |-> IF t = First THEN k ELSE Idle]
  BY InboxAssumption DEF Init, First
<1>1. /\ k \in TaskType
      /\ k.pc \in {"challenge", "verify"} /\ k.asked = Home /\ k.rows = {}
  <2>1. TRUE \in BOOLEAN /\ FALSE \in BOOLEAN /\ token \in Servers \union {None}
    BY <1>0
  <2>2. k \in TaskType
    BY <1>0, <2>1, IdleType, Zenon
  <2>3. k.pc \in {"challenge", "verify"} /\ k.asked = Home /\ k.rows = {}
    BY DEF SetupTask, Idle
  <2> QED BY <2>2, <2>3
<1> HIDE DEF k
<1>2. Idle \in TaskType /\ Idle.pc = "idle"
  BY IdleType DEF Idle
<1>3. /\ task[First] = k /\ \A u \in Tasks \ {First} : task[u].pc = "idle"
      /\ task \in [Tasks -> TaskType]
  BY <1>0, <1>1, <1>2
<1>4. "idle" \notin Auth \union Waiting /\ k.pc \notin Waiting \union {"pulling"}
  BY <1>1 DEF Auth, Waiting
<1>5. Typed
  BY <1>0, <1>3 DEF Typed
<1>6. Numbered /\ InStep
  BY <1>0 DEF Numbered, InStep, Covered, Holds
<1>7. Alone /\ Current /\ Reading /\ Fresh
  BY <1>0, <1>1, <1>3, <1>4 DEF Alone, Current, Reading, Fresh
<1> QED BY <1>5, <1>6, <1>7 DEF SyncInv

LEMMA SyncStep == ASSUME ~Overlap PROVE SyncInv /\ [Next]_vars => SyncInv'
<1> SUFFICES ASSUME SyncInv, [Next]_vars PROVE SyncInv'
  OBVIOUS
<1>1. ASSUME NEW t \in Tasks, ClientStep(t) PROVE SyncInv'
  BY <1>1, SetupSteps, QuietSetupSteps, AnswerSteps, RefreshSteps, MergeSteps DEF ClientStep
<1>2. ASSUME NEW t \in Tasks, NEW s \in Servers, SaveServer(t, s) \/ Reregister(t) \/ Reload
      PROVE  SyncInv'
  BY <1>2, UserSteps
<1>3. ASSUME NEW t \in Tasks, RefreshStart(t) PROVE SyncInv'
  BY <1>3, RefreshStartStep
<1>4. ASSUME NEW s \in Servers, Deliver(s) \/ \E r \in box[s] : Expire(s, r) PROVE SyncInv'
  BY <1>4, ServerSteps
<1>5. CASE UNCHANGED vars
  BY <1>5 DEF vars, servers, storage, lib, SyncInv, Typed, Numbered, Alone, Current,
     Reading, Fresh, InStep, Covered, Holds, Dense
<1>6. Home \in Servers /\ First \in Tasks
  BY InboxAssumption DEF First
<1> QED BY <1>1, <1>2, <1>3, <1>4, <1>5, <1>6 DEF Next

\* The inductive invariant, for a user who changes the session only while the
\* tab is quiet.
THEOREM InboxInvariant == ASSUME ~Overlap PROVE Spec => []SyncInv
<1>1. Init => SyncInv
  BY SyncInit
<1>2. SyncInv /\ [Next]_vars => SyncInv'
  BY SyncStep
<1> QED BY <1>1, <1>2, PTL DEF Spec

\* Pages, pulls, failures, expiry and hints may be interleaved in any way: what
\* the configured server stores up to lastMsgId, above which the next
\* pullNewMessages starts, is in the library.
THEOREM NothingSkipped == ASSUME ~Overlap PROVE Spec => []NoGap
<1>1. SyncInv => NoGap
  <2> SUFFICES ASSUME SyncInv, Settled,
                      NEW r \in box[url], r.to = Me, r.id <= lastMsgId
               PROVE  [id |-> r.id, srv |-> url] \in library
    BY DEF NoGap
  <2>1. token # None
    BY InboxAssumption DEF Settled, SyncInv, Typed
  <2> QED BY <2>1 DEF SyncInv, InStep, Covered, Holds
<1> QED BY <1>1, InboxInvariant, PTL

\* In a settled session every library entry came from the configured server:
\* saveServer, re-registration and reloads leave nothing of another one, whose
\* ids mean something else.
THEOREM OneServer == ASSUME ~Overlap PROVE Spec => []OneServerLibrary
<1>1. SyncInv => OneServerLibrary
  BY InboxAssumption DEF SyncInv, Typed, InStep, OneServerLibrary, Settled
<1> QED BY <1>1, InboxInvariant, PTL

LEMMA ListInit == Init => ListInv
<1> SUFFICES ASSUME Init PROVE ListInv
  OBVIOUS
<1> DEFINE k == SetupTask(FALSE, TRUE, token, Home)
<1>0. /\ Home \in Servers /\ 0 \in 0..MaxId /\ 0 \in 0..MaxActs /\ 0 \in 0..MaxFaults
      /\ token \in Servers \union {None}
      /\ Idle \in TaskType /\ Idle.pc = "idle" /\ "idle" \notin Auth \union Waiting
  BY IdleType, InboxAssumption DEF Init, Idle, Auth, Waiting
<1>1. k \in TaskType /\ k.asked \in Servers
  <2>1. k \in TaskType
    BY <1>0, IdleType
  <2>2. k.asked = Home
    BY DEF SetupTask, Idle
  <2> QED BY <1>0, <2>1, <2>2
<1> HIDE DEF k
<1>2. Scalars
  BY <1>0 DEF Init, Scalars
<1>3. Tasked
  <2>1. task = [t \in Tasks |-> IF t = First THEN k ELSE Idle]
    BY DEF Init, k
  <2> QED BY <1>0, <1>1, <2>1 DEF Tasked
<1>4. Listed
  <2>1. library = {} /\ libraryEntries = <<>>
    BY DEF Init
  <2> QED BY <2>1 DEF Listed, OneEach, Descending, ToSet
<1> QED BY <1>2, <1>3, <1>4 DEF ListInv

LEMMA ListNext == ListInv /\ [Next]_vars => ListInv'
<1> SUFFICES ASSUME ListInv, [Next]_vars PROVE ListInv'
  OBVIOUS
<1>1. ASSUME NEW t \in Tasks, ClientStep(t) PROVE ListInv'
  BY <1>1, SetupList, RefreshList, MergeList DEF ClientStep
<1>2. ASSUME NEW t \in Tasks, NEW s \in Servers, SaveServer(t, s) \/ Reregister(t) \/ Reload
      PROVE  ListInv'
  BY <1>2, UserList
<1>3. ASSUME NEW t \in Tasks, RefreshStart(t) PROVE ListInv'
  BY <1>3, RefreshList
<1>4. ASSUME NEW s \in Servers, Deliver(s) \/ \E r \in box[s] : Expire(s, r) PROVE ListInv'
  BY <1>4, ServerList
<1>5. CASE UNCHANGED vars
  <2>1. Listed'
    BY <1>5, ListedStep DEF vars, lib, ListInv
  <2>2. Scalars' /\ Tasked'
    BY <1>5 DEF vars, servers, storage, lib, bounds, ListInv, Scalars, Tasked
  <2> QED BY <2>1, <2>2 DEF ListInv
<1>6. Home \in Servers /\ First \in Tasks
  BY InboxAssumption DEF First
<1> QED BY <1>1, <1>2, <1>3, <1>4, <1>5, <1>6 DEF Next

\* The inductive invariant of the list, whatever the user does.
THEOREM ListInvariant == Spec => []ListInv
<1>1. Init => ListInv
  BY ListInit
<1>2. ListInv /\ [Next]_vars => ListInv'
  BY ListNext
<1> QED BY <1>1, <1>2, PTL DEF Spec

\* Every variable keeps its type, and an id is in libraryById once.
THEOREM TypeCorrect == Spec => []TypeOK
<1>1. ListInv => TypeOK
  BY DEF ListInv, Scalars, Tasked, TaskType, Rows, Listed, OneEach, TypeOK
<1> QED BY <1>1, ListInvariant, PTL

\* The list the user sees holds exactly what libraryById holds, newest first:
\* mergeLibraryEntry always searches a sorted list, whichever of single inserts
\* and bulk sorts, resets and reloads came before.
THEOREM ListOrdered == Spec => []LibraryOrdered
<1>1. ListInv => LibraryOrdered
  BY DEF ListInv, Listed, ToSet, LibraryOrdered
<1> QED BY <1>1, ListInvariant, PTL
=============================================================================
