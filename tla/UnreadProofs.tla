---------------------------- MODULE UnreadProofs -----------------------------
(***************************************************************************)
(* Threads and unread dots for any number of tabs, senders and messages:   *)
(* mail that was never rendered does not count as read, the dots are those *)
(* of the unread threads, and no cursor goes back.                         *)
(***************************************************************************)
EXTENDS Unread, FiniteSetTheorems, SequenceTheorems, TLAPS

-----------------------------------------------------------------------------
(* Sets of numbers, and sequences made of them (as in NotificationsProofs) *)

\* A finite set of numbers has a greatest one: of the sets of what is greater
\* than one of them, take one with no smaller such set.
LEMMA MaxExists ==
  ASSUME NEW S \in SUBSET Nat, IsFiniteSet(S), S # {}
  PROVE  \E i \in S : \A j \in S : j <= i
<1> DEFINE Above(i) == {j \in S : j > i}
           T == {Above(i) : i \in S}
<1>1. T # {} /\ T \subseteq FiniteSubsetsOf(S)
  <2>1. \A i \in S : Above(i) \in SUBSET S /\ IsFiniteSet(Above(i))
    BY FS_Subset
  <2> QED BY <2>1 DEF FiniteSubsetsOf
<1>2. PICK x \in T : \A y \in T : <<y, x>> \notin StrictSubsetOrdering(S)
  BY <1>1, FS_StrictSubsetOrderingWellFounded, WFMin
<1>3. PICK i \in S : x = Above(i)
  OBVIOUS
<1>4. ASSUME NEW j \in S, j > i PROVE FALSE
  <2>0. i \in Nat /\ j \in Nat /\ \A k \in S : k \in Nat
    OBVIOUS
  <2>1. Above(j) \in T /\ Above(j) \subseteq Above(i) /\ j \in Above(i) /\ j \notin Above(j)
    <3>1. \A k \in Above(j) : k \in Above(i)
      BY <1>4, <2>0
    <3>2. j \in Above(i) /\ j \notin Above(j)
      BY <1>4, <2>0
    <3>3. Above(j) \in T
      OBVIOUS
    <3> QED BY <3>1, <3>2, <3>3
  <2>2. Above(j) \subseteq S /\ Above(i) \subseteq S /\ Above(j) # Above(i)
    BY <2>1
  <2>3. <<Above(j), Above(i)>> \in StrictSubsetOrdering(S)
    BY <2>1, <2>2 DEF StrictSubsetOrdering
  <2> QED BY <1>2, <1>3, <2>1, <2>3
<1> QED BY <1>4

\* The places of a finite set are its elements in ascending order: such a
\* sequence exists, for the rank of an element is one to one.
LEMMA AscendingIs ==
  ASSUME NEW S \in SUBSET Nat, IsFiniteSet(S)
  PROVE  /\ Cardinality(S) \in Nat
         /\ Ascending(S) \in [1..Cardinality(S) -> S]
         /\ \A i, j \in 1..Cardinality(S) : i < j => Ascending(S)[i] < Ascending(S)[j]
         /\ \A x \in S : \E i \in 1..Cardinality(S) : Ascending(S)[i] = x
<1> DEFINE n == Cardinality(S)
           UpTo(x) == {y \in S : y <= x}
           rank == [x \in S |-> Cardinality(UpTo(x))]
<1>0. n \in Nat /\ \A x \in S : x \in Nat
  BY FS_CardinalityType
<1>1. \A x \in S : IsFiniteSet(UpTo(x)) /\ Cardinality(UpTo(x)) \in 1..n
  <2> SUFFICES ASSUME NEW x \in S
               PROVE  IsFiniteSet(UpTo(x)) /\ Cardinality(UpTo(x)) \in 1..n
    OBVIOUS
  <2>1. IsFiniteSet(UpTo(x)) /\ Cardinality(UpTo(x)) <= n
    BY FS_Subset
  <2>2. Cardinality(UpTo(x)) \in Nat
    BY <2>1, FS_CardinalityType
  <2>3. UpTo(x) # {}
    BY <1>0
  <2>4. Cardinality(UpTo(x)) # 0
    BY <2>1, <2>3, FS_EmptySet
  <2> QED BY <1>0, <2>1, <2>2, <2>4
<1>2. \A x, y \in S : x < y => rank[x] < rank[y]
  <2> SUFFICES ASSUME NEW x \in S, NEW y \in S, x < y
               PROVE  Cardinality(UpTo(x)) < Cardinality(UpTo(y))
    OBVIOUS
  <2>1. UpTo(x) \subseteq UpTo(y) /\ y \in UpTo(y) /\ y \notin UpTo(x)
    <3>1. x \in Nat /\ y \in Nat
      BY <1>0
    <3>2. y <= y /\ ~(y <= x)
      BY <3>1
    <3>3. ASSUME NEW z \in S, z <= x PROVE z <= y
      <4>1. z \in Nat
        BY <1>0
      <4> QED BY <3>1, <3>3, <4>1
    <3> QED BY <3>2, <3>3
  <2>2. /\ Cardinality(UpTo(x)) <= Cardinality(UpTo(y))
        /\ Cardinality(UpTo(x)) # Cardinality(UpTo(y))
    BY <1>1, <2>1, FS_Subset
  <2>3. Cardinality(UpTo(x)) \in Nat /\ Cardinality(UpTo(y)) \in Nat
    BY <1>1, <1>0
  <2> QED BY <2>2, <2>3
<1>3. rank \in [S -> 1..n]
  BY <1>1
<1> HIDE DEF rank
<1>4. \A x \in S : rank[x] \in Nat
  BY <1>0, <1>3
<1>5. \A x, y \in S : rank[x] = rank[y] => x = y
  BY <1>0, <1>2, <1>4
<1>6. IsFiniteSet(1..n) /\ Cardinality(1..n) = n
  BY <1>0, FS_Interval
<1>7. \A i \in 1..n : \E x \in S : rank[x] = i
  <2>1. rank \in Injection(S, 1..n)
    BY <1>3, <1>5 DEF Injection, IsInjective
  <2>2. rank \in Surjection(S, 1..n)
    BY <1>6, <2>1, FS_Injection
  <2> QED BY <2>2 DEF Surjection
<1> DEFINE at == [i \in 1..n |-> CHOOSE x \in S : rank[x] = i]
<1>8. at \in [1..n -> S] /\ \A i \in 1..n : rank[at[i]] = i
  BY <1>7
<1> HIDE DEF at
<1>9. \A i, j \in 1..n : i < j => at[i] < at[j]
  <2> SUFFICES ASSUME NEW i \in 1..n, NEW j \in 1..n, i < j PROVE at[i] < at[j]
    OBVIOUS
  <2>1. at[i] \in S /\ at[j] \in S /\ rank[at[i]] = i /\ rank[at[j]] = j
    BY <1>8
  <2>2. at[i] \in Nat /\ at[j] \in Nat
    BY <1>0, <2>1
  <2> QED BY <1>2, <2>1, <2>2
<1>10. DOMAIN at = 1..n
  BY <1>8
<1>11. \E s \in [1..n -> S] : \A i, j \in DOMAIN s : i < j => s[i] < s[j]
  BY <1>8, <1>9, <1>10
<1>12. /\ Ascending(S) \in [1..n -> S]
       /\ \A i, j \in DOMAIN Ascending(S) : i < j => Ascending(S)[i] < Ascending(S)[j]
  BY <1>11 DEF Ascending
<1> DEFINE s == Ascending(S)
<1> HIDE DEF s
<1>13. s \in [1..n -> S] /\ \A i, j \in 1..n : i < j => s[i] < s[j]
  BY <1>12 DEF s
<1>14. \A i, j \in 1..n : s[i] = s[j] => i = j
  <2> SUFFICES ASSUME NEW i \in 1..n, NEW j \in 1..n, s[i] = s[j] PROVE i = j
    OBVIOUS
  <2>1. s[i] \in Nat /\ s[j] \in Nat
    BY <1>0, <1>13
  <2>2. i \in Int /\ j \in Int
    BY <1>0
  <2> QED BY <1>13, <2>1, <2>2
<1>15. s \in Injection(1..n, S)
  BY <1>13, <1>14 DEF Injection, IsInjective
<1>16. s \in Surjection(1..n, S)
  BY <1>6, <1>15, FS_Injection
<1>17. \A x \in S : \E i \in 1..n : s[i] = x
  BY <1>16 DEF Surjection
<1> QED BY <1>0, <1>13, <1>17 DEF s

\* What is left of a queue is of the same kind, in the same order.
LEMMA KeepIs ==
  ASSUME NEW X, NEW queue \in Seq(X), NEW places \in SUBSET DOMAIN queue
  PROVE  LET at == Ascending(places)
             n == Cardinality(places)
         IN /\ Keep(queue, places) \in Seq(X) /\ Len(Keep(queue, places)) = n /\ n \in Nat
            /\ \A i \in 1..n : at[i] \in places /\ Keep(queue, places)[i] = queue[at[i]]
            /\ \A i, j \in 1..n : i < j => at[i] < at[j]
            /\ \A k \in places : \E i \in 1..n : at[i] = k
<1>1. Len(queue) \in Nat /\ DOMAIN queue = 1..Len(queue) /\ queue \in [1..Len(queue) -> X]
  BY LenProperties
<1>2. IsFiniteSet(places) /\ places \in SUBSET Nat
  <2>1. IsFiniteSet(1..Len(queue))
    BY <1>1, FS_Interval
  <2> QED BY <1>1, <2>1, FS_Subset
<1> DEFINE at == Ascending(places)
           n == Cardinality(places)
<1>3. /\ n \in Nat /\ at \in [1..n -> places]
      /\ \A i, j \in 1..n : i < j => at[i] < at[j]
      /\ \A k \in places : \E i \in 1..n : at[i] = k
  BY <1>2, AscendingIs
<1>4. Keep(queue, places) = [i \in 1..n |-> queue[at[i]]]
  BY DEF Keep
<1> HIDE DEF at, n
<1>5. \A i \in 1..n : queue[at[i]] \in X
  BY <1>1, <1>3
<1>6. Keep(queue, places) \in [1..n -> X]
  BY <1>4, <1>5
<1>7. Keep(queue, places) \in Seq(X) /\ Len(Keep(queue, places)) = n
  <2>1. Keep(queue, places) \in Seq(X)
    BY <1>3, <1>6, SeqDef
  <2>2. DOMAIN Keep(queue, places) = 1..n /\ Len(Keep(queue, places)) \in Nat
        /\ DOMAIN Keep(queue, places) = 1..Len(Keep(queue, places))
    BY <1>6, <2>1, LenProperties
  <2> QED BY <1>3, <2>1, <2>2
<1> QED BY <1>3, <1>4, <1>7 DEF at, n

LEMMA MaxOfTwo ==
  ASSUME NEW a \in Nat, NEW b \in Nat
  PROVE  Max({a, b}) \in {a, b} /\ Max({a, b}) >= a /\ Max({a, b}) >= b
<1>1. \E i \in {a, b} : \A j \in {a, b} : i >= j
  <2>1. CASE a >= b
    BY <2>1
  <2>2. CASE b >= a
    BY <2>2
  <2> QED BY <2>1, <2>2
<1> QED BY <1>1 DEF Max

-----------------------------------------------------------------------------
(* The inductive invariant                                                 *)

\* A page has loaded what is there, and cursors point at what is there.
Within(read) == \A p \in Peers : read[p] # None => read[p] <= Len(mail)

Loaded ==
  /\ Within(stored.read)
  /\ \A t \in Tabs : tab[t] # None => tab[t].lib <= Len(mail) /\ Within(tab[t].read)

\* The painted dots of page v are those of its unread threads, up to the one
\* of the active thread.
Dotted(messages, v) ==
  LET lr(p) == IF v.read[p] = None THEN 0 ELSE v.read[p]
      unread == {p \in ToSet(v.chats) : \E i \in 1..v.lib : messages[i] = p /\ i > lr(p)}
  IN unread \subseteq v.dots /\ v.dots \subseteq unread \union {v.active}

AllDotted ==
  \A t \in Tabs : tab[t] # None /\ tab[t].full /\ ~tab[t].late => Dotted(mail, tab[t])

\* What a cursor passed over was rendered or settled.
Backed(messages, past, read) ==
  \A i \in 1..Len(messages) :
    read[messages[i]] # None /\ i <= read[messages[i]] => i \in past

AllBacked ==
  /\ Backed(mail, rendered \union settled, stored.read)
  /\ \A t \in Tabs : tab[t] # None => Backed(mail, rendered \union settled, tab[t].read)

UnreadInv == TypeOK /\ Loaded /\ AllDotted /\ AllBacked

-----------------------------------------------------------------------------
(* Lists of threads                                                        *)

\* A thread that is closed leaves a list without it.
LEMMA KeptChats ==
  ASSUME NEW chats \in ChatLists, NEW p, NEW kept,
         kept = Keep(chats, {i \in DOMAIN chats : chats[i] # p})
  PROVE  kept \in ChatLists /\ \A q \in ToSet(chats) : q # p => q \in ToSet(kept)
<1> DEFINE places == {i \in DOMAIN chats : chats[i] # p}
           at == Ascending(places)
           n == Cardinality(places)
           new == Keep(chats, places)
<1>0. /\ chats \in Seq(Peers) /\ \A i, j \in DOMAIN chats : chats[i] = chats[j] => i = j
      /\ DOMAIN chats = 1..Len(chats) /\ Len(chats) \in Nat
  BY LenProperties DEF ChatLists, IsInjective
<1>1. /\ places \in SUBSET DOMAIN chats /\ kept = new
      /\ \A i \in DOMAIN chats : chats[i] # p => i \in places
  OBVIOUS
<1> HIDE DEF places
<1>3. /\ new \in Seq(Peers) /\ Len(new) = n /\ n \in Nat
      /\ \A i \in 1..n : at[i] \in places /\ new[i] = chats[at[i]]
      /\ \A i, j \in 1..n : i < j => at[i] < at[j]
      /\ \A k \in places : \E i \in 1..n : at[i] = k
  BY <1>0, <1>1, KeepIs
<1> HIDE DEF at, n, new
<1>4. DOMAIN new = 1..n
  BY <1>3, LenProperties
<1>5. IsInjective(new)
  <2> SUFFICES ASSUME NEW i \in 1..n, NEW j \in 1..n, new[i] = new[j] PROVE i = j
    BY <1>4 DEF IsInjective
  <2>0. at[i] \in DOMAIN chats /\ at[j] \in DOMAIN chats /\ chats[at[i]] = chats[at[j]]
    BY <1>1, <1>3
  <2>1. at[i] = at[j]
    BY <1>0, <2>0
  <2>3. at[i] \in Nat /\ at[j] \in Nat
    BY <1>0, <2>0
  <2>4. i \in Int /\ j \in Int
    BY <1>3
  <2> QED BY <1>3, <2>1, <2>3, <2>4
<1>6. ASSUME NEW q \in ToSet(chats), q # p PROVE q \in ToSet(new)
  <2>1. PICK k \in DOMAIN chats : chats[k] = q
    BY DEF ToSet
  <2>2. PICK i \in 1..n : at[i] = k
    BY <1>1, <1>3, <1>6, <2>1
  <2>3. i \in DOMAIN new /\ new[i] = q
    BY <1>3, <1>4, <2>1, <2>2
  <2> QED BY <2>3 DEF ToSet
<1> QED BY <1>1, <1>3, <1>5, <1>6 DEF ChatLists

\* New senders get one thread each, behind those that are there.
LEMMA WithChatsIs ==
  ASSUME NEW chats \in ChatLists, NEW senders \in Seq(Peers),
         NEW all, all = WithChats(chats, senders)
  PROVE  /\ all \in ChatLists
         /\ \A q \in ToSet(chats) : q \in ToSet(all)
         /\ \A i \in 1..Len(senders) : senders[i] \in ToSet(all)
<1> DEFINE places == {i \in DOMAIN senders :
                        /\ senders[i] \notin ToSet(chats)
                        /\ \A j \in 1..(i - 1) : senders[j] # senders[i]}
           at == Ascending(places)
           n == Cardinality(places)
           new == Keep(senders, places)
           k == Len(chats)
<1>0. /\ chats \in Seq(Peers) /\ k \in Nat /\ DOMAIN chats = 1..k
      /\ \A i, j \in DOMAIN chats : chats[i] = chats[j] => i = j
      /\ Len(senders) \in Nat /\ DOMAIN senders = 1..Len(senders)
  BY LenProperties DEF ChatLists, IsInjective
<1>1. /\ places \in SUBSET DOMAIN senders
      /\ \A i \in places : senders[i] \notin ToSet(chats)
      /\ \A i \in places : \A j \in 1..(i - 1) : senders[j] # senders[i]
      /\ \A i \in DOMAIN senders :
           \/ i \in places \/ senders[i] \in ToSet(chats)
           \/ \E j \in 1..(i - 1) : senders[j] = senders[i]
  OBVIOUS
<1>2. all = chats \o new
  BY DEF WithChats
<1> HIDE DEF places
<1>3. /\ new \in Seq(Peers) /\ Len(new) = n /\ n \in Nat
      /\ \A i \in 1..n : at[i] \in places /\ new[i] = senders[at[i]]
      /\ \A i, j \in 1..n : i < j => at[i] < at[j]
      /\ \A l \in places : \E i \in 1..n : at[i] = l
  BY <1>1, KeepIs
<1> HIDE DEF at, n, new
<1>4. /\ all \in Seq(Peers) /\ DOMAIN all = 1..(k + n)
      /\ \A i \in 1..(k + n) : all[i] = IF i <= k THEN chats[i] ELSE new[i - k]
  BY <1>0, <1>2, <1>3, ConcatProperties, LenProperties
<1> HIDE DEF k
<1>5. \A i \in 1..k : i \in DOMAIN all /\ all[i] = chats[i]
  BY <1>0, <1>3, <1>4
<1>6. \A i \in 1..n : k + i \in DOMAIN all /\ all[k + i] = new[i]
  <2>1. \A i \in 1..n : k + i \in 1..(k + n) /\ ~(k + i <= k) /\ (k + i) - k = i
    BY <1>0, <1>3
  <2> QED BY <1>4, <2>1
<1>7. \A q \in ToSet(chats) : q \in ToSet(all)
  BY <1>0, <1>5 DEF ToSet
<1>8. \A i \in places : senders[i] \in ToSet(all)
  BY <1>3, <1>6 DEF ToSet
\* The first message of a sender without a thread is one of the places.
<1>9. \A i \in 1..Len(senders) : senders[i] \in ToSet(all)
  <2> SUFFICES ASSUME NEW i \in 1..Len(senders) PROVE senders[i] \in ToSet(all)
    OBVIOUS
  <2> DEFINE S == {j \in 1..Len(senders) : senders[j] = senders[i]}
  <2>1. S \in SUBSET Nat /\ IsFiniteSet(S) /\ i \in S
    <3>1. IsFiniteSet(1..Len(senders))
      BY <1>0, FS_Interval
    <3> QED BY <3>1, FS_Subset
  <2>2. PICK f \in S : \A j \in S : f <= j
    <3> DEFINE m == Cardinality(S)
               s == Ascending(S)
    <3>1. /\ m \in Nat /\ s \in [1..m -> S]
          /\ \A a, b \in 1..m : a < b => s[a] < s[b]
          /\ \A x \in S : \E a \in 1..m : s[a] = x
      BY <2>1, AscendingIs
    <3> HIDE DEF m, s
    <3>2. 1 \in 1..m
      BY <2>1, <3>1
    <3>3. ASSUME NEW j \in S PROVE s[1] <= j
      <4>1. PICK a \in 1..m : s[a] = j
        BY <3>1
      <4>2. s[1] \in Nat /\ j \in Nat
        BY <2>1, <3>1, <3>2
      <4> QED BY <3>1, <3>2, <4>1, <4>2
    <3>4. s[1] \in S
      BY <3>1, <3>2
    <3> QED BY <3>3, <3>4
  <2>3. f \in 1..Len(senders) /\ senders[f] = senders[i]
    OBVIOUS
  <2>4. ASSUME NEW j \in 1..(f - 1) PROVE senders[j] # senders[f]
    <3>1. j \in 1..Len(senders) /\ ~(f <= j)
      BY <1>0, <2>3
    <3> QED BY <2>2, <2>3, <3>1
  <2>5. f \in places \/ senders[f] \in ToSet(chats)
    BY <1>0, <1>1, <2>3, <2>4
  <2> QED BY <1>7, <1>8, <2>3, <2>5
<1>10. IsInjective(all)
  <2> SUFFICES ASSUME NEW i \in 1..(k + n), NEW j \in 1..(k + n), all[i] = all[j], i < j
               PROVE  FALSE
    <3>1. \A i, j \in 1..(k + n) : i = j \/ i < j \/ j < i
      BY <1>0, <1>3
    <3> QED BY <1>4, <3>1 DEF IsInjective
  <2>0. i \in Nat /\ j \in Nat
    BY <1>0, <1>3
  <2>1. CASE j <= k
    <3>1. i \in 1..k /\ j \in 1..k
      BY <1>0, <2>0, <2>1
    <3> QED BY <1>0, <1>5, <2>0, <3>1
  <2>2. CASE ~(j <= k)
    <3> DEFINE b == j - k
    <3>1. b \in 1..n /\ j = k + b
      BY <1>0, <1>3, <2>0, <2>2
    <3> HIDE DEF b
    <3>2. all[j] = senders[at[b]] /\ at[b] \in places
      BY <1>3, <1>6, <3>1
    <3>3. CASE i <= k
      <4>1. i \in 1..k /\ all[i] \in ToSet(chats)
        <5>1. i \in 1..k
          BY <1>0, <2>0, <3>3
        <5> QED BY <1>0, <1>5, <5>1 DEF ToSet
      <4> QED BY <1>1, <3>2, <4>1
    <3>4. CASE ~(i <= k)
      <4> DEFINE a == i - k
      <4>1. a \in 1..n /\ i = k + a /\ a < b
        BY <1>0, <1>3, <2>0, <3>1, <3>4
      <4> HIDE DEF a
      <4>2. all[i] = senders[at[a]] /\ at[a] \in places /\ at[a] < at[b]
        BY <1>3, <1>6, <3>1, <4>1
      <4>3. \A l \in places : l \in Nat /\ l >= 1
        BY <1>0, <1>1
      <4>4. at[a] \in 1..(at[b] - 1)
        BY <3>2, <4>2, <4>3
      <4> QED BY <1>1, <3>2, <4>2, <4>4
    <3> QED BY <3>3, <3>4
  <2> QED BY <2>1, <2>2
<1> QED BY <1>4, <1>7, <1>9, <1>10 DEF ChatLists

-----------------------------------------------------------------------------
(* Cursors and rendering                                                   *)

\* Newest is the greatest id that the page has of the sender, if there is any.
LEMMA NewestIs ==
  ASSUME NEW v, v.lib \in Nat, NEW p
  PROVE  /\ From(v, p) \subseteq 1..v.lib
         /\ Newest(v, p) \in From(v, p) \union {0}
         /\ Newest(v, p) \in 0..v.lib
         /\ \A i \in From(v, p) : i <= Newest(v, p)
<1> DEFINE S == From(v, p) \union {0}
<1>1. From(v, p) \subseteq 1..v.lib
  BY DEF From
<1>2. S \in SUBSET Nat /\ IsFiniteSet(S) /\ S # {}
  <2>1. S \subseteq 0..v.lib
    BY <1>1
  <2>2. IsFiniteSet(0..v.lib)
    BY FS_Interval
  <2> QED BY <2>1, <2>2, FS_Subset
<1> HIDE DEF S
<1>3. \E i \in S : \A j \in S : j <= i
  BY <1>2, MaxExists
<1>4. \E i \in S : \A j \in S : i >= j
  <2>1. PICK i \in S : \A j \in S : j <= i
    BY <1>3
  <2>2. \A j \in S : j \in Nat
    BY <1>2
  <2> QED BY <2>1, <2>2
<1>5. Max(S) \in S /\ \A j \in S : Max(S) >= j
  BY <1>4 DEF Max
<1>6. Max(S) = Newest(v, p)
  BY DEF S, Newest
<1>7. \A j \in S : j \in Nat
  BY <1>2
<1>8. \A j \in S : j <= Newest(v, p)
  BY <1>5, <1>6, <1>7
<1>9. Newest(v, p) \in S
  BY <1>5, <1>6
<1>10. S = From(v, p) \union {0}
  BY DEF S
<1> HIDE DEF S
<1>11. Newest(v, p) \in 0..v.lib
  BY <1>1, <1>9, <1>10
<1> QED BY <1>1, <1>8, <1>9, <1>10, <1>11

\* Page w is page v after rendering: what it has loaded and its threads are the
\* same, and a cursor changed only to a baseline or by showing the thread.
Painted(v, w) ==
  /\ w \in Page
  /\ w.lib = v.lib /\ w.full = v.full /\ w.chats = v.chats /\ w.active = v.active
  /\ v.onChats => w.onChats
  /\ \A p \in Peers :
       \/ w.read[p] = v.read[p]
       \/ v.read[p] = None /\ w.read[p] = Newest(v, p)
       \/ p = w.active /\ w.onChats /\ w.read[p] = Newest(v, p)

\* What is loaded of a sender depends on nothing else in the page.
LEMMA SameLibrary ==
  ASSUME NEW v, NEW w, v.lib = w.lib, NEW p
  PROVE  From(v, p) = From(w, p) /\ Newest(v, p) = Newest(w, p)
<1>1. From(v, p) = From(w, p)
  BY DEF From
<1> QED BY <1>1 DEF Newest

LEMMA PageTypes ==
  ASSUME NEW v \in Page
  PROVE  /\ v.lib \in 0..MaxId /\ v.lib \in Nat /\ v.chats \in Seq(Peers)
         /\ ToSet(v.chats) \subseteq Peers /\ v.read \in Cursors
<1>1. v.lib \in 0..MaxId /\ v.chats \in ChatLists /\ v.read \in Cursors
  BY DEF Page
<1>2. v.chats \in Seq(Peers)
  BY <1>1 DEF ChatLists
<1>3. ToSet(v.chats) \subseteq Peers
  BY <1>2, LenProperties DEF ToSet
<1> QED BY <1>1, <1>2, <1>3, UnreadAssumption

\* Painting the tabs gives baselines, and paints the dots of the unread threads.
LEMMA PaintTabsIs ==
  ASSUME NEW v \in Page, NEW w, w = PaintTabs(v)
  PROVE  Painted(v, w) /\ Dotted(mail, w) /\ w.onChats = v.onChats
<1> DEFINE b == Baselines(v)
           u == [v EXCEPT !.read = b]
           d == {p \in ToSet(u.chats) : HasUnread(u, p)}
<1>1. \A p : Newest(v, p) \in 0..MaxId
  <2>1. \A p : Newest(v, p) \in 0..v.lib
    BY PageTypes, NewestIs
  <2> QED BY <2>1, PageTypes, UnreadAssumption
<1>2. /\ b \in Cursors
      /\ \A p \in Peers : b[p] = v.read[p] \/ (v.read[p] = None /\ b[p] = Newest(v, p))
  <2>1. \A p \in Peers : v.read[p] \in 0..MaxId \union {None}
    BY DEF Page, Cursors
  <2> QED BY <1>1, <2>1 DEF Baselines, Cursors
<1> HIDE DEF b
<1>3. /\ u \in Page /\ u.read = b /\ u.lib = v.lib /\ u.full = v.full /\ u.chats = v.chats
      /\ u.active = v.active /\ u.onChats = v.onChats
  BY <1>2 DEF Page
<1>4. w = [u EXCEPT !.dots = d, !.late = FALSE]
  BY DEF PaintTabs, b
<1>5. d \in SUBSET Peers
  BY <1>3, PageTypes
<1>6. d = {p \in ToSet(u.chats) : HasUnread(u, p)}
  OBVIOUS
<1> HIDE DEF u, d
<1>7. /\ w \in Page /\ w.dots = d /\ w.read = u.read /\ w.lib = u.lib /\ w.full = u.full
      /\ w.chats = u.chats /\ w.active = u.active /\ w.onChats = u.onChats
  BY <1>3, <1>4, <1>5 DEF Page
<1>8. Dotted(mail, w)
  BY <1>6, <1>7 DEF Dotted, HasUnread, From
<1>9. Painted(v, w)
  BY <1>2, <1>3, <1>7 DEF Painted
<1> QED BY <1>3, <1>7, <1>8, <1>9

\* Showing a thread reads it, and leaves the dots of the others true.
LEMMA ShowThreadIs ==
  ASSUME NEW v \in Page, NEW w, w = ShowThread(v)
  PROVE  /\ Painted(v, w) /\ w.onChats = v.onChats /\ w.late = v.late
         /\ (Dotted(mail, v) => Dotted(mail, w))
<1>1. CASE v.active = None \/ ~v.onChats
  <2>1. w = v
    BY <1>1 DEF ShowThread
  <2> QED BY <2>1 DEF Painted
<1>2. CASE ~(v.active = None \/ ~v.onChats)
  <2> DEFINE a == v.active
             n == Newest(v, a)
             b == [v.read EXCEPT ![a] = n]
  <2>1. a \in Peers /\ v.onChats
    BY <1>2 DEF Page
  <2>2. n \in 0..v.lib /\ n \in 0..MaxId /\ \A i \in From(v, a) : i <= n
    <3>1. n \in 0..v.lib /\ \A i \in From(v, a) : i <= n
      BY PageTypes, NewestIs
    <3> QED BY <3>1, PageTypes, UnreadAssumption
  <2>3. w = [v EXCEPT !.read = b]
    BY <1>2 DEF ShowThread
  <2> HIDE DEF n
  <2>4. b \in Cursors /\ b[a] = n /\ \A p \in Peers : p # a => b[p] = v.read[p]
    <3>1. v.read \in [Peers -> 0..MaxId \union {None}]
      BY DEF Page, Cursors
    <3> QED BY <2>1, <2>2, <3>1 DEF Cursors
  <2> HIDE DEF b
  <2>5. /\ w \in Page /\ w.read = b /\ w.lib = v.lib /\ w.full = v.full /\ w.chats = v.chats
        /\ w.active = a /\ w.onChats = v.onChats /\ w.dots = v.dots /\ w.late = v.late
    BY <2>3, <2>4 DEF Page
  <2>6. Painted(v, w)
    BY <2>1, <2>4, <2>5 DEF Painted, n
  <2>7. ASSUME Dotted(mail, v) PROVE Dotted(mail, w)
    <3> DEFINE Unread(m, p) ==
                 \E i \in 1..m.lib : mail[i] = p /\ i > (IF m.read[p] = None THEN 0 ELSE m.read[p])
    <3>1. n # None /\ n \in Nat
      BY <2>2, UnreadAssumption, PageTypes
    <3>2. ~Unread(w, a)
      <4>1. \A i \in 1..v.lib : mail[i] = a => i <= n
        BY <2>2 DEF From
      <4>2. \A i \in 1..v.lib : i \in Nat
        BY PageTypes
      <4>3. \A i \in 1..v.lib : mail[i] = a => ~(i > n)
        BY <3>1, <4>1, <4>2
      <4>4. (IF w.read[a] = None THEN 0 ELSE w.read[a]) = n
        BY <2>4, <2>5, <3>1
      <4> QED BY <2>5, <4>3, <4>4
    <3>3. \A p \in Peers : p # a => (Unread(w, p) <=> Unread(v, p))
      BY <2>4, <2>5
    <3> HIDE DEF Unread
    <3>4. /\ {p \in ToSet(v.chats) : Unread(v, p)} \subseteq v.dots
          /\ v.dots \subseteq {p \in ToSet(v.chats) : Unread(v, p)} \union {a}
      BY <2>7 DEF Dotted, Unread
    <3>5. /\ {p \in ToSet(v.chats) : Unread(w, p)} \subseteq v.dots
          /\ v.dots \subseteq {p \in ToSet(v.chats) : Unread(w, p)} \union {a}
      BY <3>2, <3>3, <3>4, PageTypes
    <3> QED BY <2>5, <3>5 DEF Dotted, Unread
  <2> QED BY <2>5, <2>6, <2>7
<1> QED BY <1>1, <1>2

\* One rendering after the other is a rendering.
LEMMA PaintedTwice ==
  ASSUME NEW u \in Page, NEW v, NEW w, Painted(u, v), Painted(v, w)
  PROVE  Painted(u, w)
<1>1. u.lib = v.lib /\ \A p : Newest(v, p) = Newest(u, p)
  BY SameLibrary DEF Painted
<1>2. \A p : Newest(u, p) # None
  <2>1. \A p : Newest(u, p) \in 0..u.lib
    BY PageTypes, NewestIs
  <2> QED BY <2>1, PageTypes, UnreadAssumption
<1>3. ASSUME NEW p \in Peers
      PROVE  \/ w.read[p] = u.read[p]
             \/ u.read[p] = None /\ w.read[p] = Newest(u, p)
             \/ p = w.active /\ w.onChats /\ w.read[p] = Newest(u, p)
  <2>1. \/ v.read[p] = u.read[p]
        \/ u.read[p] = None /\ v.read[p] = Newest(u, p)
        \/ p = v.active /\ v.onChats /\ v.read[p] = Newest(u, p)
    BY DEF Painted
  <2>2. \/ w.read[p] = v.read[p]
        \/ v.read[p] = None /\ w.read[p] = Newest(u, p)
        \/ p = w.active /\ w.onChats /\ w.read[p] = Newest(u, p)
    BY <1>1 DEF Painted
  <2>3. v.active = w.active /\ (v.onChats => w.onChats)
    BY DEF Painted
  <2> QED BY <1>2, <2>1, <2>2, <2>3
<1> QED BY <1>3 DEF Painted

LEMMA RenderIs ==
  ASSUME NEW v \in Page, NEW w, w = Render(v)
  PROVE  Painted(v, w) /\ Dotted(mail, w) /\ w.onChats = v.onChats
<1> DEFINE u == PaintTabs(v)
<1>1. Painted(v, u) /\ Dotted(mail, u) /\ u.onChats = v.onChats
  BY PaintTabsIs
<1>2. w = ShowThread(u)
  BY DEF Render
<1> HIDE DEF u
<1>3. u \in Page
  BY <1>1 DEF Painted
<1>4. Painted(u, w) /\ Dotted(mail, w) /\ w.onChats = u.onChats
  BY <1>1, <1>2, <1>3, ShowThreadIs
<1> QED BY <1>1, <1>4, PaintedTwice

LEMMA GoToChatsIs ==
  ASSUME NEW v \in Page, NEW w, w = GoToChats(v)
  PROVE  Painted(v, w) /\ Dotted(mail, w)
<1> DEFINE u == [v EXCEPT !.onChats = TRUE]
<1>1. /\ u \in Page /\ u.lib = v.lib /\ u.full = v.full /\ u.chats = v.chats
      /\ u.active = v.active /\ u.read = v.read /\ u.onChats = TRUE
  BY DEF Page
<1>2. w = Render(u)
  BY DEF GoToChats
<1> HIDE DEF u
<1>3. Painted(v, u)
  BY <1>1 DEF Painted
<1>4. Painted(u, w) /\ Dotted(mail, w)
  BY <1>1, <1>2, RenderIs
<1> QED BY <1>3, <1>4, PaintedTwice

\* Polled mail opens threads, and leaves the page painted.
LEMMA PolledIs ==
  ASSUME NEW v \in Page, NEW fresh \in Seq(Peers), fresh # <<>>,
         v.active \in ToSet(v.chats) \union {None}, NEW w, w = Polled(v, fresh)
  PROVE  \E u \in Page :
           /\ u.read = v.read /\ u.lib = v.lib /\ u.full = v.full
           /\ u.active \in ToSet(u.chats) \union {None}
           /\ Painted(u, w) /\ Dotted(mail, w)
<1> DEFINE all == WithChats(v.chats, fresh)
           p == Last(fresh)
           u == [v EXCEPT !.chats = all]
           x == [u EXCEPT !.active = p]
<1>1. /\ all \in ChatLists
      /\ \A q \in ToSet(v.chats) : q \in ToSet(all)
      /\ \A i \in 1..Len(fresh) : fresh[i] \in ToSet(all)
  <2>1. v.chats \in ChatLists
    BY DEF Page
  <2> QED BY <2>1, WithChatsIs
<1>2. p \in Peers /\ p \in ToSet(all)
  <2>1. Len(fresh) \in 1..Len(fresh)
    BY EmptySeq, LenProperties
  <2>2. fresh[Len(fresh)] \in Peers
    BY <2>1, ElementOfSeq
  <2> QED BY <1>1, <2>1, <2>2 DEF Last
<1>3. w = IF p = v.active THEN Render(u) ELSE Render(GoToChats(x))
  BY DEF Polled
<1> HIDE DEF all, p
<1>4. /\ u \in Page /\ u.read = v.read /\ u.lib = v.lib /\ u.full = v.full
      /\ u.chats = all /\ u.active = v.active
  BY <1>1 DEF Page
<1> HIDE DEF u
<1>5. /\ x \in Page /\ x.read = v.read /\ x.lib = v.lib /\ x.full = v.full
      /\ x.chats = all /\ x.active = p
  BY <1>2, <1>4 DEF Page
<1> HIDE DEF x
<1>6. CASE p = v.active
  <2>1. w = Render(u) /\ u.active \in ToSet(u.chats) \union {None}
    BY <1>1, <1>3, <1>4, <1>6
  <2>2. Painted(u, w) /\ Dotted(mail, w)
    BY <1>4, <2>1, RenderIs
  <2> QED BY <1>4, <2>1, <2>2
<1>7. CASE p # v.active
  <2> DEFINE y == GoToChats(x)
  <2>1. w = Render(y) /\ x.active \in ToSet(x.chats) \union {None}
    BY <1>2, <1>3, <1>5, <1>7
  <2>2. Painted(x, y)
    BY <1>5, GoToChatsIs
  <2> HIDE DEF y
  <2>3. y \in Page
    BY <2>2 DEF Painted
  <2>4. Painted(y, w) /\ Dotted(mail, w)
    BY <2>1, <2>3, RenderIs
  <2>5. Painted(x, w)
    BY <1>5, <2>2, <2>4, PaintedTwice
  <2> QED BY <1>5, <2>1, <2>4, <2>5
<1> QED BY <1>6, <1>7

-----------------------------------------------------------------------------
(* Steps that end by rendering                                             *)

\* What the handler of page t renders: its cursors as they were, and at least
\* the messages it had.
Ready(t, u) ==
  /\ u \in Page /\ u.read = tab[t].read /\ tab[t].lib <= u.lib /\ u.lib <= Len(mail)
  /\ u.active \in ToSet(u.chats) \union {None}

Rendered(t) ==
  \E u, w : /\ Ready(t, u) /\ Painted(u, w) /\ (w.full /\ ~w.late => Dotted(mail, w))
            /\ BecomeShown(t, w)

LEMMA PageIs ==
  ASSUME UnreadInv, NEW t \in Tabs, tab[t] # None
  PROVE  /\ tab[t] \in Page /\ tab[t].active \in ToSet(tab[t].chats) \union {None}
         /\ tab[t].lib \in Nat /\ tab[t].lib <= Len(mail) /\ Within(tab[t].read)
         /\ (tab[t].full /\ ~tab[t].late => Dotted(mail, tab[t]))
         /\ Len(mail) \in 0..MaxId /\ mail \in Seq(Peers)
<1>1. tab[t] \in Page
  BY DEF UnreadInv, TypeOK
<1>2. Len(mail) \in 0..MaxId /\ mail \in Seq(Peers)
  BY LenProperties, UnreadAssumption DEF UnreadInv, TypeOK
<1>3. tab[t].lib \in Nat
  BY <1>1, PageTypes
<1> QED BY <1>1, <1>2, <1>3 DEF UnreadInv, TypeOK, Loaded, AllDotted

LEMMA FirstChatIs ==
  ASSUME NEW chats \in ChatLists
  PROVE  FirstChat(chats) \in ToSet(chats) \union {None} /\ FirstChat(chats) \in Peers \union {None}
<1>1. CASE chats = <<>>
  BY <1>1 DEF FirstChat
<1>2. CASE chats # <<>>
  <2>1. chats \in Seq(Peers)
    BY DEF ChatLists
  <2>2. Len(chats) \in Nat /\ 1 \in 1..Len(chats) /\ DOMAIN chats = 1..Len(chats)
    BY <1>2, <2>1, EmptySeq, LenProperties
  <2>3. chats[1] \in Peers /\ chats[1] \in ToSet(chats)
    BY <2>1, <2>2, ElementOfSeq DEF ToSet
  <2> QED BY <1>2, <2>3 DEF FirstChat
<1> QED BY <1>1, <1>2

LEMMA BackfillEndRenders ==
  ASSUME UnreadInv, NEW t \in Tabs, BackfillEnd(t) PROVE Rendered(t)
<1>0. tab[t] # None
  BY DEF BackfillEnd
<1>1a. PICK c \in tab[t].fills : \E m \in c..Len(mail), fills \in Waiting(tab[t], c) :
        LET lib == Max({tab[t].lib, m})
            chats == WithChats(tab[t].chats, Reverse(SubSeq(mail, 1, lib)))
            v == [tab[t] EXCEPT !.lib = lib, !.full = TRUE, !.fills = fills, !.chats = chats]
        IN BecomeShown(t, Render(
             IF v.active = None THEN [v EXCEPT !.active = FirstChat(chats)] ELSE v))
  BY DEF BackfillEnd
<1>1. PICK m \in c..Len(mail), fills \in Waiting(tab[t], c) :
        LET lib == Max({tab[t].lib, m})
            chats == WithChats(tab[t].chats, Reverse(SubSeq(mail, 1, lib)))
            v == [tab[t] EXCEPT !.lib = lib, !.full = TRUE, !.fills = fills, !.chats = chats]
        IN BecomeShown(t, Render(
             IF v.active = None THEN [v EXCEPT !.active = FirstChat(chats)] ELSE v))
  BY <1>1a
<1> DEFINE g == tab[t]
           n == Max({g.lib, m})
           senders == Reverse(SubSeq(mail, 1, n))
           chats == WithChats(g.chats, senders)
           v == [g EXCEPT !.lib = n, !.full = TRUE, !.fills = fills, !.chats = chats]
           u == IF v.active = None THEN [v EXCEPT !.active = FirstChat(chats)] ELSE v
           w == Render(u)
<1>2. BecomeShown(t, w)
  BY <1>1
<1>3. /\ g \in Page /\ g.active \in ToSet(g.chats) \union {None} /\ g.lib \in Nat
      /\ g.lib <= Len(mail) /\ Len(mail) \in 0..MaxId /\ mail \in Seq(Peers)
  BY <1>0, PageIs
<1>4. n \in 0..Len(mail) /\ g.lib <= n /\ n \in 0..MaxId /\ fills \in SUBSET Nat
  <2>1. c \in Nat /\ fills \in SUBSET Nat
    BY <1>3 DEF Page, Waiting
  <2>2. m \in Nat /\ m <= Len(mail)
    BY <1>3, <2>1
  <2>3. n \in {g.lib, m} /\ n >= g.lib
    BY <1>3, <2>2, MaxOfTwo
  <2> HIDE DEF n, g
  <2> QED BY <1>3, <2>1, <2>2, <2>3, UnreadAssumption
<1> HIDE DEF n
<1>5. senders \in Seq(Peers)
  <2> DEFINE part == SubSeq(mail, 1, n)
  <2>1. part \in Seq(Peers)
    BY <1>3, <1>4, SubSeqProperties
  <2> HIDE DEF part
  <2>2. Len(part) \in Nat /\ \A i \in 1..Len(part) : part[i] \in Peers
    BY <2>1, LenProperties, ElementOfSeq
  <2>3. \A i \in 1..Len(part) : (Len(part) - i) + 1 \in 1..Len(part)
    BY <2>2
  <2>4. Reverse(part) \in [1..Len(part) -> Peers]
    BY <2>2, <2>3 DEF Reverse
  <2>5. Reverse(part) \in Seq(Peers)
    BY <2>2, <2>4, SeqDef
  <2> QED BY <2>5 DEF part
<1> HIDE DEF senders
<1>6. chats \in ChatLists /\ \A q \in ToSet(g.chats) : q \in ToSet(chats)
  <2>1. g.chats \in ChatLists
    BY <1>3 DEF Page
  <2> QED BY <1>5, <2>1, WithChatsIs
<1> HIDE DEF chats, g
<1>7. /\ v \in Page /\ v.lib = n /\ v.read = g.read /\ v.chats = chats /\ v.active = g.active
  BY <1>3, <1>4, <1>6 DEF Page
<1> HIDE DEF v
<1>8. /\ u \in Page /\ u.lib = n /\ u.read = g.read
      /\ u.active \in ToSet(u.chats) \union {None}
  <2>1. CASE v.active = None
    <3> DEFINE f == FirstChat(chats)
    <3>1. f \in ToSet(chats) \union {None} /\ f \in Peers \union {None}
      BY <1>6, FirstChatIs
    <3>2. u = [v EXCEPT !.active = f]
      BY <2>1
    <3> HIDE DEF f, u
    <3>3. u \in Page /\ u.lib = v.lib /\ u.read = v.read /\ u.active = f /\ u.chats = v.chats
      BY <1>7, <3>1, <3>2 DEF Page
    <3> QED BY <1>7, <3>1, <3>3
  <2>2. CASE v.active # None
    <3>1. u = v
      BY <2>2
    <3> QED BY <1>3, <1>6, <1>7, <3>1
  <2> QED BY <2>1, <2>2
<1> HIDE DEF u
<1>9. Painted(u, w) /\ Dotted(mail, w)
  BY <1>8, RenderIs
<1>10. Ready(t, u)
  BY <1>4, <1>8 DEF Ready, g
<1> HIDE DEF w
<1> QED BY <1>2, <1>9, <1>10 DEF Rendered

LEMMA PullRenders ==
  ASSUME UnreadInv, NEW t \in Tabs, Pull(t) PROVE Rendered(t)
<1>0. tab[t] # None /\ tab[t].full
  BY DEF Pull
<1>1. PICK n \in tab[t].lib..Len(mail) :
        LET v == [tab[t] EXCEPT !.lib = n]
        IN BecomeShown(t, ShowThread(
             IF n = tab[t].lib THEN v ELSE Polled(v, SubSeq(mail, tab[t].lib + 1, n))))
  BY DEF Pull
<1> DEFINE g == tab[t]
           v == [g EXCEPT !.lib = n]
           fresh == SubSeq(mail, g.lib + 1, n)
           x == IF n = g.lib THEN v ELSE Polled(v, fresh)
           w == ShowThread(x)
<1>2. BecomeShown(t, w)
  BY <1>1
<1>3. /\ g \in Page /\ g.active \in ToSet(g.chats) \union {None} /\ g.lib \in Nat
      /\ Len(mail) \in 0..MaxId /\ mail \in Seq(Peers)
      /\ (g.full /\ ~g.late => Dotted(mail, g))
  BY <1>0, PageIs
<1>4. n \in 0..Len(mail) /\ g.lib <= n /\ n \in 0..MaxId
  BY <1>3, UnreadAssumption
<1>5. /\ v \in Page /\ v.lib = n /\ v.read = g.read /\ v.chats = g.chats
      /\ v.active = g.active
  BY <1>3, <1>4 DEF Page
<1>6. ASSUME n = g.lib PROVE v = g
  BY <1>3, <1>6 DEF Page
<1> HIDE DEF v
<1>7. Ready(t, v)
  BY <1>3, <1>4, <1>5 DEF Ready, g
<1>8. CASE n = g.lib
  <2>1. x = v /\ v = g
    BY <1>6, <1>8
  <2>2. Painted(v, w) /\ w.late = v.late /\ (Dotted(mail, v) => Dotted(mail, w))
    BY <1>5, <2>1, ShowThreadIs
  <2>3. w.full /\ ~w.late => Dotted(mail, w)
    BY <1>3, <2>1, <2>2 DEF Painted
  <2> HIDE DEF w
  <2> QED BY <1>2, <1>7, <2>2, <2>3 DEF Rendered
<1>9. CASE n # g.lib
  <2>1. x = Polled(v, fresh)
    BY <1>9
  <2>2. fresh \in Seq(Peers) /\ fresh # <<>>
    <3>1. /\ g.lib + 1 \in 1..(Len(mail) + 1) /\ n \in (g.lib + 1) - 1..Len(mail)
          /\ n - (g.lib + 1) + 1 \in Nat \ {0} /\ g.lib + 1 <= n
      BY <1>3, <1>4, <1>9
    <3>2. fresh \in Seq(Peers) /\ Len(fresh) # 0
      BY <1>3, <3>1, SubSeqProperties
    <3> QED BY <3>2, EmptySeq
  <2> HIDE DEF fresh, x
  <2>3. PICK u \in Page :
          /\ u.read = v.read /\ u.lib = v.lib /\ u.full = v.full
          /\ u.active \in ToSet(u.chats) \union {None}
          /\ Painted(u, x) /\ Dotted(mail, x)
    BY <1>3, <1>5, <2>1, <2>2, PolledIs
  <2>4. x \in Page
    BY <2>3 DEF Painted
  <2>5. Painted(x, w) /\ Dotted(mail, w)
    BY <2>3, <2>4, ShowThreadIs
  <2> HIDE DEF w
  <2>6. Painted(u, w)
    BY <2>3, <2>5, PaintedTwice
  <2>7. Ready(t, u)
    BY <1>4, <1>5, <2>3 DEF Ready, g
  <2> QED BY <1>2, <2>5, <2>6, <2>7 DEF Rendered
<1> QED BY <1>8, <1>9

LEMMA RedrawRenders ==
  ASSUME UnreadInv, NEW t \in Tabs, Redraw(t) PROVE Rendered(t)
<1> DEFINE u == tab[t]
           w == ShowThread(u)
<1>1. tab[t] # None /\ BecomeShown(t, w)
  BY DEF Redraw
<1>2. Ready(t, u) /\ u \in Page /\ (u.full /\ ~u.late => Dotted(mail, u))
  BY <1>1, PageIs DEF Ready
<1> HIDE DEF u
<1>3. Painted(u, w) /\ w.late = u.late /\ (Dotted(mail, u) => Dotted(mail, w))
  BY <1>2, ShowThreadIs
<1> HIDE DEF w
<1>4. w.full /\ ~w.late => Dotted(mail, w)
  BY <1>2, <1>3 DEF Painted
<1> QED BY <1>1, <1>2, <1>3, <1>4 DEF Rendered

LEMMA PickChatRenders ==
  ASSUME UnreadInv, NEW t \in Tabs, NEW p \in Peers, PickChat(t, p) PROVE Rendered(t)
<1> DEFINE g == tab[t]
           u == [g EXCEPT !.active = p]
           x == Render(u)
           w == GoToChats(x)
<1>1. tab[t] # None /\ p \in ToSet(g.chats) /\ BecomeShown(t, w)
  BY DEF PickChat
<1>2. g \in Page /\ g.lib \in Nat /\ g.lib <= Len(mail)
  BY <1>1, PageIs
<1>3. /\ u \in Page /\ u.lib = g.lib /\ u.read = g.read /\ u.chats = g.chats
      /\ u.active = p
  BY <1>2 DEF Page
<1> HIDE DEF u
<1>4. Ready(t, u)
  BY <1>1, <1>2, <1>3 DEF Ready, g
<1>5. Painted(u, x)
  BY <1>3, RenderIs
<1> HIDE DEF x
<1>6. Painted(x, w) /\ Dotted(mail, w)
  BY <1>5, GoToChatsIs DEF Painted
<1> HIDE DEF w
<1>7. Painted(u, w)
  BY <1>3, <1>5, <1>6, PaintedTwice
<1> QED BY <1>1, <1>4, <1>6, <1>7 DEF Rendered

LEMMA OpenChatRenders ==
  ASSUME UnreadInv, NEW t \in Tabs, NEW p \in Peers, OpenChat(t, p) PROVE Rendered(t)
<1> DEFINE g == tab[t]
           all == WithChats(g.chats, <<p>>)
           u == [g EXCEPT !.chats = all, !.active = p]
           x == Render(u)
           w == GoToChats(x)
<1>1. tab[t] # None /\ BecomeShown(t, w)
  BY DEF OpenChat
<1>2. g \in Page /\ g.lib \in Nat /\ g.lib <= Len(mail)
  BY <1>1, PageIs
<1>3. all \in ChatLists /\ p \in ToSet(all)
  <2>1. <<p>> \in Seq(Peers) /\ g.chats \in ChatLists
    BY <1>2 DEF Page
  <2>2. all \in ChatLists /\ \A i \in 1..Len(<<p>>) : <<p>>[i] \in ToSet(all)
    BY <2>1, WithChatsIs
  <2>3. Len(<<p>>) = 1 /\ <<p>>[1] = p
    OBVIOUS
  <2> QED BY <2>2, <2>3
<1> HIDE DEF all
<1>4. /\ u \in Page /\ u.lib = g.lib /\ u.read = g.read /\ u.chats = all
      /\ u.active = p
  BY <1>2, <1>3 DEF Page
<1> HIDE DEF u
<1>5. Ready(t, u)
  BY <1>2, <1>3, <1>4 DEF Ready, g
<1>6. Painted(u, x)
  BY <1>4, RenderIs
<1> HIDE DEF x
<1>7. Painted(x, w) /\ Dotted(mail, w)
  BY <1>6, GoToChatsIs DEF Painted
<1> HIDE DEF w
<1>8. Painted(u, w)
  BY <1>4, <1>6, <1>7, PaintedTwice
<1> QED BY <1>1, <1>5, <1>7, <1>8 DEF Rendered

LEMMA CloseChatRenders ==
  ASSUME UnreadInv, NEW t \in Tabs, NEW p \in Peers, CloseChat(t, p) PROVE Rendered(t)
<1> DEFINE g == tab[t]
           kept == Keep(g.chats, {i \in DOMAIN g.chats : g.chats[i] # p})
           a == IF g.active = p THEN FirstChat(kept) ELSE g.active
           u == [g EXCEPT !.chats = kept, !.active = a]
           w == Render(u)
<1>1. tab[t] # None /\ BecomeShown(t, w)
  BY DEF CloseChat
<1>2. /\ g \in Page /\ g.lib \in Nat /\ g.lib <= Len(mail)
      /\ g.active \in ToSet(g.chats) \union {None}
  BY <1>1, PageIs
<1>3. kept \in ChatLists /\ \A q \in ToSet(g.chats) : q # p => q \in ToSet(kept)
  <2>1. g.chats \in ChatLists
    BY <1>2 DEF Page
  <2> QED BY <2>1, KeptChats
<1> HIDE DEF kept
<1>4. a \in ToSet(kept) \union {None} /\ a \in Peers \union {None}
  <2>1. g.active \in Peers \union {None}
    BY <1>2 DEF Page
  <2>2. FirstChat(kept) \in ToSet(kept) \union {None} /\ FirstChat(kept) \in Peers \union {None}
    BY <1>3, FirstChatIs
  <2> QED BY <1>2, <1>3, <2>1, <2>2
<1> HIDE DEF a
<1>5. /\ u \in Page /\ u.lib = g.lib /\ u.read = g.read /\ u.chats = kept
      /\ u.active = a
  BY <1>2, <1>3, <1>4 DEF Page
<1> HIDE DEF u
<1>6. Ready(t, u)
  BY <1>2, <1>4, <1>5 DEF Ready, g
<1>7. Painted(u, w) /\ Dotted(mail, w)
  BY <1>5, RenderIs
<1> HIDE DEF w
<1> QED BY <1>1, <1>6, <1>7 DEF Rendered

LEMMA OpenChatsViewRenders ==
  ASSUME UnreadInv, NEW t \in Tabs, OpenChatsView(t) PROVE Rendered(t)
<1> DEFINE u == tab[t]
           w == GoToChats(u)
<1>1. tab[t] # None /\ BecomeShown(t, w)
  BY DEF OpenChatsView
<1>2. Ready(t, u) /\ u \in Page
  BY <1>1, PageIs DEF Ready
<1> HIDE DEF u
<1>3. Painted(u, w) /\ Dotted(mail, w)
  BY <1>2, GoToChatsIs
<1> HIDE DEF w
<1> QED BY <1>1, <1>2, <1>3 DEF Rendered

LEMMA PopStatePaintsRenders ==
  ASSUME UnreadInv, NEW t \in Tabs, PopStatePaints(t) PROVE Rendered(t)
<1> DEFINE g == tab[t]
           u == [g EXCEPT !.due = FALSE]
           w == Render(u)
<1>1. tab[t] # None /\ BecomeShown(t, w)
  BY DEF PopStatePaints
<1>2. /\ g \in Page /\ g.lib \in Nat /\ g.lib <= Len(mail)
      /\ g.active \in ToSet(g.chats) \union {None}
  BY <1>1, PageIs
<1>3. /\ u \in Page /\ u.lib = g.lib /\ u.read = g.read /\ u.chats = g.chats
      /\ u.active = g.active
  BY <1>2 DEF Page
<1> HIDE DEF u
<1>4. Ready(t, u)
  BY <1>2, <1>3 DEF Ready, g
<1>5. Painted(u, w) /\ Dotted(mail, w)
  BY <1>3, RenderIs
<1> HIDE DEF w
<1> QED BY <1>1, <1>4, <1>5 DEF Rendered

-----------------------------------------------------------------------------
(* The steps                                                               *)

\* Saving a page preserves the invariant, if the cursors that changed point at
\* what is loaded, and what they passed over is rendered, or was a baseline.
LEMMA BecomePreserves ==
  ASSUME UnreadInv, NEW t \in Tabs, tab[t] # None, NEW w \in Page, Become(t, w),
         w.lib <= Len(mail), w.active \in ToSet(w.chats) \union {None},
         w.full /\ ~w.late => Dotted(mail, w),
         \A p \in Peers : \/ w.read[p] = tab[t].read[p]
                          \/ /\ w.read[p] \in 0..w.lib
                             /\ tab[t].read[p] = None \/ From(w, p) \subseteq rendered',
         mail' = mail, rendered \subseteq rendered', rendered' \subseteq Ids, acts' \in 0..MaxActs
  PROVE  UnreadInv'
<1> DEFINE past == rendered \union settled
           next == rendered' \union settled'
<1>0. /\ tab[t] \in Page /\ Len(mail) \in 0..MaxId /\ mail \in Seq(Peers)
      /\ Within(tab[t].read) /\ Backed(mail, past, tab[t].read)
  BY PageIs DEF UnreadInv, AllBacked
<1>1. w.lib \in 0..MaxId /\ w.lib \in Nat /\ w.chats \in ChatLists /\ w.read \in Cursors
  BY PageTypes DEF Page
<1>2. tab' = [tab EXCEPT ![t] = w] /\ tab \in [Tabs -> Page \union {None}]
  BY DEF Become, UnreadInv, TypeOK
<1>3. tab'[t] = w /\ \A s \in Tabs : s # t => tab'[s] = tab[s]
  BY <1>2
<1>4. /\ stored' \in [chats : ChatLists, read : Cursors]
      /\ stored'.read = w.read \/ stored'.read = stored.read
  <2> DEFINE c == IF w.chats # tab[t].chats THEN w.chats ELSE stored.chats
             r == IF w.read # tab[t].read THEN w.read ELSE stored.read
  <2>1. stored' = [chats |-> c, read |-> r]
    BY DEF Become
  <2>2. stored.chats \in ChatLists /\ stored.read \in Cursors
    BY DEF UnreadInv, TypeOK
  <2>3. c \in ChatLists /\ r \in Cursors /\ (r = w.read \/ r = stored.read)
    BY <1>1, <2>2
  <2> HIDE DEF c, r
  <2> QED BY <2>1, <2>3
<1>5. /\ settled \subseteq settled' /\ settled' \subseteq Ids
      /\ \A p \in Peers : tab[t].read[p] = None /\ w.read[p] # None =>
           \A i \in From(w, p) : i <= w.read[p] => i \in settled'
  <2> DEFINE Passed(p) == {i \in From(w, p) : i <= w.read[p]}
             fresh == {q \in Peers : tab[t].read[q] = None /\ w.read[q] # None}
  <2>1. settled' = settled \union UNION {Passed(p) : p \in fresh}
    BY DEF Become
  <2>2. \A p \in Peers : Passed(p) \subseteq Ids
    <3>1. \A p : From(w, p) \subseteq 1..w.lib
      BY <1>1, NewestIs
    <3>2. \A i \in 1..w.lib : i \in Ids
      BY <1>1, UnreadAssumption DEF Ids
    <3> QED BY <3>1, <3>2
  <2>3. settled \subseteq Ids
    BY DEF UnreadInv, TypeOK
  <2>4. \A p \in fresh : p \in Peers
    OBVIOUS
  <2>5. settled' \subseteq Ids
    <3> HIDE DEF Passed, fresh
    <3> QED BY <2>1, <2>2, <2>3, <2>4
  <2>6. \A p \in fresh : Passed(p) \subseteq settled'
    <3> HIDE DEF Passed, fresh
    <3> QED BY <2>1
  <2>7. settled \subseteq settled'
    BY <2>1
  <2> QED BY <2>5, <2>6, <2>7
<1>6. past \subseteq next
  BY <1>5
<1>7. Within(w.read)
  <2> SUFFICES ASSUME NEW p \in Peers, w.read[p] # None PROVE w.read[p] <= Len(mail)
    BY DEF Within
  <2>1. CASE w.read[p] = tab[t].read[p]
    BY <1>0, <2>1 DEF Within
  <2>2. CASE w.read[p] \in 0..w.lib
    BY <1>0, <1>1, <2>2
  <2> QED BY <2>1, <2>2
<1>8. Backed(mail, next, w.read)
  <2> SUFFICES ASSUME NEW i \in 1..Len(mail), w.read[mail[i]] # None, i <= w.read[mail[i]]
               PROVE  i \in next
    BY DEF Backed
  <2> DEFINE p == mail[i]
  <2>1. p \in Peers /\ i \in Nat /\ i >= 1
    BY <1>0, ElementOfSeq
  <2>2. CASE w.read[p] = tab[t].read[p]
    <3>1. i \in past
      BY <1>0, <2>2 DEF Backed
    <3> QED BY <1>6, <3>1
  <2>3. CASE w.read[p] # tab[t].read[p]
    <3>1. w.read[p] \in 0..w.lib /\ (tab[t].read[p] = None \/ From(w, p) \subseteq rendered')
      BY <2>1, <2>3
    <3>2. i \in 1..w.lib
      BY <1>1, <2>1, <3>1
    <3>3. i \in From(w, p)
      BY <3>2 DEF From
    <3> HIDE DEF next
    <3>4. CASE tab[t].read[p] = None
      <4>1. i \in settled'
        BY <1>5, <2>1, <3>3, <3>4
      <4> QED BY <4>1 DEF next
    <3>5. CASE From(w, p) \subseteq rendered'
      BY <3>3, <3>5 DEF next
    <3> QED BY <3>1, <3>4, <3>5
  <2> QED BY <2>2, <2>3
<1>9. \A read : Backed(mail, past, read) => Backed(mail, next, read)
  BY <1>6 DEF Backed
<1>10. TypeOK'
  <2>1. mail' \in Seq(Peers) /\ Len(mail') <= MaxId
    BY <1>0, UnreadAssumption
  <2>2. tab' \in [Tabs -> Page \union {None}]
    BY <1>2
  <2>3. \A s \in Tabs : tab'[s] # None => tab'[s].active \in ToSet(tab'[s].chats) \union {None}
    BY <1>3 DEF UnreadInv, TypeOK
  <2> QED BY <1>4, <1>5, <2>1, <2>2, <2>3 DEF TypeOK
<1>11. Loaded'
  <2>1. Within(stored'.read)
    BY <1>4, <1>7 DEF UnreadInv, Loaded
  <2>2. \A s \in Tabs : tab'[s] # None => tab'[s].lib <= Len(mail) /\ Within(tab'[s].read)
    BY <1>3, <1>7 DEF UnreadInv, Loaded
  <2> QED BY <2>1, <2>2 DEF Loaded, Within
<1>12. AllDotted'
  <2>1. \A s \in Tabs : tab'[s] # None /\ tab'[s].full /\ ~tab'[s].late => Dotted(mail, tab'[s])
    BY <1>3 DEF UnreadInv, AllDotted
  <2> QED BY <2>1 DEF AllDotted
<1>13. AllBacked'
  <2>1. Backed(mail, next, stored'.read)
    BY <1>4, <1>8, <1>9 DEF UnreadInv, AllBacked
  <2>2. \A s \in Tabs : tab'[s] # None => Backed(mail, next, tab'[s].read)
    BY <1>3, <1>8, <1>9 DEF UnreadInv, AllBacked
  <2> QED BY <2>1, <2>2 DEF AllBacked
<1> QED BY <1>10, <1>11, <1>12, <1>13 DEF UnreadInv

\* What rendering did to the cursors of the page.
LEMMA RenderedCursors ==
  ASSUME UnreadInv, NEW t \in Tabs, tab[t] # None, NEW u, NEW w,
         Ready(t, u), Painted(u, w)
  PROVE  /\ u \in Page /\ w \in Page /\ w.lib = u.lib
         /\ \A p \in Peers :
              \/ w.read[p] = tab[t].read[p]
              \/ /\ w.read[p] = Newest(w, p) /\ w.read[p] \in 0..w.lib
                 /\ tab[t].read[p] = None \/ (p = w.active /\ w.onChats)
<1>1. u \in Page /\ w \in Page /\ w.lib = u.lib /\ u.read = tab[t].read
  BY DEF Ready, Painted
<1>2. \A p : Newest(u, p) = Newest(w, p) /\ Newest(w, p) \in 0..w.lib
  BY <1>1, PageTypes, NewestIs, SameLibrary
<1>3. ASSUME NEW p \in Peers
      PROVE  \/ w.read[p] = tab[t].read[p]
             \/ /\ w.read[p] = Newest(w, p) /\ w.read[p] \in 0..w.lib
                /\ tab[t].read[p] = None \/ (p = w.active /\ w.onChats)
  <2>1. \/ w.read[p] = u.read[p]
        \/ u.read[p] = None /\ w.read[p] = Newest(u, p)
        \/ p = w.active /\ w.onChats /\ w.read[p] = Newest(u, p)
    BY DEF Painted
  <2> QED BY <1>1, <1>2, <2>1
<1> QED BY <1>1, <1>3

\* A handler that ends by rendering preserves the invariant.
LEMMA RenderedPreserves ==
  ASSUME UnreadInv, NEW t \in Tabs, tab[t] # None, Rendered(t), acts' \in 0..MaxActs
  PROVE  UnreadInv'
<1>1. PICK u, w : /\ Ready(t, u) /\ Painted(u, w) /\ (w.full /\ ~w.late => Dotted(mail, w))
                  /\ BecomeShown(t, w)
  BY DEF Rendered
<1>2. /\ u \in Page /\ w \in Page /\ w.lib = u.lib
      /\ \A p \in Peers :
           \/ w.read[p] = tab[t].read[p]
           \/ /\ w.read[p] = Newest(w, p) /\ w.read[p] \in 0..w.lib
              /\ tab[t].read[p] = None \/ (p = w.active /\ w.onChats)
  BY <1>1, RenderedCursors
<1>3. w.lib <= Len(mail) /\ w.active \in ToSet(w.chats) \union {None}
  BY <1>1, <1>2 DEF Ready, Painted
<1>4. /\ mail' = mail /\ Become(t, w)
      /\ rendered' = rendered \union IF w.onChats /\ w.active # None THEN From(w, w.active) ELSE {}
  BY <1>1 DEF BecomeShown
<1>5. rendered \subseteq rendered' /\ rendered' \subseteq Ids
  <2>1. \A p : From(w, p) \subseteq 1..w.lib
    BY <1>2, PageTypes, NewestIs
  <2>2. \A i \in 1..w.lib : i \in Ids
    BY <1>2, PageTypes, UnreadAssumption DEF Ids
  <2>3. rendered \subseteq Ids
    BY DEF UnreadInv, TypeOK
  <2> QED BY <1>4, <2>1, <2>2, <2>3
<1>6. ASSUME NEW p \in Peers, p = w.active, w.onChats PROVE From(w, p) \subseteq rendered'
  BY <1>4, <1>6, UnreadAssumption
<1>7. \A p \in Peers : \/ w.read[p] = tab[t].read[p]
                       \/ /\ w.read[p] \in 0..w.lib
                          /\ tab[t].read[p] = None \/ From(w, p) \subseteq rendered'
  BY <1>2, <1>6
<1> QED BY <1>1, <1>2, <1>3, <1>4, <1>5, <1>7, BecomePreserves

LEMMA ArrivePreserves ==
  ASSUME UnreadInv, NEW q \in Peers, Arrive(q)
  PROVE  UnreadInv'
<1> DEFINE k == Len(mail)
           past == rendered \union settled
<1>0. /\ mail' = Append(mail, q) /\ k < MaxId
      /\ stored' = stored /\ tab' = tab /\ acts' = acts /\ rendered' = rendered /\ settled' = settled
  BY DEF Arrive
<1>1. mail \in Seq(Peers) /\ k \in Nat
  BY LenProperties DEF UnreadInv, TypeOK
<1>2. /\ mail' \in Seq(Peers) /\ Len(mail') = k + 1 /\ mail'[k + 1] = q
      /\ \A i \in 1..k : mail'[i] = mail[i]
  BY <1>0, <1>1, AppendProperties
<1> HIDE DEF k
<1>4. stored.read \in Cursors /\ \A t \in Tabs : tab[t] # None => tab[t].read \in Cursors /\ tab[t] \in Page
  BY PageTypes DEF UnreadInv, TypeOK
<1>5. ASSUME NEW read \in Cursors, Within(read)
      PROVE  \A p \in Peers : read[p] # None => read[p] <= Len(mail')
  <2>1. \A p \in Peers : read[p] \in 0..MaxId \union {None}
    BY DEF Cursors
  <2> QED BY <1>1, <1>2, <1>5, <2>1, UnreadAssumption DEF Within, k
<1>6. ASSUME NEW read \in Cursors, Within(read), Backed(mail, past, read)
      PROVE  Backed(mail', past, read)
  <2> SUFFICES ASSUME NEW i \in 1..(k + 1), read[mail'[i]] # None, i <= read[mail'[i]]
               PROVE  i \in past
    BY <1>2 DEF Backed
  <2>0. \A p \in Peers : read[p] \in 0..MaxId \union {None}
    BY DEF Cursors
  <2>1. CASE i = k + 1
    <3>1. read[q] \in Nat /\ read[q] <= k /\ k + 1 <= read[q]
      BY <1>2, <1>6, <2>0, <2>1, UnreadAssumption DEF Within, k
    <3> QED BY <1>1, <3>1
  <2>2. CASE i # k + 1
    <3>1. i \in 1..k
      BY <1>1, <2>2
    <3>2. mail'[i] = mail[i]
      BY <1>2, <3>1
    <3> QED BY <1>6, <3>1, <3>2 DEF Backed, k
  <2> QED BY <2>1, <2>2
<1>7. TypeOK'
  BY <1>0, <1>1, <1>2, UnreadAssumption DEF UnreadInv, TypeOK
<1>8. Loaded'
  <2>1. \A p \in Peers : stored.read[p] # None => stored.read[p] <= Len(mail')
    BY <1>4, <1>5 DEF UnreadInv, Loaded
  <2>2. ASSUME NEW t \in Tabs, tab[t] # None
        PROVE  /\ tab[t].lib <= Len(mail')
               /\ \A p \in Peers : tab[t].read[p] # None => tab[t].read[p] <= Len(mail')
    <3>1. tab[t].lib <= k /\ Within(tab[t].read)
      BY <2>2 DEF UnreadInv, Loaded, k
    <3>2. tab[t].lib \in Nat
      BY <1>4, <2>2, PageTypes
    <3> QED BY <1>1, <1>2, <1>4, <1>5, <2>2, <3>1, <3>2
  <2> QED BY <1>0, <2>1, <2>2 DEF Loaded, Within
<1>9. AllDotted'
  <2> SUFFICES ASSUME NEW t \in Tabs, tab[t] # None, tab[t].full, ~tab[t].late
               PROVE  Dotted(mail', tab[t])
    BY <1>0 DEF AllDotted
  <2>1. Dotted(mail, tab[t]) /\ tab[t].lib \in Nat /\ tab[t].lib <= k
    BY PageIs DEF k
  <2>2. \A i \in 1..tab[t].lib : mail'[i] = mail[i]
    BY <1>1, <1>2, <2>1
  <2> QED BY <2>1, <2>2 DEF Dotted
<1>10. AllBacked'
  <2>1. Backed(mail', past, stored.read)
    BY <1>4, <1>6 DEF UnreadInv, Loaded, AllBacked
  <2>2. \A t \in Tabs : tab[t] # None => Backed(mail', past, tab[t].read)
    BY <1>4, <1>6 DEF UnreadInv, Loaded, AllBacked
  <2> QED BY <1>0, <2>1, <2>2 DEF AllBacked
<1> QED BY <1>7, <1>8, <1>9, <1>10 DEF UnreadInv

\* The page that a merged batch leaves: what it loaded is there, and unless it
\* came late nothing was there to be painted, or nothing is new.
BatchMerged(t, w) ==
  /\ w \in Page /\ w.lib <= Len(mail) /\ tab[t].lib <= w.lib
  /\ w.read = tab[t].read /\ w.chats = tab[t].chats /\ w.active = tab[t].active
  /\ w.full /\ ~w.late => Dotted(mail, w)

LEMMA BackfillPageIs ==
  ASSUME UnreadInv, NEW t \in Tabs, BackfillPage(t)
  PROVE  \E w : BatchMerged(t, w) /\ Become(t, w)
<1> DEFINE g == tab[t]
<1>0. g # None
  BY DEF BackfillPage
<1>1a. PICK c \in g.fills : \E fills \in Waiting(g, c) :
        /\ c + Batch <= Len(mail)
        /\ Become(t, [g EXCEPT !.lib = Max({@, c + Batch}), !.fills = fills \union {c + Batch},
                               !.late = @ \/ (g.full /\ c + Batch > g.lib)])
  BY DEF BackfillPage
<1>1. PICK fills \in Waiting(g, c) :
        /\ c + Batch <= Len(mail)
        /\ Become(t, [g EXCEPT !.lib = Max({@, c + Batch}), !.fills = fills \union {c + Batch},
                               !.late = @ \/ (g.full /\ c + Batch > g.lib)])
  BY <1>1a
<1>2. /\ g \in Page /\ g.lib \in Nat /\ g.lib <= Len(mail) /\ Len(mail) \in 0..MaxId
      /\ (g.full /\ ~g.late => Dotted(mail, g))
  BY <1>0, PageIs
<1>3. c \in Nat /\ fills \in SUBSET Nat
  BY <1>2 DEF Page, Waiting
<1> DEFINE k == c + Batch
           n == Max({g.lib, k})
           new == fills \union {k}
           l == g.late \/ (g.full /\ k > g.lib)
           x == [g EXCEPT !.lib = n]
           y == [x EXCEPT !.fills = new]
           w == [y EXCEPT !.late = l]
<1>4. k \in Nat /\ k <= Len(mail)
  BY <1>1, <1>3, UnreadAssumption
<1>5. Become(t, w)
  <2>1. [g EXCEPT !.lib = Max({@, c + Batch}), !.fills = fills \union {c + Batch},
                  !.late = @ \/ (g.full /\ c + Batch > g.lib)] = w
    BY <1>2 DEF Page
  <2> QED BY <1>1, <2>1
<1> HIDE DEF k, g
<1>6. n \in {g.lib, k} /\ n >= g.lib /\ n >= k
  BY <1>2, <1>4, MaxOfTwo
<1>7. new \in SUBSET Nat /\ l \in BOOLEAN
  BY <1>3, <1>4
<1>8. g.full /\ ~l => ~g.late /\ n = g.lib
  <2>1. g.full /\ ~l => ~g.late /\ ~(k > g.lib)
    OBVIOUS
  <2> HIDE DEF l, n
  <2>2. ~(k > g.lib) => n = g.lib
    BY <1>2, <1>4, <1>6
  <2> QED BY <2>1, <2>2
<1> HIDE DEF n, new, l
<1>9. n \in 0..MaxId /\ n <= Len(mail)
  BY <1>2, <1>4, <1>6, UnreadAssumption
<1>10. /\ x \in Page /\ x.lib = n /\ x.full = g.full /\ x.read = g.read /\ x.chats = g.chats
       /\ x.active = g.active /\ x.dots = g.dots
  BY <1>2, <1>9 DEF Page
<1> HIDE DEF x
<1>11. /\ y \in Page /\ y.lib = n /\ y.full = g.full /\ y.read = g.read /\ y.chats = g.chats
       /\ y.active = g.active /\ y.dots = g.dots
  BY <1>7, <1>10 DEF Page
<1> HIDE DEF y
<1>12. /\ w \in Page /\ w.lib = n /\ w.full = g.full /\ w.read = g.read /\ w.chats = g.chats
       /\ w.active = g.active /\ w.dots = g.dots /\ w.late = l
  BY <1>7, <1>11 DEF Page
<1> HIDE DEF w
<1>13. w.full /\ ~w.late => Dotted(mail, w)
  <2> SUFFICES ASSUME w.full, ~w.late PROVE Dotted(mail, w)
    OBVIOUS
  <2>1. Dotted(mail, g) /\ w.lib = g.lib
    BY <1>2, <1>8, <1>12
  <2> QED BY <1>12, <2>1 DEF Dotted
<1>14. w.lib <= Len(mail) /\ g.lib <= w.lib
  BY <1>2, <1>6, <1>9, <1>12
<1>15. BatchMerged(t, w)
  BY <1>12, <1>13, <1>14 DEF BatchMerged, g
<1> QED BY <1>5, <1>15

LEMMA BackfillPagePreserves ==
  ASSUME UnreadInv, NEW t \in Tabs, BackfillPage(t)
  PROVE  UnreadInv'
<1>1. tab[t] # None /\ mail' = mail /\ acts' = acts /\ rendered' = rendered
  BY DEF BackfillPage
<1>2. PICK w : BatchMerged(t, w) /\ Become(t, w)
  BY BackfillPageIs
<1>3. tab[t].active \in ToSet(tab[t].chats) \union {None}
  BY <1>1, PageIs
<1>4. acts' \in 0..MaxActs /\ rendered' \subseteq Ids
  BY <1>1 DEF UnreadInv, TypeOK
<1> QED BY <1>1, <1>2, <1>3, <1>4, BecomePreserves DEF BatchMerged

\* A step that replaces a page and renders nothing into the history.
LEMMA ReplacedPreserves ==
  ASSUME UnreadInv, NEW t \in Tabs, NEW w \in Page,
         tab' = [tab EXCEPT ![t] = w],
         w.lib <= Len(mail), w.active \in ToSet(w.chats) \union {None},
         w.full /\ ~w.late => Dotted(mail, w),
         Within(w.read), Backed(mail, rendered \union settled, w.read),
         stored' \in [chats : ChatLists, read : Cursors],
         stored'.read = w.read \/ stored'.read = stored.read,
         mail' = mail, rendered' = rendered, settled' = settled, acts' \in 0..MaxActs
  PROVE  UnreadInv'
<1> DEFINE past == rendered \union settled
<1>2. tab \in [Tabs -> Page \union {None}]
  BY DEF UnreadInv, TypeOK
<1>3. tab'[t] = w /\ \A s \in Tabs : s # t => tab'[s] = tab[s]
  BY <1>2
<1>10. TypeOK'
  <2>2. tab' \in [Tabs -> Page \union {None}]
    BY <1>2
  <2>3. \A s \in Tabs : tab'[s] # None => tab'[s].active \in ToSet(tab'[s].chats) \union {None}
    BY <1>3 DEF UnreadInv, TypeOK
  <2> QED BY <2>2, <2>3 DEF UnreadInv, TypeOK
<1>11. Loaded'
  <2>1. Within(stored'.read)
    BY DEF UnreadInv, Loaded
  <2>2. \A s \in Tabs : tab'[s] # None => tab'[s].lib <= Len(mail) /\ Within(tab'[s].read)
    BY <1>3 DEF UnreadInv, Loaded
  <2> QED BY <2>1, <2>2 DEF Loaded, Within
<1>12. AllDotted'
  <2>1. \A s \in Tabs : tab'[s] # None /\ tab'[s].full /\ ~tab'[s].late => Dotted(mail, tab'[s])
    BY <1>3 DEF UnreadInv, AllDotted
  <2> QED BY <2>1 DEF AllDotted
<1>13. AllBacked'
  <2>1. Backed(mail, past, stored'.read)
    BY DEF UnreadInv, AllBacked
  <2>2. \A s \in Tabs : tab'[s] # None => Backed(mail, past, tab'[s].read)
    BY <1>3 DEF UnreadInv, AllBacked
  <2> QED BY <2>1, <2>2 DEF AllBacked
<1> QED BY <1>10, <1>11, <1>12, <1>13 DEF UnreadInv

LEMMA ActIs ==
  ASSUME UnreadInv, Act
  PROVE  acts' \in 0..MaxActs
BY UnreadAssumption DEF UnreadInv, TypeOK, Act

LEMMA LoadPreserves ==
  ASSUME UnreadInv, NEW t \in Tabs, Load(t)
  PROVE  UnreadInv'
<1> DEFINE Begin(c) == [lib |-> 0, full |-> FALSE, fills |-> {}, chats |-> stored.chats,
                        active |-> FirstChat(stored.chats), onChats |-> c,
                        read |-> stored.read, dots |-> {}, due |-> c, late |-> FALSE]
<1>1. PICK c \in BOOLEAN : /\ tab' = [tab EXCEPT ![t] = Render(Begin(c))]
                           /\ stored' = [stored EXCEPT !.read = Render(Begin(c)).read]
  BY DEF Load
<1>2. mail' = mail /\ rendered' = rendered /\ settled' = settled /\ acts' \in 0..MaxActs
  <2>1. Act
    BY DEF Load
  <2> QED BY <2>1, ActIs DEF Load
<1>3. /\ stored \in [chats : ChatLists, read : Cursors] /\ Within(stored.read)
      /\ Backed(mail, rendered \union settled, stored.read) /\ mail \in Seq(Peers)
      /\ Len(mail) \in Nat
  BY LenProperties DEF UnreadInv, TypeOK, Loaded, AllBacked
<1> DEFINE v == Begin(c)
           w == Render(v)
<1>4. /\ v \in Page /\ v.lib = 0 /\ v.full = FALSE /\ v.chats = stored.chats
      /\ v.read = stored.read /\ v.active \in ToSet(v.chats) \union {None}
  <2>1. /\ FirstChat(stored.chats) \in ToSet(stored.chats) \union {None}
        /\ FirstChat(stored.chats) \in Peers \union {None}
    BY <1>3, FirstChatIs
  <2>2. 0 \in 0..MaxId /\ c \in BOOLEAN /\ FALSE \in BOOLEAN /\ {} \in SUBSET Peers
        /\ {} \in SUBSET Nat
    BY <1>1, UnreadAssumption
  <2> QED BY <1>3, <2>1, <2>2 DEF Page
<1> HIDE DEF v
<1>5. Painted(v, w)
  BY <1>4, RenderIs
<1> HIDE DEF w
<1>6. /\ w \in Page /\ w.lib = 0 /\ w.full = FALSE
      /\ w.active \in ToSet(w.chats) \union {None}
  BY <1>4, <1>5 DEF Painted
\* Nothing is loaded yet: a cursor that changed is 0.
<1>7. \A p \in Peers : w.read[p] = stored.read[p] \/ w.read[p] = 0
  <2>1. \A p : Newest(v, p) = 0
    <3>1. \A p : Newest(v, p) \in 0..0
      BY <1>4, PageTypes, NewestIs
    <3> QED BY <3>1
  <2> QED BY <1>4, <1>5, <2>1 DEF Painted
<1>8. Within(w.read)
  BY <1>3, <1>7 DEF Within
<1>9. Backed(mail, rendered \union settled, w.read)
  <2> SUFFICES ASSUME NEW i \in 1..Len(mail), w.read[mail[i]] # None, i <= w.read[mail[i]]
               PROVE  i \in rendered \union settled
    BY DEF Backed
  <2>1. mail[i] \in Peers /\ ~(i <= 0)
    BY <1>3, ElementOfSeq
  <2>2. w.read[mail[i]] = stored.read[mail[i]]
    BY <1>7, <2>1
  <2> QED BY <1>3, <2>2 DEF Backed
<1>10. stored' \in [chats : ChatLists, read : Cursors] /\ stored'.read = w.read
  <2>1. stored' = [stored EXCEPT !.read = w.read]
    BY <1>1 DEF v, w
  <2>2. w.read \in Cursors
    BY <1>6 DEF Page
  <2> QED BY <1>3, <2>1, <2>2
<1>11. tab' = [tab EXCEPT ![t] = w]
  BY <1>1 DEF v, w
<1>12. w.lib <= Len(mail)
  BY <1>3, <1>6
<1> QED BY <1>2, <1>6, <1>8, <1>9, <1>10, <1>11, <1>12, ReplacedPreserves

LEMMA ViewPreserves ==
  ASSUME UnreadInv, NEW t \in Tabs, OpenOtherView(t) \/ PopState(t)
  PROVE  UnreadInv'
<1> DEFINE g == tab[t]
<1>1. /\ tab[t] # None /\ mail' = mail /\ stored' = stored /\ rendered' = rendered
      /\ settled' = settled /\ acts' \in 0..MaxActs
  <2>1. Act
    BY DEF OpenOtherView, PopState
  <2> QED BY <2>1, ActIs DEF OpenOtherView, PopState
<1>2. /\ g \in Page /\ g.active \in ToSet(g.chats) \union {None} /\ g.lib <= Len(mail)
      /\ Within(g.read) /\ (g.full /\ ~g.late => Dotted(mail, g))
      /\ Backed(mail, rendered \union settled, g.read)
      /\ stored \in [chats : ChatLists, read : Cursors]
      /\ tab \in [Tabs -> Page \union {None}]
  BY <1>1, PageIs DEF UnreadInv, TypeOK, AllBacked
<1>3. \E c \in BOOLEAN, d \in BOOLEAN :
        tab' = [tab EXCEPT ![t] = [g EXCEPT !.onChats = c, !.due = d]]
  <2>1. CASE OpenOtherView(t)
    <3>1. tab' = [tab EXCEPT ![t].onChats = FALSE]
      BY <2>1 DEF OpenOtherView
    <3>2. g.due \in BOOLEAN /\ g = [g EXCEPT !.due = g.due]
      BY <1>2 DEF Page
    <3>3. [g EXCEPT !.onChats = FALSE] = [g EXCEPT !.onChats = FALSE, !.due = g.due]
      BY <1>2 DEF Page
    <3>4. tab' = [tab EXCEPT ![t] = [g EXCEPT !.onChats = FALSE]]
      BY <3>1
    <3>5. FALSE \in BOOLEAN
      OBVIOUS
    <3> QED BY <3>2, <3>3, <3>4, <3>5
  <2>2. CASE PopState(t)
    <3>1. PICK c \in BOOLEAN : tab' = [tab EXCEPT ![t].onChats = c, ![t].due = @ \/ c]
      BY <2>2 DEF PopState
    <3> DEFINE d == g.due \/ c
               x == [g EXCEPT !.onChats = c]
    <3>2. d \in BOOLEAN
      OBVIOUS
    <3>3. x.due = g.due
      BY <1>2 DEF Page
    <3>4. tab' = [[tab EXCEPT ![t] = x] EXCEPT ![t] = [x EXCEPT !.due = d]]
      BY <1>2, <3>1, <3>3
    <3>5. tab' = [tab EXCEPT ![t] = [g EXCEPT !.onChats = c, !.due = d]]
      BY <1>2, <3>4
    <3> HIDE DEF d
    <3> QED BY <3>2, <3>5
  <2> QED BY <2>1, <2>2
<1>4. PICK c \in BOOLEAN, d \in BOOLEAN :
        tab' = [tab EXCEPT ![t] = [g EXCEPT !.onChats = c, !.due = d]]
  BY <1>3
<1> DEFINE w == [g EXCEPT !.onChats = c, !.due = d]
<1>5. /\ w \in Page /\ w.lib = g.lib /\ w.full = g.full /\ w.chats = g.chats
      /\ w.active = g.active /\ w.read = g.read /\ w.dots = g.dots /\ w.late = g.late
  BY <1>2 DEF Page
<1>6. tab' = [tab EXCEPT ![t] = w]
  BY <1>4
<1> HIDE DEF w
<1>7. w.full /\ ~w.late => Dotted(mail, w)
  BY <1>2, <1>5 DEF Dotted
<1> HIDE DEF g
<1> QED BY <1>1, <1>2, <1>5, <1>6, <1>7, ReplacedPreserves

LEMMA FillsPreserve ==
  ASSUME UnreadInv, NEW t \in Tabs, StartFill(t) \/ FillThrows(t)
  PROVE  UnreadInv'
<1> DEFINE g == tab[t]
<1>1. /\ tab[t] # None /\ mail' = mail /\ stored' = stored /\ rendered' = rendered
      /\ settled' = settled /\ acts' \in 0..MaxActs
  <2>1. acts' \in 0..MaxActs
    BY UnreadAssumption DEF StartFill, FillThrows, Act, UnreadInv, TypeOK
  <2> QED BY <2>1 DEF StartFill, FillThrows
<1>2. /\ g \in Page /\ g.active \in ToSet(g.chats) \union {None} /\ g.lib <= Len(mail)
      /\ Within(g.read) /\ (g.full /\ ~g.late => Dotted(mail, g))
      /\ Backed(mail, rendered \union settled, g.read)
      /\ stored \in [chats : ChatLists, read : Cursors]
      /\ tab \in [Tabs -> Page \union {None}]
  BY <1>1, PageIs DEF UnreadInv, TypeOK, AllBacked
<1>3. PICK fills \in SUBSET Nat : tab' = [tab EXCEPT ![t] = [g EXCEPT !.fills = fills]]
  <2>1. CASE StartFill(t)
    <3>1. g.fills \union {0} \in SUBSET Nat
      BY <1>2 DEF Page
    <3>2. tab' = [tab EXCEPT ![t] = [g EXCEPT !.fills = g.fills \union {0}]]
      BY <1>2, <2>1 DEF StartFill, Page
    <3> QED BY <3>1, <3>2
  <2>2. CASE FillThrows(t)
    <3>1. PICK c \in g.fills : tab' = [tab EXCEPT ![t].fills = @ \ {c}]
      BY <2>2 DEF FillThrows
    <3>2. g.fills \ {c} \in SUBSET Nat
      BY <1>2 DEF Page
    <3>3. tab' = [tab EXCEPT ![t] = [g EXCEPT !.fills = g.fills \ {c}]]
      BY <1>2, <3>1 DEF Page
    <3> QED BY <3>2, <3>3
  <2> QED BY <2>1, <2>2
<1> DEFINE w == [g EXCEPT !.fills = fills]
<1>5. /\ w \in Page /\ w.lib = g.lib /\ w.full = g.full /\ w.chats = g.chats
      /\ w.active = g.active /\ w.read = g.read /\ w.dots = g.dots /\ w.late = g.late
  BY <1>2, <1>3 DEF Page
<1>6. tab' = [tab EXCEPT ![t] = w]
  BY <1>3
<1> HIDE DEF w
<1>7. w.full /\ ~w.late => Dotted(mail, w)
  BY <1>2, <1>5 DEF Dotted
<1> HIDE DEF g
<1> QED BY <1>1, <1>2, <1>5, <1>6, <1>7, ReplacedPreserves

LEMMA ResetPreserves ==
  ASSUME UnreadInv, NEW t \in Tabs, Reset(t)
  PROVE  UnreadInv'
<1> DEFINE g == tab[t]
           none == [p \in Peers |-> None]
           x == [g EXCEPT !.lib = 0]
           y == [x EXCEPT !.full = FALSE]
           z == [y EXCEPT !.read = none]
           w == [z EXCEPT !.late = FALSE]
<1>1. /\ tab[t] # None /\ mail' = mail /\ rendered' = rendered /\ settled' = settled
      /\ tab' = [tab EXCEPT ![t].lib = 0, ![t].full = FALSE, ![t].read = none,
                            ![t].late = FALSE]
      /\ stored' = [stored EXCEPT !.read = none] /\ acts' \in 0..MaxActs
  <2>1. Act
    BY DEF Reset
  <2> QED BY <2>1, ActIs DEF Reset
<1>2. /\ g \in Page /\ g.active \in ToSet(g.chats) \union {None} /\ Len(mail) \in 0..MaxId
      /\ stored \in [chats : ChatLists, read : Cursors]
      /\ tab \in [Tabs -> Page \union {None}]
  BY <1>1, PageIs DEF UnreadInv, TypeOK
<1>3. none \in Cursors /\ \A p \in Peers : none[p] = None
  BY DEF Cursors
<1>4. tab' = [tab EXCEPT ![t] = w]
  <2> HIDE DEF none
  <2>1. tab' = [[[[tab EXCEPT ![t] = x] EXCEPT ![t] = y] EXCEPT ![t] = z] EXCEPT ![t] = w]
    BY <1>1, <1>2
  <2> QED BY <2>1
<1> HIDE DEF none
<1>5. /\ x \in Page /\ x.lib = 0 /\ x.chats = g.chats /\ x.active = g.active
  BY <1>2, UnreadAssumption DEF Page
<1> HIDE DEF x
<1>6. y \in Page /\ y.lib = 0 /\ y.full = FALSE /\ y.chats = g.chats /\ y.active = g.active
  BY <1>5 DEF Page
<1> HIDE DEF y
<1>13. /\ z \in Page /\ z.lib = 0 /\ z.full = FALSE /\ z.read = none /\ z.chats = g.chats
       /\ z.active = g.active
  BY <1>3, <1>6 DEF Page
<1> HIDE DEF z
<1>7. /\ w \in Page /\ w.lib = 0 /\ w.full = FALSE /\ w.read = none
      /\ w.active \in ToSet(w.chats) \union {None}
  BY <1>2, <1>13 DEF Page
<1> HIDE DEF w
<1>8. Within(w.read)
  BY <1>3, <1>7 DEF Within
<1>9. Backed(mail, rendered \union settled, w.read)
  <2>1. \A i \in 1..Len(mail) : mail[i] \in Peers
    BY ElementOfSeq DEF UnreadInv, TypeOK
  <2> QED BY <1>3, <1>7, <2>1 DEF Backed
<1>10. stored' \in [chats : ChatLists, read : Cursors] /\ stored'.read = w.read
  BY <1>1, <1>2, <1>3, <1>7
<1>11. w.lib <= Len(mail)
  BY <1>2, <1>7
<1> QED BY <1>1, <1>4, <1>7, <1>8, <1>9, <1>10, <1>11, ReplacedPreserves

LEMMA InitInv ==
  ASSUME Init
  PROVE  UnreadInv
<1> DEFINE read == [p \in Peers |-> None]
           g == [t \in Tabs |-> None]
<1>1. /\ mail = <<>> /\ stored = [chats |-> <<>>, read |-> read]
      /\ tab = g /\ acts = 0 /\ rendered = {} /\ settled = {}
  BY DEF Init
<1>2. read \in Cursors /\ \A p \in Peers : read[p] = None
  BY DEF Cursors
<1>3. <<>> \in ChatLists /\ <<>> \in Seq(Peers) /\ Len(<<>>) = 0
  BY EmptySeq DEF ChatLists, IsInjective
<1>4. \A t \in Tabs : tab[t] = None
  BY <1>1
<1>5. g \in [Tabs -> Page \union {None}]
  OBVIOUS
<1> HIDE DEF read, g
<1>6. stored \in [chats : ChatLists, read : Cursors] /\ stored.read = read
  BY <1>1, <1>2, <1>3
<1>7. TypeOK
  BY <1>1, <1>3, <1>4, <1>5, <1>6, UnreadAssumption DEF TypeOK
<1>8. Loaded
  BY <1>2, <1>4, <1>6 DEF Loaded, Within
<1>9. AllDotted
  BY <1>4 DEF AllDotted
<1>10. AllBacked
  BY <1>1, <1>3, <1>4 DEF AllBacked, Backed
<1> QED BY <1>7, <1>8, <1>9, <1>10 DEF UnreadInv

\* The handlers that render the page at their end.
Renders(t) ==
  \/ BackfillEnd(t) \/ Pull(t) \/ Redraw(t) \/ OpenChatsView(t) \/ PopStatePaints(t)
  \/ \E p \in Peers : PickChat(t, p) \/ CloseChat(t, p) \/ OpenChat(t, p)

LEMMA RendersIs ==
  ASSUME UnreadInv, NEW t \in Tabs, Renders(t)
  PROVE  tab[t] # None /\ Rendered(t) /\ acts' \in 0..MaxActs
<1>0. acts \in 0..MaxActs
  BY DEF UnreadInv, TypeOK
<1>1. CASE BackfillEnd(t)
  BY <1>0, <1>1, BackfillEndRenders DEF BackfillEnd
<1>2. CASE Pull(t)
  BY <1>0, <1>2, PullRenders DEF Pull
<1>3. CASE OpenChatsView(t)
  BY <1>3, OpenChatsViewRenders, ActIs DEF OpenChatsView
<1>4. CASE PopStatePaints(t)
  BY <1>0, <1>4, PopStatePaintsRenders DEF PopStatePaints
<1>5. ASSUME NEW p \in Peers, PickChat(t, p)
      PROVE  tab[t] # None /\ Rendered(t) /\ acts' \in 0..MaxActs
  BY <1>5, PickChatRenders, ActIs DEF PickChat
<1>6. ASSUME NEW p \in Peers, CloseChat(t, p)
      PROVE  tab[t] # None /\ Rendered(t) /\ acts' \in 0..MaxActs
  BY <1>6, CloseChatRenders, ActIs DEF CloseChat
<1>7. ASSUME NEW p \in Peers, OpenChat(t, p)
      PROVE  tab[t] # None /\ Rendered(t) /\ acts' \in 0..MaxActs
  BY <1>7, OpenChatRenders, ActIs DEF OpenChat
<1>8. CASE Redraw(t)
  BY <1>0, <1>8, RedrawRenders DEF Redraw
<1> QED BY <1>1, <1>2, <1>3, <1>4, <1>5, <1>6, <1>7, <1>8 DEF Renders

LEMMA NextCases ==
  ASSUME Next
  PROVE  \/ \E p \in Peers : Arrive(p)
         \/ \E t \in Tabs : Renders(t) \/ BackfillPage(t) \/ StartFill(t) \/ FillThrows(t)
                            \/ Load(t) \/ OpenOtherView(t) \/ PopState(t) \/ Reset(t)
BY DEF Next, Renders

LEMMA NextInv ==
  ASSUME UnreadInv, [Next]_vars
  PROVE  UnreadInv'
<1>1. CASE UNCHANGED vars
  BY <1>1 DEF vars, UnreadInv, TypeOK, Loaded, Within, AllDotted, Dotted, AllBacked, Backed
<1>2. ASSUME NEW p \in Peers, Arrive(p) PROVE UnreadInv'
  BY <1>2, ArrivePreserves
<1>3. ASSUME NEW t \in Tabs, Renders(t) PROVE UnreadInv'
  BY <1>3, RendersIs, RenderedPreserves
<1>4. ASSUME NEW t \in Tabs, BackfillPage(t) PROVE UnreadInv'
  BY <1>4, BackfillPagePreserves
<1>5. ASSUME NEW t \in Tabs, Load(t) PROVE UnreadInv'
  BY <1>5, LoadPreserves
<1>6. ASSUME NEW t \in Tabs, OpenOtherView(t) \/ PopState(t) PROVE UnreadInv'
  BY <1>6, ViewPreserves
<1>7. ASSUME NEW t \in Tabs, Reset(t) PROVE UnreadInv'
  BY <1>7, ResetPreserves
<1>8. ASSUME NEW t \in Tabs, StartFill(t) \/ FillThrows(t) PROVE UnreadInv'
  BY <1>8, FillsPreserve
<1> QED BY <1>1, <1>2, <1>3, <1>4, <1>5, <1>6, <1>7, <1>8, NextCases

-----------------------------------------------------------------------------
(* Cursors never go back                                                   *)

Advances(t) ==
  \A p \in Peers :
    LET old == tab[t].read[p]
        new == tab'[t].read[p]
    IN old # None /\ (new = None \/ new < old) => old > Newest(tab[t], p)

LEMMA SameCursorsAdvance ==
  ASSUME UnreadInv, NEW t \in Tabs, tab[t] # None, tab'[t].read = tab[t].read
  PROVE  Advances(t)
<1>1. tab[t].read \in Cursors
  BY PageIs, PageTypes
<1>2. \A p \in Peers : tab[t].read[p] # None => ~(tab[t].read[p] < tab[t].read[p])
  BY <1>1, UnreadAssumption DEF Cursors
<1> QED BY <1>2 DEF Advances

LEMMA RenderedAdvances ==
  ASSUME UnreadInv, NEW t \in Tabs, tab[t] # None, Rendered(t)
  PROVE  Advances(t) /\ \A s \in Tabs : s # t => tab'[s] = tab[s]
<1>1. PICK u, w : Ready(t, u) /\ Painted(u, w) /\ BecomeShown(t, w)
  BY DEF Rendered
<1>2. /\ u \in Page /\ w \in Page /\ w.lib = u.lib
      /\ \A p \in Peers :
           \/ w.read[p] = tab[t].read[p]
           \/ /\ w.read[p] = Newest(w, p) /\ w.read[p] \in 0..w.lib
              /\ tab[t].read[p] = None \/ (p = w.active /\ w.onChats)
  BY <1>1, RenderedCursors
<1>3. /\ tab' = [tab EXCEPT ![t] = w] /\ tab \in [Tabs -> Page \union {None}]
  BY <1>1 DEF BecomeShown, Become, UnreadInv, TypeOK
<1>4. tab'[t] = w /\ \A s \in Tabs : s # t => tab'[s] = tab[s]
  BY <1>3
<1>5. ASSUME NEW p \in Peers, tab[t].read[p] # None, ~(tab[t].read[p] > Newest(tab[t], p))
      PROVE  w.read[p] # None /\ ~(w.read[p] < tab[t].read[p])
  <2> DEFINE r == tab[t].read[p]
             old == Newest(tab[t], p)
             new == Newest(w, p)
  <2>1. r \in Nat
    <3>1. tab[t].read \in Cursors
      BY PageIs, PageTypes
    <3> QED BY <1>5, <3>1, UnreadAssumption DEF Cursors
  <2>2. CASE w.read[p] = r
    BY <1>5, <2>1, <2>2
  <2>3. CASE w.read[p] # r
    <3>1. w.read[p] = new /\ new \in 0..w.lib
      BY <1>2, <2>3
    <3>2. tab[t].lib \in Nat /\ w.lib \in Nat /\ tab[t].lib <= w.lib
      BY <1>1, <1>2, PageIs, PageTypes DEF Ready
    <3>3. old \in From(tab[t], p) \union {0} /\ old \in 0..tab[t].lib
      BY <3>2, NewestIs
    <3>4. From(tab[t], p) \subseteq From(w, p)
      BY <3>2 DEF From
    <3>5. \A i \in From(w, p) : i <= new
      BY <3>2, NewestIs
    <3> HIDE DEF old, new
    <3>6. new \in Nat /\ old \in Nat
      BY <3>1, <3>2, <3>3
    <3>7. old <= new
      BY <3>3, <3>4, <3>5, <3>6
    <3>8. ~(r > old)
      BY <1>5 DEF old
    <3>9. ~(new < r)
      <4> HIDE DEF r
      <4> QED BY <2>1, <3>6, <3>7, <3>8
    <3>10. new # None
      BY <3>6, UnreadAssumption
    <3> QED BY <3>1, <3>9, <3>10
  <2> QED BY <2>2, <2>3
<1> QED BY <1>4, <1>5 DEF Advances

LEMMA NextAdvances ==
  ASSUME UnreadInv, Next, NEW s \in Tabs
  PROVE  tab[s] = None \/ Load(s) \/ Reset(s) \/ Advances(s)
<1> SUFFICES ASSUME tab[s] # None, ~Load(s), ~Reset(s) PROVE Advances(s)
  OBVIOUS
<1>0. tab \in [Tabs -> Page \union {None}] /\ tab[s] \in Page
  BY PageIs DEF UnreadInv, TypeOK
<1>1. ASSUME tab'[s] = tab[s] PROVE Advances(s)
  BY <1>1, SameCursorsAdvance
<1>2. ASSUME NEW p \in Peers, Arrive(p) PROVE Advances(s)
  BY <1>1, <1>2 DEF Arrive
<1>3. ASSUME NEW t \in Tabs, Renders(t) PROVE Advances(s)
  <2>1. Advances(t) /\ \A x \in Tabs : x # t => tab'[x] = tab[x]
    BY <1>3, RendersIs, RenderedAdvances
  <2> QED BY <1>1, <2>1
<1>4. ASSUME NEW t \in Tabs, BackfillPage(t) PROVE Advances(s)
  <2>1. PICK w : BatchMerged(t, w) /\ Become(t, w)
    BY <1>4, BackfillPageIs
  <2>2. tab' = [tab EXCEPT ![t] = w] /\ w.read = tab[t].read
    BY <2>1 DEF BatchMerged, Become
  <2>3. tab'[s].read = tab[s].read
    BY <1>0, <2>2
  <2> QED BY <2>3, SameCursorsAdvance
<1>5. ASSUME NEW t \in Tabs, Load(t) PROVE Advances(s)
  <2>1. \A x \in Tabs : x # t => tab'[x] = tab[x]
    BY <1>0, <1>5 DEF Load
  <2> QED BY <1>1, <1>5, <2>1
<1>6. ASSUME NEW t \in Tabs, Reset(t) PROVE Advances(s)
  <2>1. \A x \in Tabs : x # t => tab'[x] = tab[x]
    BY <1>0, <1>6 DEF Reset
  <2> QED BY <1>1, <1>6, <2>1
<1>7. ASSUME NEW t \in Tabs, OpenOtherView(t) \/ PopState(t) PROVE Advances(s)
  <2>1. \A x \in Tabs : x # t => tab'[x] = tab[x]
    BY <1>0, <1>7 DEF OpenOtherView, PopState
  <2>2. tab'[t].read = tab[t].read
    <3>1. tab[t] \in Page
      BY <1>7, PageIs DEF OpenOtherView, PopState
    <3> QED BY <1>0, <1>7, <3>1 DEF OpenOtherView, PopState, Page
  <2> QED BY <1>1, <2>1, <2>2, SameCursorsAdvance
<1>8. ASSUME NEW t \in Tabs, StartFill(t) \/ FillThrows(t) PROVE Advances(s)
  <2>1. \A x \in Tabs : x # t => tab'[x] = tab[x]
    BY <1>0, <1>8 DEF StartFill, FillThrows
  <2>2. tab'[t].read = tab[t].read
    <3>1. tab[t] \in Page
      BY <1>8, PageIs DEF StartFill, FillThrows
    <3> QED BY <1>0, <1>8, <3>1 DEF StartFill, FillThrows, Page
  <2> QED BY <1>1, <2>1, <2>2, SameCursorsAdvance
<1> QED BY <1>2, <1>3, <1>4, <1>5, <1>6, <1>7, <1>8, NextCases

-----------------------------------------------------------------------------
(* Theorems                                                                *)

\* However tabs overwrite each other's storage: pages and storage are well
\* formed, point at mail that exists, and dots and cursors are as they should.
THEOREM UnreadInvariant == Spec => []UnreadInv
<1>1. UnreadInv /\ [Next]_vars => UnreadInv'
  BY NextInv
<1> QED BY <1>1, InitInv, PTL DEF Spec

\* The variables keep their types: among them, that no sender has two threads
\* in a page, and that the active thread is one of the open ones.
THEOREM TypeCorrect == Spec => []TypeOK
<1>1. UnreadInv => TypeOK
  BY DEF UnreadInv
<1> QED BY <1>1, UnreadInvariant, PTL

\* For any number of tabs that overwrite each other's cursors: what counts as
\* read was rendered in its thread, or was there when its sender got a cursor.
THEOREM ReadWasRendered == Spec => []ReadOnlyIfRendered
<1>1. UnreadInv => ReadOnlyIfRendered
  BY DEF UnreadInv, AllBacked, Backed, ReadOnlyIfRendered
<1> QED BY <1>1, UnreadInvariant, PTL

\* Whatever handler painted last, the dots are those of the unread threads, up to
\* the one of the active thread, unless a page of a second backfill came later.
THEOREM DotsTrue == Spec => []DotsFollow
<1>1. UnreadInv => DotsFollow
  <2> SUFFICES ASSUME UnreadInv, NEW t \in Tabs, tab[t] # None, tab[t].full, ~tab[t].late
               PROVE  LET v == tab[t]
                          unread == {p \in ToSet(v.chats) : HasUnread(v, p)}
                      IN unread \subseteq v.dots /\ v.dots \subseteq unread \union {v.active}
    BY DEF DotsFollow
  <2>1. Dotted(mail, tab[t])
    BY PageIs
  <2> QED BY <2>1 DEF Dotted, HasUnread, From
<1> QED BY <1>1, UnreadInvariant, PTL

\* In a page that is loaded up to its cursor, no step but a new load or session
\* moves the cursor back.
THEOREM NoCursorBack == Spec => CursorsAdvance
<1>1. UnreadInv /\ [Next]_vars =>
        [\A t \in Tabs : tab[t] # None =>
           \/ \A p \in Peers :
                LET old == tab[t].read[p]
                    new == tab'[t].read[p]
                IN old # None /\ (new = None \/ new < old) => old > Newest(tab[t], p)
           \/ Load(t) \/ Reset(t)]_vars
  BY NextAdvances DEF Advances
<1> QED BY <1>1, UnreadInvariant, PTL DEF Spec, CursorsAdvance
=============================================================================
