------------------------- MODULE NotificationsProofs ------------------------
(***************************************************************************)
(* Notifications for any number of tabs, messages and servers: a message   *)
(* is repeated only in the batch of a tab that was behind, and on the      *)
(* first server none is forgotten, however the tabs pull, claim, notify,   *)
(* open and close.                                                         *)
(***************************************************************************)
EXTENDS Notifications, FiniteSetTheorems, SequenceTheorems, TLAPS

-----------------------------------------------------------------------------
(* Sets of numbers, and sequences made of them                             *)

\* A finite set of numbers has a greatest one: of the sets of what is greater
\* than one of them, take one with no smaller such set.
LEMMA MaxExists ==
  ASSUME NEW S \in SUBSET Nat, IsFiniteSet(S), S # {}
  PROVE  \E i \in S : \A j \in S : j <= i
<1> DEFINE Above(i) == {j \in S : j > i}
           T == {Above(i) : i \in S}
<1>1. T # {} /\ T \subseteq FiniteSubsetsOf(S)
  <2>1. \A i \in S : Above(i) \in SUBSET S /\ IsFiniteSet(Above(i))
    BY FS_Subset
  <2> QED BY <2>1 DEF FiniteSubsetsOf
<1>2. PICK x \in T : \A y \in T : <<y, x>> \notin StrictSubsetOrdering(S)
  BY <1>1, FS_StrictSubsetOrderingWellFounded, WFMin
<1>3. PICK i \in S : x = Above(i)
  OBVIOUS
<1>4. ASSUME NEW j \in S, j > i PROVE FALSE
  <2>0. i \in Nat /\ j \in Nat /\ \A k \in S : k \in Nat
    OBVIOUS
  <2>1. Above(j) \in T /\ Above(j) \subseteq Above(i) /\ j \in Above(i) /\ j \notin Above(j)
    <3>1. \A k \in Above(j) : k \in Above(i)
      BY <1>4, <2>0
    <3>2. j \in Above(i) /\ j \notin Above(j)
      BY <1>4, <2>0
    <3>3. Above(j) \in T
      OBVIOUS
    <3> QED BY <3>1, <3>2, <3>3
  <2>2. Above(j) \subseteq S /\ Above(i) \subseteq S /\ Above(j) # Above(i)
    BY <2>1
  <2>3. <<Above(j), Above(i)>> \in StrictSubsetOrdering(S)
    BY <2>1, <2>2 DEF StrictSubsetOrdering
  <2> QED BY <1>2, <1>3, <2>1, <2>3
<1> QED BY <1>4

\* The places of a finite set are its elements in ascending order: such a
\* sequence exists, for the rank of an element is one to one.
LEMMA AscendingIs ==
  ASSUME NEW S \in SUBSET Nat, IsFiniteSet(S)
  PROVE  /\ Cardinality(S) \in Nat
         /\ Ascending(S) \in [1..Cardinality(S) -> S]
         /\ \A i, j \in 1..Cardinality(S) : i < j => Ascending(S)[i] < Ascending(S)[j]
         /\ \A x \in S : \E i \in 1..Cardinality(S) : Ascending(S)[i] = x
<1> DEFINE n == Cardinality(S)
           UpTo(x) == {y \in S : y <= x}
           rank == [x \in S |-> Cardinality(UpTo(x))]
<1>0. n \in Nat /\ \A x \in S : x \in Nat
  BY FS_CardinalityType
<1>1. \A x \in S : IsFiniteSet(UpTo(x)) /\ Cardinality(UpTo(x)) \in 1..n
  <2> SUFFICES ASSUME NEW x \in S
               PROVE  IsFiniteSet(UpTo(x)) /\ Cardinality(UpTo(x)) \in 1..n
    OBVIOUS
  <2>1. IsFiniteSet(UpTo(x)) /\ Cardinality(UpTo(x)) <= n
    BY FS_Subset
  <2>2. Cardinality(UpTo(x)) \in Nat
    BY <2>1, FS_CardinalityType
  <2>3. UpTo(x) # {}
    BY <1>0
  <2>4. Cardinality(UpTo(x)) # 0
    BY <2>1, <2>3, FS_EmptySet
  <2> QED BY <1>0, <2>1, <2>2, <2>4
<1>2. \A x, y \in S : x < y => rank[x] < rank[y]
  <2> SUFFICES ASSUME NEW x \in S, NEW y \in S, x < y
               PROVE  Cardinality(UpTo(x)) < Cardinality(UpTo(y))
    OBVIOUS
  <2>1. UpTo(x) \subseteq UpTo(y) /\ y \in UpTo(y) /\ y \notin UpTo(x)
    <3>1. x \in Nat /\ y \in Nat
      BY <1>0
    <3>2. y <= y /\ ~(y <= x)
      BY <3>1
    <3>3. ASSUME NEW z \in S, z <= x PROVE z <= y
      <4>1. z \in Nat
        BY <1>0
      <4> QED BY <3>1, <3>3, <4>1
    <3> QED BY <3>2, <3>3
  <2>2. /\ Cardinality(UpTo(x)) <= Cardinality(UpTo(y))
        /\ Cardinality(UpTo(x)) # Cardinality(UpTo(y))
    BY <1>1, <2>1, FS_Subset
  <2>3. Cardinality(UpTo(x)) \in Nat /\ Cardinality(UpTo(y)) \in Nat
    BY <1>1, <1>0
  <2> QED BY <2>2, <2>3
<1>3. rank \in [S -> 1..n]
  BY <1>1
<1> HIDE DEF rank
<1>4. \A x \in S : rank[x] \in Nat
  BY <1>0, <1>3
<1>5. \A x, y \in S : rank[x] = rank[y] => x = y
  BY <1>0, <1>2, <1>4
<1>6. IsFiniteSet(1..n) /\ Cardinality(1..n) = n
  BY <1>0, FS_Interval
<1>7. \A i \in 1..n : \E x \in S : rank[x] = i
  <2>1. rank \in Injection(S, 1..n)
    BY <1>3, <1>5 DEF Injection, IsInjective
  <2>2. rank \in Surjection(S, 1..n)
    BY <1>6, <2>1, FS_Injection
  <2> QED BY <2>2 DEF Surjection
<1> DEFINE at == [i \in 1..n |-> CHOOSE x \in S : rank[x] = i]
<1>8. at \in [1..n -> S] /\ \A i \in 1..n : rank[at[i]] = i
  BY <1>7
<1> HIDE DEF at
<1>9. \A i, j \in 1..n : i < j => at[i] < at[j]
  <2> SUFFICES ASSUME NEW i \in 1..n, NEW j \in 1..n, i < j PROVE at[i] < at[j]
    OBVIOUS
  <2>1. at[i] \in S /\ at[j] \in S /\ rank[at[i]] = i /\ rank[at[j]] = j
    BY <1>8
  <2>2. at[i] \in Nat /\ at[j] \in Nat
    BY <1>0, <2>1
  <2> QED BY <1>2, <2>1, <2>2
<1>10. DOMAIN at = 1..n
  BY <1>8
<1>11. \E s \in [1..n -> S] : \A i, j \in DOMAIN s : i < j => s[i] < s[j]
  BY <1>8, <1>9, <1>10
<1>12. /\ Ascending(S) \in [1..n -> S]
       /\ \A i, j \in DOMAIN Ascending(S) : i < j => Ascending(S)[i] < Ascending(S)[j]
  BY <1>11 DEF Ascending
<1> DEFINE s == Ascending(S)
<1> HIDE DEF s
<1>13. s \in [1..n -> S] /\ \A i, j \in 1..n : i < j => s[i] < s[j]
  BY <1>12 DEF s
<1>14. \A i, j \in 1..n : s[i] = s[j] => i = j
  <2> SUFFICES ASSUME NEW i \in 1..n, NEW j \in 1..n, s[i] = s[j] PROVE i = j
    OBVIOUS
  <2>1. s[i] \in Nat /\ s[j] \in Nat
    BY <1>0, <1>13
  <2>2. i \in Int /\ j \in Int
    BY <1>0
  <2> QED BY <1>13, <2>1, <2>2
<1>15. s \in Injection(1..n, S)
  BY <1>13, <1>14 DEF Injection, IsInjective
<1>16. s \in Surjection(1..n, S)
  BY <1>6, <1>15, FS_Injection
<1>17. \A x \in S : \E i \in 1..n : s[i] = x
  BY <1>16 DEF Surjection
<1> QED BY <1>0, <1>13, <1>17 DEF s

\* What is left of a queue is of the same kind, in the same order.
LEMMA KeepIs ==
  ASSUME NEW X, NEW queue \in Seq(X), NEW places \in SUBSET DOMAIN queue
  PROVE  LET at == Ascending(places)
             n == Cardinality(places)
         IN /\ Keep(queue, places) \in Seq(X) /\ Len(Keep(queue, places)) = n /\ n \in Nat
            /\ \A i \in 1..n : at[i] \in places /\ Keep(queue, places)[i] = queue[at[i]]
            /\ \A i, j \in 1..n : i < j => at[i] < at[j]
            /\ \A k \in places : \E i \in 1..n : at[i] = k
<1>1. Len(queue) \in Nat /\ DOMAIN queue = 1..Len(queue) /\ queue \in [1..Len(queue) -> X]
  BY LenProperties
<1>2. IsFiniteSet(places) /\ places \in SUBSET Nat
  <2>1. IsFiniteSet(1..Len(queue))
    BY <1>1, FS_Interval
  <2> QED BY <1>1, <2>1, FS_Subset
<1> DEFINE at == Ascending(places)
           n == Cardinality(places)
<1>3. /\ n \in Nat /\ at \in [1..n -> places]
      /\ \A i, j \in 1..n : i < j => at[i] < at[j]
      /\ \A k \in places : \E i \in 1..n : at[i] = k
  BY <1>2, AscendingIs
<1>4. Keep(queue, places) = [i \in 1..n |-> queue[at[i]]]
  BY DEF Keep
<1> HIDE DEF at, n
<1>5. \A i \in 1..n : queue[at[i]] \in X
  BY <1>1, <1>3
<1>6. Keep(queue, places) \in [1..n -> X]
  BY <1>4, <1>5
<1>7. Keep(queue, places) \in Seq(X) /\ Len(Keep(queue, places)) = n
  <2>1. Keep(queue, places) \in Seq(X)
    BY <1>3, <1>6, SeqDef
  <2>2. DOMAIN Keep(queue, places) = 1..n /\ Len(Keep(queue, places)) \in Nat
        /\ DOMAIN Keep(queue, places) = 1..Len(Keep(queue, places))
    BY <1>6, <2>1, LenProperties
  <2> QED BY <1>3, <2>1, <2>2
<1> QED BY <1>3, <1>4, <1>7 DEF at, n

\* A request claims the greatest of its ids.
LEMMA SlotIs ==
  ASSUME NEW r \in Requests
  PROVE  /\ Slot(r) \in r.ids /\ Slot(r) \in 1..MaxId
         /\ r.ids \subseteq 1..MaxId /\ \A id \in r.ids : id <= Slot(r)
<1>1. r.ids \in SUBSET Nat /\ r.ids # {} /\ r.ids \subseteq 1..MaxId
  BY NotificationsAssumption DEF Requests, Ids
<1>2. IsFiniteSet(r.ids)
  <2>1. IsFiniteSet(1..MaxId)
    BY FS_Interval, NotificationsAssumption
  <2> QED BY <1>1, <2>1, FS_Subset
<1>3. \E i \in r.ids : \A j \in r.ids : j <= i
  BY <1>1, <1>2, MaxExists
<1>4. \E i \in r.ids : \A j \in r.ids : i >= j
  BY <1>1, <1>3
<1>5. Slot(r) \in r.ids /\ \A j \in r.ids : Slot(r) >= j
  BY <1>4 DEF Slot, Max
<1> QED BY <1>1, <1>5

\* A request for one message, or for enough of them to make a batch.
Sized(r) == Cardinality(r.ids) >= CoalesceMin \/ \E id : r.ids = {id}

\* A tab asks once for each message it has to notify about, the lower ids not
\* after the higher ones.
LEMMA OffersIs ==
  ASSUME NEW t \in Tabs, NEW ids \in SUBSET Ids, srv \in 0..MaxSwitches,
         NEW o, o = Offers(t, ids)
  PROVE  /\ o \in Seq(Requests)
         /\ \A i \in 1..Len(o) : o[i].tab = t /\ o[i].srv = srv /\ o[i].ids \subseteq ids
         /\ \A i \in 1..Len(o) : \A id \in ids :
              id <= Slot(o[i]) => \E j \in 1..i : id \in o[j].ids
         /\ \A id \in ids : \E j \in 1..Len(o) : id \in o[j].ids
         /\ \A i \in 1..Len(o) : Sized(o[i])
         /\ \A i, j \in 1..Len(o) : i # j => o[i].ids \intersect o[j].ids = {}
<1>0. ids \in SUBSET Nat /\ IsFiniteSet(ids) /\ Cardinality(ids) \in Nat
  <2>1. ids \in SUBSET Nat /\ IsFiniteSet(1..MaxId)
    BY FS_Interval, NotificationsAssumption DEF Ids
  <2> QED BY <2>1, FS_Subset, FS_CardinalityType DEF Ids
<1>1. CASE Cardinality(ids) >= CoalesceMin
  <2> DEFINE r == Request(t, ids)
  <2>1. ids # {}
    BY <1>0, <1>1, FS_EmptySet, NotificationsAssumption
  <2>2. r \in Requests /\ r.tab = t /\ r.srv = srv /\ r.ids = ids
    BY <2>1 DEF Request, Requests
  <2>3. Offers(t, ids) = <<r>>
    BY <1>1 DEF Offers
  <2> HIDE DEF r
  <2>4. <<r>> \in Seq(Requests) /\ Len(<<r>>) = 1 /\ <<r>>[1] = r
    BY <2>2
  <2>5. Sized(r)
    BY <1>1, <2>2 DEF Sized
  <2> QED BY <2>2, <2>3, <2>4, <2>5
<1>2. CASE ~(Cardinality(ids) >= CoalesceMin)
  <2> DEFINE n == Cardinality(ids)
             at == Ascending(ids)
  <2>1. o = [i \in 1..n |-> Request(t, {at[i]})]
    BY <1>2 DEF Offers, Singles
  <2>2. /\ n \in Nat /\ at \in [1..n -> ids]
        /\ \A i, j \in 1..n : i < j => at[i] < at[j]
        /\ \A x \in ids : \E i \in 1..n : at[i] = x
    BY <1>0, AscendingIs
  <2> HIDE DEF at, n
  <2>3. ASSUME NEW i \in 1..n
        PROVE  /\ Request(t, {at[i]}) \in Requests
               /\ Request(t, {at[i]}).tab = t /\ Request(t, {at[i]}).srv = srv
               /\ Request(t, {at[i]}).ids = {at[i]}
    <3>1. at[i] \in ids
      BY <2>2
    <3>2. {at[i]} \in (SUBSET Ids) \ {{}}
      BY <3>1
    <3> QED BY <3>2 DEF Request, Requests
  <2>4. /\ o \in [1..n -> Requests]
        /\ \A i \in 1..n : o[i].tab = t /\ o[i].srv = srv /\ o[i].ids = {at[i]}
    BY <2>1, <2>3
  <2>5. o \in Seq(Requests)
    BY <2>2, <2>4, SeqDef
  <2>6. Len(o) = n
    <3>1. DOMAIN o = 1..n /\ Len(o) \in Nat /\ DOMAIN o = 1..Len(o)
      BY <2>4, <2>5, LenProperties
    <3> QED BY <2>2, <3>1
  <2>7. \A i \in 1..n : Slot(o[i]) = at[i]
    BY <2>4, SlotIs
  <2>8. ASSUME NEW i \in 1..n, NEW id \in ids, id <= Slot(o[i])
        PROVE  \E j \in 1..i : id \in o[j].ids
    <3>1. PICK j \in 1..n : at[j] = id
      BY <2>2
    <3>2. id \in Nat /\ at[i] \in Nat /\ id <= at[i]
      BY <1>0, <2>2, <2>7, <2>8
    <3>3. ~(i < j)
      BY <2>2, <3>1, <3>2
    <3>4. j \in 1..i
      BY <2>2, <3>3
    <3> QED BY <2>4, <3>1, <3>4
  <2>9. \A id \in ids : \E j \in 1..n : id \in o[j].ids
    BY <2>2, <2>4
  <2>10. \A i \in 1..n : o[i].ids \subseteq ids
    BY <2>2, <2>4
  <2>11. \A i \in 1..n : Sized(o[i])
    BY <2>4 DEF Sized
  <2>12. ASSUME NEW i \in 1..n, NEW j \in 1..n, i # j PROVE at[i] # at[j]
    <3>1. at[i] \in Nat /\ at[j] \in Nat
      BY <1>0, <2>2
    <3>2. i < j \/ j < i
      BY <2>2, <2>12
    <3>3. at[i] < at[j] \/ at[j] < at[i]
      BY <2>2, <3>2
    <3> QED BY <3>1, <3>3
  <2>13. \A i, j \in 1..n : i # j => o[i].ids \intersect o[j].ids = {}
    BY <2>4, <2>12
  <2> QED BY <2>1, <2>4, <2>5, <2>6, <2>8, <2>9, <2>10, <2>11, <2>13
<1> QED BY <1>1, <1>2

-----------------------------------------------------------------------------
(* The inductive invariant                                                 *)

\* The lock has one holder, and nobody moves the cursor it read.
Exclusive ==
  /\ \A g, h \in holders : g = h
  /\ \A h \in holders : h.cur = cursor

\* No request is of a server that is yet to come.
Dated ==
  /\ \A i \in DOMAIN waiting : waiting[i].srv <= srv
  /\ \A h \in holders : h.req.srv <= srv
  /\ \A r \in claimed \union shown \union dropped : r.srv <= srv

\* A claim that won is at the cursor or below, and alone with its id.
Distinct ==
  /\ \A r \in shown \union claimed : Slot(r) <= cursor
  /\ \A r, q \in shown \union claimed : r # q => Slot(r) # Slot(q)

\* The requests that hold the lock or have won.
Taken == {h.req : h \in holders} \union shown \union claimed

\* A tab has pulled what it asks for.
Pulled(r) ==
  r.srv = srv =>
    r.ids \subseteq 1..last /\ (r.tab \in open => r.ids \subseteq 1..seen[r.tab])

\* Two requests of one tab have no message in common.
Apart(r, q) == (r.tab = q.tab /\ r.srv = q.srv) => r.ids \intersect q.ids = {}

\* A tab asks once for a message: it has not pulled beyond lastMsgId, and what it
\* pulls is beyond lastMsgId.
Own ==
  /\ \A t \in open : seen[t] <= last
  /\ \A i \in DOMAIN waiting : Sized(waiting[i]) /\ Pulled(waiting[i])
  /\ \A r \in Taken : Sized(r) /\ Pulled(r)
  /\ \A i, j \in DOMAIN waiting : i # j => Apart(waiting[i], waiting[j])
  /\ \A i \in DOMAIN waiting : \A r \in Taken : Apart(waiting[i], r)
  /\ \A r, q \in Taken : r # q => Apart(r, q)

\* Message id of the first server was noticed, or is part of a claim that won.
Settled(id) ==
  \/ [srv |-> 0, id |-> id] \in noticed
  \/ \E r \in shown \union dropped \union claimed : r.srv = 0 /\ id \in r.ids

\* Message id is in a request of tab t that holds the lock or is one of the
\* first k that wait.
Asked(lock, queue, t, id, k) ==
  \/ \E h \in lock : h.req.tab = t /\ id \in h.req.ids
  \/ \E i \in 1..k : queue[i].tab = t /\ id \in queue[i].ids
Pending(t, id, k) == Asked(holders, waiting, t, id, k)

\* Nothing below the cursor is owed: a claim that loses may be dropped.
CursorSettled == \A id \in 1..cursor : Settled(id)

\* A tab asks in ascending order: what is below a request of its was settled,
\* is in that request, or in one of the same tab before it.
QueueSettled ==
  /\ \A h \in holders : \A id \in 1..Slot(h.req) : Settled(id) \/ id \in h.req.ids
  /\ \A i \in DOMAIN waiting : \A id \in 1..Slot(waiting[i]) :
       Settled(id) \/ Pending(waiting[i].tab, id, i)

\* What an open tab has pulled is settled or on its way.
SeenSettled ==
  \A t \in open : \A id \in 1..seen[t] : Settled(id) \/ Pending(t, id, Len(waiting))

\* The ids of the first server mean what the cursor means.
FirstServer == srv = 0 => CursorSettled /\ QueueSettled /\ SeenSettled

NotifInv == TypeOK /\ Exclusive /\ Dated /\ Distinct /\ Own /\ FirstServer

-----------------------------------------------------------------------------
(* Type correctness                                                        *)

LEMMA TypeInit == Init => TypeOK
<1> SUFFICES ASSUME Init PROVE TypeOK
  OBVIOUS
<1>1. waiting \in Seq(Requests)
  BY EmptySeq DEF Init
<1>2. 0 \in 0..MaxSwitches /\ 0 \in 0..MaxId /\ 0 \in 0..MaxOpens
  BY NotificationsAssumption
<1> QED BY <1>1, <1>2 DEF Init, TypeOK

LEMMA TypeStep == TypeOK /\ [Next]_vars => TypeOK'
<1> SUFFICES ASSUME TypeOK, [Next]_vars PROVE TypeOK'
  OBVIOUS
<1>0. /\ MaxId \in Nat /\ MaxOpens \in Nat /\ MaxSwitches \in Nat
      /\ srv \in 0..MaxSwitches /\ last \in 0..MaxId /\ cursor \in 0..MaxId
      /\ seen \in [Tabs -> 0..MaxId] /\ waiting \in Seq(Requests)
  BY NotificationsAssumption DEF TypeOK
<1>1. CASE Deliver
  BY <1>0, <1>1 DEF Deliver, TypeOK, past
<1>2. ASSUME NEW t \in Tabs, OpenTab(t) PROVE TypeOK'
  <2>1. On(1..last) \subseteq [srv : 0..MaxSwitches, id : Ids]
    BY <1>0 DEF On, Ids
  <2>2. opens' \in 0..MaxOpens
    BY <1>0, <1>2 DEF OpenTab, TypeOK
  <2> QED BY <1>2, <2>1, <2>2 DEF OpenTab, TypeOK, store
<1>3. ASSUME NEW t \in Tabs, CloseTab(t) PROVE TypeOK'
  <2>1. waiting' \in Seq(Requests)
    BY <1>0, <1>3, KeepIs DEF CloseTab
  <2> QED BY <1>3, <2>1 DEF CloseTab, TypeOK, store
<1>4. ASSUME NEW t \in Tabs, NEW n \in (seen[t] + 1)..last,
             NEW viewed \in SUBSET ((seen[t] + 1)..n), Pull(t, n, viewed)
      PROVE  TypeOK'
  <2>1. n \in 1..MaxId /\ (seen[t] + 1)..n \subseteq Ids
    BY <1>0 DEF Ids
  <2>2. Offers(t, ((seen[t] + 1)..n) \ viewed) \in Seq(Requests)
    BY <1>0, <2>1, OffersIs
  <2>3. waiting' \in Seq(Requests)
    BY <1>0, <1>4, <2>2, ConcatProperties DEF Pull
  <2>4. On(viewed) \subseteq [srv : 0..MaxSwitches, id : Ids]
    BY <1>0, <2>1 DEF On
  <2>5. seen' \in [Tabs -> 0..MaxId]
    BY <1>0, <1>4, <2>1 DEF Pull
  <2> QED BY <1>4, <2>3, <2>4, <2>5 DEF Pull, TypeOK, store
<1>5. CASE Grant
  <2>1. Head(waiting) \in Requests /\ waiting' \in Seq(Requests)
    BY <1>0, <1>5, HeadTailProperties DEF Grant
  <2>2. holders' \subseteq [req : Requests, cur : 0..MaxId]
    BY <1>0, <1>5, <2>1 DEF Grant
  <2> QED BY <1>5, <2>1, <2>2 DEF Grant, TypeOK, store, past
<1>6. ASSUME NEW h \in holders, Claim(h) PROVE TypeOK'
  <2>1. h.req \in Requests
    BY DEF TypeOK
  <2>2. Slot(h.req) \in 0..MaxId
    BY <1>0, <2>1, SlotIs
  <2>3. cursor' \in 0..MaxId /\ claimed' \subseteq Requests
    BY <1>6, <2>1, <2>2 DEF Claim, TypeOK
  <2> QED BY <1>6, <2>3 DEF Claim, TypeOK, store, past
<1>7. ASSUME NEW r \in claimed, Show(r) PROVE TypeOK'
  BY <1>7 DEF Show, TypeOK, store
<1>8. ASSUME NEW t \in Tabs, SwitchServer(t) PROVE TypeOK'
  BY <1>0, <1>8 DEF SwitchServer, TypeOK, past
<1>9. CASE UNCHANGED vars
  BY <1>9 DEF vars, store, past, TypeOK
<1> QED BY <1>1, <1>2, <1>3, <1>4, <1>5, <1>6, <1>7, <1>8, <1>9 DEF Next

-----------------------------------------------------------------------------
(* No slot twice                                                           *)

Claims == TypeOK /\ Exclusive /\ Dated /\ Distinct

LEMMA ClaimsInit == Init => Claims
<1> SUFFICES ASSUME Init PROVE Claims
  OBVIOUS
<1> QED BY TypeInit DEF Init, Claims, Exclusive, Dated, Distinct

LEMMA ClaimsStep == Claims /\ [Next]_vars => Claims'
<1> SUFFICES ASSUME Claims, [Next]_vars PROVE Claims'
  OBVIOUS
<1>0. TypeOK'
  BY TypeStep DEF Claims
<1> USE DEF Claims
<1>1. CASE UNCHANGED <<srv, cursor, waiting, holders, claimed, shown, dropped>>
  BY <1>0, <1>1 DEF Exclusive, Dated, Distinct
<1>2. ASSUME NEW t \in Tabs, CloseTab(t) PROVE Claims'
  <2>1. \A i \in DOMAIN waiting' : waiting'[i].srv <= srv
    <3> DEFINE places == {i \in DOMAIN waiting : waiting[i].tab # t}
    <3>1. /\ waiting' = Keep(waiting, places) /\ waiting \in Seq(Requests)
          /\ places \in SUBSET DOMAIN waiting
      BY <1>2 DEF CloseTab, TypeOK
    <3> HIDE DEF places
    <3>2. \A i \in 1..Len(waiting') : \E j \in DOMAIN waiting : waiting'[i] = waiting[j]
      BY <3>1, KeepIs
    <3>3. DOMAIN waiting' = 1..Len(waiting')
      BY <1>0, LenProperties DEF TypeOK
    <3> QED BY <3>2, <3>3 DEF Dated
  <2>2. /\ srv' = srv /\ cursor' = cursor /\ holders' \subseteq holders
        /\ claimed' \subseteq claimed /\ shown' = shown /\ dropped' \subseteq dropped \union claimed
    BY <1>2 DEF CloseTab, store
  <2> QED BY <1>0, <2>1, <2>2 DEF Exclusive, Dated, Distinct
<1>3. ASSUME NEW t \in Tabs, NEW n \in (seen[t] + 1)..last,
             NEW viewed \in SUBSET ((seen[t] + 1)..n), Pull(t, n, viewed)
      PROVE  Claims'
  <2> DEFINE ids == ((seen[t] + 1)..n) \ viewed
             o == Offers(t, ids)
  <2>1. /\ waiting \in Seq(Requests) /\ waiting' = waiting \o o
        /\ UNCHANGED <<srv, cursor, holders, claimed, shown, dropped>>
        /\ srv \in 0..MaxSwitches
    BY <1>3 DEF Pull, store, TypeOK
  <2>2. ids \in SUBSET Ids
    BY NotificationsAssumption DEF TypeOK, Ids
  <2> HIDE DEF ids
  <2>3. /\ o \in Seq(Requests)
        /\ \A i \in 1..Len(o) : o[i].tab = t /\ o[i].srv = srv /\ o[i].ids \subseteq ids
    BY <2>1, <2>2, OffersIs
  <2> HIDE DEF o
  <2>4. \A i \in DOMAIN waiting' : waiting'[i].srv <= srv
    <3>1. /\ Len(waiting) \in Nat /\ Len(o) \in Nat /\ DOMAIN waiting = 1..Len(waiting)
          /\ DOMAIN waiting' = 1..(Len(waiting) + Len(o))
          /\ \A i \in 1..(Len(waiting) + Len(o)) :
               waiting'[i] = IF i <= Len(waiting) THEN waiting[i] ELSE o[i - Len(waiting)]
      BY <2>1, <2>3, ConcatProperties, LenProperties
    <3>2. \A i \in 1..(Len(waiting) + Len(o)) :
            ~(i <= Len(waiting)) => i - Len(waiting) \in 1..Len(o)
      BY <3>1
    <3>3. srv \in Nat /\ srv <= srv
      BY <2>1, NotificationsAssumption
    <3> QED BY <2>3, <3>1, <3>2, <3>3 DEF Dated
  <2> QED BY <1>0, <2>1, <2>4 DEF Exclusive, Dated, Distinct
<1>4. CASE Grant
  <2>1. /\ waiting \in Seq(Requests) /\ waiting # <<>>
        /\ holders' = {[req |-> Head(waiting), cur |-> cursor]} /\ waiting' = Tail(waiting)
        /\ UNCHANGED <<srv, cursor, claimed, shown, dropped>>
    BY <1>4 DEF Grant, TypeOK, store, past
  <2>2. /\ Head(waiting) = waiting[1] /\ 1 \in DOMAIN waiting
        /\ \A i \in DOMAIN waiting' : i + 1 \in DOMAIN waiting /\ waiting'[i] = waiting[i + 1]
    BY <2>1
  <2> QED BY <1>0, <2>1, <2>2 DEF Exclusive, Dated, Distinct
<1>5. ASSUME NEW h \in holders, Claim(h) PROVE Claims'
  <2>1. h.req \in Requests /\ h.cur = cursor /\ cursor \in Nat /\ Slot(h.req) \in Nat
    BY NotificationsAssumption, SlotIs DEF TypeOK, Exclusive
  <2>2. /\ holders' = {} /\ UNCHANGED <<srv, waiting, shown, dropped>>
        /\ \/ UNCHANGED <<cursor, claimed>>
           \/ /\ Slot(h.req) > cursor /\ cursor' = Slot(h.req)
              /\ claimed' = claimed \union {h.req}
    BY <1>5, <2>1 DEF Claim, Exclusive, store, past
  <2>3. Exclusive'
    BY <2>2 DEF Exclusive
  <2>4. Dated'
    BY <2>2 DEF Dated
  <2>5. Distinct'
    <3>1. CASE UNCHANGED <<cursor, claimed>>
      BY <2>2, <3>1 DEF Distinct
    <3>2. CASE /\ Slot(h.req) > cursor /\ cursor' = Slot(h.req)
               /\ claimed' = claimed \union {h.req}
      <4>1. \A r \in shown \union claimed : Slot(r) \in Nat /\ Slot(r) < Slot(h.req)
        <5>1. \A r \in shown \union claimed : Slot(r) \in Nat
          BY NotificationsAssumption, SlotIs DEF TypeOK
        <5> QED BY <2>1, <3>2, <5>1 DEF Distinct
      <4> QED BY <2>1, <2>2, <3>2, <4>1 DEF Distinct
    <3> QED BY <2>2, <3>1, <3>2
  <2> QED BY <1>0, <2>3, <2>4, <2>5
<1>6. ASSUME NEW r \in claimed, Show(r) PROVE Claims'
  <2>1. /\ shown' \union claimed' = shown \union claimed
        /\ UNCHANGED <<srv, cursor, waiting, holders, dropped>>
    BY <1>6 DEF Show, store
  <2> QED BY <1>0, <2>1 DEF Exclusive, Dated, Distinct
<1>7. ASSUME NEW t \in Tabs, SwitchServer(t) PROVE Claims'
  <2>1. /\ srv' = srv + 1 /\ srv \in Nat
        /\ UNCHANGED <<cursor, waiting, holders, claimed, shown, dropped>>
    BY <1>7, NotificationsAssumption DEF SwitchServer, past, TypeOK
  <2>2. waiting = <<>> /\ holders = {} /\ DOMAIN waiting = {}
    BY <1>7 DEF SwitchServer
  <2>3. \A r \in claimed \union shown \union dropped : r.srv \in Nat
    BY NotificationsAssumption DEF TypeOK, Requests
  <2> QED BY <1>0, <2>1, <2>2, <2>3 DEF Exclusive, Dated, Distinct
<1>8. CASE Deliver \/ (\E t \in Tabs : OpenTab(t)) \/ UNCHANGED vars
  BY <1>1, <1>8 DEF Deliver, OpenTab, vars, store, past
<1> QED BY <1>2, <1>3, <1>4, <1>5, <1>6, <1>7, <1>8 DEF Next

-----------------------------------------------------------------------------
(* No message twice by one tab                                             *)

LEMMA OwnInit == Init => Own
<1> SUFFICES ASSUME Init PROVE Own
  OBVIOUS
<1>1. open = {} /\ DOMAIN waiting = {} /\ Taken = {}
  BY DEF Init, Taken
<1> QED BY <1>1 DEF Own

\* No request moves, or one moves from the lock to the claims; the tabs keep
\* what they have pulled.
LEMMA OwnCalm ==
  ASSUME TypeOK, Own, srv' = srv, waiting' = waiting, Taken' \subseteq Taken,
         last \in Nat, last' \in Nat, last <= last',
         \A t \in open' : \/ seen'[t] \in Nat /\ seen'[t] <= last' /\ last <= seen'[t]
                          \/ t \in open /\ seen'[t] = seen[t] /\ seen[t] \in Nat
  PROVE  Own'
<1>1. \A t \in open' : seen'[t] <= last'
  BY DEF Own
<1>2. ASSUME NEW r, Pulled(r) PROVE Pulled(r)'
  <2> SUFFICES ASSUME r.srv = srv
               PROVE  r.ids \subseteq 1..last'
                      /\ (r.tab \in open' => r.ids \subseteq 1..seen'[r.tab])
    BY DEF Pulled
  <2>1. r.ids \subseteq 1..last /\ (r.tab \in open => r.ids \subseteq 1..seen[r.tab])
    BY <1>2 DEF Pulled
  <2>2. \A id \in r.ids : id \in 1..last'
    BY <2>1
  <2>3. ASSUME r.tab \in open', NEW id \in r.ids PROVE id \in 1..seen'[r.tab]
    <3>1. CASE seen'[r.tab] \in Nat /\ last <= seen'[r.tab]
      BY <2>1, <3>1
    <3>2. CASE r.tab \in open /\ seen'[r.tab] = seen[r.tab]
      BY <2>1, <3>2
    <3> QED BY <2>3, <3>1, <3>2
  <2> QED BY <2>2, <2>3
<1> QED BY <1>1, <1>2 DEF Own

\* What a closed tab had asked for is dropped, the rest keeps its order.
LEMMA OwnClose ==
  ASSUME TypeOK, TypeOK', Own, NEW t \in Tabs, CloseTab(t)
  PROVE  Own'
<1> DEFINE places == {i \in DOMAIN waiting : waiting[i].tab # t}
           at == Ascending(places)
<1>1. /\ waiting' = Keep(waiting, places) /\ waiting \in Seq(Requests)
      /\ places \in SUBSET DOMAIN waiting /\ open' \subseteq open
      /\ UNCHANGED <<srv, last, seen>> /\ waiting' \in Seq(Requests)
  BY DEF CloseTab, TypeOK, store
<1>2. Taken' \subseteq Taken
  BY DEF CloseTab, Taken
<1> HIDE DEF places
<1>3. DOMAIN waiting' = 1..Len(waiting') /\ Len(waiting') \in Nat
  BY <1>1, LenProperties
<1>4. /\ \A i \in DOMAIN waiting' : at[i] \in DOMAIN waiting /\ waiting'[i] = waiting[at[i]]
      /\ \A i, j \in DOMAIN waiting' : i < j => at[i] < at[j]
  BY <1>1, <1>3, KeepIs
<1> HIDE DEF at
<1>5. ASSUME NEW i \in DOMAIN waiting', NEW j \in DOMAIN waiting', i # j PROVE at[i] # at[j]
  <2>1. DOMAIN waiting \subseteq Nat
    BY <1>1, LenProperties
  <2>2. at[i] \in Nat /\ at[j] \in Nat
    BY <1>4, <2>1
  <2>3. i < j \/ j < i
    BY <1>3, <1>5
  <2>4. at[i] < at[j] \/ at[j] < at[i]
    BY <1>4, <2>3
  <2> QED BY <2>2, <2>4
<1>6. \A r : Pulled(r) => Pulled(r)'
  BY <1>1 DEF Pulled
<1>7. \A s \in open' : seen'[s] <= last'
  BY <1>1 DEF Own
<1>8. \A i \in DOMAIN waiting' : Sized(waiting'[i]) /\ Pulled(waiting[i])'
  BY <1>1, <1>4 DEF Own, Pulled
<1>9. \A r \in Taken' : Sized(r) /\ Pulled(r)'
  BY <1>2, <1>6 DEF Own
<1>10. \A i, j \in DOMAIN waiting' : i # j => Apart(waiting'[i], waiting'[j])
  BY <1>4, <1>5 DEF Own
<1>11. \A i \in DOMAIN waiting' : \A r \in Taken' : Apart(waiting'[i], r)
  BY <1>2, <1>4 DEF Own
<1>12. \A r, q \in Taken' : r # q => Apart(r, q)
  BY <1>2 DEF Own
<1> QED BY <1>7, <1>8, <1>9, <1>10, <1>11, <1>12 DEF Own

\* What a tab pulls lies beyond all it has asked for.
LEMMA OwnPull ==
  ASSUME TypeOK, Own, NEW t \in Tabs, NEW n \in (seen[t] + 1)..last,
         NEW viewed \in SUBSET ((seen[t] + 1)..n), Pull(t, n, viewed)
  PROVE  Own'
<1> DEFINE ids == ((seen[t] + 1)..n) \ viewed
           o == Offers(t, ids)
           k == Len(waiting)
<1>1. /\ waiting \in Seq(Requests) /\ waiting' = waiting \o o /\ t \in open
      /\ seen' = [seen EXCEPT ![t] = n] /\ seen \in [Tabs -> 0..MaxId]
      /\ UNCHANGED <<srv, last, open, holders, claimed, shown>>
      /\ srv \in 0..MaxSwitches /\ last \in Nat /\ open \subseteq Tabs
      /\ seen[t] \in Nat /\ MaxId \in Nat /\ last <= MaxId
  BY NotificationsAssumption DEF Pull, store, TypeOK
<1>2. /\ ids \in SUBSET Ids /\ n \in Nat /\ seen[t] < n /\ n <= last
      /\ \A id \in ids : id \in Nat /\ seen[t] < id /\ id <= n
  BY <1>1 DEF Ids
<1> HIDE DEF ids
<1>3. /\ o \in Seq(Requests)
      /\ \A i \in 1..Len(o) : o[i].tab = t /\ o[i].srv = srv /\ o[i].ids \subseteq ids /\ Sized(o[i])
      /\ \A i, j \in 1..Len(o) : i # j => o[i].ids \intersect o[j].ids = {}
  BY <1>1, <1>2, OffersIs
<1> HIDE DEF o
<1>4. /\ k \in Nat /\ Len(o) \in Nat /\ DOMAIN waiting = 1..k
      /\ DOMAIN waiting' = 1..(k + Len(o))
      /\ \A i \in 1..(k + Len(o)) : waiting'[i] = IF i <= k THEN waiting[i] ELSE o[i - k]
  BY <1>1, <1>3, ConcatProperties, LenProperties
<1> HIDE DEF k
<1>5. ASSUME NEW i \in DOMAIN waiting'
      PROVE  \/ i \in DOMAIN waiting /\ waiting'[i] = waiting[i]
             \/ i - k \in 1..Len(o) /\ waiting'[i] = o[i - k] /\ i \notin DOMAIN waiting
  BY <1>4
<1>6. ASSUME NEW r, Pulled(r) PROVE Pulled(r)'
  <2>1. CASE r.tab = t
    <3>1. seen'[t] = n
      BY <1>1
    <3>2. \A id : id \in 1..seen[t] => id \in 1..n
      BY <1>1, <1>2
    <3> QED BY <1>1, <1>6, <2>1, <3>1, <3>2 DEF Pulled
  <2>2. CASE r.tab # t
    BY <1>1, <1>6, <2>2 DEF Pulled
  <2> QED BY <2>1, <2>2
<1>7. ASSUME NEW r, Pulled(r), NEW i \in 1..Len(o) PROVE Apart(o[i], r) /\ Apart(r, o[i])
  <2> SUFFICES ASSUME r.tab = t, r.srv = srv, NEW id \in r.ids PROVE id \notin o[i].ids
    BY <1>3 DEF Apart
  <2>1. id \in 1..seen[t]
    BY <1>1, <1>7 DEF Pulled
  <2>2. id \notin ids
    BY <1>1, <1>2, <2>1
  <2> QED BY <1>3, <2>2
<1>8. \A i \in 1..Len(o) : \A r : r = o[i] => Pulled(r)'
  <2> SUFFICES ASSUME NEW i \in 1..Len(o), NEW id \in o[i].ids
               PROVE  id \in 1..last /\ id \in 1..n
    BY <1>1, <1>3 DEF Pulled
  <2>1. id \in Nat /\ seen[t] < id /\ id <= n
    BY <1>2, <1>3
  <2> QED BY <1>1, <1>2, <2>1
<1>9. \A s \in open' : seen'[s] <= last'
  BY <1>1, <1>2 DEF Own
<1>10. ASSUME NEW i \in DOMAIN waiting' PROVE Sized(waiting'[i]) /\ Pulled(waiting[i])'
  <2> DEFINE r == waiting'[i]
  <2>1. \A q : q = r /\ Pulled(q)' => Pulled(waiting[i])'
    BY DEF Pulled
  <2> HIDE DEF r
  <2>2. CASE i \in DOMAIN waiting /\ waiting'[i] = waiting[i]
    <3>1. Sized(waiting[i]) /\ Pulled(waiting[i]) /\ r = waiting[i]
      BY <2>2 DEF Own, r
    <3> QED BY <1>6, <2>1, <3>1 DEF r
  <2>3. CASE i - k \in 1..Len(o) /\ waiting'[i] = o[i - k]
    <3>1. Sized(o[i - k]) /\ r = o[i - k]
      BY <1>3, <2>3 DEF r
    <3> QED BY <1>8, <2>1, <2>3, <3>1 DEF r
  <2> QED BY <1>5, <2>2, <2>3
<1>11. Taken' = Taken
  BY <1>1 DEF Taken
<1>12. \A r \in Taken' : Sized(r) /\ Pulled(r)'
  BY <1>6, <1>11 DEF Own
<1>13. ASSUME NEW i \in DOMAIN waiting', NEW j \in DOMAIN waiting', i # j
       PROVE  Apart(waiting'[i], waiting'[j])
  <2>1. CASE i \in DOMAIN waiting /\ j \in DOMAIN waiting
    BY <1>5, <1>13, <2>1 DEF Own
  <2>2. CASE i \in DOMAIN waiting /\ j \notin DOMAIN waiting
    <3>1. Pulled(waiting[i]) /\ waiting'[i] = waiting[i]
      BY <1>5, <2>2 DEF Own
    <3>2. j - k \in 1..Len(o) /\ waiting'[j] = o[j - k]
      BY <1>5, <2>2
    <3> QED BY <1>7, <3>1, <3>2
  <2>3. CASE i \notin DOMAIN waiting /\ j \in DOMAIN waiting
    <3>1. Pulled(waiting[j]) /\ waiting'[j] = waiting[j]
      BY <1>5, <2>3 DEF Own
    <3>2. i - k \in 1..Len(o) /\ waiting'[i] = o[i - k]
      BY <1>5, <2>3
    <3> QED BY <1>7, <3>1, <3>2
  <2>4. CASE i \notin DOMAIN waiting /\ j \notin DOMAIN waiting
    <3>1. /\ i - k \in 1..Len(o) /\ waiting'[i] = o[i - k]
          /\ j - k \in 1..Len(o) /\ waiting'[j] = o[j - k]
      BY <1>5, <2>4
    <3>2. i - k # j - k
      BY <1>4, <1>13
    <3> QED BY <1>3, <3>1, <3>2 DEF Apart
  <2> QED BY <2>1, <2>2, <2>3, <2>4
<1>14. ASSUME NEW i \in DOMAIN waiting', NEW r \in Taken PROVE Apart(waiting'[i], r)
  <2>1. Pulled(r)
    BY DEF Own
  <2>2. CASE i \in DOMAIN waiting /\ waiting'[i] = waiting[i]
    BY <2>2 DEF Own
  <2>3. CASE i - k \in 1..Len(o) /\ waiting'[i] = o[i - k]
    BY <1>7, <2>1, <2>3
  <2> QED BY <1>5, <2>2, <2>3
<1>15. \A r, q \in Taken : r # q => Apart(r, q)
  BY DEF Own
<1> QED BY <1>9, <1>10, <1>11, <1>12, <1>13, <1>14, <1>15 DEF Own

LEMMA OwnStep == Claims /\ Own /\ [Next]_vars => Own'
<1> SUFFICES ASSUME Claims, Own, [Next]_vars PROVE Own'
  OBVIOUS
<1>0. /\ TypeOK /\ TypeOK' /\ seen \in [Tabs -> 0..MaxId] /\ open \subseteq Tabs
      /\ last \in Nat /\ last' \in Nat /\ MaxId \in Nat /\ srv \in Nat
      /\ waiting \in Seq(Requests)
      /\ \A t \in open : seen[t] \in Nat
  BY TypeStep, NotificationsAssumption DEF Claims, TypeOK
<1>1. CASE Deliver \/ (\E h \in holders : Claim(h)) \/ (\E r \in claimed : Show(r)) \/ UNCHANGED vars
  <2>1. /\ UNCHANGED <<srv, waiting, open, seen>> /\ last <= last'
        /\ Taken' \subseteq Taken
    BY <1>0, <1>1 DEF Deliver, Claim, Show, vars, store, past, Taken
  <2> QED BY <1>0, <2>1, OwnCalm
<1>2. ASSUME NEW t \in Tabs, OpenTab(t) PROVE Own'
  <2>1. /\ UNCHANGED <<srv, last, waiting, holders, claimed, shown>>
        /\ open' = open \union {t} /\ seen' = [seen EXCEPT ![t] = last]
    BY <1>2 DEF OpenTab, store
  <2>2. Taken' = Taken
    BY <2>1 DEF Taken
  <2>3. \A s \in open' : seen'[s] = last \/ (s \in open /\ seen'[s] = seen[s])
    BY <1>0, <2>1
  <2>4. \A s \in open' : \/ seen'[s] \in Nat /\ seen'[s] <= last' /\ last <= seen'[s]
                         \/ s \in open /\ seen'[s] = seen[s] /\ seen[s] \in Nat
    BY <1>0, <2>1, <2>3
  <2> QED BY <1>0, <2>1, <2>2, <2>4, OwnCalm
<1>3. ASSUME NEW t \in Tabs, CloseTab(t) PROVE Own'
  BY <1>0, <1>3, OwnClose
<1>4. ASSUME NEW t \in Tabs, NEW n \in (seen[t] + 1)..last,
             NEW viewed \in SUBSET ((seen[t] + 1)..n), Pull(t, n, viewed)
      PROVE  Own'
  BY <1>0, <1>4, OwnPull
<1>5. CASE Grant
  <2>1. /\ waiting # <<>> /\ holders = {} /\ waiting' = Tail(waiting)
        /\ holders' = {[req |-> Head(waiting), cur |-> cursor]}
        /\ UNCHANGED <<srv, last, open, seen, claimed, shown>>
    BY <1>5 DEF Grant, store, past
  <2>2. /\ Head(waiting) = waiting[1] /\ 1 \in DOMAIN waiting
        /\ \A i \in DOMAIN waiting' : /\ i + 1 \in DOMAIN waiting /\ i + 1 # 1
                                       /\ waiting'[i] = waiting[i + 1]
        /\ \A i, j \in DOMAIN waiting' : i # j => i + 1 # j + 1
    BY <1>0, <2>1
  <2>3. Taken' = Taken \union {waiting[1]}
    BY <2>1, <2>2 DEF Taken
  <2>4. \A r : Pulled(r) => Pulled(r)'
    BY <2>1 DEF Pulled
  <2>5. \A r, q : Apart(r, q) => Apart(q, r)
    BY DEF Apart
  <2>6. \A i, j \in DOMAIN waiting' : i # j => Apart(waiting'[i], waiting'[j])
    BY <2>2 DEF Own
  <2>7. \A i \in DOMAIN waiting' : \A r \in Taken' : Apart(waiting'[i], r)
    BY <2>2, <2>3 DEF Own
  <2>8. \A r, q \in Taken' : r # q => Apart(r, q)
    BY <2>2, <2>3, <2>5 DEF Own
  <2>9. \A i \in DOMAIN waiting' : Sized(waiting'[i]) /\ Pulled(waiting[i])'
    BY <2>1, <2>2 DEF Own, Pulled
  <2>10. \A r \in Taken' : Sized(r) /\ Pulled(r)'
    BY <2>2, <2>3, <2>4 DEF Own
  <2>11. \A s \in open' : seen'[s] <= last'
    BY <2>1 DEF Own
  <2> QED BY <2>6, <2>7, <2>8, <2>9, <2>10, <2>11 DEF Own
<1>6. ASSUME NEW t \in Tabs, SwitchServer(t) PROVE Own'
  <2>1. /\ srv' = srv + 1 /\ last' = 0 /\ open' = {t} /\ seen' = [seen EXCEPT ![t] = 0]
        /\ DOMAIN waiting' = {} /\ holders = {} /\ UNCHANGED <<holders, shown, claimed>>
    BY <1>6 DEF SwitchServer, past
  <2>2. Taken' = Taken /\ \A r \in Taken : r \in claimed \union shown \union dropped
    BY <2>1 DEF Taken
  <2>3. \A r \in Taken : r.srv # srv'
    <3>1. \A r \in Taken : r.srv \in Nat /\ r.srv <= srv
      BY <2>2, NotificationsAssumption DEF Claims, Dated, TypeOK, Requests
    <3> QED BY <1>0, <2>1, <3>1
  <2>4. \A s \in open' : seen'[s] <= last'
    BY <1>0, <2>1
  <2>5. \A r \in Taken' : Sized(r) /\ Pulled(r)'
    BY <2>2, <2>3 DEF Own, Pulled
  <2>6. \A r, q \in Taken' : r # q => Apart(r, q)
    BY <2>2 DEF Own
  <2> QED BY <2>1, <2>4, <2>5, <2>6 DEF Own
<1> QED BY <1>1, <1>2, <1>3, <1>4, <1>5, <1>6 DEF Next

-----------------------------------------------------------------------------
(* No message forgotten                                                    *)

\* What is settled stays settled.
LEMMA SettledGrows ==
  ASSUME TypeOK, Next, NEW id, Settled(id)
  PROVE  Settled(id)'
<1>1. noticed \subseteq noticed'
  BY DEF Next, Deliver, OpenTab, CloseTab, Pull, Grant, Claim, Show, SwitchServer, past
<1>2. shown \union dropped \union claimed \subseteq shown' \union dropped' \union claimed'
  BY DEF Next, Deliver, OpenTab, CloseTab, Pull, Grant, Claim, Show, SwitchServer, past
<1> QED BY <1>1, <1>2 DEF Settled

\* The queue, the lock and the cursor are left alone.
LEMMA CalmStep ==
  ASSUME NotifInv, Next, srv = 0, srv' = 0,
         UNCHANGED <<cursor, waiting, holders>>,
         \A t \in open' : \A id \in 1..seen'[t] :
           Settled(id)' \/ (t \in open /\ id \in 1..seen[t])
  PROVE  FirstServer'
<1>0. /\ CursorSettled /\ QueueSettled /\ SeenSettled
      /\ \A id : Settled(id) => Settled(id)'
  BY SettledGrows DEF NotifInv, FirstServer
<1>1. CursorSettled'
  BY <1>0 DEF CursorSettled
<1>2. QueueSettled'
  BY <1>0 DEF QueueSettled, Pending
<1>3. SeenSettled'
  BY <1>0 DEF SeenSettled, Pending
<1> QED BY <1>1, <1>2, <1>3 DEF FirstServer

\* The queue grows by what a tab has pulled.
LEMMA PullStep ==
  ASSUME NotifInv, Next, srv = 0, NEW t \in Tabs, NEW n \in (seen[t] + 1)..last,
         NEW viewed \in SUBSET ((seen[t] + 1)..n), Pull(t, n, viewed)
  PROVE  FirstServer'
<1> DEFINE ids == ((seen[t] + 1)..n) \ viewed
           o == Offers(t, ids)
           k == Len(waiting)
           m == Len(o)
<1>0. /\ CursorSettled /\ QueueSettled /\ SeenSettled
      /\ \A id : Settled(id) => Settled(id)'
      /\ TypeOK /\ waiting \in Seq(Requests) /\ srv \in 0..MaxSwitches
      /\ seen \in [Tabs -> 0..MaxId] /\ last \in 0..MaxId /\ MaxId \in Nat
  BY SettledGrows, NotificationsAssumption DEF NotifInv, FirstServer, TypeOK
<1>1. /\ waiting' = waiting \o o /\ seen' = [seen EXCEPT ![t] = n]
      /\ t \in open /\ noticed' = noticed \union On(viewed)
      /\ UNCHANGED <<srv, last, open, cursor, holders>>
  BY DEF Pull, store
<1>2. ids \in SUBSET Ids /\ seen[t] \in Nat /\ n \in 1..MaxId
  BY <1>0 DEF Ids
<1>3. \A id \in viewed : Settled(id)'
  BY <1>1 DEF On, Settled
<1>4. \A id \in 1..n : id \in 1..seen[t] \/ Settled(id)' \/ id \in ids
  BY <1>2, <1>3
<1> HIDE DEF ids
<1>5. /\ o \in Seq(Requests)
      /\ \A i \in 1..m : o[i].tab = t /\ o[i].ids \subseteq ids
      /\ \A i \in 1..m : \A id \in ids : id <= Slot(o[i]) => \E j \in 1..i : id \in o[j].ids
      /\ \A id \in ids : \E j \in 1..m : id \in o[j].ids
  <2>1. o = Offers(t, ids)
    OBVIOUS
  <2> HIDE DEF o
  <2>2. ids \in SUBSET Ids /\ srv \in 0..MaxSwitches
    BY <1>0, <1>2
  <2> HIDE DEF m
  <2>3. m = Len(o)
    BY DEF m
  <2>4. /\ o \in Seq(Requests)
        /\ \A i \in 1..Len(o) : o[i].tab = t /\ o[i].srv = srv /\ o[i].ids \subseteq ids
    BY <2>1, <2>2, OffersIs
  <2>5. \A i \in 1..Len(o) : \A id \in ids :
          id <= Slot(o[i]) => \E j \in 1..i : id \in o[j].ids
    BY <2>1, <2>2, OffersIs
  <2>6. \A id \in ids : \E j \in 1..Len(o) : id \in o[j].ids
    BY <2>1, <2>2, OffersIs
  <2> QED BY <2>3, <2>4, <2>5, <2>6
<1> HIDE DEF o
<1>6. /\ k \in Nat /\ m \in Nat
      /\ DOMAIN waiting = 1..k /\ DOMAIN waiting' = 1..(k + m) /\ Len(waiting') = k + m
      /\ \A i \in 1..k : waiting'[i] = waiting[i]
      /\ \A i \in 1..m : waiting'[k + i] = o[i]
  <2>1. /\ k \in Nat /\ m \in Nat
        /\ DOMAIN waiting = 1..k /\ DOMAIN waiting' = 1..(k + m) /\ Len(waiting') = k + m
        /\ \A i \in 1..(k + m) : waiting'[i] = IF i <= k THEN waiting[i] ELSE o[i - k]
    BY <1>0, <1>1, <1>5, ConcatProperties, LenProperties
  <2> HIDE DEF k, m
  <2>2. \A i \in 1..k : i \in 1..(k + m) /\ i <= k
    BY <2>1
  <2>3. \A i \in 1..m : k + i \in 1..(k + m) /\ ~(k + i <= k) /\ (k + i) - k = i
    BY <2>1
  <2> QED BY <2>1, <2>2, <2>3
<1> HIDE DEF k, m
\* Whatever was on its way still is.
<1>7. \A u, id : \A i \in 0..k : Pending(u, id, i) => Asked(holders', waiting', u, id, i)
  <2> SUFFICES ASSUME NEW u, NEW id, NEW i \in 0..k, Pending(u, id, i)
               PROVE  Asked(holders', waiting', u, id, i)
    OBVIOUS
  <2>1. \A j \in 1..i : waiting'[j] = waiting[j]
    BY <1>6
  <2> QED BY <1>1, <2>1 DEF Pending, Asked
<1>8. \A u, id : \A i, j \in 0..(k + m) :
        i <= j /\ Asked(holders', waiting', u, id, i) => Asked(holders', waiting', u, id, j)
  <2> SUFFICES ASSUME NEW u, NEW id, NEW i \in 0..(k + m), NEW j \in 0..(k + m),
                      i <= j, Asked(holders', waiting', u, id, i)
               PROVE  Asked(holders', waiting', u, id, j)
    OBVIOUS
  <2>1. 1..i \subseteq 1..j
    BY <1>6
  <2> QED BY <2>1 DEF Asked
\* What the tab had pulled is settled or on its way.
<1>9. \A id \in 1..seen[t] : Settled(id)' \/ Asked(holders', waiting', t, id, k)
  <2>1. k \in 0..k /\ Len(waiting) = k
    BY <1>6 DEF k
  <2> QED BY <1>0, <1>1, <1>7, <2>1 DEF SeenSettled
<1>10. CursorSettled'
  BY <1>0, <1>1 DEF CursorSettled
<1>11. QueueSettled'
  <2>1. \A h \in holders : \A id \in 1..Slot(h.req) : Settled(id)' \/ id \in h.req.ids
    BY <1>0 DEF QueueSettled
  <2>2. ASSUME NEW i \in 1..k, NEW id \in 1..Slot(waiting'[i])
        PROVE  Settled(id)' \/ Asked(holders', waiting', waiting'[i].tab, id, i)
    <3>1. Settled(id) \/ Pending(waiting[i].tab, id, i)
      BY <1>0, <1>6, <2>2 DEF QueueSettled
    <3>2. i \in 0..k /\ waiting'[i] = waiting[i]
      BY <1>6
    <3> QED BY <1>0, <1>7, <3>1, <3>2
  <2>3. ASSUME NEW i \in 1..m, NEW id \in 1..Slot(o[i])
        PROVE  Settled(id)' \/ Asked(holders', waiting', t, id, k + i)
    <3>1. o[i] \in Requests /\ o[i].ids \subseteq ids /\ ids \subseteq 1..n
      BY <1>2, <1>5 DEF ids, m
    <3>2. Slot(o[i]) \in 1..n
      BY <3>1, SlotIs
    <3>3. id \in 1..n /\ id <= Slot(o[i])
      BY <1>2, <3>2
    <3>4. CASE id \in 1..seen[t]
      <4>1. k \in 0..(k + m) /\ k + i \in 0..(k + m) /\ k <= k + i
        BY <1>6
      <4> QED BY <1>8, <1>9, <3>4, <4>1
    <3>5. CASE id \in ids
      <4>1. PICK j \in 1..i : id \in o[j].ids
        BY <1>5, <3>3, <3>5
      <4>2. j \in 1..m /\ k + j \in 1..(k + i)
        BY <1>6
      <4>3. waiting'[k + j].tab = t /\ id \in waiting'[k + j].ids
        BY <1>5, <1>6, <4>1, <4>2
      <4> QED BY <4>2, <4>3 DEF Asked
    <3> QED BY <1>4, <3>3, <3>4, <3>5
  <2>4. ASSUME NEW i \in DOMAIN waiting', NEW id \in 1..Slot(waiting'[i])
        PROVE  Settled(id)' \/ Asked(holders', waiting', waiting'[i].tab, id, i)
    <3>1. CASE i \in 1..k
      BY <2>2, <3>1
    <3>2. CASE i \notin 1..k
      <4> DEFINE j == i - k
      <4>1. j \in 1..m /\ i = k + j
        BY <1>6, <3>2
      <4> HIDE DEF j
      <4>2. waiting'[i] = o[j] /\ o[j].tab = t
        BY <1>5, <1>6, <4>1
      <4> QED BY <2>3, <2>4, <4>1, <4>2
    <3> QED BY <3>1, <3>2
  <2> QED BY <1>1, <2>1, <2>4 DEF QueueSettled, Pending
<1>12. SeenSettled'
  <2>0. k \in 0..(k + m) /\ k + m \in 0..(k + m) /\ k <= k + m /\ k \in 0..k /\ Len(waiting) = k
    BY <1>6 DEF k
  <2>1. ASSUME NEW u \in open, u # t, NEW id \in 1..seen'[u]
        PROVE  Settled(id)' \/ Asked(holders', waiting', u, id, k + m)
    <3>1. seen'[u] = seen[u]
      BY <1>0, <1>1, <2>1 DEF TypeOK
    <3>2. Settled(id) \/ Pending(u, id, k)
      BY <1>0, <2>0, <2>1, <3>1 DEF SeenSettled
    <3> QED BY <1>0, <1>7, <1>8, <2>0, <3>2
  <2>2. ASSUME NEW id \in 1..n
        PROVE  Settled(id)' \/ Asked(holders', waiting', t, id, k + m)
    <3>1. CASE id \in 1..seen[t]
      BY <1>8, <1>9, <2>0, <3>1
    <3>2. CASE id \in ids
      <4>1. PICK j \in 1..m : id \in o[j].ids
        BY <1>5, <3>2
      <4>2. k + j \in 1..(k + m)
        BY <1>6
      <4>3. waiting'[k + j].tab = t /\ id \in waiting'[k + j].ids
        BY <1>5, <1>6, <4>1
      <4> QED BY <4>2, <4>3 DEF Asked
    <3> QED BY <1>4, <3>1, <3>2
  <2>3. seen'[t] = n
    BY <1>0, <1>1
  <2> QED BY <1>1, <1>6, <2>1, <2>2, <2>3 DEF SeenSettled, Pending
<1> QED BY <1>10, <1>11, <1>12 DEF FirstServer

\* A closed tab takes its requests along; what others have asked for stays, in
\* its order.
LEMMA CloseStep ==
  ASSUME NotifInv, Next, srv = 0, NEW t \in Tabs, CloseTab(t)
  PROVE  FirstServer'
<1> DEFINE places == {i \in DOMAIN waiting : waiting[i].tab # t}
           at == Ascending(places)
           n == Cardinality(places)
           k == Len(waiting)
<1>0. /\ CursorSettled /\ QueueSettled /\ SeenSettled
      /\ \A id : Settled(id) => Settled(id)'
      /\ waiting \in Seq(Requests) /\ k \in Nat /\ DOMAIN waiting = 1..k
  BY SettledGrows, LenProperties DEF NotifInv, FirstServer, TypeOK
<1>1. /\ waiting' = Keep(waiting, places)
      /\ holders' = {h \in holders : h.req.tab # t}
      /\ open' = open \ {t} /\ UNCHANGED <<cursor, seen>>
  BY DEF CloseTab
<1>2. /\ waiting' \in Seq(Requests) /\ Len(waiting') = n /\ n \in Nat
      /\ \A i \in 1..n : at[i] \in places /\ waiting'[i] = waiting[at[i]]
      /\ \A i, j \in 1..n : i < j => at[i] < at[j]
      /\ \A j \in places : \E i \in 1..n : at[i] = j
  <2>1. places \in SUBSET DOMAIN waiting
    OBVIOUS
  <2> HIDE DEF places
  <2> QED BY <1>0, <1>1, <2>1, KeepIs
<1>3. /\ places \subseteq 1..k /\ DOMAIN waiting' = 1..n
      /\ \A i \in 1..k : i \in places <=> waiting[i].tab # t
  BY <1>0, <1>2, LenProperties
<1> HIDE DEF places, at, n, k
\* A request of another tab, among the first j, is now among the first i if the
\* first j places had i of the kept ones.
<1>4. ASSUME NEW u \in Tabs \ {t}, NEW id, NEW j \in 0..k, NEW i \in 0..n,
             Pending(u, id, j),
             \A l \in 1..n : at[l] <= j => l <= i
      PROVE  Asked(holders', waiting', u, id, i)
  <2>1. CASE \E h \in holders : h.req.tab = u /\ id \in h.req.ids
    BY <1>1, <2>1 DEF Asked
  <2>2. CASE \E l \in 1..j : waiting[l].tab = u /\ id \in waiting[l].ids
    <3>1. PICK l \in 1..j : waiting[l].tab = u /\ id \in waiting[l].ids
      BY <2>2
    <3>2. l \in 1..k /\ l \in places
      BY <1>0, <1>3, <3>1 DEF k
    <3>3. PICK a \in 1..n : at[a] = l
      BY <1>2, <3>2
    <3>4. a \in 1..i
      BY <1>2, <1>4, <3>1, <3>3
    <3> QED BY <1>2, <3>1, <3>3, <3>4 DEF Asked
  <2> QED BY <1>4, <2>1, <2>2 DEF Pending, Asked
<1>5. CursorSettled'
  BY <1>0, <1>1 DEF CursorSettled
<1>6. QueueSettled'
  <2>1. \A h \in holders' : \A id \in 1..Slot(h.req) : Settled(id)' \/ id \in h.req.ids
    BY <1>0, <1>1 DEF QueueSettled
  <2>2. ASSUME NEW i \in 1..n, NEW id \in 1..Slot(waiting'[i])
        PROVE  Settled(id)' \/ Asked(holders', waiting', waiting'[i].tab, id, i)
    <3>1. at[i] \in 1..k /\ waiting'[i] = waiting[at[i]] /\ waiting[at[i]].tab # t
      BY <1>2, <1>3
    <3>2. waiting[at[i]].tab \in Tabs
      <4>1. waiting[at[i]] \in Requests
        BY <1>0, <3>1, ElementOfSeq DEF k
      <4> QED BY <4>1 DEF Requests
    <3>3. Settled(id) \/ Pending(waiting[at[i]].tab, id, at[i])
      BY <1>0, <2>2, <3>1 DEF QueueSettled
    <3>4. ASSUME NEW l \in 1..n, at[l] <= at[i] PROVE l <= i
      <4>1. at[l] \in Nat /\ at[i] \in Nat
        <5>1. \A p \in places : p \in Nat
          BY <1>0, <1>3 DEF k
        <5> QED BY <1>2, <5>1
      <4>2. ~(i < l)
        BY <1>2, <3>4, <4>1
      <4> QED BY <1>2, <4>2
    <3>5. at[i] \in 0..k /\ i \in 0..n
      BY <1>2, <3>1
    <3> QED BY <1>0, <1>4, <3>1, <3>2, <3>3, <3>4, <3>5
  <2> QED BY <1>3, <2>1, <2>2 DEF QueueSettled, Pending
<1>7. SeenSettled'
  <2> SUFFICES ASSUME NEW u \in open \ {t}, NEW id \in 1..seen[u]
               PROVE  Settled(id)' \/ Asked(holders', waiting', u, id, n)
    BY <1>1, <1>2 DEF SeenSettled, Pending
  <2>1. Settled(id) \/ Pending(u, id, k)
    BY <1>0 DEF SeenSettled, k
  <2>2. u \in Tabs \ {t}
    BY DEF NotifInv, TypeOK
  <2>3. k \in 0..k /\ n \in 0..n /\ \A l \in 1..n : at[l] <= k => l <= n
    BY <1>0, <1>2 DEF k
  <2> QED BY <1>0, <1>4, <2>1, <2>2, <2>3
<1> QED BY <1>5, <1>6, <1>7 DEF FirstServer

\* The lock goes to the request that has waited longest.
LEMMA GrantStep ==
  ASSUME NotifInv, Next, srv = 0, Grant
  PROVE  FirstServer'
<1> DEFINE k == Len(waiting)
           first == Head(waiting)
<1>0. /\ CursorSettled /\ QueueSettled /\ SeenSettled
      /\ \A id : Settled(id) => Settled(id)'
      /\ waiting \in Seq(Requests)
  BY SettledGrows DEF NotifInv, FirstServer, TypeOK
<1>1. /\ holders = {} /\ holders' = {[req |-> first, cur |-> cursor]} /\ waiting # <<>>
      /\ waiting' = Tail(waiting) /\ UNCHANGED <<open, cursor, seen>>
  BY DEF Grant
<1>2. /\ k \in Nat /\ k # 0 /\ DOMAIN waiting = 1..k
      /\ first = waiting[1] /\ Len(waiting') = k - 1 /\ DOMAIN waiting' = 1..(k - 1)
      /\ \A i \in 1..(k - 1) : waiting'[i] = waiting[i + 1]
  BY <1>0, <1>1
<1> HIDE DEF first
<1>3. ASSUME NEW u, NEW id, NEW i \in 0..(k - 1), Pending(u, id, i + 1)
      PROVE  Asked(holders', waiting', u, id, i)
  <2>1. PICK j \in 1..(i + 1) : waiting[j].tab = u /\ id \in waiting[j].ids
    BY <1>1, <1>3 DEF Pending, Asked
  <2>2. CASE j = 1
    BY <1>1, <1>2, <2>1, <2>2 DEF Asked
  <2>3. CASE j # 1
    <3> DEFINE l == j - 1
    <3>1. l \in 1..i /\ l \in 1..(k - 1) /\ l + 1 = j
      BY <1>2, <2>1, <2>3
    <3> HIDE DEF l
    <3>2. waiting'[l] = waiting[j]
      BY <1>2, <3>1
    <3> QED BY <2>1, <3>1, <3>2 DEF Asked
  <2> QED BY <2>2, <2>3
<1>4. CursorSettled'
  BY <1>0, <1>1 DEF CursorSettled
<1>5. QueueSettled'
  <2>1. ASSUME NEW id \in 1..Slot(first) PROVE Settled(id)' \/ id \in first.ids
    <3>1. Settled(id) \/ Pending(first.tab, id, 1)
      BY <1>0, <1>2, <2>1 DEF QueueSettled
    <3>2. Pending(first.tab, id, 1) => id \in first.ids
      <4>1. \A j \in 1..1 : j = 1
        OBVIOUS
      <4> QED BY <1>1, <1>2, <4>1 DEF Pending, Asked
    <3> QED BY <1>0, <3>1, <3>2
  <2>2. ASSUME NEW i \in 1..(k - 1), NEW id \in 1..Slot(waiting'[i])
        PROVE  Settled(id)' \/ Asked(holders', waiting', waiting'[i].tab, id, i)
    <3>1. i + 1 \in 1..k /\ waiting'[i] = waiting[i + 1] /\ i \in 0..(k - 1)
      BY <1>2
    <3>2. Settled(id) \/ Pending(waiting'[i].tab, id, i + 1)
      BY <1>0, <1>2, <2>2, <3>1 DEF QueueSettled
    <3> QED BY <1>0, <1>3, <3>1, <3>2
  <2>3. \A h \in holders' : h.req = first
    BY <1>1
  <2>4. \A h \in holders' : \A id \in 1..Slot(h.req) : Settled(id)' \/ id \in h.req.ids
    BY <2>1, <2>3
  <2> QED BY <1>2, <2>2, <2>4 DEF QueueSettled, Pending
<1>6. SeenSettled'
  <2> SUFFICES ASSUME NEW u \in open, NEW id \in 1..seen[u]
               PROVE  Settled(id)' \/ Asked(holders', waiting', u, id, k - 1)
    BY <1>1, <1>2 DEF SeenSettled, Pending
  <2>1. Settled(id) \/ Pending(u, id, k)
    BY <1>0 DEF SeenSettled
  <2>2. k - 1 \in 0..(k - 1) /\ (k - 1) + 1 = k
    BY <1>2
  <2> QED BY <1>0, <1>3, <2>1, <2>2
<1> QED BY <1>4, <1>5, <1>6 DEF FirstServer

\* Won or lost, what the request asked for is settled: if it lost, the cursor
\* was at its greatest id or beyond.
LEMMA ClaimStep ==
  ASSUME NotifInv, Next, srv = 0, NEW h \in holders, Claim(h)
  PROVE  FirstServer'
<1>0. /\ CursorSettled /\ QueueSettled /\ SeenSettled
      /\ \A id : Settled(id) => Settled(id)'
      /\ h.req \in Requests /\ h.cur = cursor /\ cursor \in Nat
      /\ h.req.srv = 0
  <2>1. h.req \in Requests /\ h.req.srv <= 0 /\ h.cur = cursor
    BY DEF NotifInv, TypeOK, Dated, Exclusive
  <2>2. h.req.srv \in Nat /\ cursor \in Nat
    BY <2>1, NotificationsAssumption DEF Requests, NotifInv, TypeOK
  <2>3. h.req.srv = 0
    BY <2>1, <2>2
  <2> QED BY <2>1, <2>2, <2>3, SettledGrows DEF NotifInv, FirstServer
<1>1. /\ Slot(h.req) \in Nat /\ h.req.ids \subseteq Nat \ {0}
      /\ \A id \in h.req.ids : id <= Slot(h.req)
  BY <1>0, SlotIs, NotificationsAssumption
<1>2. /\ holders' = {} /\ UNCHANGED <<open, seen, waiting>>
      /\ \/ Slot(h.req) <= cursor /\ cursor' = cursor
         \/ cursor' = Slot(h.req) /\ h.req \in claimed'
  BY <1>0 DEF Claim, NotifInv, Exclusive
<1>3. \A id \in h.req.ids : Settled(id)'
  <2>1. CASE Slot(h.req) <= cursor
    <3>1. \A id \in h.req.ids : id \in 1..cursor
      BY <1>0, <1>1, <2>1
    <3> QED BY <1>0, <3>1 DEF CursorSettled
  <2>2. CASE h.req \in claimed'
    BY <1>0, <2>2 DEF Settled
  <2> QED BY <1>2, <2>1, <2>2
<1>4. CursorSettled'
  <2>1. CASE cursor' = cursor
    BY <1>0, <2>1 DEF CursorSettled
  <2>2. CASE cursor' = Slot(h.req)
    BY <1>0, <1>3, <2>2 DEF CursorSettled, QueueSettled
  <2> QED BY <1>2, <2>1, <2>2
<1>5. \A u, id, i : Pending(u, id, i) => Settled(id)' \/ Asked(holders', waiting', u, id, i)
  <2> SUFFICES ASSUME NEW u, NEW id, NEW i, Pending(u, id, i)
               PROVE  Settled(id)' \/ Asked(holders', waiting', u, id, i)
    OBVIOUS
  <2>1. \A g \in holders : g = h
    BY DEF NotifInv, Exclusive
  <2>2. CASE \E g \in holders : g.req.tab = u /\ id \in g.req.ids
    BY <1>3, <2>1, <2>2
  <2>3. CASE \E l \in 1..i : waiting[l].tab = u /\ id \in waiting[l].ids
    BY <1>2, <2>3 DEF Asked
  <2> QED BY <2>2, <2>3 DEF Pending, Asked
<1>6. QueueSettled'
  <2>1. \A i \in DOMAIN waiting : \A id \in 1..Slot(waiting[i]) :
          Settled(id)' \/ Asked(holders', waiting', waiting[i].tab, id, i)
    BY <1>0, <1>5 DEF QueueSettled
  <2> QED BY <1>2, <2>1 DEF QueueSettled, Pending
<1>7. SeenSettled'
  <2>1. \A u \in open : \A id \in 1..seen[u] :
          Settled(id)' \/ Asked(holders', waiting', u, id, Len(waiting))
    BY <1>0, <1>5 DEF SeenSettled
  <2> QED BY <1>2, <2>1 DEF SeenSettled, Pending
<1> QED BY <1>4, <1>6, <1>7 DEF FirstServer

-----------------------------------------------------------------------------
(* The theorems                                                            *)

LEMMA NotifInit == Init => NotifInv
<1> SUFFICES ASSUME Init PROVE NotifInv
  OBVIOUS
<1>1. Claims /\ Own
  BY ClaimsInit, OwnInit
<1>2. cursor = 0 /\ holders = {} /\ DOMAIN waiting = {} /\ open = {}
  BY DEF Init
<1>3. FirstServer
  BY <1>2 DEF FirstServer, CursorSettled, QueueSettled, SeenSettled
<1> QED BY <1>1, <1>3 DEF NotifInv, Claims

LEMMA NotifStep == NotifInv /\ [Next]_vars => NotifInv'
<1> SUFFICES ASSUME NotifInv, [Next]_vars PROVE NotifInv'
  OBVIOUS
<1>1. Claims' /\ Own'
  BY ClaimsStep, OwnStep DEF NotifInv, Claims
<1>2. srv \in Nat
  BY NotificationsAssumption DEF NotifInv, TypeOK
<1>3. CASE UNCHANGED vars
  <2>1. FirstServer'
    BY <1>3 DEF vars, store, past, NotifInv, FirstServer, CursorSettled, QueueSettled,
       SeenSettled, Settled, Pending
  <2> QED BY <1>1, <2>1 DEF NotifInv, Claims
<1>4. ASSUME Next, srv' = 0 PROVE FirstServer'
  <2>1. srv = 0 /\ ~ \E t \in Tabs : SwitchServer(t)
    <3>1. ASSUME NEW t \in Tabs, SwitchServer(t) PROVE FALSE
      BY <1>2, <1>4, <3>1 DEF SwitchServer
    <3>2. srv' = srv
      BY <1>4, <3>1 DEF Next, Deliver, OpenTab, CloseTab, Pull, Grant, Claim, Show, store
    <3> QED BY <1>4, <3>1, <3>2
  <2>2. CASE Deliver \/ \E r \in claimed : Show(r)
    <3>1. UNCHANGED <<cursor, waiting, holders, open, seen>>
      BY <2>2 DEF Deliver, Show
    <3> QED BY <1>4, <2>1, <3>1, CalmStep
  <2>3. ASSUME NEW t \in Tabs, OpenTab(t) PROVE FirstServer'
    <3>1. /\ UNCHANGED <<cursor, waiting, holders>>
          /\ open' = open \union {t} /\ seen' = [seen EXCEPT ![t] = last]
          /\ noticed' = noticed \union On(1..last) /\ seen \in [Tabs -> 0..MaxId]
          /\ open \subseteq Tabs
      BY <2>3 DEF OpenTab, NotifInv, TypeOK
    <3>2. \A id \in 1..last : Settled(id)'
      BY <2>1, <3>1 DEF On, Settled
    <3>3. \A u \in open' : \A id \in 1..seen'[u] :
            Settled(id)' \/ (u \in open /\ id \in 1..seen[u])
      BY <3>1, <3>2
    <3> QED BY <1>4, <2>1, <3>1, <3>3, CalmStep
  <2>4. ASSUME NEW t \in Tabs, CloseTab(t) PROVE FirstServer'
    BY <1>4, <2>1, <2>4, CloseStep
  <2>5. ASSUME NEW t \in Tabs, NEW n \in (seen[t] + 1)..last,
               NEW viewed \in SUBSET ((seen[t] + 1)..n), Pull(t, n, viewed)
        PROVE  FirstServer'
    BY <1>4, <2>1, <2>5, PullStep
  <2>6. CASE Grant
    BY <1>4, <2>1, <2>6, GrantStep
  <2>7. ASSUME NEW h \in holders, Claim(h) PROVE FirstServer'
    BY <1>4, <2>1, <2>7, ClaimStep
  <2> QED BY <1>4, <2>1, <2>2, <2>3, <2>4, <2>5, <2>6, <2>7 DEF Next
<1>5. CASE Next
  <2>1. FirstServer'
    BY <1>4, <1>5 DEF FirstServer
  <2> QED BY <1>1, <2>1 DEF NotifInv, Claims
<1> QED BY <1>3, <1>5

\* The inductive invariant.
THEOREM NotifInvariant == Spec => []NotifInv
<1>1. Init => NotifInv
  BY NotifInit
<1>2. NotifInv /\ [Next]_vars => NotifInv'
  BY NotifStep
<1> QED BY <1>1, <1>2, PTL DEF Spec

\* The variables keep their types: onNewPolledEntries never asks for a
\* notification about nothing.
THEOREM TypeCorrect == Spec => []TypeOK
<1>1. NotifInv => TypeOK
  BY DEF NotifInv
<1> QED BY <1>1, NotifInvariant, PTL

\* Two notifications that won in claimNotifSlot, on one server and in any
\* number of tabs, have different slots; one that has a message of an earlier
\* slot's is a batch, and of another tab.
THEOREM RepeatsAreBatches == Spec => []RepeatedOnlyByBatch
<1>1. NotifInv => RepeatedOnlyByBatch
  <2> SUFFICES ASSUME NotifInv, NEW r \in shown \union claimed, NEW q \in shown \union claimed,
                      r # q, r.srv = q.srv
               PROVE  /\ Slot(r) # Slot(q)
                      /\ (r.ids \intersect q.ids # {} /\ Slot(r) < Slot(q)) =>
                           r.tab # q.tab /\ Cardinality(q.ids) >= CoalesceMin
    BY DEF RepeatedOnlyByBatch
  <2>1. Slot(r) # Slot(q)
    BY DEF NotifInv, Distinct
  <2>2. ASSUME NEW id \in r.ids \intersect q.ids, Slot(r) < Slot(q)
        PROVE  r.tab # q.tab /\ Cardinality(q.ids) >= CoalesceMin
    <3>1. r.tab # q.tab
      BY <2>2 DEF NotifInv, Own, Taken, Apart
    <3>2. Cardinality(q.ids) >= CoalesceMin \/ \E x : q.ids = {x}
      BY DEF NotifInv, Own, Taken, Sized
    <3>3. r \in Requests /\ q \in Requests
      BY DEF NotifInv, TypeOK
    <3>4. /\ id <= Slot(r) /\ id \in q.ids /\ Slot(q) \in q.ids
          /\ id \in Nat /\ Slot(r) \in Nat /\ Slot(q) \in Nat
      BY <2>2, <3>3, SlotIs, NotificationsAssumption
    <3>5. id # Slot(q)
      BY <2>2, <3>4
    <3> QED BY <3>1, <3>2, <3>4, <3>5
  <2> QED BY <2>1, <2>2
<1> QED BY <1>1, NotifInvariant, PTL

\* On the server the cursor was first used with, a claim that loses drops
\* nothing: when no claim is pending, what an open tab has pulled was announced,
\* was on a screen, or went down with a tab that was closed.
THEOREM NoneForgotten == Spec => []Announced
<1>1. NotifInv => Announced
  <2> SUFFICES ASSUME NotifInv, srv = 0, waiting = <<>>, holders = {}, claimed = {},
                      NEW t \in open, NEW id \in 1..seen[t]
               PROVE  \/ [srv |-> srv, id |-> id] \in noticed
                      \/ \E r \in shown \union dropped : r.srv = srv /\ id \in r.ids
    BY DEF Announced, AnnouncedOnEveryServer
  <2>1. Settled(id) \/ Pending(t, id, Len(waiting))
    BY DEF NotifInv, FirstServer, SeenSettled
  <2>2. ~Pending(t, id, Len(waiting))
    <3>1. 1..Len(waiting) = {}
      OBVIOUS
    <3> QED BY <3>1 DEF Pending, Asked
  <2> QED BY <2>1, <2>2 DEF Settled
<1> QED BY <1>1, NotifInvariant, PTL
=============================================================================
