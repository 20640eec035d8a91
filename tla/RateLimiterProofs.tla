------------------------- MODULE RateLimiterProofs -------------------------
(***************************************************************************)
(* RateLimiter for any number of requests in flight, any capacity and any  *)
(* refill rate.  The inductive invariant is the balance of the account:    *)
(* what is left and what was spent since the bucket was full add up to the *)
(* capacity, the time passed, and the time credited twice.                 *)
(***************************************************************************)
EXTENDS RateLimiter, TLAPS

\* The account of a bucket balances.
Balanced(b, a) == b.tokens + a.spent = Cap + (b.last_refill - a.at) + a.back

\* A request that read the clock has its key, no clock in the system is ahead
\* of now, and every account balances.
Accounting ==
  /\ \A h \in Handlers :
       /\ task[h].clock <= now
       /\ task[h].pc = "clocked" => task[h].key # None
  /\ \A k \in Keys :
       IF inner[k] = None
         THEN ledger[k] = [at |-> 0, spent |-> 0, back |-> 0]
         ELSE inner[k].last_refill <= now /\ Balanced(inner[k], ledger[k])

IInv == TypeOK /\ Accounting

-----------------------------------------------------------------------------

\* What Refilled returns: the credit of the elapsed time, up to the capacity.
LEMMA RefilledBounds ==
  ASSUME NEW b \in Bucket, NEW t \in Times
  PROVE  /\ Refilled(b, t) \in 0..Cap
         /\ b.tokens <= Refilled(b, t)
         /\ Refilled(b, t) # Cap => Refilled(b, t) = b.tokens + Elapsed(b, t)
BY RateLimiterAssumption DEF Refilled, Elapsed, Bucket, Times

\* Settling a request keeps the account balanced, whichever clock it brings.
LEMMA SettleBalances ==
  ASSUME TypeOK, Accounting,
         NEW k \in Keys, NEW t \in Times, t <= now
  PROVE  LET b == Entry(k, t)
             r == Refilled(b, t)
             a == Account(k, b, t, r)
         IN /\ b \in Bucket
            /\ r \in 0..Cap
            /\ a \in [at : Times, spent : Nat, back : Nat]
            /\ r + a.spent = Cap + (t - a.at) + a.back
<1> DEFINE b == Entry(k, t)
           r == Refilled(b, t)
           a == Account(k, b, t, r)
<1>1. b \in Bucket
  <2>1. inner[k] \in Bucket \union {None}
    BY DEF TypeOK
  <2> QED BY <2>1, RateLimiterAssumption DEF Entry, Bucket
<1>2. /\ r \in 0..Cap
      /\ r # Cap => r = b.tokens + Elapsed(b, t)
  BY <1>1, RefilledBounds
<1>3. ledger[k] \in [at : Times, spent : Nat, back : Nat]
  BY DEF TypeOK
<1>4. CASE inner[k] = None \/ r = Cap
  <2>1. a = [at |-> t, spent |-> 0, back |-> 0]
    BY <1>4 DEF Account
  <2>2. r = Cap
    <3>1. CASE inner[k] = None
      <4>1. b = [tokens |-> Cap, last_refill |-> t]
        BY <3>1 DEF Entry
      <4>2. b.tokens = Cap /\ b.tokens <= r
        BY <4>1, <1>1, RefilledBounds
      <4> QED BY <4>2, <1>2, RateLimiterAssumption
    <3> QED BY <1>4, <3>1
  <2> QED BY <1>1, <1>2, <2>1, <2>2, RateLimiterAssumption DEF Times
<1>5. CASE inner[k] # None /\ r # Cap
  <2>1. b = inner[k] /\ Balanced(b, ledger[k])
    BY <1>5 DEF Entry, Accounting
  <2>2. a = [ledger[k] EXCEPT !.back = @ + (IF t < b.last_refill THEN b.last_refill - t ELSE 0)]
    BY <1>5 DEF Account
  <2>3. b.last_refill \in Nat /\ t \in Nat /\ b.tokens \in Nat
    BY <1>1, RateLimiterAssumption DEF Bucket, Times
  <2>4. a \in [at : Times, spent : Nat, back : Nat]
    BY <1>3, <2>2, <2>3
  <2>5. /\ a.at = ledger[k].at
        /\ a.spent = ledger[k].spent
        /\ a.back = ledger[k].back + (IF t < b.last_refill THEN b.last_refill - t ELSE 0)
    BY <1>3, <2>2
  <2>6. r = b.tokens + Elapsed(b, t)
    BY <1>2, <1>5
  <2>7. ledger[k].at \in Nat /\ ledger[k].spent \in Nat /\ ledger[k].back \in Nat
    BY <1>3 DEF Times
  <2>8. b.tokens + ledger[k].spent = Cap + (b.last_refill - ledger[k].at) + ledger[k].back
    BY <2>1 DEF Balanced
  <2>9. r + a.spent = Cap + (t - a.at) + a.back
    BY <2>3, <2>5, <2>6, <2>7, <2>8, RateLimiterAssumption DEF Elapsed
  <2> QED BY <1>1, <1>2, <2>4, <2>9
<1> QED BY <1>4, <1>5

\* What check() does to its bucket, its account and its answer.
LEMMA CheckEffect ==
  ASSUME IInv, NEW h \in Handlers, Check(h)
  PROVE  \E k \in Keys, b \in Bucket, a \in [at : Times, spent : Nat, back : Nat],
            pc \in {"allowed", "refused"} :
            /\ task[h].pc = "clocked" /\ task[h].key = k
            /\ inner' = [inner EXCEPT ![k] = b]
            /\ ledger' = [ledger EXCEPT ![k] = a]
            /\ task' = [task EXCEPT ![h].pc = pc]
            /\ now' = now
            /\ b.last_refill = task[h].clock /\ task[h].clock <= now
            /\ Balanced(b, a)
            /\ pc = "refused" => b.tokens < Cost
<1> DEFINE k == task[h].key
           t == task[h].clock
           e == Entry(k, t)
           r == Refilled(e, t)
           a == Account(k, e, t, r)
           b1 == [tokens |-> IF r >= Cost THEN r - Cost ELSE r, last_refill |-> t]
           a1 == IF r >= Cost THEN [a EXCEPT !.spent = @ + Cost] ELSE a
           pc1 == IF r >= Cost THEN "allowed" ELSE "refused"
<1>1. t \in Times /\ t <= now /\ k \in Keys /\ task[h].pc = "clocked"
  BY DEF IInv, TypeOK, Accounting, Check
<1>2. /\ r \in 0..Cap
      /\ a \in [at : Times, spent : Nat, back : Nat]
      /\ r + a.spent = Cap + (t - a.at) + a.back
  BY <1>1, SettleBalances DEF IInv
<1>3. /\ inner' = [inner EXCEPT ![k] = b1]
      /\ ledger' = [ledger EXCEPT ![k] = a1]
      /\ task' = [task EXCEPT ![h].pc = pc1]
      /\ now' = now
  BY DEF Check, Stamp
<1>4. /\ a1 \in [at : Times, spent : Nat, back : Nat]
      /\ a1.at = a.at /\ a1.back = a.back
      /\ a1.spent = IF r >= Cost THEN a.spent + Cost ELSE a.spent
  BY <1>2, RateLimiterAssumption
<1>5. b1 \in Bucket
  BY <1>1, <1>2, RateLimiterAssumption DEF Bucket
<1>6. Balanced(b1, a1)
  <2>1. t \in Nat /\ a.at \in Nat /\ a.spent \in Nat /\ a.back \in Nat /\ r \in Nat
    BY <1>1, <1>2, RateLimiterAssumption DEF Times
  <2>2. b1.tokens = (IF r >= Cost THEN r - Cost ELSE r) /\ b1.last_refill = t
    OBVIOUS
  <2> HIDE DEF b1, a1, a, r
  <2> QED BY <2>1, <2>2, <1>2, <1>4, RateLimiterAssumption DEF Balanced
<1>7. pc1 \in {"allowed", "refused"} /\ (pc1 = "refused" => b1.tokens < Cost)
  BY <1>2, RateLimiterAssumption
<1>8. b1.last_refill = t
  OBVIOUS
<1> HIDE DEF b1, a1, pc1, r, a, e
<1> QED BY <1>1, <1>3, <1>4, <1>5, <1>6, <1>7, <1>8

-----------------------------------------------------------------------------

\* The invariant holds before the first request.
LEMMA InitIInv == Init => IInv
<1> SUFFICES ASSUME Init PROVE IInv
  OBVIOUS
<1>1. TypeOK
  BY RateLimiterAssumption DEF Init, TypeOK, Times
<1>2. Accounting
  BY DEF Init, Accounting
<1> QED BY <1>1, <1>2 DEF IInv

\* Every arrival, check and tick preserves it.
LEMMA StepIInv == IInv /\ [Next]_vars => IInv'
<1> SUFFICES ASSUME IInv, [Next]_vars PROVE IInv'
  OBVIOUS
<1> USE DEF IInv
<1>1. ASSUME NEW h \in Handlers, NEW k \in Keys, Arrive(h, k) PROVE IInv'
  <2>1. TypeOK'
    BY <1>1 DEF Arrive, TypeOK
  <2>2. Accounting'
    BY <1>1, RateLimiterAssumption DEF Arrive, Accounting, TypeOK, Times, Balanced
  <2> QED BY <2>1, <2>2
<1>2. ASSUME NEW h \in Handlers, Check(h) PROVE IInv'
  <2>1. PICK k \in Keys, b \in Bucket, a \in [at : Times, spent : Nat, back : Nat],
             pc \in {"allowed", "refused"} :
            /\ task[h].pc = "clocked" /\ task[h].key = k
            /\ inner' = [inner EXCEPT ![k] = b]
            /\ ledger' = [ledger EXCEPT ![k] = a]
            /\ task' = [task EXCEPT ![h].pc = pc]
            /\ now' = now
            /\ b.last_refill = task[h].clock /\ task[h].clock <= now
            /\ Balanced(b, a)
            /\ pc = "refused" => b.tokens < Cost
    BY <1>2, CheckEffect
  <2>2. TypeOK'
    <3>1. inner' \in [Keys -> Bucket \union {None}]
      BY <2>1 DEF TypeOK
    <3>2. task' \in [Handlers -> [pc : {"idle", "clocked", "allowed", "refused"},
                                 key : Keys \union {None}, clock : Times]]
      BY <2>1 DEF TypeOK
    <3>3. ledger' \in [Keys -> [at : Times, spent : Nat, back : Nat]]
      BY <2>1 DEF TypeOK
    <3> QED BY <2>1, <3>1, <3>2, <3>3 DEF TypeOK
  <2>3. \A g \in Handlers : task'[g].clock <= now' /\ (task'[g].pc = "clocked" => task'[g].key # None)
    BY <2>1 DEF TypeOK, Accounting
  <2>4. b # None
    BY <2>1, RateLimiterAssumption DEF Bucket, Times
  <2>5. ASSUME NEW q \in Keys
        PROVE  IF inner'[q] = None
                 THEN ledger'[q] = [at |-> 0, spent |-> 0, back |-> 0]
                 ELSE inner'[q].last_refill <= now' /\ Balanced(inner'[q], ledger'[q])
    <3>1. CASE q = k
      BY <2>1, <2>4, <3>1 DEF TypeOK
    <3>2. CASE q # k
      <4>1. inner'[q] = inner[q] /\ ledger'[q] = ledger[q]
        BY <2>1, <3>2 DEF TypeOK
      <4> QED BY <2>1, <4>1 DEF Accounting
    <3> QED BY <3>1, <3>2
  <2>6. Accounting'
    BY <2>3, <2>5 DEF Accounting, Balanced
  <2> QED BY <2>2, <2>6
<1>3. ASSUME Tick PROVE IInv'
  <2>1. TypeOK'
    BY <1>3, RateLimiterAssumption DEF Tick, TypeOK, Times
  <2>2. now' = now + 1 /\ now \in Nat
    BY <1>3, RateLimiterAssumption DEF Tick, TypeOK, Times
  <2>3. \A g \in Handlers : task'[g].clock <= now' /\ (task'[g].pc = "clocked" => task'[g].key # None)
    BY <1>3, <2>2, RateLimiterAssumption DEF Tick, TypeOK, Accounting, Times
  <2>4. ASSUME NEW q \in Keys
        PROVE  IF inner'[q] = None
                 THEN ledger'[q] = [at |-> 0, spent |-> 0, back |-> 0]
                 ELSE inner'[q].last_refill <= now' /\ Balanced(inner'[q], ledger'[q])
    <3>1. inner'[q] = inner[q] /\ ledger'[q] = ledger[q]
      BY <1>3 DEF Tick
    <3>2. inner[q] # None => inner[q].last_refill \in Nat
      BY RateLimiterAssumption DEF TypeOK, Bucket, Times
    <3> QED BY <3>1, <3>2, <2>2 DEF Accounting
  <2> QED BY <2>1, <2>3, <2>4 DEF Accounting, Balanced
<1>4. CASE UNCHANGED vars
  BY <1>4 DEF vars, TypeOK, Accounting, Balanced
<1> QED BY <1>1, <1>2, <1>3, <1>4 DEF Next

\* The inductive invariant holds throughout.
THEOREM RateLimiterInvariant == Spec => []IInv
<1>1. Init => IInv
  BY InitIInv
<1>2. IInv /\ [Next]_vars => IInv'
  BY StepIInv
<1> QED BY <1>1, <1>2, PTL DEF Spec

\* Every variable keeps its type; no bucket ever holds more than its capacity
\* or less than nothing.
THEOREM RateLimiterType == Spec => []TypeOK
<1>1. IInv => TypeOK
  BY DEF IInv
<1> QED BY <1>1, RateLimiterInvariant, PTL

\* The limiter never lets more through than the capacity, the time passed,
\* and the intervals that late requests credit twice.
THEOREM RateLimiterBudget == Spec => []WithinBudget
<1>1. IInv => WithinBudget
  <2> SUFFICES ASSUME IInv, NEW k \in Keys
               PROVE  ledger[k].spent <= Cap + (now - ledger[k].at) + ledger[k].back
    BY DEF WithinBudget
  <2>1. now \in Nat /\ ledger[k] \in [at : Times, spent : Nat, back : Nat]
    BY RateLimiterAssumption DEF IInv, TypeOK, Times
  <2>2. CASE inner[k] = None
    <3>1. ledger[k].spent = 0 /\ ledger[k].at = 0 /\ ledger[k].back = 0
      BY <2>2 DEF IInv, Accounting
    <3> QED BY <2>1, <3>1, RateLimiterAssumption
  <2>3. CASE inner[k] # None
    <3>1. inner[k].last_refill <= now /\ Balanced(inner[k], ledger[k])
      BY <2>3 DEF IInv, Accounting
    <3>2. inner[k].tokens \in Nat /\ inner[k].last_refill \in Nat
      BY <2>3, RateLimiterAssumption DEF IInv, TypeOK, Bucket, Times
    <3>3. ledger[k].at \in Nat /\ ledger[k].spent \in Nat /\ ledger[k].back \in Nat
      BY <2>1, RateLimiterAssumption DEF Times
    <3> QED BY <2>1, <3>1, <3>2, <3>3, RateLimiterAssumption DEF Balanced
  <2> QED BY <2>2, <2>3
<1> QED BY <1>1, RateLimiterInvariant, PTL

\* No request is refused while its own bucket has a token's worth of budget.
THEOREM RateLimiterRefusals == Spec => RefusedOnlyWhenSpent
<1> DEFINE Refusals ==
      \A h \in Handlers :
        (task[h].pc = "clocked" /\ task'[h].pc = "refused") =>
          LET a == ledger'[task[h].key]
          IN a.spent > Cap + (task[h].clock - a.at) - Cost
<1>1. IInv /\ [Next]_vars => [Refusals]_vars
  <2> SUFFICES ASSUME IInv, Next, NEW h \in Handlers,
                      task[h].pc = "clocked", task'[h].pc = "refused"
               PROVE  ledger'[task[h].key].spent
                        > Cap + (task[h].clock - ledger'[task[h].key].at) - Cost
    OBVIOUS
  <2>1. Check(h)
    BY DEF Next, Arrive, Check, Tick, IInv, TypeOK
  <2>2. PICK k \in Keys, b \in Bucket, a \in [at : Times, spent : Nat, back : Nat],
             pc \in {"allowed", "refused"} :
            /\ task[h].pc = "clocked" /\ task[h].key = k
            /\ inner' = [inner EXCEPT ![k] = b]
            /\ ledger' = [ledger EXCEPT ![k] = a]
            /\ task' = [task EXCEPT ![h].pc = pc]
            /\ now' = now
            /\ b.last_refill = task[h].clock /\ task[h].clock <= now
            /\ Balanced(b, a)
            /\ pc = "refused" => b.tokens < Cost
    BY <2>1, CheckEffect
  <2>3. pc = "refused" /\ ledger'[k] = a
    BY <2>2 DEF IInv, TypeOK
  <2>4. b.tokens \in Nat /\ b.last_refill \in Nat /\ a.at \in Nat /\ a.spent \in Nat /\ a.back \in Nat
    BY RateLimiterAssumption DEF Bucket, Times
  <2>5. a.spent > Cap + (b.last_refill - a.at) - Cost
    BY <2>2, <2>3, <2>4, RateLimiterAssumption DEF Balanced
  <2> QED BY <2>2, <2>3, <2>5
<1>2. Spec => [][Refusals]_vars
  <2> HIDE DEF Refusals
  <2> QED BY <1>1, RateLimiterInvariant, PTL DEF Spec
<1> QED BY <1>2 DEF RefusedOnlyWhenSpent
=============================================================================
