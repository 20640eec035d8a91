---------------------------- MODULE RateLimiter ----------------------------
(***************************************************************************)
(* The token buckets in front of the API (server/src/lib.rs, RateLimiter   *)
(* and rate_limit_mw).  Requests run concurrently: each reads the clock    *)
(* first and only then locks the bucket of its (scope, ip), so a request   *)
(* may settle its account with a time older than the bucket's.             *)
(*                                                                         *)
(* Time is counted in ticks and tokens in the credit of one tick, so a     *)
(* tick refills 1 and a request costs Cost; the code's f64 arithmetic is   *)
(* exact here.  Buckets are never removed.                                 *)
(***************************************************************************)
EXTENDS Integers

CONSTANTS
  Keys,      \* (scope, ip) pairs
  Handlers,  \* requests in flight at a time
  Cost,      \* ticks that refill one token (1 / refill_per_sec)
  Cap,       \* capacity, in ticks' worth of credit
  MaxClock,  \* bound: the last instant
  None

ASSUME RateLimiterAssumption ==
  /\ Cost \in Nat \ {0}
  /\ Cap \in Nat /\ Cap >= Cost
  /\ MaxClock \in Nat
  /\ None \notin Keys
  /\ None \notin [tokens : Nat, last_refill : Nat]

VARIABLES
  now,
  inner,   \* Keys -> the bucket, None before the first request
  task,    \* Handlers -> [pc, key, clock]: the middleware of a request
  ledger   \* history: Keys -> [at, spent, back], the account since the
           \* bucket was last full: when that was, what was spent since, and
           \* by how much last_refill was moved back since

vars == <<now, inner, task, ledger>>

Times == 0..MaxClock
Bucket == [tokens : 0..Cap, last_refill : Times]

TypeOK ==
  /\ now \in Times
  /\ inner \in [Keys -> Bucket \union {None}]
  /\ task \in [Handlers -> [pc : {"idle", "clocked", "allowed", "refused"},
                            key : Keys \union {None}, clock : Times]]
  /\ ledger \in [Keys -> [at : Times, spent : Nat, back : Nat]]

Init ==
  /\ now = 0
  /\ inner = [k \in Keys |-> None]
  /\ task = [h \in Handlers |-> [pc |-> "idle", key |-> None, clock |-> 0]]
  /\ ledger = [k \in Keys |-> [at |-> 0, spent |-> 0, back |-> 0]]

-----------------------------------------------------------------------------

\* A request reaches the middleware: its key is chosen and check() reads the
\* clock.
Arrive(h, k) ==
  /\ task[h].pc # "clocked"
  /\ task' = [task EXCEPT ![h] = [pc |-> "clocked", key |-> k, clock |-> now]]
  /\ UNCHANGED <<now, inner, ledger>>

\* entry(key).or_insert: a new bucket is full.
Entry(k, t) == IF inner[k] = None THEN [tokens |-> Cap, last_refill |-> t] ELSE inner[k]

\* Instant::duration_since saturates at zero.
Elapsed(b, t) == IF t >= b.last_refill THEN t - b.last_refill ELSE 0

\* Mutant: the capacity is not applied.
RefilledUncapped(b, t) == b.tokens + Elapsed(b, t)

\* Mutant: tokens are whole, and the remainder of the elapsed time is lost.
RefilledWhole(b, t) ==
  LET r == b.tokens + Cost * (Elapsed(b, t) \div Cost)
  IN IF r > Cap THEN Cap ELSE r

Refilled(b, t) ==
  LET r == b.tokens + Elapsed(b, t)
  IN IF r > Cap THEN Cap ELSE r

\* Mutant: a refused request leaves last_refill, though it took the credit.
StampOnSuccess(b, t) == IF Refilled(b, t) >= Cost THEN t ELSE b.last_refill

Stamp(b, t) == t

\* The account after the refill: it starts anew when the bucket is full.
Account(k, b, t, r) ==
  IF inner[k] = None \/ r = Cap
    THEN [at |-> t, spent |-> 0, back |-> 0]
    ELSE [ledger[k] EXCEPT !.back = @ + (IF t < b.last_refill THEN b.last_refill - t ELSE 0)]

\* The rest of check(), under the lock of the entry.
Check(h) ==
  LET k == task[h].key
      t == task[h].clock
      b == Entry(k, t)
      r == Refilled(b, t)
      a == Account(k, b, t, r)
      allowed == r >= Cost
  IN /\ task[h].pc = "clocked"
     /\ inner' = [inner EXCEPT ![k] = [tokens |-> IF allowed THEN r - Cost ELSE r,
                                       last_refill |-> Stamp(b, t)]]
     /\ ledger' = [ledger EXCEPT ![k] = IF allowed THEN [a EXCEPT !.spent = @ + Cost] ELSE a]
     /\ task' = [task EXCEPT ![h].pc = IF allowed THEN "allowed" ELSE "refused"]
     /\ UNCHANGED now

Tick ==
  /\ now < MaxClock
  /\ now' = now + 1
  /\ UNCHANGED <<inner, task, ledger>>

Next ==
  \/ \E h \in Handlers, k \in Keys : Arrive(h, k)
  \/ \E h \in Handlers : Check(h)
  \/ Tick

Spec == Init /\ [][Next]_vars

-----------------------------------------------------------------------------
(* Properties                                                              *)

\* From a full bucket, what is spent never exceeds the capacity and the time
\* passed since, but for the intervals credited twice because a request with
\* an older clock moved last_refill back.
WithinBudget ==
  \A k \in Keys :
    ledger[k].spent <= Cap + (now - ledger[k].at) + ledger[k].back

\* A request is refused only if the budget of its own (scope, ip) was spent,
\* up to less than one token: neither another scope, nor a request that
\* settles late, nor an earlier refusal takes credit from it.
RefusedOnlyWhenSpent ==
  [][\A h \in Handlers :
       (task[h].pc = "clocked" /\ task'[h].pc = "refused") =>
         LET a == ledger'[task[h].key]
         IN a.spent > Cap + (task[h].clock - a.at) - Cost]_vars
=============================================================================
