----------------------------- MODULE MailboxOps -----------------------------
(***************************************************************************)
(* The `messages` table of the relay as its SQL statements see it: rows    *)
(* with an id and a recipient, read in pages of ascending ids.  Pure       *)
(* operators, shared by the server (Relay) and by the client (InboxSync).  *)
(***************************************************************************)
EXTENDS Naturals, FiniteSets

CONSTANT MaxLimit   \* the largest page the server serves (200 in the code)

ASSUME MaxLimitAssumption == MaxLimit \in Nat \ {0}

\* get_messages: q.limit.unwrap_or(50).clamp(1, 200)
ClampLimit(limit) ==
  IF limit < 1 THEN 1 ELSE IF limit > MaxLimit THEN MaxLimit ELSE limit

\* WHERE recipient_fingerprint = to AND id > after
Matching(rows, to, after) == {r \in rows : r.to = to /\ r.id > after}

\* Mutant: the page is cut out of the table in any order (no ORDER BY id):
\* here, the newest rows first.
NewestPage(rows, to, after, limit) ==
  LET matching == Matching(rows, to, after)
  IN {r \in matching :
        Cardinality({q \in matching : q.id > r.id}) < ClampLimit(limit)}

\* ... ORDER BY id ASC LIMIT limit: a row is on the page iff fewer than
\* `limit` matching rows come before it.
Page(rows, to, after, limit) ==
  LET matching == Matching(rows, to, after)
  IN {r \in matching :
        Cardinality({q \in matching : q.id < r.id}) < ClampLimit(limit)}
=============================================================================
