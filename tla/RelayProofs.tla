---------------------------- MODULE RelayProofs -----------------------------
(***************************************************************************)
(* Theorems about Relay, for every set of users, handlers and sockets and  *)
(* every bound.  The invariants are proved in layers, each from the ones   *)
(* before it: types; the shape of the log and what a handler holds; what a *)
(* cursor has seen; what a socket is owed.                                 *)
(***************************************************************************)
EXTENDS Relay, FiniteSetTheorems, TLAPS

-----------------------------------------------------------------------------
(* Types                                                                   *)

\* A broadcast leaves a receiver's record well typed and its ring no longer
\* than the channel's capacity.
LEMMA OfferType ==
  ASSUME NEW k \in [pc : {"subscribed", "open"}, fp : Users,
                    queue : Seq(Nat), lagged : BOOLEAN],
         NEW id \in Nat, Len(k.queue) <= ChanCap
  PROVE  /\ Offer(k, id) \in [pc : {"subscribed", "open"}, fp : Users,
                              queue : Seq(Nat), lagged : BOOLEAN]
         /\ Len(Offer(k, id).queue) <= ChanCap
<1>1. CASE Len(k.queue) < ChanCap
  <2>1. Append(k.queue, id) \in Seq(Nat) /\ Len(Append(k.queue, id)) = Len(k.queue) + 1
    OBVIOUS
  <2>2. Offer(k, id) = [k EXCEPT !.queue = Append(k.queue, id)]
    BY <1>1 DEF Offer
  <2>3. Len(k.queue) \in Nat /\ ChanCap \in Nat
    BY RelayAssumption
  <2>4. Offer(k, id).queue = Append(k.queue, id)
    BY <2>2
  <2>5. Len(Offer(k, id).queue) <= ChanCap
    BY <1>1, <2>1, <2>3, <2>4
  <2> QED BY <2>1, <2>2, <2>5
<1>2. CASE ~(Len(k.queue) < ChanCap)
  BY <1>2 DEF Offer
<1> QED BY <1>1, <1>2

\* Notifying a user keeps every socket's record well typed.
LEMMA NotifyType ==
  ASSUME TypeOK, NEW to \in Users, NEW id \in Nat, Notify(to, id)
  PROVE  /\ sock' \in [Sockets -> Tasks]
         /\ \A s \in Sockets : Len(sock'[s].queue) <= ChanCap
<1> SUFFICES ASSUME NEW s \in Sockets
             PROVE  sock'[s] \in Tasks /\ Len(sock'[s].queue) <= ChanCap
  BY DEF Notify, TypeOK
<1>1. CASE sock[s].fp = to
  <2>1. sock'[s] = Offer(sock[s], id)
    BY <1>1 DEF Notify
  <2>2. sock[s] \in [pc : {"subscribed", "open"}, fp : Users,
                     queue : Seq(Nat), lagged : BOOLEAN]
    BY <1>1, RelayAssumption DEF TypeOK, Tasks, ClosedSocket
  <2> QED BY <2>1, <2>2, OfferType DEF TypeOK, Tasks
<1>2. CASE sock[s].fp # to
  BY <1>2 DEF Notify, TypeOK
<1> QED BY <1>1, <1>2

\* Type correctness of the server: every variable keeps the shape TypeOK gives
\* it, and no receiver's ring outgrows the capacity of its channel.
THEOREM RelayType == Spec => []TypeOK
<1>1. Init => TypeOK
  BY RelayAssumption DEF Init, TypeOK, Posts, Tasks, IdlePost, ClosedSocket
<1>2. TypeOK /\ [Next]_vars => TypeOK'
  <2> SUFFICES ASSUME TypeOK, [Next]_vars PROVE TypeOK'
    OBVIOUS
  <2> USE DEF store, readers, wire
  <2>1. ASSUME NEW u \in Users, Register(u) PROVE TypeOK'
    BY <2>1 DEF TypeOK, Register
  <2>2. ASSUME NEW h \in Handlers, NEW from \in Users, NEW to \in Users,
               PostAccept(h, from, to)
        PROVE  TypeOK'
    BY <2>2, RelayAssumption DEF TypeOK, PostAccept, Posts
  <2>3. ASSUME NEW h \in Handlers, PostInsert(h) PROVE TypeOK'
    <3>1. post[h] \in [pc : {"stamped", "committed"}, to : Users, expires : Nat, id : Nat]
      BY <2>3 DEF TypeOK, Posts, IdlePost, PostInsert
    <3>2. NewRow(h, NextId) \in Rows
      BY <3>1 DEF TypeOK, NewRow, NextId, Rows
    <3>3. post' \in [Handlers -> Posts]
      BY <2>3, <3>1, <3>2 DEF TypeOK, PostInsert, Posts, Rows
    <3> QED BY <2>3, <3>2, <3>3 DEF TypeOK, PostInsert, Rows
  <2>4. ASSUME NEW h \in Handlers, PostFinish(h) PROVE TypeOK'
    <3>1. post[h].to \in Users /\ post[h].id \in Nat
      BY <2>4 DEF TypeOK, Posts, IdlePost, PostFinish
    <3>2. Notify(post[h].to, post[h].id)
      BY <2>4 DEF PostFinish
    <3>3. /\ sock' \in [Sockets -> Tasks]
          /\ \A s \in Sockets : Len(sock'[s].queue) <= ChanCap
      BY <3>1, <3>2, NotifyType
    <3> QED BY <2>4, <3>1, <3>3 DEF TypeOK, PostFinish, Posts
  <2>5. ASSUME NEW h \in Handlers, PostAbandon(h) PROVE TypeOK'
    BY <2>5 DEF TypeOK, PostAbandon, Posts
  <2>6. ASSUME NEW u \in Users, NEW limit \in Limits, Fetch(u, limit) PROVE TypeOK'
    <3>1. Page(messages, u, seen[u], limit) \subseteq Rows
      BY DEF TypeOK, Page, Matching
    <3> QED BY <2>6, <3>1 DEF TypeOK, Fetch, Rows
  <2>7. ASSUME NEW s \in Sockets, NEW u \in Users, WsSubscribe(s, u) PROVE TypeOK'
    BY <2>7, RelayAssumption DEF TypeOK, WsSubscribe, Tasks
  <2>8. ASSUME NEW s \in Sockets, WsConnected(s) PROVE TypeOK'
    <3>1. sock[s] \in [pc : {"subscribed", "open"}, fp : Users,
                       queue : Seq(Nat), lagged : BOOLEAN]
      BY <2>8 DEF TypeOK, WsConnected, Tasks, ClosedSocket
    <3>2. sock' \in [Sockets -> Tasks] /\ \A t \in Sockets : sock'[t].queue = sock[t].queue
      BY <2>8, <3>1 DEF TypeOK, WsConnected, Tasks
    <3> QED BY <2>8, <3>2 DEF TypeOK, WsConnected
  <2>9. ASSUME NEW s \in Sockets, WsForward(s) PROVE TypeOK'
    <3>1. sock[s] \in [pc : {"subscribed", "open"}, fp : Users,
                       queue : Seq(Nat), lagged : BOOLEAN]
      BY <2>9 DEF TypeOK, WsForward, Tasks, ClosedSocket
    <3>2. /\ Head(sock[s].queue) \in Nat
          /\ Tail(sock[s].queue) \in Seq(Nat)
          /\ Len(Tail(sock[s].queue)) <= Len(sock[s].queue)
      BY <2>9, <3>1 DEF WsForward
    <3>3. sock' \in [Sockets -> Tasks]
      BY <2>9, <3>1, <3>2 DEF TypeOK, WsForward, Tasks
    <3>4. \A t \in Sockets : Len(sock'[t].queue) <= ChanCap
      BY <2>9, <3>1, <3>2, RelayAssumption DEF TypeOK, WsForward, Tasks
    <3> QED BY <2>9, <3>2, <3>3, <3>4 DEF TypeOK, WsForward
  <2>10. ASSUME NEW S \in SUBSET Sockets, Hangup(S),
                UNCHANGED <<store, now, log, acked, readers>>, post' \in [Handlers -> Posts]
         PROVE  TypeOK'
    BY <2>10, RelayAssumption DEF TypeOK, Hangup, Tasks, ClosedSocket
  <2>11. ASSUME NEW s \in Sockets, WsLagged(s) PROVE TypeOK'
    BY <2>10, <2>11 DEF WsLagged, TypeOK
  <2>12. ASSUME NEW s \in Sockets, WsClose(s) PROVE TypeOK'
    BY <2>10, <2>12 DEF WsClose, TypeOK
  <2>13. ASSUME Tick PROVE TypeOK'
    BY <2>13 DEF TypeOK, Tick
  <2>14. ASSUME Purge PROVE TypeOK'
    BY <2>14 DEF TypeOK, Purge
  <2>15. ASSUME Restart PROVE TypeOK'
    BY <2>10, <2>15 DEF Restart, Posts
  <2>16. ASSUME UNCHANGED vars PROVE TypeOK'
    BY <2>16 DEF TypeOK, vars
  <2> QED
    BY <2>1, <2>2, <2>3, <2>4, <2>5, <2>6, <2>7, <2>8, <2>9, <2>11, <2>12, <2>13,
       <2>14, <2>15, <2>16 DEF Next
<1> QED BY <1>1, <1>2, PTL DEF Spec

-----------------------------------------------------------------------------
(* The log and what a handler holds                                        *)

\* Ids come from the counter, are unique for ever, and a committed handler
\* holds the id and the recipient of a row it has inserted.  The counter must
\* never fall back: this is what makes IdsNeverReused inductive.
LogInv ==
  /\ IsFiniteSet(log)
  /\ messages \subseteq log
  /\ \A r \in log : r.id <= seq
  /\ \A id \in acked : id <= seq
  /\ IdsNeverReused
  /\ \A h \in Handlers : post[h].pc = "committed" =>
       \E r \in log : r.id = post[h].id /\ r.to = post[h].to

\* Ids are unique among all rows ever inserted, purged ones included.
THEOREM RelayLog == Spec => []LogInv
<1>1. Init => LogInv
  BY FS_EmptySet DEF Init, LogInv, IdsNeverReused, IdlePost
<1>2. TypeOK /\ LogInv /\ [Next]_vars => LogInv'
  <2> SUFFICES ASSUME TypeOK, LogInv, [Next]_vars PROVE LogInv'
    OBVIOUS
  <2> USE DEF store, readers, wire
  <2>1. ASSUME UNCHANGED <<messages, seq, log, acked>>,
               \A h \in Handlers : post'[h].pc = "committed" => post'[h] = post[h]
        PROVE  LogInv'
    BY <2>1 DEF LogInv, IdsNeverReused
  <2>2. ASSUME NEW h \in Handlers, NEW from \in Users, NEW to \in Users,
               PostAccept(h, from, to)
        PROVE  LogInv'
    BY <2>1, <2>2 DEF PostAccept, TypeOK
  <2>3. ASSUME NEW h \in Handlers, PostInsert(h) PROVE LogInv'
    <3> DEFINE row == NewRow(h, NextId)
    <3>1. /\ row.id = seq + 1 /\ row.to = post[h].to
          /\ log' = log \union {row} /\ messages' = messages \union {row}
          /\ seq' = seq + 1 /\ acked' = acked
          /\ post' = [post EXCEPT ![h].pc = "committed", ![h].id = row.id]
      BY <2>3 DEF PostInsert, NewRow, NextId
    <3>2. IsFiniteSet(log')
      BY <3>1, FS_AddElement DEF LogInv
    <3>3. \A r \in log : r.id \in Nat /\ r.id < row.id
      BY <3>1 DEF LogInv, TypeOK, Rows
    <3>4. IdsNeverReused'
      BY <3>1, <3>3 DEF LogInv, IdsNeverReused
    <3>5. (\A r \in log : r.id <= seq)' /\ (\A id \in acked : id <= seq)'
      BY <3>1, <3>3 DEF LogInv, TypeOK
    <3>6. ASSUME NEW g \in Handlers, post'[g].pc = "committed"
          PROVE  \E r \in log' : r.id = post'[g].id /\ r.to = post'[g].to
      <4>1. CASE g = h
        <5>1. post[h] \in [pc : {"stamped", "committed"}, to : Users, expires : Nat, id : Nat]
          BY <2>3 DEF TypeOK, Posts, IdlePost, PostInsert
        <5>2. post'[h].id = row.id /\ post'[h].to = row.to
          BY <3>1, <5>1 DEF TypeOK
        <5> QED BY <3>1, <4>1, <5>2
      <4>2. CASE g # h
        BY <3>1, <3>6, <4>2 DEF LogInv, TypeOK
      <4> QED BY <4>1, <4>2
    <3> QED BY <3>1, <3>2, <3>4, <3>5, <3>6 DEF LogInv
  <2>4. ASSUME NEW h \in Handlers, PostFinish(h) PROVE LogInv'
    <3>1. post[h].id <= seq
      BY <2>4 DEF LogInv, PostFinish
    <3>2. \A g \in Handlers : post'[g].pc = "committed" => post'[g] = post[g]
      BY <2>4 DEF PostFinish, TypeOK, IdlePost
    <3> QED BY <2>4, <3>1, <3>2 DEF LogInv, IdsNeverReused, PostFinish
  <2>5. ASSUME NEW h \in Handlers, PostAbandon(h) PROVE LogInv'
    BY <2>1, <2>5 DEF PostAbandon, TypeOK, IdlePost
  <2>6. ASSUME Purge PROVE LogInv'
    BY <2>6 DEF LogInv, IdsNeverReused, Purge
  <2>7. ASSUME Restart PROVE LogInv'
    BY <2>1, <2>7 DEF Restart, IdlePost
  <2> QED
    BY <2>1, <2>2, <2>3, <2>4, <2>5, <2>6, <2>7
    DEF Next, vars, Register, Fetch, WsSubscribe, WsConnected, WsForward, WsLagged,
        WsClose, Tick
<1> QED BY <1>1, <1>2, RelayType, PTL DEF Spec

\* The property the run checks, from the layer above.
THEOREM RelayIdsNeverReused == Spec => []IdsNeverReused
<1>1. LogInv => IdsNeverReused
  BY DEF LogInv
<1> QED BY <1>1, RelayLog, PTL

-----------------------------------------------------------------------------
(* Retention                                                               *)

\* A row leaves the table only when its expires_at has passed, and time does
\* not run backwards: no committed message is lost before its TTL.
THEOREM RelayRetention == Spec => []RetainedUntilExpiry
<1>1. Init => RetainedUntilExpiry
  BY DEF Init, RetainedUntilExpiry
<1>2. TypeOK /\ RetainedUntilExpiry /\ [Next]_vars => RetainedUntilExpiry'
  <2> SUFFICES ASSUME TypeOK, RetainedUntilExpiry, [Next]_vars
               PROVE  RetainedUntilExpiry'
    OBVIOUS
  <2> USE DEF store, readers, wire
  <2>1. ASSUME UNCHANGED <<messages, log, now>> PROVE RetainedUntilExpiry'
    BY <2>1 DEF RetainedUntilExpiry
  <2>2. ASSUME NEW h \in Handlers, PostInsert(h) PROVE RetainedUntilExpiry'
    BY <2>2 DEF RetainedUntilExpiry, PostInsert
  <2>3. ASSUME Tick PROVE RetainedUntilExpiry'
    BY <2>3 DEF RetainedUntilExpiry, Tick, TypeOK, Rows
  <2>4. ASSUME Purge PROVE RetainedUntilExpiry'
    BY <2>4 DEF RetainedUntilExpiry, Purge, TypeOK, Rows
  <2> QED
    BY <2>1, <2>2, <2>3, <2>4
    DEF Next, vars, Register, PostAccept, PostFinish, PostAbandon, Fetch, WsSubscribe,
        WsConnected, WsForward, WsLagged, WsClose, Restart
<1> QED BY <1>1, <1>2, RelayType, PTL DEF Spec

-----------------------------------------------------------------------------
(* Cursors                                                                 *)

\* The limit the SQL statement is given is a number, whatever was asked for.
LEMMA ClampLimitType ==
  ASSUME NEW limit \in Nat PROVE ClampLimit(limit) \in Nat
  BY MaxLimitAssumption DEF ClampLimit

\* A page is downward closed: a matching row below a row of the page is on
\* the page too (ORDER BY id ASC LIMIT).
LEMMA PageIsPrefix ==
  ASSUME NEW rows, IsFiniteSet(rows), \A x \in rows : x.id \in Nat,
         NEW to, NEW after, NEW limit \in Nat,
         NEW r \in Page(rows, to, after, limit),
         NEW q \in Matching(rows, to, after), q.id <= r.id
  PROVE  q \in Page(rows, to, after, limit)
<1> DEFINE M == Matching(rows, to, after)
           Before(x) == {y \in M : y.id < x.id}
<1>1. IsFiniteSet(M)
  BY FS_Subset DEF Matching
<1>2. IsFiniteSet(Before(r)) /\ IsFiniteSet(Before(q))
  BY <1>1, FS_Subset
<1>3. Before(q) \subseteq Before(r)
  BY DEF Page, Matching
<1>4. Cardinality(Before(q)) <= Cardinality(Before(r))
  BY <1>2, <1>3, FS_Subset
<1>5. Cardinality(Before(r)) < ClampLimit(limit)
  BY DEF Page
<1>6. Cardinality(Before(q)) < ClampLimit(limit)
  BY <1>2, <1>4, <1>5, ClampLimitType, FS_CardinalityType
<1> QED BY <1>6 DEF Page

\* A cursor is an id some row has had: the next id is above every cursor.
CursorInv ==
  /\ CursorLossless
  /\ \A u \in Users : seen[u] <= seq

\* Reading with the greatest id received as the cursor loses no message,
\* whatever purges, posts, restarts and readers do in between.
THEOREM RelayCursor == Spec => []CursorInv
<1>1. Init => CursorInv
  BY DEF Init, CursorInv, CursorLossless
<1>2. TypeOK /\ LogInv /\ CursorInv /\ [Next]_vars => CursorInv'
  <2> SUFFICES ASSUME TypeOK, LogInv, CursorInv, [Next]_vars PROVE CursorInv'
    OBVIOUS
  <2> USE DEF store, readers, wire
  <2>1. ASSUME UNCHANGED <<messages, seq, got, seen>> PROVE CursorInv'
    BY <2>1 DEF CursorInv, CursorLossless
  <2>2. ASSUME NEW h \in Handlers, PostInsert(h) PROVE CursorInv'
    <3>1. /\ messages' = messages \union {NewRow(h, NextId)}
          /\ NewRow(h, NextId).id = seq + 1 /\ seq' = seq + 1
          /\ got' = got /\ seen' = seen
      BY <2>2 DEF PostInsert, NewRow, NextId
    <3> QED BY <3>1 DEF CursorInv, CursorLossless, TypeOK
  <2>3. ASSUME NEW u \in Users, NEW limit \in Limits, Fetch(u, limit) PROVE CursorInv'
    <3> DEFINE page == Page(messages, u, seen[u], limit)
    <3>1. PICK top \in page :
            /\ \A r \in page : r.id <= top.id
            /\ seen' = [seen EXCEPT ![u] = top.id]
      BY <2>3 DEF Fetch
    <3>2. /\ got' = [got EXCEPT ![u] = @ \union page]
          /\ messages' = messages /\ seq' = seq
      BY <2>3 DEF Fetch
    <3>3. top \in messages /\ top.id > seen[u]
      BY <3>1 DEF Page, Matching
    <3>4. top.id <= seq /\ top.id \in Nat
      BY <3>3 DEF LogInv, TypeOK, Rows
    <3>5. ASSUME NEW r \in messages, r.to = u, r.id <= top.id
          PROVE  r \in got[u] \union page
      <4>1. CASE r.id <= seen[u]
        BY <3>5, <4>1 DEF CursorInv, CursorLossless
      <4>2. CASE ~(r.id <= seen[u])
        <5>1. r \in Matching(messages, u, seen[u])
          BY <3>5, <4>2 DEF Matching, TypeOK, Rows
        <5>2. IsFiniteSet(messages) /\ \A x \in messages : x.id \in Nat
          BY FS_Subset DEF LogInv, TypeOK, Rows
        <5>3. limit \in Nat
          BY RelayAssumption
        <5> QED BY <3>1, <3>5, <5>1, <5>2, <5>3, PageIsPrefix
      <4> QED BY <4>1, <4>2
    <3>6. \A w \in Users : seen'[w] <= seq'
      BY <3>1, <3>2, <3>4 DEF CursorInv, TypeOK
    <3>7. CursorLossless'
      BY <3>1, <3>2, <3>5 DEF CursorInv, CursorLossless, TypeOK
    <3> QED BY <3>6, <3>7 DEF CursorInv
  <2>4. ASSUME Purge PROVE CursorInv'
    BY <2>4 DEF CursorInv, CursorLossless, Purge
  <2> QED
    BY <2>1, <2>2, <2>3, <2>4
    DEF Next, vars, Register, PostAccept, PostFinish, PostAbandon, WsSubscribe,
        WsConnected, WsForward, WsLagged, WsClose, Tick, Restart
<1> QED BY <1>1, <1>2, RelayType, RelayLog, PTL DEF Spec

\* The property the run checks, from the layer above.
THEOREM RelayCursorLossless == Spec => []CursorLossless
<1>1. CursorInv => CursorLossless
  BY DEF CursorInv
<1> QED BY <1>1, RelayCursor, PTL

-----------------------------------------------------------------------------
(* Hints                                                                   *)

\* Whatever is queued for a socket is the id of an inserted row of its user.
QueuedAreLogged ==
  \A s \in Sockets : \A i \in 1..Len(sock[s].queue) :
    \E r \in log : r.id = sock[s].queue[i] /\ r.to = sock[s].fp

\* What a broadcast leaves in one receiver: nothing is lost unless the
\* receiver is marked lagged, and only the new id is added.
LEMMA OfferQueue ==
  ASSUME NEW k \in [pc : {"subscribed", "open"}, fp : Users,
                    queue : Seq(Nat), lagged : BOOLEAN],
         NEW id \in Nat
  PROVE  /\ Offer(k, id).pc = k.pc /\ Offer(k, id).fp = k.fp
         /\ k.lagged => Offer(k, id).lagged
         /\ \A i \in 1..Len(Offer(k, id).queue) :
              \/ Offer(k, id).queue[i] = id
              \/ \E j \in 1..Len(k.queue) : Offer(k, id).queue[i] = k.queue[j]
         /\ ~Offer(k, id).lagged =>
              /\ \E i \in 1..Len(Offer(k, id).queue) : Offer(k, id).queue[i] = id
              /\ \A j \in 1..Len(k.queue) :
                   \E i \in 1..Len(Offer(k, id).queue) : Offer(k, id).queue[i] = k.queue[j]
<1>1. CASE Len(k.queue) < ChanCap
  <2> DEFINE q2 == Append(k.queue, id)
  <2>1. Offer(k, id) = [k EXCEPT !.queue = q2]
    BY <1>1 DEF Offer
  <2>2. /\ Offer(k, id).queue = q2 /\ Offer(k, id).pc = k.pc
        /\ Offer(k, id).fp = k.fp /\ Offer(k, id).lagged = k.lagged
    BY <2>1
  <2>3. /\ Len(k.queue) \in Nat /\ Len(q2) = Len(k.queue) + 1
        /\ q2[Len(k.queue) + 1] = id
        /\ \A j \in 1..Len(k.queue) : q2[j] = k.queue[j]
    OBVIOUS
  <2>4. \A i \in 1..Len(q2) : q2[i] = id \/ \E j \in 1..Len(k.queue) : q2[i] = k.queue[j]
    <3> SUFFICES ASSUME NEW i \in 1..Len(q2)
                 PROVE  q2[i] = id \/ \E j \in 1..Len(k.queue) : q2[i] = k.queue[j]
      OBVIOUS
    <3>1. i = Len(k.queue) + 1 \/ i \in 1..Len(k.queue)
      BY <2>3
    <3> QED BY <2>3, <3>1
  <2>5. Len(k.queue) + 1 \in 1..Len(q2) /\ 1..Len(k.queue) \subseteq 1..Len(q2)
    BY <2>3
  <2> QED BY <2>2, <2>3, <2>4, <2>5
<1>2. CASE ~(Len(k.queue) < ChanCap)
  <2>1. Offer(k, id) = [k EXCEPT !.lagged = TRUE]
    BY <1>2 DEF Offer
  <2> QED BY <2>1
<1> QED BY <1>1, <1>2

\* A socket that is subscribed to some user is a running task.
LEMMA SubscribedTask ==
  ASSUME TypeOK, NEW s \in Sockets, sock[s].fp \in Users
  PROVE  sock[s] \in [pc : {"subscribed", "open"}, fp : Users,
                      queue : Seq(Nat), lagged : BOOLEAN]
  BY RelayAssumption DEF TypeOK, Tasks, ClosedSocket

\* What a forwarding step leaves in the queue.
LEMMA TailQueue ==
  ASSUME NEW q \in Seq(Nat), q # <<>>
  PROVE  /\ Len(q) >= 1 /\ Head(q) = q[1]
         /\ Len(Tail(q)) = Len(q) - 1
         /\ \A i \in 1..Len(Tail(q)) : i + 1 \in 1..Len(q) /\ Tail(q)[i] = q[i + 1]
         /\ \A j \in 1..Len(q) : j = 1 \/ (j - 1 \in 1..Len(Tail(q)) /\ Tail(q)[j - 1] = q[j])
  OBVIOUS

\* Commit precedes notification, so nothing is queued that is not stored.
THEOREM RelayQueued == Spec => []QueuedAreLogged
<1>1. Init => QueuedAreLogged
  BY DEF Init, QueuedAreLogged, ClosedSocket
<1>2. TypeOK /\ LogInv /\ QueuedAreLogged /\ [Next]_vars => QueuedAreLogged'
  <2> SUFFICES ASSUME TypeOK, LogInv, QueuedAreLogged, [Next]_vars
               PROVE  QueuedAreLogged'
    OBVIOUS
  <2> USE DEF store, readers, wire
  <2>1. ASSUME log \subseteq log',
               \A s \in Sockets : \/ sock'[s].queue = <<>>
                                  \/ sock'[s].queue = sock[s].queue /\ sock'[s].fp = sock[s].fp
        PROVE  QueuedAreLogged'
    BY <2>1 DEF QueuedAreLogged
  <2>2. ASSUME NEW h \in Handlers, PostFinish(h) PROVE QueuedAreLogged'
    <3>1. PICK row \in log : row.id = post[h].id /\ row.to = post[h].to
      BY <2>2 DEF LogInv, PostFinish
    <3>2. row.to \in Users /\ row.id \in Nat
      BY DEF LogInv, TypeOK, Rows
    <3>3. log' = log /\ sock' = [s \in Sockets |->
                         IF sock[s].fp = row.to THEN Offer(sock[s], row.id) ELSE sock[s]]
      BY <2>2, <3>1 DEF PostFinish, Notify
    <3>4. ASSUME NEW s \in Sockets, NEW i \in 1..Len(sock'[s].queue)
          PROVE  \E r \in log : r.id = sock'[s].queue[i] /\ r.to = sock'[s].fp
      <4>1. CASE sock[s].fp = row.to
        <5>1. sock'[s] = Offer(sock[s], row.id)
          BY <3>3, <4>1
        <5>2. sock[s] \in [pc : {"subscribed", "open"}, fp : Users,
                           queue : Seq(Nat), lagged : BOOLEAN]
          BY <3>2, <4>1, SubscribedTask
        <5>3. /\ sock'[s].fp = sock[s].fp
              /\ \/ sock'[s].queue[i] = row.id
                 \/ \E j \in 1..Len(sock[s].queue) : sock'[s].queue[i] = sock[s].queue[j]
          BY <3>2, <3>4, <5>1, <5>2, OfferQueue
        <5> QED BY <4>1, <5>3 DEF QueuedAreLogged
      <4>2. CASE sock[s].fp # row.to
        BY <3>3, <3>4, <4>2 DEF QueuedAreLogged
      <4> QED BY <4>1, <4>2
    <3> QED BY <3>3, <3>4 DEF QueuedAreLogged
  <2>3. ASSUME NEW s \in Sockets, WsForward(s) PROVE QueuedAreLogged'
    <3>1. sock[s].queue \in Seq(Nat) /\ sock[s].queue # <<>>
      BY <2>3 DEF WsForward, TypeOK, Tasks, ClosedSocket
    <3>2. sock' = [sock EXCEPT ![s].queue = Tail(@)] /\ log' = log
      BY <2>3 DEF WsForward
    <3>3. /\ sock'[s].queue = Tail(sock[s].queue) /\ sock'[s].fp = sock[s].fp
          /\ \A t \in Sockets \ {s} : sock'[t] = sock[t]
      <4>1. sock[s] \in [pc : {"subscribed", "open"}, fp : Users,
                         queue : Seq(Nat), lagged : BOOLEAN]
        BY <2>3 DEF WsForward, TypeOK, Tasks, ClosedSocket
      <4> QED BY <3>2, <4>1 DEF TypeOK
    <3>4. \A i \in 1..Len(Tail(sock[s].queue)) :
            i + 1 \in 1..Len(sock[s].queue) /\ Tail(sock[s].queue)[i] = sock[s].queue[i + 1]
      BY <3>1, TailQueue
    <3>5. \A i \in 1..Len(sock'[s].queue) :
            \E r \in log' : r.id = sock'[s].queue[i] /\ r.to = sock'[s].fp
      BY <3>2, <3>3, <3>4 DEF QueuedAreLogged
    <3> QED BY <3>2, <3>3, <3>5 DEF QueuedAreLogged
  <2>4. ASSUME NEW S \in SUBSET Sockets, Hangup(S), log' = log PROVE QueuedAreLogged'
    BY <2>1, <2>4 DEF Hangup, ClosedSocket
  <2>5. ASSUME NEW s \in Sockets, NEW u \in Users, WsSubscribe(s, u)
        PROVE  QueuedAreLogged'
    BY <2>1, <2>5 DEF WsSubscribe, TypeOK
  <2>6. ASSUME NEW s \in Sockets, WsConnected(s) PROVE QueuedAreLogged'
    <3>1. sock[s] \in [pc : {"subscribed", "open"}, fp : Users,
                       queue : Seq(Nat), lagged : BOOLEAN]
      BY <2>6 DEF WsConnected, TypeOK, Tasks, ClosedSocket
    <3> QED BY <2>1, <2>6, <3>1 DEF WsConnected, TypeOK
  <2>7. ASSUME NEW h \in Handlers, PostInsert(h) PROVE QueuedAreLogged'
    BY <2>1, <2>7 DEF PostInsert
  <2> QED
    BY <2>1, <2>2, <2>3, <2>4, <2>5, <2>6, <2>7
    DEF Next, vars, Register, PostAccept, PostAbandon, Fetch, WsLagged, WsClose,
        Tick, Purge, Restart
<1> QED BY <1>1, <1>2, RelayType, RelayLog, PTL DEF Spec

\* A client that calls GET on a hint finds the message, unless it has expired.
THEOREM RelayHints == Spec => []HintsAreFetchable
<1>1. QueuedAreLogged /\ RetainedUntilExpiry => HintsAreFetchable
  BY DEF QueuedAreLogged, RetainedUntilExpiry, HintsAreFetchable
<1> QED BY <1>1, RelayQueued, RelayRetention, PTL

\* No acknowledged message of an open, unlagged socket's user goes without a
\* hint: the subscription precedes `connected`, so every later commit finds it.
THEOREM RelayNoSilentHintLoss == Spec => []NoSilentHintLoss
<1>1. Init => NoSilentHintLoss
  BY DEF Init, NoSilentHintLoss
<1>2. TypeOK /\ LogInv /\ NoSilentHintLoss /\ [Next]_vars => NoSilentHintLoss'
  <2> SUFFICES ASSUME TypeOK, LogInv, NoSilentHintLoss, [Next]_vars
               PROVE  NoSilentHintLoss'
    OBVIOUS
  <2> USE DEF store, readers, wire
  <2> DEFINE Same(s) == sock'[s] = sock[s] /\ base'[s] = base[s] /\ sent'[s] = sent[s]
  <2>1. ASSUME log' = log, acked' = acked,
               \A s \in Sockets : sock'[s].pc # "open" \/ Same(s)
        PROVE  NoSilentHintLoss'
    BY <2>1 DEF NoSilentHintLoss
  <2>2. ASSUME NEW h \in Handlers, PostInsert(h) PROVE NoSilentHintLoss'
    <3>1. /\ log' = log \union {NewRow(h, NextId)} /\ NewRow(h, NextId).id = seq + 1
          /\ acked' = acked /\ sock' = sock /\ base' = base /\ sent' = sent
      BY <2>2 DEF PostInsert, NewRow, NextId
    <3>2. NewRow(h, NextId).id \notin acked
      BY <3>1 DEF LogInv, TypeOK
    <3> QED BY <3>1, <3>2 DEF NoSilentHintLoss
  <2>3. ASSUME NEW h \in Handlers, PostFinish(h) PROVE NoSilentHintLoss'
    <3>1. PICK row \in log : row.id = post[h].id /\ row.to = post[h].to
      BY <2>3 DEF LogInv, PostFinish
    <3>2. row.to \in Users /\ row.id \in Nat
      BY DEF LogInv, TypeOK, Rows
    <3>3. /\ log' = log /\ base' = base /\ sent' = sent /\ acked' = acked \union {row.id}
          /\ sock' = [s \in Sockets |->
                        IF sock[s].fp = row.to THEN Offer(sock[s], row.id) ELSE sock[s]]
      BY <2>3, <3>1 DEF PostFinish, Notify
    <3>4. ASSUME NEW s \in Sockets, NEW r \in log, sock'[s].pc = "open", ~sock'[s].lagged,
                 r.to = sock'[s].fp, r.id > base[s], r.id \in acked \union {row.id}
          PROVE  \/ r.id \in sent[s]
                 \/ \E i \in 1..Len(sock'[s].queue) : sock'[s].queue[i] = r.id
      <4>1. r.id = row.id => r = row
        BY DEF LogInv, IdsNeverReused
      <4>2. CASE sock[s].fp = row.to
        <5>1. sock'[s] = Offer(sock[s], row.id)
          BY <3>3, <4>2
        <5>2. sock[s] \in [pc : {"subscribed", "open"}, fp : Users,
                           queue : Seq(Nat), lagged : BOOLEAN]
          BY <3>2, <4>2, SubscribedTask
        <5>3. /\ sock'[s].pc = sock[s].pc /\ sock'[s].fp = sock[s].fp
              /\ ~sock[s].lagged
              /\ \E i \in 1..Len(sock'[s].queue) : sock'[s].queue[i] = row.id
              /\ \A j \in 1..Len(sock[s].queue) :
                   \E i \in 1..Len(sock'[s].queue) : sock'[s].queue[i] = sock[s].queue[j]
          <6>1. ~Offer(sock[s], row.id).lagged
            BY <3>4, <5>1
          <6>2. \E i \in 1..Len(Offer(sock[s], row.id).queue) :
                  Offer(sock[s], row.id).queue[i] = row.id
            BY <3>2, <5>2, <6>1, OfferQueue
          <6>3. \A j \in 1..Len(sock[s].queue) : \E i \in 1..Len(Offer(sock[s], row.id).queue) :
                  Offer(sock[s], row.id).queue[i] = sock[s].queue[j]
            BY <3>2, <5>2, <6>1, OfferQueue
          <6>4. /\ Offer(sock[s], row.id).pc = sock[s].pc
                /\ Offer(sock[s], row.id).fp = sock[s].fp
                /\ ~sock[s].lagged
            BY <3>2, <5>2, <6>1, OfferQueue
          <6> QED BY <5>1, <6>2, <6>3, <6>4
        <5>4. CASE r.id = row.id
          BY <5>3, <5>4
        <5>5. CASE r.id \in acked
          BY <3>4, <5>3, <5>5 DEF NoSilentHintLoss
        <5> QED BY <3>4, <5>4, <5>5
      <4>3. CASE sock[s].fp # row.to
        BY <3>3, <3>4, <4>1, <4>3 DEF NoSilentHintLoss
      <4> QED BY <4>2, <4>3
    <3> QED BY <3>3, <3>4 DEF NoSilentHintLoss
  <2>4. ASSUME NEW s \in Sockets, WsConnected(s) PROVE NoSilentHintLoss'
    <3>1. /\ log' = log /\ acked' = acked /\ sent' = sent
          /\ base' = [base EXCEPT ![s] = seq]
          /\ \A t \in Sockets \ {s} : sock'[t] = sock[t]
      BY <2>4 DEF WsConnected, TypeOK
    <3>2. base'[s] = seq /\ \A r \in log : r.id \in Nat /\ r.id <= seq
      BY <3>1 DEF TypeOK, LogInv, Rows
    <3>3. \A t \in Sockets \ {s} : base'[t] = base[t]
      BY <3>1 DEF TypeOK
    <3>4. \A r \in log : ~(r.id > base'[s])
      BY <3>2 DEF TypeOK
    <3> QED BY <3>1, <3>3, <3>4 DEF NoSilentHintLoss
  <2>5. ASSUME NEW s \in Sockets, WsForward(s) PROVE NoSilentHintLoss'
    <3>1. sock[s] \in [pc : {"subscribed", "open"}, fp : Users,
                       queue : Seq(Nat), lagged : BOOLEAN]
      BY <2>5 DEF WsForward, TypeOK, Tasks, ClosedSocket
    <3> DEFINE q == sock[s].queue
    <3>2. q \in Seq(Nat) /\ q # <<>>
      BY <2>5, <3>1 DEF WsForward
    <3>3. /\ log' = log /\ acked' = acked /\ base' = base
          /\ \A t \in Sockets \ {s} : sock'[t] = sock[t] /\ sent'[t] = sent[t]
          /\ sock'[s].queue = Tail(q) /\ sock'[s].fp = sock[s].fp
          /\ sock'[s].pc = sock[s].pc /\ sock'[s].lagged = sock[s].lagged
          /\ sent'[s] = sent[s] \union {Head(q)}
      BY <2>5, <3>1 DEF WsForward, TypeOK
    <3>4. Head(q) = q[1] /\ \A j \in 1..Len(q) :
             j = 1 \/ (j - 1 \in 1..Len(Tail(q)) /\ Tail(q)[j - 1] = q[j])
      BY <3>2, TailQueue
    <3>5. \A j \in 1..Len(q) : q[j] \in sent'[s]
                              \/ \E i \in 1..Len(sock'[s].queue) : sock'[s].queue[i] = q[j]
      BY <3>3, <3>4
    <3>6. ASSUME NEW r \in log, sock'[s].pc = "open", ~sock'[s].lagged,
                 r.to = sock'[s].fp, r.id > base[s], r.id \in acked
          PROVE  \/ r.id \in sent'[s]
                 \/ \E i \in 1..Len(sock'[s].queue) : sock'[s].queue[i] = r.id
      <4>1. r.id \in sent[s] \/ \E j \in 1..Len(q) : q[j] = r.id
        BY <3>3, <3>6 DEF NoSilentHintLoss
      <4> QED BY <3>3, <3>5, <4>1
    <3>7. ASSUME NEW t \in Sockets \ {s}, NEW r \in log, sock'[t].pc = "open",
                 ~sock'[t].lagged, r.to = sock'[t].fp, r.id > base[t], r.id \in acked
          PROVE  \/ r.id \in sent'[t]
                 \/ \E i \in 1..Len(sock'[t].queue) : sock'[t].queue[i] = r.id
      BY <3>3, <3>7 DEF NoSilentHintLoss
    <3>8. ASSUME NEW t \in Sockets, NEW r \in log', sock'[t].pc = "open",
                 ~sock'[t].lagged, r.to = sock'[t].fp, r.id > base'[t], r.id \in acked'
          PROVE  \/ r.id \in sent'[t]
                 \/ \E i \in 1..Len(sock'[t].queue) : sock'[t].queue[i] = r.id
      <4>1. CASE t = s
        BY <3>3, <3>6, <3>8, <4>1
      <4>2. CASE t # s
        BY <3>3, <3>7, <3>8, <4>2
      <4> QED BY <4>1, <4>2
    <3> QED BY <3>8 DEF NoSilentHintLoss
  <2>6. ASSUME NEW S \in SUBSET Sockets, Hangup(S), log' = log, acked' = acked
        PROVE  NoSilentHintLoss'
    BY <2>1, <2>6 DEF Hangup, ClosedSocket
  <2>7. ASSUME NEW s \in Sockets, NEW u \in Users, WsSubscribe(s, u)
        PROVE  NoSilentHintLoss'
    BY <2>1, <2>7 DEF WsSubscribe, TypeOK
  <2> QED
    BY <2>1, <2>2, <2>3, <2>4, <2>5, <2>6, <2>7
    DEF Next, vars, Register, PostAccept, PostAbandon, Fetch, WsLagged, WsClose,
        Tick, Purge, Restart
<1> QED BY <1>1, <1>2, RelayType, RelayLog, PTL DEF Spec

-----------------------------------------------------------------------------
(* Refinement                                                              *)

\* The relay is a mailbox: an INSERT is a Deliver with the next id, a purge is
\* an Expire, and every other step leaves the mailbox alone.
THEOREM RelayImplementsMailbox == Spec => ImplementsMailbox
<1>1. Init => Abstract!Init
  BY DEF Init, Abstract!Init
<1>2. TypeOK /\ [Next]_vars => [Abstract!Next]_(Abstract!vars)
  <2> SUFFICES ASSUME TypeOK, [Next]_vars PROVE Abstract!Next \/ UNCHANGED Abstract!vars
    OBVIOUS
  <2> USE DEF store, readers, wire
  <2>1. ASSUME UNCHANGED <<messages, seq>> PROVE UNCHANGED Abstract!vars
    BY <2>1 DEF Abstract!vars
  <2>2. ASSUME NEW h \in Handlers, PostInsert(h) PROVE Abstract!Next
    <3>1. post[h].to \in Users
      BY <2>2 DEF TypeOK, Posts, IdlePost, PostInsert
    <3>2. /\ messages' = messages \union {NewRow(h, NextId)} /\ seq' = seq + 1
          /\ NewRow(h, NextId).id = seq + 1 /\ NewRow(h, NextId).to = post[h].to
      BY <2>2 DEF PostInsert, NewRow, NextId
    <3> QED BY <3>1, <3>2 DEF Abstract!Next, Abstract!Deliver
  <2>3. ASSUME Purge PROVE Abstract!Next
    BY <2>3 DEF Purge, Abstract!Next, Abstract!Expire
  <2> QED
    BY <2>1, <2>2, <2>3
    DEF Next, vars, Register, PostAccept, PostFinish, PostAbandon, Fetch, WsSubscribe,
        WsConnected, WsForward, WsLagged, WsClose, Tick, Restart
<1> QED BY <1>1, <1>2, RelayType, PTL DEF Spec, ImplementsMailbox, Abstract!Spec
=============================================================================
