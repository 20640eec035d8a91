------------------------------- MODULE Relay --------------------------------
(***************************************************************************)
(* The relay server (server/src/lib.rs): the SQLite tables that outlive a  *)
(* restart, the concurrent post_message handlers, the purge job, and the   *)
(* WebSocket tasks fed by one bounded broadcast channel per recipient.     *)
(*                                                                         *)
(* A handler is split where it awaits: what runs between two awaits is one *)
(* step.  Registration is reduced here to its effect on the `users` table; *)
(* module Registration models the protocol that leads to it.               *)
(***************************************************************************)
EXTENDS MailboxOps, Sequences

CONSTANTS
  Users,      \* fingerprints
  Handlers,   \* concurrent POST /v1/messages requests
  Sockets,    \* concurrent WebSocket connections
  Limits,     \* values of the `limit` query parameter
  TTL,        \* MESSAGE_TTL_DAYS, in clock ticks
  ChanCap,    \* capacity of a broadcast channel (256 in the code)
  MaxId,      \* bound: messages stored over the whole run
  MaxClock,   \* bound: the last instant of the run
  None        \* no user

ASSUME RelayAssumption ==
  /\ TTL \in Nat
  /\ ChanCap \in Nat \ {0}
  /\ MaxId \in Nat
  /\ MaxClock \in Nat
  /\ Limits \subseteq Nat
  /\ None \notin Users

VARIABLES
  users,      \* rows of `users`
  messages,   \* rows of `messages`: [id, to, expires]; sender and ciphertext are opaque
  seq,        \* the AUTOINCREMENT counter SQLite keeps for `messages`
  now,        \* Utc::now()
  post,       \* Handlers -> [pc, to, expires, id]
  sock,       \* Sockets -> [pc, fp, queue, lagged]
  \* history, read by the properties only
  log,        \* every row ever inserted
  acked,      \* ids answered with 201 Created
  got, seen,  \* per reader: rows received, and the greatest id among them
  base, sent  \* per socket: seq when `connected` was sent, ids forwarded

store == <<users, messages, seq>>
readers == <<got, seen>>
wire == <<sock, base, sent>>
vars == <<users, messages, seq, now, post, sock, log, acked, got, seen, base, sent>>

Rows == [id : Nat, to : Users, expires : Nat]

IdlePost == [pc |-> "idle", to |-> None, expires |-> 0, id |-> 0]
ClosedSocket == [pc |-> "closed", fp |-> None, queue |-> <<>>, lagged |-> FALSE]

Posts ==
  {IdlePost} \union [pc : {"stamped", "committed"}, to : Users, expires : Nat, id : Nat]
Tasks ==
  {ClosedSocket} \union [pc : {"subscribed", "open"}, fp : Users,
                         queue : Seq(Nat), lagged : BOOLEAN]

\* The shapes above, and no receiver's ring beyond its channel's capacity.
TypeOK ==
  /\ users \subseteq Users
  /\ messages \subseteq Rows
  /\ seq \in Nat
  /\ now \in Nat
  /\ post \in [Handlers -> Posts]
  /\ sock \in [Sockets -> Tasks]
  /\ \A s \in Sockets : Len(sock[s].queue) <= ChanCap
  /\ log \subseteq Rows
  /\ acked \subseteq Nat
  /\ got \in [Users -> SUBSET Rows]
  /\ seen \in [Users -> Nat]
  /\ base \in [Sockets -> Nat]
  /\ sent \in [Sockets -> SUBSET Nat]

Init ==
  /\ users = {}
  /\ messages = {}
  /\ seq = 0
  /\ now = 0
  /\ post = [h \in Handlers |-> IdlePost]
  /\ sock = [s \in Sockets |-> ClosedSocket]
  /\ log = {}
  /\ acked = {}
  /\ got = [u \in Users |-> {}]
  /\ seen = [u \in Users |-> 0]
  /\ base = [s \in Sockets |-> 0]
  /\ sent = [s \in Sockets |-> {}]

-----------------------------------------------------------------------------
(* REST handlers                                                           *)

\* register, its last statement: INSERT INTO users ... ON CONFLICT DO UPDATE.
Register(u) ==
  /\ users' = users \union {u}
  /\ UNCHANGED <<messages, seq, now, post, log, acked, readers, wire>>

\* post_message up to the INSERT: the token's subject and the recipient must
\* have a row in `users` (a row that nothing deletes), and the timestamps are
\* computed here, before the INSERT awaits its turn at the database.
PostAccept(h, from, to) ==
  /\ post[h].pc = "idle"
  /\ from \in users
  /\ to \in users
  /\ post' = [post EXCEPT ![h] = [pc |-> "stamped", to |-> to,
                                  expires |-> now + TTL, id |-> 0]]
  /\ UNCHANGED <<store, now, log, acked, readers, wire>>

\* id INTEGER PRIMARY KEY AUTOINCREMENT: the counter survives deletions.
NextId == seq + 1

\* The row of handler h with the id SQLite gives it.
NewRow(h, id) ==
  [id |-> id, to |-> post[h].to, expires |-> post[h].expires]

\* Mutant: INTEGER PRIMARY KEY without AUTOINCREMENT, where SQLite takes the
\* greatest id among the rows still stored plus one.
PostInsertReuse(h) ==
  LET ids == {0} \union {r.id : r \in messages}
      row == NewRow(h, (CHOOSE i \in ids : \A j \in ids : j <= i) + 1)
  IN /\ post[h].pc = "stamped"
     /\ seq < MaxId
     /\ messages' = messages \union {row}
     /\ seq' = seq + 1
     /\ log' = log \union {row}
     /\ post' = [post EXCEPT ![h].pc = "committed", ![h].id = row.id]
     /\ UNCHANGED <<users, now, acked, readers, wire>>

\* INSERT INTO messages: SQLite has one writer at a time, so ids are given in
\* commit order.
PostInsert(h) ==
  LET row == NewRow(h, NextId)
  IN /\ post[h].pc = "stamped"
     /\ seq < MaxId
     /\ messages' = messages \union {row}
     /\ seq' = row.id
     /\ log' = log \union {row}
     /\ post' = [post EXCEPT ![h].pc = "committed", ![h].id = row.id]
     /\ UNCHANGED <<users, now, acked, readers, wire>>

\* Mutant: an unbounded channel.
OfferUnbounded(k, id) == [k EXCEPT !.queue = Append(@, id)]

\* Broadcast to one receiver: a full ring overwrites its oldest slot, and the
\* receiver's next recv() answers Lagged.
Offer(k, id) ==
  IF Len(k.queue) < ChanCap
  THEN [k EXCEPT !.queue = Append(@, id)]
  ELSE [k EXCEPT !.lagged = TRUE]

\* notify_recipient: every receiver subscribed to the recipient's channel is
\* offered the id; without a channel or a receiver nothing happens.
Notify(to, id) ==
  sock' = [s \in Sockets |->
             IF sock[s].fp = to THEN Offer(sock[s], id) ELSE sock[s]]

\* Mutant: the hint goes out before the row is committed.
PostFinishEarly(h) ==
  /\ post[h].pc # "idle"
  /\ Notify(post[h].to, NextId)
  /\ acked' = acked \union {post[h].id}
  /\ post' = [post EXCEPT ![h] = IdlePost]
  /\ UNCHANGED <<store, now, log, readers, base, sent>>

\* The end of post_message: notify, then answer 201 with the id.  No await
\* separates the two.
PostFinish(h) ==
  /\ post[h].pc = "committed"
  /\ Notify(post[h].to, post[h].id)
  /\ acked' = acked \union {post[h].id}
  /\ post' = [post EXCEPT ![h] = IdlePost]
  /\ UNCHANGED <<store, now, log, readers, base, sent>>

\* The handler ends without its last step: the INSERT failed (500), or the
\* client hung up and the server dropped the future at its await, with the row
\* stored or not.
PostAbandon(h) ==
  /\ post[h].pc # "idle"
  /\ post' = [post EXCEPT ![h] = IdlePost]
  /\ UNCHANGED <<store, now, log, acked, readers, wire>>

\* GET /v1/messages?after_id=seen&limit=..., by a client that passes the
\* greatest id it has received (main.ts backfillLibrary, pullNewMessages).
Fetch(u, limit) ==
  LET page == Page(messages, u, seen[u], limit)
  IN /\ u \in users
     /\ page # {}
     /\ got' = [got EXCEPT ![u] = @ \union page]
     /\ \E top \in page :
          /\ \A r \in page : r.id <= top.id
          /\ seen' = [seen EXCEPT ![u] = top.id]
     /\ UNCHANGED <<store, now, post, log, acked, wire>>

-----------------------------------------------------------------------------
(* WebSocket tasks                                                         *)

\* ws_handler and the start of handle_ws: the task subscribes to the channel
\* of the token's subject, creating it if need be.
WsSubscribe(s, u) ==
  /\ sock[s].pc = "closed"
  /\ u \in users
  /\ sock' = [sock EXCEPT ![s] = [pc |-> "subscribed", fp |-> u,
                                  queue |-> <<>>, lagged |-> FALSE]]
  /\ UNCHANGED <<store, now, post, log, acked, readers, base, sent>>

\* The `connected` frame goes out.
WsConnected(s) ==
  /\ sock[s].pc = "subscribed"
  /\ sock' = [sock EXCEPT ![s].pc = "open"]
  /\ base' = [base EXCEPT ![s] = seq]
  /\ UNCHANGED <<store, now, post, log, acked, readers, sent>>

\* rx.recv() yields an id: a new_message frame.
WsForward(s) ==
  /\ sock[s].pc = "open"
  /\ ~sock[s].lagged
  /\ sock[s].queue # <<>>
  /\ sent' = [sent EXCEPT ![s] = @ \union {Head(sock[s].queue)}]
  /\ sock' = [sock EXCEPT ![s].queue = Tail(@)]
  /\ UNCHANGED <<store, now, post, log, acked, readers, base>>

\* The sockets of S are dropped, their receivers with them.
Hangup(S) ==
  /\ sock' = [s \in Sockets |-> IF s \in S THEN ClosedSocket ELSE sock[s]]
  /\ base' = [s \in Sockets |-> IF s \in S THEN 0 ELSE base[s]]
  /\ sent' = [s \in Sockets |-> IF s \in S THEN {} ELSE sent[s]]

\* Mutant: Lagged is treated like a skipped hint; the loop goes on.
WsLaggedContinue(s) ==
  /\ sock[s].pc = "open"
  /\ sock[s].lagged
  /\ sock' = [sock EXCEPT ![s].lagged = FALSE]
  /\ UNCHANGED <<store, now, post, log, acked, readers, base, sent>>

\* rx.recv() yields Lagged: the loop breaks and the socket is dropped.
WsLagged(s) ==
  /\ sock[s].pc = "open"
  /\ sock[s].lagged
  /\ Hangup({s})
  /\ UNCHANGED <<store, now, post, log, acked, readers>>

\* The client closes, the network fails, or a send fails.
WsClose(s) ==
  /\ sock[s].pc # "closed"
  /\ Hangup({s})
  /\ UNCHANGED <<store, now, post, log, acked, readers>>

-----------------------------------------------------------------------------
(* Time, background job, restart                                           *)

Tick ==
  /\ now < MaxClock
  /\ now' = now + 1
  /\ UNCHANGED <<store, post, log, acked, readers, wire>>

\* Mutant: DELETE ... WHERE expires_at <= now.
PurgeEager ==
  /\ \E r \in messages : r.expires <= now
  /\ messages' = {r \in messages : r.expires > now}
  /\ UNCHANGED <<users, seq, now, post, log, acked, readers, wire>>

\* Mutant: the sweep spares what its recipient has not fetched yet, which may
\* be for ever.
PurgeFetched ==
  /\ \E r \in messages : r.expires < now /\ r.id <= seen[r.to]
  /\ messages' = {r \in messages : r.expires >= now \/ r.id > seen[r.to]}
  /\ UNCHANGED <<users, seq, now, post, log, acked, readers, wire>>

\* purge_expired: DELETE FROM messages WHERE expires_at < now.
Purge ==
  /\ \E r \in messages : r.expires < now
  /\ messages' = {r \in messages : r.expires >= now}
  /\ UNCHANGED <<users, seq, now, post, log, acked, readers, wire>>

\* The process stops and build_state runs again: requests, sockets and
\* channels are gone, the database is not.
Restart ==
  /\ post' = [h \in Handlers |-> IdlePost]
  /\ Hangup(Sockets)
  /\ UNCHANGED <<store, now, log, acked, readers>>

Next ==
  \/ \E u \in Users : Register(u)
  \/ \E h \in Handlers, from, to \in Users : PostAccept(h, from, to)
  \/ \E h \in Handlers : PostInsert(h)
  \/ \E h \in Handlers : PostFinish(h)
  \/ \E h \in Handlers : PostAbandon(h)
  \/ \E u \in Users, limit \in Limits : Fetch(u, limit)
  \/ \E s \in Sockets, u \in Users : WsSubscribe(s, u)
  \/ \E s \in Sockets : WsConnected(s)
  \/ \E s \in Sockets : WsForward(s)
  \/ \E s \in Sockets : WsLagged(s)
  \/ \E s \in Sockets : WsClose(s)
  \/ Tick
  \/ Purge
  \/ Restart

\* The purge task runs on a tokio interval for as long as the process lives
\* and retries after an error; a WebSocket task is polled whenever its channel
\* is ready; time passes.  Clients are not obliged to do anything.
Fairness ==
  /\ WF_vars(Tick)
  /\ WF_vars(Purge)
  /\ \A s \in Sockets : WF_vars(WsConnected(s)) /\ WF_vars(WsForward(s)) /\ WF_vars(WsLagged(s))

Spec == Init /\ [][Next]_vars /\ Fairness

-----------------------------------------------------------------------------
(* Properties                                                              *)

\* Reading with the greatest id received as the cursor loses nothing: every
\* stored message of a reader at or below its cursor is one it has received,
\* across purges, restarts and interleaved posts (AUTOINCREMENT ids, committed
\* in order, pages in ascending order).
CursorLossless ==
  \A u \in Users : \A r \in messages :
    (r.to = u /\ r.id <= seen[u]) => r \in got[u]

\* A committed message stays in the database until its expires_at has passed,
\* whatever restarts, abandoned requests and sweeps happen in between.
RetainedUntilExpiry ==
  \A r \in log : r \in messages \/ r.expires < now

\* An id is given to one message for ever: two rows ever inserted with the
\* same id are the same row, although the older one may have been purged.
IdsNeverReused ==
  \A r, q \in log : r.id = q.id => r = q

\* A hint is sent only for a committed message of the socket's own user: a
\* client that calls GET on receiving it finds the row unless it has expired.
HintsAreFetchable ==
  \A s \in Sockets : \A i \in 1..Len(sock[s].queue) :
    \E r \in log :
      /\ r.id = sock[s].queue[i]
      /\ r.to = sock[s].fp
      /\ r \in messages \/ r.expires < now

\* Between `connected` and the close of a socket no acknowledged message of
\* its user goes without a hint: it was forwarded, it is queued, or the
\* receiver has lagged and the socket is about to be closed.
NoSilentHintLoss ==
  \A s \in Sockets : \A r \in log :
    (/\ sock[s].pc = "open" /\ ~sock[s].lagged
     /\ r.to = sock[s].fp /\ r.id > base[s] /\ r.id \in acked)
    => \/ r.id \in sent[s]
       \/ \E i \in 1..Len(sock[s].queue) : sock[s].queue[i] = r.id

\* Every message that outlives its TTL is deleted in the end.
ExpiredArePurged ==
  \A id \in 1..MaxId :
    (\E r \in messages : r.id = id /\ r.expires < now)
      ~> ~(\E r \in messages : r.id = id)

\* The relay implements the abstract mailbox.
Abstract == INSTANCE Mailbox WITH
  box <- {[id |-> r.id, to |-> r.to] : r \in messages},
  last <- seq
ImplementsMailbox == Abstract!Spec
=============================================================================
