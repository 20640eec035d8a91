--------------------------- MODULE Notifications ---------------------------
(***************************************************************************)
(* Browser notifications when several tabs of one user are open            *)
(* (client/src/main.ts, onNewPolledEntries, showLocalNotification,         *)
(* showBatchNotification, claimNotifSlot; client/src/helpers.ts,           *)
(* localCasClaim).  Every tab pulls every message by itself; a cursor in   *)
(* the shared localStorage, raised under a Web Lock, decides which tab     *)
(* notifies.                                                               *)
(*                                                                         *)
(* Permission is granted and the tabs are otherwise synchronised (module   *)
(* InboxSync): a tab is the greatest id it has pulled.                     *)
(***************************************************************************)
EXTENDS Picks, SequencesExt

CONSTANTS
  Tabs,
  CoalesceMin,   \* NOTIF_BATCH_COALESCE_MIN (4 in the code)
  MaxId,         \* bound: messages per server
  MaxOpens,      \* bound: tabs opened over the run
  MaxSwitches    \* bound: changes of the server

ASSUME NotificationsAssumption ==
  /\ CoalesceMin \in Nat \ {0}
  /\ MaxId \in Nat /\ MaxOpens \in Nat /\ MaxSwitches \in Nat

VARIABLES
  srv,      \* the configured server, counted from 0
  last,     \* its newest message for this user
  open,     \* the open tabs
  seen,     \* per tab: lastMsgId
  cursor,   \* localStorage: LS_NOTIF_CURSOR
  waiting,  \* requests for the lock "3233:notif-cursor", in order
  holders,  \* requests in localCasClaim: [req, cur], cur being what was read
  claimed,  \* requests that won, their notification not yet shown
  opens,
  \* history
  shown,    \* requests whose notification was shown
  noticed,  \* [srv, id] a tab had on screen, or loaded as history
  dropped   \* requests that won in a tab that was closed before it notified

store == <<srv, last>>
past == <<shown, noticed, dropped>>
vars == <<store, open, seen, cursor, waiting, holders, claimed, opens, past>>

Ids == 1..MaxId
Requests == [tab : Tabs, srv : 0..MaxSwitches, ids : (SUBSET Ids) \ {{}}]

TypeOK ==
  /\ srv \in 0..MaxSwitches
  /\ last \in 0..MaxId
  /\ open \subseteq Tabs
  /\ seen \in [Tabs -> 0..MaxId]
  /\ cursor \in 0..MaxId
  /\ waiting \in Seq(Requests)
  /\ holders \subseteq [req : Requests, cur : 0..MaxId]
  /\ claimed \subseteq Requests
  /\ opens \in 0..MaxOpens
  /\ shown \subseteq Requests
  /\ noticed \subseteq [srv : 0..MaxSwitches, id : Ids]
  /\ dropped \subseteq Requests

Init ==
  /\ srv = 0 /\ last = 0
  /\ open = {} /\ opens = 0
  /\ seen = [t \in Tabs |-> 0]
  /\ cursor = 0
  /\ waiting = <<>> /\ holders = {} /\ claimed = {}
  /\ shown = {} /\ noticed = {} /\ dropped = {}

On(ids) == [srv : {srv}, id : ids]

-----------------------------------------------------------------------------
(* Messages and tabs                                                       *)

\* A message for this user is stored.
Deliver ==
  /\ last < MaxId
  /\ last' = last + 1
  /\ UNCHANGED <<srv, open, seen, cursor, waiting, holders, claimed, opens, past>>

\* A page load: the backfill loads what is stored and notifies nobody.
OpenTab(t) ==
  /\ t \notin open /\ opens < MaxOpens
  /\ open' = open \union {t}
  /\ opens' = opens + 1
  /\ seen' = [seen EXCEPT ![t] = last]
  /\ noticed' = noticed \union On(1..last)
  /\ UNCHANGED <<store, cursor, waiting, holders, claimed, shown, dropped>>

\* The browser drops the tab's lock requests and releases its lock.
CloseTab(t) ==
  /\ t \in open
  /\ open' = open \ {t}
  /\ waiting' = Keep(waiting, {i \in DOMAIN waiting : waiting[i].tab # t})
  /\ holders' = {h \in holders : h.req.tab # t}
  /\ claimed' = {r \in claimed : r.tab # t}
  /\ dropped' = dropped \union {r \in claimed : r.tab = t}
  /\ UNCHANGED <<store, seen, cursor, opens, shown, noticed>>

Request(t, ids) == [tab |-> t, srv |-> srv, ids |-> ids]

\* In the order of the pulled page, which is ascending.
Singles(t, ids) ==
  [i \in 1..Cardinality(ids) |-> Request(t, {Ascending(ids)[i]})]

\* Mutant: newest first.
OffersNewestFirst(t, ids) ==
  IF Cardinality(ids) >= CoalesceMin THEN <<Request(t, ids)>> ELSE Reverse(Singles(t, ids))

\* Mutant: a pull with nothing to notify about asks for a batch notification.
OffersEmpty(t, ids) ==
  IF Cardinality(ids) >= CoalesceMin \/ ids = {} THEN <<Request(t, ids)>> ELSE Singles(t, ids)

\* onNewPolledEntries: one notification for many messages, or one for each.
Offers(t, ids) ==
  IF Cardinality(ids) >= CoalesceMin THEN <<Request(t, ids)>> ELSE Singles(t, ids)

\* pullNewMessages merges the messages up to n and hands them over; those of
\* the thread that is on screen are not notified about.
Pull(t, n, viewed) ==
  LET fresh == (seen[t] + 1)..n
  IN /\ t \in open
     /\ seen' = [seen EXCEPT ![t] = n]
     /\ waiting' = waiting \o Offers(t, fresh \ viewed)
     /\ noticed' = noticed \union On(viewed)
     /\ UNCHANGED <<store, open, cursor, holders, claimed, opens, shown, dropped>>

-----------------------------------------------------------------------------
(* Claims                                                                  *)

\* The id a request claims: the greatest one.
Slot(r) == Max(r.ids)

\* Mutant: localCasClaim without the lock.
GrantUnlocked ==
  /\ waiting # <<>>
  /\ holders' = holders \union {[req |-> Head(waiting), cur |-> cursor]}
  /\ waiting' = Tail(waiting)
  /\ UNCHANGED <<store, open, seen, cursor, claimed, opens, past>>

\* navigator.locks: exclusive, first come first served.  The callback reads
\* the cursor.
Grant ==
  /\ waiting # <<>> /\ holders = {}
  /\ holders' = {[req |-> Head(waiting), cur |-> cursor]}
  /\ waiting' = Tail(waiting)
  /\ UNCHANGED <<store, open, seen, cursor, claimed, opens, past>>

\* The rest of localCasClaim: lost if the cursor was at the id or beyond.
Claim(h) ==
  /\ h \in holders
  /\ holders' = holders \ {h}
  /\ IF Slot(h.req) <= h.cur
     THEN UNCHANGED <<cursor, claimed>>
     ELSE cursor' = Slot(h.req) /\ claimed' = claimed \union {h.req}
  /\ UNCHANGED <<store, open, seen, waiting, opens, past>>

\* The service worker is ready, or 1.5 s have passed: the notification shows.
Show(r) ==
  /\ r \in claimed
  /\ claimed' = claimed \ {r}
  /\ shown' = shown \union {r}
  /\ UNCHANGED <<store, open, seen, cursor, waiting, holders, opens, noticed, dropped>>

\* saveServer in the only tab, at rest: lastMsgId starts again, and so do the
\* ids, while LS_NOTIF_CURSOR stays.
SwitchServer(t) ==
  /\ srv < MaxSwitches
  /\ open = {t} /\ waiting = <<>> /\ holders = {} /\ claimed = {}
  /\ srv' = srv + 1
  /\ last' = 0
  /\ seen' = [seen EXCEPT ![t] = 0]
  /\ UNCHANGED <<open, cursor, waiting, holders, claimed, opens, past>>

Next ==
  \/ Deliver
  \/ \E t \in Tabs : OpenTab(t)
  \/ \E t \in Tabs : CloseTab(t)
  \/ \E t \in Tabs : \E n \in (seen[t] + 1)..last :
       \E viewed \in SUBSET ((seen[t] + 1)..n) : Pull(t, n, viewed)
  \/ Grant
  \/ \E h \in holders : Claim(h)
  \/ \E r \in claimed : Show(r)
  \/ \E t \in Tabs : SwitchServer(t)

Spec == Init /\ [][Next]_vars

-----------------------------------------------------------------------------
(* Properties                                                              *)

\* "Exactly one OS-level notification per message" (README.md), first half: no
\* message is in two notifications.  The cursor holds one id and a batch claims
\* its greatest, so a tab that is behind announces again, in a batch, what
\* another tab announced before, if a newer message is in the batch as well.
NotifiedOnce ==
  \A r, q \in shown : (r # q /\ r.srv = q.srv) => r.ids \intersect q.ids = {}

\* What the claims do ensure: two that win have different slots, a tab repeats
\* nothing of its own, and a message is repeated only in the batch of a tab that
\* was behind, never alone.
RepeatedOnlyByBatch ==
  \A r, q \in shown \union claimed :
    (r # q /\ r.srv = q.srv) =>
      /\ Slot(r) # Slot(q)
      /\ (r.ids \intersect q.ids # {} /\ Slot(r) < Slot(q)) =>
           r.tab # q.tab /\ Cardinality(q.ids) >= CoalesceMin

\* The other half: when no claim is pending, each message an open tab has
\* pulled was notified about, was on some screen, or was claimed by a tab that
\* was closed before it could notify.
AnnouncedOnEveryServer ==
  (waiting = <<>> /\ holders = {} /\ claimed = {}) =>
    \A t \in open : \A id \in 1..seen[t] :
      \/ [srv |-> srv, id |-> id] \in noticed
      \/ \E r \in shown \union dropped : r.srv = srv /\ id \in r.ids

\* Of "exactly one", one half holds in every state: no message was announced
\* twice, or none was passed over.  Each half implies this, so a state that
\* violates it refutes both.
OneHalfKept == NotifiedOnce \/ AnnouncedOnEveryServer

\* The second half holds on the server the cursor was first used with: whatever
\* the order in which tabs pull, claim, notify and close, raising the cursor for
\* a later message never silences an earlier one.
Announced == srv = 0 => AnnouncedOnEveryServer
=============================================================================
