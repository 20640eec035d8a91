# 3233.io: a TLA+ model of the relay and its client

3233.io is a small end-to-end encrypted messenger: a relay server in Rust
(`server/src/lib.rs`, axum + SQLite) that stores ciphertexts for a limited time
and hints at new ones over WebSockets, and a browser client in TypeScript
(`client/src/main.ts`) that registers by proof of possession, keeps a library of
decrypted messages in step with the server, and notifies the user.

This directory models the parts whose correctness depends on interleaving,
failure or order, checks them with TLC on small instances, and proves their safety
properties, the server's and the client's, with TLAPS for every value of the constants.

## 1. Inventory

| Component | State | Operations | Talks to |
|---|---|---|---|
| Message store and REST relay (`lib.rs`, `migrations/`) | tables `users`, `messages` (AUTOINCREMENT ids, `expires_at`) | `post_message`, `get_messages`, `purge_expired`, start-up | hint channels (`notify_recipient`), clients by HTTP |
| WebSocket hints (`lib.rs`) | one `broadcast` channel of 256 ids per recipient, one task per socket | `ws_handler`, `handle_ws`, `notify_recipient` | store (ids), client sockets |
| Registration (`lib.rs`) | `pending_challenges`, registration key pair, `users` | `register_challenge`, `register`, `purge_challenges` | client `register` |
| Tokens (`lib.rs`) | JWT secret (configuration) | `sign_jwt`, `verify_jwt`, `load_jwt_secret` | every authenticated request |
| Rate limiter (`lib.rs`) | token bucket per (scope, ip) | `rate_limit_mw`, `RateLimiter::check` | in front of every request |
| Key lookup, statistics (`lib.rs`) | none | `get_public_key`, `search_keys`, `get_stats`, `get_me` | `users` |
| Session setup and inbox sync (`main.ts`) | `lastMsgId`, `libraryById`, `didFullBackfill`; server URL and token in localStorage | `runSessionSetup`, `ensureRegistered`, `register`, `backfillLibrary`, `pullNewMessages`, `refreshLibrary`, `resetLibraryState`, click handlers, reload | store, registration; started by timer, hints, user |
| WebSocket link (`main.ts`) | `ws`, `wsGen`, reconnect timer and attempt counter, indicator | `connectWs`, `disconnectWs`, `scheduleWsReconnect`, socket handlers | hints; calls `refreshLibrary` |
| Notifications (`main.ts`, `helpers.ts`) | `LS_NOTIF_CURSOR` shared by all tabs, a Web Lock | `onNewPolledEntries`, `claimNotifSlot`, `localCasClaim`, `showLocalNotification`, `showBatchNotification` | called by `pullNewMessages`; other tabs through localStorage |
| Open chats and unread cursors (`main.ts`) | `openChatIds`, `activeChatFp`, `lastReadByFp` | `ensureLastReadBaselines`, `markThreadRead`, `threadHasUnread`, tab clicks | library |
| Composer (`main.ts`) | text field, send button, active thread; sent map, key pair and token in localStorage | `doSendMessage`, `sendMessage`, `appendSent`, Enter and button, `runNewKeysReset` | `post_message`; other pages through localStorage |
| Routing and invites (`main.ts`) | URL, history | `navigateToView`, `syncViewFromUrl`, `applyInviteFromUrl` | server URL |
| Keys and cryptography (`crypto.ts`, `main.ts`) | key pair in localStorage | `loadOrCreateKeys`, NaCl box, `runNewKeysReset` | everything |
| Service worker (`sw.js`) | browser cache | network-first fetch, notification clicks | page shell |
| Template, themes, sounds, QR codes, styles, deployment | none of interest | | |

What is hard, and where:

* **Server.** Handlers run concurrently and can be dropped at any await. The
  commit of a message, the broadcast of its id and the answer are three events;
  the purge, a restart or a client's hang-up may come between them. The hint
  channel is bounded. Clients resume reading with an id as cursor, so ids must
  never come back and pages must be in order. Two sessions with one key share one
  challenge slot. The limiter reads the clock before it takes its lock.
* **Client.** Everything is async on one thread: state read before a `fetch` is
  used after it, while timers, hints and clicks start the same functions again.
  Sockets report their end long after `close()`. Several tabs share localStorage.
  Sessions end (other server, new registration, reload) under running requests.

What makes each component correct is stated in section 3 as its properties;
`PROJECT.json` lists the hazards line by line, each with the properties that
would catch it going wrong.

## 2. Modules

```
MailboxOps   LibraryOps      Rfc3339     Picks       pure operators
   |     \     |                |         |    \
 Relay    InboxSync          MCRelay  Notifications  Unread
   |  implements
 Mailbox (abstract)                   Registration  RateLimiter  WsLink  Composer
```

Each component `X` of the lower rows but `Mailbox` has a module `XProofs` with its
theorems and a module `MCX` with the configurations TLC checks.

* `MailboxOps`: `get_messages` as a pure operator (`ClampLimit`, `Matching`,
  `Page`), shared by server and client.
* `LibraryOps`: `libraryEntries` as a sequence: `Rank` is the binary search of
  `mergeLibraryEntry`, `InsertEach` that function for each row of a page, `InsertBatch`
  the push and the sort (`Sorted`) of `mergeLibraryEntries`. `MCInboxSync` evaluates
  both ways on every split of up to six entries into old and new (an `ASSUME`): they
  give the one descending list. `InboxSyncProofs` proves it for lists of any length.
* `Picks`: what `filter` leaves of an array (`Keep`), and a set of ids in ascending
  order (`Ascending`).
* `Rfc3339`: the text of a timestamp and the order SQLite compares it in. `MCRelay`
  checks in the same way that it is the order of time, with fractions of any length,
  which justifies that `Relay` compares numbers; and that years above 9999 sort first.
* `Mailbox`: the abstract promise of a relay: fresh ascending ids, messages that
  may disappear but never change or come back.
* `Relay`: tables, `post_message` in its steps (`PostAccept` validates and takes
  the timestamps, `PostInsert` commits, `PostFinish` notifies and answers,
  `PostAbandon` is a failed INSERT or a dropped handler), `Fetch`, the socket
  tasks, `Purge`, `Restart`. Registration is reduced to its row in `users`.
* `InboxSync`: one tab. An async function is a task suspended at its fetch: one
  action sends, `Serve`/`ServeFault`/`NetworkError` answer, another action is the
  continuation. The servers are `Mailbox`es (`Deliver`, `Expire`), the
  justification being that `Relay` implements `Mailbox`. The library is kept twice, as in
  the code: `library` is `libraryById`, `libraryEntries` the list.
* `WsLink`: sockets with the generation their handlers captured; the close event
  is an action of its own. A session setup is two actions with its requests in
  between.
* `Registration`: challenge slot per key, `register` split at the key lock and the
  upsert and ended at any await by `Fail` (a database error or a dropped request),
  sweep, clock, restart.
* `RateLimiter`: `Arrive` reads the clock, `Check` is what runs under the entry's
  lock. One tick refills one unit; a request costs `Cost` units.
* `Unread`: pages of one browser with their threads, active thread, cursors and painted
  dots, as records that rendering operators (`PaintTabs`, `ShowThread`) transform; a
  handler composes them in the order of the code, and `Become` saves what changed.
  Fetching is reduced to answers with the next messages. A page may have several
  backfills waiting at different cursors (`fills`), because `refreshLibrary` is called
  by the setup, the timer and the hints; `late` remembers that one of them merged a page
  after another had declared the history loaded.
* `Composer`: pages with a pair in memory, a session, the active thread, the text field
  and the button; a send is suspended at the key lookup (`lookup`), at the POST before
  (`post`) and after (`answer`) the server's step. `Submit`, by `Click` or `Enter`, is
  `doSendMessage` up to its first await, `SendDone`, `PostRefused` and `SendFails` are its
  ends. A send whose page is gone, or which failed at the page only, keeps its slot with
  `page = None`: the server may still store its message. Texts are numbered as they
  are typed, so copies can be told from new texts. `log` is every message ever stored,
  expired ones included. Session setup is reduced to whose token is stored. `Load` runs
  to the await of `loadOrCreateKeys`, `Start` is what follows it. `NewKeys` only removes
  the stored pair, token and lines: `location.reload()` is asynchronous, so the old page
  runs on, suspended calls of its own included, until some `Load` replaces it.
* `Notifications`: tabs that pull, queue for the Web Lock, read and raise the
  shared cursor in two steps, show, and close.

Conventions: names follow the source. History variables (read by properties only)
are marked where they are declared. A definition commented as `Mutant:` is a
plausible bug in place of the definition that follows it; no specification uses
it, and `PROJECT.json` pairs each with the property that must fail under it.

## 3. Runs

| Run | Bounds | Result |
|---|---|---|
| `relay` | 2 users, 2 handlers, 1 socket, 2 ids, TTL 1, clock 0..2, channel of 1, limits 0 and 3 | holds, 750 k states |
| `inbox` | 2 servers, 2 tasks, 2 messages per server, pages of 1, 2 session changes or reloads, 1 fault | holds, 509 k states |
| `inbox_overlap` | 1 server, 2 tasks, 1 session change at any moment, no faults | **violated** (finding) |
| `ws_link` | 3 sockets, 3 setups one at a time, 2 network outages, delays 1 s, 2 s, 4 s | holds, 1.6 k states |
| `ws_overlap` | 2 setups in progress together, no outages | **violated** (finding) |
| `registration` | 4 sessions (2 alike, by symmetry), 2 keys, 3 challenges, TTL 1, clock 0..1, 1 restart | holds, 666 k states |
| `rate_limiter` | 2 keys, 2 requests in flight, bucket of 2 1/2 tokens, clock 0..5 | holds, 1.7 M states |
| `unread` | 2 tabs, 2 senders, 2 messages, pages of 2, 3 loads, clicks, session changes or faults | holds, 453 k states |
| `unread_dots` | 1 tab, 2 senders, 2 messages | **violated** (two findings) |
| `composer` | 2 pages, 2 peers, 2 sends at a time, 3 messages, 4 loads, switches, texts or faults | holds, 961 k states |
| `notif` | 2 tabs, 3 messages per server, batches of 3, 1 server change | holds, 406 k states |
| `notif_promise` | 2 tabs, 4 messages per server, batches of 4 as in the code, 1 server change | **violated** (two findings) |

### What the passing runs show

**relay.** `CursorLossless`: a reader that resumes with the greatest id it has
received has received every stored message at or below it. `RetainedUntilExpiry`:
a committed message is stored until its expiry has passed, although the timestamp
is older than the commit. `IdsNeverReused`: also after the newest rows were purged.
`HintsAreFetchable`: what is queued for a socket is committed and its user's.
`NoSilentHintLoss`: after `connected`, an acknowledged message is forwarded, queued,
or the receiver has lagged and the socket is about to close; a client that sees its
socket close falls back to fetching. `ExpiredArePurged`: in the end. And the whole
implements `Mailbox` (`ImplementsMailbox`).
Bounds: two posts are enough for two rows to race, for a channel of one to
overflow, for a page limit to cut, and for the newest row to be purged before the
next insert; the clock passes the TTL twice.

**inbox.** `NoGap`: whatever pages, pulls and failures were interleaved, everything
the server stores up to `lastMsgId` is in the library, so the next pull skips
nothing. `OneServerLibrary`: entries of two servers never meet in the map that is
keyed by id. `LibraryOrdered`: the list the user sees is that map, newest first, however
backfills and pulls were interleaved. `Delivered`: a stored message is never missing for
good in a polling tab with a settled session. They are claimed only for session changes at
rest (`Overlap = FALSE`: the user changes the session when no request is in flight,
and no refresh starts while a setup is authenticating); `inbox_overlap` shows what
happens otherwise. Pages of one message are enough for a backfill of several pages;
two tasks for a backfill or pull to race with another; two session changes for a visit
to the other server and back. Functions take the first free slot, since slots are alike.

**ws_link.** `OneLiveSocket`, `TimerOnlyWhenDown`, `UiTruthful` (an open current
socket shows as live and nothing else does), `StaleHandlersExit` (a close event of
a replaced socket changes nothing), `LinkSettles`. Three generations, so that a
handler can be two behind.

**registration.** `TokenProvesPossession`: a token's challenge was minted for its
fingerprint and answered in time with its secret key. `SingleUse`: no two handlers
past the consumption of one challenge. `TokenHasUser`: a token's subject has a row,
also after restarts. `RejectionExplained`: an honest session is rejected only if
its challenge expired, was replaced or consumed by another session with the same
key, was used by an earlier attempt of its own, or the server restarted. That a second tab can consume the
first one's challenge is real: the slot is emptied before the echo is compared
(`lib.rs:345-359`).

**rate_limiter.** `RefusedOnlyWhenSpent`: a refused request's own bucket has paid
out, since it was last full, all but less than one token of its capacity plus the
time passed. `WithinBudget`: it never pays out more than its capacity and the time passed,
plus the intervals it credited twice. It does credit some twice: `check` reads the clock
before it locks the bucket and then sets `last_refill` even to an older time
(`lib.rs:85-95`). The excess is as small as the time between the clock and the lock.

**unread.** `ReadOnlyIfRendered`: mail becomes read only by being rendered in its thread
on the Chats view of some page, or by being there when its sender gets a first cursor.
This is less than the README's "opened": a hidden tab renders too (`main.ts:2030` does
not ask for the document's visibility), and the second case loses the dot of mail that
nobody has seen (`1734-1749`), a finding below. `DotsFollow`: once the history is loaded,
the dots of all threads but the active one are those of the threads with unread mail;
the active one may keep a dot of read mail, the other finding. `CursorsAdvance`: whatever
other pages save, a page does not make mail it has loaded and marked unread again.
The other exceptions are how the code behaves:
a page that renders before its history has arrived lowers the cursor of the active
thread (`1751-1758`); and when `refreshLibrary` runs twice before the history is loaded
(`2264-2268`), the second backfill goes on after the first has set `didFullBackfill`, and
what it merges has no dot until something paints the tabs. Two messages and three acts
are enough for two pages to overwrite each other's cursors, with a thread
opened, closed or reset in one of them, and for two backfills to be under way. The two
tabs, and the two senders, are interchangeable, and all properties are safety
properties, so the symmetry is sound.

**composer.** `SentMatchesStore`: every line shown as sent stands for a stored message, and
every message of the present identity has its line unless its answer is under way or was
lost. `CopiesExplained`, `SentWhereTyped` and `DraftKept` each say what may go wrong with
a text and that nothing else can: it is stored twice only after a lost answer or by a
second submit during a send; it goes to another thread than it was typed in only if
that one was active at the submit; it vanishes unsent only if it was typed during a send.
`IdentityHolds`: a stored message's sender owns its key, and a page that says "Session
active" has a registered identity as long as no page has begun a session, or stored its
token, with another pair than the stored one (`crossed`). Every exception is reachable; each is how the code behaves, and worth knowing:
* Enter does not look at `chatSend.disabled`, so a text can be sent twice, and the first
  send to end enables the button during the second (`main.ts:2471`, `2498`); an Enter
  without a token enables it too.
* A success clears the field, with text typed since the submit (`2478`).
* Mail of another sender activates that sender's thread under a half-written text
  (`2145`), and the next Enter sends it there.
* There is no idempotency key: a retry after a lost answer stores a second copy.
* A token is stored without the pair it is for, and `verifyToken` accepts any valid one
  (`411-419`). After "New keys", a `register()` that still awaits its answer, in another
  page that keeps the old pair or in the same page before its reload takes effect, stores
  the old pair's token (`403`) after it was removed (`2337`). The reloaded page makes a new
  pair, finds that token and says "Session active" without registering the new pair; its
  posts are refused by `lib.rs:482`.

Four acts are enough for two page loads and new keys with a text or a fault in between,
or one page with two texts and a switch or fault. Pages, peers and slots
are interchangeable and all properties are safety properties.

**notif.** `RepeatedOnlyByBatch`: two claims that win have different slots, no tab
announces one of its messages twice, and a message announced by one tab is repeated by
another only inside a batch with newer ones. That it is repeated at all is a finding.
`Announced`: raising the cursor for a later message never silences an earlier one, on
the server the cursor was first used with. A tab that closes between its claim and
its notification is the one exception. Batches of three let a batch of three meet single
notifications of the same messages in the other tab.

### Findings

1. `inbox_overlap` / `LoadedInFull`: a backfill that is in flight when the session
   is reset goes on, and sets `didFullBackfill` for the new session; messages of
   the pages it merged before the reset are not loaded again (`main.ts:621-646`,
   `2153-2163`).
2. `ws_overlap` / `StaleHandlersExit`: `connectWs` replaces a socket of its own
   generation, whose `onclose` is then not stale; two setups in progress (two
   clicks) leave a link that closes and reopens itself (`main.ts:328`, `686-745`).
3. `unread_dots`: the README says that the red indicator marks mail "you have not
   opened on the **Chats** screen" (`README.md:37`), but an answer with the first mail
   of a sender, followed by mail of another, leaves the first without a dot, because
   `ensureLastReadBaselines` takes it as read (`main.ts:1743`, `2145-2150`).
4. `unread_dots`: the README says that dots are "Cleared when you view that thread on
   the **Chats** tab" (`README.md:468`), but new mail of the viewed thread lights its dot,
   because the tabs are painted before the thread is marked read (`main.ts:2149-2150`), and
   the dot stays until they are painted again.
5. `notif_promise`: the README says "exactly one OS-level notification per message"
   (`README.md:515`), but a batch claims only its greatest id (`main.ts:932-940`): a
   tab that is behind repeats in its batch what another tab has announced.
6. `notif_promise`: and a message may be announced not at all. `LS_NOTIF_CURSOR` survives
   a change of server, where ids start again at 1; until they pass the old cursor nothing
   is notified (`helpers.ts:56-68`, `main.ts:2153-2163`, `2314-2342`).

Findings 3 and 4 share a run, and so do 5 and 6. `OnePromiseKept` says of each poll, and
`OneHalfKept` of each state, that at least one of two promises is kept. Each promise
alone implies it, so one counterexample breaks both; it is also what the two disjuncts
(`NewMailHasDot`, `ViewedHasNoDot`; `NotifiedOnce`, `AnnouncedOnEveryServer`) are for.

### Fairness

* `Relay`: the clock, the purge task (a tokio interval for the life of the process,
  which goes on after an error) and a socket's task when its channel is ready.
  Nothing is assumed of clients or of restarts.
* `InboxSync`: a request is answered or fails, a continuation runs (the browser's
  event loop), and the 30 s interval fires again while it is installed. Nothing is
  assumed of users and servers. Retries after faults are bounded by the number of
  faults, not by fairness.
* `WsLink`: the browser delivers open and close events and fires timers; strong
  fairness of a timer whose `new WebSocket` succeeds, because the constructor
  throws only for a URL that can never work.
* `Registration`, `RateLimiter`, `Unread`, `Notifications` and `Composer` state safety
  only. That a send ends is the browser's doing: the code sets no timeout on a fetch.

`CHECK_DEADLOCK FALSE` is set where the bounds or the system let it stop: a page
whose startup failed, a user whose acts are used up, an open link with no outages left,
used-up challenges, messages all announced.

## 4. Proofs

`RelayProofs` proves for any numbers of users, handlers, sockets and ids, any TTL and
channel capacity, every property of `relay` except liveness, including the
refinement. The argument is in layers, each an invariant proved with the one
below:

1. `TypeOK`; the one part that is not typing, that no ring outgrows its channel, needs
   `OfferType`.
2. `LogInv`: `messages` is a subset of the log, ids in the log are unique and at
   most `seq`. `IdsNeverReused` follows; so does that an INSERT gets an id above
   every cursor.
3. Retention: `messages` and the log differ only in expired rows, which `Purge`
   keeps true because time never goes back.
4. `CursorInv`: what a reader has received includes every stored row up to its
   cursor. The step that matters is `Fetch`: a page is a prefix of the matching rows
   (`PageIsPrefix`, by cardinalities), so raising the cursor to the page's
   greatest id skips nothing; `PostInsert` is harmless by layer 2.
5. `QueuedAreLogged`: ids in handlers and queues belong to logged rows of the right
   user; `HintsAreFetchable` follows with layer 3.
6. `NoSilentHintLoss`: by cases over the actions with `OfferQueue` and `TailQueue`.
7. `RelayImplementsMailbox`: `PostInsert` is a `Deliver`, `Purge` an `Expire`, all else
   stutters.

`RateLimiterProofs` rests on one invariant, the balance of an account: what is left
plus what was spent since the bucket was full equals the capacity, plus the time
passed, plus what was credited twice. It is inductive because every branch of
`Check`, the one with an older clock included, moves both sides equally
(`SettleBalances`). Both bounds are read off it.

`RegistrationProofs` has three layers. `Provenance`: an outstanding challenge was minted
for the key it is filed under, and a handler past the consumption holds one minted for
its key and taken in time. It is needed because `SingleUse` compares slots of one key
only; that handlers of different keys never hold one challenge follows from where
challenges come from. `Claims`: past the proof the secret key was shown, past the upsert
the row exists, and a challenge a token was signed for is never outstanding again. The
step that matters is `Submit`: it takes the challenge out of the slot before anything
else can run. `Causes`, for `RejectionExplained`: every challenge ever minted is still
in its slot, or has expired, was replaced, was taken, or belongs to an older
registration key (`Fates`). None of these is ever taken back (`SpentStays`), so a
rejection stays explained while the history goes on; and a session that is still
"challenged" has not taken its challenge itself (`Answers`), so somebody else did.

`InboxSyncProofs` has two independent invariants.

* `ListInv`, for `TypeOK` and `LibraryOrdered`, assumes nothing about overlapping
  sessions: the list is the map, newest first, even then. It rests on lemmas about
  `LibraryOps`. `RankIs`: on a descending list the binary search returns the boundary
  between greater and smaller ids. Instead of an induction over the search (which the
  provers do not have), it takes the shortest interval `<<lo, hi>>` that contains the
  boundary and on which the search would be wrong, and shows that half of it would be
  wrong too. `InsertEachIs` does the same with the first insertion that goes wrong.
  `PlacesAre`: in a strict total order on a finite set, the number of elements in
  front is one to one onto `0..n-1`, so `InOrder` and `Sorted` are permutations
  (`InOrderIs`, `SortedIs`, `InsertBatchIs`).
* `SyncInv`, for `NoGap` and `OneServerLibrary`, under `~Overlap`, as in the run: the
  finding `inbox_overlap` is that the code does not keep them otherwise. `Alone`
  (nothing else runs while a session is set up) gives `Current` (the token and
  whatever is under way are the configured server's). `NoGap` is not inductive: a
  pull raises `lastMsgId` to the last row of an answer that was computed before its
  continuation runs. `Reading` carries it over: the library has everything up to a
  request's cursor, and its answer leaves out nothing between the cursor and its
  greatest row (`Dense`). Pages have that property because they are prefixes
  (`PageDense`), expiry keeps it, and new mail has an id above every answer
  (`Numbered`).

`WsLinkProofs` proves `TypeOK` outright and the rest for behaviours in which setups do
not overlap (`Spec /\ []NoOverlap`, at most one setup between its `disconnectWs` and
its `connectWs`; `ws_overlap` is the finding about the others; in `ws_link` one element
of `Setups` sees to it). `LinkInv`: a socket in use has the current generation iff it is
the current socket, and with a reconnect pending there is none (`Generations`); while a
setup awaits its requests there is neither (`Quiet`). `Quiet` is what makes
`connectWs` safe: it finds nothing of its generation to replace.

`NotificationsProofs`: for `RepeatedOnlyByBatch`, whoever holds the lock has read the
cursor's present value (`Exclusive`), so every claim that wins is above all earlier ones
(`Distinct`), and a message it shares with one of them is below its slot: the claim has
more than one message, which makes it a batch (`Sized`). That the other claim is
another tab's is `Own`: a tab asks only for what it has pulled, beyond its `lastMsgId`,
so its requests are `Apart`. For `Announced`, which speaks of the first server, three statements:
every id at or below the cursor was shown, claimed or noticed (`CursorSettled`); so was
every id below the one a request claims, unless it is in that request or in one of the
same tab in front of it (`QueueSettled`); what an open tab has pulled is settled or on
its way (`SeenSettled`). The first allows a losing claim to be dropped; the second,
which holds because a tab asks in ascending order and locks are granted in order, is
what keeps the first true when a claim wins.

`UnreadProofs`: `UnreadInv` is `TypeOK`, `Loaded` (no page, cursor or loaded message is
beyond the mail), `AllDotted` (`DotsFollow` of every page that is not `late`) and
`AllBacked`: whatever is at or below a cursor, stored or in a page's memory, was rendered
or settled. The latter includes the stored cursors because a page takes over what
another one saved. A backfill's page changes no dot and no cursor; if the history was
loaded already and the page is new, it makes its tab `late` (`BackfillPageIs`).
Every handler is a composition of rendering operators, so the proof first describes
these (`PaintTabsIs`, `ShowThreadIs`, `RenderIs`, ...), shows that each handler ends in a
rendering (`PullRenders`, `PickChatRenders`, ...), and only then looks at the state once, in
`BecomePreserves`. `NoCursorBack` is the action property `CursorsAdvance`, from the same lemmas.

`ComposerProofs`: `ComposerInv` has one part per property and what each needs.
`Shape` (ids of the log are `1..n`; a send in `answer` belongs to a stored message) with
`SentMatchesStore` is inductive. `IdentityHolds` needs `OneIdentity`: while
nothing is `crossed`, the stored token is none or the stored pair's, and a page that
verifies or is active has a registered pair. `SentWhereTyped` needs `Directed`, the same for texts under way.
`DraftKept` needs `TypedAmid`: what is in a field during a send of another text was typed
during it. `CopiesExplained` needs most: `ButtonGuards` (a page whose button was never
bypassed has one send at most), `OnePage` (a text is in one field, and sent from that
page) and `Accounted`: unless a text was submitted during a send, one send has the only
stored copy that somebody knows of, and a text in the field has none that outlives its
sends. The effect of each action is a lemma (`SubmitEffect`, `EndEffect`, ...), so that the parts
are proved from effects, not from definitions.

Assumptions: only the named `ASSUME`s on constants, each evaluated by TLC in a run, and
the two hypotheses above, `~Overlap` and `NoOverlap`, which are those of the runs.

Only model-checked: the liveness properties (`ExpiredArePurged`, `Delivered`,
`LinkSettles`), because liveness under fairness is out of the prover's reach; the two
`ASSUME`s about the texts of timestamps (`Rfc3339`), which are data; and the four runs that
are violated. Every other property of every run is a theorem.

## 5. Abstractions and what is not modelled

* Ciphertexts, senders and payload checks are opaque: they refuse a request before
  anything changes. A key pair stands for its fingerprint and both halves.
* Time is a number; `expires_at` is compared as an RFC 3339 string in SQL, which
  orders the same way up to the year 9999 (`Rfc3339`).
* Token expiry is a refused request. Removal of the token by another tab is modelled in
  `Composer`, not in `InboxSync` and `WsLink`, which are single tabs.
* One turn of a page's event loop is one step, its reads and writes of localStorage
  included. `localCasClaim` is the exception, because the code itself takes a lock
  there.
* In `Composer`: one server, registered peers (an unknown one is a failed lookup), one
  session setup at a time per page, and registration as one step.
* In `Unread` a session is reset when no backfill of the page is under way; what happens
  otherwise is `inbox_overlap`. A change of server under a running registration, whose
  token is then stored for the other server (`main.ts:403`), is in no run: `inbox`
  changes sessions at rest, and `inbox_overlap` has one server.
* The bounds on running functions are real restrictions: two in `InboxSync`, two
  sends in `Composer`.
* Buckets and hint channels that are never removed (`lib.rs:72`, `115`) cost memory and
  change no answer.
* Read-only queries, routing, rendering, themes, the service worker's cache and
  deployment: see the notes in `PROJECT.json`.

## 6. Plan

Done, in this order: the relay with its proofs and the abstract mailbox; the
client's inbox sync; the WebSocket link; registration with its proofs; the rate limiter
with its proofs; notifications; threads and unread dots; the composer with key pairs and
tokens over several pages; the order of the library and of timestamps.

Also done: the proofs of every safety property the runs check, component by component.

Left:

1. Refinement on the client's side: the servers of `InboxSync` and of `Composer` are
   `Mailbox`es by construction; `RelayImplementsMailbox` is proved for the relay only.
2. `Announced` is about the server the cursor was first used with. `notif_promise` shows
   why it cannot be about all; what holds on a later server is that ids above the
   cursor at the switch are announced, which is neither stated nor proved.
3. That what `WsLink` and `InboxSync` each prove of session changes fits together: one model
   of a setup with both, where the hypotheses `NoOverlap` and `~Overlap` become one.
