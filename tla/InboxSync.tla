------------------------------ MODULE InboxSync -----------------------------
(***************************************************************************)
(* One browser tab of the client (client/src/main.ts) keeping its message  *)
(* library in step with a server: session setup, history backfill, pulls   *)
(* triggered by the 30 s timer and by WebSocket hints, server switches,    *)
(* re-registration and page reloads.                                       *)
(*                                                                         *)
(* Every async function runs as a task that is suspended at each fetch; a  *)
(* request is answered by the server in one step (Serve...) and its        *)
(* continuation runs in another, so whatever the tab did in between shows. *)
(* Servers are the abstract mailboxes that Relay implements.               *)
(***************************************************************************)
EXTENDS MailboxOps, LibraryOps

CONSTANTS
  Servers,     \* relay servers the user may point the client at
  Home,        \* the server of the first page load
  Me,          \* this tab's fingerprint
  Tasks,       \* slots for concurrently running async functions
  Batch,       \* FETCH_BATCH
  Overlap,     \* may a session change overlap other running tasks?
  MaxId,       \* bound: messages per server
  MaxActs,     \* bound: session changes and reloads by the user
  MaxFaults,   \* bound: failed answers and network errors
  None

ASSUME InboxAssumption ==
  /\ Home \in Servers /\ None \notin Servers
  /\ Batch \in 1..MaxLimit
  /\ Overlap \in BOOLEAN
  /\ MaxId \in Nat /\ MaxActs \in Nat /\ MaxFaults \in Nat
  /\ Tasks # {}

VARIABLES
  box, last,   \* per server: stored messages, greatest id given out
  url,         \* localStorage: the server's base URL
  token,       \* localStorage: the server that issued the stored token
  lastMsgId, didFullBackfill,
  library,     \* libraryById: a set of entries with distinct ids
  libraryEntries, \* the list that is searched and shown
  page,        \* "booting", "polling" (timers installed) or "dead"
  linked,      \* has connectWs been called since the last disconnectWs?
  task,        \* Tasks -> record, see Idle
  acts, faults \* how much of the bounds is used up

servers == <<box, last>>
storage == <<url, token>>
lib == <<lastMsgId, library, libraryEntries, didFullBackfill>>
bounds == <<acts, faults>>
vars == <<servers, storage, lib, page, linked, task, bounds>>

\* A task: where it is suspended, what it was called with, the token and the
\* server of its pending request, its cursor, and the answer if there is one.
Idle == [pc |-> "idle", reset |-> FALSE, boot |-> FALSE, tok |-> None,
         asked |-> None, cursor |-> 0, answered |-> FALSE, ok |-> FALSE, rows |-> {}]

Auth == {"verify", "challenge", "register"}
Waiting == {"backfill", "pull"}

Entries == [id : 1..MaxId, srv : Servers]

TypeOK ==
  /\ box \in [Servers -> SUBSET [id : 1..MaxId, to : {Me}]]
  /\ last \in [Servers -> 0..MaxId]
  /\ url \in Servers
  /\ token \in Servers \union {None}
  /\ lastMsgId \in 0..MaxId
  /\ library \subseteq Entries
  /\ libraryEntries \in Seq(Entries)
  /\ \A e, f \in library : e.id = f.id => e = f
  /\ didFullBackfill \in BOOLEAN
  /\ page \in {"booting", "polling", "dead"}
  /\ linked \in BOOLEAN
  /\ task \in [Tasks ->
       [pc : {"idle", "stats", "pulling"} \union Auth \union Waiting,
        reset : BOOLEAN, boot : BOOLEAN, tok : Servers \union {None},
        asked : Servers \union {None}, cursor : 0..MaxId, answered : BOOLEAN,
        ok : BOOLEAN, rows : SUBSET [id : 1..MaxId, to : {Me}]]]
  /\ acts \in 0..MaxActs
  /\ faults \in 0..MaxFaults

-----------------------------------------------------------------------------
(* The library                                                             *)

IdsOf(entries) == {e.id : e \in entries}
Top(ids, floor) == CHOOSE i \in ids \union {floor} : \A j \in ids \union {floor} : j <= i

\* libraryById.has: an id the library already has is dropped.
New(rows, srv) ==
  {[id |-> r.id, srv |-> srv] : r \in {x \in rows : x.id \notin IdsOf(library)}}

\* Mutant: the batch is pushed and the sort forgotten.
MergeUnsorted(rows, srv) ==
  /\ library' = library \union New(rows, srv)
  /\ libraryEntries' = libraryEntries \o InOrder(New(rows, srv))

\* mergeLibraryEntries
MergeEntries(rows, srv) ==
  /\ library' = library \union New(rows, srv)
  /\ libraryEntries' = InsertBatch(libraryEntries, New(rows, srv))

\* The loop of pullNewMessages
MergeEach(rows, srv) ==
  /\ library' = library \union New(rows, srv)
  /\ libraryEntries' = InsertEach(libraryEntries, New(rows, srv))

\* Mutant: the cursor of the old session survives the reset.
ResetKeepsCursor ==
  /\ lastMsgId' = lastMsgId
  /\ library' = {} /\ libraryEntries' = <<>>
  /\ didFullBackfill' = FALSE

\* Mutant: the entries of the old session survive the reset.
ResetKeepsEntries ==
  /\ lastMsgId' = 0
  /\ UNCHANGED <<library, libraryEntries>>
  /\ didFullBackfill' = FALSE

\* resetLibraryState, as far as synchronisation goes.
ResetLibrary ==
  /\ lastMsgId' = 0
  /\ library' = {} /\ libraryEntries' = <<>>
  /\ didFullBackfill' = FALSE

-----------------------------------------------------------------------------
(* Session setup                                                           *)

\* ensureRegistered up to its first await: check the stored token, or start
\* to register when there is none.
SetupTask(reset, boot, tok, srv) ==
  [Idle EXCEPT !.pc = IF tok = None THEN "challenge" ELSE "verify",
               !.reset = reset, !.boot = boot, !.tok = tok, !.asked = srv]

\* Slots are interchangeable: the first function of a page runs in this one.
First == CHOOSE t \in Tasks : TRUE

\* Page load: main() runs the first session setup.
Init ==
  /\ box = [s \in Servers |-> {}]
  /\ last = [s \in Servers |-> 0]
  /\ url = Home
  /\ token \in {None, Home}
  /\ lastMsgId = 0 /\ library = {} /\ libraryEntries = <<>> /\ didFullBackfill = FALSE
  /\ page = "booting"
  /\ linked = FALSE
  /\ task = [t \in Tasks |-> IF t = First THEN SetupTask(FALSE, TRUE, token, Home) ELSE Idle]
  /\ acts = 0 /\ faults = 0

AllIdle == \A t \in Tasks : task[t].pc = "idle"
InAuth == \E t \in Tasks : task[t].pc \in Auth

\* The slot the next function to be called runs in.
Free(t) == task[t].pc = "idle" /\ t = (CHOOSE u \in Tasks : task[u].pc = "idle")

Continue(t, k) == task' = [task EXCEPT ![t] = k]
Fault == faults < MaxFaults /\ faults' = faults + 1

\* The click handlers that end in runSessionSetup: without Overlap the user
\* waits until the tab is quiet.
MayAct(t) ==
  /\ acts < MaxActs /\ acts' = acts + 1
  /\ page # "dead"
  /\ Free(t)
  /\ Overlap \/ AllIdle

\* saveServer: another URL drops the token; the library is to be reset.
SaveServer(t, srv) ==
  /\ MayAct(t)
  /\ url' = srv
  /\ token' = IF srv = url THEN token ELSE None
  /\ linked' = FALSE
  /\ Continue(t, SetupTask(TRUE, FALSE, token', srv))
  /\ UNCHANGED <<servers, lib, page, faults>>

\* registerBtn: drops the token and sets the session up again.
Reregister(t) ==
  /\ MayAct(t)
  /\ token' = None
  /\ linked' = FALSE
  /\ Continue(t, SetupTask(TRUE, FALSE, None, url))
  /\ UNCHANGED <<servers, url, lib, page, faults>>

\* A reload drops every task and everything in memory, but not localStorage.
Reload ==
  /\ acts < MaxActs /\ acts' = acts + 1
  /\ page' = "booting"
  /\ linked' = FALSE
  /\ ResetLibrary
  /\ task' = [u \in Tasks |-> IF u = First THEN SetupTask(FALSE, TRUE, token, url) ELSE Idle]
  /\ UNCHANGED <<servers, storage, faults>>

\* runSessionSetup after ensureRegistered: reset if asked to or if this was a
\* new registration, then await the server's statistics.
SetupGoesOn(t, isNew) ==
  /\ IF task[t].reset \/ isNew THEN ResetLibrary ELSE UNCHANGED lib
  /\ Continue(t, [Idle EXCEPT !.pc = "stats", !.boot = task[t].boot])

\* GET /v1/me answers 200.
VerifyOk(t) ==
  /\ task[t].pc = "verify"
  /\ task[t].tok = task[t].asked
  /\ SetupGoesOn(t, FALSE)
  /\ UNCHANGED <<servers, storage, page, linked, bounds>>

\* Any other answer (401, but 429 and 500 too) drops the stored token and
\* registers afresh, with whatever server is configured by now.
VerifyRefused(t) ==
  /\ task[t].pc = "verify"
  /\ \/ task[t].tok # task[t].asked /\ UNCHANGED faults
     \/ Fault
  /\ token' = None
  /\ Continue(t, [task[t] EXCEPT !.pc = "challenge", !.tok = None, !.asked = url])
  /\ UNCHANGED <<servers, url, lib, page, linked, acts>>

\* The challenge arrives; the proof goes to the server configured by now (tok
\* remembers who issued the challenge).
ChallengeOk(t) ==
  /\ task[t].pc = "challenge"
  /\ Continue(t, [task[t] EXCEPT !.pc = "register", !.tok = task[t].asked, !.asked = url])
  /\ UNCHANGED <<servers, storage, lib, page, linked, bounds>>

\* The registration is accepted where its challenge was issued: the token is
\* stored, whatever the configured server is by now.
RegisterOk(t) ==
  /\ task[t].pc = "register"
  /\ task[t].tok = task[t].asked
  /\ token' = task[t].asked
  /\ SetupGoesOn(t, TRUE)
  /\ UNCHANGED <<servers, url, page, linked, bounds>>

\* startup() goes on after its session setup: the timers are installed.
Booted(t) == page' = IF task[t].boot THEN "polling" ELSE page

\* Either request is refused: the setup returns with an error message.
RegisterRefused(t) ==
  /\ task[t].pc \in {"challenge", "register"}
  /\ \/ task[t].pc = "register" /\ task[t].tok # task[t].asked /\ UNCHANGED faults
     \/ Fault
  /\ Continue(t, Idle)
  /\ Booted(t)
  /\ UNCHANGED <<servers, storage, lib, linked, acts>>

-----------------------------------------------------------------------------
(* Refresh: backfillLibrary, then pullNewMessages                          *)

\* Mutant: once the history is loaded, refreshLibrary returns.
RefreshOnce(k) ==
  IF didFullBackfill \/ token = None
  THEN k
  ELSE [k EXCEPT !.pc = "backfill", !.tok = token, !.asked = url, !.cursor = 0]

\* The start of refreshLibrary in a task that goes on as k: one full backfill
\* per session, with the token of this moment.
RefreshTask(k) ==
  IF didFullBackfill \/ token = None
  THEN [k EXCEPT !.pc = "pulling"]
  ELSE [k EXCEPT !.pc = "backfill", !.tok = token, !.asked = url, !.cursor = 0]

\* The statistics are in, or failed: connectWs (which needs a token), then the
\* first refresh of the session.
StatsDone(t) ==
  /\ task[t].pc = "stats"
  /\ linked' = (linked \/ token # None)
  /\ Continue(t, RefreshTask([Idle EXCEPT !.boot = task[t].boot]))
  /\ UNCHANGED <<servers, storage, lib, page, bounds>>

\* The 30 s timer, or a new_message hint.
RefreshStart(t) ==
  /\ Free(t)
  /\ page = "polling" \/ linked
  /\ Overlap \/ ~InAuth
  /\ Continue(t, RefreshTask(Idle))
  /\ UNCHANGED <<servers, storage, lib, page, linked, bounds>>

\* GET /v1/messages?after_id=cursor: a server accepts the tokens it issued.
Serve(t) ==
  LET k == task[t]
      valid == k.tok = k.asked
  IN /\ k.pc \in Waiting /\ ~k.answered
     /\ Continue(t, [k EXCEPT !.answered = TRUE, !.ok = valid,
                     !.rows = IF valid THEN Page(box[k.asked], Me, k.cursor, Batch) ELSE {}])
     /\ UNCHANGED <<servers, storage, lib, page, linked, bounds>>

\* The server refuses the request: 429, 500, or an expired token.
ServeFault(t) ==
  /\ task[t].pc \in Waiting /\ ~task[t].answered
  /\ Continue(t, [task[t] EXCEPT !.answered = TRUE])
  /\ Fault
  /\ UNCHANGED <<servers, storage, lib, page, linked, acts>>

\* The loop of backfillLibrary ends, in whichever way.
BackfillEnds(t) ==
  /\ didFullBackfill' = TRUE
  /\ Continue(t, [Idle EXCEPT !.pc = "pulling", !.boot = task[t].boot])

\* A page of history: merge it, raise lastMsgId, and ask for the next page if
\* this one was full (same token, the server configured by now).
BackfillPage(t) ==
  LET k == task[t]
  IN /\ k.pc = "backfill" /\ k.answered /\ k.rows # {}
     /\ MergeEntries(k.rows, k.asked)
     /\ lastMsgId' = Top(IdsOf(k.rows), lastMsgId)
     /\ IF Cardinality(k.rows) < Batch
        THEN BackfillEnds(t)
        ELSE /\ Continue(t, [k EXCEPT !.cursor = Top(IdsOf(k.rows), 0), !.asked = url,
                              !.answered = FALSE, !.ok = FALSE, !.rows = {}])
             /\ UNCHANGED didFullBackfill
     /\ UNCHANGED <<servers, storage, page, linked, bounds>>

\* An empty page, or an error: the backfill counts as done either way.
BackfillStop(t) ==
  /\ task[t].pc = "backfill" /\ task[t].answered /\ task[t].rows = {}
  /\ BackfillEnds(t)
  /\ UNCHANGED <<servers, storage, lastMsgId, library, libraryEntries, page, linked, bounds>>

\* pullNewMessages up to its fetch.
PullSend(t) ==
  /\ task[t].pc = "pulling" /\ token # None
  /\ Continue(t, [task[t] EXCEPT !.pc = "pull", !.tok = token, !.asked = url,
                                 !.cursor = lastMsgId])
  /\ UNCHANGED <<servers, storage, lib, page, linked, bounds>>

\* Without a token there is nothing to pull, and the refresh is over.
PullSkip(t) ==
  /\ task[t].pc = "pulling" /\ token = None
  /\ Continue(t, Idle)
  /\ Booted(t)
  /\ UNCHANGED <<servers, storage, lib, linked, bounds>>

\* Mutant: the cursor is set to the first id not yet seen, as if after_id were
\* inclusive.
PullDoneInclusive(t) ==
  LET k == task[t]
      fresh == {r \in k.rows : r.id > lastMsgId}
  IN /\ k.pc = "pull" /\ k.answered
     /\ MergeEach(fresh, k.asked)
     /\ lastMsgId' = IF fresh = {} THEN lastMsgId ELSE Top(IdsOf(fresh), 0) + 1
     /\ Continue(t, Idle)
     /\ Booted(t)
     /\ UNCHANGED <<servers, storage, didFullBackfill, linked, bounds>>

\* The rest of pullNewMessages and of refreshLibrary: rows at or below the
\* lastMsgId of this moment are skipped, the others merged.
PullDone(t) ==
  LET k == task[t]
      fresh == {r \in k.rows : r.id > lastMsgId}
  IN /\ k.pc = "pull" /\ k.answered
     /\ MergeEach(fresh, k.asked)
     /\ lastMsgId' = Top(IdsOf(fresh), lastMsgId)
     /\ Continue(t, Idle)
     /\ Booted(t)
     /\ UNCHANGED <<servers, storage, didFullBackfill, linked, bounds>>

\* A fetch throws: the async function ends there.  In the first session setup
\* the exception reaches main().catch, which replaces the page.
NetworkError(t) ==
  /\ task[t].pc \in Auth \union Waiting /\ ~task[t].answered
  /\ Fault
  /\ page' = IF task[t].boot THEN "dead" ELSE page
  /\ Continue(t, Idle)
  /\ UNCHANGED <<servers, storage, lib, linked, acts>>

-----------------------------------------------------------------------------
(* The servers                                                             *)

\* Somebody posts a message to this tab's user (Mailbox, Deliver).  Messages
\* to others only leave holes in the ids, as expired ones do.
Deliver(s) ==
  /\ last[s] < MaxId
  /\ last' = [last EXCEPT ![s] = @ + 1]
  /\ box' = [box EXCEPT ![s] = @ \union {[id |-> last[s] + 1, to |-> Me]}]
  /\ UNCHANGED <<storage, lib, page, linked, task, bounds>>

\* A message outlives its TTL and is purged (Mailbox, Expire).
Expire(s, r) ==
  /\ box' = [box EXCEPT ![s] = @ \ {r}]
  /\ UNCHANGED <<last, storage, lib, page, linked, task, bounds>>

ClientStep(t) ==
  \/ VerifyOk(t) \/ VerifyRefused(t) \/ ChallengeOk(t)
  \/ RegisterOk(t) \/ RegisterRefused(t) \/ StatsDone(t)
  \/ Serve(t) \/ ServeFault(t) \/ BackfillPage(t) \/ BackfillStop(t)
  \/ PullSend(t) \/ PullSkip(t) \/ PullDone(t) \/ NetworkError(t)

Next ==
  \/ \E t \in Tasks, s \in Servers : SaveServer(t, s)
  \/ \E t \in Tasks : Reregister(t)
  \/ Reload
  \/ \E t \in Tasks : RefreshStart(t)
  \/ \E t \in Tasks : ClientStep(t)
  \/ \E s \in Servers : Deliver(s)
  \/ \E s \in Servers : \E r \in box[s] : Expire(s, r)

\* A request is answered or fails, a continuation runs, and the interval fires
\* again and again once it is installed.  Users and servers owe nothing.
Fairness ==
  /\ \A t \in Tasks : WF_vars(ClientStep(t))
  /\ WF_vars(page = "polling" /\ AllIdle /\ \E t \in Tasks : RefreshStart(t))

Spec == Init /\ [][Next]_vars /\ Fairness

-----------------------------------------------------------------------------
(* Properties                                                              *)

\* The stored token is the configured server's and no setup is under way
\* before its reset.
Settled == token = url /\ ~InAuth

\* Everything the server stores for this tab up to lastMsgId is in the
\* library: whatever pages, pulls and failures were interleaved, the next pull
\* (which starts above lastMsgId) skips nothing.
NoGap ==
  Settled =>
    \A r \in box[url] :
      (r.to = Me /\ r.id <= lastMsgId) => [id |-> r.id, srv |-> url] \in library

\* A library never mixes servers: ids of two servers must not meet in one
\* map, which is keyed by id alone.
OneServerLibrary == Settled => \A e \in library : e.srv = url

\* The list the user sees holds exactly what libraryById holds, newest first,
\* so that neither the search nor the bulk sort meets an unsorted list.
LibraryOrdered ==
  /\ Descending(libraryEntries)
  /\ {libraryEntries[i] : i \in DOMAIN libraryEntries} = library

\* "Load all stored messages once per session": when the tab has come to rest
\* after a backfill, what the server stores up to lastMsgId is in the library.
LoadedInFull == (AllIdle /\ didFullBackfill) => NoGap

\* The tab polls in a settled session, and message i of its server is missing.
Missing(s, i) ==
  /\ page = "polling" /\ Settled /\ url = s
  /\ [id |-> i, to |-> Me] \in box[s]
  /\ [id |-> i, srv |-> s] \notin library

\* A message stored for this tab reaches its library while the tab polls,
\* unless it expires first or the user changes the session: it is never
\* missing for good.
Delivered == \A s \in Servers, i \in 1..MaxId : []<>~Missing(s, i)
=============================================================================
