------------------------------ MODULE Composer ------------------------------
(***************************************************************************)
(* The composer of the client (client/src/main.ts: doSendMessage,          *)
(* sendMessage, appendSent) in several pages of one browser, which share   *)
(* the stored key pair, the token and the sent lines but each keep the     *)
(* pair they loaded, against the checks of post_message (server/src/       *)
(* lib.rs).  A send is suspended at GET /v1/keys and at POST /v1/messages; *)
(* pages are reloaded, keys replaced, threads switched and text typed in   *)
(* between, and an answer may be lost with or without its message.         *)
(*                                                                         *)
(* A turn of a page's event loop is one step.  One server, all peers       *)
(* registered on it, and one session setup at a time in a page.            *)
(***************************************************************************)
EXTENDS Naturals, FiniteSets

CONSTANTS
  Pages,       \* pages (tabs) of one browser
  Peers,       \* the recipients' fingerprints
  Sends,       \* slots for calls of doSendMessage in progress
  MaxActs,     \* bound: page loads, thread switches, texts typed and faults
  MaxPosts,    \* bound: messages stored
  None

ASSUME ComposerAssumption ==
  /\ None \notin Peers /\ None \notin Pages
  /\ MaxActs \in Nat /\ MaxPosts \in Nat

VARIABLES
  users,       \* server: registered key pairs
  log,         \* server: every message ever stored
  key, token,  \* localStorage: the key pair, and whose token is stored
  sentMap,     \* localStorage: the lines shown as sent
  page,        \* Pages -> record, see Unloaded
  send,        \* Sends -> record, see Idle
  made,        \* key pairs generated so far
  acts,        \* how much of MaxActs is used up
  meant,       \* history: per text typed, the thread it was typed in
  amid,        \* history: texts typed while a send of their page was under way
  strayed,     \* history: texts submitted in another thread
  entered,     \* history: pages where Enter was used although the button was disabled
  doubled,     \* history: texts submitted, after such an Enter, during another send
  unheard,     \* history: ids of messages whose acceptance no page has learnt
  loads,       \* history: page loads so far
  crossed      \* history: a page has begun a session, or stored its token, with
               \* another pair than the stored one

server == <<users, log>>
storage == <<key, token, sentMap>>
counts == <<made, acts>>
history == <<meant, amid, strayed, entered, doubled, unheard, loads, crossed>>
vars == <<server, storage, page, send, counts, history>>

Keys == 1..MaxActs   \* 0: no key pair, no token
Drafts == 1..MaxActs \* 0: nothing typed, nothing but white space

\* A page: the pair in its memory, its session, activeChatFp, chatBodyEl.value
\* and chatSend.disabled.
Unloaded == [pair |-> 0, session |-> "closed", active |-> None, box |-> 0, disabled |-> FALSE]

\* A send: its page (None when nobody waits for it any more), recipient, text,
\* the token and the pair it goes out with, and the id answered (0: refused).
Idle == [pc |-> "idle", page |-> None, to |-> None, draft |-> 0, tok |-> 0, pair |-> 0, got |-> 0]

Typed == DOMAIN meant
Open(p) == page[p].session \notin {"closed", "loading"}
SendsOf(p) == {s \in Sends : send[s].page = p}

TypeOK ==
  /\ users \subseteq Keys
  /\ log \subseteq [id : 1..MaxPosts, from : Keys, pk : Keys, to : Peers, draft : Drafts]
  /\ key \in {0} \union Keys /\ token \in {0} \union users
  /\ sentMap \subseteq [to : Peers, draft : Drafts, id : 0..MaxPosts]
  /\ page \in [Pages ->
       [pair : {0} \union Keys,
        session : {"closed", "loading", "verify", "register", "active", "failed"},
        active : Peers \union {None}, box : {0} \union Typed, disabled : BOOLEAN]]
  /\ send \in [Sends ->
       [pc : {"idle", "lookup", "post", "answer"}, page : Pages \union {None},
        to : Peers \union {None}, draft : {0} \union Typed, tok : {0} \union Keys,
        pair : {0} \union Keys, got : 0..MaxPosts]]
  /\ made \in 0..MaxActs /\ loads \in 0..MaxActs /\ acts \in 0..MaxActs
  /\ \E n \in 0..MaxActs : meant \in [1..n -> Peers]
  /\ entered \subseteq Pages /\ amid \subseteq Typed /\ strayed \subseteq Typed /\ doubled \subseteq Typed
  /\ unheard \subseteq {m.id : m \in log}
  /\ crossed \in BOOLEAN

Init ==
  /\ users = {} /\ log = {}
  /\ key = 0 /\ token = 0 /\ sentMap = {}
  /\ page = [p \in Pages |-> Unloaded]
  /\ send = [s \in Sends |-> Idle]
  /\ made = 0 /\ acts = 0 /\ loads = 0
  /\ meant = <<>> /\ amid = {} /\ strayed = {} /\ entered = {} /\ doubled = {} /\ unheard = {}
  /\ crossed = FALSE

\* One more of what is bounded: an act of the user, or a fault.
Act == acts < MaxActs /\ acts' = acts + 1

-----------------------------------------------------------------------------
(* Page loads and key pairs                                                *)

\* The scripts of page p end with their continuations; a POST that is under
\* way may still reach the server.
Unload(p) ==
  /\ send' = [s \in Sends |->
       IF send[s].page # p THEN send[s]
       ELSE IF send[s].pc = "post" THEN [send[s] EXCEPT !.page = None] ELSE Idle]
  /\ unheard' = unheard \union {send[s].got : s \in {r \in SendsOf(p) : send[r].got # 0}}

\* A page load, up to the await of loadOrCreateKeys: the stored pair, or a new
\* one.
Load(p) ==
  LET pair == IF key = 0 THEN made + 1 ELSE key
  IN /\ Act
     /\ loads' = loads + 1
     /\ entered' = entered \ {p}
     /\ pair \in Keys
     /\ made' = IF key = 0 THEN pair ELSE made
     /\ key' = pair
     /\ page' = [page EXCEPT ![p] = [Unloaded EXCEPT !.pair = pair, !.session = "loading"]]
     /\ Unload(p)
     /\ UNCHANGED <<server, token, sentMap, meant, amid, strayed, doubled, crossed>>

\* The rest of main(): the first of the stored threads is active, and the
\* session is set up with the token that is stored by now.
Start(p, first) ==
  /\ page[p].session = "loading"
  /\ page' = [page EXCEPT ![p].active = first,
                           ![p].session = IF token = 0 THEN "register" ELSE "verify"]
  /\ crossed' = (crossed \/ page[p].pair # key)
  /\ UNCHANGED <<server, storage, send, counts, meant, amid, strayed, entered, doubled,
                 unheard, loads>>

\* Mutant: the token of the old identity survives.
NewKeysKeepsToken(p) ==
  /\ Open(p)
  /\ key' = 0 /\ sentMap' = {}
  /\ UNCHANGED <<server, token, page, send, counts, history>>

\* runNewKeysReset forgets the identity and all that goes with it.  The reload
\* it asks for is a later Load; until then the continuations of this page run
\* on, and those of the others in any case.
NewKeys(p) ==
  /\ Open(p)
  /\ key' = 0 /\ token' = 0 /\ sentMap' = {}
  /\ UNCHANGED <<server, page, send, counts, history>>

-----------------------------------------------------------------------------
(* Session setup, as far as identities go                                  *)

Become(p, session) == page' = [page EXCEPT ![p].session = session]

\* registerBtn: drops the stored token and sets the session up again.
Reregister(p) ==
  /\ page[p].session \in {"active", "failed"}
  /\ token' = 0
  /\ Become(p, "register")
  /\ UNCHANGED <<server, key, sentMap, send, counts, history>>

\* GET /v1/me accepts the token: the session is active.  Nobody compares its
\* subject with this page's pair.
VerifyOk(p) ==
  /\ page[p].session = "verify"
  /\ Become(p, "active")
  /\ UNCHANGED <<server, storage, send, counts, history>>

\* It does not (expired, 429, 500): whatever token is stored by now is dropped.
VerifyRefused(p) ==
  /\ page[p].session = "verify"
  /\ Act
  /\ token' = 0
  /\ Become(p, "register")
  /\ UNCHANGED <<server, key, sentMap, send, made, history>>

\* Mutant: the token is issued before the user is stored.
RegisterForgetsUser(p) ==
  /\ page[p].session = "register"
  /\ token' = page[p].pair
  /\ crossed' = (crossed \/ page[p].pair # key)
  /\ Become(p, "active")
  /\ UNCHANGED <<server, key, sentMap, send, counts, meant, amid, strayed, entered, doubled,
                 unheard, loads>>

\* register with this page's pair; the token replaces the stored one, whatever
\* pair is stored by now.
RegisterOk(p) ==
  /\ page[p].session = "register"
  /\ users' = users \union {page[p].pair}
  /\ token' = page[p].pair
  /\ crossed' = (crossed \/ page[p].pair # key)
  /\ Become(p, "active")
  /\ UNCHANGED <<log, key, sentMap, send, counts, meant, amid, strayed, entered, doubled,
                 unheard, loads>>

RegisterRefused(p) ==
  /\ page[p].session = "register"
  /\ Act
  /\ Become(p, "failed")
  /\ UNCHANGED <<server, storage, send, made, history>>

-----------------------------------------------------------------------------
(* The composer                                                            *)

\* Another thread becomes the active one, or none: a click on a tab, a closed
\* tab, or onNewPolledEntries with mail of another sender.  There is one text
\* field for all threads.
Switch(p, peer) ==
  /\ Open(p) /\ peer # page[p].active
  /\ Act
  /\ page' = [page EXCEPT ![p].active = peer]
  /\ UNCHANGED <<server, storage, send, made, history>>

\* The user types a text in place of what is in the field.
Type(p) ==
  LET draft == Cardinality(Typed) + 1
  IN /\ Open(p) /\ page[p].active # None
     /\ Act
     /\ meant' = [d \in 1..draft |-> IF d = draft THEN page[p].active ELSE meant[d]]
     /\ amid' = IF SendsOf(p) = {} THEN amid ELSE amid \union {draft}
     /\ page' = [page EXCEPT ![p].box = draft]
     /\ UNCHANGED <<server, storage, send, made, strayed, entered, doubled, unheard, loads, crossed>>

\* doSendMessage and sendMessage up to the request for the recipient's key.
Submit(p, s) ==
  LET g == page[p]
  IN /\ Open(p) /\ g.active # None /\ g.box # 0 /\ token # 0
     /\ send[s].pc = "idle"
     /\ send' = [send EXCEPT ![s] = [Idle EXCEPT !.pc = "lookup", !.page = p, !.to = g.active,
                   !.draft = g.box, !.tok = token, !.pair = g.pair]]
     /\ page' = [page EXCEPT ![p].disabled = TRUE]
     /\ strayed' = IF meant[g.box] = g.active THEN strayed ELSE strayed \union {g.box}
     /\ UNCHANGED <<server, storage, counts, meant, amid, unheard, loads, crossed>>
     /\ doubled' = IF p \in entered' /\ SendsOf(p) # {} THEN doubled \union {g.box} ELSE doubled

\* The button.
Click(p, s) ==
  /\ ~page[p].disabled
  /\ UNCHANGED entered
  /\ Submit(p, s)

\* The keyboard does not ask whether the button is disabled.
Enter(p, s) ==
  /\ entered' = IF page[p].disabled THEN entered \union {p} ELSE entered
  /\ Submit(p, s)

\* Without a token the call fails at once, and enables the button also when
\* another send has disabled it.
EnterRefused(p) ==
  /\ page[p].disabled /\ page[p].active # None /\ page[p].box # 0 /\ token = 0
  /\ page' = [page EXCEPT ![p].disabled = FALSE]
  /\ entered' = entered \union {p}
  /\ UNCHANGED <<server, storage, send, counts, meant, amid, strayed, doubled, unheard, loads, crossed>>

\* Mutant: the recipient is read again after the await.
LookupReadsActive(s) ==
  /\ send[s].pc = "lookup" /\ page[send[s].page].active # None
  /\ send' = [send EXCEPT ![s].pc = "post", ![s].to = page[send[s].page].active]
  /\ UNCHANGED <<server, storage, page, counts, history>>

\* The recipient's key is here; the message is sealed and posted.
LookupOk(s) ==
  /\ send[s].pc = "lookup"
  /\ send' = [send EXCEPT ![s].pc = "post"]
  /\ UNCHANGED <<server, storage, page, counts, history>>

\* Mutant: the sender's key is not compared with the token's subject.
AdmitsAnyKey(k) == k.tok \in users

\* post_message: the token's subject is a user whose stored key is the
\* sender's.
Admits(k) == k.tok \in users /\ k.tok = k.pair

\* post_message stores the message.
Post(s) ==
  LET k == send[s]
      id == Cardinality(log) + 1
  IN /\ k.pc = "post" /\ Admits(k)
     /\ id <= MaxPosts
     /\ log' = log \union {[id |-> id, from |-> k.tok, pk |-> k.pair, to |-> k.to, draft |-> k.draft]}
     /\ IF k.page = None
        THEN send' = [send EXCEPT ![s] = Idle] /\ unheard' = unheard \union {id}
        ELSE send' = [send EXCEPT ![s].pc = "answer", ![s].got = id] /\ UNCHANGED unheard
     /\ UNCHANGED <<users, storage, page, counts, meant, amid, strayed, entered, doubled, loads, crossed>>

\* Mutant: the text is cleared whatever the outcome.
GivesUpText(s) ==
  page' = [page EXCEPT ![send[s].page].disabled = FALSE, ![send[s].page].box = 0]

\* doSendMessage ends without success: the text stays, the button is enabled.
GivesUp(s) == page' = [page EXCEPT ![send[s].page].disabled = FALSE]

\* post_message refuses.
PostRefused(s) ==
  /\ send[s].pc = "post" /\ send[s].page # None
  /\ \/ ~Admits(send[s]) /\ UNCHANGED acts
     \/ Act
  /\ GivesUp(s)
  /\ send' = [send EXCEPT ![s] = Idle]
  /\ UNCHANGED <<server, storage, made, history>>

\* The key lookup fails, or a fetch throws.  The message of a lost answer is
\* stored, and that of a lost request may still be.
SendFails(s) ==
  LET k == send[s]
  IN /\ k.pc # "idle" /\ k.page # None
     /\ Act
     /\ GivesUp(s)
     /\ send' = [send EXCEPT ![s] = IF k.pc = "post" THEN [k EXCEPT !.page = None] ELSE Idle]
     /\ unheard' = IF k.pc = "answer" THEN unheard \union {k.got} ELSE unheard
     /\ UNCHANGED <<server, storage, made, meant, amid, strayed, entered, doubled, loads, crossed>>

\* Mutant: the text stays in the field.
KeepText(p) == page' = [page EXCEPT ![p].disabled = FALSE]

\* chatSend.disabled = false, chatBodyEl.value = "": also what was typed since.
ClearText(p) == page' = [page EXCEPT ![p].disabled = FALSE, ![p].box = 0]

\* Mutant: the line is filed under the thread that is active by now.
AppendToActive(k, id) ==
  sentMap' = sentMap \union {[to |-> page[k.page].active, draft |-> k.draft, id |-> id]}

\* appendSent, under the recipient of the call.
AppendSent(k, id) == sentMap' = sentMap \union {[to |-> k.to, draft |-> k.draft, id |-> id]}

\* The message was accepted, even when the body of the answer is cut off and
\* its id unknown.
SendDone(s) ==
  LET k == send[s]
  IN /\ k.pc = "answer"
     /\ \/ AppendSent(k, k.got) /\ UNCHANGED acts
        \/ AppendSent(k, 0) /\ Act
     /\ ClearText(k.page)
     /\ send' = [send EXCEPT ![s] = Idle]
     /\ UNCHANGED <<server, key, token, made, history>>

Next ==
  \/ \E p \in Pages, peer \in Peers \union {None} : Start(p, peer) \/ Switch(p, peer)
  \/ \E p \in Pages :
       \/ Load(p) \/ NewKeys(p) \/ Reregister(p) \/ VerifyOk(p) \/ VerifyRefused(p)
       \/ RegisterOk(p) \/ RegisterRefused(p) \/ Type(p) \/ EnterRefused(p)
  \/ \E p \in Pages, s \in Sends : Click(p, s) \/ Enter(p, s)
  \/ \E s \in Sends :
       LookupOk(s) \/ Post(s) \/ PostRefused(s) \/ SendFails(s) \/ SendDone(s)

Spec == Init /\ [][Next]_vars

-----------------------------------------------------------------------------
(* Properties                                                              *)

ShownAs(m, line) == line.to = m.to /\ line.draft = m.draft /\ line.id \in {m.id, 0}

\* The sent lines tell the truth both ways: each stands for a stored message,
\* and each message of the present identity has a line unless its answer is
\* still under way or never arrived.
SentMatchesStore ==
  /\ \A line \in sentMap : \E m \in log : ShownAs(m, line)
  /\ \A m \in log : m.from = key =>
       \/ m.id \in unheard
       \/ \E s \in Sends : send[s].got = m.id
       \/ \E line \in sentMap : ShownAs(m, line)

\* A text is stored twice only if an answer was lost or if it was submitted
\* during a send; the latter takes an Enter, the button alone never does it.
CopiesExplained ==
  \A m, n \in log :
    (m # n /\ m.draft = n.draft) => m.draft \in doubled \/ {m.id, n.id} \cap unheard # {}

\* A message goes to the thread its text was typed in, unless the user
\* submitted it in another one: switches during a send change nothing.
SentWhereTyped == \A m \in log : m.to = meant[m.draft] \/ m.draft \in strayed

\* "Session active - auto-registered with this server": a page shows it only
\* for an identity the server knows.  Not always: the token is stored without its
\* pair, so a late answer of register, in a page that New keys is about to
\* reload or in another one, is taken for the token of the new pair.
ActiveIsRegistered ==
  \A p \in Pages : page[p].session = "active" => page[p].pair \in users

\* ... that is the only way: it holds as long as no page has begun a session,
\* or stored its token, with another pair than the stored one.  The sender of a
\* stored message owns the key it is sealed with in any case.
IdentityHolds ==
  /\ ~crossed => ActiveIsRegistered
  /\ \A m \in log : m.from = m.pk

\* Text vanishes from a loaded page only when it is stored on the server, or
\* when it was typed while an earlier text was being sent.
DraftKept ==
  [][\A p \in Pages :
       (page[p].box # 0 /\ page'[p].box = 0 /\ loads' = loads) =>
         page[p].box \in amid \union {m.draft : m \in log}]_vars
=============================================================================
