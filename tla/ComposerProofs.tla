--------------------------- MODULE ComposerProofs ---------------------------
(***************************************************************************)
(* The composer for any number of pages, peers and sends: where a message  *)
(* goes, what the sent lines say, when a text is stored twice or vanishes, *)
(* and which identity a page shows.  The inductive invariant says what a   *)
(* send in progress and a text in a field commit to:                       *)
(*   Shape       numbers, keys and the states of a send                    *)
(*   OneIdentity  what holds until a page uses another pair than the       *)
(*                stored one                                               *)
(*   Directed     a send knows the thread it was meant for                 *)
(*   ButtonGuards, OnePage, TypedAmid                                      *)
(*                which sends a page can have, and which text in its field *)
(*   Accounted    for each text, which of its messages are known to whom   *)
(***************************************************************************)
EXTENDS Composer, FiniteSetTheorems, TLAPS

\* Ids count the messages.
Numbered ==
  /\ IsFiniteSet(log)
  /\ \A m \in log : m.id \in 1..Cardinality(log)
  /\ \A m, n \in log : m.id = n.id => m = n

\* Everything counted was an act.
Counted ==
  /\ loads <= acts
  /\ \E n \in 0..acts : meant \in [1..n -> Peers]
  /\ \A m \in log : m.draft \in Typed

\* Key pairs come from `made`; only registered ones send.
KnownKeys ==
  /\ key <= made
  /\ users \subseteq 1..made
  /\ \A p \in Pages : page[p].pair <= made /\ (page[p].session # "closed" => page[p].pair # 0)
  /\ \A m \in log : m.from \in users

\* What each state of a send implies.
Sending ==
  \A s \in Sends : LET k == send[s] IN
    /\ k.pc = "idle" => k = Idle
    /\ k.pc # "idle" => k.draft \in Typed /\ k.to \in Peers /\ k.tok \in users /\ k.pair # 0
    /\ k.pc \in {"lookup", "answer"} => k.page \in Pages
    /\ k.got # 0 <=> k.pc = "answer"
    /\ k.pc = "answer" => \E m \in log : m.id = k.got /\ m.to = k.to /\ m.draft = k.draft

Shape == TypeOK /\ Numbered /\ Counted /\ KnownKeys /\ Sending

\* As long as no page has begun a session, or stored its token, with another pair
\* than the stored one, the stored token is that of the stored pair.
OneIdentity ==
  ~crossed =>
    /\ token \in {0, key}
    /\ \A p \in Pages : page[p].session \in {"verify", "active"} => page[p].pair \in users

Directed ==
  \A s \in Sends : send[s].pc # "idle" =>
    send[s].to = meant[send[s].draft] \/ send[s].draft \in strayed

\* A page whose button was never bypassed has one send at most, and its button
\* is disabled meanwhile.
ButtonGuards ==
  \A p \in Pages : p \notin entered =>
    /\ SendsOf(p) # {} => page[p].disabled
    /\ \A s, t \in SendsOf(p) : s = t

\* A text is in one page's field, and sent from that page.
OnePage ==
  \A p \in Pages : page[p].box # 0 =>
    /\ \A q \in Pages : page[q].box = page[p].box => q = p
    /\ \A s \in Sends : send[s].page # None /\ send[s].draft = page[p].box => send[s].page = p

\* What was in the field before a send of another text was typed during it.
TypedAmid ==
  \A p \in Pages : \A s \in SendsOf(p) :
    page[p].box \in {0, send[s].draft} \/ page[p].box \in amid

Heard(d) == {m \in log : m.draft = d /\ m.id \notin unheard}

\* Unless a text was submitted during a send: one send of it at a time, which
\* has the only message of it that is known to be stored; the text is in the
\* field only if no such message is left when the sends are over.
OneSend ==
  \A s, t \in Sends :
    /\ send[s].page # None /\ send[t].page # None
    /\ send[s].draft = send[t].draft /\ s # t
    => send[s].draft \in doubled

HeardBySend ==
  \A s \in Sends : send[s].page # None /\ send[s].draft \notin doubled =>
    \A m \in Heard(send[s].draft) : m.id = send[s].got

HeardInField ==
  \A p \in Pages : page[p].box # 0 /\ page[p].box \notin doubled =>
    \A m \in Heard(page[p].box) : \E s \in Sends : send[s].got = m.id

Accounted == OneSend /\ HeardBySend /\ HeardInField

ComposerInv ==
  /\ Shape
  /\ OneIdentity /\ IdentityHolds
  /\ Directed /\ SentWhereTyped
  /\ SentMatchesStore
  /\ ButtonGuards /\ OnePage /\ TypedAmid /\ Accounted /\ CopiesExplained

-----------------------------------------------------------------------------
(* Types of pages and sends                                                *)

PageType == [pair : {0} \union Keys,
             session : {"closed", "loading", "verify", "register", "active", "failed"},
             active : Peers \union {None}, box : {0} \union Typed, disabled : BOOLEAN]
SendType == [pc : {"idle", "lookup", "post", "answer"}, page : Pages \union {None},
             to : Peers \union {None}, draft : {0} \union Typed, tok : {0} \union Keys,
             pair : {0} \union Keys, got : 0..MaxPosts]

LEMMA Types ==
  ASSUME TypeOK
  PROVE  /\ page \in [Pages -> PageType]
         /\ send \in [Sends -> SendType]
         /\ key \in Nat /\ token \in Nat /\ made \in Nat /\ acts \in Nat /\ loads \in Nat
         /\ \A p \in Pages : page[p].pair \in Nat /\ page[p].box \in Nat
         /\ \A s \in Sends : send[s].got \in Nat
         /\ users \subseteq Nat \ {0}
         /\ 0 \notin Typed /\ Typed \subseteq Nat
<1>1. PICK n \in 0..MaxActs : meant \in [1..n -> Peers]
  BY DEF TypeOK
<1>2. Typed = 1..n /\ n \in Nat
  BY <1>1, ComposerAssumption DEF Typed
<1>3. page \in [Pages -> PageType] /\ send \in [Sends -> SendType]
  BY DEF TypeOK, PageType, SendType
<1>4. users \subseteq Nat \ {0}
  BY ComposerAssumption DEF TypeOK, Keys
<1>5. key \in Nat /\ token \in Nat /\ made \in Nat /\ acts \in Nat /\ loads \in Nat
  BY <1>4, ComposerAssumption DEF TypeOK, Keys
<1>6. \A p \in Pages : page[p].pair \in Nat /\ page[p].box \in Nat
  BY <1>2, <1>3, ComposerAssumption DEF PageType, Keys
<1>7. \A s \in Sends : send[s].got \in Nat
  BY <1>3, ComposerAssumption DEF SendType
<1> QED BY <1>2, <1>3, <1>4, <1>5, <1>6, <1>7

\* The next text gets a number no text has.
LEMMA NextDraft ==
  ASSUME TypeOK, Counted
  PROVE  LET d == Cardinality(Typed) + 1
         IN /\ d \in Nat \ {0} /\ d \notin Typed /\ d <= acts + 1
            /\ 1..d = Typed \union {d}
            /\ Typed = 1..(d - 1)
            /\ meant \in [1..(d - 1) -> Peers]
<1>1. PICK n \in 0..acts : meant \in [1..n -> Peers]
  BY DEF Counted
<1>2. n \in Nat /\ Typed = 1..n /\ n <= acts /\ acts \in Nat
  BY <1>1, Types DEF Typed
<1>3. Cardinality(1..n) = n
  BY <1>2, FS_Interval
<1> QED BY <1>1, <1>2, <1>3

-----------------------------------------------------------------------------
(* What the steps do, send by send and page by page                        *)

\* The sends of D end for their page; the POST of one may still arrive.
Dropping(D) ==
  /\ \A s \in D :
       \/ send'[s] = Idle
       \/ send[s].pc = "post" /\ send'[s] = [send[s] EXCEPT !.page = None]
  /\ \A s \in Sends \ D : send'[s] = send[s]
  /\ unheard' = unheard \union {send[s].got : s \in {r \in D : send[r].got # 0}}

Loads(p) ==
  /\ page'[p].box = 0 /\ ~page'[p].disabled
  /\ page'[p].pair = key' /\ key' # 0
  /\ page'[p].session = "loading"
  /\ \A q \in Pages \ {p} : page'[q] = page[q]
  /\ Dropping(SendsOf(p))
  /\ \/ key # 0 /\ UNCHANGED <<key, made>>
     \/ key = 0 /\ key' = made + 1 /\ made' = made + 1
  /\ entered' = entered \ {p}
  /\ loads' = loads + 1 /\ acts' = acts + 1 /\ acts < MaxActs
  /\ UNCHANGED <<users, log, token, sentMap, meant, amid, strayed, doubled, crossed>>

LEMMA UnloadEffect ==
  ASSUME TypeOK, Sending, NEW p \in Pages, Unload(p)
  PROVE  Dropping(SendsOf(p)) /\ send' \in [Sends -> SendType]
<1>1. \A s \in Sends : send'[s] =
        IF send[s].page # p THEN send[s]
        ELSE IF send[s].pc = "post" THEN [send[s] EXCEPT !.page = None] ELSE Idle
  BY DEF Unload
<1>2. Idle \in SendType
  BY ComposerAssumption DEF Idle, SendType
<1>3. \A s \in Sends : [send[s] EXCEPT !.page = None] \in SendType
  BY Types DEF SendType
<1>4. send' \in [Sends -> SendType]
  BY <1>2, <1>3, Types DEF Unload
<1>5. unheard' = unheard \union {send[s].got : s \in {r \in SendsOf(p) : send[r].got # 0}}
  BY DEF Unload
<1> QED BY <1>1, <1>4, <1>5 DEF Dropping, SendsOf

LEMMA LoadEffect ==
  ASSUME Shape, NEW p \in Pages, Load(p)
  PROVE  Loads(p) /\ page' \in [Pages -> PageType] /\ send' \in [Sends -> SendType]
<1> DEFINE pair == IF key = 0 THEN made + 1 ELSE key
           rec == [Unloaded EXCEPT !.pair = pair, !.session = "loading"]
<1>0. TypeOK /\ Sending /\ key \in Nat /\ made \in Nat
  BY Types DEF Shape
<1>1. /\ pair \in Keys /\ key' = pair /\ page' = [page EXCEPT ![p] = rec]
      /\ made' = IF key = 0 THEN pair ELSE made
      /\ entered' = entered \ {p}
      /\ loads' = loads + 1 /\ acts' = acts + 1 /\ acts < MaxActs
      /\ UNCHANGED <<users, log, token, sentMap, meant, amid, strayed, doubled, crossed>>
  BY DEF Load, Act, server
<1>2. Dropping(SendsOf(p)) /\ send' \in [Sends -> SendType]
  BY <1>0, UnloadEffect DEF Load
<1>3. \/ key # 0 /\ UNCHANGED <<key, made>>
      \/ key = 0 /\ key' = made + 1 /\ made' = made + 1
  BY <1>0, <1>1
<1>4. pair # 0
  BY <1>1 DEF Keys
<1> HIDE DEF pair
<1>5. /\ rec \in PageType /\ rec.box = 0 /\ ~rec.disabled /\ rec.pair = pair
      /\ rec.session = "loading"
  BY <1>1 DEF Unloaded, PageType
<1> HIDE DEF rec
<1>6. /\ page' \in [Pages -> PageType] /\ page'[p] = rec
      /\ \A q \in Pages \ {p} : page'[q] = page[q]
  BY <1>0, <1>1, <1>5, Types
<1> QED BY <1>1, <1>2, <1>3, <1>4, <1>5, <1>6 DEF Loads

\* Nothing of the composer changes.
Quiet ==
  /\ \A p \in Pages :
       /\ page'[p].box = page[p].box /\ page'[p].disabled = page[p].disabled
       /\ page'[p].pair = page[p].pair
       /\ page'[p].session = "closed" <=> page[p].session = "closed"
  /\ \/ UNCHANGED <<key, sentMap>>
     \/ key' = 0 /\ sentMap' = {}
  /\ UNCHANGED <<log, send, made, meant, amid, strayed, entered, doubled, unheard, loads>>

TypesIn(p) ==
  LET d == Cardinality(Typed) + 1
  IN /\ page[p].active \in Peers
     /\ meant' \in [1..d -> Peers] /\ meant'[d] = page[p].active
     /\ \A e \in Typed : meant'[e] = meant[e]
     /\ amid' = IF SendsOf(p) = {} THEN amid ELSE amid \union {d}
     /\ page'[p].box = d
     /\ page'[p].disabled = page[p].disabled /\ page'[p].pair = page[p].pair
     /\ page'[p].session = page[p].session
     /\ \A q \in Pages \ {p} : page'[q] = page[q]
     /\ UNCHANGED <<server, storage, send, made, strayed, entered, doubled, unheard, loads, crossed>>

Submits(p, s) ==
  /\ send[s].pc = "idle" /\ page[p].box # 0 /\ page[p].active \in Peers
  /\ page[p].session # "closed" /\ token # 0
  /\ send'[s].pc = "lookup" /\ send'[s].page = p /\ send'[s].to = page[p].active
  /\ send'[s].draft = page[p].box /\ send'[s].tok = token /\ send'[s].pair = page[p].pair
  /\ send'[s].got = 0
  /\ \A t \in Sends \ {s} : send'[t] = send[t]
  /\ page'[p].disabled /\ page'[p].box = page[p].box
  /\ page'[p].pair = page[p].pair /\ page'[p].session = page[p].session
  /\ \A q \in Pages \ {p} : page'[q] = page[q]
  /\ strayed' = IF meant[page[p].box] = page[p].active THEN strayed
                ELSE strayed \union {page[p].box}
  /\ (entered' = entered /\ ~page[p].disabled) \/ entered' = entered \union {p}
  /\ doubled' = IF p \in entered' /\ SendsOf(p) # {} THEN doubled \union {page[p].box} ELSE doubled
  /\ UNCHANGED <<server, storage, counts, meant, amid, unheard, loads, crossed>>

\* Enter without a token, which enables the button.
Unlocks(p) ==
  /\ entered' = entered \union {p}
  /\ page'[p].box = page[p].box /\ page'[p].pair = page[p].pair
  /\ page'[p].session = page[p].session
  /\ \A q \in Pages \ {p} : page'[q] = page[q]
  /\ UNCHANGED <<server, storage, send, counts, meant, amid, strayed, doubled, unheard, loads, crossed>>

Looks(s) ==
  /\ send[s].pc = "lookup"
  /\ send'[s].pc = "post" /\ send'[s].page = send[s].page /\ send'[s].to = send[s].to
  /\ send'[s].draft = send[s].draft /\ send'[s].tok = send[s].tok
  /\ send'[s].pair = send[s].pair /\ send'[s].got = send[s].got
  /\ \A t \in Sends \ {s} : send'[t] = send[t]
  /\ UNCHANGED <<server, storage, page, counts, history>>

Posts(s) ==
  LET k == send[s]
      id == Cardinality(log) + 1
  IN /\ k.pc = "post" /\ k.tok \in users /\ k.tok = k.pair
     /\ id <= MaxPosts
     /\ log' = log \union {[id |-> id, from |-> k.tok, pk |-> k.pair, to |-> k.to, draft |-> k.draft]}
     /\ \/ /\ k.page = None /\ send'[s] = Idle /\ unheard' = unheard \union {id}
        \/ /\ k.page # None /\ unheard' = unheard
           /\ send'[s].pc = "answer" /\ send'[s].page = k.page /\ send'[s].to = k.to
           /\ send'[s].draft = k.draft /\ send'[s].tok = k.tok /\ send'[s].pair = k.pair
           /\ send'[s].got = id
     /\ \A t \in Sends \ {s} : send'[t] = send[t]
     /\ UNCHANGED <<users, storage, page, counts, meant, amid, strayed, entered, doubled, loads, crossed>>

\* A send ends without success.
Ends(s) ==
  /\ send[s].page \in Pages
  /\ Dropping({s})
  /\ \A p \in Pages :
       /\ page'[p].box = page[p].box /\ page'[p].pair = page[p].pair
       /\ page'[p].session = page[p].session
       /\ p # send[s].page => page'[p].disabled = page[p].disabled
  /\ acts' \in {acts, acts + 1} /\ acts' <= MaxActs
  /\ UNCHANGED <<server, storage, made, meant, amid, strayed, entered, doubled, loads, crossed>>

Succeeds(s) ==
  /\ send[s].pc = "answer" /\ send[s].page \in Pages
  /\ send'[s] = Idle
  /\ \A t \in Sends \ {s} : send'[t] = send[t]
  /\ \E id \in {send[s].got, 0} :
       sentMap' = sentMap \union {[to |-> send[s].to, draft |-> send[s].draft, id |-> id]}
  /\ page'[send[s].page].box = 0
  /\ \A p \in Pages :
       /\ page'[p].pair = page[p].pair /\ page'[p].session = page[p].session
       /\ p # send[s].page => page'[p] = page[p]
  /\ acts' \in {acts, acts + 1} /\ acts' <= MaxActs
  /\ UNCHANGED <<server, key, token, made, history>>

LEMMA QuietEffect ==
  ASSUME Shape, NEW p \in Pages,
         \/ Reregister(p) \/ VerifyOk(p) \/ VerifyRefused(p) \/ RegisterOk(p) \/ RegisterRefused(p)
         \/ \E peer \in Peers \union {None} : Switch(p, peer) \/ Start(p, peer)
         \/ NewKeys(p)
  PROVE  Quiet /\ page' \in [Pages -> PageType]
<1>0. page \in [Pages -> PageType]
  BY Types DEF Shape
<1>1. /\ UNCHANGED <<log, send, made, meant, amid, strayed, entered, doubled, unheard, loads>>
      /\ \/ UNCHANGED <<key, sentMap>>
         \/ key' = 0 /\ sentMap' = {}
  BY DEF Reregister, VerifyOk, VerifyRefused, RegisterOk, RegisterRefused, Switch, Start, NewKeys,
         server, storage, counts, history
<1>2. CASE \E peer \in Peers \union {None} : Switch(p, peer)
  <2>1. PICK peer \in Peers \union {None} : page' = [page EXCEPT ![p].active = peer]
    BY <1>2 DEF Switch
  <2>2. [page[p] EXCEPT !.active = peer] \in PageType
    BY <1>0 DEF PageType
  <2> QED BY <1>0, <1>1, <2>1, <2>2 DEF Quiet
<1>3. CASE \/ Reregister(p) \/ VerifyOk(p) \/ VerifyRefused(p) \/ RegisterOk(p) \/ RegisterRefused(p)
  <2>1. PICK session \in {"register", "active", "failed"} :
          page' = [page EXCEPT ![p].session = session]
    BY <1>3 DEF Reregister, VerifyOk, VerifyRefused, RegisterOk, RegisterRefused, Become
  <2>2. page[p].session # "closed"
    BY <1>3 DEF Reregister, VerifyOk, VerifyRefused, RegisterOk, RegisterRefused
  <2>3. [page[p] EXCEPT !.session = session] \in PageType
    BY <1>0 DEF PageType
  <2> QED BY <1>0, <1>1, <2>1, <2>2, <2>3 DEF Quiet
<1>4. CASE \E first \in Peers \union {None} : Start(p, first)
  <2>1. PICK first \in Peers \union {None}, session \in {"register", "verify"} :
          page' = [page EXCEPT ![p].active = first, ![p].session = session]
    BY <1>4 DEF Start
  <2>2. page[p].session # "closed"
    BY <1>4 DEF Start
  <2> DEFINE rec == [page[p] EXCEPT !.active = first, !.session = session]
  <2>3. /\ rec \in PageType /\ rec.box = page[p].box /\ rec.disabled = page[p].disabled
        /\ rec.pair = page[p].pair /\ rec.session # "closed"
    BY <1>0 DEF PageType
  <2>4. page' = [page EXCEPT ![p] = rec]
    BY <1>0, <2>1
  <2> HIDE DEF rec
  <2> QED BY <1>0, <1>1, <2>2, <2>3, <2>4 DEF Quiet
<1>5. CASE NewKeys(p)
  <2>1. page' = page
    BY <1>5 DEF NewKeys
  <2> QED BY <1>0, <1>1, <2>1 DEF Quiet
<1> QED BY <1>2, <1>3, <1>4, <1>5

LEMMA TypeEffect ==
  ASSUME Shape, NEW p \in Pages, Type(p)
  PROVE  TypesIn(p) /\ page' \in [Pages -> PageType'] /\ acts' = acts + 1 /\ acts < MaxActs
<1> DEFINE d == Cardinality(Typed) + 1
<1>0. TypeOK /\ Counted /\ page \in [Pages -> PageType]
  BY Types DEF Shape
<1>1. /\ d \in Nat \ {0} /\ d \notin Typed /\ 1..d = Typed \union {d} /\ Typed = 1..(d - 1)
      /\ meant \in [1..(d - 1) -> Peers]
  BY <1>0, NextDraft
<1>2. page[p].active \in Peers
  BY <1>0 DEF Type, PageType
<1>3. meant' = [e \in 1..d |-> IF e = d THEN page[p].active ELSE meant[e]]
  BY DEF Type
<1>4. amid' = IF SendsOf(p) = {} THEN amid ELSE amid \union {d}
  BY DEF Type
<1>5. /\ page' = [page EXCEPT ![p].box = d] /\ acts' = acts + 1 /\ acts < MaxActs
      /\ UNCHANGED <<server, storage, send, made, strayed, entered, doubled, unheard, loads, crossed>>
  BY DEF Type, Act
<1> HIDE DEF d
<1>6. meant' \in [1..d -> Peers] /\ meant'[d] = page[p].active
      /\ \A e \in Typed : meant'[e] = meant[e]
  BY <1>1, <1>2, <1>3
<1>7. Typed' = Typed \union {d}
  BY <1>1, <1>6 DEF Typed
<1>8. [page[p] EXCEPT !.box = d] \in PageType' /\ \A q \in Pages : page[q] \in PageType'
  BY <1>0, <1>7 DEF PageType
<1>9. page' \in [Pages -> PageType']
  BY <1>0, <1>5, <1>8
<1>10. /\ page'[p].box = d
       /\ page'[p].disabled = page[p].disabled /\ page'[p].pair = page[p].pair
       /\ page'[p].session = page[p].session
       /\ \A q \in Pages \ {p} : page'[q] = page[q]
  BY <1>0, <1>5 DEF PageType
<1> QED BY <1>2, <1>4, <1>5, <1>6, <1>9, <1>10 DEF TypesIn, d

LEMMA SubmitEffect ==
  ASSUME Shape, NEW p \in Pages, NEW s \in Sends, Click(p, s) \/ Enter(p, s)
  PROVE  Submits(p, s) /\ page' \in [Pages -> PageType] /\ send' \in [Sends -> SendType]
<1> DEFINE k == [Idle EXCEPT !.pc = "lookup", !.page = p, !.to = page[p].active,
                   !.draft = page[p].box, !.tok = token, !.pair = page[p].pair]
<1>0. TypeOK /\ page \in [Pages -> PageType] /\ send \in [Sends -> SendType]
  BY Types DEF Shape
<1>1. Submit(p, s)
  BY DEF Click, Enter
<1>2. /\ send[s].pc = "idle" /\ page[p].box # 0 /\ page[p].active \in Peers /\ token # 0
      /\ page[p].session # "closed"
  BY <1>0, <1>1 DEF Submit, PageType, Open
<1>3. send' = [send EXCEPT ![s] = k]
  BY <1>1 DEF Submit
<1>4. page' = [page EXCEPT ![p].disabled = TRUE]
  BY <1>1 DEF Submit
<1>5. k \in SendType
  <2>1. Idle \in SendType
    BY ComposerAssumption DEF Idle, SendType
  <2>2. token \in {0} \union Keys
    BY <1>0 DEF TypeOK
  <2>3. page[p] \in PageType
    BY <1>0
  <2> QED BY <2>1, <2>2, <2>3 DEF PageType, SendType
<1>6. [page[p] EXCEPT !.disabled = TRUE] \in PageType
  BY <1>0 DEF PageType
<1>7. (entered' = entered /\ ~page[p].disabled) \/ entered' = entered \union {p}
  <2>1. CASE Click(p, s)
    BY <2>1 DEF Click
  <2>2. CASE Enter(p, s)
    <3>1. CASE page[p].disabled
      BY <2>2, <3>1 DEF Enter
    <3>2. CASE ~page[p].disabled
      BY <2>2, <3>2 DEF Enter
    <3> QED BY <3>1, <3>2
  <2> QED BY <2>1, <2>2
<1>8. /\ strayed' = IF meant[page[p].box] = page[p].active THEN strayed
                    ELSE strayed \union {page[p].box}
      /\ doubled' = IF p \in entered' /\ SendsOf(p) # {} THEN doubled \union {page[p].box}
                    ELSE doubled
      /\ UNCHANGED <<server, storage, counts, meant, amid, unheard, loads, crossed>>
  BY <1>1 DEF Submit
<1>9. \A t \in Sends \ {s} : send'[t] = send[t]
  BY <1>0, <1>3
<1>10. /\ send'[s].pc = "lookup" /\ send'[s].page = p /\ send'[s].to = page[p].active
       /\ send'[s].draft = page[p].box /\ send'[s].tok = token /\ send'[s].pair = page[p].pair
       /\ send'[s].got = 0
  BY <1>0, <1>3 DEF Idle
<1>11. /\ page'[p].disabled /\ page'[p].box = page[p].box
       /\ page'[p].pair = page[p].pair /\ page'[p].session = page[p].session
       /\ \A q \in Pages \ {p} : page'[q] = page[q]
  BY <1>0, <1>4 DEF PageType
<1>12. page' \in [Pages -> PageType] /\ send' \in [Sends -> SendType]
  BY <1>0, <1>3, <1>4, <1>5, <1>6
<1> QED BY <1>2, <1>7, <1>8, <1>9, <1>10, <1>11, <1>12 DEF Submits

LEMMA UnlockEffect ==
  ASSUME Shape, NEW p \in Pages, EnterRefused(p)
  PROVE  Unlocks(p) /\ page' \in [Pages -> PageType]
<1>1. page \in [Pages -> PageType]
  BY Types DEF Shape
<1>2. [page[p] EXCEPT !.disabled = FALSE] \in PageType
  BY <1>1 DEF PageType
<1>3. page' = [page EXCEPT ![p].disabled = FALSE] /\ entered' = entered \union {p}
      /\ UNCHANGED <<server, storage, send, counts, meant, amid, strayed, doubled, unheard, loads, crossed>>
  BY DEF EnterRefused
<1>4. page' \in [Pages -> PageType]
  BY <1>1, <1>2, <1>3
<1>5. /\ page'[p].box = page[p].box /\ page'[p].pair = page[p].pair
      /\ page'[p].session = page[p].session
      /\ \A q \in Pages \ {p} : page'[q] = page[q]
  BY <1>1, <1>3 DEF PageType
<1> QED BY <1>3, <1>4, <1>5 DEF Unlocks

LEMMA LookEffect ==
  ASSUME Shape, NEW s \in Sends, LookupOk(s)
  PROVE  Looks(s) /\ send' \in [Sends -> SendType]
<1>1. send \in [Sends -> SendType]
  BY Types DEF Shape
<1>2. [send[s] EXCEPT !.pc = "post"] \in SendType
  BY <1>1 DEF SendType
<1> QED BY <1>1, <1>2 DEF LookupOk, Looks, SendType

LEMMA PostEffect ==
  ASSUME Shape, NEW s \in Sends, Post(s)
  PROVE  Posts(s) /\ send' \in [Sends -> SendType]
<1> DEFINE id == Cardinality(log) + 1
<1>0. send \in [Sends -> SendType] /\ Cardinality(log) \in Nat
  BY Types, FS_CardinalityType DEF Shape, Numbered
<1>1. id \in 0..MaxPosts
  BY <1>0, ComposerAssumption DEF Post
<1>2. [send[s] EXCEPT !.pc = "answer", !.got = id] \in SendType /\ Idle \in SendType
  <2>1. \A k \in SendType : [k EXCEPT !.pc = "answer", !.got = id] \in SendType
    BY <1>1 DEF SendType
  <2>2. Idle \in SendType
    BY ComposerAssumption DEF SendType, Idle
  <2> QED BY <1>0, <2>1, <2>2
<1>3. /\ send[s].pc = "post" /\ send[s].tok \in users /\ send[s].tok = send[s].pair
      /\ id <= MaxPosts
      /\ log' = log \union {[id |-> id, from |-> send[s].tok, pk |-> send[s].pair,
                             to |-> send[s].to, draft |-> send[s].draft]}
      /\ UNCHANGED <<users, storage, page, counts, meant, amid, strayed, entered, doubled, loads, crossed>>
  BY DEF Post, Admits
<1>4. \/ /\ send[s].page = None /\ send' = [send EXCEPT ![s] = Idle]
         /\ unheard' = unheard \union {id}
      \/ /\ send[s].page # None /\ send' = [send EXCEPT ![s].pc = "answer", ![s].got = id]
         /\ unheard' = unheard
  BY DEF Post
<1> HIDE DEF id
<1>5. CASE send[s].page = None
  BY <1>0, <1>2, <1>3, <1>4, <1>5 DEF Posts, id
<1>6. CASE send[s].page # None
  <2>1. /\ send'[s].pc = "answer" /\ send'[s].page = send[s].page /\ send'[s].to = send[s].to
        /\ send'[s].draft = send[s].draft /\ send'[s].tok = send[s].tok
        /\ send'[s].pair = send[s].pair /\ send'[s].got = id
        /\ \A t \in Sends \ {s} : send'[t] = send[t]
    BY <1>0, <1>4, <1>6 DEF SendType
  <2>2. send' \in [Sends -> SendType]
    BY <1>0, <1>2, <1>4, <1>6
  <2> QED BY <1>3, <1>4, <1>6, <2>1, <2>2 DEF Posts, id
<1> QED BY <1>5, <1>6

LEMMA EndEffect ==
  ASSUME Shape, NEW s \in Sends, PostRefused(s) \/ SendFails(s)
  PROVE  Ends(s) /\ page' \in [Pages -> PageType] /\ send' \in [Sends -> SendType]
<1>0. /\ page \in [Pages -> PageType] /\ send \in [Sends -> SendType]
      /\ Sending /\ acts \in 0..MaxActs
  BY Types DEF Shape, TypeOK
<1>1. send[s].page \in Pages /\ page' = [page EXCEPT ![send[s].page].disabled = FALSE]
  <2>1. send[s].page # None /\ GivesUp(s)
    BY DEF PostRefused, SendFails
  <2> QED BY <1>0, <2>1 DEF GivesUp, SendType
<1>2. acts' \in {acts, acts + 1} /\ acts' <= MaxActs
  BY <1>0, ComposerAssumption DEF PostRefused, SendFails, Act
<1>3. UNCHANGED <<server, storage, made, meant, amid, strayed, entered, doubled, loads, crossed>>
  BY DEF PostRefused, SendFails, history
<1>4. Idle \in SendType /\ [send[s] EXCEPT !.page = None] \in SendType
  BY <1>0, ComposerAssumption DEF Idle, SendType
<1>5. Dropping({s}) /\ send' \in [Sends -> SendType]
  <2>1. CASE PostRefused(s)
    <3>1. send' = [send EXCEPT ![s] = Idle] /\ unheard' = unheard /\ send[s].pc = "post"
      BY <2>1 DEF PostRefused, history
    <3>2. send[s].got = 0
      BY <1>0, <3>1 DEF Sending
    <3> QED BY <1>0, <1>4, <3>1, <3>2 DEF Dropping
  <2>2. CASE SendFails(s)
    <3>1. /\ send' = [send EXCEPT ![s] = IF send[s].pc = "post" THEN [send[s] EXCEPT !.page = None]
                                         ELSE Idle]
          /\ unheard' = IF send[s].pc = "answer" THEN unheard \union {send[s].got} ELSE unheard
      BY <2>2 DEF SendFails
    <3>2. send[s].got # 0 <=> send[s].pc = "answer"
      BY <1>0 DEF Sending
    <3> QED BY <1>0, <1>4, <3>1, <3>2 DEF Dropping
  <2> QED BY <2>1, <2>2
<1>6. [page[send[s].page] EXCEPT !.disabled = FALSE] \in PageType
  BY <1>0, <1>1 DEF PageType
<1>7. page' \in [Pages -> PageType]
  BY <1>0, <1>1, <1>6
<1>8. \A p \in Pages :
        /\ page'[p].box = page[p].box /\ page'[p].pair = page[p].pair
        /\ page'[p].session = page[p].session
        /\ p # send[s].page => page'[p].disabled = page[p].disabled
  BY <1>0, <1>1 DEF PageType
<1> QED BY <1>1, <1>2, <1>3, <1>5, <1>7, <1>8 DEF Ends

LEMMA DoneEffect ==
  ASSUME Shape, NEW s \in Sends, SendDone(s)
  PROVE  Succeeds(s) /\ page' \in [Pages -> PageType] /\ send' \in [Sends -> SendType]
<1>0. /\ page \in [Pages -> PageType] /\ send \in [Sends -> SendType]
      /\ Sending /\ acts \in 0..MaxActs
  BY Types DEF Shape, TypeOK
<1>1. send[s].pc = "answer" /\ send[s].page \in Pages
  BY <1>0 DEF SendDone, Sending
<1>2. page' = [page EXCEPT ![send[s].page].disabled = FALSE, ![send[s].page].box = 0]
  BY DEF SendDone, ClearText
<1>3. send' = [send EXCEPT ![s] = Idle] /\ Idle \in SendType
  BY ComposerAssumption DEF SendDone, Idle, SendType
<1>4. \E id \in {send[s].got, 0} :
        sentMap' = sentMap \union {[to |-> send[s].to, draft |-> send[s].draft, id |-> id]}
  BY DEF SendDone, AppendSent
<1>5. acts' \in {acts, acts + 1} /\ acts' <= MaxActs
  BY <1>0, ComposerAssumption DEF SendDone, Act
<1>6. UNCHANGED <<server, key, token, made, history>>
  BY DEF SendDone
<1>7. [page[send[s].page] EXCEPT !.disabled = FALSE, !.box = 0] \in PageType
  <2>1. \A g \in PageType : [g EXCEPT !.disabled = FALSE, !.box = 0] \in PageType
    BY DEF PageType
  <2> QED BY <1>0, <1>1, <2>1
<1>8. page' \in [Pages -> PageType] /\ send' \in [Sends -> SendType]
  BY <1>0, <1>1, <1>2, <1>3, <1>7
<1>9. /\ page'[send[s].page].box = 0
      /\ \A p \in Pages :
           /\ page'[p].pair = page[p].pair /\ page'[p].session = page[p].session
           /\ p # send[s].page => page'[p] = page[p]
  BY <1>0, <1>1, <1>2 DEF PageType
<1> QED BY <1>0, <1>1, <1>3, <1>4, <1>5, <1>6, <1>8, <1>9 DEF Succeeds

\* Every step is one of these.
LEMMA Effects ==
  ASSUME Shape, [Next]_vars
  PROVE  \/ Quiet
         \/ \E p \in Pages : Loads(p) \/ TypesIn(p) \/ Unlocks(p)
         \/ \E p \in Pages, s \in Sends : Submits(p, s)
         \/ \E s \in Sends : Looks(s) \/ Posts(s) \/ Ends(s) \/ Succeeds(s)
<1>1. CASE UNCHANGED vars
  BY <1>1 DEF vars, server, storage, counts, history, Quiet
<1>2. CASE Next
  BY <1>2, LoadEffect, QuietEffect, TypeEffect, SubmitEffect, UnlockEffect, LookEffect,
     PostEffect, EndEffect, DoneEffect DEF Next
<1> QED BY <1>1, <1>2

-----------------------------------------------------------------------------
(* Shape                                                                   *)

\* Users and tokens, whatever is set up: only a page's own pair is registered.
LEMMA SetupKeys ==
  ASSUME Shape, NEW p \in Pages,
         Reregister(p) \/ VerifyOk(p) \/ VerifyRefused(p) \/ RegisterOk(p) \/ RegisterRefused(p)
  PROVE  /\ users \subseteq users' /\ users' \subseteq users \union {page[p].pair}
         /\ page[p].pair \in Keys /\ page[p].pair \in 1..made
         /\ token' \in {0} \union users'
         /\ acts' \in {acts, acts + 1} /\ acts' <= MaxActs
<1>1. page[p] \in PageType /\ page[p].session # "closed"
  BY Types
  DEF Shape, Reregister, VerifyOk, VerifyRefused, RegisterOk, RegisterRefused
<1>2. page[p].pair # 0 /\ page[p].pair <= made /\ made \in Nat
  BY <1>1, Types DEF Shape, KnownKeys, Open
<1>3. page[p].pair \in Keys /\ page[p].pair \in 1..made
  BY <1>1, <1>2, ComposerAssumption DEF PageType, Keys
<1>4. acts \in Nat /\ acts <= MaxActs /\ token \in {0} \union users
  BY ComposerAssumption DEF Shape, TypeOK
<1>5. acts' \in {acts, acts + 1} /\ acts' <= MaxActs
  BY <1>4, ComposerAssumption
  DEF Reregister, VerifyOk, VerifyRefused, RegisterOk, RegisterRefused, counts, Act
<1>6. /\ users \subseteq users' /\ users' \subseteq users \union {page[p].pair}
      /\ token' \in {0} \union users'
  BY <1>4
  DEF Reregister, VerifyOk, VerifyRefused, RegisterOk, RegisterRefused, server, storage
<1> QED BY <1>3, <1>5, <1>6

\* Sends that only end leave well-formed sends, and learn of no new message.
LEMMA DroppingKeepsSending ==
  ASSUME Sending, NEW D \in SUBSET Sends, Dropping(D), Typed' = Typed, users \subseteq users',
         log' = log
  PROVE  Sending'
<1> SUFFICES ASSUME NEW s \in Sends
             PROVE  /\ send'[s].pc = "idle" => send'[s] = Idle
                    /\ send'[s].pc # "idle" => /\ send'[s].draft \in Typed' /\ send'[s].to \in Peers
                                               /\ send'[s].tok \in users' /\ send'[s].pair # 0
                    /\ send'[s].pc \in {"lookup", "answer"} => send'[s].page \in Pages
                    /\ send'[s].got # 0 <=> send'[s].pc = "answer"
                    /\ send'[s].pc = "answer" =>
                         \E m \in log' : /\ m.id = send'[s].got /\ m.to = send'[s].to
                                         /\ m.draft = send'[s].draft
  BY DEF Sending
<1>1. CASE send'[s] = send[s]
  BY <1>1 DEF Sending
<1>2. CASE send'[s] = Idle
  BY <1>2 DEF Idle
<1>3. CASE send[s].pc = "post" /\ send'[s] = [send[s] EXCEPT !.page = None]
  <2>1. /\ send'[s].pc = send[s].pc /\ send'[s].draft = send[s].draft /\ send'[s].to = send[s].to
        /\ send'[s].tok = send[s].tok /\ send'[s].pair = send[s].pair /\ send'[s].got = send[s].got
    BY <1>3
  <2> QED BY <1>3, <2>1 DEF Sending
<1> QED BY <1>1, <1>2, <1>3 DEF Dropping

\* ... and their pages have not heard of messages that are stored.
LEMMA DroppingUnheard ==
  ASSUME Shape, NEW D \in SUBSET Sends, Dropping(D), log' = log
  PROVE  unheard' \subseteq {m.id : m \in log'}
<1>1. \A s \in Sends : send[s].got # 0 => \E m \in log : m.id = send[s].got
  BY DEF Shape, Sending
<1>2. unheard \subseteq {m.id : m \in log}
  BY DEF Shape, TypeOK
<1> QED BY <1>1, <1>2 DEF Dropping

LEMMA ShapeInit == Init => Shape
<1> SUFFICES ASSUME Init PROVE Shape
  OBVIOUS
<1>1. Typed = {} /\ meant \in [1..0 -> Peers]
  BY DEF Init, Typed
<1>2. Unloaded \in PageType /\ Idle \in SendType
  BY ComposerAssumption DEF Unloaded, Idle, PageType, SendType
<1>3. TypeOK
  <2>1. page \in [Pages -> PageType] /\ send \in [Sends -> SendType]
    BY <1>2 DEF Init
  <2>2. \E n \in 0..MaxActs : meant \in [1..n -> Peers]
    BY <1>1, ComposerAssumption
  <2>3. 0 \in 0..MaxActs
    BY ComposerAssumption
  <2>4. crossed \in BOOLEAN
    BY Zenon DEF Init
  <2> QED BY <1>1, <2>1, <2>2, <2>3, <2>4 DEF Init, TypeOK, PageType, SendType
<1>4. Numbered
  BY FS_EmptySet DEF Init, Numbered
<1>5. Counted
  BY <1>1 DEF Init, Counted
<1>6. KnownKeys
  BY DEF Init, KnownKeys, Unloaded
<1>7. Sending
  BY DEF Init, Sending, Idle
<1> QED BY <1>3, <1>4, <1>5, <1>6, <1>7 DEF Shape

LEMMA ShapeStep == Shape /\ [Next]_vars => Shape'
<1> SUFFICES ASSUME Shape, [Next]_vars PROVE Shape'
  OBVIOUS
<1>0. /\ TypeOK /\ Numbered /\ Counted /\ KnownKeys /\ Sending
      /\ page \in [Pages -> PageType] /\ send \in [Sends -> SendType]
      /\ acts \in Nat /\ acts <= MaxActs /\ made \in Nat /\ loads \in Nat /\ loads <= acts
      /\ MaxActs \in Nat /\ MaxPosts \in Nat
  <2>1. TypeOK /\ Numbered /\ Counted /\ KnownKeys /\ Sending
    BY DEF Shape
  <2>2. acts \in 0..MaxActs /\ loads <= acts
    BY <2>1 DEF TypeOK, Counted
  <2> QED BY <2>1, <2>2, Types, ComposerAssumption
<1>t. ASSUME meant' = meant
      PROVE  Typed' = Typed /\ PageType' = PageType /\ SendType' = SendType
  BY <1>t DEF Typed, PageType, SendType, Keys
<1>n. PICK n \in 0..acts : meant \in [1..n -> Peers]
  BY <1>0 DEF Counted
<1>c. ASSUME meant' = meant, log' = log, acts' \in {acts, acts + 1}, loads' <= acts'
      PROVE  Counted'
  <2>1. n \in 0..acts'
    BY <1>0, <1>c
  <2> QED BY <1>0, <1>c, <1>n, <2>1, <1>t DEF Counted
<1>a. ASSUME acts' \in {acts, acts + 1}, acts' <= MaxActs
      PROVE  acts' \in 0..MaxActs
  BY <1>0, <1>a
<1>s. crossed \in BOOLEAN
  BY <1>0 DEF TypeOK
<1>1. ASSUME NEW p \in Pages,
             Reregister(p) \/ VerifyOk(p) \/ VerifyRefused(p) \/ RegisterOk(p) \/ RegisterRefused(p)
      PROVE  Shape'
  <2>1. Quiet /\ page' \in [Pages -> PageType]
    BY <1>1, QuietEffect
  <2>2. /\ users \subseteq users' /\ users' \subseteq users \union {page[p].pair}
        /\ page[p].pair \in Keys /\ page[p].pair \in 1..made
        /\ token' \in {0} \union users'
        /\ acts' \in {acts, acts + 1} /\ acts' <= MaxActs
    BY <1>1, SetupKeys
  <2>3. /\ UNCHANGED <<log, key, sentMap, send, made, meant, amid, strayed, entered, doubled,
                       unheard, loads>>
        /\ crossed' \in BOOLEAN
    BY <1>1, <1>s, <2>1
    DEF Quiet, Reregister, VerifyOk, VerifyRefused, RegisterOk, RegisterRefused, storage, history
  <2>4. TypeOK'
    <3>1. acts' \in 0..MaxActs /\ users' \subseteq Keys
      BY <1>0, <1>a, <2>2 DEF TypeOK
    <3> QED BY <1>0, <1>t, <1>s, <2>1, <2>2, <2>3, <3>1 DEF TypeOK, PageType
  <2>5. Numbered' /\ Sending'
    BY <1>0, <1>t, <2>2, <2>3 DEF Numbered, Sending
  <2>6. Counted'
    BY <1>0, <1>c, <2>2, <2>3
  <2>7. KnownKeys'
    BY <1>0, <2>1, <2>2, <2>3 DEF KnownKeys, Quiet
  <2> QED BY <2>4, <2>5, <2>6, <2>7 DEF Shape
<1>2. ASSUME NEW p \in Pages, NEW peer \in Peers \union {None}, Switch(p, peer) PROVE Shape'
  <2>1. Quiet /\ page' \in [Pages -> PageType]
    BY <1>2, QuietEffect
  <2>2. /\ UNCHANGED <<users, log, key, token, sentMap, send, made, meant, amid, strayed, entered,
                       doubled, unheard, loads, crossed>>
        /\ acts' = acts + 1 /\ acts < MaxActs
    BY <1>2 DEF Switch, Act, server, storage, history
  <2>3. TypeOK'
    <3>1. acts' \in 0..MaxActs
      BY <1>0, <2>2
    <3> QED BY <1>0, <1>t, <1>s, <2>1, <2>2, <3>1 DEF TypeOK, PageType
  <2>4. Numbered' /\ Sending'
    BY <1>0, <1>t, <2>2 DEF Numbered, Sending
  <2>5. Counted'
    BY <1>0, <1>c, <2>2
  <2>6. KnownKeys'
    BY <1>0, <2>1, <2>2 DEF KnownKeys, Quiet
  <2> QED BY <2>3, <2>4, <2>5, <2>6 DEF Shape
<1>12. ASSUME NEW p \in Pages, NEW first \in Peers \union {None}, Start(p, first) \/ NewKeys(p)
       PROVE  Shape'
  <2>1. Quiet /\ page' \in [Pages -> PageType]
    BY <1>12, QuietEffect
  <2>2. /\ UNCHANGED <<users, log, send, made, acts, meant, amid, strayed, entered, doubled,
                       unheard, loads>>
        /\ key' \in {0, key} /\ token' \in {0, token} /\ sentMap' \in {{}, sentMap}
        /\ crossed' \in BOOLEAN
    BY <1>12, <1>s DEF Start, NewKeys, server, storage, counts, history
  <2>3. TypeOK'
    BY <1>0, <1>t, <2>1, <2>2 DEF TypeOK, PageType
  <2>4. Numbered' /\ Sending'
    BY <1>0, <1>t, <2>2 DEF Numbered, Sending
  <2>5. Counted'
    BY <1>0, <1>c, <2>2
  <2>6. KnownKeys'
    BY <1>0, <2>1, <2>2 DEF KnownKeys, Quiet
  <2> QED BY <2>3, <2>4, <2>5, <2>6 DEF Shape
<1>3. ASSUME NEW p \in Pages, Load(p) PROVE Shape'
  <2>1. Loads(p) /\ page' \in [Pages -> PageType] /\ send' \in [Sends -> SendType]
    BY <1>3, LoadEffect
  <2>2. UNCHANGED <<users, log, meant, amid, strayed, doubled>> /\ Dropping(SendsOf(p))
    BY <2>1 DEF Loads
  <2>3. SendsOf(p) \in SUBSET Sends
    BY DEF SendsOf
  <2>4. key' \in Nat /\ key' <= made' /\ made \in Nat /\ made' \in Nat /\ made <= made'
    BY <1>0, <2>1, Types DEF Loads, KnownKeys
  <2>5. key' \in Keys /\ made' \in 0..MaxActs
    <3>1. page'[p] \in PageType /\ page'[p].pair = key' /\ key' # 0
      BY <2>1 DEF Loads
    <3>2. key' \in Keys
      BY <3>1 DEF PageType
    <3> QED BY <1>0, <2>1, <3>2 DEF Loads, TypeOK, Keys
  <2>6. /\ token' = token /\ sentMap' = sentMap
        /\ loads' = loads + 1 /\ acts' = acts + 1 /\ acts < MaxActs
        /\ entered' \subseteq Pages
    BY <1>0, <2>1 DEF Loads, TypeOK
  <2>7. unheard' \subseteq {m.id : m \in log'}
    BY <2>2, <2>3, DroppingUnheard
  <2>8. crossed' = crossed
    BY <2>1 DEF Loads
  <2>9. TypeOK'
    <3>1. acts' \in 0..MaxActs /\ loads' \in 0..MaxActs
      BY <1>0, <2>6
    <3>2. sentMap' \subseteq [to : Peers, draft : Drafts, id : 0..MaxPosts]
      BY <1>0, <2>6 DEF TypeOK
    <3> QED BY <1>0, <1>t, <2>1, <2>2, <2>5, <2>6, <2>7, <2>8, <3>1, <3>2 DEF TypeOK, PageType, SendType
  <2>10. Numbered'
    BY <1>0, <2>2 DEF Numbered
  <2>11. Counted'
    BY <1>0, <1>c, <2>2, <2>6
  <2>12. KnownKeys'
    <3>1. \A q \in Pages : page'[q].pair <= made' /\ (page'[q].session # "closed" => page'[q].pair # 0)
      <4> SUFFICES ASSUME NEW q \in Pages
                   PROVE  page'[q].pair <= made' /\ (page'[q].session # "closed" => page'[q].pair # 0)
        OBVIOUS
      <4>1. CASE q = p
        BY <2>1, <2>4, <4>1 DEF Loads
      <4>2. CASE q # p
        <5>1. page[q].pair \in Nat /\ page[q].pair <= made
          BY <1>0, Types DEF KnownKeys
        <5> QED BY <1>0, <2>1, <2>4, <4>2, <5>1 DEF Loads, KnownKeys
      <4> QED BY <4>1, <4>2
    <3>2. users \subseteq 1..made'
      BY <1>0, <2>4 DEF KnownKeys
    <3> QED BY <1>0, <2>2, <2>4, <3>1, <3>2 DEF KnownKeys
  <2>13. Sending'
    BY <1>0, <1>t, <2>2, <2>3, DroppingKeepsSending
  <2> QED BY <2>9, <2>10, <2>11, <2>12, <2>13 DEF Shape
<1>4. ASSUME NEW p \in Pages, Type(p) PROVE Shape'
  <2> DEFINE d == Cardinality(Typed) + 1
  <2>1. TypesIn(p) /\ page' \in [Pages -> PageType'] /\ acts' = acts + 1 /\ acts < MaxActs
    BY <1>4, TypeEffect
  <2>2. /\ d \in Nat \ {0} /\ d <= acts + 1 /\ 1..d = Typed \union {d}
    BY <1>0, NextDraft
  <2>3. meant' \in [1..d -> Peers] /\ amid' \subseteq amid \union {d}
    BY <2>1 DEF TypesIn
  <2>4. UNCHANGED <<users, log, key, token, sentMap, send, made, strayed, entered, doubled, unheard,
                    loads, crossed>>
    BY <2>1 DEF TypesIn, server, storage
  <2>5. \A q \in Pages : /\ page'[q].pair = page[q].pair
                         /\ page'[q].session = page[q].session
    BY <2>1 DEF TypesIn
  <2> HIDE DEF d
  <2>6. Typed' = Typed \union {d}
    BY <2>2, <2>3 DEF Typed
  <2>7. TypeOK'
    <3>1. send' \in [Sends -> SendType']
      <4>1. \A s \in Sends : send[s] \in SendType'
        BY <1>0, <2>6 DEF SendType, Keys
      <4> QED BY <1>0, <2>4, <4>1
    <3>2. \E m \in 0..MaxActs : meant' \in [1..m -> Peers]
      BY <1>0, <2>1, <2>2, <2>3
    <3>3. amid' \subseteq Typed' /\ strayed' \subseteq Typed' /\ doubled' \subseteq Typed'
      BY <1>0, <2>3, <2>4, <2>6 DEF TypeOK
    <3>4. acts' \in 0..MaxActs
      BY <1>0, <2>1
    <3> QED BY <1>0, <2>1, <2>4, <3>1, <3>2, <3>3, <3>4 DEF TypeOK, PageType, SendType
  <2>8. Numbered'
    BY <1>0, <2>4 DEF Numbered
  <2>9. Counted'
    BY <1>0, <2>1, <2>2, <2>3, <2>4, <2>6 DEF Counted
  <2>10. KnownKeys'
    BY <1>0, <2>4, <2>5 DEF KnownKeys, Open
  <2>11. Sending'
    BY <1>0, <2>4, <2>6 DEF Sending
  <2> QED BY <2>7, <2>8, <2>9, <2>10, <2>11 DEF Shape
<1>5. ASSUME NEW p \in Pages, NEW s \in Sends, Click(p, s) \/ Enter(p, s) PROVE Shape'
  <2>1. Submits(p, s) /\ page' \in [Pages -> PageType] /\ send' \in [Sends -> SendType]
    BY <1>5, SubmitEffect
  <2>2. UNCHANGED <<users, log, key, token, sentMap, made, acts, meant, amid, unheard, loads, crossed>>
    BY <2>1 DEF Submits, server, storage, counts
  <2>3. page[p].box \in Typed /\ token \in users /\ page[p].pair # 0 /\ page[p].active \in Peers
    BY <1>0, <2>1 DEF Submits, PageType, TypeOK, KnownKeys, Open
  <2>4. strayed' \subseteq Typed /\ doubled' \subseteq Typed /\ entered' \subseteq Pages
    BY <1>0, <2>1, <2>3 DEF Submits, TypeOK
  <2>5. TypeOK'
    BY <1>0, <1>t, <2>1, <2>2, <2>4 DEF TypeOK, PageType, SendType
  <2>6. Numbered'
    BY <1>0, <2>2 DEF Numbered
  <2>7. Counted'
    BY <1>0, <1>c, <2>2
  <2>8. KnownKeys'
    BY <1>0, <2>1, <2>2 DEF KnownKeys, Submits
  <2>9. Sending'
    BY <1>0, <1>t, <2>1, <2>2, <2>3 DEF Sending, Submits
  <2> QED BY <2>5, <2>6, <2>7, <2>8, <2>9 DEF Shape
<1>6. ASSUME NEW p \in Pages, EnterRefused(p) PROVE Shape'
  <2>1. Unlocks(p) /\ page' \in [Pages -> PageType]
    BY <1>6, UnlockEffect
  <2>2. UNCHANGED <<users, log, key, token, sentMap, send, made, acts, meant, amid, strayed, doubled,
                    unheard, loads, crossed>>
    BY <2>1 DEF Unlocks, server, storage, counts
  <2>3. entered' \subseteq Pages
    BY <1>0, <2>1 DEF Unlocks, TypeOK
  <2>4. TypeOK'
    BY <1>0, <1>t, <2>1, <2>2, <2>3 DEF TypeOK, PageType
  <2>5. Numbered' /\ Sending'
    BY <1>0, <1>t, <2>2 DEF Numbered, Sending
  <2>6. Counted'
    BY <1>0, <1>c, <2>2
  <2>7. KnownKeys'
    BY <1>0, <2>1, <2>2 DEF KnownKeys, Unlocks
  <2> QED BY <2>4, <2>5, <2>6, <2>7 DEF Shape
<1>7. ASSUME NEW s \in Sends, LookupOk(s) PROVE Shape'
  <2>1. Looks(s) /\ send' \in [Sends -> SendType]
    BY <1>7, LookEffect
  <2>2. UNCHANGED <<users, log, key, token, sentMap, page, made, acts, meant, amid, strayed, entered,
                    doubled, unheard, loads, crossed>>
    BY <2>1 DEF Looks, server, storage, counts, history
  <2>3. TypeOK'
    BY <1>0, <1>t, <2>1, <2>2 DEF TypeOK, SendType
  <2>4. Numbered' /\ KnownKeys'
    BY <1>0, <2>2 DEF Numbered, KnownKeys, Open
  <2>5. Counted'
    BY <1>0, <1>c, <2>2
  <2>6. Sending'
    BY <1>0, <1>t, <2>1, <2>2 DEF Sending, Looks
  <2> QED BY <2>3, <2>4, <2>5, <2>6 DEF Shape
<1>8. ASSUME NEW s \in Sends, Post(s) PROVE Shape'
  <2> DEFINE id == Cardinality(log) + 1
             m == [id |-> id, from |-> send[s].tok, pk |-> send[s].pair, to |-> send[s].to,
                   draft |-> send[s].draft]
  <2>1. Posts(s) /\ send' \in [Sends -> SendType]
    BY <1>8, PostEffect
  <2>2. UNCHANGED <<users, key, token, sentMap, page, made, acts, meant, amid, strayed, entered,
                    doubled, loads, crossed>>
    BY <2>1 DEF Posts, storage, counts
  <2>3. /\ log' = log \union {m} /\ id <= MaxPosts /\ id \in 1..MaxPosts
        /\ unheard' \subseteq unheard \union {id}
        /\ Cardinality(log) \in Nat
    <3>1. Cardinality(log) \in Nat
      BY <1>0, FS_CardinalityType DEF Numbered
    <3> QED BY <1>0, <2>1, <3>1 DEF Posts
  <2>4. /\ send[s].tok \in users /\ send[s].tok = send[s].pair
        /\ send[s].draft \in Typed /\ send[s].to \in Peers
    BY <1>0, <2>1 DEF Posts, Sending
  <2>5. m.id = id /\ m.from = send[s].tok /\ m.to = send[s].to /\ m.draft = send[s].draft
    OBVIOUS
  <2>6. m \in [id : 1..MaxPosts, from : Keys, pk : Keys, to : Peers, draft : Drafts]
    <3>1. Typed \subseteq Drafts /\ users \subseteq Keys
      BY <1>0, <1>n DEF Typed, Drafts, TypeOK
    <3> QED BY <2>3, <2>4, <3>1
  <2>7. IsFiniteSet(log') /\ Cardinality(log') = id
    <3>1. m \notin log
      <4> SUFFICES ASSUME m \in log PROVE FALSE
        OBVIOUS
      <4>1. id \in 1..Cardinality(log)
        BY <1>0, <2>5 DEF Numbered
      <4> QED BY <2>3, <4>1
    <3>2. IsFiniteSet(log)
      BY <1>0 DEF Numbered
    <3> QED BY <2>3, <3>1, <3>2, FS_AddElement
  <2> HIDE DEF m, id
  <2>8. TypeOK'
    <3>1. unheard' \subseteq {x.id : x \in log'}
      BY <1>0, <2>3, <2>5 DEF TypeOK
    <3> QED BY <1>0, <1>t, <2>1, <2>2, <2>3, <2>6, <3>1 DEF TypeOK, SendType
  <2>9. Numbered'
    <3>0. id = Cardinality(log) + 1 /\ \A x \in log : x.id \in 1..Cardinality(log)
      BY <1>0 DEF Numbered, id
    <3>1. \A x \in log' : x.id \in 1..id
      BY <2>3, <2>5, <3>0
    <3>2. \A x, y \in log' : x.id = y.id => x = y
      BY <1>0, <2>3, <2>5, <3>0 DEF Numbered
    <3> QED BY <2>7, <3>1, <3>2 DEF Numbered
  <2>10. Counted'
    BY <1>0, <1>t, <2>2, <2>3, <2>4, <2>5 DEF Counted
  <2>11. KnownKeys'
    BY <1>0, <2>2, <2>3, <2>4, <2>5 DEF KnownKeys, Open
  <2>12. Sending'
    <3> SUFFICES ASSUME NEW t \in Sends
                 PROVE  /\ send'[t].pc = "idle" => send'[t] = Idle
                        /\ send'[t].pc # "idle" => /\ send'[t].draft \in Typed' /\ send'[t].to \in Peers
                                                   /\ send'[t].tok \in users' /\ send'[t].pair # 0
                        /\ send'[t].pc \in {"lookup", "answer"} => send'[t].page \in Pages
                        /\ send'[t].got # 0 <=> send'[t].pc = "answer"
                        /\ send'[t].pc = "answer" =>
                             \E x \in log' : /\ x.id = send'[t].got /\ x.to = send'[t].to
                                             /\ x.draft = send'[t].draft
      BY DEF Sending
    <3>1. CASE t # s
      BY <1>0, <1>t, <2>1, <2>2, <2>3, <3>1 DEF Sending, Posts
    <3>2. CASE t = s /\ send[s].page = None
      <4>1. send'[s] = Idle
        BY <2>1, <3>2 DEF Posts
      <4> QED BY <3>2, <4>1 DEF Idle
    <3>3. CASE t = s /\ send[s].page # None
      <4>1. /\ send'[s].pc = "answer" /\ send'[s].page = send[s].page /\ send'[s].to = send[s].to
            /\ send'[s].draft = send[s].draft /\ send'[s].tok = send[s].tok
            /\ send'[s].pair = send[s].pair /\ send'[s].got = id
        BY <2>1, <3>3 DEF Posts, id
      <4>2. send[s].page \in Pages /\ send[s].pair # 0 /\ id # 0
        BY <1>0, <2>1, <2>3, <3>3 DEF SendType, Sending, Posts
      <4> QED BY <1>t, <2>2, <2>3, <2>4, <2>5, <3>3, <4>1, <4>2
    <3> QED BY <3>1, <3>2, <3>3
  <2> QED BY <2>8, <2>9, <2>10, <2>11, <2>12 DEF Shape
<1>9. ASSUME NEW s \in Sends, PostRefused(s) \/ SendFails(s) PROVE Shape'
  <2>1. Ends(s) /\ page' \in [Pages -> PageType] /\ send' \in [Sends -> SendType]
    BY <1>9, EndEffect
  <2>2. /\ UNCHANGED <<users, log, key, token, sentMap, made, meant, amid, strayed, entered, doubled,
                       loads, crossed>>
        /\ Dropping({s}) /\ acts' \in {acts, acts + 1} /\ acts' <= MaxActs
    BY <2>1 DEF Ends, server, storage
  <2>3. unheard' \subseteq {m.id : m \in log'} /\ Sending'
    BY <1>0, <1>t, <2>2, DroppingUnheard, DroppingKeepsSending
  <2>4. TypeOK'
    <3>1. acts' \in 0..MaxActs
      BY <1>a, <2>2
    <3> QED BY <1>0, <1>t, <1>s, <2>1, <2>2, <2>3, <3>1 DEF TypeOK, PageType, SendType
  <2>5. Numbered'
    BY <1>0, <2>2 DEF Numbered
  <2>6. Counted'
    BY <1>0, <1>c, <2>2
  <2>7. KnownKeys'
    BY <1>0, <2>1, <2>2 DEF KnownKeys, Ends
  <2> QED BY <2>3, <2>4, <2>5, <2>6, <2>7 DEF Shape
<1>10. ASSUME NEW s \in Sends, SendDone(s) PROVE Shape'
  <2>1. Succeeds(s) /\ page' \in [Pages -> PageType] /\ send' \in [Sends -> SendType]
    BY <1>10, DoneEffect
  <2>2. /\ UNCHANGED <<users, log, key, token, made, meant, amid, strayed, entered, doubled, unheard,
                       loads, crossed>>
        /\ acts' \in {acts, acts + 1} /\ acts' <= MaxActs
    BY <2>1 DEF Succeeds, server, history
  <2>3. sentMap' \subseteq [to : Peers, draft : Drafts, id : 0..MaxPosts]
    <3>1. PICK i \in {send[s].got, 0} :
            sentMap' = sentMap \union {[to |-> send[s].to, draft |-> send[s].draft, id |-> i]}
      BY <2>1 DEF Succeeds
    <3>2. send[s].to \in Peers /\ send[s].draft \in Typed
      BY <1>0, <2>1 DEF Succeeds, Sending
    <3>3. i \in 0..MaxPosts
      BY <1>0, <3>1 DEF SendType
    <3>4. Typed \subseteq Drafts
      BY <1>0, <1>n DEF Typed, Drafts
    <3>5. [to |-> send[s].to, draft |-> send[s].draft, id |-> i]
            \in [to : Peers, draft : Drafts, id : 0..MaxPosts]
      BY <3>2, <3>3, <3>4
    <3> QED BY <1>0, <3>1, <3>5 DEF TypeOK
  <2>4. TypeOK'
    <3>1. acts' \in 0..MaxActs
      BY <1>a, <2>2
    <3> QED BY <1>0, <1>t, <1>s, <2>1, <2>2, <2>3, <3>1 DEF TypeOK, PageType, SendType
  <2>5. Numbered'
    BY <1>0, <2>2 DEF Numbered
  <2>6. Counted'
    BY <1>0, <1>c, <2>2
  <2>7. KnownKeys'
    BY <1>0, <2>1, <2>2 DEF KnownKeys, Succeeds
  <2>8. Sending'
    <3>1. send'[s] = Idle /\ \A t \in Sends \ {s} : send'[t] = send[t]
      BY <2>1 DEF Succeeds
    <3> QED BY <1>0, <1>t, <2>2, <3>1 DEF Sending, Idle
  <2> QED BY <2>3, <2>4, <2>5, <2>6, <2>7, <2>8 DEF Shape
<1>11. CASE UNCHANGED vars
  <2>1. UNCHANGED <<users, log, key, token, sentMap, page, send, made, acts, meant, amid, strayed,
                    entered, doubled, unheard, loads, crossed>>
    BY <1>11 DEF vars, server, storage, counts, history
  <2>2. TypeOK'
    BY <1>0, <1>t, <2>1 DEF TypeOK
  <2> QED BY <1>0, <1>c, <1>t, <2>1, <2>2 DEF Shape, Numbered, KnownKeys, Open, Sending
<1> QED BY <1>1, <1>2, <1>3, <1>4, <1>5, <1>6, <1>7, <1>8, <1>9, <1>10, <1>11, <1>12 DEF Next

-----------------------------------------------------------------------------
(* What the effects have in common                                         *)

\* A page that nobody waits for any more has no sends; every answer that is
\* given up is one that nobody has heard.
LEMMA Dropped ==
  ASSUME Shape, NEW D \in SUBSET Sends, Dropping(D)
  PROVE  /\ \A s \in Sends : send'[s].page # None => s \notin D /\ send'[s] = send[s]
         /\ \A s \in Sends : send'[s].pc # "idle" =>
              send[s].pc # "idle" /\ send'[s].to = send[s].to /\ send'[s].draft = send[s].draft
         /\ \A s \in Sends : send[s].got # 0 =>
              send[s].got \in unheard' \/ (s \notin D /\ send'[s] = send[s])
         /\ unheard \subseteq unheard'
<1>1. \A s \in D : send'[s].page = None
  <2> SUFFICES ASSUME NEW s \in D PROVE send'[s].page = None
    OBVIOUS
  <2>1. send[s] \in SendType
    BY Types DEF Shape
  <2>2. [send[s] EXCEPT !.page = None].page = None
    BY <2>1 DEF SendType
  <2>3. CASE send'[s] = Idle
    BY <2>3 DEF Idle
  <2>4. CASE send'[s] = [send[s] EXCEPT !.page = None]
    BY <2>2, <2>4
  <2> QED BY <2>3, <2>4 DEF Dropping
<1>2. \A s \in D : send'[s].pc # "idle" =>
        send[s].pc # "idle" /\ send'[s].to = send[s].to /\ send'[s].draft = send[s].draft
  <2> SUFFICES ASSUME NEW s \in D, send'[s].pc # "idle"
               PROVE  send[s].pc # "idle" /\ send'[s].to = send[s].to /\ send'[s].draft = send[s].draft
    OBVIOUS
  <2>1. send[s].pc = "post" /\ send'[s] = [send[s] EXCEPT !.page = None]
    BY DEF Dropping, Idle
  <2> QED BY <2>1
<1>3. \A s \in Sends \ D : send'[s] = send[s]
  BY DEF Dropping
<1>4. \A s \in D : send[s].got # 0 => send[s].got \in unheard'
  BY DEF Dropping
<1>5. unheard \subseteq unheard'
  BY DEF Dropping
<1>6. \A s \in Sends : send'[s].pc # "idle" =>
        send[s].pc # "idle" /\ send'[s].to = send[s].to /\ send'[s].draft = send[s].draft
  BY <1>2, <1>3
<1>7. \A s \in Sends : send'[s].page # None => s \notin D /\ send'[s] = send[s]
  BY <1>1, <1>3
<1>8. \A s \in Sends : send[s].got # 0 =>
        send[s].got \in unheard' \/ (s \notin D /\ send'[s] = send[s])
  BY <1>3, <1>4
<1> QED BY <1>5, <1>6, <1>7, <1>8

\* An answer is for one send, and tells the id of a message of its text.
LEMMA Answered ==
  ASSUME Shape
  PROVE  /\ \A s \in Sends : send[s].got # 0 <=> send[s].pc = "answer"
         /\ \A s \in Sends : send[s].page # None => send[s].pc # "idle"
         /\ \A s \in Sends : send[s].pc # "idle" => send[s].draft \in Typed
         /\ \A m \in log : m.id # 0
         /\ \A m \in log : \A s \in Sends : send[s].got = m.id =>
              /\ send[s].pc = "answer" /\ send[s].page \in Pages /\ send[s].page # None
              /\ m.to = send[s].to /\ m.draft = send[s].draft
<1>1. \A s \in Sends : send[s].got # 0 <=> send[s].pc = "answer"
  BY DEF Shape, Sending
<1>2. \A s \in Sends : send[s].page # None => send[s].pc # "idle"
  BY DEF Shape, Sending, Idle
<1>3. \A m \in log : m.id # 0
  BY DEF Shape, Numbered
<1>4. \A s \in Sends : send[s].pc # "idle" => send[s].draft \in Typed
  BY DEF Shape, Sending
<1>5. ASSUME NEW m \in log, NEW s \in Sends, send[s].got = m.id
      PROVE  /\ send[s].pc = "answer" /\ send[s].page \in Pages /\ send[s].page # None
             /\ m.to = send[s].to /\ m.draft = send[s].draft
  <2>1. send[s].pc = "answer"
    BY <1>1, <1>3, <1>5
  <2>2. PICK n \in log : n.id = send[s].got /\ n.to = send[s].to /\ n.draft = send[s].draft
    BY <2>1 DEF Shape, Sending
  <2>3. n = m
    BY <1>5, <2>2 DEF Shape, Numbered
  <2>4. send[s].page \in Pages
    BY <2>1 DEF Shape, Sending
  <2> QED BY <2>1, <2>2, <2>3, <2>4, ComposerAssumption
<1> QED BY <1>1, <1>2, <1>3, <1>4, <1>5

-----------------------------------------------------------------------------
(* Identity                                                                *)

OwnKeys == \A m \in log : m.from = m.pk

Sessions == ~crossed => ActiveIsRegistered

LEMMA SessionsHold == ASSUME OneIdentity PROVE Sessions
  BY DEF Sessions, OneIdentity, ActiveIsRegistered

\* A step of the session of one page.
LEMMA IdentitySetup ==
  ASSUME Shape, OneIdentity, NEW p \in Pages,
         \/ Reregister(p) \/ VerifyOk(p) \/ VerifyRefused(p) \/ RegisterOk(p) \/ RegisterRefused(p)
         \/ \E first \in Peers \union {None} : Start(p, first)
  PROVE  OneIdentity'
<1> SUFFICES ASSUME ~crossed'
             PROVE  /\ token' \in {0, key'}
                    /\ \A q \in Pages : page'[q].session \in {"verify", "active"} =>
                         page'[q].pair \in users'
  BY DEF OneIdentity
<1>0. page \in [Pages -> PageType] /\ token \in {0} \union users
  BY Types DEF Shape, TypeOK
<1>1. key' = key /\ ~crossed /\ users \subseteq users'
  <2>1. key' = key /\ users \subseteq users'
    BY DEF Reregister, VerifyOk, VerifyRefused, RegisterOk, RegisterRefused, Start,
           server, storage
  <2>2. CASE crossed' = crossed
    BY <2>1, <2>2
  <2>3. CASE crossed' = (crossed \/ page[p].pair # key)
    <3>1. ~crossed
      BY <2>3, Zenon
    <3> QED BY <2>1, <3>1
  <2> QED
    BY <2>2, <2>3
    DEF Reregister, VerifyOk, VerifyRefused, RegisterOk, RegisterRefused, Start, history
<1>2. token \in {0, key} /\ \A q \in Pages : page[q].session \in {"verify", "active"} =>
                                page[q].pair \in users
  BY <1>1 DEF OneIdentity
<1>3. token' \in {0, key}
  BY <1>1, <1>2
  DEF Reregister, VerifyOk, VerifyRefused, RegisterOk, RegisterRefused, Start, storage
<1>4. ASSUME NEW q \in Pages, q # p PROVE page'[q] = page[q]
  BY <1>0, <1>4
  DEF Reregister, VerifyOk, VerifyRefused, RegisterOk, RegisterRefused, Start, Become
<1>5. page'[p].pair = page[p].pair
  <2>1. ASSUME NEW session, page' = [page EXCEPT ![p].session = session]
        PROVE  page'[p].pair = page[p].pair
    BY <1>0, <2>1 DEF PageType
  <2>2. ASSUME NEW session, NEW first,
               page' = [page EXCEPT ![p].active = first, ![p].session = session]
        PROVE  page'[p].pair = page[p].pair
    BY <1>0, <2>2 DEF PageType
  <2> QED
    BY <2>1, <2>2
    DEF Reregister, VerifyOk, VerifyRefused, RegisterOk, RegisterRefused, Start, Become
<1>6. page'[p].session \in {"verify", "active"} => page[p].pair \in users'
  <2>1. CASE \E first \in Peers \union {None} : Start(p, first)
    <3>1. page[p].pair = key
      BY <2>1 DEF Start
    <3>2. token # 0 => page[p].pair \in users
      BY <1>0, <1>2, <3>1
    <3>3. page'[p].session = IF token = 0 THEN "register" ELSE "verify"
      BY <1>0, <2>1 DEF Start, PageType
    <3> QED BY <1>1, <3>2, <3>3
  <2>2. CASE VerifyOk(p)
    BY <1>1, <1>2, <2>2 DEF VerifyOk
  <2>3. CASE RegisterOk(p)
    BY <2>3 DEF RegisterOk
  <2>4. CASE Reregister(p) \/ VerifyRefused(p) \/ RegisterRefused(p)
    BY <1>0, <2>4 DEF Reregister, VerifyRefused, RegisterRefused, Become, PageType
  <2> QED BY <2>1, <2>2, <2>3, <2>4
<1>7. \A q \in Pages \ {p} : page'[q].session \in {"verify", "active"} => page'[q].pair \in users'
  BY <1>1, <1>2, <1>4
<1> QED BY <1>1, <1>3, <1>5, <1>6, <1>7

\* A page load: a new pair is made only where none is stored, and then no token
\* is.
LEMMA IdentityLoad ==
  ASSUME Shape, OneIdentity, NEW p \in Pages, Loads(p)
  PROVE  OneIdentity'
<1> SUFFICES ASSUME ~crossed'
             PROVE  /\ token' \in {0, key'}
                    /\ \A q \in Pages : page'[q].session \in {"verify", "active"} =>
                         page'[q].pair \in users'
  BY DEF OneIdentity
<1>1. ~crossed /\ token' = token /\ users' = users /\ (key = 0 \/ key' = key)
      /\ page'[p].session = "loading" /\ \A q \in Pages \ {p} : page'[q] = page[q]
  BY DEF Loads
<1>2. token \in {0, key}
  BY <1>1 DEF OneIdentity
<1>3. \A q \in Pages \ {p} : page'[q].session \in {"verify", "active"} => page'[q].pair \in users'
  BY <1>1 DEF OneIdentity
<1> QED BY <1>1, <1>2, <1>3

LEMMA IdentityStep ==
  Shape /\ OneIdentity /\ OwnKeys /\ [Next]_vars => OneIdentity' /\ OwnKeys'
<1> SUFFICES ASSUME Shape, OneIdentity, OwnKeys, [Next]_vars PROVE OneIdentity' /\ OwnKeys'
  OBVIOUS
<1>0. ASSUME UNCHANGED <<users, key, token, crossed>>,
             \A p \in Pages : /\ page'[p].pair = page[p].pair
                              /\ page'[p].session = page[p].session
      PROVE  OneIdentity'
  BY <1>0 DEF OneIdentity
<1>1. OwnKeys'
  <2>1. CASE log' = log
    BY <2>1 DEF OwnKeys
  <2>2. ASSUME NEW s \in Sends, Posts(s) PROVE OwnKeys'
    BY <2>2 DEF Posts, OwnKeys
  <2> QED
    BY <2>1, <2>2, Effects
    DEF Quiet, Loads, TypesIn, Unlocks, Submits, Looks, Ends, Succeeds, server
<1>2. ASSUME NEW p \in Pages,
             \/ Reregister(p) \/ VerifyOk(p) \/ VerifyRefused(p) \/ RegisterOk(p) \/ RegisterRefused(p)
             \/ \E first \in Peers \union {None} : Start(p, first)
      PROVE  OneIdentity'
  BY <1>2, IdentitySetup
<1>3. ASSUME NEW p \in Pages, Load(p) PROVE OneIdentity'
  BY <1>3, LoadEffect, IdentityLoad
<1>10. ASSUME NEW p \in Pages, NewKeys(p) PROVE OneIdentity'
  BY <1>10 DEF NewKeys, OneIdentity, server, history
<1>4. ASSUME NEW p \in Pages, NEW peer \in Peers \union {None}, Switch(p, peer)
      PROVE  OneIdentity'
  <2>1. page \in [Pages -> PageType]
    BY Types DEF Shape
  <2>2. \A q \in Pages : page'[q].pair = page[q].pair /\ page'[q].session = page[q].session
    BY <1>4, <2>1 DEF Switch, PageType
  <2> QED BY <1>0, <1>4, <2>2 DEF Switch, server, storage, history
<1>5. ASSUME NEW p \in Pages, Type(p) \/ EnterRefused(p)
      PROVE  OneIdentity'
  <2>1. TypesIn(p) \/ Unlocks(p)
    BY <1>5, TypeEffect, UnlockEffect
  <2>2. \A q \in Pages : page'[q].pair = page[q].pair /\ page'[q].session = page[q].session
    BY <2>1 DEF TypesIn, Unlocks
  <2> QED BY <1>0, <2>1, <2>2 DEF TypesIn, Unlocks, server, storage
<1>6. ASSUME NEW p \in Pages, NEW s \in Sends, Click(p, s) \/ Enter(p, s)
      PROVE  OneIdentity'
  <2>1. Submits(p, s)
    BY <1>6, SubmitEffect
  <2>2. \A q \in Pages : page'[q].pair = page[q].pair /\ page'[q].session = page[q].session
    BY <2>1 DEF Submits
  <2> QED BY <1>0, <2>1, <2>2 DEF Submits, server, storage
<1>7. ASSUME NEW s \in Sends, LookupOk(s) \/ Post(s) \/ PostRefused(s) \/ SendFails(s) \/ SendDone(s)
      PROVE  OneIdentity'
  <2>1. Looks(s) \/ Posts(s) \/ Ends(s) \/ Succeeds(s)
    BY <1>7, LookEffect, PostEffect, EndEffect, DoneEffect
  <2>2. \A q \in Pages : page'[q].pair = page[q].pair /\ page'[q].session = page[q].session
    BY <2>1 DEF Looks, Posts, Ends, Succeeds
  <2>3. UNCHANGED <<users, key, token, crossed>>
    BY <2>1 DEF Looks, Posts, Ends, Succeeds, server, storage, history
  <2> QED BY <1>0, <2>2, <2>3
<1>8. ASSUME UNCHANGED vars PROVE OneIdentity'
  <2>1. UNCHANGED <<users, key, token, crossed, page>>
    BY <1>8 DEF vars, server, storage, history
  <2> QED BY <1>0, <2>1
<1>9. ASSUME Next PROVE OneIdentity'
  BY <1>2, <1>3, <1>4, <1>5, <1>6, <1>7, <1>9, <1>10 DEF Next
<1> QED BY <1>1, <1>8, <1>9

-----------------------------------------------------------------------------
(* Where messages go                                                       *)

LEMMA DirectedStep ==
  Shape /\ Directed /\ SentWhereTyped /\ [Next]_vars => Directed' /\ SentWhereTyped'
<1> SUFFICES ASSUME Shape, Directed, SentWhereTyped, [Next]_vars
             PROVE  Directed' /\ SentWhereTyped'
  OBVIOUS
<1>0. /\ \A m \in log : m.draft \in Typed
      /\ \A s \in Sends : send[s].pc # "idle" => send[s].draft \in Typed
  BY Answered DEF Shape, Counted
<1>1. ASSUME UNCHANGED <<log, meant, strayed>>,
             \A s \in Sends : send'[s].pc # "idle" =>
               send[s].pc # "idle" /\ send'[s].to = send[s].to /\ send'[s].draft = send[s].draft
      PROVE  Directed' /\ SentWhereTyped'
  BY <1>1 DEF Directed, SentWhereTyped
<1>2. CASE Quiet \/ \E p \in Pages : Unlocks(p)
  BY <1>1, <1>2 DEF Quiet, Unlocks, server, history
<1>3. ASSUME NEW p \in Pages, Loads(p) PROVE Directed' /\ SentWhereTyped'
  <2>1. Dropping(SendsOf(p)) /\ UNCHANGED <<log, meant, strayed>> /\ SendsOf(p) \in SUBSET Sends
    BY <1>3 DEF Loads, SendsOf
  <2>2. \A s \in Sends : send'[s].pc # "idle" =>
          send[s].pc # "idle" /\ send'[s].to = send[s].to /\ send'[s].draft = send[s].draft
    BY <2>1, Dropped
  <2> QED BY <1>1, <2>1, <2>2
<1>4. ASSUME NEW p \in Pages, TypesIn(p) PROVE Directed' /\ SentWhereTyped'
  <2>1. /\ UNCHANGED <<log, send, strayed>>
        /\ \A e \in Typed : meant'[e] = meant[e]
    BY <1>4 DEF TypesIn, server
  <2> QED BY <1>0, <2>1 DEF Directed, SentWhereTyped
<1>5. ASSUME NEW p \in Pages, NEW s \in Sends, Submits(p, s) PROVE Directed' /\ SentWhereTyped'
  <2>1. /\ UNCHANGED <<log, meant>> /\ strayed \subseteq strayed'
        /\ \A t \in Sends \ {s} : send'[t] = send[t]
        /\ send'[s].to = page[p].active /\ send'[s].draft = page[p].box
        /\ meant[page[p].box] = page[p].active \/ page[p].box \in strayed'
    BY <1>5 DEF Submits, server
  <2>2. SentWhereTyped'
    BY <2>1 DEF SentWhereTyped
  <2>3. ASSUME NEW t \in Sends, send'[t].pc # "idle"
        PROVE  send'[t].to = meant'[send'[t].draft] \/ send'[t].draft \in strayed'
    <3>1. CASE t = s
      BY <2>1, <3>1
    <3>2. CASE t # s
      BY <2>1, <2>3, <3>2 DEF Directed
    <3> QED BY <3>1, <3>2
  <2> QED BY <2>2, <2>3 DEF Directed
<1>6. ASSUME NEW s \in Sends, Looks(s) PROVE Directed' /\ SentWhereTyped'
  BY <1>1, <1>6 DEF Looks, server, history
<1>7. ASSUME NEW s \in Sends, Posts(s) PROVE Directed' /\ SentWhereTyped'
  <2>1. UNCHANGED <<meant, strayed>> /\ send[s].pc = "post"
    BY <1>7 DEF Posts
  <2> DEFINE m == [id |-> Cardinality(log) + 1, from |-> send[s].tok, pk |-> send[s].pair,
                   to |-> send[s].to, draft |-> send[s].draft]
  <2>2. log' = log \union {m} /\ m.to = send[s].to /\ m.draft = send[s].draft
    BY <1>7 DEF Posts
  <2> HIDE DEF m
  <2>3. send[s].to = meant[send[s].draft] \/ send[s].draft \in strayed
    BY <2>1 DEF Directed
  <2>4. SentWhereTyped'
    BY <2>1, <2>2, <2>3 DEF SentWhereTyped
  <2>5. send'[s].pc # "idle" => send'[s].to = send[s].to /\ send'[s].draft = send[s].draft
    <3>1. CASE send'[s] = Idle
      BY <3>1 DEF Idle
    <3>2. CASE send'[s].to = send[s].to /\ send'[s].draft = send[s].draft
      BY <3>2
    <3> QED BY <1>7, <3>1, <3>2 DEF Posts
  <2>6. \A t \in Sends \ {s} : send'[t] = send[t]
    BY <1>7 DEF Posts
  <2>7. Directed'
    BY <2>1, <2>5, <2>6 DEF Directed
  <2> QED BY <2>4, <2>7
<1>8. ASSUME NEW s \in Sends, Ends(s) PROVE Directed' /\ SentWhereTyped'
  <2>1. Dropping({s}) /\ UNCHANGED <<log, meant, strayed>>
    BY <1>8 DEF Ends, server
  <2>2. \A t \in Sends : send'[t].pc # "idle" =>
          send[t].pc # "idle" /\ send'[t].to = send[t].to /\ send'[t].draft = send[t].draft
    BY <2>1, Dropped
  <2> QED BY <1>1, <2>1, <2>2
<1>9. ASSUME NEW s \in Sends, Succeeds(s) PROVE Directed' /\ SentWhereTyped'
  <2>1. /\ send'[s] = Idle /\ \A t \in Sends \ {s} : send'[t] = send[t]
        /\ UNCHANGED <<log, meant, strayed>>
    BY <1>9 DEF Succeeds, server, history
  <2> QED BY <1>1, <2>1 DEF Idle
<1> QED BY <1>2, <1>3, <1>4, <1>5, <1>6, <1>7, <1>8, <1>9, Effects

-----------------------------------------------------------------------------
(* The sent lines                                                          *)

LinesStored == \A line \in sentMap : \E m \in log : ShownAs(m, line)

StoredShown ==
  \A m \in log : m.from = key =>
    \/ m.id \in unheard
    \/ \E s \in Sends : send[s].got = m.id
    \/ \E line \in sentMap : ShownAs(m, line)

LEMMA StoreStep == Shape /\ SentMatchesStore /\ [Next]_vars => SentMatchesStore'
<1> SUFFICES ASSUME Shape, LinesStored, StoredShown, [Next]_vars
             PROVE  LinesStored' /\ StoredShown'
  BY DEF SentMatchesStore, LinesStored, StoredShown
<1>a. /\ \A m \in log : m.id # 0
      /\ \A s \in Sends : send[s].got # 0 <=> send[s].pc = "answer"
  BY Answered
\* An answer stays with its send, or is one that nobody has heard.
<1>1. ASSUME UNCHANGED <<log, key, sentMap>>, unheard \subseteq unheard',
             \A s \in Sends : send[s].got # 0 => send[s].got \in unheard' \/ send'[s].got = send[s].got
      PROVE  LinesStored' /\ StoredShown'
  <2>1. LinesStored'
    BY <1>1 DEF LinesStored, ShownAs
  <2>2. StoredShown'
    <3> SUFFICES ASSUME NEW m \in log, m.from = key
                 PROVE  \/ m.id \in unheard'
                        \/ \E s \in Sends : send'[s].got = m.id
                        \/ \E line \in sentMap : ShownAs(m, line)
      BY <1>1 DEF StoredShown, ShownAs
    <3>1. ASSUME NEW s \in Sends, send[s].got = m.id
          PROVE  m.id \in unheard' \/ send'[s].got = m.id
      BY <1>1, <1>a, <3>1
    <3> QED BY <1>1, <3>1 DEF StoredShown
  <2> QED BY <2>1, <2>2
<1>2. CASE \/ Quiet /\ UNCHANGED <<key, sentMap>>
           \/ \E p \in Pages : Unlocks(p) \/ TypesIn(p)
  BY <1>1, <1>2 DEF Quiet, Unlocks, TypesIn, server, storage
<1>9. CASE Quiet /\ key' = 0 /\ sentMap' = {}
  <2>1. \A m \in log : m.from # 0
    BY Types DEF Shape, KnownKeys
  <2> QED BY <1>9, <2>1 DEF Quiet, LinesStored, StoredShown
<1>3. ASSUME NEW p \in Pages, Loads(p) PROVE LinesStored' /\ StoredShown'
  <2>1. Dropping(SendsOf(p)) /\ log' = log /\ SendsOf(p) \in SUBSET Sends
    BY <1>3 DEF Loads, SendsOf
  <2>2. /\ unheard \subseteq unheard'
        /\ \A s \in Sends : send[s].got # 0 => send[s].got \in unheard' \/ send'[s].got = send[s].got
    BY <2>1, Dropped
  <2>3. CASE key' = key /\ sentMap' = sentMap
    BY <1>1, <2>1, <2>2, <2>3
  <2>4. CASE key' = made + 1 /\ sentMap' = sentMap
    <3>1. LinesStored'
      BY <2>1, <2>4 DEF LinesStored, ShownAs
    <3>2. \A m \in log : m.from # key'
      <4> SUFFICES ASSUME NEW m \in log PROVE m.from # made + 1
        BY <2>4
      <4>1. m.from \in 1..made /\ made \in Nat
        BY Types DEF Shape, KnownKeys
      <4> QED BY <4>1
    <3>3. StoredShown'
      BY <2>1, <3>2 DEF StoredShown
    <3> QED BY <3>1, <3>3
  <2> QED BY <1>3, <2>3, <2>4 DEF Loads
<1>4. ASSUME NEW p \in Pages, NEW s \in Sends, Submits(p, s) PROVE LinesStored' /\ StoredShown'
  <2>1. /\ UNCHANGED <<log, key, sentMap, unheard>>
        /\ send[s].pc = "idle"
        /\ \A t \in Sends \ {s} : send'[t] = send[t]
    BY <1>4 DEF Submits, server, storage
  <2>2. \A t \in Sends : send[t].got # 0 => send'[t].got = send[t].got
    BY <1>a, <2>1
  <2> QED BY <1>1, <2>1, <2>2
<1>5. ASSUME NEW s \in Sends, Looks(s) PROVE LinesStored' /\ StoredShown'
  BY <1>1, <1>5 DEF Looks, server, storage, history
<1>6. ASSUME NEW s \in Sends, Posts(s) PROVE LinesStored' /\ StoredShown'
  <2>1. UNCHANGED <<key, sentMap>> /\ send[s].pc = "post"
    BY <1>6 DEF Posts, storage
  <2>2. PICK m : /\ log' = log \union {m}
                 /\ \/ m.id \in unheard'
                    \/ unheard' = unheard /\ send'[s].got = m.id
                 /\ unheard \subseteq unheard'
                 /\ \A t \in Sends \ {s} : send'[t] = send[t]
    BY <1>6 DEF Posts
  <2>3. LinesStored'
    BY <2>1, <2>2 DEF LinesStored, ShownAs
  <2>4. StoredShown'
    <3> SUFFICES ASSUME NEW n \in log', n.from = key'
                 PROVE  \/ n.id \in unheard'
                        \/ \E t \in Sends : send'[t].got = n.id
                        \/ \E line \in sentMap' : ShownAs(n, line)
      BY DEF StoredShown, ShownAs
    <3>1. CASE n = m
      BY <2>2, <3>1
    <3>2. CASE n \in log
      <4>1. ASSUME NEW t \in Sends, send[t].got = n.id PROVE send'[t].got = n.id
        BY <1>a, <2>1, <2>2, <3>2, <4>1
      <4> QED BY <2>1, <2>2, <3>2, <4>1 DEF StoredShown
    <3> QED BY <2>2, <3>1, <3>2
  <2> QED BY <2>3, <2>4
<1>7. ASSUME NEW s \in Sends, Ends(s) PROVE LinesStored' /\ StoredShown'
  <2>1. Dropping({s}) /\ UNCHANGED <<log, key, sentMap>>
    BY <1>7 DEF Ends, server, storage
  <2>2. /\ unheard \subseteq unheard'
        /\ \A t \in Sends : send[t].got # 0 => send[t].got \in unheard' \/ send'[t].got = send[t].got
    BY <2>1, Dropped
  <2> QED BY <1>1, <2>1, <2>2
<1>8. ASSUME NEW s \in Sends, Succeeds(s) PROVE LinesStored' /\ StoredShown'
  <2>1. /\ UNCHANGED <<log, key, unheard>> /\ send[s].pc = "answer"
        /\ \A t \in Sends \ {s} : send'[t] = send[t]
    BY <1>8 DEF Succeeds, server, history
  <2>i. PICK id \in {send[s].got, 0} :
          sentMap' = sentMap \union {[to |-> send[s].to, draft |-> send[s].draft, id |-> id]}
    BY <1>8 DEF Succeeds
  <2> DEFINE line == [to |-> send[s].to, draft |-> send[s].draft, id |-> id]
  <2>2. /\ sentMap' = sentMap \union {line}
        /\ line.id \in {send[s].got, 0}
        /\ line.to = send[s].to /\ line.draft = send[s].draft
    BY <2>i
  <2> HIDE DEF line
  <2>3. \A m \in log : m.id = send[s].got => ShownAs(m, line)
    BY <2>2, Answered DEF ShownAs
  <2>4. \E m \in log : m.id = send[s].got
    BY <2>1 DEF Shape, Sending
  <2>5. LinesStored'
    <3>1. \A l \in sentMap : \E m \in log' : ShownAs(m, l)
      BY <2>1 DEF LinesStored
    <3>2. \E m \in log' : ShownAs(m, line)
      BY <2>1, <2>3, <2>4
    <3> QED BY <2>2, <3>1, <3>2 DEF LinesStored, ShownAs
  <2>6. StoredShown'
    <3> SUFFICES ASSUME NEW m \in log, m.from = key
                 PROVE  \/ m.id \in unheard
                        \/ \E t \in Sends : send'[t].got = m.id
                        \/ \E l \in sentMap' : ShownAs(m, l)
      BY <2>1 DEF StoredShown, ShownAs
    <3>1. CASE m.id = send[s].got
      BY <2>2, <2>3, <3>1
    <3>2. CASE m.id # send[s].got
      BY <2>1, <2>2, <3>2 DEF StoredShown
    <3> QED BY <3>1, <3>2
  <2> QED BY <2>5, <2>6
<1> QED BY <1>2, <1>3, <1>4, <1>5, <1>6, <1>7, <1>8, <1>9, Effects DEF Quiet

-----------------------------------------------------------------------------
(* The button, and which page a text belongs to                            *)

LEMMA ButtonStep == Shape /\ ButtonGuards /\ [Next]_vars => ButtonGuards'
<1> SUFFICES ASSUME Shape, ButtonGuards, [Next]_vars,
                    NEW p \in Pages, p \notin entered'
             PROVE  /\ \A s \in Sends : send'[s].page = p => page'[p].disabled
                    /\ \A s, t \in Sends : send'[s].page = p /\ send'[t].page = p => s = t
  BY DEF ButtonGuards, SendsOf
<1>a. p # None /\ Idle.page = None
  BY ComposerAssumption DEF Idle
<1>b. p \notin entered =>
        /\ \A s \in Sends : send[s].page = p => page[p].disabled
        /\ \A s, t \in Sends : send[s].page = p /\ send[t].page = p => s = t
  BY DEF ButtonGuards, SendsOf
<1>1. ASSUME \A s \in Sends : send'[s].page = p => send[s].page = p, p \notin entered,
             \A s \in Sends : send'[s].page = p => (page'[p].disabled <=> page[p].disabled)
      PROVE  /\ \A s \in Sends : send'[s].page = p => page'[p].disabled
             /\ \A s, t \in Sends : send'[s].page = p /\ send'[t].page = p => s = t
  BY <1>1, <1>b
<1>2. CASE Quiet
  BY <1>1, <1>2 DEF Quiet, history
<1>3. ASSUME NEW q \in Pages, TypesIn(q)
      PROVE  /\ \A s \in Sends : send'[s].page = p => page'[p].disabled
             /\ \A s, t \in Sends : send'[s].page = p /\ send'[t].page = p => s = t
  <2>1. send' = send /\ entered' = entered /\ page'[p].disabled = page[p].disabled
    BY <1>3 DEF TypesIn
  <2> QED BY <1>1, <2>1
<1>4. ASSUME NEW q \in Pages, Unlocks(q)
      PROVE  /\ \A s \in Sends : send'[s].page = p => page'[p].disabled
             /\ \A s, t \in Sends : send'[s].page = p /\ send'[t].page = p => s = t
  <2>1. entered' = entered \union {q} /\ send' = send /\ \A r \in Pages \ {q} : page'[r] = page[r]
    BY <1>4 DEF Unlocks
  <2> QED BY <1>1, <2>1
<1>5. ASSUME NEW q \in Pages, Loads(q)
      PROVE  /\ \A s \in Sends : send'[s].page = p => page'[p].disabled
             /\ \A s, t \in Sends : send'[s].page = p /\ send'[t].page = p => s = t
  <2>1. /\ entered' = entered \ {q} /\ \A r \in Pages \ {q} : page'[r] = page[r]
        /\ Dropping(SendsOf(q)) /\ SendsOf(q) \in SUBSET Sends
    BY <1>5 DEF Loads, SendsOf
  <2>2. \A s \in Sends : send'[s].page = p => s \notin SendsOf(q) /\ send'[s] = send[s]
    BY <1>a, <2>1, Dropped
  <2>3. CASE p = q
    BY <2>2, <2>3 DEF SendsOf
  <2>4. CASE p # q
    BY <1>1, <2>1, <2>2, <2>4
  <2> QED BY <2>3, <2>4
<1>6. ASSUME NEW q \in Pages, NEW s \in Sends, Submits(q, s)
      PROVE  /\ \A t \in Sends : send'[t].page = p => page'[p].disabled
             /\ \A t, r \in Sends : send'[t].page = p /\ send'[r].page = p => t = r
  <2>1. /\ send'[s].page = q /\ \A t \in Sends \ {s} : send'[t] = send[t]
        /\ page'[q].disabled /\ \A r \in Pages \ {q} : page'[r] = page[r]
        /\ (entered' = entered /\ ~page[q].disabled) \/ entered' = entered \union {q}
    BY <1>6 DEF Submits
  <2>2. CASE p = q
    <3>1. p \notin entered /\ ~page[p].disabled
      BY <2>1, <2>2
    <3>2. \A t \in Sends : send[t].page # p
      BY <1>b, <3>1
    <3> QED BY <2>1, <2>2, <3>2
  <2>3. CASE p # q
    <3>1. p \notin entered
      BY <2>1
    <3> QED BY <1>1, <2>1, <2>3, <3>1
  <2> QED BY <2>2, <2>3
<1>7. ASSUME NEW s \in Sends, Looks(s)
      PROVE  /\ \A t \in Sends : send'[t].page = p => page'[p].disabled
             /\ \A t, r \in Sends : send'[t].page = p /\ send'[r].page = p => t = r
  <2>1. UNCHANGED <<page, entered>> /\ \A t \in Sends : send'[t].page = send[t].page
    BY <1>7 DEF Looks, history
  <2> QED BY <1>1, <2>1
<1>8. ASSUME NEW s \in Sends, Posts(s)
      PROVE  /\ \A t \in Sends : send'[t].page = p => page'[p].disabled
             /\ \A t, r \in Sends : send'[t].page = p /\ send'[r].page = p => t = r
  <2>1. UNCHANGED <<page, entered>> /\ \A t \in Sends \ {s} : send'[t] = send[t]
    BY <1>8 DEF Posts
  <2>2. send'[s].page = send[s].page
    BY <1>8, <1>a DEF Posts
  <2> QED BY <1>1, <2>1, <2>2
<1>9. ASSUME NEW s \in Sends, Ends(s) \/ Succeeds(s)
      PROVE  /\ \A t \in Sends : send'[t].page = p => page'[p].disabled
             /\ \A t, r \in Sends : send'[t].page = p /\ send'[r].page = p => t = r
  <2>1. \A t \in Sends : send'[t].page = p => t # s /\ send'[t] = send[t]
    <3>1. CASE Ends(s)
      <4>1. Dropping({s})
        BY <3>1 DEF Ends
      <4> QED BY <1>a, <4>1, Dropped
    <3>2. CASE Succeeds(s)
      BY <1>a, <3>2 DEF Succeeds
    <3> QED BY <1>9, <3>1, <3>2
  <2>2. entered' = entered
    BY <1>9 DEF Ends, Succeeds, history
  <2>3. CASE p = send[s].page
    BY <1>b, <2>1, <2>2, <2>3
  <2>4. CASE p # send[s].page
    <3>1. page'[p].disabled = page[p].disabled
      BY <1>9, <2>4 DEF Ends, Succeeds
    <3> QED BY <1>1, <2>1, <2>2, <3>1
  <2> QED BY <2>3, <2>4
<1> QED BY <1>2, <1>3, <1>4, <1>5, <1>6, <1>7, <1>8, <1>9, Effects

LEMMA OnePageStep == Shape /\ OnePage /\ [Next]_vars => OnePage'
<1> SUFFICES ASSUME Shape, OnePage, [Next]_vars PROVE OnePage'
  OBVIOUS
<1>a. \A p \in Pages : p # None
  BY ComposerAssumption
\* Fields are cleared or stay, sends end or stay.
<1>1. ASSUME \A p \in Pages : page'[p].box \in {0, page[p].box},
             \A s \in Sends : send'[s].page # None =>
               send'[s].page = send[s].page /\ send'[s].draft = send[s].draft
      PROVE  OnePage'
  <2> SUFFICES ASSUME NEW p \in Pages, page'[p].box # 0
               PROVE  /\ \A q \in Pages : page'[q].box = page'[p].box => q = p
                      /\ \A s \in Sends : send'[s].page # None /\ send'[s].draft = page'[p].box =>
                           send'[s].page = p
    BY DEF OnePage
  <2>1. page'[p].box = page[p].box /\ page[p].box # 0
    BY <1>1
  <2>2. \A q \in Pages : page'[q].box = page'[p].box => q = p
    BY <1>1, <2>1 DEF OnePage
  <2>3. \A s \in Sends : send'[s].page # None /\ send'[s].draft = page'[p].box => send'[s].page = p
    BY <1>1, <2>1 DEF OnePage
  <2> QED BY <2>2, <2>3
<1>2. CASE Quiet
  BY <1>1, <1>2 DEF Quiet
<1>3. ASSUME NEW p \in Pages, Loads(p) PROVE OnePage'
  <2>1. /\ page'[p].box = 0 /\ \A r \in Pages \ {p} : page'[r] = page[r]
        /\ Dropping(SendsOf(p)) /\ SendsOf(p) \in SUBSET Sends
    BY <1>3 DEF Loads, SendsOf
  <2>2. \A s \in Sends : send'[s].page # None => send'[s] = send[s]
    BY <2>1, Dropped
  <2> QED BY <1>1, <2>1, <2>2
<1>4. ASSUME NEW p \in Pages, TypesIn(p) PROVE OnePage'
  <2> DEFINE d == Cardinality(Typed) + 1
  <2>1. page'[p].box = d /\ send' = send /\ \A r \in Pages \ {p} : page'[r] = page[r]
    BY <1>4 DEF TypesIn
  <2>2. d \notin Typed /\ d # 0
    BY NextDraft DEF Shape
  <2> HIDE DEF d
  <2>3. \A s \in Sends : send[s].page # None => send[s].draft # d
    BY <2>2, Answered
  <2>4. \A r \in Pages : page[r].box # d
    BY <2>2, Types DEF Shape, PageType
  <2>5. ASSUME NEW q \in Pages, page'[q].box # 0
        PROVE  /\ \A r \in Pages : page'[r].box = page'[q].box => r = q
               /\ \A s \in Sends : send'[s].page # None /\ send'[s].draft = page'[q].box =>
                    send'[s].page = q
    <3>1. CASE q = p
      BY <2>1, <2>3, <2>4, <3>1
    <3>2. CASE q # p
      BY <2>1, <2>4, <2>5, <3>2 DEF OnePage
    <3> QED BY <3>1, <3>2
  <2> QED BY <2>5 DEF OnePage
<1>5. ASSUME NEW p \in Pages, Unlocks(p) PROVE OnePage'
  <2>1. send' = send /\ \A q \in Pages : page'[q].box = page[q].box
    BY <1>5 DEF Unlocks
  <2> QED BY <1>1, <2>1
<1>6. ASSUME NEW p \in Pages, NEW s \in Sends, Submits(p, s) PROVE OnePage'
  <2>1. /\ \A q \in Pages : page'[q].box = page[q].box
        /\ send'[s].page = p /\ send'[s].draft = page[p].box
        /\ \A t \in Sends \ {s} : send'[t] = send[t]
    BY <1>6 DEF Submits
  <2>2. ASSUME NEW q \in Pages, page[q].box # 0
        PROVE  \A t \in Sends : send'[t].page # None /\ send'[t].draft = page[q].box =>
                 send'[t].page = q
    <3> SUFFICES ASSUME NEW t \in Sends, send'[t].page # None, send'[t].draft = page[q].box
                 PROVE  send'[t].page = q
      OBVIOUS
    <3>1. CASE t = s
      BY <2>1, <2>2, <3>1 DEF OnePage
    <3>2. CASE t # s
      BY <2>1, <2>2, <3>2 DEF OnePage
    <3> QED BY <3>1, <3>2
  <2>3. \A q \in Pages : page[q].box # 0 => \A r \in Pages : page[r].box = page[q].box => r = q
    BY DEF OnePage
  <2> QED BY <2>1, <2>2, <2>3 DEF OnePage
<1>7. ASSUME NEW s \in Sends, Looks(s) PROVE OnePage'
  <2>1. page' = page /\ \A t \in Sends : send'[t].page = send[t].page /\ send'[t].draft = send[t].draft
    BY <1>7 DEF Looks
  <2> QED BY <1>1, <2>1
<1>8. ASSUME NEW s \in Sends, Posts(s) PROVE OnePage'
  <2>1. page' = page /\ \A t \in Sends \ {s} : send'[t] = send[t]
    BY <1>8 DEF Posts
  <2>2. send'[s].page # None => send'[s].page = send[s].page /\ send'[s].draft = send[s].draft
    BY <1>8 DEF Posts, Idle
  <2> QED BY <1>1, <2>1, <2>2
<1>9. ASSUME NEW s \in Sends, Ends(s) PROVE OnePage'
  <2>1. Dropping({s}) /\ \A q \in Pages : page'[q].box = page[q].box
    BY <1>9 DEF Ends
  <2>2. \A t \in Sends : send'[t].page # None => send'[t] = send[t]
    BY <2>1, Dropped
  <2> QED BY <1>1, <2>1, <2>2
<1>10. ASSUME NEW s \in Sends, Succeeds(s) PROVE OnePage'
  <2>1. /\ send'[s] = Idle /\ \A t \in Sends \ {s} : send'[t] = send[t]
        /\ page'[send[s].page].box = 0
        /\ \A p \in Pages : p # send[s].page => page'[p] = page[p]
    BY <1>10 DEF Succeeds
  <2>2. \A p \in Pages : page'[p].box \in {0, page[p].box}
    BY <2>1
  <2> QED BY <1>1, <2>1, <2>2 DEF Idle
<1> QED BY <1>2, <1>3, <1>4, <1>5, <1>6, <1>7, <1>8, <1>9, <1>10, Effects

LEMMA TypedAmidStep == Shape /\ TypedAmid /\ [Next]_vars => TypedAmid'
<1> SUFFICES ASSUME Shape, TypedAmid, [Next]_vars,
                    NEW p \in Pages, NEW s \in Sends, send'[s].page = p
             PROVE  page'[p].box \in {0, send'[s].draft} \/ page'[p].box \in amid'
  BY DEF TypedAmid, SendsOf
<1>a. p # None /\ Idle.page = None
  BY ComposerAssumption DEF Idle
<1>1. ASSUME page'[p].box \in {0, page[p].box}, amid \subseteq amid',
             send[s].page = p, send'[s].draft = send[s].draft
      PROVE  page'[p].box \in {0, send'[s].draft} \/ page'[p].box \in amid'
  <2>1. page[p].box \in {0, send[s].draft} \/ page[p].box \in amid
    BY <1>1 DEF TypedAmid, SendsOf
  <2> QED BY <1>1, <2>1
<1>2. CASE Quiet
  BY <1>1, <1>2 DEF Quiet, history
<1>3. ASSUME NEW q \in Pages, Loads(q)
      PROVE  page'[p].box \in {0, send'[s].draft} \/ page'[p].box \in amid'
  <2>1. /\ page'[q].box = 0 /\ \A r \in Pages \ {q} : page'[r] = page[r]
        /\ Dropping(SendsOf(q)) /\ SendsOf(q) \in SUBSET Sends
    BY <1>3 DEF Loads, SendsOf
  <2>2. send'[s] = send[s]
    BY <1>a, <2>1, Dropped
  <2>3. amid' = amid
    BY <1>3 DEF Loads
  <2> QED BY <1>1, <2>1, <2>2, <2>3
<1>4. ASSUME NEW q \in Pages, TypesIn(q)
      PROVE  page'[p].box \in {0, send'[s].draft} \/ page'[p].box \in amid'
  <2> DEFINE d == Cardinality(Typed) + 1
  <2>1. /\ page'[q].box = d /\ send' = send /\ \A r \in Pages \ {q} : page'[r] = page[r]
        /\ amid' = IF SendsOf(q) = {} THEN amid ELSE amid \union {d}
    BY <1>4 DEF TypesIn
  <2> HIDE DEF d
  <2>2. CASE p = q
    <3>1. s \in SendsOf(q)
      BY <2>1, <2>2 DEF SendsOf
    <3> QED BY <2>1, <2>2, <3>1
  <2>3. CASE p # q
    BY <1>1, <2>1, <2>3
  <2> QED BY <2>2, <2>3
<1>5. ASSUME NEW q \in Pages, Unlocks(q)
      PROVE  page'[p].box \in {0, send'[s].draft} \/ page'[p].box \in amid'
  <2>1. send' = send /\ page'[p].box = page[p].box /\ amid' = amid
    BY <1>5 DEF Unlocks
  <2> QED BY <1>1, <2>1
<1>6. ASSUME NEW q \in Pages, NEW t \in Sends, Submits(q, t)
      PROVE  page'[p].box \in {0, send'[s].draft} \/ page'[p].box \in amid'
  <2>1. /\ page'[p].box = page[p].box /\ amid' = amid
        /\ send'[t].page = q /\ send'[t].draft = page[q].box
        /\ \A r \in Sends \ {t} : send'[r] = send[r]
    BY <1>6 DEF Submits
  <2>2. CASE s = t
    BY <2>1, <2>2
  <2>3. CASE s # t
    BY <1>1, <2>1, <2>3
  <2> QED BY <2>2, <2>3
<1>7. ASSUME NEW t \in Sends, Looks(t)
      PROVE  page'[p].box \in {0, send'[s].draft} \/ page'[p].box \in amid'
  <2>1. page' = page /\ amid' = amid /\ send'[s].page = send[s].page /\ send'[s].draft = send[s].draft
    BY <1>7 DEF Looks, history
  <2> QED BY <1>1, <2>1
<1>8. ASSUME NEW t \in Sends, Posts(t)
      PROVE  page'[p].box \in {0, send'[s].draft} \/ page'[p].box \in amid'
  <2>1. page' = page /\ amid' = amid /\ \A r \in Sends \ {t} : send'[r] = send[r]
    BY <1>8 DEF Posts
  <2>2. s = t => send'[s].page = send[s].page /\ send'[s].draft = send[s].draft
    BY <1>8, <1>a DEF Posts
  <2> QED BY <1>1, <2>1, <2>2
<1>9. ASSUME NEW t \in Sends, Ends(t)
      PROVE  page'[p].box \in {0, send'[s].draft} \/ page'[p].box \in amid'
  <2>1. Dropping({t}) /\ page'[p].box = page[p].box /\ amid' = amid
    BY <1>9 DEF Ends
  <2>2. send'[s] = send[s]
    BY <1>a, <2>1, Dropped
  <2> QED BY <1>1, <2>1, <2>2
<1>10. ASSUME NEW t \in Sends, Succeeds(t)
      PROVE  page'[p].box \in {0, send'[s].draft} \/ page'[p].box \in amid'
  <2>1. /\ send'[t] = Idle /\ \A r \in Sends \ {t} : send'[r] = send[r]
        /\ page'[send[t].page].box = 0 /\ amid' = amid
        /\ p # send[t].page => page'[p] = page[p]
    BY <1>10 DEF Succeeds, history
  <2>2. send'[s] = send[s]
    BY <1>a, <2>1
  <2> QED BY <1>1, <2>1, <2>2
<1> QED BY <1>2, <1>3, <1>4, <1>5, <1>6, <1>7, <1>8, <1>9, <1>10, Effects

-----------------------------------------------------------------------------
(* How often a text is stored                                              *)

\* Nothing is submitted and nothing stored: sends end or stay, fields are
\* cleared or stay, and an answer that is lost is unheard.  The text of a
\* finished send is in no field any more.
LEMMA AccountedShrinks ==
  ASSUME Shape, Accounted, CopiesExplained,
         log' = log, doubled' = doubled, unheard \subseteq unheard',
         \A s \in Sends : send'[s].page # None =>
           /\ send[s].page # None
           /\ send'[s].draft = send[s].draft /\ send'[s].got = send[s].got,
         \A p \in Pages : page'[p].box \in {0, page[p].box},
         \A s \in Sends : send[s].got # 0 =>
           \/ send[s].got \in unheard'
           \/ send'[s].got = send[s].got
           \/ \A p \in Pages : page'[p].box # send[s].draft
  PROVE  Accounted' /\ CopiesExplained'
<1>1. OneSend'
  BY DEF Accounted, OneSend
<1>2. HeardBySend'
  BY DEF Accounted, HeardBySend, Heard
<1>3. HeardInField'
  <2> SUFFICES ASSUME NEW p \in Pages, page'[p].box # 0, page'[p].box \notin doubled,
                      NEW m \in log, m.draft = page'[p].box, m.id \notin unheard'
               PROVE  \E s \in Sends : send'[s].got = m.id
    BY DEF HeardInField, Heard
  <2>1. page'[p].box = page[p].box
    OBVIOUS
  <2>2. PICK s \in Sends : send[s].got = m.id
    BY <2>1 DEF Accounted, HeardInField, Heard
  <2>3. send[s].got # 0 /\ send[s].draft = m.draft
    BY <2>2, Answered
  <2> QED BY <2>2, <2>3
<1>4. CopiesExplained'
  BY DEF CopiesExplained
<1> QED BY <1>1, <1>2, <1>3, <1>4 DEF Accounted

\* A text gets a number that no stored text, send or field has.
LEMMA AccountedTypes ==
  ASSUME Shape, Accounted, CopiesExplained, NEW p \in Pages, TypesIn(p)
  PROVE  Accounted' /\ CopiesExplained'
<1> DEFINE d == Cardinality(Typed) + 1
<1>1. /\ UNCHANGED <<log, send, doubled, unheard>>
      /\ page'[p].box = d /\ \A q \in Pages \ {p} : page'[q] = page[q]
  BY DEF TypesIn, server
<1>2. d \notin Typed
  BY NextDraft DEF Shape
<1> HIDE DEF d
<1>3. \A m \in log : m.draft # d
  BY <1>2 DEF Shape, Counted
<1>4. OneSend' /\ HeardBySend' /\ CopiesExplained'
  BY <1>1 DEF Accounted, OneSend, HeardBySend, CopiesExplained, Heard
<1>5. HeardInField'
  <2> SUFFICES ASSUME NEW q \in Pages, page'[q].box # 0, page'[q].box \notin doubled,
                      NEW m \in log, m.draft = page'[q].box, m.id \notin unheard
               PROVE  \E s \in Sends : send[s].got = m.id
    BY <1>1 DEF HeardInField, Heard
  <2>1. q # p
    BY <1>1, <1>3
  <2> QED BY <1>1, <2>1 DEF Accounted, HeardInField, Heard
<1> QED BY <1>4, <1>5 DEF Accounted

\* Unless this is a submission during a send, the page has no send now: none of
\* the text, and none that waits to clear the field of it.
LEMMA AccountedSubmits ==
  ASSUME Shape, ButtonGuards, OnePage, Accounted, CopiesExplained,
         NEW p \in Pages, NEW s \in Sends, Submits(p, s)
  PROVE  Accounted' /\ CopiesExplained'
<1> DEFINE d == page[p].box
<1>1. /\ UNCHANGED <<log, unheard>>
      /\ send[s].pc = "idle" /\ d # 0
      /\ send'[s].page = p /\ send'[s].draft = d /\ send'[s].got = 0
      /\ \A t \in Sends \ {s} : send'[t] = send[t]
      /\ \A q \in Pages : page'[q].box = page[q].box
  BY DEF Submits, server
<1>2. doubled \subseteq doubled' /\ send[s].got = 0
  BY <1>1, Answered DEF Submits
<1>3. ASSUME NEW t \in Sends, send[t].page = p PROVE d \in doubled'
  <2>1. SendsOf(p) # {}
    BY <1>3 DEF SendsOf
  <2>2. CASE p \in entered'
    BY <2>1, <2>2 DEF Submits
  <2>3. CASE p \notin entered'
    <3>1. p \notin entered /\ ~page[p].disabled
      BY <2>3 DEF Submits
    <3> QED BY <2>1, <3>1 DEF ButtonGuards
  <2> QED BY <2>2, <2>3
<1>4. ASSUME NEW t \in Sends, send[t].page # None, send[t].draft = d PROVE d \in doubled'
  <2>1. send[t].page = p
    BY <1>1, <1>4 DEF OnePage
  <2> QED BY <1>3, <2>1
<1> HIDE DEF d
<1>5. OneSend'
  <2> SUFFICES ASSUME NEW t \in Sends, NEW r \in Sends,
                      send'[t].page # None, send'[r].page # None,
                      send'[t].draft = send'[r].draft, t # r
               PROVE  send'[t].draft \in doubled'
    BY DEF OneSend
  <2>1. CASE t = s
    BY <1>1, <1>4, <2>1
  <2>2. CASE r = s
    BY <1>1, <1>4, <2>2
  <2>3. CASE t # s /\ r # s
    BY <1>1, <1>2, <2>3 DEF Accounted, OneSend
  <2> QED BY <2>1, <2>2, <2>3
<1>6. HeardBySend'
  <2> SUFFICES ASSUME NEW t \in Sends, send'[t].page # None, send'[t].draft \notin doubled',
                      NEW m \in log, m.draft = send'[t].draft, m.id \notin unheard
               PROVE  m.id = send'[t].got
    BY <1>1 DEF HeardBySend, Heard
  <2>1. CASE t # s
    BY <1>1, <1>2, <2>1 DEF Accounted, HeardBySend, Heard
  <2>2. CASE t = s
    <3>1. d \notin doubled' /\ m.draft = d
      BY <1>1, <2>2
    <3>2. PICK r \in Sends : send[r].got = m.id
      BY <1>1, <1>2, <3>1 DEF Accounted, HeardInField, Heard, d
    <3>3. send[r].page # None /\ send[r].draft = d
      BY <3>1, <3>2, Answered
    <3> QED BY <1>4, <3>1, <3>3
  <2> QED BY <2>1, <2>2
<1>7. HeardInField'
  <2> SUFFICES ASSUME NEW q \in Pages, page[q].box # 0, page[q].box \notin doubled',
                      NEW m \in log, m.draft = page[q].box, m.id \notin unheard
               PROVE  \E t \in Sends : send'[t].got = m.id
    BY <1>1 DEF HeardInField, Heard
  <2>1. PICK t \in Sends : send[t].got = m.id
    BY <1>2 DEF Accounted, HeardInField, Heard
  <2>2. t # s
    BY <1>2, <2>1, Answered
  <2> QED BY <1>1, <2>1, <2>2
<1>8. CopiesExplained'
  BY <1>1, <1>2 DEF CopiesExplained
<1> QED BY <1>5, <1>6, <1>7, <1>8 DEF Accounted

\* The new message is the one its send is going to hear of, or unheard.  No
\* other message of the text has been heard, since the send had no answer yet.
LEMMA AccountedPosts ==
  ASSUME Shape, Accounted, CopiesExplained, NEW s \in Sends, Posts(s)
  PROVE  Accounted' /\ CopiesExplained'
<1> DEFINE m0 == [id |-> Cardinality(log) + 1, from |-> send[s].tok, pk |-> send[s].pair,
                  to |-> send[s].to, draft |-> send[s].draft]
<1>1. /\ log' = log \union {m0} /\ m0.draft = send[s].draft
      /\ UNCHANGED <<page, doubled>> /\ send[s].pc = "post" /\ send[s].got = 0
      /\ \A t \in Sends \ {s} : send'[t] = send[t]
  BY Answered DEF Posts
<1>2. unheard \subseteq unheard'
  BY DEF Posts
<1>3. \/ send'[s].page = None /\ m0.id \in unheard'
      \/ /\ send[s].page # None /\ send'[s].page = send[s].page
         /\ send'[s].draft = send[s].draft /\ send'[s].got = m0.id
  BY DEF Posts, Idle
<1> HIDE DEF m0
<1>4. ASSUME send[s].page # None, send[s].draft \notin doubled,
             NEW n \in log, n.draft = send[s].draft
      PROVE  n.id \in unheard
  <2>1. n.id # send[s].got
    BY <1>1, Answered
  <2> QED BY <1>4, <2>1 DEF Accounted, HeardBySend, Heard
<1>5. OneSend'
  <2>1. \A t \in Sends : send'[t].page # None =>
          send[t].page # None /\ send'[t].draft = send[t].draft
    BY <1>1, <1>3
  <2> QED BY <1>1, <2>1 DEF Accounted, OneSend
<1>6. HeardBySend'
  <2> SUFFICES ASSUME NEW t \in Sends, send'[t].page # None, send'[t].draft \notin doubled,
                      NEW m \in log', m.draft = send'[t].draft, m.id \notin unheard'
               PROVE  m.id = send'[t].got
    BY <1>1 DEF HeardBySend, Heard
  <2>1. CASE t # s /\ m \in log
    BY <1>1, <1>2, <2>1 DEF Accounted, HeardBySend, Heard
  <2>2. CASE t # s /\ m = m0
    <3>1. send[s].page # None /\ send[t].page # None /\ send[t].draft = send[s].draft
      BY <1>1, <1>3, <2>2
    <3> QED BY <1>1, <2>2, <3>1 DEF Accounted, OneSend
  <2>3. CASE t = s /\ m = m0
    BY <1>3, <2>3
  <2>4. CASE t = s /\ m \in log
    BY <1>1, <1>2, <1>3, <1>4, <2>4
  <2> QED BY <1>1, <2>1, <2>2, <2>3, <2>4
<1>7. HeardInField'
  <2> SUFFICES ASSUME NEW p \in Pages, page[p].box # 0, page[p].box \notin doubled,
                      NEW m \in log', m.draft = page[p].box, m.id \notin unheard'
               PROVE  \E t \in Sends : send'[t].got = m.id
    BY <1>1 DEF HeardInField, Heard
  <2>1. CASE m = m0
    BY <1>3, <2>1
  <2>2. CASE m \in log
    <3>1. PICK t \in Sends : send[t].got = m.id
      BY <1>2, <2>2 DEF Accounted, HeardInField, Heard
    <3>2. t # s
      BY <1>1, <2>2, <3>1, Answered
    <3> QED BY <1>1, <3>1, <3>2
  <2> QED BY <1>1, <2>1, <2>2
<1>8. CopiesExplained'
  <2> SUFFICES ASSUME NEW m \in log', NEW n \in log', m # n, m.draft = n.draft
               PROVE  m.draft \in doubled \/ m.id \in unheard' \/ n.id \in unheard'
    BY <1>1 DEF CopiesExplained
  <2>1. CASE m \in log /\ n \in log
    BY <1>2, <2>1 DEF CopiesExplained
  <2>2. CASE m = m0 /\ n \in log
    BY <1>1, <1>2, <1>3, <1>4, <2>2
  <2>3. CASE n = m0 /\ m \in log
    BY <1>1, <1>2, <1>3, <1>4, <2>3
  <2> QED BY <1>1, <2>1, <2>2, <2>3
<1> QED BY <1>5, <1>6, <1>7, <1>8 DEF Accounted

LEMMA AccountedStep ==
  Shape /\ ButtonGuards /\ OnePage /\ Accounted /\ CopiesExplained /\ [Next]_vars =>
    Accounted' /\ CopiesExplained'
<1> SUFFICES ASSUME Shape, ButtonGuards, OnePage, Accounted, CopiesExplained, [Next]_vars
             PROVE  Accounted' /\ CopiesExplained'
  OBVIOUS
<1>1. CASE Quiet \/ \E p \in Pages : Unlocks(p)
  <2>1. /\ UNCHANGED <<log, doubled, unheard, send>>
        /\ \A p \in Pages : page'[p].box = page[p].box
    BY <1>1 DEF Quiet, Unlocks, server, history
  <2> QED BY <2>1, AccountedShrinks
<1>2. ASSUME NEW p \in Pages, Loads(p) PROVE Accounted' /\ CopiesExplained'
  <2>1. /\ Dropping(SendsOf(p)) /\ SendsOf(p) \in SUBSET Sends
        /\ log' = log /\ doubled' = doubled
        /\ page'[p].box = 0 /\ \A q \in Pages \ {p} : page'[q] = page[q]
    BY <1>2 DEF Loads, SendsOf
  <2>2. \A q \in Pages : page'[q].box \in {0, page[q].box}
    BY <2>1
  <2>3. /\ unheard \subseteq unheard'
        /\ \A s \in Sends : send'[s].page # None => send'[s] = send[s]
        /\ \A s \in Sends : send[s].got # 0 => send[s].got \in unheard' \/ send'[s] = send[s]
    BY <2>1, Dropped
  <2>4. \A s \in Sends : send'[s].page # None =>
          /\ send[s].page # None
          /\ send'[s].draft = send[s].draft /\ send'[s].got = send[s].got
    BY <2>3
  <2>5. \A s \in Sends : send[s].got # 0 =>
          \/ send[s].got \in unheard'
          \/ send'[s].got = send[s].got
          \/ \A q \in Pages : page'[q].box # send[s].draft
    BY <2>3
  <2> QED BY <2>1, <2>2, <2>3, <2>4, <2>5, AccountedShrinks
<1>3. ASSUME NEW s \in Sends, Looks(s) PROVE Accounted' /\ CopiesExplained'
  <2>1. /\ UNCHANGED <<log, doubled, unheard, page>>
        /\ \A t \in Sends : /\ send'[t].page = send[t].page /\ send'[t].draft = send[t].draft
                            /\ send'[t].got = send[t].got
    BY <1>3 DEF Looks, server, history
  <2> QED BY <2>1, AccountedShrinks
<1>4. ASSUME NEW s \in Sends, Ends(s) PROVE Accounted' /\ CopiesExplained'
  <2>1. /\ Dropping({s}) /\ log' = log /\ doubled' = doubled
        /\ \A q \in Pages : page'[q].box \in {0, page[q].box}
    BY <1>4 DEF Ends, server
  <2>2. /\ unheard \subseteq unheard'
        /\ \A t \in Sends : send'[t].page # None => send'[t] = send[t]
        /\ \A t \in Sends : send[t].got # 0 => send[t].got \in unheard' \/ send'[t] = send[t]
    BY <2>1, Dropped
  <2>3. \A t \in Sends : send'[t].page # None =>
          /\ send[t].page # None
          /\ send'[t].draft = send[t].draft /\ send'[t].got = send[t].got
    BY <2>2
  <2>4. \A t \in Sends : send[t].got # 0 =>
          \/ send[t].got \in unheard'
          \/ send'[t].got = send[t].got
          \/ \A q \in Pages : page'[q].box # send[t].draft
    BY <2>2
  <2> QED BY <2>1, <2>2, <2>3, <2>4, AccountedShrinks
<1>5. ASSUME NEW s \in Sends, Succeeds(s) PROVE Accounted' /\ CopiesExplained'
  <2>1. /\ UNCHANGED <<log, doubled, unheard>>
        /\ send[s].pc = "answer" /\ send[s].page \in Pages
        /\ send'[s] = Idle /\ \A t \in Sends \ {s} : send'[t] = send[t]
        /\ page'[send[s].page].box = 0
        /\ \A p \in Pages : p # send[s].page => page'[p] = page[p]
    BY <1>5 DEF Succeeds, server, history
  <2>2. \A p \in Pages : page'[p].box \in {0, page[p].box}
    BY <2>1
  <2>3. send[s].draft # 0 /\ send[s].page # None
    BY <2>1, Answered, Types, ComposerAssumption DEF Shape
  <2>4. \A p \in Pages : page'[p].box # send[s].draft
    <3> SUFFICES ASSUME NEW p \in Pages, page'[p].box = send[s].draft PROVE FALSE
      OBVIOUS
    <3>1. page[p].box = send[s].draft /\ page[p].box # 0 /\ p # send[s].page
      BY <2>1, <2>2, <2>3
    <3> QED BY <2>3, <3>1 DEF OnePage
  <2>5. \A t \in Sends : send'[t].page # None => t # s
    BY <2>1 DEF Idle
  <2>6. \A t \in Sends : send[t].got # 0 =>
          \/ send[t].got \in unheard'
          \/ send'[t].got = send[t].got
          \/ \A p \in Pages : page'[p].box # send[t].draft
    BY <2>1, <2>4
  <2>7. \A t \in Sends : send'[t].page # None =>
          /\ send[t].page # None
          /\ send'[t].draft = send[t].draft /\ send'[t].got = send[t].got
    BY <2>1, <2>5
  <2> QED BY <2>1, <2>2, <2>6, <2>7, AccountedShrinks
<1> QED
  BY <1>1, <1>2, <1>3, <1>4, <1>5, AccountedTypes, AccountedSubmits, AccountedPosts, Effects

-----------------------------------------------------------------------------
(* Theorems                                                                *)

LEMMA InvInit == Init => ComposerInv
<1> SUFFICES ASSUME Init PROVE ComposerInv
  OBVIOUS
<1>0. /\ log = {} /\ sentMap = {} /\ token = 0 /\ key = 0
      /\ \A p \in Pages : page[p].session = "closed" /\ page[p].box = 0
      /\ \A s \in Sends : send[s].pc = "idle" /\ send[s].page = None
  BY DEF Init, Unloaded, Idle
<1>1. OneIdentity /\ IdentityHolds
  BY <1>0 DEF OneIdentity, IdentityHolds, ActiveIsRegistered
<1>2. Directed /\ SentWhereTyped /\ SentMatchesStore /\ CopiesExplained
  BY <1>0 DEF Directed, SentWhereTyped, SentMatchesStore, CopiesExplained
<1>3. \A p \in Pages : SendsOf(p) = {}
  BY <1>0, ComposerAssumption DEF SendsOf
<1>4. ButtonGuards /\ OnePage /\ TypedAmid
  BY <1>0, <1>3 DEF ButtonGuards, OnePage, TypedAmid
<1>5. Accounted
  BY <1>0 DEF Accounted, OneSend, HeardBySend, HeardInField
<1> QED BY <1>1, <1>2, <1>4, <1>5, ShapeInit DEF ComposerInv

THEOREM ComposerInvariant == Spec => []ComposerInv
<1>1. ComposerInv /\ [Next]_vars => ComposerInv'
  <2> SUFFICES ASSUME ComposerInv, [Next]_vars PROVE ComposerInv'
    OBVIOUS
  <2>1. /\ Shape /\ OneIdentity /\ IdentityHolds /\ Directed /\ SentWhereTyped /\ SentMatchesStore
        /\ ButtonGuards /\ OnePage /\ TypedAmid /\ Accounted /\ CopiesExplained
    BY DEF ComposerInv
  <2>2. Shape'
    BY <2>1, ShapeStep
  <2>3. OneIdentity' /\ IdentityHolds'
    <3>1. OwnKeys
      BY <2>1 DEF IdentityHolds, OwnKeys
    <3>2. OneIdentity' /\ OwnKeys'
      BY <2>1, <3>1, IdentityStep
    <3>3. Sessions'
      BY <3>2, SessionsHold, PTL
    <3> QED BY <3>2, <3>3 DEF IdentityHolds, OwnKeys, Sessions
  <2>4. Directed' /\ SentWhereTyped'
    BY <2>1, DirectedStep
  <2>5. SentMatchesStore'
    BY <2>1, StoreStep
  <2>6. ButtonGuards' /\ OnePage' /\ TypedAmid'
    BY <2>1, ButtonStep, OnePageStep, TypedAmidStep
  <2>7. Accounted' /\ CopiesExplained'
    BY <2>1, AccountedStep
  <2> QED BY <2>2, <2>3, <2>4, <2>5, <2>6, <2>7 DEF ComposerInv
<1> QED BY <1>1, InvInit, PTL DEF Spec

\* Every variable of the composer keeps its type.
THEOREM TypeCorrect == Spec => []TypeOK
<1>1. ComposerInv => TypeOK
  BY DEF ComposerInv, Shape
<1> QED BY <1>1, ComposerInvariant, PTL

\* However pages, answers and faults interleave: each line shown as sent stands
\* for a stored message, and each stored message of the present key pair is
\* shown, or its answer is under way or lost.
THEOREM LinesMatchStore == Spec => []SentMatchesStore
<1>1. ComposerInv => SentMatchesStore
  BY DEF ComposerInv
<1> QED BY <1>1, ComposerInvariant, PTL

\* A text is stored twice only after a lost answer or an Enter during a send.
THEOREM NoUnexplainedCopies == Spec => []CopiesExplained
<1>1. ComposerInv => CopiesExplained
  BY DEF ComposerInv
<1> QED BY <1>1, ComposerInvariant, PTL

\* No switch of threads redirects a message that is being sent.
THEOREM RightThread == Spec => []SentWhereTyped
<1>1. ComposerInv => SentWhereTyped
  BY DEF ComposerInv
<1> QED BY <1>1, ComposerInvariant, PTL

\* The server stores only what the owner of the key sends; and as long as no page
\* has begun a session, or stored its token, with another pair than the stored
\* one, an active session is that of a registered user.
THEOREM Identities == Spec => []IdentityHolds
<1>1. ComposerInv => IdentityHolds
  BY DEF ComposerInv
<1> QED BY <1>1, ComposerInvariant, PTL

\* Only an accepted send clears a field of a loaded page, and what it clears is
\* the text it stored or one typed since.
THEOREM TextKept == Spec => DraftKept
<1>1. ComposerInv /\ [Next]_vars =>
        [\A p \in Pages :
           (page[p].box # 0 /\ page'[p].box = 0 /\ loads' = loads) =>
             page[p].box \in amid \union {m.draft : m \in log}]_vars
  <2> SUFFICES ASSUME ComposerInv, [Next]_vars, NEW p \in Pages,
                      page[p].box # 0, page'[p].box = 0, loads' = loads
               PROVE  page[p].box \in amid \union {m.draft : m \in log}
    OBVIOUS
  <2>1. Shape /\ TypedAmid
    BY DEF ComposerInv
  <2>2. ~Quiet /\ \A q \in Pages : ~Unlocks(q)
    BY DEF Quiet, Unlocks
  <2>3. \A q \in Pages : ~Loads(q)
    BY <2>1, Types DEF Loads, Shape
  <2>4. ASSUME NEW q \in Pages, TypesIn(q) PROVE FALSE
    <3>1. page'[p] = page[p] \/ page'[p].box = Cardinality(Typed) + 1
      BY <2>4 DEF TypesIn
    <3>2. Cardinality(Typed) + 1 # 0
      BY <2>1, NextDraft DEF Shape
    <3> QED BY <3>1, <3>2
  <2>5. \A q \in Pages, s \in Sends : ~Submits(q, s)
    BY DEF Submits
  <2>6. \A s \in Sends : ~Looks(s) /\ ~Posts(s) /\ ~Ends(s)
    BY DEF Looks, Posts, Ends
  <2>7. PICK s \in Sends : Succeeds(s)
    BY <2>1, <2>2, <2>3, <2>4, <2>5, <2>6, Effects
  <2>8. send[s].page = p /\ send[s].pc = "answer"
    BY <2>7 DEF Succeeds
  <2>9. page[p].box = send[s].draft \/ page[p].box \in amid
    BY <2>1, <2>8 DEF TypedAmid, SendsOf
  <2>10. \E m \in log : m.draft = send[s].draft
    BY <2>1, <2>8 DEF Shape, Sending
  <2> QED BY <2>9, <2>10
<1> QED BY <1>1, ComposerInvariant, PTL DEF Spec, DraftKept
=============================================================================
