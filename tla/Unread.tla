------------------------------- MODULE Unread -------------------------------
(***************************************************************************)
(* Chat threads and their unread dots (client/src/main.ts: openChatIds,    *)
(* activeChatFp, lastReadByFp and what renders them).  Every open page     *)
(* keeps the threads, the active one and a read cursor per sender in       *)
(* memory; threads and cursors are saved whole to the localStorage that    *)
(* all pages share, and read from it when a page loads.                    *)
(*                                                                         *)
(* How mail is fetched is module InboxSync: here a page has loaded the     *)
(* messages 1..lib of one server, which do not expire.  Every message has  *)
(* a sender.                                                               *)
(***************************************************************************)
EXTENDS Picks, SequencesExt, FiniteSetsExt

CONSTANTS
  Tabs,      \* browser tabs
  Peers,     \* senders, by fingerprint
  Batch,     \* FETCH_BATCH
  MaxId,     \* bound: messages
  MaxActs,   \* bound: page loads, clicks and navigations, and faults of the network
  None

ASSUME UnreadAssumption ==
  /\ Batch \in Nat \ {0}
  /\ MaxId \in Nat /\ MaxActs \in Nat
  /\ None \notin Peers /\ None \notin Nat

VARIABLES
  mail,    \* the server's messages: mail[id] is the sender
  stored,  \* localStorage: [chats, read] (LS_OPEN_CHATS, LS_LAST_READ)
  tab,     \* per tab: None, or what its page has in memory and on screen
  acts,    \* how much of MaxActs is used up
  \* history
  rendered, \* ids a page, visible or not, has rendered in their thread on its Chats view
  settled   \* ids that were taken as read when their sender got a baseline

vars == <<mail, stored, tab, acts, rendered, settled>>

Ids == 1..MaxId
Cursors == [Peers -> 0..MaxId \union {None}]
ChatLists == {chats \in Seq(Peers) : IsInjective(chats)}

\* lib: greatest message loaded; full: didFullBackfill; fills: the cursors at
\* which calls of backfillLibrary, one or more at each, wait for an answer;
\* onChats: the panel "view-chats" is not hidden; dots: the threads painted with
\* an unread dot; due: a timeout that paints after the URL changed to /chats;
\* late (history): a page was merged after didFullBackfill and is not painted.
Page == [lib : 0..MaxId, full : BOOLEAN, fills : SUBSET Nat, chats : ChatLists,
         active : Peers \union {None}, onChats : BOOLEAN, read : Cursors,
         dots : SUBSET Peers, due : BOOLEAN, late : BOOLEAN]

TypeOK ==
  /\ mail \in Seq(Peers) /\ Len(mail) <= MaxId
  /\ stored \in [chats : ChatLists, read : Cursors]
  /\ tab \in [Tabs -> Page \union {None}]
  /\ \A t \in Tabs :
       tab[t] # None => tab[t].active \in ToSet(tab[t].chats) \union {None}
  /\ acts \in 0..MaxActs
  /\ rendered \subseteq Ids /\ settled \subseteq Ids

Init ==
  /\ mail = <<>>
  /\ stored = [chats |-> <<>>, read |-> [p \in Peers |-> None]]
  /\ tab = [t \in Tabs |-> None]
  /\ acts = 0
  /\ rendered = {} /\ settled = {}

-----------------------------------------------------------------------------
(* Cursors and rendering, on the memory v of one page                      *)

\* What page v has loaded from p, and the greatest id of it.
From(v, p) == {i \in 1..v.lib : mail[i] = p}

Newest(v, p) == Max(From(v, p) \union {0})

\* threadHasUnread
HasUnread(v, p) ==
  LET lr == IF v.read[p] = None THEN 0 ELSE v.read[p] IN \E i \in From(v, p) : i > lr

\* Mutant: the saved cursors are loaded again, like the sent lines are.
BaselinesReloaded(v) ==
  [p \in Peers |-> IF stored.read[p] = None /\ From(v, p) # {} THEN Newest(v, p)
                   ELSE stored.read[p]]

\* ensureLastReadBaselines: a sender without a cursor starts as read.
Baselines(v) ==
  [p \in Peers |-> IF v.read[p] = None /\ From(v, p) # {} THEN Newest(v, p) ELSE v.read[p]]

\* renderChatTabs
PaintTabs(v) ==
  LET w == [v EXCEPT !.read = Baselines(v)]
  IN [w EXCEPT !.dots = {p \in ToSet(w.chats) : HasUnread(w, p)}, !.late = FALSE]

\* Mutant: the thread is marked whatever view is open.
ShowThreadAnywhere(v) ==
  IF v.active = None THEN v ELSE [v EXCEPT !.read[v.active] = Newest(v, v.active)]

\* renderActiveThread: markThreadRead, if the Chats view is open.
ShowThread(v) ==
  IF v.active = None \/ ~v.onChats THEN v
  ELSE [v EXCEPT !.read[v.active] = Newest(v, v.active)]

Render(v) == ShowThread(PaintTabs(v))

\* navigateToView("chats")
GoToChats(v) == Render([v EXCEPT !.onChats = TRUE])

\* Mutant: the threads are pushed without a look at what is open.
WithChatsAgain(chats, senders) == chats \o senders

\* openChatIds with the senders that are not in it yet, in the order met.
WithChats(chats, senders) ==
  LET new == {i \in DOMAIN senders : /\ senders[i] \notin ToSet(chats)
                                    /\ \A j \in 1..(i - 1) : senders[j] # senders[i]}
  IN chats \o Keep(senders, new)

FirstChat(chats) == IF chats = <<>> THEN None ELSE chats[1]

\* The memory of page t is now w; what changed of its threads and cursors is
\* saved, which overwrites what other pages saved.
Become(t, w) ==
  /\ tab' = [tab EXCEPT ![t] = w]
  /\ stored' = [chats |-> IF w.chats # tab[t].chats THEN w.chats ELSE stored.chats,
                read |-> IF w.read # tab[t].read THEN w.read ELSE stored.read]
  /\ settled' = settled \union
       UNION {{i \in From(w, p) : i <= w.read[p]} :
                p \in {q \in Peers : tab[t].read[q] = None /\ w.read[q] # None}}

\* The same, by a handler that ended by rendering the active thread.
BecomeShown(t, w) ==
  /\ Become(t, w)
  /\ rendered' = rendered \union
       IF w.onChats /\ w.active # None THEN From(w, w.active) ELSE {}
  /\ UNCHANGED mail

-----------------------------------------------------------------------------
(* Mail                                                                    *)

Arrive(p) ==
  /\ Len(mail) < MaxId
  /\ mail' = Append(mail, p)
  /\ UNCHANGED <<stored, tab, acts, rendered, settled>>

\* A refresh of a page without its history starts a backfill, though others may
\* be under way: refreshLibrary has no guard against itself.
StartFill(t) ==
  /\ tab[t] # None /\ ~tab[t].full
  /\ tab' = [tab EXCEPT ![t].fills = @ \union {0}]
  /\ UNCHANGED <<mail, stored, acts, rendered, settled>>

\* What still waits once a call has its answer at cursor c: more calls may be there.
Waiting(v, c) == {v.fills, v.fills \ {c}}

\* A full page is merged, painted by nobody, and the next one is fetched.
BackfillPage(t) ==
  /\ tab[t] # None
  /\ \E c \in tab[t].fills :
       /\ c + Batch <= Len(mail)
       /\ \E fills \in Waiting(tab[t], c) :
            Become(t, [tab[t] EXCEPT
              !.lib = Max({@, c + Batch}), !.fills = fills \union {c + Batch},
              !.late = @ \/ (tab[t].full /\ c + Batch > tab[t].lib)])
  /\ UNCHANGED <<mail, acts, rendered>>

\* The last page, or a failed one (nothing is merged): syncTabsAfterBackfill
\* opens a thread for every sender, in the order of the library, newest first.
BackfillEnd(t) ==
  /\ tab[t] # None
  /\ UNCHANGED acts
  /\ \E c \in tab[t].fills : \E n \in c..Len(mail), fills \in Waiting(tab[t], c) :
       /\ n - c < Batch
       /\ LET lib == Max({tab[t].lib, n})
              chats == WithChats(tab[t].chats, Reverse(SubSeq(mail, 1, lib)))
              v == [tab[t] EXCEPT !.lib = lib, !.full = TRUE, !.fills = fills, !.chats = chats]
          IN BecomeShown(t, Render(
               IF v.active = None THEN [v EXCEPT !.active = FirstChat(chats)] ELSE v))

\* Mutant: the tabs are not painted when the newest sender is active already.
PolledUnpainted(v, fresh) ==
  LET w == [v EXCEPT !.chats = WithChats(@, fresh)]
  IN IF Last(fresh) = v.active THEN ShowThread(w)
     ELSE Render(GoToChats([w EXCEPT !.active = Last(fresh)]))

\* onNewPolledEntries: the newest sender's thread is activated, and the Chats
\* view opened, unless it is active already.
Polled(v, fresh) ==
  LET w == [v EXCEPT !.chats = WithChats(@, fresh)]
  IN IF Last(fresh) = v.active THEN Render(w)
     ELSE Render(GoToChats([w EXCEPT !.active = Last(fresh)]))

\* pullNewMessages, and renderLibrary after it.
Pull(t) ==
  /\ tab[t] # None /\ tab[t].full
  /\ UNCHANGED acts
  /\ \E n \in tab[t].lib..Len(mail) :
       /\ n - tab[t].lib <= Batch
       /\ LET v == [tab[t] EXCEPT !.lib = n]
          IN BecomeShown(t, ShowThread(
               IF n = tab[t].lib THEN v ELSE Polled(v, SubSeq(mail, tab[t].lib + 1, n))))

\* renderLibrary (a search, the pager, a setup that failed) and doSendMessage
\* render the active thread, and not the tabs.
Redraw(t) ==
  /\ tab[t] # None
  /\ UNCHANGED acts
  /\ BecomeShown(t, ShowThread(tab[t]))

-----------------------------------------------------------------------------
(* Pages, the network and the user                                         *)

Act == acts < MaxActs /\ acts' = acts + 1

\* A backfill ends in an exception, at the network: nothing is set or painted.
FillThrows(t) ==
  /\ Act /\ tab[t] # None
  /\ \E c \in tab[t].fills : tab' = [tab EXCEPT ![t].fills = @ \ {c}]
  /\ UNCHANGED <<mail, stored, rendered, settled>>

\* main(): a page loads at some URL, renders what it has, and starts to fetch.
Load(t) ==
  /\ Act
  /\ \E chats \in BOOLEAN :
       LET v == [lib |-> 0, full |-> FALSE, fills |-> {}, chats |-> stored.chats,
                 active |-> FirstChat(stored.chats), onChats |-> chats,
                 read |-> stored.read, dots |-> {}, due |-> chats, late |-> FALSE]
           w == Render(v)
       IN /\ tab' = [tab EXCEPT ![t] = w]
          /\ stored' = [stored EXCEPT !.read = w.read]
  /\ UNCHANGED <<mail, rendered, settled>>

\* A click on a thread's label.
PickChat(t, p) ==
  /\ Act /\ tab[t] # None /\ p \in ToSet(tab[t].chats)
  /\ BecomeShown(t, GoToChats(Render([tab[t] EXCEPT !.active = p])))

CloseChat(t, p) ==
  /\ Act /\ tab[t] # None /\ p \in ToSet(tab[t].chats)
  /\ LET chats == Keep(tab[t].chats, {i \in DOMAIN tab[t].chats : tab[t].chats[i] # p})
     IN BecomeShown(t, Render(
          [tab[t] EXCEPT !.chats = chats,
                         !.active = IF @ = p THEN FirstChat(chats) ELSE @]))

\* openChatWithFingerprint: from the form, an invite or a notification.
OpenChat(t, p) ==
  /\ Act /\ tab[t] # None
  /\ BecomeShown(t, GoToChats(Render(
       [tab[t] EXCEPT !.chats = WithChats(@, <<p>>), !.active = p])))

\* The view buttons.
OpenChatsView(t) ==
  /\ Act /\ tab[t] # None
  /\ BecomeShown(t, GoToChats(tab[t]))

OpenOtherView(t) ==
  /\ Act /\ tab[t] # None /\ tab[t].onChats
  /\ tab' = [tab EXCEPT ![t].onChats = FALSE]
  /\ UNCHANGED <<mail, stored, rendered, settled>>

\* Back and forward: syncViewFromUrl paints in a timeout of its own.
PopState(t) ==
  /\ Act /\ tab[t] # None
  /\ \E chats \in BOOLEAN :
       tab' = [tab EXCEPT ![t].onChats = chats, ![t].due = @ \/ chats]
  /\ UNCHANGED <<mail, stored, rendered, settled>>

PopStatePaints(t) ==
  /\ tab[t] # None /\ tab[t].due
  /\ UNCHANGED acts
  /\ BecomeShown(t, Render([tab[t] EXCEPT !.due = FALSE]))

\* resetLibraryState in runSessionSetup, the server being the same.  That it does
\* not meet a backfill is the claim of rest of module InboxSync.
Reset(t) ==
  /\ tab[t] # None /\ tab[t].full /\ tab[t].fills = {}
  /\ Act
  /\ LET none == [p \in Peers |-> None]
     IN /\ tab' = [tab EXCEPT ![t].lib = 0, ![t].full = FALSE, ![t].read = none,
                               ![t].late = FALSE]
        /\ stored' = [stored EXCEPT !.read = none]
  /\ UNCHANGED <<mail, rendered, settled>>

Next ==
  \/ \E p \in Peers : Arrive(p)
  \/ \E t \in Tabs : StartFill(t)
  \/ \E t \in Tabs : BackfillPage(t)
  \/ \E t \in Tabs : BackfillEnd(t)
  \/ \E t \in Tabs : FillThrows(t)
  \/ \E t \in Tabs : Pull(t)
  \/ \E t \in Tabs : Redraw(t)
  \/ \E t \in Tabs : Load(t)
  \/ \E t \in Tabs : \E p \in Peers : PickChat(t, p)
  \/ \E t \in Tabs : \E p \in Peers : CloseChat(t, p)
  \/ \E t \in Tabs : \E p \in Peers : OpenChat(t, p)
  \/ \E t \in Tabs : OpenChatsView(t)
  \/ \E t \in Tabs : OpenOtherView(t)
  \/ \E t \in Tabs : PopState(t)
  \/ \E t \in Tabs : PopStatePaints(t)
  \/ \E t \in Tabs : Reset(t)

Spec == Init /\ [][Next]_vars

-----------------------------------------------------------------------------
(* Properties                                                              *)

\* Mail counts as read, in a page or in the localStorage, only if some page has
\* rendered it in its thread on the Chats view, be the tab visible or not, or if
\* it was there when its sender got a first cursor (renderActiveThread,
\* ensureLastReadBaselines).  Both are less than that it was opened, see
\* OnePromiseKept.  Tabs that overwrite each other's cursors can make mail unread
\* again, never read.
ReadOnlyIfRendered ==
  LET Backed(read) ==
        \A i \in 1..Len(mail) :
          read[mail[i]] # None /\ i <= read[mail[i]] => i \in rendered \union settled
  IN Backed(stored.read) /\ \A t \in Tabs : tab[t] # None => Backed(tab[t].read)

\* Once the history is loaded, and unless a second backfill has merged a page
\* that nothing painted yet, the painted dots are those of the threads with
\* unread mail for every thread but the active one.  That one may keep the dot
\* of mail that is read: OnePromiseKept.
DotsFollow ==
  \A t \in Tabs : tab[t] # None /\ tab[t].full /\ ~tab[t].late =>
    LET v == tab[t]
        unread == {p \in ToSet(v.chats) : HasUnread(v, p)}
    IN unread \subseteq v.dots /\ v.dots \subseteq unread \union {v.active}

\* "Unread dots: Cleared when you view that thread on the Chats tab"
\* (README.md): the active thread of an open Chats view has no dot.
ViewedHasNoDot(v) == v.onChats /\ v.active # None => v.active \notin v.dots

\* "Red indicator on sidebar threads when there is new incoming mail you have not
\* opened on the Chats screen" (README.md): mail that a poll brings is rendered
\* in its thread at once, or its thread is painted with a dot.
NewMailHasDot(t) ==
  \A i \in (tab[t].lib + 1)..tab'[t].lib : i \in rendered' \/ mail[i] \in tab'[t].dots

\* Of these two promises every poll of a page at rest keeps at least one: it does
\* not light a dot that should be out while it leaves out one that should be lit.
\* Each promise implies this, so a poll that breaks it breaks both at once.
OnePromiseKept ==
  [][\A t \in Tabs : tab[t] # None /\ ~tab[t].due /\ Pull(t) =>
       NewMailHasDot(t) \/ ViewedHasNoDot(tab'[t])]_vars

\* In a page, the cursor of a thread that is loaded up to its cursor never goes
\* back, whatever other pages save: mail that was read does not light up again.
\* (Before the thread is loaded it may: markThreadRead takes what is there; and a
\* page that loads, or resets its session, starts anew.)
CursorsAdvance ==
  [][\A t \in Tabs : tab[t] # None =>
       \/ \A p \in Peers :
            LET old == tab[t].read[p]
                new == tab'[t].read[p]
            IN old # None /\ (new = None \/ new < old) => old > Newest(tab[t], p)
       \/ Load(t) \/ Reset(t)]_vars
=============================================================================
