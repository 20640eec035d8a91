------------------------------- MODULE WsLink -------------------------------
(***************************************************************************)
(* The client's WebSocket link (client/src/main.ts, connectWs and its      *)
(* neighbours): sockets whose close events arrive long after close() was   *)
(* called, the reconnect timer with its exponential delay, the generation  *)
(* counter that is to silence what belongs to an earlier session, and the  *)
(* session setups that disconnect, await their requests, and connect.      *)
(***************************************************************************)
EXTENDS Naturals, FiniteSets

CONSTANTS
  Sockets,     \* WebSocket objects that may exist at the same time
  Setups,      \* runSessionSetup calls that may be in progress together
  MaxSetups,   \* bound: session setups started over the run
  MaxFlaps,    \* bound: times the network goes down
  MaxAttempt,  \* attempts after which the delay no longer grows (5 in the code)
  None

ASSUME WsLinkAssumption ==
  /\ None \notin Sockets
  /\ MaxSetups \in Nat /\ MaxFlaps \in Nat /\ MaxAttempt \in Nat

VARIABLES
  sock,     \* Sockets -> [st, gen]; gen is the `g` its handlers captured
  ws,       \* the current socket, or None
  wsGen,
  timer,    \* the generation captured by the pending reconnect timer, or None
  wsReconnectAttempt,
  ui,       \* setLiveUi: "connecting", "live" or "offline"
  setup,    \* Setups -> "idle" or "awaiting" (between disconnectWs and connectWs)
  wanted,   \* history: the latest setup to end got as far as connectWs
  up,       \* is the server reachable?
  flaps

env == <<up, flaps>>
link == <<sock, ws, wsGen, timer, wsReconnectAttempt, ui>>
vars == <<link, setup, wanted, env>>

NoSocket == [st |-> "free", gen |-> 0]
States == {"free", "connecting", "open", "closing"}

TypeOK ==
  /\ sock \in [Sockets -> [st : States, gen : 0..MaxSetups]]
  /\ ws \in Sockets \union {None}
  /\ wsGen \in 0..MaxSetups
  /\ timer \in (0..MaxSetups) \union {None}
  /\ wsReconnectAttempt \in 0..MaxAttempt
  /\ ui \in {"connecting", "live", "offline"}
  /\ setup \in [Setups -> {"idle", "awaiting"}]
  /\ wanted \in BOOLEAN
  /\ up \in BOOLEAN
  /\ flaps \in 0..MaxFlaps

Init ==
  /\ sock = [s \in Sockets |-> NoSocket]
  /\ ws = None
  /\ wsGen = 0
  /\ timer = None
  /\ wsReconnectAttempt = 0
  /\ ui = "offline"
  /\ setup = [p \in Setups |-> "idle"]
  /\ wanted = FALSE
  /\ up = TRUE
  /\ flaps = 0

-----------------------------------------------------------------------------
(* Helpers                                                                 *)

\* ws?.close(): the close event follows in a task of its own.
Closed(socks) ==
  IF ws = None \/ socks[ws].st \notin {"connecting", "open"} THEN socks
  ELSE [socks EXCEPT ![ws].st = "closing"]

\* wsReconnectAttempt += 1; only min(30 s, 1 s * 2^attempt) depends on it, so
\* it saturates here where the delay does.
NextAttempt == IF wsReconnectAttempt < MaxAttempt THEN wsReconnectAttempt + 1 ELSE MaxAttempt

\* Mutant: the attempt counter is not limited.
ScheduleUnlimited(generation) ==
  /\ timer' = generation
  /\ wsReconnectAttempt' = wsReconnectAttempt + 1

\* scheduleWsReconnect(generation): one timer, the old one cleared.
Schedule(generation) ==
  /\ timer' = generation
  /\ wsReconnectAttempt' = NextAttempt

\* connectWs with a token: clear the timer, close the current socket, open a
\* new one whose handlers capture the current generation.
ConnectWs ==
  \E s \in Sockets :
    /\ sock[s].st = "free"
    /\ timer' = None
    /\ sock' = [Closed(sock) EXCEPT ![s] = [st |-> "connecting", gen |-> wsGen]]
    /\ ws' = s
    /\ ui' = "connecting"
    /\ UNCHANGED <<wsGen, wsReconnectAttempt>>

\* connectWs where `new WebSocket` throws (a ws: URL on an https: page).
ConnectThrows ==
  /\ sock' = Closed(sock)
  /\ ws' = None
  /\ ui' = "offline"
  /\ Schedule(wsGen)
  /\ UNCHANGED wsGen

\* Mutant: the generation is not bumped.
DisconnectWsSameGen ==
  /\ timer' = None
  /\ wsReconnectAttempt' = 0
  /\ sock' = Closed(sock)
  /\ ws' = None
  /\ UNCHANGED wsGen

\* Mutant: the current socket is forgotten without being closed.
DisconnectWsNoClose ==
  /\ timer' = None
  /\ wsReconnectAttempt' = 0
  /\ wsGen' = wsGen + 1
  /\ ws' = None
  /\ UNCHANGED sock

DisconnectWs ==
  /\ timer' = None
  /\ wsReconnectAttempt' = 0
  /\ wsGen' = wsGen + 1
  /\ sock' = Closed(sock)
  /\ ws' = None

-----------------------------------------------------------------------------
(* Session setups                                                          *)

\* runSessionSetup up to its first await.
SetupStart(p) ==
  /\ setup[p] = "idle"
  /\ wsGen < MaxSetups
  /\ DisconnectWs
  /\ ui' = "connecting"
  /\ setup' = [setup EXCEPT ![p] = "awaiting"]
  /\ wanted' = FALSE
  /\ UNCHANGED env

\* Registration and statistics are in: connectWs.
SetupConnects(p) ==
  /\ setup[p] = "awaiting"
  /\ ConnectWs \/ ConnectThrows
  /\ setup' = [setup EXCEPT ![p] = "idle"]
  /\ wanted' = TRUE
  /\ UNCHANGED env

\* The registration failed (or connectWs finds no token): no link.
SetupFails(p) ==
  /\ setup[p] = "awaiting"
  /\ ui' = "offline"
  /\ setup' = [setup EXCEPT ![p] = "idle"]
  /\ wanted' = FALSE
  /\ UNCHANGED <<sock, ws, wsGen, timer, wsReconnectAttempt, env>>

-----------------------------------------------------------------------------
(* Socket handlers and the timer                                           *)

\* The browser frees the socket and its event runs.
Freed(s) == [sock EXCEPT ![s] = NoSocket]

OnOpen(s) ==
  /\ sock[s].st = "connecting" /\ up
  /\ sock' = [sock EXCEPT ![s].st = "open"]
  /\ IF sock[s].gen = wsGen
     THEN wsReconnectAttempt' = 0 /\ ui' = "live"
     ELSE UNCHANGED <<wsReconnectAttempt, ui>>
  /\ UNCHANGED <<ws, wsGen, timer, setup, wanted, env>>

\* Mutant: the handler shows "offline" before it looks at the generation.
OnCloseUiFirst(s) ==
  /\ sock[s].st = "closing"
  /\ sock' = Freed(s)
  /\ ui' = "offline"
  /\ IF sock[s].gen = wsGen
     THEN /\ ws' = IF ws = s THEN None ELSE ws
          /\ Schedule(wsGen)
     ELSE UNCHANGED <<ws, timer, wsReconnectAttempt>>
  /\ UNCHANGED <<wsGen, setup, wanted, env>>

\* Mutant: the handler keeps `ws` pointing at the dead socket.
OnCloseKeepsWs(s) ==
  /\ sock[s].st = "closing"
  /\ sock' = Freed(s)
  /\ IF sock[s].gen = wsGen
     THEN Schedule(wsGen) /\ ui' = "offline"
     ELSE UNCHANGED <<timer, wsReconnectAttempt, ui>>
  /\ UNCHANGED <<ws, wsGen, setup, wanted, env>>

\* Mutant: the first failure is retried, the second is not.
OnCloseGivesUp(s) ==
  /\ sock[s].st = "closing"
  /\ sock' = Freed(s)
  /\ IF sock[s].gen = wsGen
     THEN /\ ws' = IF ws = s THEN None ELSE ws
          /\ ui' = "offline"
          /\ IF wsReconnectAttempt = 0 THEN Schedule(wsGen)
             ELSE UNCHANGED <<timer, wsReconnectAttempt>>
     ELSE UNCHANGED <<ws, timer, wsReconnectAttempt, ui>>
  /\ UNCHANGED <<wsGen, setup, wanted, env>>

\* The close event: a handler of an earlier generation returns at once.
OnClose(s) ==
  /\ sock[s].st = "closing"
  /\ sock' = Freed(s)
  /\ IF sock[s].gen = wsGen
     THEN /\ ws' = IF ws = s THEN None ELSE ws
          /\ ui' = "offline"
          /\ Schedule(wsGen)
     ELSE UNCHANGED <<ws, timer, wsReconnectAttempt, ui>>
  /\ UNCHANGED <<wsGen, setup, wanted, env>>

\* The reconnect timer: connectWs unless the generation has changed.
TimerFires ==
  /\ timer # None
  /\ IF timer = wsGen THEN ConnectWs \/ ConnectThrows
     ELSE timer' = None /\ UNCHANGED <<sock, ws, wsGen, wsReconnectAttempt, ui>>
  /\ UNCHANGED <<setup, wanted, env>>

-----------------------------------------------------------------------------
(* The network                                                             *)

NetworkDown ==
  /\ up /\ flaps < MaxFlaps
  /\ up' = FALSE /\ flaps' = flaps + 1
  /\ UNCHANGED <<link, setup, wanted>>

NetworkUp ==
  /\ ~up
  /\ up' = TRUE
  /\ UNCHANGED <<link, setup, wanted, flaps>>

\* A connection fails or breaks while the server cannot be reached.
Drop(s) ==
  /\ ~up
  /\ sock[s].st \in {"connecting", "open"}
  /\ sock' = [sock EXCEPT ![s].st = "closing"]
  /\ UNCHANGED <<ws, wsGen, timer, wsReconnectAttempt, ui, setup, wanted, env>>

Next ==
  \/ \E p \in Setups : SetupStart(p)
  \/ \E p \in Setups : SetupConnects(p)
  \/ \E p \in Setups : SetupFails(p)
  \/ \E s \in Sockets : OnOpen(s)
  \/ \E s \in Sockets : OnClose(s)
  \/ TimerFires
  \/ NetworkDown
  \/ NetworkUp
  \/ \E s \in Sockets : Drop(s)

\* The browser delivers open and close events and fires timers; `new
\* WebSocket` that is possible again and again succeeds in the end.
Fairness ==
  /\ \A s \in Sockets : WF_vars(OnOpen(s)) /\ WF_vars(OnClose(s))
  /\ WF_vars(TimerFires)
  /\ SF_vars(TimerFires /\ ConnectWs)

Spec == Init /\ [][Next]_vars /\ Fairness

-----------------------------------------------------------------------------
(* Properties                                                              *)

\* One live socket at most, and it is the current one: nothing else can
\* deliver hints or keep a connection to an earlier server.
OneLiveSocket ==
  \A s \in Sockets : sock[s].st \in {"connecting", "open"} => s = ws

\* A reconnect is pending only while there is no socket to lose by it.
TimerOnlyWhenDown == timer # None => ws = None

\* The indicator agrees with the socket: an open current socket shows as live,
\* and "live" is never shown without one (it may just be closing).
UiTruthful ==
  /\ (ws # None /\ sock[ws].st = "open") => ui = "live"
  /\ ui = "live" => (ws # None /\ sock[ws].st \in {"open", "closing"})

\* "Bumped only in disconnectWs so stale socket handlers and timers exit": the
\* close event of a socket that is no longer the current one changes nothing.
StaleHandlersExit ==
  [][\A s \in Sockets :
       (sock[s].st = "closing" /\ sock'[s].st = "free" /\ s # ws)
         => UNCHANGED <<ws, timer, ui>>]_vars

\* Once the network stays up and the last setup has connected, the tab ends up
\* with an open socket, and keeps it.
LinkSettles ==
  <>[](up /\ wanted) => <>[](ws # None /\ sock[ws].st = "open")
=============================================================================
