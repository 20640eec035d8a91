---------------------------- MODULE WsLinkProofs ----------------------------
(***************************************************************************)
(* The WebSocket link for any number of sockets, setups and outages, as    *)
(* long as session setups do not overlap (the run ws_overlap shows that    *)
(* the code does not keep them from it, and what happens then).  What      *)
(* makes it work is the generation: between disconnectWs and connectWs     *)
(* nothing belongs to the current one, and afterwards only the current     *)
(* socket does.                                                            *)
(***************************************************************************)
EXTENDS WsLink, TLAPS

Live(s) == sock[s].st \in {"connecting", "open"}
Current(s) == sock[s].st # "free" /\ sock[s].gen = wsGen

\* One session setup at a time.
NoOverlap == \A p, q \in Setups : setup[p] = "awaiting" /\ setup[q] = "awaiting" => p = q

\* A socket in use belongs to the current generation iff it is the current
\* socket; while a reconnect is pending there is none.
Generations ==
  /\ \A s \in Sockets : sock[s].gen <= wsGen
  /\ \A s \in Sockets : Current(s) <=> s = ws
  /\ \A s \in Sockets : Live(s) => Current(s)
  /\ timer # None => ws = None /\ timer = wsGen

\* Between disconnectWs and connectWs there is no link at all.
Quiet == (\E p \in Setups : setup[p] = "awaiting") => ws = None /\ timer = None

LinkInv == TypeOK /\ Generations /\ Quiet /\ UiTruthful

-----------------------------------------------------------------------------
(* Types                                                                   *)

Sock == [st : States, gen : 0..MaxSetups]

\* What close() does to the sockets.
LEMMA ClosedSockets ==
  ASSUME TypeOK
  PROVE  /\ Closed(sock) \in [Sockets -> Sock]
         /\ \A s \in Sockets :
              /\ Closed(sock)[s].gen = sock[s].gen
              /\ s # ws => Closed(sock)[s] = sock[s]
              /\ sock[s].st \in {"free", "closing"} => Closed(sock)[s] = sock[s]
              /\ s = ws => Closed(sock)[s].st \in {"free", "closing"}
BY WsLinkAssumption DEF TypeOK, Closed, Sock, States

\* What opening a socket does.
LEMMA Connected ==
  ASSUME TypeOK, ConnectWs
  PROVE  /\ sock' \in [Sockets -> Sock]
         /\ timer' = None /\ ui' = "connecting"
         /\ UNCHANGED <<wsGen, wsReconnectAttempt>>
         /\ \E s \in Sockets :
              /\ sock[s].st = "free" /\ ws' = s
              /\ sock'[s] = [st |-> "connecting", gen |-> wsGen]
              /\ \A r \in Sockets \ {s} : sock'[r] = Closed(sock)[r]
<1>1. PICK s \in Sockets :
        /\ sock[s].st = "free"
        /\ sock' = [Closed(sock) EXCEPT ![s] = [st |-> "connecting", gen |-> wsGen]]
        /\ ws' = s
  BY DEF ConnectWs
<1>2. [st |-> "connecting", gen |-> wsGen] \in Sock
  BY DEF TypeOK, Sock, States
<1>3. Closed(sock) \in [Sockets -> Sock]
  BY ClosedSockets
<1>4. timer' = None /\ ui' = "connecting" /\ UNCHANGED <<wsGen, wsReconnectAttempt>>
  BY DEF ConnectWs
<1> QED BY <1>1, <1>2, <1>3, <1>4

LEMMA TypeStep == TypeOK /\ [Next]_vars => TypeOK'
<1> SUFFICES ASSUME TypeOK, [Next]_vars PROVE TypeOK'
  OBVIOUS
<1> USE WsLinkAssumption
<1>a. NextAttempt \in 0..MaxAttempt
  BY DEF TypeOK, NextAttempt
<1>b. ASSUME ConnectWs PROVE /\ sock' \in [Sockets -> Sock]
                             /\ ws' \in Sockets \union {None}
                             /\ wsGen' \in 0..MaxSetups
                             /\ timer' \in (0..MaxSetups) \union {None}
                             /\ wsReconnectAttempt' \in 0..MaxAttempt
                             /\ ui' \in {"connecting", "live", "offline"}
  BY <1>b, Connected DEF TypeOK
<1>c. ASSUME ConnectThrows PROVE /\ sock' \in [Sockets -> Sock]
                                 /\ ws' \in Sockets \union {None}
                                 /\ wsGen' \in 0..MaxSetups
                                 /\ timer' \in (0..MaxSetups) \union {None}
                                 /\ wsReconnectAttempt' \in 0..MaxAttempt
                                 /\ ui' \in {"connecting", "live", "offline"}
  BY <1>a, <1>c, ClosedSockets DEF TypeOK, ConnectThrows, Schedule
<1>1. ASSUME NEW p \in Setups, SetupStart(p) PROVE TypeOK'
  <2>1. Closed(sock) \in [Sockets -> [st : States, gen : 0..MaxSetups]] /\ wsGen + 1 \in 0..MaxSetups
    BY <1>1, ClosedSockets DEF TypeOK, SetupStart, Sock
  <2>2. /\ sock' = Closed(sock) /\ ws' = None /\ timer' = None /\ wsGen' = wsGen + 1
        /\ wsReconnectAttempt' = 0 /\ ui' = "connecting" /\ wanted' = FALSE
        /\ setup' = [setup EXCEPT ![p] = "awaiting"] /\ UNCHANGED <<up, flaps>>
    BY <1>1 DEF SetupStart, DisconnectWs, env
  <2>3. setup' \in [Setups -> {"idle", "awaiting"}]
    BY <2>2 DEF TypeOK
  <2>4. 0 \in 0..MaxAttempt
    OBVIOUS
  <2> QED BY <2>1, <2>2, <2>3, <2>4 DEF TypeOK
<1>2. ASSUME NEW p \in Setups, SetupConnects(p) PROVE TypeOK'
  BY <1>2, <1>b, <1>c DEF TypeOK, SetupConnects, env, Sock
<1>3. ASSUME NEW p \in Setups, SetupFails(p) PROVE TypeOK'
  BY <1>3 DEF TypeOK, SetupFails, env
<1>4. ASSUME NEW s \in Sockets, OnOpen(s) PROVE TypeOK'
  BY <1>4 DEF TypeOK, OnOpen, env, States
<1>5. ASSUME NEW s \in Sockets, OnClose(s) PROVE TypeOK'
  BY <1>5, <1>a DEF TypeOK, OnClose, env, Schedule, Freed, NoSocket, States
<1>6. CASE TimerFires
  <2>1. CASE timer = wsGen
    BY <1>6, <1>b, <1>c, <2>1 DEF TypeOK, TimerFires, env, Sock
  <2>2. CASE timer # wsGen
    <3>1. timer' = None /\ UNCHANGED <<sock, ws, wsGen, wsReconnectAttempt, ui, setup, wanted, env>>
      BY <1>6, <2>2 DEF TimerFires
    <3> QED BY <3>1 DEF TypeOK, env
  <2> QED BY <2>1, <2>2
<1>7. CASE NetworkDown
  <2>1. up' \in BOOLEAN /\ UNCHANGED <<link, setup, wanted>>
    BY <1>7, Zenon DEF NetworkDown
  <2>2. flaps' \in 0..MaxFlaps
    BY <1>7 DEF TypeOK, NetworkDown
  <2> QED BY <2>1, <2>2 DEF TypeOK, link
<1>8. CASE NetworkUp
  BY <1>8 DEF TypeOK, NetworkUp, link
<1>9. ASSUME NEW s \in Sockets, Drop(s) PROVE TypeOK'
  BY <1>9 DEF TypeOK, Drop, env, States
<1>10. CASE UNCHANGED vars
  BY <1>10 DEF TypeOK, vars, link, env
<1> QED BY <1>1, <1>2, <1>3, <1>4, <1>5, <1>6, <1>7, <1>8, <1>9, <1>10 DEF Next

LEMMA TypeInit == Init => TypeOK
<1> SUFFICES ASSUME Init PROVE TypeOK
  OBVIOUS
<1>1. sock \in [Sockets -> [st : States, gen : 0..MaxSetups]]
  BY WsLinkAssumption DEF Init, NoSocket, States
<1>2. /\ setup \in [Setups -> {"idle", "awaiting"}]
      /\ 0 \in 0..MaxSetups /\ 0 \in 0..MaxAttempt /\ 0 \in 0..MaxFlaps
  BY WsLinkAssumption DEF Init
<1> QED BY <1>1, <1>2 DEF Init, TypeOK

\* Whatever happens, overlapping setups included, the state has its types.
THEOREM TypeCorrect == Spec => []TypeOK
BY TypeInit, TypeStep, PTL DEF Spec

-----------------------------------------------------------------------------
(* Generations                                                             *)

LEMMA LinkInit == Init => LinkInv
BY WsLinkAssumption, TypeInit
DEF Init, LinkInv, NoSocket, Generations, Quiet, UiTruthful, Live, Current

\* A connection made while there is no socket of the current generation.
LEMMA ConnectKeeps ==
  ASSUME TypeOK, Generations, ws = None, ConnectWs \/ ConnectThrows
  PROVE  Generations' /\ UiTruthful'
<1> USE WsLinkAssumption
<1>1. CASE ConnectWs
  <2>1. PICK s \in Sockets :
          /\ sock[s].st = "free" /\ ws' = s
          /\ sock'[s] = [st |-> "connecting", gen |-> wsGen]
          /\ \A r \in Sockets \ {s} : sock'[r] = sock[r]
    BY <1>1, Connected, ClosedSockets
  <2>2. timer' = None /\ ui' = "connecting" /\ wsGen' = wsGen /\ wsGen \in Nat
    BY <1>1, Connected DEF TypeOK
  <2> QED BY <2>1, <2>2 DEF Generations, UiTruthful, Live, Current
<1>2. CASE ConnectThrows
  <2>1. /\ sock' = sock /\ ws' = None /\ ui' = "offline"
        /\ timer' = wsGen /\ wsGen' = wsGen
    BY <1>2 DEF ConnectThrows, Closed, Schedule
  <2> QED BY <2>1 DEF Generations, UiTruthful, Live, Current
<1> QED BY <1>1, <1>2

LEMMA LinkStep == LinkInv /\ NoOverlap /\ [Next]_vars => LinkInv'
<1> SUFFICES ASSUME LinkInv, NoOverlap, [Next]_vars PROVE LinkInv'
  OBVIOUS
<1> USE WsLinkAssumption
<1>0. TypeOK /\ Generations /\ Quiet /\ UiTruthful /\ TypeOK'
  BY TypeStep DEF LinkInv
<1>g. wsGen \in Nat /\ \A s \in Sockets : sock[s].gen \in Nat /\ sock[s].st \in States
  BY <1>0 DEF TypeOK
<1>1. ASSUME NEW p \in Setups, SetupStart(p) PROVE LinkInv'
  <2>1. /\ sock' = Closed(sock) /\ ws' = None /\ timer' = None
        /\ wsGen' = wsGen + 1 /\ ui' = "connecting"
    BY <1>1 DEF SetupStart, DisconnectWs
  <2>2. \A s \in Sockets : sock'[s].gen <= wsGen /\ ~Live(s)'
    BY <1>0, <1>g, <2>1, ClosedSockets DEF Generations, Live, States
  <2>3. wsGen + 1 \in Nat /\ \A s \in Sockets : sock'[s].gen # wsGen + 1 /\ sock'[s].gen <= wsGen + 1
    BY <1>g, <2>1, <2>2, ClosedSockets, <1>0
  <2>4. Generations'
    BY <2>1, <2>2, <2>3 DEF Generations, Live, Current
  <2> QED BY <1>0, <2>1, <2>4 DEF LinkInv, Quiet, UiTruthful
<1>2. ASSUME NEW p \in Setups, SetupConnects(p) PROVE LinkInv'
  <2>1. /\ ws = None /\ setup' = [setup EXCEPT ![p] = "idle"]
        /\ ConnectWs \/ ConnectThrows
        /\ setup[p] = "awaiting"
    BY <1>0, <1>2 DEF SetupConnects, Quiet
  <2>2. \A q \in Setups : setup'[q] # "awaiting"
    BY <1>0, <2>1 DEF NoOverlap, TypeOK
  <2> QED BY <1>0, <2>1, <2>2, ConnectKeeps DEF LinkInv, Quiet
<1>3. ASSUME NEW p \in Setups, SetupFails(p) PROVE LinkInv'
  <2>1. ws = None /\ timer = None /\ ui' = "offline" /\ UNCHANGED <<sock, ws, wsGen, timer>>
    BY <1>0, <1>3 DEF SetupFails, Quiet
  <2> QED BY <1>0, <2>1 DEF LinkInv, Generations, Quiet, UiTruthful, Live, Current
<1>4. ASSUME NEW s \in Sockets, OnOpen(s) PROVE LinkInv'
  <2>1. /\ sock[s].st = "connecting" /\ UNCHANGED <<ws, wsGen, timer, setup>>
        /\ sock'[s].st = "open" /\ sock'[s].gen = sock[s].gen
        /\ \A r \in Sockets \ {s} : sock'[r] = sock[r]
    BY <1>0, <1>4 DEF OnOpen, TypeOK
  <2>2. Current(s) /\ s = ws /\ ui' = "live"
    BY <1>0, <1>4, <2>1 DEF Generations, Live, Current, OnOpen
  <2> QED BY <1>0, <2>1, <2>2 DEF LinkInv, Generations, Quiet, UiTruthful, Live, Current
<1>5. ASSUME NEW s \in Sockets, OnClose(s) PROVE LinkInv'
  <2>1. /\ sock[s].st = "closing" /\ UNCHANGED <<wsGen, setup>>
        /\ sock'[s] = NoSocket
        /\ \A r \in Sockets \ {s} : sock'[r] = sock[r]
    BY <1>0, <1>5 DEF OnClose, Freed, TypeOK
  <2>2. CASE sock[s].gen = wsGen
    <3>1. s = ws /\ ws' = None /\ ui' = "offline" /\ timer' = wsGen
      BY <1>0, <1>5, <2>1, <2>2 DEF Generations, Current, OnClose, Schedule
    <3> QED BY <1>0, <1>g, <2>1, <3>1
            DEF LinkInv, Generations, Quiet, UiTruthful, Live, Current, NoSocket
  <2>3. CASE sock[s].gen # wsGen
    <3>1. s # ws /\ UNCHANGED <<ws, timer, ui>>
      BY <1>0, <1>5, <2>1, <2>3 DEF Generations, Current, OnClose
    <3> QED BY <1>0, <1>g, <2>1, <3>1
            DEF LinkInv, Generations, Quiet, UiTruthful, Live, Current, NoSocket, TypeOK
  <2> QED BY <2>2, <2>3
<1>6. CASE TimerFires
  <2>1. ws = None /\ timer = wsGen /\ setup' = setup /\ \A p \in Setups : setup[p] # "awaiting"
    BY <1>0, <1>6 DEF TimerFires, Generations, Quiet
  <2>2. ConnectWs \/ ConnectThrows
    BY <1>6, <2>1 DEF TimerFires
  <2> QED BY <1>0, <2>1, <2>2, ConnectKeeps DEF LinkInv, Quiet
<1>7. CASE NetworkDown \/ NetworkUp \/ UNCHANGED vars
  <2>1. UNCHANGED <<link, setup>>
    BY <1>7 DEF NetworkDown, NetworkUp, vars
  <2> QED BY <1>0, <2>1 DEF LinkInv, Generations, Quiet, UiTruthful, Live, Current, link
<1>8. ASSUME NEW s \in Sockets, Drop(s) PROVE LinkInv'
  <2>1. /\ sock[s].st \in {"connecting", "open"} /\ UNCHANGED <<ws, wsGen, timer, ui, setup>>
        /\ sock'[s].st = "closing" /\ sock'[s].gen = sock[s].gen
        /\ \A r \in Sockets \ {s} : sock'[r] = sock[r]
    BY <1>0, <1>8 DEF Drop, TypeOK
  <2> QED BY <1>0, <2>1 DEF LinkInv, Generations, Quiet, UiTruthful, Live, Current, TypeOK
<1> QED BY <1>1, <1>2, <1>3, <1>4, <1>5, <1>6, <1>7, <1>8 DEF Next

LEMMA Invariance == Spec /\ []NoOverlap => []LinkInv
BY LinkInit, LinkStep, PTL DEF Spec

-----------------------------------------------------------------------------
(* What follows                                                            *)

\* While setups do not overlap, the current socket is the only one that can
\* deliver hints (connectWs closes what it replaces).
THEOREM OneLink == Spec /\ []NoOverlap => []OneLiveSocket
<1>1. LinkInv => OneLiveSocket
  BY DEF LinkInv, Generations, Live, OneLiveSocket
<1> QED BY <1>1, Invariance, PTL

\* ... a reconnect never replaces a working socket (scheduleWsReconnect).
THEOREM TimerWhenDown == Spec /\ []NoOverlap => []TimerOnlyWhenDown
<1>1. LinkInv => TimerOnlyWhenDown
  BY DEF LinkInv, Generations, TimerOnlyWhenDown
<1> QED BY <1>1, Invariance, PTL

\* ... and the indicator agrees with the socket (setLiveUi).
THEOREM IndicatorTruthful == Spec /\ []NoOverlap => []UiTruthful
<1>1. LinkInv => UiTruthful
  BY DEF LinkInv
<1> QED BY <1>1, Invariance, PTL

\* The close event of a replaced socket changes nothing: its generation has
\* passed (the handlers' `g !== wsGen`).
THEOREM StaleExit == Spec /\ []NoOverlap => StaleHandlersExit
<1>1. ASSUME LinkInv, [Next]_vars, NEW s \in Sockets,
             sock[s].st = "closing", sock'[s].st = "free", s # ws
      PROVE  UNCHANGED <<ws, timer, ui>>
  <2>0. TypeOK
    BY <1>1 DEF LinkInv
  <2>1. ASSUME NEW r \in Sockets, OnClose(r) PROVE UNCHANGED <<ws, timer, ui>>
    <3>1. r = s
      BY <1>1, <2>0, <2>1 DEF OnClose, Freed, TypeOK
    <3>2. sock[s].gen # wsGen
      BY <1>1 DEF LinkInv, Generations, Current
    <3> QED BY <2>1, <3>1, <3>2 DEF OnClose
  <2>2. ASSUME NEW r \in Sockets, OnOpen(r) \/ Drop(r) PROVE FALSE
    BY <1>1, <2>0, <2>2 DEF OnOpen, Drop, TypeOK
  <2>3. ASSUME NEW p \in Setups, SetupStart(p) PROVE FALSE
    BY <1>1, <2>0, <2>3, ClosedSockets DEF SetupStart, DisconnectWs
  <2>4. ASSUME ConnectWs \/ ConnectThrows PROVE FALSE
    <3>1. CASE ConnectWs
      BY <1>1, <2>0, <3>1, Connected, ClosedSockets
    <3>2. CASE ConnectThrows
      BY <1>1, <2>0, <3>2, ClosedSockets DEF ConnectThrows
    <3> QED BY <2>4, <3>1, <3>2
  <2>5. ASSUME NEW p \in Setups, SetupConnects(p) PROVE FALSE
    BY <2>4, <2>5 DEF SetupConnects
  <2>6. ASSUME TimerFires PROVE FALSE
    BY <1>1, <2>4, <2>6 DEF TimerFires
  <2>7. ASSUME NEW p \in Setups, SetupFails(p) PROVE FALSE
    BY <1>1, <2>7 DEF SetupFails
  <2>8. ASSUME NetworkDown \/ NetworkUp \/ UNCHANGED vars PROVE FALSE
    BY <1>1, <2>8 DEF NetworkDown, NetworkUp, vars, link
  <2> QED BY <1>1, <2>1, <2>2, <2>3, <2>5, <2>6, <2>7, <2>8 DEF Next
<1>2. LinkInv /\ [Next]_vars =>
        [\A s \in Sockets :
           (sock[s].st = "closing" /\ sock'[s].st = "free" /\ s # ws)
             => UNCHANGED <<ws, timer, ui>>]_vars
  BY <1>1
<1> QED BY <1>2, Invariance, PTL DEF Spec, StaleHandlersExit
=============================================================================
