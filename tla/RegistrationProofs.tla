------------------------- MODULE RegistrationProofs -------------------------
(***************************************************************************)
(* Registration for any key pairs, sessions and bounds: what a token       *)
(* proves, that a challenge is used once, and that a token's subject is    *)
(* stored.  The inductive invariant has two layers: where an outstanding   *)
(* challenge and a running handler come from (Provenance), and what is     *)
(* true of those that got further (Claims).                                *)
(***************************************************************************)
EXTENDS Registration, TLAPS

Running(s) == sess[s].pc \in InHandler

\* An outstanding challenge was minted for the key it is filed under, with the
\* expiry that is filed.
PendingIssued ==
  \A k \in Keys : pending[k] # None =>
    /\ pending[k].c \in 1..minted
    /\ issue[pending[k].c].fp = k
    /\ issue[pending[k].c].expires = pending[k].expires

\* A handler past the consumption has a challenge minted for its key, taken in
\* time.
HandlerIssued ==
  \A s \in Sessions : Running(s) =>
    /\ sess[s].c \in 1..minted
    /\ issue[sess[s].c].fp = Presents[s]
    /\ sess[s].at < issue[sess[s].c].expires

Provenance == TypeOK /\ PendingIssued /\ HandlerIssued

\* A handler past the proof has the secret key; past the upsert, a row.
HandlerProved ==
  \A s \in Sessions :
    /\ sess[s].pc \in {"storing", "stored"} => Holds[s] = Presents[s]
    /\ sess[s].pc = "stored" => Presents[s] \in users

\* A challenge a token was signed for is no longer outstanding.
SpentForGood ==
  \A t \in tokens : \A k \in Keys : pending[k] # None => pending[k].c # t.c

Claims ==
  /\ HandlerProved
  /\ SpentForGood
  /\ TokenProvesPossession
  /\ SingleUse
  /\ TokenHasUser

-----------------------------------------------------------------------------
(* Provenance                                                              *)

\* A step of a handler that only moves its program counter.
LEMMA GoTypes ==
  ASSUME TypeOK, NEW s \in Sessions,
         NEW pc \in {"idle", "challenged", "done", "rejected", "failed"} \union InHandler,
         Go(s, pc)
  PROVE  /\ sess' \in [Sessions -> Session]
         /\ sess'[s].pc = pc /\ sess'[s].c = sess[s].c /\ sess'[s].at = sess[s].at
         /\ \A r \in Sessions \ {s} : sess'[r] = sess[r]
<1>1. sess[s] \in Session
  BY DEF TypeOK
<1>2. [sess[s] EXCEPT !.pc = pc] \in Session
  BY <1>1 DEF Session
<1> QED BY <1>1, <1>2 DEF TypeOK, Go, Session

\* What minting leaves alone: the records of earlier challenges.
LEMMA ChallengeMints ==
  ASSUME Provenance, NEW s \in Sessions, Challenge(s)
  PROVE  /\ minted' = minted + 1 /\ minted' \in 1..MaxChallenges
         /\ issue' \in [1..minted' -> [fp : Keys, expires : Expiries, key : 0..MaxRestarts]]
         /\ \A i \in 1..minted : issue'[i] = issue[i]
         /\ issue'[minted'].fp = Presents[s]
         /\ issue'[minted'].expires = ExpiresAt(now)
         /\ pending'[Presents[s]] = [c |-> minted', expires |-> ExpiresAt(now)]
         /\ \A k \in Keys \ {Presents[s]} : pending'[k] = pending[k]
         /\ sess'[s] = [pc |-> "challenged", c |-> minted', key |-> regKey,
                        at |-> 0, again |-> FALSE]
         /\ \A r \in Sessions \ {s} : sess'[r] = sess[r]
<1>1. /\ minted \in Nat /\ minted < MaxChallenges /\ minted' = minted + 1
      /\ Presents[s] \in Keys
      /\ now \in 0..MaxClock /\ regKey \in 0..MaxRestarts
      /\ ExpiresAt(now) \in Expiries
  <2>1. minted \in Nat /\ now \in 0..MaxClock /\ regKey \in 0..MaxRestarts
    BY RegistrationAssumption DEF Provenance, TypeOK
  <2>2. minted < MaxChallenges /\ minted' = minted + 1
    BY DEF Challenge
  <2>3. ExpiresAt(now) \in Expiries
    BY <2>1, RegistrationAssumption DEF ExpiresAt, Expiries
  <2> QED BY <2>1, <2>2, <2>3, RegistrationAssumption
<1>2. issue' = [i \in 1..minted' |->
                  IF i = minted'
                    THEN [fp |-> Presents[s], expires |-> ExpiresAt(now), key |-> regKey]
                    ELSE issue[i]]
  BY <1>1 DEF Challenge
<1>3. issue \in [1..minted -> [fp : Keys, expires : Expiries, key : 0..MaxRestarts]]
  BY DEF Provenance, TypeOK
<1>4. \A i \in 1..minted' : i # minted' => i \in 1..minted
  BY <1>1
<1>5. /\ issue' \in [1..minted' -> [fp : Keys, expires : Expiries, key : 0..MaxRestarts]]
      /\ \A i \in 1..minted : issue'[i] = issue[i]
      /\ issue'[minted'].fp = Presents[s]
      /\ issue'[minted'].expires = ExpiresAt(now)
  BY <1>1, <1>2, <1>3, <1>4
<1>6. /\ pending'[Presents[s]] = [c |-> minted', expires |-> ExpiresAt(now)]
      /\ \A k \in Keys \ {Presents[s]} : pending'[k] = pending[k]
  BY <1>1 DEF Provenance, TypeOK, Challenge
<1>7. /\ sess'[s] = [pc |-> "challenged", c |-> minted', key |-> regKey,
                     at |-> 0, again |-> FALSE]
      /\ \A r \in Sessions \ {s} : sess'[r] = sess[r]
  BY <1>1 DEF Provenance, TypeOK, Challenge
<1> QED BY <1>1, <1>5, <1>6, <1>7, RegistrationAssumption

\* What a submission leaves behind: an empty slot, and a handler only if the
\* challenge that was in it is the one echoed.
LEMMA SubmitConsumes ==
  ASSUME Provenance, NEW s \in Sessions, Submit(s)
  PROVE  /\ pending' \in [Keys -> [c : Challenges, expires : Expiries] \union {None}]
         /\ pending'[Presents[s]] = None
         /\ \A k \in Keys \ {Presents[s]} : pending'[k] = pending[k]
         /\ sess' \in [Sessions -> Session]
         /\ \A r \in Sessions \ {s} : sess'[r] = sess[r]
         /\ sess'[s].c = sess[s].c /\ sess'[s].at = now
         /\ sess'[s].pc \in {"proving", "rejected"}
         /\ sess'[s].pc = "proving" =>
              /\ pending[Presents[s]] # None
              /\ sess[s].c = pending[Presents[s]].c
              /\ now < pending[Presents[s]].expires
         /\ takers' \in [Challenges -> SUBSET Sessions]
<1>1. Presents[s] \in Keys
  BY RegistrationAssumption
<1>2. /\ pending \in [Keys -> [c : Challenges, expires : Expiries] \union {None}]
      /\ pending' = [pending EXCEPT ![Presents[s]] = None]
  BY DEF Submit, Consume, Provenance, TypeOK
<1>3. /\ sess' = [sess EXCEPT ![s].pc = IF Admits(s) THEN "proving" ELSE "rejected",
                              ![s].at = now,
                              ![s].again = sess[s].pc # "challenged"]
      /\ sess \in [Sessions -> Session]
      /\ now \in 0..MaxClock
  BY DEF Submit, Provenance, TypeOK
<1>4. /\ \A r \in Sessions \ {s} : sess'[r] = sess[r]
      /\ sess'[s].c = sess[s].c /\ sess'[s].at = now
      /\ sess'[s].key = sess[s].key /\ sess'[s].again \in BOOLEAN
      /\ sess'[s].pc = IF Admits(s) THEN "proving" ELSE "rejected"
  BY <1>3
<1>5. sess' \in [Sessions -> Session]
  <2>1. sess'[s] \in Session
    BY <1>3 DEF Session, InHandler
  <2> QED BY <1>3, <1>4, <2>1
<1>6. takers' \in [Challenges -> SUBSET Sessions]
  BY <1>1, <1>2 DEF Submit, Taken, Provenance, TypeOK
<1> QED BY <1>1, <1>2, <1>4, <1>5, <1>6 DEF Admits

\* Every step keeps the types, and where challenges come from.
LEMMA ProvenanceStep == Provenance /\ [Next]_vars => Provenance'
<1> SUFFICES ASSUME Provenance, [Next]_vars PROVE Provenance'
  OBVIOUS
<1>0. TypeOK /\ PendingIssued /\ HandlerIssued
  BY DEF Provenance
<1>1. ASSUME NEW s \in Sessions, Challenge(s) PROVE Provenance'
  <2>1. minted \in Nat /\ Presents[s] \in Keys
    BY <1>0, RegistrationAssumption DEF TypeOK
  <2>2. TypeOK'
    <3>1. pending' \in [Keys -> [c : Challenges, expires : Expiries] \union {None}]
      BY <1>0, <1>1, <2>1, RegistrationAssumption
      DEF TypeOK, Challenge, ExpiresAt, Expiries, Challenges
    <3>2. sess' \in [Sessions -> Session]
      <4>1. sess'[s] \in Session
        <5>1. sess'[s] = [pc |-> "challenged", c |-> minted', key |-> regKey,
                          at |-> 0, again |-> FALSE]
          BY <1>1, ChallengeMints
        <5>2. minted' \in 0..MaxChallenges /\ regKey \in 0..MaxRestarts /\ 0 \in 0..MaxClock
          BY <1>0, <1>1, ChallengeMints, RegistrationAssumption DEF TypeOK
        <5> QED BY <5>1, <5>2 DEF Session
      <4>2. \A r \in Sessions \ {s} : sess'[r] = sess[r]
        BY <1>1, ChallengeMints
      <4>3. sess' = [r \in Sessions |-> sess'[r]]
        BY <1>0, <1>1 DEF TypeOK, Challenge
      <4> QED BY <1>0, <4>1, <4>2, <4>3 DEF TypeOK
    <3>3. UNCHANGED <<users, regKey, now, tokens, takers>>
      BY <1>1 DEF Challenge
    <3>4. /\ minted' \in 0..MaxChallenges
          /\ issue' \in [1..minted' -> [fp : Keys, expires : Expiries, key : 0..MaxRestarts]]
      BY <1>1, ChallengeMints, RegistrationAssumption
    <3> QED BY <1>0, <3>1, <3>2, <3>3, <3>4 DEF TypeOK
  <2>3. PendingIssued'
    <3> SUFFICES ASSUME NEW k \in Keys, pending'[k] # None
                 PROVE  /\ pending'[k].c \in 1..minted'
                        /\ issue'[pending'[k].c].fp = k
                        /\ issue'[pending'[k].c].expires = pending'[k].expires
      BY DEF PendingIssued
    <3>1. CASE k = Presents[s]
      BY <1>1, <2>1, <3>1, ChallengeMints
    <3>2. CASE k # Presents[s]
      BY <1>0, <1>1, <2>1, <3>2, ChallengeMints DEF PendingIssued
    <3> QED BY <3>1, <3>2
  <2>4. HandlerIssued'
    BY <1>0, <1>1, <2>1, ChallengeMints DEF HandlerIssued, Running, InHandler
  <2> QED BY <2>2, <2>3, <2>4 DEF Provenance
<1>2. ASSUME NEW s \in Sessions, Submit(s) PROVE Provenance'
  <2>1. UNCHANGED <<users, regKey, now, minted, issue, tokens>>
    BY <1>2 DEF Submit
  <2>2. TypeOK'
    BY <1>0, <1>2, <2>1, SubmitConsumes DEF TypeOK
  <2>3. PendingIssued'
    BY <1>0, <1>2, <2>1, SubmitConsumes DEF PendingIssued
  <2>4. HandlerIssued'
    <3> SUFFICES ASSUME NEW r \in Sessions, Running(r)'
                 PROVE  /\ sess'[r].c \in 1..minted
                        /\ issue[sess'[r].c].fp = Presents[r]
                        /\ sess'[r].at < issue[sess'[r].c].expires
      BY <2>1 DEF HandlerIssued
    <3>1. CASE r = s
      <4>1. sess'[s].pc = "proving"
        BY <1>2, <3>1, SubmitConsumes DEF Running, InHandler
      <4>2. Presents[s] \in Keys
        BY RegistrationAssumption
      <4> QED BY <1>0, <1>2, <3>1, <4>1, <4>2, SubmitConsumes DEF PendingIssued
    <3>2. CASE r # s
      BY <1>0, <1>2, <3>2, SubmitConsumes DEF HandlerIssued, Running
    <3> QED BY <3>1, <3>2
  <2> QED BY <2>2, <2>3, <2>4 DEF Provenance
<1>3. ASSUME NEW s \in Sessions, Prove(s) \/ StoreUser(s) \/ Sign(s) \/ Fail(s)
      PROVE  Provenance'
  <2>1. Running(s) /\ UNCHANGED <<pending, regKey, now, minted, issue, takers>>
    BY <1>3 DEF Prove, StoreUser, Sign, Fail, Free, Running, InHandler
  <2>2. PICK pc \in {"storing", "stored", "done", "rejected", "failed"} : Go(s, pc)
    BY <1>3 DEF Prove, StoreUser, Sign, Fail
  <2>3. /\ sess'[s].c = sess[s].c /\ sess'[s].at = sess[s].at
        /\ \A r \in Sessions \ {s} : sess'[r] = sess[r]
    BY <1>0, <2>2, GoTypes DEF InHandler
  <2>4. TypeOK'
    <3>1. sess' \in [Sessions -> Session]
      BY <1>0, <2>2, GoTypes DEF InHandler
    <3>2. users' \subseteq Keys
      BY <1>0, <1>3, RegistrationAssumption DEF TypeOK, Prove, StoreUser, Sign, Fail
    <3>3. tokens' \subseteq [fp : Keys, c : Challenges, sk : Keys, at : 0..MaxClock]
      <4>1. sess[s].c \in Challenges /\ sess[s].at \in 0..MaxClock
        <5>1. sess[s] \in Session /\ minted \in 0..MaxChallenges
          BY <1>0 DEF TypeOK
        <5>2. sess[s].c \in 1..minted
          BY <1>0, <2>1 DEF HandlerIssued
        <5> QED BY <5>1, <5>2, RegistrationAssumption DEF Session, Challenges
      <4>2. Presents[s] \in Keys /\ Holds[s] \in Keys
        BY RegistrationAssumption
      <4> QED BY <1>0, <1>3, <4>1, <4>2 DEF TypeOK, Prove, StoreUser, Sign, Fail
    <3> QED BY <1>0, <2>1, <3>1, <3>2, <3>3 DEF TypeOK
  <2>5. PendingIssued' /\ HandlerIssued'
    BY <1>0, <2>1, <2>3 DEF PendingIssued, HandlerIssued, Running
  <2> QED BY <2>4, <2>5 DEF Provenance
<1>4. CASE Tick
  BY <1>0, <1>4, RegistrationAssumption
  DEF Tick, Provenance, TypeOK, PendingIssued, HandlerIssued, Running
<1>5. CASE PurgeChallenges
  BY <1>0, <1>5 DEF PurgeChallenges, Provenance, TypeOK, PendingIssued, HandlerIssued, Running
<1>6. CASE Restart
  <2>1. /\ sess' \in [Sessions -> Session]
        /\ \A s \in Sessions : ~Running(s)'
    <3> SUFFICES ASSUME NEW s \in Sessions
                 PROVE  sess'[s] \in Session /\ sess'[s].pc \notin InHandler
      BY <1>6 DEF Restart, Running
    <3>1. sess[s] \in Session
      BY <1>0 DEF TypeOK
    <3>2. sess'[s] = IF Free(s) THEN sess[s] ELSE [sess[s] EXCEPT !.pc = "failed"]
      BY <1>6 DEF Restart
    <3> QED BY <3>1, <3>2 DEF Session, Free, InHandler
  <2>2. TypeOK'
    BY <1>0, <1>6, <2>1, RegistrationAssumption DEF Restart, TypeOK
  <2> QED BY <1>6, <2>1, <2>2 DEF Restart, Provenance, PendingIssued, HandlerIssued
<1>7. CASE UNCHANGED vars
  BY <1>0, <1>7 DEF vars, Provenance, TypeOK, PendingIssued, HandlerIssued, Running
<1> QED BY <1>1, <1>2, <1>3, <1>4, <1>5, <1>6, <1>7 DEF Next

LEMMA ProvenanceInit == Init => Provenance
BY RegistrationAssumption
DEF Init, Provenance, TypeOK, PendingIssued, HandlerIssued, Running, NewSession, InHandler,
    Challenges, Expiries, Session

\* Whatever happens, the state has its types.
THEOREM TypeCorrect == Spec => []TypeOK
<1>1. Provenance => TypeOK
  BY DEF Provenance
<1> QED BY <1>1, ProvenanceInit, ProvenanceStep, PTL DEF Spec

-----------------------------------------------------------------------------
(* Claims                                                                  *)

\* Issued challenges keep their record: what a token rests on never changes.
LEMMA IssueStable ==
  ASSUME Provenance, [Next]_vars
  PROVE  \A i \in 1..minted : i \in 1..minted' /\ issue'[i] = issue[i]
<1>1. minted \in Nat
  BY DEF Provenance, TypeOK
<1>2. ASSUME NEW s \in Sessions, Challenge(s)
      PROVE  \A i \in 1..minted : i \in 1..minted' /\ issue'[i] = issue[i]
  BY <1>1, <1>2, ChallengeMints
<1>3. ASSUME UNCHANGED <<minted, issue>>
      PROVE  \A i \in 1..minted : i \in 1..minted' /\ issue'[i] = issue[i]
  BY <1>3
<1> QED BY <1>2, <1>3
        DEF Next, vars, Submit, Prove, StoreUser, Sign, Fail, Tick, PurgeChallenges, Restart

\* A handler that moves on makes its own claim only.
LEMMA ClaimsStep == Provenance /\ Claims /\ [Next]_vars => Claims'
<1> SUFFICES ASSUME Provenance, Claims, [Next]_vars PROVE Claims'
  OBVIOUS
<1>0. /\ HandlerProved /\ SpentForGood /\ TokenProvesPossession /\ SingleUse /\ TokenHasUser
      /\ PendingIssued /\ HandlerIssued /\ TypeOK
  BY DEF Provenance, Claims
<1>t. \A s \in Sessions : Presents[s] \in Keys
  BY RegistrationAssumption
<1>1. ASSUME NEW s \in Sessions, Challenge(s) PROVE Claims'
  <2>1. /\ UNCHANGED <<users, tokens>> /\ minted \in Nat /\ minted' = minted + 1
        /\ ~Running(s)'
    BY <1>0, <1>1, ChallengeMints DEF Challenge, TypeOK, Running, InHandler
  <2>2. HandlerProved'
    BY <1>0, <1>1, <2>1, ChallengeMints DEF HandlerProved
  <2>3. TokenProvesPossession'
    BY <1>0, <2>1, IssueStable DEF TokenProvesPossession
  <2>4. SpentForGood'
    <3> SUFFICES ASSUME NEW t \in tokens, NEW k \in Keys, pending'[k] # None
                 PROVE  pending'[k].c # t.c
      BY <2>1 DEF SpentForGood
    <3>1. t.c \in 1..minted
      BY <1>0 DEF TokenProvesPossession
    <3> QED BY <1>0, <1>1, <2>1, <3>1, ChallengeMints DEF SpentForGood
  <2>5. SingleUse'
    <3> SUFFICES ASSUME NEW r \in Sessions, Running(r)'
                 PROVE  /\ pending'[Presents[r]] # None => pending'[Presents[r]].c # sess'[r].c
                        /\ \A q \in Sessions \ {r} :
                             sess'[q].pc \in InHandler => sess'[q].c # sess'[r].c
                        /\ \A t \in tokens : t.c # sess'[r].c
      BY <2>1 DEF SingleUse, Running
    <3>1. r # s /\ sess'[r] = sess[r] /\ Running(r)
      BY <1>1, <2>1, ChallengeMints DEF Running
    <3>2. sess[r].c \in 1..minted
      BY <1>0, <3>1 DEF HandlerIssued
    <3>3. pending'[Presents[r]] # None => pending'[Presents[r]].c # sess[r].c
      BY <1>0, <1>1, <1>t, <2>1, <3>1, <3>2, ChallengeMints DEF SingleUse, Running
    <3>4. ASSUME NEW q \in Sessions \ {r}, sess'[q].pc \in InHandler
          PROVE  sess'[q].c # sess[r].c
      <4>1. q # s /\ sess'[q] = sess[q]
        BY <1>1, <2>1, <3>4, ChallengeMints DEF Running
      <4> QED BY <1>0, <3>1, <3>4, <4>1 DEF SingleUse, Running
    <3>5. \A t \in tokens : t.c # sess[r].c
      BY <1>0, <3>1 DEF SingleUse, Running
    <3> QED BY <3>1, <3>3, <3>4, <3>5
  <2>6. TokenHasUser'
    BY <1>0, <2>1 DEF TokenHasUser
  <2> QED BY <2>2, <2>3, <2>4, <2>5, <2>6 DEF Claims
<1>2. ASSUME NEW s \in Sessions, Submit(s) PROVE Claims'
  <2>1. UNCHANGED <<users, minted, issue, tokens>>
    BY <1>2 DEF Submit
  <2>2. HandlerProved' /\ SpentForGood' /\ TokenProvesPossession' /\ TokenHasUser'
    BY <1>0, <1>2, <2>1, SubmitConsumes
    DEF HandlerProved, SpentForGood, TokenProvesPossession, TokenHasUser
  <2>3. SingleUse'
    <3> SUFFICES ASSUME NEW r \in Sessions, Running(r)'
                 PROVE  /\ pending'[Presents[r]] # None => pending'[Presents[r]].c # sess'[r].c
                        /\ \A q \in Sessions \ {r} :
                             sess'[q].pc \in InHandler => sess'[q].c # sess'[r].c
                        /\ \A t \in tokens : t.c # sess'[r].c
      BY <2>1 DEF SingleUse, Running
    <3>1. Running(s)' =>
            /\ pending[Presents[s]] # None
            /\ sess'[s].c = pending[Presents[s]].c
      BY <1>2, SubmitConsumes DEF Running, InHandler
    <3>2. \* no running handler has the challenge that is outstanding
          ASSUME NEW q \in Sessions \ {s}, Running(q), pending[Presents[s]] # None
          PROVE  sess[q].c # pending[Presents[s]].c
      <4>1. CASE Presents[q] = Presents[s]
        BY <1>0, <3>2, <4>1 DEF SingleUse, Running
      <4>2. CASE Presents[q] # Presents[s]
        BY <1>0, <1>t, <3>2, <4>2 DEF PendingIssued, HandlerIssued
      <4> QED BY <4>1, <4>2
    <3>3. CASE r = s
      <4>1. pending'[Presents[s]] = None
        BY <1>2, SubmitConsumes
      <4>2. ASSUME NEW q \in Sessions \ {s}, sess'[q].pc \in InHandler
            PROVE  sess'[q].c # sess'[s].c
        BY <1>2, <3>1, <3>2, <3>3, <4>2, SubmitConsumes DEF Running
      <4>3. \A t \in tokens : t.c # sess'[s].c
        BY <1>0, <1>t, <3>1, <3>3 DEF SpentForGood
      <4> QED BY <3>3, <4>1, <4>2, <4>3
    <3>4. CASE r # s
      <4>1. sess'[r] = sess[r] /\ Running(r)
        BY <1>2, <3>4, SubmitConsumes DEF Running
      <4>2. pending'[Presents[r]] # None => pending'[Presents[r]].c # sess[r].c
        BY <1>0, <1>2, <1>t, <4>1, SubmitConsumes DEF SingleUse, Running
      <4>3. ASSUME NEW q \in Sessions \ {r}, sess'[q].pc \in InHandler
            PROVE  sess'[q].c # sess[r].c
        <5>1. CASE q = s
          BY <3>1, <3>2, <3>4, <4>1, <4>3, <5>1 DEF Running
        <5>2. CASE q # s
          <6>1. sess'[q] = sess[q]
            BY <1>2, <5>2, SubmitConsumes
          <6> QED BY <1>0, <4>1, <4>3, <6>1 DEF SingleUse, Running
        <5> QED BY <5>1, <5>2
      <4>4. \A t \in tokens : t.c # sess[r].c
        BY <1>0, <4>1 DEF SingleUse, Running
      <4> QED BY <4>1, <4>2, <4>3, <4>4
    <3> QED BY <3>3, <3>4
  <2> QED BY <2>2, <2>3 DEF Claims
<1>3. ASSUME NEW s \in Sessions, Prove(s) \/ StoreUser(s) \/ Fail(s) PROVE Claims'
  <2>1. /\ Running(s) /\ UNCHANGED <<pending, minted, issue, tokens>>
        /\ users \subseteq users'
    BY <1>3 DEF Prove, StoreUser, Fail, Free, Running, InHandler
  <2>2. PICK pc \in {"storing", "stored", "rejected", "failed"} : Go(s, pc)
    BY <1>3 DEF Prove, StoreUser, Fail
  <2>3. /\ sess'[s].pc = pc /\ sess'[s].c = sess[s].c
        /\ \A r \in Sessions \ {s} : sess'[r] = sess[r]
    BY <1>0, <2>2, GoTypes DEF InHandler
  <2>4. \A r \in Sessions : Running(r)' => Running(r) /\ sess'[r].c = sess[r].c
    BY <2>1, <2>3 DEF Running
  <2>5. HandlerProved'
    <3>1. sess'[s].pc \in {"storing", "stored"} => Holds[s] = Presents[s]
      <4>1. CASE Prove(s)
        BY <1>0, <4>1, GoTypes DEF Prove, Proves, InHandler
      <4>2. CASE StoreUser(s)
        BY <1>0, <4>2 DEF StoreUser, HandlerProved
      <4>3. CASE Fail(s)
        BY <1>0, <4>3, GoTypes DEF Fail, InHandler
      <4> QED BY <1>3, <4>1, <4>2, <4>3
    <3>2. sess'[s].pc = "stored" => Presents[s] \in users'
      <4>1. CASE Prove(s)
        BY <1>0, <4>1, GoTypes DEF Prove, InHandler
      <4>2. CASE StoreUser(s)
        BY <4>2 DEF StoreUser
      <4>3. CASE Fail(s)
        BY <1>0, <4>3, GoTypes DEF Fail, InHandler
      <4> QED BY <1>3, <4>1, <4>2, <4>3
    <3> QED BY <1>0, <2>1, <2>3, <3>1, <3>2 DEF HandlerProved
  <2>6. SingleUse'
    BY <1>0, <2>1, <2>4 DEF SingleUse, Running
  <2>7. SpentForGood' /\ TokenProvesPossession' /\ TokenHasUser'
    BY <1>0, <2>1 DEF SpentForGood, TokenProvesPossession, TokenHasUser
  <2> QED BY <2>5, <2>6, <2>7 DEF Claims
<1>4. ASSUME NEW s \in Sessions, Sign(s) PROVE Claims'
  <2> DEFINE t == [fp |-> Presents[s], c |-> sess[s].c, sk |-> Holds[s], at |-> sess[s].at]
  <2>1. /\ Running(s) /\ sess[s].pc = "stored" /\ Go(s, "done")
        /\ tokens' = tokens \union {t}
        /\ UNCHANGED <<pending, users, minted, issue>>
    BY <1>4 DEF Sign, Running, InHandler
  <2>2. /\ sess'[s].pc = "done"
        /\ \A r \in Sessions \ {s} : sess'[r] = sess[r]
    BY <1>0, <2>1, GoTypes
  <2>3. ~Running(s)'
    BY <2>2 DEF Running, InHandler
  <2>4. TokenProvesPossession' /\ TokenHasUser'
    BY <1>0, <2>1 DEF TokenProvesPossession, TokenHasUser, HandlerProved, HandlerIssued
  <2>5. SpentForGood'
    <3> SUFFICES ASSUME NEW k \in Keys, pending[k] # None PROVE pending[k].c # t.c
      BY <1>0, <2>1 DEF SpentForGood
    <3>1. CASE k = Presents[s]
      BY <1>0, <2>1, <3>1 DEF SingleUse, Running
    <3>2. CASE k # Presents[s]
      BY <1>0, <2>1, <3>2 DEF PendingIssued, HandlerIssued
    <3> QED BY <3>1, <3>2
  <2>6. HandlerProved'
    BY <1>0, <2>1, <2>2 DEF HandlerProved
  <2>7. SingleUse'
    BY <1>0, <2>1, <2>2, <2>3 DEF SingleUse, Running
  <2> QED BY <2>4, <2>5, <2>6, <2>7 DEF Claims
<1>5. CASE PurgeChallenges
  <2>1. /\ UNCHANGED <<users, minted, sess, issue, tokens>>
        /\ \A k \in Keys : pending'[k] \in {None, pending[k]}
    BY <1>5 DEF PurgeChallenges
  <2> QED BY <1>0, <1>t, <2>1
          DEF Claims, HandlerProved, SpentForGood, TokenProvesPossession, SingleUse, TokenHasUser
<1>6. CASE Restart
  <2>1. /\ UNCHANGED <<users, minted, issue, tokens>>
        /\ \A k \in Keys : pending'[k] = None
    BY <1>6 DEF Restart
  <2>2. \A s \in Sessions : sess'[s].pc \notin InHandler
    <3> SUFFICES ASSUME NEW s \in Sessions PROVE sess'[s].pc \notin InHandler
      OBVIOUS
    <3>1. sess[s] \in Session
      BY <1>0 DEF TypeOK
    <3>2. sess'[s] = IF Free(s) THEN sess[s] ELSE [sess[s] EXCEPT !.pc = "failed"]
      BY <1>6 DEF Restart
    <3> QED BY <3>1, <3>2 DEF Session, Free, InHandler
  <2> QED BY <1>0, <2>1, <2>2
          DEF Claims, HandlerProved, SpentForGood, TokenProvesPossession, SingleUse, TokenHasUser,
              InHandler
<1>7. CASE Tick \/ UNCHANGED vars
  <2>1. UNCHANGED <<pending, users, minted, sess, issue, tokens>>
    BY <1>7 DEF Tick, vars
  <2> QED BY <1>0, <2>1
          DEF Claims, HandlerProved, SpentForGood, TokenProvesPossession, SingleUse, TokenHasUser
<1> QED BY <1>1, <1>2, <1>3, <1>4, <1>5, <1>6, <1>7 DEF Next

LEMMA ClaimsInit == Init => Claims
BY DEF Init, Claims, HandlerProved, SpentForGood, TokenProvesPossession, SingleUse, TokenHasUser,
       NewSession, InHandler

LEMMA Invariance == Spec => [](Provenance /\ Claims)
BY ProvenanceInit, ProvenanceStep, ClaimsInit, ClaimsStep, PTL DEF Spec

\* A token is only signed for a session that showed the secret key, in time, on
\* a challenge minted for that fingerprint (register).
THEOREM PossessionProved == Spec => []TokenProvesPossession
<1>1. Claims => TokenProvesPossession
  BY DEF Claims
<1> QED BY <1>1, Invariance, PTL

\* A challenge takes one handler past its consumption and yields one token
\* (pending_challenges.remove).
THEOREM UsedOnce == Spec => []SingleUse
<1>1. Claims => SingleUse
  BY DEF Claims
<1> QED BY <1>1, Invariance, PTL

\* The subject of every token has its row in users, across restarts (register
\* signs after the upsert).
THEOREM SubjectStored == Spec => []TokenHasUser
<1>1. Claims => TokenHasUser
  BY DEF Claims
<1> QED BY <1>1, Invariance, PTL

-----------------------------------------------------------------------------
(* Rejections                                                              *)

Replaced(i) == \E d \in (i + 1)..minted : issue[d].fp = issue[i].fp

\* Why a challenge is no longer outstanding.
Spent(i) ==
  \/ issue[i].expires <= now
  \/ Replaced(i)
  \/ takers[i] # {}
  \/ issue[i].key < regKey

Outstanding(i) == pending[issue[i].fp] # None /\ pending[issue[i].fp].c = i

\* Every challenge ever minted is outstanding, or it is known why it is not.
Fates ==
  \A i \in 1..minted : issue[i].key <= regKey /\ (Outstanding(i) \/ Spent(i))

\* A session's challenge was minted for its key, and it has not submitted it as
\* long as it is "challenged".
Answers ==
  \A s \in Sessions :
    /\ sess[s].c # 0 =>
         /\ sess[s].c \in 1..minted
         /\ issue[sess[s].c].fp = Presents[s]
         /\ issue[sess[s].c].key = sess[s].key
    /\ sess[s].pc \in {"challenged", "rejected"} => sess[s].c # 0
    /\ sess[s].pc = "challenged" => s \notin takers[sess[s].c]

Untaken == \A i \in Challenges : i > minted => takers[i] = {}

Causes == Fates /\ Answers /\ Untaken /\ RejectionExplained

\* The five causes, of the challenge a session has.
Explained(s) ==
  LET c == sess[s].c
  IN \/ issue[c].expires <= now
     \/ \E d \in (c + 1)..minted : issue[d].fp = Presents[s]
     \/ takers[c] \ {s} # {}
     \/ s \in takers[c] /\ sess[s].again
     \/ issue[c].key # regKey

\* What no step takes back.
LEMMA HistoryGrows ==
  ASSUME Provenance, [Next]_vars
  PROVE  /\ minted \in Nat /\ minted' \in Nat /\ minted <= minted'
         /\ now \in Nat /\ now' \in Nat /\ now <= now'
         /\ regKey \in Nat /\ regKey' \in Nat /\ regKey <= regKey'
         /\ \A i \in 1..minted : i \in 1..minted' /\ issue'[i] = issue[i]
         /\ \A i \in Challenges : takers[i] \subseteq takers'[i]
<1>0. TypeOK /\ TypeOK'
  BY ProvenanceStep DEF Provenance
<1>1. /\ minted \in Nat /\ minted' \in Nat /\ now \in Nat /\ now' \in Nat
      /\ regKey \in Nat /\ regKey' \in Nat
  BY <1>0, RegistrationAssumption DEF TypeOK
<1>2. minted <= minted' /\ now <= now' /\ regKey <= regKey'
  <2>1. /\ minted' = minted \/ minted' = minted + 1
        /\ now' = now \/ now' = now + 1
        /\ regKey' = regKey \/ regKey' = regKey + 1
    BY DEF Next, vars, Challenge, Submit, Prove, StoreUser, Sign, Fail, Tick,
           PurgeChallenges, Restart
  <2> QED BY <1>1, <2>1
<1>3. \A i \in Challenges : takers[i] \subseteq takers'[i]
  <2>1. ASSUME NEW s \in Sessions, Submit(s)
        PROVE  \A i \in Challenges : takers[i] \subseteq takers'[i]
    BY <1>0, <2>1 DEF Submit, Taken, TypeOK
  <2> QED BY <2>1 DEF Next, vars, Challenge, Prove, StoreUser, Sign, Fail, Tick,
                      PurgeChallenges, Restart
<1> QED BY <1>1, <1>2, <1>3, IssueStable

LEMMA SpentStays ==
  ASSUME Provenance, [Next]_vars, NEW i \in 1..minted, Spent(i)
  PROVE  Spent(i)'
<1>1. /\ minted \in Nat /\ minted' \in Nat /\ minted <= minted'
      /\ \A j \in 1..minted : issue'[j] = issue[j]
      /\ now \in Nat /\ now' \in Nat /\ now <= now'
      /\ regKey \in Nat /\ regKey' \in Nat /\ regKey <= regKey'
      /\ takers[i] \subseteq takers'[i]
  <2>1. i \in Challenges
    BY RegistrationAssumption DEF Provenance, TypeOK, Challenges
  <2> QED BY <2>1, HistoryGrows
<1>2. issue[i].expires \in Nat /\ issue[i].key \in Nat
  BY RegistrationAssumption DEF Provenance, TypeOK, Expiries
<1>3. CASE issue[i].expires <= now
  BY <1>1, <1>2, <1>3 DEF Spent
<1>4. CASE Replaced(i)
  <2>1. PICK d \in (i + 1)..minted : issue[d].fp = issue[i].fp
    BY <1>4 DEF Replaced
  <2>2. d \in (i + 1)..minted' /\ issue'[d].fp = issue'[i].fp
    BY <1>1, <2>1
  <2> QED BY <2>2 DEF Spent, Replaced
<1>5. CASE takers[i] # {}
  BY <1>1, <1>5 DEF Spent
<1>6. CASE issue[i].key < regKey
  BY <1>1, <1>2, <1>6 DEF Spent
<1> QED BY <1>3, <1>4, <1>5, <1>6 DEF Spent

\* An explained rejection stays explained while the session rests.
LEMMA ExplainedStays ==
  ASSUME Provenance, Fates, [Next]_vars, NEW s \in Sessions, sess[s].c \in 1..minted,
         sess'[s].c = sess[s].c, sess'[s].again = sess[s].again, Explained(s)
  PROVE  Explained(s)'
<1> DEFINE c == sess[s].c
<1>1. /\ minted \in Nat /\ minted' \in Nat /\ minted <= minted'
      /\ \A j \in 1..minted : issue'[j] = issue[j]
      /\ now \in Nat /\ now' \in Nat /\ now <= now'
      /\ regKey \in Nat /\ regKey' \in Nat /\ regKey <= regKey'
      /\ takers[c] \subseteq takers'[c]
  <2>1. c \in Challenges
    BY RegistrationAssumption DEF Provenance, TypeOK, Challenges
  <2> QED BY <2>1, HistoryGrows
<1>2. /\ issue[c].expires \in Nat /\ issue[c].key \in Nat /\ issue[c].key <= regKey
      /\ issue'[c] = issue[c]
  BY <1>1, RegistrationAssumption DEF Provenance, TypeOK, Expiries, Fates
<1>3. CASE issue[c].expires <= now
  BY <1>1, <1>2, <1>3 DEF Explained
<1>4. CASE \E d \in (c + 1)..minted : issue[d].fp = Presents[s]
  <2>1. PICK d \in (c + 1)..minted : issue[d].fp = Presents[s]
    BY <1>4
  <2>2. d \in (c + 1)..minted' /\ issue'[d].fp = Presents[s]
    BY <1>1, <2>1
  <2> QED BY <2>2 DEF Explained
<1>5. CASE takers[c] \ {s} # {}
  BY <1>1, <1>5 DEF Explained
<1>6. CASE s \in takers[c] /\ sess[s].again
  BY <1>1, <1>6 DEF Explained
<1>7. CASE issue[c].key # regKey
  BY <1>1, <1>2, <1>7 DEF Explained
<1> QED BY <1>3, <1>4, <1>5, <1>6, <1>7 DEF Explained

\* A step that leaves the sessions' challenges and answers alone.
LEMMA RestingExplained ==
  ASSUME Provenance, Causes, [Next]_vars, NEW s \in Sessions,
         sess'[s].pc = "rejected" => sess'[s] = sess[s]
  PROVE  sess'[s].pc = "rejected" /\ Holds[s] = Presents[s] => Explained(s)'
<1> SUFFICES ASSUME sess'[s].pc = "rejected", Holds[s] = Presents[s] PROVE Explained(s)'
  OBVIOUS
<1>1. sess[s].pc = "rejected" /\ sess[s].c \in 1..minted
  BY DEF Causes, Answers
<1>2. Explained(s)
  BY <1>1 DEF Causes, RejectionExplained, Explained
<1> QED BY <1>1, <1>2, ExplainedStays DEF Causes

LEMMA CausesStep == Provenance /\ Causes /\ [Next]_vars => Causes'
<1> SUFFICES ASSUME Provenance, Causes, [Next]_vars PROVE Causes'
  OBVIOUS
<1>0. /\ TypeOK /\ PendingIssued /\ HandlerIssued
      /\ Fates /\ Answers /\ Untaken /\ RejectionExplained
      /\ \A s \in Sessions : Presents[s] \in Keys
      /\ minted \in Nat /\ minted <= MaxChallenges
  BY RegistrationAssumption DEF Provenance, Causes, TypeOK
<1>r. ASSUME \A s \in Sessions : sess'[s].pc = "rejected" /\ Holds[s] = Presents[s] => Explained(s)'
      PROVE  RejectionExplained'
  BY <1>r DEF RejectionExplained, Explained
<1>i. \A i \in 1..minted : i \in 1..minted' /\ issue'[i] = issue[i] /\ i \in Challenges
  BY <1>0, HistoryGrows, RegistrationAssumption DEF Challenges
<1>k. \A i \in 1..minted : issue'[i].key <= regKey'
  <2> SUFFICES ASSUME NEW i \in 1..minted PROVE issue[i].key <= regKey'
    BY <1>i
  <2>1. issue[i].key \in Nat
    BY <1>0, RegistrationAssumption DEF TypeOK
  <2> QED BY <1>0, <2>1, HistoryGrows DEF Fates
<1>1. ASSUME NEW s \in Sessions, Challenge(s) PROVE Causes'
  <2>1. /\ minted' = minted + 1 /\ minted' \in Challenges
        /\ UNCHANGED <<regKey, now, takers>>
        /\ regKey \in Nat
    BY <1>0, <1>1, ChallengeMints, RegistrationAssumption DEF Challenge, Challenges, TypeOK
  <2>2. issue'[minted'].key = regKey
    BY <1>0, <1>1, <2>1 DEF Challenge
  <2>3. Fates'
    <3> SUFFICES ASSUME NEW i \in 1..minted'
                 PROVE  issue'[i].key <= regKey' /\ (Outstanding(i)' \/ Spent(i)')
      BY DEF Fates
    <3>1. CASE i = minted'
      <4>1. /\ issue'[minted'].fp = Presents[s] /\ Presents[s] \in Keys
            /\ pending'[Presents[s]] = [c |-> minted', expires |-> ExpiresAt(now)]
        BY <1>0, <1>1, ChallengeMints
      <4>2. [c |-> minted', expires |-> ExpiresAt(now)] # None
        <5>1. minted' \in Nat /\ ExpiresAt(now) \in Nat
          BY <1>0, <2>1, RegistrationAssumption DEF ExpiresAt, TypeOK, Challenges
        <5> QED BY <5>1, RegistrationAssumption
      <4> QED BY <2>1, <2>2, <3>1, <4>1, <4>2 DEF Outstanding
    <3>2. CASE i \in 1..minted /\ Spent(i)
      BY <1>k, <3>2, SpentStays
    <3>3. CASE i \in 1..minted /\ Outstanding(i)
      <4>1. issue[i].fp \in Keys /\ issue'[i] = issue[i]
        BY <1>0, <1>i, <3>3 DEF TypeOK
      <4>2. CASE issue[i].fp = Presents[s]
        <5>1. minted' \in (i + 1)..minted'
          BY <1>0, <2>1, <3>3
        <5>2. issue'[minted'].fp = issue'[i].fp
          BY <1>1, <4>1, <4>2, ChallengeMints
        <5> QED BY <1>k, <3>3, <5>1, <5>2 DEF Spent, Replaced
      <4>3. CASE issue[i].fp # Presents[s]
        <5>1. pending'[issue[i].fp] = pending[issue[i].fp]
          BY <1>1, <4>1, <4>3, ChallengeMints
        <5> QED BY <1>k, <3>3, <4>1, <5>1 DEF Outstanding
      <4> QED BY <4>2, <4>3
    <3>4. i = minted' \/ i \in 1..minted
      BY <1>0, <2>1
    <3> QED BY <1>0, <3>1, <3>2, <3>3, <3>4 DEF Fates
  <2>4. Answers'
    <3> SUFFICES ASSUME NEW r \in Sessions
                 PROVE  /\ sess'[r].c # 0 =>
                             /\ sess'[r].c \in 1..minted'
                             /\ issue'[sess'[r].c].fp = Presents[r]
                             /\ issue'[sess'[r].c].key = sess'[r].key
                        /\ sess'[r].pc \in {"challenged", "rejected"} => sess'[r].c # 0
                        /\ sess'[r].pc = "challenged" => r \notin takers'[sess'[r].c]
      BY DEF Answers
    <3>1. CASE r = s
      <4>1. takers[minted'] = {} /\ minted' \in 1..minted' /\ minted' # 0
        BY <1>0, <2>1 DEF Untaken
      <4>2. /\ sess'[s].c = minted' /\ sess'[s].key = regKey /\ sess'[s].pc = "challenged"
            /\ issue'[minted'].fp = Presents[s]
        BY <1>1, ChallengeMints
      <4> QED BY <2>1, <2>2, <3>1, <4>1, <4>2
    <3>2. CASE r # s
      BY <1>0, <1>1, <1>i, <2>1, <3>2, ChallengeMints DEF Answers
    <3> QED BY <3>1, <3>2
  <2>5. Untaken'
    BY <1>0, <2>1 DEF Untaken, Challenges
  <2>6. RejectionExplained'
    <3>1. \A r \in Sessions : sess'[r].pc = "rejected" => sess'[r] = sess[r]
      BY <1>1, ChallengeMints
    <3> QED BY <1>r, <3>1, RestingExplained
  <2> QED BY <2>3, <2>4, <2>5, <2>6 DEF Causes
<1>2. ASSUME NEW s \in Sessions, Submit(s) PROVE Causes'
  <2> DEFINE p == pending[Presents[s]]
  <2>1. /\ UNCHANGED <<minted, issue, now, regKey>> /\ sess[s].c # 0
        /\ sess'[s].c = sess[s].c /\ sess'[s].key = sess[s].key
        /\ sess'[s].again = (sess[s].pc # "challenged")
        /\ sess'[s].pc = IF Admits(s) THEN "proving" ELSE "rejected"
        /\ \A r \in Sessions \ {s} : sess'[r] = sess[r]
    BY <1>0, <1>2 DEF Submit, TypeOK
  <2>2. /\ p # None => p.c \in 1..minted /\ takers'[p.c] = takers[p.c] \union {s}
        /\ \A i \in Challenges : p = None \/ i # p.c => takers'[i] = takers[i]
    BY <1>0, <1>2, <1>i DEF Submit, Taken, TypeOK, PendingIssued
  <2>3. Fates'
    <3> SUFFICES ASSUME NEW i \in 1..minted PROVE Outstanding(i)' \/ Spent(i)'
      BY <1>0, <1>k, <2>1 DEF Fates
    <3>1. CASE Spent(i)
      BY <3>1, SpentStays
    <3>2. CASE Outstanding(i) /\ issue[i].fp = Presents[s]
      BY <2>2, <3>2 DEF Outstanding, Spent
    <3>3. CASE Outstanding(i) /\ issue[i].fp # Presents[s]
      <4>1. issue[i].fp \in Keys
        BY <1>0 DEF TypeOK
      <4> QED BY <1>2, <2>1, <3>3, <4>1, SubmitConsumes DEF Outstanding
    <3> QED BY <1>0, <3>1, <3>2, <3>3 DEF Fates
  <2>4. Answers'
    <3> SUFFICES ASSUME NEW r \in Sessions \ {s}, sess[r].pc = "challenged"
                 PROVE  r \notin takers'[sess[r].c]
      BY <1>0, <2>1 DEF Answers
    <3>1. sess[r].c \in Challenges /\ r \notin takers[sess[r].c]
      BY <1>0, <1>i DEF Answers
    <3> QED BY <2>2, <3>1
  <2>5. Untaken'
    BY <1>0, <2>1, <2>2 DEF Untaken
  <2>6. ASSUME sess'[s].pc = "rejected" PROVE Explained(s)'
    <3> DEFINE c == sess[s].c
    <3>1. /\ c \in 1..minted /\ c \in Challenges /\ issue[c].fp = Presents[s] /\ ~Admits(s)
          /\ takers[c] \subseteq Sessions
      BY <1>0, <1>i, <2>1, <2>6 DEF Answers, TypeOK
    <3>2. CASE Outstanding(c)
      <4>1. ~(now < issue[c].expires)
        BY <1>0, <3>1, <3>2 DEF Outstanding, Admits, PendingIssued
      <4>2. now \in Nat /\ issue[c].expires \in Nat
        BY <1>0, <3>1, RegistrationAssumption DEF TypeOK, Expiries
      <4> QED BY <2>1, <4>1, <4>2 DEF Explained
    <3>3. CASE ~Outstanding(c)
      <4>1. Spent(c)
        BY <1>0, <3>1, <3>3 DEF Fates
      <4>2. CASE issue[c].expires <= now \/ issue[c].key < regKey
        <5>1. issue[c].key \in Nat /\ regKey \in Nat
          BY <1>0, <3>1, RegistrationAssumption DEF TypeOK
        <5> QED BY <2>1, <4>2, <5>1 DEF Explained
      <4>3. CASE Replaced(c)
        BY <2>1, <3>1, <4>3 DEF Explained, Replaced
      <4>4. CASE takers[c] # {}
        <5>1. takers'[c] = takers[c]
          BY <2>2, <3>1, <3>3 DEF Outstanding
        <5>2. s \in takers[c] => sess'[s].again
          BY <1>0, <2>1 DEF Answers
        <5> QED BY <2>1, <4>4, <5>1, <5>2 DEF Explained
      <4> QED BY <4>1, <4>2, <4>3, <4>4 DEF Spent
    <3> QED BY <3>2, <3>3
  <2>7. RejectionExplained'
    <3>1. ASSUME NEW r \in Sessions \ {s}
          PROVE  sess'[r].pc = "rejected" /\ Holds[r] = Presents[r] => Explained(r)'
      BY <2>1, RestingExplained
    <3> QED BY <1>r, <2>6, <3>1
  <2> QED BY <2>3, <2>4, <2>5, <2>7 DEF Causes
<1>3. ASSUME NEW s \in Sessions, Prove(s) \/ StoreUser(s) \/ Sign(s) \/ Fail(s) PROVE Causes'
  <2>1. Running(s) /\ UNCHANGED <<pending, regKey, now, minted, issue, takers>>
    BY <1>3 DEF Prove, StoreUser, Sign, Fail, Free, Running, InHandler
  <2>2. /\ sess'[s].c = sess[s].c /\ sess'[s].key = sess[s].key
        /\ sess'[s].pc \in {"storing", "stored", "done", "rejected", "failed"}
        /\ sess'[s].pc = "rejected" => ~Proves(s)
        /\ \A r \in Sessions \ {s} : sess'[r] = sess[r]
    <3>1. CASE Prove(s)
      BY <1>0, <3>1 DEF Prove, Go, TypeOK
    <3>2. CASE StoreUser(s) \/ Sign(s) \/ Fail(s)
      <4>1. PICK pc \in {"stored", "done", "failed"} : Go(s, pc)
        BY <3>2 DEF StoreUser, Sign, Fail
      <4> QED BY <1>0, <4>1 DEF Go, TypeOK
    <3> QED BY <1>3, <3>1, <3>2
  <2>3. Fates' /\ Untaken'
    BY <1>0, <2>1 DEF Fates, Untaken, Outstanding, Spent, Replaced
  <2>4. sess[s].c \in 1..minted /\ sess[s].c # 0
    BY <1>0, <2>1 DEF HandlerIssued
  <2>5. Answers'
    BY <1>0, <2>1, <2>2, <2>4 DEF Answers
  <2>6. ASSUME sess'[s].pc = "rejected", Holds[s] = Presents[s] PROVE Explained(s)'
    <3>1. sess[s].key # regKey
      BY <2>2, <2>6 DEF Proves
    <3>2. issue[sess[s].c].key = sess[s].key
      BY <1>0, <2>4 DEF Answers
    <3> QED BY <2>1, <2>2, <3>1, <3>2 DEF Explained
  <2>7. RejectionExplained'
    <3>1. ASSUME NEW r \in Sessions \ {s}
          PROVE  sess'[r].pc = "rejected" /\ Holds[r] = Presents[r] => Explained(r)'
      BY <2>2, RestingExplained
    <3> QED BY <1>r, <2>6, <3>1
  <2> QED BY <2>3, <2>5, <2>7 DEF Causes
<1>4. CASE PurgeChallenges
  <2>1. /\ UNCHANGED <<regKey, now, minted, sess, issue, takers>>
        /\ \A k \in Keys : pending'[k] = IF Expired(k, now) THEN None ELSE pending[k]
    BY <1>4 DEF PurgeChallenges
  <2>2. Fates'
    <3> SUFFICES ASSUME NEW i \in 1..minted PROVE Outstanding(i)' \/ Spent(i)'
      BY <1>k, <2>1 DEF Fates
    <3>1. CASE Spent(i)
      BY <3>1, SpentStays
    <3>2. CASE Outstanding(i)
      <4>1. issue[i].fp \in Keys
        BY <1>0 DEF TypeOK
      <4>2. CASE Expired(issue[i].fp, now)
        <5>1. issue[i].expires <= now
          BY <1>0, <3>2, <4>1, <4>2 DEF Outstanding, PendingIssued, Expired
        <5> QED BY <2>1, <5>1 DEF Spent
      <4>3. CASE ~Expired(issue[i].fp, now)
        BY <2>1, <3>2, <4>1, <4>3 DEF Outstanding
      <4> QED BY <4>2, <4>3
    <3> QED BY <1>0, <3>1, <3>2 DEF Fates
  <2>3. Answers' /\ Untaken'
    BY <1>0, <2>1 DEF Answers, Untaken
  <2>4. RejectionExplained'
    BY <1>0, <2>1 DEF RejectionExplained
  <2> QED BY <2>2, <2>3, <2>4 DEF Causes
<1>5. CASE Restart
  <2>1. UNCHANGED <<now, minted, issue, takers>> /\ regKey' = regKey + 1 /\ regKey \in Nat
    BY <1>0, <1>5, RegistrationAssumption DEF Restart, TypeOK
  <2>2. Fates'
    <3> SUFFICES ASSUME NEW i \in 1..minted PROVE Spent(i)'
      BY <1>k, <2>1 DEF Fates
    <3>1. issue[i].key \in Nat /\ issue[i].key <= regKey
      BY <1>0, RegistrationAssumption DEF TypeOK, Fates
    <3> QED BY <2>1, <3>1 DEF Spent
  <2>3. \A s \in Sessions :
          /\ sess'[s].pc \in {"challenged", "rejected"} => sess'[s] = sess[s]
          /\ sess'[s].c = sess[s].c /\ sess'[s].key = sess[s].key
    <3> SUFFICES ASSUME NEW s \in Sessions
                 PROVE  /\ sess'[s].pc \in {"challenged", "rejected"} => sess'[s] = sess[s]
                        /\ sess'[s].c = sess[s].c /\ sess'[s].key = sess[s].key
      OBVIOUS
    <3>1. sess[s] \in Session
      BY <1>0 DEF TypeOK
    <3>2. sess'[s] = IF Free(s) THEN sess[s] ELSE [sess[s] EXCEPT !.pc = "failed"]
      BY <1>5 DEF Restart
    <3> QED BY <3>1, <3>2 DEF Session
  <2>4. Answers' /\ Untaken'
    BY <1>0, <2>1, <2>3 DEF Answers, Untaken
  <2>5. RejectionExplained'
    BY <1>r, <2>3, RestingExplained
  <2> QED BY <2>2, <2>4, <2>5 DEF Causes
<1>6. CASE Tick \/ UNCHANGED vars
  <2>1. UNCHANGED <<pending, regKey, minted, sess, issue, takers>>
    BY <1>6 DEF Tick, vars
  <2>2. Fates'
    <3> SUFFICES ASSUME NEW i \in 1..minted PROVE Outstanding(i)' \/ Spent(i)'
      BY <1>k, <2>1 DEF Fates
    <3>1. CASE Spent(i)
      BY <3>1, SpentStays
    <3>2. CASE Outstanding(i)
      BY <2>1, <3>2 DEF Outstanding
    <3> QED BY <1>0, <3>1, <3>2 DEF Fates
  <2>3. Answers' /\ Untaken'
    BY <1>0, <2>1 DEF Answers, Untaken
  <2>4. RejectionExplained'
    BY <1>r, <2>1, RestingExplained
  <2> QED BY <2>2, <2>3, <2>4 DEF Causes
<1> QED BY <1>1, <1>2, <1>3, <1>4, <1>5, <1>6 DEF Next

LEMMA CausesInit == Init => Causes
BY RegistrationAssumption
DEF Init, Causes, Fates, Answers, Untaken, RejectionExplained, NewSession, Challenges

\* Other users, the sweep and the passing of time within the lifetime never
\* turn an honest registration away (register, register_challenge).
THEOREM RejectionsExplained == Spec => []RejectionExplained
<1>1. Causes => RejectionExplained
  BY DEF Causes
<1> QED BY <1>1, ProvenanceInit, ProvenanceStep, CausesInit, CausesStep, PTL DEF Spec
=============================================================================
