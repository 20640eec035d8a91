---------------------------- MODULE Registration ----------------------------
(***************************************************************************)
(* Proof-of-possession registration (server/src/lib.rs, register_challenge *)
(* and register; client/src/main.ts, register).  A session asks for a      *)
(* challenge for the public key it presents, boxes it with the secret key  *)
(* it holds, and submits it; the server consumes the outstanding           *)
(* challenge, checks the proof, stores the user and signs a token.         *)
(*                                                                         *)
(* A key pair is one value: it stands for the public key, for the          *)
(* fingerprint derived from it, and for the secret key.  A challenge is    *)
(* the number of its minting, so fresh challenges are distinct.  The       *)
(* server's handler is split at its awaits.                                *)
(***************************************************************************)
EXTENDS Naturals

CONSTANTS
  Keys,           \* key pairs
  Sessions,       \* client sessions (tabs, devices)
  Presents,       \* Sessions -> Keys: the public key a session registers
  Holds,          \* Sessions -> Keys: the secret key it has
  TTL,            \* CHALLENGE_TTL_SEC, in ticks
  MaxChallenges,  \* bound: challenges minted
  MaxClock,       \* bound: the last instant
  MaxRestarts,    \* bound: server restarts
  None

ASSUME RegistrationAssumption ==
  /\ Presents \in [Sessions -> Keys]
  /\ Holds \in [Sessions -> Keys]
  /\ TTL \in Nat \ {0}
  /\ MaxChallenges \in Nat /\ MaxClock \in Nat /\ MaxRestarts \in Nat
  /\ None \notin [c : Nat, expires : Nat]

VARIABLES
  pending,   \* pending_challenges: Keys -> [c, expires] or None
  users,     \* rows of `users`
  regKey,    \* which registration key pair the server process has
  now,
  minted,    \* number of challenges minted
  sess,      \* Sessions -> [pc, c, key, at, again]; again: the challenge was
             \* submitted by this session before
  \* history
  issue,     \* challenge -> [fp, expires, key]: what it was minted for
  tokens,    \* tokens signed: [fp, c, sk, at]
  takers     \* challenge -> the sessions that consumed it

vars == <<pending, users, regKey, now, minted, sess, issue, tokens, takers>>

Challenges == 1..MaxChallenges
NewSession == [pc |-> "idle", c |-> 0, key |-> 0, at |-> 0, again |-> FALSE]

\* "proving", "storing" and "stored" are the awaits of the register handler.
InHandler == {"proving", "storing", "stored"}

Session == [pc : {"idle", "challenged", "done", "rejected", "failed"} \union InHandler,
            c : 0..MaxChallenges, key : 0..MaxRestarts, at : 0..MaxClock,
            again : BOOLEAN]

Expiries == TTL..(MaxClock + TTL)

TypeOK ==
  /\ pending \in [Keys -> [c : Challenges, expires : Expiries] \union {None}]
  /\ users \subseteq Keys
  /\ regKey \in 0..MaxRestarts
  /\ now \in 0..MaxClock
  /\ minted \in 0..MaxChallenges
  /\ sess \in [Sessions -> Session]
  /\ issue \in [1..minted -> [fp : Keys, expires : Expiries, key : 0..MaxRestarts]]
  /\ tokens \subseteq [fp : Keys, c : Challenges, sk : Keys, at : 0..MaxClock]
  /\ takers \in [Challenges -> SUBSET Sessions]

Init ==
  /\ pending = [k \in Keys |-> None]
  /\ users = {}
  /\ regKey = 0
  /\ now = 0
  /\ minted = 0
  /\ sess = [s \in Sessions |-> NewSession]
  /\ issue = <<>>
  /\ tokens = {}
  /\ takers = [c \in Challenges |-> {}]

Go(s, pc) == sess' = [sess EXCEPT ![s].pc = pc]
Free(s) == sess[s].pc \notin InHandler

-----------------------------------------------------------------------------
(* The protocol                                                            *)

\* Mutant: the lifetime is not added.
ExpiresAtOnce(t) == t

ExpiresAt(t) == t + TTL

\* register_challenge: a fresh challenge replaces the outstanding one.  The
\* answer carries the server's current registration key.
Challenge(s) ==
  LET c == minted + 1
      fp == Presents[s]
  IN /\ Free(s)
     /\ minted < MaxChallenges
     /\ minted' = c
     /\ pending' = [pending EXCEPT ![fp] = [c |-> c, expires |-> ExpiresAt(now)]]
     /\ issue' = [i \in 1..c |-> IF i = c THEN [fp |-> fp, expires |-> ExpiresAt(now), key |-> regKey]
                                ELSE issue[i]]
     /\ sess' = [sess EXCEPT ![s] = [pc |-> "challenged", c |-> c, key |-> regKey,
                                        at |-> 0, again |-> FALSE]]
     /\ UNCHANGED <<users, regKey, now, tokens, takers>>

\* Mutant: the challenge is looked up, not removed.
ConsumeKeeps(s) == UNCHANGED pending

\* pending_challenges.remove(fingerprint)
Consume(s) == pending' = [pending EXCEPT ![Presents[s]] = None]

\* Whom a removed challenge went to (history).
Taken(s) ==
  LET p == pending[Presents[s]]
  IN takers' = IF p = None THEN takers ELSE [takers EXCEPT ![p.c] = @ \union {s}]

\* What the handler checks before its first await, on the removed challenge:
\* there is one, it has not expired, and it is the one that was echoed.
Admits(s) ==
  LET p == pending[Presents[s]]
  IN p # None /\ now < p.expires /\ sess[s].c = p.c

\* register up to the lock on the registration key.  A session may submit the
\* same proof again (a retry of a request whose answer was lost).
Submit(s) ==
  /\ Free(s)
  /\ sess[s].c # 0
  /\ Consume(s)
  /\ Taken(s)
  /\ sess' = [sess EXCEPT ![s].pc = IF Admits(s) THEN "proving" ELSE "rejected",
                          ![s].at = now,
                          ![s].again = sess[s].pc # "challenged"]
  /\ UNCHANGED <<users, regKey, now, minted, issue, tokens>>

\* Mutant: the key of the proof is not compared with the key presented (the
\* handler trusts that the box opened).
ProvesAnyKey(s) == sess[s].key = regKey

\* The box opens with the secret half of the server's current key if it was
\* made for that key with the secret half of the presented one; the payload
\* is the challenge itself.
Proves(s) == Holds[s] = Presents[s] /\ sess[s].key = regKey

Prove(s) ==
  /\ sess[s].pc = "proving"
  /\ Go(s, IF Proves(s) THEN "storing" ELSE "rejected")
  /\ UNCHANGED <<pending, users, regKey, now, minted, issue, tokens, takers>>

\* The upsert into `users`.
StoreUser(s) ==
  /\ sess[s].pc = "storing"
  /\ users' = users \union {Presents[s]}
  /\ Go(s, "stored")
  /\ UNCHANGED <<pending, regKey, now, minted, issue, tokens, takers>>

\* Mutant: the token is signed while the upsert is still on its way.
SignEarly(s) ==
  /\ sess[s].pc \in {"storing", "stored"}
  /\ tokens' = tokens \union
       {[fp |-> Presents[s], c |-> sess[s].c, sk |-> Holds[s], at |-> sess[s].at]}
  /\ Go(s, "done")
  /\ UNCHANGED <<pending, users, regKey, now, minted, issue, takers>>

\* sign_jwt and the answer.
Sign(s) ==
  /\ sess[s].pc = "stored"
  /\ tokens' = tokens \union
       {[fp |-> Presents[s], c |-> sess[s].c, sk |-> Holds[s], at |-> sess[s].at]}
  /\ Go(s, "done")
  /\ UNCHANGED <<pending, users, regKey, now, minted, issue, takers>>

\* The handler ends at one of its awaits: the upsert failed (500), or the
\* client hung up and the server dropped the future.
Fail(s) ==
  /\ ~Free(s)
  /\ Go(s, "failed")
  /\ UNCHANGED <<pending, users, regKey, now, minted, issue, tokens, takers>>

-----------------------------------------------------------------------------
(* Time, the sweep, restarts                                               *)

Tick ==
  /\ now < MaxClock
  /\ now' = now + 1
  /\ UNCHANGED <<pending, users, regKey, minted, sess, issue, tokens, takers>>

Expired(k, t) == pending[k] # None /\ pending[k].expires <= t

\* Mutant: the sweep drops what expires by its next round.
PurgeChallengesAhead ==
  /\ \E k \in Keys : Expired(k, now + 1)
  /\ pending' = [k \in Keys |-> IF Expired(k, now + 1) THEN None ELSE pending[k]]
  /\ UNCHANGED <<users, regKey, now, minted, sess, issue, tokens, takers>>

\* purge_challenges: retain those with expires_at > now.
PurgeChallenges ==
  /\ \E k \in Keys : Expired(k, now)
  /\ pending' = [k \in Keys |-> IF Expired(k, now) THEN None ELSE pending[k]]
  /\ UNCHANGED <<users, regKey, now, minted, sess, issue, tokens, takers>>

\* build_state runs again: a new registration key, no pending challenges, and
\* the handlers that were running are gone; `users` is in the database.
Restart ==
  /\ regKey < MaxRestarts
  /\ regKey' = regKey + 1
  /\ pending' = [k \in Keys |-> None]
  /\ sess' = [s \in Sessions |->
                IF Free(s) THEN sess[s] ELSE [sess[s] EXCEPT !.pc = "failed"]]
  /\ UNCHANGED <<users, now, minted, issue, tokens, takers>>

Next ==
  \/ \E s \in Sessions : Challenge(s)
  \/ \E s \in Sessions : Submit(s)
  \/ \E s \in Sessions : Prove(s)
  \/ \E s \in Sessions : StoreUser(s)
  \/ \E s \in Sessions : Sign(s)
  \/ \E s \in Sessions : Fail(s)
  \/ Tick
  \/ PurgeChallenges
  \/ Restart

Spec == Init /\ [][Next]_vars

-----------------------------------------------------------------------------
(* Properties                                                              *)

\* A token for a fingerprint exists only if a session that holds the secret
\* key answered, in time, a challenge minted for that fingerprint.
TokenProvesPossession ==
  \A t \in tokens :
    /\ t.sk = t.fp
    /\ t.c \in 1..minted
    /\ issue[t.c].fp = t.fp
    /\ t.at < issue[t.c].expires

\* "Single-use": no two handlers are past the consumption of one challenge,
\* and none is once a token was signed for it.
SingleUse ==
  \A s \in Sessions : sess[s].pc \in InHandler =>
    /\ pending[Presents[s]] # None => pending[Presents[s]].c # sess[s].c
    /\ \A r \in Sessions \ {s} : sess[r].pc \in InHandler => sess[r].c # sess[s].c
    /\ \A t \in tokens : t.c # sess[s].c

\* A signed token's subject is a stored user, and stays one across restarts:
\* post_message and /v1/me never answer "unknown user" to a fresh token.
TokenHasUser == \A t \in tokens : t.fp \in users

\* An honest session is turned away only for one of five causes: its challenge
\* expired, was replaced by a newer one for the same key, was consumed by
\* another session's attempt for that key or by an earlier attempt of its own,
\* or the server restarted.  Sessions with other keys and the sweep are no
\* cause.
RejectionExplained ==
  \A s \in Sessions :
    (sess[s].pc = "rejected" /\ Holds[s] = Presents[s]) =>
      LET c == sess[s].c
      IN \/ issue[c].expires <= now
         \/ \E d \in (c + 1)..minted : issue[d].fp = Presents[s]
         \/ takers[c] \ {s} # {}
         \/ s \in takers[c] /\ sess[s].again
         \/ issue[c].key # regKey
=============================================================================
