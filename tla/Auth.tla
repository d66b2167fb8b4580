-------------------------------- MODULE Auth --------------------------------
(***************************************************************************)
(* Signing in: packages/auth/src/service.ts over the tables of             *)
(* store-postgres/src/auth-store.ts, behind the /v1/auth routes of         *)
(* apps/api/src/server.ts.  Every statement is a step of its own, so two   *)
(* processes may verify one nonce, or rotate one token, side by side; the  *)
(* instant a request is judged by is read once, when it arrives.           *)
(*                                                                         *)
(* A signature is the wallet that made it over the stored message, or      *)
(* NoOne when it is of another message or is no signature.  Nonces and     *)
(* tokens are numbers in the order they are drawn: 128 and 256 random bits *)
(* do not collide.  A fingerprint identifies its token.                    *)
(***************************************************************************)
EXTENDS Integers, FiniteSets

CONSTANTS Addresses, NoOne,
          Slots,             \* requests the servers may be handling at once
          Threads,           \* recovery threads of the pool
          CHALLENGE_TTL, SESSION_TTL,
          MaxNonces, MaxTokens, MaxClock, MaxDeaths   \* bounds

ASSUME AuthAssumption ==
  /\ NoOne \notin Addresses
  /\ CHALLENGE_TTL \in Nat /\ SESSION_TTL \in Nat
  /\ Threads \in Nat \ {0}
  /\ MaxNonces \in Nat /\ MaxTokens \in Nat /\ MaxClock \in Nat /\ MaxDeaths \in Nat

Nonces == 1..MaxNonces
Tokens == 1..MaxTokens

VARIABLES clock,
          nonces,      \* nonces drawn so far
          tokens,      \* tokens drawn so far
          challenges,  \* auth_challenges: [nonce, wallet, expires, used]
          rows,        \* auth_sessions: [token, wallet, expires, revoked]
          calls,       \* calls[k]: the request in slot k
          turn, dead,  \* the pool: the thread to post to next; threads that died
          signIns      \* history: [nonce, signer, token] of every sign-in

poolVars == <<turn, dead>>
authVars == <<clock, nonces, tokens, challenges, rows, calls, poolVars, signIns>>

NoCall == [kind |-> "none", step |-> "done", at |-> 0, nonce |-> 0, token |-> 0,
           claimed |-> NoOne, wallet |-> NoOne, signer |-> NoOne, thread |-> 0, next |-> 0]

AuthInit ==
  /\ clock = 0 /\ nonces = 0 /\ tokens = 0
  /\ challenges = {} /\ rows = {}
  /\ calls = [k \in Slots |-> NoCall]
  /\ turn = 0 /\ dead = {}
  /\ signIns = {}

Go(k, call) == calls' = [calls EXCEPT ![k] = call]

\* The answer a finished request carries: the token it issued, or 0.
Finish(k, token) ==
  Go(k, [NoCall EXCEPT !.kind = calls[k].kind, !.token = calls[k].token,
                       !.wallet = calls[k].wallet, !.next = token])

-----------------------------------------------------------------------------
\* POST /v1/auth/challenge on the right chain, within the rate limit: a nonce
\* is drawn and saved with the message naming its wallet.
challenge(w) ==
  /\ nonces < MaxNonces
  /\ nonces' = nonces + 1
  /\ challenges' = challenges \cup
       {[nonce |-> nonces + 1, wallet |-> w, expires |-> clock + CHALLENGE_TTL, used |-> FALSE]}
  /\ UNCHANGED <<clock, tokens, rows, poolVars, signIns>>

\* POST /v1/auth/verify arrives with a nonce, a signature and the wallet the
\* client says it is.
verify(k, n, signer, claimed) ==
  /\ calls[k].step = "done"
  /\ Go(k, [NoCall EXCEPT !.kind = "verify", !.step = "consume", !.at = clock,
              !.nonce = n, !.signer = signer, !.claimed = claimed])
  /\ UNCHANGED <<clock, nonces, tokens, challenges, rows, poolVars, signIns>>

Consumable(c, call) == c.nonce = call.nonce /\ ~c.used /\ c.expires > call.at

\* The pool's recover: posted to the threads in turn, a dead one among them.
Post(call, w) ==
  [call EXCEPT !.step = "recover", !.wallet = w, !.thread = turn]

\* Mutation: the challenge is read and not marked.
ConsumeByReading(k) ==
  /\ calls[k].kind = "verify" /\ calls[k].step = "consume"
  /\ \/ \E c \in challenges :
          /\ Consumable(c, calls[k])
          /\ Go(k, Post(calls[k], c.wallet))
          /\ turn' = (turn + 1) % Threads
     \/ /\ ~ \E c \in challenges : Consumable(c, calls[k])
        /\ Finish(k, 0)
        /\ turn' = turn
  /\ UNCHANGED <<clock, nonces, tokens, challenges, rows, dead, signIns>>

\* consumeChallenge: one conditional UPDATE ... RETURNING; whoever wins it goes
\* on to recover the signer, and a challenge is spent whatever comes of that.
consumeChallenge(k) ==
  /\ calls[k].kind = "verify" /\ calls[k].step = "consume"
  /\ \/ \E c \in challenges :
          /\ Consumable(c, calls[k])
          /\ challenges' = (challenges \ {c}) \cup {[c EXCEPT !.used = TRUE]}
          /\ Go(k, Post(calls[k], c.wallet))
          /\ turn' = (turn + 1) % Threads
     \/ /\ ~ \E c \in challenges : Consumable(c, calls[k])
        /\ Finish(k, 0)
        /\ UNCHANGED <<challenges, turn>>
  /\ UNCHANGED <<clock, nonces, tokens, rows, dead, signIns>>

\* verifySignedChallenge: the thread answers, and the signer is compared with
\* the wallet the challenge was issued for.  The message is the stored one, so
\* its domain and chain are the deployment's and its expiry was checked.
verifySignedChallenge(k) ==
  LET call == calls[k] IN
  /\ call.kind = "verify" /\ call.step = "recover"
  /\ call.thread \notin dead
  /\ IF call.signer = call.wallet THEN Go(k, [call EXCEPT !.step = "issue"]) ELSE Finish(k, 0)
  /\ UNCHANGED <<clock, nonces, tokens, challenges, rows, poolVars, signIns>>

\* A thread dies: every recovery in flight, whichever thread has it, is
\* rejected and is a refused sign-in.  The pool keeps posting to the thread.
PoolError(thread) ==
  /\ thread \notin dead /\ Cardinality(dead) < MaxDeaths
  /\ dead' = dead \cup {thread}
  /\ calls' = [k \in Slots |->
       IF calls[k].kind = "verify" /\ calls[k].step = "recover"
         THEN [NoCall EXCEPT !.kind = "verify"] ELSE calls[k]]
  /\ UNCHANGED <<clock, nonces, tokens, challenges, rows, turn, signIns>>

\* #issue: a token is drawn and its session inserted.
createSession(w, at) ==
  /\ tokens < MaxTokens
  /\ tokens' = tokens + 1
  /\ rows' = rows \cup {[token |-> tokens + 1, wallet |-> w, expires |-> at + SESSION_TTL,
                         revoked |-> FALSE]}

\* The verified wallet is given a session; the route then refuses a client that
\* named another wallet, and nobody is told the token.
IssueVerified(k) ==
  LET call == calls[k] IN
  /\ call.kind = "verify" /\ call.step = "issue"
  /\ createSession(call.signer, call.at)
  /\ signIns' = signIns \cup {[nonce |-> call.nonce, signer |-> call.signer, token |-> tokens + 1]}
  /\ Finish(k, IF call.claimed = call.signer THEN tokens + 1 ELSE 0)
  /\ UNCHANGED <<clock, nonces, challenges, poolVars>>

-----------------------------------------------------------------------------
LiveAt(t, at) == \E r \in rows : r.token = t /\ ~r.revoked /\ r.expires > at

WalletOfToken(t) == (CHOOSE r \in rows : r.token = t).wallet

\* revokeSession: the first revocation of a row is the one that counts.
Revoked(t) ==
  {IF r.token = t THEN [r EXCEPT !.revoked = TRUE] ELSE r : r \in rows}

\* POST /v1/auth/session/rotate: read, issue, revoke, in three statements.
rotate(k, t) ==
  /\ calls[k].step = "done"
  /\ Go(k, [NoCall EXCEPT !.kind = "rotate", !.step = "read", !.at = clock, !.token = t])
  /\ UNCHANGED <<clock, nonces, tokens, challenges, rows, poolVars, signIns>>

RotateRead(k) ==
  LET call == calls[k] IN
  /\ call.kind = "rotate" /\ call.step = "read"
  /\ IF LiveAt(call.token, call.at)
       THEN Go(k, [call EXCEPT !.step = "issue", !.wallet = WalletOfToken(call.token)])
       ELSE Finish(k, 0)
  /\ UNCHANGED <<clock, nonces, tokens, challenges, rows, poolVars, signIns>>

RotateIssue(k) ==
  LET call == calls[k] IN
  /\ call.kind = "rotate" /\ call.step = "issue"
  /\ createSession(call.wallet, call.at)
  /\ Go(k, [call EXCEPT !.step = "revoke", !.next = tokens + 1])
  /\ UNCHANGED <<clock, nonces, challenges, poolVars, signIns>>

RotateRevoke(k) ==
  /\ calls[k].kind = "rotate" /\ calls[k].step = "revoke"
  /\ rows' = Revoked(calls[k].token)
  /\ Finish(k, calls[k].next)
  /\ UNCHANGED <<clock, nonces, tokens, challenges, poolVars, signIns>>

\* DELETE /v1/auth/session.
revoke(k, t) ==
  /\ calls[k].step = "done"
  /\ rows' = Revoked(t)
  /\ Go(k, [NoCall EXCEPT !.kind = "revoke"])
  /\ UNCHANGED <<clock, nonces, tokens, challenges, poolVars, signIns>>

\* The operator ends every live session of a wallet.
revokeEverySession(w) ==
  /\ \E r \in rows : r.wallet = w /\ ~r.revoked /\ r.expires > clock
  /\ rows' = {IF r.wallet = w /\ r.expires > clock THEN [r EXCEPT !.revoked = TRUE] ELSE r
                : r \in rows}
  /\ UNCHANGED <<clock, nonces, tokens, challenges, calls, poolVars, signIns>>

\* pruneExpired, hourly: expired challenges and then expired sessions go.
pruneExpired ==
  /\ \/ /\ challenges' = {c \in challenges : c.expires > clock}
        /\ challenges' # challenges
        /\ rows' = rows
     \/ /\ rows' = {r \in rows : r.expires > clock}
        /\ rows' # rows
        /\ challenges' = challenges
  /\ UNCHANGED <<clock, nonces, tokens, calls, poolVars, signIns>>

AuthTick ==
  /\ clock < MaxClock
  /\ clock' = clock + 1
  /\ UNCHANGED <<nonces, tokens, challenges, rows, calls, poolVars, signIns>>

\* A statement of a request under way.
ServerStep(k) ==
  \/ consumeChallenge(k) \/ verifySignedChallenge(k) \/ IssueVerified(k)
  \/ RotateRead(k) \/ RotateIssue(k) \/ RotateRevoke(k)

\* The routes, whoever calls them: any nonce with any signature, any token.
AuthNext ==
  \/ \E w \in Addresses : challenge(w) /\ calls' = calls
  \/ \E k \in Slots :
       \/ \E n \in Nonces, signer \in Addresses \cup {NoOne}, claimed \in Addresses :
            verify(k, n, signer, claimed)
       \/ \E t \in Tokens : rotate(k, t) \/ revoke(k, t)
       \/ ServerStep(k)
  \/ \E w \in Addresses : revokeEverySession(w)
  \/ \E thread \in 0..(Threads - 1) : PoolError(thread)
  \/ pruneExpired \/ AuthTick

AuthSpec == AuthInit /\ [][AuthNext]_authVars

-----------------------------------------------------------------------------
\* The tables and the requests are well formed.
AuthTypeOK ==
  /\ clock \in 0..MaxClock /\ nonces \in 0..MaxNonces /\ tokens \in 0..MaxTokens
  /\ challenges \subseteq [nonce : 1..nonces, wallet : Addresses, expires : Nat, used : BOOLEAN]
  /\ rows \subseteq [token : 1..tokens, wallet : Addresses, expires : Nat, revoked : BOOLEAN]
  /\ calls \in [Slots -> [kind : {"none", "verify", "rotate", "revoke"},
                          step : {"done", "consume", "recover", "issue", "read", "revoke"},
                          at : Nat, nonce : Nat, token : Nat,
                          claimed : Addresses \cup {NoOne}, wallet : Addresses \cup {NoOne},
                          signer : Addresses \cup {NoOne}, thread : 0..(Threads - 1), next : Nat]]
  /\ turn \in 0..(Threads - 1) /\ dead \subseteq 0..(Threads - 1)
  /\ signIns \subseteq [nonce : 1..nonces, signer : Addresses, token : 1..tokens]

\* A credential is spent once.  Two verifications of one nonce, in whatever
\* order their statements run and whatever is pruned between, never both get a
\* session (auth-store.ts:41-66, service.ts:138-167); and a rotation that has
\* answered has ended the token it was asked to replace (service.ts:192-212,
\* "the old one revoked"), although reading, issuing and revoking are three
\* statements.
CredentialsAreSpent ==
  /\ \A a, b \in signIns : a.nonce = b.nonce => a = b
  /\ \A k \in Slots :
       calls[k].kind = "rotate" /\ calls[k].step = "done" /\ calls[k].next # 0 =>
         ~LiveAt(calls[k].token, clock)

=============================================================================
