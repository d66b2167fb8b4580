---------------------------- MODULE RewardClaims ----------------------------
(***************************************************************************)
(* Published rewards after publication: the reader that follows the        *)
(* distributor's Claimed events into the record (apps/server/src/claims.ts *)
(* over log-scan.ts and claim-store.ts), the API's answer to a wallet      *)
(* (server.ts, main.ts), and the rewards page of the web app with the      *)
(* claims it walks through the player's wallet (useRewardClaims.ts,        *)
(* useSecretClaim.ts, claim-runner.ts, wallet-provider.ts).                *)
(*                                                                         *)
(* The contracts are what each has paid and in which block; a claim that   *)
(* was paid before, or whose proof is another wallet's, reverts.           *)
(***************************************************************************)
EXTENDS Integers, Sequences, FiniteSets, SequencesExt

CONSTANTS Wallets,
          Dists,               \* published distributions
          Secret,              \* the vault's reward, the other claimable thing
          Entitled,            \* <<claimable, wallet>>: allocations and reservations
          Foreign,             \* <<distribution, wallet>> another deployment allocated
          Readers,             \* claim readers: one per server process
          NONE,
          MAX_BLOCKS_PER_READ,
          LogCap,              \* the logs the endpoint returns to one query
          MaxBlock, MaxSends, MaxTokens, MaxFaults   \* bounds

ASSUME ClaimsAssumption ==
  /\ Entitled \subseteq (Dists \cup {Secret}) \X Wallets
  /\ Foreign \subseteq Dists \X Wallets /\ Foreign \cap Entitled = {}
  /\ MAX_BLOCKS_PER_READ \in Nat \ {0} /\ LogCap \in Nat \ {0}
  /\ {MaxBlock, MaxSends, MaxTokens, MaxFaults} \subseteq Nat

VARIABLES head,       \* the chain's latest block
          paidAt,     \* paidAt[p]: the block that paid <<claimable, wallet>> p, or -1
          recorded,   \* reward_claims
          cursor,     \* indexer_cursors['reward-claims']; -1: no row
          reader,     \* reader[r]: one turn of followClaims
          session,    \* the page's authorization: its wallet and token number, or NONE
          active,     \* whether the rewards page is open
          fetch,      \* fetch[h]: the hook's read in flight
          latest,     \* latest[h]: the last answer it kept
          progress,   \* progress[c]: where the page says the claim has got to
          running,    \* running[c]: one sendClaim, or NONE
          sent,        \* transactions the wallet sent
          account, onChain,  \* the wallet's selected account; whether on this network
          faults      \* requests that failed so far

chainVars == <<head, paidAt>>
readerVars == <<recorded, cursor, reader>>
pageVars == <<session, active, fetch, latest, progress, running, sent, account, onChain>>
claimsVars == <<chainVars, readerVars, pageVars, faults>>

Claimables == Dists \cup {Secret}
Pairs == Entitled \cup Foreign
Waiting == [at |-> "waiting", head |-> 0, to |-> 0, pending |-> << >>, found |-> {}]
Hooks == {"rewards", "secret"}
Hook(c) == IF c = Secret THEN "secret" ELSE "rewards"

ClaimsInit ==
  /\ head = 0 /\ paidAt = [p \in Pairs |-> -1]
  /\ recorded = {} /\ cursor = -1
  /\ reader = [r \in Readers |-> Waiting]
  /\ session = NONE /\ active = FALSE
  /\ fetch = [h \in Hooks |-> NONE] /\ latest = [h \in Hooks |-> NONE]
  /\ progress = [c \in Claimables |-> "none"]
  /\ running = [c \in Claimables |-> NONE]
  /\ sent = << >>
  /\ account \in Wallets /\ onChain = TRUE
  /\ faults = 0

Fault == faults < MaxFaults /\ faults' = faults + 1

-----------------------------------------------------------------------------
(* The chain.                                                              *)

\* A block with the claims of players whose pages are not modelled.
Block ==
  /\ head < MaxBlock
  /\ head' = head + 1
  /\ \E p \in {q \in Pairs : q[1] # Secret /\ paidAt[q] = -1} \cup {NONE} :
       paidAt' = IF p = NONE THEN paidAt ELSE [paidAt EXCEPT ![p] = head + 1]
  /\ UNCHANGED <<readerVars, pageVars, faults>>

\* The claim contracts settle a transaction: claim(id, account, amount, proof)
\* and the vault's claim() pay once, and the proof must be the account's.
MineTx(n) ==
  LET tx == sent[n] p == <<tx.claimable, tx.wallet>>
      pays == p \in Entitled /\ paidAt[p] = -1 /\ tx.proofOf = tx.wallet
  IN
  /\ tx.state = "pending" /\ head < MaxBlock
  /\ head' = head + 1
  /\ paidAt' = IF pays THEN [paidAt EXCEPT ![p] = head + 1] ELSE paidAt
  /\ sent' = [sent EXCEPT ![n].state = IF pays THEN "succeeded" ELSE "reverted"]
  /\ UNCHANGED <<readerVars, session, active, fetch, latest, progress, running,
                 account, onChain, faults>>

-----------------------------------------------------------------------------
(* followClaims: one turn of the loop is read the head, read the cursor,   *)
(* scan the logs, record each claim, advance the cursor; an error anywhere *)
(* ends the turn and the next one starts after READ_INTERVAL_MS.           *)

ReadHead(r) ==
  /\ reader[r].at = "waiting"
  /\ reader' = [reader EXCEPT ![r] = [Waiting EXCEPT !.at = "cursor", !.head = head]]
  /\ UNCHANGED <<chainVars, recorded, cursor, pageVars, faults>>

ReadCursor(r) ==
  LET from == cursor + 1
      to == IF reader[r].head - from + 1 > MAX_BLOCKS_PER_READ
              THEN from + MAX_BLOCKS_PER_READ - 1 ELSE reader[r].head
  IN
  /\ reader[r].at = "cursor"
  /\ reader' = [reader EXCEPT ![r] =
       IF from <= @.head
         THEN [@ EXCEPT !.at = "scan", !.to = to, !.pending = << <<from, to>> >>]
         ELSE Waiting]
  /\ UNCHANGED <<chainVars, recorded, cursor, pageVars, faults>>

LogsIn(start, end) == {p \in Pairs : p[1] # Secret /\ paidAt[p] \in start..end}

\* The range read first is done, and what its logs tell is found.
Read(t, logs) ==
  LET rest == Front(t.pending)
  IN [t EXCEPT !.pending = rest, !.found = @ \cup logs,
               !.at = IF rest = << >> THEN "record" ELSE @]

\* The range is split in two and the older half read next.
Halved(t) ==
  LET start == Last(t.pending)[1] end == Last(t.pending)[2]
      middle == start + (end - start) \div 2
  IN [t EXCEPT !.pending = Front(@) \o << <<middle + 1, end>>, <<start, middle>> >>]

\* One eth_getLogs of scanLogs: a range with too many logs is split, and a
\* single block with too many ends the turn.
Scan(r) ==
  LET t == reader[r]
      range == Last(t.pending)
      logs == LogsIn(range[1], range[2])
  IN
  /\ t.at = "scan" /\ t.pending # << >>
  /\ reader' = [reader EXCEPT ![r] =
       IF Cardinality(logs) <= LogCap THEN Read(t, logs)
       ELSE IF range[1] = range[2] THEN Waiting ELSE Halved(t)]
  /\ UNCHANGED <<chainVars, recorded, cursor, pageVars, faults>>

\* store.record writes one claim at a time, in chain order, and only one with
\* an allocation behind it; a claim recorded before is left alone.
RecordClaim(r) ==
  LET p == CHOOSE q \in reader[r].found :
             \A other \in reader[r].found : paidAt[q] <= paidAt[other]
  IN
  /\ reader[r].at = "record" /\ reader[r].found # {}
  /\ recorded' = recorded \cup ({p} \cap Entitled)
  /\ reader' = [reader EXCEPT ![r].found = @ \ {p}]
  /\ UNCHANGED <<chainVars, cursor, pageVars, faults>>

\* Mutation: the cursor is moved before the rows are written.
AdvanceFirst(r) ==
  /\ reader[r].at = "record" /\ cursor < reader[r].to
  /\ cursor' = reader[r].to
  /\ UNCHANGED <<chainVars, recorded, reader, pageVars, faults>>

Advance(r) ==
  /\ reader[r].at = "record" /\ reader[r].found = {}
  /\ cursor' = IF reader[r].to > cursor THEN reader[r].to ELSE cursor
  /\ reader' = [reader EXCEPT ![r] = Waiting]
  /\ UNCHANGED <<chainVars, recorded, pageVars, faults>>

\* A request of the turn fails, or the process stops and another takes over.
TurnFails(r) ==
  /\ reader[r].at # "waiting"
  /\ Fault
  /\ reader' = [reader EXCEPT ![r] = Waiting]
  /\ UNCHANGED <<chainVars, recorded, cursor, pageVars>>

ReaderTurn(r) == ReadHead(r) \/ ReadCursor(r) \/ Scan(r) \/ RecordClaim(r) \/ Advance(r)

-----------------------------------------------------------------------------
(* The rewards page.                                                       *)

\* The hooks' effect: every read in flight is aborted when what it was for
\* changes, and a new one is sent while the page is open and signed in.
Reread(hooks, auth, open) ==
  fetch' = [h \in Hooks |->
              IF h \notin hooks THEN fetch[h]
              ELSE IF auth # NONE /\ open THEN [auth |-> auth, answer |-> NONE] ELSE NONE]

Token(w) == [wallet |-> w, n |-> IF session = NONE THEN 1 ELSE session.n + 1]

\* Signing in, out, or a rotation of the session's token (useWalletSession.ts).
SessionChanges(auth) ==
  /\ session # auth
  /\ auth # NONE => auth.n <= MaxTokens
  /\ session' = auth
  /\ Reread(Hooks, auth, active)
  /\ UNCHANGED <<chainVars, readerVars, active, latest, progress, running, sent,
                 account, onChain, faults>>

Navigate ==
  /\ active' = ~active
  /\ Reread(Hooks, session, ~active)
  /\ UNCHANGED <<chainVars, readerVars, session, latest, progress, running, sent,
                 account, onChain, faults>>

\* What the server answers for one claimable of a wallet: a reward is claimed
\* when the record says so or else when the contract does; the vault is asked.
ClaimedAnswer(c, w) ==
  IF <<c, w>> \in recorded \/ paidAt[<<c, w>>] # -1 THEN "claimed" ELSE "open"

ClaimsOf(h, w) == {c \in Claimables : Hook(c) = h /\ <<c, w>> \in Entitled}

\* GET /v1/rewards/claims and GET /v1/rewards/secret: a chain that does not
\* answer in time leaves a reward unknown, unless the record already has it.
Serve(h) ==
  LET w == fetch[h].auth.wallet IN
  /\ fetch[h] # NONE /\ fetch[h].answer = NONE
  /\ \E silent \in {{}, {c \in ClaimsOf(h, w) : <<c, w>> \notin recorded}} :
       /\ IF silent = {} THEN faults' = faults ELSE Fault
       /\ fetch' = [fetch EXCEPT ![h].answer =
                      [c \in ClaimsOf(h, w) |->
                         IF c \in silent THEN "unknown" ELSE ClaimedAnswer(c, w)]]
  /\ UNCHANGED <<chainVars, readerVars, session, active, latest, progress, running,
                 sent, account, onChain>>

\* The answer arrives, or the read fails: either way it is what the page has
\* for this authorization.
Answer(h) ==
  /\ fetch[h] # NONE
  /\ \/ fetch[h].answer # NONE /\ faults' = faults
     \/ fetch[h].answer = NONE /\ Fault
  /\ latest' = [latest EXCEPT ![h] = fetch[h]]
  /\ fetch' = [fetch EXCEPT ![h] = NONE]
  /\ UNCHANGED <<chainVars, readerVars, session, active, progress, running, sent,
                 account, onChain>>

\* current: the latest answer, if it is this authorization's.
Current(h) ==
  IF session # NONE /\ latest[h] # NONE /\ latest[h].auth = session
    THEN latest[h].answer ELSE NONE

\* What claimEntries shows for a listed claim.
Status(c) ==
  IF progress[c] = "CONFIRMED" \/ Current(Hook(c))[c] = "claimed" THEN "CLAIMED"
  ELSE IF progress[c] # "none" THEN progress[c]
  ELSE IF Current(Hook(c))[c] = "unknown" THEN "UNKNOWN" ELSE "READY_TO_CLAIM"

Shown(c) ==
  /\ session # NONE /\ active
  /\ Current(Hook(c)) # NONE /\ c \in DOMAIN Current(Hook(c))

Retry(h, auth) == Reread({h}, auth, active)

\* The page's own retry, offered after a read that failed.
RetryRead(h) ==
  /\ session # NONE /\ active /\ fetch[h] = NONE
  /\ latest[h] = [auth |-> session, answer |-> NONE]
  /\ Retry(h, session)
  /\ UNCHANGED <<chainVars, readerVars, session, active, latest, progress, running, sent,
                 account, onChain, faults>>

\* claim(): one run per claimable, begun from an entry the page lists.  A run
\* carries the signed-in wallet and the proof that came with the list.
Begin(c, proofOf) ==
  /\ running[c] = NONE
  /\ running' = [running EXCEPT ![c] =
       [at |-> "connect", wallet |-> session.wallet, proofOf |-> proofOf, tx |-> 0]]
  /\ progress' = [progress EXCEPT ![c] = "CONFIRM_IN_WALLET"]
  /\ UNCHANGED <<chainVars, readerVars, session, active, fetch, latest, sent, account,
                 onChain, faults>>

ClickReward(c) ==
  /\ c # Secret /\ Shown(c) /\ Status(c) \in {"READY_TO_CLAIM", "FAILED"}
  /\ Begin(c, latest["rewards"].auth.wallet)

\* The vault pays whoever sends, so no proof goes with it.
ClickSecret ==
  /\ Shown(Secret) /\ Current("secret")[Secret] = "open"
  /\ Begin(Secret, session.wallet)

Fail(c) ==
  /\ progress' = [progress EXCEPT ![c] = "FAILED"]
  /\ running' = [running EXCEPT ![c] = NONE]

\* connectWallet, then the account check and the network check of sendClaim.
Connect(c) ==
  /\ running[c] # NONE /\ running[c].at = "connect"
  /\ \/ Fail(c)                                        \* declined
     \/ account # running[c].wallet /\ Fail(c)         \* WRONG_ACCOUNT
     \/ /\ account = running[c].wallet
        /\ running' = [running EXCEPT ![c].at = IF onChain THEN "send" ELSE "switch"]
        /\ progress' = progress
  /\ UNCHANGED <<chainVars, readerVars, session, active, fetch, latest, sent, account,
                 onChain, faults>>

\* switchChain and the chain read back; a read that throws is caught by nobody:
\* the run ends and the page keeps what it showed.
Switch(c) ==
  /\ running[c] # NONE /\ running[c].at = "switch"
  /\ \/ Fail(c) /\ UNCHANGED <<onChain, faults>>
     \/ /\ onChain' = TRUE
        /\ running' = [running EXCEPT ![c].at = "send"]
        /\ UNCHANGED <<progress, faults>>
     \/ /\ onChain' \in BOOLEAN /\ Fault
        /\ running' = [running EXCEPT ![c] = NONE]
        /\ progress' = progress
  /\ UNCHANGED <<chainVars, readerVars, session, active, fetch, latest, sent, account>>

\* sendTransaction from the account that connected; the player may decline.
Send(c) ==
  /\ running[c] # NONE /\ running[c].at = "send"
  /\ \/ Fail(c) /\ sent' = sent
     \/ /\ Len(sent) < MaxSends
        /\ sent' = Append(sent, [claimable |-> c, wallet |-> running[c].wallet,
                               proofOf |-> running[c].proofOf, state |-> "pending"])
        /\ running' = [running EXCEPT ![c].at = "poll", ![c].tx = Len(sent) + 1]
        /\ progress' = [progress EXCEPT ![c] = "SUBMITTING"]
  /\ UNCHANGED <<chainVars, readerVars, session, active, fetch, latest, account,
                 onChain, faults>>

\* The receipt is polled; a confirmed claim reads the list again, a run that
\* has polled maxPolls times gives up on a transaction that may still land.
Poll(c) ==
  /\ running[c] # NONE /\ running[c].at = "poll"
  /\ \/ /\ sent[running[c].tx].state = "succeeded"
        /\ progress' = [progress EXCEPT ![c] = "CONFIRMED"]
        /\ running' = [running EXCEPT ![c] = NONE]
        /\ Retry(Hook(c), session)
     \/ /\ sent[running[c].tx].state \in {"reverted", "pending"}
        /\ Fail(c) /\ fetch' = fetch
  /\ UNCHANGED <<chainVars, readerVars, session, active, latest, sent, account,
                 onChain, faults>>

\* The player picks another account or network in the wallet.
WalletChanges ==
  /\ account' \in Wallets /\ onChain' \in BOOLEAN
  /\ <<account', onChain'>> # <<account, onChain>>
  /\ UNCHANGED <<chainVars, readerVars, session, active, fetch, latest, progress,
                 running, sent, faults>>

\* Steps of the page, of the claims some of its hooks read, and of the wallet.
PageStep(hooks) ==
  \/ \E auth \in {NONE} \cup {Token(w) : w \in Wallets} : SessionChanges(auth)
  \/ Navigate \/ WalletChanges
  \/ \E h \in hooks : Serve(h) \/ Answer(h) \/ RetryRead(h)
  \/ \E c \in {d \in Claimables : Hook(d) \in hooks} :
       ClickReward(c) \/ Connect(c) \/ Switch(c) \/ Send(c) \/ Poll(c)
  \/ "secret" \in hooks /\ ClickSecret
  \/ \E n \in DOMAIN sent : MineTx(n)

ReaderNext == Block \/ \E r \in Readers : ReaderTurn(r) \/ TurnFails(r)

ClaimsNext == ReaderNext \/ PageStep(Hooks)

\* Safety only: no player has to claim and no block has to come.
ClaimsSpec == ClaimsInit /\ [][ClaimsNext]_claimsVars

-----------------------------------------------------------------------------
\* The page's and the reader's state is well formed.
ClaimsTypeOK ==
  /\ head \in 0..MaxBlock /\ cursor \in -1..MaxBlock
  /\ recorded \subseteq Entitled
  /\ \A p \in Pairs : paidAt[p] \in -1..head
  /\ \A r \in Readers : reader[r].at \in {"waiting", "cursor", "scan", "record"}
  /\ \A c \in Claimables :
       progress[c] \in {"none", "CONFIRM_IN_WALLET", "SUBMITTING", "CONFIRMED", "FAILED"}

\* Claims follow the chain.  A block the cursor has passed is a block whose
\* claims are recorded (claims.ts:17-18), whatever turn failed half way and with
\* two readers moving one cursor: no claim is skipped, and no claim that is not
\* on chain is recorded.  And a claim the page sends carries the proof of the
\* account it names, so that changing wallets between the list and the click
\* cannot make the player pay for a transaction that must revert
\* (useRewardClaims.ts:69-116).
ClaimsFollowTheChain ==
  /\ \A p \in Entitled : p[1] # Secret =>
       /\ paidAt[p] \in 0..cursor => p \in recorded
       /\ p \in recorded => paidAt[p] # -1
  /\ \A n \in DOMAIN sent : sent[n].proofOf = sent[n].wallet

\* A claim the page shows as CLAIMED is one the contract has paid to the
\* signed-in wallet (claims-view.ts:19, "`CLAIMED` as the contract says").
ClaimedAsTheContractSays ==
  \A c \in Claimables : Shown(c) /\ Status(c) = "CLAIMED" => paidAt[<<c, session.wallet>>] # -1

=============================================================================
