# PonsWars: a TLA+ verification of the round game

PonsWars plays ten-minute rounds. A round opens with a one-minute Pick Phase in
which each wallet backs one side of one of five battles and may arm its card;
at lock the picks freeze and the armed cards are charged; for nine minutes the
battles are scored, about once a second, from market data; at the cutoff every
battle is finalized or voided, War Points are awarded and the charges of voided
battles are given back. War Points decide how a rewards pool is divided, so
none may be lost, doubled or invented, whatever crashes.

A wallet's card comes from Genesis, a one-time claim drawn from a future block
of the chain; the rarest card, the Secret, needs a reward set aside in a vault
contract first. Spectators and players watch rounds over a web socket.

## 1. The system

| Part | Source | State | Operations |
|---|---|---|---|
| Pick API | `apps/api/src/server.ts` | none of its own; a view of the current round | put, withdraw, arm a card |
| Pick store | `packages/store-postgres/src/pick-store.ts` | `player_picks`, `pick_requests`, `cards`, `card_usage_ledger`, `rounds.picks_locked_at` | `submit`, `withdraw`, `decideCard`, `lockedPicks` |
| Battle engine | `packages/battle-engine`, `packages/battle-math` | pure: a round's state in, a round's state out | `createRound`, `lockRound`, `applyTick`, `finalizeRound` |
| Round driver | `packages/round-service` | the round it drives, in memory | `runRounds`, `stepRound` |
| Round store | `packages/store-postgres/src/round-store.ts` | `rounds`, `battles`, `battle_tick_evidence`, `battle_results`, `wp_ledger` | `saveState`, `saveFinalization`, `loadLatest` |
| Rounds lease | `packages/redis/src/lease.ts`, `apps/server/src/main.ts` | one key with an expiry | take, renew, lose, release |
| Genesis service | `packages/genesis-service`, `store-postgres/src/genesis-store.ts` | `genesis_requests`, `genesis_claims`, the card | `request`, `status` |
| Vault client | `packages/chain/src/secret-vault.ts`, `rpc-vault.ts` | reservation attempts in flight, per process | `reserve`, `isCovered` |
| Secret vault | `contracts/src/SecretStockVault.sol` | entitlements, `totalReserved`, balance, paused | `reserve`, `claim`, `withdrawAvailable`, `pause` |
| Socket gateway | `apps/gateway`, `packages/realtime/src/hub.ts` | per connection: a frame queue, a wallet, followed channels | open, receive, forget |
| Event bus | `packages/redis/src/redis-bus.ts` | a counter per channel | publish, deliver |
| Live client | `apps/web/src/live`, `packages/realtime/src/receiver.ts` | the last sequence per channel, the round shown | connect, receive, resync, follow |
| Rewards contract | `contracts/src/RewardsDistributor.sol` | roots, totals, claims, the commitment, the balance | publish, claim, withdraw, pause |
| Distribution | `apps/server/src/distribution.ts`, `rewards-worker.ts`, `publication.ts`, `store-postgres/src/distribution-store.ts` | windows, allocations, snapshot files, transactions | open, snapshot, calculate, publish, record |
| Claims | `apps/server/src/claims.ts`, `store-postgres/src/claim-store.ts`, `apps/web/src/live/useRewardClaims.ts` | recorded claims, a cursor; the page's list and its wallet | read a range, record, advance; list, claim |
| Auth | `packages/auth`, `store-postgres/src/auth-store.ts`, `apps/web/src/live/useWalletSession.ts` | challenges, sessions; the page's session | challenge, verify, rotate, revoke; connect, sign out |
| Market indexer | `packages/chain/src/market-indexer.ts`, `paced.ts` | logs read so far, anchors, the queue of calls | start, poll; start a call, throttle |
| Market tape | `packages/market-data/src/tape-recorder.ts`, `market-tape.ts` | a file of lines | record, load, replay |
| Server process | `apps/server/src/main.ts`, `gateway.ts`, `alerts.ts` | open handles, the lease, reported alerts | boot, shut down, reconcile, deliver |
| Rate limit | `packages/redis/src/rate-limit.ts`, `apps/api/src/rate-limit.ts` | one bucket per caller | check, expire |
| Migrations | `apps/server/src/migrate.ts` | the ledger and the schema | take the lock, read, apply |
| Player's pages | `apps/web/src/hud`, `live`, `genesis`, `state/session.ts` | picks, the Genesis record, reveals | pick, confirm, change, request, poll |
| World | `packages/world-runtime`, `apps/web/src/world` | the camera, gestures, flights | pan, pinch, fly, follow a link |
| Pure algorithms | `packages/battle-math`, `rewards-math`, `market-data`, `replay`, `calibration`, `player-service`, `pons-indexer` | none | |

How they interact. The API and the driver share nothing but Postgres: the API
writes picks, the driver freezes them, and the freeze is a row the pick
transactions look at. The driver writes every step to the round store before it
publishes it on the bus; the instances that do not drive poll that store. One
instance drives at a time, by a Redis lease, and a new driver starts from what
the store holds. Genesis runs in every API process and writes cards that the
pick store charges; it reaches the vault by transactions that anyone else's may
overtake. The bus reaches every socket process, which hands events to the
connections that follow their channel; a page that notices a missing number
fetches the round from any instance.

War Points leave the round store through distribution windows: a snapshot fixes
which awards a window has, an allocation is calculated from it once, and its
Merkle root is published to a contract that knows nothing of the server. The
claim reader follows the contract back into the database. Market data reaches
the driver as observations: an indexer reads the chain through a paced client
and a tape can replay what it read. Web pages hold copies of all of this, each
of them an answer to a request that something else may have overtaken.

What is hard here: a call that passed its check before the freeze and commits
after it; a driver that dies between two of its writes, or between a write and
its publication, or is paused past its lease; requests, locks, finalizations
and reservations that are done again because nobody knows whether they were
done; two processes that race for one wallet's Genesis or one vault's last
reward; session lookups that a socket's frames and its closing overtake; events
that are lost, late or out of order, and snapshots older than the events; answers
that come back to a page after a sign-out, a new round or a newer answer;
processes that die between a transaction on chain and the row that records it,
between a snapshot and its file, or in the middle of a line of a tape; jobs of
two releases that migrate one database; and the boundaries of integer
arithmetic, where a point or a token is lost or made.
`PROJECT.json` lists these hazards at their lines.

What makes each part correct:

* picks: what the engine is given never changes after the freeze; a card's
  charges always add up; a decision that was replaced never comes back;
* rounds: they follow each other and each is settled once, with exactly the
  awards its frozen picks and recorded results call for; evidence is one chain;
  what is published is stored; every round ends;
* Genesis: one card per wallet, from one block nobody could know; a Secret only
  with its reservation; a request that is read again while it is open ends in a
  card;
* vault: what is promised is there, and an entitlement is paid once;
* gateway: a private channel goes to its wallet alone, frames act in order, and
  nothing is kept for a closed socket;
* live: nothing is shown that is not stored, and nothing is missed unnoticed;
* rewards: a published root can be recomputed and paid, is recorded only as it
  is on chain, and every claim on chain is recorded once;
* sessions: a credential is spent once, and a page names its token's wallet;
* market: what is said to be covered was read, once, and a replay shows exactly
  what was read;
* server, limit, migrations, alerts: what they promise under crashes and races;
* pages: a refused pick is not shown, what has been read is the signed-in
  wallet's, a card is revealed, the camera ends where it was sent;
* algorithms: each does what it is for on every input, and what was paid, dealt
  or decided can be checked by somebody else.

## 2. The modules

```
PickStore <- RoundService ----implements---> RoundSettlement
SecretVault <- GenesisFlow --implements---> SecretVault!VaultSpec
Hub <- Gateway, LiveStream
RewardsDistributor, RewardMath <- Distribution
Auth <- WalletSession
RewardMath <- BattleMath <- Audits, Calibrate
MCPickStore, MCRoundService, MCGenesisFlow, LiveStream
MCSessions  = Gateway | WalletSession
MCRewards   = Distribution | RewardClaims
MCServices  = MarketIndexer | Pacer | MarketTape | Server | RateLimit
              | Migrations | Stores | MCAlgorithms
MCAlgorithms = Audits, Calibrate, MarketData, MarketIndexer, PlayerRecord, Api
MCPages     = PickPage | WorldView | GenesisPage
RoundServiceProofs  PickStore and RoundService, and that it implements RoundSettlement
GenesisFlowProofs   SecretVault and GenesisFlow, and that it implements the vault
LiveStreamProofs    LiveStream
SessionProofs       Gateway, Auth, WalletSession
RewardsProofs       RewardsDistributor, Distribution, RewardClaims
PagesProofs         PickPage, WorldView, GenesisPage
ServicesProofs      Migrations, RateLimit, Pacer, Stores, Server
MarketProofs        MarketTape, MarketIndexer
```

A bar stands for parts explored *side by side*: they share no state, so an
initial state chooses one part, its steps are taken and the others stand still.
The states are the sum of the parts' and not their product, and a property of
one part is checked on every state of it.

**PickStore.** The tables of the pick store and the calls in flight between an
API handler's check and its transaction. `Receive` is a handler up to that
point (its reads before the check decide nothing else and are taken together);
`Submit`, `Withdraw`, `DecideCard` and `Refused` are the transaction's outcomes,
and `Answered` allows for an identical call, a client's retry, still in flight.
`LockedPicks` is the one transaction that freezes the picks and charges the
cards, `RefundVoidedCards` the part of a finalization that gives charges back;
both may be run again at any time after their instant, which is what a
restarted driver does. `OpenRound` lets any round start after the one before
it: `RoundService` replaces it, and the two above, by the driver's own steps. A
withdrawal deletes the pick and the request that made it (`pick-store.ts:175-178`),
so a retry of that request is a new one and stores the pick again; requests that
had been replaced before keep their keys, and a retry of one is answered
`replayed` although nothing stands.

**RoundService** extends it with the driver, the round store and the lease.
`pc` is the await an instance is at. The loop `runRounds` is `Load`, `OpenNext`,
`SaveOpened`, then `PerformLock`/`SaveLocked`, `PerformTick`/`SaveTicked`,
`PerformFinalize`/`SaveFinalized`, each followed by one `Publish` per event;
`Crash` and `Stop` may fall between any two. A failed write ends the process,
so it is a crash. `Restored` is `loadLatest` for one round: state, evidence,
labels and frozen picks put together from their tables. An observation of the
market is arbitrary (`LEFT`, `RIGHT`, `TIE` or `STALE` for each battle), so
every feed is covered; a score is who is ahead, the evidence hash is the
sequence it folds, confidence labels are arbitrary and the block-hash tie-break
is a constant. `StepsOutliveLease` says whether a lease may expire under a step
still running; the code cannot exclude it (see the findings), and the passing
runs show what holds when it does not happen.

**RoundSettlement** is what the round service promises, with no instance,
crash, lease or checkpoint in it: open, lock, settle, each at one instant.

**SecretVault** is the contract, one action per transaction. Role checks are
taken as passed: the roles are fixed at deployment.

**GenesisFlow** extends it with the service, the Genesis tables, the chain and
the vault client. A call gives up control at every await and `call[c].pc` is
where it is; `attempt[p][w]` is the reservation that calls of one process
share. Sealing, finalizing and executing a transaction are steps of the chain,
so a reservation may find the vault emptied since it was simulated. A card is
its rarity and a block's hash its number; which wallets draw from the Secret
band of which block is the constant `SecretDraws`. `MaxLag` is an assumption on
the environment: that fewer blocks are sealed between reading the head and
writing the request than `ENTROPY_TARGET_DISTANCE`. A wallet found not eligible
and a block not yet final both end the call (`GiveUp`). `findReservation` looks
back `RESERVATION_LOOKBACK_BLOCKS` blocks and no further (`InSight`).

**Hub** is one connection's entry in the realtime hub, a record, and its
reducers. **Gateway** adds the socket, the queue and the session lookups.
`PING` and malformed frames change nothing and are left out.

**LiveStream** is the path from the driver to a spectator's page: save, `INCR`,
`PUBLISH`, delivery, `receive`, resync, follow. The driver is that of
`RoundService` without its crash points inside a save; a driver that lost its
lease may still publish the rest of its step. Connecting and its handshake are
one step, each page stands for its own socket process, and every tick updates
every battle (a tick that is ignored publishes nothing). The page's pick
overlay, its resyncs after the player's own picks and the `BATTLE_VOID` notice
are left out.

**Auth** is signing in, one SQL statement a step, in two threads: `challenge`,
`verify` (consume the nonce, recover the signer in a worker that may die, issue
a session), `rotate` (read, issue, revoke), `revoke` and the pruning. A
signature is the wallet that made it. **WalletSession** adds the page: the load
check, `connect()`, the rotation timer and sign-out, whose answers `PageStep`
applies whenever they come.

**RewardsDistributor** is the contract; a root is the set of leaves under it,
and `RewardMath` shows that the tree's proofs verify exactly for its members.
**Distribution** composes it with the window store, the worker, the operator's
commands, the snapshot file and the publication job. `taker[t].pc` and `job.pc`
are the await a process is at; the operator's `--minimum-claim` and
`--pool-balance` are inputs of the commands, not the snapshot's and the
contract's values, and a publication older than the look-back is not found, so
the job fails. The operator's `--out` is taken to name the file the worker would
write. `CrashTaker`, `CrashJob`,
`TakeSnapshotUnacknowledged` and a transaction that is mined after its job gave
up are the faults. **RewardClaims** is what follows publication: `ReaderTurn`
for each of two readers, the API's answer, and the page that runs claims
through a wallet.

**RewardMath**, **BattleMath** (matchmaking, scores, momentum), **MarketData**,
**PlayerRecord**, **Audits** and **Calibrate**, and the block searches of
**MarketIndexer**, are pure: one operator per function of the code, over
integers as in the code, at scales that are constants. Digests are the tuples
they are of. Where the code throws an answer says so (`decideFinalization`
before the cutoff, a return over no price), and `ingest` has every rejection,
the source in its key and the optional sequence. **Api** is a pure function too:
`Handle(request, world)` gives a route's answer and what it has written, where
the `world` holds what each of the handler's reads finds at its own moment.
**MCAlgorithms** asks one question of one of them per step and compares the
answer with what the algorithm is for, never with the algorithm itself.

**MarketIndexer** is one ticker's `start` and `poll`, each await of which may
throw, over a chain that grows. A poll that throws keeps what it had read by
then, some of its anchors, launches or senders included (`PollFails`); logs that
are undecodable, forged or of no trade are among those read, and the caches of
events, senders and contracts that are no curve are emptied above their caps.
**Pacer** is the queue of calls in instants relative to now. **MarketTape** is
the recorder, a file that a crash may truncate in the middle of a line, and the
readers of that file. A file is written in order, so a crash that loses several
writes leaves what a crash during the first of them leaves, and it is taken
there. The recorder begins a file each UTC day, having ended the one before;
readers take the files in the order of their dates as one sequence of lines,
which is the model's one file. Two things differ at a boundary of days: a line
cut short at the end of an older day's file is passed over by
`calibrate-market.mjs` where the model's tape can no longer be decoded, so the
model says nothing of it; and `tape-coverage.mjs` reports each file by itself,
so a stretch that crosses midnight is two there. **Server** is a process from
boot to its end (`proc.open` are the handles that keep Node alive) with the
alert watch and its sink. A webhook that delivers and one that refuses leave it
alike: `alert-sink.ts` catches and logs a refusal and does not send the message
again. **RateLimit** is one caller's bucket charged by instances with clocks of
their own. **Migrations** is the migration job, with images of different
releases. **Stores** drives the in-memory repositories and what the PostgreSQL
ones answer in lockstep, one caller at a time.

**PickPage** is backing a side from the page: `calls` holds the chains of
awaits in flight with the stage of each, the session and the wallet it was
started under; a battle is its slot in the round. Any change of authorization is
one step, `SignInOrOut`: to another wallet, to none, or to another token of the
same wallet; it leaves what the page shows as it is. **WorldView** is the camera:
a pose is a named place and what has moved the camera off it; Reduced Motion may
be switched in the middle of anything. **GenesisPage** is the Genesis and the
profile hook, one at a time, App's effects on the profile's answer (War Points in
the bar, the card in the pick controls) and the reveal; which charges are left
on that card is not followed.

Not modelled, and why. Drawing (`WorldScene`, `Hud`, landing and profile pages):
it holds no state beyond the hooks and stores above. Configuration and schemas:
stateless parsing; their values are constants here and a payload that does not
parse is a refusal. Local stack, containers, load tests and simulations: wiring
and statistics over the same engine. The SQL of the migrations appears as the
stores' tables and uniqueness constraints. Hashing, signatures, geometry and
easing are abstracted as said above. The transient round state `FINALIZING` is
written by no code path that is reached. The clock of one process is taken to
be monotone. `PROJECT.json` gives the reason for each part.

## 3. What TLC checks

| Run | Instance | Shows |
|---|---|---|
| `picks` | 1 wallet, 1 charge, 2 battles, 2 rounds, 2 keys, 2 calls in flight | `ChargesConserved`, `LedgerMatchesPicks`, `FrozenPicksFinal`, `ReplacedStaysReplaced` |
| `rounds` | 2 instances, 2 rounds, 1 battle, 2 ticks, 2 outages, no picks | `RoundsInSequence`, `PublishedIsStored`, `EveryRoundSettles` |
| `round_battles` | 2 instances, 1 round, 2 battles, 2 ticks, 1 pick call, 1 outage | `AwardsAreExact`, `EvidenceUnbroken`, `ImplementsSettlement` |
| `genesis` | 2 calls for 1 wallet in 3 processes (1 without key), 4 blocks, 4 transactions, 2 faults, a look-back of 0 blocks | `SecretIsReserved`, `CardFromItsBlock`, `NoReroll`, `EveryRequestSettles`, `ImplementsVault` |
| `live_stream` | 1 page, 2 instances, 1 battle, 3 ticks, 1 fault, steps that outlive the lease | `ShownIsStored`, `NoSilentLoss` |
| `sessions` | gateway: 1 connection, 2 wallets, 3 frames, limits of 2; auth: 2 threads, 2 nonces, 3 tokens, 1 worker death; a page | `ListenersAreProved`, `FramesInOrder`, `CredentialsAreSpent`, `TokenIsTheWallets` |
| `rewards` | 2 windows, 2 wallets, a supply of 4, 2 snapshot processes, another threshold and pool from the operator, 2 transactions, 1 failure; 2 readers over 3 blocks; a page with 2 tokens | `WindowIsReproducible`, `FullyBacked`, `ClaimsFollowTheChain` |
| `services` | indexer: 4 blocks, 1 fault, 10 logs of which 4 say nothing, caps of 1, 1 and 0; 3 paced calls; tape: 2 trades, 1 crash; server: 3 kinds; limit 2 in a window of 3 over 8 ticks; 2 jobs, 3 images; repositories: 2 wallets; algorithms: below | `CoveredIsRead`, `StartsAreSpaced`, `ReplayIsWhatWasRead`, `AlertsBracket`, `RateIsKept`, `LedgerIsTheSchema`, `StoresAgree`, `AuditsAreSound`, `ReadingsAreSound`, `BattlesAreDecided`, `AnswersAreHonest` |
| `pages` | picks: 2 wallets, 1 change of session, 2 battles, 2 rounds, 3 calls (2 at once; 2 in all after the change), 1 lost; world: 2 fingers, 4 inputs, 1 cinematic, Reduced Motion on and off; personal: 2 wallets, 2 reads, 1 failure | `ProposalIsNotRefused`, `BackingWasStored`, `CameraGoesWhereSent`, `ShownIsRecorded`, `CardIsRevealed` |
| `round_fencing`, `genesis_owed`, `live_gap` | | the findings below |

Several of these are one statement about one thing with several parts, because
each part guards the same hazard: `CredentialsAreSpent` is about nonces and
about rotated tokens, `ListenersAreProved` about private channels and about
connections left behind, `FullyBacked` about the commitment and about what each
account received, the four properties of `MCAlgorithms` about the answers of a
family of algorithms.

Why the bounds are enough to be interesting:

* Picks of two wallets meet only in the freeze, so one wallet with two calls in
  flight has every race; two keys and two rounds give a retry something to
  overwrite and a charge somewhere else to have gone. One charge is the
  boundary.
* A driver's state is one round; two rounds show that a restart goes on at the
  right one, two battles that one may be voided and the other not, two ticks
  that a chain is resumed and not only begun. Two outages let the instance that
  takes over die in its turn.
* In Genesis two calls are what a race takes. Odd blocks draw a Secret and even
  ones do not, so both branches race. `MaxTx` is two more than `MaxFaults`: a
  reservation lost to a fault is sent again, so with fewer the bound itself
  would keep a request waiting.
* Connections share nothing but the sessions, so one connection with its limits
  at two reaches each limit and each order of three frames.
* Three ticks are what a gap takes to be seen and then to be followed by one
  more event. `MaxFetches` is one in these runs: a page waits for its snapshot
  before it asks again. `PickPage` has several reads in flight.
* Two verifications of one nonce and two rotations of one token need two
  threads; a third token is the one that is left when two have raced.
* A supply of four over two windows leaves less than the second window's total
  once the first is published. Two transactions let one land after its job
  timed out while another is under way. Two readers move one cursor.
* Four blocks with a poll of at most two give a range in two polls, a failed
  one in between, and a block that is read again. Three calls give a throttled
  call one in front and one behind. One crash is enough to tear a line; the
  tape before and after it has two trades. Caps of one and zero empty the
  indexer's caches within a run.
* The limit is two in a window of three, so a bucket refills by less than a
  token in a tick and the floors show; eight ticks hold two windows and the
  expiry between them. The clocks agree in this run (`MCSkew`).
* Three images are a release, its successor, and one that edited a file it had
  shipped. Two jobs are what a race takes.
* The algorithms are asked about every input of small sets: up to four trades,
  three wallets, histories of two rounds of six tickers, ratios over the whole
  range of their scale. Scales are small so that flooring, caps and ties happen.
* One change of session is enough for an answer to belong to another wallet, and
  the two calls it leaves are one started before it and one after.
* Two fingers are what a pinch takes, and three half-lives end any glide.

Deadlock is not checked except in the Genesis runs: elsewhere the clock, the
frames, the faults or the questions run out by bound, and there the system may
stop. In Genesis the treasury can always pause.

Fairness. `RoundSpec`: the clock runs; a free lease is taken (`main.ts` retries
in a loop); the lease of a dead holder expires (Redis); an instance that drives
takes its next step. Outages are bounded, and an instance that crashed may take
the lease again, so some instance is there. `GenesisSpec`: handlers and attempts
run on, and the chain seals, finalizes and executes. Nothing makes a player ask
again: the page polls only while a request is sealing (`useLiveGenesis.ts:51-54`),
so that a wallet is asked about again and again, and by a process with a key
while its reward is being reserved, is a hypothesis of `EveryRequestSettles` and
not a fairness of the system. It is strong because the pool of calls is a bound
of the model. A reservation that was not read again while it was in sight of the
look-back is the exception the property names; see `LateReadSettles` in the
findings. `GenesisPageFairness`: the page's timers
fire, the server answers, answers arrive, blocks become final and the vault
answers; nothing is assumed of the player, who may leave, and `CardIsRevealed`
says so. No other passing run claims liveness.

## 4. What is proved

TLAPS checks the proofs for all values of the constants that satisfy the named
assumptions: `PickAssumption`, `RoundAssumption`, `VaultAssumption`,
`GenesisAssumption`, `GatewayAssumption`, `HubAssumption`, `AuthAssumption`,
`WalletSessionAssumption`, `LiveAssumption`, `DistributorAssumption`,
`DistributionAssumption`, `ClaimsAssumption`, `MigrateAssumption`,
`RateAssumption`, `PacerAssumption`, `StoresAssumption`, `ServerAssumption`,
`TapeAssumption`, `MarketAssumption`, `LogsAssumption`, `PickPageAssumption`,
`WorldAssumption`, `GenesisPageAssumption`. They say that sizes are finite where
they are counted, amounts, lengths and bounds are natural numbers, the Pick
Phase is shorter than the round, and that `None` is none of the values it stands
beside. Of the market they say that volume is kept at least as long as trades,
as `apps/server/src/market.ts:130-137` and `record-market.mjs:191-195` have it,
and that what a pool or a curve is called is its own: a v4 pool's identifier is
made of its tokens and its hook, so no Stock Token pool is also registered by
Pons. Of processes they say that there are the three kinds that are modelled,
and of the tape that its clock has an instant to start at. Four theorems take
one hypothesis more, named below. TLC evaluates the assumptions in its runs.

Every state invariant the runs check has a theorem, except the ones that are
stated of whole algorithms at once (see the end of this section).

**Picks and rounds.**

* `TypeCorrect` (`PickSpec => []PickTypeOK`). Inductive with one addition, that
  the ledger is finite, which the counting below needs. The interesting part is
  `remaining`: a card that is charged has a charge, because `LockedDecision`
  turns an armed card without one into a saved one (`DeployingHasCharge`).
* `ChargesAreConserved`. `TypeInv` and the statement together are inductive: a
  lock adds at most one row per wallet, and only where none is (`LockCounts`),
  and a refund one row for each deployment of a voided battle that has none yet
  (`RefundCounts`, by an injection between the rows), so each cardinality grows
  by what the charges move.
* `LedgerAndPicksAgree`, `FrozenPicksAreFinal`,
  `ReplacedDecisionsStayReplaced`. The
  invariant is `LedgerInv`: `TypeInv`, the statement that ledger and frozen
  picks agree, and `FrozenAreDecided`, that every pick of a frozen round has
  been decided. Without the last a lock run again could decide a pick a second
  time, with the card it had since been given.
* `RoundsAreInSequence`, `WhatIsPublishedIsStored`, `SettlementIsExact`,
  `EvidenceIsUnbroken`, `SettledRoundsStay`, for any number of instances,
  rounds, battles, ticks and crashes, all from `RoundInv`. None of the five is
  inductive alone: each write of a driver is right only because of what the
  driver remembers, and its memory is right only because nobody else has
  written since. `RoundInv` says so: one instance runs (`LeaseInv`), what it
  holds in memory is what `loadLatest` would restore, or that plus the one step
  it has taken and not yet saved (`DriverInv`), each stored round is one the
  engine can have made (`RowInv`), and every published event was true of the
  store (`Truthful`). The hypothesis is `~StepsOutliveLease`; the run
  `round_fencing` shows that without it they are false.
* `SettlementIsImplemented` (`RoundSafety => ImplementsSettlement`, same
  hypothesis). The refinement step by step: `SaveOpened` is `Open`,
  `SaveLocked` is `Lock`, `SaveFinalized` is `Settle`, and every other step, of
  callers, store, lease, driver and crashes, is a stutter.

**Genesis.**

* `VaultTypeCorrect`, `VaultIsSolvent`, `EntitlementsAdvance`. The inductive
  invariant is `VaultTypeOK /\ Solvent`: without the exact value of
  `totalReserved` neither subtraction of the contract could be shown to stay
  above zero. `OneWalletMoves` is the lemma on cardinalities.
* `GenesisImplementsVault` (`GenesisSafety => ImplementsVault`): every step of
  the composition is a step of the vault or leaves it alone.
* `SecretsAreReserved`. `FlowInv` adds to the vault's invariant that a
  successful transaction entitled its wallet (`SuccessEntitles`), that an
  attempt waits on a transaction sent for its own wallet
  (`AttemptsWaitOnTheirs`), and that a call about to record a Secret and a
  recorded one name a transaction that reserved it. The last two cannot be had
  without the others: a call learns its transaction from the attempt.
* `CardsComeFromTheirBlocks`, `NothingIsRerolled`. `CardInv` says of each row
  (`RowKept`) and of each call that has left it behind at an await (`KeptNow`)
  that target, hash and card follow from one another and from the chain. A call
  acts on a row it read before; what it read is still true of the row because
  rows and the chain only move on (`RowsMoveOn`).

**Sockets, sign-in and pages.**

* `ListenersHaveProved`, `FramesTakeEffectInOrder` (`GatewaySpec`). `GatewayInv`
  has one history per connection: what the hub holds is the fold of the frames
  handled so far, the queue is the rest of those sent (`QueueInv`,
  `HistoryInv`), and a connection waiting for a session lookup has an
  `AUTHENTICATE` at the head of its queue (`StageInv`).
* `CredentialsAreSpentOnce` (`AuthSpec`). `AuthInv` says who may still spend a
  credential: at most one request holds a consumed nonce, and it has given no
  session for it yet (`NonceInv`); a request that answered a rotation has
  revoked the token it replaced (`TokenInv`).
* `PageKeepsTheService` (`WalletSafety => AuthSpec`): the page beside the
  service is a refinement of it, so the theorem above holds there too.
  `PageNamesTheTokensWallet`: `PageInv` adds that the session, its stored copy
  and the one being loaded each name the wallet of their token (`Held`).
* `NothingShownIsUndone`, `LossesAreNoticed` (`LiveSpec`). `LiveInv` treats the
  driver and the strays of earlier leases alike, as `Senders` that still have
  events to publish. What each has left to say, the wire, and every copy of the
  round are of a state the store has held (`SaidBy`, `Held`), one number stands
  for one event (`OneToOne`), and what a page applied on a channel ends at the
  last number it received there (`RunsInv`). Strays are included: neither
  theorem needs the lease.
* `RefusedProposalsGo`, `BackingsAreStored` (`PageSpec`). `PickPageInv`: the
  chains of awaits in flight have numbers of their own, only the chain that
  made the proposal can be behind it, an answer on its way was stored for its
  round and the wallet that asked, and the chains of the present session and
  what they brought to the page are the signed-in wallet's (`SessionsAreWallets`).
* `TheCameraArrives` (`WorldSpec`). `WorldInv` adds that with one finger left
  and no drag marked nothing has moved since the gesture began (`DragIsMarked`),
  and that after an `ESC` the camera stands where it was sent or is on a flight
  there that ends there (`EscIsObeyed`).
* `WhatIsShownIsRecorded`. `PersonalInv`: every call that is out holds a token
  of the page, and every answer that is back still holds of that token's
  wallet, because records only go forward (`RecordsGrow`); the card in the pick
  controls, once a profile is ready, is the one that profile brought.

**Rewards.**

* `CommitmentsAreCovered`, `RootsNeverChange`, `PublishedIsBacked`
  (`DistributorSpec`, in which any finite root is published with any total).
  The commitment is covered because what may be published or withdrawn is what
  is not committed (`UncommittedIsFree`), and a root stays because publication
  is refused for an id that has one (`PublicationChecked`). `PublishedIsBacked`
  (`[]FullyBacked`) needs two things more: that only published roots have been
  claimed from, and sums. A sum over a finite set is a recursive function; that
  it exists is proved by induction on the size of its arguments (`SumExists`),
  and that changing one summand changes the sum by the difference
  (`SumOfChange`) by another. `LargestOfFinite` is the third.
* `DistributionsAreReproducible` (`DistributionSpec`). `DistInv`: a written file
  is the window's (`FilesInv`), who is about to write one took the snapshot
  (`WritersInv`), allocations are those of the claimed rows, a successful
  transaction published its window (`ReceiptsInv`), and the job waits for its
  own (`JobInv`).
* `PoolIsNeverOverspent`, for any standings and any pool: the allocation of
  `allocateDistribution` gives nobody more than the cap and stays within the
  distributable share. A pass that caps more wallets found each of them due more
  than the cap out of what was left, and flooring never rounds a share up
  (`SumOverShares`), so the newly capped can all be paid the cap (`PassKeeps`);
  by induction over the passes so can all that are capped when they end
  (`PassesEnd`). The comment at `allocation.ts:184-188` allows for more capped
  wallets than the pool can pay; the theorem shows that there are none, and that
  the guard beside it never acts. `SquareRootsAreExact`: Newton's method ends at
  the floor of the root, because a step never falls below it (`NewtonStepIs`).
* `ClaimsAreFollowed` (`ClaimsSpec`). `ClaimsInv`: of a turn that reads up to
  some block, every claim paid by then is recorded, found, or in a range still
  to scan (`TurnHolds`), so whoever moves the cursor leaves nothing behind it.

**Beside the rounds.**

* `LedgerMatchesSchema`. A body runs in the transaction that records it, on the
  ledger's primary key, and that is all the proof uses: the advisory lock spares
  jobs a failure and is not needed for this statement.
* `LimitIsKept` (hypothesis `ClocksAgree`). What the bucket holds is not
  inductive, since it is refilled lazily and forgotten; the invariant
  `LevelKept` is about `Level`, what a charge now would find. Time raises it by
  at most the limit (`TickKeepsLevel`), a forgotten bucket was full
  (`ExpireKeepsLevel`), and a charge moves a token from it to what was granted
  (`CheckKeepsLevel`). The hypothesis is needed: see the findings.
* `CallsAreSpaced`. What a sleeping turn has left is not spacing by itself; with
  the time since the last start it is (`TurnSleepsEnough`), because nothing
  starts while a turn sleeps and only one does (`QueueIsOrdered`).
* `RepositoriesAnswerAlike`: a simulation between memory and database for each
  of the three repositories. Memory deletes what the database marks and forgets
  rows the database leaves, so only the rows that are `Alive` are the same.
* `AlertsAreBracketed`. `Bracketed`, per condition: what is queued alternates
  and ends with the last status sent. A tick sends one message about a
  condition, and the other one than the last (`ReconcileSays`, `OneAbout`).

**The market.**

* `TapesReplayWhatWasRead`. `TapeInv` says of a tape that can be decoded what its
  lines become when they are loaded (`Replays`). On the wall clock every view
  the recorder had is what is shown at its instant, and nothing is visible
  later than the last (`WallShows`); on the chain's clock every trade of a
  stretch read without a break is on the tape (`ChainShows`); and while the
  recorder runs, the stretch it is in ends where its source does (`Running`).
  The recorder's memory is part of it (`InStep`): what it forgets it has
  written, and is too old to be handed out again. `POLL_SPAN <= RETENTION` is
  used: a poll that spanned more than the indexer keeps would prune trades that
  no snapshot had yet written. A load is a fold over the tape; that it can be
  taken line by line is `LoadNext`, by induction on the tape, and a tape that
  cannot be decoded never can again, so a torn write needs no more than its
  own step (`CutShort`).

* `MarketCoversWhatItRead` (hypothesis `HEAD_LAG = 0`; the findings say what a
  lagging endpoint does). `IndexInv` has two halves. `Memory` is what the lists
  say of the chain, whichever poll is under way: a trade held is genuine, dated
  no earlier than its anchor, and of a block that was read (`DexBook`,
  `PonsBook`); a trade that was read and is young enough is held, or waits for
  an answer about its curve (`DexKept`, `PonsKept`); the pools and curves of
  what was read are known (`Known`), and nothing that may yet be launched is
  said not to be a curve (`Sources`); and a minute's volume is the sum of its
  trades (`Books`). One log recorded keeps each of them (`TakesKeeps`), so any
  set of logs in chain order does (`ApplyKeeps`, an induction over the fold),
  and so do the trades that waited (`WaitersRecorded`), the search for curves
  (`ResolveKeeps`), the traders (`SendersKnown`) and a prune (`PruneKeeps`).
  `PollOK` is what a poll that throws leaves to the next one: everything seen is
  within the range, so the retry, which reads at least as far, skips it and
  loses nothing, also when it threw with only part of its anchors, launches or
  senders kept (`LeftIsSound`); and `seen` is cleared only when all of it is
  covered. That the
  clock's dates are within the bounds is `TimesBounded`.

* `BlockSearchesAreRight`, for any chain whose times never go down: what the
  indexer's search back and the search for the finalized block that breaks a tie
  answer. Each is a recursion whose argument keeps the instant between the
  ends of a range (`Straddles`, `Brackets`) and gets smaller: the range, or for
  the walk in doubling steps what is left to walk (`LeftToWalk`).

Induction. The library's induction theorems take a predicate as a parameter,
which the provers cannot instantiate; induction over the natural numbers is done
on sets instead, from the least member of a nonempty set of numbers
(`LeastNatural`, by `WFMin`). `SessionProofs`, `RewardsProofs` and `MarketProofs`
use it; the last also proves that a fold of the community modules satisfies its
recursion (`FoldExists`), which is how `FoldLeft` can be reasoned about, and that
a recursive function whose calls shrink exists (`RepeatExists`).

Type invariants. Those of the pick store, the round service, the vault, the
gateway and the sign-in service are parts of the inductive invariants above. Six
others are proved with the help of the invariants of their modules, since what
they say of a subtraction or a range needs them (`ServerIsWellTyped` adds the shape
of a process and of its boot lines, `ProcessShapeKept`): `ContractIsWellTyped`,
`ClaimsAreWellTyped`, `PageIsWellTyped`, `ServerIsWellTyped`,
`PacerIsWellTyped` and `TapesAreWellTyped`. `GenesisTypeOK`,
`DistributionTypeOK`, `LiveTypeOK` and `MarketTypeOK` are neither proved nor
checked by a run as they stand; the parts of them the other theorems need are in
`FlowInv` and `CardInv`, `DistInv`, `LiveInv` and `IndexInv`.

Only model-checked: all liveness (`EveryRoundSettles`, `EveryRequestSettles`,
`CardIsRevealed`), which is out of the prover's reach, and with it `ENABLED`;
and the four properties of `MCAlgorithms`, which compare recursive computations
with what they are for; of these the block searches, the square root and the
allocation's bounds are proved as theorems of their own, the rest are checked
over small inputs only.

## 5. Findings

The first three are runs that TLC ends with a counterexample.

* `round_fencing`: `lease.ts:15-17` says the lease exists to prevent an old
  holder from writing. `saveState` carries no fencing token, and losing the
  lease only ends the loop after the current step, so a driver paused inside a
  save can write `BATTLE_LIVE` over a round its successor has finalized.
* `genesis_owed`: `flow.ts:39-41` says two racing calls compute the same card.
  They also read whether the vault is covered, each for itself; when it is
  funded in between, one records a Legendary and the other's reservation stands
  for a card that grants none.
* `live_gap`: `socket-client.ts:233-234` says a channel that waits for a
  snapshot has a request in flight. Nothing calls `applySnapshot`, so after one
  missed event a channel stays silent until the socket reconnects.

The others have no run of their own. Where a definition is named, it is beside
the model it refutes and takes the place of the invariants or properties of that
part's configuration.

* `FollowedIsSubscribed` (`LiveStream`): `socket-client.ts:103` says following a
  round replaces what was followed. The client never unsubscribes, and at 32
  channels the gateway refuses: the sixth round in one connection is not
  followed.
* `MatchupsRest` (`BattleMath`): `shared-types/src/round.ts:43-44` says a
  matchup cannot reappear for two rounds. `openRound` gives the scheduler no
  earlier rounds (`round-service/src/driver.ts:135`), so it may at once.
* `SnapshotLandsOnDisk` (`Distribution`): `docs/operations/rewards-distribution.md:84-86`
  says a snapshot is never taken without its standings landing on disk. A
  process that dies between the commit and the write leaves an empty file.
* `FailedBindEnds` (`Server`): `gateway.ts:102-103` speaks of a process that
  failed to bind and looks healthy. A failed `listen` sets the exit code and
  closes nothing, so the subscription keeps the process alive.
* `CalculatedAsSnapshotted` (`Distribution`): `snapshot-file.ts:44` says the
  minimum claim is recorded so that the calculation uses the snapshot's own.
  `calculate` uses the one on its command line and never reads the file's.
* `UsedKeysAreKept` (`PickStore`): `pick-store.ts:27-28` says every key a wallet
  has used in a round is in `pick_requests`. A withdrawal deletes its pick's, so a
  late retry of it stores the pick again.
* `LateReadSettles` (`GenesisFlow`): `flow.ts:304-305` says the next read tries a
  reservation again, and `rpc-vault.ts:98-99` that one that landed unrecorded is
  found seconds or minutes later. One first read again after more blocks than
  the look-back has is never found, and its wallet is held back for good.
* `SequenceDecidesTies` (`MarketData`): `ingest.ts:163-164` says a sequence
  decides ties. A message without one may come between two that have one and let
  the lower of them replace the higher.
* `LoadedCalibrationRuns` (`Calibrate`): `candidate.ts:96-98` says a file that
  calibrates is a file that runs. A divisor of zero loads and throws on the
  first tick.
* `NothingRecorded` (`Api`): `errors.ts:298-299` says nothing was recorded when
  the chain does not answer; a Genesis request has then been opened, and may
  have been committed.
* `RateIsKept` without `ClocksAgree`: `redis/src/rate-limit.ts:30-31` says clocks
  that differ never grant a token. One that is ahead refills early, and again
  after every expiry.
* `SidesAreMirrored` (`BattleMath`): ADR 0005 and `scoring.test.ts:274` say that
  swapping sides mirrors the points. The left share is floored.
* `NoStartWhilePaused` (`Pacer`): `paced.ts:161` says no call starts before
  `resumeAt`; a call already asleep does.
* `SignOutHolds` (`WalletSession`): `useWalletSession.ts:244-246` says signing out
  is signing out on this device; an answer under way signs in again.
  `SignInEnds`: `recover-pool.ts:60-62` and `:92-94` say a sign-in that cannot
  be recovered fails rather than hangs; the pool keeps posting to a thread that
  has died, so one sent to it is never answered.
* `CoveredIsRead` with `HEAD_LAG = 2`, `MAX_BLOCKS_PER_POLL = 3` and
  `SEEN_CAP = 10` (`MarketIndexer`): `market-indexer.ts:649` says a curve trades
  after it launches, so its launch is at or before `to`. A poll that failed
  after it read its logs may be retried against an endpoint whose head is older;
  the trades left waiting are then past `to`, their curve is taken for no curve,
  and they are dropped for good.
* `ReservedCardIsShown`, `LoadingIsOnTheWay` (`GenesisPage`): a page whose reward
  is being reserved is not polled, although `GenesisClaim.tsx:107-108` says it
  will show the card; a profile may say it is loading with nothing in flight.
  `ArmedCardIsTheWallets`: `App.tsx:481-484` says the pick controls arm the dealt
  card, from the same read as the War Points. Neither a sign-out nor a sign-in
  clears it, so another wallet sees the card of the one before until its own
  profile has been read; the server refuses it.
* `NewestAnswerStands`, `DecisionWasTaken`, `DeployedMeansLocked` (`PickPage`): an
  older read may replace a newer one, a card decision may outlive its refusal,
  and a new round may show the last one's deployment until its own read comes.
  `BackingIsTheWallets`: `session.ts:141` says the backing is the player's; after
  a change of wallet the one of the wallet before stays until the next resync
  has read the round.
* `ClaimedAsTheContractSays` (`RewardClaims`): a claim shown as claimed may be
  the one of the wallet before.
* `ResetArrives`, `PresentationEnds`, `CinematicsEnd` (`WorldView`): a link or a
  gesture in the same moment can leave the camera short of the anchor it was
  reset to, in the framing of a closed page, or in a close-up.
* `loop.ts:119` says a battle whose observation fails is skipped; one that
  throws ends the driver (line 134), which to `RoundService` is an outage.
* `scheduler.ts:69-75` says a request received at or after `lock_at` is
  rejected. The handler reads the clock for the check (`server.ts:853`) and
  again for `receivedAt` (line 886) after two awaits, so a pick may be stored
  and frozen with a receive time past the lock. Nothing reads the column.
* `battle-engine/src/driver.ts:136-139` says the schedule never drifts. The
  driver opens the next round at the later of that schedule and its clock after
  finalization (`round-service/src/driver.ts:222`), so each delay is carried
  over to every later round.
* `announce.ts:43-44` says `ROUND_OPENED` is how pages hear of a round. It is
  published before the API has the round (`driver.ts:224`, and the followers
  poll once a second), so the snapshot a page fetches on it may be the previous
  round's, or a 404.
* `docs/operations/disputed-result.md:17` says to fetch the recording of a round;
  no part of the server writes one. `Audits` shows that a recording, if there is
  one, replays to the result.

## 6. Plan

Every part with state of its own has a module, and every state invariant of one
has a theorem. What would add most, in order:

1. Lemmas on the pure algorithms that do not recurse: what `CreateRound`,
   matchmaking's eligibility and the resolution ladder preserve.
2. `LiveStream` with two snapshots in flight.
3. `MarketIndexer` with several logs in a block and several tickers, and the
   statement that holds of it when endpoints lag.
