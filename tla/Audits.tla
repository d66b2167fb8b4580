------------------------------- MODULE Audits -------------------------------
(***************************************************************************)
(* What lets somebody else check a published outcome: the recording of a   *)
(* round and its replay (packages/replay), the derivation of a Genesis     *)
(* card (genesis-rng.ts, prng.ts), and the tools an operator runs on them  *)
(* and on a distribution (tools/*.mjs).  A SHA-256 digest is the tuple of  *)
(* bytes it is of, so two are equal when their preimages are; what a tool  *)
(* prints is left out, its exit status is what it answers.                 *)
(***************************************************************************)
EXTENDS RewardMath, BattleMath

-----------------------------------------------------------------------------
(* engine.ts, round.ts: a battle is its state and the ticks its evidence     *)
(* chains.  A tick is an instant, who leads on its figures and whether a     *)
(* feed it needs is stale.                                                   *)

NoTick == -1
beginBattle == [state |-> "SCHEDULED", chain |-> << >>, last |-> NoTick]

openBattle(battle) == [battle EXCEPT !.state = "LIVE"]

\* The digest chains the previous one, so it is the ticks that went in, in order.
foldEvidence(previous, tick) == Append(previous, tick)

tickApplied(battle, tick, clock) ==
    IF \/ battle.state # "LIVE"
       \/ tick.at < clock.start \/ tick.at >= clock.end
       \/ tick.at < battle.last
    THEN battle
    ELSE IF tick.stale THEN [battle EXCEPT !.state = "VOID"]
    ELSE [battle EXCEPT !.chain = foldEvidence(@, tick), !.last = tick.at]

tickBattle(battles, id, tick, clock) ==
    IF id \in DOMAIN battles THEN [battles EXCEPT ![id] = tickApplied(@, tick, clock)] ELSE battles

\* createRound's battles, opened by lockRound, which refuses a wallet with two
\* picks and a pick behind a battle of another round.
lockable(ids, picks) ==
    /\ \A i, j \in DOMAIN picks : i # j => picks[i].wallet # picks[j].wallet
    /\ \A i \in DOMAIN picks : picks[i].battle \in ids

lockedBattles(ids) == [id \in ids |-> openBattle(beginBattle)]

\* A level battle is broken by the block's hash, and refused without one.
WinnerOf(battle, hash) ==
    LET leader == Last(battle.chain).leader IN IF leader = "LEVEL" THEN hash ELSE leader

RefusedRound == [exit |-> "refused"]
finalizeRound(battles, picks, hash) ==
    LET scored == {id \in DOMAIN battles : battles[id].state = "LIVE" /\ battles[id].chain # << >>}
        won == {p \in ToSet(picks) : p.battle \in scored /\ WinnerOf(battles[p.battle], hash) = p.side}
    IN IF \E id \in scored : WinnerOf(battles[id], hash) = NoHash THEN RefusedRound
       ELSE [exit |-> "finalized",
             results |-> [id \in scored |-> [winner |-> WinnerOf(battles[id], hash), evidence |-> battles[id].chain]],
             voided |-> DOMAIN battles \ scored,
             awards |-> {<<p.wallet, "WIN">> : p \in won}
                        \cup {<<p.wallet, "CARD_ASSIST">> : p \in {q \in won : q.card # "null"}}]

\* The round as it runs: the battles' ticks arrive in one order, each at its own.
LiveRound(round, arrivals) ==
    IF ~lockable(round.ids, round.picks) THEN RefusedRound
    ELSE finalizeRound(FoldLeft(LAMBDA battles, a : tickBattle(battles, a.battle, a.tick, round.clock),
                                lockedBattles(round.ids), arrivals),
                       round.picks, round.hash)

-----------------------------------------------------------------------------
(* recording.ts: a recording is a round's inputs, its ticks battle by battle. *)

TickLogs(ids, arrivals) ==
    LET of(id) == SelectSeq(arrivals, LAMBDA a : a.battle = id)
        battles == SetToSeq(ids)
    IN [i \in DOMAIN battles |->
          [battle |-> battles[i], ticks |-> [k \in DOMAIN of(battles[i]) |-> of(battles[i])[k].tick]]]

recordRound(round, arrivals) ==
    [ids |-> round.ids, picks |-> round.picks, clock |-> round.clock, hash |-> round.hash,
     logs |-> TickLogs(round.ids, arrivals)]

replayRound(recording) ==
    LET replayed(battles, log) ==
            FoldLeft(LAMBDA b, tick : tickBattle(b, log.battle, tick, recording.clock), battles, log.ticks)
    IN IF ~lockable(recording.ids, recording.picks) THEN RefusedRound
       ELSE finalizeRound(FoldLeft(replayed, lockedBattles(recording.ids), recording.logs),
                          recording.picks, recording.hash)

REQUIRED_RECORDING_FIELDS ==
    {"roundId", "roundIndex", "clock", "baseSeedHex", "recentRounds", "confidence", "picks", "tickLogs",
     "finalizationBlockHash", "config"}

\* A file: whether it is JSON at all, the fields it has, the kinds of those
\* that are looked at, and the recording the rest of it says.
encodeRecording(recording) ==
    [json |-> TRUE, fields |-> REQUIRED_RECORDING_FIELDS, seed |-> "string", index |-> "integer",
     hash |-> IF recording.hash = NoHash THEN "null" ELSE "32 bytes", arrays |-> TRUE, recording |-> recording]

\* A pick of before cards were named has no card at all, which is not null.
decodeRecording(file) ==
    /\ file.json /\ REQUIRED_RECORDING_FIELDS \subseteq file.fields
    /\ file.seed = "string" /\ file.index = "integer" /\ file.hash \in {"null", "32 bytes"} /\ file.arrays
    /\ \A i \in DOMAIN file.recording.picks : file.recording.picks[i].card # "absent"

\* tools/replay-round.mjs: expectations maps the battles named by --expect to
\* their hashes.  TRUE is exit status 0.
replayTool(file, expectations) ==
    LET round == IF decodeRecording(file) THEN replayRound(file.recording) ELSE RefusedRound
    IN /\ round # RefusedRound
       /\ \A id \in DOMAIN expectations :
            id \in DOMAIN round.results /\ round.results[id].evidence = expectations[id]

-----------------------------------------------------------------------------
(* genesis-rng.ts, prng.ts: the seed of a draw and the streams it feeds.  A   *)
(* hex text is its bytes, written with or without 0x and in either case.     *)

HexText(bytes, prefixed, upper) == [bytes |-> bytes, hex |-> TRUE, even |-> TRUE, prefixed |-> prefixed, upper |-> upper]

\* Bytes are numbers; a domain is written with numbers no byte and no length takes.
NotHex == <<-1>>
normalizeHex(text) == IF text.bytes # << >> /\ text.hex /\ text.even THEN text.bytes ELSE NotHex

GENESIS_DOMAIN_SEPARATOR == <<900>>
GENESIS_CARD_DOMAIN == GENESIS_DOMAIN_SEPARATOR \o <<901>>

\* Mutant: the fields are hashed one after the other.
SeedUnframed(input) ==
    IF NotHex \in {normalizeHex(input.block), normalizeHex(input.wallet)} \/ input.request = << >> THEN NotHex
    ELSE GENESIS_DOMAIN_SEPARATOR \o normalizeHex(input.block) \o normalizeHex(input.wallet) \o input.request

\* Each field goes in behind its length.
deriveGenesisSeed(input) ==
    LET framed(field) == <<Len(field)>> \o field
    IN IF NotHex \in {normalizeHex(input.block), normalizeHex(input.wallet)} \/ input.request = << >> THEN NotHex
       ELSE GENESIS_DOMAIN_SEPARATOR \o framed(normalizeHex(input.block)) \o framed(normalizeHex(input.wallet))
            \o framed(input.request)

\* What block number counter of a stream is the hash of; a seed is a digest, so
\* all are of one length.
StreamBlock(seed, domain, counter) == domain \o <<seed>> \o <<counter>>

deriveRoundSeed(base, roundId) == <<902>> \o normalizeHex(base) \o roundId

RARITIES == <<"COMMON", "UNCOMMON", "RARE", "EPIC", "LEGENDARY", "SECRET">>
RARITY_RATE_BPS == <<5000, 2800, 1400, 600, 190, 10>>
RARITY_RATE_BPS_SECRET_DISABLED == <<5000, 2800, 1400, 600, 200, 0>>
RARITY_USES == <<20, 15, 10, 5, 3, 1>>
SLOTS_PER_BASIS_POINT == 100
RNG_SLOT_COUNT == 1000000

\* The catalogue has this many cards of each rarity.
cardsOfRarity == <<3, 3, 3, 2, 2, 1>>

slotWidths(secretAvailable) ==
    LET rates == IF secretAvailable THEN RARITY_RATE_BPS ELSE RARITY_RATE_BPS_SECRET_DISABLED
    IN [i \in DOMAIN rates |-> rates[i] * SLOTS_PER_BASIS_POINT]

\* streams[d], the numbers the stream of domain d gives, each below range.
resolveGenesis(streams, range, secretAvailable) ==
    LET slot == nextBelow(RNG_SLOT_COUNT, range, streams[GENESIS_DOMAIN_SEPARATOR])
        rarity == rarityForSlot(slot, slotWidths(secretAvailable))
    IN [slot |-> slot, rarity |-> RARITIES[rarity],
        cardType |-> <<RARITIES[rarity], nextBelow(cardsOfRarity[rarity], range, streams[GENESIS_CARD_DOMAIN])>>]

initialUsesFor(cardType) == RARITY_USES[CHOOSE r \in DOMAIN RARITIES : RARITIES[r] = cardType[1]]

verifyGenesis(streams, range, secretAvailable, recorded) ==
    resolveGenesis(streams, range, secretAvailable) = recorded

\* tools/audit-genesis.mjs: a record says its inputs, whether Secret was funded
\* and perhaps what was recorded.
GENESIS_FIELDS == {"finalizedBlockHash", "wallet", "requestId", "secretAvailable"}
auditGenesis(record, streams, range) ==
    /\ GENESIS_FIELDS \subseteq DOMAIN record
    /\ record.secretAvailable \in {"true", "false"}
    /\ "recorded" \in DOMAIN record =>
         verifyGenesis(streams, range, record.secretAvailable = "true", record.recorded)

-----------------------------------------------------------------------------
(* tools/verify-distribution.mjs: the checks between a calculation and its    *)
(* publication.  What is carried is the pool less what was allocated.        *)

\* expected holds the root given with --expect-root, if one was.
verifyDistribution(snapshot, expected) ==
    LET paid == allocateDistribution(snapshot.standings, snapshot.pool, snapshot.minimum)
        claims == SetToSeq(Claimable(paid))
        leaves == [i \in DOMAIN claims |-> leafOf(snapshot.id, claims[i], paid[claims[i]].amount)]
    IN /\ snapshot.standings # << >>
       /\ \A w \in DOMAIN paid : qualifiesForDistribution(snapshot.standings[w])
       /\ \A w \in DOMAIN paid : paid[w].amount <= Cap(snapshot.pool)
       /\ claims # << >> =>
            /\ \A i \in DOMAIN leaves : verifyProof(leaves[i], MerkleProof(leaves, i), MerkleRoot(leaves))
            /\ expected \subseteq {MerkleRoot(leaves)}
=============================================================================
