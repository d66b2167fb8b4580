---------------------------- MODULE MCAlgorithms ----------------------------
(***************************************************************************)
(* The pure algorithms, held against what they are for over every input of *)
(* a small set.  A step asks one question of one of them; the questions    *)
(* are `asked`, and a property is about the answers to the ones it reads.  *)
(* Rounds are also drawn by the driver's own openRound.                    *)
(***************************************************************************)
EXTENDS Audits, Calibrate, MarketData, MarketIndexer, PlayerRecord, Api

VARIABLE asked

vars == <<asked, drawn>>

Nobody == [of |-> "nothing"]

-----------------------------------------------------------------------------
(* Rewards: allocations and their tree.                                      *)

Standings == UNION {[s -> {0, 1, 4, 9}] : s \in SUBSET {"w1", "w2", "w3"}}

AskAllocation ==
    \E standings \in Standings, pool \in {0, 7, 40, 100}, minimum \in {0, 1, 9} :
        asked' = [of |-> "allocation", standings |-> standings, pool |-> pool, minimum |-> minimum]

AskProof ==
    \E n \in 1..9 : \E index \in 1..n : asked' = [of |-> "proof", leaves |-> n, index |-> index]

AskSqrt == \E value \in 0..200 : asked' = [of |-> "sqrt", value |-> value]

\* Distributions pay what they may and no more: nobody is paid over the cap,
\* the whole of the distributable pool reaches the wallets the cap has not
\* bound up to less than one unit each, more War Points never earn less, and
\* what the claim threshold holds back is carried (allocation.ts).  The square
\* root the weights come from is exact, and a wallet's Merkle proof opens its
\* own leaf and no other (merkle.ts, money.ts).
DistributionIsExact(question) ==
    /\ question.of = "sqrt" =>
         LET r == integerSqrt(question.value) IN r * r <= question.value /\ question.value < (r + 1) * (r + 1)
    /\ question.of = "allocation" =>
         LET standings == question.standings
             paid == allocateDistribution(standings, question.pool, question.minimum)
             due(w) == paid[w].amount + paid[w].carriedForward
             open == {w \in DOMAIN paid : ~paid[w].capped}
             total == MapThenSumSet(due, DOMAIN paid)
         IN /\ \A w \in DOMAIN paid : due(w) <= Cap(question.pool)
            /\ total <= Distributable(question.pool)
            /\ open # {} => Distributable(question.pool) - total < Cardinality(open)
            /\ \A v, w \in DOMAIN paid : standings[v] <= standings[w] => due(v) <= due(w)
            /\ \A w \in DOMAIN paid : paid[w].amount \in {0, due(w)}
                                      /\ (paid[w].amount = 0 /\ due(w) # 0 => due(w) < question.minimum)
    /\ question.of = "proof" =>
         LET leaves == [i \in 1..question.leaves |-> leafOf(1, i, 10 * i)]
             proof == MerkleProof(leaves, question.index)
         IN \A i \in 0..(question.leaves + 1), amount \in {10 * question.index, 11} :
              verifyProof(leafOf(1, i, amount), proof, MerkleRoot(leaves))
                <=> i = question.index /\ amount = 10 * question.index

-----------------------------------------------------------------------------
(* Audits: recordings, Genesis draws, distributions.                         *)

RoundClock == [start |-> 1, end |-> 3]
RoundPicks ==
    <<[wallet |-> "w1", battle |-> "b1", side |-> "LEFT", card |-> "card"],
      [wallet |-> "w2", battle |-> "b2", side |-> "LEFT", card |-> "null"],
      [wallet |-> "w3", battle |-> "b1", side |-> "RIGHT", card |-> "null"]>>
Arrivals == [battle : {"b1", "b2"}, tick : [at : 0..3, leader : {"LEFT", "LEVEL"}, stale : {FALSE}]
                                           \cup {[at |-> 2, leader |-> "LEFT", stale |-> TRUE]}]
RoundOf(hash) == [ids |-> {"b1", "b2"}, picks |-> RoundPicks, clock |-> RoundClock, hash |-> hash]

AskReplay ==
    \E n \in 0..3 : \E arrivals \in [1..n -> Arrivals], hash \in {NoHash, "RIGHT"} :
        asked' = [of |-> "replay", round |-> RoundOf(hash), arrivals |-> arrivals]

\* Files as they come back: cut short, older than a field, edited.
Damaged(file) ==
    {[file EXCEPT !.json = FALSE], [file EXCEPT !.seed = "number"], [file EXCEPT !.index = "fraction"],
     [file EXCEPT !.hash = "short"], [file EXCEPT !.arrays = FALSE],
     [file EXCEPT !.recording.picks[2].card = "absent"],
     [file EXCEPT !.recording.picks[2].wallet = "w1"], [file EXCEPT !.recording.picks[2].battle = "other"]}
    \cup {[file EXCEPT !.fields = @ \ {f}] : f \in REQUIRED_RECORDING_FIELDS}

ByteStrings == UNION {[1..n -> 0..2] : n \in 1..2}
HexTexts == {HexText(bytes, prefixed, upper) : bytes \in ByteStrings, prefixed, upper \in BOOLEAN}
            \cup {[HexText(<<1>>, FALSE, FALSE) EXCEPT !.hex = FALSE], [HexText(<<1>>, FALSE, FALSE) EXCEPT !.even = FALSE],
                  HexText(<< >>, TRUE, FALSE)}
AskSeed ==
    \E block, wallet \in HexTexts, request \in {<< >>, <<1>>, <<1, 2>>} :
        asked' = [of |-> "seed", input |-> [block |-> block, wallet |-> wallet, request |-> request]]

\* The generator's range, small enough for draws to be rejected.
DrawRange == 2 * RNG_SLOT_COUNT + 3
EdgeSlots == {0, 499999, 500000, 779999, 780000, 919999, 920000, 979999, 980000, 998999, 999000, 999999}
AskGenesis ==
    \E slot \in EdgeSlots, rejected, again \in BOOLEAN, card \in 0..5 :
        asked' = [of |-> "genesis", slot |-> slot,
                  streams |-> (GENESIS_DOMAIN_SEPARATOR :>
                                  (IF rejected THEN <<DrawRange - 1>> ELSE << >>)
                                  \o <<slot + (IF again THEN RNG_SLOT_COUNT ELSE 0), 7>>)
                              @@ (GENESIS_CARD_DOMAIN :> <<card, 7>>)]

\* What was published can be checked by somebody else, and the check can be
\* believed.  The battles of a round do not touch each other, so its recording,
\* which keeps the ticks battle by battle, replays into what the round came to
\* while they arrived mixed; the tool exits 0 for exactly the hashes the round
\* published, never for a battle it has no result of, and a file that is not a
\* recording does not replay (recording.ts, replay-round.mjs).  Two Genesis
\* requests share a seed only if they are the same, however their hex is
\* written; a draw falls as the funded table says except that a Secret slot of
\* an unfunded vault is Legendary, and only the recorded card passes its audit
\* (genesis-rng.ts, audit-genesis.mjs).  A calculated distribution passes the
\* operator's checks, and with another window's root it does not
\* (verify-distribution.mjs).
AuditIsSound(question) ==
    /\ question.of = "replay" =>
         LET live == LiveRound(question.round, question.arrivals)
             recording == recordRound(question.round, question.arrivals)
             file == encodeRecording(recording)
             without(i) == encodeRecording(recordRound(question.round, RemoveAt(question.arrivals, i)))
         IN /\ replayRound(recording) = live
            /\ \A f \in Damaged(file) : ~replayTool(f, << >>)
            /\ replayTool(file, << >>) <=> live # RefusedRound
            /\ live # RefusedRound =>
                 /\ ~replayTool(file, "other" :> << >>)
                 /\ \A id \in live.voided : ~replayTool(file, id :> << >>)
                 /\ \A id \in DOMAIN live.results : replayTool(file, id :> live.results[id].evidence)
                 /\ \A i \in DOMAIN question.arrivals : LET a == question.arrivals[i] IN
                      a.battle \in DOMAIN live.results /\ replayTool(without(i), << >>) =>
                        (replayTool(without(i), a.battle :> live.results[a.battle].evidence)
                           <=> a.tick.at \notin {1, 2} \/ \E j \in 1..(i - 1) :
                                 question.arrivals[j].battle = a.battle /\ question.arrivals[j].tick.at \in (a.tick.at + 1)..2)
    /\ question.of = "seed" =>
         LET input == question.input
             seed == deriveGenesisSeed(input)
             same(t, u) == t.bytes = u.bytes
             others == {[input EXCEPT !.block = b, !.wallet = w, !.request = r] :
                          b, w \in {HexText(bytes, TRUE, FALSE) : bytes \in ByteStrings}, r \in {<<1>>, <<1, 2>>, <<2>>}}
         IN /\ seed = NotHex <=> \/ input.request = << >>
                                 \/ \E t \in {input.block, input.wallet} : t.bytes = << >> \/ ~t.hex \/ ~t.even
            /\ seed # NotHex => \A o \in others : deriveGenesisSeed(o) = seed <=>
                 same(o.block, input.block) /\ same(o.wallet, input.wallet) /\ o.request = input.request
            /\ seed # NotHex => \A base \in {input.block, input.wallet}, id \in {<<1>>, <<1, 2>>} :
                 LET round == deriveRoundSeed(base, id) IN
                 /\ round # seed
                 /\ round = deriveRoundSeed(base, input.request) <=> id = input.request
            /\ \A c, d \in 0..1 : StreamBlock(seed, GENESIS_DOMAIN_SEPARATOR, c) # StreamBlock(seed, GENESIS_CARD_DOMAIN, d)
    /\ question.of = "genesis" =>
         LET outcome(funded) == resolveGenesis(question.streams, DrawRange, funded)
             published(funded, recorded) == [finalizedBlockHash |-> 1, wallet |-> 1, requestId |-> 1,
                                          secretAvailable |-> IF funded THEN "true" ELSE "false", recorded |-> recorded]
             ok(funded, recorded) == auditGenesis(published(funded, recorded), question.streams, DrawRange)
         IN /\ outcome(TRUE).slot = question.slot /\ outcome(FALSE).rarity # "SECRET"
            /\ initialUsesFor(outcome(FALSE).cardType) >= initialUsesFor(outcome(TRUE).cardType)
            /\ IF outcome(TRUE).rarity = "SECRET"
               THEN outcome(FALSE).rarity = "LEGENDARY" /\ question.slot >= 999000
               ELSE outcome(FALSE) = outcome(TRUE)
            /\ \A funded, other \in BOOLEAN :
                 ok(funded, outcome(other)) <=> funded = other \/ outcome(TRUE).rarity # "SECRET"
            /\ ~auditGenesis([published(TRUE, outcome(TRUE)) EXCEPT !.secretAvailable = "yes"], question.streams, DrawRange)
    /\ question.of = "allocation" =>
         LET snapshot == [id |-> 1, standings |-> question.standings, pool |-> question.pool, minimum |-> question.minimum]
             paid == allocateDistribution(question.standings, question.pool, question.minimum)
         IN question.standings # << >> =>
              /\ verifyDistribution(snapshot, {})
              /\ Claimable(paid) # {} => ~verifyDistribution(snapshot, {leafOf(2, "w1", 1)})

-----------------------------------------------------------------------------
(* Blocks: dating them and finding them.                                     *)

AskBlocks ==
    \E times \in Chains(7, 4), at \in 0..5, tolerance \in {0, 2} :
        asked' = [of |-> "blocks", times |-> times, at |-> at, tolerance |-> tolerance]

AskScan ==
    \E count \in [1..5 -> {0, 1, 3}], cap \in 1..3 :
        asked' = [of |-> "scan", count |-> count, cap |-> cap]

\* A search that reads few blocks answers what reading all of them would: the
\* first block at or after a cutoff, a block no later than a target and either
\* its last or within the tolerance of it, times in the order of the blocks and
\* between those of the blocks read, and every block of a range once, unless
\* one block alone is more than the endpoint returns.
SearchIsExact(question) ==
    /\ question.of = "blocks" =>
         LET times == question.times  head == Len(times)
             found == blockAtOrBefore(times, head, question.at, question.tolerance)
             reached == {b \in 1..head : times[b] >= question.at}
             dated == timesOf(times, {1, head}, 1..head, [b \in 1..head |-> 2])
             kept == forgetBefore(times, dated.anchors, question.at)
         IN /\ found = 1 \/ times[found] <= question.at
            /\ \/ found = head \/ times[found + 1] > question.at
               \/ question.at - times[found] <= question.tolerance
            /\ firstFinalizedBlockAtOrAfter(times, head, question.at)
                 = IF reached = {} THEN NoBlock ELSE Least(reached)
            /\ \A a, b \in 1..head : a <= b => dated.at[a] <= dated.at[b]
            /\ \A b \in dated.anchors : dated.at[b] = times[b]
            /\ \A b \in 1..head : times[b] >= question.at => around(kept, b).below # NoBlock
    /\ question.of = "scan" =>
         scanLogs(question.count, question.cap, 1, 5)
           = IF \E b \in 1..5 : question.count[b] > question.cap THEN ScanFailed ELSE <<1, 2, 3, 4, 5>>

-----------------------------------------------------------------------------
(* Markets: prices, sessions, activity and samples.                          *)

Policy == [maxReferenceAge |-> 3, maxQuiet |-> 4, minTradeQuote |-> 2, maxTradeDeviation |-> 6000,
           priceWindow |-> 2, maxPriceDeviation |-> 3000, minWindowTrades |-> 2, maxSourceLag |-> 2]
Trades == {[id |-> 1, at |-> 1, quote |-> 2, token |-> 1], [id |-> 2, at |-> 2, quote |-> 2, token |-> 2],
           [id |-> 3, at |-> 2, quote |-> 6, token |-> 2], [id |-> 4, at |-> 3, quote |-> 4, token |-> 2],
           [id |-> 5, at |-> 3, quote |-> 1, token |-> 1], [id |-> 6, at |-> 4, quote |-> 9, token |-> 1]}
References == {[price |-> 0, updatedAt |-> 0], [price |-> 200, updatedAt |-> 1]}
Holidays == SUBSET {1, 4}

AskPrice ==
    \E trades \in SUBSET Trades, at \in 1..6, reference \in References :
        asked' = [of |-> "price", trades |-> trades, at |-> at, reference |-> reference]

AskSession ==
    \E at \in 0..30, duration \in 1..3, holidays \in Holidays :
        asked' = [of |-> "session", at |-> at, duration |-> duration, holidays |-> holidays]

Events == {[id |-> i, block |-> 1 + i \div 3, at |-> 1 + i \div 4, ticker |-> "t", wallet |-> IF i = 2 THEN "v" ELSE "w",
            counterparty |-> IF i = 3 THEN "w" ELSE "x", amount |-> IF i = 5 THEN 2 ELSE 1] : i \in 1..5}
AskActivity ==
    \E events \in [1..4 -> Events] : asked' = [of |-> "activity", events |-> events]

Feed == [ticker |-> "t", kind |-> "PRICE", value |-> 1, sourceId |-> "a", at |-> 1,
         received |-> 2, seq |-> NoSeq, whole |-> TRUE]
Samples ==
    {[Feed EXCEPT !.at = a, !.seq = n, !.sourceId = s, !.value = 10 * a + n + (IF s = "a" THEN 3 ELSE 6)] :
        a \in 1..2, n \in {NoSeq, 1, 2}, s \in {"a", "b"}}
    \cup {[Feed EXCEPT !.at = 2, !.seq = n, !.kind = "VOLUME"] : n \in {NoSeq, 1}}
    \cup {[Feed EXCEPT !.received = 4], [Feed EXCEPT !.at = 3], [Feed EXCEPT !.at = 2, !.value = -1],
          [Feed EXCEPT !.at = 2, !.value = NotFinite], [Feed EXCEPT !.at = 2, !.whole = FALSE]}
AskSamples ==
    \E samples \in [1..3 -> Samples] : asked' = [of |-> "samples", samples |-> samples]

SamplePolicy == [maxClockSkew |-> 0, maxArrivalLag |-> 2]
Splits == [t |-> 4]
Ingested(samples) ==
    FoldLeft(LAMBDA state, s : ingest(state, s, Splits, SamplePolicy).state, EmptyIngest, samples)
OutcomeOf(samples, i) ==
    ingest(Ingested(SubSeq(samples, 1, i - 1)), samples[i], Splits, SamplePolicy).outcome

\* A market is read as it was.  A price is the trade-weighted median of trades
\* no later than the instant it is for, and no group of trades with less than
\* half of the weight can take it outside the others' prices; an observation is
\* never healthier than the worse of the two prices it compares, and a lookback
\* reads no trade of its future (dex-price.ts, onchain-market.ts).  A minute's
\* bar lies among its trades, a price that stood still has the least volatility
\* there is, and volume like every day's is once the usual (dex-window.ts).  A
\* window the round clock opens on is open throughout, and it is compared with
\* the latest open days before it, none skipped (market-session.ts).  Which activity counts does not depend on the order it
\* arrives in (qualification.ts).  The time of the sample a stream keeps is the
\* newest of its usable messages whatever order they arrive in, and where all of
\* that time have a sequence so is the sequence; among others of that time it is
\* one of them, whose turn the order of arrival decides.  A source's message
\* counts at most once, streams do not order each other's, and a sample left
\* alone only gets older (ingest.ts).
ReadingIsSound(question) ==
    /\ question.of = "price" =>
         LET reading == priceAt(question.trades, question.at, question.reference, Policy)
             counted == CountedTrades(question.trades, question.at, question.reference, Policy)
             window == InWindow(counted, question.at, Policy)
             used == IF window = {} THEN latestTrades(counted) ELSE window
             weigh(S) == SumOf(S, LAMBDA t : t.quote)
             source == [trades |-> question.trades, reference |-> question.reference, covered |-> question.at, holidays |-> {}]
             seen == observeNow(source, 1, question.at, Policy)
             known == [source EXCEPT !.trades = {t \in @ : t.at <= question.at}]
             span == [from |-> 1, to |-> question.at]
             volume == notionalIn(question.trades, span, 2)
             bars == minuteBars(question.trades, span, 2)
         IN /\ lookbackNow(source, question.at, 4, 2, Policy) = lookbackNow(known, question.at, 4, 2, Policy)
            /\ \A i \in DOMAIN bars :
                 LET minute == {t \in countedIn(question.trades, span, 2) : t.at \div BAR = bars[i].minute}
                 IN /\ \E low, high \in minute : tradePrice(low) <= bars[i].price /\ bars[i].price <= tradePrice(high)
                    /\ i > 1 => bars[i - 1].minute < bars[i].minute
            /\ volatilityOver(bars, 4, 3) >= 3
            /\ (\A i \in DOMAIN bars : bars[i].price = bars[1].price) => volatilityOver(bars, 4, 3) = 3
            /\ relativeVolume(volume, <<volume, volume>>, 1) = IF volume = 0 THEN 0 ELSE RATE_SCALE
            /\ reading = priceAt({t \in question.trades : t.at <= question.at}, question.at, question.reference, Policy)
            /\ used # {} =>
                 /\ 2 * weigh({t \in used : tradePrice(t) < reading.price}) < weigh(used)
                 /\ 2 * weigh({t \in used : tradePrice(t) <= reading.price}) >= weigh(used)
                 /\ \A group \in SUBSET used : 2 * weigh(group) < weigh(used) =>
                      \E low, high \in used \ group :
                         tradePrice(low) <= reading.price /\ reading.price <= tradePrice(high)
            /\ reading.health = "HEALTHY" =>
                 deviationBps(reading.price, question.reference.price) <= Policy.maxPriceDeviation
            /\ Severity[seen.health] >= Severity[reading.health] \/ ~isMarketOpen(question.at, {})
            /\ notionalIn(question.trades, [from |-> 1, to |-> question.at], 2)
                 + notionalIn(question.trades, [from |-> question.at, to |-> 9], 2)
                   = notionalIn(question.trades, [from |-> 1, to |-> 9], 2)
    /\ question.of = "session" =>
         LET opens == nextOpenWindow(question.at, question.duration, question.holidays)
             fits(t) == \A i \in t..(t + question.duration - 1) : isMarketOpen(i, question.holidays)
             spans == comparableSpans([from |-> question.at, to |-> question.at + question.duration], 3, question.holidays)
             earlier == {question.at - d * DAY : d \in 1..(question.at \div DAY)}
             compared == {spans[i].from : i \in DOMAIN spans}
         IN /\ compared \subseteq {t \in earlier : isMarketOpen(t, question.holidays)}
            /\ \A t \in earlier : isMarketOpen(t, question.holidays) /\ t \notin compared =>
                 Len(spans) = 3 /\ \A u \in compared : t < u
            /\ opens >= question.at /\ fits(opens) /\ (fits(question.at) => opens = question.at)
    /\ question.of = "activity" =>
         LET policy == [excluded |-> {"v"}, minimumAmount |-> 1, maxIdentical |-> 1]
             judged(events) == qualify("t", events, [from |-> 1, to |-> 3], policy)
             counts(events) == <<{e.event.id : e \in QualifiedEvents(judged(events))}, uniqueActiveWallets(judged(events))>>
         IN counts(question.events) = counts(SortSeq(question.events, LAMBDA a, b : a.id < b.id))
    /\ question.of = "samples" =>
         LET samples == question.samples
             kept == Ingested(samples)
             usable(stream) == {s \in ToSet(samples) : streamKey(s) = stream /\ ~Rejected(s, SamplePolicy)}
             health(stream, now) == Severity[evaluateHealth(kept, stream, now, 1, 2)]
             accepted == {i \in DOMAIN samples : OutcomeOf(samples, i) = "ACCEPTED"}
         IN /\ \A i, j \in accepted : sourceKey(samples[i]) = sourceKey(samples[j]) => i = j
            /\ \A stream \in {streamKey(s) : s \in ToSet(samples)} :
                 LET newest == {s \in usable(stream) : \A u \in usable(stream) : u.at <= s.at}
                     sequences == {s.seq : s \in newest}
                     alone == Ingested(SelectSeq(samples, LAMBDA s : streamKey(s) = stream)).latest
                 IN IF newest = {} THEN stream \notin DOMAIN kept.latest
                    ELSE /\ \E s \in newest : kept.latest[stream] = Canonical(s, Splits)
                         /\ NoSeq \notin sequences => kept.latest[stream].seq = Max(sequences)
                         /\ alone[stream] = kept.latest[stream]
                         /\ \A now \in 0..5 : health(stream, now) <= health(stream, now + 1)

\* "Where the provider gives a sequence, it decides ties — two messages can
\* share a millisecond" (ingest.ts): of a source's sequenced messages that
\* share the time a stream keeps, none is newer than the one it keeps.  A
\* message without a sequence that comes between two of them lets the older of
\* the two replace what the newer had set.  Checked by no run.
SequenceDecidesTies ==
    asked.of = "samples" =>
        LET kept == Ingested(asked.samples).latest
        IN \A s \in ToSet(asked.samples) :
             /\ ~Rejected(s, SamplePolicy) /\ streamKey(s) \in DOMAIN kept
             /\ LET held == kept[streamKey(s)]
                IN /\ held.at = s.at /\ held.sourceId = s.sourceId
                   /\ NoSeq \notin {held.seq, s.seq}
             => s.seq <= kept[streamKey(s)].seq

-----------------------------------------------------------------------------
(* Battles: the score, the winner, the momentum, the labels, the draws.      *)

NoCards == [market |-> 0, volume |-> 0, pons |-> 0, general |-> 0]
ACard == [market |-> 1, volume |-> 0, pons |-> 0, general |-> 3]
Sides == [windowReturn : -1..1, volatility : {3}, relativeVolume : {0, 7}, activity : {0, 4}, wallets : {0, 1},
          cards : {aggregateCardSupport(<< >>), aggregateCardSupport(<<ACard, ACard>>)}]
Divisors == [priceMomentum |-> 10, relativeVolume |-> 9, ponsPower |-> 20, holderCardSupport |-> 30]

AskScore ==
    \E left, right \in Sides : asked' = [of |-> "score", left |-> left, right |-> right]

Thresholds == [push |-> 1, surge |-> 2, dominance |-> 3, comeback |-> 2]
AskMomentum ==
    \E n \in 1..4 : \E totals \in [1..n -> {3, 4, 5, 6, 7}] :
        asked' = [of |-> "momentum", totals |-> totals]

Lookbacks == [windowReturn : {-3, 0, 3}, volatility : {3}, relativeVolume : {0, 9}, activity : {0, 2},
              subWindowReturns : {<<1, 0, 1>>, <<1, -1, 1>>}]
Calibration == [strong |-> 5, weak |-> -5, rising |-> 8, quiet |-> 2, high |-> 2, medium |-> 1, stable |-> 0, mixed |-> 1,
                weights |-> <<4, 3, 2, 1>>, dominant |-> 12, strongFavorite |-> 8, favored |-> 4]
AskLabels ==
    \E left, right \in Lookbacks : asked' = [of |-> "labels", left |-> left, right |-> right]

AskDraws ==
    \E bound \in 1..7 : asked' = [of |-> "draws", bound |-> bound]

AskClock ==
    \E epoch \in 0..2, at \in 0..20 : asked' = [of |-> "clock", epoch |-> epoch, at |-> at]

Picks(n) == {p \in [1..n -> 1..n] : p[1] = 1 /\ \A i \in 2..n : p[i] <= i}

\* Every battle comes to one winner that follows from the figures it was scored
\* on: the two totals are the whole of the points, a side no weaker in anything
\* never has the smaller total, and the chain is asked for a hash exactly when
\* nothing else separates the sides (scoring.ts, resolution.ts).  The momentum
\* shown last and the label of the victory tell the same story of a comeback
\* (momentum.ts); the two sides open with labels that mirror each other
\* (confidence.ts).  Draws and shuffles favour no outcome (prng.ts), a card's
\* rarity gets exactly its slots (genesis.ts), and the rounds of the clock tile
\* time, with picks taken in one round at most (scheduler.ts).
BattleIsDecided(question) ==
    /\ question.of = "score" =>
         LET score == scoreBattle(question.left, question.right, Divisors)
             l == StrengthOf(question.left)  r == StrengthOf(question.right)
             end(hash) == resolveBattle(score, hash)
         IN /\ score.leftTotal + score.rightTotal = FULL_SCORE
            /\ (\A c \in DOMAIN l : l[c] >= r[c]) => score.leftTotal >= score.rightTotal
            /\ (\A c \in DOMAIN l : l[c] <= r[c]) => score.leftTotal <= score.rightTotal
            /\ needsChainTiebreak(score) <=> end(NoHash).step = "refused"
            /\ \A hash \in {"LEFT", "RIGHT"} :
                 /\ end(hash).winner \in {"LEFT", "RIGHT"}
                 /\ end(hash).margin > 0 <=> score.leftTotal # score.rightTotal
                 /\ end(hash).margin > 0 => (end(hash).winner = "LEFT" <=> score.leftTotal > score.rightTotal)
                 /\ end(hash).winner # end(NoHash).winner => needsChainTiebreak(score)
    /\ question.of = "momentum" =>
         LET advantages == [i \in DOMAIN question.totals |-> advantageFromScores(question.totals[i], 10 - question.totals[i])]
             shown == Last(Momentum(advantages, Thresholds))
             final == Last(advantages)
             comeback == \E i \in DOMAIN advantages : \/ final > 0 /\ advantages[i] <= -Thresholds.comeback
                                                      \/ final < 0 /\ advantages[i] >= Thresholds.comeback
         IN /\ shown.state = "COMEBACK" <=> comeback
            /\ wasComeback(shown.memory, final, Thresholds.comeback) <=> comeback
            /\ classifyVictory(Abs(final), "EVEN", wasComeback(shown.memory, final, Thresholds.comeback), 1, 3)
                 = "COMEBACK_VICTORY" <=> comeback
    /\ question.of = "labels" =>
         matchupConfidence(question.left, question.right, Calibration)
           = Reverse(matchupConfidence(question.right, question.left, Calibration))
    /\ question.of = "draws" =>
         LET ways(v) == Cardinality({d \in [1..2 -> 0..7] : nextBelow(question.bound, 8, d) = v})
             hands == {shuffle(<<1, 2, 3, 4>>, p) : p \in Picks(4)}
             widths == <<question.bound, 2, 1>>
         IN /\ \A u, v \in 0..(question.bound - 1) : ways(u) = ways(v) /\ ways(u) > 0
            /\ hands = SetToSeqs(1..4)
            /\ \A r \in 1..3 :
                 Cardinality({slot \in 0..(question.bound + 2) : rarityForSlot(slot, widths) = r}) = widths[r]
    /\ question.of = "clock" =>
         LET now == roundIndexAt(question.epoch, question.at)
             clock(i) == clockForRound(question.epoch, i)
             inside(i) == clock(i).pickOpenAt <= question.at /\ question.at < clock(i).battleEndAt
         IN /\ \A i \in 0..5 : inside(i) <=> i = now
            /\ \A i \in 0..5 : acceptsPickAt(clock(i), question.at) => i = now
            /\ \A i \in 0..5, complete \in BOOLEAN :
                 LET decision == decideFinalization(clock(i), question.at, complete, 2)
                 IN /\ i >= now => decision = "RangeError"
                    /\ i < now => decision = IF complete THEN "FINALIZE"
                                             ELSE IF question.at < clock(i + 1).pickOpenAt + 2
                                                  THEN "WAIT" ELSE "VOID"

\* "is symmetric: swapping sides mirrors the result" (scoring.test.ts:274), and
\* "A negative edge is simply the mirror of a positive one" (docs/adr/0005):
\* which side a ticker is drawn on has no part in its points.
SidesAreMirrored ==
    asked.of = "score" =>
        scoreBattle(asked.left, asked.right, Divisors).left = scoreBattle(asked.right, asked.left, Divisors).right

-----------------------------------------------------------------------------
(* Calibration: three tickers, so three battles a round, two ticks each.     *)

Roster == <<"t1", "t2", "t3">>
Reading(health, return) ==
    [health |-> health,
     inputs |-> [windowReturn |-> return, volatility |-> 3, relativeVolume |-> 0, activity |-> 0, wallets |-> 0,
                 cards |-> NoCards]]
Readings == {Reading("HEALTHY", 0), Reading("DEGRADED", 1), Reading("STALE", 0)}
Lookback(return) == [windowReturn |-> return, volatility |-> 3, relativeVolume |-> 0, activity |-> 0,
                     subWindowReturns |-> <<return>>]
Slot(recorded, open, ticks) ==
    [recorded |-> recorded, open |-> open, history |-> Len(ticks) > 1, ticks |-> ticks,
     lookback |-> [t \in ToSet(Roster) |-> Lookback(IF t = "t1" THEN 3 ELSE Len(ticks) - 2)]]
QuietFeed == [t \in ToSet(Roster) |-> Reading("HEALTHY", IF t = "t2" THEN 1 ELSE 0)]
OtherSlots == {<< >>, <<Slot(FALSE, TRUE, <<QuietFeed>>)>>, <<Slot(TRUE, FALSE, <<QuietFeed>>), Slot(TRUE, TRUE, <<QuietFeed>>)>>}

AskCalibration ==
    \E first, second \in [ToSet(Roster) -> Readings], others \in OtherSlots :
        asked' = [of |-> "calibration", slots |-> <<Slot(TRUE, TRUE, <<first, second>>)>> \o others]

Tunings ==
    {[malformed |-> m, settings |-> unset,
      confidence |-> [Calibration EXCEPT !.strong = strong, !.weak = weak, !.mixed = mixed, !.favored = favored,
                                         !.strongFavorite = sf, !.dominant = dominant],
      engine |-> [priceEdgeDivisor |-> divisor, push |-> 1, surge |-> 2, dominance |-> 3, comeback |-> 2,
                  narrowMargin |-> 1, decisiveMargin |-> decisive]] :
        m \in {{}, {"engine.momentum.push"}}, unset \in {{}, {"MARKET_OUTLIER_BPS"}}, strong \in {-1, 5}, weak \in {-1, 5}, mixed \in {-1, 1},
        favored \in {0, 4}, sf \in {4, 8}, dominant \in {8, 12, 20, 21}, divisor \in {0, 10}, decisive \in {0, 3}}
AskTuning == \E raw \in Tunings : asked' = [of |-> "tuning", raw |-> raw]

\* A calibration report adds up: every slot of the tape is counted once, every
\* ticker fought every other in each round that was played, a battle is voided
\* exactly when a ticker is charged with voiding it, a ticker whose readings
\* were always usable is charged with none, and each quantile is a value that
\* was measured, with its share of the measurements at or below it
\* (calibrate.ts, distribution.ts).  What the report cannot tell is left out of
\* the suggestion and named, and the values it does suggest are in order
\* (suggest.ts).  Every label can be met under a calibration that loads, and a
\* candidate that measures is a calibration that loads; one that is refused has
\* a problem named (candidate.ts, confidence.ts).
ReportAddsUp(question) ==
    /\ question.of = "tuning" =>
        LET read == parseEngineTuning(question.raw)
            best == [windowReturn |-> 9, volatility |-> 3, relativeVolume |-> 9, activity |-> 2,
                     subWindowReturns |-> << >>]
            poor == [windowReturn |-> -9, volatility |-> 3, relativeVolume |-> 0, activity |-> 0,
                    subWindowReturns |-> <<1, -1, 1, -1>>]
            shown(gap) == labelsForGap(gap, question.raw.confidence)[1]
            candidate == parseCandidate(question.raw)
        IN /\ read.loads <=> read.problems = {}
           /\ candidate.loads <=> candidate.problems = {}
           /\ candidate.loads => read.loads
           /\ read.loads =>
                /\ {shown(gap) : gap \in -20..20} = DOMAIN EmptyReport(Roster).labels
                /\ matchupConfidence(best, poor, question.raw.confidence) = <<"DOMINANT", "HEAVY_UNDERDOG">>
    /\ question.of = "calibration" =>
        LET report == calibrate(question.slots, Roster, Calibration, Divisors, 1)
            tickers == report.tickers
            n == Len(Roster)
            unusable(t) == tickers[t].ticks["STALE"] + tickers[t].ticks["UNAVAILABLE"]
            advice == suggest(report)
            ordered(low, high) == {low, high} \cap advice.missing = {} => advice.value[low] <= advice.value[high]
            exact(values) ==
                LET s == summary(values)
                    below(v) == Cardinality({i \in DOMAIN values : values[i] <= v})
                    under(v) == Cardinality({i \in DOMAIN values : values[i] < v})
                IN \A q \in QUANTILES :
                     IF values = << >> THEN s.at[q] = NoValue
                     ELSE /\ s.at[q] \in ToSet(values)
                          /\ 100 * below(s.at[q]) >= q * Len(values)
                          /\ q > 0 => 100 * under(s.at[q]) < q * Len(values)
        IN /\ report.played + report.marketClosed + report.unrecorded = Len(question.slots)
           /\ report.finalized + report.voided = report.played * Cardinality(allPairs(Roster))
           /\ MapThenSumSet(LAMBDA l : report.labels[l], DOMAIN report.labels)
                = 2 * (report.finalized + report.voided)
           /\ \A t \in DOMAIN tickers :
                /\ tickers[t].finalized + tickers[t].voided = report.played * (n - 1)
                /\ tickers[t].voidsCaused <= tickers[t].voided
                /\ unusable(t) = 0 => tickers[t].voidsCaused = 0
                /\ Len(tickers[t].lookback) = report.played
                /\ exact(tickers[t].returns)
           /\ LET charged == MapThenSumSet(LAMBDA t : tickers[t].voidsCaused, DOMAIN tickers)
              IN report.voided <= charged /\ charged <= 2 * report.voided
           /\ exact(report.margin) /\ exact(report.advantage)
           /\ ordered("push", "surge") /\ ordered("surge", "dominance")
           /\ ordered("narrowMargin", "decisiveMargin") /\ ordered("weak", "strong")
           /\ advice.missing # {} <=> report.scored = 0 \/ report.finalized = 0

\* "One parser, so a file that calibrates is a file that runs" (candidate.ts):
\* a calibration the server loads is one its engine can score a tick under.
LoadedCalibrationRuns ==
    asked.of = "tuning" => (parseEngineTuning(asked.raw).loads => EngineRuns(asked.raw.engine))

-----------------------------------------------------------------------------
(* Matchups.  Names do not matter to the search, so the order the seed       *)
(* shuffles the roster into is fixed and the histories vary.                 *)

Order == SetToSortSeq(Tickers, <)
Matchings == {m \in SUBSET {p \in SUBSET Tickers : Cardinality(p) = 2} :
                Cardinality(m) * 2 = Cardinality(Tickers) /\ UNION m = Tickers}
AsRound(matching) == LET pairs == SetToSeq(matching)
                     IN [i \in DOMAIN pairs |-> [left |-> Max(pairs[i]), right |-> Min(pairs[i])]]

AskSchedule ==
    \E n \in 0..2 : \E recent \in [1..n -> Matchings] :
        asked' = [of |-> "schedule", recent |-> [i \in 1..n |-> AsRound(recent[i])]]

\* Whatever the last two rounds paired, a round can be drawn: it pairs every
\* ticker once and repeats neither of them (matchmaking.ts: "A solution always
\* exists").
ScheduleExists(question) ==
    question.of = "schedule" =>
        LET schedule == scheduleRound(Order, question.recent)
        IN /\ schedule # NoSchedule
           /\ UNION Matchups(schedule) = Tickers /\ 2 * Len(schedule) = Cardinality(Tickers)
           /\ \A i \in DOMAIN question.recent : Matchups(schedule) \cap Matchups(question.recent[i]) = {}

-----------------------------------------------------------------------------
(* Records: three rounds, one pick of the wallet in each, in any order.      *)

Confidences == {<<"FAVORED", "UNDERDOG">>, <<"HEAVY_UNDERDOG", "DOMINANT">>}
Finalization(n, backed, winner, confidence) ==
    LET picks == <<[wallet |-> "v", battle |-> n, backed |-> 1, card |-> FALSE],
                   [wallet |-> "w", battle |-> n, backed |-> backed, card |-> backed = 2]>>
        setup == n :> [left |-> 1, right |-> 2, confidence |-> confidence]
        decided == IF winner = NoWinner THEN << >> ELSE n :> winner
    IN [picks |-> picks, setup |-> setup, winner |-> decided,
        endsAt |-> IF n = 3 THEN 2 ELSE n,
        awards |-> awardsFor(picks, setup, decided)]

AskRecord ==
    \E n \in 0..3 : \E backed \in [1..n -> 1..2], winner \in [1..n -> {NoWinner, 1, 2}],
                       confidence \in [1..n -> Confidences] :
        asked' = [of |-> "record",
                  rounds |-> [i \in 1..n |-> Finalization(i, backed[i], winner[i], confidence[i])]]

\* A record is one answer: the same whatever order the rounds come in and
\* whichever store they are read from; its decided battles are the won and the
\* lost, and the upset it shows is the newest of the most severe (record.ts,
\* sources.ts, player-records.ts).  The result page, which never reads the
\* ledger, tells the player of each pick the points, the upset and the assist
\* that the ledger and the record come to (result-view.ts, rewards.ts).
RecordIsOneAnswer(question) ==
    question.of = "record" =>
        LET n == Len(question.rounds)
            memory == settledPicksIn(question.rounds, "w")
            summed == playerRecord(memory)
            upsets(kind) == {p \in ToSet(memory) : outcomeOf(p) = kind}
            newest(S) == CHOOSE p \in S : \A q \in S : p = q \/ Newer(p, q)
        IN /\ \A order \in SetToSeqs(1..n) :
                playerRecord(settledPicksIn([i \in 1..n |-> question.rounds[order[i]]], "w")) = summed
           /\ playerRecord(SetToSeq(storedSettled(Stored(question.rounds), "w"))) = summed
           /\ summed.battles = summed.wins + summed.losses
           /\ \A p \in {q \in ToSet(memory) : q.winner # NoWinner} :
                LET shown == playerResultView(p.backed, p.winner, p.confidence, p.card)
                IN /\ shown.warPoints = p.warPoints
                   /\ shown.upset <=> outcomeOf(p) \in {"MAJOR_UPSET", "UPSET_VICTORY"}
           /\ summed.cardAssistedWins =
                Cardinality({p \in ToSet(memory) :
                  playerResultView(p.backed, p.winner, p.confidence, p.card).cardAssist})
           /\ summed.biggestUpset =
                IF upsets("MAJOR_UPSET") # {} THEN newest(upsets("MAJOR_UPSET"))
                ELSE IF upsets("UPSET_VICTORY") # {} THEN newest(upsets("UPSET_VICTORY")) ELSE Null

-----------------------------------------------------------------------------
(* Routes: every request, whatever the handler finds.  A part of the world   *)
(* that no route of the group reads is fixed.                                *)

PlainWorld ==
    [session |-> "w1", round |-> "r1", marketClosed |-> FALSE, result |-> "FINALIZED",
     waits |-> FALSE, challengeLive |-> TRUE, signer |-> "w1", acceptsPicks |-> TRUE,
     frozen |-> FALSE, pick |-> "none", charged |-> TRUE, chain |-> "answers",
     genesis |-> "NONE", cardOnRecord |-> TRUE, dealsGenesis |-> TRUE, eligible |-> TRUE,
     blockFinal |-> TRUE]

RoundWorlds ==
    {[PlainWorld EXCEPT !.session = s, !.round = r, !.marketClosed = m, !.result = v,
                        !.acceptsPicks = a, !.frozen = f, !.pick = p, !.charged = c] :
        s \in {"nobody", "w1"}, r \in {"none", "r1"}, m \in BOOLEAN,
        v \in {"FINALIZED", "VOID", "RUNNING"}, a \in BOOLEAN, f \in BOOLEAN,
        p \in {"none", "other key", "same key", "same key by now"}, c \in BOOLEAN}
SessionWorlds ==
    {[PlainWorld EXCEPT !.session = v, !.waits = l, !.challengeLive = c, !.signer = s] :
        v \in {"nobody", "w1"}, l \in BOOLEAN, c \in BOOLEAN, s \in {"nobody", "w1", "w2"}}
ChainWorlds ==
    {[PlainWorld EXCEPT !.session = s, !.chain = c, !.genesis = g, !.cardOnRecord = r,
                        !.dealsGenesis = d, !.eligible = e, !.blockFinal = b] :
        s \in {"nobody", "w1"}, c \in {"answers", "balance", "head", "block", "coverage", "reserve"},
        g \in {"NONE", "PENDING", "COMMITTED", "CLAIMED"}, r \in BOOLEAN, d \in BOOLEAN,
        e \in BOOLEAN, b \in BOOLEAN}

RequestsTo(route) ==
    [route : {route}, wallet : {"w1", "w2"}, wellFormed : BOOLEAN, ourChain : BOOLEAN, round : {"r1", "r2"},
     knownBattle : BOOLEAN, knownTicker : BOOLEAN, card : {"USE", "SAVE"}]

AskRoute ==
    \/ \E route \in RoundRoutes, w \in RoundWorlds : asked' = [of |-> "route", route |-> route, world |-> w]
    \/ \E route \in SessionRoutes, w \in SessionWorlds : asked' = [of |-> "route", route |-> route, world |-> w]
    \/ \E route \in ChainRoutes, w \in ChainWorlds : asked' = [of |-> "route", route |-> route, world |-> w]

\* An answer is honest.  A refusal that tells the player nothing was recorded
\* left nothing written, the chain's own aside; what an answer shows of a wallet
\* is the session's wallet or, at sign-in, the wallet that signed; a page asks a
\* battle's result and takes it for voided exactly when it was; and a write
\* that loses to the freeze is told what one that came after it is told
\* (server.ts lockedAs: "the player is owed the same answer as one who arrived
\* a second later"; errors.ts).
AnswerIsHonest(question) ==
    question.of = "route" =>
        LET w == question.world
            late == [w EXCEPT !.acceptsPicks = FALSE]
        IN \A r \in RequestsTo(question.route) :
             LET answer == Handle(r, w)
             IN /\ answer.code \in SaysNothingRecorded \ {"CHAIN_UNAVAILABLE"} => answer.wrote = {}
                /\ answer.of \in {"nobody", "public", w.session}
                     \cup (IF r.route = "verify" THEN {w.signer} ELSE {})
                     \cup (IF r.route = "challenge" THEN {r.wallet} ELSE {})
                /\ r.route = "result" =>
                     /\ fetchBattleResult(TRUE, answer) =
                          (CASE w.result = "FINALIZED" -> "RESULT" [] w.result = "VOID" -> "VOID"
                             [] OTHER -> "NONE")
                     /\ fetchBattleResult(FALSE, answer) = "NONE"
                /\ w.frozen /\ "pick" \in Handle(r, [w EXCEPT !.frozen = FALSE]).wrote
                     => answer = Handle(r, late)

\* "Robinhood Chain did not answer in time, so nothing was decided. Nothing was
\* recorded and your eligibility is unchanged" (errors.ts chainUnavailable).
NothingRecorded ==
    asked.of = "route" =>
        \A r \in RequestsTo(asked.route) :
            LET answer == Handle(r, asked.world)
            IN answer.code = "CHAIN_UNAVAILABLE" => answer.wrote = {}

-----------------------------------------------------------------------------
Ask == \/ AskAllocation \/ AskProof \/ AskSqrt
       \/ AskReplay \/ AskSeed \/ AskGenesis
       \/ AskBlocks \/ AskScan
       \/ AskPrice \/ AskSession \/ AskActivity \/ AskSamples
       \/ AskScore \/ AskMomentum \/ AskLabels \/ AskDraws \/ AskClock
       \/ AskCalibration \/ AskTuning
       \/ AskSchedule \/ AskRecord \/ AskRoute

Init == asked = Nobody /\ MatchmakingInit

\* Every question is asked of a fresh state.
Next == \/ asked = Nobody /\ drawn = << >> /\ Ask /\ UNCHANGED drawn
        \/ asked = Nobody /\ MatchmakingNext /\ UNCHANGED asked

Spec == Init /\ [][Next]_vars

-----------------------------------------------------------------------------
(* Properties.  Every question is answered as the predicates above say.      *)

\* What was paid and what was dealt can be checked by somebody else, and the
\* check can be believed (allocation.ts, merkle.ts, recording.ts,
\* genesis-rng.ts, audit-genesis.mjs, replay-round.mjs,
\* verify-distribution.mjs).
AuditsAreSound ==
    [][\E question \in {asked'} : DistributionIsExact(question) /\ AuditIsSound(question)]_vars

\* A market is read as it was, from however few blocks, live or from a tape to
\* calibrate by (dex-price.ts, onchain-market.ts, market-session.ts, ingest.ts,
\* qualification.ts, block-clock.ts, log-scan.ts, calibrate.ts).
ReadingsAreSound ==
    [][\E question \in {asked'} :
        SearchIsExact(question) /\ ReadingIsSound(question) /\ ReportAddsUp(question)]_vars

\* Every round can be drawn and every battle comes to one winner that follows
\* from its figures (matchmaking.ts, scoring.ts, resolution.ts, momentum.ts,
\* confidence.ts, prng.ts, scheduler.ts).
BattlesAreDecided ==
    [][\E question \in {asked'} : ScheduleExists(question) /\ BattleIsDecided(question)]_vars

\* A player is answered honestly and alike, whatever the handler finds and
\* whichever store the record is read from (server.ts, errors.ts, record.ts,
\* player-records.ts).
AnswersAreHonest ==
    [][\E question \in {asked'} : RecordIsOneAnswer(question) /\ AnswerIsHonest(question)]_vars

=============================================================================
