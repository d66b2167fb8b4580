----------------------------- MODULE Calibrate -----------------------------
(***************************************************************************)
(* Measuring a candidate calibration on a recorded market:                 *)
(* packages/calibration.  calibrate.ts plays every slot of a tape as a     *)
(* round in which every pair of tickers fights, through the battle engine; *)
(* distribution.ts and suggest.ts read starting values off the report;     *)
(* candidate.ts decides which calibration loads.  Pure: a slot is what the *)
(* tape shows of it, the readings of every ticker at every tick.           *)
(***************************************************************************)
EXTENDS BattleMath

FeedHealths == {"HEALTHY", "DEGRADED", "STALE", "UNAVAILABLE"}
requiresVoid(health) == health \notin {"HEALTHY", "DEGRADED"}

-----------------------------------------------------------------------------
(* Samples: nearest-rank quantiles, q in hundredths.                         *)

NoValue == -1000          \* null; no measurement of these is as low
QUANTILES == {0, 10, 25, 50, 75, 90, 100}

quantileOf(sorted, q) ==
    IF sorted = << >> THEN NoValue
    ELSE sorted[Min({Len(sorted), Max({1, (q * Len(sorted) + 99) \div 100})})]

summary(values) ==
    LET sorted == SortSeq(values, <)
    IN [count |-> Len(values), at |-> [q \in QUANTILES |-> quantileOf(sorted, q)]]

-----------------------------------------------------------------------------
(* One slot played as a round.                                               *)

tally(labels) == [label \in labels |-> 0]

emptyTickerSamples ==
    [ticks |-> tally(FeedHealths), finalized |-> 0, voided |-> 0, voidsCaused |-> 0,
     returns |-> << >>, lookback |-> << >>]

EmptyReport(roster) ==
    [played |-> 0, marketClosed |-> 0, unrecorded |-> 0, withoutVolumeHistory |-> 0,
     finalized |-> 0, voided |-> 0, margin |-> << >>, advantage |-> << >>, gap |-> << >>, scored |-> 0,
     labels |-> tally({"DOMINANT", "STRONG_FAVORITE", "FAVORED", "EVEN", "UNDERDOG", "HEAVY_UNDERDOG"}),
     tickers |-> [t \in Range(roster) |-> emptyTickerSamples]]

\* Every pair of the roster, the earlier ticker on the left.
allPairs(roster) ==
    {<<roster[i], roster[j]>> : <<i, j>> \in {p \in (DOMAIN roster) \X (DOMAIN roster) : p[1] < p[2]}}

AddTo(counts, keys) == [k \in DOMAIN counts |-> counts[k] + Cardinality({i \in DOMAIN keys : keys[i] = k})]

\* The labels of both sides of every pair, and each ticker's lookback, at the open.
OpenRound(report, roster, slot, cal) ==
    LET fights == SetToSeq(allPairs(roster))
        labels == FlattenSeq([i \in DOMAIN fights |->
                     matchupConfidence(slot.lookback[fights[i][1]], slot.lookback[fights[i][2]], cal)])
    IN [report EXCEPT !.played = @ + 1,
          !.withoutVolumeHistory = @ + IF slot.history THEN 0 ELSE 1,
          !.labels = AddTo(@, labels),
          !.tickers = [t \in DOMAIN @ |->
             [@[t] EXCEPT !.lookback = Append(@, divScaled(slot.lookback[t].windowReturn,
                                                           slot.lookback[t].volatility))]]]

Opened(roster) ==
    [p \in allPairs(roster) |-> [state |-> "LIVE", score |-> << >>, last |-> << >>]]

\* The battles this ticker's own reading voids at this tick.
VoidsCaused(states, readings, t) ==
    Cardinality({p \in DOMAIN states : /\ t \in Range(p) /\ states[p].state = "LIVE"
                                       /\ requiresVoid(readings[t].health)})

applyTick(battle, left, right, divisor) ==
    IF battle.state # "LIVE" THEN battle
    ELSE IF requiresVoid(left.health) \/ requiresVoid(right.health) THEN [battle EXCEPT !.state = "VOID"]
    ELSE LET score == scoreBattle(left.inputs, right.inputs, divisor)
         IN [battle EXCEPT !.score = <<score.leftTotal, score.rightTotal>>, !.last = <<left.inputs, right.inputs>>]

\* One tick of every battle; the inputs are sampled every so many of them.
Tick(round, tick, readings, sampled, divisor) ==
    LET before == round.states
        after == [p \in DOMAIN before |-> applyTick(before[p], readings[p[1]], readings[p[2]], divisor)]
        scored == SetToSeq({p \in DOMAIN after : after[p].state = "LIVE"})
        seen(t) == sampled /\ ~requiresVoid(readings[t].health)
    IN [states |-> after,
        report |-> [round.report EXCEPT
          !.scored = @ + Len(scored),
          !.advantage = @ \o IF sampled THEN [i \in DOMAIN scored |->
                               Abs(advantageFromScores(after[scored[i]].score[1], after[scored[i]].score[2]))]
                             ELSE << >>,
          !.tickers = [t \in DOMAIN @ |->
             [@[t] EXCEPT !.ticks[readings[t].health] = @ + 1,
                          !.voidsCaused = @ + VoidsCaused(before, readings, t),
                          !.returns = IF seen(t) THEN Append(@, volatilityAdjustedReturn(readings[t].inputs))
                                      ELSE @]]]]

\* finalizeBattle of the ones still live; one that was never scored is voided.
Settle(round) ==
    LET final == SetToSeq({p \in DOMAIN round.states : round.states[p].state = "LIVE"
                                                       /\ round.states[p].score # << >>})
        battle(i) == round.states[final[i]]
        fought(t, S) == Cardinality({p \in S : t \in Range(p)})
    IN [round.report EXCEPT
          !.finalized = @ + Len(final),
          !.voided = @ + Cardinality(DOMAIN round.states) - Len(final),
          !.margin = @ \o [i \in DOMAIN final |-> Abs(battle(i).score[1] - battle(i).score[2])],
          !.gap = @ \o [i \in DOMAIN final |-> Abs(volatilityAdjustedReturn(battle(i).last[1])
                                                   - volatilityAdjustedReturn(battle(i).last[2]))],
          !.tickers = [t \in DOMAIN @ |->
             [@[t] EXCEPT !.finalized = @ + fought(t, Range(final)),
                          !.voided = @ + fought(t, DOMAIN round.states \ Range(final))]]]

Play(report, roster, slot, cal, divisor, sampleEvery) ==
    LET opened == [report |-> OpenRound(report, roster, slot, cal), states |-> Opened(roster)]
    IN Settle(FoldLeft(LAMBDA round, k : Tick(round, k, slot.ticks[k], (k - 1) % sampleEvery = 0, divisor),
                       opened, [k \in DOMAIN slot.ticks |-> k]))

calibrate(slots, roster, cal, divisor, sampleEvery) ==
    FoldLeft(LAMBDA report, slot :
               IF ~slot.recorded THEN [report EXCEPT !.unrecorded = @ + 1]
               ELSE IF ~slot.open THEN [report EXCEPT !.marketClosed = @ + 1]
               ELSE Play(report, roster, slot, cal, divisor, sampleEvery),
             EmptyReport(roster), slots)

-----------------------------------------------------------------------------
(* suggest.ts                                                                *)

\* The median of the tickers' own quantiles, the upper of two.
pooled(summaries, q) ==
    LET values == SortSeq(SetToSeq({<<t, summaries[t].at[q]>> :
                                      t \in {u \in DOMAIN summaries : summaries[u].count > 0}}),
                          LAMBDA a, b : a[2] < b[2])
    IN IF values = << >> THEN NoValue ELSE values[Len(values) \div 2 + 1][2]

suggest(report) ==
    LET lookback == [t \in DOMAIN report.tickers |-> summary(report.tickers[t].lookback)]
        read == [priceEdgeDivisor |-> summary(report.gap).at[90],
                 push |-> summary(report.advantage).at[50], surge |-> summary(report.advantage).at[75],
                 dominance |-> summary(report.advantage).at[90], comeback |-> summary(report.advantage).at[75],
                 narrowMargin |-> summary(report.margin).at[25], decisiveMargin |-> summary(report.margin).at[75],
                 strong |-> pooled(lookback, 75), weak |-> pooled(lookback, 25)]
    IN [value |-> read, missing |-> {k \in DOMAIN read : read[k] = NoValue}]

-----------------------------------------------------------------------------
(* Which calibration loads, and which one the engine can run.                *)

assertCalibration(cal) ==
    /\ cal.strong > cal.weak
    /\ cal.rising > cal.quiet
    /\ cal.high >= cal.medium
    /\ cal.stable >= 0 /\ cal.mixed >= cal.stable
    /\ 0 < cal.favored /\ cal.favored < cal.strongFavorite /\ cal.strongFavorite < cal.dominant
    /\ cal.dominant <= 2 * FoldSeq(+, 0, cal.weights)

\* Every field is read, and every problem collected, before the bands are; the
\* engine's half is read no further than that its fields are integers.
parseEngineTuning(raw) ==
    IF raw.malformed # {} THEN [loads |-> FALSE, problems |-> raw.malformed]
    ELSE [loads |-> assertCalibration(raw.confidence),
          problems |-> IF assertCalibration(raw.confidence) THEN {} ELSE {"confidence"}]

\* A candidate is the same file with the market's settings in it, each parsed
\* as the server parses it from the environment.
parseCandidate(raw) ==
    LET unread == raw.settings \cup raw.malformed
    IN IF unread # {} THEN [loads |-> FALSE, problems |-> unread] ELSE parseEngineTuning(raw)

\* What edgeFromDifference, assertThresholds and classifyVictory throw over.
EngineRuns(engine) ==
    /\ engine.priceEdgeDivisor > 0
    /\ 0 < engine.push /\ engine.push < engine.surge /\ engine.surge < engine.dominance
    /\ 0 < engine.comeback /\ engine.comeback <= RATIO_SCALE
    /\ 0 <= engine.narrowMargin /\ engine.narrowMargin <= engine.decisiveMargin
=============================================================================
