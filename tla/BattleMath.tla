----------------------------- MODULE BattleMath -----------------------------
(***************************************************************************)
(* How a battle is decided: packages/battle-math.  The score of a side      *)
(* (scoring.ts, scale.ts), the winner and its label (resolution.ts), the    *)
(* momentum shown while it is fought (momentum.ts), the confidence each     *)
(* side opens with (confidence.ts), the draw of a Genesis card              *)
(* (genesis-rng.ts, prng.ts), the clock of a round (scheduler.ts), and who  *)
(* fights whom (matchmaking.ts), with the rounds that openRound of          *)
(* round-service/src/driver.ts draws one after another.  Every quantity is  *)
(* an integer, as in the code, at scales that are parameters.  Hashes are   *)
(* outside the model: a stream of draws is a sequence of numbers below the  *)
(* generator's range, and the order a round pairs in, which the seed        *)
(* shuffles, is any permutation of the roster.                              *)
(***************************************************************************)
EXTENDS RewardMath, SequencesExt

CONSTANTS
    RATIO_SCALE,        \* 10^6 in production
    POINT_SCALE,        \* BATTLE_POINT_SCALE, 10^6 in production
    ROUND_DURATION,     \* opening to battle end
    PICK_DURATION,      \* opening to lock
    Tickers,            \* the roster, twice BATTLES_PER_ROUND
    MATCHUP_COOLDOWN_ROUNDS,    \* 2 in production
    MaxDrawn            \* bound: rounds drawn

ASSUME BattleMathAssumption ==
    /\ {RATIO_SCALE, POINT_SCALE, PICK_DURATION} \subseteq Nat \ {0}
    /\ ROUND_DURATION \in Nat /\ ROUND_DURATION > PICK_DURATION
    /\ IsFiniteSet(Tickers) /\ Cardinality(Tickers) % 2 = 0
    /\ MATCHUP_COOLDOWN_ROUNDS \in Nat /\ MaxDrawn \in Nat

VARIABLE drawn      \* the schedules of the rounds so far, oldest first

-----------------------------------------------------------------------------
(* scale.ts                                                                  *)

points(whole) == whole * POINT_SCALE

clampUnit(x) == IF x > RATIO_SCALE THEN RATIO_SCALE
                ELSE IF x < -RATIO_SCALE THEN -RATIO_SCALE ELSE x

\* Rounds towards minus infinity, for every sign of the denominator.
divScaled(numerator, denominator) ==
    IF denominator > 0 THEN (numerator * RATIO_SCALE) \div denominator
    ELSE (-numerator * RATIO_SCALE) \div (-denominator)

-----------------------------------------------------------------------------
(* scoring.ts                                                                *)

Components == <<"priceMomentum", "relativeVolume", "ponsPower", "holderCardSupport">>
Weight == [priceMomentum |-> 45, relativeVolume |-> 25, ponsPower |-> 20, holderCardSupport |-> 10]
FULL_SCORE == points(100)

aggregateCardSupport(cards) ==
    [channel \in {"market", "volume", "pons", "general"} |->
        FoldSeq(LAMBDA card, sum : sum + card[channel], 0, cards)]

splitByEdge(weight, edge) ==
    LET left == (weight * (RATIO_SCALE + clampUnit(edge))) \div (2 * RATIO_SCALE)
    IN [left |-> left, right |-> weight - left]

edgeFromDifference(left, right, divisor) ==
    IF left = right THEN 0 ELSE clampUnit(divScaled(left - right, divisor))

volatilityAdjustedReturn(side) == divScaled(side.windowReturn, side.volatility)

ponsStrength(side) ==
    (integerSqrt(side.activity * RATIO_SCALE * RATIO_SCALE) * 70
     + integerSqrt(side.wallets * RATIO_SCALE * RATIO_SCALE) * 30) \div 100

\* General support is spread over the three channels before the channels are
\* weighed, each share floored.
cardSupportStrength(support) ==
    LET general(weight) == (support.general * weight) \div 90
        effective == (support.market + general(45)) * 45
                     + (support.volume + general(25)) * 25
                     + (support.pons + general(20)) * 20
    IN integerSqrt((effective \div 90) * RATIO_SCALE * RATIO_SCALE)

StrengthOf(side) ==
    [priceMomentum |-> volatilityAdjustedReturn(side), relativeVolume |-> side.relativeVolume,
     ponsPower |-> ponsStrength(side), holderCardSupport |-> cardSupportStrength(side.cards)]

totalOf(breakdown) == FoldSeq(LAMBDA c, sum : sum + breakdown[c], 0, Components)

scoreBattle(left, right, divisor) ==
    LET split == [c \in ToSet(Components) |->
                    splitByEdge(points(Weight[c]),
                      edgeFromDifference(StrengthOf(left)[c], StrengthOf(right)[c], divisor[c]))]
        of(side) == [c \in ToSet(Components) |-> split[c][side]]
    IN [left |-> of("left"), right |-> of("right"),
        leftTotal |-> totalOf(of("left")), rightTotal |-> totalOf(of("right"))]

-----------------------------------------------------------------------------
(* resolution.ts                                                             *)

TIEBREAK_ORDER == <<"priceMomentum", "relativeVolume", "ponsPower">>

needsChainTiebreak(score) ==
    /\ score.leftTotal = score.rightTotal
    /\ \A i \in DOMAIN TIEBREAK_ORDER : score.left[TIEBREAK_ORDER[i]] = score.right[TIEBREAK_ORDER[i]]

NoHash == "null"
Side(delta) == IF delta > 0 THEN "LEFT" ELSE "RIGHT"

\* hash is the side the finalized block's hash falls on, or NoHash; a battle
\* that needs one and has none is refused.
resolveBattle(score, hash) ==
    LET total == score.leftTotal - score.rightTotal
        delta(i) == score.left[TIEBREAK_ORDER[i]] - score.right[TIEBREAK_ORDER[i]]
        apart == {i \in DOMAIN TIEBREAK_ORDER : delta(i) # 0}
    IN CASE total # 0 -> [winner |-> Side(total), step |-> "", margin |-> IF total > 0 THEN total ELSE -total]
         [] total = 0 /\ apart # {} ->
              [winner |-> Side(delta(Min(apart))), step |-> TIEBREAK_ORDER[Min(apart)], margin |-> 0]
         [] OTHER -> [winner |-> hash, step |-> IF hash = NoHash THEN "refused" ELSE "chainDerived", margin |-> 0]

classifyVictory(margin, confidence, comeback, narrow, decisive) ==
    CASE confidence = "HEAVY_UNDERDOG" -> "MAJOR_UPSET"
      [] confidence = "UNDERDOG" -> "UPSET_VICTORY"
      [] OTHER -> IF comeback THEN "COMEBACK_VICTORY"
                  ELSE IF margin <= narrow THEN "NARROW_VICTORY"
                  ELSE IF margin >= decisive THEN "DECISIVE_VICTORY" ELSE "VICTORY"

-----------------------------------------------------------------------------
(* momentum.ts                                                               *)

Abs(x) == IF x < 0 THEN -x ELSE x
Toward0(a, b) == IF a < 0 THEN -((-a) \div b) ELSE a \div b

advantageFromScores(left, right) ==
    IF left + right <= 0 THEN 0 ELSE clampUnit(Toward0((left - right) * RATIO_SCALE, left + right))

NoMemory == [peakLeft |-> 0, peakRight |-> 0, previous |-> 0, ticks |-> 0]

MemoryAfter(memory, advantage) ==
    [peakLeft |-> Max({memory.peakLeft, advantage}), peakRight |-> Max({memory.peakRight, -advantage}),
     previous |-> advantage, ticks |-> memory.ticks + 1]

nextMomentum(memory, advantage, thresholds) ==
    LET lead == Abs(advantage)
        trailed == IF advantage > 0 THEN memory.peakRight >= thresholds.comeback
                   ELSE memory.peakLeft >= thresholds.comeback
    IN [state |-> IF lead > 0 /\ trailed THEN "COMEBACK"
                  ELSE IF lead >= thresholds.dominance THEN "DOMINATING"
                  ELSE IF lead >= thresholds.surge THEN "SURGING"
                  ELSE IF lead >= thresholds.push THEN "PUSHING" ELSE "CONTESTED",
        velocity |-> IF memory.ticks = 0 THEN 0 ELSE advantage - memory.previous,
        memory |-> MemoryAfter(memory, advantage)]

wasComeback(memory, advantage, comeback) ==
    advantage # 0 /\ (IF advantage > 0 THEN memory.peakRight ELSE memory.peakLeft) >= comeback

\* A battle's samples, one per tick.
Momentum(advantages, thresholds) ==
    FoldLeft(LAMBDA done, a :
               Append(done, nextMomentum(IF done = << >> THEN NoMemory ELSE Last(done).memory,
                                         a, thresholds)),
             << >>, advantages)

-----------------------------------------------------------------------------
(* confidence.ts                                                             *)

directionChanges(returns) ==
    LET moves == SelectSeq(returns, LAMBDA r : r # 0)
    IN Cardinality({i \in 2..Len(moves) : (moves[i] > 0) # (moves[i - 1] > 0)})

\* Rank 2, 1 or 0 of a value against its bands; the lower one may be closed.
BandRank(value, high, low) == IF value >= high THEN 2 ELSE IF value <= low THEN 0 ELSE 1

\* The ranks of the four signals, in the order of their weights.
subSignals(lookback, cal) ==
    LET changes == directionChanges(lookback.subWindowReturns)
    IN << BandRank(divScaled(lookback.windowReturn, lookback.volatility), cal.strong, cal.weak),
          BandRank(lookback.relativeVolume, cal.rising, cal.quiet),
          IF lookback.activity >= cal.high THEN 2 ELSE IF lookback.activity >= cal.medium THEN 1 ELSE 0,
          IF changes <= cal.stable THEN 2 ELSE IF changes <= cal.mixed THEN 1 ELSE 0 >>

standing(signals, weights) == FoldSeq(LAMBDA i, sum : sum + weights[i] * signals[i], 0, <<1, 2, 3, 4>>)

labelsForGap(gap, cal) ==
    CASE gap >= cal.dominant -> <<"DOMINANT", "HEAVY_UNDERDOG">>
      [] gap >= cal.strongFavorite /\ gap < cal.dominant -> <<"STRONG_FAVORITE", "UNDERDOG">>
      [] gap >= cal.favored /\ gap < cal.strongFavorite -> <<"FAVORED", "UNDERDOG">>
      [] gap <= -cal.dominant -> <<"HEAVY_UNDERDOG", "DOMINANT">>
      [] gap <= -cal.strongFavorite /\ gap > -cal.dominant -> <<"UNDERDOG", "STRONG_FAVORITE">>
      [] gap <= -cal.favored /\ gap > -cal.strongFavorite -> <<"UNDERDOG", "FAVORED">>
      [] OTHER -> <<"EVEN", "EVEN">>

matchupConfidence(left, right, cal) ==
    labelsForGap(standing(subSignals(left, cal), cal.weights)
                 - standing(subSignals(right, cal), cal.weights), cal)

-----------------------------------------------------------------------------
(* prng.ts, genesis-rng.ts, shared-types/src/genesis.ts                      *)

\* The first draw below the largest multiple of bound; NoDraw once they run out.
NoDraw == -1
nextBelow(bound, range, draws) ==
    LET limit == range - (range % bound)
        kept == {i \in DOMAIN draws : draws[i] < limit}
    IN IF bound = 1 THEN 0 ELSE IF kept = {} THEN NoDraw ELSE draws[Min(kept)] % bound

\* picks[i] is the draw that places position i, for i from the last to 2.
shuffle(items, picks) ==
    LET swap(out, i) == [out EXCEPT ![i] = out[picks[i]], ![picks[i]] = out[i]]
    IN FoldLeft(swap, items, [k \in 1..(Len(items) - 1) |-> Len(items) + 1 - k])

\* Slots handed out in the order of the rarities, widths[r] each.
rarityForSlot(slot, widths) ==
    Min({r \in DOMAIN widths : slot < FoldSeq(LAMBDA i, sum : sum + widths[i], 0, [k \in 1..r |-> k])})

-----------------------------------------------------------------------------
(* scheduler.ts, shared-types/src/round.ts                                   *)

clockForRound(epoch, index) ==
    LET open == epoch + index * ROUND_DURATION
    IN [pickOpenAt |-> open, lockAt |-> open + PICK_DURATION, battleEndAt |-> open + ROUND_DURATION]

NoRound == -1
roundIndexAt(epoch, at) == IF at < epoch THEN NoRound ELSE (at - epoch) \div ROUND_DURATION

acceptsPickAt(clock, at) == at >= clock.pickOpenAt /\ at < clock.lockAt

decideFinalization(clock, at, complete, maxWait) ==
    CASE at < clock.battleEndAt -> "RangeError"
      [] at >= clock.battleEndAt /\ complete -> "FINALIZE"
      [] OTHER -> IF at - clock.battleEndAt < maxWait THEN "WAIT" ELSE "VOID"

-----------------------------------------------------------------------------
(* matchmaking.ts                                                            *)

matchupKey(a, b) == {a, b}
Matchups(schedule) == {matchupKey(schedule[i].left, schedule[i].right) : i \in DOMAIN schedule}

\* recentRounds is newest first.
cooldownSet(recentRounds) ==
    UNION {Matchups(recentRounds[i]) :
             i \in {j \in DOMAIN recentRounds : j <= MATCHUP_COOLDOWN_ROUNDS}}

NoSchedule == <<[none |-> TRUE]>>
Without(seq, i) == SubSeq(seq, 1, i - 1) \o SubSeq(seq, i + 1, Len(seq))

\* The head is paired with the first partner that lets the rest be paired.
RECURSIVE pairInOrder(_, _)
pairInOrder(order, blocked) ==
    IF order = << >> THEN << >>
    ELSE LET rest == Tail(order)
             Rest(i) == pairInOrder(Without(rest, i), blocked)
             fits == {i \in DOMAIN rest : /\ matchupKey(Head(order), rest[i]) \notin blocked
                                          /\ Rest(i) # NoSchedule}
         IN IF fits = {} THEN NoSchedule
            ELSE LET i == CHOOSE x \in fits : \A y \in fits : x <= y
                 IN <<[left |-> Head(order), right |-> rest[i]]>> \o Rest(i)

\* Mutant: the head takes the first partner it may, whatever is left over.
RECURSIVE PairGreedily(_, _)
PairGreedily(order, blocked) ==
    IF order = << >> THEN << >>
    ELSE LET rest == Tail(order)
             free == {i \in DOMAIN rest : matchupKey(Head(order), rest[i]) \notin blocked}
         IN IF free = {} THEN NoSchedule
            ELSE LET i == CHOOSE x \in free : \A y \in free : x <= y
                     tail == PairGreedily(Without(rest, i), blocked)
                 IN IF tail = NoSchedule THEN NoSchedule
                    ELSE <<[left |-> Head(order), right |-> rest[i]]>> \o tail

GreedySchedule(order, recentRounds) == PairGreedily(order, cooldownSet(recentRounds))

scheduleRound(order, recentRounds) == pairInOrder(order, cooldownSet(recentRounds))

-----------------------------------------------------------------------------
(* The driver: every round is opened with `recentRounds: []`.                *)

recentRounds == << >>

openRound ==
    /\ Len(drawn) < MaxDrawn
    /\ \E order \in SetToSeqs(Tickers) :
         /\ scheduleRound(order, recentRounds) # NoSchedule
         /\ drawn' = Append(drawn, scheduleRound(order, recentRounds))

MatchmakingInit == drawn = << >>
MatchmakingNext == openRound
MatchmakingSpec == MatchmakingInit /\ [][MatchmakingNext]_drawn

-----------------------------------------------------------------------------
\* "never repeats a matchup inside the cooldown" (simulations/src/
\* full-cycle.test.ts:189; shared-types/src/round.ts:45): what the rounds the
\* driver opens are said to satisfy.
MatchupsRest ==
    \A i, j \in DOMAIN drawn :
        i < j /\ j - i <= MATCHUP_COOLDOWN_ROUNDS => Matchups(drawn[i]) \cap Matchups(drawn[j]) = {}
=============================================================================
