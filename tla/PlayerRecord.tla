---------------------------- MODULE PlayerRecord ----------------------------
(***************************************************************************)
(* A player's record: packages/player-service.  It is derived whenever it  *)
(* is asked for, from the wallet's frozen picks, the results of their      *)
(* battles and the awards, in whatever order a store returns them.  With it *)
(* go the award table, the awards of a finalization and the result page,   *)
(* which names the points of a pick before any record does.                *)
(***************************************************************************)
EXTENDS Integers, Sequences, FiniteSets, SequencesExt

CONSTANT HISTORY_LENGTH     \* 20 in production

NoRate == -1
NoWinner == 0    \* tickers are numbered from 1, so that their names have an order
Null == [ticker |-> NoWinner]

-----------------------------------------------------------------------------
(* War Points: the award table, what finalization awards, and what the       *)
(* result page tells the player it earned.                                   *)

WP_AWARDS == [WIN |-> 10, UNDERDOG_WIN |-> 12, HEAVY_UNDERDOG_WIN |-> 14, CARD_ASSIST |-> 2]

baseWpAwardReason(confidence) ==
    CASE confidence = "HEAVY_UNDERDOG" -> "HEAVY_UNDERDOG_WIN"
      [] confidence = "UNDERDOG" -> "UNDERDOG_WIN"
      [] OTHER -> "WIN"

winningPickWp(confidence, deployed) ==
    WP_AWARDS[baseWpAwardReason(confidence)] + IF deployed THEN WP_AWARDS.CARD_ASSIST ELSE 0

\* Two entries for a win with a card: the ledger has one row for each reason.
awardsFor(picks, setup, winner) ==
    LET won == SelectSeq(picks, LAMBDA p : p.battle \in DOMAIN winner /\ p.backed = winner[p.battle])
        entry(p, reason, points) ==
          [wallet |-> p.wallet, battle |-> p.battle, reason |-> reason, points |-> points]
        of(p) ==
          LET confidence == setup[p.battle].confidence[p.backed]
              base == winningPickWp(confidence, FALSE)
          IN <<entry(p, baseWpAwardReason(confidence), base)>>
             \o IF p.card THEN <<entry(p, "CARD_ASSIST", winningPickWp(confidence, TRUE) - base)>> ELSE << >>
    IN FlattenSeq([i \in DOMAIN won |-> of(won[i])])

isUpset(confidence) == confidence \in {"UNDERDOG", "HEAVY_UNDERDOG"}

playerResultView(backed, winner, confidence, deployed) ==
    LET won == backed = winner
    IN [won |-> won,
        warPoints |-> IF won THEN winningPickWp(confidence, deployed) ELSE 0,
        upset |-> won /\ isUpset(confidence),
        cardAssist |-> won /\ deployed]

-----------------------------------------------------------------------------
(* The record.                                                               *)

\* The picks of a wallet in the rounds finalized.  A finalization has the
\* round's picks, the setup of each battle, the winners of the battles that
\* were decided, and the awards.
settledPicksIn(finalizations, wallet) ==
    LET of(f) ==
          LET mine == SelectSeq(f.picks, LAMBDA p : p.wallet = wallet /\ p.battle \in DOMAIN f.setup)
              settle(p) ==
                [battle |-> p.battle, backed |-> p.backed, card |-> p.card, settledAt |-> f.endsAt,
                 left |-> f.setup[p.battle].left, right |-> f.setup[p.battle].right,
                 winner |-> IF p.battle \in DOMAIN f.winner THEN f.winner[p.battle] ELSE NoWinner,
                 confidence |-> IF p.battle \notin DOMAIN f.winner THEN "VOID"
                                ELSE f.setup[p.battle].confidence[f.winner[p.battle]],
                 warPoints |-> FoldSeq(LAMBDA a, sum : IF a.wallet = wallet /\ a.battle = p.battle
                                                       THEN sum + a.points ELSE sum, 0, f.awards)]
          IN [i \in DOMAIN mine |-> settle(mine[i])]
    IN FoldLeft(LAMBDA done, f : done \o of(f), << >>, finalizations)

\* What finalization leaves in the tables: a battle is FINALIZED with its
\* result or VOID without one, and the awards are ledger rows.
Stored(finalizations) ==
    UNION {{[round |-> f, battle |-> b,
             state |-> IF b \in DOMAIN f.winner THEN "FINALIZED" ELSE "VOID"] : b \in DOMAIN f.setup} :
             f \in ToSet(finalizations)}

\* The same picks out of the tables: the join of locked picks with their
\* settled battles, in no order.
storedSettled(battles, wallet) ==
    {LET p == row[2]  f == row[1].round  setup == f.setup[p.battle]
         void == row[1].state = "VOID" IN
     [battle |-> p.battle, backed |-> p.backed, card |-> p.card, settledAt |-> f.endsAt,
      left |-> setup.left, right |-> setup.right,
      winner |-> IF void THEN NoWinner ELSE f.winner[p.battle],
      confidence |-> IF void THEN "VOID" ELSE setup.confidence[f.winner[p.battle]],
      warPoints |-> FoldSeq(LAMBDA a, sum : IF a.wallet = wallet /\ a.battle = p.battle
                                            THEN sum + a.points ELSE sum, 0, f.awards)] :
       row \in UNION {{<<b, p>> : p \in {q \in ToSet(b.round.picks) : q.battle = b.battle /\ q.wallet = wallet}} :
                        b \in battles}}

outcomeOf(pick) ==
    IF pick.winner = NoWinner THEN "VOID"
    ELSE IF pick.backed # pick.winner THEN "LOSS"
    ELSE IF pick.confidence = "HEAVY_UNDERDOG" THEN "MAJOR_UPSET"
    ELSE IF pick.confidence = "UNDERDOG" THEN "UPSET_VICTORY" ELSE "WIN"

rateBps(part, whole) == (part * 10000) \div whole

Decided(settled) == {p \in ToSet(settled) : p.winner # NoWinner}
Won(picks) == {p \in picks : p.backed = p.winner}

\* Every ticker is held against the best so far, as the map is walked: more
\* battles, then the better rate, then the earlier name.
mostBacked(order, settled) ==
    LET tally(t) == {p \in Decided(settled) : p.backed = t}
        entry(t) == [ticker |-> t, battles |-> Cardinality(tally(t)),
                     rate |-> rateBps(Cardinality(Won(tally(t))), Cardinality(tally(t)))]
        better(a, b) == \/ a.battles > b.battles
                        \/ a.battles = b.battles /\ a.rate > b.rate
                        \/ a.battles = b.battles /\ a.rate = b.rate /\ a.ticker < b.ticker
        walk(best, t) == IF best = Null \/ better(entry(t), best) THEN entry(t) ELSE best
    IN FoldLeft(walk, Null, SelectSeq(order, LAMBDA t : tally(t) # {}))

\* Battles are numbered, so that a battle's identifier has an order.
Newer(a, b) == a.settledAt > b.settledAt \/ (a.settledAt = b.settledAt /\ a.battle < b.battle)

\* settled is newest first.
biggestUpset(settled) ==
    FoldLeft(LAMBDA kept, p : IF \/ kept = Null
                                 \/ outcomeOf(p) = "MAJOR_UPSET" /\ outcomeOf(kept) # "MAJOR_UPSET"
                              THEN p ELSE kept,
             Null, SelectSeq(settled, LAMBDA p : outcomeOf(p) \in {"MAJOR_UPSET", "UPSET_VICTORY"}))

\* The map is walked in the order its keys were first met, newest pick first.
playerRecord(picks) ==
    LET settled == SortSeq(picks, Newer)
        decided == Decided(settled)
        met == FoldLeft(LAMBDA seen, p : IF Contains(seen, p.backed) THEN seen ELSE Append(seen, p.backed),
                        << >>, SelectSeq(settled, LAMBDA p : p.winner # NoWinner))
        wins == Cardinality(Won(decided))
    IN [battles |-> Cardinality(decided), wins |-> wins,
        losses |-> Cardinality({p \in decided : p.backed # p.winner}),
        winRate |-> IF decided = {} THEN NoRate ELSE rateBps(wins, Cardinality(decided)),
        upsets |-> Cardinality({p \in Won(decided) : isUpset(p.confidence)}),
        majorUpsets |-> Cardinality({p \in Won(decided) : p.confidence = "HEAVY_UNDERDOG"}),
        cardAssistedWins |-> Cardinality({p \in Won(decided) : p.card}),
        warPoints |-> FoldSeq(LAMBDA p, sum : sum + p.warPoints, 0, settled),
        history |-> [i \in 1..(IF Len(settled) < HISTORY_LENGTH THEN Len(settled) ELSE HISTORY_LENGTH) |->
                       [battle |-> settled[i].battle, outcome |-> outcomeOf(settled[i])]],
        mostBacked |-> mostBacked(met, settled),
        biggestUpset |-> biggestUpset(settled)]
=============================================================================
