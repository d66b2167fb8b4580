----------------------------- MODULE MarketData -----------------------------
(***************************************************************************)
(* Reading a market: the price of a Stock Token from its trades             *)
(* (market-data/src/dex-price.ts), what a window of trades says             *)
(* (dex-window.ts), when the market is open (market-session.ts), what a     *)
(* battle observes (onchain-market.ts), which Pons activity counts          *)
(* (pons-indexer/src/qualification.ts) and the ingestion of feed samples    *)
(* (ingest.ts).  All of it is pure; amounts and ratios are integers, as in  *)
(* the code, at scales that are parameters here.                            *)
(*                                                                          *)
(* A trade is [id, at, quote, token]; a price of NoPrice stands for null.   *)
(***************************************************************************)
EXTENDS RewardMath, SequencesExt

CONSTANTS
    PRICE_SCALE,        \* 10^8 in production
    RATE_SCALE,         \* RATIO_SCALE, 10^6 in production
    BPS,                \* 10 000
    BAR,                \* the length of a bar: a minute
    HOUR, DAY, WEEK,    \* WEEK counts days; its last two are the weekend
    SEARCH_STEPS        \* hours a calendar is searched ahead: 60 * 24

NoPrice == -1

\* BigInt division: towards zero.
Trunc(a, b) == IF a >= 0 THEN a \div b ELSE -((-a) \div b)

-----------------------------------------------------------------------------
(* dex-price.ts                                                              *)

\* Decimals of the two sides are folded into the amounts.
tradePrice(t) == (t.quote * PRICE_SCALE) \div t.token

deviationBps(a, b) == ((IF a > b THEN a - b ELSE b - a) * BPS) \div b

SumOf(S, f(_)) == MapThenSumSet(f, S)

\* Mutant: the running total starts past the first half.
UpperMedian(priced) ==
    LET order == SetToSortSeq(priced, LAMBDA a, b : a.price < b.price \/ (a.price = b.price /\ a.id < b.id))
        total == SumOf(priced, LAMBDA e : e.weight)
        running(i) == SumOf({order[k] : k \in 1..i}, LAMBDA e : e.weight)
    IN IF priced = {} \/ total <= 0 THEN NoPrice
       ELSE order[Min({i \in 1..Len(order) : running(i) * 2 > total})].price

\* Entries by price, then by id; the first whose running weight reaches half.
weightedMedianPrice(priced) ==
    LET order == SetToSortSeq(priced, LAMBDA a, b : a.price < b.price \/ (a.price = b.price /\ a.id < b.id))
        total == SumOf(priced, LAMBDA e : e.weight)
        running(i) == SumOf({order[k] : k \in 1..i}, LAMBDA e : e.weight)
    IN IF priced = {} \/ total <= 0 THEN NoPrice
       ELSE order[Min({i \in 1..Len(order) : running(i) * 2 >= total})].price

Priced(trades) == {[price |-> tradePrice(t), weight |-> t.quote, id |-> t.id] : t \in trades}

\* A reference too old, or not positive, vouches for nothing.
Trusted(reference, at, policy) ==
    reference.price > 0 /\ at - reference.updatedAt <= policy.maxReferenceAge

CountedTrades(trades, at, reference, policy) ==
    {t \in trades :
        /\ t.at <= at /\ at - t.at < policy.maxQuiet
        /\ t.token > 0 /\ t.quote >= policy.minTradeQuote
        /\ Trusted(reference, at, policy)
             => deviationBps(tradePrice(t), reference.price) <= policy.maxTradeDeviation}

latestTrades(trades) == {t \in trades : \A u \in trades : u.at <= t.at}

InWindow(counted, at, policy) == {t \in counted : at - t.at < policy.priceWindow}

priceAt(trades, at, reference, policy) ==
    LET counted == CountedTrades(trades, at, reference, policy)
        window == InWindow(counted, at, policy)
        carried == window = {} /\ counted # {}
        price == weightedMedianPrice(Priced(IF carried THEN latestTrades(counted) ELSE window))
        reading(health, note) == [price |-> price, health |-> health, note |-> note,
                                  trades |-> Cardinality(window)]
    IN CASE price = NoPrice -> reading("STALE", "NO_TRADES")
         [] price # NoPrice /\ Trusted(reference, at, policy)
              /\ deviationBps(price, reference.price) > policy.maxPriceDeviation
            -> reading("STALE", "REFERENCE_DIVERGENCE")
         [] OTHER ->
              IF carried THEN reading("DEGRADED", "CARRIED")
              ELSE IF ~Trusted(reference, at, policy) THEN reading("DEGRADED", "NO_REFERENCE")
              ELSE IF Cardinality(window) < policy.minWindowTrades THEN reading("DEGRADED", "THIN")
              ELSE reading("HEALTHY", "OK")

-----------------------------------------------------------------------------
(* dex-window.ts                                                             *)

\* A return from a price that is not positive is thrown: it has no value here,
\* and a run that met one would end with an error.
windowReturn(opening, closing) ==
    CASE opening > 0 -> Trunc((closing - opening) * RATE_SCALE, opening)

countedIn(trades, span, minTradeQuote) ==
    {t \in trades : /\ t.at >= span.from /\ t.at < span.to
                    /\ t.token > 0 /\ t.quote >= minTradeQuote}

notionalIn(trades, span, minTradeQuote) ==
    SumOf(countedIn(trades, span, minTradeQuote), LAMBDA t : t.quote)

\* One bar per minute that traded, in order.
minuteBars(trades, span, minTradeQuote) ==
    LET counted == countedIn(trades, span, minTradeQuote)
        minutes == SetToSortSeq({t.at \div BAR : t \in counted}, <)
    IN [i \in DOMAIN minutes |->
          [minute |-> minutes[i],
           price |-> weightedMedianPrice(Priced({t \in counted : t.at \div BAR = minutes[i]}))]]

\* The square root of the mean squared return a minute, for a horizon.
volatilityOver(bars, horizon, floor) ==
    LET steps == {i \in DOMAIN bars : i > 1}
        step(i) == windowReturn(bars[i - 1].price, bars[i].price)
        squares == SumOf(steps, LAMBDA i : step(i) * step(i))
        minutes == SumOf(steps, LAMBDA i : bars[i].minute - bars[i - 1].minute)
        scaled == (integerSqrt(squares \div minutes)
                   * integerSqrt(Max({1, (horizon + (BAR \div 2)) \div BAR}) * RATE_SCALE * RATE_SCALE))
                  \div RATE_SCALE
    IN IF minutes = 0 THEN floor ELSE Max({scaled, floor})

\* The actual notional against the mean of earlier sessions, or the floor.
relativeVolume(actual, comparable, floor) ==
    LET expected == IF comparable = << >> THEN 0 ELSE FoldSeq(+, 0, comparable) \div Len(comparable)
    IN (actual * RATE_SCALE) \div Max({expected, floor})

-----------------------------------------------------------------------------
(* market-session.ts.  The trading day is the calendar's day shifted; the    *)
(* time zone's own rules are outside the model.                              *)

tradingDayOf(at) == at \div DAY
isMarketOpen(at, holidays) ==
    tradingDayOf(at) % WEEK < WEEK - 2 /\ tradingDayOf(at) \notin holidays

NextHour(at) == (at \div HOUR) * HOUR + HOUR

\* at itself, or the first whole hour after it at which the market is open.
nextOpenAt(at, holidays) ==
    IF isMarketOpen(at, holidays) THEN at
    ELSE NextHour(at) + HOUR * Min({k \in 0..SEARCH_STEPS : isMarketOpen(NextHour(at) + k * HOUR, holidays)})

\* Whether the market closes inside [start, start + duration), looking at its
\* last instant and at every whole hour inside.
ClosesInside(start, duration, holidays) ==
    LET end == start + duration - 1 IN
    \/ ~isMarketOpen(end, holidays)
    \/ \E h \in (NextHour(start))..end : h % HOUR = 0 /\ ~isMarketOpen(h, holidays)

RECURSIVE WindowFrom(_, _, _)
WindowFrom(start, duration, holidays) ==
    IF ~ClosesInside(start, duration, holidays) THEN start
    ELSE WindowFrom(nextOpenAt(NextHour(start + duration - 1), holidays), duration, holidays)

nextOpenWindow(at, duration, holidays) == WindowFrom(nextOpenAt(at, holidays), duration, holidays)

\* The same stretch of the latest earlier days the market was open on.
comparableSpans(span, count, holidays) ==
    LET backs == SetToSortSeq({b \in 1..(count * 4 + 14) :
                                  span.from >= b * DAY /\ isMarketOpen(span.from - b * DAY, holidays)}, <)
    IN [i \in 1..Min({count, Len(backs)}) |->
          [from |-> span.from - backs[i] * DAY, to |-> span.to - backs[i] * DAY]]

-----------------------------------------------------------------------------
(* pons-indexer/src/qualification.ts                                         *)

EventBefore(a, b) == a.block < b.block \/ (a.block = b.block /\ a.id < b.id)

\* Why an event is left out, or "" when it counts; earlier are the events
\* before it, with what became of each.
ExclusionOf(event, earlier, window, policy) ==
    CASE \E e \in earlier : e.event.id = event.id -> "DUPLICATE"
      [] OTHER ->
           IF event.at < window.from \/ event.at >= window.to THEN "OUT_OF_WINDOW"
           ELSE IF event.wallet \in policy.excluded THEN "EXCLUDED_ADDRESS"
           ELSE IF event.counterparty = event.wallet THEN "SELF_ROUTING"
           ELSE IF event.amount < policy.minimumAmount THEN "DUST"
           ELSE IF Cardinality({e \in earlier : /\ e.why = "" /\ e.event.wallet = event.wallet
                                                /\ e.event.amount = event.amount})
                     >= policy.maxIdentical THEN "REPEATED_LOOP"
           ELSE ""

\* The ticker's events in the order of the chain, each with its exclusion.
qualify(ticker, events, window, policy) ==
    LET own == SelectSeq(SortSeq(events, EventBefore), LAMBDA e : e.ticker = ticker)
        judge(done, e) == Append(done, [event |-> e, pos |-> Len(done) + 1,
                                        why |-> ExclusionOf(e, ToSet(done), window, policy)])
    IN FoldLeft(judge, << >>, own)

QualifiedEvents(judged) == {e \in ToSet(judged) : e.why = ""}
uniqueActiveWallets(judged) == Cardinality({e.event.wallet : e \in QualifiedEvents(judged)})

-----------------------------------------------------------------------------
(* onchain-market.ts                                                         *)

Severity == [HEALTHY |-> 0, DEGRADED |-> 1, STALE |-> 2, UNAVAILABLE |-> 3]
worst(a, b) == IF Severity[b] > Severity[a] THEN b ELSE a

Neutral(health, reason) == [return |-> 0, health |-> health, reason |-> reason]

\* A battle's observation: opening price at opensAt, closing price at `at`.
observeNow(source, opensAt, at, policy) ==
    LET opening == priceAt(source.trades, opensAt, source.reference, policy)
        closing == priceAt(source.trades, at, source.reference, policy)
        health == worst(opening.health, closing.health)
        reason == IF Severity[opening.health] > Severity[closing.health]
                  THEN <<"OPEN", opening.note>> ELSE <<"CLOSE", closing.note>>
    IN CASE source.covered <= 0 -> Neutral("UNAVAILABLE", <<"NOT_STARTED", "">>)
         [] source.covered > 0 /\ at - source.covered > policy.maxSourceLag
            -> Neutral("STALE", <<"SOURCE_LAG", "">>)
         [] OTHER ->
              IF ~isMarketOpen(at, source.holidays) THEN Neutral("STALE", <<"MARKET_CLOSED", "">>)
              ELSE IF NoPrice \in {opening.price, closing.price}
              THEN Neutral(worst(health, "STALE"), reason)
              ELSE [return |-> windowReturn(opening.price, closing.price),
                    health |-> health, reason |-> reason]

\* The confidence lookback's path: the price at each boundary, flat where
\* there is none.
lookbackNow(source, at, lookback, parts, policy) ==
    LET boundary(i) == priceAt(source.trades, at - lookback + ((lookback * i) \div parts),
                               source.reference, policy).price
        step(a, b) == IF NoPrice \in {a, b} THEN 0 ELSE windowReturn(a, b)
    IN [windowReturn |-> step(boundary(0), boundary(parts)),
        subWindowReturns |-> [i \in 1..parts |-> step(boundary(i - 1), boundary(i))]]

-----------------------------------------------------------------------------
(* ingest.ts: the reducer over feed samples.  A message is [ticker, kind,    *)
(* value, sourceId, at, received, seq, whole]: its sequence may be NoSeq,     *)
(* and whole is whether both of its times are whole milliseconds.             *)

NoSeq == -1
NotFinite == -2     \* a value that is not a number

EmptyIngest == [latest |-> << >>, seen |-> {}]

streamKey(raw) == <<raw.ticker, raw.kind>>
sourceKey(raw) == <<raw.sourceId, raw.ticker, raw.kind, raw.at, raw.seq>>

Rejected(raw, policy) ==
    \/ raw.value = NotFinite \/ raw.value < 0 \/ ~raw.whole
    \/ raw.at - raw.received > policy.maxClockSkew
    \/ raw.received - raw.at > policy.maxArrivalLag

\* Older than the sample held: by time, or by sequence where both have one.
OlderThan(raw, held) ==
    \/ raw.at < held.at
    \/ raw.at = held.at /\ NoSeq \notin {raw.seq, held.seq} /\ raw.seq <= held.seq

\* A split is undone in prices and in nothing else.
Canonical(raw, registry) ==
    [raw EXCEPT !.value = IF raw.kind = "PRICE" THEN @ * registry[raw.ticker] ELSE @]

ingest(state, raw, registry, policy) ==
    LET key == sourceKey(raw)
        stream == streamKey(raw)
        held == stream \in DOMAIN state.latest
        answer(outcome) == [state |-> state, outcome |-> outcome]
    IN CASE Rejected(raw, policy) -> answer("REJECTED")
         [] ~Rejected(raw, policy) /\ key \in state.seen -> answer("DUPLICATE")
         [] OTHER ->
              IF held /\ OlderThan(raw, state.latest[stream]) THEN answer("OUT_OF_ORDER")
              ELSE [state |-> [latest |-> (stream :> Canonical(raw, registry)) @@ state.latest,
                               seen |-> state.seen \cup {key}],
                    outcome |-> "ACCEPTED"]

\* Of the sample a stream holds, or of none; thresholds out of order are thrown.
evaluateHealth(state, stream, now, degradedAfter, staleAfter) ==
    CASE stream \notin DOMAIN state.latest -> "UNAVAILABLE"
      [] stream \in DOMAIN state.latest /\ staleAfter >= degradedAfter ->
           LET age == now - state.latest[stream].at
           IN IF age >= staleAfter THEN "STALE"
              ELSE IF age >= degradedAfter THEN "DEGRADED" ELSE "HEALTHY"
=============================================================================
