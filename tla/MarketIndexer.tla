--------------------------- MODULE MarketIndexer ---------------------------
(***************************************************************************)
(* Robinhood Chain read as a market: RobinhoodMarketIndexer of             *)
(* packages/chain/src/market-indexer.ts, driven by `follow` of             *)
(* apps/server/src/market.ts.  One ticker; a block carries at most one log *)
(* of interest, so a log is named by its block.  Every await of a poll is  *)
(* a step of its own and may throw; the chain grows, and observers read,   *)
(* in between.  start() runs before anything can read the market and its   *)
(* failure ends the process, so it is one step.                            *)
(*                                                                         *)
(* First come the algorithms that find and date blocks by reading as few   *)
(* of them as possible: packages/chain/src/block-clock.ts, log-scan.ts,    *)
(* finalized-block.ts and the block search of market-indexer.ts.  For      *)
(* them a chain is the sequence of its blocks' timestamps, in seconds;     *)
(* block n is entry n.  Timestamps never decrease, neighbours may share    *)
(* one.                                                                    *)
(***************************************************************************)
EXTENDS Integers, Sequences, FiniteSets, SequencesExt

NoBlock == 0

Least(S) == CHOOSE x \in S : \A y \in S : x <= y
Greatest(S) == CHOOSE x \in S : \A y \in S : y <= x

(* Timestamps a chain can have. *)
Chains(n, horizon) ==
  {t \in UNION {[1..k -> 0..horizon] : k \in 1..n} :
     \A i, j \in DOMAIN t : i <= j => t[i] <= t[j]}

---------------------------------------------------------------------------
(* BlockClock: a block between two anchors is placed on the line through    *)
(* them, rounded to the whole second.                                       *)

around(anchors, b) ==
  LET below == {a \in anchors : a <= b}
      above == {a \in anchors : a >= b}
  IN  [below |-> IF below = {} THEN NoBlock ELSE Greatest(below),
       above |-> IF above = {} THEN NoBlock ELSE Least(above)]

interpolate(times, b, below, above) ==
  IF below = above THEN times[below]
  ELSE LET den == above - below
           num == (times[above] - times[below]) * (b - below)
       IN  times[below] + (2 * num + den) \div (2 * den)

(* One block of timesOf: what it answers and the anchors it leaves behind.  *)
TimeOf(times, anchors, b, step) ==
  LET near == around(anchors, b)
      cell == near.below + ((b - near.below) \div step) * step
      next == IF cell + step < near.above THEN cell + step ELSE near.above
  IN  IF near.below = NoBlock \/ near.above = NoBlock
      THEN [at |-> times[b], anchors |-> anchors \cup {b}]
      ELSE LET more == IF near.above - near.below > step
                       THEN anchors \cup {cell, next} ELSE anchors
               fine == around(more, b)
           IN  [at |-> interpolate(times, b, fine.below, fine.above), anchors |-> more]

Dated(times, acc, b, step) ==
  LET one == TimeOf(times, acc.anchors, b, step)
  IN  [at |-> [x \in DOMAIN acc.at \cup {b} |-> IF x = b THEN one.at ELSE acc.at[x]],
       anchors |-> one.anchors]

\* Block by block, oldest first; spacing[b] is the step between the anchors kept
\* around b.
timesOf(times, anchors, wanted, spacing) ==
  MapThenFoldSet(LAMBDA b, acc : Dated(times, acc, b, spacing[b]),
                 [at |-> [b \in {} |-> 0], anchors |-> anchors],
                 LAMBDA b : b, Greatest, wanted)

(* Anchors older than `at` go, except the newest of them. *)
forgetBefore(times, anchors, at) ==
  {a \in anchors : \A x \in anchors : x > a => times[x] >= at}

---------------------------------------------------------------------------
(* RobinhoodMarketIndexer.blockAtOrBefore: interpolation with a bisection   *)
(* step after a probe that failed to halve the range.                       *)

clampBetween(value, low, high) ==
  IF value <= low THEN low + 1 ELSE IF value >= high THEN high - 1 ELSE value

probe(times, aim, r) ==
  r.low + ((r.high - r.low) * (IF aim > times[r.low] THEN aim - times[r.low] ELSE 0))
            \div (IF times[r.high] > times[r.low] THEN times[r.high] - times[r.low] ELSE 1)

narrowed(times, target, tolerance, r) ==
  LET middle == IF r.bisect THEN (r.low + r.high) \div 2
                ELSE clampBetween(probe(times, target - tolerance \div 2, r), r.low, r.high)
      early == times[middle] <= target
      lo == IF early THEN middle ELSE r.low
      hi == IF early THEN r.high ELSE middle
  IN  [low |-> lo, high |-> hi, bisect |-> ~r.bisect /\ (hi - lo) * 2 > r.high - r.low]

blockAtOrBefore(times, head, target, tolerance) ==
  LET search[r \in [low : 1..head, high : 1..head, bisect : BOOLEAN]] ==
        IF r.high - r.low <= 1 \/ target - times[r.low] <= tolerance THEN r.low
        ELSE search[narrowed(times, target, tolerance, r)]
  IN  IF target >= times[head] THEN head
      ELSE IF times[1] > target THEN 1
      ELSE search[[low |-> 1, high |-> head, bisect |-> FALSE]]

---------------------------------------------------------------------------
(* The block that breaks a tie.                                              *)

firstFinalizedBlockAtOrAfter(times, finalized, cutoff) ==
  LET Reaches(b) == times[b] >= cutoff
      Back(step) == IF finalized > step THEN finalized - step ELSE 1
      halved(r) == LET middle == r.low + (r.high - r.low) \div 2
                   IN  IF Reaches(middle) THEN [r EXCEPT !.high = middle] ELSE [r EXCEPT !.low = middle]
      bisect[r \in [low : 1..finalized, high : 1..finalized]] ==
        IF r.high - r.low <= 1 THEN r.high ELSE bisect[halved(r)]
      walk[w \in [step : Nat \ {0}, atOrAfter : 1..finalized]] ==
        IF w.atOrAfter = 1 THEN 1
        ELSE IF Reaches(Back(w.step)) THEN walk[[step |-> 2 * w.step, atOrAfter |-> Back(w.step)]]
        ELSE bisect[[low |-> Back(w.step), high |-> w.atOrAfter]]
  IN  IF ~Reaches(finalized) THEN NoBlock ELSE walk[[step |-> 1, atOrAfter |-> finalized]]

---------------------------------------------------------------------------
(* scanLogs: a range the endpoint calls too large is split in half, down to *)
(* one block.  `count[b]` logs match in block b and the endpoint returns at *)
(* most `cap`; the answer is the blocks read, in order, or a failure.       *)

ScanFailed == <<NoBlock>>

scanLogs(count, cap, first, last) ==
  LET Total(a, z) == FoldLeft(+, 0, SubSeq(count, a, z))
      scan[a \in 1..Len(count), z \in 0..Len(count)] ==
        IF z < a THEN <<>>
        ELSE IF Total(a, z) <= cap THEN [i \in 1..(z - a + 1) |-> a + i - 1]
        ELSE IF a = z THEN ScanFailed
        ELSE LET middle == a + (z - a) \div 2
                 older == scan[a, middle]
             IN  IF older = ScanFailed THEN ScanFailed
                 ELSE LET newer == scan[middle + 1, z]
                      IN  IF newer = ScanFailed THEN ScanFailed ELSE older \o newer
  IN  scan[first, last]


---------------------------------------------------------------------------
(* The indexer.                                                              *)

CONSTANTS
  Logs,                  \* what a block may carry: [kind, place, emitter, quote, token, routed]
  MINUTE,                \* seconds in a bucket of volume
  TRADE_RETENTION,       \* tradeRetentionMs
  VOLUME_RETENTION,      \* volumeRetentionMs
  PONS_RETENTION,        \* ponsRetentionMs
  MIN_TRADE_QUOTE,       \* minTradeQuote
  MAX_BLOCKS_PER_POLL,   \* maxBlocksPerPoll
  FINE_ANCHOR_BLOCKS, COARSE_ANCHOR_BLOCKS, BLOCK_SEARCH_TOLERANCE,
  SEEN_CAP, SENDERS_CAP, NOT_CURVES_CAP,   \* the sizes the caches are cleared beyond
  HEAD_LAG,              \* how far behind the chain the endpoint may answer its head
  MaxBlocks, MaxTime,    \* bounds on the chain
  MaxPollFaults          \* bound on RPC calls that throw

Nothing == [kind |-> "NONE", place |-> "none", emitter |-> "none", quote |-> 0, token |-> 0,
            routed |-> FALSE]

ASSUME MarketAssumption ==
  /\ Logs \subseteq [kind : {"INITIALIZE", "REGISTER", "LAUNCH", "SWAP", "CURVE_TRADE"},
                     place : STRING, emitter : STRING, quote : Nat, token : Nat, routed : BOOLEAN]
  /\ {MINUTE, MAX_BLOCKS_PER_POLL, FINE_ANCHOR_BLOCKS, COARSE_ANCHOR_BLOCKS, MaxBlocks, MaxTime}
        \subseteq Nat \ {0}
  /\ {TRADE_RETENTION, VOLUME_RETENTION, PONS_RETENTION, MIN_TRADE_QUOTE} \subseteq Nat
  /\ FINE_ANCHOR_BLOCKS <= COARSE_ANCHOR_BLOCKS
  \* Volume is kept for days, trades and Pons activity for about a round.
  /\ TRADE_RETENTION <= VOLUME_RETENTION /\ PONS_RETENTION <= VOLUME_RETENTION
  /\ {BLOCK_SEARCH_TOLERANCE, SEEN_CAP, SENDERS_CAP, NOT_CURVES_CAP, HEAD_LAG, MaxPollFaults}
        \subseteq Nat

VARIABLES
  chain,     \* the blocks, oldest first: [at, log]
  ix,        \* the indexer's memory
  poll,      \* what the poll under way holds: [pc, head, to]
  faults     \* calls that have thrown

marketVars == <<chain, ix, poll, faults>>

Times == [b \in DOMAIN chain |-> chain[b].at]
Blocks == DOMAIN chain
NoWallet == "null"
Sender == "sender"      \* the account behind a transaction
Idle == [pc |-> "idle", head |-> 0, to |-> 0]

Minutes == 0..(MaxTime \div MINUTE)

Fresh ==
  [usdgPools |-> {}, ponsPools |-> {}, curves |-> {}, notCurves |-> {},
   pending |-> <<>>, dexTrades |-> <<>>, minuteVolume |-> [m \in Minutes |-> 0],
   keepTradesFrom |-> 0, ponsTrades |-> <<>>, seen |-> {}, senders |-> {},
   lastBlock |-> 0, covered |-> 0, anchors |-> {}, fineFromBlock |-> 1]

---------------------------------------------------------------------------
(* Which contract each event is trusted from.  A log that is another event   *)
(* under the same topic does not decode, and is nobody's.                    *)
Undecodable == "undecodable"

emittedBy(log) ==
  CASE log.kind \in {"INITIALIZE", "SWAP"} -> log.emitter = "poolManager"
    [] log.kind = "LAUNCH" -> log.emitter = "ponsFactory"
    [] log.kind = "REGISTER" -> log.emitter = "ponsMemeHook"
    [] log.kind = "CURVE_TRADE" -> log.emitter # Undecodable
    [] OTHER -> FALSE

(* A pool's identifier is made of its tokens, so no pool is both a Stock     *)
(* Token's and a Pons memecoin's; and a curve's trades are its own events.   *)
ASSUME LogsAssumption ==
  \A k, l \in Logs : emittedBy(k) /\ k.place = l.place =>
    /\ k.kind = "INITIALIZE" /\ emittedBy(l) => l.kind # "REGISTER"
    /\ k.kind = "LAUNCH" /\ l.kind = "CURVE_TRADE" => l.emitter = "curve"

(* How many entries of a list in time order are before an instant, and how   *)
(* many an entry of that instant goes behind.                               *)
lowerBound(list, at) == Greatest({0} \cup {i \in DOMAIN list : list[i].at < at})
behind(list, at) == Greatest({0} \cup {i \in DOMAIN list : list[i].at <= at})

insertByTime(list, entry) ==
  LET n == behind(list, entry.at)
  IN  SubSeq(list, 1, n) \o <<entry>> \o SubSeq(list, n + 1, Len(list))

dropBefore(list, cutoff) == SubSeq(list, lowerBound(list, cutoff) + 1, Len(list))

(* A Stock Token swap too small to be a trade counts for no volume.          *)
volumeWith(volume, log, at) ==
  IF log.quote >= MIN_TRADE_QUOTE
  THEN [volume EXCEPT ![at \div MINUTE] = @ + log.quote] ELSE volume

(* A swap that moved none of the token is no trade of it.                    *)
recordSwap(x, log, b, at) ==
  IF log.place \in x.usdgPools /\ log.token = 0 THEN x
  ELSE IF log.place \in x.usdgPools
  THEN [x EXCEPT
          !.minuteVolume = volumeWith(@, log, at),
          !.dexTrades = IF at >= x.keepTradesFrom
                        THEN insertByTime(@, [id |-> b, at |-> at]) ELSE @]
  ELSE IF log.place \in x.ponsPools
  THEN [x EXCEPT !.ponsTrades = insertByTime(@, [id |-> b, at |-> at, wallet |-> NoWallet])]
  ELSE x

recordCurveTrade(x, log, b, at) ==
  IF log.place \in x.curves
  THEN [x EXCEPT !.ponsTrades =
          insertByTime(@, [id |-> b, at |-> at,
                           wallet |-> IF log.routed THEN NoWallet ELSE Sender])]
  ELSE IF log.place \in x.notCurves THEN x
  ELSE [x EXCEPT !.pending = Append(@, [id |-> b, at |-> at])]

record(x, log, b, at) ==
  CASE log.kind = "INITIALIZE" -> [x EXCEPT !.usdgPools = @ \cup {log.place}]
    [] log.kind = "REGISTER" -> [x EXCEPT !.ponsPools = @ \cup {log.place}]
    [] log.kind = "LAUNCH" -> [x EXCEPT !.curves = @ \cup {log.place}]
    [] log.kind = "SWAP" -> recordSwap(x, log, b, at)
    [] log.kind = "CURVE_TRADE" -> recordCurveTrade(x, log, b, at)

appliedAgain(x, b, at) ==
  IF ~emittedBy(chain[b].log) THEN x
  ELSE record([x EXCEPT !.seen = @ \cup {b}], chain[b].log, b, at)

(* A log is recorded once, and only from the contract it is trusted from. *)
applied(x, b, at) ==
  IF b \in x.seen \/ ~emittedBy(chain[b].log) THEN x
  ELSE record([x EXCEPT !.seen = @ \cup {b}], chain[b].log, b, at)

(* The logs of `blocks`, in chain order. *)
apply(x, blocks, at) ==
  MapThenFoldSet(LAMBDA b, y : applied(y, b, at[b]), x, LAMBDA b : b, Greatest, blocks)

(* Blocks of a range whose log matches a filter. *)
scan(first, last, kinds) == {b \in Blocks : b \in first..last /\ chain[b].log.kind \in kinds}

(* No log is dated by the endpoint: its block is placed by the clock. *)
scanTrades(x, blocks) ==
  timesOf(Times, x.anchors, blocks,
          [b \in blocks |-> IF b >= x.fineFromBlock THEN FINE_ANCHOR_BLOCKS ELSE COARSE_ANCHOR_BLOCKS])

PoolKinds == {"INITIALIZE", "REGISTER"}
TradeKinds == {"SWAP", "CURVE_TRADE"}
Undated(blocks) == [b \in blocks |-> 0]

(* The trades that waited for an answer about their curve, in order. *)
recordWaiting(x, trades) ==
  FoldLeft(LAMBDA y, t : record(y, chain[t.id].log, t.id, t.at), x, trades)

(* Contracts seen trading as a curve, asked of the factory's own launches.  *)
launchesOf(places, to) ==
  {b \in scan(1, to, {"LAUNCH"}) : /\ chain[b].log.emitter = "ponsFactory"
                                   /\ chain[b].log.place \in places}

resolveCurves(x, to) ==
  LET unknown == {chain[t.id].log.place : t \in Range(x.pending)} \ (x.curves \cup x.notCurves)
      launches == launchesOf(unknown, to)
      asked == apply(x, launches, Undated(launches))
      known == [asked EXCEPT !.notCurves = @ \cup (unknown \ asked.curves), !.pending = <<>>]
  IN  IF x.pending = <<>> THEN x ELSE recordWaiting(known, x.pending)

(* The trader behind each Pons pool swap and each routed curve trade. *)
withSender(t, found) ==
  IF t.wallet = NoWallet /\ t.id \in found THEN [t EXCEPT !.wallet = Sender] ELSE t

resolveSenders(x) ==
  LET unknown == {t.id : t \in {u \in Range(x.ponsTrades) : u.wallet = NoWallet}}
      found == x.senders \cup unknown
  IN  [x EXCEPT !.senders = found,
                !.ponsTrades = [i \in DOMAIN x.ponsTrades |-> withSender(x.ponsTrades[i], found)]]

AgoFrom(t, d) == IF t > d THEN t - d ELSE 0

prune(x) ==
  LET now == x.covered
      oldest == AgoFrom(now, VOLUME_RETENTION) \div MINUTE
      longest == Greatest({VOLUME_RETENTION, TRADE_RETENTION, PONS_RETENTION})
  IN  [x EXCEPT
         !.keepTradesFrom = AgoFrom(now, TRADE_RETENTION),
         !.minuteVolume = [m \in Minutes |-> IF m < oldest THEN 0 ELSE @[m]],
         !.dexTrades = dropBefore(@, AgoFrom(now, TRADE_RETENTION)),
         !.ponsTrades = dropBefore(@, AgoFrom(now, PONS_RETENTION)),
         !.anchors = forgetBefore(Times, @, AgoFrom(now, longest)),
         !.seen = IF Cardinality(@) > SEEN_CAP THEN {} ELSE @,
         !.senders = IF Cardinality(@) > SENDERS_CAP THEN {} ELSE @,
         !.notCurves = IF Cardinality(@) > NOT_CURVES_CAP THEN {} ELSE @]

---------------------------------------------------------------------------
(* The chain: a block at a time, with the log of somebody's transaction.    *)
(* A pool trades after it is created and a curve after it is launched.      *)

Created(kind, place) == \E b \in Blocks : /\ chain[b].log.kind = kind
                                           /\ chain[b].log.place = place
                                           /\ emittedBy(chain[b].log)

Possible(log) ==
  CASE log.kind = "SWAP" /\ log.emitter = "poolManager" ->
         Created("INITIALIZE", log.place) \/ Created("REGISTER", log.place)
    [] log.kind = "CURVE_TRADE" /\ log.emitter = "curve" -> Created("LAUNCH", log.place)
    [] log.kind \in {"INITIALIZE", "REGISTER", "LAUNCH"} -> ~Created(log.kind, log.place)
    [] OTHER -> TRUE

Mine ==
  /\ Len(chain) < MaxBlocks
  /\ \E step \in 0..1, log \in Logs \cup {Nothing} :
       /\ chain[Len(chain)].at + step <= MaxTime
       /\ Possible(log)
       /\ chain' = Append(chain, [at |-> chain[Len(chain)].at + step, log |-> log])
  /\ UNCHANGED <<ix, poll, faults>>

---------------------------------------------------------------------------
(* start(): pools from the whole of history, then the trading retained, all *)
(* up to one head.  Trades before the trade retention count for volume.     *)
(* The anchors the block searches probe are left out: they only add detail. *)

(* A block at or before the instant `ago` before the head. *)
searchBack(head, ago) ==
  blockAtOrBefore(Times, head, Times[head] - ago, BLOCK_SEARCH_TOLERANCE)

volumeFrom(head) == searchBack(head, Greatest({VOLUME_RETENTION, TRADE_RETENTION}))
tradesFrom(head) == searchBack(head, TRADE_RETENTION)
ponsFrom(head) == searchBack(head, PONS_RETENTION)

discovered(head) ==
  LET pools == scan(1, head, PoolKinds)
  IN  apply([Fresh EXCEPT !.keepTradesFrom = AgoFrom(Times[head], TRADE_RETENTION),
                          !.anchors = {1, head},
                          !.fineFromBlock = Least({tradesFrom(head), ponsFrom(head)})],
            pools, Undated(pools))

readTrades(x, head) ==
  LET ponsStart == Greatest({ponsFrom(head), volumeFrom(head)})
      swaps == {b \in scan(1, head, {"SWAP"}) :
                  \/ chain[b].log.place \in x.usdgPools /\ b >= volumeFrom(head)
                  \/ chain[b].log.place \in x.ponsPools /\ b >= ponsStart}
      wanted == swaps \cup scan(ponsStart, head, {"CURVE_TRADE"})
      dated == scanTrades(x, wanted)
      read == apply([x EXCEPT !.anchors = dated.anchors], wanted, dated.at)
  IN  resolveSenders(resolveCurves(read, head))

start ==
  /\ ix.lastBlock = 0
  /\ LET head == Len(chain)
     IN  ix' = prune([readTrades(discovered(head), head) EXCEPT !.lastBlock = head,
                                                               !.covered = Times[head]])
  /\ poll' = Idle
  /\ UNCHANGED <<chain, faults>>

(* The process ends and another starts from nothing. *)
Restart ==
  /\ ix # Fresh
  /\ faults < MaxPollFaults
  /\ faults' = faults + 1
  /\ ix' = Fresh
  /\ poll' = Idle
  /\ UNCHANGED chain

---------------------------------------------------------------------------
(* poll(), one step per await.  An endpoint may answer with an older head.  *)

PollHead ==
  /\ ix.lastBlock # 0
  /\ poll.pc = "idle"
  /\ \E head \in Blocks :
       /\ head >= Len(chain) - HEAD_LAG
       /\ IF head <= ix.lastBlock
          THEN poll' = [poll EXCEPT !.pc = "idleRefresh"]
          ELSE poll' = [pc |-> "logs", head |-> head,
                        to |-> IF head - ix.lastBlock > MAX_BLOCKS_PER_POLL
                               THEN ix.lastBlock + MAX_BLOCKS_PER_POLL ELSE head]
  /\ UNCHANGED <<chain, ix, faults>>

(* Anchored at both ends, then one read of every topic; pools go first. *)
PollLogs ==
  /\ poll.pc = "logs"
  /\ LET first == ix.lastBlock + 1
         anchored == [ix EXCEPT !.anchors = @ \cup {poll.to}]
         read == scan(first, poll.to, PoolKinds \cup TradeKinds)
         dated == scanTrades(anchored, read)
         creates == {b \in read : chain[b].log.kind \in PoolKinds}
         x == [anchored EXCEPT !.anchors = dated.anchors]
     IN  ix' = apply(apply(x, creates, dated.at), read \ creates, dated.at)
  /\ poll' = [poll EXCEPT !.pc = "curves"]
  /\ UNCHANGED <<chain, faults>>

PollCurves ==
  /\ poll.pc = "curves"
  /\ ix' = resolveCurves(ix, poll.to)
  /\ poll' = [poll EXCEPT !.pc = "senders"]
  /\ UNCHANGED <<chain, faults>>

PollSenders ==
  /\ poll.pc = "senders"
  /\ ix' = [resolveSenders(ix) EXCEPT !.lastBlock = poll.to, !.covered = Times[poll.to]]
  /\ poll' = [poll EXCEPT !.pc = "refresh"]
  /\ UNCHANGED <<chain, faults>>

(* refreshReferences(false), due or not, then the prune that ends a poll;   *)
(* a poll that found no new block refreshes and prunes nothing.             *)
PollRefresh ==
  /\ poll.pc \in {"refresh", "idleRefresh"}
  /\ ix' = IF poll.pc = "refresh" THEN prune(ix) ELSE ix
  /\ poll' = [poll EXCEPT !.pc = "idle"]
  /\ UNCHANGED <<chain, faults>>

(* An await throws: the poll ends where it stands and `follow` retries it.  *)
(* What was read before it is kept: anchors of the range, launches of some   *)
(* of the contracts asked about, senders of some of the transactions.        *)
PollFails ==
  /\ poll.pc # "idle"
  /\ faults < MaxPollFaults
  /\ faults' = faults + 1
  /\ \/ ix' = ix
     \/ /\ poll.pc = "logs"
        /\ \E anchored \in SUBSET ((ix.lastBlock + 1)..poll.to) :
             ix' = [ix EXCEPT !.anchors = @ \cup {poll.to} \cup anchored]
     \/ /\ poll.pc = "curves"
        /\ \E places \in SUBSET {chain[t.id].log.place : t \in Range(ix.pending)} :
             LET launches == launchesOf(places, poll.to)
             IN  ix' = apply(ix, launches, Undated(launches))
     \/ /\ poll.pc = "senders"
        /\ \E found \in SUBSET {t.id : t \in Range(ix.ponsTrades)} :
             ix' = [ix EXCEPT !.senders = @ \cup found]
  /\ poll' = [poll EXCEPT !.pc = "idle"]
  /\ UNCHANGED chain

MarketInit ==
  /\ \E log \in {l \in Logs : l.kind \in {"INITIALIZE", "LAUNCH"}} \cup {Nothing} :
       /\ emittedBy(log) \/ log = Nothing
       /\ chain = <<[at |-> 1, log |-> log]>>
  /\ ix = Fresh
  /\ poll = Idle
  /\ faults = 0

(* One turn of `follow`. *)
follow == start \/ PollHead \/ PollLogs \/ PollCurves \/ PollSenders \/ PollRefresh

MarketNext == Mine \/ Restart \/ follow \/ PollFails

---------------------------------------------------------------------------
(* What the market shows, against the chain it was read from.               *)

Genuine(b, kind, source) ==
  /\ chain[b].log.kind = kind
  /\ emittedBy(chain[b].log)
  /\ Created(source, chain[b].log.place)

DexTradeOn(b) == Genuine(b, "SWAP", "INITIALIZE") /\ chain[b].log.token > 0
PonsTradeOn(b) == Genuine(b, "SWAP", "REGISTER") \/ Genuine(b, "CURVE_TRADE", "LAUNCH")

(* Recorded once: a list never holds one event twice, in any order. *)
OncePerEvent(list) == \A i, j \in DOMAIN list : list[i].id = list[j].id => i = j
InTimeOrder(list) == \A i, j \in DOMAIN list : i <= j => list[i].at <= list[j].at

(* A block's date is never before that of the anchor its cell starts at. *)
Floor(b) == Times[IF b > COARSE_ANCHOR_BLOCKS THEN b - COARSE_ANCHOR_BLOCKS ELSE 1]

(* A trade is owed from there on; start() finds a block of the cutoff's own  *)
(* second, which need not be the first of it.                               *)
Owed(b, cutoff) == b <= ix.lastBlock /\ Floor(b) > cutoff

(* The dollars the trades held put into a minute. *)
VolumeHeld(trades, m) ==
  SumFunction([b \in 1..MaxBlocks |->
    IF /\ \E t \in Range(trades) : t.id = b /\ t.at \div MINUTE = m
       /\ chain[b].log.quote >= MIN_TRADE_QUOTE
    THEN chain[b].log.quote ELSE 0])

(* The types of the indexer's memory and of the poll that is under way. *)
MarketTypeOK ==
  /\ \A b \in Blocks : chain[b] \in [at : 0..MaxTime, log : Logs \cup {Nothing}]
  /\ ix.lastBlock \in 0..Len(chain) /\ ix.covered \in 0..MaxTime
  /\ ix.seen \subseteq Blocks /\ ix.anchors \subseteq Blocks /\ ix.senders \subseteq Blocks
  /\ ix.minuteVolume \in [Minutes -> Nat]
  /\ \A t \in Range(ix.ponsTrades) : t.wallet \in {NoWallet, Sender}
  /\ poll.pc \in {"idle", "idleRefresh", "logs", "curves", "senders", "refresh"}
  /\ faults \in 0..MaxPollFaults

(* What the market says it covers it has read: every Stock Token swap and    *)
(* every Pons trade up to the last block is held once, in time order, until  *)
(* it is pruned - whichever polls failed half way, and after `seen` was       *)
(* cleared - and nothing the trusted contracts did not emit is ever held.    *)
(* The two books agree: a minute's volume is the sum of the trades kept in   *)
(* that minute, so a retried poll counts no dollar twice.                    *)
CoveredIsRead ==
  /\ OncePerEvent(ix.dexTrades) /\ InTimeOrder(ix.dexTrades)
  /\ OncePerEvent(ix.ponsTrades) /\ InTimeOrder(ix.ponsTrades)
  /\ {t.id : t \in Range(ix.dexTrades)} \subseteq {b \in Blocks : DexTradeOn(b)}
  /\ {t.id : t \in Range(ix.ponsTrades)} \subseteq {b \in Blocks : PonsTradeOn(b)}
  /\ \A b \in Blocks :
       /\ DexTradeOn(b) /\ Owed(b, AgoFrom(ix.covered, TRADE_RETENTION)) =>
            \E t \in Range(ix.dexTrades) : t.id = b
       /\ PonsTradeOn(b) /\ Owed(b, AgoFrom(ix.covered, PONS_RETENTION)) =>
            \E t \in Range(ix.ponsTrades) : t.id = b /\ t.wallet # NoWallet
  /\ \A m \in Minutes : m * MINUTE >= ix.keepTradesFrom =>
       ix.minuteVolume[m] = VolumeHeld(ix.dexTrades, m)

===========================================================================
