----------------------------- MODULE MarketTape -----------------------------
(***************************************************************************)
(* Recording the market and replaying it: TapeRecorder and TapeSource of   *)
(* packages/market-data, the recording loop of tools/record-market.mjs and *)
(* the slots packages/calibration/src/calibrate.ts plays.  The source is   *)
(* an indexer seen through its port: the trades it holds and the instant   *)
(* it covers.  A tape is the sequence of its lines, one file; a crash may  *)
(* lose the end of what was written, in the middle of a line too.  A file  *)
(* is written in order, so a crash that loses several writes leaves what   *)
(* one during the first of them leaves: it is taken there, and the         *)
(* recorder starts again later.                                            *)
(***************************************************************************)
EXTENDS Integers, Sequences, FiniteSets, SequencesExt

CONSTANTS
  OVERLAP,               \* OVERLAP_MS
  RETENTION,             \* RETENTION_MS of the recorder's indexer
  POLL_SPAN,             \* how much time one poll's blocks span: maxBlocksPerPoll of them
  WARMUP, ROUND_LENGTH,  \* the history a round looks back over, and its length
  MaxTrades, MaxWall, MaxMarks, MaxCrashes    \* bounds

ASSUME TapeAssumption ==
  /\ {OVERLAP, RETENTION, POLL_SPAN, WARMUP, ROUND_LENGTH,
      MaxTrades, MaxWall, MaxMarks, MaxCrashes} \subseteq Nat
  /\ MaxWall # 0
  /\ POLL_SPAN <= RETENTION     \* eight minutes of blocks, fifteen of retention

VARIABLES
  wall,        \* the instant, on chain and on the recorder's clock
  truth,       \* the trades on chain: [id, at]
  source,      \* the indexer: [up, held, covered]
  recorder,    \* [lastCovered, written]
  tape,        \* the lines on disk
  seenAt,      \* what the source had shown by each mark: [wallAt, ids, covered]
  crashes

tapeVars == <<wall, truth, source, recorder, tape, seenAt, crashes>>

Down0 == [up |-> FALSE, held |-> {}, covered |-> 0]
Since(t, d) == IF t > d THEN t - d ELSE 0
Top(S) == CHOOSE x \in S : \A y \in S : y <= x
Ids(trades) == {t.id : t \in trades}

---------------------------------------------------------------------------
(* TapeRecorder. *)

START(at) == [kind |-> "START", wallAt |-> at]
COVERED(at, wallAt) == [kind |-> "COVERED", at |-> at, wallAt |-> wallAt]
TORN == [kind |-> "TORN"]          \* the start of a line the crash cut short
TRADE(t) == [kind |-> "TRADE", id |-> t.id, at |-> t.at]

NewRecorder == [lastCovered |-> 0, written |-> {}]

(* Everything held that has not been written, over a trailing overlap. *)
NewTrades(rec, src) ==
  {t \in src.held : t.at >= Since(rec.lastCovered, OVERLAP) /\ t.id \notin Ids(rec.written)}

(* A source hands its trades out in time order: the i-th has i - 1 before it. *)
Before(t, u) == t.at < u.at \/ (t.at = u.at /\ t.id < u.id)
Earlier(t, trades) == {u \in trades : Before(u, t)}
ByTime(trades) ==
  [i \in 1..Cardinality(trades) |->
     CHOOSE t \in trades : Cardinality(Earlier(t, trades)) = i - 1]

snapshot(rec, src) ==
  LET fresh == ByTime(NewTrades(rec, src))
  IN  [i \in DOMAIN fresh |-> TRADE(fresh[i])] \o <<COVERED(src.covered, wall)>>

AfterSnapshot(rec, src) ==
  LET last == Top({rec.lastCovered, src.covered})
  IN  [lastCovered |-> last,
       written |-> {t \in rec.written \cup NewTrades(rec, src) : t.at >= last - 2 * OVERLAP}]

---------------------------------------------------------------------------
(* The recording loop: a header and a snapshot after the start, and a        *)
(* snapshot after every poll, failed or not.                                *)

Shown(src) ==
  [wallAt |-> wall, covered |-> src.covered,
   ids |-> Ids(src.held) \cup (IF seenAt = <<>> THEN {} ELSE Last(seenAt).ids)]

write(lines, src, rec) ==
  /\ Len(seenAt) < MaxMarks
  /\ \/ /\ tape' = tape \o lines
        /\ source' = src /\ recorder' = rec
        /\ seenAt' = Append(seenAt, Shown(src))
        /\ UNCHANGED crashes
     \/ /\ crashes < MaxCrashes
        /\ crashes' = crashes + 1
        /\ \E n \in 0..(Len(lines) - 1), torn \in {<<>>, <<TORN>>} :
             tape' = tape \o SubSeq(lines, 1, n) \o torn
        /\ source' = Down0 /\ recorder' = NewRecorder
        /\ UNCHANGED seenAt

StartRecording ==
  /\ ~source.up
  /\ LET src == [up |-> TRUE, covered |-> wall,
                 held |-> {t \in truth : t.at >= Since(wall, RETENTION)}]
     IN  write(<<START(wall)>> \o snapshot(NewRecorder, src), src,
               AfterSnapshot(NewRecorder, src))
  /\ UNCHANGED <<wall, truth>>

(* A poll reads to some instant and prunes; one that failed may have read    *)
(* trades without covering them.                                            *)
PollAndRecord ==
  /\ source.up
  /\ \E to \in source.covered..wall :
       /\ to - source.covered <= POLL_SPAN
       /\ LET read == {t \in truth : t.at <= to}
              src == [up |-> TRUE, covered |-> to,
                      held |-> {t \in source.held \cup {u \in read : u.at >= source.covered} :
                                  t.at >= Since(to, RETENTION)}]
              failed == [source EXCEPT !.held = @ \cup {u \in read : u.at >= source.covered}]
          IN  \/ write(snapshot(recorder, src), src, AfterSnapshot(recorder, src))
              \/ write(snapshot(recorder, failed), failed, AfterSnapshot(recorder, failed))
  /\ UNCHANGED <<wall, truth>>

TradeHappens ==
  /\ Cardinality(truth) < MaxTrades
  /\ truth' = truth \cup {[id |-> Cardinality(truth) + 1, at |-> wall]}
  /\ UNCHANGED <<wall, source, recorder, tape, seenAt, crashes>>

WallTick ==
  /\ wall < MaxWall
  /\ wall' = wall + 1
  /\ UNCHANGED <<truth, source, recorder, tape, seenAt, crashes>>

TapeInit ==
  /\ wall = 1 /\ truth = {} /\ source = Down0 /\ recorder = NewRecorder
  /\ tape = <<>> /\ seenAt = <<>> /\ crashes = 0

TapeNext == StartRecording \/ PollAndRecord \/ TradeHappens \/ WallTick

---------------------------------------------------------------------------
(* TapeSource: what the tape's lines become when it is loaded.  `lines` pairs *)
(* each revealed line with the mark that closed it; `runs` are the stretches  *)
(* read without a break.                                                     *)

EmptyLoad == [pending |-> <<>>, lines |-> <<>>, run |-> <<>>, runs |-> {}]

Extend(run, at) == IF run = <<>> THEN <<at, at>> ELSE <<run[1], Top({run[2], at})>>
Closed(load) == IF load.run = <<>> THEN load.runs ELSE load.runs \cup {load.run}

(* Mutant: the reader's run goes on across a restart of the recorder.        *)
LoadLineOneRun(clock, load, e) ==
  CASE e.kind = "START" -> [load EXCEPT !.pending = <<>>]
    [] e.kind = "COVERED" ->
         [load EXCEPT !.pending = <<>>,
            !.run = Extend(@, IF clock = "wall" THEN e.wallAt ELSE e.at),
            !.lines = @ \o [i \in 1..(Len(load.pending) + 1) |->
                LET read == Append(load.pending, e)[i]
                IN  [visible |-> IF clock = "wall" THEN e.wallAt ELSE read.at, entry |-> read]]]
    [] OTHER -> [load EXCEPT !.pending = Append(@, e)]

LoadLine(clock, load, e) ==
  CASE e.kind = "START" -> [load EXCEPT !.pending = <<>>, !.runs = Closed(load), !.run = <<>>]
    [] e.kind = "COVERED" ->
         [load EXCEPT !.pending = <<>>,
            !.run = Extend(@, IF clock = "wall" THEN e.wallAt ELSE e.at),
            !.lines = @ \o [i \in 1..(Len(load.pending) + 1) |->
                LET read == Append(load.pending, e)[i]
                IN  [visible |-> IF clock = "wall" THEN e.wallAt ELSE read.at, entry |-> read]]]
    [] OTHER -> [load EXCEPT !.pending = Append(@, e)]

(* decodeTapeEntry, over a file: a partial last line is dropped; one that a  *)
(* restarted recorder wrote on behind makes the whole tape refused.          *)
decodes == \A i \in 1..(Len(tape) - 1) : tape[i].kind # "TORN"
Entries == IF tape # <<>> /\ Last(tape).kind = "TORN" THEN Front(tape) ELSE tape

LoadOf(clock, lines) == FoldLeft(LAMBDA l, e : LoadLine(clock, l, e), EmptyLoad, lines)
load(clock) == LoadOf(clock, Entries)

records(l, from, to) == \E run \in Closed(l) : run[1] <= from /\ to <= run[2]

(* seeUntil: what is visible by an instant, and the instant it is current to. *)
visible(l, instant) == {x.entry : x \in {y \in Range(l.lines) : y.visible <= instant}}
tradesSeen(l, instant) == {e.id : e \in {x \in visible(l, instant) : x.kind = "TRADE"}}
coversUntil(l, clock, instant) ==
  LET marks == {e.at : e \in {x \in visible(l, instant) : x.kind = "COVERED"}}
      known == {x.visible : x \in {y \in Range(l.lines) : y.entry.kind = "COVERED"}}
      current == IF clock = "chain" /\ known # {}
                 THEN {IF instant < Top(known) THEN instant ELSE Top(known)} ELSE {}
  IN  Top({0} \cup marks \cup current)

(* runsIn (tools/tape-coverage.mjs): the stretches an operator is told the   *)
(* tape covers, in order.  The tool skips a line it cannot parse, so a line   *)
(* written on behind a torn one is lost to it.                               *)
CoverageLine(clock, acc, i) ==
  LET e == tape[i]
      lost == e.kind = "TORN" \/ (i > 1 /\ tape[i - 1].kind = "TORN")
  IN  CASE lost -> acc
        [] ~lost /\ e.kind = "START" -> [run |-> <<>>, runs |-> Closed(acc)]
        [] ~lost /\ e.kind = "COVERED" ->
             [acc EXCEPT !.run = Extend(@, IF clock = "wall" THEN e.wallAt ELSE e.at)]
        [] OTHER -> acc
runsIn(clock) ==
  Closed(FoldLeft(LAMBDA acc, i : CoverageLine(clock, acc, i), [run |-> <<>>, runs |-> {}],
                  [i \in DOMAIN tape |-> i]))

(* calibrate(): every slot on the tape that the recorder ran through, and     *)
(* through the history its first readings look back over, becomes a round.    *)
slots(l) ==
  LET marks == {x.visible : x \in {y \in Range(l.lines) : y.entry.kind = "COVERED"}}
  IN  {s \in 0..MaxWall : /\ s % ROUND_LENGTH = 0
                          /\ \E m \in marks : m + WARMUP <= s
                          /\ \E m \in marks : s + ROUND_LENGTH <= m}
played(l) == {s \in slots(l) : s >= WARMUP /\ records(l, s - WARMUP, s + ROUND_LENGTH)}

---------------------------------------------------------------------------
(* The types of the recording. *)
TapeTypeOK ==
  /\ wall \in 1..MaxWall
  /\ truth \subseteq [id : 1..MaxTrades, at : 1..MaxWall]
  /\ source.held \subseteq truth /\ source.covered \in 0..MaxWall
  /\ recorder.lastCovered \in 0..MaxWall /\ recorder.written \subseteq truth
  /\ \A e \in Range(tape) : e.kind \in {"START", "COVERED", "TRADE", "TORN"}
  /\ crashes \in 0..MaxCrashes

(* A tape is the market it was recorded from.  A replay at a wall-clock      *)
(* instant shows it as the recorder had read it by then, no earlier and no   *)
(* later: the trades its source had shown by the last mark on disk, each     *)
(* once, and covered to where it was.  Calibration plays no slot with a hole *)
(* in it: every trade of a played round and of the history before it is on   *)
(* the tape, across crashes, torn writes and failed polls; and the coverage  *)
(* an operator is shown before calibrating is the coverage it goes by.       *)
ReplayIsWhatWasRead ==
  decodes =>
    /\ LET l == load("wall")
       IN  \A i \in DOMAIN seenAt :
             i = Len(seenAt) \/ seenAt[i + 1].wallAt > seenAt[i].wallAt =>
               /\ tradesSeen(l, seenAt[i].wallAt) = seenAt[i].ids
               /\ coversUntil(l, "wall", seenAt[i].wallAt) = seenAt[i].covered
    /\ LET l == load("chain")
       IN  \A s \in played(l) :
             {t.id : t \in {u \in truth : u.at >= s - WARMUP /\ u.at < s + ROUND_LENGTH}}
               \subseteq tradesSeen(l, s + ROUND_LENGTH)
    /\ \A clock \in {"chain", "wall"} : runsIn(clock) = Closed(load(clock))

=============================================================================
