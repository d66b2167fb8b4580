------------------------------- MODULE Pacer -------------------------------
(***************************************************************************)
(* Calls to an endpoint that throttles: packages/chain/src/paced.ts.       *)
(* Instants are kept relative to now, so time needs no bound: `since` is   *)
(* the time since the last call started, `pause` what is left of resumeAt, *)
(* `widened` the time since the spacing last widened and `sleep` what is   *)
(* left of a turn's sleep.                                                 *)
(***************************************************************************)
EXTENDS Integers, Sequences, FiniteSets

CONSTANTS
  Calls,                \* the calls the indexer makes at once
  MIN_INTERVAL,         \* minIntervalMs
  MAX_INTERVAL,         \* MAX_INTERVAL_MS
  THROTTLED_FLOOR,      \* THROTTLED_FLOOR_MS
  RECOVERY_DIVISOR,
  RETRIES, BACKOFF, MAX_BACKOFF

ASSUME PacerAssumption ==
  /\ IsFiniteSet(Calls)
  /\ MIN_INTERVAL \in Nat /\ MAX_INTERVAL \in Nat /\ MIN_INTERVAL <= MAX_INTERVAL
  /\ {THROTTLED_FLOOR, RECOVERY_DIVISOR, BACKOFF, MAX_BACKOFF} \subseteq Nat \ {0}
  /\ THROTTLED_FLOOR <= MAX_INTERVAL
  /\ RETRIES \in Nat

VARIABLES
  stage,      \* per call: queued, turn, flight, answered, refused, stopped
  attempt,    \* per call: attempts already throttled
  tail,       \* the calls waiting for their turn, first first
  sleep,      \* what is left of the sleep of the call whose turn it is
  since, pause, interval, widened,
  aborted

pacerVars == <<stage, attempt, tail, sleep, since, pause, interval, widened, aborted>>

Long == 2 * MAX_INTERVAL      \* long ago: nothing tells larger values apart
Larger(a, b) == IF a >= b THEN a ELSE b
Smaller(a, b) == IF a <= b THEN a ELSE b
InTurn == {c \in Calls : stage[c] = "turn"}

PacerInit ==
  /\ stage = [c \in Calls |-> "queued"]
  /\ attempt = [c \in Calls |-> 0]
  /\ tail \in {q \in [1..Cardinality(Calls) -> Calls] : \A i, j \in DOMAIN q : q[i] = q[j] => i = j}
  /\ sleep = 0 /\ since = Long /\ pause = 0 /\ interval = MIN_INTERVAL /\ widened = Long
  /\ aborted = FALSE

Wait == Larger(interval - since, pause)

(* The call starts: `lastStart = now()`, and the next turn may be taken. *)
StartCall(c) ==
  /\ stage' = [stage EXCEPT ![c] = "flight"]
  /\ since' = 0

(* Turns are handed out in the order asked; a turn sleeps out its wait once. *)
slot ==
  /\ tail # <<>> /\ InTurn = {}
  /\ tail' = Tail(tail)
  /\ LET c == Head(tail) IN
       \/ /\ aborted
          /\ stage' = [stage EXCEPT ![c] = "stopped"]
          /\ UNCHANGED <<since, sleep>>
       \/ /\ ~aborted /\ Wait > 0
          /\ stage' = [stage EXCEPT ![c] = "turn"]
          /\ sleep' = Wait
          /\ UNCHANGED since
       \/ /\ ~aborted /\ Wait <= 0
          /\ StartCall(c)
          /\ UNCHANGED sleep
  /\ UNCHANGED <<attempt, pause, interval, widened, aborted>>

SleepEndsTwice ==
  /\ \E c \in InTurn : sleep = 0 /\ StartCall(c)
  /\ sleep' = 0
  /\ UNCHANGED <<attempt, tail, pause, interval, widened, aborted>>

(* The sleep is over, or cut short by the signal. *)
SleepEnds ==
  /\ \E c \in InTurn :
       \/ aborted /\ stage' = [stage EXCEPT ![c] = "stopped"] /\ UNCHANGED since
       \/ ~aborted /\ sleep = 0 /\ StartCall(c)
  /\ sleep' = 0
  /\ UNCHANGED <<attempt, tail, pause, interval, widened, aborted>>

(* An answer gives back a part of the extra spacing, in whole units. *)
Answered(c) ==
  /\ stage[c] = "flight"
  /\ stage' = [stage EXCEPT ![c] = "answered"]
  /\ interval' = MIN_INTERVAL
        + ((interval - MIN_INTERVAL) * (RECOVERY_DIVISOR - 1)) \div RECOVERY_DIVISOR
  /\ UNCHANGED <<attempt, tail, sleep, since, pause, widened, aborted>>

(* A throttle widens the spacing once per burst and pauses the queue. *)
Throttled(c) ==
  /\ stage[c] = "flight"
  /\ IF widened >= interval
     THEN /\ interval' = Smaller(MAX_INTERVAL,
                                 Larger(2 * interval, Larger(MIN_INTERVAL, THROTTLED_FLOOR)))
          /\ widened' = 0
     ELSE UNCHANGED <<interval, widened>>
  /\ IF attempt[c] >= RETRIES
     THEN /\ stage' = [stage EXCEPT ![c] = "refused"]
          /\ UNCHANGED <<attempt, tail, pause>>
     ELSE /\ stage' = [stage EXCEPT ![c] = "queued"]
          /\ attempt' = [attempt EXCEPT ![c] = @ + 1]
          /\ tail' = Append(tail, c)
          /\ pause' = Larger(pause, Smaller(MAX_BACKOFF, BACKOFF * 2 ^ attempt[c]))
  /\ UNCHANGED <<sleep, since, aborted>>

(* Anything but a throttle is passed on at once. *)
Refused(c) ==
  /\ stage[c] = "flight"
  /\ stage' = [stage EXCEPT ![c] = "refused"]
  /\ UNCHANGED <<attempt, tail, sleep, since, pause, interval, widened, aborted>>

Abort ==
  /\ ~aborted
  /\ aborted' = TRUE
  /\ UNCHANGED <<stage, attempt, tail, sleep, since, pause, interval, widened>>

Down(n) == IF n > 0 THEN n - 1 ELSE 0

(* Time passes; a timer that is due fires before it passes again. *)
PacerTick ==
  /\ InTurn # {} => sleep > 0
  /\ since' = Smaller(Long, since + 1)
  /\ widened' = Smaller(Long, widened + 1)
  /\ pause' = Down(pause)
  /\ sleep' = Down(sleep)
  /\ UNCHANGED <<stage, attempt, tail, interval, aborted>>

Ends(c) == Answered(c) \/ Throttled(c) \/ Refused(c)

PacerNext == slot \/ SleepEnds \/ (\E c \in Calls : Ends(c)) \/ Abort \/ PacerTick

---------------------------------------------------------------------------
Started == \E c \in Calls : stage[c] # "flight" /\ stage'[c] = "flight"

(* The types of the queue; the spacing stays between its bounds whatever     *)
(* mix of throttles and answers it has seen.                                 *)
PacerTypeOK ==
  /\ stage \in [Calls -> {"queued", "turn", "flight", "answered", "refused", "stopped"}]
  /\ attempt \in [Calls -> 0..RETRIES]
  /\ Cardinality(InTurn) <= 1
  /\ interval \in MIN_INTERVAL..MAX_INTERVAL
  /\ \A i \in DOMAIN tail : stage[tail[i]] = "queued"

(* Starts are spaced: two calls never start closer than the configured       *)
(* interval, however many are refused together, and none after the stop.     *)
StartsAreSpaced == [][Started => since >= MIN_INTERVAL /\ ~aborted]_pacerVars

(* "No call starts before this: set by a throttle, for the whole queue."     *)
(* (paced.ts, on resumeAt.)  A turn computes its wait once, before it        *)
(* sleeps, and a throttle that arrives meanwhile does not lengthen it.       *)
NoStartWhilePaused == [][Started => pause = 0]_pacerVars

===========================================================================
