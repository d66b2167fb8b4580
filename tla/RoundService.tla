--------------------------- MODULE RoundService ---------------------------
(***************************************************************************)
(* The round driver (packages/round-service, packages/battle-engine), the  *)
(* Postgres round store it checkpoints to (store-postgres/round-store.ts)  *)
(* and the Redis lease that lets one server instance drive (redis/lease.ts *)
(* and apps/server/src/main.ts), over the pick store of PickStore.         *)
(*                                                                         *)
(* runRounds is sequential, with an await before every write and every     *)
(* publish.  Each stretch between two awaits is one action, and an         *)
(* instance may crash between any two of them: what it kept in memory is   *)
(* gone, and whoever takes the lease next restores the round from the      *)
(* store.  A write that fails ends the process, so it is a crash too.      *)
(*                                                                         *)
(* The market is abstracted to what an observation of a battle says: who   *)
(* is ahead, a dead heat, or data too stale to score.  A battle's evidence *)
(* hash is the sequence of the observations folded into it.                *)
(***************************************************************************)
EXTENDS PickStore, Sequences

CONSTANTS
  Instances,         \* server instances
  Labels,            \* award reasons a side's confidence label gives a win
  TieBreak,          \* [Rounds -> [Slots -> Sides]]: what the block hash picks
  MaxTicks,          \* bound on the scored ticks of a battle
  MaxOutages,        \* bound on crashes and stops
  StepsOutliveLease  \* whether a lease may expire under a step still running

VARIABLES
  roundState,   \* rounds.state; None before the round's row exists
  battleState,  \* battles.state
  labels,       \* battles.left_confidence and right_confidence
  evidence,     \* battle_tick_evidence: row n is the chain after tick n
  results,      \* battle_results
  wpLedger,     \* wp_ledger
  published,    \* every event handed to the bus
  lease,        \* the holder of the rounds lease; None when it is free
  pc,           \* where each instance's driver is
  mem,          \* the RoundEngineState each driver holds; None for none
  out,          \* events of the current step still to be published
  stopping,     \* instances whose abort signal has fired
  outages       \* crashes and stops so far

storeVars == <<roundState, battleState, labels, evidence, results, wpLedger>>
driverVars == <<lease, pc, mem, out, stopping, outages>>
vars == <<pickVars, storeVars, published, driverVars>>

Observations == {"LEFT", "RIGHT", "TIE", "STALE"}
Scorable == Observations \ {"STALE"}
BattleStates == {"SCHEDULED", "LIVE", "FINALIZED", "VOID"}
RoundStates == {"PICK_OPEN", "BATTLE_LIVE", "FINALIZED"}
Steps ==
  {"standby", "load", "opening", "save_open", "loop", "save_lock", "save_tick",
   "save_final", "publish"}

Battle == [state: BattleStates, chain: Seq(Scorable)]
LockedPick == [wallet: Wallets, slot: Slots, side: Sides, deployed: BOOLEAN]
EngineState ==
  [round: Rounds, state: RoundStates, openAt: Nat,
   labels: [Slots -> [Sides -> Labels]], battles: [Slots -> Battle],
   picks: SUBSET LockedPick]
Result == [round: Rounds, slot: Slots, winner: Sides, chain: Seq(Scorable)]
Award ==
  [wallet: Wallets, round: Rounds, slot: Slots, reason: Labels \cup {"CARD_ASSIST"}]
Event ==
  [kind: {"ROUND_OPENED", "PICKS_LOCKED"}, round: Rounds]
  \cup [kind: {"BATTLE_STATE_UPDATE"}, round: Rounds, slot: Slots,
        chain: Seq(Scorable)]
  \cup [kind: {"BATTLE_VOID"}, round: Rounds, slot: Slots,
        cardUseRestored: BOOLEAN]
  \cup [kind: {"ROUND_FINALIZED"}, round: Rounds, results: SUBSET Result,
        voided: SUBSET Slots]

ASSUME RoundAssumption ==
  /\ TieBreak \in [Rounds -> [Slots -> Sides]]
  /\ MaxTicks \in Nat
  /\ MaxOutages \in Nat
  /\ StepsOutliveLease \in BOOLEAN
  /\ None \notin Instances
  /\ None \notin RoundStates
  /\ None \notin EngineState

RoundTypeOK ==
  /\ PickTypeOK
  /\ roundState \in [Rounds -> RoundStates \cup {None}]
  /\ battleState \in [Rounds -> [Slots -> BattleStates]]
  /\ labels \in [Rounds -> [Slots -> [Sides -> Labels]] \cup {None}]
  /\ evidence \in [Rounds -> [Slots -> Seq(Seq(Scorable))]]
  /\ results \subseteq Result
  /\ wpLedger \subseteq Award
  /\ published \subseteq Event
  /\ lease \in Instances \cup {None}
  /\ pc \in [Instances -> Steps]
  /\ mem \in [Instances -> EngineState \cup {None}]
  /\ out \in [Instances -> Seq(Event)]
  /\ stopping \subseteq Instances
  /\ outages \in 0..MaxOutages

RoundInit ==
  /\ PickInit
  /\ roundState = [r \in Rounds |-> None]
  /\ battleState = [r \in Rounds |-> [s \in Slots |-> "SCHEDULED"]]
  /\ labels = [r \in Rounds |-> None]
  /\ evidence = [r \in Rounds |-> [s \in Slots |-> << >>]]
  /\ results = {}
  /\ wpLedger = {}
  /\ published = {}
  /\ lease = None
  /\ pc = [i \in Instances |-> "standby"]
  /\ mem = [i \in Instances |-> None]
  /\ out = [i \in Instances |-> << >>]
  /\ stopping = {}
  /\ outages = 0

-----------------------------------------------------------------------------
(***************************************************************************)
(* The battle engine: pure functions of a round's state.                   *)
(***************************************************************************)

\* createRound with every battle begun, and openRound's explicit PICK_OPEN.
CreateRound(r, at, intel) ==
  [round |-> r, state |-> "PICK_OPEN", openAt |-> at, labels |-> intel,
   battles |-> [s \in Slots |-> [state |-> "SCHEDULED", chain |-> << >>]],
   picks |-> {}]

\* lockRound: the picks are frozen in and every battle opens.
LockRound(m, locked) ==
  [m EXCEPT !.state = "BATTLE_LIVE", !.picks = locked,
            !.battles = [s \in Slots |-> [m.battles[s] EXCEPT !.state = "LIVE"]]]

\* applyTick: only a live battle takes an observation, and stale data voids it.
ApplyTick(battle, observed) ==
  CASE battle.state # "LIVE" -> battle
    [] battle.state = "LIVE" /\ observed = "STALE" ->
         [battle EXCEPT !.state = "VOID"]
    [] OTHER -> [battle EXCEPT !.chain = Append(@, observed)]

\* A battle is scored if it stayed live and saw at least one scorable tick.
Scored(battle) == battle.state = "LIVE" /\ battle.chain # << >>

LastTick(battle) == battle.chain[Len(battle.chain)]

\* needsFinalizationBlockHash and resolveBattle: the block hash decides a
\* battle that is level, and nothing else.
Winner(r, s, battle) ==
  IF LastTick(battle) = "TIE" THEN TieBreak[r][s] ELSE LastTick(battle)

\* finalizeRound: every battle is finalized or voided.
FinalizeRound(m) ==
  [m EXCEPT !.state = "FINALIZED",
            !.battles =
              [s \in Slots |->
                 [m.battles[s] EXCEPT
                    !.state = IF Scored(m.battles[s]) THEN "FINALIZED" ELSE "VOID"]]]

ResultsOf(m) ==
  {[round |-> m.round, slot |-> s, winner |-> Winner(m.round, s, m.battles[s]),
    chain |-> m.battles[s].chain] :
     s \in {t \in Slots : Scored(m.battles[t])}}

VoidedOf(m) == {s \in Slots : ~Scored(m.battles[s])}

\* Mutant: a deployed card earns its assist in a lost battle too.
AwardsForEveryCard(r, locked, res, intel) ==
  LET won == {p \in locked : \E x \in res : x.slot = p.slot /\ x.winner = p.side}
  IN  {[wallet |-> p.wallet, round |-> r, slot |-> p.slot,
        reason |-> intel[p.slot][p.side]] : p \in won}
      \cup {[wallet |-> p.wallet, round |-> r, slot |-> p.slot,
             reason |-> "CARD_ASSIST"] : p \in {q \in locked : q.deployed}}

\* awardsFor: a winning pick earns its label's award, and one more for a card.
AwardsFor(r, locked, res, intel) ==
  LET won == {p \in locked : \E x \in res : x.slot = p.slot /\ x.winner = p.side}
  IN  {[wallet |-> p.wallet, round |-> r, slot |-> p.slot,
        reason |-> intel[p.slot][p.side]] : p \in won}
      \cup {[wallet |-> p.wallet, round |-> r, slot |-> p.slot,
             reason |-> "CARD_ASSIST"] : p \in {q \in won : q.deployed}}

-----------------------------------------------------------------------------
(***************************************************************************)
(* The round store.                                                        *)
(***************************************************************************)

\* The battle's checkpoint after its latest tick, unless its sequence number
\* already has one; a battle never scored has none.
writeCheckpoint(rows, battle) ==
  IF Len(battle.chain) > Len(rows) THEN Append(rows, battle.chain) ELSE rows

\* saveState: the round's and the battles' states are overwritten, whatever
\* they were; a round's labels are written once, with its row.
WriteState(m) ==
  /\ roundState' = [roundState EXCEPT ![m.round] = m.state]
  /\ battleState' =
       [battleState EXCEPT ![m.round] = [s \in Slots |-> m.battles[s].state]]
  /\ labels' = [labels EXCEPT ![m.round] = IF @ = None THEN m.labels ELSE @]
  /\ evidence' =
       [evidence EXCEPT ![m.round] =
          [s \in Slots |-> writeCheckpoint(evidence[m.round][s], m.battles[s])]]

Stored == {r \in Rounds : roundState[r] # None}

\* Mutant: a resumed round has its scores but not its picks.
RestoredWithoutPicks(r) ==
  [round |-> r, state |-> roundState[r], openAt |-> openAt[r],
   labels |-> labels[r],
   battles |->
     [s \in Slots |->
        [state |-> battleState[r][s],
         chain |-> LET rows == evidence[r][s]
                   IN  IF rows = << >> THEN << >> ELSE rows[Len(rows)]]],
   picks |-> {}]

\* Mutant: a resumed battle starts a new evidence chain.
RestoredWithoutChain(r) ==
  [round |-> r, state |-> roundState[r], openAt |-> openAt[r],
   labels |-> labels[r],
   battles |->
     [s \in Slots |-> [state |-> battleState[r][s], chain |-> << >>]],
   picks |-> FrozenPicks(r)]

\* loadLatest: the round that opened last, with each battle's newest checkpoint
\* and the picks frozen at lock.
Restored(r) ==
  [round |-> r, state |-> roundState[r], openAt |-> openAt[r],
   labels |-> labels[r],
   battles |->
     [s \in Slots |->
        [state |-> battleState[r][s],
         chain |-> LET rows == evidence[r][s]
                   IN  IF rows = << >> THEN << >> ELSE rows[Len(rows)]]],
   picks |-> FrozenPicks(r)]

LoadLatest ==
  IF Stored = {} THEN None
  ELSE Restored(CHOOSE r \in Stored : \A q \in Stored : openAt[q] <= openAt[r])

-----------------------------------------------------------------------------
(***************************************************************************)
(* The lease and the life of an instance.                                  *)
(***************************************************************************)
Running(i) == pc[i] # "standby"

\* takeLease: SET NX.
TakeLease(i) ==
  /\ pc[i] = "standby"
  /\ lease = None
  /\ lease' = i
  /\ pc' = [pc EXCEPT ![i] = "load"]
  /\ UNCHANGED <<pickVars, storeVars, published, mem, out, stopping, outages>>

\* Nobody has renewed the lease for its time to live: its holder crashed, or is
\* paused or partitioned in the middle of a step.  Such a holder is told by its
\* next renewal; here its signal fires at once, the earliest it can.
LeaseExpires ==
  /\ lease # None
  /\ StepsOutliveLease \/ ~Running(lease)
  /\ lease' = None
  /\ stopping' = IF Running(lease) THEN stopping \cup {lease} ELSE stopping
  /\ UNCHANGED <<pickVars, storeVars, published, pc, mem, out, outages>>

\* shutdown, or a renewal that failed: the signal fires, the step goes on.
Stop(i) ==
  /\ Running(i) /\ i \notin stopping
  /\ outages < MaxOutages
  /\ outages' = outages + 1
  /\ stopping' = stopping \cup {i}
  /\ UNCHANGED <<pickVars, storeVars, published, lease, pc, mem, out>>

EndProcess(i) ==
  /\ pc' = [pc EXCEPT ![i] = "standby"]
  /\ mem' = [mem EXCEPT ![i] = None]
  /\ out' = [out EXCEPT ![i] = << >>]
  /\ stopping' = stopping \ {i}
  /\ UNCHANGED <<pickVars, storeVars, published>>

\* The loop sees the signal between steps, and the lease is released.
Halt(i) ==
  /\ i \in stopping /\ pc[i] \in {"loop", "opening"}
  /\ lease' = IF lease = i THEN None ELSE lease
  /\ EndProcess(i)
  /\ UNCHANGED outages

\* The process dies between two awaits; its lease is left to expire.
Crash(i) ==
  /\ Running(i)
  /\ outages < MaxOutages
  /\ outages' = outages + 1
  /\ EndProcess(i)
  /\ UNCHANGED lease

-----------------------------------------------------------------------------
(***************************************************************************)
(* The driver, runRounds: one action per stretch between two awaits.       *)
(***************************************************************************)
Goto(i, step) == pc' = [pc EXCEPT ![i] = step]

\* Keeps publishing what the step has to say, then goes on.
Announce(i, events, m) ==
  /\ out' = [out EXCEPT ![i] = events]
  /\ Goto(i, IF events # << >> THEN "publish"
             ELSE IF m.state = "FINALIZED" THEN "opening" ELSE "loop")

\* A round in flight is resumed; a finalized one is followed by the next.
Load(i) ==
  /\ pc[i] = "load"
  /\ mem' = [mem EXCEPT ![i] = LoadLatest]
  /\ Goto(i, IF LoadLatest = None THEN "opening"
             ELSE IF LoadLatest.state = "FINALIZED" THEN "opening" ELSE "loop")
  /\ UNCHANGED <<pickVars, storeVars, published, lease, out, stopping, outages>>

Later(a, b) == IF a > b THEN a ELSE b

NextIndex(m) == IF m = None THEN 0 ELSE m.round + 1

\* Mutant: the next round opens where the last one locked.
OpeningAtLock(m) == IF m = None THEN now ELSE m.openAt + PickPhase

\* The next round's opening: where the last one ended, or now if that is past.
NextOpening(m) == IF m = None THEN now ELSE Later(m.openAt + RoundLength, now)

\* openRound, at the market's leave.  Only rounds that end within the bound on
\* the clock are opened.
OpenNext(i) ==
  /\ pc[i] = "opening" /\ i \notin stopping
  /\ NextIndex(mem[i]) \in Rounds
  /\ NextOpening(mem[i]) + RoundLength <= MaxTime
  /\ \E intel \in [Slots -> [Sides -> Labels]] :
       mem' = [mem EXCEPT ![i] =
                 CreateRound(NextIndex(mem[i]), NextOpening(mem[i]), intel)]
  /\ Goto(i, "save_open")
  /\ UNCHANGED <<pickVars, storeVars, published, lease, out, stopping, outages>>

\* persistOpened: saved, then announced.  An existing row keeps its clock.
SaveOpened(i) ==
  /\ pc[i] = "save_open"
  /\ WriteState(mem[i])
  /\ openAt' =
       [openAt EXCEPT ![mem[i].round] = IF @ = NoRow THEN mem[i].openAt ELSE @]
  /\ Announce(i, <<[kind |-> "ROUND_OPENED", round |-> mem[i].round]>>, mem[i])
  /\ UNCHANGED <<now, frozen, picks, requests, remaining, ledger, calls,
                 results, wpLedger, published, lease, mem, stopping, outages>>

MemLockAt(m) == m.openAt + PickPhase
MemEndAt(m) == m.openAt + RoundLength

\* Mutant: the lock is performed at its instant and not after it.
PerformLockOnTime(i) ==
  /\ pc[i] = "loop" /\ i \notin stopping
  /\ mem[i].state = "PICK_OPEN" /\ now = MemLockAt(mem[i])
  /\ \E r \in {mem[i].round} :
       /\ LockedPicks(r)
       /\ mem' = [mem EXCEPT ![i] = LockRound(mem[i], FrozenPicks(r)')]
  /\ Goto(i, "save_lock")
  /\ UNCHANGED <<storeVars, published, lease, out, stopping, outages>>

\* performLock up to the await of saveState: the picks are frozen and charged
\* in one transaction, then locked into the round.
PerformLock(i) ==
  /\ pc[i] = "loop" /\ i \notin stopping
  /\ mem[i].state = "PICK_OPEN" /\ now >= MemLockAt(mem[i])
  /\ \E r \in {mem[i].round} :
       /\ LockedPicks(r)
       /\ mem' = [mem EXCEPT ![i] = LockRound(mem[i], FrozenPicks(r)')]
  /\ Goto(i, "save_lock")
  /\ UNCHANGED <<storeVars, published, lease, out, stopping, outages>>

\* Mutant: the step is announced and never saved.
AnnounceUnsaved(i, events) ==
  /\ Announce(i, events, mem[i])
  /\ UNCHANGED <<pickVars, storeVars, published, lease, mem, stopping, outages>>

\* saveState of a round whose row exists.
SaveStep(i, events) ==
  /\ WriteState(mem[i])
  /\ Announce(i, events, mem[i])
  /\ UNCHANGED <<pickVars, results, wpLedger, published, lease, mem, stopping,
                 outages>>

SaveLocked(i) ==
  /\ pc[i] = "save_lock"
  /\ SaveStep(i, <<[kind |-> "PICKS_LOCKED", round |-> mem[i].round]>>)

\* performTick up to the await of saveState: one observation per battle.
PerformTick(i) ==
  /\ pc[i] = "loop" /\ i \notin stopping
  /\ mem[i].state = "BATTLE_LIVE" /\ now < MemEndAt(mem[i])
  /\ \A s \in Slots : Len(mem[i].battles[s].chain) < MaxTicks
  /\ \E observed \in [Slots -> Observations] :
       mem' = [mem EXCEPT ![i].battles =
                 [s \in Slots |-> ApplyTick(mem[i].battles[s], observed[s])]]
  /\ Goto(i, "save_tick")
  /\ UNCHANGED <<pickVars, storeVars, published, lease, out, stopping, outages>>

\* A set of the round's battles, in the order the round lists them.
InOrder(slots) ==
  CHOOSE order \in [1..Cardinality(slots) -> slots] :
    {order[n] : n \in DOMAIN order} = slots

\* Only a battle this tick scored has anything to publish.
Updated(m) == {s \in Slots : m.battles[s].state = "LIVE"}

SaveTicked(i) ==
  LET m == mem[i]
      order == InOrder(Updated(m))
      updates == [n \in DOMAIN order |->
                    [kind |-> "BATTLE_STATE_UPDATE", round |-> m.round,
                     slot |-> order[n], chain |-> m.battles[order[n]].chain]]
  IN  pc[i] = "save_tick" /\ SaveStep(i, updates)

\* performFinalize up to the await of saveFinalization, the wait for the block
\* hash included: the hash is fixed, so waiting only delays the step.
PerformFinalize(i) ==
  /\ pc[i] = "loop" /\ i \notin stopping
  /\ mem[i].state = "BATTLE_LIVE" /\ now >= MemEndAt(mem[i])
  /\ Goto(i, "save_final")
  /\ UNCHANGED <<pickVars, storeVars, published, lease, mem, out, stopping,
                 outages>>

\* insertResult: ON CONFLICT (battle_id) DO NOTHING.
NewResults(m) ==
  {x \in ResultsOf(m) :
     ~\E y \in results : y.round = x.round /\ y.slot = x.slot}

\* saveFinalization: states, results, awards and refunds in one transaction.
\* The awards' idempotency index is the award itself.
SaveFinalized(i) ==
  LET m == mem[i]
      restored == {e.slot : e \in RefundingNow(m.round, VoidedOf(m))}
      order == InOrder(VoidedOf(m))
      voids == [n \in DOMAIN order |->
                  [kind |-> "BATTLE_VOID", round |-> m.round, slot |-> order[n],
                   cardUseRestored |-> order[n] \in restored]]
      finalized == [kind |-> "ROUND_FINALIZED", round |-> m.round,
                    results |-> ResultsOf(m), voided |-> VoidedOf(m)]
  IN  /\ pc[i] = "save_final"
      /\ WriteState(FinalizeRound(m))
      /\ results' = results \cup NewResults(m)
      /\ wpLedger' =
           wpLedger \cup AwardsFor(m.round, m.picks, ResultsOf(m), m.labels)
      /\ RefundVoidedCards(m.round, VoidedOf(m))
      /\ mem' = [mem EXCEPT ![i] = FinalizeRound(m)]
      /\ Announce(i, Append(voids, finalized), m)
      /\ UNCHANGED <<published, lease, stopping, outages>>

\* One publish.
Publish(i) ==
  /\ pc[i] = "publish"
  /\ published' = published \cup {Head(out[i])}
  /\ Announce(i, Tail(out[i]), mem[i])
  /\ UNCHANGED <<pickVars, storeVars, lease, mem, stopping, outages>>

-----------------------------------------------------------------------------
Driver(i) ==
  \/ Load(i) \/ OpenNext(i) \/ SaveOpened(i)
  \/ PerformLock(i) \/ SaveLocked(i)
  \/ PerformTick(i) \/ SaveTicked(i)
  \/ PerformFinalize(i) \/ SaveFinalized(i)
  \/ Publish(i)
  \/ Halt(i)

\* The rest of the world: the clock, Genesis cards, the API's pick handlers.
World ==
  /\ Tick \/ (\E w \in Wallets : GrantCard(w)) \/ PickCalls
  /\ UNCHANGED <<storeVars, published, driverVars>>

RoundNext ==
  \/ World
  \/ LeaseExpires
  \/ \E i \in Instances : TakeLease(i) \/ Driver(i) \/ Stop(i) \/ Crash(i)

RoundSafety == RoundInit /\ [][RoundNext]_vars

\* The clock runs, a free lease is taken, a dead holder's lease expires, and an
\* instance that drives takes its next step.
RoundSpec ==
  /\ RoundSafety
  /\ WF_vars(Tick /\ UNCHANGED <<storeVars, published, driverVars>>)
  /\ WF_vars(LeaseExpires)
  /\ \A i \in Instances : WF_vars(TakeLease(i)) /\ WF_vars(Driver(i))

-----------------------------------------------------------------------------
(***************************************************************************)
(* Properties.                                                             *)
(***************************************************************************)
Refunded(r, s) ==
  \E e \in ledger : e.round = r /\ e.slot = s /\ e.event = "VOID_REFUND"

\* The results of a round that the store holds.
StoredResults(r) == {x \in results : x.round = r}

\* A round is settled once, whole and exactly, through crashes, resumes and
\* retried finalizations (finalizeRound, insertResult, insertAward and
\* refundVoidedCards in one transaction).  War Points are what the round owes
\* for the picks frozen in the store and the results recorded beside them; a
\* battle has either one result or a void, and a card deployed in it has its
\* charge back exactly if it was voided.  Before, there is none of it.
AwardsAreExact ==
  \A r \in Rounds :
    /\ {a \in wpLedger : a.round = r} =
         IF roundState[r] = "FINALIZED"
         THEN AwardsFor(r, FrozenPicks(r), StoredResults(r), labels[r])
         ELSE {}
    /\ \A s \in Slots :
         LET found == {x \in StoredResults(r) : x.slot = s}
         IN  IF roundState[r] # "FINALIZED"
             THEN found = {} /\ ~Refunded(r, s)
             ELSE /\ battleState[r][s] = IF found = {} THEN "VOID" ELSE "FINALIZED"
                  /\ Cardinality(found) <= 1
                  /\ \A e \in ledger :
                       e.round = r /\ e.slot = s
                         => (RefundRow(e) \in ledger <=> found = {})

\* The evidence of a battle is one unbroken chain: checkpoint n folds n ticks
\* and extends checkpoint n - 1, even when the driver that wrote the one is not
\* the driver that wrote the other, and a result rests on the whole chain.
EvidenceUnbroken ==
  \A r \in Rounds, s \in Slots :
    LET rows == evidence[r][s]
    IN  /\ \A n \in 1..Len(rows) :
             /\ Len(rows[n]) = n
             /\ n > 1 => SubSeq(rows[n], 1, n - 1) = rows[n - 1]
        /\ \A x \in StoredResults(r) :
             x.slot = s => rows # << >> /\ x.chain = rows[Len(rows)]

\* Nothing a subscriber is told is missing after a crash: every event published
\* describes what the store holds, the refund a BATTLE_VOID reports included.
PublishedIsStored ==
  \A e \in published :
    /\ roundState[e.round] # None
    /\ e.kind = "PICKS_LOCKED" => roundState[e.round] # "PICK_OPEN"
    /\ e.kind = "BATTLE_STATE_UPDATE" =>
         LET rows == evidence[e.round][e.slot]
         IN  Len(e.chain) <= Len(rows) /\ rows[Len(e.chain)] = e.chain
    /\ e.kind = "BATTLE_VOID" =>
         /\ battleState[e.round][e.slot] = "VOID"
         /\ e.cardUseRestored <=> Refunded(e.round, e.slot)
    /\ e.kind = "ROUND_FINALIZED" =>
         /\ roundState[e.round] = "FINALIZED"
         /\ e.results = StoredResults(e.round)

\* Rounds never overlap: the next one opens only after the one before it is
\* settled, and not before its end.  Round indices are never reused.
RoundsInSequence ==
  \A r, q \in Stored :
    q < r => roundState[q] = "FINALIZED" /\ openAt[r] >= BattleEndAt(q)

\* A settled round is history: no later step changes its state, its battles,
\* its results or its awards, or opens it again.
SettledRoundsFinal ==
  [][\A r \in Rounds : roundState[r] = "FINALIZED" =>
       /\ roundState'[r] = "FINALIZED"
       /\ battleState'[r] = battleState[r]
       /\ StoredResults(r)' = StoredResults(r)
       /\ {a \in wpLedger' : a.round = r} = {a \in wpLedger : a.round = r}
    ]_vars

\* Every round that opens is settled, whatever instance crashes or stops, as
\* long as some instance is restarted.
EveryRoundSettles ==
  \A r \in Rounds :
    roundState[r] = "PICK_OPEN" ~> roundState[r] = "FINALIZED"

\* The driver implements RoundSettlement: the store's states, frozen picks,
\* results and ledger, seen together, move only as an abstract step does.
Settlement ==
  INSTANCE RoundSettlement WITH
    phase <- [r \in Rounds |->
                CASE roundState[r] = None -> "NONE"
                  [] roundState[r] = "PICK_OPEN" -> "OPEN"
                  [] roundState[r] = "BATTLE_LIVE" -> "LIVE"
                  [] OTHER -> "SETTLED"],
    intel <- labels,
    backed <- [r \in Rounds |->
                 IF roundState[r] \in {"BATTLE_LIVE", "FINALIZED"}
                 THEN FrozenPicks(r) ELSE {}],
    outcome <- [r \in Rounds |->
                  [s \in Slots |->
                     IF roundState[r] # "FINALIZED" THEN "PENDING"
                     ELSE IF \E x \in StoredResults(r) : x.slot = s
                     THEN (CHOOSE x \in StoredResults(r) : x.slot = s).winner
                     ELSE "VOID"]],
    awards <- wpLedger

ImplementsSettlement == Settlement!SettlementSpec

=============================================================================
