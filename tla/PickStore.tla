----------------------------- MODULE PickStore -----------------------------
(***************************************************************************)
(* Picks and card charges of the rounds: the pick handlers of the API      *)
(* (apps/api/src/server.ts), the Postgres pick store behind them           *)
(* (packages/store-postgres/src/pick-store.ts) and the refund half of the  *)
(* round store (round-store.ts, refundVoidedCards).                        *)
(*                                                                         *)
(* A pick request is two steps, because the handler awaits between them:   *)
(* the phase and card check against the clock, then the store transaction. *)
(* Any number of other steps, the freeze at lock included, may fall        *)
(* between the two.  Each store transaction is one action: the advisory    *)
(* locks of openForWrites and lockedPicks make it so.                      *)
(***************************************************************************)
EXTENDS Integers, FiniteSets

CONSTANTS
  Wallets,      \* the players
  Slots,        \* the battles of a round (five in the code)
  Rounds,       \* the round indices, an interval 0..n
  Keys,         \* client request ids
  InitialUses,  \* [Wallets -> Nat]: charges of the card a wallet is granted
  PickPhase,    \* length of the Pick Phase
  RoundLength,  \* length of a round: Pick Phase and battle
  MaxTime,      \* bound on the clock
  MaxCalls,     \* bound on the API calls in flight at once
  None          \* the absence of a row or of a column's value

Sides == {"LEFT", "RIGHT"}
CardDecisions == {"USE", "SAVE"}

Decision == [slot: Slots, side: Sides, card: CardDecisions]
PickRow ==
  [slot: Slots, side: Sides, card: CardDecisions, key: Keys,
   locked: Decision \cup {None}]

ASSUME PickAssumption ==
  /\ IsFiniteSet(Wallets)
  /\ IsFiniteSet(Slots)
  /\ Rounds \subseteq Nat
  /\ IsFiniteSet(Rounds)
  /\ InitialUses \in [Wallets -> Nat]
  /\ PickPhase \in Nat \ {0}
  /\ RoundLength \in Nat
  /\ PickPhase < RoundLength
  /\ MaxTime \in Nat
  /\ MaxCalls \in Nat
  /\ None \notin Decision
  /\ None \notin PickRow

VARIABLES
  now,        \* the server clock every instance reads
  openAt,     \* rounds.pick_open_at; NoRow before the round's row exists
  frozen,     \* rounds whose picks_locked_at is set
  picks,      \* player_picks, one row per wallet and round
  requests,   \* pick_requests: the request keys already applied
  remaining,  \* cards.remaining_uses; NoCard before the wallet holds one
  ledger,     \* card_usage_ledger
  calls       \* API calls past their check and before their transaction

pickVars == <<now, openAt, frozen, picks, requests, remaining, ledger, calls>>

NoRow == -1
NoCard == -1

Request == [wallet: Wallets, round: Rounds, key: Keys]
LedgerRow ==
  [wallet: Wallets, round: Rounds, slot: Slots, event: {"DEPLOY", "VOID_REFUND"}]
Call ==
  [kind: {"PICK"}, wallet: Wallets, round: Rounds, slot: Slots, side: Sides,
   card: CardDecisions, key: Keys]
  \cup [kind: {"WITHDRAW"}, wallet: Wallets, round: Rounds]
  \cup [kind: {"CARD"}, wallet: Wallets, round: Rounds, card: CardDecisions]

PickTypeOK ==
  /\ now \in 0..MaxTime
  /\ openAt \in [Rounds -> Nat \cup {NoRow}]
  /\ frozen \subseteq Rounds
  /\ picks \in [Wallets -> [Rounds -> PickRow \cup {None}]]
  /\ requests \subseteq Request
  /\ remaining \in [Wallets -> Nat \cup {NoCard}]
  /\ ledger \subseteq LedgerRow
  /\ calls \subseteq Call

PickInit ==
  /\ now = 0
  /\ openAt = [r \in Rounds |-> NoRow]
  /\ frozen = {}
  /\ picks = [w \in Wallets |-> [r \in Rounds |-> None]]
  /\ requests = {}
  /\ remaining = [w \in Wallets |-> NoCard]
  /\ ledger = {}
  /\ calls = {}

-----------------------------------------------------------------------------
(***************************************************************************)
(* The canonical clock of a round, all of it derived from its opening.     *)
(***************************************************************************)
LockAt(r) == openAt[r] + PickPhase
BattleEndAt(r) == openAt[r] + RoundLength

\* The API's phase check: nextRoundAction answers ACCEPT_PICKS.  The clock
\* decides, so an instance whose view of the round is stale answers the same.
AcceptsPicks(r) == openAt[r] # NoRow /\ openAt[r] <= now /\ now < LockAt(r)

\* Mutant: writes are accepted as long as the round's row exists.
OpenWheneverStored(r) == openAt[r] # NoRow

\* openForWrites: the row exists and its picks are not frozen.
OpenForWrites(r) == openAt[r] # NoRow /\ r \notin frozen

CanDeploy(w) == remaining[w] > 0

HasPick(w, r) == picks[w][r] # None

Deploys(w) == {e \in ledger : e.wallet = w /\ e.event = "DEPLOY"}
Refunds(w) == {e \in ledger : e.wallet = w /\ e.event = "VOID_REFUND"}

-----------------------------------------------------------------------------
(***************************************************************************)
(* The clock, and a card arriving from Genesis (GenesisFlow).              *)
(***************************************************************************)
Tick ==
  /\ now < MaxTime
  /\ now' = now + 1
  /\ UNCHANGED <<openAt, frozen, picks, requests, remaining, ledger, calls>>

\* A wallet's one Genesis card is recorded with all its charges.
GrantCard(w) ==
  /\ remaining[w] = NoCard
  /\ remaining' = [remaining EXCEPT ![w] = InitialUses[w]]
  /\ UNCHANGED <<now, openAt, frozen, picks, requests, ledger, calls>>

-----------------------------------------------------------------------------
(***************************************************************************)
(* The API's three handlers, up to the await of the store.                 *)
(***************************************************************************)
PutPick(c) ==
  /\ c.kind = "PICK"
  /\ AcceptsPicks(c.round)
  /\ c.card = "USE" => CanDeploy(c.wallet)
  \* a retry of the request that stands is answered without the store
  /\ ~(HasPick(c.wallet, c.round) /\ picks[c.wallet][c.round].key = c.key)

DeletePick(c) ==
  /\ c.kind = "WITHDRAW"
  /\ AcceptsPicks(c.round)

PutCardDecision(c) ==
  /\ c.kind = "CARD"
  /\ AcceptsPicks(c.round)
  /\ c.card = "USE" => CanDeploy(c.wallet)

Receive(c) ==
  /\ Cardinality(calls) < MaxCalls
  /\ PutPick(c) \/ DeletePick(c) \/ PutCardDecision(c)
  /\ calls' = calls \cup {c}
  /\ UNCHANGED <<now, openAt, frozen, picks, requests, remaining, ledger>>

-----------------------------------------------------------------------------
(***************************************************************************)
(* The store transactions of those handlers.                               *)
(***************************************************************************)

\* PicksLockedError: the write lost the race with the freeze.
Refused(c) ==
  /\ c \in calls
  /\ ~OpenForWrites(c.round)
  /\ calls' = calls \ {c}
  /\ UNCHANGED <<now, openAt, frozen, picks, requests, remaining, ledger>>

RequestOf(c) == [wallet |-> c.wallet, round |-> c.round, key |-> c.key]

RowOf(c) ==
  [slot |-> c.slot, side |-> c.side, card |-> c.card, key |-> c.key,
   locked |-> None]

\* The call is answered; an identical one, which a client that retries sends,
\* may be in flight beside it.
Answered(c) == calls' \in {calls, calls \ {c}}

\* submit: a key already applied answers what it stored and writes nothing.
Submit(c) ==
  /\ c \in calls /\ c.kind = "PICK"
  /\ OpenForWrites(c.round)
  /\ IF RequestOf(c) \in requests
     THEN UNCHANGED <<picks, requests>>
     ELSE /\ picks' = [picks EXCEPT ![c.wallet][c.round] = RowOf(c)]
          /\ requests' = requests \cup {RequestOf(c)}
  /\ Answered(c)
  /\ UNCHANGED <<now, openAt, frozen, remaining, ledger>>

\* Mutant: every key the wallet has used in the round goes with the pick.
WithdrawAllKeys(c) ==
  /\ c \in calls /\ c.kind = "WITHDRAW"
  /\ OpenForWrites(c.round)
  /\ picks' = [picks EXCEPT ![c.wallet][c.round] = None]
  /\ requests' =
       requests \ {q \in requests :
                     /\ q.wallet = c.wallet /\ q.round = c.round
                     /\ HasPick(c.wallet, c.round)}
  /\ Answered(c)
  /\ UNCHANGED <<now, openAt, frozen, remaining, ledger>>

\* withdraw: the row goes, and the key of the request that wrote it.
Withdraw(c) ==
  /\ c \in calls /\ c.kind = "WITHDRAW"
  /\ OpenForWrites(c.round)
  /\ picks' = [picks EXCEPT ![c.wallet][c.round] = None]
  /\ requests' =
       requests \ {q \in requests :
                     /\ q.wallet = c.wallet /\ q.round = c.round
                     /\ HasPick(c.wallet, c.round)
                     /\ q.key = picks[c.wallet][c.round].key}
  /\ Answered(c)
  /\ UNCHANGED <<now, openAt, frozen, remaining, ledger>>

\* decideCard: only the card decision of an existing pick.
DecideCard(c) ==
  /\ c \in calls /\ c.kind = "CARD"
  /\ OpenForWrites(c.round)
  /\ picks' = IF HasPick(c.wallet, c.round)
              THEN [picks EXCEPT ![c.wallet][c.round].card = c.card]
              ELSE picks
  /\ Answered(c)
  /\ UNCHANGED <<now, openAt, frozen, requests, remaining, ledger>>

-----------------------------------------------------------------------------
(***************************************************************************)
(* lockedPicks: one transaction that freezes the round's picks, deploys    *)
(* the armed cards and returns the frozen set.  A driver restarted at lock *)
(* runs it again.                                                          *)
(***************************************************************************)
Deployed(w, r) ==
  \E e \in ledger : e.wallet = w /\ e.round = r /\ e.event = "DEPLOY"

\* The decision a pick is frozen with.  An armed card that has not been
\* deployed and cannot be is locked as saved.
Decided(w, r) ==
  LET p == picks[w][r]
  IN  IF p.locked = None
      THEN [slot |-> p.slot, side |-> p.side, card |-> p.card]
      ELSE p.locked

LockedDecision(w, r) ==
  LET d == Decided(w, r)
      spends == Deployed(w, r) \/ CanDeploy(w)
  IN  [slot |-> d.slot, side |-> d.side,
       card |-> IF spends THEN d.card ELSE "SAVE"]

\* Mutant: one deployment per wallet ever, instead of one per round.
DeployingOncePerWallet(r) ==
  {w \in Wallets :
     /\ HasPick(w, r)
     /\ LockedDecision(w, r).card = "USE"
     /\ remaining[w] # NoCard
     /\ Deploys(w) = {}}

\* The wallets whose card the ledger records as deployed only now; ON CONFLICT
\* DO NOTHING leaves out the ones it has recorded already.
DeployingNow(r) ==
  {w \in Wallets :
     /\ HasPick(w, r)
     /\ LockedDecision(w, r).card = "USE"
     /\ remaining[w] # NoCard
     /\ ~Deployed(w, r)}

DeployRow(w, r) ==
  [wallet |-> w, round |-> r, slot |-> LockedDecision(w, r).slot,
   event |-> "DEPLOY"]

LockedPicks(r) ==
  /\ frozen' = frozen \cup {r}
  /\ picks' =
       [w \in Wallets |->
          [picks[w] EXCEPT ![r] =
             IF HasPick(w, r) THEN [@ EXCEPT !.locked = LockedDecision(w, r)]
                              ELSE @]]
  /\ ledger' = ledger \cup {DeployRow(w, r) : w \in DeployingNow(r)}
  /\ remaining' =
       [w \in Wallets |->
          IF w \in DeployingNow(r) THEN remaining[w] - 1 ELSE remaining[w]]
  /\ UNCHANGED <<now, openAt, requests, calls>>

\* readFrozenPicks: the frozen decision, with a card exactly when the ledger
\* holds a deployment for it.
FrozenPicks(r) ==
  {[wallet |-> w, slot |-> picks[w][r].locked.slot,
    side |-> picks[w][r].locked.side, deployed |-> Deployed(w, r)] :
     w \in {v \in Wallets : HasPick(v, r) /\ picks[v][r].locked # None}}

-----------------------------------------------------------------------------
(***************************************************************************)
(* refundVoidedCards: each deployment in a voided battle gives its charge  *)
(* back once, inside the finalization transaction.                         *)
(***************************************************************************)
RefundRow(e) ==
  [wallet |-> e.wallet, round |-> e.round, slot |-> e.slot,
   event |-> "VOID_REFUND"]

\* Mutant: a refund already made is made again.
RefundingAgain(r, voided) ==
  {e \in ledger : e.event = "DEPLOY" /\ e.round = r /\ e.slot \in voided}

RefundingNow(r, voided) ==
  {e \in ledger :
     /\ e.event = "DEPLOY" /\ e.round = r /\ e.slot \in voided
     /\ RefundRow(e) \notin ledger}

RefundVoidedCards(r, voided) ==
  /\ ledger' = ledger \cup {RefundRow(e) : e \in RefundingNow(r, voided)}
  /\ remaining' =
       [w \in Wallets |->
          remaining[w] + Cardinality({e \in RefundingNow(r, voided) : e.wallet = w})]
  /\ UNCHANGED <<now, openAt, frozen, picks, requests, calls>>

-----------------------------------------------------------------------------
(***************************************************************************)
(* The store on its own: rounds open one after another, a driver freezes   *)
(* them (again, after a restart) and settles their voided battles (again,  *)
(* when a finalization is retried).                                        *)
(***************************************************************************)
OpenRound(r) ==
  /\ openAt[r] = NoRow
  /\ \A q \in Rounds : q < r => q \in frozen /\ now >= BattleEndAt(q)
  /\ openAt' = [openAt EXCEPT ![r] = now]
  /\ UNCHANGED <<now, frozen, picks, requests, remaining, ledger, calls>>

PickCalls ==
  \/ \E c \in Call : Receive(c)
  \/ \E c \in calls : Refused(c) \/ Submit(c) \/ Withdraw(c) \/ DecideCard(c)

PickNext ==
  \/ Tick
  \/ \E w \in Wallets : GrantCard(w)
  \/ PickCalls
  \/ \E r \in Rounds : OpenRound(r)
  \/ \E r \in Rounds :
       openAt[r] # NoRow /\ now >= LockAt(r) /\ LockedPicks(r)
  \/ \E r \in frozen, voided \in SUBSET Slots :
       now >= BattleEndAt(r) /\ RefundVoidedCards(r, voided)

PickSpec == PickInit /\ [][PickNext]_pickVars

-----------------------------------------------------------------------------
(***************************************************************************)
(* Properties.                                                             *)
(***************************************************************************)

\* A card's charges are what it was granted with, less one for every
\* deployment in the usage ledger, plus one for every refund: however often a
\* lock or a finalization is run again, deployCards and refundVoidedCards
\* neither spend nor give back a charge twice.
ChargesConserved ==
  \A w \in Wallets :
    IF remaining[w] = NoCard
    THEN Deploys(w) = {} /\ Refunds(w) = {}
    ELSE remaining[w] = InitialUses[w] - Cardinality(Deploys(w))
                                      + Cardinality(Refunds(w))

\* The ledger and the frozen picks tell one story.  Every refund gives back a
\* charge that battle really took, and every deployment is behind the battle its
\* wallet's frozen pick names, with a card armed; and a pick frozen with an armed
\* card has its deployment, since deployCards locks as saved every card it
\* cannot charge.  So the engine's card support and card assist have a spent
\* charge behind them and no charge is spent for nothing.
LedgerMatchesPicks ==
  /\ \A e \in ledger :
       /\ [e EXCEPT !.event = "DEPLOY"] \in ledger
       /\ e.round \in frozen
       /\ HasPick(e.wallet, e.round)
       /\ picks[e.wallet][e.round].locked # None
       /\ picks[e.wallet][e.round].locked.slot = e.slot
       /\ picks[e.wallet][e.round].locked.card = "USE"
  /\ \A w \in Wallets, r \in frozen :
       /\ HasPick(w, r)
       /\ picks[w][r].locked # None
       /\ picks[w][r].locked.card = "USE"
       => Deployed(w, r)

\* What the engine is given for a round never changes once the round is
\* frozen, whatever API calls were past their check when it froze and however
\* often the lock is run again.
FrozenPicksFinal ==
  [][\A r \in frozen : FrozenPicks(r)' = FrozenPicks(r)]_pickVars

\* The requests whose decision another one replaced: their keys are kept, and
\* none of them is the standing pick's.
Replaced(w, r) ==
  {q \in requests :
     /\ q.wallet = w /\ q.round = r
     /\ ~(HasPick(w, r) /\ picks[w][r].key = q.key)}

\* A decision that a later one replaced is replaced for good: through card
\* decisions, locks, further picks, late retries and withdrawals its key is
\* neither released nor that of the standing pick again.  So when the decision
\* that replaced it is withdrawn the older one does not come back, however late
\* its retry arrives; and the pick that stands is one the store knows by its key.
ReplacedStaysReplaced ==
  [][\A w \in Wallets, r \in Rounds :
       /\ Replaced(w, r) \subseteq Replaced(w, r)'
       /\ HasPick(w, r)' =>
            [wallet |-> w, round |-> r, key |-> picks'[w][r].key] \in requests'
    ]_pickVars

\* What the head of pick-store.ts says of the keys, and what withdraw refutes:
\* it releases the key of the pick it removes, so a late retry of a request that
\* has been withdrawn stores its pick again.  Checked by no run.
UsedKeysAreKept == [][requests \subseteq requests']_pickVars

=============================================================================
