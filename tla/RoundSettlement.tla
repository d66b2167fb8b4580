-------------------------- MODULE RoundSettlement --------------------------
(***************************************************************************)
(* What the round service promises: rounds are played one after another,   *)
(* each is locked once with one decision per wallet, and settled once, all *)
(* at the same instant: a winner or a void for every battle and the awards *)
(* that follow from the locked decisions.  No crash, restart, lease or     *)
(* checkpoint exists at this level; RoundService is shown to implement it. *)
(***************************************************************************)
CONSTANTS
  Wallets, Slots, Rounds, Labels, None

RoundSides == {"LEFT", "RIGHT"}
Backing == [wallet: Wallets, slot: Slots, side: RoundSides, deployed: BOOLEAN]

VARIABLES
  phase,    \* each round's phase
  intel,    \* what a win of each side is called, fixed when the round opens
  backed,   \* the decisions a round is locked with
  outcome,  \* the winner of each battle, or VOID
  awards    \* every award made

settlementVars == <<phase, intel, backed, outcome, awards>>

SettlementInit ==
  /\ phase = [r \in Rounds |-> "NONE"]
  /\ intel = [r \in Rounds |-> None]
  /\ backed = [r \in Rounds |-> {}]
  /\ outcome = [r \in Rounds |-> [s \in Slots |-> "PENDING"]]
  /\ awards = {}

OneEach(locked) == \A p, q \in locked : p.wallet = q.wallet => p = q

\* Everything a settled round owes its winners.
Owed(r, called, locked, winner) ==
  {[wallet |-> p.wallet, round |-> r, slot |-> p.slot,
    reason |-> called[p.slot][p.side]] :
     p \in {q \in locked : winner[q.slot] = q.side}}
  \cup {[wallet |-> p.wallet, round |-> r, slot |-> p.slot,
         reason |-> "CARD_ASSIST"] :
          p \in {q \in locked : winner[q.slot] = q.side /\ q.deployed}}

Open(r) ==
  /\ phase[r] = "NONE"
  /\ \A q \in Rounds : phase[q] \in {"NONE", "SETTLED"}
  /\ phase' = [phase EXCEPT ![r] = "OPEN"]
  /\ \E called \in [Slots -> [RoundSides -> Labels]] :
       intel' = [intel EXCEPT ![r] = called]
  /\ UNCHANGED <<backed, outcome, awards>>

Lock(r) ==
  /\ phase[r] = "OPEN"
  /\ phase' = [phase EXCEPT ![r] = "LIVE"]
  /\ \E locked \in SUBSET Backing :
       OneEach(locked) /\ backed' = [backed EXCEPT ![r] = locked]
  /\ UNCHANGED <<intel, outcome, awards>>

Settle(r) ==
  /\ phase[r] = "LIVE"
  /\ phase' = [phase EXCEPT ![r] = "SETTLED"]
  /\ \E winner \in [Slots -> RoundSides \cup {"VOID"}] :
       /\ outcome' = [outcome EXCEPT ![r] = winner]
       /\ awards' = awards \cup Owed(r, intel[r], backed[r], winner)
  /\ UNCHANGED <<intel, backed>>

SettlementNext == \E r \in Rounds : Open(r) \/ Lock(r) \/ Settle(r)

SettlementSpec == SettlementInit /\ [][SettlementNext]_settlementVars

=============================================================================
