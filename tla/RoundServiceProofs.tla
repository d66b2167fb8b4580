------------------------- MODULE RoundServiceProofs -------------------------
(***************************************************************************)
(* Theorems about PickStore, for any finite set of wallets and any number  *)
(* of rounds, battles, request keys and charges; and then about            *)
(* RoundService, for any finite number of rounds, battles, wallets and     *)
(* server instances, when no lease expires under a step that is still      *)
(* running (StepsOutliveLease = FALSE).  Without that hypothesis they are  *)
(* false, as the runs show: two drivers write the same round.              *)
(*                                                                         *)
(* One driver runs at a time, and RoundInv says where it stands: what it   *)
(* holds in memory is what the store would restore, or that plus the step  *)
(* it has taken and not yet saved.  So nothing is lost when it crashes,    *)
(* and under the mapping of RoundService every step is a step of           *)
(* RoundSettlement or none.                                                *)
(***************************************************************************)
EXTENDS RoundService, FiniteSetTheorems, SequenceTheorems, TLAPS

-----------------------------------------------------------------------------
(***************************************************************************)
(* What a lock and a refund write, in types.                               *)
(***************************************************************************)

\* The decision a pick is frozen with is a decision.
LEMMA LockedDecisionType ==
  ASSUME PickTypeOK, NEW w \in Wallets, NEW r \in Rounds, HasPick(w, r)
  PROVE  LockedDecision(w, r) \in Decision
<1>1. picks[w][r] \in PickRow
  BY DEF PickTypeOK, HasPick
<1>2. Decided(w, r) \in Decision
  BY <1>1 DEF PickRow, Decision, Decided
<1>3. QED
  BY <1>2 DEF LockedDecision, Decision, CardDecisions

\* A wallet whose card is deployed now has a charge to spend.
LEMMA DeployingHasCharge ==
  ASSUME PickTypeOK, NEW r \in Rounds, NEW w \in DeployingNow(r)
  PROVE  /\ w \in Wallets
         /\ remaining[w] \in Nat
         /\ remaining[w] > 0
         /\ ~Deployed(w, r)
         /\ HasPick(w, r)
         /\ LockedDecision(w, r).card = "USE"
<1>1. /\ w \in Wallets /\ ~Deployed(w, r) /\ HasPick(w, r)
      /\ LockedDecision(w, r).card = "USE" /\ remaining[w] # NoCard
  BY DEF DeployingNow
<1>2. CanDeploy(w)
  BY <1>1 DEF LockedDecision
<1>3. QED
  BY <1>1, <1>2 DEF PickTypeOK, CanDeploy, NoCard

\* The image of a finite set under a function is finite, and as large as the
\* set when the function is injective.
LEMMA FiniteImage ==
  ASSUME NEW S, IsFiniteSet(S), NEW f, f = [x \in S |-> f[x]]
  PROVE  /\ IsFiniteSet({f[x] : x \in S})
         /\ (\A x, y \in S : f[x] = f[y] => x = y)
              => Cardinality({f[x] : x \in S}) = Cardinality(S)
<1> DEFINE T == {f[x] : x \in S}
<1>1. f \in Surjection(S, T)
  BY DEF Surjection
<1>2. (\A x, y \in S : f[x] = f[y] => x = y) => f \in Injection(S, T)
  BY DEF Injection, IsInjective
<1>3. QED
  BY <1>1, <1>2, FS_Surjection

\* The rows a lock and a refund add to the ledger are ledger rows, finitely many.
LEMMA NewRowsType ==
  ASSUME PickTypeOK, IsFiniteSet(ledger), NEW r \in Rounds,
         NEW voided \in SUBSET Slots
  PROVE  /\ {DeployRow(w, r) : w \in DeployingNow(r)} \subseteq LedgerRow
         /\ IsFiniteSet({DeployRow(w, r) : w \in DeployingNow(r)})
         /\ {RefundRow(e) : e \in RefundingNow(r, voided)} \subseteq LedgerRow
         /\ IsFiniteSet({RefundRow(e) : e \in RefundingNow(r, voided)})
         /\ IsFiniteSet(RefundingNow(r, voided))
<1>1. \A w \in DeployingNow(r) : DeployRow(w, r) \in LedgerRow
  BY LockedDecisionType, DeployingHasCharge DEF DeployRow, LedgerRow, Decision
<1>2. IsFiniteSet(DeployingNow(r))
  BY PickAssumption, FS_Subset DEF DeployingNow
<1>3. IsFiniteSet({DeployRow(w, r) : w \in DeployingNow(r)})
  <2> DEFINE f == [w \in DeployingNow(r) |-> DeployRow(w, r)]
  <2>1. IsFiniteSet({f[w] : w \in DeployingNow(r)})
    BY <1>2, FiniteImage
  <2>2. QED
    BY <2>1
<1>4. RefundingNow(r, voided) \subseteq ledger
  BY DEF RefundingNow
<1>5. IsFiniteSet(RefundingNow(r, voided))
  BY <1>4, FS_Subset
<1>6. \A e \in ledger : RefundRow(e) \in LedgerRow
  BY DEF RefundRow, LedgerRow, PickTypeOK
<1>7. IsFiniteSet({RefundRow(e) : e \in RefundingNow(r, voided)})
  <2> DEFINE f == [e \in RefundingNow(r, voided) |-> RefundRow(e)]
  <2>1. IsFiniteSet({f[e] : e \in RefundingNow(r, voided)})
    BY <1>5, FiniteImage
  <2>2. QED
    BY <2>1
<1>8. QED
  BY <1>1, <1>3, <1>4, <1>5, <1>6, <1>7

-----------------------------------------------------------------------------
(***************************************************************************)
(* Type correctness.  The ledger is finite, which the counting of charges  *)
(* below needs.                                                            *)
(***************************************************************************)
TypeInv == PickTypeOK /\ IsFiniteSet(ledger)

\* Writing one row of player_picks keeps its type.
LEMMA PickWriteType ==
  ASSUME PickTypeOK, NEW w \in Wallets, NEW r \in Rounds, NEW row \in PickRow
  PROVE  [picks EXCEPT ![w][r] = row] \in [Wallets -> [Rounds -> PickRow \cup {None}]]
BY DEF PickTypeOK

LEMMA TypeStep == TypeInv /\ [PickNext]_pickVars => TypeInv'
<1> SUFFICES ASSUME TypeInv, [PickNext]_pickVars
             PROVE  TypeInv'
  OBVIOUS
<1> USE PickAssumption DEF TypeInv
<1>1. CASE Tick
  BY <1>1 DEF Tick, PickTypeOK
<1>2. ASSUME NEW w \in Wallets, GrantCard(w)
      PROVE  TypeInv'
  BY <1>2 DEF GrantCard, PickTypeOK
<1>3. ASSUME NEW c \in Call, Receive(c)
      PROVE  TypeInv'
  BY <1>3 DEF Receive, PickTypeOK
<1>4. ASSUME NEW c \in calls, Refused(c)
      PROVE  TypeInv'
  BY <1>4 DEF Refused, PickTypeOK
<1>5. ASSUME NEW c \in calls, Submit(c)
      PROVE  TypeInv'
  <2>1. c \in [kind: {"PICK"}, wallet: Wallets, round: Rounds, slot: Slots,
               side: Sides, card: CardDecisions, key: Keys]
    BY <1>5 DEF Submit, PickTypeOK, Call
  <2>2. RowOf(c) \in PickRow
    BY <2>1 DEF RowOf, PickRow, PickTypeOK
  <2>3. RequestOf(c) \in Request
    BY <2>1 DEF RequestOf, Request
  <2>4. c.wallet \in Wallets /\ c.round \in Rounds
    BY <2>1
  <2>5. picks' \in [Wallets -> [Rounds -> PickRow \cup {None}]]
    <3>1. CASE RequestOf(c) \in requests
      BY <1>5, <3>1 DEF Submit, PickTypeOK
    <3>2. CASE RequestOf(c) \notin requests
      <4>1. picks' = [picks EXCEPT ![c.wallet][c.round] = RowOf(c)]
        BY <1>5, <3>2 DEF Submit
      <4>2. QED
        BY <2>2, <2>4, <4>1, PickWriteType
    <3>3. QED
      BY <3>1, <3>2
  <2>6. QED
    BY <1>5, <2>3, <2>5 DEF Submit, Answered, PickTypeOK
<1>6. ASSUME NEW c \in calls, Withdraw(c)
      PROVE  TypeInv'
  <2>1. c.wallet \in Wallets /\ c.round \in Rounds
    BY DEF PickTypeOK, Call
  <2>2. QED
    BY <1>6, <2>1 DEF Withdraw, Answered, PickTypeOK
<1>7. ASSUME NEW c \in calls, DecideCard(c)
      PROVE  TypeInv'
  <2>1. c \in [kind: {"CARD"}, wallet: Wallets, round: Rounds,
               card: CardDecisions]
    BY <1>7 DEF DecideCard, PickTypeOK, Call
  <2>2. c.wallet \in Wallets /\ c.round \in Rounds
    BY <2>1
  <2>3. ASSUME HasPick(c.wallet, c.round)
        PROVE  [picks[c.wallet][c.round] EXCEPT !.card = c.card] \in PickRow
    <3>1. picks[c.wallet][c.round] \in PickRow
      <4>1. \A w \in Wallets, r \in Rounds :
              picks[w][r] # None => picks[w][r] \in PickRow
        BY DEF PickTypeOK
      <4>2. QED
        BY <2>2, <2>3, <4>1, Zenon DEF HasPick
    <3>2. QED
      BY <2>1, <3>1 DEF PickRow
  <2>4. picks' \in [Wallets -> [Rounds -> PickRow \cup {None}]]
    <3>1. picks' = IF HasPick(c.wallet, c.round)
                   THEN [picks EXCEPT ![c.wallet][c.round] =
                           [picks[c.wallet][c.round] EXCEPT !.card = c.card]]
                   ELSE picks
      BY <1>7, <2>2 DEF DecideCard, PickTypeOK
    <3>2. CASE HasPick(c.wallet, c.round)
      BY <2>2, <2>3, <3>1, <3>2, PickWriteType
    <3>3. CASE ~HasPick(c.wallet, c.round)
      BY <3>1, <3>3 DEF PickTypeOK
    <3>4. QED
      BY <3>2, <3>3
  <2>5. QED
    BY <1>7, <2>4 DEF DecideCard, Answered, PickTypeOK
<1>8. ASSUME NEW r \in Rounds, OpenRound(r)
      PROVE  TypeInv'
  BY <1>8 DEF OpenRound, PickTypeOK
<1>9. ASSUME NEW r \in Rounds, LockedPicks(r)
      PROVE  TypeInv'
  <2>1. ledger' \subseteq LedgerRow /\ IsFiniteSet(ledger')
    BY <1>9, NewRowsType, FS_Union DEF LockedPicks, PickTypeOK
  <2>2. remaining' \in [Wallets -> Nat \cup {NoCard}]
    BY <1>9, DeployingHasCharge DEF LockedPicks, PickTypeOK
  <2>3. picks' \in [Wallets -> [Rounds -> PickRow \cup {None}]]
    <3>1. ASSUME NEW w \in Wallets, HasPick(w, r)
          PROVE  [picks[w][r] EXCEPT !.locked = LockedDecision(w, r)] \in PickRow
      BY <3>1, LockedDecisionType DEF PickTypeOK, HasPick, PickRow
    <3>2. QED
      BY <1>9, <3>1 DEF LockedPicks, PickTypeOK
  <2>4. QED
    BY <1>9, <2>1, <2>2, <2>3 DEF LockedPicks, PickTypeOK
<1>10. ASSUME NEW r \in frozen, NEW voided \in SUBSET Slots,
              RefundVoidedCards(r, voided)
       PROVE  TypeInv'
  <2>1. r \in Rounds
    BY DEF PickTypeOK
  <2>2. ledger' \subseteq LedgerRow /\ IsFiniteSet(ledger')
    BY <1>10, <2>1, NewRowsType, FS_Union DEF RefundVoidedCards, PickTypeOK
  <2>3. \A w \in Wallets :
          Cardinality({e \in RefundingNow(r, voided) : e.wallet = w}) \in Nat
    BY <2>1, NewRowsType, FS_Subset, FS_CardinalityType
  <2>4. remaining' \in [Wallets -> Nat \cup {NoCard}]
    <3> DEFINE Back(w) ==
          Cardinality({e \in RefundingNow(r, voided) : e.wallet = w})
    <3>1. remaining' = [w \in Wallets |-> remaining[w] + Back(w)]
      BY <1>10 DEF RefundVoidedCards
    <3>2. \A w \in Wallets : remaining[w] \in Nat \cup {-1}
      BY DEF PickTypeOK, NoCard
    <3>3. \A w \in Wallets : Back(w) \in Nat
      BY <2>3
    <3> HIDE DEF Back
    <3>4. \A w \in Wallets : remaining[w] + Back(w) \in Nat \cup {-1}
      BY <3>2, <3>3
    <3>5. QED
      BY <3>1, <3>4 DEF NoCard
  <2>5. QED
    BY <1>10, <2>2, <2>4 DEF RefundVoidedCards, PickTypeOK
<1>11. CASE UNCHANGED pickVars
  BY <1>11 DEF pickVars, PickTypeOK
<1>12. QED
  BY <1>1, <1>2, <1>3, <1>4, <1>5, <1>6, <1>7, <1>8, <1>9, <1>10, <1>11
     DEF PickNext, PickCalls

\* Every column of the pick tables keeps its type through every API call, lock
\* and refund; in particular no card ever has fewer than zero charges.
THEOREM TypeCorrect == PickSpec => []PickTypeOK
<1>1. PickInit => TypeInv
  BY PickAssumption, FS_EmptySet DEF PickInit, TypeInv, PickTypeOK
<1>2. QED
  BY <1>1, TypeStep, PTL DEF PickSpec, TypeInv

-----------------------------------------------------------------------------
(***************************************************************************)
(* Charges are conserved.  The inductive invariant is ChargesConserved     *)
(* itself on top of the types: a lock adds a deployment to a wallet's      *)
(* ledger exactly when it takes a charge, and a refund adds as many        *)
(* refunds as it gives charges back.                                       *)
(***************************************************************************)

\* A wallet's deployments and refunds are finitely many.
LEMMA LedgerCounts ==
  ASSUME TypeInv, NEW w \in Wallets
  PROVE  /\ IsFiniteSet(Deploys(w)) /\ Cardinality(Deploys(w)) \in Nat
         /\ IsFiniteSet(Refunds(w)) /\ Cardinality(Refunds(w)) \in Nat
BY FS_Subset, FS_CardinalityType DEF TypeInv, Deploys, Refunds

\* A lock adds one deployment for each wallet it charges and none for others.
LEMMA LockCounts ==
  ASSUME TypeInv, NEW r \in Rounds, LockedPicks(r), NEW w \in Wallets
  PROVE  /\ Refunds(w)' = Refunds(w)
         /\ w \notin DeployingNow(r) => Deploys(w)' = Deploys(w)
         /\ w \in DeployingNow(r) =>
              Cardinality(Deploys(w)') = Cardinality(Deploys(w)) + 1
<1>1. ledger' = ledger \cup {DeployRow(v, r) : v \in DeployingNow(r)}
  BY DEF LockedPicks
<1>2. \A v \in DeployingNow(r) :
        /\ DeployRow(v, r).wallet = v /\ DeployRow(v, r).round = r
        /\ DeployRow(v, r).event = "DEPLOY"
  BY DEF DeployRow
<1>3. Refunds(w)' = Refunds(w)
  BY <1>1, <1>2 DEF Refunds
<1>4. w \notin DeployingNow(r) => Deploys(w)' = Deploys(w)
  BY <1>1, <1>2 DEF Deploys
<1>5. ASSUME w \in DeployingNow(r)
      PROVE  Cardinality(Deploys(w)') = Cardinality(Deploys(w)) + 1
  <2>1. Deploys(w)' = Deploys(w) \cup {DeployRow(w, r)}
    BY <1>1, <1>2, <1>5 DEF Deploys
  <2>2. DeployRow(w, r) \notin Deploys(w)
    BY <1>2, <1>5, DeployingHasCharge DEF TypeInv, Deploys, Deployed
  <2>3. QED
    BY <2>1, <2>2, LedgerCounts, FS_AddElement
<1>6. QED
  BY <1>3, <1>4, <1>5

\* A refund adds as many refunds to a wallet's ledger as it gives charges back.
LEMMA RefundCounts ==
  ASSUME TypeInv, NEW r \in Rounds, NEW voided \in SUBSET Slots,
         RefundVoidedCards(r, voided), NEW w \in Wallets
  PROVE  /\ Deploys(w)' = Deploys(w)
         /\ Cardinality(Refunds(w)') =
              Cardinality(Refunds(w))
                + Cardinality({e \in RefundingNow(r, voided) : e.wallet = w})
         /\ Deploys(w) = {} => Refunds(w)' = Refunds(w)
<1> DEFINE S == {e \in RefundingNow(r, voided) : e.wallet = w}
           f == [e \in S |-> RefundRow(e)]
           T == {f[e] : e \in S}
<1>1. ledger' = ledger \cup {RefundRow(e) : e \in RefundingNow(r, voided)}
  BY DEF RefundVoidedCards
<1>2. \A e \in RefundingNow(r, voided) :
        /\ e \in LedgerRow /\ e \in ledger /\ e.event = "DEPLOY"
        /\ RefundRow(e).wallet = e.wallet
        /\ RefundRow(e).event = "VOID_REFUND"
        /\ RefundRow(e) \notin ledger
  BY DEF RefundingNow, RefundRow, TypeInv, PickTypeOK, LedgerRow
<1>3. Deploys(w)' = Deploys(w)
  BY <1>1, <1>2 DEF Deploys
<1>4. Refunds(w)' = Refunds(w) \cup T
  BY <1>1, <1>2 DEF Refunds
<1>5. Refunds(w) \cap T = {}
  BY <1>2 DEF Refunds
<1>6. IsFiniteSet(S)
  BY NewRowsType, FS_Subset DEF TypeInv
<1>7. \A x, y \in S : f[x] = f[y] => x = y
  <2> SUFFICES ASSUME NEW x \in S, NEW y \in S, RefundRow(x) = RefundRow(y)
               PROVE  x = y
    OBVIOUS
  <2>1. /\ x \in LedgerRow /\ y \in LedgerRow
        /\ x.event = "DEPLOY" /\ y.event = "DEPLOY"
    BY <1>2
  <2>2. x.wallet = y.wallet /\ x.round = y.round /\ x.slot = y.slot
    BY <2>1 DEF RefundRow, LedgerRow
  <2>3. QED
    BY <2>1, <2>2 DEF LedgerRow
<1>8. IsFiniteSet(T) /\ Cardinality(T) = Cardinality(S)
  <2>1. f = [e \in S |-> f[e]]
    OBVIOUS
  <2> HIDE DEF f, S
  <2>2. QED
    BY <1>6, <1>7, <2>1, FiniteImage
<1>9. Cardinality(Refunds(w)') = Cardinality(Refunds(w)) + Cardinality(S)
  <2>1. Cardinality(Refunds(w) \cup T) =
          Cardinality(Refunds(w)) + Cardinality(T) - Cardinality(Refunds(w) \cap T)
    BY <1>8, LedgerCounts, FS_Union
  <2>2. Cardinality(Refunds(w) \cap T) = 0
    BY <1>5, FS_EmptySet
  <2>3. Cardinality(S) \in Nat
    BY <1>6, FS_CardinalityType
  <2>4. QED
    BY <1>4, <1>8, <2>1, <2>2, <2>3, LedgerCounts
<1>10. Deploys(w) = {} => S = {}
  BY <1>2 DEF Deploys
<1>11. Deploys(w) = {} => Refunds(w)' = Refunds(w)
  BY <1>4, <1>10
<1>12. QED
  BY <1>3, <1>9, <1>11

\* A card's charges always equal the charges it was granted with, less its
\* deployments, plus its refunds, whatever is retried: deployCards and
\* refundVoidedCards are exactly-once.
THEOREM ChargesAreConserved == PickSpec => []ChargesConserved
<1>1. PickInit => ChargesConserved
  BY DEF PickInit, ChargesConserved, Deploys, Refunds, NoCard
<1>2. TypeInv /\ ChargesConserved /\ [PickNext]_pickVars => ChargesConserved'
  <2> SUFFICES ASSUME TypeInv, ChargesConserved, [PickNext]_pickVars,
                      NEW w \in Wallets
               PROVE  (IF remaining[w] = NoCard
                       THEN Deploys(w) = {} /\ Refunds(w) = {}
                       ELSE remaining[w] = InitialUses[w] - Cardinality(Deploys(w))
                                             + Cardinality(Refunds(w)))'
    BY DEF ChargesConserved
  <2> DEFINE Conserved ==
               IF remaining[w] = NoCard
               THEN Deploys(w) = {} /\ Refunds(w) = {}
               ELSE remaining[w] = InitialUses[w] - Cardinality(Deploys(w))
                                     + Cardinality(Refunds(w))
  <2>1. Conserved
    BY DEF ChargesConserved
  <2>2. CASE UNCHANGED <<remaining, ledger>>
    BY <2>1, <2>2 DEF Deploys, Refunds
  <2>3. ASSUME NEW v \in Wallets, GrantCard(v)
        PROVE  Conserved'
    <3>1. Deploys(w)' = Deploys(w) /\ Refunds(w)' = Refunds(w)
      BY <2>3 DEF GrantCard, Deploys, Refunds
    <3>2. CASE v # w
      BY <2>1, <2>3, <3>1, <3>2 DEF GrantCard, TypeInv, PickTypeOK
    <3>3. CASE v = w
      <4>1. Deploys(w) = {} /\ Refunds(w) = {} /\ remaining'[w] = InitialUses[w]
        BY <2>1, <2>3, <3>3 DEF GrantCard, TypeInv, PickTypeOK
      <4>2. InitialUses[w] \in Nat /\ Cardinality({}) = 0
        BY PickAssumption, FS_EmptySet
      <4>3. QED
        BY <3>1, <4>1, <4>2 DEF NoCard
    <3>4. QED
      BY <3>2, <3>3
  <2>4. ASSUME NEW r \in Rounds, LockedPicks(r)
        PROVE  Conserved'
    <3>1. CASE w \notin DeployingNow(r)
      <4>1. remaining'[w] = remaining[w]
        BY <2>4, <3>1 DEF LockedPicks
      <4>2. QED
        BY <2>1, <2>4, <3>1, <4>1, LockCounts
    <3>2. CASE w \in DeployingNow(r)
      <4>1. /\ remaining'[w] = remaining[w] - 1
            /\ remaining[w] \in Nat /\ remaining[w] > 0
        BY <2>4, <3>2, DeployingHasCharge DEF LockedPicks, TypeInv
      <4>2. /\ Cardinality(Deploys(w)') = Cardinality(Deploys(w)) + 1
            /\ Refunds(w)' = Refunds(w)
        BY <2>4, <3>2, LockCounts
      <4>3. InitialUses[w] \in Nat
        BY PickAssumption
      <4>4. QED
        BY <2>1, <4>1, <4>2, <4>3, LedgerCounts DEF NoCard
    <3>3. QED
      BY <3>1, <3>2
  <2>5. ASSUME NEW r \in frozen, NEW voided \in SUBSET Slots,
               RefundVoidedCards(r, voided)
        PROVE  Conserved'
    <3> DEFINE n == Cardinality({e \in RefundingNow(r, voided) : e.wallet = w})
    <3>1. r \in Rounds
      BY DEF TypeInv, PickTypeOK
    <3>2. n \in Nat /\ remaining'[w] = remaining[w] + n
      BY <2>5, <3>1, NewRowsType, FS_Subset, FS_CardinalityType
         DEF RefundVoidedCards, TypeInv
    <3>3. /\ Deploys(w)' = Deploys(w)
          /\ Cardinality(Refunds(w)') = Cardinality(Refunds(w)) + n
          /\ Deploys(w) = {} => Refunds(w)' = Refunds(w)
      BY <2>5, <3>1, RefundCounts
    <3> HIDE DEF n
    <3>4. CASE remaining[w] = NoCard
      <4>1. Deploys(w)' = {} /\ Refunds(w)' = {}
        BY <2>1, <3>3, <3>4
      <4>2. n = 0
        BY <2>1, <3>2, <3>3, <3>4, <4>1, FS_EmptySet
      <4>3. QED
        BY <3>2, <3>4, <4>1, <4>2 DEF NoCard
    <3>5. CASE remaining[w] # NoCard
      <4>1. remaining[w] \in Nat /\ InitialUses[w] \in Nat
        BY <3>5, PickAssumption DEF TypeInv, PickTypeOK
      <4>2. QED
        BY <2>1, <3>2, <3>3, <3>5, <4>1, LedgerCounts DEF NoCard
    <3>6. QED
      BY <3>4, <3>5
  <2>6. CASE UNCHANGED pickVars
    BY <2>2, <2>6 DEF pickVars
  <2>7. QED
    BY <2>2, <2>3, <2>4, <2>5, <2>6
       DEF PickNext, PickCalls, Tick, Receive, Refused, Submit, Withdraw,
           DecideCard, OpenRound
<1>3. PickInit => TypeInv
  BY PickAssumption, FS_EmptySet DEF PickInit, TypeInv, PickTypeOK
<1>4. QED
  BY <1>1, <1>2, <1>3, TypeStep, PTL DEF PickSpec

-----------------------------------------------------------------------------
(***************************************************************************)
(* What is frozen stays.  FrozenAreDecided is what LedgerMatchesPicks      *)
(* lacks to be inductive: a row has its locked decision from the freeze of *)
(* its round on and not before, so a lock that is run again finds every    *)
(* armed card deployed and changes nothing.                                *)
(***************************************************************************)
FrozenAreDecided ==
  \A w \in Wallets, r \in Rounds :
    HasPick(w, r) => (picks[w][r].locked # None <=> r \in frozen)

LedgerInv == TypeInv /\ LedgerMatchesPicks /\ FrozenAreDecided

\* One row of player_picks written, read back row by row.
LEMMA PickWriteRows ==
  ASSUME PickTypeOK, NEW w \in Wallets, NEW r \in Rounds, NEW row,
         NEW v \in Wallets, NEW q \in Rounds
  PROVE  [picks EXCEPT ![w][r] = row][v][q]
           = IF v = w /\ q = r THEN row ELSE picks[v][q]
BY DEF PickTypeOK

\* What one step may do to one row.
LEMMA PicksMove ==
  ASSUME TypeInv, [PickNext]_pickVars, NEW w \in Wallets, NEW r \in Rounds
  PROVE  \/ picks'[w][r] = picks[w][r]
         \/ r \notin frozen /\ picks'[w][r] = None
         \/ /\ r \notin frozen /\ picks'[w][r] \in PickRow
            /\ picks'[w][r].locked = None
            /\ [wallet |-> w, round |-> r, key |-> picks'[w][r].key]
                 \in requests' \ requests
         \/ /\ r \notin frozen /\ HasPick(w, r)
            /\ \E d \in CardDecisions :
                 picks'[w][r] = [picks[w][r] EXCEPT !.card = d]
         \/ /\ LockedPicks(r) /\ HasPick(w, r)
            /\ picks'[w][r] = [picks[w][r] EXCEPT !.locked = LockedDecision(w, r)]
<1> DEFINE Goal ==
      \/ picks'[w][r] = picks[w][r]
      \/ r \notin frozen /\ picks'[w][r] = None
      \/ /\ r \notin frozen /\ picks'[w][r] \in PickRow
         /\ picks'[w][r].locked = None
         /\ [wallet |-> w, round |-> r, key |-> picks'[w][r].key]
              \in requests' \ requests
      \/ /\ r \notin frozen /\ HasPick(w, r)
         /\ \E d \in CardDecisions :
              picks'[w][r] = [picks[w][r] EXCEPT !.card = d]
      \/ /\ LockedPicks(r) /\ HasPick(w, r)
         /\ picks'[w][r] = [picks[w][r] EXCEPT !.locked = LockedDecision(w, r)]
<1>1. CASE UNCHANGED picks
  BY <1>1
<1>2. ASSUME NEW c \in calls, Submit(c)
      PROVE  Goal
  <2>1. c \in [kind: {"PICK"}, wallet: Wallets, round: Rounds, slot: Slots,
               side: Sides, card: CardDecisions, key: Keys]
    BY <1>2 DEF Submit, TypeInv, PickTypeOK, Call
  <2>2. CASE RequestOf(c) \in requests
    BY <1>1, <1>2, <2>2 DEF Submit
  <2>3. CASE RequestOf(c) \notin requests
    <3>1. /\ picks' = [picks EXCEPT ![c.wallet][c.round] = RowOf(c)]
          /\ RequestOf(c) \in requests'
      BY <1>2, <2>3 DEF Submit
    <3>2. c.round \notin frozen
      BY <1>2 DEF Submit, OpenForWrites
    <3>3. picks'[w][r] = IF w = c.wallet /\ r = c.round THEN RowOf(c) ELSE picks[w][r]
      BY <2>1, <3>1, PickWriteRows DEF TypeInv
    <3>4. RowOf(c) \in PickRow /\ RowOf(c).locked = None /\ RowOf(c).key = c.key
      BY <2>1 DEF RowOf, PickRow
    <3>5. RequestOf(c) = [wallet |-> c.wallet, round |-> c.round, key |-> RowOf(c).key]
      BY <3>4 DEF RequestOf
    <3>6. CASE w = c.wallet /\ r = c.round
      BY <2>3, <3>1, <3>2, <3>3, <3>4, <3>5, <3>6
    <3>7. CASE ~(w = c.wallet /\ r = c.round)
      BY <3>3, <3>7
    <3>8. QED
      BY <3>6, <3>7
  <2>4. QED
    BY <2>2, <2>3
<1>3. ASSUME NEW c \in calls, Withdraw(c)
      PROVE  Goal
  <2>1. c.wallet \in Wallets /\ c.round \in Rounds /\ c.round \notin frozen
    BY <1>3 DEF Withdraw, OpenForWrites, TypeInv, PickTypeOK, Call
  <2>2. picks' = [picks EXCEPT ![c.wallet][c.round] = None]
    BY <1>3 DEF Withdraw
  <2>3. picks'[w][r] = IF w = c.wallet /\ r = c.round THEN None ELSE picks[w][r]
    BY <2>1, <2>2, PickWriteRows DEF TypeInv
  <2>4. QED
    BY <2>1, <2>3
<1>4. ASSUME NEW c \in calls, DecideCard(c)
      PROVE  Goal
  <2>1. /\ c.wallet \in Wallets /\ c.round \in Rounds /\ c.card \in CardDecisions
        /\ c.round \notin frozen
    BY <1>4 DEF DecideCard, OpenForWrites, TypeInv, PickTypeOK, Call
  <2>2. CASE ~HasPick(c.wallet, c.round)
    BY <1>1, <1>4, <2>2 DEF DecideCard
  <2>3. CASE HasPick(c.wallet, c.round)
    <3>1. picks' = [picks EXCEPT ![c.wallet][c.round] =
                      [picks[c.wallet][c.round] EXCEPT !.card = c.card]]
      BY <1>4, <2>1, <2>3 DEF DecideCard, TypeInv, PickTypeOK
    <3>2. picks'[w][r] = IF w = c.wallet /\ r = c.round
                         THEN [picks[c.wallet][c.round] EXCEPT !.card = c.card]
                         ELSE picks[w][r]
      BY <2>1, <3>1, PickWriteRows DEF TypeInv
    <3>3. CASE w = c.wallet /\ r = c.round
      BY <2>1, <2>3, <3>2, <3>3
    <3>4. CASE ~(w = c.wallet /\ r = c.round)
      BY <3>2, <3>4
    <3>5. QED
      BY <3>3, <3>4
  <2>4. QED
    BY <2>2, <2>3
<1>5. ASSUME NEW q \in Rounds, LockedPicks(q)
      PROVE  Goal
  <2>1. picks'[w] = [picks[w] EXCEPT ![q] =
                       IF HasPick(w, q)
                       THEN [picks[w][q] EXCEPT !.locked = LockedDecision(w, q)]
                       ELSE picks[w][q]]
    BY <1>5 DEF LockedPicks, TypeInv, PickTypeOK
  <2>2. CASE q # r
    BY <2>1, <2>2 DEF TypeInv, PickTypeOK
  <2>3. CASE q = r
    BY <1>5, <2>1, <2>3 DEF TypeInv, PickTypeOK
  <2>4. QED
    BY <2>2, <2>3
<1>6. QED
  BY <1>1, <1>2, <1>3, <1>4, <1>5
     DEF PickNext, PickCalls, pickVars, Tick, GrantCard, Receive, Refused,
         OpenRound, RefundVoidedCards


\* Every row that is there is a row of the right type.
LEMMA RowType ==
  ASSUME PickTypeOK, NEW w \in Wallets, NEW r \in Rounds, HasPick(w, r)
  PROVE  picks[w][r] \in PickRow
BY DEF PickTypeOK, HasPick

\* A lock run again on a frozen round changes nothing: every armed card has its
\* deployment by then.
LEMMA LockedAgain ==
  ASSUME LedgerInv, NEW r \in frozen, LockedPicks(r)
  PROVE  /\ \A w \in Wallets : picks'[w][r] = picks[w][r]
         /\ ledger' = ledger
<1>1. r \in Rounds
  BY DEF LedgerInv, TypeInv, PickTypeOK
<1>2. ASSUME NEW w \in Wallets, HasPick(w, r)
      PROVE  /\ LockedDecision(w, r) = picks[w][r].locked
             /\ LockedDecision(w, r).card = "USE" => Deployed(w, r)
  <2>1. picks[w][r] \in PickRow /\ picks[w][r].locked # None
    BY <1>1, <1>2, RowType DEF LedgerInv, TypeInv, FrozenAreDecided
  <2>2. picks[w][r].locked \in Decision
    BY <2>1 DEF PickRow
  <2>3. picks[w][r].locked.card = "USE" => Deployed(w, r)
    BY <1>1, <1>2, <2>1 DEF LedgerInv, LedgerMatchesPicks
  <2>4. QED
    BY <2>1, <2>2, <2>3 DEF LockedDecision, Decided, Decision, CardDecisions
<1>3. DeployingNow(r) = {}
  BY <1>2 DEF DeployingNow
<1>4. ledger' = ledger
  BY <1>3 DEF LockedPicks
<1>5. ASSUME NEW w \in Wallets
      PROVE  picks'[w][r] = picks[w][r]
  <2>1. picks'[w][r] = IF HasPick(w, r)
                       THEN [picks[w][r] EXCEPT !.locked = LockedDecision(w, r)]
                       ELSE picks[w][r]
    BY <1>1 DEF LockedPicks, LedgerInv, TypeInv, PickTypeOK
  <2>2. CASE HasPick(w, r)
    <3>1. picks[w][r] \in PickRow /\ LockedDecision(w, r) = picks[w][r].locked
      BY <1>1, <1>2, <2>2, RowType DEF LedgerInv, TypeInv
    <3>2. QED
      BY <2>1, <2>2, <3>1 DEF PickRow
  <2>3. CASE ~HasPick(w, r)
    BY <2>1, <2>3
  <2>4. QED
    BY <2>2, <2>3
<1>6. QED
  BY <1>4, <1>5

\* The ledger changes only by a lock and by a refund, and the freeze only by a
\* lock.
LEMMA LedgerMoves ==
  ASSUME LedgerInv, [PickNext]_pickVars
  PROVE  \/ ledger' = ledger /\ frozen' = frozen
         \/ \E r \in Rounds : LockedPicks(r)
         \/ \E r \in frozen, voided \in SUBSET Slots :
              RefundVoidedCards(r, voided)
BY DEF PickNext, PickCalls, pickVars, Tick, GrantCard, Receive, Refused,
       Submit, Withdraw, DecideCard, OpenRound

\* The rows of a frozen round stay as they are.
LEMMA FrozenRowsStay ==
  ASSUME LedgerInv, [PickNext]_pickVars, NEW r \in frozen, NEW w \in Wallets
  PROVE  picks'[w][r] = picks[w][r]
<1>1. r \in Rounds
  BY DEF LedgerInv, TypeInv, PickTypeOK
<1>2. picks'[w][r] = picks[w][r] \/ LockedPicks(r)
  BY <1>1, PicksMove DEF LedgerInv
<1>3. QED
  BY <1>2, LockedAgain

\* No deployment of a round that is frozen comes or goes.
LEMMA FrozenDeploymentsStay ==
  ASSUME LedgerInv, [PickNext]_pickVars, NEW r \in frozen, NEW w \in Wallets
  PROVE  Deployed(w, r)' <=> Deployed(w, r)
<1>1. CASE ledger' = ledger
  BY <1>1 DEF Deployed
<1>2. ASSUME NEW q \in Rounds, LockedPicks(q)
      PROVE  Deployed(w, r)' <=> Deployed(w, r)
  <2>1. CASE q = r
    BY <1>1, <1>2, <2>1, LockedAgain
  <2>2. CASE q # r
    BY <1>2, <2>2 DEF LockedPicks, DeployRow, Deployed
  <2>3. QED
    BY <2>1, <2>2
<1>3. ASSUME NEW q \in frozen, NEW voided \in SUBSET Slots,
             RefundVoidedCards(q, voided)
      PROVE  Deployed(w, r)' <=> Deployed(w, r)
  <2>1. \A e \in RefundingNow(q, voided) : RefundRow(e).event # "DEPLOY"
    BY DEF RefundRow
  <2>2. QED
    BY <1>3, <2>1 DEF RefundVoidedCards, Deployed
<1>4. QED
  BY <1>1, <1>2, <1>3, LedgerMoves


LEMMA LedgerInvStep == LedgerInv /\ [PickNext]_pickVars => LedgerInv'
<1> SUFFICES ASSUME LedgerInv, [PickNext]_pickVars
             PROVE  LedgerInv'
  OBVIOUS
<1> DEFINE Backs(e) ==
      /\ [e EXCEPT !.event = "DEPLOY"] \in ledger
      /\ e.round \in frozen
      /\ HasPick(e.wallet, e.round)
      /\ picks[e.wallet][e.round].locked # None
      /\ picks[e.wallet][e.round].locked.slot = e.slot
      /\ picks[e.wallet][e.round].locked.card = "USE"
    Armed(w, r) ==
      /\ HasPick(w, r)
      /\ picks[w][r].locked # None
      /\ picks[w][r].locked.card = "USE"
<1>1. TypeInv'
  BY TypeStep DEF LedgerInv
<1>2. /\ \A e \in ledger : Backs(e)
      /\ \A w \in Wallets, r \in frozen : Armed(w, r) => Deployed(w, r)
  BY DEF LedgerInv, LedgerMatchesPicks
<1>3. frozen \subseteq Rounds /\ ledger \subseteq LedgerRow
  BY DEF LedgerInv, TypeInv, PickTypeOK
\* Rows and deployments of rounds that were frozen before.
<1>4. ASSUME NEW e \in ledger, ledger \subseteq ledger', frozen \subseteq frozen'
      PROVE  Backs(e)'
  <2>1. e.wallet \in Wallets /\ e.round \in frozen
    BY <1>2, <1>3 DEF LedgerRow
  <2>2. picks'[e.wallet][e.round] = picks[e.wallet][e.round]
    BY <2>1, FrozenRowsStay
  <2>3. QED
    BY <1>2, <1>4, <2>1, <2>2 DEF HasPick
<1>5. ASSUME NEW w \in Wallets, NEW r \in frozen
      PROVE  Armed(w, r)' => Deployed(w, r)'
  <2>1. picks'[w][r] = picks[w][r]
    BY FrozenRowsStay
  <2>2. Armed(w, r)' => Armed(w, r)
    BY <2>1 DEF HasPick
  <2>3. QED
    BY <1>2, <2>2, FrozenDeploymentsStay
\* A row gets its locked decision when its round is frozen.
<1>6. FrozenAreDecided'
  <2> SUFFICES ASSUME NEW w \in Wallets, NEW r \in Rounds, HasPick(w, r)'
               PROVE  (picks'[w][r].locked # None) <=> r \in frozen'
    BY DEF FrozenAreDecided
  <2>1. HasPick(w, r) => (picks[w][r].locked # None <=> r \in frozen)
    BY DEF LedgerInv, FrozenAreDecided
  <2>2. HasPick(w, r) => picks[w][r] \in PickRow
    BY RowType DEF LedgerInv, TypeInv
  <2>3. CASE LockedPicks(r)
    <3>1. r \in frozen'
      BY <2>3 DEF LockedPicks
    <3>2. picks'[w][r] = IF HasPick(w, r)
                         THEN [picks[w][r] EXCEPT !.locked = LockedDecision(w, r)]
                         ELSE picks[w][r]
      BY <2>3 DEF LockedPicks, LedgerInv, TypeInv, PickTypeOK
    <3>3. HasPick(w, r)
      BY <3>2 DEF HasPick
    <3>4. LockedDecision(w, r) \in Decision
      BY <3>3, LockedDecisionType DEF LedgerInv, TypeInv
    <3>5. None \notin Decision
      BY PickAssumption
    <3>6. picks'[w][r].locked = LockedDecision(w, r)
      BY <2>2, <3>2, <3>3 DEF PickRow
    <3>7. QED
      BY <3>1, <3>4, <3>5, <3>6
  <2>4. CASE ~LockedPicks(r)
    <3>1. r \in frozen' <=> r \in frozen
      BY <2>4, LedgerMoves DEF LockedPicks, RefundVoidedCards
    <3>2. CASE picks'[w][r] = picks[w][r]
      BY <2>1, <3>1, <3>2 DEF HasPick
    <3>3. CASE r \notin frozen /\ picks'[w][r] \in PickRow /\ picks'[w][r].locked = None
      BY <3>1, <3>3
    <3>4. ASSUME r \notin frozen, HasPick(w, r), NEW d \in CardDecisions,
                 picks'[w][r] = [picks[w][r] EXCEPT !.card = d]
          PROVE  picks'[w][r].locked = None
      BY <2>1, <2>2, <3>4 DEF PickRow
    <3>5. QED
      BY <2>4, <3>1, <3>2, <3>3, <3>4, PicksMove DEF LedgerInv, HasPick
  <2>5. QED
    BY <2>3, <2>4
<1>7. LedgerMatchesPicks'
  <2>1. CASE ledger' = ledger /\ frozen' = frozen
    BY <1>4, <1>5, <2>1 DEF LedgerMatchesPicks
  <2>2. ASSUME NEW r \in frozen, NEW voided \in SUBSET Slots,
               RefundVoidedCards(r, voided)
        PROVE  LedgerMatchesPicks'
    <3>1. ledger' = ledger \cup {RefundRow(e) : e \in RefundingNow(r, voided)}
          /\ frozen' = frozen /\ picks' = picks
      BY <2>2 DEF RefundVoidedCards
    <3>2. ASSUME NEW e \in RefundingNow(r, voided)
          PROVE  Backs(RefundRow(e))'
      <4>1. e \in ledger /\ e.event = "DEPLOY" /\ e \in LedgerRow
        BY <1>3 DEF RefundingNow
      <4>2. [RefundRow(e) EXCEPT !.event = "DEPLOY"] = e
        BY <4>1 DEF RefundRow, LedgerRow
      <4>3. /\ RefundRow(e).wallet = e.wallet /\ RefundRow(e).round = e.round
            /\ RefundRow(e).slot = e.slot
        BY DEF RefundRow
      <4>4. QED
        BY <1>2, <3>1, <4>1, <4>2, <4>3 DEF HasPick
    <3>3. QED
      BY <1>4, <1>5, <3>1, <3>2 DEF LedgerMatchesPicks
  <2>3. ASSUME NEW r \in Rounds, LockedPicks(r)
        PROVE  LedgerMatchesPicks'
    <3>1. CASE r \in frozen
      <4>1. ledger' = ledger /\ frozen' = frozen
        BY <2>3, <3>1, LockedAgain DEF LockedPicks
      <4>2. QED
        BY <2>1, <4>1
    <3>2. CASE r \notin frozen
      <4>1. ledger' = ledger \cup {DeployRow(w, r) : w \in DeployingNow(r)}
            /\ frozen' = frozen \cup {r}
        BY <2>3 DEF LockedPicks
      <4>2. ASSUME NEW w \in Wallets, HasPick(w, r)
            PROVE  /\ HasPick(w, r)'
                   /\ picks'[w][r].locked = LockedDecision(w, r)
                   /\ LockedDecision(w, r) \in Decision
        <5>1. picks'[w][r] = [picks[w][r] EXCEPT !.locked = LockedDecision(w, r)]
          BY <2>3, <4>2 DEF LockedPicks, LedgerInv, TypeInv, PickTypeOK
        <5>2. picks[w][r] \in PickRow
          BY <4>2, RowType DEF LedgerInv, TypeInv
        <5>3. LockedDecision(w, r) \in Decision
          BY <4>2, LockedDecisionType DEF LedgerInv, TypeInv
        <5>4. picks'[w][r] \in PickRow
          BY <5>1, <5>2, <5>3 DEF PickRow
        <5>5. None \notin PickRow
          BY PickAssumption
        <5>6. QED
          BY <5>1, <5>2, <5>3, <5>4, <5>5 DEF HasPick, PickRow
      <4>3. ASSUME NEW w \in DeployingNow(r), NEW e, e = DeployRow(w, r)
            PROVE  Backs(e)'
        <5>1. w \in Wallets /\ HasPick(w, r) /\ LockedDecision(w, r).card = "USE"
          BY DEF DeployingNow
        <5>2. /\ e.wallet = w /\ e.round = r /\ e.slot = LockedDecision(w, r).slot
              /\ [e EXCEPT !.event = "DEPLOY"] = e
          BY <4>3 DEF DeployRow
        <5>3. None \notin Decision
          BY PickAssumption
        <5>4. e \in ledger' /\ r \in frozen'
          BY <4>1, <4>3
        <5>5. /\ HasPick(w, r)' /\ picks'[w][r].locked # None
              /\ picks'[w][r].locked.slot = e.slot /\ picks'[w][r].locked.card = "USE"
          BY <4>2, <5>1, <5>2, <5>3
        <5>6. QED
          BY <5>2, <5>4, <5>5
      <4>4. ASSUME NEW w \in Wallets, Armed(w, r)'
            PROVE  Deployed(w, r)'
        <5>1. HasPick(w, r)
          BY <2>3, <4>4 DEF LockedPicks, LedgerInv, TypeInv, PickTypeOK, HasPick
        <5>2. LockedDecision(w, r).card = "USE"
          BY <4>2, <4>4, <5>1
        <5>3. CASE Deployed(w, r)
          BY <4>1, <5>3 DEF Deployed
        <5>4. CASE ~Deployed(w, r)
          <6>1. remaining[w] # NoCard
            BY <5>2, <5>4 DEF LockedDecision, CanDeploy, NoCard
          <6>2. w \in DeployingNow(r)
            BY <5>1, <5>2, <5>4, <6>1 DEF DeployingNow
          <6>3. PICK e : e = DeployRow(w, r)
            OBVIOUS
          <6>4. e \in ledger' /\ e.wallet = w /\ e.round = r /\ e.event = "DEPLOY"
            BY <4>1, <6>2, <6>3 DEF DeployRow
          <6>5. QED
            BY <6>4 DEF Deployed
        <5>5. QED
          BY <5>3, <5>4
      <4>5. \A e \in ledger' : Backs(e)'
        BY <1>4, <4>1, <4>3
      <4>6. \A w \in Wallets, q \in frozen' : Armed(w, q)' => Deployed(w, q)'
        BY <1>5, <4>1, <4>4
      <4>7. QED
        BY <4>5, <4>6 DEF LedgerMatchesPicks
    <3>3. QED
      BY <3>1, <3>2
  <2>4. QED
    BY <2>1, <2>2, <2>3, LedgerMoves
<1>8. QED
  BY <1>1, <1>6, <1>7 DEF LedgerInv

LEMMA LedgerInvHolds == PickSpec => []LedgerInv
<1>1. PickInit => LedgerInv
  BY PickAssumption, FS_EmptySet
     DEF PickInit, LedgerInv, TypeInv, PickTypeOK, LedgerMatchesPicks,
         FrozenAreDecided, HasPick
<1>2. QED
  BY <1>1, LedgerInvStep, PTL DEF PickSpec

\* Every deployment is behind the armed pick it was charged for and every armed
\* frozen pick has been charged, however often deployCards and
\* refundVoidedCards run.
THEOREM LedgerAndPicksAgree == PickSpec => []LedgerMatchesPicks
BY LedgerInvHolds, PTL DEF LedgerInv

\* What lockedPicks has returned for a round it returns ever after, whatever
\* calls were past the API's check when the round froze.
THEOREM FrozenPicksAreFinal == PickSpec => FrozenPicksFinal
<1>1. LedgerInv /\ [PickNext]_pickVars
        => [\A r \in frozen : FrozenPicks(r)' = FrozenPicks(r)]_pickVars
  <2> SUFFICES ASSUME LedgerInv, [PickNext]_pickVars, NEW r \in frozen
               PROVE  FrozenPicks(r)' = FrozenPicks(r)
    OBVIOUS
  <2>1. \A w \in Wallets : /\ picks'[w][r] = picks[w][r]
                           /\ Deployed(w, r)' = Deployed(w, r)
    BY FrozenRowsStay, FrozenDeploymentsStay DEF Deployed
  <2>2. QED
    BY <2>1 DEF FrozenPicks, HasPick
<1>2. QED
  BY <1>1, LedgerInvHolds, PTL DEF PickSpec, FrozenPicksFinal

\* Only a withdrawal takes a request away, and only the one whose pick it
\* removes.
LEMMA RequestsMove ==
  ASSUME TypeInv, [PickNext]_pickVars, NEW q \in requests, q \notin requests'
  PROVE  /\ HasPick(q.wallet, q.round)
         /\ picks[q.wallet][q.round].key = q.key
         /\ picks'[q.wallet][q.round] = None
<1>1. requests' # requests
  OBVIOUS
<1>2. q.wallet \in Wallets /\ q.round \in Rounds
  BY DEF TypeInv, PickTypeOK, Request
<1>3. ~\E c \in calls : Submit(c)
  BY DEF Submit
<1>4. PICK c \in calls : Withdraw(c)
  BY <1>1, <1>3
     DEF PickNext, pickVars, Tick, GrantCard, PickCalls, Receive, Refused,
         DecideCard, OpenRound, LockedPicks, RefundVoidedCards
<1>5. /\ HasPick(c.wallet, c.round) /\ q.wallet = c.wallet /\ q.round = c.round
      /\ q.key = picks[c.wallet][c.round].key
  BY <1>4 DEF Withdraw
<1>6. picks' = [picks EXCEPT ![c.wallet][c.round] = None]
  BY <1>4 DEF Withdraw
<1>7. PICK w \in Wallets, r \in Rounds : w = q.wallet /\ r = q.round
  BY <1>2
<1>8. picks' = [picks EXCEPT ![w][r] = None]
  BY <1>5, <1>6, <1>7
<1>9. picks'[w][r] = None
  BY <1>8, PickWriteRows DEF TypeInv
<1>10. QED
  BY <1>5, <1>7, <1>9

\* The key of a row, through the writes that keep the row.
LEMMA RowKeepsKey ==
  ASSUME NEW row \in PickRow, NEW d
  PROVE  [row EXCEPT !.card = d].key = row.key /\ [row EXCEPT !.locked = d].key = row.key
BY DEF PickRow

RequestFor(w, r, k) == [wallet |-> w, round |-> r, key |-> k]

\* The pick that stands is one whose request the store has.
StandingKnown ==
  \A w \in Wallets, r \in Rounds :
    HasPick(w, r) => RequestFor(w, r, picks[w][r].key) \in requests

\* A standing pick stays, keeping its key, or goes, or is written under a key
\* that the store did not know and does know after.
LEMMA StandingMoves ==
  ASSUME TypeInv, [PickNext]_pickVars, NEW w \in Wallets, NEW r \in Rounds,
         HasPick(w, r)'
  PROVE  \/ HasPick(w, r) /\ picks'[w][r].key = picks[w][r].key
         \/ RequestFor(w, r, picks'[w][r].key) \in requests' \ requests
<1>1. HasPick(w, r) => picks[w][r] \in PickRow
  BY RowType DEF TypeInv
<1>2. \A d : HasPick(w, r) =>
        /\ [picks[w][r] EXCEPT !.card = d].key = picks[w][r].key
        /\ [picks[w][r] EXCEPT !.locked = d].key = picks[w][r].key
  BY <1>1, RowKeepsKey
<1>3. picks'[w][r] # None
  BY DEF HasPick
<1>4. CASE picks'[w][r] = picks[w][r]
  BY <1>3, <1>4 DEF HasPick
<1>5. CASE \E d \in CardDecisions :
             HasPick(w, r) /\ picks'[w][r] = [picks[w][r] EXCEPT !.card = d]
  BY <1>2, <1>5
<1>6. CASE HasPick(w, r)
           /\ picks'[w][r] = [picks[w][r] EXCEPT !.locked = LockedDecision(w, r)]
  BY <1>2, <1>6
<1>7. CASE [wallet |-> w, round |-> r, key |-> picks'[w][r].key]
             \in requests' \ requests
  BY <1>7 DEF RequestFor
<1>8. QED
  BY <1>3, <1>4, <1>5, <1>6, <1>7, PicksMove

LEMMA StandingKnownStep ==
  ASSUME TypeInv, StandingKnown, [PickNext]_pickVars
  PROVE  StandingKnown'
<1> SUFFICES ASSUME NEW w \in Wallets, NEW r \in Rounds, HasPick(w, r)'
             PROVE  RequestFor(w, r, picks'[w][r].key) \in requests'
  BY DEF StandingKnown
<1>1. CASE RequestFor(w, r, picks'[w][r].key) \in requests' \ requests
  BY <1>1
<1>2. CASE HasPick(w, r) /\ picks'[w][r].key = picks[w][r].key
  <2>1. PICK q : q = RequestFor(w, r, picks[w][r].key)
    OBVIOUS
  <2>2. q \in requests /\ q.wallet = w /\ q.round = r
    BY <1>2, <2>1 DEF StandingKnown, RequestFor
  <2>3. q \in requests'
    BY <2>2, RequestsMove DEF HasPick
  <2>4. QED
    BY <1>2, <2>1, <2>3
<1>3. QED
  BY <1>1, <1>2, StandingMoves

\* A decision that was replaced stays replaced and its key stays known.
LEMMA ReplacedStep ==
  ASSUME TypeInv, [PickNext]_pickVars, NEW w \in Wallets, NEW r \in Rounds
  PROVE  Replaced(w, r) \subseteq Replaced(w, r)'
<1> SUFFICES ASSUME NEW q \in Replaced(w, r)
             PROVE  q \in Replaced(w, r)'
  OBVIOUS
<1>1. /\ q \in requests /\ q.wallet = w /\ q.round = r
      /\ ~(HasPick(w, r) /\ picks[w][r].key = q.key)
  BY DEF Replaced
<1>2. q \in requests'
  BY <1>1, RequestsMove
<1>3. ASSUME HasPick(w, r)', picks'[w][r].key = q.key
      PROVE  FALSE
  <2>1. q = RequestFor(w, r, q.key)
    BY <1>1 DEF TypeInv, PickTypeOK, Request, RequestFor
  <2>2. RequestFor(w, r, picks'[w][r].key) \notin requests' \ requests
    BY <1>1, <1>3, <2>1
  <2>3. QED
    BY <1>1, <1>3, <2>2, StandingMoves
<1>4. QED
  BY <1>1, <1>2, <1>3 DEF Replaced

\* A decision that a later one replaced never stands again, and its key is never
\* released, whatever picks, retries and withdrawals follow; a pick that stands
\* has its request.
THEOREM ReplacedDecisionsStayReplaced == PickSpec => ReplacedStaysReplaced
<1>1. PickInit => TypeInv /\ StandingKnown
  BY PickAssumption, FS_EmptySet
     DEF PickInit, TypeInv, PickTypeOK, StandingKnown, HasPick
<1>2. TypeInv /\ StandingKnown /\ [PickNext]_pickVars => StandingKnown'
  BY StandingKnownStep
<1>3. TypeInv /\ StandingKnown /\ StandingKnown' /\ [PickNext]_pickVars
        => [\A w \in Wallets, r \in Rounds :
              /\ Replaced(w, r) \subseteq Replaced(w, r)'
              /\ HasPick(w, r)' =>
                   [wallet |-> w, round |-> r, key |-> picks'[w][r].key]
                     \in requests']_pickVars
  BY ReplacedStep DEF StandingKnown, RequestFor
<1>4. QED
  BY <1>1, <1>2, <1>3, TypeStep, PTL DEF PickSpec, ReplacedStaysReplaced

-----------------------------------------------------------------------------
(***************************************************************************)
(* The inductive invariant, in named parts.                                *)
(***************************************************************************)

\* An event tells the truth about the store.  PublishedIsStored says it of the
\* events published; a void is announced only of a settled round.
Truthful(e) ==
  /\ roundState[e.round] # None
  /\ e.kind = "PICKS_LOCKED" => roundState[e.round] # "PICK_OPEN"
  /\ e.kind = "BATTLE_STATE_UPDATE" =>
       /\ Len(e.chain) \in 1..Len(evidence[e.round][e.slot])
       /\ evidence[e.round][e.slot][Len(e.chain)] = e.chain
  /\ e.kind = "BATTLE_VOID" =>
       /\ roundState[e.round] = "FINALIZED"
       /\ battleState[e.round][e.slot] = "VOID"
       /\ e.cardUseRestored <=> Refunded(e.round, e.slot)
  /\ e.kind = "ROUND_FINALIZED" =>
       /\ roundState[e.round] = "FINALIZED"
       /\ e.results = StoredResults(e.round)

\* A battle's checkpoints: row n folds n ticks and extends row n - 1.
Chained(rows) ==
  \A n \in 1..Len(rows) :
    /\ Len(rows[n]) = n
    /\ n > 1 => SubSeq(rows[n], 1, n - 1) = rows[n - 1]

\* The newest of them, which is what a driver restores.
Tip(rows) == IF rows = << >> THEN << >> ELSE rows[Len(rows)]

AwardsOf(r) == {a \in wpLedger : a.round = r}

Found(r, s) == {x \in StoredResults(r) : x.slot = s}

\* A round before its settlement has none of it.
Unsettled(r) ==
  /\ StoredResults(r) = {}
  /\ AwardsOf(r) = {}
  /\ \A s \in Slots : ~Refunded(r, s)

\* A settled round has all of it, exactly (AwardsAreExact, of one round).
Settled(r) ==
  /\ AwardsOf(r) = AwardsFor(r, FrozenPicks(r), StoredResults(r), labels[r])
  /\ \A s \in Slots :
       /\ battleState[r][s] = IF Found(r, s) = {} THEN "VOID" ELSE "FINALIZED"
       /\ Cardinality(Found(r, s)) <= 1
       /\ \A x, y \in Found(r, s) : x = y
       /\ \A e \in ledger :
            e.round = r /\ e.slot = s
              => (RefundRow(e) \in ledger <=> Found(r, s) = {})
       /\ \A x \in Found(r, s) :
            evidence[r][s] # << >> /\ x.chain = Tip(evidence[r][s])

\* What the store holds of a round, by the round's state.
RowInv(r) ==
  /\ roundState[r] = None =>
       openAt[r] = NoRow /\ r \notin frozen /\ labels[r] = None
  /\ roundState[r] # None =>
       openAt[r] \in Nat /\ labels[r] \in [Slots -> [Sides -> Labels]]
  /\ roundState[r] \in {None, "PICK_OPEN"} =>
       \A s \in Slots : battleState[r][s] = "SCHEDULED" /\ evidence[r][s] = << >>
  /\ roundState[r] = "BATTLE_LIVE" =>
       \A s \in Slots : battleState[r][s] \in {"LIVE", "VOID"}
  /\ roundState[r] \in {"BATTLE_LIVE", "FINALIZED"} => r \in frozen
  /\ IF roundState[r] = "FINALIZED" THEN Settled(r) ELSE Unsettled(r)
  /\ \A s \in Slots : Chained(evidence[r][s])

\* The round that opened last.
Last(r) == r \in Stored /\ \A q \in Stored : q <= r

OrderInv ==
  /\ \A r \in Stored, q \in Rounds :
       q < r => roundState[q] = "FINALIZED" /\ openAt[r] >= BattleEndAt(q)
  /\ Stored = {} \/ \E r \in Rounds : Last(r)

\* One driver at a time.
LeaseInv == \A i \in Instances : Running(i) => lease = i

\* Memory is what the store holds of its last round.
InStep(i) ==
  /\ mem[i] # None
  /\ Last(mem[i].round)
  /\ mem[i] = Restored(mem[i].round)

\* A round about to be stored for the first time.
NewRound(i) ==
  \E intel \in [Slots -> [Sides -> Labels]], r \in Rounds :
    /\ mem[i].openAt \in Nat
    /\ mem[i] = CreateRound(r, mem[i].openAt, intel)
    /\ roundState[r] = None
    /\ \A q \in Stored : q < r
    /\ \A q \in Rounds :
         q < r => roundState[q] = "FINALIZED" /\ mem[i].openAt >= BattleEndAt(q)

\* A lock performed and not yet saved.
LockUnsaved(i) ==
  \E r \in frozen :
    /\ Last(r)
    /\ roundState[r] = "PICK_OPEN"
    /\ mem[i] = LockRound(Restored(r), FrozenPicks(r))

Ticked(r, observed) ==
  [Restored(r) EXCEPT !.battles =
     [s \in Slots |-> ApplyTick(Restored(r).battles[s], observed[s])]]

\* A tick performed and not yet saved.
TickUnsaved(i) ==
  \E r \in Rounds, observed \in [Slots -> Observations] :
    /\ Last(r)
    /\ roundState[r] = "BATTLE_LIVE"
    /\ mem[i] = Ticked(r, observed)

\* What a step has still to publish.
Pending(i) == {out[i][n] : n \in 1..Len(out[i])}

\* Where each instance stands.
DriverInv(i) ==
  /\ pc[i] \in {"standby", "load"} => mem[i] = None
  /\ pc[i] = "opening" =>
       IF mem[i] = None THEN Stored = {}
       ELSE InStep(i) /\ mem[i].state = "FINALIZED"
  /\ pc[i] = "save_open" => NewRound(i)
  /\ pc[i] = "loop" => InStep(i) /\ mem[i].state # "FINALIZED"
  /\ pc[i] = "save_lock" => LockUnsaved(i)
  /\ pc[i] = "save_tick" => TickUnsaved(i)
  /\ pc[i] = "save_final" =>
       /\ InStep(i) /\ mem[i].state = "BATTLE_LIVE"
       /\ now >= MemEndAt(mem[i])
  /\ pc[i] = "publish" => InStep(i)
  /\ (pc[i] = "publish") <=> (out[i] # << >>)
  /\ \A e \in Pending(i) : Truthful(e)

RoundInv ==
  /\ RoundTypeOK
  /\ LedgerInv
  /\ \A r \in Rounds : RowInv(r)
  /\ OrderInv
  /\ LeaseInv
  /\ \A i \in Instances : DriverInv(i)
  /\ \A e \in published : Truthful(e)

-----------------------------------------------------------------------------
(***************************************************************************)
(* Steps that leave a round as it is.                                      *)
(***************************************************************************)
RowStays(r) ==
  /\ roundState'[r] = roundState[r]
  /\ battleState'[r] = battleState[r]
  /\ labels'[r] = labels[r]
  /\ evidence'[r] = evidence[r]
  /\ openAt'[r] = openAt[r]
  /\ (r \in frozen') <=> (r \in frozen)
  /\ FrozenPicks(r)' = FrozenPicks(r)
  /\ StoredResults(r)' = StoredResults(r)
  /\ AwardsOf(r)' = AwardsOf(r)
  /\ {e \in ledger' : e.round = r} = {e \in ledger : e.round = r}

\* What a step may do to the rounds: open one when no other is in play, play
\* one, lock one or settle one, and nothing to the others.
Opens(r) ==
  /\ roundState[r] = None /\ roundState'[r] = "PICK_OPEN"
  /\ labels'[r] \in [Slots -> [Sides -> Labels]]
  /\ wpLedger' = wpLedger
  /\ \A q \in Rounds \ {r} : roundState[q] \in {None, "FINALIZED"} /\ RowStays(q)

Plays(r) ==
  /\ roundState[r] \in {"PICK_OPEN", "BATTLE_LIVE"} /\ roundState'[r] = roundState[r]
  /\ roundState[r] = "BATTLE_LIVE" => FrozenPicks(r)' = FrozenPicks(r)
  /\ labels'[r] = labels[r] /\ wpLedger' = wpLedger
  /\ \A q \in Rounds \ {r} : RowStays(q)

Locks(r) ==
  /\ roundState[r] = "PICK_OPEN" /\ roundState'[r] = "BATTLE_LIVE"
  /\ FrozenPicks(r)' = FrozenPicks(r)
  /\ labels'[r] = labels[r] /\ wpLedger' = wpLedger
  /\ \A q \in Rounds \ {r} : RowStays(q)

Settles(r) ==
  /\ roundState[r] = "BATTLE_LIVE" /\ roundState'[r] = "FINALIZED"
  /\ FrozenPicks(r)' = FrozenPicks(r)
  /\ labels'[r] = labels[r]
  /\ wpLedger' =
       wpLedger \cup AwardsFor(r, FrozenPicks(r), StoredResults(r)', labels[r])
  /\ \A q \in Rounds \ {r} : RowStays(q)

RoundMove ==
  \/ wpLedger' = wpLedger /\ \A r \in Rounds : RowStays(r)
  \/ \E r \in Rounds : Opens(r) \/ Plays(r) \/ Locks(r) \/ Settles(r)

LEMMA RefundsStay ==
  ASSUME NEW r \in Rounds, RowStays(r), NEW s
  PROVE  Refunded(r, s)' <=> Refunded(r, s)
<1>1. \A e : (e \in ledger' /\ e.round = r) <=> (e \in ledger /\ e.round = r)
  BY DEF RowStays
<1>2. QED
  BY <1>1 DEF Refunded

LEMMA RowInvStays ==
  ASSUME NEW r \in Rounds, RowStays(r), RowInv(r)
  PROVE  RowInv(r)'
<1>1. \A s : Found(r, s)' = Found(r, s)
  BY DEF RowStays, Found
<1>2. \A s : Refunded(r, s)' <=> Refunded(r, s)
  BY RefundsStay
<1>3. Unsettled(r) => Unsettled(r)'
  BY <1>2 DEF RowStays, Unsettled
<1>4. ASSUME Settled(r) PROVE Settled(r)'
  <2>1. \A e : (e \in ledger' /\ e.round = r) <=> (e \in ledger /\ e.round = r)
    BY DEF RowStays
  <2>2. \A e : RefundRow(e).round = e.round
    BY DEF RefundRow
  <2>3. ASSUME NEW s \in Slots, NEW e \in ledger', e.round = r, e.slot = s
        PROVE  RefundRow(e) \in ledger' <=> Found(r, s)' = {}
    <3>1. e \in ledger
      BY <2>1, <2>3
    <3>2. RefundRow(e) \in ledger <=> Found(r, s) = {}
      BY <1>4, <2>3, <3>1 DEF Settled
    <3>3. RefundRow(e) \in ledger' <=> RefundRow(e) \in ledger
      BY <2>1, <2>2, <2>3
    <3>4. QED
      BY <1>1, <3>2, <3>3
  <2>4. AwardsOf(r)' = AwardsFor(r, FrozenPicks(r), StoredResults(r), labels[r])'
    BY <1>4 DEF Settled, RowStays, AwardsFor
  <2>5. \A s \in Slots :
          /\ battleState'[r][s] = IF Found(r, s)' = {} THEN "VOID" ELSE "FINALIZED"
          /\ Cardinality(Found(r, s)') <= 1
          /\ \A x, y \in Found(r, s)' : x = y
          /\ \A x \in Found(r, s)' :
               evidence'[r][s] # << >> /\ x.chain = Tip(evidence'[r][s])
    BY <1>1, <1>4 DEF Settled, RowStays
  <2>6. QED
    BY <2>3, <2>4, <2>5 DEF Settled
<1>5. QED
  BY <1>3, <1>4 DEF RowInv, RowStays

LEMMA TruthStays ==
  ASSUME NEW e \in Event, RowStays(e.round), Truthful(e)
  PROVE  Truthful(e)'
<1>1. e.round \in Rounds
  BY DEF Event
<1>2. \A s : Refunded(e.round, s)' <=> Refunded(e.round, s)
  BY <1>1, RefundsStay
<1>3. QED
  BY <1>2 DEF Truthful, RowStays

LEMMA RestoredStays ==
  ASSUME NEW r \in Rounds, RowStays(r)
  PROVE  Restored(r)' = Restored(r)
BY DEF RowStays, Restored

\* A step that leaves every round as it is.
LEMMA AllStay ==
  ASSUME \A r \in Rounds : RowStays(r)
  PROVE  /\ Stored' = Stored
         /\ \A r : Last(r)' <=> Last(r)
         /\ \A r \in Rounds : /\ roundState'[r] = roundState[r]
                              /\ openAt'[r] = openAt[r]
                              /\ Restored(r)' = Restored(r)
         /\ OrderInv => OrderInv'
<1>1. \A r \in Rounds : /\ roundState'[r] = roundState[r]
                        /\ openAt'[r] = openAt[r]
                        /\ Restored(r)' = Restored(r)
  BY RestoredStays DEF RowStays
<1>2. Stored' = Stored
  BY <1>1 DEF Stored
<1>3. \A r : Last(r)' <=> Last(r)
  BY <1>2 DEF Last
<1>4. Stored \subseteq Rounds
  BY DEF Stored
<1>5. OrderInv => OrderInv'
  BY <1>1, <1>2, <1>3, <1>4 DEF OrderInv, BattleEndAt
<1>6. QED
  BY <1>1, <1>2, <1>3, <1>5

\* The picks of a round stay what they are unless this step freezes them.
LEMMA FrozenPicksStay ==
  ASSUME LedgerInv, [PickNext]_pickVars, NEW r \in Rounds,
         r \in frozen \/ r \notin frozen'
  PROVE  FrozenPicks(r)' = FrozenPicks(r)
<1>1. CASE r \in frozen
  <2>1. \A w \in Wallets : /\ picks'[w][r] = picks[w][r]
                           /\ Deployed(w, r)' = Deployed(w, r)
    BY <1>1, FrozenRowsStay, FrozenDeploymentsStay DEF Deployed
  <2>2. QED
    BY <2>1 DEF FrozenPicks, HasPick
<1>2. CASE r \notin frozen'
  <2>1. frozen \subseteq frozen'
    BY LedgerMoves DEF LockedPicks, RefundVoidedCards
  <2>2. FrozenAreDecided /\ FrozenAreDecided'
    BY LedgerInvStep DEF LedgerInv
  <2>3. \A w \in Wallets : HasPick(w, r) => picks[w][r].locked = None
    BY <1>2, <2>1, <2>2 DEF FrozenAreDecided
  <2>4. \A w \in Wallets : HasPick(w, r)' => picks'[w][r].locked = None
    BY <1>2, <2>2 DEF FrozenAreDecided
  <2>5. QED
    BY <2>3, <2>4 DEF FrozenPicks, HasPick
<1>3. QED
  BY <1>1, <1>2

LEMMA NoFrozenPicks ==
  ASSUME LedgerInv, NEW r \in Rounds, r \notin frozen
  PROVE  FrozenPicks(r) = {}
BY DEF LedgerInv, FrozenAreDecided, FrozenPicks, HasPick

\* A step of the pick handlers alone leaves every round as it is.
LEMMA QuietPicks ==
  ASSUME LedgerInv, [PickNext]_pickVars, UNCHANGED <<storeVars, openAt>>,
         frozen' = frozen, ledger' = ledger
  PROVE  \A r \in Rounds : RowStays(r)
<1>1. \A r \in Rounds : FrozenPicks(r)' = FrozenPicks(r)
  BY FrozenPicksStay
<1>2. QED
  BY <1>1 DEF storeVars, RowStays, StoredResults, AwardsOf

-----------------------------------------------------------------------------
(***************************************************************************)
(* Types: what is restored, ticked and locked is a round's state, and what *)
(* is written back keeps the store's types.                                *)
(***************************************************************************)
LEMMA TipType ==
  ASSUME NEW rows \in Seq(Seq(Scorable))
  PROVE  Tip(rows) \in Seq(Scorable)
<1>1. CASE rows = << >>
  BY <1>1 DEF Tip
<1>2. CASE rows # << >>
  <2>1. Len(rows) \in Nat /\ Len(rows) # 0
    BY <1>2, EmptySeq, LenProperties
  <2>2. rows[Len(rows)] \in Seq(Scorable)
    BY <2>1, ElementOfSeq
  <2>3. QED
    BY <1>2, <2>2 DEF Tip
<1>3. QED
  BY <1>1, <1>2

LEMMA FrozenPicksType ==
  ASSUME LedgerInv, NEW r \in Rounds
  PROVE  FrozenPicks(r) \subseteq LockedPick
<1>1. ASSUME NEW w \in Wallets, HasPick(w, r), picks[w][r].locked # None
      PROVE  picks[w][r].locked \in Decision
  BY <1>1, RowType DEF LedgerInv, TypeInv, PickRow
<1>2. \A w : Deployed(w, r) \in BOOLEAN
  BY Zenon DEF Deployed
<1>3. QED
  BY <1>1, <1>2 DEF FrozenPicks, LockedPick, Decision

LEMMA RestoredFields ==
  ASSUME NEW r
  PROVE  /\ Restored(r).round = r
         /\ Restored(r).state = roundState[r]
         /\ Restored(r).openAt = openAt[r]
         /\ Restored(r).labels = labels[r]
         /\ Restored(r).picks = FrozenPicks(r)
         /\ Restored(r).battles =
              [s \in Slots |->
                 [state |-> battleState[r][s], chain |-> Tip(evidence[r][s])]]
BY DEF Restored, Tip

LEMMA RestoredType ==
  ASSUME RoundTypeOK, LedgerInv, NEW r \in Rounds, RowInv(r), r \in Stored
  PROVE  Restored(r) \in EngineState
<1>1. /\ roundState[r] \in RoundStates /\ openAt[r] \in Nat
      /\ labels[r] \in [Slots -> [Sides -> Labels]]
  BY DEF RoundTypeOK, RowInv, Stored
<1>2. \A s \in Slots : /\ battleState[r][s] \in BattleStates
                       /\ Tip(evidence[r][s]) \in Seq(Scorable)
  BY TipType DEF RoundTypeOK
<1>3. FrozenPicks(r) \subseteq LockedPick
  BY FrozenPicksType
<1>4. [s \in Slots |-> [state |-> battleState[r][s], chain |-> Tip(evidence[r][s])]]
        \in [Slots -> Battle]
  BY <1>2 DEF Battle
<1>5. QED
  BY <1>1, <1>3, <1>4 DEF Restored, Tip, EngineState

LEMMA ApplyTickType ==
  ASSUME NEW battle \in Battle, NEW observed \in Observations
  PROVE  ApplyTick(battle, observed) \in Battle
<1>1. CASE battle.state # "LIVE"
  BY <1>1 DEF ApplyTick
<1>2. CASE battle.state = "LIVE" /\ observed = "STALE"
  BY <1>2 DEF ApplyTick, Battle, BattleStates
<1>3. CASE battle.state = "LIVE" /\ observed # "STALE"
  <2>1. Append(battle.chain, observed) \in Seq(Scorable)
    BY <1>3 DEF Battle, Scorable
  <2>2. ApplyTick(battle, observed) = [battle EXCEPT !.chain = Append(@, observed)]
    BY <1>3 DEF ApplyTick
  <2>3. QED
    BY <2>1, <2>2 DEF Battle
<1>4. QED
  BY <1>1, <1>2, <1>3

\* A record of the engine's with its battles or picks replaced.
LEMMA EngineStateParts ==
  ASSUME NEW m \in EngineState
  PROVE  /\ m.round \in Rounds /\ m.state \in RoundStates /\ m.openAt \in Nat
         /\ m.labels \in [Slots -> [Sides -> Labels]]
         /\ m.battles \in [Slots -> Battle]
         /\ \A s \in Slots : /\ m.battles[s] \in Battle
                             /\ m.battles[s].state \in BattleStates
                             /\ m.battles[s].chain \in Seq(Scorable)
         /\ m.picks \subseteq LockedPick
         /\ \A bs \in [Slots -> Battle] :
              [m EXCEPT !.battles = bs] \in EngineState
BY DEF EngineState, Battle

LEMMA CheckpointType ==
  ASSUME NEW rows \in Seq(Seq(Scorable)), NEW battle \in Battle
  PROVE  writeCheckpoint(rows, battle) \in Seq(Seq(Scorable))
BY DEF writeCheckpoint, Battle

\* What a write of a round's state leaves in each table.
LEMMA WriteTypes ==
  ASSUME RoundTypeOK, NEW m \in EngineState, WriteState(m)
  PROVE  /\ roundState' \in [Rounds -> RoundStates \cup {None}]
         /\ battleState' \in [Rounds -> [Slots -> BattleStates]]
         /\ labels' \in [Rounds -> [Slots -> [Sides -> Labels]] \cup {None}]
         /\ evidence' \in [Rounds -> [Slots -> Seq(Seq(Scorable))]]
<1> USE EngineStateParts
<1>1. \A s \in Slots :
        writeCheckpoint(evidence[m.round][s], m.battles[s]) \in Seq(Seq(Scorable))
  BY CheckpointType DEF RoundTypeOK
<1>2. evidence' \in [Rounds -> [Slots -> Seq(Seq(Scorable))]]
  BY <1>1 DEF WriteState, RoundTypeOK
<1>3. [s \in Slots |-> m.battles[s].state] \in [Slots -> BattleStates]
  OBVIOUS
<1>4. battleState' \in [Rounds -> [Slots -> BattleStates]]
  BY <1>3 DEF WriteState, RoundTypeOK
<1>5. QED
  BY <1>2, <1>4 DEF WriteState, RoundTypeOK

\* The row of the round it is written for, and the rows it leaves alone.
LEMMA WriteRows ==
  ASSUME RoundTypeOK, NEW m \in EngineState, WriteState(m)
  PROVE  /\ roundState'[m.round] = m.state
         /\ \A s \in Slots :
              /\ battleState'[m.round][s] = m.battles[s].state
              /\ evidence'[m.round][s] =
                   writeCheckpoint(evidence[m.round][s], m.battles[s])
         /\ labels'[m.round] =
              IF labels[m.round] = None THEN m.labels ELSE labels[m.round]
         /\ \A q \in Rounds \ {m.round} :
              /\ roundState'[q] = roundState[q] /\ battleState'[q] = battleState[q]
              /\ labels'[q] = labels[q] /\ evidence'[q] = evidence[q]
<1> USE EngineStateParts
<1>1. m.round \in Rounds
  OBVIOUS
<1>2. QED
  BY <1>1 DEF WriteState, RoundTypeOK

\* The battles of a set are listed each once.
LEMMA InOrderLists ==
  ASSUME NEW slots \in SUBSET Slots
  PROVE  /\ Cardinality(slots) \in Nat
         /\ InOrder(slots) \in [1..Cardinality(slots) -> slots]
         /\ {InOrder(slots)[n] : n \in DOMAIN InOrder(slots)} = slots
<1>1. IsFiniteSet(slots)
  BY PickAssumption, FS_Subset
<1>2. PICK n \in Nat : ExistsBijection(1..n, slots)
  BY <1>1, FS_NatBijection
<1>3. Cardinality(slots) = n
  BY <1>2, FS_CountingElements
<1>4. PICK f \in Bijection(1..n, slots) : TRUE
  BY <1>2 DEF ExistsBijection
<1>5. f \in [1..n -> slots] /\ {f[k] : k \in DOMAIN f} = slots
  BY <1>4 DEF Bijection, Surjection, Injection
<1>6. QED
  BY <1>2, <1>3, <1>5 DEF InOrder

-----------------------------------------------------------------------------
(***************************************************************************)
(* One driver at a time.                                                   *)
(***************************************************************************)
LEMMA OneDriver ==
  ASSUME RoundInv, NEW i \in Instances, Running(i),
         NEW j \in Instances, j # i
  PROVE  /\ ~Running(j) /\ pc[j] = "standby" /\ mem[j] = None /\ out[j] = << >>
<1>1. lease = i /\ ~Running(j)
  BY DEF RoundInv, LeaseInv
<1>2. QED
  BY <1>1 DEF RoundInv, DriverInv, Running

LEMMA PendingType ==
  ASSUME RoundTypeOK, NEW i \in Instances
  PROVE  Pending(i) \subseteq Event
<1>1. out[i] \in Seq(Event)
  BY DEF RoundTypeOK
<1>2. QED
  BY <1>1, ElementOfSeq DEF Pending

\* An instance on standby holds nothing.
LEMMA StandbyInv ==
  ASSUME NEW i \in Instances,
         pc'[i] = "standby", mem'[i] = None, out'[i] = << >>
  PROVE  DriverInv(i)'
<1>1. Pending(i)' = {}
  BY EmptySeq DEF Pending
<1>2. QED
  BY <1>1 DEF DriverInv

\* An instance that does nothing stands where it stood if no round changes.
LEMMA DriverStays ==
  ASSUME RoundInv, NEW i \in Instances, \A r \in Rounds : RowStays(r),
         pc'[i] = pc[i], mem'[i] = mem[i], out'[i] = out[i],
         now' \in Int, now' >= now
  PROVE  DriverInv(i)'
<1>1. DriverInv(i) /\ RoundTypeOK
  BY DEF RoundInv
<1>2. /\ Stored' = Stored
      /\ \A r : Last(r)' <=> Last(r)
      /\ \A r \in Rounds : /\ roundState'[r] = roundState[r]
                           /\ openAt'[r] = openAt[r]
                           /\ Restored(r)' = Restored(r)
  BY AllStay
<1>3. \A r : Last(r) => r \in Rounds
  BY DEF Last, Stored
<1>4. InStep(i) => InStep(i)'
  BY <1>2, <1>3 DEF InStep
<1>5. NewRound(i) => NewRound(i)'
  BY <1>2 DEF NewRound, BattleEndAt, Stored
<1>6. LockUnsaved(i) => LockUnsaved(i)'
  <2> SUFFICES ASSUME NEW r \in frozen, Last(r), roundState[r] = "PICK_OPEN",
                      mem[i] = LockRound(Restored(r), FrozenPicks(r))
               PROVE  LockUnsaved(i)'
    BY DEF LockUnsaved
  <2>1. r \in Rounds /\ RowStays(r)
    BY <1>3
  <2>2. r \in frozen' /\ FrozenPicks(r)' = FrozenPicks(r)
    BY <2>1 DEF RowStays
  <2>3. mem'[i] = LockRound(Restored(r)', FrozenPicks(r)')
    BY <1>2, <2>1, <2>2
  <2>4. QED
    BY <1>2, <2>1, <2>2, <2>3 DEF LockUnsaved, LockRound
<1>7. TickUnsaved(i) => TickUnsaved(i)'
  <2> SUFFICES ASSUME NEW r \in Rounds, NEW observed \in [Slots -> Observations],
                      Last(r), roundState[r] = "BATTLE_LIVE",
                      mem[i] = Ticked(r, observed)
               PROVE  TickUnsaved(i)'
    BY DEF TickUnsaved
  <2>1. Ticked(r, observed)' = Ticked(r, observed)
    BY <1>2 DEF Ticked
  <2>2. QED
    BY <1>2, <2>1 DEF TickUnsaved
<1>8. ASSUME NEW e \in Pending(i)'
      PROVE  Truthful(e)'
  <2>1. Pending(i)' = Pending(i)
    BY DEF Pending
  <2>2. e \in Event /\ Truthful(e)
    BY <1>1, <2>1, PendingType DEF DriverInv
  <2>3. RowStays(e.round)
    BY <2>2 DEF Event
  <2>4. QED
    BY <2>2, <2>3, TruthStays
<1>9. pc[i] = "save_final" => now' >= MemEndAt(mem'[i])
  <2>1. now \in Int
    BY <1>1 DEF RoundTypeOK, PickTypeOK
  <2>2. mem[i] # None => mem[i].openAt \in Nat
    BY <1>1, EngineStateParts DEF RoundTypeOK
  <2>3. QED
    BY <1>1, <2>1, <2>2, PickAssumption DEF DriverInv, InStep, MemEndAt
<1>10. QED
  BY <1>1, <1>2, <1>4, <1>5, <1>6, <1>7, <1>8, <1>9 DEF DriverInv

-----------------------------------------------------------------------------
(***************************************************************************)
(* The steps that write nothing of a round to the store.                   *)
(***************************************************************************)
LEMMA QuietStep ==
  ASSUME RoundInv, LedgerInv', \A r \in Rounds : RowStays(r), RoundTypeOK',
         LeaseInv', \A i \in Instances : DriverInv(i)',
         \A e \in published' : e \in published \/ Truthful(e)'
  PROVE  RoundInv'
<1>1. \A r \in Rounds : RowInv(r)'
  BY RowInvStays DEF RoundInv
<1>2. OrderInv'
  BY AllStay DEF RoundInv
<1>3. ASSUME NEW e \in published' PROVE Truthful(e)'
  <2>1. CASE e \in published
    <3>1. e \in Event /\ Truthful(e)
      BY <2>1 DEF RoundInv, RoundTypeOK
    <3>2. RowStays(e.round)
      BY <3>1 DEF Event
    <3>3. QED
      BY <3>1, <3>2, TruthStays
  <2>2. QED
    BY <1>3, <2>1
<1>4. QED
  BY <1>1, <1>2, <1>3 DEF RoundInv

LEMMA Unwritten ==
  ASSUME RoundInv, UNCHANGED <<pickVars, storeVars>>
  PROVE  /\ LedgerInv' /\ PickTypeOK'
         /\ \A r \in Rounds : RowStays(r)
         /\ now' \in Int /\ now' >= now
<1>1. LedgerInv /\ [PickNext]_pickVars
  BY DEF RoundInv
<1>2. LedgerInv' /\ PickTypeOK'
  BY <1>1, LedgerInvStep DEF LedgerInv, TypeInv
<1>3. \A r \in Rounds : RowStays(r)
  BY <1>1, QuietPicks DEF pickVars
<1>4. now \in Int
  BY DEF RoundInv, RoundTypeOK, PickTypeOK
<1>5. QED
  BY <1>2, <1>3, <1>4 DEF pickVars

LEMMA WorldStep ==
  ASSUME RoundInv, World
  PROVE  RoundInv'
<1>1. LedgerInv /\ RoundTypeOK
  BY DEF RoundInv
<1>2. /\ PickNext
      /\ UNCHANGED <<storeVars, published, driverVars>>
      /\ openAt' = openAt /\ frozen' = frozen /\ ledger' = ledger
      /\ now' \in {now, now + 1}
  BY DEF World, PickNext, PickCalls, Tick, GrantCard, Receive, Refused, Submit,
         Withdraw, DecideCard
<1>3. LedgerInv' /\ PickTypeOK'
  BY <1>1, <1>2, LedgerInvStep DEF LedgerInv, TypeInv
<1>4. \A r \in Rounds : RowStays(r)
  BY <1>1, <1>2, QuietPicks
<1>5. RoundTypeOK'
  BY <1>1, <1>2, <1>3 DEF RoundTypeOK, storeVars, driverVars
<1>6. LeaseInv'
  BY <1>2 DEF RoundInv, LeaseInv, Running, driverVars
<1>7. now' \in Int /\ now' >= now
  BY <1>1, <1>2 DEF RoundTypeOK, PickTypeOK
<1>8. \A i \in Instances : DriverInv(i)'
  BY <1>2, <1>4, <1>7, DriverStays DEF driverVars
<1>9. QED
  BY <1>2, <1>3, <1>4, <1>5, <1>6, <1>8, QuietStep

LEMMA LeaseExpiresStep ==
  ASSUME RoundInv, ~StepsOutliveLease, LeaseExpires
  PROVE  RoundInv'
<1>1. LedgerInv' /\ PickTypeOK' /\ (\A r \in Rounds : RowStays(r))
      /\ now' \in Int /\ now' >= now
  BY Unwritten DEF LeaseExpires
<1>2. RoundTypeOK'
  BY <1>1 DEF LeaseExpires, RoundInv, RoundTypeOK, storeVars
<1>3. LeaseInv'
  BY RoundAssumption DEF RoundInv, LeaseInv, LeaseExpires, Running
<1>4. \A i \in Instances : DriverInv(i)'
  BY <1>1, DriverStays DEF LeaseExpires
<1>5. QED
  BY <1>1, <1>2, <1>3, <1>4, QuietStep DEF LeaseExpires

LEMMA TakeLeaseStep ==
  ASSUME RoundInv, NEW i \in Instances, TakeLease(i)
  PROVE  RoundInv'
<1>1. LedgerInv' /\ PickTypeOK' /\ (\A r \in Rounds : RowStays(r))
      /\ now' \in Int /\ now' >= now
  BY Unwritten DEF TakeLease
<1>2. RoundTypeOK'
  BY <1>1 DEF TakeLease, RoundInv, RoundTypeOK, storeVars, Steps
<1>3. pc' = [pc EXCEPT ![i] = "load"] /\ pc \in [Instances -> Steps]
  BY DEF TakeLease, RoundInv, RoundTypeOK
<1>4. LeaseInv'
  BY <1>3, RoundAssumption DEF RoundInv, LeaseInv, TakeLease, Running
<1>5. ASSUME NEW j \in Instances PROVE DriverInv(j)'
  <2>1. CASE j # i
    BY <1>1, <1>3, <2>1, DriverStays DEF TakeLease
  <2>2. CASE j = i
    <3>1. mem'[i] = None /\ out'[i] = << >>
      BY DEF RoundInv, DriverInv, TakeLease
    <3>2. Pending(i)' = {}
      BY <3>1, EmptySeq DEF Pending
    <3>3. QED
      BY <1>3, <2>2, <3>1, <3>2 DEF DriverInv
  <2>3. QED
    BY <2>1, <2>2
<1>6. QED
  BY <1>1, <1>2, <1>4, <1>5, QuietStep DEF TakeLease

\* Stopping only sets a flag.
LEMMA StopStep ==
  ASSUME RoundInv, NEW i \in Instances, Stop(i)
  PROVE  RoundInv'
<1>1. LedgerInv' /\ PickTypeOK' /\ (\A r \in Rounds : RowStays(r))
      /\ now' \in Int /\ now' >= now
  BY Unwritten DEF Stop
<1>2. RoundTypeOK'
  BY <1>1, RoundAssumption DEF Stop, RoundInv, RoundTypeOK, storeVars
<1>3. LeaseInv'
  BY DEF RoundInv, LeaseInv, Stop, Running
<1>4. \A j \in Instances : DriverInv(j)'
  BY <1>1, DriverStays DEF Stop
<1>5. QED
  BY <1>1, <1>2, <1>3, <1>4, QuietStep DEF Stop

\* A process that ends leaves the store as it is, and its lease, if it is not
\* released, to expire.
LEMMA EndStep ==
  ASSUME RoundInv, NEW i \in Instances, EndProcess(i), Running(i),
         outages' \in 0..MaxOutages, lease' \in {lease, None},
         lease' = lease \/ lease = i
  PROVE  RoundInv'
<1>1. LedgerInv' /\ PickTypeOK' /\ (\A r \in Rounds : RowStays(r))
      /\ now' \in Int /\ now' >= now
  BY Unwritten DEF EndProcess
<1>2. RoundTypeOK'
  <2>1. << >> \in Seq(Event)
    BY EmptySeq
  <2>2. QED
    BY <1>1, <2>1 DEF EndProcess, RoundInv, RoundTypeOK, storeVars, Steps
<1>3. /\ pc' = [pc EXCEPT ![i] = "standby"] /\ mem' = [mem EXCEPT ![i] = None]
      /\ out' = [out EXCEPT ![i] = << >>]
      /\ DOMAIN pc = Instances /\ DOMAIN mem = Instances /\ DOMAIN out = Instances
  BY DEF EndProcess, RoundInv, RoundTypeOK
<1>4. LeaseInv'
  BY <1>3, OneDriver DEF LeaseInv, Running
<1>5. ASSUME NEW j \in Instances PROVE DriverInv(j)'
  <2>1. CASE j # i
    BY <1>1, <1>3, <2>1, DriverStays
  <2>2. CASE j = i
    BY <1>3, <2>2, StandbyInv
  <2>3. QED
    BY <2>1, <2>2
<1>6. QED
  BY <1>1, <1>2, <1>4, <1>5, QuietStep DEF EndProcess

LEMMA HaltStep ==
  ASSUME RoundInv, NEW i \in Instances, Halt(i)
  PROVE  RoundInv'
<1>1. Running(i) /\ EndProcess(i) /\ lease' \in {lease, None}
      /\ (lease' = lease \/ lease = i) /\ outages' \in 0..MaxOutages
  BY DEF Halt, Running, RoundInv, RoundTypeOK
<1>2. QED
  BY <1>1, EndStep

LEMMA CrashStep ==
  ASSUME RoundInv, NEW i \in Instances, Crash(i)
  PROVE  RoundInv'
<1>1. Running(i) /\ EndProcess(i) /\ lease' = lease /\ outages' \in 0..MaxOutages
  BY RoundAssumption DEF Crash, RoundInv, RoundTypeOK
<1>2. QED
  BY <1>1, EndStep

-----------------------------------------------------------------------------
(***************************************************************************)
(* The driver's steps that stay in memory.                                 *)
(***************************************************************************)
LEMMA LastRound ==
  ASSUME RoundInv, NEW r, Last(r)
  PROVE  /\ r \in Rounds /\ r \in Nat /\ roundState[r] \in RoundStates
         /\ openAt[r] \in Nat /\ labels[r] \in [Slots -> [Sides -> Labels]]
         /\ Restored(r) \in EngineState /\ Restored(r) # None
         /\ \A q \in Rounds :
              q < r => roundState[q] = "FINALIZED" /\ openAt[r] >= BattleEndAt(q)
<1>1. r \in Stored /\ r \in Rounds /\ roundState[r] # None
  BY DEF Last, Stored
<1>2. RoundTypeOK /\ LedgerInv /\ RowInv(r) /\ OrderInv
  BY <1>1 DEF RoundInv
<1>3. Restored(r) \in EngineState
  BY <1>1, <1>2, RestoredType
<1>4. QED
  BY <1>1, <1>2, <1>3, PickAssumption, RoundAssumption
     DEF RowInv, OrderInv, RoundTypeOK

\* loadLatest restores the last round: its opening is later than any other's.
LEMMA LoadLatestIsLast ==
  ASSUME RoundInv
  PROVE  \/ Stored = {} /\ LoadLatest = None
         \/ Stored # {} /\ \E r \in Rounds : Last(r) /\ LoadLatest = Restored(r)
<1>1. CASE Stored = {}
  BY <1>1 DEF LoadLatest
<1>2. CASE Stored # {}
  <2>1. PICK r \in Rounds : Last(r)
    BY <1>2 DEF RoundInv, OrderInv
  <2>2. ASSUME NEW q \in Stored PROVE openAt[q] <= openAt[r]
    <3>1. q \in Rounds /\ q \in Nat /\ openAt[q] \in Nat /\ q <= r
      BY <2>1, PickAssumption DEF Stored, Last, RoundInv, RowInv
    <3>2. q < r => openAt[r] >= openAt[q] + RoundLength
      BY <2>1, <3>1, LastRound DEF BattleEndAt
    <3>3. QED
      BY <2>1, <3>1, <3>2, LastRound, PickAssumption
  <2>3. ASSUME NEW q \in Stored, \A p \in Stored : openAt[p] <= openAt[q]
        PROVE  q = r
    <3>1. q \in Rounds /\ q \in Nat /\ openAt[q] \in Nat /\ q <= r
      BY <2>1, PickAssumption DEF Stored, Last, RoundInv, RowInv
    <3>2. q < r => openAt[r] >= openAt[q] + RoundLength
      BY <2>1, <3>1, LastRound DEF BattleEndAt
    <3>3. openAt[r] <= openAt[q]
      BY <2>1, <2>3 DEF Last
    <3>4. openAt[r] \in Nat /\ r \in Nat /\ RoundLength \in Nat /\ RoundLength > 0
      BY <2>1, LastRound, PickAssumption
    <3>5. QED
      BY <3>1, <3>2, <3>3, <3>4
  <2>4. r \in Stored
    BY <2>1 DEF Last
  <2>5. (CHOOSE q \in Stored : \A p \in Stored : openAt[p] <= openAt[q]) = r
    BY <2>2, <2>3, <2>4
  <2>6. QED
    BY <1>2, <2>1, <2>5 DEF LoadLatest
<1>3. QED
  BY <1>1, <1>2

\* A step of one driver that writes nothing keeps the invariant if the driver
\* stands right after it and whatever it published is true.
LEMMA DriverQuiet ==
  ASSUME RoundInv, NEW i \in Instances, Running(i),
         UNCHANGED <<pickVars, storeVars, lease, stopping, outages>>,
         NEW p \in Steps, pc' = [pc EXCEPT ![i] = p],
         NEW m \in EngineState \cup {None}, mem' = [mem EXCEPT ![i] = m],
         NEW o \in Seq(Event), out' = [out EXCEPT ![i] = o],
         DriverInv(i)',
         \A e \in published' : e \in published \/ (e \in Event /\ Truthful(e)')
  PROVE  RoundInv'
<1>1. LedgerInv' /\ PickTypeOK' /\ (\A r \in Rounds : RowStays(r))
      /\ now' \in Int /\ now' >= now
  BY Unwritten
<1>2. RoundTypeOK'
  <2>1. published' \subseteq Event
    BY DEF RoundInv, RoundTypeOK
  <2>2. QED
    BY <1>1, <2>1 DEF RoundInv, RoundTypeOK, storeVars
<1>3. DOMAIN pc = Instances /\ DOMAIN mem = Instances /\ DOMAIN out = Instances
  BY DEF RoundInv, RoundTypeOK
<1>4. LeaseInv'
  BY <1>3 DEF RoundInv, LeaseInv, Running
<1>5. ASSUME NEW j \in Instances PROVE DriverInv(j)'
  <2>1. CASE j # i
    BY <1>1, <1>3, <2>1, DriverStays
  <2>2. QED
    BY <2>1
<1>6. QED
  BY <1>1, <1>2, <1>4, <1>5, QuietStep

\* Where no event waits, none has to be true.
LEMMA NothingPending ==
  ASSUME NEW i \in Instances, out'[i] = << >>
  PROVE  Pending(i)' = {}
BY EmptySeq DEF Pending

LEMMA LoadStep ==
  ASSUME RoundInv, NEW i \in Instances, Load(i)
  PROVE  RoundInv'
<1>1. Running(i) /\ out[i] = << >> /\ out \in [Instances -> Seq(Event)]
      /\ pc \in [Instances -> Steps] /\ DOMAIN mem = Instances
  BY DEF Load, Running, RoundInv, DriverInv, RoundTypeOK
<1>2. out' = [out EXCEPT ![i] = << >>] /\ out'[i] = << >> /\ << >> \in Seq(Event)
  BY <1>1, EmptySeq DEF Load
<1>3. PICK p \in {"opening", "loop"} :
        /\ pc' = [pc EXCEPT ![i] = p]
        /\ p = IF LoadLatest = None THEN "opening"
               ELSE IF LoadLatest.state = "FINALIZED" THEN "opening" ELSE "loop"
  BY DEF Load, Goto
<1>4. LoadLatest \in EngineState \cup {None}
  BY LoadLatestIsLast, LastRound
<1>5. /\ Stored' = Stored /\ \A r : Last(r)' <=> Last(r)
      /\ \A r \in Rounds : Restored(r)' = Restored(r)
  BY Unwritten, AllStay DEF Load
<1>6. mem'[i] = LoadLatest /\ pc'[i] = p
  BY <1>1, <1>3 DEF Load
<1>7. DriverInv(i)'
  <2>1. CASE Stored = {} /\ LoadLatest = None
    BY <1>2, <1>3, <1>5, <1>6, <2>1, NothingPending DEF DriverInv
  <2>2. ASSUME NEW r \in Rounds, Last(r), LoadLatest = Restored(r)
        PROVE  DriverInv(i)'
    <3>1. Restored(r).round = r /\ Restored(r) # None
      BY <2>2, LastRound, RestoredFields
    <3>2. InStep(i)'
      BY <1>5, <1>6, <2>2, <3>1 DEF InStep
    <3>3. mem'[i].state = "FINALIZED" <=> p = "opening"
      BY <1>3, <1>6, <2>2, <3>1
    <3>4. QED
      BY <1>2, <1>3, <1>6, <3>2, <3>3, NothingPending DEF DriverInv, InStep
  <2>3. QED
    BY <2>1, <2>2, LoadLatestIsLast
<1>8. p \in Steps
  BY DEF Steps
<1>9. QED
  BY <1>1, <1>2, <1>3, <1>4, <1>7, <1>8, DriverQuiet DEF Load

LEMMA OpenNextStep ==
  ASSUME RoundInv, NEW i \in Instances, OpenNext(i)
  PROVE  RoundInv'
<1>1. Running(i) /\ out[i] = << >> /\ out \in [Instances -> Seq(Event)]
      /\ pc \in [Instances -> Steps] /\ DOMAIN mem = Instances
      /\ now \in Nat
  BY DEF OpenNext, Running, RoundInv, DriverInv, RoundTypeOK, PickTypeOK
<1>2. out' = [out EXCEPT ![i] = << >>] /\ out'[i] = << >> /\ << >> \in Seq(Event)
  BY <1>1, EmptySeq DEF OpenNext
<1>3. pc' = [pc EXCEPT ![i] = "save_open"] /\ pc'[i] = "save_open"
  BY <1>1 DEF OpenNext, Goto
<1>4. PICK intel \in [Slots -> [Sides -> Labels]], r \in Rounds, at \in Int :
        /\ mem' = [mem EXCEPT ![i] = CreateRound(r, at, intel)]
        /\ r = NextIndex(mem[i]) /\ at = NextOpening(mem[i])
  <2>1. NextOpening(mem[i]) \in Int
    <3>1. mem[i] # None => mem[i].openAt \in Nat
      BY EngineStateParts DEF RoundInv, RoundTypeOK
    <3>2. QED
      BY <1>1, <3>1, PickAssumption DEF NextOpening, Later
  <2>2. QED
    BY <2>1 DEF OpenNext
<1>5. mem'[i] = CreateRound(r, at, intel)
  BY <1>1, <1>4
<1>6. /\ Stored' = Stored
      /\ \A q \in Rounds : roundState'[q] = roundState[q] /\ openAt'[q] = openAt[q]
  BY Unwritten, AllStay DEF OpenNext
<1>7. /\ at \in Nat /\ roundState[r] = None /\ \A q \in Stored : q < r
      /\ \A q \in Rounds :
           q < r => roundState[q] = "FINALIZED" /\ at >= BattleEndAt(q)
  <2>1. CASE mem[i] = None
    <3>1. Stored = {} /\ r = 0 /\ at = now
      BY <1>4, <2>1 DEF RoundInv, DriverInv, OpenNext, NextIndex, NextOpening
    <3>2. QED
      BY <1>1, <3>1, PickAssumption DEF Stored
  <2>2. CASE mem[i] # None
    <3>1. PICK l \in Rounds : Last(l) /\ mem[i] = Restored(l)
                              /\ roundState[l] = "FINALIZED"
      <4>1. InStep(i) /\ mem[i].state = "FINALIZED"
        BY <2>2 DEF RoundInv, DriverInv, OpenNext
      <4>2. PICK l : l = mem[i].round
        OBVIOUS
      <4>3. Last(l) /\ mem[i] = Restored(l) /\ l \in Rounds
        BY <4>1, <4>2 DEF InStep, Last, Stored
      <4>4. roundState[l] = "FINALIZED"
        BY <4>1, <4>3, RestoredFields
      <4>5. QED
        BY <4>3, <4>4
    <3>2. /\ l \in Nat /\ openAt[l] \in Nat
          /\ \A q \in Rounds :
              q < l => roundState[q] = "FINALIZED" /\ openAt[l] >= BattleEndAt(q)
      BY <3>1, LastRound
    <3>3. /\ r = l + 1
          /\ at >= openAt[l] + RoundLength /\ at \in Nat
      <4>1. mem[i].round = l /\ mem[i].openAt = openAt[l]
        BY <3>1, RestoredFields
      <4>2. r = l + 1 /\ at = Later(openAt[l] + RoundLength, now)
        BY <1>4, <2>2, <4>1 DEF NextIndex, NextOpening
      <4>3. RoundLength \in Nat
        BY PickAssumption
      <4>4. QED
        BY <1>1, <3>2, <4>2, <4>3 DEF Later
    <3>4. \A q \in Stored : q \in Nat /\ q <= l
      BY <3>1, PickAssumption DEF Last, Stored
    <3>5. \A q \in Stored : q < r
      BY <3>2, <3>3, <3>4
    <3>6. roundState[r] = None
      BY <3>2, <3>5, <3>3 DEF Stored
    <3>7. ASSUME NEW q \in Rounds, q < r
          PROVE  roundState[q] = "FINALIZED" /\ at >= BattleEndAt(q)
      <4>1. q \in Nat
        BY PickAssumption
      <4>2. CASE q = l
        BY <3>1, <3>3, <4>2 DEF BattleEndAt
      <4>3. CASE q < l
        <5>1. roundState[q] = "FINALIZED" /\ openAt[l] >= BattleEndAt(q)
          BY <3>2, <4>3
        <5>2. openAt[q] \in Nat
          BY <5>1, RoundAssumption DEF RoundInv, RowInv, RoundStates
        <5>3. QED
          BY <3>2, <3>3, <5>1, <5>2, PickAssumption DEF BattleEndAt
      <4>4. QED
        BY <3>2, <3>3, <3>7, <4>1, <4>2, <4>3
    <3>8. QED
      BY <3>3, <3>5, <3>6, <3>7
  <2>3. QED
    BY <2>1, <2>2
<1>8. CreateRound(r, at, intel).openAt = at
      /\ CreateRound(r, at, intel) \in EngineState
  <2>1. << >> \in Seq(Scorable)
    BY EmptySeq
  <2>2. QED
    BY <1>7, <2>1
       DEF CreateRound, EngineState, RoundStates, Battle, BattleStates
<1>9. NewRound(i)'
  BY <1>5, <1>6, <1>7, <1>8 DEF NewRound, BattleEndAt, Stored
<1>10. DriverInv(i)'
  BY <1>2, <1>3, <1>9, NothingPending DEF DriverInv
<1>11. "save_open" \in Steps
  BY DEF Steps
<1>12. QED
  BY <1>1, <1>2, <1>3, <1>4, <1>8, <1>10, <1>11, DriverQuiet DEF OpenNext

LEMMA InStepFacts ==
  ASSUME RoundInv, NEW i \in Instances, InStep(i)
  PROVE  \E r \in Rounds :
           /\ Last(r) /\ mem[i] = Restored(r) /\ mem[i].round = r
           /\ mem[i].state = roundState[r] /\ mem[i].openAt = openAt[r]
           /\ mem[i].labels = labels[r] /\ mem[i].picks = FrozenPicks(r)
           /\ mem[i] \in EngineState
<1>1. PICK r : r = mem[i].round
  OBVIOUS
<1>2. Last(r) /\ mem[i] = Restored(r)
  BY <1>1 DEF InStep
<1>3. QED
  BY ZenonT(60), <1>1, <1>2, LastRound, RestoredFields

LEMMA TickedType ==
  ASSUME RoundInv, NEW r, Last(r), NEW observed \in [Slots -> Observations]
  PROVE  Ticked(r, observed) \in EngineState
<1>1. Restored(r) \in EngineState
  BY LastRound
<1>2. \A s \in Slots : ApplyTick(Restored(r).battles[s], observed[s]) \in Battle
  BY <1>1, EngineStateParts, ApplyTickType
<1>3. [s \in Slots |-> ApplyTick(Restored(r).battles[s], observed[s])]
        \in [Slots -> Battle]
  BY <1>2
<1>4. QED
  BY <1>1, <1>3, EngineStateParts DEF Ticked

LEMMA PerformTickStep ==
  ASSUME RoundInv, NEW i \in Instances, PerformTick(i)
  PROVE  RoundInv'
<1>1. Running(i) /\ out[i] = << >> /\ out \in [Instances -> Seq(Event)]
      /\ pc \in [Instances -> Steps] /\ DOMAIN mem = Instances
  BY DEF PerformTick, Running, RoundInv, DriverInv, RoundTypeOK
<1>2. out' = [out EXCEPT ![i] = << >>] /\ out'[i] = << >> /\ << >> \in Seq(Event)
  BY <1>1, EmptySeq DEF PerformTick
<1>3. pc' = [pc EXCEPT ![i] = "save_tick"] /\ pc'[i] = "save_tick"
  BY <1>1 DEF PerformTick, Goto
<1>4. PICK r \in Rounds : Last(r) /\ mem[i] = Restored(r)
                          /\ roundState[r] = "BATTLE_LIVE"
  BY InStepFacts DEF PerformTick, RoundInv, DriverInv
<1>5. PICK observed \in [Slots -> Observations] :
        mem' = [mem EXCEPT ![i].battles =
                 [s \in Slots |-> ApplyTick(mem[i].battles[s], observed[s])]]
  BY DEF PerformTick
<1>6. mem' = [mem EXCEPT ![i] = Ticked(r, observed)]
  BY <1>1, <1>4, <1>5 DEF Ticked
<1>7. mem'[i] = Ticked(r, observed)
  BY <1>1, <1>6
<1>8. Ticked(r, observed)' = Ticked(r, observed) /\ Last(r)'
      /\ roundState'[r] = roundState[r]
  BY <1>4, Unwritten, AllStay DEF PerformTick, Ticked
<1>9. TickUnsaved(i)'
  BY <1>4, <1>7, <1>8 DEF TickUnsaved
<1>10. DriverInv(i)'
  BY <1>2, <1>3, <1>9, NothingPending DEF DriverInv
<1>11. "save_tick" \in Steps /\ Ticked(r, observed) \in EngineState
  BY <1>4, TickedType DEF Steps
<1>12. QED
  BY <1>1, <1>2, <1>3, <1>6, <1>10, <1>11, DriverQuiet DEF PerformTick

LEMMA PerformFinalizeStep ==
  ASSUME RoundInv, NEW i \in Instances, PerformFinalize(i)
  PROVE  RoundInv'
<1>1. Running(i) /\ out[i] = << >> /\ out \in [Instances -> Seq(Event)]
      /\ pc \in [Instances -> Steps]
      /\ mem \in [Instances -> EngineState \cup {None}]
  BY DEF PerformFinalize, Running, RoundInv, DriverInv, RoundTypeOK
<1>2. out' = [out EXCEPT ![i] = << >>] /\ out'[i] = << >> /\ << >> \in Seq(Event)
  BY <1>1, EmptySeq DEF PerformFinalize
<1>3. pc' = [pc EXCEPT ![i] = "save_final"] /\ pc'[i] = "save_final"
  BY <1>1 DEF PerformFinalize, Goto
<1>4. mem' = [mem EXCEPT ![i] = mem[i]] /\ mem'[i] = mem[i]
  BY <1>1 DEF PerformFinalize
<1>5. InStep(i)
  BY DEF PerformFinalize, RoundInv, DriverInv
<1>6. PICK r \in Rounds : Last(r) /\ mem[i] = Restored(r) /\ mem[i].round = r
  BY <1>5, InStepFacts
<1>7. Restored(r)' = Restored(r) /\ Last(r)' /\ now' = now
  BY <1>6, Unwritten, AllStay DEF PerformFinalize, pickVars
<1>8. InStep(i)'
  BY <1>4, <1>5, <1>6, <1>7 DEF InStep
<1>9. DriverInv(i)'
  BY <1>2, <1>3, <1>4, <1>7, <1>8, NothingPending
     DEF DriverInv, PerformFinalize, MemEndAt
<1>10. "save_final" \in Steps
  BY DEF Steps
<1>11. QED
  BY <1>1, <1>2, <1>3, <1>4, <1>9, <1>10, DriverQuiet DEF PerformFinalize

\* Where a driver is after it announces events of a round it stands right after.
LEMMA AnnounceInv ==
  ASSUME NEW i \in Instances, NEW m, NEW events \in Seq(Event),
         pc \in [Instances -> Steps], out \in [Instances -> Seq(Event)],
         Announce(i, events, m), InStep(i)',
         events = << >> => (m.state = "FINALIZED" <=> mem'[i].state = "FINALIZED"),
         \A e \in {events[n] : n \in 1..Len(events)} : Truthful(e)'
  PROVE  /\ DriverInv(i)'
         /\ out' = [out EXCEPT ![i] = events]
         /\ \E p \in Steps : pc' = [pc EXCEPT ![i] = p]
<1>1. PICK p \in {"publish", "opening", "loop"} :
        /\ pc' = [pc EXCEPT ![i] = p]
        /\ p = IF events # << >> THEN "publish"
               ELSE IF m.state = "FINALIZED" THEN "opening" ELSE "loop"
  BY DEF Announce, Goto
<1>2. out' = [out EXCEPT ![i] = events]
  BY DEF Announce
<1>3. pc'[i] = p /\ out'[i] = events
  BY <1>1, <1>2
<1>4. Pending(i)' = {events[n] : n \in 1..Len(events)}
  BY <1>3 DEF Pending
<1>5. mem'[i] # None
  BY DEF InStep
<1>6. DriverInv(i)'
  BY <1>1, <1>3, <1>4, <1>5 DEF DriverInv
<1>7. QED
  BY <1>1, <1>2, <1>6 DEF Steps

LEMMA PublishStep ==
  ASSUME RoundInv, NEW i \in Instances, Publish(i)
  PROVE  RoundInv'
<1>1. Running(i) /\ out \in [Instances -> Seq(Event)] /\ out[i] # << >>
      /\ pc \in [Instances -> Steps] /\ InStep(i)
      /\ mem \in [Instances -> EngineState \cup {None}]
  BY DEF Publish, Running, RoundInv, DriverInv, RoundTypeOK
<1>2. mem' = [mem EXCEPT ![i] = mem[i]] /\ mem'[i] = mem[i]
  BY <1>1 DEF Publish
<1>3. PICK r \in Rounds : Last(r) /\ mem[i] = Restored(r) /\ mem[i].round = r
  BY <1>1, InStepFacts
<1>4. Restored(r)' = Restored(r) /\ Last(r)' /\ \A q \in Rounds : RowStays(q)
  BY <1>3, Unwritten, AllStay DEF Publish
<1>5. InStep(i)'
  BY <1>1, <1>2, <1>3, <1>4 DEF InStep
<1>6. ASSUME NEW e \in Pending(i) PROVE e \in Event /\ Truthful(e)'
  <2>1. e \in Event /\ Truthful(e)
    BY PendingType DEF RoundInv, DriverInv
  <2>2. RowStays(e.round)
    BY <1>4, <2>1 DEF Event
  <2>3. QED
    BY <2>1, <2>2, TruthStays
<1>7. PICK events \in Seq(Event) : events = Tail(out[i])
  BY <1>1, HeadTailProperties
<1>8. /\ Head(out[i]) \in Pending(i)
      /\ {events[n] : n \in 1..Len(events)} \subseteq Pending(i)
  <2>1. /\ Len(out[i]) \in Nat /\ Len(out[i]) # 0
        /\ Head(out[i]) = out[i][1] /\ Len(events) = Len(out[i]) - 1
        /\ \A n \in 1..Len(events) : events[n] = out[i][n + 1]
    BY <1>1, <1>7, HeadTailProperties, EmptySeq, LenProperties
  <2>2. QED
    BY <2>1 DEF Pending
<1>9. Announce(i, events, mem[i])
  BY <1>7 DEF Publish
<1>10. /\ DriverInv(i)' /\ out' = [out EXCEPT ![i] = events]
       /\ \E p \in Steps : pc' = [pc EXCEPT ![i] = p]
  BY <1>1, <1>2, <1>5, <1>6, <1>8, <1>9, AnnounceInv
<1>11. \A e \in published' : e \in published \/ (e \in Event /\ Truthful(e)')
  BY <1>6, <1>8 DEF Publish
<1>12. QED
  BY <1>1, <1>2, <1>10, <1>11, DriverQuiet DEF Publish

-----------------------------------------------------------------------------
(***************************************************************************)
(* Checkpoints.                                                            *)
(***************************************************************************)

\* The newest checkpoint folds as many ticks as there are checkpoints.
LEMMA TipLength ==
  ASSUME NEW rows \in Seq(Seq(Scorable)), Chained(rows)
  PROVE  Len(Tip(rows)) = Len(rows) /\ Len(rows) \in Nat
<1>1. Len(rows) \in Nat
  BY LenProperties
<1>2. CASE rows = << >>
  BY <1>1, <1>2, EmptySeq DEF Tip
<1>3. CASE rows # << >>
  <2>1. Len(rows) \in 1..Len(rows)
    BY <1>1, <1>3, EmptySeq, LenProperties
  <2>2. QED
    BY <1>1, <1>3, <2>1 DEF Tip, Chained
<1>4. QED
  BY <1>2, <1>3

\* A battle no tick has scored since its newest checkpoint writes none.
LEMMA NoCheckpoint ==
  ASSUME NEW rows \in Seq(Seq(Scorable)), Chained(rows),
         NEW battle, battle.chain = Tip(rows)
  PROVE  writeCheckpoint(rows, battle) = rows
BY TipLength DEF writeCheckpoint

\* A scored tick adds the checkpoint that extends the newest one.
LEMMA NextCheckpoint ==
  ASSUME NEW rows \in Seq(Seq(Scorable)), Chained(rows), NEW o \in Scorable,
         NEW battle, battle.chain = Append(Tip(rows), o)
  PROVE  /\ writeCheckpoint(rows, battle) = Append(rows, battle.chain)
         /\ Chained(Append(rows, battle.chain))
         /\ Tip(Append(rows, battle.chain)) = battle.chain
<1> DEFINE more == Append(rows, battle.chain)
           tip == Tip(rows)
<1>1. tip \in Seq(Scorable) /\ Len(tip) = Len(rows) /\ Len(rows) \in Nat
  BY TipType, TipLength
<1>2. battle.chain \in Seq(Scorable) /\ Len(battle.chain) = Len(rows) + 1
  BY <1>1, AppendProperties
<1>3. /\ more \in Seq(Seq(Scorable)) /\ Len(more) = Len(rows) + 1
      /\ \A n \in 1..Len(rows) : more[n] = rows[n]
      /\ more[Len(rows) + 1] = battle.chain
      /\ more # << >>
  BY <1>2, AppendProperties
<1>4. writeCheckpoint(rows, battle) = more
  BY <1>1, <1>2 DEF writeCheckpoint
<1>5. Tip(more) = battle.chain
  BY <1>3 DEF Tip
<1>6. Chained(more)
  <2> SUFFICES ASSUME NEW n \in 1..Len(more)
               PROVE  /\ Len(more[n]) = n
                      /\ n > 1 => SubSeq(more[n], 1, n - 1) = more[n - 1]
    BY DEF Chained
  <2>1. CASE n \in 1..Len(rows)
    <3>1. more[n] = rows[n] /\ (n > 1 => more[n - 1] = rows[n - 1])
      BY <1>1, <1>3, <2>1
    <3>2. QED
      BY <2>1, <3>1 DEF Chained
  <2>2. CASE n = Len(rows) + 1
    <3>1. ASSUME n > 1 PROVE SubSeq(battle.chain, 1, n - 1) = rows[n - 1]
      <4>1. rows # << >> /\ n - 1 = Len(rows)
        BY <1>1, <2>2, <3>1, EmptySeq
      <4>2. rows[n - 1] = tip
        BY <4>1 DEF Tip
      <4>3. SubSeq(Append(tip, o), 1, Len(tip)) = tip
        <5> HIDE DEF tip
        <5>1. QED
          BY <1>1
      <4>4. QED
        BY <1>1, <4>1, <4>2, <4>3
    <3>2. n - 1 \in 1..Len(rows) \/ ~(n > 1)
      BY <1>1, <2>2
    <3>3. QED
      BY <1>1, <1>2, <1>3, <2>2, <3>1, <3>2
  <2>3. QED
    BY <1>1, <1>3, <2>1, <2>2
<1>7. QED
  BY <1>4, <1>5, <1>6

-----------------------------------------------------------------------------
(***************************************************************************)
(* The driver's steps that write to the store.                             *)
(***************************************************************************)

\* What is left to show of a step that writes.
LEMMA DriverWrote ==
  ASSUME RoundInv, NEW i \in Instances, Running(i),
         UNCHANGED <<published, lease, stopping, outages>>,
         LedgerInv',
         roundState' \in [Rounds -> RoundStates \cup {None}],
         battleState' \in [Rounds -> [Slots -> BattleStates]],
         labels' \in [Rounds -> [Slots -> [Sides -> Labels]] \cup {None}],
         evidence' \in [Rounds -> [Slots -> Seq(Seq(Scorable))]],
         results' \subseteq Result, wpLedger' \subseteq Award,
         NEW m \in EngineState \cup {None}, mem' = [mem EXCEPT ![i] = m],
         NEW o \in Seq(Event), out' = [out EXCEPT ![i] = o],
         \E p \in Steps : pc' = [pc EXCEPT ![i] = p],
         DriverInv(i)', OrderInv', \A r \in Rounds : RowInv(r)',
         \A e \in published : Truthful(e)'
  PROVE  RoundInv'
<1>1. PICK p \in Steps : pc' = [pc EXCEPT ![i] = p]
  OBVIOUS
<1>2. RoundTypeOK'
  BY <1>1 DEF RoundInv, RoundTypeOK, LedgerInv, TypeInv
<1>3. DOMAIN pc = Instances /\ DOMAIN mem = Instances /\ DOMAIN out = Instances
  BY DEF RoundInv, RoundTypeOK
<1>4. LeaseInv'
  BY <1>1, <1>3 DEF RoundInv, LeaseInv, Running
<1>5. ASSUME NEW j \in Instances, j # i PROVE DriverInv(j)'
  <2>1. pc'[j] = "standby" /\ mem'[j] = None /\ out'[j] = << >>
    BY <1>1, <1>3, <1>5, OneDriver
  <2>2. QED
    BY <2>1, StandbyInv
<1>6. QED
  BY <1>2, <1>4, <1>5 DEF RoundInv

\* Rounds keep their order when the last one, not settled before, is written.
LEMMA OrderKept ==
  ASSUME RoundInv, NEW r, Last(r), roundState[r] # "FINALIZED",
         roundState'[r] # None, openAt' = openAt,
         \A q \in Rounds \ {r} : roundState'[q] = roundState[q]
  PROVE  OrderInv' /\ Stored' = Stored /\ Last(r)'
<1>1. r \in Rounds /\ roundState[r] # None
  BY DEF Last, Stored
<1>2. Stored' = Stored
  BY <1>1 DEF Stored
<1>3. \A q : Last(q)' <=> Last(q)
  BY <1>2 DEF Last
<1>4. OrderInv'
  BY <1>2, <1>3 DEF RoundInv, OrderInv, BattleEndAt
<1>5. QED
  BY <1>2, <1>3, <1>4

\* Events of a round stay true while it moves towards its settlement and its
\* evidence grows.
LEMMA TruthGrows ==
  ASSUME NEW e \in Event, Truthful(e), roundState[e.round] # "FINALIZED",
         roundState'[e.round] \in {"BATTLE_LIVE", "FINALIZED"},
         evidence \in [Rounds -> [Slots -> Seq(Seq(Scorable))]],
         \A s \in Slots :
           \/ evidence'[e.round][s] = evidence[e.round][s]
           \/ \E c \in Seq(Scorable) :
                evidence'[e.round][s] = Append(evidence[e.round][s], c)
  PROVE  Truthful(e)'
<1>1. roundState'[e.round] # None
  BY RoundAssumption DEF RoundStates
<1>2. e.kind # "BATTLE_VOID" /\ e.kind # "ROUND_FINALIZED"
  BY DEF Truthful
<1>3. ASSUME e.kind = "BATTLE_STATE_UPDATE"
      PROVE  /\ Len(e.chain) \in 1..Len(evidence'[e.round][e.slot])
             /\ evidence'[e.round][e.slot][Len(e.chain)] = e.chain
  <2>1. e.round \in Rounds /\ e.slot \in Slots
    BY <1>3 DEF Event
  <2>2. PICK rows \in Seq(Seq(Scorable)) : rows = evidence[e.round][e.slot]
    BY <2>1
  <2>3. Len(e.chain) \in 1..Len(rows) /\ rows[Len(e.chain)] = e.chain
    BY <1>3, <2>2 DEF Truthful
  <2>4. CASE evidence'[e.round][e.slot] = rows
    BY <2>3, <2>4
  <2>5. ASSUME NEW c \in Seq(Scorable), evidence'[e.round][e.slot] = Append(rows, c)
        PROVE  /\ Len(e.chain) \in 1..Len(evidence'[e.round][e.slot])
               /\ evidence'[e.round][e.slot][Len(e.chain)] = e.chain
    <3>1. /\ Len(rows) \in Nat /\ Len(Append(rows, c)) = Len(rows) + 1
          /\ \A n \in 1..Len(rows) : Append(rows, c)[n] = rows[n]
      BY AppendProperties, LenProperties
    <3>2. QED
      BY <2>3, <2>5, <3>1
  <2>6. QED
    BY <2>1, <2>2, <2>4, <2>5
<1>4. QED
  BY <1>1, <1>2, <1>3 DEF Truthful

\* What saving the last round leaves in the store is what was saved.
LEMMA SaveRow ==
  ASSUME RoundInv, NEW r, Last(r), roundState[r] # "FINALIZED",
         NEW m \in EngineState, m.round = r, m.openAt = openAt[r],
         m.labels = labels[r], m.picks = FrozenPicks(r),
         m.state \in {"BATTLE_LIVE", "FINALIZED"},
         \A s \in Slots :
           \/ m.battles[s].chain = Tip(evidence[r][s])
           \/ \E o \in Scorable :
                m.battles[s].chain = Append(Tip(evidence[r][s]), o),
         WriteState(m), openAt' = openAt, FrozenPicks(r)' = FrozenPicks(r)
  PROVE  /\ OrderInv' /\ Stored' = Stored /\ Last(r)'
         /\ Restored(r)' = m
         /\ roundState'[r] = m.state /\ labels'[r] = labels[r]
         /\ \A s \in Slots :
              /\ battleState'[r][s] = m.battles[s].state
              /\ Chained(evidence'[r][s])
              /\ Tip(evidence'[r][s]) = m.battles[s].chain
              /\ \/ evidence'[r][s] = evidence[r][s]
                 \/ \E c \in Seq(Scorable) :
                      evidence'[r][s] = Append(evidence[r][s], c)
<1>1. /\ RoundTypeOK /\ RowInv(r) /\ r \in Rounds
      /\ roundState[r] # None
  BY DEF RoundInv, Last, Stored
<1>2. /\ roundState'[r] = m.state
      /\ \A s \in Slots :
           /\ battleState'[r][s] = m.battles[s].state
           /\ evidence'[r][s] = writeCheckpoint(evidence[r][s], m.battles[s])
      /\ labels'[r] = labels[r]
      /\ \A q \in Rounds \ {r} : roundState'[q] = roundState[q]
  BY <1>1, WriteRows
<1>3. m.state # None
  BY EngineStateParts, RoundAssumption
<1>4. OrderInv' /\ Stored' = Stored /\ Last(r)'
  BY <1>2, <1>3, OrderKept
<1>5. ASSUME NEW s \in Slots
      PROVE  /\ Chained(evidence'[r][s])
             /\ Tip(evidence'[r][s]) = m.battles[s].chain
             /\ \/ evidence'[r][s] = evidence[r][s]
                \/ \E c \in Seq(Scorable) :
                     evidence'[r][s] = Append(evidence[r][s], c)
  <2>1. PICK rows \in Seq(Seq(Scorable)) :
          rows = evidence[r][s] /\ Chained(rows)
    BY <1>1 DEF RoundTypeOK, RowInv
  <2>2. evidence'[r][s] = writeCheckpoint(rows, m.battles[s])
    BY <1>2, <2>1
  <2>3. CASE m.battles[s].chain = Tip(rows)
    BY <2>1, <2>2, <2>3, NoCheckpoint
  <2>4. ASSUME NEW o \in Scorable, m.battles[s].chain = Append(Tip(rows), o)
        PROVE  /\ Chained(evidence'[r][s])
               /\ Tip(evidence'[r][s]) = m.battles[s].chain
               /\ evidence'[r][s] = Append(rows, m.battles[s].chain)
    <3>1. PICK battle : battle = m.battles[s]
      OBVIOUS
    <3>2. battle.chain = Append(Tip(rows), o)
      BY <2>4, <3>1
    <3>3. /\ writeCheckpoint(rows, battle) = Append(rows, battle.chain)
          /\ Chained(Append(rows, battle.chain))
          /\ Tip(Append(rows, battle.chain)) = battle.chain
      BY <2>1, <3>2, NextCheckpoint
    <3>4. QED
      BY <2>2, <3>1, <3>3
  <2>5. m.battles[s].chain \in Seq(Scorable)
    BY EngineStateParts
  <2>6. QED
    BY <2>1, <2>3, <2>4, <2>5
<1>6. Restored(r)' = m
  <2>1. m.battles = [s \in Slots |->
                       [state |-> battleState'[r][s], chain |-> Tip(evidence'[r][s])]]
    <3>1. m.battles \in [Slots -> Battle]
      BY EngineStateParts
    <3>2. \A s \in Slots :
            m.battles[s] = [state |-> battleState'[r][s], chain |-> Tip(evidence'[r][s])]
      BY <1>2, <1>5, <3>1 DEF Battle
    <3>3. QED
      BY <3>1, <3>2
  <2>2. Restored(r)' =
          [round |-> r, state |-> m.state, openAt |-> m.openAt,
           labels |-> m.labels, battles |-> m.battles, picks |-> m.picks]
    BY <1>2, <2>1 DEF Restored, Tip
  <2>3. QED
    BY <2>2 DEF EngineState
<1>7. QED
  BY <1>2, <1>4, <1>5, <1>6

\* A write of one round leaves the others as they are.
LEMMA OthersStay ==
  ASSUME RoundTypeOK, NEW m \in EngineState, WriteState(m),
         UNCHANGED <<picks, ledger, frozen, results, wpLedger>>,
         NEW q \in Rounds, q # m.round, openAt'[q] = openAt[q]
  PROVE  RowStays(q)
<1>1. /\ roundState'[q] = roundState[q] /\ battleState'[q] = battleState[q]
      /\ labels'[q] = labels[q] /\ evidence'[q] = evidence[q]
  BY WriteRows
<1>2. FrozenPicks(q)' = FrozenPicks(q)
  BY DEF FrozenPicks, HasPick, Deployed
<1>3. QED
  BY <1>1, <1>2 DEF RowStays, StoredResults, AwardsOf

LEMMA SaveOpenedStep ==
  ASSUME RoundInv, NEW i \in Instances, SaveOpened(i)
  PROVE  RoundInv' /\ RoundMove
<1>1. /\ Running(i) /\ out \in [Instances -> Seq(Event)]
      /\ pc \in [Instances -> Steps]
      /\ mem \in [Instances -> EngineState \cup {None}]
      /\ RoundTypeOK
  BY DEF SaveOpened, Running, RoundInv, RoundTypeOK
<1>2. PICK intel \in [Slots -> [Sides -> Labels]], r \in Rounds, at \in Nat :
        /\ mem[i] = CreateRound(r, at, intel)
        /\ roundState[r] = None
        /\ \A q \in Stored : q < r
        /\ \A q \in Rounds :
             q < r => roundState[q] = "FINALIZED" /\ at >= BattleEndAt(q)
  BY DEF SaveOpened, RoundInv, DriverInv, NewRound
<1>3. PICK m : m = mem[i]
  OBVIOUS
<1>4. /\ m.round = r /\ m.state = "PICK_OPEN" /\ m.openAt = at
      /\ m.labels = intel /\ m.picks = {}
      /\ \A s \in Slots : m.battles[s] = [state |-> "SCHEDULED", chain |-> << >>]
  BY <1>2, <1>3 DEF CreateRound
<1>5. m \in EngineState
  <2>1. << >> \in Seq(Scorable)
    BY EmptySeq
  <2>2. QED
    BY <1>2, <1>3, <2>1 DEF CreateRound, EngineState, RoundStates, Battle, BattleStates
<1>6. RowInv(r) /\ r \notin frozen /\ labels[r] = None /\ openAt[r] = NoRow
      /\ \A s \in Slots : evidence[r][s] = << >>
  BY <1>2 DEF RoundInv, RowInv
<1>7. WriteState(m) /\ openAt' = [openAt EXCEPT ![r] = at]
  BY <1>3, <1>4, <1>6 DEF SaveOpened
<1>8. /\ roundState'[r] = "PICK_OPEN" /\ labels'[r] = intel /\ openAt'[r] = at
      /\ \A s \in Slots : battleState'[r][s] = "SCHEDULED" /\ evidence'[r][s] = << >>
  <2>1. openAt'[r] = at
    BY <1>1, <1>7 DEF RoundTypeOK, PickTypeOK
  <2>2. \A s \in Slots : writeCheckpoint(evidence[r][s], m.battles[s]) = << >>
    BY <1>4, <1>6, EmptySeq DEF writeCheckpoint
  <2>3. /\ roundState'[r] = m.state
        /\ \A s \in Slots :
             /\ battleState'[r][s] = m.battles[s].state
             /\ evidence'[r][s] = writeCheckpoint(evidence[r][s], m.battles[s])
        /\ labels'[r] = IF labels[r] = None THEN m.labels ELSE labels[r]
    BY <1>1, <1>4, <1>5, <1>7, WriteRows
  <2>4. \A s \in Slots : m.battles[s].state = "SCHEDULED"
    BY <1>4
  <2>5. QED
    BY <1>4, <1>6, <2>1, <2>2, <2>3, <2>4
<1>9. UNCHANGED <<now, frozen, picks, requests, remaining, ledger, calls,
                  results, wpLedger, published, lease, stopping, outages>>
  BY DEF SaveOpened
<1>10. \A q \in Rounds \ {r} :
         roundState'[q] = roundState[q] /\ openAt'[q] = openAt[q] /\ RowStays(q)
  <2>1. \A q \in Rounds \ {r} : openAt'[q] = openAt[q]
    BY <1>1, <1>7 DEF RoundTypeOK, PickTypeOK
  <2>2. QED
    BY <1>1, <1>4, <1>5, <1>7, <1>9, <2>1, OthersStay DEF RowStays
<1>11. LedgerInv'
  <2>1. openAt' \in [Rounds -> Nat \cup {NoRow}]
    BY <1>1, <1>7 DEF RoundTypeOK, PickTypeOK
  <2>2. TypeInv'
    BY <1>9, <2>1 DEF RoundInv, LedgerInv, TypeInv, PickTypeOK
  <2>3. LedgerMatchesPicks'
    BY <1>9 DEF RoundInv, LedgerInv, LedgerMatchesPicks, HasPick, Deployed
  <2>4. FrozenAreDecided'
    BY <1>9 DEF RoundInv, LedgerInv, FrozenAreDecided, HasPick
  <2>5. QED
    BY <2>2, <2>3, <2>4 DEF LedgerInv
<1>12. FrozenPicks(r)' = {}
  BY <1>6, <1>9, <1>11, NoFrozenPicks DEF RoundInv, FrozenPicks, HasPick, Deployed
<1>13. RowInv(r)'
  <2>1. Unsettled(r)
    BY <1>2, <1>6, RoundAssumption DEF RowInv, RoundStates
  <2>2. Unsettled(r)'
    BY <1>9, <2>1 DEF Unsettled, StoredResults, AwardsOf, Refunded
  <2>3. Chained(<< >>)
    BY EmptySeq DEF Chained
  <2>4. roundState'[r] # None
    BY <1>8, RoundAssumption DEF RoundStates
  <2>5. QED
    BY <1>8, <2>2, <2>3, <2>4 DEF RowInv
<1>14. \A q \in Rounds : RowInv(q)'
  BY <1>10, <1>13, RowInvStays DEF RoundInv
<1>15. Stored' = Stored \cup {r} /\ r \notin Stored /\ Last(r)'
  <2>1. roundState'[r] # None
    BY <1>8, RoundAssumption DEF RoundStates
  <2>2. Stored' = Stored \cup {r} /\ r \notin Stored
    BY <1>2, <1>10, <2>1 DEF Stored
  <2>3. \A q \in Stored : q \in Nat
    BY PickAssumption DEF Stored
  <2>4. r \in Nat
    BY PickAssumption
  <2>5. QED
    BY <1>2, <2>2, <2>3, <2>4 DEF Last
<1>16. OrderInv'
  <2>1. ASSUME NEW p \in Stored', NEW q \in Rounds, q < p
        PROVE  roundState'[q] = "FINALIZED" /\ openAt'[p] >= BattleEndAt(q)'
    <3>1. CASE p = r
      <4>1. q # r
        BY <2>1, <3>1, PickAssumption
      <4>2. roundState[q] = "FINALIZED" /\ at >= BattleEndAt(q)
        BY <1>2, <2>1, <3>1
      <4>3. QED
        BY <1>8, <1>10, <3>1, <4>1, <4>2 DEF BattleEndAt
    <3>2. CASE p # r
      <4>1. p \in Stored /\ p \in Rounds
        BY <1>15, <3>2 DEF Stored
      <4>2. roundState[q] = "FINALIZED" /\ openAt[p] >= BattleEndAt(q)
        BY <2>1, <4>1 DEF RoundInv, OrderInv
      <4>3. q # r
        BY <1>2, <4>2, RoundAssumption DEF RoundStates
      <4>4. QED
        BY <1>10, <3>2, <4>1, <4>2, <4>3 DEF BattleEndAt
    <3>3. QED
      BY <3>1, <3>2
  <2>2. QED
    BY <1>15, <2>1 DEF OrderInv
<1>17. \A e \in published : Truthful(e)'
  <2> SUFFICES ASSUME NEW e \in published PROVE Truthful(e)'
    OBVIOUS
  <2>1. e \in Event /\ Truthful(e) /\ e.round \in Rounds
    BY DEF RoundInv, RoundTypeOK, Event
  <2>2. e.round # r
    BY <1>2, <2>1 DEF Truthful
  <2>3. QED
    BY <1>10, <2>1, <2>2, TruthStays
<1>18. mem' = [mem EXCEPT ![i] = m] /\ mem'[i] = m
  BY <1>1, <1>3 DEF SaveOpened
<1>19. InStep(i)'
  <2>1. Restored(r)' = m
    <3>1. m = CreateRound(r, at, intel)
      BY <1>2, <1>3
    <3>2. \A s \in Slots : Tip(evidence'[r][s]) = << >>
      BY <1>8 DEF Tip
    <3>3. QED
      BY <1>8, <1>12, <3>1, <3>2 DEF Restored, Tip, CreateRound
  <2>2. m # None
    BY <1>5, RoundAssumption
  <2>3. QED
    BY <1>4, <1>15, <1>18, <2>1, <2>2 DEF InStep
<1>20. PICK event \in Event : event = [kind |-> "ROUND_OPENED", round |-> r]
  BY DEF Event
<1>21. Truthful(event)'
  <2>1. roundState'[r] # None
    BY <1>8, RoundAssumption DEF RoundStates
  <2>2. QED
    BY <1>20, <2>1 DEF Truthful
<1>22. Announce(i, <<event>>, m) /\ <<event>> \in Seq(Event) /\ <<event>> # << >>
       /\ {<<event>>[n] : n \in 1..Len(<<event>>)} = {event}
  BY <1>3, <1>4, <1>20 DEF SaveOpened
<1>23. /\ DriverInv(i)' /\ out' = [out EXCEPT ![i] = <<event>>]
       /\ \E p \in Steps : pc' = [pc EXCEPT ![i] = p]
  BY <1>1, <1>19, <1>21, <1>22, AnnounceInv
<1>24. results' \subseteq Result /\ wpLedger' \subseteq Award
  BY <1>1, <1>9 DEF RoundTypeOK
<1>25. RoundMove
  <2>1. ASSUME NEW q \in Rounds \ {r} PROVE roundState[q] \in {None, "FINALIZED"}
    <3>1. q \in Stored => q < r
      BY <1>2
    <3>2. q \in Stored => roundState[q] = "FINALIZED"
      BY <1>2, <3>1
    <3>3. QED
      BY <3>2 DEF Stored
  <2>2. Opens(r)
    BY <1>2, <1>8, <1>9, <1>10, <2>1 DEF Opens
  <2>3. QED
    BY <2>2 DEF RoundMove
<1>26. RoundInv'
  BY <1>1, <1>5, <1>7, <1>9, <1>11, <1>14, <1>16, <1>17, <1>18, <1>22, <1>23,
     <1>24, WriteTypes, DriverWrote
<1>27. QED
  BY <1>25, <1>26

\* What an engine state is after lockRound.
LEMMA LockedFields ==
  ASSUME NEW r, NEW locked
  PROVE  LockRound(Restored(r), locked) =
           [round |-> r, state |-> "BATTLE_LIVE", openAt |-> openAt[r],
            labels |-> labels[r],
            battles |-> [s \in Slots |-> [state |-> "LIVE",
                                          chain |-> Tip(evidence[r][s])]],
            picks |-> locked]
<1>1. ASSUME NEW s \in Slots
      PROVE  [Restored(r).battles[s] EXCEPT !.state = "LIVE"]
                = [state |-> "LIVE", chain |-> Tip(evidence[r][s])]
  <2>1. Restored(r).battles[s]
          = [state |-> battleState[r][s], chain |-> Tip(evidence[r][s])]
    <3>1. Restored(r).battles =
            [t \in Slots |->
               [state |-> battleState[r][t], chain |-> Tip(evidence[r][t])]]
      BY RestoredFields
    <3>2. QED
      BY <3>1, Zenon
  <2>2. QED
    BY <2>1
<1>2. [s \in Slots |-> [Restored(r).battles[s] EXCEPT !.state = "LIVE"]]
        = [s \in Slots |-> [state |-> "LIVE", chain |-> Tip(evidence[r][s])]]
  BY <1>1
<1>3. LockRound(Restored(r), locked) =
        [Restored(r) EXCEPT !.state = "BATTLE_LIVE", !.picks = locked,
           !.battles = [s \in Slots |-> [state |-> "LIVE",
                                         chain |-> Tip(evidence[r][s])]]]
  BY <1>2 DEF LockRound
<1>4. QED
  BY <1>3 DEF Restored

\* A round's locked state depends on the store through its picks alone.
LEMMA LockedStays ==
  ASSUME NEW r \in Rounds, UNCHANGED <<storeVars, openAt>>
  PROVE  LockRound(Restored(r), FrozenPicks(r))' =
           LockRound(Restored(r), FrozenPicks(r)')
<1>1. PICK locked : locked = FrozenPicks(r)'
  OBVIOUS
<1>2. PICK before : before = Restored(r)
  OBVIOUS
<1>3. Restored(r)' = [before EXCEPT !.picks = locked]
  BY <1>1, <1>2 DEF Restored, storeVars
<1>4. LockRound([before EXCEPT !.picks = locked], locked) = LockRound(before, locked)
  BY <1>2 DEF LockRound, Restored
<1>5. LockRound(Restored(r), FrozenPicks(r))' =
        LockRound([before EXCEPT !.picks = locked], locked)
  BY <1>1, <1>3 DEF LockRound
<1>6. QED
  BY <1>1, <1>2, <1>4, <1>5

LEMMA PerformLockStep ==
  ASSUME RoundInv, NEW i \in Instances, PerformLock(i)
  PROVE  RoundInv' /\ RoundMove
<1>1. /\ Running(i) /\ out[i] = << >> /\ out \in [Instances -> Seq(Event)]
      /\ pc \in [Instances -> Steps]
      /\ mem \in [Instances -> EngineState \cup {None}]
      /\ RoundTypeOK /\ LedgerInv
  BY DEF PerformLock, Running, RoundInv, DriverInv, RoundTypeOK
<1>2. PICK r \in Rounds :
        /\ Last(r) /\ mem[i] = Restored(r) /\ mem[i].round = r
        /\ roundState[r] = "PICK_OPEN" /\ mem[i].openAt = openAt[r]
  BY InStepFacts DEF PerformLock, RoundInv, DriverInv
<1>3. LockedPicks(r) /\ mem' = [mem EXCEPT ![i] = LockRound(mem[i], FrozenPicks(r)')]
  BY <1>2 DEF PerformLock
<1>4. UNCHANGED <<storeVars, published, lease, out, stopping, outages, now, openAt>>
  BY <1>3 DEF PerformLock, LockedPicks
<1>5. [PickNext]_pickVars
  <2>1. openAt[r] \in Nat
    BY <1>2, LastRound
  <2>2. openAt[r] # NoRow /\ now >= LockAt(r)
    BY <1>2, <2>1 DEF PerformLock, MemLockAt, LockAt, NoRow
  <2>3. QED
    BY <1>2, <1>3, <2>2 DEF PickNext
<1>6. LedgerInv' /\ PickTypeOK'
  BY <1>1, <1>5, LedgerInvStep DEF LedgerInv, TypeInv
<1>7. /\ frozen' = frozen \cup {r}
      /\ \A e \in ledger' \ ledger : e.round = r /\ e.event = "DEPLOY"
      /\ ledger \subseteq ledger'
  BY <1>3 DEF LockedPicks, DeployRow
<1>8. ASSUME NEW q \in Rounds, q # r PROVE RowStays(q)
  <2>1. FrozenPicks(q)' = FrozenPicks(q)
    BY <1>1, <1>5, <1>7, <1>8, FrozenPicksStay
  <2>2. {e \in ledger' : e.round = q} = {e \in ledger : e.round = q}
    BY <1>7, <1>8
  <2>3. QED
    BY <1>4, <1>7, <1>8, <2>1, <2>2 DEF RowStays, storeVars, StoredResults, AwardsOf
<1>9. RowInv(r)'
  <2>1. RowInv(r) /\ Unsettled(r)
    BY <1>2 DEF RoundInv, RowInv
  <2>2. Unsettled(r)'
    BY <1>4, <1>7, <2>1
       DEF Unsettled, StoredResults, AwardsOf, Refunded, storeVars
  <2>3. "PICK_OPEN" # None
    BY RoundAssumption DEF RoundStates
  <2>4. QED
    BY <1>2, <1>4, <2>1, <2>2, <2>3 DEF RowInv, storeVars
<1>10. \A q \in Rounds : RowInv(q)'
  BY <1>8, <1>9, RowInvStays DEF RoundInv
<1>11. Stored' = Stored /\ Last(r)' /\ OrderInv'
  BY <1>2, <1>4 DEF Stored, Last, storeVars, RoundInv, OrderInv, BattleEndAt
<1>12. \A e \in published : Truthful(e)'
  <2> SUFFICES ASSUME NEW e \in published PROVE Truthful(e)'
    OBVIOUS
  <2>1. e \in Event /\ Truthful(e) /\ e.round \in Rounds
    BY DEF RoundInv, RoundTypeOK, Event
  <2>2. CASE e.round # r
    BY <1>8, <2>1, <2>2, TruthStays
  <2>3. CASE e.round = r
    BY <1>2, <1>4, <2>1, <2>3 DEF Truthful, storeVars
  <2>4. QED
    BY <2>2, <2>3
<1>13. PICK m : m = LockRound(mem[i], FrozenPicks(r)')
  OBVIOUS
<1>14. mem' = [mem EXCEPT ![i] = m] /\ mem'[i] = m
  BY <1>1, <1>3, <1>13
<1>15. LockUnsaved(i)'
  <2>1. m = LockRound(Restored(r), FrozenPicks(r)')
    BY <1>2, <1>13
  <2>2. LockRound(Restored(r), FrozenPicks(r)') = LockRound(Restored(r), FrozenPicks(r))'
    BY <1>4, LockedStays
  <2>3. r \in frozen' /\ roundState'[r] = "PICK_OPEN"
    BY <1>2, <1>4, <1>7 DEF storeVars
  <2>4. QED
    BY <1>11, <1>14, <2>1, <2>2, <2>3 DEF LockUnsaved
<1>16. m \in EngineState
  <2>1. FrozenPicks(r)' \subseteq LockedPick
    <3>1. ASSUME NEW w \in Wallets, HasPick(w, r)', picks'[w][r].locked # None
          PROVE  picks'[w][r].locked \in Decision
      <4>1. picks'[w][r] \in PickRow
        BY <1>6, <3>1 DEF PickTypeOK, HasPick
      <4>2. QED
        BY <3>1, <4>1 DEF PickRow
    <3>2. \A w : Deployed(w, r)' \in BOOLEAN
      BY Zenon DEF Deployed
    <3>3. QED
      BY <3>1, <3>2 DEF FrozenPicks, LockedPick, Decision
  <2>2. Restored(r) \in EngineState
    BY <1>2, LastRound
  <2>3. \A s \in Slots : Restored(r).battles[s] \in Battle
    BY <2>2, EngineStateParts
  <2>4. [s \in Slots |-> [Restored(r).battles[s] EXCEPT !.state = "LIVE"]]
          \in [Slots -> Battle]
    BY <2>3 DEF Battle, BattleStates
  <2>5. QED
    BY <1>2, <1>13, <2>1, <2>2, <2>4 DEF LockRound, EngineState, RoundStates
<1>17. /\ out' = [out EXCEPT ![i] = << >>] /\ out'[i] = << >>
       /\ << >> \in Seq(Event)
  BY <1>1, <1>4, EmptySeq
<1>18. pc' = [pc EXCEPT ![i] = "save_lock"] /\ "save_lock" \in Steps
       /\ pc'[i] = "save_lock"
  BY <1>1 DEF PerformLock, Goto, Steps
<1>19. DriverInv(i)'
  BY <1>15, <1>17, <1>18, NothingPending DEF DriverInv
<1>20. /\ roundState' \in [Rounds -> RoundStates \cup {None}]
       /\ battleState' \in [Rounds -> [Slots -> BattleStates]]
       /\ labels' \in [Rounds -> [Slots -> [Sides -> Labels]] \cup {None}]
       /\ evidence' \in [Rounds -> [Slots -> Seq(Seq(Scorable))]]
       /\ results' \subseteq Result /\ wpLedger' \subseteq Award
  BY <1>1, <1>4 DEF RoundTypeOK, storeVars
<1>21. RoundInv'
  BY <1>1, <1>4, <1>6, <1>10, <1>11, <1>12, <1>14, <1>16, <1>17, <1>18, <1>19,
     <1>20, DriverWrote
<1>22. Plays(r)
  BY <1>2, <1>4, <1>8 DEF Plays, storeVars
<1>23. QED
  BY <1>21, <1>22 DEF RoundMove

\* A save of the last round, before its settlement, that leaves the picks, the
\* results and the awards alone.
LEMMA SaveStepInv ==
  ASSUME RoundInv, NEW i \in Instances, Running(i),
         NEW r, Last(r), r \in frozen, roundState[r] # "FINALIZED",
         NEW m \in EngineState, mem[i] = m, m.round = r, m.openAt = openAt[r],
         m.labels = labels[r], m.picks = FrozenPicks(r), m.state = "BATTLE_LIVE",
         \A s \in Slots :
           /\ m.battles[s].state \in {"LIVE", "VOID"}
           /\ \/ m.battles[s].chain = Tip(evidence[r][s])
              \/ \E o \in Scorable :
                   m.battles[s].chain = Append(Tip(evidence[r][s]), o),
         NEW events \in Seq(Event), SaveStep(i, events),
         \A e \in {events[n] : n \in 1..Len(events)} : Truthful(e)'
  PROVE  RoundInv' /\ RoundMove
<1>1. /\ out \in [Instances -> Seq(Event)] /\ pc \in [Instances -> Steps]
      /\ mem \in [Instances -> EngineState \cup {None}]
      /\ RoundTypeOK /\ LedgerInv /\ r \in Rounds /\ openAt[r] \in Nat
      /\ labels[r] \in [Slots -> [Sides -> Labels]]
  BY LastRound DEF RoundInv, RoundTypeOK
<1>2. /\ WriteState(m) /\ Announce(i, events, m)
      /\ UNCHANGED <<pickVars, results, wpLedger, published, lease, mem, stopping,
                     outages>>
  BY DEF SaveStep
<1>3. openAt' = openAt /\ frozen' = frozen /\ FrozenPicks(r)' = FrozenPicks(r)
  BY <1>2 DEF pickVars, FrozenPicks, HasPick, Deployed
<1>4. /\ OrderInv' /\ Stored' = Stored /\ Last(r)'
      /\ Restored(r)' = m
      /\ roundState'[r] = m.state /\ labels'[r] = labels[r]
      /\ \A s \in Slots :
           /\ battleState'[r][s] = m.battles[s].state
           /\ Chained(evidence'[r][s])
           /\ Tip(evidence'[r][s]) = m.battles[s].chain
           /\ \/ evidence'[r][s] = evidence[r][s]
              \/ \E c \in Seq(Scorable) :
                   evidence'[r][s] = Append(evidence[r][s], c)
  BY <1>2, <1>3, SaveRow
<1>5. \A q \in Rounds \ {r} : RowStays(q)
  BY <1>1, <1>2, <1>3, OthersStay DEF pickVars
<1>6. LedgerInv'
  BY <1>1, <1>2, LedgerInvStep
<1>7. RowInv(r)'
  <2>1. Unsettled(r)
    BY <1>1 DEF RoundInv, RowInv
  <2>2. Unsettled(r)'
    BY <1>2, <2>1 DEF Unsettled, StoredResults, AwardsOf, Refunded, pickVars
  <2>3. "BATTLE_LIVE" # None
    BY RoundAssumption DEF RoundStates
  <2>4. QED
    BY <1>1, <1>3, <1>4, <2>2, <2>3 DEF RowInv
<1>8. \A q \in Rounds : RowInv(q)'
  BY <1>5, <1>7, RowInvStays DEF RoundInv
<1>9. \A e \in published : Truthful(e)'
  <2> SUFFICES ASSUME NEW e \in published PROVE Truthful(e)'
    OBVIOUS
  <2>1. e \in Event /\ Truthful(e) /\ e.round \in Rounds
    BY DEF RoundInv, RoundTypeOK, Event
  <2>2. CASE e.round # r
    BY <1>5, <2>1, <2>2, TruthStays
  <2>3. CASE e.round = r
    BY ZenonT(60), <1>1, <1>4, <2>1, <2>3, TruthGrows DEF RoundTypeOK
  <2>4. QED
    BY <2>2, <2>3
<1>10. mem' = [mem EXCEPT ![i] = m] /\ mem'[i] = m
  BY <1>1, <1>2
<1>11. InStep(i)'
  BY <1>4, <1>10, RoundAssumption DEF InStep
<1>12. /\ DriverInv(i)' /\ out' = [out EXCEPT ![i] = events]
       /\ \E p \in Steps : pc' = [pc EXCEPT ![i] = p]
  <2>1. Announce(i, events, m) /\ InStep(i)'
        /\ (m.state = "FINALIZED" <=> mem'[i].state = "FINALIZED")
    BY <1>2, <1>10, <1>11
  <2>2. pc \in [Instances -> Steps] /\ out \in [Instances -> Seq(Event)]
    BY <1>1
  <2>3. QED
    BY SMTT(30), <2>1, <2>2, AnnounceInv
<1>13. results' \subseteq Result /\ wpLedger' \subseteq Award
  BY <1>1, <1>2 DEF RoundTypeOK
<1>14. RoundInv'
  BY <1>1, <1>2, <1>4, <1>6, <1>8, <1>9, <1>10, <1>12, <1>13, WriteTypes,
     DriverWrote
<1>15. Plays(r) \/ Locks(r)
  <2>1. roundState[r] \in {"PICK_OPEN", "BATTLE_LIVE"}
    BY LastRound DEF RoundStates
  <2>2. QED
    BY <1>2, <1>3, <1>4, <1>5, <2>1 DEF Plays, Locks
<1>16. QED
  BY <1>1, <1>14, <1>15 DEF RoundMove

LEMMA SaveLockedStep ==
  ASSUME RoundInv, NEW i \in Instances, SaveLocked(i)
  PROVE  RoundInv' /\ RoundMove
<1>1. PICK r \in frozen :
        /\ Last(r) /\ roundState[r] = "PICK_OPEN"
        /\ mem[i] = LockRound(Restored(r), FrozenPicks(r))
  BY DEF SaveLocked, RoundInv, DriverInv, LockUnsaved
<1>2. PICK m : m = mem[i]
  OBVIOUS
<1>3. /\ m.round = r /\ m.openAt = openAt[r] /\ m.labels = labels[r]
      /\ m.picks = FrozenPicks(r) /\ m.state = "BATTLE_LIVE"
      /\ \A s \in Slots : m.battles[s].state = "LIVE"
                          /\ m.battles[s].chain = Tip(evidence[r][s])
  BY <1>1, <1>2, LockedFields
<1>4. m \in EngineState
  <2>1. m # None
    <3>1. Restored(r) \in EngineState /\ FrozenPicks(r) \subseteq LockedPick
      BY <1>1, LastRound, FrozenPicksType DEF RoundInv
    <3>2. \A s \in Slots : Restored(r).battles[s] \in Battle
      BY <3>1, EngineStateParts
    <3>3. [s \in Slots |-> [Restored(r).battles[s] EXCEPT !.state = "LIVE"]]
            \in [Slots -> Battle]
      BY <3>2 DEF Battle, BattleStates
    <3>4. m \in EngineState
      BY <1>1, <1>2, <3>1, <3>3 DEF LockRound, EngineState, RoundStates
    <3>5. QED
      BY <3>4, RoundAssumption
  <2>2. QED
    BY <1>2, <2>1 DEF RoundInv, RoundTypeOK
<1>5. PICK event \in Event : event = [kind |-> "PICKS_LOCKED", round |-> r]
  BY <1>1, LastRound DEF Event
<1>6. SaveStep(i, <<event>>) /\ <<event>> \in Seq(Event)
      /\ {<<event>>[n] : n \in 1..Len(<<event>>)} = {event}
  BY <1>2, <1>3, <1>5 DEF SaveLocked
<1>7. Truthful(event)'
  <2>1. roundState'[r] = "BATTLE_LIVE"
    BY <1>1, <1>2, <1>3, <1>4, <1>6, LastRound, WriteRows
       DEF SaveStep, RoundInv
  <2>2. "BATTLE_LIVE" # None
    BY RoundAssumption DEF RoundStates
  <2>3. QED
    BY <1>5, <2>1, <2>2 DEF Truthful
<1>8. Running(i) /\ roundState[r] # "FINALIZED"
  BY <1>1 DEF SaveLocked, Running
<1>9. PICK events \in Seq(Event) : events = <<event>>
  BY <1>6
<1>10. SaveStep(i, events)
       /\ \A e \in {events[n] : n \in 1..Len(events)} : Truthful(e)'
  BY <1>6, <1>7, <1>9
<1>11. \A s \in Slots :
         /\ m.battles[s].state \in {"LIVE", "VOID"}
         /\ \/ m.battles[s].chain = Tip(evidence[r][s])
            \/ \E o \in Scorable :
                 m.battles[s].chain = Append(Tip(evidence[r][s]), o)
  BY <1>3
<1>12. mem[i] = m
  BY <1>2
<1>13. QED
  BY <1>1, <1>3, <1>4, <1>8, <1>10, <1>11, <1>12, SaveStepInv

LEMMA TickedFields ==
  ASSUME NEW r \in Rounds, NEW observed \in [Slots -> Observations]
  PROVE  /\ Ticked(r, observed).round = r
         /\ Ticked(r, observed).state = roundState[r]
         /\ Ticked(r, observed).openAt = openAt[r]
         /\ Ticked(r, observed).labels = labels[r]
         /\ Ticked(r, observed).picks = FrozenPicks(r)
         /\ \A s \in Slots :
              Ticked(r, observed).battles[s] =
                ApplyTick([state |-> battleState[r][s], chain |-> Tip(evidence[r][s])],
                          observed[s])
<1>1. \A s \in Slots :
        Restored(r).battles[s] =
          [state |-> battleState[r][s], chain |-> Tip(evidence[r][s])]
  <2>1. Restored(r).battles =
          [t \in Slots |->
             [state |-> battleState[r][t], chain |-> Tip(evidence[r][t])]]
    BY RestoredFields
  <2>2. QED
    BY <2>1, Zenon
<1>2. Ticked(r, observed) =
        [Restored(r) EXCEPT !.battles =
           [s \in Slots |->
              ApplyTick([state |-> battleState[r][s], chain |-> Tip(evidence[r][s])],
                        observed[s])]]
  BY <1>1 DEF Ticked
<1>3. QED
  BY <1>2 DEF Restored

LEMMA SaveTickedStep ==
  ASSUME RoundInv, NEW i \in Instances, SaveTicked(i)
  PROVE  RoundInv' /\ RoundMove
<1>1. PICK r \in Rounds, observed \in [Slots -> Observations] :
        /\ Last(r) /\ roundState[r] = "BATTLE_LIVE"
        /\ mem[i] = Ticked(r, observed)
  BY DEF SaveTicked, RoundInv, DriverInv, TickUnsaved
<1>2. PICK m \in EngineState : m = mem[i]
  BY <1>1, TickedType
<1>3. /\ m.round = r /\ m.openAt = openAt[r] /\ m.labels = labels[r]
      /\ m.picks = FrozenPicks(r) /\ m.state = "BATTLE_LIVE"
  BY <1>1, <1>2, TickedFields
<1>4. RowInv(r) /\ r \in frozen /\ RoundTypeOK
  BY <1>1 DEF RoundInv, RowInv
<1>5. ASSUME NEW s \in Slots
      PROVE  /\ m.battles[s].state \in {"LIVE", "VOID"}
             /\ \/ m.battles[s].chain = Tip(evidence[r][s])
                \/ \E o \in Scorable :
                     m.battles[s].chain = Append(Tip(evidence[r][s]), o)
             /\ m.battles[s].state = "LIVE" =>
                  /\ m.battles[s].chain # << >>
                  /\ m.battles[s].chain \in Seq(Scorable)
  <2>1. PICK battle : battle = [state |-> battleState[r][s],
                                chain |-> Tip(evidence[r][s])]
    OBVIOUS
  <2>2. m.battles[s] = ApplyTick(battle, observed[s])
    BY <1>1, <1>2, <2>1, TickedFields
  <2>3. battle.state \in {"LIVE", "VOID"} /\ battle.chain \in Seq(Scorable)
    BY <1>1, <1>4, <2>1, TipType DEF RowInv, RoundTypeOK
  <2>4. CASE battle.state # "LIVE"
    BY <2>1, <2>2, <2>3, <2>4 DEF ApplyTick
  <2>5. CASE battle.state = "LIVE" /\ observed[s] = "STALE"
    BY <2>1, <2>2, <2>5 DEF ApplyTick
  <2>6. CASE battle.state = "LIVE" /\ observed[s] # "STALE"
    <3>1. m.battles[s] = [battle EXCEPT !.chain = Append(battle.chain, observed[s])]
      BY <2>2, <2>6 DEF ApplyTick
    <3>2. m.battles[s].state = "LIVE"
          /\ m.battles[s].chain = Append(Tip(evidence[r][s]), observed[s])
      BY <2>1, <2>6, <3>1
    <3>3. observed[s] \in Scorable
      BY <2>6 DEF Scorable
    <3>4. Append(Tip(evidence[r][s]), observed[s]) # << >>
          /\ Append(Tip(evidence[r][s]), observed[s]) \in Seq(Scorable)
      BY <2>1, <2>3, <3>3, AppendProperties
    <3>5. QED
      BY <3>2, <3>3, <3>4
  <2>7. QED
    BY <2>4, <2>5, <2>6
<1>6. PICK order : order = InOrder(Updated(m))
  OBVIOUS
<1>7. Cardinality(Updated(m)) \in Nat
      /\ order \in [1..Cardinality(Updated(m)) -> Updated(m)]
  BY <1>6, InOrderLists DEF Updated
<1>8. PICK events : events = [n \in DOMAIN order |->
                    [kind |-> "BATTLE_STATE_UPDATE", round |-> m.round,
                     slot |-> order[n], chain |-> m.battles[order[n]].chain]]
  OBVIOUS
<1>9. ASSUME NEW n \in DOMAIN order
      PROVE  /\ order[n] \in Slots /\ m.battles[order[n]].state = "LIVE"
             /\ events[n] = [kind |-> "BATTLE_STATE_UPDATE", round |-> r,
                             slot |-> order[n], chain |-> m.battles[order[n]].chain]
             /\ events[n] \in Event
  <2>1. order[n] \in Slots /\ m.battles[order[n]].state = "LIVE"
    BY <1>7 DEF Updated
  <2>2. m.battles[order[n]].chain \in Seq(Scorable)
    BY <2>1, EngineStateParts
  <2>3. QED
    BY <1>1, <1>3, <1>8, <2>1, <2>2 DEF Event
<1>10. events \in Seq(Event) /\ DOMAIN order = 1..Len(events)
  <2>1. events \in [1..Cardinality(Updated(m)) -> Event]
    BY <1>7, <1>8, <1>9
  <2>2. QED
    BY <1>7, <2>1, SeqDef, LenProperties
<1>11. SaveStep(i, events)
  BY <1>2, <1>6, <1>8, Zenon DEF SaveTicked
<1>12. Running(i)
  BY DEF SaveTicked, Running
<1>13. WriteState(m) /\ openAt' = openAt /\ FrozenPicks(r)' = FrozenPicks(r)
  BY <1>2, <1>11 DEF SaveStep, pickVars, FrozenPicks, HasPick, Deployed
<1>14. /\ roundState'[r] = "BATTLE_LIVE"
       /\ \A s \in Slots : Chained(evidence'[r][s])
                           /\ Tip(evidence'[r][s]) = m.battles[s].chain
  BY <1>1, <1>3, <1>5, <1>13, SaveRow
<1>15. evidence' \in [Rounds -> [Slots -> Seq(Seq(Scorable))]]
  BY <1>4, <1>13, WriteTypes
<1>16. ASSUME NEW e \in {events[n] : n \in 1..Len(events)}
       PROVE  Truthful(e)'
  <2>1. PICK s \in Slots :
          /\ m.battles[s].state = "LIVE"
          /\ e = [kind |-> "BATTLE_STATE_UPDATE", round |-> r, slot |-> s,
                  chain |-> m.battles[s].chain]
    BY <1>9, <1>10
  <2>2. m.battles[s].chain # << >>
    BY <1>5, <2>1
  <2>3. PICK rows \in Seq(Seq(Scorable)) : rows = evidence'[r][s]
    BY <1>1, <1>15
  <2>4. Chained(rows) /\ Tip(rows) = m.battles[s].chain
    BY <1>14, <2>3
  <2>5. /\ rows # << >> /\ Len(m.battles[s].chain) = Len(rows)
        /\ Len(rows) \in Nat /\ rows[Len(rows)] = m.battles[s].chain
    BY <2>2, <2>4, TipLength DEF Tip
  <2>6. Len(rows) \in 1..Len(rows)
    BY <2>5, EmptySeq, LenProperties
  <2>7. roundState'[r] # None
    BY <1>14, RoundAssumption DEF RoundStates
  <2>8. QED
    BY <2>1, <2>3, <2>5, <2>6, <2>7 DEF Truthful
<1>17. roundState[r] # "FINALIZED" /\ mem[i] = m
  BY <1>1, <1>2
<1>18. \A s \in Slots :
         /\ m.battles[s].state \in {"LIVE", "VOID"}
         /\ \/ m.battles[s].chain = Tip(evidence[r][s])
            \/ \E o \in Scorable :
                 m.battles[s].chain = Append(Tip(evidence[r][s]), o)
  BY <1>5
<1>19. QED
  BY <1>1, <1>3, <1>4, <1>10, <1>11, <1>12, <1>16, <1>17, <1>18, SaveStepInv

LEMMA ResultsType ==
  ASSUME NEW m \in EngineState
  PROVE  ResultsOf(m) \subseteq Result
<1> SUFFICES ASSUME NEW s \in Slots, Scored(m.battles[s])
             PROVE  [round |-> m.round, slot |-> s,
                     winner |-> Winner(m.round, s, m.battles[s]),
                     chain |-> m.battles[s].chain] \in Result
  BY DEF ResultsOf
<1>1. PICK chain \in Seq(Scorable) : chain = m.battles[s].chain /\ chain # << >>
  BY EngineStateParts DEF Scored
<1>2. Len(chain) \in 1..Len(chain)
  BY <1>1, EmptySeq, LenProperties
<1>3. LastTick(m.battles[s]) \in Scorable
  BY <1>1, <1>2, ElementOfSeq DEF LastTick
<1>4. m.round \in Rounds
  BY EngineStateParts
<1>5. Winner(m.round, s, m.battles[s]) \in Sides
  BY <1>3, <1>4, RoundAssumption DEF Winner, Scorable, Observations, Sides
<1>6. QED
  BY <1>1, <1>4, <1>5 DEF Result

LEMMA AwardsType ==
  ASSUME NEW r \in Rounds, NEW locked \in SUBSET LockedPick, NEW found,
         NEW intel \in [Slots -> [Sides -> Labels]]
  PROVE  /\ AwardsFor(r, locked, found, intel) \subseteq Award
         /\ \A a \in AwardsFor(r, locked, found, intel) : a.round = r
<1>1. \A p \in locked : p.wallet \in Wallets /\ p.slot \in Slots
                        /\ intel[p.slot][p.side] \in Labels
  BY DEF LockedPick
<1>2. QED
  BY <1>1 DEF AwardsFor, Award

LEMMA FinalizedFields ==
  ASSUME NEW m \in EngineState
  PROVE  /\ FinalizeRound(m) \in EngineState
         /\ FinalizeRound(m).round = m.round
         /\ FinalizeRound(m).state = "FINALIZED"
         /\ FinalizeRound(m).openAt = m.openAt
         /\ FinalizeRound(m).labels = m.labels
         /\ FinalizeRound(m).picks = m.picks
         /\ \A s \in Slots :
              /\ FinalizeRound(m).battles[s].state =
                   IF Scored(m.battles[s]) THEN "FINALIZED" ELSE "VOID"
              /\ FinalizeRound(m).battles[s].chain = m.battles[s].chain
<1> DEFINE bs == [s \in Slots |->
                   [m.battles[s] EXCEPT
                      !.state = IF Scored(m.battles[s]) THEN "FINALIZED" ELSE "VOID"]]
<1>1. \A s \in Slots : m.battles[s] \in Battle
  BY EngineStateParts
<1>2. \A s \in Slots :
        /\ bs[s] \in Battle /\ bs[s].chain = m.battles[s].chain
        /\ bs[s].state = IF Scored(m.battles[s]) THEN "FINALIZED" ELSE "VOID"
  BY <1>1 DEF Battle, BattleStates
<1>3. bs \in [Slots -> Battle]
  BY <1>2
<1>4. FinalizeRound(m) = [m EXCEPT !.state = "FINALIZED", !.battles = bs]
  BY DEF FinalizeRound
<1> HIDE DEF bs
<1>5. QED
  BY <1>2, <1>3, <1>4 DEF EngineState, RoundStates

\* One settlement, exact: a round with nothing of it before and the
\* transaction's rows after.
LEMMA Settling ==
  ASSUME RoundInv, NEW r \in Rounds, roundState[r] = "BATTLE_LIVE",
         NEW m \in EngineState, m.round = r, m.picks = FrozenPicks(r),
         m.labels = labels[r],
         \A s \in Slots : m.battles[s].chain = Tip(evidence[r][s]),
         FrozenPicks(r)' = FrozenPicks(r), labels'[r] = labels[r],
         \A s \in Slots :
           /\ battleState'[r][s] =
                IF Scored(m.battles[s]) THEN "FINALIZED" ELSE "VOID"
           /\ evidence'[r][s] = evidence[r][s],
         results' = results \cup NewResults(m),
         wpLedger' =
           wpLedger \cup AwardsFor(m.round, m.picks, ResultsOf(m), m.labels),
         RefundVoidedCards(m.round, VoidedOf(m))
  PROVE  /\ Settled(r)'
         /\ StoredResults(r)' = ResultsOf(m)
         /\ \A s \in Slots :
              Refunded(r, s)' <=>
                s \in {e.slot : e \in RefundingNow(r, VoidedOf(m))}
<1>1. Unsettled(r) /\ ledger \subseteq LedgerRow
  BY DEF RoundInv, RowInv, LedgerInv, TypeInv, PickTypeOK
<1>2. \A x \in ResultsOf(m) : x.round = r
  BY DEF ResultsOf
<1>3. StoredResults(r)' = ResultsOf(m)
  BY <1>1, <1>2 DEF Unsettled, StoredResults, NewResults
<1>4. AwardsOf(r)' = AwardsFor(r, FrozenPicks(r)', StoredResults(r)', labels'[r])
  <2>1. /\ m.labels \in [Slots -> [Sides -> Labels]] /\ m.picks \in SUBSET LockedPick
    BY EngineStateParts
  <2>2. \A a \in AwardsFor(r, m.picks, ResultsOf(m), m.labels) : a.round = r
    BY <2>1, AwardsType
  <2>3. AwardsOf(r)' = AwardsFor(r, m.picks, ResultsOf(m), m.labels)
    BY <1>1, <2>2 DEF Unsettled, AwardsOf
  <2>4. QED
    BY <1>3, <2>3
<1>5. ASSUME NEW s \in Slots
      PROVE  /\ ~Scored(m.battles[s]) => Found(r, s)' = {}
             /\ Scored(m.battles[s]) =>
                  \E x : Found(r, s)' = {x} /\ x.chain = m.battles[s].chain
  <2>1. Found(r, s)' = {x \in ResultsOf(m) : x.slot = s}
    BY <1>3 DEF Found
  <2>2. PICK x : x = [round |-> m.round, slot |-> s,
                      winner |-> Winner(m.round, s, m.battles[s]),
                      chain |-> m.battles[s].chain]
    OBVIOUS
  <2>3. x.slot = s /\ x.chain = m.battles[s].chain
    BY <2>2
  <2>4. \A y \in ResultsOf(m) : y.slot = s => y = x /\ Scored(m.battles[s])
    BY <2>2 DEF ResultsOf
  <2>5. Scored(m.battles[s]) => x \in ResultsOf(m)
    BY <2>2 DEF ResultsOf
  <2>6. QED
    BY <2>1, <2>3, <2>4, <2>5
<1>6. ledger' = ledger \cup {RefundRow(e) : e \in RefundingNow(r, VoidedOf(m))}
  BY DEF RefundVoidedCards
<1>7. \A e : /\ RefundRow(e).wallet = e.wallet /\ RefundRow(e).round = e.round
             /\ RefundRow(e).slot = e.slot /\ RefundRow(e).event = "VOID_REFUND"
  BY DEF RefundRow
<1>8. \A e \in RefundingNow(r, VoidedOf(m)) :
        e \in ledger /\ e.round = r /\ e.slot \in VoidedOf(m)
  BY DEF RefundingNow
<1>9. \A e \in ledger : e.round = r /\ e.slot \in Slots => e.event = "DEPLOY"
  BY <1>1 DEF Unsettled, Refunded, LedgerRow
<1>10. ASSUME NEW s \in Slots, NEW e \in ledger', e.round = r, e.slot = s
       PROVE  RefundRow(e) \in ledger' <=> ~Scored(m.battles[s])
  <2>1. s \in VoidedOf(m) <=> ~Scored(m.battles[s])
    BY DEF VoidedOf
  <2>2. CASE e \in ledger
    <3>1. e.event = "DEPLOY" /\ RefundRow(e) \notin ledger
      BY <1>7, <1>9, <1>10, <2>2
    <3>2. s \in VoidedOf(m) => e \in RefundingNow(r, VoidedOf(m))
      BY <1>10, <2>2, <3>1 DEF RefundingNow
    <3>3. s \in VoidedOf(m) => RefundRow(e) \in ledger'
      BY <1>6, <3>2
    <3>4. s \notin VoidedOf(m) => RefundRow(e) \notin ledger'
      BY <1>6, <1>7, <1>8, <1>10, <3>1
    <3>5. QED
      BY <2>1, <3>3, <3>4
  <2>3. CASE e \notin ledger
    <3>1. PICK d \in RefundingNow(r, VoidedOf(m)) : e = RefundRow(d)
      BY <1>6, <1>10, <2>3
    <3>2. RefundRow(e) = e
      BY <3>1 DEF RefundRow
    <3>3. s \in VoidedOf(m)
      BY <1>7, <1>8, <1>10, <3>1
    <3>4. QED
      BY <1>10, <2>1, <3>2, <3>3
  <2>4. QED
    BY <2>2, <2>3
<1>11. ASSUME NEW s \in Slots
       PROVE  /\ battleState'[r][s] = IF Found(r, s)' = {} THEN "VOID" ELSE "FINALIZED"
              /\ Cardinality(Found(r, s)') <= 1
              /\ \A x, y \in Found(r, s)' : x = y
              /\ \A e \in ledger' :
                   e.round = r /\ e.slot = s
                     => (RefundRow(e) \in ledger' <=> Found(r, s)' = {})
              /\ \A x \in Found(r, s)' :
                   evidence'[r][s] # << >> /\ x.chain = Tip(evidence'[r][s])
  <2>1. CASE Scored(m.battles[s])
    <3>1. PICK x : Found(r, s)' = {x} /\ x.chain = m.battles[s].chain
      BY <1>5, <2>1
    <3>2. Cardinality(Found(r, s)') = 1
      BY <3>1, FS_Singleton
    <3>3. x.chain = Tip(evidence'[r][s]) /\ x.chain # << >>
      BY <2>1, <3>1 DEF Scored
    <3>4. evidence'[r][s] # << >>
      BY <3>3 DEF Tip
    <3>5. QED
      BY <1>10, <2>1, <3>1, <3>2, <3>3, <3>4
  <2>2. CASE ~Scored(m.battles[s])
    <3>1. Found(r, s)' = {}
      BY <1>5, <2>2
    <3>2. Cardinality(Found(r, s)') = 0
      BY <3>1, FS_EmptySet
    <3>3. battleState'[r][s] = "VOID"
      BY <2>2
    <3>4. QED
      BY <1>10, <2>2, <3>1, <3>2, <3>3
  <2>3. QED
    BY <2>1, <2>2
<1>12. AwardsOf(r)' = AwardsFor(r, FrozenPicks(r), StoredResults(r), labels[r])'
  BY <1>4 DEF AwardsFor
<1>13. Settled(r)'
  BY <1>11, <1>12 DEF Settled
<1>14. ASSUME NEW s \in Slots
       PROVE  Refunded(r, s)' <=>
                s \in {e.slot : e \in RefundingNow(r, VoidedOf(m))}
  <2>1. \A e \in ledger : ~(e.round = r /\ e.slot = s /\ e.event = "VOID_REFUND")
    BY <1>1 DEF Unsettled, Refunded
  <2>2. Refunded(r, s)' <=> \E d \in RefundingNow(r, VoidedOf(m)) :
                                 RefundRow(d).round = r /\ RefundRow(d).slot = s
                                 /\ RefundRow(d).event = "VOID_REFUND"
    BY <1>6, <2>1 DEF Refunded
  <2>3. QED
    BY <1>7, <1>8, <2>2
<1>15. QED
  BY <1>3, <1>13, <1>14

LEMMA SaveFinalizedStep ==
  ASSUME RoundInv, NEW i \in Instances, SaveFinalized(i)
  PROVE  RoundInv' /\ RoundMove
<1>1. /\ Running(i) /\ out \in [Instances -> Seq(Event)]
      /\ pc \in [Instances -> Steps]
      /\ mem \in [Instances -> EngineState \cup {None}]
      /\ RoundTypeOK /\ LedgerInv
  BY DEF SaveFinalized, Running, RoundInv, RoundTypeOK
<1>2. InStep(i) /\ mem[i].state = "BATTLE_LIVE" /\ now >= MemEndAt(mem[i])
  BY DEF SaveFinalized, RoundInv, DriverInv
<1>3. PICK r \in Rounds :
        /\ Last(r) /\ mem[i] = Restored(r) /\ mem[i].round = r
        /\ mem[i].state = roundState[r] /\ mem[i].openAt = openAt[r]
        /\ mem[i].labels = labels[r] /\ mem[i].picks = FrozenPicks(r)
        /\ mem[i] \in EngineState
  BY <1>2, InStepFacts
<1>4. PICK m \in EngineState : m = mem[i]
  BY <1>3
<1>5. /\ roundState[r] = "BATTLE_LIVE" /\ r \in frozen /\ RowInv(r)
      /\ m.round = r /\ m.openAt = openAt[r] /\ m.labels = labels[r]
      /\ m.picks = FrozenPicks(r) /\ roundState[r] # "FINALIZED"
  BY <1>2, <1>3, <1>4 DEF RoundInv, RowInv
<1>6. PICK f \in EngineState : f = FinalizeRound(m)
  BY FinalizedFields
<1>7. /\ f.round = r /\ f.state = "FINALIZED" /\ f.openAt = openAt[r]
      /\ f.labels = labels[r] /\ f.picks = FrozenPicks(r)
      /\ \A s \in Slots :
           /\ f.battles[s].state = IF Scored(m.battles[s]) THEN "FINALIZED" ELSE "VOID"
           /\ f.battles[s].chain = m.battles[s].chain
  BY <1>5, <1>6, FinalizedFields
<1>8. \A s \in Slots : m.battles[s].chain = Tip(evidence[r][s])
  <2>1. m.battles = [t \in Slots |->
                       [state |-> battleState[r][t], chain |-> Tip(evidence[r][t])]]
    BY <1>3, <1>4, RestoredFields
  <2>2. ASSUME NEW s \in Slots
        PROVE  m.battles[s].chain = Tip(evidence[r][s])
    <3>1. m.battles[s] = [state |-> battleState[r][s], chain |-> Tip(evidence[r][s])]
      BY <2>1, Zenon
    <3>2. QED
      BY <3>1
  <2>3. QED
    BY <2>2
<1>9. /\ WriteState(f)
      /\ results' = results \cup NewResults(m)
      /\ wpLedger' =
           wpLedger \cup AwardsFor(m.round, m.picks, ResultsOf(m), m.labels)
      /\ RefundVoidedCards(m.round, VoidedOf(m))
      /\ mem' = [mem EXCEPT ![i] = f]
      /\ UNCHANGED <<published, lease, stopping, outages>>
  BY <1>4, <1>6 DEF SaveFinalized
<1>10. VoidedOf(m) \in SUBSET Slots
  BY DEF VoidedOf
<1>11. [PickNext]_pickVars
  <2>1. now >= BattleEndAt(r)
    BY <1>2, <1>3 DEF MemEndAt, BattleEndAt
  <2>2. QED
    BY <1>5, <1>9, <1>10, <2>1 DEF PickNext
<1>12. LedgerInv'
  BY <1>1, <1>11, LedgerInvStep
<1>13. openAt' = openAt /\ frozen' = frozen
  BY <1>9 DEF RefundVoidedCards
<1>14. \A q \in Rounds : FrozenPicks(q)' = FrozenPicks(q)
  BY <1>1, <1>11, <1>13, FrozenPicksStay
<1>15. \A s \in Slots :
         \/ f.battles[s].chain = Tip(evidence[r][s])
         \/ \E o \in Scorable :
              f.battles[s].chain = Append(Tip(evidence[r][s]), o)
  BY <1>7, <1>8
<1>16. /\ OrderInv' /\ Stored' = Stored /\ Last(r)'
       /\ Restored(r)' = f
       /\ roundState'[r] = "FINALIZED" /\ labels'[r] = labels[r]
       /\ \A s \in Slots :
            /\ battleState'[r][s] = f.battles[s].state
            /\ Chained(evidence'[r][s])
  BY <1>3, <1>5, <1>7, <1>9, <1>13, <1>14, <1>15, SaveRow
<1>17. \A s \in Slots : evidence'[r][s] = evidence[r][s]
  <2> SUFFICES ASSUME NEW s \in Slots PROVE evidence'[r][s] = evidence[r][s]
    OBVIOUS
  <2>1. PICK rows \in Seq(Seq(Scorable)) : rows = evidence[r][s] /\ Chained(rows)
    BY <1>1, <1>5 DEF RoundTypeOK, RowInv
  <2>2. PICK battle : battle = f.battles[s]
    OBVIOUS
  <2>3. battle.chain = Tip(rows)
    BY <1>7, <1>8, <2>1, <2>2
  <2>4. writeCheckpoint(rows, battle) = rows
    BY <2>1, <2>3, NoCheckpoint
  <2>5. evidence'[r][s] = writeCheckpoint(rows, battle)
    BY <1>1, <1>7, <1>9, <2>1, <2>2, WriteRows
  <2>6. QED
    BY <2>1, <2>4, <2>5
<1>18. /\ Settled(r)' /\ StoredResults(r)' = ResultsOf(m)
       /\ \A s \in Slots :
            Refunded(r, s)' <=>
              s \in {e.slot : e \in RefundingNow(r, VoidedOf(m))}
  <2>1. \A s \in Slots :
          /\ battleState'[r][s] =
               IF Scored(m.battles[s]) THEN "FINALIZED" ELSE "VOID"
          /\ evidence'[r][s] = evidence[r][s]
    BY <1>7, <1>16, <1>17
  <2>2. FrozenPicks(r)' = FrozenPicks(r) /\ labels'[r] = labels[r]
    BY <1>14, <1>16
  <2>3. QED
    BY <1>5, <1>8, <1>9, <2>1, <2>2, Settling
<1>19. ASSUME NEW q \in Rounds, q # r PROVE RowStays(q)
  <2>1. /\ roundState'[q] = roundState[q] /\ battleState'[q] = battleState[q]
        /\ labels'[q] = labels[q] /\ evidence'[q] = evidence[q]
    BY <1>1, <1>7, <1>9, <1>19, WriteRows
  <2>2. StoredResults(q)' = StoredResults(q)
    <3>1. \A x \in NewResults(m) : x.round = r
      BY <1>5 DEF NewResults, ResultsOf
    <3>2. QED
      BY <1>9, <1>19, <3>1 DEF StoredResults
  <2>3. AwardsOf(q)' = AwardsOf(q)
    <3>1. m.labels \in [Slots -> [Sides -> Labels]] /\ m.picks \in SUBSET LockedPick
      BY EngineStateParts
    <3>2. \A a \in AwardsFor(r, m.picks, ResultsOf(m), m.labels) : a.round = r
      BY <3>1, AwardsType
    <3>3. QED
      BY <1>5, <1>9, <1>19, <3>2 DEF AwardsOf
  <2>4. {e \in ledger' : e.round = q} = {e \in ledger : e.round = q}
    <3>1. \A e \in RefundingNow(r, VoidedOf(m)) : RefundRow(e).round = r
      BY DEF RefundingNow, RefundRow
    <3>2. QED
      BY <1>5, <1>9, <1>19, <3>1 DEF RefundVoidedCards
  <2>5. QED
    BY <1>13, <1>14, <2>1, <2>2, <2>3, <2>4 DEF RowStays
<1>20. RowInv(r)'
  <2>1. "FINALIZED" # None /\ openAt[r] \in Nat
        /\ labels[r] \in [Slots -> [Sides -> Labels]]
    BY <1>3, LastRound, RoundAssumption DEF RoundStates
  <2>2. QED
    BY <1>5, <1>13, <1>16, <1>18, <2>1 DEF RowInv
<1>21. \A q \in Rounds : RowInv(q)'
  BY <1>19, <1>20, RowInvStays DEF RoundInv
<1>22. \A e \in published : Truthful(e)'
  <2> SUFFICES ASSUME NEW e \in published PROVE Truthful(e)'
    OBVIOUS
  <2>1. e \in Event /\ Truthful(e) /\ e.round \in Rounds
    BY DEF RoundInv, RoundTypeOK, Event
  <2>2. CASE e.round # r
    BY <1>19, <2>1, <2>2, TruthStays
  <2>3. CASE e.round = r
    BY <1>1, <1>5, <1>16, <1>17, <2>1, <2>3, TruthGrows DEF RoundTypeOK
  <2>4. QED
    BY <2>2, <2>3
<1>23. InStep(i)' /\ mem'[i] = f
  BY <1>1, <1>7, <1>9, <1>16, RoundAssumption DEF InStep
<1>24. PICK restored : restored = {e.slot : e \in RefundingNow(r, VoidedOf(m))}
  OBVIOUS
<1>25. PICK order : order = InOrder(VoidedOf(m))
  OBVIOUS
<1>26. Cardinality(VoidedOf(m)) \in Nat
       /\ order \in [1..Cardinality(VoidedOf(m)) -> VoidedOf(m)]
  BY <1>10, <1>25, InOrderLists
<1>27. PICK voids :
         voids = [n \in DOMAIN order |->
                    [kind |-> "BATTLE_VOID", round |-> r, slot |-> order[n],
                     cardUseRestored |-> order[n] \in restored]]
  OBVIOUS
<1>28. PICK finalized \in Event :
         finalized = [kind |-> "ROUND_FINALIZED", round |-> r,
                      results |-> ResultsOf(m), voided |-> VoidedOf(m)]
  BY <1>10, ResultsType DEF Event
<1>29. ASSUME NEW n \in DOMAIN order
       PROVE  /\ voids[n] \in Event
              /\ Truthful(voids[n])'
  <2>1. PICK s \in VoidedOf(m) : s = order[n]
    BY <1>26
  <2>2. PICK void : void = [kind |-> "BATTLE_VOID", round |-> r, slot |-> s,
                            cardUseRestored |-> s \in restored]
    OBVIOUS
  <2>3. s \in Slots /\ ~Scored(m.battles[s])
    BY DEF VoidedOf
  <2>4. void \in Event
    BY <2>2, <2>3 DEF Event
  <2>5. battleState'[r][s] = "VOID"
    BY <1>7, <1>16, <2>3
  <2>6. void.cardUseRestored <=> Refunded(r, s)'
    BY <1>18, <1>24, <2>2, <2>3
  <2>7. roundState'[r] # None
    BY <1>16, RoundAssumption DEF RoundStates
  <2>8. Truthful(void)'
    BY <1>16, <2>2, <2>5, <2>6, <2>7 DEF Truthful
  <2>9. voids[n] = void
    BY <1>27, <2>1, <2>2
  <2>10. QED
    BY <2>4, <2>8, <2>9
<1>30. Truthful(finalized)'
  <2>1. roundState'[r] # None
    BY <1>16, RoundAssumption DEF RoundStates
  <2>2. QED
    BY <1>16, <1>18, <1>28, <2>1 DEF Truthful
<1>31. voids \in Seq(Event) /\ DOMAIN order = 1..Len(voids) /\ Len(voids) \in Nat
  <2>1. voids \in [1..Cardinality(VoidedOf(m)) -> Event]
    BY <1>26, <1>27, <1>29
  <2>2. QED
    BY <1>26, <2>1, SeqDef, LenProperties
<1>32. PICK events \in Seq(Event) : events = Append(voids, finalized)
  BY <1>31, AppendProperties
<1>33. ASSUME NEW e \in {events[n] : n \in 1..Len(events)}
       PROVE  Truthful(e)'
  <2>1. e = finalized \/ \E n \in DOMAIN order : e = voids[n]
    BY <1>31, <1>32, AppendProperties
  <2>2. QED
    BY <1>29, <1>30, <2>1
<1>34. Announce(i, events, m) /\ events # << >>
  <2>1. Announce(i, events, m)
    BY <1>4, <1>5, <1>24, <1>25, <1>27, <1>28, <1>32, Zenon DEF SaveFinalized
  <2>2. QED
    BY <1>31, <1>32, <2>1, AppendProperties
<1>35. /\ DriverInv(i)' /\ out' = [out EXCEPT ![i] = events]
       /\ \E p \in Steps : pc' = [pc EXCEPT ![i] = p]
  BY <1>1, <1>23, <1>33, <1>34, AnnounceInv
<1>36. results' \subseteq Result /\ wpLedger' \subseteq Award
  <2>1. NewResults(m) \subseteq Result
    BY ResultsType DEF NewResults
  <2>2. AwardsFor(m.round, m.picks, ResultsOf(m), m.labels) \subseteq Award
    <3>1. /\ m.labels \in [Slots -> [Sides -> Labels]]
          /\ m.picks \in SUBSET LockedPick /\ m.round \in Rounds
      BY EngineStateParts
    <3>2. QED
      BY <3>1, AwardsType
  <2>3. QED
    BY <1>1, <1>9, <2>1, <2>2 DEF RoundTypeOK
<1>37. RoundInv'
  BY <1>1, <1>9, <1>12, <1>16, <1>21, <1>22, <1>35, <1>36, WriteTypes, DriverWrote
<1>38. Settles(r)
  BY <1>5, <1>9, <1>14, <1>16, <1>18, <1>19 DEF Settles
<1>39. QED
  BY <1>37, <1>38 DEF RoundMove

-----------------------------------------------------------------------------
(***************************************************************************)
(* The invariant holds.                                                    *)
(***************************************************************************)
LEMMA RoundInvInit == RoundInit => RoundInv
<1> SUFFICES ASSUME RoundInit
             PROVE  RoundInv
  OBVIOUS
<1>1. LedgerInv /\ PickTypeOK
  BY PickAssumption, FS_EmptySet
     DEF RoundInit, PickInit, LedgerInv, TypeInv, PickTypeOK, LedgerMatchesPicks,
         FrozenAreDecided, HasPick
<1>2. << >> \in Seq(Seq(Scorable)) /\ << >> \in Seq(Event) /\ Chained(<< >>)
  BY EmptySeq DEF Chained
<1>3. RoundTypeOK
  BY <1>1, <1>2, RoundAssumption
     DEF RoundInit, RoundTypeOK, BattleStates, Steps
<1>4. \A r \in Rounds : RowInv(r)
  <2>1. "FINALIZED" # None /\ "BATTLE_LIVE" # None
    BY RoundAssumption DEF RoundStates
  <2>2. QED
    BY <1>2, <2>1
       DEF RoundInit, PickInit, RowInv, Unsettled, StoredResults, AwardsOf, Refunded
<1>5. OrderInv /\ LeaseInv
  BY DEF RoundInit, OrderInv, Stored, LeaseInv, Running
<1>6. \A i \in Instances : DriverInv(i)
  BY EmptySeq DEF RoundInit, DriverInv, Pending
<1>7. QED
  BY <1>1, <1>3, <1>4, <1>5, <1>6 DEF RoundInv, RoundInit

LEMMA UnwrittenMove ==
  ASSUME RoundInv, UNCHANGED <<pickVars, storeVars>>
  PROVE  RoundMove
BY Unwritten DEF RoundMove, storeVars

LEMMA WorldMove ==
  ASSUME RoundInv, World
  PROVE  RoundMove
<1>1. /\ PickNext
      /\ UNCHANGED <<storeVars, published, driverVars>>
      /\ openAt' = openAt /\ frozen' = frozen /\ ledger' = ledger
  BY DEF World, PickNext, PickCalls, Tick, GrantCard, Receive, Refused, Submit,
         Withdraw, DecideCard
<1>2. \A r \in Rounds : RowStays(r)
  BY <1>1, QuietPicks DEF RoundInv
<1>3. QED
  BY <1>1, <1>2 DEF RoundMove, storeVars

LEMMA StutterStep ==
  ASSUME RoundInv, UNCHANGED vars
  PROVE  RoundInv'
<1>1. LedgerInv' /\ PickTypeOK' /\ (\A r \in Rounds : RowStays(r))
      /\ now' \in Int /\ now' >= now
  BY Unwritten DEF vars
<1>2. RoundTypeOK'
  BY <1>1 DEF vars, RoundInv, RoundTypeOK, storeVars, driverVars
<1>3. LeaseInv'
  BY DEF RoundInv, LeaseInv, vars, driverVars, Running
<1>4. \A j \in Instances : DriverInv(j)'
  BY <1>1, DriverStays DEF vars, driverVars
<1>5. QED
  BY <1>1, <1>2, <1>3, <1>4, QuietStep DEF vars

\* Every step keeps the invariant and moves the rounds as it may.
LEMMA RoundStep ==
  ASSUME ~StepsOutliveLease, RoundInv, [RoundNext]_vars
  PROVE  RoundInv' /\ RoundMove
<1>1. CASE World
  BY <1>1, WorldStep, WorldMove
<1>2. CASE LeaseExpires
  BY <1>2, LeaseExpiresStep, UnwrittenMove DEF LeaseExpires
<1>3. ASSUME NEW i \in Instances, TakeLease(i)
      PROVE  RoundInv' /\ RoundMove
  BY <1>3, TakeLeaseStep, UnwrittenMove DEF TakeLease
<1>4. ASSUME NEW i \in Instances, Stop(i)
      PROVE  RoundInv' /\ RoundMove
  BY <1>4, StopStep, UnwrittenMove DEF Stop
<1>5. ASSUME NEW i \in Instances, Crash(i)
      PROVE  RoundInv' /\ RoundMove
  BY <1>5, CrashStep, UnwrittenMove DEF Crash, EndProcess
<1>6. ASSUME NEW i \in Instances, Driver(i)
      PROVE  RoundInv' /\ RoundMove
  <2>1. CASE Load(i)
    BY <2>1, LoadStep, UnwrittenMove DEF Load
  <2>2. CASE OpenNext(i)
    BY <2>2, OpenNextStep, UnwrittenMove DEF OpenNext
  <2>3. CASE SaveOpened(i)
    BY <2>3, SaveOpenedStep
  <2>4. CASE PerformLock(i)
    BY <2>4, PerformLockStep
  <2>5. CASE SaveLocked(i)
    BY <2>5, SaveLockedStep
  <2>6. CASE PerformTick(i)
    BY <2>6, PerformTickStep, UnwrittenMove DEF PerformTick
  <2>7. CASE SaveTicked(i)
    BY <2>7, SaveTickedStep
  <2>8. CASE PerformFinalize(i)
    BY <2>8, PerformFinalizeStep, UnwrittenMove DEF PerformFinalize
  <2>9. CASE SaveFinalized(i)
    BY <2>9, SaveFinalizedStep
  <2>10. CASE Publish(i)
    BY <2>10, PublishStep, UnwrittenMove DEF Publish
  <2>11. CASE Halt(i)
    BY <2>11, HaltStep, UnwrittenMove DEF Halt, EndProcess
  <2>12. QED
    BY <1>6, <2>1, <2>2, <2>3, <2>4, <2>5, <2>6, <2>7, <2>8, <2>9, <2>10, <2>11
       DEF Driver
<1>7. CASE UNCHANGED vars
  BY <1>7, StutterStep, UnwrittenMove DEF vars
<1>8. QED
  BY <1>1, <1>2, <1>3, <1>4, <1>5, <1>6, <1>7 DEF RoundNext

LEMMA RoundInvHolds ==
  ASSUME ~StepsOutliveLease
  PROVE  RoundSafety => []RoundInv
<1>1. RoundInv /\ [RoundNext]_vars => RoundInv'
  BY RoundStep
<1>2. QED
  BY <1>1, RoundInvInit, PTL DEF RoundSafety

-----------------------------------------------------------------------------
(***************************************************************************)
(* What the runs check on small instances.                                 *)
(***************************************************************************)

\* The next round opens only after the one before it is settled, and not
\* before its end, whichever instance opens it (runRounds, nextRoundOpensAt).
THEOREM RoundsAreInSequence ==
  ASSUME ~StepsOutliveLease
  PROVE  RoundSafety => []RoundsInSequence
<1>1. RoundInv => RoundsInSequence
  BY DEF RoundInv, OrderInv, RoundsInSequence, Stored
<1>2. QED
  BY <1>1, RoundInvHolds, PTL

\* Whatever was published is in the store, through every crash and resume.
THEOREM WhatIsPublishedIsStored ==
  ASSUME ~StepsOutliveLease
  PROVE  RoundSafety => []PublishedIsStored
<1>1. RoundInv => PublishedIsStored
  BY DEF RoundInv, Truthful, PublishedIsStored
<1>2. QED
  BY <1>1, RoundInvHolds, PTL

\* A round is settled once and exactly: its War Points are what its frozen
\* picks and its recorded results earn, and a charge comes back exactly where
\* the battle was voided (saveFinalization, run again after every crash).
THEOREM SettlementIsExact ==
  ASSUME ~StepsOutliveLease
  PROVE  RoundSafety => []AwardsAreExact
<1>1. RoundInv => AwardsAreExact
  <2> SUFFICES ASSUME RoundInv, NEW r \in Rounds
               PROVE  /\ {a \in wpLedger : a.round = r} =
                           IF roundState[r] = "FINALIZED"
                           THEN AwardsFor(r, FrozenPicks(r), StoredResults(r), labels[r])
                           ELSE {}
                      /\ \A s \in Slots :
                           IF roundState[r] # "FINALIZED"
                           THEN Found(r, s) = {} /\ ~Refunded(r, s)
                           ELSE /\ battleState[r][s] =
                                     IF Found(r, s) = {} THEN "VOID" ELSE "FINALIZED"
                                /\ Cardinality(Found(r, s)) <= 1
                                /\ \A e \in ledger :
                                     e.round = r /\ e.slot = s
                                       => (RefundRow(e) \in ledger <=> Found(r, s) = {})
    BY DEF AwardsAreExact, Found
  <2>1. IF roundState[r] = "FINALIZED" THEN Settled(r) ELSE Unsettled(r)
    BY DEF RoundInv, RowInv
  <2>2. CASE roundState[r] = "FINALIZED"
    BY <2>1, <2>2 DEF Settled, AwardsOf
  <2>3. CASE roundState[r] # "FINALIZED"
    BY <2>1, <2>3 DEF Unsettled, AwardsOf, Found
  <2>4. QED
    BY <2>2, <2>3
<1>2. QED
  BY <1>1, RoundInvHolds, PTL

\* The checkpoints of a battle form one chain whatever drivers wrote them, and
\* its result rests on the whole of it (writeCheckpoint, loadLatest).
THEOREM EvidenceIsUnbroken ==
  ASSUME ~StepsOutliveLease
  PROVE  RoundSafety => []EvidenceUnbroken
<1>1. RoundInv => EvidenceUnbroken
  <2> SUFFICES ASSUME RoundInv, NEW r \in Rounds, NEW s \in Slots
               PROVE  /\ Chained(evidence[r][s])
                      /\ \A x \in Found(r, s) :
                           /\ evidence[r][s] # << >>
                           /\ x.chain = evidence[r][s][Len(evidence[r][s])]
    BY DEF EvidenceUnbroken, Chained, Found
  <2>1. RowInv(r)
    BY DEF RoundInv
  <2>2. CASE roundState[r] = "FINALIZED"
    BY <2>1, <2>2 DEF RowInv, Settled, Tip
  <2>3. CASE roundState[r] # "FINALIZED"
    BY <2>1, <2>3 DEF RowInv, Unsettled, Found
  <2>4. QED
    BY <2>1, <2>2, <2>3 DEF RowInv
<1>2. QED
  BY <1>1, RoundInvHolds, PTL

\* A settled round is history: with one driver at a time no step rewrites its
\* states, its results or its awards.  The run that lets a step outlive its
\* lease shows that the hypothesis is needed.
THEOREM SettledRoundsStay ==
  ASSUME ~StepsOutliveLease
  PROVE  RoundSafety => SettledRoundsFinal
<1>1. RoundInv /\ [RoundNext]_vars
        => [\A r \in Rounds : roundState[r] = "FINALIZED" =>
              /\ roundState'[r] = "FINALIZED"
              /\ battleState'[r] = battleState[r]
              /\ StoredResults(r)' = StoredResults(r)
              /\ {a \in wpLedger' : a.round = r} = {a \in wpLedger : a.round = r}]_vars
  <2> SUFFICES ASSUME RoundInv, [RoundNext]_vars, NEW r \in Rounds,
                      roundState[r] = "FINALIZED"
               PROVE  /\ roundState'[r] = "FINALIZED"
                      /\ battleState'[r] = battleState[r]
                      /\ StoredResults(r)' = StoredResults(r)
                      /\ {a \in wpLedger' : a.round = r} = {a \in wpLedger : a.round = r}
    OBVIOUS
  <2>1. RowStays(r)
    <3>1. RoundMove
      BY RoundStep
    <3>2. "FINALIZED" # None
      BY RoundAssumption DEF RoundStates
    <3>3. QED
      BY <3>1, <3>2 DEF RoundMove, Opens, Plays, Locks, Settles
  <2>2. QED
    BY <2>1 DEF RowStays, AwardsOf
<1>2. QED
  BY <1>1, RoundInvHolds, PTL DEF RoundSafety, SettledRoundsFinal

-----------------------------------------------------------------------------
(***************************************************************************)
(* The refinement: every step of the driver is a step of RoundSettlement,  *)
(* or none.                                                                *)
(***************************************************************************)
PhaseOf(r) ==
  CASE roundState[r] = None -> "NONE"
    [] roundState[r] = "PICK_OPEN" -> "OPEN"
    [] roundState[r] = "BATTLE_LIVE" -> "LIVE"
    [] OTHER -> "SETTLED"

BackedBy(r) ==
  IF roundState[r] \in {"BATTLE_LIVE", "FINALIZED"} THEN FrozenPicks(r) ELSE {}

WinnerOf(r, s) ==
  IF \E x \in StoredResults(r) : x.slot = s
  THEN (CHOOSE x \in StoredResults(r) : x.slot = s).winner
  ELSE "VOID"

OutcomeOf(r) ==
  [s \in Slots |-> IF roundState[r] # "FINALIZED" THEN "PENDING" ELSE WinnerOf(r, s)]

\* The abstract variables, as the refinement maps them.
PhaseMap == [r \in Rounds |-> PhaseOf(r)]
BackedMap == [r \in Rounds |-> BackedBy(r)]
OutcomeMap == [r \in Rounds |-> OutcomeOf(r)]

LEMMA Phases ==
  ASSUME NEW r \in Rounds
  PROVE  /\ roundState[r] = None => PhaseOf(r) = "NONE"
         /\ roundState[r] = "PICK_OPEN" => PhaseOf(r) = "OPEN"
         /\ roundState[r] = "BATTLE_LIVE" => PhaseOf(r) = "LIVE"
         /\ roundState[r] = "FINALIZED" => PhaseOf(r) = "SETTLED"
         /\ roundState'[r] = "PICK_OPEN" => PhaseOf(r)' = "OPEN"
         /\ roundState'[r] = "BATTLE_LIVE" => PhaseOf(r)' = "LIVE"
         /\ roundState'[r] = "FINALIZED" => PhaseOf(r)' = "SETTLED"
<1>1. None \notin {"PICK_OPEN", "BATTLE_LIVE", "FINALIZED"}
  BY RoundAssumption DEF RoundStates
<1>2. QED
  BY <1>1 DEF PhaseOf

\* A round that stays maps to the same abstract round.
LEMMA StayMaps ==
  ASSUME NEW r \in Rounds, RowStays(r)
  PROVE  /\ PhaseOf(r)' = PhaseOf(r)
         /\ BackedBy(r)' = BackedBy(r)
         /\ OutcomeOf(r)' = OutcomeOf(r)
<1>1. PhaseOf(r)' = PhaseOf(r)
  BY DEF RowStays, PhaseOf
<1>2. BackedBy(r)' = BackedBy(r)
  BY DEF RowStays, BackedBy
<1>3. OutcomeOf(r)' = OutcomeOf(r)
  BY DEF RowStays, OutcomeOf, WinnerOf
<1>4. QED
  BY <1>1, <1>2, <1>3

LEMMA PendingOutcome ==
  ASSUME NEW r \in Rounds
  PROVE  /\ roundState[r] # "FINALIZED" => OutcomeOf(r) = [s \in Slots |-> "PENDING"]
         /\ roundState'[r] # "FINALIZED" => OutcomeOf(r)' = [s \in Slots |-> "PENDING"]
BY DEF OutcomeOf

\* A wallet has one decision in a round.
LEMMA OneDecisionEach ==
  ASSUME NEW r \in Rounds, NEW p \in FrozenPicks(r), NEW q \in FrozenPicks(r),
         p.wallet = q.wallet
  PROVE  p = q
BY DEF FrozenPicks

\* A round that moves alone maps to an abstract step of that round alone.
LEMMA OneMoves ==
  ASSUME NEW r \in Rounds, \A q \in Rounds \ {r} : RowStays(q)
  PROVE  /\ PhaseMap' = [PhaseMap EXCEPT ![r] = PhaseOf(r)']
         /\ BackedMap' = [BackedMap EXCEPT ![r] = BackedBy(r)']
         /\ OutcomeMap' = [OutcomeMap EXCEPT ![r] = OutcomeOf(r)']
         /\ RoundTypeOK /\ RoundTypeOK'
              => labels' = [labels EXCEPT ![r] = labels'[r]]
<1>1. \A q \in Rounds \ {r} : /\ PhaseOf(q)' = PhaseOf(q)
                              /\ BackedBy(q)' = BackedBy(q)
                              /\ OutcomeOf(q)' = OutcomeOf(q)
                              /\ labels'[q] = labels[q]
  BY StayMaps DEF RowStays
<1>2. PhaseMap' = [PhaseMap EXCEPT ![r] = PhaseOf(r)']
  BY <1>1 DEF PhaseMap
<1>3. BackedMap' = [BackedMap EXCEPT ![r] = BackedBy(r)']
  BY <1>1 DEF BackedMap
<1>4. OutcomeMap' = [OutcomeMap EXCEPT ![r] = OutcomeOf(r)']
  BY <1>1 DEF OutcomeMap
<1>5. RoundTypeOK /\ RoundTypeOK' => labels' = [labels EXCEPT ![r] = labels'[r]]
  BY <1>1 DEF RoundTypeOK
<1>6. QED
  BY <1>2, <1>3, <1>4, <1>5

LEMMA OpensMaps ==
  ASSUME RoundTypeOK, RoundTypeOK', NEW r \in Rounds, Opens(r)
  PROVE  Settlement!Open(r)
<1>1. PhaseMap[r] = "NONE" /\ PhaseOf(r)' = "OPEN"
  BY Phases DEF Opens, PhaseMap
<1>2. \A q \in Rounds : PhaseMap[q] \in {"NONE", "SETTLED"}
  BY Phases, <1>1 DEF Opens, PhaseMap
<1>3. None \notin {"PICK_OPEN", "BATTLE_LIVE", "FINALIZED"}
  BY RoundAssumption DEF RoundStates
<1>4. BackedBy(r)' = BackedBy(r)
  BY <1>3 DEF Opens, BackedBy
<1>5. OutcomeOf(r)' = OutcomeOf(r)
  BY <1>3, PendingOutcome DEF Opens
<1>6. /\ PhaseMap' = [PhaseMap EXCEPT ![r] = "OPEN"]
      /\ BackedMap' = [BackedMap EXCEPT ![r] = BackedBy(r)]
      /\ OutcomeMap' = [OutcomeMap EXCEPT ![r] = OutcomeOf(r)]
      /\ labels' = [labels EXCEPT ![r] = labels'[r]]
  BY <1>1, <1>4, <1>5, OneMoves DEF Opens
<1>7. BackedMap' = BackedMap /\ OutcomeMap' = OutcomeMap
  BY <1>6 DEF BackedMap, OutcomeMap
<1>8. QED
  BY <1>1, <1>2, <1>6, <1>7
     DEF Opens, Settlement!Open, Settlement!RoundSides, Sides,
         PhaseMap, BackedMap, OutcomeMap, PhaseOf, BackedBy, OutcomeOf, WinnerOf

LEMMA PlaysMaps ==
  ASSUME RoundTypeOK, RoundTypeOK', NEW r \in Rounds, Plays(r)
  PROVE  UNCHANGED <<PhaseMap, labels, BackedMap, OutcomeMap, wpLedger>>
<1>1. PhaseOf(r)' = PhaseOf(r) /\ BackedBy(r)' = BackedBy(r)
  BY DEF Plays, PhaseOf, BackedBy
<1>2. OutcomeOf(r)' = OutcomeOf(r)
  BY PendingOutcome DEF Plays
<1>3. /\ PhaseMap' = [PhaseMap EXCEPT ![r] = PhaseOf(r)]
      /\ BackedMap' = [BackedMap EXCEPT ![r] = BackedBy(r)]
      /\ OutcomeMap' = [OutcomeMap EXCEPT ![r] = OutcomeOf(r)]
      /\ labels' = [labels EXCEPT ![r] = labels[r]]
  BY <1>1, <1>2, OneMoves DEF Plays
<1>4. QED
  BY <1>3 DEF Plays, PhaseMap, BackedMap, OutcomeMap, RoundTypeOK

LEMMA LocksMaps ==
  ASSUME RoundTypeOK, RoundTypeOK', LedgerInv, NEW r \in Rounds, Locks(r)
  PROVE  Settlement!Lock(r)
<1>1. PhaseMap[r] = "OPEN" /\ PhaseOf(r)' = "LIVE"
  BY Phases DEF Locks, PhaseMap
<1>2. BackedBy(r)' = FrozenPicks(r)
  BY DEF Locks, BackedBy
<1>3. OutcomeOf(r)' = OutcomeOf(r)
  BY PendingOutcome DEF Locks
<1>4. /\ PhaseMap' = [PhaseMap EXCEPT ![r] = "LIVE"]
      /\ BackedMap' = [BackedMap EXCEPT ![r] = FrozenPicks(r)]
      /\ OutcomeMap' = [OutcomeMap EXCEPT ![r] = OutcomeOf(r)]
      /\ labels' = [labels EXCEPT ![r] = labels[r]]
  BY <1>1, <1>2, <1>3, OneMoves DEF Locks
<1>5. OutcomeMap' = OutcomeMap /\ labels' = labels
  BY <1>4 DEF OutcomeMap, RoundTypeOK
<1>6. FrozenPicks(r) \in SUBSET Settlement!Backing
  BY FrozenPicksType DEF LockedPick, Settlement!Backing, Settlement!RoundSides, Sides
<1>7. Settlement!OneEach(FrozenPicks(r))
  BY OneDecisionEach DEF Settlement!OneEach
<1>8. \E locked \in SUBSET Settlement!Backing :
        Settlement!OneEach(locked) /\ BackedMap' = [BackedMap EXCEPT ![r] = locked]
  BY <1>4, <1>6, <1>7
<1>9. QED
  BY <1>1, <1>4, <1>5, <1>8
     DEF Locks, Settlement!Lock, PhaseMap, BackedMap, OutcomeMap, PhaseOf, BackedBy,
         OutcomeOf, WinnerOf

\* The winners are read off the results that the settling step records.
LEMMA SettlesMaps ==
  ASSUME RoundInv, RoundInv', NEW r \in Rounds, Settles(r)
  PROVE  Settlement!Settle(r)
<1>1. /\ RoundTypeOK /\ RoundTypeOK' /\ LedgerInv /\ Settled(r)'
  BY DEF RoundInv, RowInv, Settles
<1>2. PhaseMap[r] = "LIVE" /\ PhaseOf(r)' = "SETTLED"
  BY Phases DEF Settles, PhaseMap
<1>3. BackedMap[r] = FrozenPicks(r) /\ BackedBy(r)' = BackedBy(r)
  BY DEF Settles, BackedBy, BackedMap
<1>4. PICK winner : winner = [s \in Slots |-> WinnerOf(r, s)']
  OBVIOUS
<1>5. winner \in [Slots -> Settlement!RoundSides \cup {"VOID"}]
  <2>1. \A s \in Slots : WinnerOf(r, s)' \in Sides \cup {"VOID"}
    BY <1>1 DEF WinnerOf, StoredResults, RoundTypeOK, Result
  <2>2. QED
    BY <1>4, <2>1 DEF Settlement!RoundSides, Sides
<1>6. OutcomeOf(r)' = winner
  BY <1>4 DEF OutcomeOf, Settles
<1>7. /\ PhaseMap' = [PhaseMap EXCEPT ![r] = "SETTLED"]
      /\ BackedMap' = [BackedMap EXCEPT ![r] = BackedBy(r)]
      /\ OutcomeMap' = [OutcomeMap EXCEPT ![r] = winner]
      /\ labels' = [labels EXCEPT ![r] = labels[r]]
  BY <1>1, <1>2, <1>3, <1>6, OneMoves DEF Settles
<1>8. BackedMap' = BackedMap /\ labels' = labels
  BY <1>1, <1>7 DEF BackedMap, RoundTypeOK
<1>9. ASSUME NEW p \in FrozenPicks(r)
      PROVE  (\E x \in StoredResults(r)' : x.slot = p.slot /\ x.winner = p.side)
               <=> winner[p.slot] = p.side
  <2>1. p.slot \in Slots /\ p.side \in Sides
    BY <1>1, FrozenPicksType DEF LockedPick
  <2>2. \A x, y \in Found(r, p.slot)' : x = y
    BY <1>1, <2>1 DEF Settled
  <2>3. "VOID" # p.side
    BY <2>1 DEF Sides
  <2>4. CASE \E x \in StoredResults(r)' : x.slot = p.slot
    <3>1. PICK x : x = CHOOSE y \in StoredResults(r)' : y.slot = p.slot
      OBVIOUS
    <3>2. /\ x \in StoredResults(r)' /\ x.slot = p.slot
          /\ winner[p.slot] = x.winner
      BY <1>4, <2>1, <2>4, <3>1 DEF WinnerOf
    <3>3. QED
      BY <2>2, <3>2 DEF Found
  <2>5. CASE ~\E x \in StoredResults(r)' : x.slot = p.slot
    BY <1>4, <2>1, <2>3, <2>5 DEF WinnerOf
  <2>6. QED
    BY <2>4, <2>5
<1>10. AwardsFor(r, FrozenPicks(r), StoredResults(r)', labels[r])
         = Settlement!Owed(r, labels[r], FrozenPicks(r), winner)
  BY <1>9 DEF AwardsFor, Settlement!Owed
<1>11. wpLedger' = wpLedger \cup Settlement!Owed(r, labels[r], BackedMap[r], winner)
  BY <1>3, <1>10 DEF Settles
<1>12. QED
  BY <1>2, <1>5, <1>7, <1>8, <1>11
     DEF Settlement!Settle, PhaseMap, BackedMap, OutcomeMap, PhaseOf, BackedBy,
         OutcomeOf, WinnerOf

LEMMA StepMaps ==
  ASSUME RoundInv, RoundInv', RoundMove
  PROVE  [Settlement!SettlementNext]_Settlement!settlementVars
<1>1. RoundTypeOK /\ RoundTypeOK' /\ LedgerInv
  BY DEF RoundInv
<1>2. CASE wpLedger' = wpLedger /\ \A r \in Rounds : RowStays(r)
  <2>1. PhaseMap' = PhaseMap /\ BackedMap' = BackedMap /\ OutcomeMap' = OutcomeMap
    BY <1>2, StayMaps DEF PhaseMap, BackedMap, OutcomeMap
  <2>2. labels' = labels
    BY <1>1, <1>2 DEF RoundTypeOK, RowStays
  <2>3. QED
    BY <1>2, <2>1, <2>2
       DEF Settlement!settlementVars, PhaseMap, BackedMap, OutcomeMap, PhaseOf,
           BackedBy, OutcomeOf, WinnerOf
<1>3. ASSUME NEW r \in Rounds, Plays(r)
      PROVE  UNCHANGED Settlement!settlementVars
  BY <1>1, <1>3, PlaysMaps
     DEF Settlement!settlementVars, PhaseMap, BackedMap, OutcomeMap, PhaseOf,
         BackedBy, OutcomeOf, WinnerOf
<1>4. ASSUME NEW r \in Rounds, Opens(r) \/ Locks(r) \/ Settles(r)
      PROVE  Settlement!SettlementNext
  BY <1>1, <1>4, OpensMaps, LocksMaps, SettlesMaps DEF Settlement!SettlementNext
<1>5. QED
  BY <1>2, <1>3, <1>4 DEF RoundMove

LEMMA InitMaps == RoundInit => Settlement!SettlementInit
<1> SUFFICES ASSUME RoundInit
             PROVE  Settlement!SettlementInit
  OBVIOUS
<1>1. \A r \in Rounds : roundState[r] = None
  BY DEF RoundInit
<1>2. None \notin {"PICK_OPEN", "BATTLE_LIVE", "FINALIZED"}
  BY RoundAssumption DEF RoundStates
<1>3. PhaseMap = [r \in Rounds |-> "NONE"]
  BY <1>1, <1>2 DEF PhaseMap, PhaseOf
<1>4. BackedMap = [r \in Rounds |-> {}]
  BY <1>1, <1>2 DEF BackedMap, BackedBy
<1>5. OutcomeMap = [r \in Rounds |-> [s \in Slots |-> "PENDING"]]
  BY <1>1, <1>2 DEF OutcomeMap, OutcomeOf
<1>6. labels = [r \in Rounds |-> None] /\ wpLedger = {}
  BY DEF RoundInit
<1>7. QED
  BY <1>3, <1>4, <1>5, <1>6
     DEF Settlement!SettlementInit, PhaseMap, BackedMap, OutcomeMap, PhaseOf,
         BackedBy, OutcomeOf, WinnerOf

\* The driver, with its crashes, resumes, retried steps and checkpoints,
\* implements RoundSettlement: a round opens when no other is in play, is
\* locked once with one decision per wallet, and settled once, at one instant.
THEOREM SettlementIsImplemented ==
  ASSUME ~StepsOutliveLease
  PROVE  RoundSafety => ImplementsSettlement
<1>1. RoundInv /\ RoundInv' /\ [RoundNext]_vars
        => [Settlement!SettlementNext]_Settlement!settlementVars
  BY RoundStep, StepMaps
<1>2. QED
  BY <1>1, InitMaps, RoundInvHolds, PTL
     DEF RoundSafety, ImplementsSettlement, Settlement!SettlementSpec

=============================================================================
