------------------------- MODULE GenesisFlowProofs -------------------------
(***************************************************************************)
(* The vault is solvent for any set of wallets, any reward and any amounts *)
(* funded and withdrawn.  The Genesis flow drives it only as the contract  *)
(* allows, a SECRET is recorded only with its reward set aside on chain, a *)
(* card is the one its block deals, and nothing is rerolled, for any       *)
(* number of calls, processes, wallets, faults and transactions.           *)
(***************************************************************************)
EXTENDS GenesisFlow, FiniteSetTheorems, TLAPS

-----------------------------------------------------------------------------
(***************************************************************************)
(* The vault by itself.                                                    *)
(***************************************************************************)

\* The inductive invariant: the cardinalities Solvent speaks of are numbers
\* because Wallets is finite.
VaultInv == VaultTypeOK /\ Solvent

\* Moving one wallet from state s to another state t removes it from those in
\* s, adds it to those in t, and leaves every other class as it was.
LEMMA OneWalletMoves ==
  ASSUME VaultTypeOK, NEW w \in Wallets,
         NEW s \in EntitlementState, NEW t \in EntitlementState, s # t,
         entitlements[w] = s,
         entitlements' = [entitlements EXCEPT ![w] = t]
  PROVE  /\ Cardinality(InState(s))' = Cardinality(InState(s)) - 1
         /\ Cardinality(InState(t))' = Cardinality(InState(t)) + 1
         /\ \A u \in EntitlementState \ {s, t} : InState(u)' = InState(u)
         /\ \A u \in EntitlementState : Cardinality(InState(u)) \in Nat
<1>1. \A u \in EntitlementState : IsFiniteSet(InState(u))
  BY VaultAssumption, FS_Subset DEF InState
<1>2. InState(s)' = InState(s) \ {w} /\ InState(t)' = InState(t) \cup {w}
  BY DEF InState, VaultTypeOK
<1>3. w \in InState(s) /\ w \notin InState(t)
  BY DEF InState
<1>4. \A u \in EntitlementState \ {s, t} : InState(u)' = InState(u)
  BY DEF InState, VaultTypeOK
<1>5. Cardinality(InState(s) \ {w}) = Cardinality(InState(s)) - 1
  BY <1>1, <1>3, FS_RemoveElement
<1>6. Cardinality(InState(t) \cup {w}) = Cardinality(InState(t)) + 1
  BY <1>1, <1>3, FS_AddElement
<1>7. \A u \in EntitlementState : Cardinality(InState(u)) \in Nat
  BY <1>1, FS_CardinalityType
<1> QED
  BY <1>2, <1>4, <1>5, <1>6, <1>7

\* Initially nobody is entitled and nothing is owed.
LEMMA VaultInitInv == VaultInit => VaultInv
<1> SUFFICES ASSUME VaultInit PROVE VaultInv
  OBVIOUS
<1>1. VaultTypeOK
  <2>1. totalReserved \in Nat /\ balance \in Nat /\ funded \in 0..MaxFunded
    BY VaultAssumption DEF VaultInit
  <2>2. entitlements \in [Wallets -> EntitlementState] /\ paused \in BOOLEAN
    BY Zenon DEF VaultInit, EntitlementState
  <2> QED BY <2>1, <2>2 DEF VaultTypeOK
<1>2. InState("RESERVED") = {} /\ InState("CLAIMED") = {}
  BY DEF VaultInit, InState
<1>3. Cardinality({}) = 0
  BY FS_EmptySet
<1>4. REWARD_AMOUNT * 0 = 0
  BY VaultAssumption
<1> QED
  BY <1>1, <1>2, <1>3, <1>4 DEF VaultInit, VaultInv, Solvent

\* Every transaction keeps the vault solvent.
LEMMA VaultStepInv == VaultInv /\ [VaultNext]_vaultVars => VaultInv'
<1> SUFFICES ASSUME VaultInv, [VaultNext]_vaultVars PROVE VaultInv'
  OBVIOUS
<1> DEFINE reservedCount == Cardinality(InState("RESERVED"))
           claimedCount == Cardinality(InState("CLAIMED"))
<1>0. REWARD_AMOUNT \in Nat /\ REWARD_AMOUNT > 0 /\ MaxFunded \in Nat
  BY VaultAssumption
<1>c. reservedCount \in Nat /\ claimedCount \in Nat
  <2>1. IsFiniteSet(InState("RESERVED")) /\ IsFiniteSet(InState("CLAIMED"))
    BY VaultAssumption, FS_Subset DEF InState
  <2> QED BY <2>1, FS_CardinalityType
<1> USE DEF VaultInv
<1>k. ASSUME entitlements' = entitlements
      PROVE  reservedCount' = reservedCount /\ claimedCount' = claimedCount
  BY <1>k DEF InState
<1>1. ASSUME NEW amount \in 1..MaxFunded, Fund(amount) PROVE VaultInv'
  <2>1. VaultTypeOK' BY <1>0, <1>1 DEF Fund, VaultTypeOK
  <2>2. reservedCount' = reservedCount /\ claimedCount' = claimedCount
    BY <1>1, <1>k DEF Fund
  <2> HIDE DEF reservedCount, claimedCount
  <2>3. /\ totalReserved = REWARD_AMOUNT * reservedCount
        /\ totalReserved <= balance
        /\ balance + REWARD_AMOUNT * claimedCount <= funded
    BY DEF Solvent, reservedCount, claimedCount
  <2>4. /\ totalReserved' = REWARD_AMOUNT * reservedCount'
        /\ totalReserved' <= balance'
        /\ balance' + REWARD_AMOUNT * claimedCount' <= funded'
    BY <1>0, <1>1, <1>c, <2>2, <2>3 DEF Fund, VaultTypeOK
  <2> QED BY <2>1, <2>4 DEF Solvent, reservedCount, claimedCount
<1>2. ASSUME NEW amount \in 1..MaxFunded, withdrawAvailable(amount) PROVE VaultInv'
  <2>1. reservedCount' = reservedCount /\ claimedCount' = claimedCount
    BY <1>2, <1>k DEF withdrawAvailable
  <2> HIDE DEF reservedCount, claimedCount
  <2>2. /\ totalReserved = REWARD_AMOUNT * reservedCount
        /\ totalReserved <= balance
        /\ balance + REWARD_AMOUNT * claimedCount <= funded
    BY DEF Solvent, reservedCount, claimedCount
  <2>3. amount <= balance - totalReserved /\ balance' = balance - amount
    BY <1>2 DEF withdrawAvailable, availableBalance, VaultTypeOK
  <2>4. VaultTypeOK'
    BY <1>0, <1>2, <2>3 DEF withdrawAvailable, VaultTypeOK
  <2>5. /\ totalReserved' = REWARD_AMOUNT * reservedCount'
        /\ totalReserved' <= balance'
        /\ balance' + REWARD_AMOUNT * claimedCount' <= funded'
    BY <1>0, <1>2, <1>c, <2>1, <2>2, <2>3 DEF withdrawAvailable, VaultTypeOK
  <2> QED BY <2>4, <2>5 DEF Solvent, reservedCount, claimedCount
<1>3. ASSUME NEW w \in Wallets, reserve(w) PROVE VaultInv'
  <2>1. entitlements[w] = "NONE" /\ isCovered
    BY <1>3 DEF reserve, WouldRevert
  <2>2. VaultTypeOK'
    BY <1>0, <1>3 DEF reserve, VaultTypeOK, EntitlementState
  <2>3. reservedCount' = reservedCount + 1 /\ claimedCount' = claimedCount
    BY <1>3, <2>1, OneWalletMoves DEF reserve, EntitlementState
  <2> HIDE DEF reservedCount, claimedCount
  <2>4. /\ totalReserved = REWARD_AMOUNT * reservedCount
        /\ balance + REWARD_AMOUNT * claimedCount <= funded
    BY DEF Solvent, reservedCount, claimedCount
  <2>5. balance - totalReserved >= REWARD_AMOUNT
    BY <1>0, <2>1 DEF isCovered, availableBalance, VaultTypeOK
  <2>6. REWARD_AMOUNT * (reservedCount + 1) = REWARD_AMOUNT * reservedCount + REWARD_AMOUNT
    BY <1>0, <1>c
  <2>7. /\ totalReserved' = REWARD_AMOUNT * reservedCount'
        /\ totalReserved' <= balance'
        /\ balance' + REWARD_AMOUNT * claimedCount' <= funded'
    BY <1>0, <1>3, <1>c, <2>3, <2>4, <2>5, <2>6 DEF reserve, VaultTypeOK
  <2> QED BY <2>2, <2>7 DEF Solvent, reservedCount, claimedCount
<1>4. ASSUME NEW w \in Wallets, Claim(w) PROVE VaultInv'
  <2>1. reservedCount' = reservedCount - 1 /\ claimedCount' = claimedCount + 1
    BY <1>4, OneWalletMoves DEF Claim, EntitlementState
  <2>2. reservedCount - 1 \in Nat
    <3>1. w \in InState("RESERVED") /\ IsFiniteSet(InState("RESERVED"))
      BY <1>4, VaultAssumption, FS_Subset DEF InState, Claim
    <3>2. InState("RESERVED") # {}
      BY <3>1
    <3> QED BY <1>c, <3>1, <3>2, FS_EmptySet
  <2> HIDE DEF reservedCount, claimedCount
  <2>3. /\ totalReserved = REWARD_AMOUNT * reservedCount
        /\ totalReserved <= balance
        /\ balance + REWARD_AMOUNT * claimedCount <= funded
    BY DEF Solvent, reservedCount, claimedCount
  <2>4. /\ REWARD_AMOUNT * (reservedCount - 1) = REWARD_AMOUNT * reservedCount - REWARD_AMOUNT
        /\ REWARD_AMOUNT * (reservedCount - 1) \in Nat
        /\ REWARD_AMOUNT * (claimedCount + 1) = REWARD_AMOUNT * claimedCount + REWARD_AMOUNT
    BY <1>0, <1>c, <2>2
  <2>5. VaultTypeOK'
    BY <1>0, <1>4, <2>3, <2>4 DEF Claim, VaultTypeOK, EntitlementState
  <2>6. /\ totalReserved' = REWARD_AMOUNT * reservedCount'
        /\ totalReserved' <= balance'
        /\ balance' + REWARD_AMOUNT * claimedCount' <= funded'
    BY <1>0, <1>4, <1>c, <2>1, <2>3, <2>4 DEF Claim, VaultTypeOK
  <2> QED BY <2>5, <2>6 DEF Solvent, reservedCount, claimedCount
<1>5. CASE Pause
  BY <1>5, <1>k DEF Pause, VaultTypeOK, Solvent
<1>6. CASE UNCHANGED vaultVars
  BY <1>6, <1>k DEF vaultVars, VaultTypeOK, Solvent
<1> QED
  BY <1>1, <1>2, <1>3, <1>4, <1>5, <1>6 DEF VaultNext, Treasury

\* Every transaction advances entitlements and takes no reserved reward.
LEMMA VaultStepAdvances ==
  ASSUME VaultInv, [VaultNext]_vaultVars
  PROVE  /\ \A w \in Wallets : Advances(w)
         /\ entitlements' = entitlements => balance' >= balance - availableBalance
<1> USE DEF VaultInv
<1>0. balance >= balance - availableBalance /\ availableBalance \in Nat
  BY DEF VaultTypeOK, availableBalance
<1>1. ASSUME NEW amount \in 1..MaxFunded, Fund(amount) \/ withdrawAvailable(amount)
      PROVE  /\ entitlements' = entitlements
             /\ balance' >= balance - availableBalance
  <2>1. amount \in Nat BY VaultAssumption
  <2>2. CASE Fund(amount)
    BY <1>0, <2>1, <2>2 DEF Fund, VaultTypeOK
  <2>3. CASE withdrawAvailable(amount)
    BY <1>0, <2>1, <2>3 DEF withdrawAvailable, VaultTypeOK
  <2> QED BY <1>1, <2>2, <2>3
<1>2. ASSUME NEW w \in Wallets, reserve(w)
      PROVE  (\A v \in Wallets : Advances(v)) /\ balance' = balance
  <2>1. entitlements[w] = "NONE" BY <1>2 DEF reserve, WouldRevert
  <2>2. \A v \in Wallets : entitlements'[v] = IF v = w THEN "RESERVED" ELSE entitlements[v]
    BY <1>2 DEF reserve, VaultTypeOK
  <2>3. \A v \in Wallets : Advances(v) BY <2>1, <2>2 DEF Advances
  <2> QED BY <1>2, <2>3 DEF reserve
<1>3. ASSUME NEW w \in Wallets, Claim(w)
      PROVE  (\A v \in Wallets : Advances(v)) /\ entitlements' # entitlements
  <2>1. \A v \in Wallets : entitlements'[v] = IF v = w THEN "CLAIMED" ELSE entitlements[v]
    BY <1>3 DEF Claim, VaultTypeOK
  <2>2. entitlements[w] = "RESERVED" /\ ~paused BY <1>3 DEF Claim
  <2>3. \A v \in Wallets : Advances(v) BY <2>1, <2>2 DEF Advances
  <2>4. entitlements'[w] # entitlements[w] BY <2>1, <2>2
  <2> QED BY <2>3, <2>4
<1>4. ASSUME Pause \/ UNCHANGED vaultVars
      PROVE  entitlements' = entitlements /\ balance' = balance
  BY <1>4 DEF Pause, vaultVars
<1>5. entitlements' = entitlements => \A w \in Wallets : Advances(w)
  BY DEF Advances
<1> QED
  BY <1>0, <1>1, <1>2, <1>3, <1>4, <1>5 DEF VaultNext, Treasury

\* Type correctness of the vault.
THEOREM VaultTypeCorrect == VaultSpec => []VaultTypeOK
<1>1. VaultSpec => []VaultInv
  BY VaultInitInv, VaultStepInv, PTL DEF VaultSpec
<1> QED BY <1>1, PTL DEF VaultInv

\* The vault is solvent: whatever is funded, withdrawn, reserved, claimed or
\* paused, it holds one REWARD_AMOUNT for every wallet whose reward is reserved,
\* and no reward was paid twice.
THEOREM VaultIsSolvent == VaultSpec => []Solvent
<1>1. VaultSpec => []VaultInv
  BY VaultInitInv, VaultStepInv, PTL DEF VaultSpec
<1> QED BY <1>1, PTL DEF VaultInv

\* Entitlements only advance, pausing holds every payout, and a withdrawal
\* never reaches a reserved reward.
THEOREM EntitlementsAdvance == VaultSpec => EntitlementsOnlyAdvance
<1>1. VaultInv /\ [VaultNext]_vaultVars =>
        [ /\ \A w \in Wallets : Advances(w)
          /\ entitlements' = entitlements => balance' >= balance - availableBalance
        ]_vaultVars
  BY VaultStepAdvances
<1> QED
  BY VaultInitInv, VaultStepInv, <1>1, PTL DEF VaultSpec, EntitlementsOnlyAdvance

-----------------------------------------------------------------------------
(***************************************************************************)
(* The flow drives the vault as its contract allows.                       *)
(***************************************************************************)
Tx == [wallet : Wallets, status : {"sent", "success", "reverted"}, block : Nat]
AttemptRecord == [pc : {"none", "simulate", "find", "send", "wait"}, tx : Nat]

\* Transaction t reserved for wallet w.
ReservedBy(t, w) ==
  t \in DOMAIN txs /\ txs[t].wallet = w /\ txs[t].status = "success"

\* The shapes the argument needs.
FlowShape ==
  /\ txs \in Seq(Tx)
  /\ attempt \in [Processes -> [Wallets -> AttemptRecord]]
  /\ claims = [w \in Wallets |-> claims[w]]
  /\ call = [c \in Calls |-> call[c]]
  /\ \A c \in Calls : call[c].pc # "idle" =>
       call[c].wallet \in Wallets /\ call[c].proc \in Processes

\* A transaction that succeeded entitled its wallet.
SuccessEntitles ==
  \A t \in DOMAIN txs : txs[t].status = "success" => entitlements[txs[t].wallet] # "NONE"

\* An attempt waits on a transaction it sent for its own wallet.
AttemptsWaitOnTheirs ==
  \A p \in Processes, w \in Wallets : attempt[p][w].pc = "wait" =>
    attempt[p][w].tx \in DOMAIN txs /\ txs[attempt[p][w].tx].wallet = w

\* A call about to record a SECRET holds the transaction that reserved it.
SecretsInHandReserved ==
  \A c \in Calls : call[c].pc = "record" /\ call[c].rarity = "SECRET" =>
    ReservedBy(call[c].tx, call[c].wallet)

\* So does every SECRET that was recorded.
SecretClaimsReserved ==
  \A w \in Wallets : claims[w].rarity = "SECRET" => ReservedBy(claims[w].tx, w)

FlowInv ==
  /\ VaultInv
  /\ FlowShape
  /\ SuccessEntitles
  /\ AttemptsWaitOnTheirs
  /\ SecretsInHandReserved
  /\ SecretClaimsReserved

-----------------------------------------------------------------------------
\* A transaction that reserved stays one that reserved: transactions are only
\* appended, and only a sent one changes its status.
LEMMA ReservationsStand ==
  ASSUME txs \in Seq(Tx), NEW t, NEW w, ReservedBy(t, w),
         \/ UNCHANGED txs
         \/ \E x \in Tx : txs' = Append(txs, x)
         \/ \E u \in DOMAIN txs, x \in Tx :
              txs[u].status = "sent" /\ txs' = [txs EXCEPT ![u] = x]
  PROVE  ReservedBy(t, w)'
<1>1. CASE UNCHANGED txs
  BY <1>1 DEF ReservedBy
<1>2. ASSUME NEW x \in Tx, txs' = Append(txs, x) PROVE ReservedBy(t, w)'
  BY <1>2 DEF ReservedBy
<1>3. ASSUME NEW u \in DOMAIN txs, NEW x \in Tx,
             txs[u].status = "sent", txs' = [txs EXCEPT ![u] = x]
      PROVE  ReservedBy(t, w)'
  <2>1. t # u BY <1>3 DEF ReservedBy
  <2>2. DOMAIN txs' = DOMAIN txs /\ txs'[t] = txs[t]
    BY <1>3, <2>1 DEF ReservedBy
  <2> QED BY <2>2 DEF ReservedBy
<1> QED BY <1>1, <1>2, <1>3

\* A wallet once entitled stays entitled.
LEMMA EntitledStays ==
  ASSUME VaultInv, [VaultNext]_vaultVars
  PROVE  \A w \in Wallets : entitlements[w] # "NONE" => entitlements'[w] # "NONE"
BY VaultStepAdvances DEF Advances

\* What is true of every step that leaves the vault and the transactions
\* alone and the calls and attempts well formed.
LEMMA QuietStep ==
  ASSUME FlowInv, UNCHANGED <<vaultVars, txs>>,
         attempt' \in [Processes -> [Wallets -> AttemptRecord]],
         \A p \in Processes, w \in Wallets :
           attempt'[p][w].pc = "wait" => attempt'[p][w] = attempt[p][w],
         claims' = [w \in Wallets |-> claims'[w]],
         \A w \in Wallets : claims'[w].rarity = "SECRET" => ReservedBy(claims'[w].tx, w),
         call' = [c \in Calls |-> call'[c]],
         \A c \in Calls :
           \/ call'[c] = call[c]
           \/ call'[c].pc = "idle"
           \/ /\ call'[c].wallet \in Wallets /\ call'[c].proc \in Processes
              /\ call'[c].pc = "record" /\ call'[c].rarity = "SECRET" =>
                   ReservedBy(call'[c].tx, call'[c].wallet)
  PROVE  FlowInv'
<1>1. VaultInv'
  BY VaultStepInv DEF FlowInv
<1>2. FlowShape'
  BY DEF FlowInv, FlowShape
<1>3. SuccessEntitles'
  BY DEF FlowInv, SuccessEntitles, vaultVars
<1>4. AttemptsWaitOnTheirs'
  BY DEF FlowInv, AttemptsWaitOnTheirs
<1>5. SecretsInHandReserved' /\ SecretClaimsReserved'
  BY DEF FlowInv, SecretsInHandReserved, SecretClaimsReserved, ReservedBy
<1> QED
  BY <1>1, <1>2, <1>3, <1>4, <1>5 DEF FlowInv

\* A SECRET resolved under the disabled table does not exist.
LEMMA SecretNeedsFundedTable ==
  ASSUME NEW w, NEW block, NEW available \in BOOLEAN,
         resolveGenesis(w, block, available) = "SECRET"
  PROVE  available
BY DEF resolveGenesis

-----------------------------------------------------------------------------
\* #reveal and #advance keep the calls and attempts well formed, and hand no
\* call a SECRET to record.
CallsWellFormed ==
  /\ attempt' \in [Processes -> [Wallets -> AttemptRecord]]
  /\ \A p \in Processes, w \in Wallets :
       attempt'[p][w].pc = "wait" => attempt'[p][w] = attempt[p][w]
  /\ call' = [c \in Calls |-> call'[c]]
  /\ \A c \in Calls :
       \/ call'[c] = call[c]
       \/ call'[c].pc = "idle"
       \/ /\ call'[c].wallet \in Wallets /\ call'[c].proc \in Processes
          /\ call'[c].pc = "record" /\ call'[c].rarity = "SECRET" =>
               ReservedBy(call'[c].tx, call'[c].wallet)

\* A call that moves to a record that is not a SECRET about to be recorded.
LEMMA OneCallMoves ==
  ASSUME FlowInv, NEW c \in Calls, NEW k,
         call' = [call EXCEPT ![c] = k], UNCHANGED attempt,
         \/ k.pc = "idle"
         \/ /\ k.wallet \in Wallets /\ k.proc \in Processes
            /\ k.pc # "record" \/ k.rarity # "SECRET"
  PROVE  CallsWellFormed
BY DEF CallsWellFormed, FlowInv, FlowShape

LEMMA RevealKeepsForm ==
  ASSUME FlowInv, NEW c \in Calls, NEW p \in Processes, NEW w \in Wallets,
         NEW req, NEW available, NEW committed,
         Reveal(c, p, w, req, available, committed)
  PROVE  CallsWellFormed
<1>1. CASE resolveGenesis(w, req.hash, available) # "SECRET"
  <2> DEFINE k == Recording(p, w, req, available, NoTx)
  <2>1. call' = [call EXCEPT ![c] = k] /\ UNCHANGED attempt
    BY <1>1 DEF Reveal
  <2>2. k.wallet = w /\ k.proc = p /\ k.rarity # "SECRET"
    BY <1>1 DEF Recording
  <2> QED BY <2>1, <2>2, OneCallMoves
<1>2. CASE resolveGenesis(w, req.hash, available) = "SECRET" /\ p \notin Keyed
  <2>1. call' = [call EXCEPT ![c] = Idle] /\ UNCHANGED attempt
    BY <1>2 DEF Reveal
  <2>2. Idle.pc = "idle" BY DEF Idle
  <2> QED BY <2>1, <2>2, OneCallMoves
<1>3. CASE resolveGenesis(w, req.hash, available) = "SECRET" /\ p \in Keyed
  <2> DEFINE k == Reserving(p, w, req, committed)
             a == [pc |-> "simulate", tx |-> NoTx]
  <2>1. call' = [call EXCEPT ![c] = k]
    BY <1>3 DEF Reveal
  <2>2. attempt' = attempt \/ attempt' = [attempt EXCEPT ![p][w] = a]
    BY <1>3 DEF Reveal
  <2>3. k.wallet = w /\ k.proc = p /\ k.pc # "record"
    BY DEF Reserving
  <2>4. a \in AttemptRecord /\ a.pc # "wait"
    BY DEF AttemptRecord, NoTx
  <2>5. /\ attempt' \in [Processes -> [Wallets -> AttemptRecord]]
        /\ \A q \in Processes, v \in Wallets :
             attempt'[q][v].pc = "wait" => attempt'[q][v] = attempt[q][v]
    <3> HIDE DEF a
    <3>1. CASE attempt' = attempt
      BY <3>1 DEF FlowInv, FlowShape
    <3>2. CASE attempt' = [attempt EXCEPT ![p][w] = a]
      BY <3>2, <2>4 DEF FlowInv, FlowShape
    <3> QED BY <2>2, <3>1, <3>2
  <2>6. /\ call' = [d \in Calls |-> call'[d]]
        /\ \A d \in Calls : call'[d] = IF d = c THEN k ELSE call[d]
    BY <2>1 DEF FlowInv, FlowShape
  <2> QED BY <2>3, <2>5, <2>6 DEF CallsWellFormed
<1> QED BY <1>1, <1>2, <1>3

LEMMA AdvanceKeepsForm ==
  ASSUME FlowInv, NEW c \in Calls, NEW p \in Processes, NEW w \in Wallets,
         NEW req, Advance(c, p, w, req)
  PROVE  CallsWellFormed
<1>1. CASE Reveal(c, p, w, req, TRUE, TRUE)
  BY <1>1, RevealKeepsForm
<1>2. CASE /\ call' = [call EXCEPT ![c] = [pc |-> "block", proc |-> p, wallet |-> w,
                                           target |-> req.target, hash |-> NoHash]]
           /\ UNCHANGED attempt
  BY <1>2, OneCallMoves
<1>3. CASE call' = [call EXCEPT ![c] = Idle] /\ UNCHANGED attempt
  <2>1. Idle.pc = "idle" BY DEF Idle
  <2> QED BY <1>3, <2>1, OneCallMoves
<1> QED BY <1>1, <1>2, <1>3 DEF Advance

\* The end of an attempt: only a reservation lets a SECRET be recorded.
LEMMA EndAttemptKeepsForm ==
  ASSUME FlowInv, NEW p \in Processes, NEW w \in Wallets, NEW result, NEW tx,
         result \in {"UNCOVERED", "failed"} \/ (result = "RESERVED" /\ ReservedBy(tx, w)),
         EndAttempt(p, w, result, tx)
  PROVE  CallsWellFormed
<1>1. /\ NoAttempt \in AttemptRecord /\ NoAttempt.pc # "wait"
  BY DEF NoAttempt, AttemptRecord, NoTx
<1>2. /\ attempt' \in [Processes -> [Wallets -> AttemptRecord]]
      /\ \A q \in Processes, v \in Wallets :
           attempt'[q][v].pc = "wait" => attempt'[q][v] = attempt[q][v]
  BY <1>1 DEF EndAttempt, FlowInv, FlowShape
<1>3. call' = [c \in Calls |-> call'[c]]
  BY DEF EndAttempt
<1>4. ASSUME NEW c \in Calls
      PROVE  \/ call'[c] = call[c]
             \/ call'[c].pc = "idle"
             \/ /\ call'[c].wallet \in Wallets /\ call'[c].proc \in Processes
                /\ call'[c].pc = "record" /\ call'[c].rarity = "SECRET" =>
                     ReservedBy(call'[c].tx, call'[c].wallet)
  <2>1. CASE ~Waiting(c, p, w)
    BY <2>1 DEF EndAttempt
  <2>2. CASE Waiting(c, p, w)
    <3> DEFINE k == call[c]
               req == [target |-> k.target, hash |-> k.hash]
    <3>1. call'[c] = After(c, result, tx)
      BY <2>2 DEF EndAttempt
    <3>2. k.wallet = w /\ k.proc = p
      BY <2>2 DEF Waiting
    <3>3. CASE result = "UNCOVERED"
      <4>1. call'[c] = Recording(k.proc, k.wallet, req, FALSE, NoTx)
        BY <3>1, <3>3 DEF After
      <4>2. resolveGenesis(k.wallet, req.hash, FALSE) # "SECRET"
        BY SecretNeedsFundedTable
      <4>3. /\ call'[c].rarity = resolveGenesis(k.wallet, req.hash, FALSE)
            /\ call'[c].wallet = w /\ call'[c].proc = p
        BY <3>2, <4>1 DEF Recording
      <4> QED BY <4>2, <4>3
    <3>4. CASE result = "RESERVED" /\ ReservedBy(tx, w)
      <4>1. call'[c] = Recording(k.proc, k.wallet, req, TRUE, tx)
        BY <3>1, <3>4 DEF After
      <4>2. call'[c].tx = tx /\ call'[c].wallet = w /\ call'[c].proc = p
        BY <3>2, <4>1 DEF Recording
      <4> QED BY <3>4, <4>2
    <3>5. CASE result = "failed"
      <4>1. \/ call'[c] = [pc |-> "commit", proc |-> k.proc, wallet |-> k.wallet,
                           target |-> k.target, hash |-> k.hash]
            \/ call'[c] = Idle
        BY <3>1, <3>5 DEF After
      <4>2. Idle.pc = "idle" BY DEF Idle
      <4> QED BY <3>2, <4>1, <4>2
    <3> QED BY <3>3, <3>4, <3>5
  <2> QED BY <2>1, <2>2
<1> QED BY <1>2, <1>3, <1>4 DEF CallsWellFormed

\* A well-formed step that records nothing keeps the invariant.
LEMMA QuietCallStep ==
  ASSUME FlowInv, CallsWellFormed, UNCHANGED <<vaultVars, txs, claims>>
  PROVE  FlowInv'
<1>1. claims' = [w \in Wallets |-> claims'[w]]
  BY DEF FlowInv, FlowShape
<1>2. \A w \in Wallets : claims'[w].rarity = "SECRET" => ReservedBy(claims'[w].tx, w)
  BY DEF FlowInv, SecretClaimsReserved
<1> QED
  BY <1>1, <1>2, QuietStep DEF CallsWellFormed

\* One call's record changes to one without a SECRET, and nothing else does.
LEMMA QuietMove ==
  ASSUME FlowInv, NEW c \in Calls, NEW k,
         call' = [call EXCEPT ![c] = k], UNCHANGED <<vaultVars, txs, claims, attempt>>,
         \/ k.pc = "idle"
         \/ /\ k.wallet \in Wallets /\ k.proc \in Processes
            /\ k.pc # "record" \/ k.rarity # "SECRET"
  PROVE  FlowInv'
BY OneCallMoves, QuietCallStep

-----------------------------------------------------------------------------
\* No request, claim, call or transaction yet.
LEMMA FlowInitInv == GenesisInit => FlowInv
<1> SUFFICES ASSUME GenesisInit PROVE FlowInv
  OBVIOUS
<1>1. VaultInv
  BY VaultInitInv DEF GenesisInit
<1>2. FlowShape
  <2>1. txs \in Seq(Tx) BY DEF GenesisInit
  <2>2. NoAttempt \in AttemptRecord BY DEF NoAttempt, AttemptRecord, NoTx
  <2>3. attempt \in [Processes -> [Wallets -> AttemptRecord]]
    BY <2>2 DEF GenesisInit
  <2>4. /\ claims = [w \in Wallets |-> claims[w]]
        /\ call = [c \in Calls |-> call[c]]
    BY DEF GenesisInit
  <2>5. \A c \in Calls : call[c].pc = "idle"
    BY DEF GenesisInit, Idle
  <2> QED BY <2>1, <2>3, <2>4, <2>5 DEF FlowShape
<1>3. SuccessEntitles
  BY DEF GenesisInit, SuccessEntitles
<1>4. AttemptsWaitOnTheirs
  BY DEF GenesisInit, AttemptsWaitOnTheirs, NoAttempt
<1>5. SecretsInHandReserved
  BY DEF GenesisInit, SecretsInHandReserved, Idle
<1>6. SecretClaimsReserved
  BY DEF GenesisInit, SecretClaimsReserved, NoClaim
<1> QED BY <1>1, <1>2, <1>3, <1>4, <1>5, <1>6 DEF FlowInv

\* A step of a call: only Record writes a claim, and it writes the card in hand.
LEMMA CallStepInv ==
  ASSUME FlowInv, NEW c \in Calls, Step(c)
  PROVE  FlowInv'
<1> DEFINE p == call[c].proc
           w == call[c].wallet
<1>0. call[c].pc # "idle" => w \in Wallets /\ p \in Processes
  BY DEF FlowInv, FlowShape
<1>i. Idle.pc = "idle" BY DEF Idle
<1>1. CASE ReadHead(c)
  BY <1>0, <1>1, QuietMove DEF ReadHead, dbVars
<1>2. CASE OpenRequest(c)
  <2>1. w \in Wallets /\ p \in Processes BY <1>0, <1>2 DEF OpenRequest
  <2>2. Advance(c, p, w, requests'[w]) /\ UNCHANGED <<vaultVars, txs, claims>>
    BY <1>2 DEF OpenRequest
  <2> QED BY <2>1, <2>2, AdvanceKeepsForm, QuietCallStep
<1>3. CASE ReadBlock(c)
  <2>1. /\ call' = [call EXCEPT ![c] = Committed(c)]
        /\ UNCHANGED <<vaultVars, txs, claims, attempt>>
    BY <1>3 DEF ReadBlock, dbVars
  <2>2. Committed(c).wallet = w /\ Committed(c).proc = p /\ Committed(c).pc # "record"
    BY DEF Committed
  <2> QED BY <1>0, <1>3, <2>1, <2>2, QuietMove DEF ReadBlock
<1>4. CASE ReadCoverage(c)
  <2>1. w \in Wallets /\ p \in Processes BY <1>0, <1>4 DEF ReadCoverage
  <2>2. /\ Reveal(c, p, w, [target |-> call[c].target, hash |-> call[c].hash],
                  p \in Keyed /\ isCovered, FALSE)
        /\ UNCHANGED <<vaultVars, txs, claims>>
    BY <1>4 DEF ReadCoverage, dbVars
  <2> QED BY <2>1, <2>2, RevealKeepsForm, QuietCallStep
<1>5. CASE Commit(c)
  BY <1>5, <1>i, QuietMove DEF Commit
<1>6. CASE Record(c)
  <2>1. w \in Wallets /\ call[c].pc = "record" BY <1>0, <1>6 DEF Record
  <2>2. /\ call' = [call EXCEPT ![c] = Idle]
        /\ UNCHANGED <<vaultVars, txs, attempt>>
    BY <1>6 DEF Record
  <2>3. CallsWellFormed
    BY <2>2, <1>i, OneCallMoves
  <2>4. CASE UNCHANGED claims
    BY <2>2, <2>3, <2>4, QuietCallStep
  <2>5. CASE claims' = [claims EXCEPT ![w] =
               [rarity |-> call[c].rarity, block |-> call[c].hash,
                secretAvailable |-> call[c].available, tx |-> call[c].tx]]
    <3>1. claims' = [v \in Wallets |-> claims'[v]]
      BY <2>5 DEF FlowInv, FlowShape
    <3>2. \A v \in Wallets : claims'[v].rarity = "SECRET" => ReservedBy(claims'[v].tx, v)
      BY <2>1, <2>5 DEF FlowInv, FlowShape, SecretClaimsReserved, SecretsInHandReserved
    <3> QED BY <2>2, <2>3, <3>1, <3>2, QuietStep DEF CallsWellFormed
  <2> QED BY <1>6, <2>4, <2>5 DEF Record, dbVars
<1>7. CASE GiveUp(c)
  BY <1>7, <1>i, QuietMove DEF GiveUp, dbVars
<1> QED BY <1>1, <1>2, <1>3, <1>4, <1>5, <1>6, <1>7 DEF Step

\* A step of an attempt: RESERVED is answered only with a transaction that
\* succeeded for the wallet.
LEMMA AttemptStepInv ==
  ASSUME FlowInv, NEW p \in Processes, NEW w \in Wallets,
         Attempt(p, w) \/ AttemptFails(p, w)
  PROVE  FlowInv'
<1>q. ASSUME NEW a \in AttemptRecord, a.pc # "wait",
             attempt' = [attempt EXCEPT ![p][w] = a],
             UNCHANGED <<vaultVars, txs, claims, call>>
      PROVE  FlowInv'
  <2>1. /\ attempt' \in [Processes -> [Wallets -> AttemptRecord]]
        /\ \A q \in Processes, v \in Wallets :
             attempt'[q][v].pc = "wait" => attempt'[q][v] = attempt[q][v]
    BY <1>q DEF FlowInv, FlowShape
  <2>2. CallsWellFormed
    BY <1>q, <2>1 DEF CallsWellFormed, FlowInv, FlowShape
  <2> QED BY <1>q, <2>2, QuietCallStep
<1>1. CASE Simulate(p, w)
  <2>0. UNCHANGED <<vaultVars, txs, claims>>
    BY <1>1 DEF Simulate, dbVars
  <2>1. CASE EndAttempt(p, w, "UNCOVERED", NoTx)
    <3>1. CallsWellFormed BY <2>1, EndAttemptKeepsForm
    <3> QED BY <2>0, <3>1, QuietCallStep
  <2>2. CASE attempt' = [attempt EXCEPT ![p][w] = [pc |-> "find", tx |-> NoTx]] /\ UNCHANGED call
    <3>1. [pc |-> "find", tx |-> NoTx] \in AttemptRecord
      BY DEF AttemptRecord, NoTx
    <3> QED BY <2>0, <2>2, <3>1, <1>q
  <2>3. CASE attempt' = [attempt EXCEPT ![p][w] = [pc |-> "send", tx |-> NoTx]] /\ UNCHANGED call
    <3>1. [pc |-> "send", tx |-> NoTx] \in AttemptRecord
      BY DEF AttemptRecord, NoTx
    <3> QED BY <2>0, <2>3, <3>1, <1>q
  <2> QED BY <1>1, <2>1, <2>2, <2>3 DEF Simulate
<1>2. CASE SendReserve(p, w)
  <2> DEFINE x == [wallet |-> w, status |-> "sent", block |-> NoBlock]
             a == [pc |-> "wait", tx |-> Len(txs) + 1]
  <2>1. /\ txs' = Append(txs, x)
        /\ attempt' = [attempt EXCEPT ![p][w] = a]
        /\ UNCHANGED <<vaultVars, claims, call>>
    BY <1>2 DEF SendReserve, dbVars
  <2>2. txs \in Seq(Tx) /\ x \in Tx
    BY DEF FlowInv, FlowShape, Tx, NoBlock
  <2>3. Len(txs) + 1 \in Nat /\ a \in AttemptRecord
    BY <2>2 DEF AttemptRecord
  <2>4. \A t, v : ReservedBy(t, v) => ReservedBy(t, v)'
    <3> SUFFICES ASSUME NEW t, NEW v, ReservedBy(t, v) PROVE ReservedBy(t, v)'
      OBVIOUS
    <3> HIDE DEF x
    <3> QED BY <2>1, <2>2, ReservationsStand
  <2>5. /\ txs' \in Seq(Tx) /\ DOMAIN txs' = DOMAIN txs \cup {Len(txs) + 1}
        /\ Len(txs) + 1 \in DOMAIN txs' /\ txs'[Len(txs) + 1] = x
        /\ \A t \in DOMAIN txs : t \in DOMAIN txs' /\ txs'[t] = txs[t]
    BY <2>1, <2>2
  <2>6. VaultInv'
    BY <2>1, VaultStepInv DEF FlowInv
  <2>7. attempt' \in [Processes -> [Wallets -> AttemptRecord]]
    <3> HIDE DEF a
    <3> QED BY <2>1, <2>3 DEF FlowInv, FlowShape
  <2>8. FlowShape'
    BY <2>1, <2>5, <2>7 DEF FlowInv, FlowShape
  <2>9. SuccessEntitles'
    BY <2>1, <2>5 DEF FlowInv, SuccessEntitles, vaultVars
  <2>10. AttemptsWaitOnTheirs'
    <3> SUFFICES ASSUME NEW q \in Processes, NEW v \in Wallets, attempt'[q][v].pc = "wait"
                 PROVE  attempt'[q][v].tx \in DOMAIN txs' /\ txs'[attempt'[q][v].tx].wallet = v
      BY DEF AttemptsWaitOnTheirs
    <3>1. CASE q = p /\ v = w
      <4>1. attempt'[q][v] = a BY <3>1, <2>1 DEF FlowInv, FlowShape
      <4> QED BY <3>1, <4>1, <2>5
    <3>2. CASE ~(q = p /\ v = w)
      <4>1. attempt'[q][v] = attempt[q][v]
        <5> HIDE DEF a
        <5> QED BY <3>2, <2>1 DEF FlowInv, FlowShape
      <4> QED BY <4>1, <2>5 DEF FlowInv, AttemptsWaitOnTheirs
    <3> QED BY <3>1, <3>2
  <2>11. SecretsInHandReserved' /\ SecretClaimsReserved'
    BY <2>1, <2>4 DEF FlowInv, SecretsInHandReserved, SecretClaimsReserved
  <2> QED BY <2>6, <2>8, <2>9, <2>10, <2>11 DEF FlowInv
<1>3. CASE Receipt(p, w)
  <2> DEFINE t == attempt[p][w].tx
  <2>0. UNCHANGED <<vaultVars, txs, claims>> /\ attempt[p][w].pc = "wait"
    BY <1>3 DEF Receipt, dbVars
  <2>1. CASE txs[t].status = "success" /\ EndAttempt(p, w, "RESERVED", t)
    <3>1. ReservedBy(t, w)
      BY <2>0, <2>1 DEF FlowInv, AttemptsWaitOnTheirs, ReservedBy
    <3> QED BY <2>0, <2>1, <3>1, EndAttemptKeepsForm, QuietCallStep
  <2>2. CASE EndAttempt(p, w, "failed", NoTx)
    <3>1. CallsWellFormed BY <2>2, EndAttemptKeepsForm
    <3> QED BY <2>0, <3>1, QuietCallStep
  <2> QED BY <1>3, <2>1, <2>2 DEF Receipt
<1>4. CASE FindReservation(p, w)
  <2>0. UNCHANGED <<vaultVars, txs, claims>>
    BY <1>4 DEF FindReservation, dbVars
  <2>1. ASSUME NEW t \in DOMAIN txs, Reserves(t, w), EndAttempt(p, w, "RESERVED", t)
        PROVE  FlowInv'
    <3>1. ReservedBy(t, w)
      BY <2>1 DEF ReservedBy, Reserves
    <3> QED BY <2>0, <2>1, <3>1, EndAttemptKeepsForm, QuietCallStep
  <2>2. CASE EndAttempt(p, w, "failed", NoTx)
    <3>1. CallsWellFormed BY <2>2, EndAttemptKeepsForm
    <3> QED BY <2>0, <3>1, QuietCallStep
  <2> QED BY <1>4, <2>1, <2>2 DEF FindReservation
<1>5. CASE AttemptFails(p, w)
  <2>1. EndAttempt(p, w, "failed", NoTx) /\ UNCHANGED <<vaultVars, txs, claims>>
    BY <1>5 DEF AttemptFails, dbVars
  <2>2. CallsWellFormed BY <2>1, EndAttemptKeepsForm
  <2> QED BY <2>1, <2>2, QuietCallStep
<1> QED BY <1>1, <1>2, <1>3, <1>4, <1>5 DEF Attempt

\* Blocks are numbered by naturals.
HeadInv == head \in Nat

LEMMA HeadStep == HeadInv /\ [GenesisNext]_allVars => HeadInv'
<1> SUFFICES ASSUME HeadInv, [GenesisNext]_allVars
             PROVE  HeadInv'
  OBVIOUS
<1>1. ASSUME NEW c \in Calls, NEW p \in Processes, NEW w \in Wallets,
             Status(c, p, w) \/ Request(c, p, w)
      PROVE  UNCHANGED head
  BY <1>1 DEF Status, Request, chainVars
<1>2. ASSUME NEW c \in Calls, Step(c) \/ CallFails(c)
      PROVE  UNCHANGED head
  BY <1>2 DEF Step, ReadHead, OpenRequest, ReadBlock, ReadCoverage, Commit, Record,
              GiveUp, CallFails, chainVars
<1>3. ASSUME NEW p \in Processes, NEW w \in Wallets, Attempt(p, w) \/ AttemptFails(p, w)
      PROVE  UNCHANGED head
  BY <1>3 DEF Attempt, Simulate, SendReserve, Receipt, FindReservation, AttemptFails,
              chainVars
<1>4. ASSUME NEW p \in Processes, Crash(p)
      PROVE  UNCHANGED head
  BY <1>4 DEF Crash, chainVars
<1>5. ASSUME NEW t \in DOMAIN txs, Execute(t)
      PROVE  UNCHANGED head
  BY <1>5 DEF Execute, chainVars
<1>6. CASE Seal \/ Finalize \/ (Treasury /\ UNCHANGED genesisVars) \/ UNCHANGED allVars
  BY <1>6 DEF Seal, Finalize, HeadInv, genesisVars, allVars
<1> QED
  BY <1>1, <1>2, <1>3, <1>4, <1>5, <1>6 DEF GenesisNext, HeadInv

\* A transaction on chain: it reserves for its wallet or reverts.
LEMMA ExecuteInv ==
  ASSUME FlowInv, HeadInv, NEW t \in DOMAIN txs, Execute(t)
  PROVE  FlowInv' /\ [VaultNext]_vaultVars
<1> DEFINE w == txs[t].wallet
<1>1. w \in Wallets /\ txs \in Seq(Tx) /\ txs[t] \in Tx
  <2>1. txs \in Seq(Tx) /\ txs[t] \in Tx BY DEF FlowInv, FlowShape
  <2> QED BY <2>1 DEF Tx
<1>2. PICK x \in Tx :
        /\ txs' = [txs EXCEPT ![t] = x] /\ x.wallet = w
        /\ x.status = "success" => reserve(w)
        /\ x.status # "success" => UNCHANGED vaultVars
  <2> DEFINE reverted == [txs[t] EXCEPT !.status = "reverted"]
  <2>1. /\ Landed(t) \in Tx /\ Landed(t).wallet = w /\ Landed(t).status = "success"
        /\ reverted \in Tx /\ reverted.wallet = w /\ reverted.status = "reverted"
    BY <1>1 DEF Tx, Landed, HeadInv
  <2>2. \/ reserve(w) /\ txs' = [txs EXCEPT ![t] = Landed(t)]
        \/ UNCHANGED vaultVars /\ txs' = [txs EXCEPT ![t] = reverted]
    BY DEF Execute
  <2> HIDE DEF reverted
  <2> QED BY <2>1, <2>2
<1>3. txs[t].status = "sent" /\ UNCHANGED <<claims, call, attempt>>
  BY DEF Execute, dbVars
<1>4. [VaultNext]_vaultVars
  BY <1>1, <1>2 DEF VaultNext
<1>5. VaultInv'
  BY <1>4, VaultStepInv DEF FlowInv
<1>6. /\ txs' \in Seq(Tx) /\ DOMAIN txs' = DOMAIN txs
      /\ \A u \in DOMAIN txs : txs'[u].wallet = txs[u].wallet
      /\ \A u \in DOMAIN txs : u # t => txs'[u] = txs[u]
      /\ txs'[t].status = x.status
  BY <1>1, <1>2
<1>7. FlowShape'
  BY <1>3, <1>6 DEF FlowInv, FlowShape
<1>8. SuccessEntitles'
  <2>1. \A v \in Wallets : entitlements[v] # "NONE" => entitlements'[v] # "NONE"
    BY <1>4, EntitledStays DEF FlowInv
  <2>2. x.status = "success" => entitlements'[w] # "NONE"
    BY <1>1, <1>2 DEF reserve, FlowInv, VaultInv, VaultTypeOK
  <2>3. \A u \in DOMAIN txs : txs[u].wallet \in Wallets
    <3>1. \A u \in DOMAIN txs : txs[u] \in Tx BY <1>1
    <3> QED BY <3>1 DEF Tx
  <2> QED BY <1>6, <2>1, <2>2, <2>3 DEF FlowInv, SuccessEntitles
<1>9. AttemptsWaitOnTheirs'
  BY <1>3, <1>6 DEF FlowInv, AttemptsWaitOnTheirs
<1>10. SecretsInHandReserved' /\ SecretClaimsReserved'
  <2>1. \A u, v : ReservedBy(u, v) => ReservedBy(u, v)'
    <3> SUFFICES ASSUME NEW u, NEW v, ReservedBy(u, v) PROVE ReservedBy(u, v)'
      OBVIOUS
    <3> QED BY <1>1, <1>2, <1>3, ReservationsStand
  <2> QED BY <1>3, <2>1 DEF FlowInv, SecretsInHandReserved, SecretClaimsReserved
<1> QED BY <1>4, <1>5, <1>7, <1>8, <1>9, <1>10 DEF FlowInv

\* Every step of the flow keeps the invariant and is a step of the vault or
\* leaves the vault alone.
LEMMA FlowStepInv ==
  FlowInv /\ HeadInv /\ [GenesisNext]_allVars => FlowInv' /\ [VaultNext]_vaultVars
<1> SUFFICES ASSUME FlowInv, HeadInv, [GenesisNext]_allVars
             PROVE  FlowInv' /\ [VaultNext]_vaultVars
  OBVIOUS
<1>i. Idle.pc = "idle" BY DEF Idle
<1>1. ASSUME NEW c \in Calls, NEW p \in Processes, NEW w \in Wallets,
             Status(c, p, w) \/ Request(c, p, w)
      PROVE  FlowInv' /\ UNCHANGED vaultVars
  <2>1. CASE Status(c, p, w)
    <3>1. Advance(c, p, w, requests[w]) /\ UNCHANGED <<vaultVars, txs, claims>>
      BY <2>1 DEF Status, dbVars
    <3> QED BY <3>1, AdvanceKeepsForm, QuietCallStep
  <2>2. CASE Request(c, p, w)
    BY <2>2, QuietMove DEF Request, dbVars
  <2> QED BY <1>1, <2>1, <2>2
<1>2. ASSUME NEW c \in Calls, Step(c) \/ CallFails(c)
      PROVE  FlowInv' /\ UNCHANGED vaultVars
  <2>1. CASE Step(c)
    <3>1. UNCHANGED vaultVars
      BY <2>1 DEF Step, ReadHead, OpenRequest, ReadBlock, ReadCoverage, Commit, Record, GiveUp
    <3> QED BY <2>1, <3>1, CallStepInv
  <2>2. CASE CallFails(c)
    BY <2>2, <1>i, QuietMove DEF CallFails, dbVars
  <2> QED BY <1>2, <2>1, <2>2
<1>3. ASSUME NEW p \in Processes, NEW w \in Wallets, Attempt(p, w) \/ AttemptFails(p, w)
      PROVE  FlowInv' /\ UNCHANGED vaultVars
  <2>1. UNCHANGED vaultVars
    BY <1>3 DEF Attempt, Simulate, SendReserve, Receipt, FindReservation, AttemptFails
  <2> QED BY <1>3, <2>1, AttemptStepInv
<1>4. ASSUME NEW p \in Processes, Crash(p)
      PROVE  FlowInv' /\ UNCHANGED vaultVars
  <2>0. UNCHANGED <<vaultVars, txs, claims>>
    BY <1>4 DEF Crash, dbVars
  <2>1. NoAttempt \in AttemptRecord /\ NoAttempt.pc # "wait"
    BY DEF NoAttempt, AttemptRecord, NoTx
  <2>2. /\ attempt' \in [Processes -> [Wallets -> AttemptRecord]]
        /\ \A q \in Processes, v \in Wallets :
             attempt'[q][v].pc = "wait" => attempt'[q][v] = attempt[q][v]
    BY <1>4, <2>1 DEF Crash, FlowInv, FlowShape
  <2>3. /\ call' = [c \in Calls |-> call'[c]]
        /\ \A c \in Calls : call'[c] = call[c] \/ call'[c] = Idle
    BY <1>4 DEF Crash
  <2>4. CallsWellFormed
    BY <2>2, <2>3, <1>i DEF CallsWellFormed
  <2> QED BY <2>0, <2>4, QuietCallStep
<1>5. ASSUME NEW t \in DOMAIN txs, Execute(t)
      PROVE  FlowInv' /\ [VaultNext]_vaultVars
  BY <1>5, ExecuteInv
<1>6. ASSUME UNCHANGED <<vaultVars, txs, dbVars, call, attempt>>
      PROVE  FlowInv' /\ UNCHANGED vaultVars
  <2>1. CallsWellFormed
    BY <1>6 DEF CallsWellFormed, FlowInv, FlowShape
  <2> QED BY <1>6, <2>1, QuietCallStep DEF dbVars
<1>7. CASE Seal \/ Finalize \/ UNCHANGED allVars
  BY <1>6, <1>7 DEF Seal, Finalize, allVars, genesisVars, dbVars
<1>8. ASSUME Treasury, UNCHANGED genesisVars
      PROVE  FlowInv' /\ [VaultNext]_vaultVars
  <2>0. UNCHANGED <<txs, claims, call, attempt>>
    BY <1>8 DEF genesisVars
  <2>1. VaultNext BY <1>8 DEF VaultNext
  <2>2. VaultInv' /\ \A w \in Wallets : entitlements[w] # "NONE" => entitlements'[w] # "NONE"
    BY <2>1, VaultStepInv, EntitledStays DEF FlowInv
  <2>3. FlowShape'
    BY <2>0 DEF FlowInv, FlowShape
  <2>4. SuccessEntitles'
    <3>1. \A t \in DOMAIN txs : txs[t] \in Tx BY DEF FlowInv, FlowShape
    <3>2. \A t \in DOMAIN txs : txs[t].wallet \in Wallets BY <3>1 DEF Tx
    <3> QED BY <2>0, <2>2, <3>2 DEF FlowInv, SuccessEntitles
  <2>5. AttemptsWaitOnTheirs' /\ SecretsInHandReserved' /\ SecretClaimsReserved'
    BY <2>0 DEF FlowInv, AttemptsWaitOnTheirs, SecretsInHandReserved, SecretClaimsReserved,
                ReservedBy
  <2> QED BY <2>1, <2>2, <2>3, <2>4, <2>5 DEF FlowInv
<1> QED
  BY <1>1, <1>2, <1>3, <1>4, <1>5, <1>7, <1>8 DEF GenesisNext

\* Both invariants of the flow hold of it.
LEMMA FlowInvHolds == GenesisSafety => [](FlowInv /\ HeadInv)
<1>1. GenesisInit => HeadInv
  BY DEF GenesisInit, HeadInv
<1> QED
  BY <1>1, FlowInitInv, FlowStepInv, HeadStep, PTL DEF GenesisSafety

\* The composition implements the vault: no interleaving of calls, crashes,
\* retries and lost answers makes the chain take a step the contract does not
\* allow.
THEOREM GenesisImplementsVault == GenesisSafety => ImplementsVault
<1>1. GenesisInit => VaultInit
  BY DEF GenesisInit
<1> QED
  BY <1>1, FlowInvHolds, FlowStepInv, PTL DEF GenesisSafety, ImplementsVault, VaultSpec

\* No wallet is ever recorded a SECRET whose reward is not set aside: the claim
\* names a transaction that succeeded for that wallet, and the vault holds its
\* entitlement.
THEOREM SecretsAreReserved == GenesisSafety => []SecretIsReserved
<1>1. FlowInv => SecretIsReserved
  <2> SUFFICES ASSUME FlowInv, NEW w \in Wallets, claims[w].rarity = "SECRET"
               PROVE  /\ entitlements[w] # "NONE"
                      /\ claims[w].tx \in DOMAIN txs
                      /\ Reserves(claims[w].tx, w)
    BY DEF SecretIsReserved
  <2> DEFINE t == claims[w].tx
  <2>1. t \in DOMAIN txs /\ txs[t].wallet = w /\ txs[t].status = "success"
    BY DEF FlowInv, SecretClaimsReserved, ReservedBy
  <2>2. entitlements[w] # "NONE"
    BY <2>1 DEF FlowInv, SuccessEntitles
  <2> QED BY <2>1, <2>2 DEF Reserves
<1>2. GenesisSafety => []FlowInv
  BY FlowInvHolds, PTL
<1> QED BY <1>1, <1>2, PTL

-----------------------------------------------------------------------------
(***************************************************************************)
(* A card is dealt by its own request's block, and nothing is rerolled.    *)
(* What holds of every request and claim (RowKept) rests on what every     *)
(* call in flight holds of its wallet's request (CallKept): the target the *)
(* row was opened with, and the hash of that block once it is final.       *)
(***************************************************************************)
RequestRow == [state : RequestState, target : Nat, hash : Nat]

\* A request's row, with the claim recorded beside it.
RowKept(w) ==
  /\ requests[w] \in RequestRow
  /\ requests[w].state = "NONE" => requests[w] = NoRequest
  /\ requests[w].state # "NONE" => requests[w].target >= 1
  /\ requests[w].state = "PENDING" => requests[w].hash = NoHash
  /\ requests[w].state = "COMMITTED" =>
       /\ <<w, requests[w].target>> \in SecretDraws
       /\ requests[w].hash = requests[w].target
       /\ requests[w].target <= finalized
  /\ requests[w].state = "FINALIZED" => requests[w].hash = requests[w].target
  /\ requests[w].state = "FINALIZED" <=> claims[w] # NoClaim
  /\ claims[w] # NoClaim =>
       /\ claims[w].block = requests[w].target
       /\ claims[w].block <= finalized
       /\ claims[w].rarity = resolveGenesis(w, requests[w].target, claims[w].secretAvailable)

\* A call's target is its wallet's.
OnTarget(k, rows) == rows[k.wallet] # NoRequest /\ k.target = rows[k.wallet].target

\* A call that has read the hash has it from its target block, which is final.
HashInHand(k, rows, final) == OnTarget(k, rows) /\ k.hash = k.target /\ k.target <= final

\* What a call in flight holds, by where it has got to, of the requests' rows
\* and the chain's final and newest block.
Kept(k, rows, final, newest) ==
  \/ k.pc \in {"idle", "head"}
  \/ /\ k.pc = "open"
     /\ k.head \in Nat /\ k.head >= 1 /\ k.head <= newest /\ newest - k.head <= MaxLag
  \/ k.pc = "block" /\ OnTarget(k, rows)
  \/ k.pc = "coverage" /\ HashInHand(k, rows, final)
  \/ /\ k.pc \in {"reserve", "commit"} /\ HashInHand(k, rows, final)
     /\ <<k.wallet, k.hash>> \in SecretDraws
  \/ /\ k.pc = "record" /\ HashInHand(k, rows, final)
     /\ k.rarity = resolveGenesis(k.wallet, k.hash, k.available)

\* What a call holds before, and must hold after, a step.
KeptNow(k) == Kept(k, requests, finalized, head)
KeptNext(k) == Kept(k, requests', finalized', head')

CardInv ==
  /\ head \in Nat /\ finalized \in Nat /\ head >= 1
  /\ requests = [w \in Wallets |-> requests[w]]
  /\ \A w \in Wallets : RowKept(w)
  /\ \A c \in Calls : KeptNow(call[c])

\* The rows move on: a target stands, and the chain only grows.
RowsMoveOn ==
  /\ finalized' \in Nat /\ finalized' >= finalized
  /\ \A w \in Wallets : requests[w] # NoRequest =>
       requests'[w] # NoRequest /\ requests'[w].target = requests[w].target

\* A call that does not move keeps what it holds, while the head stands.
LEMMA KeptStays ==
  ASSUME CardInv, RowsMoveOn, UNCHANGED head, NEW k, KeptNow(k),
         k.pc \in {"idle", "head", "open"} \/ k.wallet \in Wallets
  PROVE  KeptNext(k)
<1>1. k.wallet \in Wallets /\ OnTarget(k, requests) => OnTarget(k, requests') /\ k.target \in Nat
  BY DEF OnTarget, RowsMoveOn, CardInv, RowKept, RequestRow
<1>2. k.wallet \in Wallets /\ HashInHand(k, requests, finalized)
        => HashInHand(k, requests', finalized')
  BY <1>1 DEF HashInHand, RowsMoveOn, CardInv
<1> QED
  BY <1>1, <1>2 DEF Kept, KeptNow, KeptNext

\* A step that keeps the rows, moves them on and gives every call that moves
\* what it must hold.
LEMMA CardStep ==
  ASSUME FlowInv, CardInv, RowsMoveOn, UNCHANGED head,
         requests' = [w \in Wallets |-> requests'[w]],
         \A w \in Wallets : RowKept(w)',
         \A c \in Calls : call'[c] = call[c] \/ KeptNext(call'[c])
  PROVE  CardInv'
<1>1. ASSUME NEW c \in Calls PROVE KeptNext(call[c])
  <2>1. KeptNow(call[c]) BY DEF CardInv
  <2>2. call[c].pc = "idle" \/ call[c].wallet \in Wallets BY DEF FlowInv, FlowShape
  <2> QED BY <2>1, <2>2, KeptStays
<1>2. \A c \in Calls : KeptNext(call'[c])
  BY <1>1
<1>3. head' \in Nat /\ finalized' \in Nat /\ head' >= 1
  BY DEF CardInv, RowsMoveOn
<1> QED BY <1>2, <1>3 DEF CardInv, KeptNow, KeptNext

\* The rows as they are.
LEMMA RowsStand ==
  ASSUME CardInv, UNCHANGED <<requests, claims, finalized>>
  PROVE  /\ RowsMoveOn
         /\ requests' = [w \in Wallets |-> requests'[w]]
         /\ \A w \in Wallets : RowKept(w)'
BY DEF CardInv, RowsMoveOn, RowKept

\* A step of the calls alone.
LEMMA CallsMove ==
  ASSUME FlowInv, CardInv, UNCHANGED <<requests, claims, finalized, head>>,
         \A c \in Calls : call'[c] = call[c] \/ KeptNext(call'[c])
  PROVE  CardInv'
BY RowsStand, CardStep

\* One call moves to a record that holds what it must.
LEMMA OneKept ==
  ASSUME FlowInv, NEW c \in Calls, NEW k, call' = [call EXCEPT ![c] = k], KeptNext(k)
  PROVE  \A d \in Calls : call'[d] = call[d] \/ KeptNext(call'[d])
BY DEF FlowInv, FlowShape

LEMMA IdleKept == KeptNext(Idle)
BY DEF KeptNext, Kept, Idle

-----------------------------------------------------------------------------
\* #reveal hands on the target and the hash it was given.
LEMMA RevealKeeps ==
  ASSUME FlowInv, NEW c \in Calls, NEW p, NEW w, NEW req, NEW available, NEW committed,
         requests'[w] # NoRequest, req.target = requests'[w].target,
         req.hash = req.target, req.target <= finalized',
         Reveal(c, p, w, req, available, committed)
  PROVE  \A d \in Calls : call'[d] = call[d] \/ KeptNext(call'[d])
<1>1. CASE call' = [call EXCEPT ![c] = Recording(p, w, req, available, NoTx)]
  <2> DEFINE k == Recording(p, w, req, available, NoTx)
  <2>1. /\ k.pc = "record" /\ k.wallet = w /\ k.target = req.target /\ k.hash = req.hash
        /\ k.rarity = resolveGenesis(w, req.hash, available) /\ k.available = available
    BY DEF Recording
  <2>2. KeptNext(k)
    <3> HIDE DEF k
    <3> QED BY <2>1 DEF KeptNext, Kept, HashInHand, OnTarget
  <2> QED BY <1>1, <2>2, OneKept
<1>2. CASE call' = [call EXCEPT ![c] = Idle]
  BY <1>2, IdleKept, OneKept
<1>3. CASE /\ call' = [call EXCEPT ![c] = Reserving(p, w, req, committed)]
           /\ resolveGenesis(w, req.hash, available) = "SECRET"
  <2> DEFINE k == Reserving(p, w, req, committed)
  <2>1. k.pc = "reserve" /\ k.wallet = w /\ k.target = req.target /\ k.hash = req.hash
    BY DEF Reserving
  <2>2. <<w, req.hash>> \in SecretDraws
    BY <1>3 DEF resolveGenesis
  <2>3. KeptNext(k)
    <3> HIDE DEF k
    <3> QED BY <2>1, <2>2 DEF KeptNext, Kept, HashInHand, OnTarget
  <2> QED BY <1>3, <2>3, OneKept
<1> QED BY <1>1, <1>2, <1>3 DEF Reveal

\* #advance hands on the row's own target, and its hash once it is committed.
LEMMA AdvanceKeeps ==
  ASSUME FlowInv, NEW c \in Calls, NEW p, NEW w \in Wallets,
         RowKept(w)', requests'[w] # NoRequest,
         Advance(c, p, w, requests'[w])
  PROVE  \A d \in Calls : call'[d] = call[d] \/ KeptNext(call'[d])
<1> DEFINE req == requests'[w]
<1>1. CASE req.state = "COMMITTED" /\ Reveal(c, p, w, req, TRUE, TRUE)
  <2>1. req.hash = req.target /\ req.target <= finalized'
    BY <1>1 DEF RowKept
  <2> QED BY <1>1, <2>1, RevealKeeps
<1>2. CASE call' = [call EXCEPT ![c] = [pc |-> "block", proc |-> p, wallet |-> w,
                                        target |-> req.target, hash |-> NoHash]]
  <2> DEFINE k == [pc |-> "block", proc |-> p, wallet |-> w, target |-> req.target,
                   hash |-> NoHash]
  <2>1. KeptNext(k)
    BY DEF KeptNext, Kept, OnTarget
  <2> QED BY <1>2, <2>1, OneKept
<1>3. CASE call' = [call EXCEPT ![c] = Idle]
  BY <1>3, IdleKept, OneKept
<1> QED BY <1>1, <1>2, <1>3 DEF Advance

\* Everyone who waited on an attempt goes on with the entropy it waited with.
LEMMA EndAttemptKeeps ==
  ASSUME FlowInv, CardInv, UNCHANGED <<requests, finalized, head>>,
         NEW p, NEW w, NEW result, NEW tx, EndAttempt(p, w, result, tx)
  PROVE  \A c \in Calls : call'[c] = call[c] \/ KeptNext(call'[c])
<1> SUFFICES ASSUME NEW c \in Calls, Waiting(c, p, w)
             PROVE  KeptNext(call'[c])
  BY DEF EndAttempt
<1> DEFINE k == call[c]
           req == [target |-> k.target, hash |-> k.hash]
<1>1. call'[c] = After(c, result, tx)
  BY DEF EndAttempt
<1>2. KeptNow(k) /\ k.pc = "reserve"
  BY DEF CardInv, Waiting
<1>3. /\ requests'[k.wallet] # NoRequest /\ k.target = requests'[k.wallet].target
      /\ k.hash = k.target /\ k.target <= finalized' /\ <<k.wallet, k.hash>> \in SecretDraws
  BY <1>2 DEF KeptNow, Kept, HashInHand, OnTarget
<1>4. ASSUME NEW available, NEW t PROVE KeptNext(Recording(k.proc, k.wallet, req, available, t))
  <2> DEFINE r == Recording(k.proc, k.wallet, req, available, t)
  <2>1. /\ r.pc = "record" /\ r.wallet = k.wallet /\ r.target = k.target /\ r.hash = k.hash
        /\ r.rarity = resolveGenesis(k.wallet, k.hash, available) /\ r.available = available
    BY DEF Recording
  <2>2. KeptNext(r)
    <3> HIDE DEF r
    <3> QED BY <1>3, <2>1 DEF KeptNext, Kept, HashInHand, OnTarget
  <2> QED BY <2>2
<1>5. KeptNext([pc |-> "commit", proc |-> k.proc, wallet |-> k.wallet,
            target |-> k.target, hash |-> k.hash])
  BY <1>3 DEF KeptNext, Kept, HashInHand, OnTarget
<1> QED BY <1>1, <1>4, <1>5, IdleKept DEF After

-----------------------------------------------------------------------------
\* No row, no claim, no call.
LEMMA CardInitInv == GenesisInit => CardInv
BY DEF GenesisInit, CardInv, RowKept, RequestRow, RequestState, NoRequest, NoClaim, NoHash,
       Idle, KeptNow, Kept

\* Opening a request: the first row wins, and its target was in nobody's sight.
LEMMA OpenKeepsCards ==
  ASSUME FlowInv, CardInv, NEW c \in Calls, OpenRequest(c)
  PROVE  /\ CardInv'
         /\ \A w \in Wallets :
              \/ requests'[w] = requests[w]
              \/ requests[w] = NoRequest /\ requests'[w].target > head
<1>w. PICK w \in Wallets : w = call[c].wallet
  BY DEF OpenRequest, FlowInv, FlowShape
<1>1. call[c].pc = "open"
  BY DEF OpenRequest
<1>2. /\ requests' = [requests EXCEPT ![w] = InsertedOrStored(c, w)]
      /\ Advance(c, call[c].proc, w, requests'[w])
      /\ UNCHANGED <<head, finalized, claims>>
  BY <1>w DEF OpenRequest, chainVars
<1>3. call[c].head \in Nat /\ call[c].head >= 1 /\ head - call[c].head <= MaxLag
  BY <1>1 DEF CardInv, KeptNow, Kept
<1> DEFINE t == call[c].head + ENTROPY_TARGET_DISTANCE
<1>4. t \in Nat /\ t >= 1 /\ t > head
  BY <1>3, GenesisAssumption DEF CardInv
<1>5. openRequest(c) = [state |-> "PENDING", target |-> t, hash |-> NoHash]
  BY DEF openRequest
<1>6. /\ \A v \in Wallets : v # w => requests'[v] = requests[v]
      /\ requests'[w] = IF requests[w] = NoRequest THEN openRequest(c) ELSE requests[w]
      /\ requests' = [v \in Wallets |-> requests'[v]]
  BY <1>1, <1>2 DEF CardInv, InsertedOrStored
<1>7. requests[w] = NoRequest => claims[w] = NoClaim
  <2>1. RowKept(w) BY <1>1 DEF CardInv
  <2> QED BY <2>1 DEF RowKept, NoRequest
<1>8. requests[w] = NoRequest => RowKept(w)'
  <2> SUFFICES ASSUME requests[w] = NoRequest PROVE RowKept(w)'
    OBVIOUS
  <2>1. /\ requests'[w].state = "PENDING" /\ requests'[w].target = t
        /\ requests'[w].hash = NoHash /\ requests'[w] \in RequestRow
    BY <1>4, <1>5, <1>6 DEF RequestRow, RequestState, NoHash
  <2>2. claims'[w] = NoClaim
    BY <1>2, <1>7
  <2> HIDE DEF t
  <2> QED BY <1>4, <2>1, <2>2 DEF RowKept
<1>9. \A v \in Wallets : RowKept(v)'
  BY <1>2, <1>6, <1>8 DEF CardInv, RowKept
<1>10. RowsMoveOn
  BY <1>2, <1>6 DEF RowsMoveOn, CardInv
<1>11. requests'[w] # NoRequest
  BY <1>5, <1>6 DEF NoRequest
<1>12. \A d \in Calls : call'[d] = call[d] \/ KeptNext(call'[d])
  BY <1>1, <1>2, <1>9, <1>11, AdvanceKeeps
<1>13. CardInv'
  BY <1>2, <1>6, <1>9, <1>10, <1>12, CardStep
<1>14. requests[w] = NoRequest => requests'[w].target > head
  BY <1>4, <1>5, <1>6
<1> QED BY <1>6, <1>13, <1>14

\* A commit writes the hash of the row's own target.
LEMMA CommitKeepsCards ==
  ASSUME FlowInv, CardInv, NEW c \in Calls, Commit(c)
  PROVE  /\ CardInv' /\ RowsMoveOn
         /\ \A w \in Wallets : requests'[w].hash # requests[w].hash => requests[w].hash = NoHash
         /\ \A w \in Wallets : requests[w] = NoRequest => requests'[w] = NoRequest
<1>w. PICK w \in Wallets : w = call[c].wallet
  BY DEF Commit, FlowInv, FlowShape
<1>1. call[c].pc = "commit"
  BY DEF Commit
<1>2. UNCHANGED <<head, finalized, claims>> /\ call' = [call EXCEPT ![c] = Idle]
  BY DEF Commit, chainVars
<1>3. \A d \in Calls : call'[d] = call[d] \/ KeptNext(call'[d])
  BY <1>2, IdleKept, OneKept
<1>4. CASE UNCHANGED requests
  BY <1>2, <1>3, <1>4, RowsStand, CallsMove
<1>5. CASE /\ requests[w].state = "PENDING" /\ requests[w].target = call[c].target
           /\ requests' = [requests EXCEPT ![w].state = "COMMITTED", ![w].hash = call[c].hash]
  <2>1. /\ call[c].hash = call[c].target /\ call[c].target <= finalized
        /\ <<w, call[c].hash>> \in SecretDraws /\ requests[w] # NoRequest
    BY <1>w, <1>1 DEF CardInv, KeptNow, Kept, HashInHand, OnTarget
  <2>2. RowKept(w)
    BY <1>1 DEF CardInv
  <2>3. /\ \A v \in Wallets : v # w => requests'[v] = requests[v]
        /\ requests'[w] = [requests[w] EXCEPT !.state = "COMMITTED", !.hash = call[c].hash]
        /\ requests' = [v \in Wallets |-> requests'[v]]
    BY <1>1, <1>5 DEF CardInv
  <2>4. /\ requests'[w].state = "COMMITTED" /\ requests'[w].hash = requests[w].target
        /\ requests'[w].target = requests[w].target /\ requests'[w] \in RequestRow
    BY <1>5, <2>1, <2>2, <2>3 DEF RowKept, RequestRow, RequestState
  <2>5. RowKept(w)'
    BY <1>2, <1>5, <2>1, <2>2, <2>4 DEF RowKept
  <2>6. \A v \in Wallets : RowKept(v)'
    <3> SUFFICES ASSUME NEW v \in Wallets, v # w PROVE RowKept(v)'
      BY <2>5
    <3>1. RowKept(v)
      BY DEF CardInv
    <3>2. requests'[v] = requests[v] /\ claims'[v] = claims[v] /\ finalized' = finalized
      BY <1>2, <2>3
    <3> QED BY <3>1, <3>2 DEF RowKept
  <2>7. requests'[w] # NoRequest
    BY <2>4 DEF NoRequest
  <2>8. RowsMoveOn
    <3>1. finalized' \in Nat /\ finalized' >= finalized
      BY <1>2 DEF CardInv
    <3>2. \A v \in Wallets : requests[v] # NoRequest =>
            requests'[v] # NoRequest /\ requests'[v].target = requests[v].target
      BY <2>3, <2>4, <2>7
    <3> QED BY <3>1, <3>2 DEF RowsMoveOn
  <2>9. requests[w].hash = NoHash
    BY <1>5, <2>2 DEF RowKept
  <2> QED BY <1>2, <1>3, <2>1, <2>3, <2>6, <2>8, <2>9, CardStep
<1> QED BY <1>w, <1>4, <1>5 DEF Commit

\* A record writes the claim and the FINALIZED row together.
LEMMA RecordKeepsCards ==
  ASSUME FlowInv, CardInv, NEW c \in Calls, Record(c)
  PROVE  /\ CardInv' /\ RowsMoveOn
         /\ \A w \in Wallets : requests'[w].hash # requests[w].hash => requests[w].hash = NoHash
         /\ \A w \in Wallets : requests[w] = NoRequest => requests'[w] = NoRequest
         /\ \A w \in Wallets : claims[w] # NoClaim => claims'[w] = claims[w]
<1>w. PICK w \in Wallets : w = call[c].wallet
  BY DEF Record, FlowInv, FlowShape
<1> DEFINE
      card == [rarity |-> call[c].rarity, block |-> call[c].hash,
               secretAvailable |-> call[c].available, tx |-> call[c].tx]
<1>1. call[c].pc = "record"
  BY DEF Record
<1>2. UNCHANGED <<head, finalized>> /\ call' = [call EXCEPT ![c] = Idle]
  BY DEF Record, chainVars
<1>3. \A d \in Calls : call'[d] = call[d] \/ KeptNext(call'[d])
  BY <1>2, IdleKept, OneKept
<1>4. CASE UNCHANGED dbVars
  BY <1>2, <1>3, <1>4, RowsStand, CallsMove DEF dbVars
<1>5. CASE /\ Records(c, w)
           /\ requests' = [requests EXCEPT ![w].state = "FINALIZED", ![w].hash = call[c].hash]
           /\ claims' = [claims EXCEPT ![w] = card]
  <2>1. /\ call[c].hash = call[c].target /\ call[c].target <= finalized
        /\ call[c].rarity = resolveGenesis(w, call[c].hash, call[c].available)
        /\ requests[w] # NoRequest /\ call[c].target = requests[w].target
    BY <1>w, <1>1 DEF CardInv, KeptNow, Kept, HashInHand, OnTarget
  <2>2. RowKept(w) /\ claims[w] = NoClaim /\ requests[w].hash \in {NoHash, call[c].hash}
    BY <1>1, <1>5 DEF CardInv, Records
  <2>3. /\ \A v \in Wallets : v # w => requests'[v] = requests[v] /\ claims'[v] = claims[v]
        /\ requests'[w] = [requests[w] EXCEPT !.state = "FINALIZED", !.hash = call[c].hash]
        /\ claims'[w] = card
        /\ requests' = [v \in Wallets |-> requests'[v]]
    BY <1>1, <1>5 DEF CardInv, FlowInv, FlowShape
  <2>4. /\ requests'[w].state = "FINALIZED" /\ requests'[w].hash = call[c].hash
        /\ requests'[w].target = requests[w].target /\ requests'[w] \in RequestRow
        /\ requests[w].target >= 1
    BY <2>1, <2>2, <2>3 DEF RowKept, RequestRow, RequestState, NoRequest
  <2>5. /\ claims'[w].block = requests[w].target /\ claims'[w] # NoClaim
        /\ claims'[w].rarity = resolveGenesis(w, requests[w].target, claims'[w].secretAvailable)
    <3>1. card.rarity # "NONE"
      BY <2>1 DEF resolveGenesis
    <3>2. card # NoClaim
      BY <3>1 DEF NoClaim
    <3> QED BY <2>1, <2>3, <3>2
  <2>6. RowKept(w)'
    BY <1>2, <2>1, <2>4, <2>5 DEF RowKept
  <2>7. \A v \in Wallets : RowKept(v)'
    <3> SUFFICES ASSUME NEW v \in Wallets, v # w PROVE RowKept(v)'
      BY <2>6
    <3>1. RowKept(v)
      BY DEF CardInv
    <3>2. requests'[v] = requests[v] /\ claims'[v] = claims[v] /\ finalized' = finalized
      BY <1>2, <2>3
    <3> QED BY <3>1, <3>2 DEF RowKept
  <2>8. requests'[w] # NoRequest
    BY <2>4 DEF NoRequest
  <2>9. RowsMoveOn
    <3>1. finalized' \in Nat /\ finalized' >= finalized
      BY <1>2 DEF CardInv
    <3>2. \A v \in Wallets : requests[v] # NoRequest =>
            requests'[v] # NoRequest /\ requests'[v].target = requests[v].target
      BY <2>3, <2>4, <2>8
    <3> QED BY <3>1, <3>2 DEF RowsMoveOn
  <2> QED BY <1>2, <1>3, <2>1, <2>2, <2>3, <2>4, <2>7, <2>9, CardStep
<1> QED BY <1>w, <1>4, <1>5 DEF Record

-----------------------------------------------------------------------------
\* What NoReroll says of one step.
KeepsTheRoll ==
  \A w \in Wallets :
    /\ requests[w] # NoRequest =>
         /\ requests'[w].target = requests[w].target
         /\ requests'[w].hash # requests[w].hash => requests[w].hash = NoHash
    /\ requests[w] = NoRequest /\ requests'[w] # NoRequest => requests'[w].target > head
    /\ claims[w] # NoClaim => claims'[w] = claims[w]

\* A step that writes neither table, and gives the calls it moves their due.
LEMMA NothingWritten ==
  ASSUME FlowInv, CardInv, UNCHANGED <<requests, claims, finalized, head>>,
         \A c \in Calls : call'[c] = call[c] \/ KeptNext(call'[c])
  PROVE  CardInv' /\ KeepsTheRoll
<1>1. CardInv'
  BY CallsMove
<1> QED BY <1>1 DEF KeepsTheRoll

\* A step of a call.
LEMMA CallKeepsCards ==
  ASSUME FlowInv, CardInv, NEW c \in Calls, Step(c)
  PROVE  CardInv' /\ KeepsTheRoll
<1>0. KeptNow(call[c])
  BY DEF CardInv
<1>1. CASE ReadHead(c)
  <2> DEFINE k == [pc |-> "open", proc |-> call[c].proc, wallet |-> call[c].wallet,
                   head |-> head]
  <2>1. call' = [call EXCEPT ![c] = k] /\ UNCHANGED <<requests, claims, finalized, head>>
    BY <1>1 DEF ReadHead, dbVars, chainVars
  <2>2. head \in Nat /\ head >= 1 /\ head - head <= MaxLag
    BY GenesisAssumption DEF CardInv
  <2>3. KeptNext(k)
    BY <2>1, <2>2 DEF KeptNext, Kept
  <2> QED BY <2>1, <2>3, OneKept, NothingWritten
<1>2. CASE OpenRequest(c)
  <2>1. UNCHANGED claims
    BY <1>2 DEF OpenRequest
  <2>2. \A w \in Wallets :
          requests'[w] = requests[w] \/ (requests[w] = NoRequest /\ requests'[w].target > head)
    BY <1>2, OpenKeepsCards
  <2>3. KeepsTheRoll
    BY <2>1, <2>2 DEF KeepsTheRoll
  <2> QED BY <1>2, <2>3, OpenKeepsCards
<1>3. CASE ReadBlock(c)
  <2>1. /\ call' = [call EXCEPT ![c] = Committed(c)]
        /\ UNCHANGED <<requests, claims, finalized, head>>
        /\ call[c].pc = "block" /\ call[c].target <= finalized
    BY <1>3 DEF ReadBlock, dbVars, chainVars
  <2>2. OnTarget(call[c], requests)
    BY <1>0, <2>1 DEF KeptNow, Kept
  <2>3. /\ Committed(c).pc = "coverage" /\ Committed(c).wallet = call[c].wallet
        /\ Committed(c).target = call[c].target /\ Committed(c).hash = call[c].target
    BY DEF Committed
  <2>4. KeptNext(Committed(c))
    BY <2>1, <2>2, <2>3 DEF KeptNext, Kept, HashInHand, OnTarget
  <2> QED BY <2>1, <2>4, OneKept, NothingWritten
<1>4. CASE ReadCoverage(c)
  <2> DEFINE req == [target |-> call[c].target, hash |-> call[c].hash]
  <2>1. /\ Reveal(c, call[c].proc, call[c].wallet, req, call[c].proc \in Keyed /\ isCovered, FALSE)
        /\ UNCHANGED <<requests, claims, finalized, head>> /\ call[c].pc = "coverage"
    BY <1>4 DEF ReadCoverage, dbVars, chainVars
  <2>2. HashInHand(call[c], requests, finalized)
    BY <1>0, <2>1 DEF KeptNow, Kept
  <2>3. /\ requests'[call[c].wallet] # NoRequest /\ req.target = requests'[call[c].wallet].target
        /\ req.hash = req.target /\ req.target <= finalized'
    BY <2>1, <2>2 DEF HashInHand, OnTarget
  <2>4. \A d \in Calls : call'[d] = call[d] \/ KeptNext(call'[d])
    BY <2>1, <2>3, RevealKeeps
  <2> QED BY <2>1, <2>4, NothingWritten
<1>5. CASE Commit(c)
  <2>1. UNCHANGED claims
    BY <1>5 DEF Commit
  <2>2. KeepsTheRoll
    BY <1>5, <2>1, CommitKeepsCards DEF KeepsTheRoll, RowsMoveOn
  <2> QED BY <1>5, <2>2, CommitKeepsCards
<1>6. CASE Record(c)
  <2>1. KeepsTheRoll
    BY <1>6, RecordKeepsCards DEF KeepsTheRoll, RowsMoveOn
  <2> QED BY <1>6, <2>1, RecordKeepsCards
<1>7. CASE GiveUp(c)
  <2>1. call' = [call EXCEPT ![c] = Idle] /\ UNCHANGED <<requests, claims, finalized, head>>
    BY <1>7 DEF GiveUp, dbVars, chainVars
  <2> QED BY <2>1, IdleKept, OneKept, NothingWritten
<1> QED BY <1>1, <1>2, <1>3, <1>4, <1>5, <1>6, <1>7 DEF Step

\* The chain seals a block: a request being written is still near enough to the
\* head it was read at.
LEMMA SealKeepsCards ==
  ASSUME FlowInv, CardInv, Seal
  PROVE  CardInv' /\ KeepsTheRoll
<1>1. UNCHANGED <<requests, claims, finalized, call>> /\ head' = head + 1
  BY DEF Seal, dbVars
<1>2. ASSUME NEW c \in Calls PROVE KeptNext(call[c])
  <2>1. KeptNow(call[c]) /\ head \in Nat BY DEF CardInv
  <2>2. call[c].pc = "open" => head - call[c].head < MaxLag BY DEF Seal
  <2>3. CASE call[c].pc = "open"
    <3>1. call[c].head \in Nat /\ call[c].head >= 1 /\ call[c].head <= head
      BY <2>1, <2>3 DEF KeptNow, Kept
    <3>2. head' - call[c].head <= MaxLag /\ call[c].head <= head'
      BY <1>1, <2>1, <2>2, <2>3, <3>1, GenesisAssumption
    <3> QED BY <2>3, <3>1, <3>2 DEF KeptNext, Kept
  <2>4. CASE call[c].pc # "open"
    BY <1>1, <2>1, <2>4 DEF KeptNow, KeptNext, Kept
  <2> QED BY <2>3, <2>4
<1>3. head' \in Nat /\ head' >= 1
  BY <1>1 DEF CardInv
<1>4. \A w \in Wallets : RowKept(w)'
  BY <1>1, RowsStand
<1>5. CardInv'
  BY <1>1, <1>2, <1>3, <1>4 DEF CardInv, KeptNow, KeptNext
<1> QED BY <1>1, <1>5 DEF KeepsTheRoll

\* A block becomes final: what was final stays so.
LEMMA FinalizeKeepsCards ==
  ASSUME FlowInv, CardInv, Finalize
  PROVE  CardInv' /\ KeepsTheRoll
<1>1. /\ UNCHANGED <<requests, claims, head, call>>
      /\ finalized \in Nat /\ finalized' = finalized + 1
  BY DEF Finalize, dbVars, CardInv
<1>2. RowsMoveOn
  BY <1>1 DEF RowsMoveOn
<1>3. ASSUME NEW w \in Wallets PROVE RowKept(w)'
  <2>1. RowKept(w) /\ requests[w].target \in Nat
    BY DEF CardInv, RowKept, RequestRow
  <2> QED BY <1>1, <2>1 DEF RowKept
<1>4. requests' = [w \in Wallets |-> requests'[w]]
  BY <1>1 DEF CardInv
<1>5. CardInv'
  BY <1>1, <1>2, <1>3, <1>4, CardStep
<1> QED BY <1>1, <1>5 DEF KeepsTheRoll

LEMMA CardNextInv ==
  FlowInv /\ CardInv /\ [GenesisNext]_allVars => CardInv' /\ KeepsTheRoll
<1> SUFFICES ASSUME FlowInv, CardInv, [GenesisNext]_allVars
             PROVE  CardInv' /\ KeepsTheRoll
  OBVIOUS
<1>1. ASSUME NEW c \in Calls, NEW p \in Processes, NEW w \in Wallets,
             Status(c, p, w) \/ Request(c, p, w)
      PROVE  CardInv' /\ KeepsTheRoll
  <2>1. UNCHANGED <<requests, claims, finalized, head>>
    BY <1>1 DEF Status, Request, dbVars, chainVars
  <2>2. CASE Status(c, p, w)
    <3>1. Advance(c, p, w, requests'[w]) /\ requests'[w] # NoRequest
      BY <2>1, <2>2 DEF Status
    <3>2. RowKept(w)'
      BY <2>1, RowsStand
    <3>3. \A d \in Calls : call'[d] = call[d] \/ KeptNext(call'[d])
      BY <3>1, <3>2, AdvanceKeeps
    <3> QED BY <2>1, <3>3, NothingWritten
  <2>3. CASE Request(c, p, w)
    <3> DEFINE k == [pc |-> "head", proc |-> p, wallet |-> w]
    <3>1. call' = [call EXCEPT ![c] = k]
      BY <2>3 DEF Request
    <3>2. KeptNext(k)
      BY DEF KeptNext, Kept
    <3> QED BY <2>1, <3>1, <3>2, OneKept, NothingWritten
  <2> QED BY <1>1, <2>2, <2>3
<1>2. ASSUME NEW c \in Calls, Step(c) \/ CallFails(c)
      PROVE  CardInv' /\ KeepsTheRoll
  <2>1. CASE CallFails(c)
    <3>1. call' = [call EXCEPT ![c] = Idle] /\ UNCHANGED <<requests, claims, finalized, head>>
      BY <2>1 DEF CallFails, dbVars, chainVars
    <3> QED BY <3>1, IdleKept, OneKept, NothingWritten
  <2> QED BY <1>2, <2>1, CallKeepsCards
<1>3. ASSUME NEW p \in Processes, NEW w \in Wallets, Attempt(p, w) \/ AttemptFails(p, w)
      PROVE  CardInv' /\ KeepsTheRoll
  <2>1. UNCHANGED <<requests, claims, finalized, head>>
    BY <1>3 DEF Attempt, AttemptFails, Simulate, SendReserve, Receipt, FindReservation,
                dbVars, chainVars
  <2>2. UNCHANGED call \/ \E result, tx : EndAttempt(p, w, result, tx)
    BY <1>3 DEF Attempt, AttemptFails, Simulate, SendReserve, Receipt, FindReservation
  <2>3. \A c \in Calls : call'[c] = call[c] \/ KeptNext(call'[c])
    BY <2>1, <2>2, EndAttemptKeeps
  <2> QED BY <2>1, <2>3, NothingWritten
<1>4. ASSUME NEW p \in Processes, Crash(p)
      PROVE  CardInv' /\ KeepsTheRoll
  <2>1. /\ UNCHANGED <<requests, claims, finalized, head>>
        /\ \A c \in Calls : call'[c] = call[c] \/ call'[c] = Idle
    BY <1>4 DEF Crash, dbVars, chainVars
  <2> QED BY <2>1, IdleKept, NothingWritten
<1>5. ASSUME UNCHANGED <<requests, claims, finalized, head, call>>
      PROVE  CardInv' /\ KeepsTheRoll
  BY <1>5, NothingWritten
<1>6. ASSUME NEW t \in DOMAIN txs, Execute(t)
      PROVE  CardInv' /\ KeepsTheRoll
  BY <1>5, <1>6 DEF Execute, dbVars, chainVars
<1>7. CASE (Treasury /\ UNCHANGED genesisVars) \/ UNCHANGED allVars
  BY <1>5, <1>7 DEF allVars, genesisVars
<1> QED
  BY <1>1, <1>2, <1>3, <1>4, <1>6, <1>7, SealKeepsCards, FinalizeKeepsCards DEF GenesisNext

\* The card of a wallet is the one its own request's final block deals under
\* the table its claim records, however many processes advanced the request.
THEOREM CardsComeFromTheirBlocks == GenesisSafety => []CardFromItsBlock
<1>1. CardInv => CardFromItsBlock
  BY DEF CardInv, RowKept, CardFromItsBlock
<1>2. GenesisSafety => [](FlowInv /\ CardInv)
  BY FlowInvHolds, CardInitInv, CardNextInv, PTL DEF GenesisSafety
<1> QED BY <1>1, <1>2, PTL

\* A request's target, its hash and its card are decided once, and the target
\* before anyone could know its block.
THEOREM NothingIsRerolled == GenesisSafety => NoReroll
<1>1. FlowInv /\ CardInv /\ [GenesisNext]_allVars => [KeepsTheRoll]_allVars
  BY CardNextInv
<1>2. GenesisSafety => [](FlowInv /\ CardInv)
  BY FlowInvHolds, CardInitInv, CardNextInv, PTL DEF GenesisSafety
<1>3. GenesisSafety => [][KeepsTheRoll]_allVars
  BY <1>1, <1>2, PTL DEF GenesisSafety
<1> QED BY <1>3 DEF NoReroll, KeepsTheRoll

=============================================================================
