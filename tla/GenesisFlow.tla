---------------------------- MODULE GenesisFlow ----------------------------
(***************************************************************************)
(* A Genesis claim from request to card: packages/genesis-service/src/     *)
(* flow.ts over the Genesis tables (store-postgres/src/genesis-store.ts),  *)
(* the chain, and the Secret vault (module SecretVault) reached through    *)
(* packages/chain/src/secret-vault.ts.                                     *)
(*                                                                         *)
(* Each call of `status` or `request` is a process that gives up control   *)
(* at every await: a step below is the code between two awaits.  Calls run *)
(* in server processes; within one process the reservations of one wallet  *)
(* share an attempt (#inFlight), across processes they do not.  A card is  *)
(* abstracted to its rarity and a block hash to its block's number.        *)
(***************************************************************************)
EXTENDS SecretVault, Sequences

CONSTANTS Processes,      \* server processes
          Keyed,          \* those configured with a reserver key (secretVault # null)
          Calls,          \* concurrent calls of the Genesis endpoints
          SecretDraws,    \* <<wallet, block>> whose slot is in the Secret band
          ENTROPY_TARGET_DISTANCE,
          RESERVATION_LOOKBACK_BLOCKS, \* how far back a reservation is looked for
          MaxLag,         \* assumed: blocks sealed between reading the head and writing the request
          MaxBlock,       \* bound: the blocks of a run
          MaxTx,          \* bound: the reserve transactions ever sent
          MaxFaults       \* bound: failed reads, failed writes and crashes

ASSUME GenesisAssumption ==
  /\ Keyed \subseteq Processes
  /\ SecretDraws \subseteq Wallets \X Nat
  /\ ENTROPY_TARGET_DISTANCE \in Nat /\ MaxLag \in Nat
  /\ RESERVATION_LOOKBACK_BLOCKS \in Nat
  /\ MaxLag < ENTROPY_TARGET_DISTANCE
  /\ MaxBlock \in Nat /\ MaxTx \in Nat /\ MaxFaults \in Nat

VARIABLES head, finalized,  \* the chain's newest and newest finalized block
          txs,              \* the reserve transactions sent: wallet, status and the Reserved event's block
          requests,         \* genesis_requests, by wallet
          claims,           \* genesis_claims with its card and entitlement row, by wallet
          call,             \* call[c]: where a call has got to, and its locals
          attempt,          \* attempt[p][w]: the reservation in flight (#inFlight)
          faults

chainVars == <<head, finalized>>
dbVars == <<requests, claims>>
RequestState == {"NONE", "PENDING", "COMMITTED", "FINALIZED"}
Rarity == {"SECRET", "LEGENDARY", "COMMON"}
genesisVars == <<head, finalized, txs, requests, claims, call, attempt, faults>>
allVars == <<vaultVars, genesisVars>>

NoHash == 0
NoTx == 0
NoBlock == 0
NoRequest == [state |-> "NONE", target |-> 0, hash |-> NoHash]
NoClaim == [rarity |-> "NONE", block |-> 0, secretAvailable |-> FALSE, tx |-> NoTx]
Idle == [pc |-> "idle"]
NoAttempt == [pc |-> "none", tx |-> NoTx]

GenesisInit ==
  /\ VaultInit
  /\ head = 1 /\ finalized = 0
  /\ txs = <<>>
  /\ requests = [w \in Wallets |-> NoRequest]
  /\ claims = [w \in Wallets |-> NoClaim]
  /\ call = [c \in Calls |-> Idle]
  /\ attempt = [p \in Processes |-> [w \in Wallets |-> NoAttempt]]
  /\ faults = 0

-----------------------------------------------------------------------------
(* Resolution: battle-math/src/genesis-rng.ts *)

\* rarityForSlot: the slot is fixed by wallet and block; the top band is
\* SECRET under the funded table and LEGENDARY under the disabled one.
resolveGenesis(w, block, secretAvailable) ==
  CASE <<w, block>> \notin SecretDraws -> "COMMON"
    [] <<w, block>> \in SecretDraws /\ secretAvailable -> "SECRET"
    [] OTHER -> "LEGENDARY"

-----------------------------------------------------------------------------
(* The flow *)

\* A call about to record a card of the given rarity.
Recording(p, w, req, available, tx) ==
  [pc |-> "record", proc |-> p, wallet |-> w, target |-> req.target, hash |-> req.hash,
   rarity |-> resolveGenesis(w, req.hash, available), available |-> available, tx |-> tx]

\* A call waiting at `await vault.reserve(wallet)`.
Reserving(p, w, req, committed) ==
  [pc |-> "reserve", proc |-> p, wallet |-> w, target |-> req.target, hash |-> req.hash,
   committed |-> committed]

\* #reveal up to its first await.  A Secret joins the wallet's attempt of this
\* process or starts one; with no vault to ask, a committed Secret waits.
Reveal(c, p, w, req, available, committed) ==
  IF resolveGenesis(w, req.hash, available) # "SECRET"
  THEN /\ call' = [call EXCEPT ![c] = Recording(p, w, req, available, NoTx)]
       /\ UNCHANGED attempt
  ELSE IF p \notin Keyed
  THEN /\ call' = [call EXCEPT ![c] = Idle]
       /\ UNCHANGED attempt
  ELSE /\ call' = [call EXCEPT ![c] = Reserving(p, w, req, committed)]
       /\ attempt' = IF attempt[p][w] = NoAttempt
                     THEN [attempt EXCEPT ![p][w] = [pc |-> "simulate", tx |-> NoTx]]
                     ELSE attempt

\* Mutation: a committed request is reported pending and not retried.
AdvancePending(c, p, w, req) ==
  /\ call' = [call EXCEPT ![c] =
        IF req.state = "PENDING"
        THEN [pc |-> "block", proc |-> p, wallet |-> w, target |-> req.target, hash |-> NoHash]
        ELSE Idle]
  /\ UNCHANGED attempt

\* #advance on a request with no claim, up to its first await.  FINALIZED with
\* no claim is the error a slow first request meets; it ends the call.
Advance(c, p, w, req) ==
  \/ /\ req.state = "COMMITTED"
     /\ Reveal(c, p, w, req, TRUE, TRUE)
  \/ /\ req.state = "PENDING"
     /\ call' = [call EXCEPT ![c] = [pc |-> "block", proc |-> p, wallet |-> w,
                                     target |-> req.target, hash |-> NoHash]]
     /\ UNCHANGED attempt
  \/ /\ req.state = "FINALIZED"
     /\ call' = [call EXCEPT ![c] = Idle]
     /\ UNCHANGED attempt

\* status and request, which first read the wallet's row.  With a claim they
\* answer at once, and so does status with no request: neither is a step.
Status(c, p, w) ==
  /\ call[c] = Idle
  /\ claims[w] = NoClaim
  /\ requests[w] # NoRequest
  /\ Advance(c, p, w, requests[w])
  /\ UNCHANGED <<vaultVars, chainVars, txs, dbVars, faults>>

Request(c, p, w) ==
  /\ call[c] = Idle
  /\ claims[w] = NoClaim
  /\ requests[w] = NoRequest
  /\ call' = [call EXCEPT ![c] = [pc |-> "head", proc |-> p, wallet |-> w]]
  /\ UNCHANGED <<vaultVars, chainVars, txs, dbVars, attempt, faults>>

\* The balance is enough (a balance that is not ends the call: GiveUp) and the
\* head is read, far enough from the end of the run for its block to come.
ReadHead(c) ==
  /\ call[c].pc = "head"
  /\ head + ENTROPY_TARGET_DISTANCE <= MaxBlock
  /\ call' = [call EXCEPT ![c] = [pc |-> "open", proc |-> call[c].proc,
                                  wallet |-> call[c].wallet, head |-> head]]
  /\ UNCHANGED <<vaultVars, chainVars, txs, dbVars, attempt, faults>>

openRequest(c) ==
  [state |-> "PENDING", target |-> call[c].head + ENTROPY_TARGET_DISTANCE, hash |-> NoHash]

\* Mutation: the later request replaces the row.
Upserted(c, w) == openRequest(c)

\* INSERT ... ON CONFLICT DO NOTHING
InsertedOrStored(c, w) == IF requests[w] = NoRequest THEN openRequest(c) ELSE requests[w]

\* repository.open: a row that exists already wins.
OpenRequest(c) ==
  LET w == call[c].wallet IN
  /\ call[c].pc = "open"
  /\ requests' = [requests EXCEPT ![w] = InsertedOrStored(c, w)]
  /\ Advance(c, call[c].proc, w, requests'[w])
  /\ UNCHANGED <<vaultVars, chainVars, txs, claims, faults>>

\* commitEntropy: the target block's hash, in the call's own copy.
Committed(c) ==
  [pc |-> "coverage", proc |-> call[c].proc, wallet |-> call[c].wallet,
   target |-> call[c].target, hash |-> call[c].target]

\* Mutation: the block is used as soon as it is sealed.
ReadSealedBlock(c) ==
  /\ call[c].pc = "block"
  /\ call[c].target <= head
  /\ call' = [call EXCEPT ![c] = Committed(c)]
  /\ UNCHANGED <<vaultVars, chainVars, txs, dbVars, attempt, faults>>

\* finalizedBlock(target): not final ends the call (GiveUp); final commits the
\* hash.
ReadBlock(c) ==
  /\ call[c].pc = "block"
  /\ call[c].target <= finalized
  /\ call' = [call EXCEPT ![c] = Committed(c)]
  /\ UNCHANGED <<vaultVars, chainVars, txs, dbVars, attempt, faults>>

\* vault.isCovered(), or FALSE without a key, and on into #reveal.
ReadCoverage(c) ==
  /\ call[c].pc = "coverage"
  /\ Reveal(c, call[c].proc, call[c].wallet,
            [target |-> call[c].target, hash |-> call[c].hash],
            call[c].proc \in Keyed /\ isCovered, FALSE)
  /\ UNCHANGED <<vaultVars, chainVars, txs, dbVars, faults>>

\* repository.commit: refused unless still PENDING; the call ends either way.
Commit(c) ==
  LET w == call[c].wallet IN
  /\ call[c].pc = "commit"
  /\ requests' = IF requests[w].state = "PENDING" /\ requests[w].target = call[c].target
                 THEN [requests EXCEPT ![w].state = "COMMITTED", ![w].hash = call[c].hash]
                 ELSE requests
  /\ call' = [call EXCEPT ![c] = Idle]
  /\ UNCHANGED <<vaultVars, chainVars, txs, claims, attempt, faults>>

\* The conditions under which repository.record writes: no claim yet, the same
\* target block, and no other hash committed.
Records(c, w) ==
  /\ claims[w] = NoClaim
  /\ requests[w].target = call[c].target
  /\ requests[w].hash \in {NoHash, call[c].hash}

\* repository.record: one transaction, once; a second call returns the first.
Record(c) ==
  LET w == call[c].wallet IN
  /\ call[c].pc = "record"
  /\ IF Records(c, w)
     THEN /\ requests' = [requests EXCEPT ![w].state = "FINALIZED", ![w].hash = call[c].hash]
          /\ claims' = [claims EXCEPT ![w] =
                [rarity |-> call[c].rarity, block |-> call[c].hash,
                 secretAvailable |-> call[c].available, tx |-> call[c].tx]]
     ELSE UNCHANGED dbVars
  /\ call' = [call EXCEPT ![c] = Idle]
  /\ UNCHANGED <<vaultVars, chainVars, txs, attempt, faults>>

\* A call ends without an effect: too little $WAR, or a block not yet final.
GiveUp(c) ==
  /\ \/ call[c].pc = "head"
     \/ call[c].pc = "block" /\ call[c].target > finalized
  /\ call' = [call EXCEPT ![c] = Idle]
  /\ UNCHANGED <<vaultVars, chainVars, txs, dbVars, attempt, faults>>

-----------------------------------------------------------------------------
(* One attempt to reserve: ChainSecretVault.#reserve *)

\* The attempt ends and everyone waiting on it goes on: with UNCOVERED under
\* the disabled table, with a reservation to record it, with a failure to the
\* commit that keeps the entropy, or to the end if that was kept before.
After(c, result, tx) ==
  LET k == call[c]
      req == [target |-> k.target, hash |-> k.hash]
  IN  CASE result = "UNCOVERED" -> Recording(k.proc, k.wallet, req, FALSE, NoTx)
        [] result = "RESERVED" -> Recording(k.proc, k.wallet, req, TRUE, tx)
        [] result = "failed" /\ ~k.committed ->
             [pc |-> "commit", proc |-> k.proc, wallet |-> k.wallet,
              target |-> k.target, hash |-> k.hash]
        [] OTHER -> Idle

Waiting(c, p, w) == call[c].pc = "reserve" /\ call[c].proc = p /\ call[c].wallet = w

EndAttempt(p, w, result, tx) ==
  /\ attempt' = [attempt EXCEPT ![p][w] = NoAttempt]
  /\ call' = [c \in Calls |-> IF Waiting(c, p, w) THEN After(c, result, tx) ELSE call[c]]

\* simulateReserve: UNCOVERED ends the attempt, otherwise find or send.
Simulate(p, w) ==
  /\ attempt[p][w].pc = "simulate"
  /\ \/ /\ WouldRevert(w) = "InsufficientCoverage"
        /\ EndAttempt(p, w, "UNCOVERED", NoTx)
     \/ /\ WouldRevert(w) = "AlreadyEntitled"
        /\ attempt' = [attempt EXCEPT ![p][w] = [pc |-> "find", tx |-> NoTx]]
        /\ UNCHANGED call
     \/ /\ WouldRevert(w) = "no"
        /\ attempt' = [attempt EXCEPT ![p][w] = [pc |-> "send", tx |-> NoTx]]
        /\ UNCHANGED call
  /\ UNCHANGED <<vaultVars, chainVars, txs, dbVars, faults>>

\* writeContract: the transaction is with the chain.
SendReserve(p, w) ==
  /\ attempt[p][w].pc = "send"
  /\ Len(txs) < MaxTx
  /\ txs' = Append(txs, [wallet |-> w, status |-> "sent", block |-> NoBlock])
  /\ attempt' = [attempt EXCEPT ![p][w] = [pc |-> "wait", tx |-> Len(txs) + 1]]
  /\ UNCHANGED <<vaultVars, chainVars, dbVars, call, faults>>

\* A reservation mined now, whose Reserved event is in the newest block.
Landed(t) == [txs[t] EXCEPT !.status = "success", !.block = head]

\* Mutation: the contract does not check coverage again.
ExecuteUnchecked(t) ==
  LET w == txs[t].wallet IN
  /\ txs[t].status = "sent"
  /\ entitlements' = [entitlements EXCEPT ![w] = "RESERVED"]
  /\ totalReserved' = totalReserved + REWARD_AMOUNT
  /\ txs' = [txs EXCEPT ![t] = Landed(t)]
  /\ UNCHANGED <<balance, funded, paused, chainVars, dbVars, call, attempt, faults>>

\* The chain executes a transaction, whether or not anyone still waits for it.
Execute(t) ==
  LET w == txs[t].wallet IN
  /\ txs[t].status = "sent"
  /\ IF WouldRevert(w) = "no"
     THEN reserve(w) /\ txs' = [txs EXCEPT ![t] = Landed(t)]
     ELSE UNCHANGED vaultVars /\ txs' = [txs EXCEPT ![t].status = "reverted"]
  /\ UNCHANGED <<chainVars, dbVars, call, attempt, faults>>

\* Mutation: the transaction's hash is taken without waiting for its receipt.
ReceiptUnread(p, w) ==
  /\ attempt[p][w].pc = "wait"
  /\ EndAttempt(p, w, "RESERVED", attempt[p][w].tx)
  /\ UNCHANGED <<vaultVars, chainVars, txs, dbVars, faults>>

\* waitForTransactionReceipt: a reverted reservation is a failure.
Receipt(p, w) ==
  LET t == attempt[p][w].tx IN
  /\ attempt[p][w].pc = "wait"
  /\ \/ txs[t].status = "success" /\ EndAttempt(p, w, "RESERVED", t)
     \/ txs[t].status = "reverted" /\ EndAttempt(p, w, "failed", NoTx)
  /\ UNCHANGED <<vaultVars, chainVars, txs, dbVars, faults>>

\* A successful reservation for the wallet, and whether the logs of the blocks
\* that are searched still hold it.
Reserves(t, w) == txs[t].wallet = w /\ txs[t].status = "success"
InSight(t) == head - txs[t].block <= RESERVATION_LOOKBACK_BLOCKS

\* findReservation: the transaction that reserved for this wallet, if it is
\* recent enough; with none found the attempt throws.
FindReservation(p, w) ==
  /\ attempt[p][w].pc = "find"
  /\ \/ \E t \in DOMAIN txs :
          /\ Reserves(t, w) /\ InSight(t)
          /\ EndAttempt(p, w, "RESERVED", t)
     \/ /\ \A t \in DOMAIN txs : Reserves(t, w) => ~InSight(t)
        /\ EndAttempt(p, w, "failed", NoTx)
  /\ UNCHANGED <<vaultVars, chainVars, txs, dbVars, faults>>

-----------------------------------------------------------------------------
(* Faults *)

\* A chain read or a statement of the call's own fails: it throws and ends.
CallFails(c) ==
  /\ call[c].pc \in {"head", "open", "block", "coverage", "commit", "record"}
  /\ faults < MaxFaults /\ faults' = faults + 1
  /\ call' = [call EXCEPT ![c] = Idle]
  /\ UNCHANGED <<vaultVars, chainVars, txs, dbVars, attempt>>

\* The attempt throws at any of its awaits, a lost receipt included.
AttemptFails(p, w) ==
  /\ attempt[p][w] # NoAttempt
  /\ faults < MaxFaults /\ faults' = faults + 1
  /\ EndAttempt(p, w, "failed", NoTx)
  /\ UNCHANGED <<vaultVars, chainVars, txs, dbVars>>

\* A process stops: its calls and attempts are gone, its transactions are not.
Crash(p) ==
  /\ \E c \in Calls : call[c] # Idle /\ call[c].proc = p
  /\ faults < MaxFaults /\ faults' = faults + 1
  /\ call' = [c \in Calls |-> IF call[c] # Idle /\ call[c].proc = p THEN Idle ELSE call[c]]
  /\ attempt' = [attempt EXCEPT ![p] = [w \in Wallets |-> NoAttempt]]
  /\ UNCHANGED <<vaultVars, chainVars, txs, dbVars>>

-----------------------------------------------------------------------------
(* The chain (external) *)

\* Blocks are sealed no faster than MaxLag while a request is being written.
Seal ==
  /\ head < MaxBlock
  /\ \A c \in Calls : call[c].pc = "open" => head - call[c].head < MaxLag
  /\ head' = head + 1
  /\ UNCHANGED <<vaultVars, finalized, txs, dbVars, call, attempt, faults>>

Finalize ==
  /\ finalized < head
  /\ finalized' = finalized + 1
  /\ UNCHANGED <<vaultVars, head, txs, dbVars, call, attempt, faults>>

-----------------------------------------------------------------------------
Step(c) ==
  \/ ReadHead(c) \/ OpenRequest(c) \/ ReadBlock(c) \/ ReadCoverage(c)
  \/ Commit(c) \/ Record(c) \/ GiveUp(c)

Attempt(p, w) ==
  Simulate(p, w) \/ SendReserve(p, w) \/ Receipt(p, w) \/ FindReservation(p, w)

GenesisNext ==
  \/ \E c \in Calls, p \in Processes, w \in Wallets : Status(c, p, w) \/ Request(c, p, w)
  \/ \E c \in Calls : Step(c) \/ CallFails(c)
  \/ \E p \in Processes, w \in Wallets : Attempt(p, w) \/ AttemptFails(p, w)
  \/ \E p \in Processes : Crash(p)
  \/ \E t \in DOMAIN txs : Execute(t)
  \/ Seal \/ Finalize
  \/ Treasury /\ UNCHANGED genesisVars

GenesisSafety == GenesisInit /\ [][GenesisNext]_allVars

\* Fairness: handlers and attempts run on and the chain mines, seals and
\* finalizes.  Nothing makes a player ask again: the page polls a claim only
\* while it is sealing, so asking is a hypothesis of EveryRequestSettles.
GenesisFairness ==
  /\ \A c \in Calls : WF_allVars(Step(c))
  /\ \A p \in Processes, w \in Wallets : WF_allVars(Attempt(p, w))
  /\ \A t \in 1..MaxTx : WF_allVars(t \in DOMAIN txs /\ Execute(t))
  /\ WF_allVars(Seal) /\ WF_allVars(Finalize)

GenesisSpec == GenesisSafety /\ GenesisFairness

-----------------------------------------------------------------------------
CallRecord ==
  [pc : {"idle"}]
  \cup [pc : {"head"}, proc : Processes, wallet : Wallets]
  \cup [pc : {"open"}, proc : Processes, wallet : Wallets, head : Nat]
  \cup [pc : {"block", "coverage", "commit"}, proc : Processes, wallet : Wallets,
        target : Nat, hash : Nat]
  \cup [pc : {"reserve"}, proc : Processes, wallet : Wallets, target : Nat, hash : Nat,
        committed : BOOLEAN]
  \cup [pc : {"record"}, proc : Processes, wallet : Wallets, target : Nat, hash : Nat,
        rarity : Rarity, available : BOOLEAN, tx : Nat]

\* The flow's state is well formed; in particular a call waits only on an
\* attempt that is in flight, and an attempt only on a transaction it sent.
GenesisTypeOK ==
  /\ VaultTypeOK
  /\ head \in 0..MaxBlock + 1 /\ finalized \in 0..head
  /\ txs \in Seq([wallet : Wallets, status : {"sent", "success", "reverted"}, block : Nat])
  /\ requests \in [Wallets -> [state : RequestState, target : Nat, hash : Nat]]
  /\ claims \in [Wallets -> [rarity : Rarity \cup {"NONE"}, block : Nat,
                             secretAvailable : BOOLEAN, tx : Nat]]
  /\ call \in [Calls -> CallRecord]
  /\ attempt \in [Processes -> [Wallets ->
         [pc : {"none", "simulate", "find", "send", "wait"}, tx : Nat]]]
  /\ \A p \in Processes, w \in Wallets :
       /\ attempt[p][w].pc = "wait" => attempt[p][w].tx \in DOMAIN txs
       /\ attempt[p][w] = NoAttempt <=> \A c \in Calls : ~Waiting(c, p, w)
  /\ faults \in 0..MaxFaults

\* No Secret is shown without its reward: a recorded SECRET has its reward
\* reserved or already claimed on chain, and its reservation_tx is a
\* transaction that succeeded for that wallet (flow.ts:296-306, the rule of
\* docs/operations/secret-vault.md), whatever calls raced or crashed on the
\* way.
SecretIsReserved ==
  \A w \in Wallets : claims[w].rarity = "SECRET" =>
    /\ entitlements[w] # "NONE"
    /\ claims[w].tx \in DOMAIN txs
    /\ Reserves(claims[w].tx, w)

\* A card is the one its own request's block deals, from a finalized block,
\* under the table its claim records, so that anyone can verify it
\* (genesis-rng.ts verifyGenesis); the claim and the FINALIZED request come
\* together (genesis-store.ts:29-32); and only a Secret is ever left COMMITTED,
\* which is what lets #advance resolve it under the funded table again
\* (flow.ts:266-269).
CardFromItsBlock ==
  \A w \in Wallets :
    /\ requests[w].state = "FINALIZED" <=> claims[w] # NoClaim
    /\ claims[w] # NoClaim =>
         /\ claims[w].block = requests[w].target
         /\ claims[w].block <= finalized
         /\ claims[w].rarity = resolveGenesis(w, requests[w].target, claims[w].secretAvailable)
    /\ requests[w].state = "COMMITTED" =>
         /\ <<w, requests[w].target>> \in SecretDraws
         /\ requests[w].hash = requests[w].target

\* Nothing is rerolled: the first target block stands, a committed hash stands
\* and a claim stands, whoever asks again from whichever process; and the
\* target was a block nobody could know when it was fixed (flow.ts:33-34,
\* genesis-service.ts:86-91), given that fewer blocks are sealed while a
\* request is written than ENTROPY_TARGET_DISTANCE.
NoReroll ==
  [][\A w \in Wallets :
       /\ requests[w] # NoRequest =>
            /\ requests'[w].target = requests[w].target
            /\ requests'[w].hash # requests[w].hash => requests[w].hash = NoHash
       /\ requests[w] = NoRequest /\ requests'[w] # NoRequest => requests'[w].target > head
       /\ claims[w] # NoClaim => claims'[w] = claims[w]
    ]_allVars

\* Whatever the service does to the vault, the vault allows: the composition
\* implements the contract's own specification, so Solvent holds of it.
ImplementsVault == VaultSpec

\* The wallet's reservation landed, is older than the blocks findReservation
\* searches, and no card was recorded for it.
OutOfSight(w) ==
  /\ claims[w] = NoClaim
  /\ \E t \in DOMAIN txs : Reserves(t, w) /\ ~InSight(t)

\* The wallet's request is read again, once its Secret is committed by a process
\* that can reserve.
AskedAgain(w) ==
  \E c \in Calls, p \in Processes :
    /\ requests[w].state = "COMMITTED" => p \in Keyed
    /\ Status(c, p, w)

\* A request that is read again for as long as it is open gets its card, whatever
\* fails a bounded number of times on the way: no COMMITTED Secret, lost receipt,
\* shared attempt or race between processes leaves a wallet waiting forever
\* (flow.ts:304-305).  The one exception is a reservation that landed unrecorded
\* and was not asked about until it was out of findReservation's sight.  That
\* anyone asks is the hypothesis: the page does so by itself only while the
\* request is sealing, and on a load.
EveryRequestSettles ==
  \A w \in Wallets :
    SF_allVars(AskedAgain(w)) =>
      (requests[w] # NoRequest ~> claims[w] # NoClaim \/ OutOfSight(w))

\* What flow.ts:304-305 says of every Secret held back, and the look-back
\* refutes: however late it is read, its reservation is found.  Checked by no run.
LateReadSettles ==
  \A w \in Wallets :
    SF_allVars(AskedAgain(w)) => (requests[w] # NoRequest ~> claims[w] # NoClaim)

\* A reservation belongs to a Secret: genesis-service.ts:272-274 says of SPY
\* set aside for another card that "the vault would slowly leak coverage to
\* winners who were never owed it", and flow.ts:38-41 that "two calls racing
\* to it compute the same card".
ReservationsAreOwed ==
  \A w \in Wallets :
    claims[w] # NoClaim /\ entitlements[w] # "NONE" => claims[w].rarity = "SECRET"

=============================================================================
