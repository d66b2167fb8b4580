------------------------------- MODULE Stores -------------------------------
(***************************************************************************)
(* The repositories twice: in memory, for tests and the local stack        *)
(* (apps/api/src/pick-store.ts, auth/src/memory.ts,                        *)
(* genesis-service/src/memory.ts), and in PostgreSQL.  The two are driven  *)
(* in lockstep: every call goes to both, as one caller makes it, and       *)
(* `answers` holds what each of them said.  The concurrency of the         *)
(* PostgreSQL stores is the business of PickStore, Auth and GenesisFlow.   *)
(***************************************************************************)
EXTENDS Integers, FiniteSets

CONSTANTS Holders,      \* wallets and the charges of their cards at the start
          Keys,         \* client request ids, nonces and tokens
          Backed,       \* what a pick backs
          MaxStoreTime  \* bound

VARIABLES kind,      \* the repository driven: "picks", "sessions" or "genesis"
          memory, database, answers, instant

storeVars == <<kind, memory, database, answers, instant>>

Owners == DOMAIN Holders

ASSUME StoresAssumption == Holders \in [Owners -> Nat]

NoPick == [key |-> "none", choice |-> "none", card |-> "none"]
EmptyMap == [w \in Owners |-> NoPick]
NoRequest == [state |-> "NONE", block |-> 0, claim |-> 0]

Says(mem, db) == answers' = [memory |-> mem, database |-> db]

-----------------------------------------------------------------------------
(* Picks of one round.  memory: byRound, applied, locked.  database: the      *)
(* player_picks and pick_requests rows, whether the round is frozen, the      *)
(* charges left and the deployments of the ledger.                           *)

PicksInit ==
  /\ memory = [picks |-> EmptyMap, applied |-> {}, locked |-> FALSE]
  /\ database = [picks |-> EmptyMap, requests |-> {}, frozen |-> FALSE, charges |-> Holders, deployed |-> {}]

Seen(requests, w, key) == {r \in requests : r.wallet = w /\ r.pick.key = key}

\* Mutant: one wallet's key answers another wallet's request.
SeenByKeyAlone(w, key) == {r \in memory.applied : r.pick.key = key}

SeenInMemory(w, key) == Seen(memory.applied, w, key)

submit(w, pick) ==
  LET mem == SeenInMemory(w, pick.key)
      db == Seen(database.requests, w, pick.key)
      said(locked, seen) ==
        IF locked THEN {"locked"} ELSE IF seen # {} THEN {r.pick : r \in seen} ELSE {pick}
  IN /\ memory' = IF memory.locked \/ mem # {} THEN memory
                  ELSE [memory EXCEPT !.picks[w] = pick, !.applied = @ \cup {[wallet |-> w, pick |-> pick]}]
     /\ database' = IF database.frozen \/ db # {} THEN database
                    ELSE [database EXCEPT !.picks[w] = pick, !.requests = @ \cup {[wallet |-> w, pick |-> pick]}]
     /\ Says(<<said(memory.locked, mem), mem # {}>>, <<said(database.frozen, db), db # {}>>)

\* The key of the pick that goes, goes with it.
withdraw(w) ==
  LET gone(requests, pick) == requests \ Seen(requests, w, pick.key)
  IN /\ memory' = IF memory.locked \/ memory.picks[w] = NoPick THEN memory
                  ELSE [memory EXCEPT !.picks[w] = NoPick, !.applied = gone(@, memory.picks[w])]
     /\ database' = IF database.frozen \/ database.picks[w] = NoPick THEN database
                    ELSE [database EXCEPT !.picks[w] = NoPick, !.requests = gone(@, database.picks[w])]
     /\ Says(<<memory.locked, memory.picks[w] # NoPick>>, <<database.frozen, database.picks[w] # NoPick>>)

decideCard(w, card) ==
  LET decided(picks) == IF picks[w] = NoPick THEN NoPick ELSE [picks[w] EXCEPT !.card = card]
  IN /\ memory' = IF memory.locked THEN memory ELSE [memory EXCEPT !.picks[w] = decided(memory.picks)]
     /\ database' = IF database.frozen THEN database ELSE [database EXCEPT !.picks[w] = decided(database.picks)]
     /\ Says(<<memory.locked, decided(memory.picks)>>, <<database.frozen, decided(database.picks)>>)

\* The database spends a charge on every card it deploys, once; memory asks its
\* table of holdings again.
lockedPicks ==
  LET armed == {w \in Owners : database.picks[w].card = "USE"}
      fresh == {w \in armed \ database.deployed : database.charges[w] > 0}
      deployed == database.deployed \cup fresh
  IN /\ memory' = [memory EXCEPT !.locked = TRUE]
     /\ database' = [database EXCEPT !.frozen = TRUE, !.deployed = deployed,
                       !.charges = [w \in Owners |-> IF w \in fresh THEN @[w] - 1 ELSE @[w]]]
     /\ Says([w \in Owners |-> <<memory.picks[w].choice, memory.picks[w].card = "USE" /\ Holders[w] > 0>>],
             [w \in Owners |-> <<database.picks[w].choice, w \in deployed>>])

PicksNext ==
  \/ \E w \in Owners, key \in Keys, choice \in Backed, card \in {"USE", "SAVE"} :
       submit(w, [key |-> key, choice |-> choice, card |-> card])
  \/ \E w \in Owners : withdraw(w)
  \/ \E w \in Owners, card \in {"USE", "SAVE"} : decideCard(w, card)
  \/ lockedPicks

-----------------------------------------------------------------------------
(* Challenges and sessions.  Memory deletes what it has used; the database    *)
(* marks it.  A nonce and a token are drawn once.                            *)

SessionsInit ==
  /\ memory = [challenges |-> {}, sessions |-> {}, drawn |-> {}]
  /\ database = [challenges |-> {}, sessions |-> {}]

Row(key) == [key |-> key, expires |-> instant + 1, done |-> FALSE]

saveChallenge(key) ==
  /\ key \notin memory.drawn
  /\ memory' = [memory EXCEPT !.challenges = @ \cup {Row(key)}, !.drawn = @ \cup {key}]
  /\ database' = [database EXCEPT !.challenges = @ \cup {Row(key)}]
  /\ Says("saved", "saved")

consume(key) ==
  LET live(rows) == {r \in rows : r.key = key /\ ~r.done /\ r.expires > instant}
  IN /\ memory' = [memory EXCEPT !.challenges = {r \in @ : r.key # key}]
     /\ database' = [database EXCEPT !.challenges =
          {IF r \in live(@) THEN [r EXCEPT !.done = TRUE] ELSE r : r \in @}]
     /\ Says(live(memory.challenges) # {}, live(database.challenges) # {})

createSession(key) ==
  /\ \A r \in database.sessions : r.key # key
  /\ memory' = [memory EXCEPT !.sessions = @ \cup {Row(key)}]
  /\ database' = [database EXCEPT !.sessions = @ \cup {Row(key)}]
  /\ Says("issued", "issued")

revokeSession(key) ==
  /\ memory' = [memory EXCEPT !.sessions = {r \in @ : r.key # key}]
  /\ database' = [database EXCEPT !.sessions =
       {IF r.key = key THEN [r EXCEPT !.done = TRUE] ELSE r : r \in @}]
  /\ Says("revoked", "revoked")

readSession(key) ==
  LET live(rows) == {r \in rows : r.key = key /\ ~r.done /\ r.expires > instant}
  IN Says(live(memory.sessions) # {}, live(database.sessions) # {}) /\ UNCHANGED <<memory, database>>

pruneBoth ==
  LET kept(rows) == {r \in rows : r.expires > instant}
  IN /\ memory' = [memory EXCEPT !.challenges = kept(@), !.sessions = kept(@)]
     /\ database' = [database EXCEPT !.challenges = kept(@), !.sessions = kept(@)]
     /\ Says("pruned", "pruned")

SessionsNext ==
  \/ \E key \in Keys : \/ saveChallenge(key) \/ consume(key) \/ createSession(key)
                       \/ revokeSession(key) \/ readSession(key)
  \/ pruneBoth

-----------------------------------------------------------------------------
(* Genesis requests of the owners.  A caller commits and records what open    *)
(* gave it, possibly late; a block has one hash, so the block stands for it.  *)

GenesisInit ==
  /\ memory = [records |-> [w \in Owners |-> NoRequest], number |-> 1]
  /\ database = [records |-> [w \in Owners |-> NoRequest], number |-> 1]

openRequest(w, block) ==
  LET opened(store) == IF store.records[w] = NoRequest
                       THEN [store EXCEPT !.records[w] = [state |-> "PENDING", block |-> block, claim |-> 0]]
                       ELSE store
  IN /\ memory' = opened(memory) /\ database' = opened(database)
     /\ Says(memory'.records[w].block, database'.records[w].block)

commitRequest(w) ==
  /\ database.records[w] # NoRequest
  /\ memory' = IF memory.records[w].state = "PENDING"
               THEN [memory EXCEPT !.records[w].state = "COMMITTED"] ELSE memory
  /\ database' = IF database.records[w].state = "PENDING"
                 THEN [database EXCEPT !.records[w].state = "COMMITTED"] ELSE database
  /\ Says(memory' # memory, database' # database)

\* A second recording answers with the claim of the first.  The claim leaves
\* memory's request as it was passed and finalizes the database's row.
recordClaim(w) ==
  LET numbered(store, state) ==
        IF store.records[w].claim # 0 THEN store
        ELSE [store EXCEPT !.records[w].claim = store.number, !.records[w].state = state, !.number = @ + 1]
  IN /\ database.records[w].state \in {"COMMITTED", "FINALIZED"}
     /\ memory' = numbered(memory, "COMMITTED") /\ database' = numbered(database, "FINALIZED")
     /\ Says(memory'.records[w].claim, database'.records[w].claim)

GenesisStoreNext ==
  \E w \in Owners : \/ \E block \in 1..2 : openRequest(w, block)
                    \/ commitRequest(w) \/ recordClaim(w)

-----------------------------------------------------------------------------
StoresInit ==
  /\ answers = [memory |-> "nothing", database |-> "nothing"] /\ instant = 0
  /\ \/ kind = "picks" /\ PicksInit
     \/ kind = "sessions" /\ SessionsInit
     \/ kind = "genesis" /\ GenesisInit

StoreTick ==
  /\ kind = "sessions" /\ instant < MaxStoreTime
  /\ instant' = instant + 1
  /\ UNCHANGED <<kind, memory, database, answers>>

StoresNext ==
  \/ /\ UNCHANGED <<kind, instant>>
     /\ \/ kind = "picks" /\ PicksNext
        \/ kind = "sessions" /\ SessionsNext
        \/ kind = "genesis" /\ GenesisStoreNext
  \/ StoreTick

\* "Keeps the rules the database keeps, so a flow tested against this behaves
\* the same against PostgreSQL" (genesis-service/src/memory.ts:9), "exactly as
\* the database refuses it" (api/src/pick-store.ts:27): after any calls, the
\* store of the tests and the store of the deployment have answered alike.
StoresAgree == answers.memory = answers.database

=============================================================================
