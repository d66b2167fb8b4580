-------------------------------- MODULE Api --------------------------------
(***************************************************************************)
(* The HTTP surface (apps/api/src/server.ts and errors.ts): what each      *)
(* route answers and what it has written by the time it answers, as a      *)
(* function of the request and of what the handler finds.                  *)
(*                                                                         *)
(* A handler reads the round, the session, the store and the chain at      *)
(* different moments; the world w below holds what each read finds, so two *)
(* reads of one thing (the phase at the check, the freeze at the write)    *)
(* are two fields.  The transactions behind the writes are PickStore,      *)
(* Auth, GenesisFlow and RewardClaims.                                     *)
(***************************************************************************)
EXTENDS Integers, FiniteSets, TLC

(***************************************************************************)
(* errors.ts: the status of each refusal, and the refusals whose text      *)
(* tells the player that nothing was recorded.                             *)
(***************************************************************************)
RoundErrors ==
    [INVALID_REQUEST |-> 400, ROUND_NOT_FOUND |-> 404, MARKET_CLOSED |-> 404, PICKS_CLOSED |-> 409,
     BATTLE_NOT_IN_ROUND |-> 422, TICKER_NOT_IN_BATTLE |-> 422, RESULT_NOT_FOUND |-> 404, BATTLE_VOIDED |-> 404]

WalletErrors ==
    [NO_PICK_TO_DECIDE |-> 409, NO_CARD_TO_USE |-> 409, UNAUTHENTICATED |-> 401, RATE_LIMITED |-> 429,
     GENESIS_UNAVAILABLE |-> 503, CHAIN_UNAVAILABLE |-> 503, GENESIS_REQUEST_NOT_FOUND |-> 404,
     SIGN_IN_REFUSED |-> 401, WRONG_CHAIN |-> 400]

SaysNothingRecorded ==
    {"INVALID_REQUEST", "PICKS_CLOSED", "RATE_LIMITED", "GENESIS_UNAVAILABLE", "CHAIN_UNAVAILABLE"}

(* An answer: its status, its code or what it shows, whose data it shows,  *)
(* and what the handler wrote.                                             *)
Refusal(code) == [status |-> (RoundErrors @@ WalletErrors)[code], code |-> code, of |-> "nobody", wrote |-> {}]
Answer(status, code, of, wrote) == [status |-> status, code |-> code, of |-> of, wrote |-> wrote]

-----------------------------------------------------------------------------
(* Public reads                                                            *)

statusRoute(w) == Answer(200, IF w.round = "none" THEN "NO_ROUND" ELSE "ROUND", "public", {})

readyRoute(w) ==
    IF w.round = "none" /\ ~w.marketClosed
    THEN Answer(503, "STARTING", "public", {}) ELSE Answer(200, "READY", "public", {})

currentRoundRoute(w) ==
    IF w.round # "none" THEN Answer(200, "ROUND", "public", {})
    ELSE Refusal(IF w.marketClosed THEN "MARKET_CLOSED" ELSE "ROUND_NOT_FOUND")

(* Two reads: the result, and only without one why the battle voided.      *)
readFinalizedResult(w) == w.result = "FINALIZED"
readBattleVoid(w) == w.result = "VOID"

resultRoute(w) ==
    CASE readFinalizedResult(w) -> Answer(200, "RESULT", "public", {})
      [] ~readFinalizedResult(w) /\ readBattleVoid(w) -> Refusal("BATTLE_VOIDED")
      [] OTHER -> Refusal("RESULT_NOT_FOUND")

(* What the page makes of that answer, or of none: a void is the one        *)
(* refusal that says something of the battle, and its code tells it apart.  *)
fetchBattleResult(answered, answer) ==
    CASE ~answered -> "NONE"
      [] answered /\ answer.status = 200 -> "RESULT"
      [] answered /\ answer.status # 200 /\ answer.code = "BATTLE_VOIDED" -> "VOID"
      [] OTHER -> "NONE"

-----------------------------------------------------------------------------
(* Sign-in                                                                 *)

Limited(w) == w.waits

challengeRoute(r, w) ==
    IF Limited(w) THEN Refusal("RATE_LIMITED")
    ELSE IF ~r.wellFormed THEN Refusal("INVALID_REQUEST")
    ELSE IF ~r.ourChain THEN Refusal("WRONG_CHAIN")
    ELSE Answer(201, "CHALLENGE", r.wallet, {"challenge"})

(* verify consumes a live challenge whatever the signature turns out to    *)
(* be, and the body's wallet is compared once the session exists.          *)
verifyRoute(r, w) ==
    IF Limited(w) THEN Refusal("RATE_LIMITED")
    ELSE IF ~r.wellFormed THEN Refusal("INVALID_REQUEST")
    ELSE IF ~w.challengeLive THEN Refusal("SIGN_IN_REFUSED")
    ELSE IF w.signer = "nobody"
    THEN [Refusal("SIGN_IN_REFUSED") EXCEPT !.wrote = {"challenge"}]
    ELSE IF w.signer # r.wallet
    THEN [Refusal("SIGN_IN_REFUSED") EXCEPT !.wrote = {"challenge", "session"}]
    ELSE Answer(201, "SESSION", w.signer, {"challenge", "session"})

sessionRoute(w) ==
    IF w.session = "nobody" THEN Refusal("UNAUTHENTICATED")
    ELSE Answer(200, "SESSION", w.session, {})

signOutRoute(w) ==
    Answer(204, "SIGNED_OUT", "nobody", IF w.session = "nobody" THEN {} ELSE {"session"})

rotateRoute(w) ==
    IF w.session = "nobody" THEN Refusal("UNAUTHENTICATED")
    ELSE Answer(201, "SESSION", w.session, {"session"})

-----------------------------------------------------------------------------
(* Picks: the checks in the order of the code, then the write the store    *)
(* may still refuse because the round froze in between (lockedAs).         *)

LostAsFault(w) == Answer(500, "FAULT", "nobody", {})
Lost(w) == Refusal("PICKS_CLOSED")

InRound(r, w) == w.round # "none" /\ r.round = w.round

putPickRoute(r, w) ==
    IF w.session = "nobody" THEN Refusal("UNAUTHENTICATED")
    ELSE IF ~r.wellFormed THEN Refusal("INVALID_REQUEST")
    ELSE IF ~InRound(r, w) THEN Refusal("ROUND_NOT_FOUND")
    ELSE IF ~w.acceptsPicks THEN Refusal("PICKS_CLOSED")
    ELSE IF ~r.knownBattle THEN Refusal("BATTLE_NOT_IN_ROUND")
    ELSE IF ~r.knownTicker THEN Refusal("TICKER_NOT_IN_BATTLE")
    ELSE IF r.card = "USE" /\ ~w.charged THEN Refusal("NO_CARD_TO_USE")
    ELSE IF w.pick = "same key" THEN Answer(200, "REPLAYED", w.session, {})
    ELSE IF w.frozen THEN Lost(w)
    ELSE IF w.pick = "same key by now" THEN Answer(200, "REPLAYED", w.session, {})
    ELSE Answer(201, "RECORDED", w.session, {"pick"})

getPickRoute(r, w) ==
    IF w.session = "nobody" THEN Refusal("UNAUTHENTICATED")
    ELSE Answer(200, IF w.pick = "none" THEN "NO_PICK" ELSE "PICK", w.session, {})

deletePickRoute(r, w) ==
    IF w.session = "nobody" THEN Refusal("UNAUTHENTICATED")
    ELSE IF ~InRound(r, w) THEN Refusal("ROUND_NOT_FOUND")
    ELSE IF ~w.acceptsPicks THEN Refusal("PICKS_CLOSED")
    ELSE IF w.frozen THEN Lost(w)
    ELSE Answer(200, "WITHDRAWN", w.session, IF w.pick = "none" THEN {} ELSE {"pick"})

cardDecisionRoute(r, w) ==
    IF w.session = "nobody" THEN Refusal("UNAUTHENTICATED")
    ELSE IF ~r.wellFormed THEN Refusal("INVALID_REQUEST")
    ELSE IF ~InRound(r, w) THEN Refusal("ROUND_NOT_FOUND")
    ELSE IF ~w.acceptsPicks THEN Refusal("PICKS_CLOSED")
    ELSE IF r.card = "USE" /\ ~w.charged THEN Refusal("NO_CARD_TO_USE")
    ELSE IF w.frozen THEN Lost(w)
    ELSE IF w.pick = "none" THEN Refusal("NO_PICK_TO_DECIDE")
    ELSE Answer(200, "DECIDED", w.session, {"pick"})

-----------------------------------------------------------------------------
(* What a wallet holds: a chain that does not answer costs the figure.     *)

withinChainTimeout(w, figure) == IF w.chain = "answers" THEN figure ELSE "UNAVAILABLE"

(* A claim whose card is not on record is raised, not shown as no card.    *)
profileRoute(w) ==
    IF w.session = "nobody" THEN Refusal("UNAUTHENTICATED")
    ELSE IF w.dealsGenesis /\ w.genesis = "CLAIMED" /\ ~w.cardOnRecord THEN Answer(500, "FAULT", "nobody", {})
    ELSE Answer(200, <<withinChainTimeout(w, "BALANCE"), IF w.dealsGenesis THEN w.genesis ELSE "UNPUBLISHED">>,
                w.session, {})

(* /v1/rewards/claims and /v1/rewards/secret                               *)
rewardsRoute(w) ==
    IF w.session = "nobody" THEN Refusal("UNAUTHENTICATED")
    ELSE Answer(200, withinChainTimeout(w, "CLAIMS"), w.session, {})

-----------------------------------------------------------------------------
(* Genesis: a request is opened between the reads of the chain, and a read *)
(* that fails after it is answered like one that failed before it.         *)

FailsAt(w, step) == w.chain = step

(* #reveal: a Secret whose reservation fails is committed and held back.   *)
Revealed(w, wrote) ==
    IF FailsAt(w, "reserve") THEN Answer(200, "SECRET_RESERVATION_PENDING", w.session, wrote \cup {"commit"})
    ELSE Answer(200, "READY", w.session, wrote \cup {"claim"})

Advanced(w, wrote) ==
    CASE w.genesis = "CLAIMED" -> Answer(200, "READY", w.session, wrote)
      [] w.genesis = "COMMITTED" -> Revealed(w, wrote)
      [] FailsAt(w, "block") -> [Refusal("CHAIN_UNAVAILABLE") EXCEPT !.wrote = wrote]
      [] ~w.blockFinal -> Answer(200, "PENDING_FINALITY", w.session, wrote)
      [] FailsAt(w, "coverage") -> [Refusal("CHAIN_UNAVAILABLE") EXCEPT !.wrote = wrote]
      [] OTHER -> Revealed(w, wrote)

genesisStatusRoute(w) ==
    IF w.session = "nobody" THEN Refusal("UNAUTHENTICATED")
    ELSE IF ~w.dealsGenesis THEN Answer(200, "UNPUBLISHED", w.session, {})
    ELSE IF w.genesis = "NONE" THEN Answer(200, "NONE", w.session, {})
    ELSE Advanced(w, {})

genesisRequestRoute(w) ==
    IF w.session = "nobody" THEN Refusal("UNAUTHENTICATED")
    ELSE IF ~w.dealsGenesis THEN Refusal("GENESIS_UNAVAILABLE")
    ELSE IF w.genesis = "CLAIMED" THEN Answer(200, "ALREADY_CLAIMED", w.session, {})
    ELSE IF w.genesis # "NONE" THEN Advanced(w, {})
    ELSE IF FailsAt(w, "balance") THEN Refusal("CHAIN_UNAVAILABLE")
    ELSE IF ~w.eligible THEN Answer(200, "NOT_ELIGIBLE_BALANCE", w.session, {})
    ELSE IF FailsAt(w, "head") THEN Refusal("CHAIN_UNAVAILABLE")
    ELSE Advanced(w, {"request"})

genesisByIdRoute(r, w) ==
    IF w.session = "nobody" THEN Refusal("UNAUTHENTICATED")
    ELSE IF ~w.dealsGenesis THEN Refusal("GENESIS_UNAVAILABLE")
    ELSE IF r.wallet # w.session \/ w.genesis = "NONE" THEN Refusal("GENESIS_REQUEST_NOT_FOUND")
    ELSE Advanced(w, {})

-----------------------------------------------------------------------------
RoundRoutes == {"status", "ready", "current round", "result", "put pick", "get pick", "delete pick", "card decision"}
SessionRoutes == {"challenge", "verify", "session", "sign out", "rotate"}
ChainRoutes == {"profile", "rewards", "genesis", "genesis request", "genesis by id"}

Handle(r, w) ==
    CASE r.route = "status" -> statusRoute(w)
      [] r.route = "ready" -> readyRoute(w)
      [] r.route = "current round" -> currentRoundRoute(w)
      [] r.route = "result" -> resultRoute(w)
      [] r.route = "challenge" -> challengeRoute(r, w)
      [] r.route = "verify" -> verifyRoute(r, w)
      [] r.route = "session" -> sessionRoute(w)
      [] r.route = "sign out" -> signOutRoute(w)
      [] r.route = "rotate" -> rotateRoute(w)
      [] r.route = "put pick" -> putPickRoute(r, w)
      [] r.route = "get pick" -> getPickRoute(r, w)
      [] r.route = "delete pick" -> deletePickRoute(r, w)
      [] r.route = "card decision" -> cardDecisionRoute(r, w)
      [] r.route = "profile" -> profileRoute(w)
      [] r.route = "rewards" -> rewardsRoute(w)
      [] r.route = "genesis" -> genesisStatusRoute(w)
      [] r.route = "genesis request" -> genesisRequestRoute(w)
      [] r.route = "genesis by id" -> genesisByIdRoute(r, w)

=============================================================================
