---------------------------- MODULE GenesisPage ----------------------------
(***************************************************************************)
(* A player's own pages, read from the server: the hooks useLiveGenesis and *)
(* useLiveProfile with their clients, the views made of the answers         *)
(* (genesis-view.ts, unpublished.ts, App.tsx), and the reveal that plays    *)
(* once a card has been dealt (reveal-sequence.ts, GenesisReveal.tsx).      *)
(*                                                                          *)
(* A hook is an effect with dependencies: when one of them changes, every   *)
(* read in flight is aborted (its answer is dropped, the server may still   *)
(* act on it) and a new one is sent.  The Genesis hook also polls, and      *)
(* sends requests that no effect owns.  One hook is followed at a time:     *)
(* the two share nothing but the session.                                   *)
(***************************************************************************)
EXTENDS Integers, FiniteSets, Sequences

CONSTANTS
    Owners,         \* wallets that sign in on this page
    Cards,          \* rarities a card may have, "SECRET" among them
    MaxTokens,      \* bound: session tokens the page is given
    MaxReads,       \* bound: reads in flight at once
    MaxFailures,    \* bound: calls that fail
    MaxMoves,       \* bound: pages opened or closed, retries, motion settings
    MaxPoints       \* bound: War Points a wallet earns

ASSUME GenesisPageAssumption ==
    /\ "SECRET" \in Cards
    /\ Cards \cap {"NONE", "NOT_ELIGIBLE", "PENDING_FINALITY", "RESERVING", "READ",
                  "nothing", "FAILED"} = {}
    /\ {MaxTokens, MaxReads} \subseteq Nat \ {0}
    /\ {MaxFailures, MaxMoves, MaxPoints} \subseteq Nat

VARIABLES
    hook,       \* which hook is followed: "GENESIS" or "PROFILE"
    tokens,     \* the wallet each session token was given for, in order
    session,    \* the token the page holds, 0 when signed out
    open,       \* the page is open: the route is GENESIS, or PROFILE / REWARDS
    refresh,    \* finalizations the page has heard of (useLiveProfile's key)
    latest,     \* the last answer set, with the token it was read with
    timer,      \* the polling interval is running
    reads,      \* the reads of the effect
    request,    \* the request for a card, outside any effect
    failure,    \* requestFailure
    bar,        \* the War Points in the bar
    held,       \* the card in the pick controls
    reveal,     \* [index, fast]: the beat being played, Reduced Motion
    record,     \* server: where each wallet's claim has got to, or its War Points and card
    final,      \* server: wallets whose entropy block is final
    backed,     \* server: wallets whose Secret the vault would reserve
    failed,     \* calls that have failed
    moved       \* moves of the player

genesisPageVars ==
    <<hook, tokens, session, open, refresh, latest, timer, reads, request, failure, bar, held,
      reveal, record, final, backed, failed, moved>>

serverVars == <<record, final, backed>>
playerVars == <<tokens, session, open, refresh>>

NoCard == "NONE"

\* A result is a status of a claim, or a record with its War Points and its card.
Result(status, points) == [status |-> status, points |-> points, card |-> NoCard]
Nothing == Result("nothing", 0)
Failed == Result("FAILED", 0)
Unread == -1
NoAnswer == [token |-> 0, result |-> Nothing]
Idle == [at |-> "idle", token |-> 0, live |-> FALSE, result |-> Nothing]
Slot == 1..MaxReads

Owner(t) == tokens[t]

-----------------------------------------------------------------------------
(* What the hooks return.                                                    *)

readable == session # 0 /\ (hook = "GENESIS" => open)

sealing ==
    hook = "GENESIS" /\ latest.token = session /\ latest.result.status = "PENDING_FINALITY"

\* Mutant: an effect that does not re-run when the claim starts sealing.
DependenciesWithoutSealing ==
    IF hook = "GENESIS" THEN <<readable, session>> ELSE <<readable, session, open, refresh>>

\* The dependencies of the effect that reads.
Dependencies ==
    IF hook = "GENESIS" THEN <<readable, session, sealing>>
    ELSE <<readable, session, open, refresh>>

\* Mutant: the last answer, whoever it was read for.
KindOfAnySession ==
    IF ~readable THEN "IDLE"
    ELSE IF latest = NoAnswer THEN "LOADING"
    ELSE IF latest.result = Failed THEN "FAILED" ELSE "READY"

\* useLiveGenesis and useLiveProfile: only a result for this session.
Kind ==
    IF ~readable THEN "IDLE"
    ELSE IF latest.token # session THEN "LOADING"
    ELSE IF latest.result = Failed THEN "FAILED" ELSE "READY"

\* The status the page is rendered from.
Shown == (IF Kind = "READY" THEN latest.result ELSE Nothing).status

\* genesisViewFrom: which panel the Genesis page shows.
genesisViewFrom(status) ==
    CASE status = "NONE" -> "OFFER"
      [] status = "NOT_ELIGIBLE" -> "NOT_ELIGIBLE"
      [] status = "PENDING_FINALITY" -> "SEALING"
      [] status = "RESERVING" -> "RESERVING"
      [] status \in Cards -> "CARD"
      [] OTHER -> "UNPUBLISHED"

\* fromLiveGenesis and fromLiveProfile: what the page says it is doing.
PersonalData == IF Kind = "IDLE" THEN "SIGNED_OUT" ELSE Kind

\* The War Points of the record shown.
ReadWarPoints == IF Shown = "READ" THEN latest.result.points ELSE Unread

\* The card of the record shown; which charges are left is outside the model.
readCard == IF Kind = "READY" THEN latest.result.card ELSE NoCard

-----------------------------------------------------------------------------
(* The reveal: every script has its base, its beats and its tail.            *)

grammarFor(rarity) == IF rarity \in {"SECRET", "LEGENDARY"} THEN rarity ELSE "STANDARD"

\* The beats of a script, and whether its last one names the card.
revealPlan(rarity, secured) ==
    CASE grammarFor(rarity) = "STANDARD" -> [steps |-> 5, complete |-> TRUE]
      [] grammarFor(rarity) = "LEGENDARY" -> [steps |-> 7, complete |-> TRUE]
      [] OTHER -> IF secured THEN [steps |-> 8, complete |-> TRUE]
                             ELSE [steps |-> 7, complete |-> FALSE]

\* genesisViewFrom: any card the server hands back is secured.
Plan == revealPlan(Shown, TRUE)

finished == Shown \in Cards /\ reveal.index = Plan.steps - 1

\* The card is named, its face and its colour are up.
revealed == finished /\ Plan.complete


-----------------------------------------------------------------------------
(* After any change: the effect re-runs when a dependency changed.           *)

\* An aborted read whose answer is back is gone; one on its way may be served.
Aborted(rs) ==
    [i \in Slot |-> IF rs[i].at = "sent" THEN [rs[i] EXCEPT !.live = FALSE] ELSE Idle]

Free(rs) == {i \in Slot : rs[i].at = "idle"}

Sent(rs, t) ==
    [rs EXCEPT ![CHOOSE i \in Free(rs) : TRUE] =
        [at |-> "sent", token |-> t, live |-> TRUE, result |-> Nothing]]

\* The cleanup and the effect, when `again` or a dependency asks for them.
Effect(rs, again) ==
    IF again \/ Dependencies' # Dependencies
    THEN /\ timer' = (readable' /\ sealing')
         /\ readable' => Free(Aborted(rs)) # {}
         /\ reads' = IF readable' THEN Sent(Aborted(rs), session') ELSE Aborted(rs)
    ELSE timer' = timer /\ reads' = rs

\* The bar: War Points once read, and again whenever what was read changes.
Bar(adopted) ==
    bar' = IF session' # 0 /\ ReadWarPoints' # Unread /\ ReadWarPoints' # ReadWarPoints
           THEN ReadWarPoints'
           ELSE IF adopted THEN Unread ELSE bar

\* The pick controls' card: set when a profile is ready and when its card
\* changes.  A sign-in or a sign-out does not clear it.
SetCard ==
    held' = IF hook' = "PROFILE" /\ Kind' = "READY" /\ <<Kind', readCard'>> # <<Kind, readCard>>
            THEN readCard' ELSE held

\* The script starts again with another card or another pace.
Replayed(fast) ==
    [index |-> IF Shown' # Shown \/ fast # reveal.fast THEN 0 ELSE reveal.index, fast |-> fast]

Rendered(rs, again, adopted, fast) ==
    /\ Effect(rs, again)
    /\ Bar(adopted)
    /\ SetCard
    /\ reveal' = Replayed(fast)

-----------------------------------------------------------------------------
(* The player.                                                               *)

Move == moved < MaxMoves /\ moved' = moved + 1

\* adopt(next): a sign-in, or a token replaced by another for the same wallet.
Adopt(w) ==
    /\ Len(tokens) < MaxTokens
    /\ session # 0 => Owner(session) = w
    /\ tokens' = Append(tokens, w) /\ session' = Len(tokens) + 1
    /\ UNCHANGED <<hook, open, refresh, latest, request, failure, serverVars, failed, moved>>
    /\ Rendered(reads, FALSE, TRUE, reveal.fast)

\* adopt(null): signed out, here or by the server.
SignOut ==
    /\ session # 0 /\ session' = 0
    /\ UNCHANGED <<hook, tokens, open, refresh, latest, request, failure, serverVars, failed, moved>>
    /\ Rendered(reads, FALSE, TRUE, reveal.fast)

\* The route changes; the hooks stay mounted.
OpenOrClose ==
    /\ Move
    /\ open' = ~open
    /\ UNCHANGED <<hook, tokens, session, refresh, latest, request, failure, serverVars, failed>>
    /\ Rendered(reads, FALSE, FALSE, reveal.fast)

\* TRY AGAIN on a page that failed to load.
Retry ==
    /\ PersonalData = "FAILED" /\ Move
    /\ UNCHANGED <<hook, playerVars, latest, request, failure, serverVars, failed>>
    /\ Rendered(reads, TRUE, FALSE, reveal.fast)

\* OPEN MY GENESIS CARD, or CHECK AGAIN.
RequestCard ==
    /\ hook = "GENESIS" /\ genesisViewFrom(Shown) \in {"OFFER", "NOT_ELIGIBLE"}
    /\ request.at = "idle"
    /\ request' = [at |-> "sent", token |-> session, live |-> TRUE, result |-> Nothing]
    /\ failure' = FALSE
    /\ UNCHANGED <<hook, playerVars, latest, timer, reads, bar, held, reveal, serverVars, failed, moved>>

\* Reduced Motion changes the pace of the script, which starts it again.
ToggleMotion ==
    /\ Shown \in Cards /\ Move
    /\ reveal' = [index |-> 0, fast |-> ~reveal.fast]
    /\ UNCHANGED <<hook, playerVars, latest, timer, reads, request, failure, bar, held, serverVars, failed>>

-----------------------------------------------------------------------------
(* The page's own steps.                                                     *)

\* The interval asks again, whether or not the last read is back.
Poll ==
    /\ timer /\ Free(reads) # {}
    /\ reads' = Sent(reads, session)
    /\ UNCHANGED <<hook, playerVars, latest, timer, request, failure, bar, held, reveal, serverVars,
                   failed, moved>>

\* A read is back, in whatever order; an aborted one is dropped.
ReadBack(i) ==
    /\ reads[i].at = "answered"
    /\ latest' = IF reads[i].live
                 THEN [token |-> reads[i].token, result |-> reads[i].result] ELSE latest
    /\ UNCHANGED <<hook, playerVars, request, failure, serverVars, failed, moved>>
    /\ Rendered([reads EXCEPT ![i] = Idle], FALSE, FALSE, reveal.fast)

\* The request is back.  Only a second request or leaving the site aborts it.
RequestBack ==
    /\ request.at = "answered"
    /\ request' = Idle
    /\ failure' = (request.result = Failed)
    /\ latest' = IF request.result = Failed THEN latest
                 ELSE [token |-> request.token, result |-> request.result]
    /\ UNCHANGED <<hook, playerVars, serverVars, failed, moved>>
    /\ Rendered(reads, FALSE, FALSE, reveal.fast)

\* useRevealProgress: each beat schedules the next.
NextBeat ==
    /\ Shown \in Cards /\ reveal.index < Plan.steps - 1
    /\ reveal' = [reveal EXCEPT !.index = @ + 1]
    /\ UNCHANGED <<hook, playerVars, latest, timer, reads, request, failure, bar, held, serverVars,
                   failed, moved>>

\* The page hears that a round has finalized.
HearFinalized ==
    /\ hook = "PROFILE" /\ refresh < MaxPoints
    /\ \E w \in Owners : record[w].points > refresh
    /\ refresh' = refresh + 1
    /\ UNCHANGED <<hook, tokens, session, open, latest, request, failure, serverVars, failed, moved>>
    /\ Rendered(reads, FALSE, FALSE, reveal.fast)

-----------------------------------------------------------------------------
(* The server (GenesisFlow models it in full), and the network.              *)

\* What a committed Secret becomes: recorded once its reward is reserved.
Reserved(w) == IF w \in backed THEN "SECRET" ELSE "RESERVING"

\* status(): what a read of this wallet's claim may leave it at.
Advanced(w) ==
    LET at == record[w].status
    IN IF at = "PENDING_FINALITY" /\ w \in final
       THEN (Cards \ {"SECRET"}) \cup {Reserved(w)}
       ELSE IF at = "RESERVING" THEN {Reserved(w)} ELSE {at}

\* request(): the first one opens a claim, when the wallet holds enough.
Opened(w) == IF record[w].status = "NONE" THEN {"NONE", "PENDING_FINALITY"} ELSE Advanced(w)

\* The work is done and the answer sent, or it fails on the way.
Served(w, at, result) ==
    /\ record' = [record EXCEPT ![w].status = at]
    /\ \/ result = record'[w] /\ failed' = failed
       \/ result = Failed /\ failed < MaxFailures /\ failed' = failed + 1
    /\ UNCHANGED <<hook, playerVars, latest, timer, failure, bar, held, reveal, final, backed, moved>>

\* GET /v1/genesis or /v1/profile.
ServeRead(i) ==
    LET w == Owner(reads[i].token)
    IN /\ reads[i].at = "sent"
       /\ \E at \in Advanced(w) : \E result \in {[record[w] EXCEPT !.status = at], Failed} :
             /\ Served(w, at, result)
             /\ reads' = [reads EXCEPT ![i] =
                  IF @.live THEN [@ EXCEPT !.at = "answered", !.result = result] ELSE Idle]
       /\ UNCHANGED request

\* POST /v1/genesis/request: a wallet that holds too little is told so, and nothing is kept.
ServeRequest ==
    LET w == Owner(request.token)
    IN /\ request.at = "sent"
       /\ \E at \in Opened(w) : \E result \in {[record[w] EXCEPT !.status = at], Failed} :
             /\ Served(w, at, result)
             /\ request' = [request EXCEPT !.at = "answered",
                  !.result = IF result.status = "NONE" THEN Result("NOT_ELIGIBLE", 0) ELSE result]
       /\ UNCHANGED reads

\* The wallet's entropy block is finalized on Robinhood Chain.
BlockFinal(w) ==
    /\ record[w].status = "PENDING_FINALITY" /\ w \notin final
    /\ final' = final \cup {w}
    /\ UNCHANGED <<hook, playerVars, latest, timer, reads, request, failure, bar, held, reveal, record,
                   backed, failed, moved>>

\* The vault can be reached again: the next attempt reserves.
VaultAnswers(w) ==
    /\ hook = "GENESIS" /\ w \notin backed
    /\ backed' = backed \cup {w}
    /\ UNCHANGED <<hook, playerVars, latest, timer, reads, request, failure, bar, held, reveal, record,
                   final, failed, moved>>

\* A round pays the wallet out.
PayOut(w) ==
    /\ hook = "PROFILE" /\ record[w].points < MaxPoints
    /\ record' = [record EXCEPT ![w].points = @ + 1]
    /\ UNCHANGED <<hook, playerVars, latest, timer, reads, request, failure, bar, held, reveal, final,
                   backed, failed, moved>>

\* The wallet is dealt its card, on the Genesis page of any tab.
DealCard(w) ==
    /\ hook = "PROFILE" /\ record[w].card = NoCard
    /\ \E c \in Cards : record' = [record EXCEPT ![w].card = c]
    /\ UNCHANGED <<hook, playerVars, latest, timer, reads, request, failure, bar, held, reveal,
                   final, backed, failed, moved>>

-----------------------------------------------------------------------------
GenesisPageInit ==
    /\ hook \in {"GENESIS", "PROFILE"}
    /\ tokens = <<>> /\ session = 0 /\ open = FALSE /\ refresh = 0
    /\ latest = NoAnswer /\ timer = FALSE
    /\ reads = [i \in Slot |-> Idle] /\ request = Idle /\ failure = FALSE
    /\ bar = Unread /\ held = NoCard /\ reveal = [index |-> 0, fast |-> FALSE]
    /\ record = [w \in Owners |-> Result(IF hook = "GENESIS" THEN "NONE" ELSE "READ", 0)]
    /\ final = {} /\ backed = {} /\ failed = 0 /\ moved = 0

GenesisPageNext ==
    \/ \E w \in Owners : Adopt(w) \/ BlockFinal(w) \/ VaultAnswers(w) \/ PayOut(w) \/ DealCard(w)
    \/ SignOut \/ OpenOrClose \/ Retry \/ RequestCard \/ ToggleMotion
    \/ Poll \/ RequestBack \/ NextBeat \/ HearFinalized \/ ServeRequest
    \/ \E i \in Slot : ReadBack(i) \/ ServeRead(i)

\* Timers fire, calls are answered or fail, blocks become final, the vault is
\* reached again.  The player owes nothing.
GenesisPageFairness ==
    /\ WF_genesisPageVars(Poll) /\ WF_genesisPageVars(NextBeat)
    /\ WF_genesisPageVars(RequestBack) /\ WF_genesisPageVars(ServeRequest)
    /\ WF_genesisPageVars(HearFinalized)
    /\ \A i \in Slot : WF_genesisPageVars(ReadBack(i)) /\ WF_genesisPageVars(ServeRead(i))
    /\ \A w \in Owners : WF_genesisPageVars(BlockFinal(w)) /\ WF_genesisPageVars(VaultAnswers(w))

-----------------------------------------------------------------------------
(* Properties.                                                               *)

Rank(status) ==
    CASE status \in {"NONE", "NOT_ELIGIBLE"} -> 0
      [] status = "PENDING_FINALITY" -> 1
      [] status = "RESERVING" -> 2
      [] OTHER -> 3

\* A page shows the record of the wallet that is signed in, and nothing the server
\* has not recorded for it: a card is shown, and a Secret named, only when that wallet's
\* claim is recorded with that card; War Points on the profile and in the bar were earned by
\* it; and once its profile has been read, the card in the pick controls is the one it was
\* dealt.  Reads, polls and a request that no effect owns come back in any order, across
\* sign-outs, rotated tokens and another wallet (useLiveGenesis, useLiveProfile, App's effects).
ShownIsRecorded ==
    LET mine == record[Owner(session)]
    IN /\ Shown \notin {"nothing", "READ"} =>
             Rank(Shown) <= Rank(mine.status) /\ (Shown \in Cards => mine.status = Shown)
       /\ ReadWarPoints # Unread => ReadWarPoints <= mine.points
       /\ bar # Unread => session # 0 /\ bar <= mine.points
       /\ hook = "PROFILE" /\ Kind = "READY" => held \in {NoCard, mine.card}

\* "The card the pick controls can arm: the dealt Genesis card and the charges it has left, from
\* the same read" as the War Points (App.tsx), which are cleared when the session changes: a card
\* in the controls is the signed-in wallet's.  Nothing clears it, so until the next wallet's profile
\* has been read the controls keep the card of the wallet before.  Checked by no run.
ArmedCardIsTheWallets ==
    held # NoCard => session # 0 /\ held = record[Owner(session)].card

\* unpublished.ts says of a page that is loading: "the wallet is known and its record is on
\* the way".  A read for the session is in flight.
LoadingIsOnTheWay ==
    PersonalData = "LOADING" => \E i \in Slot : reads[i].live /\ reads[i].token = session

\* A sealing page checks on its own until its card is dealt, and the script of a card that
\* is shown plays to the beat that names it; unless the player leaves, a read fails, or the
\* card is a Secret still being reserved (useLiveGenesis' interval, useRevealProgress).
CardIsRevealed ==
    (Shown = "PENDING_FINALITY" \/ Shown \in Cards) ~>
        (revealed \/ Shown \notin {"PENDING_FINALITY"} \cup Cards)

\* GenesisClaim.tsx tells a player whose Secret is being reserved "This page will show it
\* once the reservation is confirmed".
ReservedCardIsShown == (Shown = "RESERVING") ~> (Shown # "RESERVING")

=============================================================================
