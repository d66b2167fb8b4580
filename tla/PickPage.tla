------------------------------ MODULE PickPage ------------------------------
(***************************************************************************)
(* Backing a side from the page: the session store's pick state             *)
(* (web/src/state/session.ts), the controls (hud/PickControls.tsx,          *)
(* pick-flow.ts, round-phase.ts), the requests (live/pick-client.ts,        *)
(* round-client.ts) and the hook that ties them (live/useLiveWorld.ts).     *)
(*                                                                          *)
(* Nothing on the page waits for anything else: every write is followed by  *)
(* a resync of its own, every round event starts another, and each await is *)
(* a place where the rest of the page moves on.  `calls` holds the chains   *)
(* of awaits in flight, each with the stage it is at and what the server    *)
(* has answered it so far.                                                  *)
(*                                                                          *)
(* A battle is its slot in the round on the page; which of its sides is     *)
(* backed is not told apart.                                                *)
(***************************************************************************)
EXTENDS Integers, FiniteSets

CONSTANTS
    Wallets,        \* the wallets that sign in on this page
    Battles,        \* the slots of a round
    MaxRounds,      \* bound: rounds of the server
    MaxCalls,       \* bound: chains of awaits the page starts
    MaxInFlight,    \* bound: chains running at once
    MaxLost,        \* bound: requests or answers lost
    MaxSignIns      \* bound: times the session changes

ASSUME PickPageAssumption ==
    /\ {MaxRounds, MaxCalls, MaxInFlight} \subseteq Nat \ {0}
    /\ {MaxLost, MaxSignIns} \subseteq Nat

VARIABLES
    server,     \* [round, open, pick]: the current round and each wallet's pick in each
    page,       \* the pick state of the session store
    calls,      \* chains of awaits in flight
    started,    \* how many chains have been started
    lost,       \* how many requests or answers were lost
    past        \* history: the picks stored, the decisions taken, the chains refused

pageVars == <<server, page, calls, started, lost, past>>

None == "none"
Rounds == 1..MaxRounds
NoPick == [battle |-> None, card |-> None]
NoRound == [round |-> 0, open |-> FALSE]

-----------------------------------------------------------------------------
(* What the controls make of the store.                                      *)

\* roundView: picks may be made in PICK_OPEN only.
picksAllowed == page.round.open

pickProposed(b) == page.pending = b

stageFor(b) ==
    IF ~picksAllowed THEN IF page.backing.battle # b THEN "SPECTATING" ELSE "COMMITTED"
    ELSE IF page.backing.battle # b /\ ~pickProposed(b) THEN "CHOOSE_SIDE" ELSE "CARD_DECISION"

\* Of a wallet that holds a card with uses left.
cardStateFor(b) ==
    IF page.backing.battle = b /\ page.backing.card = "USE" THEN "DEPLOYED"
    ELSE IF ~picksAllowed THEN "SAVED"
    ELSE IF page.decision = "USE" THEN "ARMED"
    ELSE IF page.decision = "SAVE" THEN "SAVED" ELSE "UNDECIDED"

mayChangePick(b) == picksAllowed /\ (page.backing.battle = b \/ pickProposed(b))
mayDecideCard(b) ==
    stageFor(b) = "CARD_DECISION" /\ cardStateFor(b) \in {"UNDECIDED", "SAVED", "ARMED"}

-----------------------------------------------------------------------------
(* The chains of awaits.  `writes` is the decision that is sent first, or    *)
(* None for a resync alone; `round` is read when the chain starts.           *)

Chain(writes, battle, previous) ==
    [id |-> started + 1, session |-> page.session, wallet |-> page.wallet, writes |-> writes,
     battle |-> battle, previous |-> previous, round |-> page.round.round,
     stage |-> IF writes = None THEN "ask-round" ELSE "sent", taken |-> TRUE,
     answer |-> NoRound, mine |-> NoPick]

MayStart == started < MaxCalls /\ Cardinality(calls) < MaxInFlight
Start(chain) == calls' = calls \cup {chain} /\ started' = started + 1
Advance(c, d) == calls' = (calls \ {c}) \cup {d}

Disposed(c) == c.session # page.session
WithGateway == page.wallet # None

-----------------------------------------------------------------------------
(* The player.                                                               *)

Back(b) ==
    /\ stageFor(b) = "CHOOSE_SIDE"
    /\ page' = [page EXCEPT !.pending = b, !.proposedBy = IF WithGateway THEN started + 1 ELSE 0]
    /\ IF WithGateway THEN MayStart /\ Start(Chain("back", b, None)) ELSE UNCHANGED <<calls, started>>
    /\ UNCHANGED <<server, lost, past>>

Decide(b, decision) ==
    /\ mayDecideCard(b)
    /\ page' = [page EXCEPT !.decision = decision, !.decidedBy = IF WithGateway THEN started + 1 ELSE 0]
    /\ IF WithGateway THEN MayStart /\ Start(Chain(decision, b, page.decision))
       ELSE UNCHANGED <<calls, started>>
    /\ UNCHANGED <<server, lost, past>>

ChangePick(b) ==
    /\ mayChangePick(b)
    /\ page' = [page EXCEPT !.pending = None, !.decision = None]
    /\ IF WithGateway THEN MayStart /\ Start(Chain("withdraw", b, None)) ELSE UNCHANGED <<calls, started>>
    /\ UNCHANGED <<server, lost, past>>

\* A sign-in, a sign-out, or a token rotated: the effect is torn down and set up
\* again with the other authorization; its chains keep running and find
\* themselves disposed of.  Nothing of what the page shows is reset.
SignInOrOut ==
    /\ page.session <= MaxSignIns
    /\ \E wallet \in Wallets \cup {None} :
         /\ wallet # None \/ page.wallet # None
         /\ page' = [page EXCEPT !.session = @ + 1, !.wallet = wallet]
    /\ UNCHANGED <<server, calls, started, lost, past>>

\* A round event, or a connection that opened: void resync().
OnEvent ==
    /\ MayStart
    /\ Start(Chain(None, None, None))
    /\ UNCHANGED <<server, page, lost, past>>

-----------------------------------------------------------------------------
(* The server: the round moves on, and requests are taken in any order.      *)

LockPicks ==
    /\ server.open
    /\ server' = [server EXCEPT !.open = FALSE]
    /\ UNCHANGED <<page, calls, started, lost, past>>

NextRound ==
    /\ ~server.open /\ server.round < MaxRounds
    /\ server' = [server EXCEPT !.round = @ + 1, !.open = TRUE]
    /\ UNCHANGED <<page, calls, started, lost, past>>

\* PUT pick, DELETE pick, PUT card-decision: of the current round, while open.
Takes(c) ==
    /\ c.round = server.round /\ server.open
    /\ c.writes \in {"USE", "SAVE"} => server.pick[c.wallet][c.round] # NoPick

PickAfter(c) ==
    CASE c.writes = "back" -> [battle |-> c.battle, card |-> "SAVE"]
      [] c.writes = "withdraw" -> NoPick
      [] OTHER -> [server.pick[c.wallet][c.round] EXCEPT !.card = c.writes]

TakeWrite(c) ==
    /\ c.stage = "sent"
    /\ server' = IF Takes(c) THEN [server EXCEPT !.pick[c.wallet][c.round] = PickAfter(c)] ELSE server
    /\ past' = IF Takes(c)
               THEN [past EXCEPT !.stored = @ \cup {<<c.wallet, c.round, PickAfter(c)>>},
                                 !.decided = @ \cup {<<c.wallet, c.round, c.writes>>}]
               ELSE past
    /\ Advance(c, [c EXCEPT !.stage = "written", !.taken = Takes(c)])
    /\ UNCHANGED <<page, started, lost>>

\* The request or its answer is lost: the page is told it failed either way.
LoseWrite(c) ==
    /\ c.stage \in {"sent", "written"} /\ c.taken /\ lost < MaxLost
    /\ Advance(c, [c EXCEPT !.stage = "written", !.taken = FALSE])
    /\ lost' = lost + 1
    /\ UNCHANGED <<server, page, started, past>>

ReadRound(c) ==
    /\ c.stage = "ask-round"
    /\ Advance(c, [c EXCEPT !.stage = "round", !.answer = [round |-> server.round, open |-> server.open]])
    /\ UNCHANGED <<server, page, started, lost, past>>

LoseRead(c) ==
    /\ c.stage \in {"ask-round", "ask-pick"} /\ lost < MaxLost
    /\ Advance(c, [c EXCEPT !.stage = "resynced"])
    /\ lost' = lost + 1
    /\ UNCHANGED <<server, page, started, past>>

ReadPick(c) ==
    /\ c.stage = "ask-pick"
    /\ Advance(c, [c EXCEPT !.stage = "pick", !.mine = server.pick[c.wallet][c.answer.round]])
    /\ UNCHANGED <<server, page, started, lost, past>>

-----------------------------------------------------------------------------
(* The page takes its answers.                                               *)

\* The write's answer is held until the resync behind it has ended.
Written(c) ==
    /\ c.stage = "written"
    /\ Advance(c, [c EXCEPT !.stage = "ask-round"])
    /\ UNCHANGED <<server, page, started, lost, past>>

\* setRound and setBattles: the battles come without backing, and a proposal
\* is kept only for a battle that is still offered, with its card decision.
SetRoundAndBattles(answer) ==
    LET same == page.round.round = answer.round IN
    [page EXCEPT !.round = answer, !.backing = NoPick, !.backedBy = None, !.backedIn = 0,
                 !.pending = IF same THEN @ ELSE None,
                 !.decision = IF same /\ page.pending # None THEN @ ELSE None]

ApplyRound(c) ==
    /\ c.stage = "round"
    /\ IF Disposed(c)
       THEN page' = page /\ Advance(c, [c EXCEPT !.stage = "resynced"])
       ELSE /\ page' = SetRoundAndBattles(c.answer)
            /\ Advance(c, [c EXCEPT !.stage = IF WithGateway THEN "ask-pick" ELSE "resynced"])
    /\ UNCHANGED <<server, started, lost, past>>

Backs(c, pick) ==
    [page EXCEPT !.backing = pick, !.myWar = IF c.mine = NoPick THEN 0 ELSE c.answer.round,
                 !.backedBy = IF pick = NoPick THEN None ELSE c.wallet,
                 !.backedIn = IF pick = NoPick THEN 0 ELSE c.session]

\* Mutant: a backing is laid over the battle in its slot.
ApplyBackingBySlot(c) ==
    /\ c.stage = "pick"
    /\ page' = IF Disposed(c) THEN page
               ELSE Backs(c, c.mine)
    /\ Advance(c, [c EXCEPT !.stage = "resynced"])
    /\ UNCHANGED <<server, started, lost, past>>

\* applyMyBacking: the pick of the round that was asked about, laid over the
\* battles on the page, which may by now be another round's.
ApplyBacking(c) ==
    /\ c.stage = "pick"
    /\ page' = IF Disposed(c) THEN page
               ELSE Backs(c, IF c.answer.round = page.round.round THEN c.mine ELSE NoPick)
    /\ Advance(c, [c EXCEPT !.stage = "resynced"])
    /\ UNCHANGED <<server, started, lost, past>>

\* Mutant: a refusal is reported and the local state is left as it was.
SettleWithoutUndo(c) ==
    /\ c.stage = "resynced"
    /\ calls' = calls \ {c}
    /\ past' = IF c.taken THEN past ELSE [past EXCEPT !.refused = @ \cup {c.id}]
    /\ UNCHANGED <<server, page, started, lost>>

\* The end of send(): what a refused decision did to the page is undone.
Settle(c) ==
    /\ c.stage = "resynced"
    /\ calls' = calls \ {c}
    /\ page' = IF c.taken THEN page
               ELSE CASE c.writes = "back" -> [page EXCEPT !.pending = None]
                      [] c.writes \in {"USE", "SAVE"} -> [page EXCEPT !.decision = c.previous]
                      [] OTHER -> page
    /\ past' = IF c.taken THEN past ELSE [past EXCEPT !.refused = @ \cup {c.id}]
    /\ UNCHANGED <<server, started, lost>>

-----------------------------------------------------------------------------
PageInit ==
    /\ server = [round |-> 1, open |-> TRUE, pick |-> [w \in Wallets |-> [r \in Rounds |-> NoPick]]]
    /\ \E wallet \in Wallets :
         page = [round |-> NoRound, backing |-> NoPick, backedBy |-> None, backedIn |-> 0, myWar |-> 0,
                 pending |-> None, proposedBy |-> 0, decision |-> None, decidedBy |-> 0,
                 session |-> 1, wallet |-> wallet]
    /\ calls = {} /\ started = 0 /\ lost = 0
    /\ past = [stored |-> {}, decided |-> {}, refused |-> {}]

PageNext ==
    \/ SignInOrOut \/ OnEvent \/ LockPicks \/ NextRound
    \/ \E b \in Battles : Back(b) \/ ChangePick(b) \/ \E d \in {"USE", "SAVE"} : Decide(b, d)
    \/ \E c \in calls : \/ TakeWrite(c) \/ LoseWrite(c) \/ ReadRound(c) \/ ReadPick(c) \/ LoseRead(c)
                        \/ Written(c) \/ ApplyRound(c) \/ ApplyBacking(c) \/ Settle(c)

PageSpec == PageInit /\ [][PageNext]_pageVars

-----------------------------------------------------------------------------
Quiet == calls = {}

\* "Sends a decision, and keeps the local one only if the server took it"
\* (PickControls.tsx:35), for the side: the proposal on the page is never one
\* the page has been told was refused, however its answer raced the others.
ProposalIsNotRefused ==
    page.pending # None => page.proposedBy \notin past.refused

\* A backing on the page is a pick the server held in the round on the page for
\* the wallet that asked, whichever round the answer that brought it was about
\* (applyMyBacking); and one brought in this session is the signed-in wallet's,
\* however late the answers to the session before it come.
BackingWasStored ==
    page.backing # NoPick =>
        /\ <<page.backedBy, page.round.round, page.backing>> \in past.stored
        /\ page.backedIn = page.session => page.backedBy = page.wallet

\* "The player's confirmed backing, or null if they have not picked"
\* (session.ts:141): the backing on the page is the signed-in wallet's.
BackingIsTheWallets ==
    page.backing # NoPick => page.backedBy = page.wallet

\* "Deployment is a server fact ...: once the round has locked and the engine
\* says the card went in, that is what happened" (pick-flow.ts:117): while a
\* round takes picks, no card of it is shown as deployed.
DeployedMeansLocked ==
    \A b \in Battles : cardStateFor(b) = "DEPLOYED" => ~picksAllowed

\* The same promise for the card: with nothing in flight, the decision on the
\* page is one the server took in that round.
DecisionWasTaken ==
    Quiet /\ page.decision # None =>
        \E wallet \in Wallets : <<wallet, page.round.round, page.decision>> \in past.decided

\* "a poll that is superseded, stops rather than resolving into a store that
\* has moved on" (round-client.ts:74): with nothing in flight and nothing lost,
\* the page shows the pick the server holds.
NewestAnswerStands ==
    Quiet /\ lost = 0 /\ page.session = 1 /\ page.round.round # 0
      => page.backing = server.pick[page.wallet][page.round.round]
=============================================================================
