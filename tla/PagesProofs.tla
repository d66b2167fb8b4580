----------------------------- MODULE PagesProofs -----------------------------
(***************************************************************************)
(* Proofs about what a player's browser shows, however the answers to its  *)
(* requests overtake each other.                                           *)
(***************************************************************************)
EXTENDS PickPage, WorldView, GenesisPage, SequenceTheorems, TLAPS

-----------------------------------------------------------------------------
(* Backing a side.                                                           *)

Backing == [battle : Battles \cup {None}, card : {None, "USE", "SAVE"}]
RoundAnswer == [round : Nat, open : BOOLEAN]

ChainOfAwaits ==
  [id : Nat \ {0}, session : Nat, wallet : Wallets \cup {None}, writes : {None, "back", "withdraw", "USE", "SAVE"},
   battle : Battles \cup {None}, previous : {None, "USE", "SAVE"}, round : Nat,
   stage : {"sent", "written", "ask-round", "round", "ask-pick", "pick", "resynced"},
   taken : BOOLEAN, answer : RoundAnswer, mine : Backing]

PagePicks ==
  [round : RoundAnswer, backing : Backing, backedBy : Wallets \cup {None}, backedIn : Nat,
   myWar : Nat, pending : Battles \cup {None},
   proposedBy : Nat, decision : {None, "USE", "SAVE"}, decidedBy : Nat,
   session : Nat, wallet : Wallets \cup {None}]

PicksOfAll == [Wallets -> [Rounds -> Backing]]

PickPageTypeOK ==
  /\ server \in [round : Rounds, open : BOOLEAN, pick : PicksOfAll]
  /\ page \in PagePicks
  /\ calls \subseteq ChainOfAwaits
  /\ started \in Nat /\ lost \in Nat
  /\ past.refused \subseteq Nat \ {0}
  /\ past = [stored |-> past.stored, decided |-> past.decided, refused |-> past.refused]


\* Chains are numbered as they start, and one that was refused has ended.
ChainsAreNumbered ==
  /\ page.proposedBy <= started
  /\ \A c \in calls : c.id <= started /\ c.id \notin past.refused
  /\ \A n \in past.refused : n <= started
  /\ \A c, d \in calls : c.id = d.id => c = d

\* Only a chain that backs a side can be the one behind the proposal.
ProposalIsABacking == \A c \in calls : c.id = page.proposedBy => c.writes = "back"

\* What the server holds was stored, and so was what a chain has read of it.
PicksWereStored ==
  \A w \in Wallets, r \in Rounds :
    server.pick[w][r] # NoPick => <<w, r, server.pick[w][r]>> \in past.stored

AnswersWereStored ==
  \A c \in calls :
    /\ c.stage \in {"ask-pick", "pick"} => c.answer.round \in Rounds
    /\ c.stage = "round" => c.answer.round \in Rounds
    /\ c.stage = "pick" /\ c.mine # NoPick => <<c.wallet, c.answer.round, c.mine>> \in past.stored

\* Sessions are numbered as they begin, and each is of one wallet; a chain that
\* writes, or asks for a pick, has one.
SessionsAreWallets ==
  /\ page.session # 0 /\ page.backedIn <= page.session
  /\ \A c \in calls :
       /\ c.session <= page.session
       /\ c.session = page.session => c.wallet = page.wallet
       /\ c.stage \in {"sent", "ask-pick", "pick"} => c.wallet # None

PickPageInv ==
  /\ PickPageTypeOK /\ ChainsAreNumbered /\ ProposalIsABacking /\ SessionsAreWallets
  /\ PicksWereStored /\ AnswersWereStored
  /\ ProposalIsNotRefused /\ BackingWasStored

LEMMA PickPageStarts == ASSUME PageInit PROVE PickPageInv
PROOF
<1> USE PickPageAssumption DEF PageInit
<1>1. 1 \in Rounds /\ NoPick \in Backing /\ NoRound \in RoundAnswer
  BY DEF Rounds, NoPick, Backing, NoRound, RoundAnswer
<1>2. PickPageTypeOK
  <2>1. page \in PagePicks
    BY <1>1 DEF PagePicks
  <2>2. server.pick \in PicksOfAll
    BY <1>1 DEF PicksOfAll
  <2>3. QED
    BY <1>1, <2>1, <2>2 DEF PickPageTypeOK
<1> QED
  BY <1>1, <1>2 DEF PickPageInv, ChainsAreNumbered, ProposalIsABacking, SessionsAreWallets,
     PicksWereStored, AnswersWereStored, ProposalIsNotRefused, BackingWasStored

\* The page belongs to the session it did.
SameSession == page'.session = page.session /\ page'.wallet = page.wallet

\* A chain that moves on keeps its number, its session and what it writes.
SameChain(c, d) ==
  /\ d.id = c.id /\ d.writes = c.writes /\ d.session = c.session /\ d.wallet = c.wallet
  /\ d.stage \in {"sent", "ask-pick", "pick"} => c.wallet # None

LEMMA ChainMovesOn ==
  ASSUME PickPageInv, NEW c \in calls, NEW d \in ChainOfAwaits, Advance(c, d),
         SameChain(c, d), SameSession, page'.backedIn \in {page.backedIn, 0, c.session},
         started' = started, past'.refused = past.refused,
         page'.proposedBy = page.proposedBy
  PROVE  /\ ChainsAreNumbered' /\ ProposalIsABacking' /\ SessionsAreWallets'
         /\ calls' \subseteq ChainOfAwaits
<1>1. calls' = (calls \ {c}) \cup {d} /\ calls \subseteq ChainOfAwaits
  BY DEF Advance, PickPageInv, PickPageTypeOK
<1>2. ChainsAreNumbered'
  BY <1>1 DEF PickPageInv, ChainsAreNumbered, SameChain
<1>3. ProposalIsABacking'
  BY <1>1 DEF PickPageInv, ProposalIsABacking, SameChain
<1>4. SessionsAreWallets'
  <2>1. page.session \in Nat /\ page.backedIn \in Nat
    BY DEF PickPageInv, PickPageTypeOK, PagePicks
  <2>2. QED
    BY <1>1, <2>1 DEF PickPageInv, SessionsAreWallets, SameChain, SameSession
<1> QED
  BY <1>1, <1>2, <1>3, <1>4

\* A chain that starts has a number of its own.
LEMMA ChainStarts ==
  ASSUME PickPageInv, NEW chain \in ChainOfAwaits, Start(chain),
         chain.id = started + 1, chain.stage \in {"sent", "ask-round"},
         past' = past, page'.proposedBy \in {page.proposedBy, 0, started + 1},
         page'.proposedBy = started + 1 => chain.writes = "back",
         SameSession, page'.backedIn = page.backedIn,
         chain.session = page.session, chain.wallet = page.wallet, chain.stage = "sent" => WithGateway
  PROVE  /\ ChainsAreNumbered' /\ ProposalIsABacking' /\ AnswersWereStored' /\ SessionsAreWallets'
         /\ calls' \subseteq ChainOfAwaits /\ started' \in Nat
<1>1. calls' = calls \cup {chain} /\ started' = started + 1 /\ started \in Nat
      /\ calls \subseteq ChainOfAwaits /\ past.refused \subseteq Nat
      /\ page.proposedBy \in Nat
  BY DEF Start, PickPageInv, PickPageTypeOK, PagePicks
<1>2. \A c \in calls : c.id \in Nat /\ c.id <= started /\ c.id \notin past.refused
  BY <1>1 DEF PickPageInv, ChainsAreNumbered, ChainOfAwaits
<1>3. \A n \in past.refused : n <= started /\ n \in Nat
  BY <1>1 DEF PickPageInv, ChainsAreNumbered
<1>4. \A c, d \in calls' : c.id = d.id => c = d
  BY <1>1, <1>2 DEF PickPageInv, ChainsAreNumbered
<1>5. page.proposedBy <= started
  BY DEF PickPageInv, ChainsAreNumbered
<1>6. ChainsAreNumbered'
  BY <1>1, <1>2, <1>3, <1>4, <1>5 DEF ChainsAreNumbered
<1>7. ProposalIsABacking'
  <2> SUFFICES ASSUME NEW c \in calls', c.id = page'.proposedBy PROVE c.writes = "back"
    BY DEF ProposalIsABacking
  <2>1. CASE c = chain
    BY <1>1, <1>5, <2>1
  <2>2. CASE c \in calls
    <3>1. c.id <= started /\ c.id \in Nat \ {0}
      BY <1>1, <1>2, <2>2 DEF ChainOfAwaits
    <3>2. page'.proposedBy = page.proposedBy
      BY <1>1, <3>1
    <3>3. QED
      BY <2>2, <3>2 DEF PickPageInv, ProposalIsABacking
  <2>3. QED
    BY <1>1, <2>1, <2>2
<1>8. AnswersWereStored'
  BY <1>1 DEF PickPageInv, AnswersWereStored
<1>9. SessionsAreWallets'
  <2>1. page.session \in Nat
    BY DEF PickPageInv, PickPageTypeOK, PagePicks
  <2>2. QED
    BY <1>1, <2>1 DEF PickPageInv, SessionsAreWallets, SameSession, WithGateway
<1> QED
  BY <1>1, <1>6, <1>7, <1>8, <1>9

\* What the page shows of the picks stays, and so does whose page it is.
BackingStays ==
  /\ SameSession
  /\ page'.round = page.round /\ page'.backing = page.backing
  /\ page'.backedBy = page.backedBy /\ page'.backedIn = page.backedIn

LEMMA BackStep ==
  ASSUME PickPageInv, NEW b \in Battles, Back(b)
  PROVE  PickPageInv'
<1>1. /\ page' = [page EXCEPT !.pending = b, !.proposedBy = IF WithGateway THEN started + 1 ELSE 0]
      /\ server' = server /\ lost' = lost /\ past' = past
  BY DEF Back
<1>2. PickPageTypeOK
  BY DEF PickPageInv
<1>3. /\ page'.pending = b /\ page'.proposedBy = (IF WithGateway THEN started + 1 ELSE 0)
      /\ BackingStays
  BY <1>1, <1>2 DEF PickPageTypeOK, PagePicks, BackingStays, SameSession
<1>4. page' \in PagePicks
  <2>1. (IF WithGateway THEN started + 1 ELSE 0) \in Nat
    BY <1>2 DEF PickPageTypeOK
  <2>2. QED
    BY <1>1, <1>2, <2>1 DEF PickPageTypeOK, PagePicks
<1>5. /\ ChainsAreNumbered' /\ ProposalIsABacking' /\ AnswersWereStored' /\ SessionsAreWallets'
      /\ calls' \subseteq ChainOfAwaits /\ started' \in Nat
  <2>1. CASE WithGateway
    <3>1. PICK chain : chain = Chain("back", b, None)
      OBVIOUS
    <3>2. /\ chain \in ChainOfAwaits /\ chain.id = started + 1 /\ chain.writes = "back"
          /\ chain.stage \in {"sent", "ask-round"}
          /\ chain.session = page.session /\ chain.wallet = page.wallet
      BY <1>2, <3>1 DEF Chain, ChainOfAwaits, PickPageTypeOK, PagePicks, NoRound, NoPick, Backing, RoundAnswer, None
    <3>3. QED
      BY <1>1, <1>3, <2>1, <3>1, <3>2, ChainStarts DEF Back, BackingStays
  <2>2. CASE ~WithGateway
    BY <1>1, <1>2, <1>3, <2>2
       DEF Back, PickPageInv, PickPageTypeOK, ChainsAreNumbered, ProposalIsABacking,
           AnswersWereStored, SessionsAreWallets, ChainOfAwaits, BackingStays, SameSession
  <2>3. QED
    BY <2>1, <2>2
<1>6. ProposalIsNotRefused'
  BY <1>1, <1>2, <1>3 DEF PickPageInv, PickPageTypeOK, ChainsAreNumbered, ProposalIsNotRefused
<1> QED
  BY <1>1, <1>2, <1>3, <1>4, <1>5, <1>6
     DEF PickPageInv, PickPageTypeOK, PicksWereStored, BackingWasStored, BackingStays, SameSession

LEMMA DecideStep ==
  ASSUME PickPageInv, NEW b \in Battles, NEW decision \in {"USE", "SAVE"}, Decide(b, decision)
  PROVE  PickPageInv'
<1>1. /\ page' = [page EXCEPT !.decision = decision,
                              !.decidedBy = IF WithGateway THEN started + 1 ELSE 0]
      /\ server' = server /\ lost' = lost /\ past' = past
  BY DEF Decide
<1>2. PickPageTypeOK
  BY DEF PickPageInv
<1>3. /\ page'.pending = page.pending /\ page'.proposedBy = page.proposedBy
      /\ BackingStays
  BY <1>1, <1>2 DEF PickPageTypeOK, PagePicks, BackingStays, SameSession
<1>4. page' \in PagePicks
  <2>1. (IF WithGateway THEN started + 1 ELSE 0) \in Nat
    BY <1>2 DEF PickPageTypeOK
  <2>2. QED
    BY <1>1, <1>2, <2>1 DEF PickPageTypeOK, PagePicks
<1>5. /\ ChainsAreNumbered' /\ ProposalIsABacking' /\ AnswersWereStored' /\ SessionsAreWallets'
      /\ calls' \subseteq ChainOfAwaits /\ started' \in Nat
  <2>1. CASE WithGateway
    <3>1. PICK chain : chain = Chain(decision, b, page.decision)
      OBVIOUS
    <3>2. /\ chain \in ChainOfAwaits /\ chain.id = started + 1
          /\ chain.stage \in {"sent", "ask-round"}
          /\ chain.session = page.session /\ chain.wallet = page.wallet
      BY <1>2, <3>1
         DEF Chain, ChainOfAwaits, PickPageTypeOK, PagePicks, NoRound, NoPick, Backing,
             RoundAnswer, None
    <3>3. page.proposedBy # started + 1
      BY <1>2 DEF PickPageInv, ChainsAreNumbered, PickPageTypeOK, PagePicks
    <3>4. QED
      BY <1>1, <1>3, <2>1, <3>1, <3>2, <3>3, ChainStarts DEF Decide, BackingStays
  <2>2. CASE ~WithGateway
    BY <1>1, <1>2, <1>3, <2>2
       DEF Decide, PickPageInv, PickPageTypeOK, ChainsAreNumbered, ProposalIsABacking,
           AnswersWereStored, SessionsAreWallets, ChainOfAwaits, BackingStays, SameSession
  <2>3. QED
    BY <2>1, <2>2
<1> QED
  BY <1>1, <1>2, <1>3, <1>4, <1>5
     DEF PickPageInv, PickPageTypeOK, PicksWereStored, BackingWasStored, ProposalIsNotRefused,
         BackingStays, SameSession

LEMMA ChangePickStep ==
  ASSUME PickPageInv, NEW b \in Battles, ChangePick(b)
  PROVE  PickPageInv'
<1>1. /\ page' = [page EXCEPT !.pending = None, !.decision = None]
      /\ server' = server /\ lost' = lost /\ past' = past
  BY DEF ChangePick
<1>2. PickPageTypeOK
  BY DEF PickPageInv
<1>3. /\ page'.pending = None /\ page'.proposedBy = page.proposedBy
      /\ BackingStays /\ page' \in PagePicks
  BY <1>1, <1>2 DEF PickPageTypeOK, PagePicks, BackingStays, SameSession
<1>4. /\ ChainsAreNumbered' /\ ProposalIsABacking' /\ AnswersWereStored' /\ SessionsAreWallets'
      /\ calls' \subseteq ChainOfAwaits /\ started' \in Nat
  <2>1. CASE WithGateway
    <3>1. PICK chain : chain = Chain("withdraw", b, None)
      OBVIOUS
    <3>2. /\ chain \in ChainOfAwaits /\ chain.id = started + 1
          /\ chain.stage \in {"sent", "ask-round"}
          /\ chain.session = page.session /\ chain.wallet = page.wallet
      BY <1>2, <3>1
         DEF Chain, ChainOfAwaits, PickPageTypeOK, PagePicks, NoRound, NoPick, Backing,
             RoundAnswer, None
    <3>3. page.proposedBy # started + 1
      BY <1>2 DEF PickPageInv, ChainsAreNumbered, PickPageTypeOK, PagePicks
    <3>4. QED
      BY <1>1, <1>3, <2>1, <3>1, <3>2, <3>3, ChainStarts DEF ChangePick, BackingStays
  <2>2. CASE ~WithGateway
    BY <1>1, <1>2, <1>3, <2>2
       DEF ChangePick, PickPageInv, PickPageTypeOK, ChainsAreNumbered, ProposalIsABacking,
           AnswersWereStored, SessionsAreWallets, ChainOfAwaits, BackingStays, SameSession
  <2>3. QED
    BY <2>1, <2>2
<1> QED
  BY <1>1, <1>2, <1>3, <1>4
     DEF PickPageInv, PickPageTypeOK, PicksWereStored, BackingWasStored, ProposalIsNotRefused,
         BackingStays, SameSession

LEMMA OnEventStep ==
  ASSUME PickPageInv, OnEvent
  PROVE  PickPageInv'
<1>1. server' = server /\ page' = page /\ lost' = lost /\ past' = past
  BY DEF OnEvent
<1>2. PickPageTypeOK
  BY DEF PickPageInv
<1>3. PICK chain : chain = Chain(None, None, None)
  OBVIOUS
<1>4. /\ chain \in ChainOfAwaits /\ chain.id = started + 1
      /\ chain.stage = "ask-round"
      /\ chain.session = page.session /\ chain.wallet = page.wallet
  BY <1>2, <1>3
     DEF Chain, ChainOfAwaits, PickPageTypeOK, PagePicks, NoRound, NoPick, Backing,
         RoundAnswer, None
<1>5. page.proposedBy # started + 1
  BY <1>2 DEF PickPageInv, ChainsAreNumbered, PickPageTypeOK, PagePicks
<1>6. /\ ChainsAreNumbered' /\ ProposalIsABacking' /\ AnswersWereStored' /\ SessionsAreWallets'
      /\ calls' \subseteq ChainOfAwaits /\ started' \in Nat
  BY <1>1, <1>3, <1>4, <1>5, ChainStarts DEF OnEvent, SameSession
<1> QED
  BY <1>1, <1>2, <1>6
     DEF PickPageInv, PickPageTypeOK, PicksWereStored, BackingWasStored, ProposalIsNotRefused

\* The player signing in or out, and the round moving on, leave the chains alone.
LEMMA AroundTheChains ==
  ASSUME PickPageInv, SignInOrOut \/ LockPicks \/ NextRound
  PROVE  PickPageInv'
<1>1. /\ calls' = calls /\ started' = started /\ lost' = lost /\ past' = past
      /\ page'.round = page.round /\ page'.backing = page.backing
      /\ page'.backedBy = page.backedBy /\ page'.backedIn = page.backedIn
      /\ page'.pending = page.pending /\ page'.proposedBy = page.proposedBy
      /\ server'.pick = server.pick
  BY DEF SignInOrOut, LockPicks, NextRound, PickPageInv, PickPageTypeOK, PagePicks
<1>2. page' \in PagePicks
  <2>1. CASE SignInOrOut
    <3>1. page.session + 1 \in Nat
      BY DEF PickPageInv, PickPageTypeOK, PagePicks
    <3>2. QED
      BY <2>1, <3>1 DEF SignInOrOut, PickPageInv, PickPageTypeOK, PagePicks
  <2>2. CASE LockPicks \/ NextRound
    BY <2>2 DEF LockPicks, NextRound, PickPageInv, PickPageTypeOK
  <2>3. QED
    BY <2>1, <2>2
<1>3. server' \in [round : Rounds, open : BOOLEAN, pick : PicksOfAll]
  <2>1. CASE NextRound
    <3>1. server.round + 1 \in Rounds
      BY <2>1, PickPageAssumption DEF NextRound, PickPageInv, PickPageTypeOK, Rounds
    <3>2. QED
      BY <2>1, <3>1 DEF NextRound, PickPageInv, PickPageTypeOK
  <2>2. CASE SignInOrOut \/ LockPicks
    BY <2>2 DEF SignInOrOut, LockPicks, PickPageInv, PickPageTypeOK
  <2>3. QED
    BY <2>1, <2>2
<1>4. SessionsAreWallets' /\ BackingWasStored'
  <2>1. /\ page.session \in Nat /\ page.backedIn \in Nat
        /\ \A c \in calls : c.session \in Nat
    BY DEF PickPageInv, PickPageTypeOK, PagePicks, ChainOfAwaits
  <2>2. CASE SignInOrOut
    <3>1. page'.session = page.session + 1
      BY <2>2 DEF SignInOrOut, PickPageInv, PickPageTypeOK, PagePicks
    <3>2. \A c \in calls : c.session <= page.session
      BY DEF PickPageInv, SessionsAreWallets
    <3>3. page.backedIn <= page.session
      BY DEF PickPageInv, SessionsAreWallets
    <3>4. page.backedIn # page'.session /\ \A c \in calls : c.session <= page'.session /\ c.session # page'.session
      BY <2>1, <3>1, <3>2, <3>3
    <3>5. page'.session # 0 /\ page.backedIn <= page'.session
      BY <2>1, <3>1, <3>3
    <3>6. QED
      BY <1>1, <3>4, <3>5 DEF PickPageInv, SessionsAreWallets, BackingWasStored
  <2>3. CASE LockPicks \/ NextRound
    <3>1. page' = page
      BY <2>3 DEF LockPicks, NextRound
    <3>2. QED
      BY <1>1, <3>1 DEF PickPageInv, SessionsAreWallets, BackingWasStored
  <2>4. QED
    BY <2>2, <2>3
<1> QED
  BY <1>1, <1>2, <1>3, <1>4
     DEF PickPageInv, PickPageTypeOK, ChainsAreNumbered, ProposalIsABacking,
         AnswersWereStored, PicksWereStored, ProposalIsNotRefused

\* An answer on its way: neither the page nor the server's picks change.
LEMMA AnswerTravels ==
  ASSUME PickPageInv, NEW c \in calls,
         LoseWrite(c) \/ ReadRound(c) \/ ReadPick(c) \/ LoseRead(c) \/ Written(c)
  PROVE  PickPageInv'
<1>1. /\ server' = server /\ page' = page /\ started' = started /\ past' = past
      /\ lost' \in Nat
  BY DEF LoseWrite, ReadRound, ReadPick, LoseRead, Written, PickPageInv, PickPageTypeOK
<1>2. c \in ChainOfAwaits /\ PickPageTypeOK
  BY DEF PickPageInv, PickPageTypeOK
<1>3. PICK d \in ChainOfAwaits :
        /\ Advance(c, d) /\ SameChain(c, d)
        /\ d.stage \in {"round", "ask-pick", "pick"} => d.answer.round \in Rounds
        /\ d.stage = "pick" /\ d.mine # NoPick => <<d.wallet, d.answer.round, d.mine>> \in past.stored
  <2>1. CASE LoseWrite(c)
    <3>1. PICK d : d = [c EXCEPT !.stage = "written", !.taken = FALSE]
      OBVIOUS
    <3>2. d \in ChainOfAwaits /\ SameChain(c, d) /\ d.stage = "written"
      BY <1>2, <3>1 DEF ChainOfAwaits, SameChain
    <3>3. QED
      BY <2>1, <3>1, <3>2 DEF LoseWrite
  <2>2. CASE ReadRound(c)
    <3>1. [round |-> server.round, open |-> server.open] \in RoundAnswer
          /\ server.round \in Rounds
      BY <1>2 DEF PickPageTypeOK, Rounds, RoundAnswer
    <3>2. PICK d : d = [c EXCEPT !.stage = "round",
                          !.answer = [round |-> server.round, open |-> server.open]]
      OBVIOUS
    <3>3. /\ d \in ChainOfAwaits /\ SameChain(c, d)
          /\ d.stage = "round" /\ d.answer.round = server.round
      BY <1>2, <3>1, <3>2 DEF ChainOfAwaits, SameChain
    <3>4. QED
      BY <2>2, <3>1, <3>2, <3>3 DEF ReadRound
  <2>3. CASE ReadPick(c)
    <3>1. PICK w, o, pick : w = c.wallet /\ o = c.answer.round /\ pick = server.pick[w][o]
      OBVIOUS
    <3>2. o \in Rounds /\ w # None
      BY <2>3, <3>1 DEF ReadPick, PickPageInv, AnswersWereStored, SessionsAreWallets
    <3>3. w \in Wallets
      BY <1>2, <3>1, <3>2 DEF ChainOfAwaits
    <3>4. pick \in Backing
      BY <1>2, <3>1, <3>2, <3>3 DEF PickPageTypeOK, PicksOfAll
    <3>5. pick # NoPick => <<w, o, pick>> \in past.stored
      BY <3>1, <3>2, <3>3 DEF PickPageInv, PicksWereStored
    <3>6. PICK d : d = [c EXCEPT !.stage = "pick", !.mine = pick]
      OBVIOUS
    <3>7. /\ d \in ChainOfAwaits /\ SameChain(c, d) /\ d.wallet = w /\ d.answer.round = o /\ d.mine = pick
      BY <1>2, <3>1, <3>2, <3>4, <3>6 DEF ChainOfAwaits, SameChain
    <3>8. Advance(c, d)
      BY <2>3, <3>1, <3>6 DEF ReadPick
    <3>9. QED
      BY <3>2, <3>5, <3>7, <3>8
  <2>4. CASE LoseRead(c)
    <3>1. PICK d : d = [c EXCEPT !.stage = "resynced"]
      OBVIOUS
    <3>2. d \in ChainOfAwaits /\ SameChain(c, d) /\ d.stage = "resynced"
      BY <1>2, <3>1 DEF ChainOfAwaits, SameChain
    <3>3. QED
      BY <2>4, <3>1, <3>2 DEF LoseRead
  <2>5. CASE Written(c)
    <3>1. PICK d : d = [c EXCEPT !.stage = "ask-round"]
      OBVIOUS
    <3>2. d \in ChainOfAwaits /\ SameChain(c, d) /\ d.stage = "ask-round"
      BY <1>2, <3>1 DEF ChainOfAwaits, SameChain
    <3>3. QED
      BY <2>5, <3>1, <3>2 DEF Written
  <2>6. QED
    BY <2>1, <2>2, <2>3, <2>4, <2>5
<1>4. ChainsAreNumbered' /\ ProposalIsABacking' /\ SessionsAreWallets' /\ calls' \subseteq ChainOfAwaits
  BY <1>1, <1>3, ChainMovesOn DEF SameSession
<1>5. AnswersWereStored'
  BY <1>1, <1>3 DEF Advance, PickPageInv, AnswersWereStored
<1> QED
  BY <1>1, <1>2, <1>4, <1>5
     DEF PickPageInv, PickPageTypeOK, PicksWereStored, BackingWasStored, ProposalIsNotRefused

LEMMA TakeWriteStep ==
  ASSUME PickPageInv, NEW c \in calls, TakeWrite(c)
  PROVE  PickPageInv'
<1>1. /\ page' = page /\ started' = started /\ lost' = lost
      /\ c \in ChainOfAwaits /\ PickPageTypeOK
  BY DEF TakeWrite, PickPageInv, PickPageTypeOK
<1>2. PICK d : d = [c EXCEPT !.stage = "written", !.taken = Takes(c)]
  OBVIOUS
<1>3. Takes(c) \in BOOLEAN
  BY DEF Takes
<1>4. /\ d \in ChainOfAwaits /\ SameChain(c, d) /\ d.stage = "written"
      /\ Advance(c, d)
  BY <1>1, <1>2, <1>3 DEF TakeWrite, ChainOfAwaits, SameChain
<1>5. /\ past'.refused = past.refused /\ past.stored \subseteq past'.stored
      /\ past' = [stored |-> past'.stored, decided |-> past'.decided, refused |-> past'.refused]
  BY <1>1 DEF TakeWrite, PickPageTypeOK
<1>6. ChainsAreNumbered' /\ ProposalIsABacking' /\ SessionsAreWallets' /\ calls' \subseteq ChainOfAwaits
  BY <1>1, <1>4, <1>5, ChainMovesOn DEF SameSession
<1>7. /\ server' \in [round : Rounds, open : BOOLEAN, pick : PicksOfAll]
      /\ PicksWereStored'
  <2>1. CASE ~Takes(c)
    BY <1>1, <2>1 DEF TakeWrite, PickPageInv, PickPageTypeOK, PicksWereStored
  <2>2. CASE Takes(c)
    <3>1. PICK w, o, pick : w = c.wallet /\ o = c.round /\ pick = PickAfter(c)
      OBVIOUS
    <3>2. o \in Rounds /\ w \in Wallets
      BY <1>1, <2>2, <3>1 DEF Takes, TakeWrite, PickPageInv, PickPageTypeOK, SessionsAreWallets, ChainOfAwaits
    <3>3. pick \in Backing
      <4>1. PICK before : before = server.pick[w][o] /\ before \in Backing
        BY <1>1, <3>2 DEF PickPageTypeOK, PicksOfAll
      <4>2. CASE c.writes \in {"back", "withdraw"}
        BY <1>1, <3>1, <4>2 DEF PickAfter, NoPick, Backing, ChainOfAwaits
      <4>3. CASE c.writes \notin {"back", "withdraw"}
        <5>1. c.writes \in {None, "USE", "SAVE"}
          BY <1>1, <4>3 DEF ChainOfAwaits
        <5>2. [before EXCEPT !.card = c.writes] \in Backing
          BY <4>1, <5>1 DEF Backing
        <5>3. QED
          BY <3>1, <4>1, <4>3, <5>2 DEF PickAfter
      <4>4. QED
        BY <4>2, <4>3
    <3>4. server' = [server EXCEPT !.pick[w][o] = pick]
          /\ past' = [past EXCEPT !.stored = @ \cup {<<w, o, pick>>},
                                  !.decided = @ \cup {<<w, o, c.writes>>}]
      BY <2>2, <3>1 DEF TakeWrite
    <3>5. PICK picks : picks = server.pick /\ picks \in PicksOfAll
      BY <1>1 DEF PickPageTypeOK
    <3>6. PICK after : after = [picks EXCEPT ![w][o] = pick]
      OBVIOUS
    <3>7. after \in PicksOfAll
      BY <3>2, <3>3, <3>5, <3>6 DEF PicksOfAll
    <3>8. server' = [server EXCEPT !.pick = after]
      BY <1>1, <3>4, <3>5, <3>6 DEF PickPageTypeOK
    <3>9. /\ server' \in [round : Rounds, open : BOOLEAN, pick : PicksOfAll]
          /\ server'.pick = after
      BY <1>1, <3>7, <3>8 DEF PickPageTypeOK
    <3>10. past'.stored = past.stored \cup {<<w, o, pick>>}
      BY <1>1, <3>4 DEF PickPageTypeOK
    <3>11. PicksWereStored'
      <4>1. \A v \in Wallets, q \in Rounds :
              after[v][q] = (IF v = w /\ q = o THEN pick ELSE picks[v][q])
        BY <3>2, <3>5, <3>6 DEF PicksOfAll
      <4>2. \A v \in Wallets, q \in Rounds : picks[v][q] # NoPick => <<v, q, picks[v][q]>> \in past.stored
        BY <3>5 DEF PickPageInv, PicksWereStored
      <4>3. QED
        BY <3>9, <3>10, <4>1, <4>2 DEF PicksWereStored
    <3>12. QED
      BY <3>9, <3>11
  <2>3. QED
    BY <2>1, <2>2
<1>8. AnswersWereStored'
  BY <1>4, <1>5 DEF Advance, PickPageInv, AnswersWereStored, SameChain
<1> QED
  BY <1>1, <1>5, <1>6, <1>7, <1>8
     DEF PickPageInv, PickPageTypeOK, BackingWasStored, ProposalIsNotRefused

LEMMA ApplyRoundStep ==
  ASSUME PickPageInv, NEW c \in calls, ApplyRound(c)
  PROVE  PickPageInv'
<1>1. /\ server' = server /\ started' = started /\ lost' = lost /\ past' = past
      /\ c \in ChainOfAwaits /\ PickPageTypeOK /\ c.stage = "round"
      /\ c.answer \in RoundAnswer /\ c.answer.round \in Rounds
  BY DEF ApplyRound, PickPageInv, PickPageTypeOK, AnswersWereStored, ChainOfAwaits
<1>2. PICK d \in ChainOfAwaits :
        /\ Advance(c, d) /\ SameChain(c, d) /\ d.answer = c.answer
        /\ d.stage \in {"resynced", "ask-pick"}
  <2>1. PICK stage \in {"resynced", "ask-pick"} :
          /\ Advance(c, [c EXCEPT !.stage = stage])
          /\ stage = "ask-pick" => ~Disposed(c) /\ WithGateway
    BY DEF ApplyRound
  <2>2. PICK d : d = [c EXCEPT !.stage = stage]
    OBVIOUS
  <2>3. stage = "ask-pick" => c.wallet # None
    BY <2>1 DEF Disposed, WithGateway, PickPageInv, SessionsAreWallets
  <2>4. /\ d \in ChainOfAwaits /\ SameChain(c, d) /\ d.answer = c.answer /\ d.stage = stage
    BY <1>1, <2>2, <2>3 DEF ChainOfAwaits, SameChain
  <2>5. QED
    BY <2>1, <2>2, <2>4
<1>3. /\ page' \in PagePicks /\ page'.proposedBy = page.proposedBy
      /\ page'.pending \in {page.pending, None}
      /\ SameSession /\ page'.backedIn \in {page.backedIn, 0}
      /\ BackingStays \/ page'.backing = NoPick
  <2>1. CASE Disposed(c)
    BY <1>1, <2>1 DEF ApplyRound, PickPageTypeOK, BackingStays, SameSession
  <2>2. CASE ~Disposed(c)
    <3>1. page' = SetRoundAndBattles(c.answer)
      BY <2>2 DEF ApplyRound
    <3>2. NoPick \in Backing
      BY DEF NoPick, Backing
    <3>3. QED
      BY <1>1, <3>1, <3>2 DEF SetRoundAndBattles, PickPageTypeOK, PagePicks, SameSession
  <2>3. QED
    BY <2>1, <2>2
<1>4. ChainsAreNumbered' /\ ProposalIsABacking' /\ SessionsAreWallets' /\ calls' \subseteq ChainOfAwaits
  BY <1>1, <1>2, <1>3, ChainMovesOn
<1>5. AnswersWereStored'
  BY <1>1, <1>2 DEF Advance, PickPageInv, AnswersWereStored
<1> QED
  BY <1>1, <1>3, <1>4, <1>5
     DEF PickPageInv, PickPageTypeOK, PicksWereStored, BackingWasStored, ProposalIsNotRefused,
         BackingStays, SameSession

LEMMA ApplyBackingStep ==
  ASSUME PickPageInv, NEW c \in calls, ApplyBacking(c)
  PROVE  PickPageInv'
<1>1. /\ server' = server /\ started' = started /\ lost' = lost /\ past' = past
      /\ c \in ChainOfAwaits /\ PickPageTypeOK /\ c.stage = "pick"
      /\ c.mine \in Backing /\ c.answer.round \in Nat
  BY DEF ApplyBacking, PickPageInv, PickPageTypeOK, ChainOfAwaits, RoundAnswer
<1>2. PICK d : d = [c EXCEPT !.stage = "resynced"]
  OBVIOUS
<1>3. d \in ChainOfAwaits /\ Advance(c, d) /\ SameChain(c, d) /\ d.stage = "resynced"
  BY <1>1, <1>2 DEF ApplyBacking, ChainOfAwaits, SameChain
<1>4. /\ page' \in PagePicks /\ page'.proposedBy = page.proposedBy
      /\ page'.pending = page.pending /\ page'.round = page.round /\ SameSession
      /\ page'.backedIn \in {page.backedIn, 0, c.session}
      /\ \/ BackingStays \/ page'.backing = NoPick
         \/ /\ page'.backing = c.mine /\ c.answer.round = page.round.round
            /\ page'.backedBy = c.wallet /\ page'.backedIn = c.session /\ c.session = page.session
  <2>1. CASE Disposed(c)
    BY <1>1, <2>1 DEF ApplyBacking, PickPageTypeOK, BackingStays, SameSession
  <2>2. CASE ~Disposed(c)
    <3>1. PICK pick \in {c.mine, NoPick} :
            /\ page' = Backs(c, pick)
            /\ pick # NoPick => pick = c.mine /\ c.answer.round = page.round.round
      BY <2>2 DEF ApplyBacking
    <3>2. pick \in Backing /\ c.wallet \in Wallets \cup {None} /\ c.session \in Nat
      BY <1>1, <3>1 DEF NoPick, Backing, ChainOfAwaits
    <3>3. c.session = page.session
      BY <2>2 DEF Disposed
    <3>4. PICK war, by, in : /\ war = (IF c.mine = NoPick THEN 0 ELSE c.answer.round)
                             /\ by = (IF pick = NoPick THEN None ELSE c.wallet)
                             /\ in = (IF pick = NoPick THEN 0 ELSE c.session)
      OBVIOUS
    <3>5. war \in Nat /\ by \in Wallets \cup {None} /\ in \in Nat
      BY <1>1, <3>2, <3>4
    <3>6. page' = [page EXCEPT !.backing = pick, !.myWar = war, !.backedBy = by, !.backedIn = in]
      BY <3>1, <3>4 DEF Backs
    <3>7. page \in PagePicks
      BY <1>1 DEF PickPageTypeOK
    <3>8. /\ page' \in PagePicks /\ page'.proposedBy = page.proposedBy /\ page'.pending = page.pending
          /\ page'.round = page.round /\ page'.session = page.session /\ page'.wallet = page.wallet
          /\ page'.backing = pick /\ page'.backedBy = by /\ page'.backedIn = in
      BY <3>2, <3>5, <3>6, <3>7 DEF PagePicks
    <3>9. QED
      BY <3>1, <3>3, <3>4, <3>8 DEF SameSession
  <2>3. QED
    BY <2>1, <2>2
<1>5. ChainsAreNumbered' /\ ProposalIsABacking' /\ SessionsAreWallets' /\ calls' \subseteq ChainOfAwaits
  BY <1>1, <1>3, <1>4, ChainMovesOn
<1>6. AnswersWereStored'
  BY <1>1, <1>3 DEF Advance, PickPageInv, AnswersWereStored
<1>7. BackingWasStored'
  BY <1>1, <1>4 DEF PickPageInv, AnswersWereStored, SessionsAreWallets, BackingWasStored, BackingStays, SameSession
<1> QED
  BY <1>1, <1>4, <1>5, <1>6, <1>7
     DEF PickPageInv, PickPageTypeOK, PicksWereStored, ProposalIsNotRefused

\* A refused chain takes its own proposal with it, and no other chain of its number is left.
LEMMA SettleStep ==
  ASSUME PickPageInv, NEW c \in calls, Settle(c)
  PROVE  PickPageInv'
<1>1. /\ server' = server /\ started' = started /\ lost' = lost
      /\ calls' = calls \ {c} /\ c \in ChainOfAwaits /\ PickPageTypeOK
      /\ c.id \in Nat \ {0} /\ c.id <= started
  BY DEF Settle, PickPageInv, PickPageTypeOK, ChainsAreNumbered, ChainOfAwaits
<1>2. /\ page' \in PagePicks /\ page'.proposedBy = page.proposedBy
      /\ BackingStays /\ page'.pending \in {page.pending, None}
      /\ ~c.taken /\ c.writes = "back" => page'.pending = None
  BY <1>1 DEF Settle, PickPageTypeOK, PagePicks, ChainOfAwaits, BackingStays, SameSession
<1>3. /\ past'.stored = past.stored
      /\ past'.refused = past.refused \cup (IF c.taken THEN {} ELSE {c.id})
      /\ past' = [stored |-> past'.stored, decided |-> past'.decided, refused |-> past'.refused]
  BY <1>1 DEF Settle, PickPageTypeOK
<1>4. ChainsAreNumbered'
  BY <1>1, <1>2, <1>3 DEF PickPageInv, ChainsAreNumbered
<1>5. ProposalIsABacking' /\ AnswersWereStored' /\ SessionsAreWallets'
  BY <1>1, <1>2, <1>3
     DEF PickPageInv, ProposalIsABacking, AnswersWereStored, SessionsAreWallets, BackingStays, SameSession
<1>6. ProposalIsNotRefused'
  BY <1>1, <1>2, <1>3 DEF PickPageInv, ProposalIsABacking, ProposalIsNotRefused
<1> QED
  BY <1>1, <1>2, <1>3, <1>4, <1>5, <1>6
     DEF PickPageInv, PickPageTypeOK, PicksWereStored, BackingWasStored, BackingStays, SameSession

LEMMA PickPageStep == ASSUME PickPageInv, PageNext PROVE PickPageInv'
BY BackStep, DecideStep, ChangePickStep, OnEventStep, AroundTheChains, AnswerTravels,
   TakeWriteStep, ApplyRoundStep, ApplyBackingStep, SettleStep DEF PageNext

LEMMA PickPageInvHolds == PageSpec => []PickPageInv
<1>1. PickPageInv /\ UNCHANGED pageVars => PickPageInv'
  BY DEF pageVars, PickPageInv, PickPageTypeOK, ChainsAreNumbered, ProposalIsABacking,
     SessionsAreWallets, PicksWereStored, AnswersWereStored, ProposalIsNotRefused, BackingWasStored
<1> QED
  BY <1>1, PickPageStarts, PickPageStep, PTL DEF PageSpec

\* However the answers to a page's requests overtake each other, the proposal it shows is
\* never one it has been told was refused (PickControls.tsx send, session.ts).
THEOREM RefusedProposalsGo == PageSpec => []ProposalIsNotRefused
BY PickPageInvHolds, PTL DEF PickPageInv

\* A backing on the page is a pick the server held in the round on the page for the
\* wallet that asked, whichever round the answer that brought it was about; and one
\* brought in this session is the signed-in wallet's (session.ts applyMyBacking).
THEOREM BackingsAreStored == PageSpec => []BackingWasStored
BY PickPageInvHolds, PTL DEF PickPageInv

-----------------------------------------------------------------------------
(* The world under the player's fingers.                                     *)

CameraPose == [place : Places, moved : BOOLEAN]
Focus == (Nat \X Sectors) \cup {Null}
CameraState == [pose : CameraPose, mode : Modes, flight : Flights \cup {Null}, focus : Focus]
Requests == [place : Places, mode : Modes, focus : Focus, duration : Nat,
             interruptible : BOOLEAN, restore : Places \cup {Null}]

CameraOK ==
  /\ camera \in CameraState /\ clock \in Nat /\ battles \in Nat
  /\ route \in {World, Page} \cup {War(i) : i \in Sectors}

\* Every finger on the glass is remembered once; unless the canvas was resized, all are.
TouchesOK ==
  /\ touches \in Seq(Fingers) /\ gesture.down \subseteq Fingers
  /\ \A i, j \in 1..Len(touches) : touches[i] = touches[j] => i = j
  /\ \A i \in 1..Len(touches) : touches[i] \in gesture.down
  /\ ~gesture.resized => \A f \in gesture.down : \E i \in 1..Len(touches) : touches[i] = f
  /\ gesture \in [down : SUBSET Fingers, moved : BOOLEAN, fingers : Nat, resized : BOOLEAN]
  /\ dragMoved \in BOOLEAN

\* With at most one finger down, what is not marked as a drag has been a still finger only.
DragIsMarked ==
  ~gesture.resized /\ ~dragMoved /\ Len(touches) <= 1 => ~gesture.moved /\ gesture.fingers <= 1

TapsWereStill == tapped # Null /\ ~tapped.resized => ~tapped.moved /\ tapped.fingers = 1

\* After ESC nothing glides, and the camera is at its place or on its way there.
EscIsObeyed ==
  asked # Null /\ asked.by = "ESC" =>
    /\ navigation = IDLE_NAVIGATION
    /\ route \in {World, Page} =>
         \/ camera.flight = Null /\ camera.pose = Pose(asked.place)
         \/ /\ camera.flight # Null
            /\ camera.flight.to = asked.place /\ camera.flight.restore = Null

WorldInv == CameraOK /\ TouchesOK /\ DragIsMarked /\ TapsWereStill /\ EscIsObeyed

LEMMA PlacesOK ==
  /\ AtGlobal \in Places /\ AtPresentation \in Places /\ Between \in Places
  /\ \A i \in Sectors : /\ AtSector(i) \in Places /\ AtBattlefield(i) \in Places
                        /\ AtCinematic(i) \in Places
BY DEF Places, AtGlobal, AtPresentation, Between, AtSector, AtBattlefield, AtCinematic

LEMMA WorldStarts == ASSUME WorldInit PROVE WorldInv
<1>1. camera \in CameraState
  BY PlacesOK DEF WorldInit, initialCamera, CameraState, CameraPose, Pose, Focus, Modes
<1>2. touches = << >> /\ Len(touches) = 0 /\ touches \in Seq(Fingers)
  BY EmptySeq DEF WorldInit
<1>3. CameraOK
  BY <1>1 DEF WorldInit, CameraOK
<1>4. TouchesOK /\ DragIsMarked
  <2>1. /\ gesture.down = {} /\ gesture.moved = FALSE /\ gesture.fingers = 0
        /\ gesture \in [down : SUBSET Fingers, moved : BOOLEAN, fingers : Nat, resized : BOOLEAN]
        /\ dragMoved = FALSE
    BY DEF WorldInit
  <2>2. 1..Len(touches) = {}
    BY <1>2
  <2>3. TouchesOK
    BY <1>2, <2>1, <2>2 DEF TouchesOK
  <2>4. DragIsMarked
    BY <2>1 DEF DragIsMarked
  <2>5. QED
    BY <2>3, <2>4
<1>5. TapsWereStill /\ EscIsObeyed
  BY DEF WorldInit, TapsWereStill, EscIsObeyed
<1> QED
  BY <1>3, <1>4, <1>5 DEF WorldInv

LEMMA RequestOK ==
  ASSUME NEW place \in Places, NEW mode \in Modes, NEW focus \in Focus
  PROVE  Request(place, mode, focus) \in Requests
BY WorldAssumption DEF Request, Requests

LEMMA FlyToOK ==
  ASSUME NEW cam \in CameraState, NEW req \in Requests, NEW at \in Nat
  PROVE  flyTo(cam, req, at) \in CameraState
<1>1. CASE isLocked(cam)
  BY <1>1 DEF flyTo
<1>2. CASE ~isLocked(cam) /\ reducedMotion
  BY <1>2 DEF flyTo, Pose, CameraState, CameraPose, Requests
<1>3. CASE ~isLocked(cam) /\ ~reducedMotion
  <2>1. [to |-> req.place, toMode |-> req.mode, endsAt |-> at + req.duration,
         interruptible |-> req.interruptible, restore |-> req.restore] \in Flights
    BY DEF Flights, Requests
  <2>2. req.focus \in Focus
    BY DEF Requests
  <2>3. QED
    BY <1>3, <2>1, <2>2 DEF flyTo, CameraState
<1> QED
  BY <1>1, <1>2, <1>3

LEMMA ReleasedOK ==
  ASSUME NEW cam \in CameraState
  PROVE  released(cam) \in CameraState /\ released(cam).flight = Null
BY DEF released, CameraState

LEMMA AdvanceOK ==
  ASSUME NEW cam \in CameraState, NEW at \in Nat
  PROVE  advance(cam, at) \in CameraState
<1>1. CASE cam.flight = Null
  BY <1>1 DEF advance
<1>2. CASE cam.flight # Null /\ at < cam.flight.endsAt
  BY <1>2, PlacesOK DEF advance, CameraState, CameraPose, Pose
<1>3. CASE cam.flight # Null /\ ~(at < cam.flight.endsAt)
  <2>1. cam.flight \in Flights /\ cam.focus \in Focus
    BY <1>3 DEF CameraState
  <2>2. PICK landed : landed = [pose |-> Pose(cam.flight.to), mode |-> cam.flight.toMode,
                                    flight |-> Null, focus |-> cam.focus]
    OBVIOUS
  <2>3. landed \in CameraState
    BY <2>1, <2>2 DEF CameraState, CameraPose, Pose, Flights
  <2>4. CASE cam.flight.restore = Null
    BY <1>3, <2>2, <2>3, <2>4 DEF advance
  <2>5. CASE cam.flight.restore # Null
    <3>1. Request(cam.flight.restore, "BATTLE_TACTICAL", cam.focus) \in Requests
      BY <2>1, <2>5, RequestOK DEF Flights, Modes
    <3>2. flyTo(landed, Request(cam.flight.restore, "BATTLE_TACTICAL", cam.focus), at)
            \in CameraState
      BY <2>3, <3>1, FlyToOK
    <3>3. QED
      BY <1>3, <2>2, <2>5, <3>2 DEF advance
  <2>6. QED
    BY <2>4, <2>5
<1> QED
  BY <1>1, <1>2, <1>3

LEMMA MovedOK ==
  ASSUME NEW cam \in CameraState
  PROVE  [cam EXCEPT !.pose = Moved(cam.pose)] \in CameraState
BY DEF CameraState, CameraPose, Moved

\* What the camera's own steps leave alone.
LEMMA GestureStays ==
  ASSUME WorldInv, touches' = touches, gesture' = gesture, dragMoved' = dragMoved,
         tapped' = tapped
  PROVE  TouchesOK' /\ DragIsMarked' /\ TapsWereStill'
BY DEF WorldInv, TouchesOK, DragIsMarked, TapsWereStill

LEMMA TickStep ==
  ASSUME WorldInv, Tick
  PROVE  WorldInv'
<1>1. CameraOK /\ EscIsObeyed
  BY DEF WorldInv
<1>2. PICK cam : cam = advance(camera, clock)
  OBVIOUS
<1>3. cam \in CameraState
  BY <1>1, <1>2, AdvanceOK DEF CameraOK
<1>4. PICK drifted : drifted = applyDrift(cam, clock)
  OBVIOUS
<1>5. /\ camera' = drifted.camera /\ navigation' = drifted.navigation
      /\ route' = route /\ battles' = battles /\ clock' = clock /\ asked' = asked
      /\ touches' = touches /\ gesture' = gesture /\ dragMoved' = dragMoved
      /\ tapped' = tapped
  BY <1>2, <1>4 DEF Tick, gestureVars
<1>6. drifted.camera \in CameraState
  BY <1>3, <1>4, MovedOK DEF applyDrift
<1>7. ASSUME navigation = IDLE_NAVIGATION
      PROVE  drifted.camera = cam /\ drifted.navigation = navigation
  BY <1>4, <1>7 DEF applyDrift, IDLE_NAVIGATION
<1>8. EscIsObeyed'
  <2> SUFFICES ASSUME asked # Null, asked.by = "ESC"
               PROVE  /\ navigation' = IDLE_NAVIGATION
                      /\ route \in {World, Page} =>
                           \/ camera'.flight = Null /\ camera'.pose = Pose(asked.place)
                           \/ /\ camera'.flight # Null
                              /\ camera'.flight.to = asked.place /\ camera'.flight.restore = Null
    BY <1>5 DEF EscIsObeyed
  <2>1. navigation = IDLE_NAVIGATION /\ camera' = cam /\ navigation' = navigation
    BY <1>1, <1>5, <1>7 DEF EscIsObeyed
  <2>2. CASE camera.flight = Null
    BY <1>1, <1>2, <2>1, <2>2 DEF advance, EscIsObeyed
  <2>3. CASE camera.flight # Null /\ clock < camera.flight.endsAt
    <3>1. cam.flight = camera.flight
      BY <1>1, <1>2, <2>3 DEF advance, CameraOK, CameraState
    <3>2. QED
      BY <1>1, <2>1, <2>3, <3>1 DEF EscIsObeyed
  <2>4. CASE camera.flight # Null /\ ~(clock < camera.flight.endsAt)
    <3>1. ASSUME route \in {World, Page}
          PROVE  cam.flight = Null /\ cam.pose = Pose(asked.place)
      <4>1. camera.flight.to = asked.place /\ camera.flight.restore = Null
        BY <1>1, <2>4, <3>1 DEF EscIsObeyed
      <4>2. QED
        BY <1>2, <2>4, <4>1 DEF advance
    <3>2. QED
      BY <2>1, <3>1
  <2>5. QED
    BY <2>2, <2>3, <2>4
<1>9. TouchesOK' /\ DragIsMarked' /\ TapsWereStill'
  BY <1>5, GestureStays
<1> QED
  BY <1>1, <1>5, <1>6, <1>8, <1>9 DEF WorldInv, CameraOK

\* Time, and a canvas of another height.
LEMMA PassStep ==
  ASSUME WorldInv, Pass \/ Resize
  PROVE  WorldInv'
<1>1. CameraOK' /\ EscIsObeyed' /\ TapsWereStill'
  BY DEF Pass, Resize, gestureVars, WorldInv, CameraOK, EscIsObeyed, TapsWereStill
<1>2. CASE Pass
  BY <1>1, <1>2, GestureStays DEF Pass, gestureVars, WorldInv
<1>3. CASE Resize
  <2>1. touches' = << >> /\ Len(touches') = 0 /\ touches' \in Seq(Fingers)
    BY <1>3, EmptySeq DEF Resize
  <2>2. /\ gesture' = [gesture EXCEPT !.resized = TRUE] /\ dragMoved' = dragMoved
        /\ TouchesOK
    BY <1>3 DEF Resize, WorldInv
  <2>3. /\ gesture'.resized = TRUE /\ gesture'.down = gesture.down
        /\ gesture' \in [down : SUBSET Fingers, moved : BOOLEAN, fingers : Nat, resized : BOOLEAN]
    BY <2>2 DEF TouchesOK
  <2>4. TouchesOK' /\ DragIsMarked'
    BY <2>1, <2>2, <2>3 DEF TouchesOK, DragIsMarked
  <2>5. QED
    BY <1>1, <2>4 DEF WorldInv
<1> QED
  BY <1>2, <1>3

\* The commands that fly the camera somewhere without a gesture.
LEMMA CameraCommands ==
  ASSUME WorldInv, camera' \in CameraState, clock' = clock, battles' \in Nat,
         route' \in {World, Page} \cup {War(i) : i \in Sectors},
         touches' = touches, gesture' = gesture, dragMoved' = dragMoved, tapped' = tapped,
         EscIsObeyed'
  PROVE  WorldInv'
BY GestureStays DEF WorldInv, CameraOK

LEMMA ZoomOK ==
  ASSUME CameraOK PROVE zoomBy(camera) \in CameraState
<1>1. camera \in CameraState
  BY DEF CameraOK
<1>2. [released(camera) EXCEPT !.pose = Moved(camera.pose)] \in CameraState
  BY <1>1 DEF released, CameraState, CameraPose, Moved
<1> QED
  BY <1>1, <1>2 DEF zoomBy

LEMMA SectorRequest ==
  ASSUME CameraOK, NEW i \in Sectors
  PROVE  /\ Request(AtSector(i), "SECTOR_FOCUS", battleAt(i)) \in Requests
         /\ Request(AtBattlefield(i), "BATTLE_TACTICAL", battleAt(i)) \in Requests
<1>1. battleAt(i) \in Focus
  BY DEF CameraOK, battleAt, Focus
<1> QED
  BY <1>1, PlacesOK, RequestOK DEF Modes

LEMMA ResetOK ==
  ASSUME CameraOK PROVE resetView(camera, clock) \in CameraState
<1>1. camera \in CameraState /\ clock \in Nat
  BY DEF CameraOK
<1>2. Request(AtGlobal, "GLOBAL_FREE", Null) \in Requests
  BY PlacesOK, RequestOK DEF Modes, Focus
<1> QED
  BY <1>1, <1>2, ReleasedOK, FlyToOK DEF resetView

LEMMA ZoomStep ==
  ASSUME WorldInv, zoomNotches PROVE WorldInv'
<1>1. camera' \in CameraState
  BY ZoomOK DEF zoomNotches, WorldInv
<1> QED
  BY <1>1, CameraCommands DEF zoomNotches, gestureVars, WorldInv, CameraOK, EscIsObeyed

LEMMA CinematicStep ==
  ASSUME WorldInv, NEW i \in Sectors, playCinematic(i) PROVE WorldInv'
<1>1. CameraOK /\ camera \in CameraState /\ clock \in Nat
  BY DEF WorldInv, CameraOK
<1>2. [place |-> AtCinematic(i), mode |-> "CINEMATIC_TEMP", focus |-> camera.focus,
       duration |-> CINEMATIC, interruptible |-> FALSE, restore |-> AtBattlefield(i)]
        \in Requests
  BY <1>1, PlacesOK, WorldAssumption DEF Requests, Modes, CameraState
<1>3. camera' \in CameraState
  BY <1>1, <1>2, FlyToOK DEF playCinematic
<1> QED
  BY <1>1, <1>3, CameraCommands DEF playCinematic, gestureVars, CameraOK, EscIsObeyed

LEMMA FocusMyWarStep ==
  ASSUME WorldInv, NEW i \in Sectors, focusMyWar(i) PROVE WorldInv'
<1>1. CameraOK /\ camera \in CameraState /\ clock \in Nat
  BY DEF WorldInv, CameraOK
<1>2. camera' \in CameraState
  BY <1>1, ReleasedOK, SectorRequest, FlyToOK DEF focusMyWar
<1> QED
  BY <1>1, <1>2, CameraCommands DEF focusMyWar, gestureVars, CameraOK, EscIsObeyed

LEMMA ResetStep ==
  ASSUME WorldInv, ResetView PROVE WorldInv'
<1>1. CameraOK
  BY DEF WorldInv
<1>2. camera' \in CameraState
  BY <1>1, ResetOK DEF ResetView
<1>3. asked'.by # "ESC"
  BY DEF ResetView
<1> QED
  BY <1>1, <1>2, <1>3, CameraCommands DEF ResetView, gestureVars, CameraOK, EscIsObeyed

LEMMA StepOutwardStep ==
  ASSUME WorldInv, StepOutward PROVE WorldInv'
<1>1. CameraOK /\ camera \in CameraState /\ clock \in Nat /\ EscIsObeyed
  BY DEF WorldInv, CameraOK
<1>2. PICK mode : mode = outwardMode(intendedMode(camera))
  OBVIOUS
<1>3. PICK place : place = poseForMode(mode, focusedSectorIndex)
  OBVIOUS
<1>4. navigation' = IDLE_NAVIGATION
  BY DEF StepOutward, SteppedOutward
<1>5. CASE mode = Null \/ place = Null
  <2>1. camera' = camera /\ asked' = asked /\ route' = route
    BY <1>2, <1>3, <1>5 DEF StepOutward
  <2>2. EscIsObeyed'
    BY <1>1, <1>4, <2>1 DEF EscIsObeyed
  <2>3. QED
    BY <1>1, <2>1, <2>2, CameraCommands DEF StepOutward, gestureVars, CameraOK
<1>6. CASE mode # Null /\ place # Null
  <2>1. mode \in Modes
    BY <1>2, <1>6 DEF outwardMode, Modes
  <2>2. place \in Places
    <3>1. focusedSectorIndex \in Sectors \cup {Null}
      BY <1>1 DEF focusedSectorIndex, CameraState, Focus
    <3>2. QED
      BY <1>3, <1>6, <3>1, PlacesOK DEF poseForMode
  <2>3. PICK focus \in Focus :
          camera' = flyTo(released(camera), Request(place, mode, focus), clock)
    <3>1. (IF mode = "GLOBAL_FREE" THEN Null ELSE camera.focus) \in Focus
      BY <1>1 DEF CameraState, Focus
    <3>2. QED
      BY <1>2, <1>3, <1>6, <3>1 DEF StepOutward, SteppedOutward
  <2>4. PICK req \in Requests : req = Request(place, mode, focus)
    BY <2>1, <2>2, RequestOK
  <2>5. camera' \in CameraState
    BY <1>1, <2>3, <2>4, ReleasedOK, FlyToOK
  <2>6. asked' = [by |-> "ESC", place |-> place]
    BY <1>2, <1>3, <1>6 DEF StepOutward
  <2>7. \/ camera'.flight = Null /\ camera'.pose = Pose(place)
        \/ camera'.flight # Null /\ camera'.flight.to = place /\ camera'.flight.restore = Null
    <3>1. PICK cam \in CameraState : cam = released(camera) /\ cam.flight = Null
      BY <1>1, ReleasedOK
    <3>2. req.place = place /\ req.mode = mode /\ req.restore = Null
      BY <2>4 DEF Request
    <3>3. camera' = flyTo(cam, req, clock) /\ ~isLocked(cam)
      BY <2>3, <2>4, <3>1 DEF isLocked
    <3>4. CASE reducedMotion
      BY <3>2, <3>3, <3>4 DEF flyTo
    <3>5. CASE ~reducedMotion
      <4>1. PICK flight : flight = [to |-> req.place, toMode |-> req.mode,
                                    endsAt |-> clock + req.duration,
                                    interruptible |-> req.interruptible,
                                    restore |-> req.restore]
        OBVIOUS
      <4>2. flight \in Flights /\ flight.to = place /\ flight.restore = Null
        BY <1>1, <3>2, <4>1 DEF Flights, Requests
      <4>3. camera'.flight = flight
        BY <3>1, <3>3, <3>5, <4>1 DEF flyTo, CameraState
      <4>4. QED
        BY <4>2, <4>3, WorldAssumption
    <3>6. QED
      BY <3>4, <3>5
  <2>8. EscIsObeyed'
    BY <1>4, <2>6, <2>7 DEF EscIsObeyed
  <2>9. QED
    BY <1>1, <2>5, <2>8, CameraCommands DEF StepOutward, gestureVars, CameraOK
<1> QED
  BY <1>5, <1>6

LEMMA MotionStep ==
  ASSUME WorldInv, setReducedMotion PROVE WorldInv'
BY CameraCommands DEF setReducedMotion, gestureVars, WorldInv, CameraOK, EscIsObeyed

LEMMA NavigateStep ==
  ASSUME WorldInv, Navigate PROVE WorldInv'
<1>1. CameraOK /\ camera \in CameraState /\ clock \in Nat
  BY DEF WorldInv, CameraOK
<1>2. Request(AtPresentation, "PROFILE_PRESENTATION", Null) \in Requests
  BY PlacesOK, RequestOK DEF Modes, Focus
<1>3. camera' \in CameraState
  BY <1>1, <1>2, FlyToOK, ResetOK DEF Navigate, presentWorld
<1> QED
  BY <1>1, <1>3, CameraCommands DEF Navigate, gestureVars, CameraOK, EscIsObeyed

LEMMA BattlesReplacedStep ==
  ASSUME WorldInv, BattlesReplaced PROVE WorldInv'
<1>1. CameraOK /\ camera \in CameraState /\ clock \in Nat /\ EscIsObeyed
  BY DEF WorldInv, CameraOK
<1>2. battles' \in Nat /\ navigation' = navigation /\ route' = route /\ asked' = asked
  BY <1>1 DEF BattlesReplaced, CameraOK
<1>3. /\ camera' \in CameraState
      /\ route \in {World, Page} => camera' = camera
  <2>1. CASE route \notin {World, Page} /\ battles' = 0
    <3>1. PICK i \in Sectors : route = War(i)
      BY <1>1, <2>1 DEF CameraOK
    <3>2. route[2] = i
      BY <3>1 DEF War
    <3>3. <<0, i>> \in Focus
      BY DEF Focus
    <3>4. Request(AtSector(i), "SECTOR_FOCUS", <<0, i>>) \in Requests
      BY <3>3, PlacesOK, RequestOK DEF Modes
    <3>5. camera' = flyTo(camera, Request(AtSector(i), "SECTOR_FOCUS", <<0, i>>), clock)
      BY <2>1, <3>2 DEF BattlesReplaced
    <3>6. QED
      BY <1>1, <2>1, <3>4, <3>5, FlyToOK
  <2>2. CASE ~(route \notin {World, Page} /\ battles' = 0)
    BY <1>1, <2>2 DEF BattlesReplaced
  <2>3. QED
    BY <2>1, <2>2
<1>4. EscIsObeyed'
  BY <1>1, <1>2, <1>3 DEF EscIsObeyed
<1> QED
  BY <1>1, <1>2, <1>3, <1>4, CameraCommands DEF BattlesReplaced, gestureVars, CameraOK

\* A tap selects a sector only after a gesture that was one still finger.
LEMMA SelectStep ==
  ASSUME WorldInv, NEW i \in Sectors, onSelect(i) PROVE WorldInv'
<1>1. CameraOK /\ camera \in CameraState /\ clock \in Nat /\ TouchesOK /\ DragIsMarked
  BY DEF WorldInv, CameraOK
<1>2. camera' \in CameraState
  BY <1>1, SectorRequest, FlyToOK DEF onSelect, focusSector
<1>3. /\ tapped' = gesture /\ gesture' = [gesture EXCEPT !.fingers = 0]
      /\ touches' = touches /\ dragMoved' = dragMoved /\ asked' = Null
      /\ gesture.fingers > 0 /\ gesture.down = {} /\ ~dragMoved
      /\ clock' = clock /\ battles' = battles /\ route' = route
  BY DEF onSelect
<1>4. /\ gesture'.fingers = 0 /\ gesture'.down = gesture.down
      /\ gesture'.moved = gesture.moved /\ gesture'.resized = gesture.resized
      /\ gesture' \in [down : SUBSET Fingers, moved : BOOLEAN, fingers : Nat, resized : BOOLEAN]
  BY <1>1, <1>3 DEF TouchesOK
<1>5. Len(touches) = 0
  BY <1>1, <1>3, LenProperties DEF TouchesOK
<1>6. TapsWereStill'
  BY <1>1, <1>3, <1>5 DEF TouchesOK, DragIsMarked, TapsWereStill
<1>7. TouchesOK' /\ DragIsMarked'
  BY <1>1, <1>3, <1>4 DEF TouchesOK, DragIsMarked
<1> QED
  BY <1>1, <1>2, <1>3, <1>6, <1>7 DEF WorldInv, CameraOK, EscIsObeyed

LEMMA DragOK ==
  ASSUME CameraOK, NEW f, startDrag(f)
  PROVE  camera' \in CameraState
BY ReleasedOK DEF startDrag, beginPan, CameraOK

LEMMA PanOK ==
  ASSUME CameraOK, NEW f, NEW delta, panTo(Sample(f), delta)
  PROVE  camera' \in CameraState
<1>1. camera \in CameraState
  BY DEF CameraOK
<1>2. PICK pose \in CameraPose : pose = IF delta > 0 THEN Moved(camera.pose) ELSE camera.pose
  BY <1>1 DEF CameraState, CameraPose, Moved
<1>3. [released(camera) EXCEPT !.pose = pose] \in CameraState
  BY <1>1, <1>2 DEF released, CameraState
<1> QED
  BY <1>1, <1>2, <1>3 DEF panTo

LEMMA PointerDownStep ==
  ASSUME WorldInv, NEW f \in Fingers, onPointerDown(f) PROVE WorldInv'
<1>1. CameraOK /\ TouchesOK /\ DragIsMarked /\ TapsWereStill /\ f \notin gesture.down
  BY DEF WorldInv, onPointerDown
<1>2. /\ touches' = Append(touches, f) /\ asked' = Null /\ tapped' = tapped
      /\ clock' = clock /\ battles' = battles /\ route' = route
  BY DEF onPointerDown
<1>3. camera' \in CameraState
  BY <1>1, DragOK DEF onPointerDown, CameraOK
<1>4. /\ gesture' \in [down : SUBSET Fingers, moved : BOOLEAN, fingers : Nat, resized : BOOLEAN]
      /\ gesture'.down = gesture.down \cup {f}
      /\ gesture.down = {} => ~gesture'.moved /\ gesture'.fingers = 1
      /\ gesture.down # {} => gesture'.resized = gesture.resized
  <2>1. CASE gesture.down = {}
    BY <2>1 DEF onPointerDown
  <2>2. CASE gesture.down # {}
    <3>1. gesture' = [gesture EXCEPT !.down = @ \cup {f}, !.fingers = @ + 1]
      BY <2>2 DEF onPointerDown
    <3>2. gesture.fingers + 1 \in Nat /\ gesture.down \cup {f} \in SUBSET Fingers
      BY <1>1 DEF TouchesOK
    <3>3. QED
      BY <1>1, <2>2, <3>1, <3>2 DEF TouchesOK
  <2>3. QED
    BY <2>1, <2>2
<1>5. dragMoved' \in BOOLEAN
  BY <1>1 DEF onPointerDown, TouchesOK
<1>6. PICK n \in Nat : n = Len(touches)
  BY <1>1, LenProperties DEF TouchesOK
<1>7. /\ touches' \in Seq(Fingers) /\ Len(touches') = n + 1
      /\ \A i \in 1..n : touches'[i] = touches[i]
      /\ touches'[n + 1] = f
  BY <1>1, <1>2, <1>6, AppendProperties DEF TouchesOK
<1>8. n # 0 => gesture.down # {}
  BY <1>1, <1>6 DEF TouchesOK
<1>9. TouchesOK'
  <2>1. \A i \in 1..(n + 1) : i = n + 1 \/ i \in 1..n
    BY <1>6
  <2>2. \A i, j \in 1..(n + 1) : touches'[i] = touches'[j] => i = j
    BY <1>1, <1>6, <1>7, <2>1 DEF TouchesOK
  <2>3. \A i \in 1..(n + 1) : touches'[i] \in gesture'.down
    BY <1>1, <1>4, <1>6, <1>7, <2>1 DEF TouchesOK
  <2>4. ASSUME ~gesture'.resized, NEW g \in gesture'.down
        PROVE  \E i \in 1..(n + 1) : touches'[i] = g
    <3>1. CASE g = f
      BY <1>6, <1>7, <3>1
    <3>2. CASE g # f
      <4>1. g \in gesture.down /\ ~gesture.resized
        BY <1>1, <1>4, <2>4, <3>2 DEF TouchesOK
      <4>2. PICK i \in 1..n : touches[i] = g
        BY <1>1, <1>6, <4>1 DEF TouchesOK
      <4>3. i \in 1..(n + 1)
        BY <1>6, <4>2
      <4>4. QED
        BY <1>7, <4>2, <4>3
    <3>3. QED
      BY <3>1, <3>2
  <2>5. gesture'.down \subseteq Fingers
    BY <1>4
  <2>6. QED
    BY <1>4, <1>5, <1>7, <2>2, <2>3, <2>4, <2>5 DEF TouchesOK
<1>10. DragIsMarked'
  <2>1. CASE n = 0
    <3>1. ~gesture'.resized => gesture.down = {} \/ ~gesture.resized
      BY <1>4
    <3>2. ~gesture.resized => gesture.down = {}
      BY <1>1, <1>6, <2>1 DEF TouchesOK
    <3>3. QED
      BY <1>4, <3>1, <3>2 DEF DragIsMarked
  <2>2. CASE n # 0
    BY <1>6, <1>7, <2>2 DEF DragIsMarked
  <2>3. QED
    BY <2>1, <2>2
<1> QED
  BY <1>1, <1>2, <1>3, <1>9, <1>10 DEF WorldInv, CameraOK, TapsWereStill, EscIsObeyed

LEMMA PointerMoveStep ==
  ASSUME WorldInv, NEW f \in Fingers, NEW delta \in Flicks, onPointerMove(f, delta)
  PROVE  WorldInv'
<1>1. CameraOK /\ TouchesOK /\ DragIsMarked /\ TapsWereStill /\ f \in gesture.down
  BY DEF WorldInv, onPointerMove
<1>2. /\ touches' = touches /\ asked' = Null /\ tapped' = tapped
      /\ clock' = clock /\ battles' = battles /\ route' = route
      /\ gesture' = [gesture EXCEPT !.moved = @ \/ delta > 0]
  BY DEF onPointerMove
<1>3. camera' \in CameraState
  BY <1>1, PanOK, ZoomOK DEF onPointerMove, CameraOK
<1>4. (gesture.moved \/ delta > 0) \in BOOLEAN
  OBVIOUS
<1>5. /\ gesture' \in [down : SUBSET Fingers, moved : BOOLEAN, fingers : Nat, resized : BOOLEAN]
      /\ gesture'.down = gesture.down /\ gesture'.fingers = gesture.fingers
      /\ gesture'.resized = gesture.resized
      /\ gesture'.moved <=> gesture.moved \/ delta > 0
  BY <1>1, <1>2, <1>4 DEF TouchesOK
<1>6. /\ dragMoved' \in BOOLEAN
      /\ \/ \A k \in 1..Len(touches) : touches[k] # f
         \/ Len(touches) > 1
         \/ dragMoved' = (dragMoved \/ delta > 0)
  BY <1>1, LenProperties DEF onPointerMove, TouchesOK
<1>7. TouchesOK'
  BY <1>1, <1>2, <1>5, <1>6 DEF TouchesOK
<1>8. DragIsMarked'
  <2> SUFFICES ASSUME ~gesture'.resized, ~dragMoved', Len(touches) <= 1
               PROVE  ~gesture'.moved /\ gesture'.fingers <= 1
    BY <1>2 DEF DragIsMarked
  <2>1. \E k \in 1..Len(touches) : touches[k] = f
    BY <1>1, <1>5 DEF TouchesOK
  <2>2. Len(touches) \in Nat
    BY <1>1, LenProperties DEF TouchesOK
  <2>3. dragMoved' = (dragMoved \/ delta > 0)
    BY <1>6, <2>1, <2>2
  <2>4. QED
    BY <1>1, <1>5, <2>3 DEF DragIsMarked, TouchesOK
<1> QED
  BY <1>1, <1>2, <1>3, <1>7, <1>8 DEF WorldInv, CameraOK, TapsWereStill, EscIsObeyed

\* A sequence without its k-th entry.
LEMMA WithoutOne ==
  ASSUME NEW S, NEW s \in Seq(S), NEW k \in 1..Len(s), NEW rest,
         rest = SubSeq(s, 1, k - 1) \o SubSeq(s, k + 1, Len(s))
  PROVE  /\ rest \in Seq(S) /\ Len(rest) = Len(s) - 1
         /\ \A i \in 1..Len(rest) : rest[i] = s[IF i < k THEN i ELSE i + 1]
<1>1. PICK n \in Nat : n = Len(s)
  BY LenProperties
<1>2. \A i \in 1..n : s[i] \in S
  BY <1>1, ElementOfSeq
<1>3. PICK a : a = SubSeq(s, 1, k - 1)
  OBVIOUS
<1>4. PICK b : b = SubSeq(s, k + 1, n)
  OBVIOUS
<1>5. k \in 1..n /\ k - 1 \in Int /\ k + 1 \in Int
  BY <1>1
<1>6. \A i \in 1..(k - 1) : s[i] \in S
  BY <1>2, <1>5
<1>7. a \in Seq(S) /\ Len(a) = k - 1 /\ \A i \in 1..(k - 1) : a[i] = s[i]
  <2>1. a \in Seq(S) /\ Len(a) = (IF 1 <= k - 1 THEN k - 1 - 1 + 1 ELSE 0)
        /\ \A i \in 1..(k - 1 - 1 + 1) : a[i] = s[1 + i - 1]
    BY <1>3, <1>5, <1>6, SubSeqProperties
  <2>2. QED
    BY <1>5, <2>1
<1>8. \A i \in (k + 1)..n : s[i] \in S
  BY <1>2, <1>5
<1>9. b \in Seq(S) /\ Len(b) = n - k /\ \A i \in 1..(n - k) : b[i] = s[k + i]
  <2>1. b \in Seq(S) /\ Len(b) = (IF k + 1 <= n THEN n - (k + 1) + 1 ELSE 0)
        /\ \A i \in 1..(n - (k + 1) + 1) : b[i] = s[k + 1 + i - 1]
    BY <1>1, <1>4, <1>5, <1>8, SubSeqProperties
  <2>2. QED
    BY <1>1, <1>5, <2>1
<1>10. /\ rest = a \o b /\ rest \in Seq(S) /\ Len(rest) = n - 1
       /\ \A i \in 1..(n - 1) : rest[i] = IF i <= k - 1 THEN a[i] ELSE b[i - (k - 1)]
  <2>1. rest = a \o b
    BY <1>1, <1>3, <1>4
  <2>2. /\ a \o b \in Seq(S) /\ Len(a \o b) = Len(a) + Len(b)
        /\ \A i \in 1..(Len(a) + Len(b)) :
             (a \o b)[i] = IF i <= Len(a) THEN a[i] ELSE b[i - Len(a)]
    BY <1>7, <1>9, ConcatProperties
  <2>3. Len(a) + Len(b) = n - 1
    BY <1>1, <1>5, <1>7, <1>9
  <2>4. QED
    BY <1>7, <2>1, <2>2, <2>3
<1>11. ASSUME NEW i \in 1..(n - 1) PROVE rest[i] = s[IF i < k THEN i ELSE i + 1]
  <2>1. CASE i < k
    <3>1. i \in 1..(k - 1) /\ i <= k - 1
      BY <1>5, <2>1
    <3>2. QED
      BY <1>7, <1>10, <2>1, <3>1
  <2>2. CASE ~(i < k)
    <3>1. ~(i <= k - 1) /\ i - (k - 1) \in 1..(n - k) /\ k + (i - (k - 1)) = i + 1
      BY <1>1, <1>5, <2>2
    <3>2. rest[i] = b[i - (k - 1)]
      BY <1>10, <3>1
    <3>3. QED
      BY <1>9, <2>2, <3>1, <3>2
  <2>3. QED
    BY <2>1, <2>2
<1> QED
  BY <1>1, <1>10, <1>11

LEMMA EndPointerStep ==
  ASSUME WorldInv, NEW f \in Fingers, endPointer(f) PROVE WorldInv'
<1>1. CameraOK /\ TouchesOK /\ DragIsMarked /\ TapsWereStill /\ f \in gesture.down
  BY DEF WorldInv, endPointer
<1>2. /\ asked' = Null /\ tapped' = tapped
      /\ clock' = clock /\ battles' = battles /\ route' = route
      /\ gesture' = [gesture EXCEPT !.down = @ \ {f}]
  BY DEF endPointer
<1>3. camera' \in CameraState
  BY <1>1, DragOK DEF endPointer, panWithTheRest, CameraOK
<1>4. /\ gesture' \in [down : SUBSET Fingers, moved : BOOLEAN, fingers : Nat, resized : BOOLEAN]
      /\ gesture'.down = gesture.down \ {f} /\ gesture'.fingers = gesture.fingers
      /\ gesture'.resized = gesture.resized /\ gesture'.moved = gesture.moved
  BY <1>1, <1>2 DEF TouchesOK
<1>5. PICK n \in Nat : n = Len(touches)
  BY <1>1, LenProperties DEF TouchesOK
<1>6. CASE \A k \in DOMAIN touches : touches[k] # f
  <2>1. touches' = touches /\ dragMoved' = dragMoved
    BY <1>6 DEF endPointer
  <2>2. \A k \in 1..Len(touches) : touches[k] # f
    BY <1>1, <1>6, LenProperties DEF TouchesOK
  <2>3. TouchesOK' /\ DragIsMarked'
    BY <1>1, <1>4, <2>1, <2>2 DEF TouchesOK, DragIsMarked
  <2>4. QED
    BY <1>1, <1>2, <1>3, <2>3 DEF WorldInv, CameraOK, TapsWereStill, EscIsObeyed
<1>7. ASSUME NEW k \in DOMAIN touches, touches[k] = f
      PROVE  WorldInv'
  <2>1. PICK j \in DOMAIN touches :
          /\ touches[j] = f
          /\ touches' = SubSeq(touches, 1, j - 1) \o SubSeq(touches, j + 1, Len(touches))
          /\ IF Len(touches') = 1 THEN panWithTheRest(touches') ELSE dragMoved' = dragMoved
    BY <1>7 DEF endPointer
  <2>2. j \in 1..n /\ touches \in Seq(Fingers)
    BY <1>1, <1>5, LenProperties DEF TouchesOK
  <2>3. PICK rest : rest = touches'
    OBVIOUS
  <2>4. /\ rest \in Seq(Fingers) /\ Len(rest) = n - 1
        /\ \A i \in 1..Len(rest) : rest[i] = touches[IF i < j THEN i ELSE i + 1]
    BY ZenonT(60), <1>5, <2>1, <2>2, <2>3, WithoutOne
  <2>5. /\ dragMoved' \in BOOLEAN /\ (n # 2 => dragMoved' = dragMoved)
        /\ (n = 2 => dragMoved' = TRUE)
    <3>1. Len(touches') = n - 1 /\ dragMoved \in BOOLEAN
      BY <1>1, <2>3, <2>4 DEF TouchesOK
    <3>2. CASE n = 2
      <4>1. Len(touches') = 1
        BY <3>1, <3>2
      <4>2. panWithTheRest(touches')
        BY <2>1, <4>1
      <4>3. QED
        BY <3>2, <4>2 DEF panWithTheRest
    <3>3. CASE n # 2
      BY <1>5, <2>1, <3>1, <3>3
    <3>4. QED
      BY <3>2, <3>3
  <2>6. \A i \in 1..(n - 1) : /\ (IF i < j THEN i ELSE i + 1) \in 1..n
                              /\ (IF i < j THEN i ELSE i + 1) # j
    BY <1>5, <2>2
  <2>7. \A i, m \in 1..n : touches[i] = touches[m] => i = m
    BY <1>1, <1>5 DEF TouchesOK
  <2>8. \A i, m \in 1..(n - 1) : rest[i] = rest[m] => i = m
    BY <1>5, <2>2, <2>4, <2>6, <2>7
  <2>9. \A i \in 1..(n - 1) : rest[i] \in gesture.down /\ rest[i] # f
    <3> SUFFICES ASSUME NEW i \in 1..(n - 1) PROVE rest[i] \in gesture.down /\ rest[i] # f
      OBVIOUS
    <3>1. PICK m \in 1..n : m = (IF i < j THEN i ELSE i + 1) /\ m # j
      BY <2>6
    <3>2. rest[i] = touches[m]
      BY <1>5, <2>4, <3>1
    <3>3. touches[m] \in gesture.down /\ touches[m] # f
      BY <1>1, <1>5, <2>1, <2>2, <2>7, <3>1 DEF TouchesOK
    <3>4. QED
      BY <3>2, <3>3
  <2>10. ASSUME ~gesture.resized, NEW g \in gesture.down, g # f
         PROVE  \E i \in 1..(n - 1) : rest[i] = g
    <3>1. PICK m \in 1..n : touches[m] = g
      BY <1>1, <1>5, <2>10 DEF TouchesOK
    <3>2. m # j
      BY <2>1, <2>10, <3>1
    <3>3. PICK i \in 1..(n - 1) : m = IF i < j THEN i ELSE i + 1
      <4>1. CASE m < j
        BY <1>5, <2>2, <3>1, <4>1
      <4>2. CASE ~(m < j)
        <5>1. m - 1 \in 1..(n - 1) /\ ~(m - 1 < j) /\ m = m - 1 + 1
          BY <1>5, <2>2, <3>1, <3>2, <4>2
        <5>2. QED
          BY <5>1
      <4>3. QED
        BY <4>1, <4>2
    <3>4. QED
      BY <2>4, <3>1, <3>3
  <2>11. TouchesOK'
    BY <1>4, <2>3, <2>4, <2>5, <2>8, <2>9, <2>10 DEF TouchesOK
  <2>12. DragIsMarked'
    <3>1. CASE n = 2
      BY <2>5, <3>1 DEF DragIsMarked
    <3>2. CASE n # 2
      <4>1. Len(touches') <= 1 => n <= 1
        BY <1>5, <2>2, <2>3, <2>4, <3>2
      <4>2. QED
        BY <1>1, <1>4, <1>5, <2>5, <3>2, <4>1 DEF DragIsMarked
    <3>3. QED
      BY <3>1, <3>2
  <2>13. QED
    BY <1>1, <1>2, <1>3, <2>11, <2>12 DEF WorldInv, CameraOK, TapsWereStill, EscIsObeyed
<1> QED
  BY <1>6, <1>7

LEMMA WorldStep == ASSUME WorldInv, WorldNext PROVE WorldInv'
BY TickStep, PassStep, ZoomStep, PointerDownStep, PointerMoveStep, EndPointerStep, SelectStep,
   CinematicStep, FocusMyWarStep, ResetStep, StepOutwardStep, NavigateStep, BattlesReplacedStep,
   MotionStep
   DEF WorldNext

\* The camera goes where it was sent: whatever fingers land, move and lift in whatever
\* order, only one that stood still selects a sector (WorldInput.tsx dragMoved), and ESC
\* ends exactly at the level it asked for (session.ts stepOutward).
THEOREM TheCameraArrives == WorldSpec => []CameraGoesWhereSent
<1>1. WorldInv /\ UNCHANGED worldVars => WorldInv'
  BY DEF worldVars, WorldInv, CameraOK, TouchesOK, DragIsMarked, TapsWereStill, EscIsObeyed
<1>2. WorldInv => CameraGoesWhereSent
  BY DEF WorldInv, TapsWereStill, EscIsObeyed, CameraGoesWhereSent, Arrived
<1> QED
  BY <1>1, <1>2, WorldStarts, WorldStep, PTL DEF WorldSpec

-----------------------------------------------------------------------------
(* The player's own pages.                                                   *)

Recorded == {"NONE", "PENDING_FINALITY", "RESERVING", "READ"} \cup Cards
RecordOf == [status : Recorded, points : Nat, card : Cards \cup {NoCard}]
Results == RecordOf \cup {Failed, Nothing, Result("NOT_ELIGIBLE", 0)}
Reading == [at : {"idle", "sent", "answered"}, token : Nat, live : BOOLEAN, result : Results]

PersonalTypeOK ==
  /\ tokens \in Seq(Owners) /\ session \in 0..Len(tokens)
  /\ record \in [Owners -> RecordOf]
  /\ latest \in [token : 0..Len(tokens), result : Results]
  /\ reads \in [Slot -> Reading] /\ request \in Reading
  /\ bar \in {Unread} \cup Nat

\* What a wallet was once told holds of its record: its claim has got at least so far, a
\* card is its card, and the War Points are among those it has.
Holds(w, res) ==
  /\ res.status \notin {"nothing", "READ", "FAILED"} => Rank(res.status) <= Rank(record[w].status)
  /\ res.status \in Cards => record[w].status = res.status
  /\ res.status = "READ" => res.points <= record[w].points
  /\ res.card \in {NoCard, record[w].card}

\* A call that is out has a token of the page's, and its answer holds of the token's wallet.
AnswerHolds(r) ==
  /\ r.at # "idle" => r.token \in 1..Len(tokens)
  /\ r.at = "answered" => Holds(Owner(r.token), r.result)

LatestHolds == latest.token # 0 => Holds(Owner(latest.token), latest.result)

BarHolds == bar # Unread => session # 0 /\ bar <= record[Owner(session)].points

\* A profile that is ready has put its card in the pick controls.
CardIsSet == hook = "PROFILE" /\ Kind = "READY" => held = readCard

\* A page that polls is signed in: signing out is a dependency of the effect.
TimerStops == timer => readable

PersonalInv ==
  /\ PersonalTypeOK /\ LatestHolds /\ BarHolds /\ CardIsSet /\ TimerStops
  /\ AnswerHolds(request) /\ \A i \in Slot : AnswerHolds(reads[i])

\* Records only go forward, and tokens are only added.
RecordsGrow ==
  \A w \in Owners :
    /\ record[w].points <= record'[w].points
    /\ Rank(record[w].status) <= Rank(record'[w].status)
    /\ record[w].status \in Cards => record'[w].status = record[w].status
    /\ record[w].card \in {NoCard, record'[w].card}

TokensStay ==
  /\ Len(tokens) <= Len(tokens')
  /\ \A t \in 1..Len(tokens) : tokens'[t] = tokens[t]

LEMMA RankOK == \A s : Rank(s) \in 0..3
BY DEF Rank

LEMMA ResultsOK ==
  /\ Nothing \in Results /\ Failed \in Results /\ Result("NOT_ELIGIBLE", 0) \in Results
  /\ RecordOf \subseteq Results /\ Idle \in Reading
BY DEF Results, Idle, Reading

LEMMA ResultFields ==
  /\ Nothing.status = "nothing" /\ Failed.status = "FAILED"
  /\ Result("NOT_ELIGIBLE", 0).status = "NOT_ELIGIBLE"
  /\ Failed.card = NoCard /\ Result("NOT_ELIGIBLE", 0).card = NoCard
  /\ \A r \in Results : r.points \in Nat /\ (r.status = "FAILED" => r = Failed)
<1>1. \A r \in RecordOf : r.points \in Nat /\ r.status # "FAILED"
  BY GenesisPageAssumption DEF RecordOf, Recorded
<1> QED
  BY <1>1 DEF Results, Nothing, Failed, Result

LEMMA PersonalStarts == ASSUME GenesisPageInit PROVE PersonalInv
<1>1. tokens = << >> /\ Len(tokens) = 0 /\ tokens \in Seq(Owners)
  BY EmptySeq DEF GenesisPageInit
<1>2. record \in [Owners -> RecordOf]
  BY DEF GenesisPageInit, RecordOf, Recorded, Result
<1>3. /\ latest = [token |-> 0, result |-> Nothing] /\ request = Idle
      /\ reads = [i \in Slot |-> Idle] /\ bar = Unread /\ session = 0 /\ timer = FALSE
  BY DEF GenesisPageInit, NoAnswer
<1>4. PersonalTypeOK
  BY <1>1, <1>2, <1>3, ResultsOK DEF PersonalTypeOK
<1>5. Idle.at = "idle" /\ \A i \in Slot : reads[i].at = "idle"
  BY <1>3 DEF Idle
<1>6. CardIsSet
  BY <1>3 DEF CardIsSet, Kind, readable
<1> QED
  BY <1>3, <1>4, <1>5, <1>6 DEF PersonalInv, LatestHolds, BarHolds, TimerStops, AnswerHolds

\* What was true of an answer stays true.
LEMMA HoldsStays ==
  ASSUME PersonalInv, RecordsGrow, record' \in [Owners -> RecordOf],
         NEW w \in Owners, NEW res \in Results, Holds(w, res)
  PROVE  Holds(w, res)'
<1>1. /\ record[w].points <= record'[w].points
      /\ Rank(record[w].status) <= Rank(record'[w].status)
      /\ record[w].status \in Cards => record'[w].status = record[w].status
      /\ record[w].card \in {NoCard, record'[w].card}
      /\ record[w].points \in Nat /\ record'[w].points \in Nat /\ res.points \in Nat
  BY ResultFields DEF RecordsGrow, PersonalInv, PersonalTypeOK, RecordOf
<1>2. res.status \notin {"nothing", "READ", "FAILED"} =>
        Rank(res.status) <= Rank(record'[w].status)
  BY <1>1, RankOK DEF Holds
<1> QED
  BY <1>1, <1>2 DEF Holds

LEMMA AnswerStays ==
  ASSUME PersonalInv, RecordsGrow, record' \in [Owners -> RecordOf], TokensStay,
         tokens' \in Seq(Owners), NEW r \in Reading, AnswerHolds(r)
  PROVE  AnswerHolds(r)'
<1>1. Len(tokens) \in Nat /\ Len(tokens') \in Nat /\ tokens \in Seq(Owners)
  BY LenProperties DEF PersonalInv, PersonalTypeOK
<1>2. r.at # "idle" => r.token \in 1..Len(tokens')
  BY <1>1 DEF AnswerHolds, TokensStay
<1>3. ASSUME r.at = "answered"
      PROVE  Holds(Owner(r.token), r.result)'
  <2>1. r.token \in 1..Len(tokens) /\ Holds(Owner(r.token), r.result)
    BY <1>3 DEF AnswerHolds
  <2>2. PICK w \in Owners : w = tokens[r.token]
    BY <1>1, <2>1, ElementOfSeq
  <2>3. tokens'[r.token] = w
    BY <2>1, <2>2 DEF TokensStay
  <2>4. r.result \in Results
    BY DEF Reading
  <2>5. Holds(w, r.result)'
    BY <2>1, <2>2, <2>4, HoldsStays DEF Owner
  <2>6. QED
    BY <2>3, <2>5 DEF Owner, Holds
<1> QED
  BY <1>2, <1>3 DEF AnswerHolds

\* What the cleanup and the effect make of the reads: each is as it was, aborted, gone, or
\* a new one with the token the page now has.
LEMMA EffectReads ==
  ASSUME NEW rs \in [Slot -> Reading], NEW again \in BOOLEAN, Effect(rs, again),
         \A i \in Slot : AnswerHolds(rs[i])',
         session' \in 0..Len(tokens'), Len(tokens') \in Nat, hook' = hook,
         TimerStops
  PROVE  /\ reads' \in [Slot -> Reading] /\ \A i \in Slot : AnswerHolds(reads[i])'
         /\ TimerStops'
<1>1. PICK fresh : fresh = [at |-> "sent", token |-> session', live |-> TRUE, result |-> Nothing]
  OBVIOUS
<1>2. fresh \in Reading /\ (readable' => AnswerHolds(fresh)')
  BY <1>1, ResultsOK DEF Reading, AnswerHolds, readable
<1>3. PICK gone : gone = Aborted(rs)
  OBVIOUS
<1>4. gone \in [Slot -> Reading] /\ \A i \in Slot : AnswerHolds(gone[i])'
  <2> SUFFICES ASSUME NEW i \in Slot PROVE gone[i] \in Reading /\ AnswerHolds(gone[i])'
    BY <1>3 DEF Aborted
  <2>1. CASE rs[i].at = "sent"
    <3>1. PICK r : r = [rs[i] EXCEPT !.live = FALSE]
      OBVIOUS
    <3>2. gone[i] = r
      BY <1>3, <2>1, <3>1 DEF Aborted
    <3>3. r \in Reading /\ r.live = FALSE /\ r.token = rs[i].token /\ r.at = rs[i].at
      BY <3>1 DEF Reading
    <3>4. AnswerHolds(r)'
      BY <2>1, <3>3 DEF AnswerHolds
    <3>5. QED
      BY <3>2, <3>3, <3>4
  <2>2. CASE rs[i].at # "sent"
    <3>1. gone[i] = Idle
      BY <1>3, <2>2 DEF Aborted
    <3>2. Idle.at = "idle"
      BY DEF Idle
    <3>3. QED
      BY <3>1, <3>2, ResultsOK DEF AnswerHolds
  <2>3. QED
    BY <2>1, <2>2
<1>5. CASE again \/ Dependencies' # Dependencies
  <2>1. /\ timer' = (readable' /\ sealing')
        /\ reads' = IF readable' THEN Sent(gone, session') ELSE gone
    BY <1>3, <1>5 DEF Effect
  <2>2. CASE readable'
    <3>1. PICK k : reads' = [gone EXCEPT ![k] = fresh]
      BY <1>1, <2>1, <2>2 DEF Sent
    <3>2. \A i \in Slot : reads'[i] \in {gone[i], fresh}
      BY <1>4, <3>1
    <3>3. reads' \in [Slot -> Reading]
      BY <1>2, <1>4, <3>1
    <3>4. ASSUME NEW i \in Slot PROVE AnswerHolds(reads[i])'
      <4>1. PICK r : r = reads'[i]
        OBVIOUS
      <4>2. AnswerHolds(r)'
        <5>1. CASE r = fresh
          BY <1>2, <2>2, <5>1
        <5>2. CASE r = gone[i]
          BY <1>4, <5>2
        <5>3. QED
          BY <3>2, <4>1, <5>1, <5>2
      <4>3. QED
        BY <4>1, <4>2
    <3>5. QED
      BY <2>1, <2>2, <3>3, <3>4 DEF TimerStops
  <2>3. CASE ~readable'
    BY <1>4, <2>1, <2>3 DEF TimerStops
  <2>4. QED
    BY <2>2, <2>3
<1>6. CASE ~(again \/ Dependencies' # Dependencies)
  <2>1. timer' = timer /\ reads' = rs
    BY <1>6 DEF Effect
  <2>2. readable' = readable
    BY <1>6 DEF Dependencies
  <2>3. QED
    BY <2>1, <2>2 DEF TimerStops
<1> QED
  BY <1>5, <1>6

\* War Points that are shown are the session's wallet's, before a step and after it.
LEMMA PointsShown ==
  ASSUME PersonalTypeOK, LatestHolds, ReadWarPoints # Unread
  PROVE  /\ session # 0 /\ ReadWarPoints \in Nat
         /\ ReadWarPoints <= record[Owner(session)].points
<1>1. Shown = "READ" /\ ReadWarPoints = latest.result.points
  BY DEF ReadWarPoints
<1>2. Kind = "READY" /\ latest.result.status = "READ"
  BY <1>1, ResultFields DEF Shown, Nothing, Result
<1>3. session # 0 /\ latest.token = session
  BY <1>2 DEF Kind, readable
<1>4. latest.result \in Results
  BY DEF PersonalTypeOK
<1> QED
  BY <1>1, <1>2, <1>3, <1>4, ResultFields DEF LatestHolds, Holds

LEMMA PointsShownNext ==
  ASSUME PersonalTypeOK', LatestHolds', ReadWarPoints' # Unread
  PROVE  /\ session' # 0 /\ ReadWarPoints' \in Nat
         /\ ReadWarPoints' <= record'[Owner(session)'].points
<1>1. Shown' = "READ" /\ ReadWarPoints' = latest'.result.points
  BY DEF ReadWarPoints
<1>2. Kind' = "READY" /\ latest'.result.status = "READ"
  BY <1>1, ResultFields DEF Shown, Nothing, Result
<1>3. session' # 0 /\ latest'.token = session'
  BY <1>2 DEF Kind, readable
<1>4. latest'.result \in Results
  BY DEF PersonalTypeOK
<1> QED
  BY <1>1, <1>2, <1>3, <1>4, ResultFields DEF LatestHolds, Holds, Owner

LEMMA RenderedKeeps ==
  ASSUME PersonalInv, NEW rs \in [Slot -> Reading], NEW again \in BOOLEAN,
         NEW adopted \in BOOLEAN, NEW fast, Rendered(rs, again, adopted, fast),
         \A i \in Slot : AnswerHolds(rs[i])',
         hook' = hook, record' = record, tokens' \in Seq(Owners), session' \in 0..Len(tokens'),
         latest' \in [token : 0..Len(tokens'), result : Results], LatestHolds',
         request' \in Reading, AnswerHolds(request)',
         ~adopted => session' = session /\ tokens' = tokens
  PROVE  PersonalInv'
<1>1. Len(tokens') \in Nat
  BY LenProperties
<1>2. Effect(rs, again) /\ Bar(adopted) /\ SetCard
  BY DEF Rendered
<1>3. /\ reads' \in [Slot -> Reading] /\ \A i \in Slot : AnswerHolds(reads[i])'
      /\ TimerStops'
  BY <1>1, <1>2, EffectReads DEF PersonalInv
<1>4. bar' \in {Unread} \cup Nat
  <2>1. ReadWarPoints' \in {Unread} \cup Nat
    BY ResultFields DEF ReadWarPoints
  <2>2. QED
    BY <1>2, <2>1 DEF Bar, PersonalInv, PersonalTypeOK
<1>5. PersonalTypeOK'
  BY <1>3, <1>4 DEF PersonalInv, PersonalTypeOK
<1>6. BarHolds'
  <2> SUFFICES ASSUME bar' # Unread
               PROVE  session' # 0 /\ bar' <= record'[Owner(session)'].points
    BY DEF BarHolds
  <2>1. CASE session' # 0 /\ ReadWarPoints' # Unread /\ ReadWarPoints' # ReadWarPoints
    BY <1>2, <1>5, <2>1, PointsShownNext DEF Bar
  <2>2. CASE ~(session' # 0 /\ ReadWarPoints' # Unread /\ ReadWarPoints' # ReadWarPoints)
    <3>1. ~adopted /\ bar' = bar
      BY <1>2, <2>2 DEF Bar
    <3>2. QED
      BY <3>1 DEF PersonalInv, BarHolds, Owner
  <2>3. QED
    BY <2>1, <2>2
<1>7. CardIsSet'
  BY <1>2 DEF SetCard, CardIsSet, PersonalInv
<1> QED
  BY <1>3, <1>5, <1>6, <1>7 DEF PersonalInv

\* With the records and the tokens as they were, every answer is as good as it was.
LEMMA NothingMoved ==
  ASSUME PersonalInv, record' = record, tokens' = tokens, NEW r, AnswerHolds(r)
  PROVE  AnswerHolds(r)'
BY DEF AnswerHolds, Holds, Owner

LEMMA AdoptStep ==
  ASSUME PersonalInv, NEW w \in Owners, Adopt(w) PROVE PersonalInv'
<1>1. /\ tokens' = Append(tokens, w) /\ session' = Len(tokens) + 1 /\ hook' = hook
      /\ latest' = latest /\ request' = request /\ record' = record
      /\ Rendered(reads, FALSE, TRUE, reveal.fast)
  BY DEF Adopt, serverVars
<1>2. tokens \in Seq(Owners) /\ PersonalTypeOK
  BY DEF PersonalInv, PersonalTypeOK
<1>3. /\ tokens' \in Seq(Owners) /\ Len(tokens') = Len(tokens) + 1 /\ Len(tokens) \in Nat
      /\ \A t \in 1..Len(tokens) : tokens'[t] = tokens[t]
  BY <1>1, <1>2, AppendProperties, LenProperties
<1>4. TokensStay /\ RecordsGrow /\ record' \in [Owners -> RecordOf]
  <2>1. RecordsGrow
    <3> SUFFICES ASSUME NEW v \in Owners
                 PROVE  /\ record[v].points <= record[v].points
                        /\ Rank(record[v].status) <= Rank(record[v].status)
      BY <1>1 DEF RecordsGrow
    <3>1. record[v].points \in Nat /\ Rank(record[v].status) \in 0..3
      BY <1>2, RankOK DEF PersonalTypeOK, RecordOf
    <3>2. QED
      BY <3>1
  <2>2. QED
    BY <1>1, <1>2, <1>3, <2>1 DEF TokensStay, PersonalTypeOK
<1>5. PICK rs \in [Slot -> Reading] : rs = reads
  BY <1>2 DEF PersonalTypeOK
<1>6. \A i \in Slot : AnswerHolds(rs[i])'
  BY <1>3, <1>4, <1>5, AnswerStays DEF PersonalInv
<1>7. PICK r \in Reading : r = request
  BY <1>2 DEF PersonalTypeOK
<1>8. AnswerHolds(request)'
  <2>1. AnswerHolds(r)'
    BY <1>3, <1>4, <1>7, AnswerStays DEF PersonalInv
  <2>2. QED
    BY <1>1, <1>7, <2>1
<1>9. LatestHolds' /\ latest' \in [token : 0..Len(tokens'), result : Results]
  <2>1. latest \in [token : 0..Len(tokens), result : Results]
    BY <1>2 DEF PersonalTypeOK
  <2>2. latest' \in [token : 0..Len(tokens'), result : Results]
    BY <1>1, <1>3, <2>1
  <2>3. LatestHolds'
    BY <1>1, <1>3, <2>1 DEF PersonalInv, LatestHolds, Holds, Owner
  <2>4. QED
    BY <2>2, <2>3
<1>10. session' \in 0..Len(tokens')
  BY <1>1, <1>3
<1> QED
  BY <1>1, <1>2, <1>3, <1>5, <1>6, <1>8, <1>9, <1>10, RenderedKeeps DEF PersonalTypeOK

\* A step that renders while the tokens and the records stand still.
LEMMA RenderedInPlace ==
  ASSUME PersonalInv, NEW rs \in [Slot -> Reading], NEW again \in BOOLEAN,
         NEW adopted \in BOOLEAN, NEW fast, Rendered(rs, again, adopted, fast),
         \A i \in Slot : AnswerHolds(rs[i]),
         hook' = hook, record' = record, tokens' = tokens,
         session' \in {session, 0}, ~adopted => session' = session,
         NEW req \in Reading, request' = req, AnswerHolds(req),
         NEW last \in [token : 0..Len(tokens), result : Results], latest' = last,
         last.token # 0 => Holds(Owner(last.token), last.result)
  PROVE  PersonalInv'
<1>1. tokens \in Seq(Owners) /\ session \in 0..Len(tokens) /\ Len(tokens) \in Nat
  BY LenProperties DEF PersonalInv, PersonalTypeOK
<1>2. \A i \in Slot : AnswerHolds(rs[i])'
  BY NothingMoved
<1>3. AnswerHolds(req)'
  BY NothingMoved
<1>4. AnswerHolds(request)'
  BY <1>3
<1>5. LatestHolds'
  BY DEF LatestHolds, Holds, Owner
<1>6. session' \in 0..Len(tokens') /\ tokens' \in Seq(Owners)
  BY <1>1
<1>7. latest' \in [token : 0..Len(tokens'), result : Results] /\ request' \in Reading
  OBVIOUS
<1> QED
  BY <1>2, <1>4, <1>5, <1>6, <1>7, RenderedKeeps

LEMMA InPlaceFacts ==
  ASSUME PersonalInv
  PROVE  /\ \E rs \in [Slot -> Reading] : rs = reads /\ \A i \in Slot : AnswerHolds(rs[i])
         /\ \E req \in Reading : req = request /\ AnswerHolds(req)
         /\ \E last \in [token : 0..Len(tokens), result : Results] :
              /\ last = latest
              /\ last.token # 0 => Holds(Owner(last.token), last.result)
BY DEF PersonalInv, PersonalTypeOK, LatestHolds

\* Signing out, the route, another try, and news of a finalized round.
LEMMA PlayerSteps ==
  ASSUME PersonalInv, SignOut \/ OpenOrClose \/ Retry \/ HearFinalized
  PROVE  PersonalInv'
<1>1. PICK rs \in [Slot -> Reading] : rs = reads /\ \A i \in Slot : AnswerHolds(rs[i])
  BY InPlaceFacts
<1>2. PICK req \in Reading : req = request /\ AnswerHolds(req)
  BY InPlaceFacts
<1>3. PICK last \in [token : 0..Len(tokens), result : Results] :
        /\ last = latest
        /\ last.token # 0 => Holds(Owner(last.token), last.result)
  BY InPlaceFacts
<1>4. /\ hook' = hook /\ record' = record /\ tokens' = tokens
      /\ request' = req /\ latest' = last
  BY <1>2, <1>3 DEF SignOut, OpenOrClose, Retry, HearFinalized, serverVars, playerVars
<1>5. PICK again \in BOOLEAN, adopted \in BOOLEAN :
        /\ Rendered(rs, again, adopted, reveal.fast)
        /\ session' \in {session, 0} /\ (~adopted => session' = session)
  BY <1>1 DEF SignOut, OpenOrClose, Retry, HearFinalized, playerVars
<1>6. PICK fast : fast = reveal.fast
  OBVIOUS
<1> QED
  BY <1>1, <1>2, <1>3, <1>4, <1>5, <1>6, RenderedInPlace

LEMMA ReadBackStep ==
  ASSUME PersonalInv, NEW i \in Slot, ReadBack(i)
  PROVE  PersonalInv'
<1>1. PICK rs \in [Slot -> Reading] : rs = reads /\ \A k \in Slot : AnswerHolds(rs[k])
  BY InPlaceFacts
<1>2. PICK req \in Reading : req = request /\ AnswerHolds(req)
  BY InPlaceFacts
<1>3. PICK old \in [token : 0..Len(tokens), result : Results] :
        /\ old = latest
        /\ old.token # 0 => Holds(Owner(old.token), old.result)
  BY InPlaceFacts
<1>4. PICK r \in Reading : r = rs[i] /\ r.at = "answered" /\ AnswerHolds(r)
  BY <1>1 DEF ReadBack
<1>5. PICK last : last = IF r.live THEN [token |-> r.token, result |-> r.result] ELSE old
  OBVIOUS
<1>6. /\ last \in [token : 0..Len(tokens), result : Results]
      /\ last.token # 0 => Holds(Owner(last.token), last.result)
  <2>1. CASE r.live
    <3>1. last = [token |-> r.token, result |-> r.result]
      BY <1>5, <2>1
    <3>2. r.token \in 1..Len(tokens) /\ Holds(Owner(r.token), r.result) /\ r.result \in Results
      BY <1>4, <2>1 DEF AnswerHolds, Reading
    <3>3. r.token \in 0..Len(tokens)
      BY <3>2, LenProperties DEF PersonalInv, PersonalTypeOK
    <3>4. QED
      BY <3>1, <3>2, <3>3
  <2>2. CASE ~r.live
    BY <1>3, <1>5, <2>2
  <2>3. QED
    BY <2>1, <2>2
<1>7. PICK taken : taken = [rs EXCEPT ![i] = Idle]
  OBVIOUS
<1>8. taken \in [Slot -> Reading] /\ \A k \in Slot : AnswerHolds(taken[k])
  <2>1. AnswerHolds(Idle)
    BY DEF AnswerHolds, Idle
  <2>2. QED
    BY <1>1, <1>7, <2>1, ResultsOK
<1>9. PICK fast : fast = reveal.fast
  OBVIOUS
<1>10. /\ hook' = hook /\ record' = record /\ tokens' = tokens /\ session' = session
       /\ request' = req /\ latest' = last /\ Rendered(taken, FALSE, FALSE, fast)
  BY <1>1, <1>2, <1>3, <1>4, <1>5, <1>7, <1>9 DEF ReadBack, serverVars, playerVars
<1> QED
  BY <1>2, <1>6, <1>8, <1>10, RenderedInPlace

LEMMA RequestBackStep ==
  ASSUME PersonalInv, RequestBack
  PROVE  PersonalInv'
<1>1. PICK rs \in [Slot -> Reading] : rs = reads /\ \A k \in Slot : AnswerHolds(rs[k])
  BY InPlaceFacts
<1>2. PICK req \in Reading : req = request /\ AnswerHolds(req)
  BY InPlaceFacts
<1>3. PICK old \in [token : 0..Len(tokens), result : Results] :
        /\ old = latest
        /\ old.token # 0 => Holds(Owner(old.token), old.result)
  BY InPlaceFacts
<1>4. req.at = "answered"
  BY <1>2 DEF RequestBack
<1>5. PICK last : last = IF req.result = Failed THEN old
                         ELSE [token |-> req.token, result |-> req.result]
  OBVIOUS
<1>6. /\ last \in [token : 0..Len(tokens), result : Results]
      /\ last.token # 0 => Holds(Owner(last.token), last.result)
  <2>1. req.token \in 1..Len(tokens) /\ Holds(Owner(req.token), req.result)
        /\ req.result \in Results
    BY <1>2, <1>4 DEF AnswerHolds, Reading
  <2>2. req.token \in 0..Len(tokens)
    BY <2>1, LenProperties DEF PersonalInv, PersonalTypeOK
  <2>3. QED
    BY <1>3, <1>5, <2>1, <2>2
<1>7. AnswerHolds(Idle) /\ Idle \in Reading
  BY ResultsOK DEF AnswerHolds, Idle
<1>8. PICK fast : fast = reveal.fast
  OBVIOUS
<1>9. /\ hook' = hook /\ record' = record /\ tokens' = tokens /\ session' = session
      /\ request' = Idle /\ latest' = last /\ Rendered(rs, FALSE, FALSE, fast)
  BY <1>1, <1>2, <1>3, <1>5, <1>8 DEF RequestBack, serverVars, playerVars
<1> QED
  BY <1>1, <1>6, <1>7, <1>9, RenderedInPlace

LEMMA RequestCardStep ==
  ASSUME PersonalInv, RequestCard
  PROVE  PersonalInv'
<1>1. session # 0 /\ session \in 1..Len(tokens)
  <2>1. genesisViewFrom("nothing") = "UNPUBLISHED"
    BY GenesisPageAssumption DEF genesisViewFrom
  <2>2. Shown # "nothing"
    BY <2>1 DEF RequestCard
  <2>3. Kind = "READY"
    BY <2>2, ResultFields DEF Shown
  <2>4. session # 0
    BY <2>3 DEF Kind, readable
  <2>5. QED
    BY <2>4, LenProperties DEF PersonalInv, PersonalTypeOK
<1>2. PICK req : req = [at |-> "sent", token |-> session, live |-> TRUE, result |-> Nothing]
  OBVIOUS
<1>3. req \in Reading /\ AnswerHolds(req)
  BY <1>1, <1>2, ResultsOK DEF Reading, AnswerHolds
<1>4. /\ request' = req /\ hook' = hook /\ tokens' = tokens /\ session' = session
      /\ open' = open /\ latest' = latest /\ timer' = timer /\ reads' = reads /\ bar' = bar
      /\ held' = held
      /\ record' = record
  BY <1>2 DEF RequestCard, playerVars, serverVars
<1>5. AnswerHolds(req)'
  BY <1>3, <1>4, NothingMoved
<1>6. AnswerHolds(request)'
  BY <1>4, <1>5
<1>7. \A i \in Slot : AnswerHolds(reads[i])'
  BY <1>4 DEF PersonalInv, AnswerHolds, Holds, Owner
<1>8. PersonalTypeOK'
  BY <1>3, <1>4 DEF PersonalInv, PersonalTypeOK
<1>9. LatestHolds' /\ BarHolds' /\ CardIsSet' /\ TimerStops'
  BY <1>4 DEF PersonalInv, CardIsSet, Kind, readCard, LatestHolds, BarHolds, TimerStops, Holds, Owner, readable
<1> QED
  BY <1>6, <1>7, <1>8, <1>9 DEF PersonalInv

\* The interval sends a read for the session the page has: it runs only while signed in.
LEMMA PollStep ==
  ASSUME PersonalInv, Poll
  PROVE  PersonalInv'
<1>1. session # 0 /\ session \in 1..Len(tokens)
  <2>1. session # 0
    BY DEF Poll, PersonalInv, TimerStops, readable
  <2>2. QED
    BY <2>1, LenProperties DEF PersonalInv, PersonalTypeOK
<1>2. PICK fresh : fresh = [at |-> "sent", token |-> session, live |-> TRUE, result |-> Nothing]
  OBVIOUS
<1>3. fresh \in Reading /\ AnswerHolds(fresh)
  BY <1>1, <1>2, ResultsOK DEF Reading, AnswerHolds
<1>4. PICK rs \in [Slot -> Reading] : rs = reads /\ \A i \in Slot : AnswerHolds(rs[i])
  BY InPlaceFacts
<1>5. PICK k : reads' = [rs EXCEPT ![k] = fresh]
  BY <1>2, <1>4 DEF Poll, Sent
<1>6. PICK sent : sent = [rs EXCEPT ![k] = fresh]
  OBVIOUS
<1>7. sent \in [Slot -> Reading] /\ \A i \in Slot : AnswerHolds(sent[i])
  BY <1>3, <1>4, <1>6
<1>8. /\ reads' = sent /\ request' = request /\ hook' = hook /\ tokens' = tokens
      /\ session' = session /\ open' = open /\ latest' = latest /\ timer' = timer
      /\ bar' = bar /\ held' = held /\ record' = record
  BY <1>5, <1>6 DEF Poll, playerVars, serverVars
<1>9. \A i \in Slot : AnswerHolds(sent[i])'
  BY <1>7, <1>8, NothingMoved
<1>10. \A i \in Slot : AnswerHolds(reads[i])'
  BY <1>8, <1>9
<1>11. AnswerHolds(request)'
  BY <1>8 DEF PersonalInv, AnswerHolds, Holds, Owner
<1>12. PersonalTypeOK'
  BY <1>7, <1>8 DEF PersonalInv, PersonalTypeOK
<1>13. LatestHolds' /\ BarHolds' /\ CardIsSet' /\ TimerStops'
  BY <1>8 DEF PersonalInv, CardIsSet, Kind, readCard, LatestHolds, BarHolds, TimerStops, Holds, Owner, readable
<1> QED
  BY <1>10, <1>11, <1>12, <1>13 DEF PersonalInv

\* Nothing the invariant speaks of changes.
LEMMA QuietStep ==
  ASSUME PersonalInv,
         hook' = hook, tokens' = tokens, session' = session, open' = open, latest' = latest,
         timer' = timer, reads' = reads, request' = request, bar' = bar, held' = held,
         record' = record
  PROVE  PersonalInv'
BY DEF PersonalInv, PersonalTypeOK, AnswerHolds, LatestHolds, BarHolds, CardIsSet, TimerStops,
       Holds, Owner, readable, Kind, readCard

\* The server worked on a record, and what it answered holds of it.
LEMMA ServedKeeps ==
  ASSUME PersonalInv, RecordsGrow, record' \in [Owners -> RecordOf],
         hook' = hook, tokens' = tokens, session' = session, open' = open, latest' = latest,
         timer' = timer, bar' = bar, held' = held,
         reads' \in [Slot -> Reading], request' \in Reading,
         AnswerHolds(request)', \A i \in Slot : AnswerHolds(reads[i])'
  PROVE  PersonalInv'
<1>1. PersonalTypeOK'
  BY DEF PersonalInv, PersonalTypeOK
<1>2. LatestHolds'
  <2> SUFFICES ASSUME latest.token # 0
               PROVE  Holds(Owner(latest.token), latest.result)'
    BY DEF LatestHolds
  <2>1. latest.token \in 1..Len(tokens) /\ latest.result \in Results /\ tokens \in Seq(Owners)
    BY LenProperties DEF PersonalInv, PersonalTypeOK
  <2>2. PICK w \in Owners : w = tokens[latest.token]
    BY <2>1, ElementOfSeq
  <2>3. PICK res \in Results : res = latest.result
    BY <2>1
  <2>4. Holds(w, res)
    BY <2>2, <2>3 DEF PersonalInv, LatestHolds, Owner
  <2>5. Holds(w, res)'
    BY <2>4, HoldsStays
  <2>6. QED
    BY <2>2, <2>3, <2>5 DEF Owner, Holds
<1>3. BarHolds'
  <2> SUFFICES ASSUME bar # Unread
               PROVE  session # 0 /\ bar <= record'[Owner(session)].points
    BY DEF BarHolds, Owner
  <2>1. session # 0 /\ bar <= record[Owner(session)].points /\ bar \in Nat
        /\ session \in 0..Len(tokens) /\ tokens \in Seq(Owners)
    BY DEF PersonalInv, BarHolds, PersonalTypeOK
  <2>2. session \in 1..Len(tokens)
    BY <2>1, LenProperties
  <2>3. PICK w \in Owners : w = Owner(session)
    BY <2>1, <2>2, ElementOfSeq DEF Owner
  <2>4. /\ record[w].points <= record'[w].points /\ record[w].points \in Nat
        /\ record'[w].points \in Nat
    BY DEF RecordsGrow, PersonalInv, PersonalTypeOK, RecordOf
  <2>5. QED
    BY <2>1, <2>3, <2>4
<1>4. TimerStops' /\ CardIsSet'
  BY DEF PersonalInv, TimerStops, CardIsSet, readable, Kind, readCard
<1> QED
  BY <1>1, <1>2, <1>3, <1>4 DEF PersonalInv

\* A record gets more War Points, or its card, and nothing else happens.
LEMMA RecordStep ==
  ASSUME PersonalInv, NEW w \in Owners, NEW rec \in RecordOf,
         record' = [record EXCEPT ![w] = rec], rec.status = record[w].status,
         record[w].points <= rec.points, record[w].card \in {NoCard, rec.card},
         reads' = reads, request' = request, hook' = hook, tokens' = tokens,
         session' = session, open' = open, latest' = latest, timer' = timer, bar' = bar,
         held' = held
  PROVE  PersonalInv'
<1>1. PersonalTypeOK /\ record \in [Owners -> RecordOf]
  BY DEF PersonalInv, PersonalTypeOK
<1>2. record' \in [Owners -> RecordOf]
  BY <1>1
<1>3. RecordsGrow
  <2> SUFFICES ASSUME NEW v \in Owners
               PROVE  /\ record[v].points <= record'[v].points
                      /\ Rank(record[v].status) <= Rank(record'[v].status)
                      /\ record[v].status \in Cards => record'[v].status = record[v].status
                      /\ record[v].card \in {NoCard, record'[v].card}
    BY DEF RecordsGrow
  <2>1. record[v].points \in Nat /\ Rank(record[v].status) \in 0..3
    BY <1>1, RankOK DEF RecordOf
  <2>2. record'[v] \in {record[v], rec} /\ (v # w => record'[v] = record[v])
    BY <1>1
  <2>3. record'[v].status = record[v].status
    BY <2>2
  <2>4. record[v].points <= record'[v].points /\ record[v].card \in {NoCard, record'[v].card}
    BY <2>1, <2>2
  <2>5. QED
    BY <2>1, <2>3, <2>4
<1>4. TokensStay /\ tokens' \in Seq(Owners)
  BY <1>1, LenProperties DEF TokensStay, PersonalTypeOK
<1>5. PICK req \in Reading : req = request /\ AnswerHolds(req)
  BY InPlaceFacts
<1>6. AnswerHolds(req)'
  BY <1>2, <1>3, <1>4, <1>5, AnswerStays
<1>7. PICK rs \in [Slot -> Reading] : rs = reads /\ \A i \in Slot : AnswerHolds(rs[i])
  BY InPlaceFacts
<1>8. \A i \in Slot : AnswerHolds(rs[i])'
  BY <1>2, <1>3, <1>4, <1>7, AnswerStays
<1>9. AnswerHolds(request)' /\ \A i \in Slot : AnswerHolds(reads[i])'
  BY <1>5, <1>6, <1>7, <1>8
<1>10. reads' \in [Slot -> Reading] /\ request' \in Reading
  BY <1>5, <1>7
<1> QED
  BY <1>2, <1>3, <1>9, <1>10, ServedKeeps

LEMMA PayOutStep ==
  ASSUME PersonalInv, NEW w \in Owners, PayOut(w)
  PROVE  PersonalInv'
<1>1. PICK paid : paid = [record[w] EXCEPT !.points = @ + 1]
  OBVIOUS
<1>2. record \in [Owners -> RecordOf]
  BY DEF PersonalInv, PersonalTypeOK
<1>3. /\ paid \in RecordOf /\ paid.status = record[w].status /\ paid.card = record[w].card
      /\ record[w].points <= paid.points
  BY <1>1, <1>2 DEF RecordOf
<1>4. record' = [record EXCEPT ![w] = paid]
  BY <1>1, <1>2 DEF PayOut
<1> QED
  BY <1>3, <1>4, RecordStep DEF PayOut, playerVars

LEMMA DealCardStep ==
  ASSUME PersonalInv, NEW w \in Owners, DealCard(w)
  PROVE  PersonalInv'
<1>1. PICK c \in Cards : record' = [record EXCEPT ![w].card = c] /\ record[w].card = NoCard
  BY DEF DealCard
<1>2. PICK dealt : dealt = [record[w] EXCEPT !.card = c]
  OBVIOUS
<1>3. record \in [Owners -> RecordOf]
  BY DEF PersonalInv, PersonalTypeOK
<1>4. /\ dealt \in RecordOf /\ dealt.status = record[w].status
      /\ record[w].points <= dealt.points
  BY <1>2, <1>3 DEF RecordOf
<1>5. record' = [record EXCEPT ![w] = dealt]
  BY <1>1, <1>2, <1>3
<1> QED
  BY <1>1, <1>4, <1>5, RecordStep DEF DealCard, playerVars

\* What the server may leave a claim at: no earlier than it was, and a card stays the card.
LEMMA ClaimsGoForward ==
  ASSUME NEW w \in Owners, NEW at \in Opened(w), record[w] \in RecordOf
  PROVE  /\ at \in Recorded /\ Rank(record[w].status) <= Rank(at)
         /\ record[w].status \in Cards => at = record[w].status
<1>1. record[w].status \in Recorded
  BY DEF RecordOf
<1>2. PICK was : was = record[w].status
  OBVIOUS
<1>3. Reserved(w) \in {"SECRET", "RESERVING"} /\ "SECRET" \in Cards
  BY GenesisPageAssumption DEF Reserved
<1>4. CASE was = "NONE"
  <2>1. at \in {"NONE", "PENDING_FINALITY"} /\ was \notin Cards
    BY <1>2, <1>4, GenesisPageAssumption DEF Opened
  <2>2. QED
    BY <1>2, <1>4, <2>1 DEF Rank, Recorded
<1>5. CASE was # "NONE"
  <2>1. at \in Advanced(w)
    BY <1>2, <1>5 DEF Opened
  <2>2. CASE was = "PENDING_FINALITY"
    <3>1. at \in Cards \cup {"PENDING_FINALITY", "RESERVING"} /\ was \notin Cards
      BY <1>2, <1>3, <2>1, <2>2, GenesisPageAssumption DEF Advanced
    <3>2. Rank(was) = 1
      BY <2>2 DEF Rank
    <3>3. Rank(at) \in 1..3
      BY <3>1, GenesisPageAssumption DEF Rank
    <3>4. QED
      BY <1>2, <3>1, <3>2, <3>3 DEF Recorded
  <2>3. CASE was = "RESERVING"
    <3>1. at \in {"SECRET", "RESERVING"} /\ was \notin Cards
      BY <1>2, <1>3, <2>1, <2>3, GenesisPageAssumption DEF Advanced
    <3>2. Rank(was) = 2
      BY <2>3 DEF Rank
    <3>3. Rank(at) \in 2..3
      BY <3>1, GenesisPageAssumption DEF Rank
    <3>4. QED
      BY <1>2, <1>3, <3>1, <3>2, <3>3 DEF Recorded
  <2>4. CASE was \notin {"PENDING_FINALITY", "RESERVING"}
    <3>1. at = was
      BY <1>2, <2>1, <2>4 DEF Advanced
    <3>2. QED
      BY <1>1, <1>2, <3>1, RankOK
  <2>5. QED
    BY <2>2, <2>3, <2>4
<1> QED
  BY <1>4, <1>5

\* What serving a read or a request does to the records, and what may be said of it after.
LEMMA ServedGrows ==
  ASSUME PersonalInv, NEW w \in Owners, NEW at \in Opened(w),
         record' = [record EXCEPT ![w].status = at]
  PROVE  /\ RecordsGrow /\ record' \in [Owners -> RecordOf]
         /\ \A res \in {record'[w], Failed, Result("NOT_ELIGIBLE", 0)} :
              res \in Results /\ Holds(w, res)'
<1>1. record \in [Owners -> RecordOf]
  BY DEF PersonalInv, PersonalTypeOK
<1>2. PICK left : left = [record[w] EXCEPT !.status = at]
  OBVIOUS
<1>3. /\ at \in Recorded /\ Rank(record[w].status) <= Rank(at)
      /\ record[w].status \in Cards => at = record[w].status
  BY <1>1, ClaimsGoForward
<1>4. /\ left \in RecordOf /\ left.status = at /\ left.points = record[w].points
      /\ left.card = record[w].card
  BY <1>1, <1>2, <1>3 DEF RecordOf
<1>5. record' = [record EXCEPT ![w] = left]
  BY <1>1, <1>2
<1>6. record' \in [Owners -> RecordOf] /\ record'[w] = left
  BY <1>1, <1>4, <1>5
<1>7. RecordsGrow
  <2> SUFFICES ASSUME NEW v \in Owners
               PROVE  /\ record[v].points <= record'[v].points
                      /\ Rank(record[v].status) <= Rank(record'[v].status)
                      /\ record[v].status \in Cards => record'[v].status = record[v].status
                      /\ record[v].card \in {NoCard, record'[v].card}
    BY DEF RecordsGrow
  <2>1. record[v].points \in Nat /\ Rank(record[v].status) \in 0..3
    BY <1>1, RankOK DEF RecordOf
  <2>2. CASE v = w
    BY <1>3, <1>4, <1>6, <2>1, <2>2
  <2>3. CASE v # w
    <3>1. PICK same \in RecordOf : same = record[v] /\ same = record'[v]
      BY <1>1, <1>5, <2>3
    <3>2. same.points \in Nat /\ Rank(same.status) \in 0..3
      BY RankOK DEF RecordOf
    <3>3. QED
      BY <3>1, <3>2
  <2>4. QED
    BY <2>2, <2>3
<1>8. Holds(w, left)'
  <2>1. left.points \in Nat /\ Rank(left.status) \in 0..3
    BY <1>4, RankOK DEF RecordOf
  <2>2. left.points <= left.points /\ Rank(left.status) <= Rank(left.status)
    BY <2>1
  <2>3. QED
    BY <1>6, <2>2 DEF Holds
<1>9. Holds(w, Failed)'
  BY GenesisPageAssumption, ResultFields DEF Holds
<1>10. PICK refused : refused = Result("NOT_ELIGIBLE", 0)
  OBVIOUS
<1>11. Holds(w, refused)'
  <2>1. /\ refused.status = "NOT_ELIGIBLE" /\ "NOT_ELIGIBLE" \notin Cards
        /\ refused.card = NoCard
    BY <1>10, GenesisPageAssumption, ResultFields
  <2>2. Rank("NOT_ELIGIBLE") = 0
    BY DEF Rank
  <2>3. QED
    BY <2>1, <2>2, RankOK DEF Holds
<1>12. left \in Results /\ Failed \in Results /\ refused \in Results
  BY <1>4, <1>10, ResultsOK
<1> QED
  BY <1>6, <1>7, <1>8, <1>9, <1>10, <1>11, <1>12

LEMMA ReadsOpenNothing ==
  ASSUME NEW w \in Owners PROVE Advanced(w) \subseteq Opened(w)
BY DEF Advanced, Opened

LEMMA ServeReadStep ==
  ASSUME PersonalInv, NEW i \in Slot, ServeRead(i)
  PROVE  PersonalInv'
<1>1. tokens \in Seq(Owners) /\ PersonalTypeOK
  BY DEF PersonalInv, PersonalTypeOK
<1>2. PICK rs \in [Slot -> Reading] : rs = reads /\ \A k \in Slot : AnswerHolds(rs[k])
  BY InPlaceFacts
<1>3. PICK r \in Reading : r = rs[i] /\ r.at = "sent" /\ AnswerHolds(r)
  BY <1>2 DEF ServeRead
<1>4. r.token \in 1..Len(tokens)
  BY <1>3 DEF AnswerHolds
<1>5. PICK w \in Owners : w = tokens[r.token]
  BY <1>1, <1>4, ElementOfSeq
<1>0. PICK at \in Advanced(w) : \E res \in {[record[w] EXCEPT !.status = at], Failed} :
        /\ Served(w, at, res)
        /\ reads' = [reads EXCEPT ![i] =
             IF @.live THEN [@ EXCEPT !.at = "answered", !.result = res] ELSE Idle]
  <2>1. Owner(reads[i].token) = w
    BY <1>2, <1>3, <1>5 DEF Owner
  <2>2. \E at \in Advanced(Owner(reads[i].token)) :
          \E res \in {[record[Owner(reads[i].token)] EXCEPT !.status = at], Failed} :
            /\ Served(Owner(reads[i].token), at, res)
            /\ reads' = [reads EXCEPT ![i] =
                 IF @.live THEN [@ EXCEPT !.at = "answered", !.result = res] ELSE Idle]
    BY ZenonT(30) DEF ServeRead
  <2>3. \A at, res : Served(Owner(reads[i].token), at, res) => Served(w, at, res)
    BY <2>1 DEF Served
  <2>4. PICK at \in Advanced(w) :
          \E res \in {[record[w] EXCEPT !.status = at], Failed} :
             /\ Served(Owner(reads[i].token), at, res)
             /\ reads' = [reads EXCEPT ![i] =
                  IF @.live THEN [@ EXCEPT !.at = "answered", !.result = res] ELSE Idle]
    BY <2>1, <2>2
  <2>5. QED
    BY <2>3, <2>4
<1>6. PICK res \in {[record[w] EXCEPT !.status = at], Failed} :
        /\ Served(w, at, res)
        /\ reads' = [reads EXCEPT ![i] =
             IF @.live THEN [@ EXCEPT !.at = "answered", !.result = res] ELSE Idle]
  BY <1>0
<1>7. /\ record' = [record EXCEPT ![w].status = at] /\ res \in {record'[w], Failed}
      /\ hook' = hook /\ tokens' = tokens /\ session' = session /\ open' = open
      /\ latest' = latest /\ timer' = timer /\ bar' = bar /\ held' = held /\ request' = request
  BY <1>6 DEF Served, playerVars, ServeRead
<1>8. /\ RecordsGrow /\ record' \in [Owners -> RecordOf] /\ res \in Results
      /\ Holds(w, res)'
  BY <1>6, <1>7, ReadsOpenNothing, ServedGrows
<1>9. PICK answer : answer = IF r.live THEN [r EXCEPT !.at = "answered", !.result = res] ELSE Idle
  OBVIOUS
<1>10. answer \in Reading /\ AnswerHolds(answer)'
  <2>1. CASE r.live
    <3>1. /\ answer \in Reading /\ answer.token = r.token /\ answer.result = res
          /\ answer.at = "answered"
      BY <1>8, <1>9, <2>1 DEF Reading
    <3>2. tokens'[answer.token] = w /\ answer.token \in 1..Len(tokens')
      BY <1>4, <1>5, <1>7, <3>1
    <3>3. QED
      BY <1>8, <3>1, <3>2 DEF AnswerHolds, Owner, Holds
  <2>2. CASE ~r.live
    <3>1. answer = Idle /\ answer.at = "idle"
      BY <1>9, <2>2 DEF Idle
    <3>2. QED
      BY <3>1, ResultsOK DEF AnswerHolds
  <2>3. QED
    BY <2>1, <2>2
<1>11. reads' = [rs EXCEPT ![i] = answer]
  BY <1>2, <1>3, <1>6, <1>9
<1>12. TokensStay /\ tokens' \in Seq(Owners)
  BY <1>1, <1>7, LenProperties DEF TokensStay
<1>13. \A k \in Slot : AnswerHolds(rs[k])'
  BY <1>2, <1>8, <1>12, AnswerStays
<1>14. reads' \in [Slot -> Reading] /\ \A k \in Slot : reads'[k] \in {rs[k], answer}
  BY <1>2, <1>10, <1>11
<1>15. ASSUME NEW k \in Slot PROVE AnswerHolds(reads[k])'
  <2>1. PICK q : q = reads'[k]
    OBVIOUS
  <2>2. k # i => q = rs[k]
    BY <1>2, <1>11, <2>1
  <2>3. k = i => q = answer
    BY <1>2, <1>11, <2>1
  <2>4. AnswerHolds(q)'
    <3>1. CASE k = i
      BY <1>10, <2>3, <3>1
    <3>2. CASE k # i
      BY <1>13, <2>2, <3>2
    <3>3. QED
      BY <3>1, <3>2
  <2>5. QED
    BY <2>1, <2>4
<1>16. PICK req \in Reading : req = request /\ AnswerHolds(req)
  BY InPlaceFacts
<1>17. AnswerHolds(req)'
  BY <1>8, <1>12, <1>16, AnswerStays
<1>18. AnswerHolds(request)' /\ request' \in Reading
  BY <1>7, <1>16, <1>17
<1> QED
  BY <1>7, <1>8, <1>14, <1>15, <1>18, ServedKeeps

LEMMA ServeRequestStep ==
  ASSUME PersonalInv, ServeRequest
  PROVE  PersonalInv'
<1>1. tokens \in Seq(Owners) /\ PersonalTypeOK
  BY DEF PersonalInv, PersonalTypeOK
<1>2. PICK r \in Reading : r = request /\ r.at = "sent" /\ AnswerHolds(r)
  BY InPlaceFacts DEF ServeRequest
<1>3. r.token \in 1..Len(tokens)
  BY <1>2 DEF AnswerHolds
<1>4. PICK w \in Owners : w = tokens[r.token]
  BY <1>1, <1>3, ElementOfSeq
<1>0. PICK at \in Opened(w) : \E res \in {[record[w] EXCEPT !.status = at], Failed} :
        /\ Served(w, at, res)
        /\ request' = [request EXCEPT !.at = "answered",
             !.result = IF res.status = "NONE" THEN Result("NOT_ELIGIBLE", 0) ELSE res]
  <2>1. Owner(request.token) = w
    BY <1>2, <1>4 DEF Owner
  <2>2. \E at \in Opened(Owner(request.token)) :
          \E res \in {[record[Owner(request.token)] EXCEPT !.status = at], Failed} :
            /\ Served(Owner(request.token), at, res)
            /\ request' = [request EXCEPT !.at = "answered",
                 !.result = IF res.status = "NONE" THEN Result("NOT_ELIGIBLE", 0) ELSE res]
    BY ZenonT(30) DEF ServeRequest
  <2>3. \A at, res : Served(Owner(request.token), at, res) => Served(w, at, res)
    BY <2>1 DEF Served
  <2>4. PICK at \in Opened(w) :
          \E res \in {[record[w] EXCEPT !.status = at], Failed} :
             /\ Served(Owner(request.token), at, res)
             /\ request' = [request EXCEPT !.at = "answered",
                  !.result = IF res.status = "NONE" THEN Result("NOT_ELIGIBLE", 0) ELSE res]
    BY <2>1, <2>2
  <2>5. QED
    BY <2>3, <2>4
<1>5. PICK res \in {[record[w] EXCEPT !.status = at], Failed} :
        /\ Served(w, at, res)
        /\ request' = [request EXCEPT !.at = "answered",
             !.result = IF res.status = "NONE" THEN Result("NOT_ELIGIBLE", 0) ELSE res]
  BY <1>0
<1>6. /\ record' = [record EXCEPT ![w].status = at] /\ res \in {record'[w], Failed}
      /\ hook' = hook /\ tokens' = tokens /\ session' = session /\ open' = open
      /\ latest' = latest /\ timer' = timer /\ bar' = bar /\ held' = held /\ reads' = reads
  BY <1>5 DEF Served, playerVars, ServeRequest
<1>7. PICK said : said = IF res.status = "NONE" THEN Result("NOT_ELIGIBLE", 0) ELSE res
  OBVIOUS
<1>8. said \in {record'[w], Failed, Result("NOT_ELIGIBLE", 0)}
  BY <1>6, <1>7
<1>9. /\ RecordsGrow /\ record' \in [Owners -> RecordOf] /\ said \in Results
      /\ Holds(w, said)'
  BY <1>6, <1>8, ServedGrows
<1>10. PICK answer : answer = [r EXCEPT !.at = "answered", !.result = said]
  OBVIOUS
<1>11. answer \in Reading /\ AnswerHolds(answer)'
  <2>1. /\ answer \in Reading /\ answer.token = r.token /\ answer.result = said
        /\ answer.at = "answered"
    BY <1>9, <1>10 DEF Reading
  <2>2. tokens'[answer.token] = w /\ answer.token \in 1..Len(tokens')
    BY <1>3, <1>4, <1>6, <2>1
  <2>3. QED
    BY <1>9, <2>1, <2>2 DEF AnswerHolds, Owner, Holds
<1>12. request' = answer
  BY <1>2, <1>5, <1>7, <1>10
<1>13. AnswerHolds(request)' /\ request' \in Reading
  BY <1>11, <1>12
<1>14. TokensStay /\ tokens' \in Seq(Owners)
  BY <1>1, <1>6, LenProperties DEF TokensStay
<1>15. PICK rs \in [Slot -> Reading] : rs = reads /\ \A k \in Slot : AnswerHolds(rs[k])
  BY InPlaceFacts
<1>16. \A k \in Slot : AnswerHolds(rs[k])'
  BY <1>9, <1>14, <1>15, AnswerStays
<1>17. reads' \in [Slot -> Reading] /\ \A k \in Slot : AnswerHolds(reads[k])'
  BY <1>6, <1>15, <1>16
<1> QED
  BY <1>6, <1>9, <1>13, <1>17, ServedKeeps

LEMMA PersonalStep == ASSUME PersonalInv, GenesisPageNext PROVE PersonalInv'
<1>1. ASSUME NEW w \in Owners, BlockFinal(w) \/ VaultAnswers(w) PROVE PersonalInv'
  BY <1>1, QuietStep DEF BlockFinal, VaultAnswers, playerVars
<1>2. ASSUME ToggleMotion \/ NextBeat PROVE PersonalInv'
  BY <1>2, QuietStep DEF ToggleMotion, NextBeat, playerVars, serverVars
<1> QED
  BY <1>1, <1>2, AdoptStep, PayOutStep, DealCardStep, PlayerSteps, RequestCardStep, PollStep,
     RequestBackStep, ReadBackStep, ServeReadStep, ServeRequestStep DEF GenesisPageNext

\* GenesisPage.ShownIsRecorded: a player's own pages show nothing the server has not recorded
\* for the wallet that is signed in, the card in the pick controls included once its profile
\* has been read, in whatever order the reads, the polls and the requests come back, across
\* sign-outs, rotated tokens and another wallet (useLiveGenesis,
\* useLiveProfile, App's effects).
THEOREM WhatIsShownIsRecorded ==
  GenesisPageInit /\ [][GenesisPageNext]_genesisPageVars => []ShownIsRecorded
<1>1. PersonalInv /\ UNCHANGED genesisPageVars => PersonalInv'
  BY QuietStep DEF genesisPageVars
<1>2. PersonalInv => ShownIsRecorded
  <2> SUFFICES ASSUME PersonalInv PROVE ShownIsRecorded
    OBVIOUS
  <2>1. Shown # "nothing" => latest.token = session /\ session # 0 /\ Shown = latest.result.status
    BY ResultFields DEF Shown, Kind, readable
  <2>2. Shown # "nothing" => Shown # "FAILED"
    <3>1. latest.result \in Results
      BY DEF PersonalInv, PersonalTypeOK
    <3>2. QED
      BY <3>1, ResultFields DEF Shown, Kind
  <2>3. Shown \notin {"nothing", "READ"} =>
          /\ Rank(Shown) <= Rank(record[Owner(session)].status)
          /\ Shown \in Cards => record[Owner(session)].status = Shown
    BY <2>1, <2>2 DEF PersonalInv, LatestHolds, Holds
  <2>4. ReadWarPoints # Unread => ReadWarPoints <= record[Owner(session)].points
    BY PointsShown DEF PersonalInv
  <2>5. ASSUME hook = "PROFILE", Kind = "READY"
        PROVE  held \in {NoCard, record[Owner(session)].card}
    <3>1. held = latest.result.card /\ latest.token = session /\ session # 0
      BY <2>5 DEF PersonalInv, CardIsSet, readCard, Kind, readable
    <3>2. QED
      BY <3>1 DEF PersonalInv, LatestHolds, Holds
  <2>6. QED
    BY <2>3, <2>4, <2>5 DEF PersonalInv, BarHolds, ShownIsRecorded
<1> QED
  BY <1>1, <1>2, PersonalStarts, PersonalStep, PTL

=============================================================================
