------------------------------ MODULE Gateway ------------------------------
(***************************************************************************)
(* The socket tier: who is connected, what each connection follows and     *)
(* whose wallet it has proved.  apps/gateway/src/socket-server.ts holds a  *)
(* queue of frames per connection, apps/gateway/src/gateway.ts handles one *)
(* frame, and the reducers of packages/realtime/src/hub.ts decide.         *)
(*                                                                         *)
(* Resolving a session is a database read: when a connection opens and on  *)
(* every AUTHENTICATE the queue waits for it, and a socket may close, or   *)
(* further frames arrive, or the session be revoked, meanwhile.            *)
(***************************************************************************)
EXTENDS Hub, Sequences

CONSTANTS
  Conns,               \* connections, each opened once
  MAX_PENDING_FRAMES,  \* frames one connection may have waiting
  MaxFrames            \* bound: the frames one connection sends

ASSUME GatewayAssumption == MAX_PENDING_FRAMES \in Nat /\ MaxFrames \in Nat

VARIABLES
  sock,      \* readyState of each connection's socket
  sessions,  \* wallets whose session is live
  stage,     \* what the connection's frame queue is doing
  opened,    \* connections gateway.open has been called for
  queue,     \* frames received and not yet handled
  hub,       \* the hub's entry for each connection; None when it has none
  sent,      \* history: the frames each connection put in its queue
  proved     \* history: what each session lookup of a connection answered

gatewayVars == <<sock, sessions, stage, opened, queue, hub, sent, proved>>

Frames ==
  [type : {"AUTHENTICATE"}, token : Wallets \cup {None}]
  \cup [type : {"SUBSCRIBE", "UNSUBSCRIBE"}, channel : Channels]

GatewayTypeOK ==
  /\ sock \in [Conns -> {"new", "open", "closing", "closed"}]
  /\ sessions \subseteq Wallets
  /\ stage \in [Conns -> {"idle", "opening", "resolving"}]
  /\ opened \subseteq Conns
  /\ queue \in [Conns -> Seq(Frames)]
  /\ hub \in [Conns -> Connection \cup {None}]
  /\ sent \in [Conns -> Seq(Frames)]
  /\ proved \in [Conns -> Seq(Wallets \cup {None})]
  /\ \A c \in Conns :
       /\ Len(queue[c]) <= MAX_PENDING_FRAMES
       /\ hub[c] # None => Cardinality(hub[c].channels) <= MAX_SUBSCRIPTIONS
       /\ stage[c] = "resolving" => queue[c] # << >>

GatewayInit ==
  /\ sock = [c \in Conns |-> "new"]
  /\ sessions = Wallets
  /\ stage = [c \in Conns |-> "idle"]
  /\ opened = {}
  /\ queue = [c \in Conns |-> << >>]
  /\ hub = [c \in Conns |-> None]
  /\ sent = [c \in Conns |-> << >>]
  /\ proved = [c \in Conns |-> << >>]

-----------------------------------------------------------------------------
\* A frame the gateway handles at once, on a connection the hub still has.
Received(k, frame) ==
  CASE k = None -> None
    [] k # None /\ frame.type = "SUBSCRIBE" -> Subscribe(k, frame.channel)
    [] OTHER -> Unsubscribe(k, frame.channel)

-----------------------------------------------------------------------------
(***************************************************************************)
(* The life of a connection.                                               *)
(***************************************************************************)

\* walletOf: a token answers its wallet while the session is live.
WalletOf(token) == IF token \in sessions THEN token ELSE None

\* A socket connects and its session, if its request carries one, is looked up.
Connect(c) ==
  /\ sock[c] = "new"
  /\ sock' = [sock EXCEPT ![c] = "open"]
  /\ stage' = [stage EXCEPT ![c] = "opening"]
  /\ UNCHANGED <<sessions, opened, queue, hub, sent, proved>>

\* Mutant: the connection is registered without looking at its socket again.
OpenedUnchecked(c, token) ==
  /\ stage[c] = "opening"
  /\ hub' = [hub EXCEPT ![c] = [wallet |-> WalletOf(token), channels |-> {}]]
  /\ opened' = opened \cup {c}
  /\ proved' = [proved EXCEPT ![c] = Append(@, WalletOf(token))]
  /\ stage' = [stage EXCEPT ![c] = "idle"]
  /\ UNCHANGED <<sock, sessions, queue, sent>>

\* The lookup answers: gateway.open, unless the socket closed meanwhile.
Opened(c, token) ==
  /\ stage[c] = "opening"
  /\ IF sock[c] = "open"
     THEN /\ hub' = [hub EXCEPT ![c] = [wallet |-> WalletOf(token), channels |-> {}]]
          /\ opened' = opened \cup {c}
          /\ proved' = [proved EXCEPT ![c] = Append(@, WalletOf(token))]
     ELSE UNCHANGED <<hub, opened, proved>>
  /\ stage' = [stage EXCEPT ![c] = "idle"]
  /\ UNCHANGED <<sock, sessions, queue, sent>>

\* The lookup fails: the socket is closed and nothing was opened.
OpenFails(c) ==
  /\ stage[c] = "opening"
  /\ sock' = [sock EXCEPT ![c] = IF @ = "open" THEN "closing" ELSE @]
  /\ stage' = [stage EXCEPT ![c] = "idle"]
  /\ UNCHANGED <<sessions, opened, queue, hub, sent, proved>>

\* A frame arrives: it waits its turn, or is one too many and the socket closes.
Arrives(c, frame) ==
  /\ sock[c] \in {"open", "closing"}
  /\ Len(sent[c]) < MaxFrames
  /\ IF Len(queue[c]) < MAX_PENDING_FRAMES
     THEN /\ queue' = [queue EXCEPT ![c] = Append(@, frame)]
          /\ sent' = [sent EXCEPT ![c] = Append(@, frame)]
          /\ UNCHANGED sock
     ELSE /\ sock' = [sock EXCEPT ![c] = "closing"]
          /\ UNCHANGED <<queue, sent>>
  /\ UNCHANGED <<sessions, stage, opened, hub, proved>>

\* Mutant: an AUTHENTICATE is set aside and the frames behind it overtake it.
HandleOvertaking(c) ==
  /\ stage[c] \in {"idle", "resolving"} /\ queue[c] # << >>
  /\ LET last == Len(queue[c])
         frame == IF stage[c] = "idle" THEN queue[c][1] ELSE queue[c][last]
     IN  IF c \in opened /\ frame.type = "AUTHENTICATE"
         THEN /\ stage' = [stage EXCEPT ![c] = "resolving"]
              /\ UNCHANGED <<queue, hub>>
         ELSE /\ queue' = [queue EXCEPT ![c] =
                             IF stage[c] = "idle" THEN Tail(@) ELSE SubSeq(@, 1, last - 1)]
              /\ hub' = IF c \in opened
                        THEN [hub EXCEPT ![c] = Received(@, frame)]
                        ELSE hub
              /\ UNCHANGED stage
  /\ UNCHANGED <<sock, sessions, opened, sent, proved>>

\* The frame whose turn it is, on a connection that never opened or has a
\* session to look up first, or at once.
Handle(c) ==
  /\ stage[c] = "idle" /\ queue[c] # << >>
  /\ LET frame == Head(queue[c])
     IN  IF c \in opened /\ frame.type = "AUTHENTICATE"
         THEN /\ stage' = [stage EXCEPT ![c] = "resolving"]
              /\ UNCHANGED <<queue, hub>>
         ELSE /\ queue' = [queue EXCEPT ![c] = Tail(@)]
              /\ hub' = IF c \in opened
                        THEN [hub EXCEPT ![c] = Received(@, frame)]
                        ELSE hub
              /\ UNCHANGED stage
  /\ UNCHANGED <<sock, sessions, opened, sent, proved>>

\* The session of an AUTHENTICATE is known, None too when its read failed.
Resolved(c, wallet) ==
  /\ stage[c] = "resolving"
  /\ wallet \in {WalletOf(Head(queue[c]).token), None}
  /\ hub' = [hub EXCEPT ![c] = IF @ = None THEN None ELSE Identify(@, wallet)]
  /\ proved' = [proved EXCEPT ![c] = Append(@, wallet)]
  /\ queue' = [queue EXCEPT ![c] = Tail(@)]
  /\ stage' = [stage EXCEPT ![c] = "idle"]
  /\ UNCHANGED <<sock, sessions, opened, sent>>

\* Either side starts closing; then the close event: forget.
Closing(c) ==
  /\ sock[c] = "open"
  /\ sock' = [sock EXCEPT ![c] = "closing"]
  /\ UNCHANGED <<sessions, stage, opened, queue, hub, sent, proved>>

Forget(c) ==
  /\ sock[c] \in {"open", "closing"}
  /\ sock' = [sock EXCEPT ![c] = "closed"]
  /\ hub' = IF c \in opened THEN [hub EXCEPT ![c] = None] ELSE hub
  /\ UNCHANGED <<sessions, stage, opened, queue, sent, proved>>

\* A session is revoked or expires.
Revoke(w) ==
  /\ w \in sessions
  /\ sessions' = sessions \ {w}
  /\ UNCHANGED <<sock, stage, opened, queue, hub, sent, proved>>

-----------------------------------------------------------------------------
GatewayNext ==
  \/ \E c \in Conns :
       \/ Connect(c)
       \/ \E token \in Wallets \cup {None} : Opened(c, token)
       \/ OpenFails(c)
       \/ \E frame \in Frames : Arrives(c, frame)
       \/ Handle(c)
       \/ \E wallet \in Wallets \cup {None} : Resolved(c, wallet)
       \/ Closing(c) \/ Forget(c)
  \/ \E w \in Wallets : Revoke(w)

GatewaySpec == GatewayInit /\ [][GatewayNext]_gatewayVars

-----------------------------------------------------------------------------
(***************************************************************************)
(* Properties.                                                             *)
(***************************************************************************)

\* The hub delivers to open connections and to the wallets they proved.  A
\* wallet's private channel is only followed by a connection whose last session
\* lookup proved that wallet: signing out or changing wallet takes the channel
\* away, in whatever order frames, lookups and closes fall (envelope.ts:54-64,
\* hub.ts:65-68).  A close that overtakes the session lookup, or frames and
\* lookups still queued behind it, leave no connection behind
\* (socket-server.ts:133-138, 192-201).
ListenersAreProved ==
  \A c \in Conns : hub[c] # None =>
    /\ sock[c] \notin {"new", "closed"}
    /\ proved[c] # << >>
    /\ hub[c].wallet = proved[c][Len(proved[c])]
    /\ \A w \in Wallets : WalletChannel(w) \in hub[c].channels => hub[c].wallet = w

\* What a frame makes of a connection; before.lookups of its session lookups
\* have been used, and an AUTHENTICATE uses the next.
After(c, before, frame) ==
  IF frame.type = "AUTHENTICATE"
  THEN [k |-> Identify(before.k, proved[c][before.lookups + 1]),
        lookups |-> before.lookups + 1]
  ELSE [before EXCEPT !.k = Received(@, frame)]

AtOpen(c) == [k |-> [wallet |-> proved[c][1], channels |-> {}], lookups |-> 1]

\* What the frames of a connection come to when taken one after another.
Replayed(c) ==
  LET replay[n \in 0..Len(sent[c])] ==
        IF n = 0 THEN AtOpen(c) ELSE After(c, replay[n - 1], sent[c][n])
  IN  replay[Len(sent[c])].k

\* Frames take effect strictly in the order they were sent, the ones that wait
\* for the database included: once its queue is empty, a connection is and
\* follows what its frames say one after another, so no SUBSCRIBE is judged
\* against the wallet before or after it (socket-server.ts:117-129).
FramesInOrder ==
  \A c \in Conns :
    hub[c] # None /\ stage[c] = "idle" /\ queue[c] = << >> => hub[c] = Replayed(c)

=============================================================================
