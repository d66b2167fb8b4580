---------------------------- MODULE SessionProofs ----------------------------
(***************************************************************************)
(* Theorems about signing in and being connected: the socket gateway       *)
(* (Gateway), the sign-in service (Auth) and the page (WalletSession).     *)
(*                                                                         *)
(* The gateway's invariant says how far each connection has come: what the *)
(* hub holds is what the frames handled so far make of it, one after       *)
(* another, and the frames in the queue are the rest of those sent.  The   *)
(* service's says who may still spend a credential: one request at most.   *)
(***************************************************************************)
EXTENDS Gateway, WalletSession, FiniteSetTheorems, SequenceTheorems,
        WellFoundedInduction, TLAPS

-----------------------------------------------------------------------------
(***************************************************************************)
(* Induction on the natural numbers, for sets: the library's theorem about *)
(* predicates, in a form that can be cited.                                *)
(***************************************************************************)
LEMMA LeastNatural ==
  ASSUME NEW T, T \subseteq Nat, T # {}
  PROVE  \E n \in T : \A m \in T : n <= m
<1>1. IsWellFoundedOn({ss \in Nat \X Nat : ss[1] < ss[2]}, Nat)
  BY NatLessThanWellFounded DEF OpToRel
<1>2. PICK n \in T : \A m \in T : ~ (<<m, n>> \in {ss \in Nat \X Nat : ss[1] < ss[2]})
  BY <1>1, WFMin, Zenon
<1>3. ASSUME NEW m \in T PROVE n <= m
  <2>1. m \in Nat /\ n \in Nat
    OBVIOUS
  <2>2. ~ (<<m, n>> \in {ss \in Nat \X Nat : ss[1] < ss[2]})
    BY <1>2
  <2>3. QED
    BY <2>1, <2>2
<1>4. QED
  BY <1>3

\* What holds up to a bound: of 0, and of n + 1 when of n.
LEMMA BoundedInduction ==
  ASSUME NEW top \in Nat, NEW S, 0 \in S,
         \A n \in 0..(top - 1) : n \in S => n + 1 \in S
  PROVE  0..top \subseteq S
<1>1. ASSUME (0..top) \ S # {} PROVE FALSE
  <2> (0..top) \ S \subseteq Nat
    OBVIOUS
  <2>1. PICK n \in (0..top) \ S : \A m \in (0..top) \ S : n <= m
    BY <1>1, LeastNatural
  <2>2. n \in 0..top /\ n # 0
    BY <2>1
  <2>3. n - 1 \in 0..(top - 1) /\ ~(n <= n - 1)
    BY <2>2
  <2>4. n - 1 \in S
    BY <2>1, <2>3
  <2>5. n - 1 + 1 \in S
    BY <2>3, <2>4
  <2>6. QED
    BY <2>1, <2>2, <2>5
<1>2. QED
  BY <1>1

-----------------------------------------------------------------------------
(***************************************************************************)
(* The gateway.                                                            *)
(***************************************************************************)

\* A queue that is the tail of what was sent, and how much has left it.
Behind(s, q) == Len(s) - Len(q)

IsTailOf(q, s) ==
  Len(q) <= Len(s) /\ \A n \in 1..Len(q) : q[n] = s[Behind(s, q) + n]

LEMMA BehindType ==
  ASSUME NEW S, NEW s \in Seq(S), NEW q \in Seq(S), IsTailOf(q, s)
  PROVE  Behind(s, q) \in 0..Len(s) /\ Len(s) = Behind(s, q) + Len(q)
BY DEF Behind, IsTailOf

LEMMA TailGrows ==
  ASSUME NEW S, NEW s \in Seq(S), NEW q \in Seq(S), IsTailOf(q, s), NEW x \in S
  PROVE  /\ IsTailOf(Append(q, x), Append(s, x))
         /\ Behind(Append(s, x), Append(q, x)) = Behind(s, q)
<1>1. /\ Len(Append(s, x)) = Len(s) + 1 /\ Len(Append(q, x)) = Len(q) + 1
      /\ Len(s) \in Nat /\ Len(q) \in Nat
  OBVIOUS
<1>2. PICK b \in Nat : b = Behind(s, q) /\ Len(s) = b + Len(q)
  BY BehindType
<1>3. Behind(Append(s, x), Append(q, x)) = b
  BY <1>1, <1>2 DEF Behind
<1>4. ASSUME NEW n \in 1..Len(Append(q, x)) PROVE Append(q, x)[n] = Append(s, x)[b + n]
  <2> n \in Int /\ 1 <= n /\ n <= Len(q) + 1
    BY <1>1
  <2>1. CASE n \in 1..Len(q)
    <3>1. q[n] = s[b + n] /\ b + n \in 1..Len(s)
      BY <1>1, <1>2, <2>1 DEF IsTailOf
    <3>2. QED
      BY <2>1, <3>1
  <2>2. CASE n = Len(q) + 1
    <3>1. b + n = Len(s) + 1
      BY <1>1, <1>2, <2>2
    <3>2. QED
      BY <2>2, <3>1
  <2>3. n \in 1..Len(q) \/ n = Len(q) + 1
    BY <1>1
  <2>4. QED
    BY <2>1, <2>2, <2>3
<1>5. QED
  BY <1>1, <1>2, <1>3, <1>4 DEF IsTailOf

LEMMA EmptyTail == Behind(<< >>, << >>) = 0 /\ IsTailOf(<< >>, << >>)
<1>1. Len(<< >>) = 0
  OBVIOUS
<1>2. QED
  BY <1>1 DEF Behind, IsTailOf

LEMMA TailShrinks ==
  ASSUME NEW S, NEW s \in Seq(S), NEW q \in Seq(S), IsTailOf(q, s), q # << >>
  PROVE  /\ IsTailOf(Tail(q), s)
         /\ Behind(s, Tail(q)) = Behind(s, q) + 1
         /\ Behind(s, q) + 1 \in 1..Len(s)
         /\ q[1] \in S
         /\ q[1] = s[Behind(s, q) + 1]
<1>1. /\ Len(Tail(q)) = Len(q) - 1 /\ Len(s) \in Nat /\ Len(q) \in Nat \ {0}
      /\ Len(Tail(q)) \in Nat
      /\ \A n \in 1..Len(Tail(q)) : Tail(q)[n] = q[n + 1]
      /\ q[1] \in S
  OBVIOUS
<1>2. PICK b \in Nat : b = Behind(s, q) /\ Len(s) = b + Len(q)
  BY BehindType
<1>3. Behind(s, Tail(q)) = b + 1
  BY <1>1, <1>2 DEF Behind
<1>4. \A n \in 1..Len(q) : q[n] = s[b + n]
  BY <1>2 DEF IsTailOf
<1>5. ASSUME NEW n \in 1..Len(Tail(q)) PROVE Tail(q)[n] = s[b + 1 + n]
  <2>1. n + 1 \in 1..Len(q) /\ b + (n + 1) = b + 1 + n
    BY <1>1
  <2>2. QED
    BY <1>1, <1>4, <2>1
<1>6. IsTailOf(Tail(q), s)
  BY <1>1, <1>2, <1>3, <1>5 DEF IsTailOf
<1>7. b + 1 \in 1..Len(s) /\ q[1] = s[b + 1]
  BY <1>1, <1>2, <1>4
<1>8. QED
  BY <1>1, <1>2, <1>3, <1>6, <1>7

\* How many frames of a connection have been taken off its queue.
Taken(c) == Behind(sent[c], queue[c])

QueueInv(c) == IsTailOf(queue[c], sent[c])

\* Where the connection is in its life.
StageInv(c) ==
  /\ sock[c] = "new" => stage[c] = "idle" /\ c \notin opened /\ sent[c] = << >>
  /\ stage[c] = "opening" => sock[c] # "new" /\ c \notin opened /\ Taken(c) = 0
  /\ stage[c] = "resolving" => c \in opened /\ queue[c][1].type = "AUTHENTICATE"
  /\ c \notin opened => hub[c] = None /\ proved[c] = << >>

\* The hub's entry: an open connection, with the wallet last proved, following
\* only what that wallet may follow.
EntryInv(c) ==
  hub[c] # None =>
    /\ sock[c] \notin {"new", "closed"}
    /\ proved[c] # << >>
    /\ hub[c].wallet = proved[c][Len(proved[c])]
    /\ \A ch \in hub[c].channels : MaySubscribe(ch, hub[c].wallet)
    /\ IsFiniteSet(hub[c].channels)

\* f records what the first n frames made of the connection, one by one.
Replays(c, f, n) ==
  /\ f[0] = AtOpen(c)
  /\ \A j \in 1..n : f[j] = After(c, f[j - 1], sent[c][j])
  /\ \A j \in 0..n : f[j].lookups \in 1..Len(proved[c])

\* The hub's entry is what the frames taken so far come to.
HistoryInv(c) ==
  hub[c] # None =>
    \E f : /\ Replays(c, f, Taken(c))
           /\ f[Taken(c)] = [k |-> hub[c], lookups |-> Len(proved[c])]

GatewayInv ==
  /\ GatewayTypeOK
  /\ \A c \in Conns : QueueInv(c) /\ StageInv(c) /\ EntryInv(c) /\ HistoryInv(c)

LEMMA GatewayInvInit == GatewayInit => GatewayInv
<1> SUFFICES ASSUME GatewayInit PROVE GatewayInv
  OBVIOUS
<1>1. GatewayTypeOK
  BY GatewayAssumption, HubAssumption DEF GatewayInit, GatewayTypeOK
<1>2. QED
  BY <1>1, EmptyTail
     DEF GatewayInit, GatewayInv, QueueInv, StageInv, EntryInv, HistoryInv, Taken

\* A step that leaves a connection alone.
ConnStays(c) ==
  /\ sock'[c] = sock[c] /\ stage'[c] = stage[c] /\ queue'[c] = queue[c]
  /\ hub'[c] = hub[c] /\ sent'[c] = sent[c] /\ proved'[c] = proved[c]
  /\ (c \in opened') <=> (c \in opened)

ConnInv(c) == QueueInv(c) /\ StageInv(c) /\ EntryInv(c) /\ HistoryInv(c)

LEMMA ConnInvStays ==
  ASSUME NEW c \in Conns, ConnStays(c), ConnInv(c)
  PROVE  ConnInv(c)'
<1>1. Taken(c)' = Taken(c)
  BY DEF ConnStays, Taken
<1>2. QueueInv(c)' /\ StageInv(c)' /\ EntryInv(c)'
  BY <1>1 DEF ConnInv, ConnStays, QueueInv, StageInv, EntryInv
<1>3. \A f, n : Replays(c, f, n) => Replays(c, f, n)'
  BY DEF ConnStays, Replays, AtOpen, After
<1>4. HistoryInv(c)'
  BY <1>1, <1>3 DEF ConnInv, ConnStays, HistoryInv
<1>5. QED
  BY <1>2, <1>4 DEF ConnInv

\* A step of one connection has only that one to answer for.
LEMMA OneConnection ==
  ASSUME GatewayInv, NEW c \in Conns, \A d \in Conns \ {c} : ConnStays(d),
         GatewayTypeOK', ConnInv(c)'
  PROVE  GatewayInv'
<1>1. \A d \in Conns \ {c} : ConnInv(d)'
  BY ConnInvStays DEF GatewayInv, ConnInv
<1>2. QED
  BY <1>1 DEF GatewayInv, ConnInv

LEMMA ConnectStep ==
  ASSUME GatewayInv, NEW c \in Conns, Connect(c)
  PROVE  GatewayInv'
<1>1. GatewayTypeOK'
  BY DEF GatewayInv, GatewayTypeOK, Connect
<1>2. \A d \in Conns \ {c} : ConnStays(d)
  BY DEF GatewayInv, GatewayTypeOK, Connect, ConnStays
<1>3. Taken(c)' = Taken(c) /\ Taken(c) = 0
  <2>1. sent[c] = << >> /\ queue[c] \in Seq(Frames) /\ Len(queue[c]) <= Len(sent[c])
    BY DEF GatewayInv, GatewayTypeOK, Connect, StageInv, QueueInv, IsTailOf
  <2>2. queue[c] = << >>
    BY <2>1
  <2>3. QED
    BY <2>1, <2>2, EmptyTail DEF Connect, Taken
<1>4. QueueInv(c)' /\ StageInv(c)'
  BY <1>3 DEF GatewayInv, GatewayTypeOK, Connect, QueueInv, StageInv
<1>5. hub'[c] = None
  BY DEF GatewayInv, StageInv, Connect
<1>6. QED
  BY <1>1, <1>2, <1>4, <1>5, OneConnection DEF ConnInv, EntryInv, HistoryInv

LEMMA OpenFailsStep ==
  ASSUME GatewayInv, NEW c \in Conns, OpenFails(c)
  PROVE  GatewayInv'
<1>1. GatewayTypeOK'
  BY DEF GatewayInv, GatewayTypeOK, OpenFails
<1>2. \A d \in Conns \ {c} : ConnStays(d)
  BY DEF GatewayInv, GatewayTypeOK, OpenFails, ConnStays
<1>3. Taken(c)' = Taken(c)
  BY DEF OpenFails, Taken
<1>4. QueueInv(c)' /\ StageInv(c)'
  BY <1>3 DEF GatewayInv, GatewayTypeOK, OpenFails, QueueInv, StageInv
<1>5. hub'[c] = None
  BY DEF GatewayInv, StageInv, OpenFails
<1>6. QED
  BY <1>1, <1>2, <1>4, <1>5, OneConnection DEF ConnInv, EntryInv, HistoryInv

LEMMA OpenedStep ==
  ASSUME GatewayInv, NEW c \in Conns, NEW token \in Wallets \cup {None}, Opened(c, token)
  PROVE  GatewayInv'
<1> DEFINE entry == [wallet |-> WalletOf(token), channels |-> {}]
<1>1. WalletOf(token) \in Wallets \cup {None} /\ entry \in Connection
  BY DEF WalletOf, Connection
<1>2. entry # None
  BY <1>1, HubAssumption
<1>3. IsFiniteSet({}) /\ Cardinality({}) = 0
  BY FS_EmptySet
<1>4. CASE sock[c] = "open"
  <2>1. /\ hub' = [hub EXCEPT ![c] = entry]
        /\ opened' = opened \cup {c}
        /\ proved' = [proved EXCEPT ![c] = Append(@, WalletOf(token))]
        /\ stage' = [stage EXCEPT ![c] = "idle"] /\ stage[c] = "opening"
        /\ UNCHANGED <<sock, sessions, queue, sent>>
    BY <1>4 DEF Opened
  <2>2. GatewayTypeOK'
    <3>1. hub' \in [Conns -> Connection \cup {None}] /\ opened' \subseteq Conns
      BY <1>1, <2>1 DEF GatewayInv, GatewayTypeOK
    <3>2. proved' \in [Conns -> Seq(Wallets \cup {None})]
      BY <1>1, <2>1 DEF GatewayInv, GatewayTypeOK
    <3>3. \A d \in Conns : hub'[d] # None => Cardinality(hub'[d].channels) <= MAX_SUBSCRIPTIONS
      BY <1>3, <2>1, HubAssumption DEF GatewayInv, GatewayTypeOK
    <3>4. QED
      BY <2>1, <3>1, <3>2, <3>3 DEF GatewayInv, GatewayTypeOK
  <2>3. \A d \in Conns \ {c} : ConnStays(d)
    BY <2>1 DEF GatewayInv, GatewayTypeOK, ConnStays
  <2>4. proved[c] = << >> /\ Taken(c) = 0 /\ Taken(c)' = 0
    BY <2>1 DEF GatewayInv, StageInv, Taken
  <2>5. proved'[c] = <<WalletOf(token)>> /\ Len(proved'[c]) = 1
    BY <2>1, <2>4 DEF GatewayInv, GatewayTypeOK
  <2>6. hub'[c] = entry
    BY <2>1 DEF GatewayInv, GatewayTypeOK
  <2>7. QueueInv(c)' /\ StageInv(c)'
    BY <2>1, <2>4 DEF GatewayInv, GatewayTypeOK, QueueInv, StageInv
  <2>8. EntryInv(c)'
    <3>1. hub'[c].wallet = WalletOf(token) /\ hub'[c].channels = {}
      BY <2>6
    <3>2. proved'[c] # << >> /\ proved'[c][Len(proved'[c])] = WalletOf(token)
      BY <2>5
    <3>3. QED
      BY <1>3, <1>4, <2>1, <3>1, <3>2 DEF EntryInv
  <2>9. HistoryInv(c)'
    <3>1. PICK f : f = [j \in 0..0 |-> AtOpen(c)']
      OBVIOUS
    <3>2. f[0] = [k |-> entry, lookups |-> 1]
      BY <2>5, <3>1 DEF AtOpen
    <3>3. Replays(c, f, 0)'
      BY <2>5, <3>1, <3>2 DEF Replays
    <3>4. QED
      BY <2>4, <2>5, <2>6, <3>2, <3>3 DEF HistoryInv
  <2>10. QED
    BY <2>2, <2>3, <2>7, <2>8, <2>9, OneConnection DEF ConnInv
<1>5. CASE sock[c] # "open"
  <2>1. /\ UNCHANGED <<hub, opened, proved, sock, sessions, queue, sent>>
        /\ stage' = [stage EXCEPT ![c] = "idle"] /\ stage[c] = "opening"
    BY <1>5 DEF Opened
  <2>2. GatewayTypeOK'
    BY <2>1 DEF GatewayInv, GatewayTypeOK
  <2>3. \A d \in Conns \ {c} : ConnStays(d)
    BY <2>1 DEF GatewayInv, GatewayTypeOK, ConnStays
  <2>4. Taken(c)' = Taken(c) /\ hub'[c] = None
    BY <2>1 DEF GatewayInv, StageInv, Taken
  <2>5. QueueInv(c)' /\ StageInv(c)'
    BY <2>1, <2>4 DEF GatewayInv, GatewayTypeOK, QueueInv, StageInv
  <2>6. QED
    BY <2>2, <2>3, <2>4, <2>5, OneConnection DEF ConnInv, EntryInv, HistoryInv
<1>6. QED
  BY <1>4, <1>5

\* What replays goes on doing so as frames and lookups are added.
LEMMA ReplayKept ==
  ASSUME NEW c \in Conns, NEW f, NEW n \in Nat, Replays(c, f, n),
         \A j \in 1..n : sent'[c][j] = sent[c][j],
         Len(proved[c]) \in Nat, Len(proved'[c]) \in Nat, Len(proved[c]) <= Len(proved'[c]),
         \A j \in 1..Len(proved[c]) : proved'[c][j] = proved[c][j]
  PROVE  Replays(c, f, n)'
<1>1. f[0].lookups \in 1..Len(proved[c])
  BY DEF Replays
<1>2. AtOpen(c)' = AtOpen(c)
  <2>1. 1 \in 1..Len(proved[c])
    BY <1>1
  <2>2. proved'[c][1] = proved[c][1]
    BY <2>1
  <2>3. QED
    BY <2>2 DEF AtOpen
<1>3. ASSUME NEW j \in 1..n
      PROVE  f[j] = After(c, f[j - 1], sent[c][j])'
  <2>1. /\ f[j] = After(c, f[j - 1], sent[c][j])
        /\ f[j].lookups \in 1..Len(proved[c])
        /\ f[j - 1].lookups \in 1..Len(proved[c])
        /\ sent'[c][j] = sent[c][j]
    BY DEF Replays
  <2>2. CASE sent[c][j].type = "AUTHENTICATE"
    <3>1. f[j].lookups = f[j - 1].lookups + 1
      BY <2>1, <2>2 DEF After
    <3>2. proved'[c][f[j - 1].lookups + 1] = proved[c][f[j - 1].lookups + 1]
      BY <2>1, <3>1
    <3>3. QED
      BY <2>1, <2>2, <3>2 DEF After
  <2>3. CASE sent[c][j].type # "AUTHENTICATE"
    BY <2>1, <2>3 DEF After
  <2>4. QED
    BY <2>2, <2>3
<1>4. \A j \in 0..n : f[j].lookups \in 1..Len(proved'[c])
  BY DEF Replays
<1>5. QED
  BY <1>2, <1>3, <1>4 DEF Replays

\* One more frame.
LEMMA ReplayNext ==
  ASSUME NEW c \in Conns, NEW f, NEW n \in Nat, Replays(c, f, n)', NEW g,
         g = After(c, f[n], sent[c][n + 1])', g.lookups \in 1..Len(proved'[c])
  PROVE  \E h : Replays(c, h, n + 1)' /\ h[n + 1] = g
<1>1. PICK h : h = [j \in 0..(n + 1) |-> IF j = n + 1 THEN g ELSE f[j]]
  OBVIOUS
<1>2. h[n + 1] = g /\ \A j \in 0..n : h[j] = f[j]
  BY <1>1
<1>3. h[0] = AtOpen(c)'
  BY <1>2 DEF Replays
<1>4. ASSUME NEW j \in 1..(n + 1)
      PROVE  h[j] = After(c, h[j - 1], sent[c][j])' /\ h[j].lookups \in 1..Len(proved'[c])
  <2>1. CASE j = n + 1
    <3>1. h[j - 1] = f[n]
      BY <1>2, <2>1
    <3>2. QED
      BY <1>2, <2>1, <3>1 DEF After
  <2>2. CASE j # n + 1
    <3>1. j \in 1..n /\ j - 1 \in 0..n
      BY <2>2
    <3>2. h[j] = f[j] /\ h[j - 1] = f[j - 1]
      BY <1>2, <3>1
    <3>3. f[j] = After(c, f[j - 1], sent[c][j])' /\ f[j].lookups \in 1..Len(proved'[c])
      BY <3>1 DEF Replays
    <3>4. QED
      BY <3>2, <3>3 DEF After
  <2>3. QED
    BY <2>1, <2>2
<1>5. h[0].lookups \in 1..Len(proved'[c])
  BY <1>2 DEF Replays
<1>6. Replays(c, h, n + 1)'
  <2>1. \A j \in 0..(n + 1) : h[j].lookups \in 1..Len(proved'[c])
    BY <1>4, <1>5
  <2>2. QED
    BY <1>3, <1>4, <2>1 DEF Replays
<1>7. QED
  BY <1>2, <1>6

\* A subscription taken or dropped keeps an entry what it must be.
LEMMA ReceivedType ==
  ASSUME NEW k \in Connection, NEW frame \in Frames, frame.type # "AUTHENTICATE",
         IsFiniteSet(k.channels), Cardinality(k.channels) <= MAX_SUBSCRIPTIONS,
         \A ch \in k.channels : MaySubscribe(ch, k.wallet)
  PROVE  /\ Received(k, frame) \in Connection
         /\ Received(k, frame).wallet = k.wallet
         /\ IsFiniteSet(Received(k, frame).channels)
         /\ Cardinality(Received(k, frame).channels) <= MAX_SUBSCRIPTIONS
         /\ \A ch \in Received(k, frame).channels : MaySubscribe(ch, k.wallet)
<1>1. k # None
  BY HubAssumption
<1>2. frame.channel \in Channels
  BY DEF Frames
<1>3. CASE frame.type = "SUBSCRIBE"
  <2>1. Received(k, frame) = Subscribe(k, frame.channel)
    BY <1>1, <1>3 DEF Received
  <2>2. CASE Cardinality(k.channels) < MAX_SUBSCRIPTIONS /\ MaySubscribe(frame.channel, k.wallet)
    <3>1. Received(k, frame) = [wallet |-> k.wallet, channels |-> k.channels \cup {frame.channel}]
      BY <2>1, <2>2 DEF Subscribe, Connection
    <3>2. /\ IsFiniteSet(k.channels \cup {frame.channel})
          /\ Cardinality(k.channels \cup {frame.channel}) <= MAX_SUBSCRIPTIONS
      <4>1. /\ IsFiniteSet(k.channels \cup {frame.channel})
            /\ Cardinality(k.channels \cup {frame.channel}) =
                 IF frame.channel \in k.channels THEN Cardinality(k.channels)
                 ELSE Cardinality(k.channels) + 1
        BY FS_AddElement
      <4>2. Cardinality(k.channels) \in Nat /\ MAX_SUBSCRIPTIONS \in Nat
        BY FS_CardinalityType, HubAssumption
      <4>3. QED
        BY <2>2, <4>1, <4>2
    <3>3. QED
      BY <1>2, <2>2, <3>1, <3>2 DEF Connection
  <2>3. CASE ~(Cardinality(k.channels) < MAX_SUBSCRIPTIONS /\ MaySubscribe(frame.channel, k.wallet))
    BY <2>1, <2>3 DEF Subscribe
  <2>4. QED
    BY <2>2, <2>3
<1>4. CASE frame.type # "SUBSCRIBE"
  <2>1. Received(k, frame) = [wallet |-> k.wallet, channels |-> k.channels \ {frame.channel}]
    BY <1>1, <1>4 DEF Received, Unsubscribe, Connection
  <2>2. /\ IsFiniteSet(k.channels \ {frame.channel})
        /\ Cardinality(k.channels \ {frame.channel}) <= Cardinality(k.channels)
    BY FS_Subset
  <2>3. Cardinality(k.channels) \in Nat /\ Cardinality(k.channels \ {frame.channel}) \in Nat
    BY <2>2, FS_CardinalityType
  <2>4. QED
    BY <2>1, <2>2, <2>3, HubAssumption DEF Connection
<1>5. QED
  BY <1>3, <1>4

LEMMA IdentifyType ==
  ASSUME NEW k \in Connection, NEW wallet \in Wallets \cup {None},
         IsFiniteSet(k.channels), Cardinality(k.channels) <= MAX_SUBSCRIPTIONS
  PROVE  /\ Identify(k, wallet) \in Connection
         /\ Identify(k, wallet).wallet = wallet
         /\ IsFiniteSet(Identify(k, wallet).channels)
         /\ Cardinality(Identify(k, wallet).channels) <= MAX_SUBSCRIPTIONS
         /\ \A ch \in Identify(k, wallet).channels : MaySubscribe(ch, wallet)
<1>1. Identify(k, wallet).channels \subseteq k.channels
  BY DEF Identify
<1>2. /\ IsFiniteSet(Identify(k, wallet).channels)
      /\ Cardinality(Identify(k, wallet).channels) <= Cardinality(k.channels)
  BY <1>1, FS_Subset
<1>3. Cardinality(k.channels) \in Nat /\ Cardinality(Identify(k, wallet).channels) \in Nat
  BY <1>2, FS_CardinalityType
<1>4. QED
  BY <1>1, <1>2, <1>3, HubAssumption DEF Identify, Connection

LEMMA ArrivesStep ==
  ASSUME GatewayInv, NEW c \in Conns, NEW frame \in Frames, Arrives(c, frame)
  PROVE  GatewayInv'
<1>1. \A d \in Conns \ {c} : ConnStays(d)
  BY DEF GatewayInv, GatewayTypeOK, Arrives, ConnStays
<1>2. CASE Len(queue[c]) < MAX_PENDING_FRAMES
  <2>1. /\ queue' = [queue EXCEPT ![c] = Append(@, frame)]
        /\ sent' = [sent EXCEPT ![c] = Append(@, frame)]
        /\ UNCHANGED <<sock, sessions, stage, opened, hub, proved>>
        /\ sock[c] \in {"open", "closing"}
    BY <1>2 DEF Arrives
  <2>2. /\ queue[c] \in Seq(Frames) /\ sent[c] \in Seq(Frames)
        /\ queue'[c] = Append(queue[c], frame) /\ sent'[c] = Append(sent[c], frame)
    BY <2>1 DEF GatewayInv, GatewayTypeOK
  <2>3. /\ Len(queue'[c]) = Len(queue[c]) + 1 /\ Len(sent'[c]) = Len(sent[c]) + 1
        /\ Len(queue[c]) \in Nat /\ Len(sent[c]) \in Nat
    BY <2>2
  <2>4. /\ \A j \in 1..Len(sent[c]) : sent'[c][j] = sent[c][j]
        /\ sent'[c][Len(sent[c]) + 1] = frame
        /\ \A j \in 1..Len(queue[c]) : queue'[c][j] = queue[c][j]
        /\ queue'[c][Len(queue[c]) + 1] = frame
    BY <2>2
  <2>5. /\ Taken(c)' = Taken(c) /\ Taken(c) \in 0..Len(sent[c])
        /\ QueueInv(c)'
    BY <2>2, TailGrows, BehindType DEF Taken, GatewayInv, QueueInv
  <2>6. GatewayTypeOK'
    <3>1. queue' \in [Conns -> Seq(Frames)] /\ sent' \in [Conns -> Seq(Frames)]
      BY <2>1, <2>2 DEF GatewayInv, GatewayTypeOK
    <3>2. \A d \in Conns : /\ Len(queue'[d]) <= MAX_PENDING_FRAMES
                           /\ stage'[d] = "resolving" => queue'[d] # << >>
      <4> SUFFICES ASSUME NEW d \in Conns
                   PROVE  /\ Len(queue'[d]) <= MAX_PENDING_FRAMES
                          /\ stage'[d] = "resolving" => queue'[d] # << >>
        OBVIOUS
      <4>1. CASE d = c
        BY <1>2, <2>2, <2>3, <4>1, GatewayAssumption
      <4>2. CASE d # c
        BY <2>1, <4>2 DEF GatewayInv, GatewayTypeOK
      <4>3. QED
        BY <4>1, <4>2
    <3>3. QED
      BY <2>1, <3>1, <3>2 DEF GatewayInv, GatewayTypeOK
  <2>8. StageInv(c)'
    <3>1. stage[c] = "resolving" => queue'[c][1] = queue[c][1]
      <4>1. stage[c] = "resolving" => Len(queue[c]) # 0
        BY <2>2 DEF GatewayInv, GatewayTypeOK
      <4>2. QED
        BY <2>3, <2>4, <4>1
    <3>2. QED
      BY <2>1, <2>5, <3>1 DEF GatewayInv, StageInv
  <2>9. EntryInv(c)'
    BY <2>1 DEF GatewayInv, EntryInv
  <2>10. HistoryInv(c)'
    <3>1. ASSUME NEW f, Replays(c, f, Taken(c)) PROVE Replays(c, f, Taken(c))'
      <4>1. Len(proved[c]) \in Nat /\ proved'[c] = proved[c]
        BY <2>1 DEF GatewayInv, GatewayTypeOK
      <4>2. \A j \in 1..Taken(c) : sent'[c][j] = sent[c][j]
        BY <2>3, <2>4, <2>5
      <4>3. Taken(c) \in Nat
        BY <2>3, <2>5
      <4>4. QED
        BY <2>5, <3>1, <4>1, <4>2, <4>3, ReplayKept
    <3>2. QED
      BY <2>1, <2>5, <3>1 DEF GatewayInv, HistoryInv
  <2>11. QED
    BY <1>1, <2>5, <2>6, <2>8, <2>9, <2>10, OneConnection DEF ConnInv
<1>3. CASE ~(Len(queue[c]) < MAX_PENDING_FRAMES)
  <2>1. /\ sock' = [sock EXCEPT ![c] = "closing"]
        /\ UNCHANGED <<queue, sent, sessions, stage, opened, hub, proved>>
        /\ sock[c] \in {"open", "closing"}
    BY <1>3 DEF Arrives
  <2>2. GatewayTypeOK' /\ sock'[c] = "closing"
    BY <2>1 DEF GatewayInv, GatewayTypeOK
  <2>3. Taken(c)' = Taken(c) /\ \A f, n : Replays(c, f, n)' <=> Replays(c, f, n)
    BY <2>1 DEF Taken, Replays, AtOpen, After
  <2>4. ConnInv(c)'
    BY <2>1, <2>2, <2>3
       DEF GatewayInv, ConnInv, QueueInv, StageInv, EntryInv, HistoryInv
  <2>5. QED
    BY <1>1, <2>2, <2>4, OneConnection
<1>4. QED
  BY <1>2, <1>3

LEMMA HandleStep ==
  ASSUME GatewayInv, NEW c \in Conns, Handle(c)
  PROVE  GatewayInv'
<1>1. \A d \in Conns \ {c} : ConnStays(d)
  BY DEF GatewayInv, GatewayTypeOK, Handle, ConnStays
<1>2. PICK frame : frame = Head(queue[c])
  OBVIOUS
<1>3. /\ queue[c] \in Seq(Frames) /\ sent[c] \in Seq(Frames) /\ queue[c] # << >>
      /\ proved[c] \in Seq(Wallets \cup {None})
      /\ IsTailOf(queue[c], sent[c])
  BY DEF GatewayInv, GatewayTypeOK, Handle, QueueInv
<1>4. frame = queue[c][1] /\ frame \in Frames
  BY <1>2, <1>3
<1>5. CASE c \in opened /\ frame.type = "AUTHENTICATE"
  <2>1. /\ stage' = [stage EXCEPT ![c] = "resolving"]
        /\ UNCHANGED <<queue, hub, sock, sessions, opened, sent, proved>>
    BY <1>2, <1>5 DEF Handle
  <2>2. GatewayTypeOK'
    BY <1>3, <2>1 DEF GatewayInv, GatewayTypeOK
  <2>3. Taken(c)' = Taken(c) /\ \A f, n : Replays(c, f, n)' <=> Replays(c, f, n)
    BY <2>1 DEF Taken, Replays, AtOpen, After
  <2>4. StageInv(c)'
    BY <1>4, <1>5, <2>1, <2>3 DEF GatewayInv, GatewayTypeOK, StageInv
  <2>5. QueueInv(c)' /\ EntryInv(c)' /\ HistoryInv(c)'
    BY <2>1, <2>3 DEF GatewayInv, QueueInv, EntryInv, HistoryInv
  <2>6. QED
    BY <1>1, <2>2, <2>4, <2>5, OneConnection DEF ConnInv
<1>6. CASE ~(c \in opened /\ frame.type = "AUTHENTICATE")
  <2>1. /\ queue' = [queue EXCEPT ![c] = Tail(@)]
        /\ c \in opened => hub' = [hub EXCEPT ![c] = Received(@, frame)]
        /\ c \notin opened => hub' = hub
        /\ stage[c] = "idle"
        /\ UNCHANGED <<stage, sock, sessions, opened, sent, proved>>
    BY <1>2, <1>6 DEF Handle
  <2>2. queue'[c] = Tail(queue[c]) /\ Tail(queue[c]) \in Seq(Frames)
    BY <1>3, <2>1 DEF GatewayInv, GatewayTypeOK
  <2>3. /\ QueueInv(c)' /\ Taken(c)' = Taken(c) + 1
        /\ Taken(c) + 1 \in 1..Len(sent[c]) /\ frame = sent[c][Taken(c) + 1]
    BY <1>3, <1>4, <2>1, <2>2, TailShrinks DEF Taken, QueueInv
  <2>4. Taken(c) \in Nat
    BY <1>3, BehindType DEF Taken
  <2>5. hub[c] # None => /\ c \in opened /\ hub[c] \in Connection
                         /\ frame.type # "AUTHENTICATE"
                         /\ hub'[c] = Received(hub[c], frame)
    BY <1>6, <2>1 DEF GatewayInv, GatewayTypeOK, StageInv
  <2>6. hub[c] = None => hub'[c] = None
    BY <2>1 DEF GatewayInv, GatewayTypeOK, Received
  <2>7. hub[c] # None =>
          /\ hub'[c] \in Connection /\ hub'[c].wallet = hub[c].wallet
          /\ IsFiniteSet(hub'[c].channels)
          /\ Cardinality(hub'[c].channels) <= MAX_SUBSCRIPTIONS
          /\ \A ch \in hub'[c].channels : MaySubscribe(ch, hub[c].wallet)
    <3> SUFFICES ASSUME hub[c] # None
                 PROVE  /\ hub'[c] \in Connection /\ hub'[c].wallet = hub[c].wallet
                        /\ IsFiniteSet(hub'[c].channels)
                        /\ Cardinality(hub'[c].channels) <= MAX_SUBSCRIPTIONS
                        /\ \A ch \in hub'[c].channels : MaySubscribe(ch, hub[c].wallet)
      OBVIOUS
    <3>1. /\ IsFiniteSet(hub[c].channels)
          /\ Cardinality(hub[c].channels) <= MAX_SUBSCRIPTIONS
          /\ \A ch \in hub[c].channels : MaySubscribe(ch, hub[c].wallet)
      BY DEF GatewayInv, GatewayTypeOK, EntryInv
    <3>2. QED
      BY <1>4, <2>5, <3>1, ReceivedType
  <2>8. GatewayTypeOK'
    <3>1. queue' \in [Conns -> Seq(Frames)]
      BY <2>1, <2>2 DEF GatewayInv, GatewayTypeOK
    <3>2. hub' \in [Conns -> Connection \cup {None}]
      BY <2>1, <2>6, <2>7 DEF GatewayInv, GatewayTypeOK
    <3>3. Len(queue'[c]) <= MAX_PENDING_FRAMES
      <4>1. Len(Tail(queue[c])) = Len(queue[c]) - 1 /\ Len(queue[c]) \in Nat
        BY <1>3
      <4>2. Len(queue[c]) <= MAX_PENDING_FRAMES
        BY DEF GatewayInv, GatewayTypeOK
      <4>3. PICK l \in Nat : l = Len(queue[c]) /\ Len(queue'[c]) = l - 1
        BY <2>2, <4>1
      <4>4. QED
        BY <4>2, <4>3, GatewayAssumption
    <3>4. \A d \in Conns \ {c} : queue'[d] = queue[d] /\ hub'[d] = hub[d]
      BY <1>1 DEF ConnStays
    <3>5. \A d \in Conns :
            /\ Len(queue'[d]) <= MAX_PENDING_FRAMES
            /\ hub'[d] # None => Cardinality(hub'[d].channels) <= MAX_SUBSCRIPTIONS
            /\ stage'[d] = "resolving" => queue'[d] # << >>
      BY <2>1, <2>6, <2>7, <3>3, <3>4 DEF GatewayInv, GatewayTypeOK
    <3>6. QED
      BY <2>1, <3>1, <3>2, <3>5 DEF GatewayInv, GatewayTypeOK
  <2>9. StageInv(c)'
    <3>1. sock[c] # "new"
      <4>1. Len(sent[c]) # 0
        BY <2>3, <2>4
      <4>2. sent[c] # << >>
        BY <4>1
      <4>3. QED
        BY <4>2 DEF GatewayInv, StageInv
    <3>2. c \notin opened => hub'[c] = None /\ proved[c] = << >>
      BY <2>1 DEF GatewayInv, StageInv
    <3>3. QED
      BY <2>1, <3>1, <3>2 DEF StageInv
  <2>10. EntryInv(c)'
    BY <2>1, <2>6, <2>7 DEF GatewayInv, EntryInv
  <2>11. HistoryInv(c)'
    <3> SUFFICES ASSUME hub[c] # None
                 PROVE  HistoryInv(c)'
      BY <2>6 DEF HistoryInv
    <3>1. PICK n \in Nat : n = Taken(c) /\ Taken(c)' = n + 1
      BY <2>3, <2>4
    <3>2. PICK f : Replays(c, f, n) /\ f[n] = [k |-> hub[c], lookups |-> Len(proved[c])]
      BY <3>1 DEF GatewayInv, HistoryInv
    <3>3. Replays(c, f, n)'
      BY <2>1, <3>2 DEF Replays, AtOpen, After
    <3>4. PICK g : g = [k |-> hub'[c], lookups |-> Len(proved[c])]
      OBVIOUS
    <3>5. g = After(c, f[n], sent[c][n + 1])'
      BY <2>1, <2>3, <2>5, <3>1, <3>2, <3>4 DEF After
    <3>6. g.lookups \in 1..Len(proved'[c])
      <4>1. f[n].lookups \in 1..Len(proved[c])
        BY <3>2 DEF Replays
      <4>2. QED
        BY <2>1, <3>2, <3>4, <4>1
    <3>7. PICK h : Replays(c, h, n + 1)' /\ h[n + 1] = g
      BY <3>3, <3>5, <3>6, ReplayNext
    <3>8. Replays(c, h, Taken(c))'
      BY <3>1, <3>7
    <3>9. h[Taken(c)'] = [k |-> hub'[c], lookups |-> Len(proved'[c])]
      BY <2>1, <3>1, <3>4, <3>7
    <3>10. QED
      BY <3>8, <3>9 DEF HistoryInv
  <2>12. QED
    BY <1>1, <2>3, <2>8, <2>9, <2>10, <2>11, OneConnection DEF ConnInv
<1>7. QED
  BY <1>5, <1>6

LEMMA ResolvedStep ==
  ASSUME GatewayInv, NEW c \in Conns, NEW wallet \in Wallets \cup {None}, Resolved(c, wallet)
  PROVE  GatewayInv'
<1>1. \A d \in Conns \ {c} : ConnStays(d)
  BY DEF GatewayInv, GatewayTypeOK, Resolved, ConnStays
<1>2. /\ hub' = [hub EXCEPT ![c] = IF @ = None THEN None ELSE Identify(@, wallet)]
      /\ proved' = [proved EXCEPT ![c] = Append(@, wallet)]
      /\ queue' = [queue EXCEPT ![c] = Tail(@)]
      /\ stage[c] = "resolving" /\ stage' = [stage EXCEPT ![c] = "idle"]
      /\ UNCHANGED <<sock, sessions, opened, sent>>
  BY DEF Resolved
<1>3. /\ queue[c] \in Seq(Frames) /\ sent[c] \in Seq(Frames) /\ queue[c] # << >>
      /\ proved[c] \in Seq(Wallets \cup {None})
      /\ IsTailOf(queue[c], sent[c])
      /\ c \in opened /\ sock[c] # "new" /\ queue[c][1].type = "AUTHENTICATE"
  BY <1>2 DEF GatewayInv, GatewayTypeOK, QueueInv, StageInv
<1>4. queue'[c] = Tail(queue[c]) /\ Tail(queue[c]) \in Seq(Frames)
  BY <1>2, <1>3 DEF GatewayInv, GatewayTypeOK
<1>5. /\ QueueInv(c)' /\ Taken(c)' = Taken(c) + 1
      /\ Taken(c) + 1 \in 1..Len(sent[c])
      /\ sent[c][Taken(c) + 1].type = "AUTHENTICATE"
  BY <1>2, <1>3, <1>4, TailShrinks DEF Taken, QueueInv
<1>6. Taken(c) \in Nat
  BY <1>3, BehindType DEF Taken
<1>7. /\ proved'[c] = Append(proved[c], wallet) /\ Len(proved[c]) \in Nat
      /\ Len(proved'[c]) = Len(proved[c]) + 1
      /\ proved'[c][Len(proved[c]) + 1] = wallet
      /\ \A j \in 1..Len(proved[c]) : proved'[c][j] = proved[c][j]
      /\ proved'[c] # << >> /\ proved'[c][Len(proved'[c])] = wallet
  <2>1. proved'[c] = Append(proved[c], wallet)
    BY <1>2 DEF GatewayInv, GatewayTypeOK
  <2>2. /\ Len(proved[c]) \in Nat
        /\ Len(Append(proved[c], wallet)) = Len(proved[c]) + 1
        /\ Append(proved[c], wallet)[Len(proved[c]) + 1] = wallet
        /\ \A j \in 1..Len(proved[c]) : Append(proved[c], wallet)[j] = proved[c][j]
        /\ Append(proved[c], wallet) # << >>
    BY <1>3
  <2>3. QED
    BY <2>1, <2>2
<1>8. hub[c] # None => hub'[c] = Identify(hub[c], wallet)
  BY <1>2 DEF GatewayInv, GatewayTypeOK
<1>9. hub[c] = None => hub'[c] = None
  BY <1>2 DEF GatewayInv, GatewayTypeOK
<1>10. hub[c] # None =>
          /\ hub'[c] \in Connection /\ hub'[c].wallet = wallet
          /\ IsFiniteSet(hub'[c].channels)
          /\ Cardinality(hub'[c].channels) <= MAX_SUBSCRIPTIONS
          /\ \A ch \in hub'[c].channels : MaySubscribe(ch, wallet)
  BY <1>8, IdentifyType DEF GatewayInv, GatewayTypeOK, EntryInv
<1>11. GatewayTypeOK'
  <2>1. queue' \in [Conns -> Seq(Frames)]
    BY <1>2, <1>4 DEF GatewayInv, GatewayTypeOK
  <2>2. hub' \in [Conns -> Connection \cup {None}]
    BY <1>2, <1>9, <1>10 DEF GatewayInv, GatewayTypeOK
  <2>3. proved' \in [Conns -> Seq(Wallets \cup {None})]
    BY <1>2, <1>3 DEF GatewayInv, GatewayTypeOK
  <2>4. Len(queue'[c]) <= MAX_PENDING_FRAMES
    <3>1. Len(Tail(queue[c])) = Len(queue[c]) - 1 /\ Len(queue[c]) \in Nat
      BY <1>3
    <3>2. Len(queue[c]) <= MAX_PENDING_FRAMES
      BY DEF GatewayInv, GatewayTypeOK
    <3>3. PICK l \in Nat : l = Len(queue[c]) /\ Len(queue'[c]) = l - 1
      BY <1>4, <3>1
    <3>4. QED
      BY <3>2, <3>3, GatewayAssumption
  <2>5. \A d \in Conns \ {c} : queue'[d] = queue[d] /\ hub'[d] = hub[d]
    BY <1>1 DEF ConnStays
  <2>6. \A d \in Conns :
          /\ Len(queue'[d]) <= MAX_PENDING_FRAMES
          /\ hub'[d] # None => Cardinality(hub'[d].channels) <= MAX_SUBSCRIPTIONS
          /\ stage'[d] = "resolving" => queue'[d] # << >>
    BY <1>2, <1>9, <1>10, <2>4, <2>5 DEF GatewayInv, GatewayTypeOK
  <2>7. QED
    BY <1>2, <2>1, <2>2, <2>3, <2>6 DEF GatewayInv, GatewayTypeOK
<1>12. StageInv(c)'
  BY <1>2, <1>3 DEF GatewayInv, GatewayTypeOK, StageInv
<1>13. EntryInv(c)'
  BY <1>2, <1>7, <1>9, <1>10 DEF GatewayInv, EntryInv
<1>14. HistoryInv(c)'
  <2> SUFFICES ASSUME hub[c] # None
               PROVE  HistoryInv(c)'
    BY <1>9 DEF HistoryInv
  <2>1. PICK n \in Nat : n = Taken(c) /\ Taken(c)' = n + 1
    BY <1>5, <1>6
  <2>2. PICK f : Replays(c, f, n) /\ f[n] = [k |-> hub[c], lookups |-> Len(proved[c])]
    BY <2>1 DEF GatewayInv, HistoryInv
  <2>3. Replays(c, f, n)'
    <3>1. \A j \in 1..n : sent'[c][j] = sent[c][j]
      BY <1>2
    <3>2. Len(proved'[c]) \in Nat /\ Len(proved[c]) <= Len(proved'[c])
      BY <1>7
    <3>3. QED
      BY <1>7, <2>2, <3>1, <3>2, ReplayKept
  <2>4. PICK g : g = [k |-> hub'[c], lookups |-> Len(proved[c]) + 1]
    OBVIOUS
  <2>5. g = After(c, f[n], sent[c][n + 1])'
    BY <1>2, <1>5, <1>7, <1>8, <2>1, <2>2, <2>4 DEF After
  <2>6. g.lookups \in 1..Len(proved'[c])
    BY <1>7, <2>4
  <2>7. PICK h : Replays(c, h, n + 1)' /\ h[n + 1] = g
    BY <2>3, <2>5, <2>6, ReplayNext
  <2>8. Replays(c, h, Taken(c))'
    BY <2>1, <2>7
  <2>9. h[Taken(c)'] = [k |-> hub'[c], lookups |-> Len(proved'[c])]
    BY <1>7, <2>1, <2>4, <2>7
  <2>10. QED
    BY <2>8, <2>9 DEF HistoryInv
<1>15. QED
  BY <1>1, <1>5, <1>11, <1>12, <1>13, <1>14, OneConnection DEF ConnInv

\* Steps that leave a connection's frames and lookups alone.
LEMMA HistoryKept ==
  ASSUME NEW c \in Conns, HistoryInv(c), UNCHANGED <<queue, sent, proved>>,
         hub'[c] \in {hub[c], None}
  PROVE  HistoryInv(c)'
<1>1. Taken(c)' = Taken(c) /\ \A f, n : Replays(c, f, n)' <=> Replays(c, f, n)
  BY DEF Taken, Replays, AtOpen, After
<1>2. QED
  BY <1>1 DEF HistoryInv

LEMMA ClosingStep ==
  ASSUME GatewayInv, NEW c \in Conns, Closing(c)
  PROVE  GatewayInv'
<1>1. GatewayTypeOK' /\ \A d \in Conns \ {c} : ConnStays(d)
  BY DEF GatewayInv, GatewayTypeOK, Closing, ConnStays
<1>2. HistoryInv(c)'
  BY HistoryKept DEF GatewayInv, Closing
<1>3. Taken(c)' = Taken(c) /\ sock'[c] = "closing" /\ sock[c] = "open"
  BY DEF GatewayInv, GatewayTypeOK, Closing, Taken
<1>4. QueueInv(c)' /\ StageInv(c)' /\ EntryInv(c)'
  BY <1>3 DEF GatewayInv, Closing, QueueInv, StageInv, EntryInv
<1>5. QED
  BY <1>1, <1>2, <1>4, OneConnection DEF ConnInv

LEMMA ForgetStep ==
  ASSUME GatewayInv, NEW c \in Conns, Forget(c)
  PROVE  GatewayInv'
<1>1. hub'[c] = None
  BY DEF GatewayInv, GatewayTypeOK, StageInv, Forget
<1>2. \A d \in Conns \ {c} : hub'[d] = hub[d]
  BY DEF GatewayInv, GatewayTypeOK, Forget
<1>3. hub' \in [Conns -> Connection \cup {None}]
  BY DEF GatewayInv, GatewayTypeOK, Forget
<1>4. GatewayTypeOK'
  BY <1>1, <1>2, <1>3 DEF GatewayInv, GatewayTypeOK, Forget
<1>5. \A d \in Conns \ {c} : ConnStays(d)
  BY <1>2 DEF GatewayInv, GatewayTypeOK, Forget, ConnStays
<1>6. HistoryInv(c)' /\ EntryInv(c)'
  BY <1>1 DEF HistoryInv, EntryInv
<1>7. Taken(c)' = Taken(c) /\ sock'[c] = "closed" /\ sock[c] # "new"
  BY DEF GatewayInv, GatewayTypeOK, Forget, Taken
<1>8. QueueInv(c)' /\ StageInv(c)'
  BY <1>1, <1>7 DEF GatewayInv, Forget, QueueInv, StageInv
<1>9. QED
  BY <1>4, <1>5, <1>6, <1>8, OneConnection DEF ConnInv

\* A revoked session changes no connection: what it proved, it proved.
LEMMA RevokeStep ==
  ASSUME GatewayInv, sessions' \subseteq sessions,
         UNCHANGED <<sock, stage, opened, queue, hub, sent, proved>>
  PROVE  GatewayInv'
<1>1. GatewayTypeOK'
  BY DEF GatewayInv, GatewayTypeOK
<1>2. \A c \in Conns : ConnStays(c)
  BY DEF ConnStays
<1>3. QED
  BY <1>1, <1>2, ConnInvStays DEF GatewayInv, ConnInv

LEMMA GatewayInvStep == GatewayInv /\ [GatewayNext]_gatewayVars => GatewayInv'
<1> SUFFICES ASSUME GatewayInv, [GatewayNext]_gatewayVars
             PROVE  GatewayInv'
  OBVIOUS
<1>1. ASSUME NEW c \in Conns, Connect(c) PROVE GatewayInv'
  BY <1>1, ConnectStep
<1>2. ASSUME NEW c \in Conns, NEW token \in Wallets \cup {None}, Opened(c, token)
      PROVE  GatewayInv'
  BY <1>2, OpenedStep
<1>3. ASSUME NEW c \in Conns, OpenFails(c) PROVE GatewayInv'
  BY <1>3, OpenFailsStep
<1>4. ASSUME NEW c \in Conns, NEW frame \in Frames, Arrives(c, frame) PROVE GatewayInv'
  BY <1>4, ArrivesStep
<1>5. ASSUME NEW c \in Conns, Handle(c) PROVE GatewayInv'
  BY <1>5, HandleStep
<1>6. ASSUME NEW c \in Conns, NEW wallet \in Wallets \cup {None}, Resolved(c, wallet)
      PROVE  GatewayInv'
  BY <1>6, ResolvedStep
<1>7. ASSUME NEW c \in Conns, Closing(c) \/ Forget(c) PROVE GatewayInv'
  BY <1>7, ClosingStep, ForgetStep
<1>8. ASSUME NEW w \in Wallets, Revoke(w) PROVE GatewayInv'
  BY <1>8, RevokeStep DEF Revoke
<1>9. CASE UNCHANGED gatewayVars
  BY <1>9, RevokeStep DEF gatewayVars
<1>10. QED
  BY <1>1, <1>2, <1>3, <1>4, <1>5, <1>6, <1>7, <1>8, <1>9 DEF GatewayNext

LEMMA GatewayInvHolds == GatewaySpec => []GatewayInv
BY GatewayInvInit, GatewayInvStep, PTL DEF GatewaySpec

\* A wallet's private channel is delivered only to an open connection whose
\* last session lookup proved that wallet, in whatever order its frames, its
\* lookups and its close fall (socket-server.ts, hub.ts).
THEOREM ListenersHaveProved == GatewaySpec => []ListenersAreProved
<1>1. GatewayInv => ListenersAreProved
  <2> SUFFICES ASSUME GatewayInv, NEW c \in Conns, hub[c] # None
               PROVE  /\ sock[c] \notin {"new", "closed"}
                      /\ proved[c] # << >>
                      /\ hub[c].wallet = proved[c][Len(proved[c])]
                      /\ \A w \in Wallets :
                           WalletChannel(w) \in hub[c].channels => hub[c].wallet = w
    BY DEF ListenersAreProved
  <2>1. EntryInv(c)
    BY DEF GatewayInv
  <2>2. ASSUME NEW w \in Wallets, WalletChannel(w) \in hub[c].channels
        PROVE  hub[c].wallet = w
    <3>1. MaySubscribe(WalletChannel(w), hub[c].wallet)
      BY <2>1, <2>2 DEF EntryInv
    <3>2. WalletChannel(w) = WalletChannel(hub[c].wallet)
      BY <3>1, HubAssumption DEF MaySubscribe
    <3>3. QED
      BY <3>2 DEF WalletChannel
  <2>3. QED
    BY <2>1, <2>2 DEF EntryInv
<1>2. QED
  BY <1>1, GatewayInvHolds, PTL

\* A connection whose queue is empty is, and follows, what its frames say when
\* taken one after another, however its lookups were delayed (socket-server.ts).
THEOREM FramesTakeEffectInOrder == GatewaySpec => []FramesInOrder
<1>1. GatewayInv => FramesInOrder
  <2> SUFFICES ASSUME GatewayInv, NEW c \in Conns, hub[c] # None, queue[c] = << >>
               PROVE  hub[c] = Replayed(c)
    BY DEF FramesInOrder
  <2>1. PICK n \in Nat : n = Len(sent[c]) /\ n = Taken(c)
    <3>1. Len(sent[c]) \in Nat /\ Len(queue[c]) = 0
      BY DEF GatewayInv, GatewayTypeOK
    <3>2. Taken(c) = Len(sent[c])
      BY <3>1 DEF Taken, Behind
    <3>3. QED
      BY <3>1, <3>2
  <2>2. PICK f : Replays(c, f, n) /\ f[n].k = hub[c]
    <3>1. HistoryInv(c)
      BY DEF GatewayInv
    <3>2. PICK f : Replays(c, f, n) /\ f[n] = [k |-> hub[c], lookups |-> Len(proved[c])]
      BY <2>1, <3>1 DEF HistoryInv
    <3>3. QED
      BY <3>2
  <2>3. PICK replay :
          replay = CHOOSE g : g = [j \in 0..Len(sent[c]) |->
                                     IF j = 0 THEN AtOpen(c)
                                     ELSE After(c, g[j - 1], sent[c][j])]
    OBVIOUS
  <2>4. Replayed(c) = replay[n].k
    BY <2>1, <2>3 DEF Replayed
  <2>5. replay = [j \in 0..n |-> IF j = 0 THEN AtOpen(c)
                                 ELSE After(c, replay[j - 1], sent[c][j])]
    <3>1. PICK g : g = [j \in 0..n |-> f[j]]
      OBVIOUS
    <3>2. \A j \in 0..n : g[j] = IF j = 0 THEN AtOpen(c)
                                 ELSE After(c, g[j - 1], sent[c][j])
      <4> SUFFICES ASSUME NEW j \in 0..n, j # 0
                   PROVE  g[j] = After(c, g[j - 1], sent[c][j])
        BY <2>2, <3>1 DEF Replays
      <4>1. j \in 1..n /\ j - 1 \in 0..n
        OBVIOUS
      <4>2. g[j] = f[j] /\ g[j - 1] = f[j - 1]
        BY <3>1, <4>1
      <4>3. QED
        BY <2>2, <4>1, <4>2 DEF Replays
    <3>3. g = [j \in 0..n |-> IF j = 0 THEN AtOpen(c)
                              ELSE After(c, g[j - 1], sent[c][j])]
      BY <3>1, <3>2
    <3>4. QED
      BY <2>1, <2>3, <3>3
  <2>6. PICK agree : agree = {j \in 0..n : replay[j] = f[j]}
    OBVIOUS
  <2>7. 0 \in agree
    BY <2>2, <2>5, <2>6 DEF Replays
  <2>8. ASSUME NEW j \in 0..(n - 1), j \in agree
        PROVE  j + 1 \in agree
    <3>1. j + 1 \in 0..n /\ j + 1 \in 1..n /\ j + 1 # 0 /\ (j + 1) - 1 = j
      OBVIOUS
    <3>2. replay[j + 1] = After(c, replay[j], sent[c][j + 1])
      BY <2>5, <3>1
    <3>3. f[j + 1] = After(c, f[j], sent[c][j + 1])
      BY <2>2, <3>1 DEF Replays
    <3>4. QED
      BY <2>6, <2>8, <3>1, <3>2, <3>3
  <2>9. n \in agree
    <3>1. 0..n \subseteq agree
      BY <2>7, <2>8, BoundedInduction
    <3>2. QED
      BY <3>1
  <2>10. QED
    BY <2>2, <2>4, <2>6, <2>9
<1>2. QED
  BY <1>1, GatewayInvHolds, PTL

-----------------------------------------------------------------------------
(***************************************************************************)
(* The sign-in service.                                                    *)
(***************************************************************************)
Call ==
  [kind : {"none", "verify", "rotate", "revoke"},
   step : {"done", "consume", "recover", "issue", "read", "revoke"},
   at : Nat, nonce : Nat, token : Nat,
   claimed : Addresses \cup {NoOne}, wallet : Addresses \cup {NoOne},
   signer : Addresses \cup {NoOne}, thread : 0..(Threads - 1), next : Nat]

\* A request that has consumed a challenge and has not yet been answered.
Spending(k) == calls[k].kind = "verify" /\ calls[k].step \in {"recover", "issue"}

\* A challenge is spent by one request: once consumed it stays used, whoever
\* consumed it is alone in doing so, and a sign-in is the end of it.
NonceInv ==
  /\ \A c, d \in challenges : c.nonce = d.nonce => c = d
  /\ \A k \in Slots : Spending(k) =>
       /\ calls[k].nonce \in 1..nonces
       /\ calls[k].wallet \in Addresses
       /\ \A c \in challenges : c.nonce = calls[k].nonce => c.used
       /\ \A a \in signIns : a.nonce # calls[k].nonce
       /\ \A j \in Slots : Spending(j) /\ calls[j].nonce = calls[k].nonce => j = k
       /\ calls[k].step = "issue" => calls[k].signer = calls[k].wallet
  /\ \A a \in signIns, c \in challenges : c.nonce = a.nonce => c.used
  /\ \A a, b \in signIns : a.nonce = b.nonce => a = b

\* A token is of one wallet, and a pair of a token and a wallet is right if the
\* token's row, while there is one, names that wallet.
Owns(token, wallet) ==
  token \in 1..tokens /\ \A r \in rows : r.token = token => r.wallet = wallet

\* Tokens are drawn once, an answer carries a token of the wallet it names, and
\* a rotation that has answered has revoked the token it replaces.
TokenInv ==
  /\ \A r, s \in rows : r.token = s.token => r = s
  /\ \A k \in Slots :
       /\ calls[k].next # 0 => /\ Owns(calls[k].next, calls[k].wallet)
                               /\ calls[k].step \in {"done", "revoke"}
       /\ calls[k].kind = "rotate" /\ calls[k].step \in {"issue", "revoke"} =>
            calls[k].token \in 1..tokens /\ calls[k].wallet \in Addresses
       /\ calls[k].kind = "rotate" /\ calls[k].step = "done" /\ calls[k].next # 0 =>
            /\ calls[k].token \in 1..tokens
            /\ \A r \in rows : r.token = calls[k].token => r.revoked

AuthInv == AuthTypeOK /\ NonceInv /\ TokenInv

LEMMA NoCallType == NoCall \in Call
BY AuthAssumption DEF NoCall, Call

LEMMA AuthInvInit == AuthInit => AuthInv
<1> SUFFICES ASSUME AuthInit PROVE AuthInv
  OBVIOUS
<1>1. \A k \in Slots : calls[k] = NoCall
  BY DEF AuthInit
<1>2. AuthTypeOK
  BY NoCallType, AuthAssumption DEF AuthInit, AuthTypeOK, Call
<1>3. NonceInv /\ TokenInv
  BY <1>1 DEF AuthInit, NonceInv, TokenInv, Spending, NoCall
<1>4. QED
  BY <1>2, <1>3 DEF AuthInv

LEMMA GoTo ==
  ASSUME calls \in [Slots -> Call], NEW k \in Slots, NEW call \in Call, Go(k, call)
  PROVE  /\ calls' \in [Slots -> Call]
         /\ calls'[k] = call
         /\ \A j \in Slots \ {k} : calls'[j] = calls[j]
BY DEF Go

\* The answer of a request, field by field.
LEMMA Answer ==
  ASSUME calls \in [Slots -> Call], NEW k \in Slots, NEW token \in Nat, Finish(k, token)
  PROVE  /\ calls' \in [Slots -> Call]
         /\ calls'[k].kind = calls[k].kind /\ calls'[k].step = "done"
         /\ calls'[k].token = calls[k].token /\ calls'[k].wallet = calls[k].wallet
         /\ calls'[k].next = token
         /\ \A j \in Slots \ {k} : calls'[j] = calls[j]
<1>1. PICK call : call = [NoCall EXCEPT !.kind = calls[k].kind, !.token = calls[k].token,
                                        !.wallet = calls[k].wallet, !.next = token]
  OBVIOUS
<1>2. call \in Call
  BY <1>1, NoCallType DEF Call
<1>3. /\ call.kind = calls[k].kind /\ call.step = "done" /\ call.token = calls[k].token
      /\ call.wallet = calls[k].wallet /\ call.next = token
  BY <1>1 DEF NoCall
<1>4. Go(k, call)
  BY <1>1 DEF Finish
<1>5. QED
  BY <1>2, <1>3, <1>4, GoTo

\* A step that only moves requests which neither spend a nonce nor end a
\* rotation leaves the rest as it is.
LEMMA NonceStays ==
  ASSUME NonceInv, UNCHANGED <<nonces, challenges, signIns>>, NEW k \in Slots,
         \A j \in Slots \ {k} : calls'[j] = calls[j],
         ~(calls'[k].kind = "verify" /\ calls'[k].step \in {"recover", "issue"})
  PROVE  NonceInv'
BY DEF NonceInv, Spending

LEMMA TokenStays ==
  ASSUME TokenInv, UNCHANGED <<tokens, rows>>, NEW k \in Slots,
         \A j \in Slots \ {k} : calls'[j] = calls[j],
         calls'[k].next = 0,
         calls'[k].kind = "rotate" /\ calls'[k].step \in {"issue", "revoke"} =>
            calls'[k].token \in 1..tokens /\ calls'[k].wallet \in Addresses
  PROVE  TokenInv'
BY DEF TokenInv, Owns

LEMMA challengeStep ==
  ASSUME AuthInv, NEW w \in Addresses, challenge(w), calls' = calls
  PROVE  AuthInv'
<1>1. PICK c : c = [nonce |-> nonces + 1, wallet |-> w, expires |-> clock + CHALLENGE_TTL,
                    used |-> FALSE]
  OBVIOUS
<1>2. /\ nonces \in Nat /\ nonces' = nonces + 1 /\ nonces' \in 0..MaxNonces
      /\ challenges' = challenges \cup {c}
      /\ UNCHANGED <<clock, tokens, rows, poolVars, signIns, calls>>
  BY <1>1, AuthAssumption DEF AuthInv, AuthTypeOK, challenge
<1>3. AuthTypeOK'
  <2>1. c \in [nonce : 1..(nonces + 1), wallet : Addresses, expires : Nat, used : BOOLEAN]
    BY <1>1, <1>2, AuthAssumption DEF AuthInv, AuthTypeOK
  <2>2. challenges' \subseteq [nonce : 1..nonces', wallet : Addresses, expires : Nat, used : BOOLEAN]
    BY <1>2, <2>1 DEF AuthInv, AuthTypeOK
  <2>3. signIns \subseteq [nonce : 1..nonces', signer : Addresses, token : 1..tokens]
    BY <1>2 DEF AuthInv, AuthTypeOK
  <2>4. QED
    BY <1>2, <2>2, <2>3 DEF AuthInv, AuthTypeOK, poolVars
<1>4. \A d \in challenges : d.nonce \in 1..nonces
  BY DEF AuthInv, AuthTypeOK
<1>5. \A a \in signIns : a.nonce \in 1..nonces
  BY DEF AuthInv, AuthTypeOK
<1>6. c.nonce = nonces + 1 /\ nonces + 1 \notin 1..nonces
  BY <1>1, <1>2
<1>7. NonceInv'
  BY <1>2, <1>4, <1>5, <1>6 DEF AuthInv, NonceInv, Spending
<1>8. TokenInv'
  BY <1>2 DEF AuthInv, TokenInv, Owns
<1>9. QED
  BY <1>3, <1>7, <1>8 DEF AuthInv

LEMMA RequestStep ==
  ASSUME AuthInv, NEW k \in Slots, NEW call \in Call, Go(k, call),
         call.kind \in {"verify", "rotate", "none", "revoke"},
         call.step \in {"consume", "read", "done"}, call.next = 0,
         UNCHANGED <<clock, nonces, tokens, challenges, rows, poolVars, signIns>>
  PROVE  AuthInv'
<1>1. /\ calls' \in [Slots -> Call] /\ calls'[k] = call
      /\ \A j \in Slots \ {k} : calls'[j] = calls[j]
  BY GoTo DEF AuthInv, AuthTypeOK, Call
<1>2. AuthTypeOK'
  BY <1>1 DEF AuthInv, AuthTypeOK, Call, poolVars
<1>3. NonceInv'
  BY <1>1, NonceStays DEF AuthInv
<1>4. TokenInv'
  BY <1>1, TokenStays DEF AuthInv
<1>5. QED
  BY <1>2, <1>3, <1>4 DEF AuthInv

LEMMA RefuseStep ==
  ASSUME AuthInv, NEW k \in Slots, Finish(k, 0),
         UNCHANGED <<clock, nonces, tokens, challenges, rows, poolVars, signIns>>
  PROVE  AuthInv'
<1>1. /\ calls' \in [Slots -> Call] /\ calls'[k].step = "done" /\ calls'[k].next = 0
      /\ \A j \in Slots \ {k} : calls'[j] = calls[j]
  BY Answer DEF AuthInv, AuthTypeOK, Call
<1>2. AuthTypeOK'
  BY <1>1 DEF AuthInv, AuthTypeOK, Call, poolVars
<1>3. NonceInv'
  BY <1>1, NonceStays DEF AuthInv
<1>4. TokenInv'
  BY <1>1, TokenStays DEF AuthInv
<1>5. QED
  BY <1>2, <1>3, <1>4 DEF AuthInv

LEMMA verifyStep ==
  ASSUME AuthInv, NEW k \in Slots, NEW n \in Nat, NEW signer \in Addresses \cup {NoOne},
         NEW claimed \in Addresses, verify(k, n, signer, claimed)
  PROVE  AuthInv'
<1>1. PICK call : call = [NoCall EXCEPT !.kind = "verify", !.step = "consume", !.at = clock,
                            !.nonce = n, !.signer = signer, !.claimed = claimed]
  OBVIOUS
<1>2. clock \in Nat
  BY AuthAssumption DEF AuthInv, AuthTypeOK
<1>3. call \in Call /\ call.kind = "verify" /\ call.step = "consume" /\ call.next = 0
  <2>1. call \in Call
    BY <1>1, <1>2, NoCallType DEF Call
  <2>2. call.kind = "verify" /\ call.step = "consume" /\ call.next = 0
    BY <1>1 DEF NoCall
  <2>3. QED
    BY <2>1, <2>2
<1>4. /\ Go(k, call)
      /\ UNCHANGED <<clock, nonces, tokens, challenges, rows, poolVars, signIns>>
  BY <1>1 DEF verify
<1>5. QED
  BY <1>3, <1>4, RequestStep

LEMMA rotateStep ==
  ASSUME AuthInv, NEW k \in Slots, NEW t \in Nat, rotate(k, t)
  PROVE  AuthInv'
<1>1. PICK call : call = [NoCall EXCEPT !.kind = "rotate", !.step = "read", !.at = clock,
                                        !.token = t]
  OBVIOUS
<1>2. clock \in Nat
  BY AuthAssumption DEF AuthInv, AuthTypeOK
<1>3. call \in Call /\ call.kind = "rotate" /\ call.step = "read" /\ call.next = 0
  <2>1. call \in Call
    BY <1>1, <1>2, NoCallType DEF Call
  <2>2. call.kind = "rotate" /\ call.step = "read" /\ call.next = 0
    BY <1>1 DEF NoCall
  <2>3. QED
    BY <2>1, <2>2
<1>4. /\ Go(k, call)
      /\ UNCHANGED <<clock, nonces, tokens, challenges, rows, poolVars, signIns>>
  BY <1>1 DEF rotate
<1>5. QED
  BY <1>3, <1>4, RequestStep

LEMMA consumeChallengeStep ==
  ASSUME AuthInv, NEW k \in Slots, consumeChallenge(k)
  PROVE  AuthInv'
<1>1. UNCHANGED <<clock, nonces, tokens, rows, dead, signIns>>
  BY DEF consumeChallenge
<1>2. ASSUME NEW c \in challenges, Consumable(c, calls[k]),
             challenges' = (challenges \ {c}) \cup {[c EXCEPT !.used = TRUE]},
             Go(k, Post(calls[k], c.wallet)), turn' = (turn + 1) % Threads
      PROVE  AuthInv'
  <2>1. PICK call : call = Post(calls[k], c.wallet)
    OBVIOUS
  <2>2. PICK d : d = [c EXCEPT !.used = TRUE]
    OBVIOUS
  <2>3. /\ c.nonce \in 1..nonces /\ c.wallet \in Addresses /\ c.nonce = calls[k].nonce
        /\ c.used = FALSE /\ d.nonce = c.nonce /\ d.used
        /\ d \in [nonce : 1..nonces, wallet : Addresses, expires : Nat, used : BOOLEAN]
    BY <1>2, <2>2 DEF AuthInv, AuthTypeOK, Consumable
  <2>4. /\ call \in Call /\ call.kind = "verify" /\ call.step = "recover"
        /\ call.nonce = c.nonce /\ call.wallet = c.wallet /\ call.next = calls[k].next
    BY ZenonT(60), <2>1, <2>3 DEF consumeChallenge, Post, Call, AuthInv, AuthTypeOK
  <2>5. /\ calls' \in [Slots -> Call] /\ calls'[k] = call
        /\ \A j \in Slots \ {k} : calls'[j] = calls[j]
    BY <1>2, <2>1, <2>4, GoTo DEF AuthInv, AuthTypeOK, Call
  <2>6. turn' \in 0..(Threads - 1)
    BY <1>2, AuthAssumption DEF AuthInv, AuthTypeOK
  <2>7. AuthTypeOK'
    BY <1>1, <1>2, <2>2, <2>3, <2>5, <2>6 DEF AuthInv, AuthTypeOK, Call
  <2>8. \A e \in challenges' : e.nonce = c.nonce => e = d
    BY <1>2, <2>2 DEF AuthInv, NonceInv
  <2>9. \A e \in challenges' : e.nonce # c.nonce => e \in challenges
    BY <1>2, <2>2, <2>3
  <2>10. /\ \A a \in signIns : a.nonce # c.nonce
         /\ \A j \in Slots : Spending(j) => calls[j].nonce # c.nonce
    BY <2>3 DEF AuthInv, NonceInv
  <2>11. /\ Spending(k)'
         /\ \A j \in Slots \ {k} : Spending(j)' <=> Spending(j)
    BY <2>4, <2>5 DEF Spending
  <2>12. NonceInv'
    <3>1. \A e, f \in challenges' : e.nonce = f.nonce => e = f
      BY <2>8, <2>9 DEF AuthInv, NonceInv
    <3>2. \A a \in signIns', e \in challenges' : e.nonce = a.nonce => e.used
      BY <1>1, <2>9, <2>10 DEF AuthInv, NonceInv
    <3>3. ASSUME NEW j \in Slots, Spending(j)'
          PROVE  /\ calls'[j].nonce \in 1..nonces
                 /\ calls'[j].wallet \in Addresses
                 /\ \A e \in challenges' : e.nonce = calls'[j].nonce => e.used
                 /\ \A a \in signIns' : a.nonce # calls'[j].nonce
                 /\ \A i \in Slots : Spending(i)' /\ calls'[i].nonce = calls'[j].nonce => i = j
                 /\ calls'[j].step = "issue" => calls'[j].signer = calls'[j].wallet
      <4>1. CASE j = k
        BY <1>1, <2>3, <2>4, <2>5, <2>8, <2>10, <2>11, <4>1
      <4>2. CASE j # k
        BY <1>1, <2>4, <2>5, <2>9, <2>10, <2>11, <3>3, <4>2 DEF AuthInv, NonceInv
      <4>3. QED
        BY <4>1, <4>2
    <3>4. QED
      BY <1>1, <3>1, <3>2, <3>3 DEF AuthInv, NonceInv
  <2>13. TokenInv'
    <3>1. call.next = 0
      BY <2>4 DEF AuthInv, TokenInv, consumeChallenge
    <3>2. QED
      BY <1>1, <2>4, <2>5, <3>1, TokenStays DEF AuthInv
  <2>14. QED
    BY <2>7, <2>12, <2>13 DEF AuthInv
<1>3. ASSUME Finish(k, 0), UNCHANGED <<challenges, turn>>
      PROVE  AuthInv'
  BY <1>1, <1>3, RefuseStep DEF poolVars
<1>4. QED
  BY <1>2, <1>3 DEF consumeChallenge

LEMMA verifySignedChallengeStep ==
  ASSUME AuthInv, NEW k \in Slots, verifySignedChallenge(k)
  PROVE  AuthInv'
<1>1. UNCHANGED <<clock, nonces, tokens, challenges, rows, poolVars, signIns>>
  BY DEF verifySignedChallenge
<1>2. CASE calls[k].signer = calls[k].wallet
  <2>1. PICK call : call = [calls[k] EXCEPT !.step = "issue"]
    OBVIOUS
  <2>2. /\ call \in Call /\ call.step = "issue" /\ call.kind = "verify"
        /\ call.nonce = calls[k].nonce /\ call.wallet = calls[k].wallet
        /\ call.signer = call.wallet /\ call.next = calls[k].next
    BY <1>2, <2>1 DEF verifySignedChallenge, AuthInv, AuthTypeOK, Call
  <2>3. /\ calls' \in [Slots -> Call] /\ calls'[k] = call
        /\ \A j \in Slots \ {k} : calls'[j] = calls[j]
    BY <1>2, <2>1, <2>2, GoTo DEF verifySignedChallenge, AuthInv, AuthTypeOK, Call
  <2>4. AuthTypeOK'
    BY <1>1, <2>3 DEF AuthInv, AuthTypeOK, Call, poolVars
  <2>5. \A j \in Slots : /\ Spending(j)' <=> Spending(j)
                         /\ Spending(j) => /\ calls'[j].nonce = calls[j].nonce
                                           /\ calls'[j].wallet = calls[j].wallet
    BY <2>2, <2>3 DEF verifySignedChallenge, Spending
  <2>6. NonceInv'
    BY <1>1, <2>2, <2>3, <2>5 DEF AuthInv, NonceInv
  <2>7. call.next = 0
    BY <2>2 DEF AuthInv, TokenInv, verifySignedChallenge
  <2>8. TokenInv'
    BY <1>1, <2>2, <2>3, <2>7, TokenStays DEF AuthInv
  <2>9. QED
    BY <2>4, <2>6, <2>8 DEF AuthInv
<1>3. CASE calls[k].signer # calls[k].wallet
  <2>1. Finish(k, 0)
    BY <1>3 DEF verifySignedChallenge
  <2>2. QED
    BY <1>1, <2>1, RefuseStep
<1>4. QED
  BY <1>2, <1>3

\* A new session: its token is new, so no pair that was right becomes wrong.
LEMMA SessionCreated ==
  ASSUME AuthInv, NEW w \in Addresses, NEW at \in Nat, createSession(w, at)
  PROVE  /\ tokens \in Nat /\ tokens' = tokens + 1 /\ tokens' \in 0..MaxTokens
         /\ rows' \subseteq [token : 1..tokens', wallet : Addresses, expires : Nat,
                             revoked : BOOLEAN]
         /\ \A r, s \in rows' : r.token = s.token => r = s
         /\ \A t, v : Owns(t, v) => Owns(t, v)'
         /\ \A t \in 1..tokens : (\A r \in rows : r.token = t => r.revoked)
                                   => \A r \in rows' : r.token = t => r.revoked
         /\ Owns(tokens, w)'
<1>1. PICK n : n = [token |-> tokens + 1, wallet |-> w, expires |-> at + SESSION_TTL,
                    revoked |-> FALSE]
  OBVIOUS
<1>2. /\ tokens \in Nat /\ tokens' = tokens + 1 /\ tokens' \in 0..MaxTokens
      /\ rows' = rows \cup {n}
  BY <1>1, AuthAssumption DEF AuthInv, AuthTypeOK, createSession
<1>3. n \in [token : 1..(tokens + 1), wallet : Addresses, expires : Nat, revoked : BOOLEAN]
  BY <1>1, <1>2, AuthAssumption
<1>4. rows \subseteq [token : 1..tokens, wallet : Addresses, expires : Nat, revoked : BOOLEAN]
  BY DEF AuthInv, AuthTypeOK
<1>5. \A r \in rows : r.token \in 1..tokens
  BY <1>4
<1>6. n.token = tokens + 1 /\ n.wallet = w /\ tokens + 1 \notin 1..tokens
  BY <1>1, <1>2
<1>7. rows' \subseteq [token : 1..tokens', wallet : Addresses, expires : Nat, revoked : BOOLEAN]
  BY <1>2, <1>3, <1>4
<1>8. \A r, s \in rows' : r.token = s.token => r = s
  BY <1>2, <1>5, <1>6 DEF AuthInv, TokenInv
<1>9. \A t, v : Owns(t, v) => Owns(t, v)'
  BY <1>2, <1>6 DEF Owns
<1>10. \A t \in 1..tokens : (\A r \in rows : r.token = t => r.revoked)
                              => \A r \in rows' : r.token = t => r.revoked
  BY <1>2, <1>6
<1>11. Owns(tokens, w)'
  BY <1>2, <1>5, <1>6 DEF Owns
<1>12. QED
  BY <1>2, <1>7, <1>8, <1>9, <1>10, <1>11

LEMMA IssueVerifiedStep ==
  ASSUME AuthInv, NEW k \in Slots, IssueVerified(k)
  PROVE  AuthInv'
<1>1. /\ calls[k].kind = "verify" /\ calls[k].step = "issue"
      /\ createSession(calls[k].signer, calls[k].at)
      /\ UNCHANGED <<clock, nonces, challenges, poolVars>>
  BY DEF IssueVerified
<1>2. /\ Spending(k) /\ calls[k].signer = calls[k].wallet /\ calls[k].signer \in Addresses
      /\ calls[k].nonce \in 1..nonces /\ calls[k].at \in Nat
  BY <1>1 DEF Spending, AuthInv, NonceInv, AuthTypeOK
<1>3. /\ tokens \in Nat /\ tokens' = tokens + 1 /\ tokens' \in 0..MaxTokens
      /\ rows' \subseteq [token : 1..tokens', wallet : Addresses, expires : Nat,
                          revoked : BOOLEAN]
      /\ \A r, s \in rows' : r.token = s.token => r = s
      /\ \A t, v : Owns(t, v) => Owns(t, v)'
      /\ \A t \in 1..tokens : (\A r \in rows : r.token = t => r.revoked)
                                => \A r \in rows' : r.token = t => r.revoked
      /\ \E w \in Addresses : w = calls[k].signer /\ Owns(tokens, w)'
  BY <1>1, <1>2, SessionCreated
<1>4. PICK answer \in {0, tokens + 1} : Finish(k, answer)
  BY DEF IssueVerified
<1>5. /\ calls' \in [Slots -> Call] /\ calls'[k].kind = "verify" /\ calls'[k].step = "done"
      /\ calls'[k].wallet = calls[k].wallet /\ calls'[k].next = answer
      /\ \A j \in Slots \ {k} : calls'[j] = calls[j]
  BY <1>1, <1>3, <1>4, Answer DEF AuthInv, AuthTypeOK, Call
<1>6. PICK a : a = [nonce |-> calls[k].nonce, signer |-> calls[k].signer, token |-> tokens + 1]
  OBVIOUS
<1>7. signIns' = signIns \cup {a}
  BY <1>6 DEF IssueVerified
<1>8. a \in [nonce : 1..nonces, signer : Addresses, token : 1..(tokens + 1)]
      /\ a.nonce = calls[k].nonce
  BY <1>2, <1>3, <1>6
<1>9. AuthTypeOK'
  <2>1. signIns \subseteq [nonce : 1..nonces, signer : Addresses, token : 1..(tokens + 1)]
    BY <1>3 DEF AuthInv, AuthTypeOK
  <2>2. signIns' \subseteq [nonce : 1..nonces, signer : Addresses, token : 1..(tokens + 1)]
    BY <1>7, <1>8, <2>1
  <2>3. QED
    BY <1>1, <1>3, <1>5, <2>2 DEF AuthInv, AuthTypeOK, Call, poolVars
<1>10. NonceInv'
  <2>1. /\ \A b \in signIns : b.nonce # a.nonce
        /\ \A c \in challenges : c.nonce = a.nonce => c.used
        /\ \A j \in Slots \ {k} : Spending(j) => calls[j].nonce # a.nonce
    BY <1>2, <1>8 DEF AuthInv, NonceInv
  <2>2. /\ ~Spending(k)'
        /\ \A j \in Slots \ {k} : Spending(j)' <=> Spending(j)
    BY <1>5 DEF Spending
  <2>3. /\ \A b, d \in signIns' : b.nonce = d.nonce => b = d
        /\ \A b \in signIns', c \in challenges : c.nonce = b.nonce => c.used
    BY <1>7, <2>1 DEF AuthInv, NonceInv
  <2>4. ASSUME NEW j \in Slots, Spending(j)'
        PROVE  /\ j # k /\ Spending(j) /\ calls'[j] = calls[j]
               /\ \A b \in signIns' : b.nonce # calls'[j].nonce
    BY <1>5, <1>7, <2>1, <2>2, <2>4 DEF AuthInv, NonceInv
  <2>5. QED
    BY <1>1, <2>2, <2>3, <2>4 DEF AuthInv, NonceInv
<1>11. TokenInv'
  <2>1. answer # 0 => Owns(calls[k].next, calls[k].wallet)'
    BY <1>2, <1>3, <1>4, <1>5
  <2>2. ASSUME NEW j \in Slots \ {k}
        PROVE  calls'[j].next # 0 => Owns(calls[j].next, calls[j].wallet)'
    BY <1>3, <1>5 DEF AuthInv, TokenInv
  <2>3. QED
    BY <1>3, <1>5, <2>1, <2>2 DEF AuthInv, TokenInv
<1>12. QED
  BY <1>9, <1>10, <1>11 DEF AuthInv

\* Sessions revoked or pruned: a row that is left is of the same token and
\* wallet, and a revoked one stays revoked.
LEMMA RowsRevoked ==
  ASSUME AuthInv, tokens' = tokens, NEW g,
         \A r \in rows : g[r] \in {r, [r EXCEPT !.revoked = TRUE]},
         rows' \subseteq {g[r] : r \in rows}
  PROVE  /\ rows' \subseteq [token : 1..tokens, wallet : Addresses, expires : Nat,
                             revoked : BOOLEAN]
         /\ \A r, s \in rows' : r.token = s.token => r = s
         /\ \A t, v : Owns(t, v) => Owns(t, v)'
         /\ \A t \in 1..tokens : (\A r \in rows : r.token = t => r.revoked)
                                   => \A r \in rows' : r.token = t => r.revoked
<1>1. rows \subseteq [token : 1..tokens, wallet : Addresses, expires : Nat, revoked : BOOLEAN]
  BY DEF AuthInv, AuthTypeOK
<1>2. ASSUME NEW r \in rows
      PROVE  /\ g[r] \in [token : 1..tokens, wallet : Addresses, expires : Nat,
                          revoked : BOOLEAN]
             /\ g[r].token = r.token /\ g[r].wallet = r.wallet
             /\ r.revoked => g[r].revoked
  <2>1. CASE g[r] = r
    BY <1>1, <2>1
  <2>2. CASE g[r] = [r EXCEPT !.revoked = TRUE]
    BY <1>1, <2>2
  <2>3. QED
    BY <2>1, <2>2
<1>3. \A r \in rows' : \E s \in rows : r = g[s]
  OBVIOUS
<1>4. \A r, s \in rows : r.token = s.token => r = s
  BY DEF AuthInv, TokenInv
<1>5. rows' \subseteq [token : 1..tokens, wallet : Addresses, expires : Nat, revoked : BOOLEAN]
  BY <1>2, <1>3
<1>6. \A r, s \in rows' : r.token = s.token => r = s
  BY <1>2, <1>3, <1>4
<1>7. \A t, v : Owns(t, v) => Owns(t, v)'
  BY <1>2, <1>3 DEF Owns
<1>8. \A t \in 1..tokens : (\A r \in rows : r.token = t => r.revoked)
                             => \A r \in rows' : r.token = t => r.revoked
  BY <1>2, <1>3
<1>9. QED
  BY <1>5, <1>6, <1>7, <1>8

LEMMA RotateReadStep ==
  ASSUME AuthInv, NEW k \in Slots, RotateRead(k)
  PROVE  AuthInv'
<1>1. /\ calls[k].kind = "rotate" /\ calls[k].step = "read"
      /\ UNCHANGED <<clock, nonces, tokens, challenges, rows, poolVars, signIns>>
  BY DEF RotateRead
<1>2. CASE LiveAt(calls[k].token, calls[k].at)
  <2>1. PICK w : w = WalletOfToken(calls[k].token)
    OBVIOUS
  <2>2. calls[k].token \in 1..tokens /\ w \in Addresses
    <3>1. PICK r \in rows : r.token = calls[k].token
      BY <1>2 DEF LiveAt
    <3>2. PICK s : s = CHOOSE q \in rows : q.token = calls[k].token
      OBVIOUS
    <3>3. s \in rows /\ s.token = calls[k].token
      BY <3>1, <3>2
    <3>4. w = s.wallet
      BY <2>1, <3>2 DEF WalletOfToken
    <3>5. QED
      BY <3>3, <3>4 DEF AuthInv, AuthTypeOK
  <2>3. PICK call : call = [calls[k] EXCEPT !.step = "issue", !.wallet = w]
    OBVIOUS
  <2>4. /\ call \in Call /\ call.kind = "rotate" /\ call.step = "issue" /\ call.wallet = w
        /\ call.token = calls[k].token /\ call.next = calls[k].next
    BY ZenonT(60), <1>1, <2>2, <2>3 DEF AuthInv, AuthTypeOK, Call
  <2>5. /\ calls' \in [Slots -> Call] /\ calls'[k] = call
        /\ \A j \in Slots \ {k} : calls'[j] = calls[j]
    <3>1. Go(k, call)
      BY <1>2, <2>1, <2>3 DEF RotateRead
    <3>2. QED
      BY <2>4, <3>1, GoTo DEF AuthInv, AuthTypeOK, Call
  <2>6. call.next = 0
    BY <1>1, <2>4 DEF AuthInv, TokenInv
  <2>7. AuthTypeOK'
    BY <1>1, <2>5 DEF AuthInv, AuthTypeOK, Call, poolVars
  <2>8. NonceInv'
    BY <1>1, <2>4, <2>5, NonceStays DEF AuthInv
  <2>9. TokenInv'
    BY <1>1, <2>2, <2>4, <2>5, <2>6, TokenStays DEF AuthInv
  <2>10. QED
    BY <2>7, <2>8, <2>9 DEF AuthInv
<1>3. CASE ~LiveAt(calls[k].token, calls[k].at)
  <2>1. Finish(k, 0)
    BY <1>3 DEF RotateRead
  <2>2. QED
    BY <1>1, <2>1, RefuseStep
<1>4. QED
  BY <1>2, <1>3

LEMMA RotateIssueStep ==
  ASSUME AuthInv, NEW k \in Slots, RotateIssue(k)
  PROVE  AuthInv'
<1>1. /\ calls[k].kind = "rotate" /\ calls[k].step = "issue"
      /\ createSession(calls[k].wallet, calls[k].at)
      /\ UNCHANGED <<clock, nonces, challenges, poolVars, signIns>>
  BY DEF RotateIssue
<1>2. /\ calls[k].wallet \in Addresses /\ calls[k].token \in 1..tokens /\ calls[k].at \in Nat
  BY <1>1 DEF AuthInv, TokenInv, AuthTypeOK
<1>3. /\ tokens \in Nat /\ tokens' = tokens + 1 /\ tokens' \in 0..MaxTokens
      /\ rows' \subseteq [token : 1..tokens', wallet : Addresses, expires : Nat,
                          revoked : BOOLEAN]
      /\ \A r, s \in rows' : r.token = s.token => r = s
      /\ \A t, v : Owns(t, v) => Owns(t, v)'
      /\ \A t \in 1..tokens : (\A r \in rows : r.token = t => r.revoked)
                                => \A r \in rows' : r.token = t => r.revoked
      /\ \E w \in Addresses : w = calls[k].wallet /\ Owns(tokens, w)'
  BY <1>1, <1>2, SessionCreated
<1>4. PICK call : call = [calls[k] EXCEPT !.step = "revoke", !.next = tokens + 1]
  OBVIOUS
<1>5. /\ call \in Call /\ call.kind = "rotate" /\ call.step = "revoke"
      /\ call.wallet = calls[k].wallet /\ call.token = calls[k].token
      /\ call.next = tokens'
  <2>1. calls[k] \in Call /\ tokens + 1 \in Nat
    BY <1>3 DEF AuthInv, AuthTypeOK, Call
  <2>2. QED
    BY <1>1, <1>3, <1>4, <2>1 DEF Call
<1>6. /\ calls' \in [Slots -> Call] /\ calls'[k] = call
      /\ \A j \in Slots \ {k} : calls'[j] = calls[j]
  <2>1. Go(k, call)
    BY <1>4 DEF RotateIssue
  <2>2. QED
    BY <1>5, <2>1, GoTo DEF AuthInv, AuthTypeOK, Call
<1>7. AuthTypeOK'
  <2>1. signIns \subseteq [nonce : 1..nonces, signer : Addresses, token : 1..(tokens + 1)]
    BY <1>3 DEF AuthInv, AuthTypeOK
  <2>2. QED
    BY <1>1, <1>3, <1>6, <2>1 DEF AuthInv, AuthTypeOK, Call, poolVars
<1>8. NonceInv'
  BY <1>1, <1>5, <1>6, NonceStays DEF AuthInv
<1>9. TokenInv'
  <2>1. Owns(calls[k].next, calls[k].wallet)'
    BY <1>3, <1>5, <1>6
  <2>2. ASSUME NEW j \in Slots \ {k}
        PROVE  calls'[j].next # 0 => Owns(calls[j].next, calls[j].wallet)'
    BY <1>3, <1>6 DEF AuthInv, TokenInv
  <2>3. calls'[k].token \in 1..tokens' /\ calls'[k].wallet \in Addresses
    BY <1>2, <1>3, <1>5, <1>6
  <2>4. QED
    BY <1>3, <1>5, <1>6, <2>1, <2>2, <2>3 DEF AuthInv, TokenInv
<1>10. QED
  BY <1>7, <1>8, <1>9 DEF AuthInv

\* Sessions revoked or pruned while one request, at most, is answered.
LEMMA RevokingStep ==
  ASSUME AuthInv, NEW g, \A r \in rows : g[r] \in {r, [r EXCEPT !.revoked = TRUE]},
         rows' \subseteq {g[r] : r \in rows},
         NEW k \in Slots, calls' \in [Slots -> Call],
         \A j \in Slots \ {k} : calls'[j] = calls[j],
         calls'[k] = calls[k] \/ calls'[k].step = "done",
         calls'[k] = calls[k] \/ calls'[k].next = 0 \/
           /\ calls'[k].next = calls[k].next /\ calls'[k].wallet = calls[k].wallet
           /\ calls'[k].token \in 1..tokens
           /\ \A r \in rows' : r.token = calls'[k].token => r.revoked,
         UNCHANGED <<clock, nonces, tokens, challenges, poolVars, signIns>>
  PROVE  AuthInv'
<1>1. /\ rows' \subseteq [token : 1..tokens, wallet : Addresses, expires : Nat,
                          revoked : BOOLEAN]
      /\ \A r, s \in rows' : r.token = s.token => r = s
      /\ \A t, v : Owns(t, v) => Owns(t, v)'
      /\ \A t \in 1..tokens : (\A r \in rows : r.token = t => r.revoked)
                                => \A r \in rows' : r.token = t => r.revoked
  BY RowsRevoked
<1>2. AuthTypeOK'
  BY <1>1 DEF AuthInv, AuthTypeOK, Call, poolVars
<1>3. NonceInv'
  <2>1. CASE calls'[k] = calls[k]
    BY <2>1 DEF AuthInv, NonceInv, Spending
  <2>2. CASE calls'[k].step = "done"
    BY <2>2, NonceStays DEF AuthInv
  <2>3. QED
    BY <2>1, <2>2
<1>4. TokenInv'
  <2>1. ASSUME NEW j \in Slots, calls'[j] = calls[j]
        PROVE  /\ calls'[j].next # 0 => /\ Owns(calls[j].next, calls[j].wallet)'
                                        /\ calls'[j].step \in {"done", "revoke"}
               /\ calls'[j].kind = "rotate" /\ calls'[j].step \in {"issue", "revoke"} =>
                    calls'[j].token \in 1..tokens /\ calls'[j].wallet \in Addresses
               /\ calls'[j].kind = "rotate" /\ calls'[j].step = "done"
                    /\ calls'[j].next # 0 =>
                    /\ calls'[j].token \in 1..tokens
                    /\ \A r \in rows' : r.token = calls'[j].token => r.revoked
    BY <1>1, <2>1 DEF AuthInv, TokenInv
  <2>2. CASE calls'[k] = calls[k]
    BY <1>1, <2>1, <2>2 DEF TokenInv
  <2>3. CASE calls'[k] # calls[k]
    <3>1. calls'[k].step = "done"
      BY <2>3
    <3>2. calls'[k].next # 0 => Owns(calls[k].next, calls[k].wallet)'
      BY <1>1, <2>3 DEF AuthInv, TokenInv
    <3>3. QED
      BY <1>1, <2>1, <2>3, <3>1, <3>2 DEF TokenInv
  <2>4. QED
    BY <2>2, <2>3
<1>5. QED
  BY <1>2, <1>3, <1>4 DEF AuthInv

LEMMA RotateRevokeStep ==
  ASSUME AuthInv, NEW k \in Slots, RotateRevoke(k)
  PROVE  AuthInv'
<1>1. /\ calls[k].kind = "rotate" /\ calls[k].step = "revoke"
      /\ rows' = Revoked(calls[k].token) /\ Finish(k, calls[k].next)
      /\ UNCHANGED <<clock, nonces, tokens, challenges, poolVars, signIns>>
  BY DEF RotateRevoke
<1>2. calls[k].token \in 1..tokens /\ calls[k].next \in Nat
  BY <1>1 DEF AuthInv, TokenInv, AuthTypeOK
<1>3. /\ calls' \in [Slots -> Call] /\ calls'[k].step = "done"
      /\ calls'[k].next = calls[k].next /\ calls'[k].wallet = calls[k].wallet
      /\ calls'[k].token = calls[k].token
      /\ \A j \in Slots \ {k} : calls'[j] = calls[j]
  BY <1>1, <1>2, Answer DEF AuthInv, AuthTypeOK, Call
<1>4. PICK g : g = [r \in rows |-> IF r.token = calls[k].token
                                   THEN [r EXCEPT !.revoked = TRUE] ELSE r]
  OBVIOUS
<1>5. /\ \A r \in rows : g[r] \in {r, [r EXCEPT !.revoked = TRUE]}
      /\ rows' \subseteq {g[r] : r \in rows}
  BY <1>1, <1>4 DEF Revoked
<1>6. \A r \in rows' : r.token = calls[k].token => r.revoked
  <2>1. rows \subseteq [token : 1..tokens, wallet : Addresses, expires : Nat, revoked : BOOLEAN]
    BY DEF AuthInv, AuthTypeOK
  <2>2. \A r \in rows : g[r].token = calls[k].token => g[r].revoked
    BY <1>4, <2>1
  <2>3. QED
    BY <1>5, <2>2
<1>7. QED
  BY <1>1, <1>2, <1>3, <1>5, <1>6, RevokingStep

LEMMA revokeStep ==
  ASSUME AuthInv, NEW k \in Slots, NEW t, revoke(k, t)
  PROVE  AuthInv'
<1>1. PICK call : call = [NoCall EXCEPT !.kind = "revoke"]
  OBVIOUS
<1>2. call \in Call /\ call.step = "done" /\ call.next = 0
  <2>1. call \in Call
    BY <1>1, NoCallType DEF Call
  <2>2. call.step = "done" /\ call.next = 0
    BY <1>1 DEF NoCall
  <2>3. QED
    BY <2>1, <2>2
<1>3. /\ Go(k, call) /\ rows' = Revoked(t)
      /\ UNCHANGED <<clock, nonces, tokens, challenges, poolVars, signIns>>
  BY <1>1 DEF revoke
<1>4. /\ calls' \in [Slots -> Call] /\ calls'[k] = call
      /\ \A j \in Slots \ {k} : calls'[j] = calls[j]
  BY <1>2, <1>3, GoTo DEF AuthInv, AuthTypeOK, Call
<1>5. PICK g : g = [r \in rows |-> IF r.token = t THEN [r EXCEPT !.revoked = TRUE] ELSE r]
  OBVIOUS
<1>6. /\ \A r \in rows : g[r] \in {r, [r EXCEPT !.revoked = TRUE]}
      /\ rows' \subseteq {g[r] : r \in rows}
  BY <1>3, <1>5 DEF Revoked
<1>7. QED
  BY <1>2, <1>3, <1>4, <1>6, RevokingStep

\* Steps of the operator and of the clock, with no request of their own.
LEMMA OperatorStep ==
  ASSUME AuthInv, NEW g, \A r \in rows : g[r] \in {r, [r EXCEPT !.revoked = TRUE]},
         rows' \subseteq {g[r] : r \in rows}, challenges' \subseteq challenges,
         clock' \in 0..MaxClock,
         UNCHANGED <<nonces, tokens, calls, poolVars, signIns>>
  PROVE  AuthInv'
<1>1. /\ rows' \subseteq [token : 1..tokens, wallet : Addresses, expires : Nat,
                          revoked : BOOLEAN]
      /\ \A r, s \in rows' : r.token = s.token => r = s
      /\ \A t, v : Owns(t, v) => Owns(t, v)'
      /\ \A t \in 1..tokens : (\A r \in rows : r.token = t => r.revoked)
                                => \A r \in rows' : r.token = t => r.revoked
  BY RowsRevoked
<1>2. AuthTypeOK'
  BY <1>1 DEF AuthInv, AuthTypeOK, poolVars
<1>3. NonceInv'
  BY DEF AuthInv, NonceInv, Spending
<1>4. TokenInv'
  BY <1>1 DEF AuthInv, TokenInv
<1>5. QED
  BY <1>2, <1>3, <1>4 DEF AuthInv

LEMMA RowsUnchanged ==
  ASSUME rows' \subseteq rows
  PROVE  \E g : /\ \A r \in rows : g[r] \in {r, [r EXCEPT !.revoked = TRUE]}
                /\ rows' \subseteq {g[r] : r \in rows}
<1>1. PICK g : g = [r \in rows |-> r]
  OBVIOUS
<1>2. QED
  BY <1>1

LEMMA PoolErrorStep ==
  ASSUME AuthInv, NEW thread \in 0..(Threads - 1), PoolError(thread)
  PROVE  AuthInv'
<1>1. PICK idle : idle = [NoCall EXCEPT !.kind = "verify"]
  OBVIOUS
<1>2. idle \in Call /\ idle.kind = "verify" /\ idle.step = "done" /\ idle.next = 0
  <2>1. idle \in Call
    BY <1>1, NoCallType DEF Call
  <2>2. idle.kind = "verify" /\ idle.step = "done" /\ idle.next = 0
    BY <1>1 DEF NoCall
  <2>3. QED
    BY <2>1, <2>2
<1>3. /\ dead' = dead \cup {thread}
      /\ UNCHANGED <<clock, nonces, tokens, challenges, rows, turn, signIns>>
  BY DEF PoolError
<1>4. /\ calls \in [Slots -> Call] /\ DOMAIN calls' = Slots
      /\ \A k \in Slots : calls'[k] \in {idle, calls[k]}
  BY <1>1 DEF PoolError, AuthInv, AuthTypeOK, Call
<1>5. calls' \in [Slots -> Call]
  <2>1. calls' = [k \in Slots |-> calls'[k]]
    BY DEF PoolError
  <2>2. QED
    BY <1>2, <1>4, <2>1
<1>6. AuthTypeOK'
  BY <1>3, <1>5 DEF AuthInv, AuthTypeOK, Call
<1>7. \A k \in Slots : Spending(k)' => Spending(k) /\ calls'[k] = calls[k]
  BY <1>2, <1>4 DEF Spending
<1>8. NonceInv'
  BY <1>3, <1>7 DEF AuthInv, NonceInv
<1>9. TokenInv'
  BY <1>2, <1>3, <1>4 DEF AuthInv, TokenInv, Owns
<1>10. QED
  BY <1>6, <1>8, <1>9 DEF AuthInv

LEMMA AuthInvStep == AuthInv /\ [AuthNext]_authVars => AuthInv'
<1> SUFFICES ASSUME AuthInv, [AuthNext]_authVars
             PROVE  AuthInv'
  OBVIOUS
<1>1. ASSUME NEW w \in Addresses, challenge(w), calls' = calls PROVE AuthInv'
  BY <1>1, challengeStep
<1>2. ASSUME NEW k \in Slots, NEW n \in Nonces, NEW signer \in Addresses \cup {NoOne},
             NEW claimed \in Addresses, verify(k, n, signer, claimed)
      PROVE  AuthInv'
  BY <1>2, verifyStep DEF Nonces
<1>3. ASSUME NEW k \in Slots, NEW t \in Tokens, rotate(k, t) \/ revoke(k, t)
      PROVE  AuthInv'
  BY <1>3, rotateStep, revokeStep DEF Tokens
<1>4. ASSUME NEW k \in Slots, ServerStep(k) PROVE AuthInv'
  BY <1>4, consumeChallengeStep, verifySignedChallengeStep, IssueVerifiedStep,
     RotateReadStep, RotateIssueStep, RotateRevokeStep DEF ServerStep
<1>5. ASSUME NEW w \in Addresses, revokeEverySession(w) PROVE AuthInv'
  <2>1. PICK g : g = [r \in rows |-> IF r.wallet = w /\ r.expires > clock
                                     THEN [r EXCEPT !.revoked = TRUE] ELSE r]
    OBVIOUS
  <2>2. /\ \A r \in rows : g[r] \in {r, [r EXCEPT !.revoked = TRUE]}
        /\ rows' \subseteq {g[r] : r \in rows}
    BY <1>5, <2>1 DEF revokeEverySession
  <2>3. clock' \in 0..MaxClock /\ challenges' = challenges
        /\ UNCHANGED <<nonces, tokens, calls, poolVars, signIns>>
    BY <1>5 DEF revokeEverySession, AuthInv, AuthTypeOK
  <2>4. QED
    BY <2>2, <2>3, OperatorStep
<1>6. ASSUME NEW thread \in 0..(Threads - 1), PoolError(thread) PROVE AuthInv'
  BY <1>6, PoolErrorStep
<1>7. CASE pruneExpired \/ AuthTick \/ UNCHANGED authVars
  <2>1. /\ rows' \subseteq rows /\ challenges' \subseteq challenges /\ clock' \in 0..MaxClock
        /\ UNCHANGED <<nonces, tokens, calls, poolVars, signIns>>
    <3>1. CASE pruneExpired
      BY <3>1 DEF pruneExpired, AuthInv, AuthTypeOK
    <3>2. CASE AuthTick
      BY <3>2, AuthAssumption DEF AuthTick, AuthInv, AuthTypeOK
    <3>3. CASE UNCHANGED authVars
      BY <3>3 DEF authVars, AuthInv, AuthTypeOK
    <3>4. QED
      BY <1>7, <3>1, <3>2, <3>3
  <2>2. PICK g : /\ \A r \in rows : g[r] \in {r, [r EXCEPT !.revoked = TRUE]}
                 /\ rows' \subseteq {g[r] : r \in rows}
    BY <2>1, RowsUnchanged
  <2>3. QED
    BY <2>1, <2>2, OperatorStep
<1>8. QED
  BY <1>1, <1>2, <1>3, <1>4, <1>5, <1>6, <1>7 DEF AuthNext

LEMMA AuthInvHolds == AuthSpec => []AuthInv
BY AuthInvInit, AuthInvStep, PTL DEF AuthSpec

\* A nonce gives one session, however the statements of two verifications and
\* of the pruning interleave, and a rotation that has answered has ended the
\* token it replaced (consumeChallenge, verify and rotate).
THEOREM CredentialsAreSpentOnce == AuthSpec => []CredentialsAreSpent
<1>1. AuthInv => CredentialsAreSpent
  BY DEF AuthInv, NonceInv, TokenInv, CredentialsAreSpent, LiveAt
<1>2. QED
  BY <1>1, AuthInvHolds, PTL

\* What was right of a token and a wallet stays right: a token is drawn once,
\* and no statement changes the wallet of a row.
LEMMA OwnsStep ==
  AuthInv /\ [AuthNext]_authVars => \A t, v : Owns(t, v) => Owns(t, v)'
<1> SUFFICES ASSUME AuthInv, [AuthNext]_authVars
             PROVE  \A t, v : Owns(t, v) => Owns(t, v)'
  OBVIOUS
<1>1. CASE rows' \subseteq rows /\ tokens' = tokens
  BY <1>1 DEF Owns
<1>2. ASSUME NEW w \in Addresses, NEW at \in Nat, createSession(w, at)
      PROVE  \A t, v : Owns(t, v) => Owns(t, v)'
  BY <1>2, SessionCreated
<1>3. ASSUME NEW g, \A r \in rows : g[r] \in {r, [r EXCEPT !.revoked = TRUE]},
             rows' \subseteq {g[r] : r \in rows}, tokens' = tokens
      PROVE  \A t, v : Owns(t, v) => Owns(t, v)'
  BY <1>3, RowsRevoked
<1>4. ASSUME NEW t, rows' = Revoked(t), tokens' = tokens
      PROVE  \A u, v : Owns(u, v) => Owns(u, v)'
  <2>1. PICK g : g = [r \in rows |-> IF r.token = t THEN [r EXCEPT !.revoked = TRUE] ELSE r]
    OBVIOUS
  <2>2. /\ \A r \in rows : g[r] \in {r, [r EXCEPT !.revoked = TRUE]}
        /\ rows' \subseteq {g[r] : r \in rows}
    BY <1>4, <2>1 DEF Revoked
  <2>3. QED
    BY <1>3, <1>4, <2>2
<1>5. ASSUME NEW w \in Addresses, revokeEverySession(w)
      PROVE  \A t, v : Owns(t, v) => Owns(t, v)'
  <2>1. PICK g : g = [r \in rows |-> IF r.wallet = w /\ r.expires > clock
                                     THEN [r EXCEPT !.revoked = TRUE] ELSE r]
    OBVIOUS
  <2>2. /\ \A r \in rows : g[r] \in {r, [r EXCEPT !.revoked = TRUE]}
        /\ rows' \subseteq {g[r] : r \in rows} /\ tokens' = tokens
    BY <1>5, <2>1 DEF revokeEverySession
  <2>3. QED
    BY <1>3, <2>2
<1>6. ASSUME NEW k \in Slots, ServerStep(k)
      PROVE  \A t, v : Owns(t, v) => Owns(t, v)'
  <2>1. CASE consumeChallenge(k) \/ verifySignedChallenge(k) \/ RotateRead(k)
    BY <1>1, <2>1 DEF consumeChallenge, verifySignedChallenge, RotateRead
  <2>2. CASE IssueVerified(k)
    <3>1. createSession(calls[k].signer, calls[k].at) /\ calls[k].signer = calls[k].wallet
          /\ calls[k].wallet \in Addresses /\ calls[k].at \in Nat
      BY <2>2 DEF IssueVerified, AuthInv, AuthTypeOK, NonceInv, Spending
    <3>2. QED
      BY <1>2, <3>1
  <2>3. CASE RotateIssue(k)
    <3>1. createSession(calls[k].wallet, calls[k].at)
          /\ calls[k].wallet \in Addresses /\ calls[k].at \in Nat
      BY <2>3 DEF RotateIssue, AuthInv, AuthTypeOK, TokenInv
    <3>2. QED
      BY <1>2, <3>1
  <2>4. CASE RotateRevoke(k)
    BY <1>4, <2>4 DEF RotateRevoke
  <2>5. QED
    BY <1>6, <2>1, <2>2, <2>3, <2>4 DEF ServerStep
<1>7. CASE pruneExpired \/ AuthTick \/ UNCHANGED authVars
  BY <1>1, <1>7 DEF pruneExpired, AuthTick, authVars
<1>8. ASSUME NEW w \in Addresses, challenge(w)
      PROVE  \A t, v : Owns(t, v) => Owns(t, v)'
  BY <1>1, <1>8 DEF challenge
<1>9. ASSUME NEW thread, PoolError(thread)
      PROVE  \A t, v : Owns(t, v) => Owns(t, v)'
  BY <1>1, <1>9 DEF PoolError
<1>10. ASSUME NEW k, NEW n, NEW signer, NEW claimed, verify(k, n, signer, claimed)
       PROVE  \A t, v : Owns(t, v) => Owns(t, v)'
  BY <1>1, <1>10 DEF verify
<1>11. ASSUME NEW k, NEW t, rotate(k, t)
       PROVE  \A u, v : Owns(u, v) => Owns(u, v)'
  BY <1>1, <1>11 DEF rotate
<1>12. ASSUME NEW k, NEW t, revoke(k, t)
       PROVE  \A u, v : Owns(u, v) => Owns(u, v)'
  BY <1>4, <1>12 DEF revoke
<1>13. QED
  BY <1>5, <1>6, <1>7, <1>8, <1>9, <1>10, <1>11, <1>12 DEF AuthNext

-----------------------------------------------------------------------------
(***************************************************************************)
(* The page.  What it holds, what it stored and what it is checking are    *)
(* each nothing or a token with the wallet the token is of, and connect()  *)
(* presents only a nonce that was drawn for it.                            *)
(***************************************************************************)
Held(s) == s = NoSession \/ Owns(s.token, s.wallet)

Flow == [at : {"idle", "wallet", "challenge", "sign", "verify"},
         wallet : Addresses \cup {NoOne}, nonce : Nat]

PageInv ==
  /\ flow \in Flow
  /\ Held(session) /\ Held(stored) /\ Held(loading)
  /\ flow.at \in {"challenge", "sign", "verify"} => flow.wallet \in Addresses
  /\ flow.at = "sign" => flow.nonce \in 1..nonces

WalletInv == AuthInv /\ PageInv

LEMMA WalletInvInit == WalletInit => WalletInv
BY AuthInvInit DEF WalletInit, WalletInv, PageInv, Held, NoFlow, Flow

\* A page holds a token that was drawn.
LEMMA HeldToken ==
  ASSUME WalletInv, session # NoSession
  PROVE  session.token \in Tokens
BY AuthAssumption DEF WalletInv, PageInv, Held, Owns, AuthInv, AuthTypeOK, Tokens

\* Whatever the page does, it does to the server through the server's routes.
LEMMA PageUsesTheRoutes ==
  WalletInv /\ [WalletNext]_walletVars => [AuthNext]_authVars
<1> SUFFICES ASSUME WalletInv, [WalletNext]_walletVars
             PROVE  [AuthNext]_authVars
  OBVIOUS
<1>1. Page \in Slots /\ Rotation \in Slots /\ Other \in Slots
  BY WalletSessionAssumption
<1>2. 1..nonces \subseteq Nonces /\ 1..tokens \subseteq Tokens
  BY AuthAssumption DEF WalletInv, AuthInv, AuthTypeOK, Nonces, Tokens
<1>3. CASE Reload \/ ConnectPressed \/ Loaded \/ WalletAnswers \/ Verified \/ Rotated
  BY <1>3 DEF Reload, ConnectPressed, Loaded, WalletAnswers, Verified, Rotated
<1>4. CASE RotateNow
  BY <1>1, <1>4, HeldToken DEF RotateNow, AuthNext
<1>5. CASE Disconnect
  BY <1>1, <1>5, HeldToken DEF Disconnect, AuthNext
<1>6. CASE Challenged
  BY <1>6 DEF Challenged, WalletInv, PageInv, AuthNext
<1>7. CASE Signed
  <2>1. CASE UNCHANGED authVars
    BY <2>1
  <2>2. CASE \E signer \in Addresses : verify(Page, flow.nonce, signer, flow.wallet)
    <3>1. PICK signer \in Addresses : verify(Page, flow.nonce, signer, flow.wallet)
      BY <2>2
    <3>2. flow.nonce \in Nonces /\ flow.wallet \in Addresses
      BY <1>2, <1>7 DEF Signed, WalletInv, PageInv
    <3>3. QED
      BY <1>1, <3>1, <3>2 DEF AuthNext
  <2>3. QED
    BY <1>7, <2>1, <2>2 DEF Signed
<1>8. CASE Others(Other)
  <2>1. CASE \E w \in Addresses : challenge(w) /\ calls' = calls
    BY <2>1 DEF AuthNext
  <2>2. CASE \E n \in 1..nonces, s \in Addresses \cup {NoOne}, w \in Addresses :
               verify(Other, n, s, w)
    BY <1>1, <1>2, <2>2 DEF AuthNext
  <2>3. CASE \E t \in 1..tokens : rotate(Other, t) \/ revoke(Other, t)
    BY <1>1, <1>2, <2>3 DEF AuthNext
  <2>4. QED
    BY <1>8, <2>1, <2>2, <2>3 DEF Others
<1>9. CASE Operations
  BY <1>9 DEF Operations, AuthNext
<1>10. CASE \E k \in Slots : Serving(k)
  BY <1>10 DEF Serving, AuthNext
<1>11. CASE UNCHANGED walletVars
  BY <1>11 DEF walletVars
<1>12. QED
  BY <1>3, <1>4, <1>5, <1>6, <1>7, <1>8, <1>9, <1>10, <1>11 DEF WalletNext, PageStep

\* A step that adopts nothing new keeps what the page holds.
LEMMA HoldingKept ==
  ASSUME WalletInv, [AuthNext]_authVars, nonces' \in Nat, nonces' >= nonces,
         session' \in {session, stored, loading, NoSession},
         stored' \in {session, stored, loading, NoSession},
         loading' \in {session, stored, loading, NoSession},
         flow' = flow \/ flow'.at \notin {"challenge", "sign", "verify"},
         flow' = flow \/ flow' \in Flow
  PROVE  PageInv'
<1>1. \A s : Held(s) => Held(s)'
  BY OwnsStep DEF WalletInv, Held
<1>2. \A s \in {session, stored, loading, NoSession} : Held(s)'
  BY <1>1 DEF WalletInv, PageInv, Held
<1>3. Held(session)' /\ Held(stored)' /\ Held(loading)'
  BY <1>2 DEF Held
<1>4. nonces \in Nat
  BY DEF WalletInv, AuthInv, AuthTypeOK
<1>5. QED
  BY <1>3, <1>4 DEF WalletInv, PageInv

\* An answer that brought a session is the session adopted.
LEMMA AdoptionKept ==
  ASSUME WalletInv, UNCHANGED authVars, NEW k \in Slots, calls[k].next # 0,
         adopt([token |-> calls[k].next, wallet |-> calls[k].wallet]),
         UNCHANGED loading, flow' = flow \/ flow' = NoFlow
  PROVE  PageInv'
<1>1. PICK s : s = [token |-> calls[k].next, wallet |-> calls[k].wallet]
  OBVIOUS
<1>2. s.token = calls[k].next /\ s.wallet = calls[k].wallet /\ session' = s /\ stored' = s
  BY <1>1 DEF adopt
<1>3. Owns(s.token, s.wallet)
  BY <1>2 DEF WalletInv, AuthInv, TokenInv
<1>4. \A u : Held(u) => Held(u)'
  BY DEF Held, Owns, authVars
<1>5. Held(session)' /\ Held(stored)'
  BY <1>2, <1>3, <1>4 DEF Held
<1>6. Held(loading)'
  BY <1>4 DEF WalletInv, PageInv, Held
<1>7. nonces' = nonces
  BY DEF authVars
<1>8. QED
  BY <1>5, <1>6, <1>7 DEF WalletInv, PageInv, NoFlow, Flow

\* The wallet the server names for a stored token is the one it was stored with.
LEMMA LoadedKept ==
  ASSUME WalletInv, UNCHANGED authVars, loading # NoSession, LiveAt(loading.token, clock),
         adopt([token |-> loading.token, wallet |-> WalletOfToken(loading.token)]),
         loading' = NoSession, flow' = flow
  PROVE  PageInv'
<1> DEFINE found == [token |-> loading.token, wallet |-> WalletOfToken(loading.token)]
<1>1. Owns(loading.token, loading.wallet)
  BY DEF WalletInv, PageInv, Held
<1>2. PICK row \in rows : row.token = loading.token
  BY DEF LiveAt
<1>3. WalletOfToken(loading.token) = loading.wallet
  BY <1>1, <1>2 DEF Owns, WalletOfToken
<1>4. Held(found)
  BY <1>1, <1>3 DEF Held
<1> HIDE DEF found
<1>5. UNCHANGED <<rows, tokens, nonces>>
  BY DEF authVars
<1>6. session' = found /\ stored' = found
  BY DEF adopt, found
<1>7. Held(session)' /\ Held(stored)' /\ Held(loading)'
  BY <1>4, <1>5, <1>6 DEF Held, Owns
<1>8. QED
  BY <1>5, <1>7 DEF WalletInv, PageInv

LEMMA WalletInvStep == WalletInv /\ [WalletNext]_walletVars => WalletInv'
<1> SUFFICES ASSUME WalletInv, [WalletNext]_walletVars
             PROVE  WalletInv'
  OBVIOUS
<1>1. [AuthNext]_authVars
  BY PageUsesTheRoutes
<1>2. AuthInv'
  BY <1>1, AuthInvStep DEF WalletInv
<1>3. nonces \in Nat /\ nonces' \in Nat
  BY <1>2 DEF WalletInv, AuthInv, AuthTypeOK
<1>4. nonces' >= nonces
  <2>1. CASE UNCHANGED authVars
    BY <1>3, <2>1 DEF authVars
  <2>2. CASE \E w \in Addresses : challenge(w)
    BY <1>3, <2>2 DEF challenge
  <2>3. CASE \E k \in Slots : ServerStep(k)
    BY <1>3, <2>3 DEF ServerStep, consumeChallenge, verifySignedChallenge, IssueVerified,
       RotateRead, RotateIssue, RotateRevoke
  <2>4. ASSUME \/ \E k, n, signer, claimed : verify(k, n, signer, claimed)
               \/ \E k, t : rotate(k, t) \/ revoke(k, t)
               \/ \E w : revokeEverySession(w)
               \/ \E thread : PoolError(thread)
               \/ pruneExpired \/ AuthTick
        PROVE  nonces' = nonces
    BY <2>4 DEF verify, rotate, revoke, revokeEverySession, PoolError, pruneExpired, AuthTick
  <2>5. QED
    BY <1>1, <1>3, <2>1, <2>2, <2>3, <2>4 DEF AuthNext
<1>5. Page \in Slots /\ Rotation \in Slots
  BY WalletSessionAssumption
<1>6. PageInv'
  <2>1. CASE Reload
    BY <1>1, <1>3, <1>4, <2>1, HoldingKept DEF Reload, NoFlow, Flow
  <2>2. CASE ConnectPressed
    <3>1. flow' \in Flow /\ flow'.at = "wallet"
      BY <2>2 DEF ConnectPressed, NoFlow, Flow
    <3>2. QED
      BY <1>1, <1>3, <1>4, <2>2, <3>1, HoldingKept DEF ConnectPressed
  <2>3. CASE RotateNow
    BY <1>1, <1>3, <1>4, <2>3, HoldingKept DEF RotateNow
  <2>4. CASE Disconnect
    BY <1>1, <1>3, <1>4, <2>4, HoldingKept DEF Disconnect, adopt
  <2>5. CASE Loaded
    BY <1>1, <1>3, <1>4, <2>5, HoldingKept, LoadedKept DEF Loaded, adopt
  <2>6. CASE WalletAnswers
    <3>1. CASE \E w \in Addresses : flow' = [flow EXCEPT !.at = "challenge", !.wallet = w]
      <4>1. PICK w \in Addresses : flow' = [flow EXCEPT !.at = "challenge", !.wallet = w]
        BY <3>1
      <4>2. flow' \in Flow /\ flow'.at = "challenge" /\ flow'.wallet \in Addresses
        BY <4>1 DEF WalletInv, PageInv, Flow
      <4>3. UNCHANGED <<session, stored, loading, rows, tokens>>
        BY <2>6 DEF WalletAnswers, authVars
      <4>4. QED
        BY <4>2, <4>3 DEF WalletInv, PageInv, Held, Owns
    <3>2. CASE flow' = NoFlow
      BY <1>1, <1>3, <1>4, <2>6, <3>2, HoldingKept DEF WalletAnswers, NoFlow, Flow
    <3>3. QED
      BY <2>6, <3>1, <3>2 DEF WalletAnswers, EndFlow
  <2>7. CASE Challenged
    <3>1. CASE flow' = [flow EXCEPT !.at = "sign", !.nonce = nonces + 1] /\ nonces' = nonces + 1
               /\ UNCHANGED <<rows, tokens>>
      <4>1. flow' \in Flow /\ flow'.at = "sign" /\ flow'.nonce = nonces + 1
            /\ flow'.wallet = flow.wallet
        BY <1>3, <3>1 DEF WalletInv, PageInv, Flow
      <4>2. flow.at = "challenge" /\ UNCHANGED <<session, stored, loading>>
        BY <2>7 DEF Challenged
      <4>3. flow'.wallet \in Addresses /\ flow'.nonce \in 1..nonces'
        BY <1>3, <3>1, <4>1, <4>2 DEF WalletInv, PageInv
      <4>4. QED
        BY <3>1, <4>1, <4>2, <4>3 DEF WalletInv, PageInv, Held, Owns
    <3>2. CASE flow' = NoFlow
      BY <1>1, <1>3, <1>4, <2>7, <3>2, HoldingKept DEF Challenged, NoFlow, Flow
    <3>3. QED
      BY <2>7, <3>1, <3>2 DEF Challenged, EndFlow, challenge
  <2>8. CASE Signed
    <3>1. CASE flow' = [flow EXCEPT !.at = "verify"] /\ UNCHANGED <<rows, tokens>>
      <4>1. flow' \in Flow /\ flow'.at = "verify" /\ flow'.wallet = flow.wallet
        BY <3>1 DEF WalletInv, PageInv, Flow
      <4>2. flow.at = "sign" /\ UNCHANGED <<session, stored, loading>>
        BY <2>8 DEF Signed
      <4>3. QED
        BY <3>1, <4>1, <4>2 DEF WalletInv, PageInv, Held, Owns
    <3>2. CASE flow' = NoFlow
      BY <1>1, <1>3, <1>4, <2>8, <3>2, HoldingKept DEF Signed, NoFlow, Flow
    <3>3. QED
      BY <2>8, <3>1, <3>2 DEF Signed, EndFlow, verify
  <2>9. CASE Verified
    <3>1. CASE calls[Page].next = 0
      BY <1>1, <1>3, <1>4, <2>9, <3>1, HoldingKept DEF Verified, EndFlow, NoFlow, Flow
    <3>2. CASE calls[Page].next # 0
      BY <1>5, <2>9, <3>2, AdoptionKept DEF Verified, EndFlow
    <3>3. QED
      BY <3>1, <3>2
  <2>10. CASE Rotated
    <3>1. CASE calls[Rotation].next = 0
      BY <1>1, <1>3, <1>4, <2>10, <3>1, HoldingKept DEF Rotated
    <3>2. CASE calls[Rotation].next # 0
      BY <1>5, <2>10, <3>2, AdoptionKept DEF Rotated
    <3>3. QED
      BY <3>1, <3>2
  <2>11. CASE Others(Other) \/ Operations \/ (\E k \in Slots : Serving(k))
              \/ UNCHANGED walletVars
    <3>1. UNCHANGED pageVars
      BY <2>11 DEF Others, Operations, Serving, walletVars
    <3>2. QED
      BY <1>1, <1>3, <1>4, <3>1, HoldingKept DEF pageVars
  <2>12. QED
    BY <2>1, <2>2, <2>3, <2>4, <2>5, <2>6, <2>7, <2>8, <2>9, <2>10, <2>11
       DEF WalletNext, PageStep
<1>7. QED
  BY <1>2, <1>6 DEF WalletInv

LEMMA WalletInvHolds == WalletSafety => []WalletInv
BY WalletInvInit, WalletInvStep, PTL DEF WalletSafety

\* The server beside the page is the sign-in service: nothing the page, the
\* other clients or the operator do leaves its behaviours, so what holds of the
\* service alone holds of it here.
THEOREM PageKeepsTheService == WalletSafety => AuthSpec
<1>1. WalletInit => AuthInit
  BY DEF WalletInit
<1>2. QED
  BY <1>1, WalletInvHolds, PageUsesTheRoutes, PTL DEF WalletSafety, AuthSpec

\* Whatever order the load's answer, the sign-in's, the rotation's and the
\* player's own presses come in, the wallet on show is the wallet of the token
\* in hand (useWalletSession: adopt after fetchSession, verify and rotate).
THEOREM PageNamesTheTokensWallet == WalletSafety => []TokenIsTheWallets
<1>1. WalletInv => TokenIsTheWallets
  <2> SUFFICES ASSUME WalletInv, NEW r \in rows, r.token = session.token
               PROVE  r.wallet = session.wallet
    BY DEF TokenIsTheWallets
  <2>1. r.token \in 1..tokens /\ tokens \in Nat
    BY DEF WalletInv, AuthInv, AuthTypeOK
  <2>2. session # NoSession
    BY <2>1 DEF NoSession
  <2>3. QED
    BY <2>2 DEF WalletInv, PageInv, Held, Owns
<1>2. QED
  BY <1>1, WalletInvHolds, PTL

\* The page's state is well formed: its tokens were drawn, and its status, its sign-in and
\* its rotation are each at one of their steps (useWalletSession.ts).
THEOREM PageIsWellTyped == WalletSafety => []WalletTypeOK
<1> DEFINE More == /\ status \in {"DISCONNECTED", "CONNECTING", "CONNECTED", "REFUSED"}
                   /\ rotating \in BOOLEAN /\ wanted \in BOOLEAN
<1>1. WalletInit => More
  BY DEF WalletInit
<1>2. ASSUME More, [WalletNext]_walletVars
      PROVE  More'
  BY <1>2 DEF WalletNext, PageStep, Reload, ConnectPressed, RotateNow, Disconnect, Loaded,
     WalletAnswers, Challenged, Signed, Verified, Rotated, EndFlow, Others, Operations,
     Serving, walletVars, pageVars
<1>3. WalletInv /\ More => WalletTypeOK
  <2> SUFFICES ASSUME WalletInv, More
               PROVE  WalletTypeOK
    OBVIOUS
  <2>1. MaxTokens \in Nat /\ tokens \in 0..MaxTokens
    BY AuthAssumption DEF WalletInv, AuthInv, AuthTypeOK
  <2>2. ASSUME NEW s, Held(s)
        PROVE  s.token \in 0..MaxTokens
    BY <2>1, <2>2 DEF Held, Owns, NoSession
  <2>3. {session.token, stored.token, loading.token} \subseteq 0..MaxTokens
    BY <2>2 DEF WalletInv, PageInv
  <2>4. flow.at \in {"idle", "wallet", "challenge", "sign", "verify"}
    BY DEF WalletInv, PageInv, Flow
  <2>5. QED
    BY <2>3, <2>4 DEF WalletTypeOK
<1>4. QED
  BY <1>1, <1>2, <1>3, WalletInvHolds, PTL DEF WalletSafety

=============================================================================
