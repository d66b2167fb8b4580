------------------------- MODULE LiveStreamProofs -------------------------
(***************************************************************************)
(* No page shows what the store does not hold, and no event is lost to a   *)
(* page without its noticing, for any number of pages, instances, rounds,  *)
(* battles, ticks, fetches and faults, and whether or not a paused driver  *)
(* goes on publishing after it lost its lease.                             *)
(***************************************************************************)
EXTENDS LiveStream, SequenceTheorems, TLAPS

-----------------------------------------------------------------------------
(***************************************************************************)
(* What is being sent, apart from who sends it: a sender is the driver or  *)
(* a stray, with the events it still has to publish, in order, and the     *)
(* number Redis gave it for the first of them.                             *)
(***************************************************************************)
Sender == [out : Seq(Event), sequence : Nat \cup {NotYet}, by : Instances]
DriverSends ==
  [out |-> driver.out, sequence |-> driver.sequence, by |-> driver.at]
Senders == strays \cup {DriverSends}

\* Each event is still to be published by at most one sender, once.
Apart(S) ==
  \A s, t \in S : \A n \in 1..Len(s.out), m \in 1..Len(t.out) :
    s.out[n] = t.out[m] => s = t /\ n = m

\* What is still to be published has not been.
Unheard(S, w) ==
  \A s \in S, v \in w : \A n \in 1..Len(s.out) : v.event # s.out[n]

\* The events that have their number: the published ones, and the first of each
\* sender that is between INCR and PUBLISH.
Numbered(S, w) ==
  {[event |-> v.event, sequence |-> v.sequence] : v \in w}
  \cup {[event |-> s.out[1], sequence |-> s.sequence] :
          s \in {t \in S : t.sequence # NotYet}}

\* One event, one number; one number, one event of its channel.
OneToOne(A) ==
  \A a, b \in A :
    (ChannelOf(a.event) = ChannelOf(b.event) /\ a.sequence = b.sequence)
      <=> a.event = b.event

\* Redis has given out every number that is in use.
GivenOut(A, numbers) ==
  \A a \in A : a.sequence < numbers[ChannelOf(a.event)]

-----------------------------------------------------------------------------
(***************************************************************************)
(* The inductive invariant.                                                *)
(***************************************************************************)
Receiver == [last : [LiveChannels -> Nat \cup {NotYet}], awaiting : SUBSET LiveChannels]

ServerShape ==
  /\ store \in Snapshot \cup {None}
  /\ evidence \in [Rounds -> Nat]
  /\ driver \in [at : Instances, pc : {"idle", "incr", "publish", "seen"},
                 round : Snapshot \cup {None}, out : Seq(Event),
                 sequence : Nat \cup {NotYet}]
  /\ strays \subseteq Sender
  /\ counter \in [LiveChannels -> Nat]
  /\ views \in [Instances -> Snapshot \cup {None}]
  /\ polls \in [Instances -> Snapshot \cup {None}]
  /\ wire \subseteq Envelope

\* What is on its way to a page was published.
PageShape ==
  /\ inbox \in [Clients -> Seq(wire)]
  /\ receiver \in [Clients -> Receiver]
  /\ shown \in [Clients -> [round : Rounds, phase : Phases, front : [Battles -> Nat]]
                           \cup {None}]
  /\ fetches \in [Clients -> [1..MaxFetches -> Snapshot \cup {None, Asked}]]
  /\ applied \in [Clients -> [LiveChannels -> SUBSET Nat]]

\* The driver takes its steps from what the store holds, and a round has no
\* evidence before its battles.
StoreInv ==
  /\ driver.round = store
  /\ \A r \in Rounds : evidence[r] # 0 =>
       /\ store # None
       /\ r < store.round \/ (r = store.round /\ store.phase # "PICK_OPEN")

\* What an event says is in the store st with the ticks ev.
SaidBy(e, st, ev) ==
  /\ e.kind # "BATTLE_STATE_UPDATE" =>
       /\ st # None
       /\ NoFurther([round |-> e.round,
                     phase |-> CASE e.kind = "ROUND_OPENED" -> "PICK_OPEN"
                                 [] e.kind = "PICKS_LOCKED" -> "BATTLE_LIVE"
                                 [] OTHER -> "FINALIZED"], st)
  /\ e.kind = "BATTLE_STATE_UPDATE" => e.tick <= ev[e.round]

\* A driver is between two events, or has some to publish, the first of them
\* with its number once INCR has answered.
SendersInv ==
  /\ driver.out = << >> <=> driver.pc \in {"idle", "seen"}
  /\ driver.sequence # NotYet <=> driver.pc = "publish"
  /\ \A s \in strays : s.out # << >>
  /\ DriverSends \notin strays
  /\ Apart(Senders)
  /\ Unheard(Senders, wire)
  /\ \A s \in Senders : \A n \in 1..Len(s.out) : SaidBy(s.out[n], store, evidence)
  /\ \A v \in wire : SaidBy(v.event, store, evidence)
  /\ OneToOne(Numbered(Senders, wire))
  /\ GivenOut(Numbered(Senders, wire), counter)

\* Every copy of the round, wherever it has got to, is one the store has held.
Held(snapshot) == store # None /\ NoFurther(snapshot, store)

CopiesInv ==
  /\ \A i \in Instances :
       /\ views[i] # None => Held(views[i])
       /\ polls[i] # None => Held(polls[i])
  /\ \A c \in Clients, k \in 1..MaxFetches :
       fetches[c][k] \in Snapshot => Held(fetches[c][k])
  /\ \A c \in Clients : shown[c] # None =>
       /\ Held(shown[c])
       /\ \A b \in Battles : shown[c].front[b] <= evidence[shown[c].round]

\* What a page applied on a channel ends at the last it received there.
RunsInv ==
  \A c \in Clients, ch \in LiveChannels :
    LET got == applied[c][ch] IN
    /\ \A n \in got, m \in 0..receiver[c].last[ch] : m >= n => m \in got
    /\ \A n \in got : n <= receiver[c].last[ch]

LiveInv ==
  ServerShape /\ PageShape /\ StoreInv /\ SendersInv /\ CopiesInv /\ RunsInv

-----------------------------------------------------------------------------
(***************************************************************************)
(* Facts about snapshots, events and sequences.                            *)
(***************************************************************************)

\* No further than is an order.
LEMMA FurtherStill ==
  ASSUME NEW a, NEW b \in Snapshot, NEW c \in Snapshot,
         a.round \in Rounds, a.phase \in Phases,
         NoFurther(a, b), NoFurther(b, c)
  PROVE  NoFurther(a, c)
<1>1. Rounds \subseteq Nat
  BY LiveAssumption
<1>2. PhaseRank(a.phase) \in Nat /\ PhaseRank(b.phase) \in Nat /\ PhaseRank(c.phase) \in Nat
  BY DEF PhaseRank
<1>3. a.round \in Nat /\ b.round \in Nat /\ c.round \in Nat
  BY <1>1 DEF Snapshot
<1> QED
  BY <1>2, <1>3 DEF NoFurther

LEMMA NoFurtherThanItself ==
  ASSUME NEW a, a.round \in Rounds, a.phase \in Phases
  PROVE  NoFurther(a, a)
<1>1. Rounds \subseteq Nat
  BY LiveAssumption
<1>2. PhaseRank(a.phase) \in Nat
  BY DEF PhaseRank
<1> QED
  BY <1>1, <1>2 DEF NoFurther

\* Every event has a channel of its own kind.
LEMMA ChannelTyped == \A e \in Event : ChannelOf(e) \in LiveChannels
  BY DEF Event, ChannelOf, LiveChannels, World, RoundChannel, BattleChannel

\* What has been said stays said while the store moves on.
LEMMA SaidStays ==
  ASSUME NEW e \in Event, NEW st \in Snapshot \cup {None}, NEW st2 \in Snapshot \cup {None},
         NEW ev \in [Rounds -> Nat], NEW ev2 \in [Rounds -> Nat],
         st # None => st2 # None /\ NoFurther(st, st2),
         \A r \in Rounds : ev[r] <= ev2[r],
         SaidBy(e, st, ev)
  PROVE  SaidBy(e, st2, ev2)
<1>1. e.round \in Rounds
  BY DEF Event
<1>2. CASE e.kind = "BATTLE_STATE_UPDATE"
  <2>1. e.tick \in Nat
    BY <1>2, LiveAssumption DEF Event
  <2>2. ev[e.round] \in Nat /\ ev2[e.round] \in Nat /\ ev[e.round] <= ev2[e.round]
    BY <1>1
  <2> QED
    BY <1>2, <2>1, <2>2 DEF SaidBy
<1>3. CASE e.kind # "BATTLE_STATE_UPDATE"
  <2> DEFINE phase == CASE e.kind = "ROUND_OPENED" -> "PICK_OPEN"
                        [] e.kind = "PICKS_LOCKED" -> "BATTLE_LIVE"
                        [] OTHER -> "FINALIZED"
             mark == [round |-> e.round, phase |-> phase]
  <2>1. phase \in Phases
    BY DEF Phases
  <2>2. mark.round \in Rounds /\ mark.phase \in Phases
    BY <1>1, <2>1
  <2>3. st # None /\ NoFurther(mark, st)
    BY <1>3 DEF SaidBy
  <2>4. st2 # None /\ NoFurther(st, st2) /\ st \in Snapshot /\ st2 \in Snapshot
    BY <2>3
  <2> HIDE DEF mark
  <2>5. NoFurther(mark, st2)
    BY <2>2, <2>3, <2>4, FurtherStill
  <2> QED
    BY <1>3, <2>4, <2>5 DEF SaidBy, mark
<1> QED
  BY <1>2, <1>3

\* The first event of a sequence and the rest of it.
LEMMA FirstAndRest ==
  ASSUME NEW q \in Seq(Event), q # << >>
  PROVE  /\ Head(q) = q[1] /\ q[1] \in Event /\ Len(q) \in Nat /\ Len(q) >= 1
         /\ Tail(q) \in Seq(Event) /\ Len(Tail(q)) = Len(q) - 1
         /\ Tail(q) = << >> <=> ~(Len(q) > 1)
         /\ \A n \in 1..Len(Tail(q)) : Tail(q)[n] = q[n + 1] /\ n + 1 \in 1..Len(q)
<1>1. Tail(q) \in Seq(Event) /\ Len(q) \in Nat /\ Len(q) >= 1 /\ Len(Tail(q)) = Len(q) - 1
  OBVIOUS
<1>2. Tail(q) # << >> => Len(Tail(q)) \in Nat \ {0}
  BY <1>1, EmptySeq
<1>3. Tail(q) = << >> => Len(Tail(q)) = 0
  BY EmptySeq
<1>4. Tail(q) = << >> <=> ~(Len(q) > 1)
  BY <1>1, <1>2, <1>3
<1>5. \A n \in 1..Len(Tail(q)) : Tail(q)[n] = q[n + 1] /\ n + 1 \in 1..Len(q)
  OBVIOUS
<1> QED
  BY <1>1, <1>4, <1>5

-----------------------------------------------------------------------------
(***************************************************************************)
(* What INCR and PUBLISH do to the senders, whoever calls them.            *)
(***************************************************************************)

\* INCR numbers the first event a sender still has.
After(s, number) == [out |-> s.out, sequence |-> number, by |-> s.by]
WithNumber(S, s, number) == (S \ {s}) \cup {After(s, number)}

LEMMA IncrKeeps ==
  ASSUME NEW S \in SUBSET Sender, NEW w \in SUBSET Envelope,
         NEW numbers \in [LiveChannels -> Nat],
         NEW s \in S, NEW T, NEW next \in [LiveChannels -> Nat],
         s.out # << >>, s.sequence = NotYet,
         \A u \in S : u.sequence # NotYet => u.out # << >>,
         Apart(S), Unheard(S, w),
         OneToOne(Numbered(S, w)), GivenOut(Numbered(S, w), numbers),
         T = WithNumber(S, s, numbers[ChannelOf(s.out[1])]),
         next[ChannelOf(s.out[1])] = numbers[ChannelOf(s.out[1])] + 1,
         \A x \in LiveChannels : next[x] >= numbers[x]
  PROVE  /\ T \subseteq Sender
         /\ Apart(T) /\ Unheard(T, w)
         /\ OneToOne(Numbered(T, w)) /\ GivenOut(Numbered(T, w), next)
<1> DEFINE e == s.out[1]
           ch == ChannelOf(e)
           A == Numbered(S, w)
           B == Numbered(T, w)
           new == [event |-> e, sequence |-> numbers[ch]]
           t == After(s, numbers[ch])
<1>1. \A u \in S : u.out \in Seq(Event) /\ u.sequence \in Nat \cup {NotYet}
  BY DEF Sender
<1>2. e \in Event /\ 1 \in 1..Len(s.out)
  BY <1>1, FirstAndRest
<1>3. ch \in LiveChannels /\ numbers[ch] \in Nat
  BY <1>2, ChannelTyped
<1>4. T = (S \ {s}) \cup {t} /\ T \subseteq Sender
  BY <1>3 DEF WithNumber, After, Sender
<1>5. t.out = s.out /\ t.sequence = numbers[ch]
  BY DEF After
<1> HIDE DEF t
<1>6. next[ch] = numbers[ch] + 1
  OBVIOUS
<1>7. Apart(T)
  <2> SUFFICES ASSUME NEW u \in T, NEW v \in T, NEW n \in 1..Len(u.out), NEW m \in 1..Len(v.out),
                      u.out[n] = v.out[m]
               PROVE  u = v /\ n = m
    BY DEF Apart
  <2> QED
    BY <1>4, <1>5 DEF Apart
<1>8. Unheard(T, w)
  BY <1>4, <1>5 DEF Unheard
<1>9. B \subseteq A \cup {new}
  BY <1>4, <1>5 DEF Numbered
<1>10. \A a \in A : a.event \in Event /\ a.sequence \in Nat /\ a.event # e
  <2>1. ASSUME NEW v \in w
        PROVE  v.event \in Event /\ v.sequence \in Nat /\ v.event # e
    BY <1>2 DEF Envelope, Unheard
  <2>2. ASSUME NEW u \in S, u.sequence # NotYet
        PROVE  u.out[1] \in Event /\ u.sequence \in Nat /\ u.out[1] # e
    <3>1. u.out[1] \in Event /\ 1 \in 1..Len(u.out)
      BY <1>1, <2>2, FirstAndRest
    <3>2. u # s
      BY <2>2
    <3> QED
      BY <1>1, <1>2, <2>2, <3>1, <3>2 DEF Apart
  <2> QED
    BY <2>1, <2>2 DEF Numbered
<1>11. \A a \in A : ChannelOf(a.event) \in LiveChannels
  BY <1>10, ChannelTyped
<1>12. new.event = e /\ new.sequence = numbers[ch]
  OBVIOUS
<1> HIDE DEF A, B, new, e
<1>13. OneToOne(A \cup {new})
  <2> SUFFICES ASSUME NEW a \in A \cup {new}, NEW b \in A \cup {new}
               PROVE  (ChannelOf(a.event) = ChannelOf(b.event) /\ a.sequence = b.sequence)
                        <=> a.event = b.event
    BY DEF OneToOne
  <2>1. CASE a \in A /\ b \in A
    BY <2>1 DEF OneToOne, A
  <2>2. CASE a \in A /\ b = new
    <3>1. a.event # b.event
      BY <1>10, <1>12, <2>2
    <3>2. a.sequence < numbers[ChannelOf(a.event)]
      BY <2>2 DEF GivenOut, A
    <3>3. a.sequence = b.sequence => ChannelOf(a.event) # ChannelOf(b.event)
      BY <1>3, <1>10, <1>12, <2>2, <3>2
    <3> QED
      BY <3>1, <3>3
  <2>3. CASE a = new /\ b \in A
    <3>1. a.event # b.event
      BY <1>10, <1>12, <2>3
    <3>2. b.sequence < numbers[ChannelOf(b.event)]
      BY <2>3 DEF GivenOut, A
    <3>3. ASSUME a.sequence = b.sequence, ChannelOf(a.event) = ChannelOf(b.event)
          PROVE  FALSE
      <4>1. ChannelOf(b.event) = ch /\ b.sequence = numbers[ch]
        BY <1>12, <2>3, <3>3
      <4>2. numbers[ch] < numbers[ch]
        BY <3>2, <4>1
      <4> QED
        BY <1>3, <4>2
    <3> QED
      BY <3>1, <3>3
  <2>4. CASE a = new /\ b = new
    BY <2>4
  <2> QED
    BY <2>1, <2>2, <2>3, <2>4
<1>14. GivenOut(A \cup {new}, next)
  <2> SUFFICES ASSUME NEW a \in A \cup {new}
               PROVE  a.sequence < next[ChannelOf(a.event)]
    BY DEF GivenOut
  <2>1. CASE a \in A
    <3>1. a.sequence < numbers[ChannelOf(a.event)]
      BY <2>1 DEF GivenOut, A
    <3> QED
      BY <1>6, <1>10, <1>11, <2>1, <3>1
  <2>2. CASE a = new
    BY <1>3, <1>6, <1>12, <2>2
  <2> QED
    BY <2>1, <2>2
<1>15. OneToOne(B) /\ GivenOut(B, next)
  BY <1>9, <1>13, <1>14 DEF OneToOne, GivenOut
<1> QED
  BY <1>4, <1>6, <1>7, <1>8, <1>15 DEF B

\* PUBLISH puts it on the wire with that number, and the sender goes on with
\* the rest.
Rest(s) == [out |-> Tail(s.out), sequence |-> NotYet, by |-> s.by]
Published(s) == [event |-> Head(s.out), sequence |-> s.sequence, by |-> s.by]

LEMMA PublishKeeps ==
  ASSUME NEW S \in SUBSET Sender, NEW w \in SUBSET Envelope,
         NEW s \in S, NEW T \in SUBSET ((S \ {s}) \cup {Rest(s)}),
         s.out # << >>, s.sequence # NotYet,
         Apart(S), Unheard(S, w)
  PROVE  /\ T \subseteq Sender /\ Published(s) \in Envelope
         /\ w \cup {Published(s)} \subseteq Envelope
         /\ Apart(T) /\ Unheard(T, w \cup {Published(s)})
         /\ Numbered(T, w \cup {Published(s)}) \subseteq Numbered(S, w)
<1>1. s.out \in Seq(Event) /\ s.sequence \in Nat /\ s.by \in Instances
  BY DEF Sender
<1>2. /\ Head(s.out) = s.out[1] /\ s.out[1] \in Event
      /\ Tail(s.out) \in Seq(Event) /\ 1 \in 1..Len(s.out)
      /\ \A n \in 1..Len(Tail(s.out)) :
           Tail(s.out)[n] = s.out[n + 1] /\ n + 1 \in 1..Len(s.out) /\ n + 1 # 1
  BY <1>1, FirstAndRest
<1>3. Published(s) \in Envelope
  BY <1>1, <1>2 DEF Published, Envelope
<1>4. Rest(s) \in Sender
  BY <1>1, <1>2 DEF Rest, Sender
<1>5. /\ Rest(s).out = Tail(s.out) /\ Rest(s).sequence = NotYet
      /\ Published(s).event = s.out[1] /\ Published(s).sequence = s.sequence
  BY <1>2 DEF Rest, Published
<1>6. Apart(T)
  <2> SUFFICES ASSUME NEW u \in T, NEW v \in T, NEW n \in 1..Len(u.out), NEW m \in 1..Len(v.out),
                      u.out[n] = v.out[m]
               PROVE  u = v /\ n = m
    BY DEF Apart
  <2>1. CASE u \in S \ {s} /\ v \in S \ {s}
    BY <2>1 DEF Apart
  <2>2. CASE u \in S \ {s} /\ v = Rest(s)
    <3>1. v.out[m] = s.out[m + 1] /\ m + 1 \in 1..Len(s.out)
      BY <1>2, <1>5, <2>2
    <3> QED
      BY <2>2, <3>1 DEF Apart
  <2>3. CASE u = Rest(s) /\ v \in S \ {s}
    <3>1. u.out[n] = s.out[n + 1] /\ n + 1 \in 1..Len(s.out)
      BY <1>2, <1>5, <2>3
    <3> QED
      BY <2>3, <3>1 DEF Apart
  <2>4. CASE u = Rest(s) /\ v = Rest(s)
    <3>1. u.out[n] = s.out[n + 1] /\ n + 1 \in 1..Len(s.out)
      BY <1>2, <1>5, <2>4
    <3>2. v.out[m] = s.out[m + 1] /\ m + 1 \in 1..Len(s.out)
      BY <1>2, <1>5, <2>4
    <3>3. n + 1 = m + 1
      <4>1. s.out[n + 1] = s.out[m + 1]
        BY <3>1, <3>2
      <4>2. \A i, j \in 1..Len(s.out) : s.out[i] = s.out[j] => i = j
        BY DEF Apart
      <4> QED
        BY <3>1, <3>2, <4>1, <4>2
    <3>4. Len(u.out) \in Nat /\ Len(v.out) \in Nat
      BY <1>2, <1>5, <2>4
    <3> QED
      BY <2>4, <3>3, <3>4
  <2> QED
    BY <2>1, <2>2, <2>3, <2>4
<1>7. Unheard(T, w \cup {Published(s)})
  <2> SUFFICES ASSUME NEW u \in T, NEW v \in w \cup {Published(s)}, NEW n \in 1..Len(u.out)
               PROVE  v.event # u.out[n]
    BY DEF Unheard
  <2>1. CASE u = Rest(s)
    <3>1. u.out[n] = s.out[n + 1] /\ n + 1 \in 1..Len(s.out) /\ n + 1 # 1
      BY <1>2, <1>5, <2>1
    <3>2. CASE v \in w
      BY <3>1, <3>2 DEF Unheard
    <3>3. CASE v = Published(s)
      <4>1. s.out[1] # s.out[n + 1]
        BY <1>2, <3>1 DEF Apart
      <4> QED
        BY <1>5, <3>1, <3>3, <4>1
    <3> QED
      BY <3>2, <3>3
  <2>2. CASE u # Rest(s)
    <3>1. u \in S /\ u # s
      BY <2>2
    <3>2. CASE v \in w
      BY <3>1, <3>2 DEF Unheard
    <3>3. CASE v = Published(s)
      <4>1. s.out[1] # u.out[n]
        BY <1>2, <3>1 DEF Apart
      <4> QED
        BY <1>5, <3>3, <4>1
    <3> QED
      BY <3>2, <3>3
  <2> QED
    BY <2>1, <2>2
<1>8. Numbered(T, w \cup {Published(s)}) \subseteq Numbered(S, w)
  BY <1>5 DEF Numbered
<1> QED
  BY <1>3, <1>4, <1>6, <1>7, <1>8

\* A driver that takes its next step has that step's events to publish, none of
\* which is on its way or was published.
LEMMA NewEventsKeep ==
  ASSUME NEW S \in SUBSET Sender, NEW w \in SUBSET Envelope, NEW t \in Sender,
         t.sequence = NotYet,
         Apart(S), Unheard(S, w),
         \A n, m \in 1..Len(t.out) : t.out[n] = t.out[m] => n = m,
         \A n \in 1..Len(t.out), s \in S : \A m \in 1..Len(s.out) : t.out[n] # s.out[m],
         \A n \in 1..Len(t.out), v \in w : t.out[n] # v.event
  PROVE  /\ Apart(S \cup {t}) /\ Unheard(S \cup {t}, w)
         /\ Numbered(S \cup {t}, w) \subseteq Numbered(S, w)
<1>1. Apart(S \cup {t})
  BY DEF Apart
<1>2. Unheard(S \cup {t}, w)
  BY DEF Unheard
<1>3. Numbered(S \cup {t}, w) \subseteq Numbered(S, w)
  BY DEF Numbered
<1> QED
  BY <1>1, <1>2, <1>3

\* Senders that are fewer, or have nothing to publish, keep apart.
LEMMA FewerKeep ==
  ASSUME NEW S \in SUBSET Sender, NEW w \in SUBSET Envelope,
         NEW t \in Sender, t.out = << >>, t.sequence = NotYet,
         NEW T \in SUBSET (S \cup {t}),
         Apart(S), Unheard(S, w)
  PROVE  Apart(T) /\ Unheard(T, w) /\ Numbered(T, w) \subseteq Numbered(S, w)
<1>1. Len(t.out) = 0
  OBVIOUS
<1>2. Apart(T)
  BY <1>1 DEF Apart
<1>3. Unheard(T, w)
  BY <1>1 DEF Unheard
<1>4. Numbered(T, w) \subseteq Numbered(S, w)
  BY DEF Numbered
<1> QED
  BY <1>2, <1>3, <1>4

-----------------------------------------------------------------------------
(***************************************************************************)
(* The steps of a round.                                                   *)
(***************************************************************************)

\* A step the driver can take moves the round and its evidence on, and has
\* something to say that nobody said before and that its saving makes true.
Ahead(step) ==
  /\ step.round \in Snapshot /\ step.tick \in Nat
  /\ step.out \in Seq(Event) /\ step.out # << >>
  /\ store # None => NoFurther(store, step.round)
  /\ evidence[step.round.round] <= step.tick
  /\ step.tick # 0 => step.round.phase # "PICK_OPEN"
  /\ \A n, m \in 1..Len(step.out) : step.out[n] = step.out[m] => n = m
  /\ \A n \in 1..Len(step.out) :
       /\ ~SaidBy(step.out[n], store, evidence)
       /\ SaidBy(step.out[n], step.round,
                 [evidence EXCEPT ![step.round.round] = step.tick])

LEMMA PhaseOrder ==
  PhaseRank("PICK_OPEN") = 0 /\ PhaseRank("BATTLE_LIVE") = 1 /\ PhaseRank("FINALIZED") = 2
  BY DEF PhaseRank

\* One event and no more.
LEMMA OneEvent ==
  ASSUME NEW e \in Event
  PROVE  /\ <<e>> \in Seq(Event) /\ <<e>> # << >> /\ Len(<<e>>) = 1
         /\ \A n \in 1..Len(<<e>>) : n = 1 /\ <<e>>[n] = e
  OBVIOUS

LEMMA StepsAreAhead ==
  ASSUME ServerShape, StoreInv, NEW step \in StepsFrom(driver.round)
  PROVE  Ahead(step)
<1>1. Rounds \subseteq Nat /\ None \notin Snapshot
  BY LiveAssumption
<1>2. driver.round = store /\ store \in Snapshot \cup {None} /\ evidence \in [Rounds -> Nat]
  BY DEF StoreInv, ServerShape
<1>3. CASE store = None \/ store.phase = "FINALIZED"
  <2>1. PICK r \in Rounds :
          /\ r = IF store = None THEN 0 ELSE store.round + 1
          /\ step = [round |-> [round |-> r, phase |-> "PICK_OPEN"], tick |-> 0,
                     out |-> <<[kind |-> "ROUND_OPENED", round |-> r]>>]
    BY <1>2, <1>3 DEF StepsFrom
  <2> DEFINE e == [kind |-> "ROUND_OPENED", round |-> r]
  <2>2. e \in Event /\ e.kind = "ROUND_OPENED" /\ e.round = r
    BY DEF Event
  <2>3. step.round = [round |-> r, phase |-> "PICK_OPEN"] /\ step.tick = 0 /\ step.out = <<e>>
    BY <2>1
  <2>4. step.round \in Snapshot /\ step.round.round = r /\ step.round.phase = "PICK_OPEN"
    BY <2>3 DEF Snapshot, Phases
  <2>5. store # None => store.round \in Nat /\ r = store.round + 1 /\ r \in Nat
    BY <1>1, <1>2, <2>1 DEF Snapshot
  <2>6. store # None => NoFurther(store, step.round)
    BY <2>4, <2>5 DEF NoFurther
  <2>7. evidence[r] = 0
    BY <1>2, <2>5 DEF StoreInv
  <2>8. ~SaidBy(e, store, evidence)
    BY <2>2, <2>5 DEF SaidBy, NoFurther
  <2>9. NoFurther(step.round, step.round)
    BY <2>4, NoFurtherThanItself DEF Snapshot
  <2>10. step.round # None
    BY <1>1, <2>4
  <2> HIDE DEF e
  <2>11. SaidBy(e, step.round, [evidence EXCEPT ![r] = 0])
    BY <2>2, <2>3, <2>9, <2>10 DEF SaidBy
  <2>12. /\ step.out \in Seq(Event) /\ step.out # << >>
         /\ \A n \in 1..Len(step.out) : n = 1 /\ step.out[n] = e
    BY <2>2, <2>3, OneEvent
  <2> QED
    BY <2>3, <2>4, <2>6, <2>7, <2>8, <2>11, <2>12 DEF Ahead
<1>4. CASE store # None /\ store.phase = "PICK_OPEN"
  <2> DEFINE r == store.round
             e == [kind |-> "PICKS_LOCKED", round |-> r]
  <2>1. /\ step.round = [store EXCEPT !.phase = "BATTLE_LIVE"]
        /\ step.tick = 0 /\ step.out = <<e>>
    BY <1>2, <1>4 DEF StepsFrom
  <2>2. r \in Rounds /\ r \in Nat /\ store \in Snapshot
    BY <1>1, <1>2, <1>4 DEF Snapshot
  <2>3. e \in Event /\ e.kind = "PICKS_LOCKED" /\ e.round = r
    BY <2>2 DEF Event
  <2>4. /\ step.round \in Snapshot /\ step.round.round = r /\ step.round.phase = "BATTLE_LIVE"
        /\ step.round = [round |-> r, phase |-> "BATTLE_LIVE"]
    BY <2>1, <2>2 DEF Snapshot, Phases
  <2>5. NoFurther(store, step.round)
    BY <1>4, <2>2, <2>4, PhaseOrder DEF NoFurther
  <2>6. evidence[r] = 0
    BY <1>4, <2>2 DEF StoreInv
  <2>7. ~NoFurther([round |-> r, phase |-> "BATTLE_LIVE"], store)
    BY <1>4, <2>2, PhaseOrder DEF NoFurther
  <2>8. ~SaidBy(e, store, evidence)
    BY <2>3, <2>7 DEF SaidBy
  <2>9. NoFurther(step.round, step.round)
    BY <2>4, NoFurtherThanItself DEF Snapshot
  <2>10. step.round # None
    BY <1>1, <2>4
  <2> HIDE DEF e
  <2>11. SaidBy(e, step.round, [evidence EXCEPT ![r] = 0])
    BY <2>3, <2>4, <2>9, <2>10 DEF SaidBy
  <2>12. /\ step.out \in Seq(Event) /\ step.out # << >>
         /\ \A n \in 1..Len(step.out) : n = 1 /\ step.out[n] = e
    BY <2>1, <2>3, OneEvent
  <2> QED
    BY <2>1, <2>4, <2>5, <2>6, <2>8, <2>11, <2>12 DEF Ahead
<1>5. CASE store # None /\ store.phase = "BATTLE_LIVE"
  <2> DEFINE r == store.round
  <2>1. r \in Rounds /\ r \in Nat /\ store \in Snapshot /\ evidence[r] \in Nat
    BY <1>1, <1>2, <1>5 DEF Snapshot
  <2>2. CASE step = [round |-> [store EXCEPT !.phase = "FINALIZED"], tick |-> evidence[r],
                     out |-> <<[kind |-> "ROUND_FINALIZED", round |-> r]>>]
    <3> DEFINE e == [kind |-> "ROUND_FINALIZED", round |-> r]
    <3>1. /\ step.round = [store EXCEPT !.phase = "FINALIZED"]
          /\ step.tick = evidence[r] /\ step.out = <<e>>
      BY <2>2
    <3>2. e \in Event /\ e.kind = "ROUND_FINALIZED" /\ e.round = r
      BY <2>1 DEF Event
    <3>3. /\ step.round \in Snapshot /\ step.round.round = r /\ step.round.phase = "FINALIZED"
          /\ step.round = [round |-> r, phase |-> "FINALIZED"]
      BY <2>1, <3>1 DEF Snapshot, Phases
    <3>4. NoFurther(store, step.round)
      BY <1>5, <2>1, <3>3, PhaseOrder DEF NoFurther
    <3>5. ~NoFurther([round |-> r, phase |-> "FINALIZED"], store)
      BY <1>5, <2>1, PhaseOrder DEF NoFurther
    <3>6. ~SaidBy(e, store, evidence)
      BY <3>2, <3>5 DEF SaidBy
    <3>7. NoFurther(step.round, step.round)
      BY <3>3, NoFurtherThanItself DEF Snapshot
    <3>8. step.round # None
      BY <1>1, <3>3
    <3> HIDE DEF e
    <3>9. SaidBy(e, step.round, [evidence EXCEPT ![r] = step.tick])
      BY <3>2, <3>3, <3>7, <3>8 DEF SaidBy
    <3>10. /\ step.out \in Seq(Event) /\ step.out # << >>
           /\ \A n \in 1..Len(step.out) : n = 1 /\ step.out[n] = e
      BY <3>1, <3>2, OneEvent
    <3> QED
      BY <2>1, <3>1, <3>3, <3>4, <3>6, <3>9, <3>10 DEF Ahead
  <2>3. ASSUME NEW n \in 1..MaxTicks, n = evidence[r] + 1,
               step = [round |-> store, tick |-> n,
                       out |-> [b \in Battles |->
                                  [kind |-> "BATTLE_STATE_UPDATE", round |-> r,
                                   battle |-> b, tick |-> n]]]
        PROVE  Ahead(step)
    <3> DEFINE e(b) == [kind |-> "BATTLE_STATE_UPDATE", round |-> r, battle |-> b, tick |-> n]
               now == [evidence EXCEPT ![r] = n]
    <3>1. step.round = store /\ step.tick = n /\ step.out = [b \in Battles |-> e(b)]
      BY <2>3
    <3>2. n \in Nat /\ n > evidence[r] /\ n # 0
      BY <2>1, <2>3
    <3>3. BattlesPerRound \in Nat /\ BattlesPerRound >= 1
      BY LiveAssumption
    <3>4. \A b \in Battles :
            /\ e(b) \in Event /\ e(b).kind = "BATTLE_STATE_UPDATE"
            /\ e(b).round = r /\ e(b).battle = b /\ e(b).tick = n
      BY <2>1 DEF Event
    <3> HIDE DEF e
    <3>5. step.out \in Seq(Event) /\ Len(step.out) = BattlesPerRound
      BY <3>1, <3>3, <3>4 DEF Battles
    <3>6. step.out # << >>
      BY <3>3, <3>5
    <3>7. \A i \in 1..Len(step.out) : i \in Battles /\ step.out[i] = e(i)
      BY <3>1, <3>5 DEF Battles
    <3>8. \A i, j \in 1..Len(step.out) : step.out[i] = step.out[j] => i = j
      <4> SUFFICES ASSUME NEW i \in 1..Len(step.out), NEW j \in 1..Len(step.out),
                          step.out[i] = step.out[j]
                   PROVE  i = j
        OBVIOUS
      <4>1. e(i) = e(j) /\ i \in Battles /\ j \in Battles
        BY <3>7
      <4> QED
        BY <3>4, <4>1
    <3>9. NoFurther(store, store)
      BY <2>1, NoFurtherThanItself DEF Snapshot
    <3>10. now[r] = n
      BY <1>2, <2>1
    <3>11. \A b \in Battles : ~SaidBy(e(b), store, evidence) /\ SaidBy(e(b), store, now)
      BY <2>1, <3>2, <3>4, <3>10 DEF SaidBy
    <3>12. /\ now = [evidence EXCEPT ![step.round.round] = step.tick]
           /\ step.round \in Snapshot /\ step.tick \in Nat
           /\ evidence[step.round.round] <= step.tick /\ step.round.phase # "PICK_OPEN"
           /\ NoFurther(store, step.round)
      BY <1>5, <2>1, <3>1, <3>2, <3>9
    <3> HIDE DEF now
    <3>13. \A i \in 1..Len(step.out) :
             ~SaidBy(step.out[i], store, evidence) /\ SaidBy(step.out[i], step.round, now)
      BY <3>1, <3>7, <3>11
    <3> QED
      BY <3>5, <3>6, <3>8, <3>12, <3>13 DEF Ahead
  <2> QED
    BY <1>2, <1>5, <2>2, <2>3 DEF StepsFrom
<1> QED
  <2>1. store # None => store.phase \in Phases
    BY <1>2 DEF Snapshot
  <2> QED
    BY <1>3, <1>4, <1>5, <2>1 DEF Phases

-----------------------------------------------------------------------------
(***************************************************************************)
(* The driver's steps and a stray's keep the invariant.                    *)
(***************************************************************************)

\* A sender that has a number has the event the number is for.
LEMMA NumbersHaveEvents ==
  ASSUME ServerShape, SendersInv
  PROVE  /\ Senders \subseteq Sender /\ DriverSends \in Senders /\ strays \subseteq Senders
         /\ \A u \in Senders : u.sequence # NotYet => u.out # << >>
<1>1. DriverSends \in Sender
  BY DEF ServerShape, DriverSends, Sender
<1>2. DriverSends.sequence # NotYet => DriverSends.out # << >>
  BY DEF SendersInv, DriverSends
<1> QED
  BY <1>1, <1>2 DEF ServerShape, SendersInv, Senders

LEMMA OtherPublishers == 
  ASSUME UNCHANGED <<driver, strays, wire, counter, store, evidence>>, SendersInv
  PROVE  SendersInv'
  BY DEF SendersInv, Senders, DriverSends, Apart, Unheard, Numbered, OneToOne, GivenOut, SaidBy

\* A page's copies stand while the store moves on.
LEMMA CopiesStand ==
  ASSUME ServerShape, PageShape, CopiesInv,
         store' \in Snapshot \cup {None}, evidence' \in [Rounds -> Nat],
         store # None => store' # None /\ NoFurther(store, store'),
         \A r \in Rounds : evidence[r] <= evidence'[r],
         UNCHANGED <<views, polls, fetches, shown>>
  PROVE  CopiesInv'
<1>1. ASSUME NEW a, a.round \in Rounds, a.phase \in Phases, Held(a)
      PROVE  store' # None /\ NoFurther(a, store')
  <2>1. store # None /\ NoFurther(a, store) /\ store \in Snapshot
    BY <1>1 DEF Held, ServerShape
  <2>2. store' # None /\ NoFurther(store, store') /\ store' \in Snapshot
    BY <2>1
  <2> QED
    BY <1>1, <2>1, <2>2, FurtherStill
<1>2. \A i \in Instances :
        /\ views'[i] # None => store' # None /\ NoFurther(views'[i], store')
        /\ polls'[i] # None => store' # None /\ NoFurther(polls'[i], store')
  <2> SUFFICES ASSUME NEW i \in Instances
               PROVE  /\ views[i] # None => store' # None /\ NoFurther(views[i], store')
                      /\ polls[i] # None => store' # None /\ NoFurther(polls[i], store')
    OBVIOUS
  <2>1. views[i] # None => views[i].round \in Rounds /\ views[i].phase \in Phases /\ Held(views[i])
    BY DEF ServerShape, CopiesInv, Snapshot
  <2>2. polls[i] # None => polls[i].round \in Rounds /\ polls[i].phase \in Phases /\ Held(polls[i])
    BY DEF ServerShape, CopiesInv, Snapshot
  <2> QED
    BY <1>1, <2>1, <2>2
<1>3. ASSUME NEW c \in Clients, NEW k \in 1..MaxFetches, fetches'[c][k] \in Snapshot
      PROVE  store' # None /\ NoFurther(fetches'[c][k], store')
  <2>1. fetches[c][k] \in Snapshot /\ fetches'[c][k] = fetches[c][k]
    BY <1>3
  <2>2. Held(fetches[c][k])
    BY <2>1 DEF CopiesInv
  <2>3. fetches[c][k].round \in Rounds /\ fetches[c][k].phase \in Phases
    BY <2>1 DEF Snapshot
  <2> QED
    BY <1>1, <2>1, <2>2, <2>3
<1>4. ASSUME NEW c \in Clients, shown'[c] # None
      PROVE  /\ store' # None /\ NoFurther(shown'[c], store')
             /\ \A b \in Battles : shown'[c].front[b] <= evidence'[shown'[c].round]
  <2>1. /\ shown'[c] = shown[c] /\ shown[c] # None
        /\ shown[c].round \in Rounds /\ shown[c].phase \in Phases
        /\ shown[c].front \in [Battles -> Nat]
    BY <1>4 DEF PageShape
  <2>2. Held(shown[c]) /\ \A b \in Battles : shown[c].front[b] <= evidence[shown[c].round]
    BY <2>1 DEF CopiesInv
  <2>3. /\ evidence[shown[c].round] <= evidence'[shown[c].round]
        /\ evidence[shown[c].round] \in Nat /\ evidence'[shown[c].round] \in Nat
    BY <2>1 DEF ServerShape
  <2>4. \A b \in Battles : shown[c].front[b] <= evidence'[shown[c].round]
    BY <2>1, <2>2, <2>3
  <2> QED
    BY <1>1, <2>1, <2>2, <2>4
<1> QED
  BY <1>2, <1>3, <1>4 DEF CopiesInv, Held

LEMMA DriveKeeps == LiveInv /\ Drive => LiveInv'
<1> SUFFICES ASSUME LiveInv, Drive
             PROVE  LiveInv'
  OBVIOUS
<1> USE DEF LiveInv
<1>1. PICK step \in StepsFrom(driver.round) : SaveStep(step)
  BY DEF Drive
<1>2. Ahead(step)
  BY StepsAreAhead
<1>3. /\ driver.pc = "idle" /\ driver.out = << >> /\ driver.sequence = NotYet
      /\ UNCHANGED <<strays, counter, views, polls, wire>>
      /\ UNCHANGED <<inbox, receiver, shown, fetches, applied>>
  BY DEF Drive, SendersInv, clientVars
<1>4. /\ store' = step.round
      /\ evidence' = [evidence EXCEPT ![step.round.round] = step.tick]
      /\ driver' = [driver EXCEPT !.pc = "incr", !.round = step.round, !.out = step.out]
  BY <1>1 DEF SaveStep
<1>5. /\ step.round \in Snapshot /\ step.round.round \in Rounds /\ step.round # None
      /\ step.tick \in Nat
  BY <1>2, LiveAssumption DEF Ahead, Snapshot
<1>6. /\ driver'.at = driver.at /\ driver'.pc = "incr" /\ driver'.round = step.round
      /\ driver'.out = step.out /\ driver'.sequence = NotYet
  BY <1>3, <1>4 DEF ServerShape
<1>7. /\ driver' \in [at : Instances, pc : {"idle", "incr", "publish", "seen"},
                      round : Snapshot \cup {None}, out : Seq(Event),
                      sequence : Nat \cup {NotYet}]
  BY <1>2, <1>4, <1>5 DEF ServerShape, Ahead
<1>8. evidence' \in [Rounds -> Nat]
  BY <1>4, <1>5 DEF ServerShape
<1>9. store' \in Snapshot /\ store' # None /\ (store # None => NoFurther(store, store'))
  BY <1>2, <1>4, <1>5 DEF Ahead
<1>10. \A r \in Rounds : evidence[r] <= evidence'[r]
  BY <1>2, <1>4, <1>5 DEF ServerShape, Ahead
<1>11. ServerShape'
  BY <1>3, <1>7, <1>8, <1>9 DEF ServerShape
<1>12. PageShape'
  BY <1>3 DEF PageShape
<1>13. StoreInv'
  <2>1. ASSUME NEW r \in Rounds, evidence'[r] # 0
        PROVE  r < step.round.round \/ (r = step.round.round /\ step.round.phase # "PICK_OPEN")
    <3>1. CASE r = step.round.round
      BY <1>2, <1>4, <2>1, <3>1 DEF Ahead, ServerShape
    <3>2. CASE r # step.round.round
      <4>1. evidence[r] # 0
        BY <1>4, <2>1, <3>2 DEF ServerShape
      <4>2. store # None /\ (r < store.round \/ r = store.round)
        BY <4>1 DEF StoreInv
      <4>3. store.round < step.round.round \/ store.round = step.round.round
        BY <1>2, <4>2 DEF Ahead, NoFurther
      <4>4. store.round \in Nat /\ step.round.round \in Nat /\ r \in Nat
        BY <1>5, <4>2, LiveAssumption DEF ServerShape, Snapshot
      <4> QED
        BY <3>2, <4>2, <4>3, <4>4
    <3> QED
      BY <3>1, <3>2
  <2> QED
    BY <1>4, <1>6, <1>9, <2>1 DEF StoreInv
<1>14. SendersInv'
  <2> DEFINE t == [out |-> step.out, sequence |-> NotYet, by |-> driver.at]
  <2>1. DriverSends' = t
    BY <1>6 DEF DriverSends
  <2>2. Senders' = strays \cup {t}
    BY <1>3, <2>1 DEF Senders
  <2>3. t \in Sender /\ t.out = step.out /\ t.sequence = NotYet
    BY <1>2 DEF Sender, Ahead, ServerShape
  <2>4. strays \subseteq Sender /\ wire \subseteq Envelope
    BY DEF ServerShape
  <2>5. Apart(strays) /\ Unheard(strays, wire)
    BY NumbersHaveEvents DEF SendersInv, Apart, Unheard
  <2>6. \A s \in strays : \A m \in 1..Len(s.out) : SaidBy(s.out[m], store, evidence)
    BY NumbersHaveEvents DEF SendersInv
  <2>7. \A n \in 1..Len(t.out) : ~SaidBy(t.out[n], store, evidence) /\ SaidBy(t.out[n], store', evidence')
    BY <1>2, <1>4, <2>3 DEF Ahead
  <2>8. \A n, m \in 1..Len(t.out) : t.out[n] = t.out[m] => n = m
    BY <1>2, <2>3 DEF Ahead
  <2>9. \A n \in 1..Len(t.out), s \in strays : \A m \in 1..Len(s.out) : t.out[n] # s.out[m]
    BY <2>6, <2>7
  <2>10. \A n \in 1..Len(t.out), v \in wire : t.out[n] # v.event
    BY <2>7 DEF SendersInv
  <2> HIDE DEF t
  <2>11. /\ Apart(strays \cup {t}) /\ Unheard(strays \cup {t}, wire)
         /\ Numbered(strays \cup {t}, wire) \subseteq Numbered(strays, wire)
    BY <2>3, <2>4, <2>5, <2>8, <2>9, <2>10, NewEventsKeep
  <2>12. Numbered(strays, wire) \subseteq Numbered(Senders, wire)
    BY NumbersHaveEvents DEF Numbered
  <2>13. OneToOne(Numbered(strays \cup {t}, wire)) /\ GivenOut(Numbered(strays \cup {t}, wire), counter)
    BY <2>11, <2>12 DEF SendersInv, OneToOne, GivenOut
  <2>14. \A s \in strays : \A n \in 1..Len(s.out) : SaidBy(s.out[n], store', evidence')
    <3> SUFFICES ASSUME NEW s \in strays, NEW n \in 1..Len(s.out)
                 PROVE  SaidBy(s.out[n], store', evidence')
      OBVIOUS
    <3>1. s.out[n] \in Event
      BY <2>4 DEF Sender
    <3> QED
      BY <1>8, <1>9, <1>10, <2>6, <3>1, SaidStays DEF ServerShape
  <2>15. \A v \in wire : SaidBy(v.event, store', evidence')
    <3> SUFFICES ASSUME NEW v \in wire
                 PROVE  SaidBy(v.event, store', evidence')
      OBVIOUS
    <3>1. v.event \in Event /\ SaidBy(v.event, store, evidence)
      BY <2>4 DEF Envelope, SendersInv
    <3> QED
      BY <1>8, <1>9, <1>10, <3>1, SaidStays DEF ServerShape
  <2>16. DriverSends' \notin strays
    <3>1. 1 \in 1..Len(t.out)
      BY <1>2, <2>3, FirstAndRest DEF Ahead
    <3> QED
      BY <2>1, <2>9, <3>1
  <2>17. /\ driver'.out # << >> /\ driver'.pc = "incr" /\ driver'.sequence = NotYet
    BY <1>2, <1>6 DEF Ahead
  <2>18. \A s \in Senders' : \A n \in 1..Len(s.out) : SaidBy(s.out[n], store', evidence')
    BY <2>2, <2>7, <2>14
  <2>19. \A s \in strays : s.out # << >>
    BY DEF SendersInv
  <2> QED
    BY <1>3, <2>2, <2>11, <2>13, <2>15, <2>16, <2>17, <2>18, <2>19 DEF SendersInv
<1>15. CopiesInv'
  BY <1>3, <1>8, <1>9, <1>10, CopiesStand
<1>16. RunsInv'
  BY <1>3 DEF RunsInv
<1> QED
  BY <1>11, <1>12, <1>13, <1>14, <1>15, <1>16

\* The pages and their copies are as they were.
LEMMA PagesStand ==
  ASSUME ServerShape, PageShape, CopiesInv, RunsInv,
         UNCHANGED <<store, evidence, views, polls, wire, inbox, clientVars>>
  PROVE  PageShape' /\ CopiesInv' /\ RunsInv'
<1>1. PageShape'
  BY DEF PageShape, clientVars
<1>2. CopiesInv'
  BY DEF CopiesInv, Held, clientVars
<1>3. RunsInv'
  BY DEF RunsInv, clientVars
<1> QED
  BY <1>1, <1>2, <1>3

LEMMA IncrStepKeeps == LiveInv /\ Incr => LiveInv'
<1> SUFFICES ASSUME LiveInv, Incr
             PROVE  LiveInv'
  OBVIOUS
<1> USE DEF LiveInv
<1> DEFINE s == DriverSends
           number == counter[ChannelOf(driver.out[1])]
           t == After(s, number)
<1>1. /\ driver.pc = "incr" /\ driver.out # << >> /\ driver.sequence = NotYet
      /\ driver.out \in Seq(Event)
      /\ UNCHANGED <<store, evidence, strays, views, polls, wire, inbox, clientVars>>
  BY DEF Incr, SendersInv, ServerShape
<1>2. Head(driver.out) = driver.out[1] /\ driver.out[1] \in Event
  BY <1>1, FirstAndRest
<1>3. number \in Nat /\ number # NotYet
  BY <1>2, ChannelTyped DEF ServerShape, NotYet
<1>4. /\ driver' = [driver EXCEPT !.pc = "publish", !.sequence = number]
      /\ counter' = [counter EXCEPT ![ChannelOf(driver.out[1])] = @ + 1]
  BY <1>2 DEF Incr, SequenceOf
<1>5. /\ driver'.at = driver.at /\ driver'.pc = "publish" /\ driver'.round = driver.round
      /\ driver'.out = driver.out /\ driver'.sequence = number
  BY <1>4 DEF ServerShape
<1>6. s.out = driver.out /\ s.sequence = NotYet /\ s \in Senders
  BY <1>1 DEF DriverSends, Senders
<1>7. DriverSends' = t
  BY <1>5 DEF DriverSends, After
<1>8. t \in Sender /\ t.out = driver.out
  BY <1>1, <1>3, <1>6 DEF After, Sender, ServerShape, DriverSends
<1>9. Senders' = (Senders \ {s}) \cup {t}
  BY <1>1, <1>7 DEF Senders, SendersInv
<1>10. Senders \subseteq Sender /\ \A u \in Senders : u.sequence # NotYet => u.out # << >>
  BY NumbersHaveEvents
<1>11. /\ Senders' \subseteq Sender /\ counter' \in [LiveChannels -> Nat]
       /\ Apart(Senders') /\ Unheard(Senders', wire)
       /\ OneToOne(Numbered(Senders', wire)) /\ GivenOut(Numbered(Senders', wire), counter')
  <2> HIDE DEF s, t
  <2>1. Senders \in SUBSET Sender /\ wire \in SUBSET Envelope /\ counter \in [LiveChannels -> Nat]
    BY <1>10 DEF ServerShape
  <2>2. Senders' = WithNumber(Senders, s, counter[ChannelOf(s.out[1])])
    BY <1>6, <1>9 DEF t, WithNumber
  <2>3. /\ counter' \in [LiveChannels -> Nat]
        /\ counter'[ChannelOf(s.out[1])] = counter[ChannelOf(s.out[1])] + 1
        /\ \A x \in LiveChannels : counter'[x] >= counter[x]
    <3>1. ChannelOf(driver.out[1]) \in LiveChannels
      BY <1>2, ChannelTyped
    <3> QED
      BY <1>4, <1>6, <3>1 DEF ServerShape
  <2>4. /\ Apart(Senders) /\ Unheard(Senders, wire)
        /\ OneToOne(Numbered(Senders, wire)) /\ GivenOut(Numbered(Senders, wire), counter)
    BY DEF SendersInv
  <2>5. s.out # << >> /\ t \in Sender
    BY <1>1, <1>6, <1>8
  <2>6. s \in Senders /\ s.sequence = NotYet
    BY <1>6
  <2>7. \A u \in Senders : u.sequence # NotYet => u.out # << >>
    BY <1>10
  <2> HIDE DEF LiveInv
  <2>8. /\ Senders' \subseteq Sender /\ Apart(Senders') /\ Unheard(Senders', wire)
        /\ OneToOne(Numbered(Senders', wire)) /\ GivenOut(Numbered(Senders', wire), counter')
    BY ONLY SMTT(30), <2>1, <2>2, <2>3, <2>4, <2>5, <2>6, <2>7, IncrKeeps
  <2> QED
    BY <2>3, <2>8
<1>12. ServerShape'
  BY <1>1, <1>3, <1>4, <1>11 DEF ServerShape
<1>13. StoreInv'
  BY <1>1, <1>5 DEF StoreInv
<1>14. DriverSends' \notin strays
  <2>1. 1 \in 1..Len(driver.out)
    BY <1>1, FirstAndRest
  <2>2. \A u \in strays : u \in Senders /\ u # s
    BY DEF Senders, SendersInv
  <2>3. \A u \in strays : u.out # driver.out
    BY <1>6, <2>1, <2>2 DEF SendersInv, Apart
  <2> QED
    BY <1>7, <1>8, <2>3
<1>15. SendersInv'
  <2>1. \A u \in Senders' : \A n \in 1..Len(u.out) : SaidBy(u.out[n], store, evidence)
    BY <1>6, <1>8, <1>9 DEF SendersInv
  <2>2. driver'.out # << >> /\ driver'.pc = "publish" /\ driver'.sequence # NotYet
    BY <1>1, <1>3, <1>5
  <2>3. \A u \in strays : u.out # << >>
    BY DEF SendersInv
  <2>4. \A v \in wire : SaidBy(v.event, store, evidence)
    BY DEF SendersInv
  <2> QED
    BY <1>1, <1>11, <1>14, <2>1, <2>2, <2>3, <2>4 DEF SendersInv
<1> QED
  BY <1>1, <1>12, <1>13, <1>15, PagesStand

\* The rest of what a sender says is in the store as well.
LEMMA RestIsSaid ==
  ASSUME NEW s \in Sender, s.out # << >>, NEW st, NEW ev,
         \A n \in 1..Len(s.out) : SaidBy(s.out[n], st, ev)
  PROVE  /\ \A n \in 1..Len(Rest(s).out) : SaidBy(Rest(s).out[n], st, ev)
         /\ SaidBy(Published(s).event, st, ev)
<1>1. s.out \in Seq(Event)
  BY DEF Sender
<1>2. Rest(s).out = Tail(s.out) /\ Published(s).event = s.out[1] /\ 1 \in 1..Len(s.out)
  BY <1>1, FirstAndRest DEF Rest, Published
<1>3. \A n \in 1..Len(Rest(s).out) : Rest(s).out[n] = s.out[n + 1] /\ n + 1 \in 1..Len(s.out)
  BY <1>1, <1>2, FirstAndRest
<1> QED
  BY <1>2, <1>3

\* A page's inbox holds what was published.
LEMMA DeliverKeeps ==
  ASSUME PageShape, NEW envelope \in Envelope, Deliver(envelope)
  PROVE  inbox' \in [Clients -> Seq(wire')] /\ wire' = wire \cup {envelope}
<1>1. wire' = wire \cup {envelope}
  BY DEF Deliver
<1>2. PICK missed \in SUBSET Clients :
        inbox' = [c \in Clients |->
                    IF c \in recipientsOf(hub, ChannelOf(envelope.event)) \ missed
                    THEN Append(inbox[c], envelope) ELSE inbox[c]]
  BY DEF Deliver
<1>3. \A A, B : \A q \in Seq(A) : A \subseteq B => q \in Seq(B)
  OBVIOUS
<1>4. ASSUME NEW c \in Clients
      PROVE  inbox[c] \in Seq(wire') /\ Append(inbox[c], envelope) \in Seq(wire')
  <2>1. inbox[c] \in Seq(wire) /\ wire \subseteq wire' /\ envelope \in wire'
    BY <1>1 DEF PageShape
  <2>2. inbox[c] \in Seq(wire')
    BY <1>3, <2>1
  <2> QED
    BY <2>1, <2>2
<1> QED
  BY <1>1, <1>2, <1>4

LEMMA PublishStepKeeps == LiveInv /\ Publish => LiveInv'
<1> SUFFICES ASSUME LiveInv, Publish
             PROVE  LiveInv'
  OBVIOUS
<1> USE DEF LiveInv
<1> DEFINE s == DriverSends
<1>1. /\ driver.pc = "publish" /\ driver.out # << >> /\ driver.sequence # NotYet
      /\ driver.out \in Seq(Event)
      /\ UNCHANGED <<store, evidence, strays, counter, views, polls, clientVars>>
      /\ Deliver([event |-> Head(driver.out), sequence |-> driver.sequence, by |-> driver.at])
      /\ driver' = [driver EXCEPT !.out = Tail(@), !.sequence = NotYet,
                                  !.pc = IF Len(driver.out) > 1 THEN "incr" ELSE "seen"]
  BY DEF Publish, SendersInv, ServerShape
<1>2. s.out = driver.out /\ s.sequence = driver.sequence /\ s.by = driver.at /\ s \in Senders
  BY DEF DriverSends, Senders
<1>3. Senders \in SUBSET Sender /\ strays \subseteq Senders /\ s \in Sender
  BY <1>2, NumbersHaveEvents
<1>4. /\ driver'.at = driver.at /\ driver'.round = driver.round
      /\ driver'.out = Tail(driver.out) /\ driver'.sequence = NotYet
      /\ driver'.pc = IF Len(driver.out) > 1 THEN "incr" ELSE "seen"
  BY <1>1 DEF ServerShape
<1>5. DriverSends' = Rest(s)
  BY <1>2, <1>4 DEF DriverSends, Rest
<1>6. /\ Tail(driver.out) \in Seq(Event) /\ Len(driver.out) \in Nat
      /\ Len(Tail(driver.out)) = Len(driver.out) - 1
      /\ Tail(driver.out) = << >> <=> ~(Len(driver.out) > 1)
  <2> DEFINE q == driver.out
  <2>1. q \in Seq(Event) /\ q # << >>
    BY <1>1
  <2> HIDE DEF q
  <2>2. /\ Tail(q) \in Seq(Event) /\ Len(q) \in Nat /\ Len(Tail(q)) = Len(q) - 1
        /\ Tail(q) = << >> <=> ~(Len(q) > 1)
    BY <2>1, FirstAndRest
  <2> QED
    BY <2>2 DEF q
<1>7. Senders' = strays \cup {Rest(s)} /\ Senders' \in SUBSET ((Senders \ {s}) \cup {Rest(s)})
  BY <1>1, <1>3, <1>5 DEF Senders, SendersInv
<1>8. Deliver(Published(s))
  BY <1>1, <1>2 DEF Published
<1>9. /\ Senders' \subseteq Sender /\ Published(s) \in Envelope
      /\ wire \cup {Published(s)} \subseteq Envelope
      /\ Apart(Senders') /\ Unheard(Senders', wire \cup {Published(s)})
      /\ Numbered(Senders', wire \cup {Published(s)}) \subseteq Numbered(Senders, wire)
  <2> HIDE DEF s
  <2>1. wire \in SUBSET Envelope /\ s \in Senders /\ s.out # << >> /\ s.sequence # NotYet
    BY <1>1, <1>2 DEF ServerShape
  <2>2. Apart(Senders) /\ Unheard(Senders, wire)
    BY DEF SendersInv
  <2>3. Senders' \in SUBSET ((Senders \ {s}) \cup {Rest(s)})
    BY <1>7
  <2> QED
    BY ONLY <1>3, <2>1, <2>2, <2>3, PublishKeeps
<1>10. inbox' \in [Clients -> Seq(wire')] /\ wire' = wire \cup {Published(s)}
  BY <1>8, <1>9, DeliverKeeps
<1>11. ServerShape'
  <2>1. driver' \in [at : Instances, pc : {"idle", "incr", "publish", "seen"},
                     round : Snapshot \cup {None}, out : Seq(Event),
                     sequence : Nat \cup {NotYet}]
    BY <1>1, <1>6 DEF ServerShape
  <2> QED
    BY <1>1, <1>9, <1>10, <2>1 DEF ServerShape
<1>12. PageShape'
  BY <1>1, <1>10 DEF PageShape, clientVars
<1>13. StoreInv'
  BY <1>1, <1>4 DEF StoreInv
<1>14. /\ \A n \in 1..Len(Rest(s).out) : SaidBy(Rest(s).out[n], store, evidence)
       /\ SaidBy(Published(s).event, store, evidence)
  <2>1. \A n \in 1..Len(s.out) : SaidBy(s.out[n], store, evidence)
    BY <1>2 DEF SendersInv
  <2>2. s.out # << >>
    BY <1>1, <1>2
  <2> HIDE DEF s
  <2> QED
    BY <1>3, <2>1, <2>2, RestIsSaid
<1>15. DriverSends' \notin strays
  <2> SUFFICES ASSUME Rest(s) \in strays
               PROVE  FALSE
    BY <1>5
  <2>1. Rest(s).out # << >> /\ Rest(s) \in Senders /\ Rest(s) # s /\ Rest(s).out = Tail(driver.out)
    BY <1>2, <1>3 DEF SendersInv, Rest
  <2>2. 1 \in 1..Len(Tail(driver.out))
    BY <1>6, <2>1, FirstAndRest
  <2>3. Rest(s).out[1] = s.out[2] /\ 2 \in 1..Len(s.out) /\ 1 \in 1..Len(Rest(s).out)
    BY <1>1, <1>2, <2>1, <2>2, FirstAndRest
  <2> QED
    BY <1>2, <2>1, <2>3 DEF SendersInv, Apart
<1>16. SendersInv'
  <2>1. \A u \in Senders' : \A n \in 1..Len(u.out) : SaidBy(u.out[n], store, evidence)
    BY <1>3, <1>7, <1>14 DEF SendersInv
  <2>2. /\ driver'.out = << >> <=> driver'.pc \in {"idle", "seen"}
        /\ driver'.sequence # NotYet <=> driver'.pc = "publish"
    BY <1>4, <1>6
  <2>3. \A u \in strays : u.out # << >>
    BY DEF SendersInv
  <2>4. \A v \in wire' : SaidBy(v.event, store, evidence)
    BY <1>10, <1>14 DEF SendersInv
  <2>5. OneToOne(Numbered(Senders', wire')) /\ GivenOut(Numbered(Senders', wire'), counter)
    BY <1>9, <1>10 DEF SendersInv, OneToOne, GivenOut
  <2>6. Apart(Senders') /\ Unheard(Senders', wire')
    BY <1>9, <1>10
  <2> QED
    BY <1>1, <1>15, <2>1, <2>2, <2>3, <2>4, <2>5, <2>6 DEF SendersInv
<1>17. CopiesInv'
  BY <1>1 DEF CopiesInv, Held, clientVars
<1>18. RunsInv'
  BY <1>1 DEF RunsInv, clientVars
<1> QED
  BY <1>11, <1>12, <1>13, <1>16, <1>17, <1>18

LEMMA OnRoundKeeps == LiveInv /\ OnRound => LiveInv'
<1> SUFFICES ASSUME LiveInv, OnRound
             PROVE  LiveInv'
  OBVIOUS
<1> USE DEF LiveInv
<1>1. /\ driver.pc \in {"seen", "idle"} /\ driver.round # None
      /\ views' = [views EXCEPT ![driver.at] = driver.round]
      /\ driver' = [driver EXCEPT !.pc = "idle"]
      /\ UNCHANGED <<store, evidence, strays, counter, polls, wire, inbox, clientVars>>
  BY DEF OnRound
<1>2. /\ driver'.at = driver.at /\ driver'.round = driver.round /\ driver'.out = driver.out
      /\ driver'.sequence = driver.sequence /\ driver'.pc = "idle"
  BY <1>1 DEF ServerShape
<1>3. driver.out = << >> /\ driver.sequence = NotYet
  BY <1>1 DEF SendersInv
<1>4. ServerShape'
  BY <1>1 DEF ServerShape
<1>5. PageShape'
  BY <1>1 DEF PageShape, clientVars
<1>6. StoreInv'
  BY <1>1, <1>2 DEF StoreInv
<1>7. DriverSends' = DriverSends
  BY <1>2 DEF DriverSends
<1>8. Senders' = Senders
  BY <1>1, <1>7 DEF Senders
<1>9. SendersInv'
  BY <1>1, <1>2, <1>3, <1>7, <1>8 DEF SendersInv
<1>10. Held(store)
  <2>1. store # None /\ store.round \in Rounds /\ store.phase \in Phases
    BY <1>1 DEF StoreInv, ServerShape, Snapshot
  <2> QED
    BY <2>1, NoFurtherThanItself DEF Held
<1>11. CopiesInv'
  <2>1. ASSUME NEW i \in Instances, views'[i] # None
        PROVE  Held(views'[i])
    <3>1. views'[i] = views[i] \/ views'[i] = store
      BY <1>1 DEF ServerShape, StoreInv
    <3> QED
      BY <1>10, <2>1, <3>1 DEF CopiesInv
  <2> QED
    BY <1>1, <2>1 DEF CopiesInv, Held, clientVars
<1>12. RunsInv'
  BY <1>1 DEF RunsInv, clientVars
<1> QED
  BY <1>4, <1>5, <1>6, <1>9, <1>11, <1>12

LEMMA TakeoverKeeps == \A i \in Instances : LiveInv /\ Takeover(i) => LiveInv'
<1> SUFFICES ASSUME NEW i \in Instances, LiveInv, Takeover(i)
             PROVE  LiveInv'
  OBVIOUS
<1> USE DEF LiveInv
<1> DEFINE t == [out |-> << >>, sequence |-> NotYet, by |-> i]
<1>1. /\ strays' \subseteq strays \cup (IF driver.out # << >> THEN {DriverSends} ELSE {})
      /\ strays \subseteq strays'
      /\ driver' = [at |-> i, pc |-> "idle", round |-> store, out |-> << >>, sequence |-> NotYet]
      /\ UNCHANGED <<store, evidence, counter, views, polls, wire, inbox, clientVars>>
  BY DEF Takeover, DriverSends
<1>2. /\ driver'.at = i /\ driver'.round = store /\ driver'.out = << >>
      /\ driver'.sequence = NotYet /\ driver'.pc = "idle"
  BY <1>1
<1>3. DriverSends' = t
  BY <1>2 DEF DriverSends
<1>4. Senders \in SUBSET Sender /\ DriverSends \in Senders /\ strays \subseteq Senders
  BY NumbersHaveEvents
<1>5. strays' \subseteq Senders /\ Senders' \in SUBSET (Senders \cup {t})
  BY <1>1, <1>3, <1>4 DEF Senders
<1>6. << >> \in Seq(Event) /\ Len(<< >>) = 0
  OBVIOUS
<1>7. t \in Sender /\ t.out = << >> /\ t.sequence = NotYet
  BY <1>6 DEF Sender
<1>8. ServerShape'
  <2>1. driver' \in [at : Instances, pc : {"idle", "incr", "publish", "seen"},
                     round : Snapshot \cup {None}, out : Seq(Event),
                     sequence : Nat \cup {NotYet}]
    BY <1>1, <1>6 DEF ServerShape
  <2> QED
    BY <1>1, <1>4, <1>5, <2>1 DEF ServerShape
<1>9. \A u \in strays' : u.out # << >>
  BY <1>1 DEF SendersInv, DriverSends
<1>10. SendersInv'
  <2> HIDE DEF t
  <2>1. wire \in SUBSET Envelope /\ Apart(Senders) /\ Unheard(Senders, wire)
    BY DEF SendersInv, ServerShape
  <2>2. Apart(Senders') /\ Unheard(Senders', wire) /\ Numbered(Senders', wire) \subseteq Numbered(Senders, wire)
    BY ONLY <1>4, <1>5, <1>7, <2>1, FewerKeep
  <2>3. OneToOne(Numbered(Senders', wire)) /\ GivenOut(Numbered(Senders', wire), counter)
    BY <2>2 DEF SendersInv, OneToOne, GivenOut
  <2>4. \A u \in Senders' : \A n \in 1..Len(u.out) : SaidBy(u.out[n], store, evidence)
    <3>1. \A n \in 1..Len(t.out) : FALSE
      BY <1>6, <1>7
    <3> QED
      BY <1>5, <3>1 DEF SendersInv
  <2>5. DriverSends' \notin strays'
    BY <1>3, <1>7, <1>9
  <2>6. \A v \in wire : SaidBy(v.event, store, evidence)
    BY DEF SendersInv
  <2> QED
    BY <1>1, <1>2, <1>9, <2>2, <2>3, <2>4, <2>5, <2>6 DEF SendersInv
<1>11. StoreInv'
  BY <1>1, <1>2 DEF StoreInv
<1> QED
  BY <1>1, <1>8, <1>10, <1>11, PagesStand

LEMMA StrayIncrKeeps == \A s \in strays : LiveInv /\ StrayIncr(s) => LiveInv'
<1> SUFFICES ASSUME NEW s \in strays, LiveInv, StrayIncr(s)
             PROVE  LiveInv'
  OBVIOUS
<1> USE DEF LiveInv
<1> DEFINE number == counter[ChannelOf(s.out[1])]
           t == After(s, number)
<1>1. Senders \in SUBSET Sender /\ DriverSends \in Senders /\ strays \subseteq Senders
  BY NumbersHaveEvents
<1>2. /\ s.sequence = NotYet /\ s.out # << >> /\ s \in Sender /\ s.out \in Seq(Event)
      /\ UNCHANGED <<store, evidence, driver, views, polls, wire, inbox, clientVars>>
  BY <1>1 DEF StrayIncr, SendersInv, Sender
<1>3. Head(s.out) = s.out[1] /\ s.out[1] \in Event /\ 1 \in 1..Len(s.out)
  BY <1>2, FirstAndRest
<1>4. number \in Nat /\ ChannelOf(s.out[1]) \in LiveChannels
  BY <1>3, ChannelTyped DEF ServerShape
<1>5. t = [s EXCEPT !.sequence = number]
  BY <1>2 DEF After, Sender
<1>6. /\ strays' = (strays \ {s}) \cup {t}
      /\ counter' = [counter EXCEPT ![ChannelOf(s.out[1])] = @ + 1]
  BY <1>3, <1>5 DEF StrayIncr, SequenceOf
<1>7. t \in Sender /\ t.out = s.out
  BY <1>2, <1>4 DEF After, Sender
<1>8. s # DriverSends /\ DriverSends' = DriverSends
  BY <1>2 DEF SendersInv, DriverSends
<1>9. Senders' = (Senders \ {s}) \cup {t}
  BY <1>6, <1>8 DEF Senders
<1>10. /\ counter' \in [LiveChannels -> Nat]
       /\ counter'[ChannelOf(s.out[1])] = counter[ChannelOf(s.out[1])] + 1
       /\ \A x \in LiveChannels : counter'[x] >= counter[x]
  BY <1>4, <1>6 DEF ServerShape
<1>11. /\ Senders' \subseteq Sender /\ Apart(Senders') /\ Unheard(Senders', wire)
       /\ OneToOne(Numbered(Senders', wire)) /\ GivenOut(Numbered(Senders', wire), counter')
  <2>1. Senders' = WithNumber(Senders, s, counter[ChannelOf(s.out[1])])
    BY <1>9 DEF WithNumber
  <2>2. wire \in SUBSET Envelope /\ counter \in [LiveChannels -> Nat]
    BY DEF ServerShape
  <2>3. /\ Apart(Senders) /\ Unheard(Senders, wire)
        /\ OneToOne(Numbered(Senders, wire)) /\ GivenOut(Numbered(Senders, wire), counter)
    BY DEF SendersInv
  <2>4. s \in Senders
    BY <1>1
  <2>5. \A u \in Senders : u.sequence # NotYet => u.out # << >>
    BY NumbersHaveEvents
  <2>6. s.out # << >> /\ s.sequence = NotYet
    BY <1>2
  <2> QED
    BY ONLY SMTT(30), <1>1, <1>10, <2>1, <2>2, <2>3, <2>4, <2>5, <2>6, IncrKeeps
<1>12. ServerShape'
  BY <1>2, <1>6, <1>7, <1>10 DEF ServerShape
<1>13. StoreInv'
  BY <1>2 DEF StoreInv
<1>14. DriverSends # t
  <2>1. DriverSends.out # s.out
    BY <1>1, <1>3, <1>8 DEF SendersInv, Apart
  <2> QED
    BY <1>7, <2>1
<1>15. SendersInv'
  <2>1. \A u \in Senders' : \A n \in 1..Len(u.out) : SaidBy(u.out[n], store, evidence)
    BY <1>1, <1>7, <1>9 DEF SendersInv
  <2>2. \A u \in strays' : u.out # << >>
    BY <1>2, <1>6, <1>7 DEF SendersInv
  <2>3. DriverSends' \notin strays'
    BY <1>6, <1>8, <1>14 DEF SendersInv
  <2>4. /\ driver.out = << >> <=> driver.pc \in {"idle", "seen"}
        /\ driver.sequence # NotYet <=> driver.pc = "publish"
        /\ \A v \in wire : SaidBy(v.event, store, evidence)
    BY DEF SendersInv
  <2> QED
    BY <1>2, <1>11, <2>1, <2>2, <2>3, <2>4 DEF SendersInv
<1> QED
  BY <1>2, <1>12, <1>13, <1>15, PagesStand

LEMMA StrayPublishKeeps == \A s \in strays : LiveInv /\ StrayPublish(s) => LiveInv'
<1> SUFFICES ASSUME NEW s \in strays, LiveInv, StrayPublish(s)
             PROVE  LiveInv'
  OBVIOUS
<1> USE DEF LiveInv
<1>1. Senders \in SUBSET Sender /\ DriverSends \in Senders /\ strays \subseteq Senders
  BY NumbersHaveEvents
<1>2. /\ s.sequence # NotYet /\ s.out # << >> /\ s \in Sender /\ s.out \in Seq(Event)
      /\ UNCHANGED <<store, evidence, driver, counter, views, polls, clientVars>>
      /\ Deliver(Published(s))
  BY <1>1 DEF StrayPublish, SendersInv, Sender, Published
<1>3. Rest(s) = [s EXCEPT !.out = Tail(@), !.sequence = NotYet]
  <2> DEFINE rest == Tail(s.out)
             next == [s EXCEPT !.out = rest, !.sequence = NotYet]
  <2>1. Tail(s.out) \in Seq(Event)
    BY <1>2, FirstAndRest
  <2>2. next \in Sender
    BY <1>2, <2>1 DEF Sender
  <2>3. next.out = rest /\ next.sequence = NotYet /\ next.by = s.by
    BY <1>2 DEF Sender
  <2> HIDE DEF next
  <2>4. \A a \in Sender : a = [out |-> a.out, sequence |-> a.sequence, by |-> a.by]
    BY DEF Sender
  <2>5. next = [out |-> rest, sequence |-> NotYet, by |-> s.by]
    BY <2>2, <2>3, <2>4
  <2> QED
    BY <2>5 DEF next, Rest
<1>4. strays' = (strays \ {s}) \cup (IF Len(s.out) > 1 THEN {Rest(s)} ELSE {})
  BY <1>3 DEF StrayPublish
<1>5. s # DriverSends /\ DriverSends' = DriverSends
  BY <1>2 DEF SendersInv, DriverSends
<1>6. Senders' \in SUBSET ((Senders \ {s}) \cup {Rest(s)})
  BY <1>4, <1>5 DEF Senders
<1>7. /\ Senders' \subseteq Sender /\ Published(s) \in Envelope
      /\ wire \cup {Published(s)} \subseteq Envelope
      /\ Apart(Senders') /\ Unheard(Senders', wire \cup {Published(s)})
      /\ Numbered(Senders', wire \cup {Published(s)}) \subseteq Numbered(Senders, wire)
  <2>1. /\ wire \in SUBSET Envelope /\ s \in Senders /\ s.out # << >> /\ s.sequence # NotYet
    BY <1>1, <1>2 DEF ServerShape
  <2>2. Apart(Senders) /\ Unheard(Senders, wire)
    BY DEF SendersInv
  <2> QED
    BY ONLY <1>1, <1>6, <2>1, <2>2, PublishKeeps
<1>8. inbox' \in [Clients -> Seq(wire')] /\ wire' = wire \cup {Published(s)}
  BY <1>2, <1>7, DeliverKeeps
<1>9. strays' \subseteq Sender
  BY <1>7 DEF Senders
<1>10. ServerShape'
  BY <1>2, <1>7, <1>8, <1>9 DEF ServerShape
<1>11. PageShape'
  BY <1>2, <1>8 DEF PageShape, clientVars
<1>12. StoreInv'
  BY <1>2 DEF StoreInv
<1>13. /\ \A n \in 1..Len(Rest(s).out) : SaidBy(Rest(s).out[n], store, evidence)
       /\ SaidBy(Published(s).event, store, evidence)
  <2>1. \A n \in 1..Len(s.out) : SaidBy(s.out[n], store, evidence)
    BY <1>1 DEF SendersInv
  <2> QED
    BY <1>2, <2>1, RestIsSaid
<1>14. Len(s.out) > 1 => Rest(s).out # << >> /\ Rest(s) # DriverSends
  <2> SUFFICES ASSUME Len(s.out) > 1
               PROVE  Rest(s).out # << >> /\ Rest(s) # DriverSends
    OBVIOUS
  <2>1. Rest(s).out = Tail(s.out) /\ Tail(s.out) # << >> /\ Tail(s.out) \in Seq(Event)
    BY <1>2, FirstAndRest DEF Rest
  <2>2. 1 \in 1..Len(Tail(s.out))
    BY <2>1, FirstAndRest
  <2>3. Tail(s.out)[1] = s.out[2] /\ 2 \in 1..Len(s.out)
    BY <1>2, <2>2, FirstAndRest
  <2>4. Rest(s) # DriverSends
    <3> SUFFICES ASSUME Rest(s) = DriverSends
                 PROVE  FALSE
      OBVIOUS
    <3>1. DriverSends.out[1] = s.out[2] /\ 1 \in 1..Len(DriverSends.out)
      BY <2>1, <2>2, <2>3
    <3> QED
      BY <1>1, <1>5, <2>3, <3>1 DEF SendersInv, Apart
  <2> QED
    BY <2>1, <2>4
<1>15. SendersInv'
  <2>1. \A u \in Senders' : \A n \in 1..Len(u.out) : SaidBy(u.out[n], store, evidence)
    BY <1>1, <1>6, <1>13 DEF SendersInv
  <2>2. \A u \in strays' : u.out # << >>
    BY <1>4, <1>14 DEF SendersInv
  <2>3. DriverSends' \notin strays'
    BY <1>4, <1>5, <1>14 DEF SendersInv
  <2>4. \A v \in wire' : SaidBy(v.event, store, evidence)
    BY <1>8, <1>13 DEF SendersInv
  <2>5. OneToOne(Numbered(Senders', wire')) /\ GivenOut(Numbered(Senders', wire'), counter)
    BY <1>7, <1>8 DEF SendersInv, OneToOne, GivenOut
  <2>6. Apart(Senders') /\ Unheard(Senders', wire')
    BY <1>7, <1>8
  <2>7. /\ driver.out = << >> <=> driver.pc \in {"idle", "seen"}
        /\ driver.sequence # NotYet <=> driver.pc = "publish"
    BY DEF SendersInv
  <2> QED
    BY <1>2, <2>1, <2>2, <2>3, <2>4, <2>5, <2>6, <2>7 DEF SendersInv
<1>16. CopiesInv'
  BY <1>2 DEF CopiesInv, Held, clientVars
<1>17. RunsInv'
  BY <1>2 DEF RunsInv, clientVars
<1> QED
  BY <1>10, <1>11, <1>12, <1>15, <1>16, <1>17

\* A follower's read is what the store holds, and only grows old.
LEMMA PollKeeps ==
  \A i \in Instances : LiveInv /\ (PollRead(i) \/ PollApply(i)) => LiveInv'
<1> SUFFICES ASSUME NEW i \in Instances, LiveInv, PollRead(i) \/ PollApply(i)
             PROVE  LiveInv'
  OBVIOUS
<1> USE DEF LiveInv
<1>1. UNCHANGED <<store, evidence, driver, strays, counter, wire, inbox, clientVars>>
  BY DEF PollRead, PollApply
<1>2. PageShape' /\ StoreInv' /\ RunsInv'
  BY <1>1 DEF PageShape, StoreInv, RunsInv, clientVars
<1>3. SendersInv'
  BY <1>1, OtherPublishers
<1>4. CASE PollRead(i)
  <2>1. store # None /\ polls' = [polls EXCEPT ![i] = store] /\ UNCHANGED views
    BY <1>4 DEF PollRead
  <2>2. store.round \in Rounds /\ store.phase \in Phases
    BY <2>1 DEF ServerShape, Snapshot
  <2>3. Held(store)
    BY <2>1, <2>2, NoFurtherThanItself DEF Held
  <2>4. ServerShape'
    BY <1>1, <2>1 DEF ServerShape
  <2>5. \A j \in Instances : polls'[j] = polls[j] \/ polls'[j] = store
    BY <2>1 DEF ServerShape
  <2>6. CopiesInv'
    BY <1>1, <2>1, <2>3, <2>5 DEF CopiesInv, Held, clientVars
  <2> QED
    BY <1>2, <1>3, <2>4, <2>6
<1>5. CASE PollApply(i)
  <2>1. /\ polls[i] # None
        /\ views' = [views EXCEPT ![i] = polls[i]] /\ polls' = [polls EXCEPT ![i] = None]
    BY <1>5 DEF PollApply
  <2>2. ServerShape'
    BY <1>1, <2>1 DEF ServerShape
  <2>3. \A j \in Instances :
          (views'[j] = views[j] \/ views'[j] = polls[i]) /\ (polls'[j] = polls[j] \/ polls'[j] = None)
    BY <2>1 DEF ServerShape
  <2>4. CopiesInv'
    BY <1>1, <2>1, <2>3 DEF CopiesInv, Held, clientVars
  <2> QED
    BY <1>2, <1>3, <2>2, <2>4
<1> QED
  BY <1>4, <1>5

-----------------------------------------------------------------------------
(***************************************************************************)
(* A page's steps keep the invariant.                                      *)
(***************************************************************************)
LEMMA ServerStands ==
  ASSUME ServerShape, StoreInv, SendersInv, UNCHANGED serverVars
  PROVE  ServerShape' /\ StoreInv' /\ SendersInv'
<1>1. ServerShape' /\ StoreInv'
  BY DEF ServerShape, StoreInv, serverVars
<1>2. SendersInv'
  BY OtherPublishers DEF serverVars
<1> QED
  BY <1>1, <1>2

\* A request in flight is no snapshot yet.
LEMMA AskedIsNoSnapshot == Asked \notin Snapshot /\ None \notin Snapshot
<1>1. Asked.phase \notin Phases
  BY DEF Asked, Phases
<1> QED
  BY <1>1, LiveAssumption DEF Snapshot

LEMMA ResyncKeeps ==
  ASSUME PageShape, NEW c \in Clients, Resync(c)
  PROVE  /\ fetches' \in [Clients -> [1..MaxFetches -> Snapshot \cup {None, Asked}]]
         /\ \A d \in Clients, k \in 1..MaxFetches :
              fetches'[d][k] \in Snapshot => fetches'[d][k] = fetches[d][k]
<1>1. PICK k \in 1..MaxFetches : fetches' = [fetches EXCEPT ![c][k] = Asked]
  BY DEF Resync
<1>2. fetches' \in [Clients -> [1..MaxFetches -> Snapshot \cup {None, Asked}]]
  BY <1>1 DEF PageShape
<1>3. ASSUME NEW d \in Clients, NEW j \in 1..MaxFetches
      PROVE  fetches'[d][j] = fetches[d][j] \/ fetches'[d][j] = Asked
  BY <1>1 DEF PageShape
<1> QED
  BY <1>2, <1>3, AskedIsNoSnapshot

\* A page that connects starts over.
LEMMA OpenKeeps == \A c \in Clients : LiveInv /\ Open(c) => LiveInv'
<1> SUFFICES ASSUME NEW c \in Clients, LiveInv, Open(c)
             PROVE  LiveInv'
  OBVIOUS
<1> USE DEF LiveInv
<1>1. /\ receiver' = [receiver EXCEPT ![c] = EmptyReceiver]
      /\ applied' = [applied EXCEPT ![c] = NothingApplied]
      /\ Resync(c)
      /\ UNCHANGED <<serverVars, inbox, shown>>
  BY DEF Open
<1>2. ServerShape' /\ StoreInv' /\ SendersInv'
  BY <1>1, ServerStands
<1>3. UNCHANGED <<store, evidence, views, polls, wire>>
  BY <1>1 DEF serverVars
<1>4. /\ fetches' \in [Clients -> [1..MaxFetches -> Snapshot \cup {None, Asked}]]
      /\ \A d \in Clients, k \in 1..MaxFetches :
           fetches'[d][k] \in Snapshot => fetches'[d][k] = fetches[d][k]
  BY <1>1, ResyncKeeps
<1>5. EmptyReceiver \in Receiver
  BY DEF EmptyReceiver, Receiver
<1>6. NothingApplied \in [LiveChannels -> SUBSET Nat]
  BY DEF NothingApplied
<1>7. PageShape'
  BY <1>1, <1>3, <1>4, <1>5, <1>6 DEF PageShape
<1>8. CopiesInv'
  BY <1>1, <1>3, <1>4 DEF CopiesInv, Held
<1>9. RunsInv'
  <2>1. ASSUME NEW d \in Clients, d # c
        PROVE  applied'[d] = applied[d] /\ receiver'[d] = receiver[d]
    BY <1>1, <2>1 DEF PageShape
  <2>2. applied'[c] = NothingApplied
    BY <1>1 DEF PageShape
  <2>3. \A ch \in LiveChannels : applied'[c][ch] = {}
    BY <2>2 DEF NothingApplied
  <2> QED
    BY <2>1, <2>3 DEF RunsInv
<1> QED
  BY <1>2, <1>7, <1>8, <1>9

\* Losing the connection, and handling a frame, change nothing it shows.
LEMMA ConnectionKeeps ==
  \A c \in Clients : LiveInv /\ (Drop(c) \/ HandleFrame(c)) => LiveInv'
<1> SUFFICES ASSUME NEW c \in Clients, LiveInv, Drop(c) \/ HandleFrame(c)
             PROVE  LiveInv'
  OBVIOUS
<1> USE DEF LiveInv
<1>1. /\ UNCHANGED <<serverVars, clientVars>>
      /\ inbox' = inbox \/ inbox' = [inbox EXCEPT ![c] = << >>]
  BY DEF Drop, HandleFrame
<1>2. ServerShape' /\ StoreInv' /\ SendersInv'
  BY <1>1, ServerStands
<1>3. UNCHANGED <<store, evidence, views, polls, wire>>
  BY <1>1 DEF serverVars
<1>4. << >> \in Seq(wire)
  OBVIOUS
<1>5. PageShape'
  BY <1>1, <1>3, <1>4 DEF PageShape, clientVars
<1>6. CopiesInv' /\ RunsInv'
  BY <1>1, <1>3 DEF CopiesInv, Held, RunsInv, clientVars
<1> QED
  BY <1>2, <1>5, <1>6

\* A snapshot is one of an instance's copies, and what the page then shows.
LEMMA FetchKeeps ==
  \A c \in Clients, k \in 1..MaxFetches :
    LiveInv /\ (CurrentRound(c, k) \/ FetchFails(c, k) \/ Resynced(c, k)) => LiveInv'
<1> SUFFICES ASSUME NEW c \in Clients, NEW k \in 1..MaxFetches, LiveInv,
                    CurrentRound(c, k) \/ FetchFails(c, k) \/ Resynced(c, k)
             PROVE  LiveInv'
  OBVIOUS
<1> USE DEF LiveInv
<1>1. UNCHANGED <<serverVars, inbox, receiver, applied>>
  BY DEF CurrentRound, FetchFails, Resynced
<1>2. ServerShape' /\ StoreInv' /\ SendersInv'
  BY <1>1, ServerStands
<1>3. UNCHANGED <<store, evidence, views, polls, wire>>
  BY <1>1 DEF serverVars
<1>4. RunsInv'
  BY <1>1 DEF RunsInv
<1>5. CASE CurrentRound(c, k)
  <2>1. PICK i \in Instances : fetches' = [fetches EXCEPT ![c][k] = views[i]]
    BY <1>5 DEF CurrentRound
  <2>2. UNCHANGED shown
    BY <1>5 DEF CurrentRound
  <2>3. views[i] \in Snapshot \cup {None} /\ (views[i] # None => Held(views[i]))
    BY DEF ServerShape, CopiesInv
  <2>4. PageShape'
    BY <1>1, <1>3, <2>1, <2>2, <2>3 DEF PageShape
  <2>5. \A d \in Clients, j \in 1..MaxFetches :
          fetches'[d][j] = fetches[d][j] \/ fetches'[d][j] = views[i]
    BY <2>1 DEF PageShape
  <2>6. \A d \in Clients, j \in 1..MaxFetches :
          fetches'[d][j] \in Snapshot => Held(fetches'[d][j])
    BY <2>3, <2>5, AskedIsNoSnapshot DEF CopiesInv
  <2>7. CopiesInv'
    BY <1>3, <2>2, <2>6 DEF CopiesInv, Held
  <2> QED
    BY <1>2, <1>4, <2>4, <2>7
<1>6. CASE FetchFails(c, k)
  <2>1. fetches' = [fetches EXCEPT ![c][k] = None] /\ UNCHANGED shown
    BY <1>6 DEF FetchFails
  <2>2. PageShape'
    BY <1>1, <1>3, <2>1 DEF PageShape
  <2>3. \A d \in Clients, j \in 1..MaxFetches :
          fetches'[d][j] = fetches[d][j] \/ fetches'[d][j] = None
    BY <2>1 DEF PageShape
  <2>4. \A d \in Clients, j \in 1..MaxFetches :
          fetches'[d][j] \in Snapshot => Held(fetches'[d][j])
    BY <2>3, AskedIsNoSnapshot DEF CopiesInv
  <2>5. CopiesInv'
    BY <1>3, <2>1, <2>4 DEF CopiesInv, Held
  <2> QED
    BY <1>2, <1>4, <2>2, <2>5
<1>7. CASE Resynced(c, k)
  <2> DEFINE now == [round |-> fetches[c][k].round, phase |-> fetches[c][k].phase,
                     front |-> [b \in Battles |-> 0]]
  <2>1. /\ fetches[c][k] \in Snapshot
        /\ shown' = [shown EXCEPT ![c] = now]
        /\ fetches' = [fetches EXCEPT ![c][k] = None]
    <3>1. fetches[c][k] \in Snapshot \cup {None, Asked}
      BY ZenonT(60) DEF PageShape
    <3>2. /\ fetches[c][k] \notin {None, Asked} /\ shown' = [shown EXCEPT ![c] = now]
          /\ fetches' = [fetches EXCEPT ![c][k] = None]
      BY <1>7 DEF Resynced
    <3> QED
      BY <3>1, <3>2
  <2>2. Held(fetches[c][k])
    BY <2>1 DEF CopiesInv
  <2>3. /\ now \in [round : Rounds, phase : Phases, front : [Battles -> Nat]]
        /\ now.round = fetches[c][k].round /\ now.phase = fetches[c][k].phase
        /\ now.front = [b \in Battles |-> 0]
    BY <2>1 DEF Snapshot
  <2>4. Held(now)
    BY <2>2, <2>3 DEF Held, NoFurther
  <2>5. \A b \in Battles : now.front[b] <= evidence[now.round]
    BY <2>1, <2>3 DEF ServerShape, Snapshot
  <2> HIDE DEF now
  <2>6. PageShape'
    BY <1>1, <1>3, <2>1, <2>3 DEF PageShape
  <2>7. \A d \in Clients, j \in 1..MaxFetches :
          fetches'[d][j] = fetches[d][j] \/ fetches'[d][j] = None
    BY <2>1 DEF PageShape
  <2>8. \A d \in Clients, j \in 1..MaxFetches :
          fetches'[d][j] \in Snapshot => Held(fetches'[d][j])
    BY <2>7, AskedIsNoSnapshot DEF CopiesInv
  <2>9. \A d \in Clients : shown'[d] = shown[d] \/ shown'[d] = now
    BY <2>1 DEF PageShape
  <2>10. \A d \in Clients : shown'[d] # None =>
           Held(shown'[d]) /\ \A b \in Battles : shown'[d].front[b] <= evidence[shown'[d].round]
    BY <2>4, <2>5, <2>9 DEF CopiesInv
  <2>11. CopiesInv'
    BY <1>3, <2>8, <2>10 DEF CopiesInv, Held
  <2> QED
    BY <1>2, <1>4, <2>6, <2>11
<1> QED
  BY <1>5, <1>6, <1>7

\* What receive lets through continues the run, or starts one.
LEMMA RunGoesOn ==
  ASSUME NEW got \in SUBSET Nat, NEW last \in Nat \cup {NotYet}, NEW sequence \in Nat,
         \A n \in got, m \in 0..last : m >= n => m \in got,
         \A n \in got : n <= last,
         ~(sequence <= last), ~(last # NotYet /\ sequence > last + 1)
  PROVE  /\ \A n \in got \cup {sequence}, m \in 0..sequence : m >= n => m \in got \cup {sequence}
         /\ \A n \in got \cup {sequence} : n <= sequence
<1>1. CASE last = NotYet
  <2>1. got = {}
    BY <1>1 DEF NotYet
  <2> QED
    BY <2>1
<1>2. CASE last # NotYet
  <2>1. last \in Nat /\ sequence = last + 1
    BY <1>2
  <2>2. \A m \in 0..sequence : m \in 0..last \/ m = sequence
    BY <2>1
  <2>3. \A n \in got : n \in Nat /\ n <= sequence
    BY <2>1
  <2>4. ASSUME NEW n \in got \cup {sequence}, NEW m \in 0..sequence, m >= n
        PROVE  m \in got \cup {sequence}
    <3>1. CASE n \in got
      BY <2>2, <2>4, <3>1
    <3>2. CASE n = sequence
      BY <2>4, <3>2
    <3> QED
      BY <3>1, <3>2
  <2> QED
    BY <2>3, <2>4
<1> QED
  BY <1>1, <1>2

\* A tick moves a frontline no further than the evidence the store holds.
LEMMA ApplyEventKeeps ==
  ASSUME LiveInv, NEW c \in Clients, NEW e \in Event, SaidBy(e, store, evidence),
         ApplyEvent(c, e)
  PROVE  /\ shown' \in [Clients -> [round : Rounds, phase : Phases, front : [Battles -> Nat]]
                                   \cup {None}]
         /\ fetches' \in [Clients -> [1..MaxFetches -> Snapshot \cup {None, Asked}]]
         /\ \A d \in Clients, k \in 1..MaxFetches :
              fetches'[d][k] \in Snapshot => fetches'[d][k] = fetches[d][k]
         /\ \A d \in Clients : shown'[d] # None =>
              Held(shown'[d]) /\ \A b \in Battles : shown'[d].front[b] <= evidence[shown'[d].round]
<1> USE DEF LiveInv
<1> DEFINE View == [round : Rounds, phase : Phases, front : [Battles -> Nat]]
<1>1. /\ shown \in [Clients -> View \cup {None}]
      /\ fetches \in [Clients -> [1..MaxFetches -> Snapshot \cup {None, Asked}]]
  BY DEF PageShape
<1>2. \A d \in Clients : shown[d] # None =>
        Held(shown[d]) /\ \A b \in Battles : shown[d].front[b] <= evidence[shown[d].round]
  BY DEF CopiesInv
<1>3. CASE UNCHANGED shown
  <2>1. CASE e.kind = "BATTLE_STATE_UPDATE"
    BY <1>1, <1>2, <1>3, <2>1 DEF ApplyEvent
  <2>2. CASE e.kind # "BATTLE_STATE_UPDATE"
    <3>1. Resync(c)
      BY <2>2 DEF ApplyEvent
    <3>2. /\ fetches' \in [Clients -> [1..MaxFetches -> Snapshot \cup {None, Asked}]]
          /\ \A d \in Clients, k \in 1..MaxFetches :
               fetches'[d][k] \in Snapshot => fetches'[d][k] = fetches[d][k]
      BY <3>1, ResyncKeeps
    <3> QED
      BY <1>1, <1>2, <1>3, <3>2
  <2> QED
    BY <2>1, <2>2
<1>4. CASE shown' # shown
  <2>1. /\ e.kind = "BATTLE_STATE_UPDATE" /\ shown[c] # None /\ shown[c].round = e.round
        /\ shown' = [shown EXCEPT ![c].front[e.battle] = e.tick]
        /\ UNCHANGED fetches
    BY <1>4 DEF ApplyEvent
  <2>2. e.battle \in Battles /\ e.tick \in Nat /\ e.tick <= evidence[e.round]
    <3>1. e.tick \in 1..MaxTicks /\ e.battle \in Battles
      BY <2>1 DEF Event
    <3> QED
      BY <2>1, <3>1 DEF SaidBy
  <2>3. shown[c] \in View
    BY <1>1, <2>1
  <2> DEFINE now == [shown[c] EXCEPT !.front[e.battle] = e.tick]
  <2>4. shown' = [shown EXCEPT ![c] = now]
    BY <2>1
  <2>5. /\ now \in View /\ now.round = shown[c].round /\ now.phase = shown[c].phase
        /\ now.front = [shown[c].front EXCEPT ![e.battle] = e.tick]
    BY <2>2, <2>3
  <2>6. \A b \in Battles : now.front[b] <= evidence[now.round]
    <3>1. shown[c].front \in [Battles -> Nat]
      BY <2>3
    <3>2. \A b \in Battles : now.front[b] = e.tick \/ now.front[b] = shown[c].front[b]
      BY <2>2, <2>5, <3>1
    <3>3. \A b \in Battles : shown[c].front[b] <= evidence[shown[c].round]
      BY <1>2, <2>1
    <3> QED
      BY <2>1, <2>2, <2>5, <3>2, <3>3
  <2>7. Held(now)
    <3>1. Held(shown[c])
      BY <1>2, <2>1
    <3> QED
      BY <2>5, <3>1 DEF Held, NoFurther
  <2> HIDE DEF now
  <2>8. shown' \in [Clients -> View \cup {None}]
    BY <1>1, <2>4, <2>5
  <2>9. \A d \in Clients : shown'[d] = shown[d] \/ shown'[d] = now
    BY <1>1, <2>4
  <2>10. \A d \in Clients : shown'[d] # None =>
           Held(shown'[d]) /\ \A b \in Battles : shown'[d].front[b] <= evidence[shown'[d].round]
    BY <1>2, <2>6, <2>7, <2>9
  <2> QED
    BY <1>1, <2>1, <2>8, <2>10
<1> QED
  BY <1>3, <1>4

LEMMA HandleEventKeeps == \A c \in Clients : LiveInv /\ HandleEvent(c) => LiveInv'
<1> SUFFICES ASSUME NEW c \in Clients, LiveInv, HandleEvent(c)
             PROVE  LiveInv'
  OBVIOUS
<1> USE DEF LiveInv
<1>1. PICK envelope : envelope = Head(inbox[c])
  OBVIOUS
<1>2. PICK ch : ch = ChannelOf(envelope.event)
  OBVIOUS
<1>3. PICK outcome : outcome = ReceiveOutcome(receiver[c], ch, envelope.sequence)
  OBVIOUS
<1>4. inbox[c] # << >> /\ inbox[c] \in Seq(wire)
  BY DEF HandleEvent, PageShape
<1>5. envelope \in wire /\ Tail(inbox[c]) \in Seq(wire)
  BY <1>1, <1>4
<1>6. /\ envelope.event \in Event /\ envelope.sequence \in Nat
      /\ SaidBy(envelope.event, store, evidence)
  BY <1>5 DEF ServerShape, Envelope, SendersInv
<1>7. ch \in LiveChannels
  BY <1>2, <1>6, ChannelTyped
<1>8. /\ receiver' =
           CASE outcome = "APPLY" -> [receiver EXCEPT ![c].last[ch] = envelope.sequence]
             [] outcome = "GAP" -> [receiver EXCEPT ![c].awaiting = @ \cup {ch}]
             [] OTHER -> receiver
      /\ CASE outcome = "APPLY" -> ApplyEvent(c, envelope.event)
           [] outcome = "GAP" -> Resync(c) /\ UNCHANGED shown
           [] OTHER -> UNCHANGED <<fetches, shown>>
      /\ applied' = IF outcome = "APPLY"
                    THEN [applied EXCEPT ![c][ch] = @ \cup {envelope.sequence}]
                    ELSE applied
      /\ inbox' = [inbox EXCEPT ![c] = Tail(@)]
      /\ UNCHANGED serverVars
  BY <1>1, <1>2, <1>3 DEF HandleEvent
<1>9. ServerShape' /\ StoreInv' /\ SendersInv'
  BY <1>8, ServerStands
<1>10. UNCHANGED <<store, evidence, views, polls, wire>>
  BY <1>8 DEF serverVars
<1>11. inbox' \in [Clients -> Seq(wire)]
  BY <1>5, <1>8 DEF PageShape
<1>12. /\ shown' \in [Clients -> [round : Rounds, phase : Phases, front : [Battles -> Nat]]
                                 \cup {None}]
       /\ fetches' \in [Clients -> [1..MaxFetches -> Snapshot \cup {None, Asked}]]
       /\ \A d \in Clients, k \in 1..MaxFetches :
            fetches'[d][k] \in Snapshot => fetches'[d][k] = fetches[d][k]
       /\ \A d \in Clients : shown'[d] # None =>
            Held(shown'[d]) /\ \A b \in Battles : shown'[d].front[b] <= evidence[shown'[d].round]
  <2>1. CASE outcome = "APPLY"
    <3>1. ApplyEvent(c, envelope.event)
      BY <1>8, <2>1
    <3> QED
      BY <1>6, <3>1, ApplyEventKeeps
  <2>2. CASE outcome = "GAP"
    <3>1. Resync(c) /\ UNCHANGED shown
      BY <1>8, <2>2
    <3>2. /\ fetches' \in [Clients -> [1..MaxFetches -> Snapshot \cup {None, Asked}]]
          /\ \A d \in Clients, k \in 1..MaxFetches :
               fetches'[d][k] \in Snapshot => fetches'[d][k] = fetches[d][k]
      BY <3>1, ResyncKeeps
    <3> QED
      BY <3>1, <3>2 DEF PageShape, CopiesInv
  <2>3. CASE outcome \notin {"APPLY", "GAP"}
    <3>1. UNCHANGED <<fetches, shown>>
      BY <1>8, <2>3
    <3> QED
      BY <3>1 DEF PageShape, CopiesInv
  <2> QED
    BY <2>1, <2>2, <2>3
<1>13. receiver' \in [Clients -> Receiver] /\ applied' \in [Clients -> [LiveChannels -> SUBSET Nat]]
  <2>1. receiver \in [Clients -> Receiver] /\ applied \in [Clients -> [LiveChannels -> SUBSET Nat]]
    BY DEF PageShape
  <2>2. CASE outcome = "APPLY"
    <3>1. /\ receiver' = [receiver EXCEPT ![c].last[ch] = envelope.sequence]
          /\ applied' = [applied EXCEPT ![c][ch] = @ \cup {envelope.sequence}]
      BY <1>8, <2>2
    <3> QED
      BY <1>6, <1>7, <2>1, <3>1 DEF Receiver
  <2>3. CASE outcome = "GAP"
    <3>1. receiver' = [receiver EXCEPT ![c].awaiting = @ \cup {ch}] /\ applied' = applied
      BY <1>8, <2>3
    <3> QED
      BY <1>7, <2>1, <3>1 DEF Receiver
  <2>4. CASE outcome \notin {"APPLY", "GAP"}
    BY <1>8, <2>1, <2>4
  <2> QED
    BY <2>2, <2>3, <2>4
<1>14. PageShape'
  BY <1>10, <1>11, <1>12, <1>13 DEF PageShape
<1>15. CopiesInv'
  BY <1>10, <1>12 DEF CopiesInv, Held
<1>16. RunsInv'
  <2>1. receiver[c] \in Receiver /\ applied[c] \in [LiveChannels -> SUBSET Nat]
    BY DEF PageShape
  <2>2. CASE outcome = "APPLY"
    <3>1. /\ receiver' = [receiver EXCEPT ![c].last[ch] = envelope.sequence]
          /\ applied' = [applied EXCEPT ![c][ch] = @ \cup {envelope.sequence}]
      BY <1>8, <2>2
    <3>2. ~(envelope.sequence <= receiver[c].last[ch])
          /\ ~(receiver[c].last[ch] # NotYet /\ envelope.sequence > receiver[c].last[ch] + 1)
      BY <1>3, <2>2 DEF ReceiveOutcome
    <3>3. /\ applied[c][ch] \in SUBSET Nat /\ receiver[c].last[ch] \in Nat \cup {NotYet}
          /\ \A n \in applied[c][ch], m \in 0..receiver[c].last[ch] : m >= n => m \in applied[c][ch]
          /\ \A n \in applied[c][ch] : n <= receiver[c].last[ch]
      BY <1>7, <2>1 DEF Receiver, RunsInv
    <3>4. /\ applied'[c][ch] = applied[c][ch] \cup {envelope.sequence}
          /\ receiver'[c].last[ch] = envelope.sequence
      BY <1>7, <2>1, <3>1 DEF PageShape, Receiver
    <3>5. /\ \A n \in applied'[c][ch], m \in 0..receiver'[c].last[ch] : m >= n => m \in applied'[c][ch]
          /\ \A n \in applied'[c][ch] : n <= receiver'[c].last[ch]
      <4> DEFINE got == applied[c][ch]
                 n1 == envelope.sequence
                 last == receiver[c].last[ch]
      <4>1. /\ got \in SUBSET Nat /\ last \in Nat \cup {NotYet} /\ n1 \in Nat
            /\ \A n \in got, m \in 0..last : m >= n => m \in got
            /\ \A n \in got : n <= last
            /\ ~(n1 <= last) /\ ~(last # NotYet /\ n1 > last + 1)
        BY <1>6, <3>2, <3>3
      <4> HIDE DEF got, n1, last
      <4>2. /\ \A n \in got \cup {n1}, m \in 0..n1 : m >= n => m \in got \cup {n1}
            /\ \A n \in got \cup {n1} : n <= n1
        BY ONLY <4>1, RunGoesOn
      <4>3. applied'[c][ch] = got \cup {n1} /\ receiver'[c].last[ch] = n1
        BY <3>4 DEF got, n1
      <4> QED
        BY <4>2, <4>3
    <3>6. \A d \in Clients, x \in LiveChannels : d # c \/ x # ch =>
            applied'[d][x] = applied[d][x] /\ receiver'[d].last[x] = receiver[d].last[x]
      BY <1>7, <2>1, <3>1 DEF PageShape, Receiver
    <3> QED
      BY <3>5, <3>6 DEF RunsInv
  <2>3. CASE outcome # "APPLY"
    <3>1. applied' = applied
      BY <1>8, <2>3
    <3>2. \A d \in Clients : receiver'[d].last = receiver[d].last
      <4>1. CASE outcome = "GAP"
        <5>1. receiver' = [receiver EXCEPT ![c].awaiting = @ \cup {ch}]
          BY <1>8, <4>1
        <5> QED
          BY <5>1 DEF PageShape, Receiver
      <4>2. CASE outcome \notin {"APPLY", "GAP"}
        BY <1>8, <4>2
      <4> QED
        BY <2>3, <4>1, <4>2
    <3> QED
      BY <3>1, <3>2 DEF RunsInv
  <2> QED
    BY <2>2, <2>3
<1> QED
  BY <1>9, <1>14, <1>15, <1>16

-----------------------------------------------------------------------------
(***************************************************************************)
(* The theorems.                                                           *)
(***************************************************************************)
LEMMA LiveInitInv == LiveInit => LiveInv
<1> SUFFICES ASSUME LiveInit
             PROVE  LiveInv
  OBVIOUS
<1> USE DEF LiveInit
<1>1. /\ << >> \in Seq(Event) /\ << >> \in Seq(wire) /\ Len(<< >>) = 0
  OBVIOUS
<1>2. driver.at = First /\ driver.pc = "idle" /\ driver.round = None
      /\ driver.out = << >> /\ driver.sequence = NotYet
  OBVIOUS
<1>3. ServerShape
  <2>1. driver \in [at : Instances, pc : {"idle", "incr", "publish", "seen"},
                    round : Snapshot \cup {None}, out : Seq(Event),
                    sequence : Nat \cup {NotYet}]
    BY <1>1, LiveAssumption
  <2> QED
    BY <2>1 DEF ServerShape
<1>4. PageShape
  <2>1. EmptyReceiver \in Receiver
    BY DEF EmptyReceiver, Receiver
  <2>2. NothingApplied \in [LiveChannels -> SUBSET Nat]
    BY DEF NothingApplied
  <2>3. NoFetches \in [1..MaxFetches -> Snapshot \cup {None, Asked}]
    BY DEF NoFetches
  <2> QED
    BY <1>1, <2>1, <2>2, <2>3 DEF PageShape
<1>5. StoreInv
  BY <1>2 DEF StoreInv
<1>6. SendersInv
  <2>1. DriverSends = [out |-> << >>, sequence |-> NotYet, by |-> First]
    BY <1>2 DEF DriverSends
  <2>2. Senders = {DriverSends} /\ DriverSends.out = << >> /\ DriverSends.sequence = NotYet
    BY <2>1 DEF Senders
  <2>3. \A s \in Senders : Len(s.out) = 0 /\ s.sequence = NotYet
    BY <1>1, <2>2
  <2>4. Apart(Senders) /\ Unheard(Senders, wire)
    BY <2>3 DEF Apart, Unheard
  <2>5. Numbered(Senders, wire) = {}
    BY <2>3 DEF Numbered
  <2>6. OneToOne(Numbered(Senders, wire)) /\ GivenOut(Numbered(Senders, wire), counter)
    BY <2>5 DEF OneToOne, GivenOut
  <2> QED
    BY <1>2, <2>3, <2>4, <2>6 DEF SendersInv
<1>7. CopiesInv
  <2>1. \A c \in Clients, k \in 1..MaxFetches : fetches[c][k] = None
    BY DEF NoFetches
  <2> QED
    BY <2>1, AskedIsNoSnapshot DEF CopiesInv
<1>8. RunsInv
  <2>1. \A c \in Clients, ch \in LiveChannels : applied[c][ch] = {}
    BY DEF NothingApplied
  <2> QED
    BY <2>1 DEF RunsInv
<1> QED
  BY <1>3, <1>4, <1>5, <1>6, <1>7, <1>8 DEF LiveInv

LEMMA LiveStepInv == LiveInv /\ [LiveNext]_liveVars => LiveInv'
<1> SUFFICES ASSUME LiveInv, [LiveNext]_liveVars
             PROVE  LiveInv'
  OBVIOUS
<1>1. CASE Server
  <2>1. CASE Drive \/ Incr \/ Publish \/ OnRound
    BY <2>1, DriveKeeps, IncrStepKeeps, PublishStepKeeps, OnRoundKeeps
  <2>2. CASE \E i \in Instances : Takeover(i) \/ PollRead(i) \/ PollApply(i)
    BY <2>2, TakeoverKeeps, PollKeeps
  <2>3. CASE \E s \in strays : StrayIncr(s) \/ StrayPublish(s)
    BY <2>3, StrayIncrKeeps, StrayPublishKeeps
  <2> QED
    BY <1>1, <2>1, <2>2, <2>3 DEF Server
<1>2. ASSUME NEW c \in Clients, Page(c)
      PROVE  LiveInv'
  <2>1. CASE Open(c) \/ Drop(c) \/ HandleFrame(c) \/ HandleEvent(c)
    BY <2>1, OpenKeeps, ConnectionKeeps, HandleEventKeeps
  <2>2. CASE \E k \in 1..MaxFetches : CurrentRound(c, k) \/ FetchFails(c, k) \/ Resynced(c, k)
    BY <2>2, FetchKeeps
  <2> QED
    BY <1>2, <2>1, <2>2 DEF Page
<1>3. CASE UNCHANGED liveVars
  <2>1. UNCHANGED <<serverVars, clientVars, inbox>>
    BY <1>3 DEF liveVars
  <2>2. UNCHANGED <<store, evidence, views, polls, wire>>
    BY <2>1 DEF serverVars
  <2>3. ServerShape' /\ StoreInv' /\ SendersInv'
    BY <2>1, ServerStands DEF LiveInv
  <2>4. PageShape' /\ CopiesInv' /\ RunsInv'
    BY <2>1, <2>2, PagesStand DEF LiveInv
  <2> QED
    BY <2>3, <2>4 DEF LiveInv
<1> QED
  BY <1>1, <1>2, <1>3 DEF LiveNext

\* No page shows, and no instance answers with, a round, a phase or a frontline
\* the store does not hold: the driver saves a step before it publishes or
\* serves it, and every copy on its way is one of those (loop.ts:171,
\* driver.ts:238, main.ts followStore).
THEOREM NothingShownIsUndone == LiveSpec => []ShownIsStored
<1>1. LiveInv => ShownIsStored
  BY DEF LiveInv, CopiesInv, Held, ShownIsStored
<1> QED
  BY <1>1, LiveInitInv, LiveStepInv, PTL DEF LiveSpec

\* What a page applied on a channel is an unbroken run of its events, each
\* once, and a number stands for one event, though publishers crash, stray and
\* overtake each other between INCR and PUBLISH (receiver.ts:104, redis-bus.ts:69).
THEOREM LossesAreNoticed == LiveSpec => []NoSilentLoss
<1>1. ASSUME LiveInv, NEW e \in wire, NEW f \in wire
      PROVE  (ChannelOf(e.event) = ChannelOf(f.event) /\ e.sequence = f.sequence)
               <=> e.event = f.event
  <2> DEFINE a == [event |-> e.event, sequence |-> e.sequence]
             b == [event |-> f.event, sequence |-> f.sequence]
  <2>1. a \in Numbered(Senders, wire) /\ b \in Numbered(Senders, wire)
    BY DEF Numbered
  <2>2. OneToOne(Numbered(Senders, wire))
    BY <1>1 DEF LiveInv, SendersInv
  <2> QED
    BY <2>1, <2>2 DEF OneToOne
<1>2. LiveInv => NoSilentLoss
  BY <1>1 DEF LiveInv, RunsInv, NoSilentLoss
<1> QED
  BY <1>2, LiveInitInv, LiveStepInv, PTL DEF LiveSpec

=============================================================================
