----------------------------- MODULE LiveStream -----------------------------
(***************************************************************************)
(* What a spectator's page shows, from the round driver to the screen.     *)
(* The driver saves, then publishes over Redis (packages/redis/src/        *)
(* redis-bus.ts), which numbers each channel; a socket process hands each  *)
(* event to the connections that follow its channel (hub.ts, gateway.ts);  *)
(* the page applies it or finds a gap (receiver.ts, socket-client.ts) and  *)
(* fetches the current round (useLiveWorld.ts) from whichever API instance *)
(* answers, out of that instance's own copy of the round (main.ts).        *)
(*                                                                         *)
(* Frames, events and fetches are each on their way for a while.  Redis    *)
(* does not replay: a socket process that is not subscribed at the time    *)
(* misses an event.  A driver may crash with an event saved and not yet    *)
(* published, or be paused there while another takes over.                 *)
(***************************************************************************)
EXTENDS Integers, FiniteSets, Sequences

CONSTANTS
  Clients,            \* pages
  Instances,          \* server instances: one drives, all serve the API
  First,              \* the instance that drives at first
  Rounds,             \* round indices, an interval 0..n
  BattlesPerRound,    \* five in the code
  MaxTicks,           \* bound: scored ticks of a round
  MAX_SUBSCRIPTIONS,  \* channels one connection may follow
  MaxFetches,         \* bound: snapshot requests of a page in flight at once
  MaxFaults,          \* bound: missed events, dropped connections, failed
                      \* fetches and lost drivers
  StepsOutliveLease,  \* whether a driver that lost its lease may still publish
  None

Phases == {"PICK_OPEN", "BATTLE_LIVE", "FINALIZED"}
Snapshot == [round : Rounds, phase : Phases]

ASSUME LiveAssumption ==
  /\ First \in Instances
  /\ Rounds \subseteq Nat
  /\ BattlesPerRound \in Nat \ {0}
  /\ {MaxTicks, MaxFetches, MaxFaults} \subseteq Nat
  /\ StepsOutliveLease \in BOOLEAN
  /\ None \notin Snapshot

Battles == 1..BattlesPerRound
World == <<"world", 0, 0>>
RoundChannel(r) == <<"round", r, 0>>
BattleChannel(r, b) == <<"battle", r, b>>
LiveChannels ==
  {World} \cup {RoundChannel(r) : r \in Rounds}
  \cup {BattleChannel(r, b) : r \in Rounds, b \in Battles}

INSTANCE Hub WITH Wallets <- {}, PublicChannels <- LiveChannels

VARIABLES
  store,     \* the newest round and its phase in the round store
  evidence,  \* ticks the store holds of each round
  driver,    \* the driving instance, its round, and what it has to publish
  strays,    \* what drivers that lost the lease in the middle still publish
  counter,   \* Redis' counter of each channel
  views,     \* the round each instance's API answers with
  polls,     \* a follower's read of the store, on its way back
  wire,      \* history: everything published
  hub,       \* each page's connection at its socket process; None for none
  frames,    \* SUBSCRIBE frames on their way
  inbox,     \* events on their way
  receiver,  \* each page's ReceiverState
  followed,  \* the round each page follows
  shown,     \* the round each page shows
  fetches,   \* each page's snapshot requests in flight
  applied,   \* history: sequences applied on this connection
  faults

serverVars == <<store, evidence, driver, strays, counter, views, polls, wire>>
clientVars == <<receiver, followed, shown, fetches, applied>>
liveVars == <<serverVars, hub, frames, inbox, clientVars, faults>>

Event ==
  [kind : {"ROUND_OPENED", "PICKS_LOCKED", "ROUND_FINALIZED"}, round : Rounds]
  \cup [kind : {"BATTLE_STATE_UPDATE"}, round : Rounds, battle : Battles,
        tick : 1..MaxTicks]
Envelope == [event : Event, sequence : Nat, by : Instances]
NotYet == -1
\* A snapshot request no instance has answered yet.
Asked == [round |-> NotYet, phase |-> "ASKED"]

ChannelOf(e) ==
  CASE e.kind = "ROUND_OPENED" -> World
    [] e.kind = "BATTLE_STATE_UPDATE" -> BattleChannel(e.round, e.battle)
    [] OTHER -> RoundChannel(e.round)

\* EMPTY_RECEIVER
EmptyReceiver ==
  [last |-> [ch \in LiveChannels |-> NotYet], awaiting |-> {}]
NothingApplied == [ch \in LiveChannels |-> {}]
NoFetches == [k \in 1..MaxFetches |-> None]

LiveInit ==
  /\ store = None
  /\ evidence = [r \in Rounds |-> 0]
  /\ driver = [at |-> First, pc |-> "idle", round |-> None, out |-> << >>,
               sequence |-> NotYet]
  /\ strays = {}
  /\ counter = [ch \in LiveChannels |-> 0]
  /\ views = [i \in Instances |-> None]
  /\ polls = [i \in Instances |-> None]
  /\ wire = {}
  /\ hub = [c \in Clients |-> None]
  /\ frames = [c \in Clients |-> << >>]
  /\ inbox = [c \in Clients |-> << >>]
  /\ receiver = [c \in Clients |-> EmptyReceiver]
  /\ followed = [c \in Clients |-> None]
  /\ shown = [c \in Clients |-> None]
  /\ fetches = [c \in Clients |-> NoFetches]
  /\ applied = [c \in Clients |-> NothingApplied]
  /\ faults = 0

Fault == faults < MaxFaults /\ faults' = faults + 1

-----------------------------------------------------------------------------
(***************************************************************************)
(* The driver: one step of a round, saved and then published.              *)
(***************************************************************************)

\* The steps a round can take next, each with what it has to say.
StepsFrom(round) ==
  IF round = None \/ round.phase = "FINALIZED"
  THEN {[round |-> [round |-> r, phase |-> "PICK_OPEN"], tick |-> 0,
         out |-> <<[kind |-> "ROUND_OPENED", round |-> r]>>] :
          r \in {n \in Rounds : n = IF round = None THEN 0 ELSE round.round + 1}}
  ELSE IF round.phase = "PICK_OPEN"
  THEN {[round |-> [round EXCEPT !.phase = "BATTLE_LIVE"], tick |-> 0,
         out |-> <<[kind |-> "PICKS_LOCKED", round |-> round.round]>>]}
  ELSE {[round |-> [round EXCEPT !.phase = "FINALIZED"],
         tick |-> evidence[round.round],
         out |-> <<[kind |-> "ROUND_FINALIZED", round |-> round.round]>>]}
       \cup {[round |-> round, tick |-> n,
              out |-> [b \in Battles |->
                         [kind |-> "BATTLE_STATE_UPDATE", round |-> round.round,
                          battle |-> b, tick |-> n]]] :
               n \in {m \in 1..MaxTicks : m = evidence[round.round] + 1}}

\* Mutant: the step is published and never saved.
StepUnsaved(step) ==
  /\ driver' = [driver EXCEPT !.pc = "incr", !.round = step.round, !.out = step.out]
  /\ UNCHANGED <<store, evidence>>

\* saveState or saveFinalization, before the first publish.
SaveStep(step) ==
  /\ driver' = [driver EXCEPT !.pc = "incr", !.round = step.round, !.out = step.out]
  /\ store' = step.round
  /\ evidence' = [evidence EXCEPT ![step.round.round] = step.tick]

Drive ==
  /\ driver.pc = "idle"
  /\ \E step \in StepsFrom(driver.round) : SaveStep(step)
  /\ UNCHANGED <<strays, counter, views, polls, wire, hub, frames, inbox,
                 clientVars, faults>>

\* INCR, less one: the numbers of a channel start at zero.
SequenceOf(ch, by) == counter[ch]

Incr ==
  LET ch == ChannelOf(Head(driver.out)) IN
  /\ driver.pc = "incr"
  /\ driver' = [driver EXCEPT !.pc = "publish",
                              !.sequence = SequenceOf(ch, driver.at)]
  /\ counter' = [counter EXCEPT ![ch] = @ + 1]
  /\ UNCHANGED <<store, evidence, strays, views, polls, wire, hub, frames, inbox,
                 clientVars, faults>>

\* PUBLISH, and gateway.deliver in every socket process that is subscribed.
Deliver(envelope) ==
  /\ wire' = wire \cup {envelope}
  /\ \E missed \in SUBSET Clients :
       /\ IF missed = {} THEN UNCHANGED faults ELSE Fault
       /\ inbox' =
            [c \in Clients |->
               IF c \in recipientsOf(hub, ChannelOf(envelope.event)) \ missed
               THEN Append(inbox[c], envelope) ELSE inbox[c]]

Publish ==
  /\ driver.pc = "publish"
  /\ Deliver([event |-> Head(driver.out), sequence |-> driver.sequence,
              by |-> driver.at])
  /\ driver' = [driver EXCEPT !.out = Tail(@), !.sequence = NotYet,
                              !.pc = IF Len(driver.out) > 1 THEN "incr" ELSE "seen"]
  /\ UNCHANGED <<store, evidence, strays, counter, views, polls, hub, frames,
                 clientVars>>

\* options.onRound: once the step is done, and on every turn of the loop.
OnRound ==
  /\ driver.pc \in {"seen", "idle"} /\ driver.round # None
  /\ views' = [views EXCEPT ![driver.at] = driver.round]
  /\ driver' = [driver EXCEPT !.pc = "idle"]
  /\ UNCHANGED <<store, evidence, strays, counter, polls, wire, hub, frames,
                 inbox, clientVars, faults>>

\* Another instance drives.  The one before it crashed, or is paused with its
\* publication still to come.
Takeover(i) ==
  /\ i # driver.at
  /\ Fault
  /\ strays' = IF StepsOutliveLease /\ driver.out # << >>
               THEN strays \cup {[out |-> driver.out, sequence |-> driver.sequence,
                                  by |-> driver.at]}
               ELSE strays
  /\ driver' = [at |-> i, pc |-> "idle", round |-> store, out |-> << >>,
                sequence |-> NotYet]
  /\ UNCHANGED <<store, evidence, counter, views, polls, wire, hub, frames,
                 inbox, clientVars>>

\* The paused driver goes on with the step it was in: INCR, then PUBLISH, for
\* each event it still has.
StrayIncr(e) ==
  /\ e \in strays /\ e.sequence = NotYet
  /\ LET ch == ChannelOf(Head(e.out))
     IN  /\ strays' = (strays \ {e}) \cup {[e EXCEPT !.sequence = SequenceOf(ch, e.by)]}
         /\ counter' = [counter EXCEPT ![ch] = @ + 1]
  /\ UNCHANGED <<store, evidence, driver, views, polls, wire, hub, frames,
                 inbox, clientVars, faults>>

StrayPublish(e) ==
  /\ e \in strays /\ e.sequence # NotYet
  /\ Deliver([event |-> Head(e.out), sequence |-> e.sequence, by |-> e.by])
  /\ strays' = (strays \ {e}) \cup
       (IF Len(e.out) > 1 THEN {[e EXCEPT !.out = Tail(@), !.sequence = NotYet]} ELSE {})
  /\ UNCHANGED <<store, evidence, driver, counter, views, polls, hub, frames,
                 clientVars>>

\* followStore: an instance that does not drive reads the store every second.
\* A read that finds what the instance has already is left out: whatever it
\* could undo when it arrives late, a read that found something new undoes too.
PollRead(i) ==
  /\ i # driver.at /\ store \notin {None, views[i]} /\ polls[i] = None
  /\ polls' = [polls EXCEPT ![i] = store]
  /\ UNCHANGED <<store, evidence, driver, strays, counter, views, wire, hub,
                 frames, inbox, clientVars, faults>>

PollApply(i) ==
  /\ polls[i] # None
  /\ views' = [views EXCEPT ![i] = polls[i]]
  /\ polls' = [polls EXCEPT ![i] = None]
  /\ UNCHANGED <<store, evidence, driver, strays, counter, wire, hub, frames,
                 inbox, clientVars, faults>>

-----------------------------------------------------------------------------
(***************************************************************************)
(* The page and its connection.                                            *)
(***************************************************************************)
FollowedChannels(r) ==
  <<RoundChannel(r)>> \o [b \in Battles |-> BattleChannel(r, b)]

\* resync, up to its await: one more snapshot request.
Resync(c) ==
  \E k \in 1..MaxFetches :
    /\ fetches[c][k] = None
    /\ \A j \in 1..(k - 1) : fetches[c][j] # None
    /\ fetches' = [fetches EXCEPT ![c][k] = Asked]

\* onopen: the receiver starts over, the world and what was followed are
\* subscribed to, and the current round is fetched.
Open(c) ==
  /\ hub[c] = None
  /\ hub' = [hub EXCEPT ![c] = [wallet |-> None, channels |-> {}]]
  /\ receiver' = [receiver EXCEPT ![c] = EmptyReceiver]
  /\ frames' = [frames EXCEPT ![c] =
       <<World>> \o (IF followed[c] = None THEN << >>
                     ELSE FollowedChannels(followed[c]))]
  /\ Resync(c)
  /\ applied' = [applied EXCEPT ![c] = NothingApplied]
  /\ UNCHANGED <<serverVars, inbox, followed, shown, faults>>

\* The connection is lost; the page tries again later (Open).
Drop(c) ==
  /\ hub[c] # None
  /\ Fault
  /\ hub' = [hub EXCEPT ![c] = None]
  /\ frames' = [frames EXCEPT ![c] = << >>]
  /\ inbox' = [inbox EXCEPT ![c] = << >>]
  /\ UNCHANGED <<serverVars, clientVars>>

\* gateway.receive of a SUBSCRIBE.
HandleFrame(c) ==
  /\ frames[c] # << >>
  /\ hub' = [hub EXCEPT ![c] = Subscribe(@, Head(frames[c]))]
  /\ frames' = [frames EXCEPT ![c] = Tail(@)]
  /\ UNCHANGED <<serverVars, inbox, clientVars, faults>>

\* GET /v1/rounds/current: some instance answers with the round it has; one
\* that has none answers 404, which ends the fetch.
CurrentRound(c, k) ==
  /\ fetches[c][k] = Asked
  /\ \E i \in Instances : fetches' = [fetches EXCEPT ![c][k] = views[i]]
  /\ UNCHANGED <<serverVars, hub, frames, inbox, receiver, followed, shown,
                 applied, faults>>

FetchFails(c, k) ==
  /\ fetches[c][k] # None
  /\ Fault
  /\ fetches' = [fetches EXCEPT ![c][k] = None]
  /\ UNCHANGED <<serverVars, hub, frames, inbox, receiver, followed, shown,
                 applied>>

\* The snapshot arrives: it is shown as it is, with every frontline at the
\* centre, and its round is followed.
Resynced(c, k) ==
  LET snapshot == fetches[c][k] IN
  /\ snapshot \notin {None, Asked}
  /\ shown' = [shown EXCEPT ![c] =
       [round |-> snapshot.round, phase |-> snapshot.phase,
        front |-> [b \in Battles |-> 0]]]
  /\ followed' = [followed EXCEPT ![c] = snapshot.round]
  /\ frames' = IF followed[c] = snapshot.round \/ hub[c] = None THEN frames
               ELSE [frames EXCEPT ![c] = @ \o FollowedChannels(snapshot.round)]
  /\ fetches' = [fetches EXCEPT ![c][k] = None]
  /\ UNCHANGED <<serverVars, hub, inbox, receiver, applied, faults>>

\* Mutant: any later event is applied, whatever came between.
ReceiveLater(state, ch, sequence) ==
  IF sequence <= state.last[ch] THEN "DUPLICATE" ELSE "APPLY"

\* receive: what a page makes of an envelope.
ReceiveOutcome(state, ch, sequence) ==
  CASE ch \in state.awaiting -> "AWAITING_SNAPSHOT"
    [] ch \notin state.awaiting /\ sequence <= state.last[ch] -> "DUPLICATE"
    [] ch \notin state.awaiting /\ state.last[ch] # NotYet
         /\ sequence > state.last[ch] + 1 -> "GAP"
    [] OTHER -> "APPLY"

\* applyEvent: a tick moves its battle's frontline, the rest fetch the round.
ApplyEvent(c, e) ==
  IF e.kind = "BATTLE_STATE_UPDATE"
  THEN /\ shown' = IF shown[c] # None /\ shown[c].round = e.round
                   THEN [shown EXCEPT ![c].front[e.battle] = e.tick]
                   ELSE shown
       /\ UNCHANGED fetches
  ELSE Resync(c) /\ UNCHANGED shown

\* handleFrame of the page: receive, then what the outcome asks for.
HandleEvent(c) ==
  /\ inbox[c] # << >>
  /\ LET envelope == Head(inbox[c])
         ch == ChannelOf(envelope.event)
         outcome == ReceiveOutcome(receiver[c], ch, envelope.sequence)
     IN  /\ receiver' =
              CASE outcome = "APPLY" ->
                     [receiver EXCEPT ![c].last[ch] = envelope.sequence]
                [] outcome = "GAP" -> [receiver EXCEPT ![c].awaiting = @ \cup {ch}]
                [] OTHER -> receiver
         /\ CASE outcome = "APPLY" -> ApplyEvent(c, envelope.event)
              [] outcome = "GAP" -> Resync(c) /\ UNCHANGED shown
              [] OTHER -> UNCHANGED <<fetches, shown>>
         /\ applied' = IF outcome = "APPLY"
                       THEN [applied EXCEPT ![c][ch] = @ \cup {envelope.sequence}]
                       ELSE applied
  /\ inbox' = [inbox EXCEPT ![c] = Tail(@)]
  /\ UNCHANGED <<serverVars, hub, frames, followed, faults>>

-----------------------------------------------------------------------------
Server ==
  \/ Drive \/ Incr \/ Publish \/ OnRound
  \/ \E i \in Instances : Takeover(i) \/ PollRead(i) \/ PollApply(i)
  \/ \E e \in strays : StrayIncr(e) \/ StrayPublish(e)

Page(c) ==
  \/ Open(c) \/ Drop(c) \/ HandleFrame(c) \/ HandleEvent(c)
  \/ \E k \in 1..MaxFetches : CurrentRound(c, k) \/ FetchFails(c, k) \/ Resynced(c, k)

LiveNext == Server \/ \E c \in Clients : Page(c)

LiveSpec == LiveInit /\ [][LiveNext]_liveVars

-----------------------------------------------------------------------------
(***************************************************************************)
(* Properties.                                                             *)
(***************************************************************************)
Shown == [round : Rounds, phase : Phases, front : [Battles -> 0..MaxTicks]]

LiveTypeOK ==
  /\ store \in Snapshot \cup {None}
  /\ evidence \in [Rounds -> 0..MaxTicks]
  /\ driver.at \in Instances /\ driver.pc \in {"idle", "incr", "publish", "seen"}
  /\ driver.round \in Snapshot \cup {None}
  /\ driver.out \in Seq(Event)
  /\ driver.out = << >> <=> driver.pc \in {"idle", "seen"}
  /\ \A e \in strays : e.out \in Seq(Event) /\ e.sequence \in Nat \cup {NotYet}
  /\ counter \in [LiveChannels -> Nat]
  /\ views \in [Instances -> Snapshot \cup {None}]
  /\ polls \in [Instances -> Snapshot \cup {None}]
  /\ wire \subseteq Envelope
  /\ frames \in [Clients -> Seq(LiveChannels)]
  /\ inbox \in [Clients -> Seq(Envelope)]
  /\ followed \in [Clients -> Rounds \cup {None}]
  /\ shown \in [Clients -> Shown \cup {None}]
  /\ \A c \in Clients :
       /\ receiver[c].last \in [LiveChannels -> Nat \cup {NotYet}]
       /\ receiver[c].awaiting \subseteq LiveChannels
       /\ hub[c] # None => /\ hub[c].channels \subseteq LiveChannels
                           /\ Cardinality(hub[c].channels) <= MAX_SUBSCRIPTIONS
  /\ faults \in 0..MaxFaults

\* One snapshot is no further than another.
PhaseRank(phase) ==
  CASE phase = "PICK_OPEN" -> 0 [] phase = "BATTLE_LIVE" -> 1 [] OTHER -> 2
NoFurther(a, b) ==
  a.round < b.round \/ (a.round = b.round /\ PhaseRank(a.phase) <= PhaseRank(b.phase))

\* No page shows, and no API answers, a round, a phase or a frontline the store
\* does not hold, so nothing a player was shown is undone by a driver that
\* crashes: every step is saved before it is published or served (loop.ts:171,
\* driver.ts:238).
ShownIsStored ==
  /\ \A i \in Instances :
       views[i] # None => store # None /\ NoFurther(views[i], store)
  /\ \A c \in Clients : shown[c] # None =>
       /\ store # None /\ NoFurther(shown[c], store)
       /\ \A b \in Battles : shown[c].front[b] <= evidence[shown[c].round]

\* Nothing lost goes unnoticed.  What a page applied on a channel since it
\* connected is an unbroken run of the channel's events, each applied once,
\* however events were lost, delayed or overtaken on the way
\* (receiver.ts:104-113); and a run of numbers is a run of events, since one
\* event has one number and one number one event on its channel, whichever
\* instance publishes, even one that lost its lease between INCR and PUBLISH
\* (redis-bus.ts:15-22).
NoSilentLoss ==
  /\ \A c \in Clients, ch \in LiveChannels :
       LET got == applied[c][ch] IN
       /\ \A n \in got, m \in 0..receiver[c].last[ch] : m >= n => m \in got
       /\ \A n \in got : n <= receiver[c].last[ch]
  /\ \A e, f \in wire :
       (ChannelOf(e.event) = ChannelOf(f.event) /\ e.sequence = f.sequence)
         <=> e.event = f.event

\* socket-client.ts:233: "a channel already waiting for a snapshot has a request
\* in flight", which is why a page ignores what it is sent there meanwhile.
AwaitingHasRequest ==
  \A c \in Clients :
    hub[c] # None /\ receiver[c].awaiting # {} => fetches[c] # NoFetches

\* socket-client.ts:103: follow subscribes to a round and its five battles,
\* "replacing whatever was followed".  Once its frames are handled, a page is
\* subscribed to the round it follows.
FollowedIsSubscribed ==
  \A c \in Clients :
    hub[c] # None /\ frames[c] = << >> /\ followed[c] # None =>
      \A n \in 1..(BattlesPerRound + 1) :
        FollowedChannels(followed[c])[n] \in hub[c].channels

=============================================================================
