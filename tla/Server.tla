------------------------------- MODULE Server -------------------------------
(***************************************************************************)
(* The lifecycle of a deployed process and the alerts it raises.            *)
(*                                                                          *)
(* A process is the server (apps/server/src/main.ts, with or without its    *)
(* own sockets) or the socket gateway (apps/server/src/gateway.ts).  It     *)
(* boots through steps that may each refuse, opening handles as it goes,    *)
(* then runs until a signal, a failure or the loss of the rounds lease, and *)
(* then closes what it opened.  Node ends a process whose main() has        *)
(* settled only when no open handle keeps its event loop alive; the         *)
(* intervals and idle worker threads are unref'd and keep nothing alive.    *)
(*                                                                          *)
(* The alert watch (alerts.ts, alert-sink.ts) compares the conditions that  *)
(* hold now with the ones already reported, and the sink delivers messages  *)
(* one after another to a webhook that may fail.                            *)
(***************************************************************************)
EXTENDS Integers, Sequences, SequencesExt

CONSTANTS
    Kinds,          \* the kinds of process a deployment is made of
    StuckAfter,     \* ALERT_ROUND_STUCK_AFTER_MS
    RoundTime,      \* from a round's opening to its battle end
    MaxRounds,      \* bound: rounds another instance opens
    MaxClock,       \* bound: the clock
    MaxCover        \* bound: changes of the vault's cover

ASSUME ServerAssumption ==
    /\ Kinds \subseteq {"gateway", "server", "no-sockets"}
    /\ {StuckAfter, RoundTime, MaxRounds, MaxClock, MaxCover} \subseteq Nat

VARIABLES
    proc,       \* the process: kind, pc, the handles it holds, why it ended
    world,      \* what the process observes: clock, stored round, vault's cover
    watch,      \* the alert watch: what it knows, what it has reported
    sink        \* the alert sink: its queue, and the last status sent about each condition

serverVars == <<proc, world, watch, sink>>

-----------------------------------------------------------------------------
(* Boot.  A step names the handle it opens; "" opens none.  A step marked   *)
(* "sure" neither awaits nor refuses.  The pool connects on its first query, *)
(* so the database is a handle from when the process serves.                 *)

ServerBoot(sockets) ==
    << [does |-> "configuration", opens |-> ""],
       [does |-> "chain and contracts", opens |-> ""] >>
    \o (IF sockets THEN << [does |-> "sure", opens |-> "sockets"] >> ELSE << >>)
    \o << [does |-> "connect bus", opens |-> "bus"],
          [does |-> "subscribe", opens |-> ""],
          [does |-> "connect limit", opens |-> "limit"],
          [does |-> "sockets ready", opens |-> ""],
          [does |-> "listen", opens |-> "api"],
          [does |-> "sure", opens |-> "claims"] >>

GatewayBoot ==
    << [does |-> "configuration", opens |-> ""],
       [does |-> "connect bus", opens |-> "bus"],
       [does |-> "subscribe", opens |-> ""],
       [does |-> "listen", opens |-> "sockets"] >>

Boot(kind) == CASE kind = "gateway" -> GatewayBoot
                [] kind = "server" -> ServerBoot(TRUE)
                [] kind = "no-sockets" -> ServerBoot(FALSE)

\* The order in which a process that ran closes what it holds.
CloseOrder(kind) ==
    IF kind = "gateway"
    THEN <<"sockets", "bus", "database">>
    ELSE <<"lease", "bus", "limit", "market", "claims", "api", "sockets", "database">>

\* A refused boot step: only a server whose API could not listen undoes
\* anything, and it undoes its sockets (and a pool with no connection yet).
\* Sockets that could not bind hold nothing.
ClosedByRefusal(kind, step) ==
    IF kind # "gateway" /\ step.does \in {"listen", "sockets ready"} THEN {"sockets"} ELSE {}

Quiet == [reported |-> {}, round |-> 0, state |-> "", endAt |-> 0, cover |-> "unknown"]

ServerInit ==
    /\ \E k \in Kinds : proc = [kind |-> k, pc |-> "boot", step |-> 1, open |-> {},
                                stopping |-> FALSE, exit |-> "", refused |-> ""]
    /\ world = [clock |-> 0, round |-> 0, state |-> "FINALIZED", endAt |-> 0,
                cover |-> "covered", changes |-> 0]
    /\ watch = Quiet
    /\ sink = [queue |-> << >>, last |-> [k \in 0..MaxRounds |-> ""]]

Message(status, key) == [status |-> status, key |-> key]

About(message, k) == message.status # "NOTICE" /\ message.key = k

\* alerts.send: queued behind every earlier message, and never throws.
send(messages) ==
    LET about(k) == {i \in DOMAIN messages : About(messages[i], k)}
        latest(k) == CHOOSE i \in about(k) : \A j \in about(k) : j <= i
    IN sink' = [queue |-> sink.queue \o messages,
                last |-> [k \in 0..MaxRounds |->
                            IF about(k) = {} THEN sink.last[k] ELSE messages[latest(k)].status]]

\* The process's own failure is sent too, once there is a sink to send it.
Fail(step, closed) ==
    /\ proc' = [proc EXCEPT !.pc = "settled", !.exit = "failed", !.refused = step.does,
                            !.open = @ \ closed]
    /\ IF proc.kind # "gateway" /\ proc.step > 1
       THEN send(<<Message("NOTICE", "failed")>>) ELSE UNCHANGED sink

BootStep ==
    /\ proc.pc = "boot" /\ proc.step <= Len(Boot(proc.kind))
    /\ LET s == Boot(proc.kind)[proc.step] IN
       proc' = [proc EXCEPT !.step = @ + 1,
                            !.open = IF s.opens = "" THEN @ ELSE @ \cup {s.opens}]
    /\ UNCHANGED <<world, watch, sink>>

BootRefused ==
    /\ proc.pc = "boot" /\ proc.step <= Len(Boot(proc.kind))
    /\ Boot(proc.kind)[proc.step].does # "sure"
    /\ LET s == Boot(proc.kind)[proc.step] IN Fail(s, ClosedByRefusal(proc.kind, s))
    /\ UNCHANGED <<world, watch>>

Booted ==
    /\ proc.pc = "boot" /\ proc.step > Len(Boot(proc.kind))
    /\ proc' = [proc EXCEPT !.pc = IF proc.kind = "gateway" THEN "running" ELSE "backfill",
                            !.open = @ \cup {"database"}]
    /\ IF proc.kind = "gateway" THEN UNCHANGED sink
       ELSE send(<<Message("NOTICE", "started")>>)
    /\ UNCHANGED <<world, watch>>

-----------------------------------------------------------------------------
(* Running, and the finally block                                            *)

Running == proc.pc \in {"backfill", "waiting", "driving", "running"}

\* SIGTERM or SIGINT; the second one changes nothing.
Signal ==
    /\ Running /\ ~proc.stopping
    /\ proc' = [proc EXCEPT !.stopping = TRUE]
    /\ UNCHANGED <<world, watch, sink>>

Leave(exit) == [proc EXCEPT !.pc = "closing", !.step = 1, !.exit = exit, !.stopping = TRUE]

\* startMarket: done, refused, or stopped during the backfill.
Backfill ==
    /\ proc.pc = "backfill"
    /\ \/ /\ ~proc.stopping
          /\ proc' = [proc EXCEPT !.pc = "waiting", !.open = @ \cup {"market"}]
       \/ proc' = Leave(IF proc.stopping THEN "clean" ELSE "failed")
    /\ UNCHANGED <<world, watch, sink>>

\* takeLease waits until the lease is free or the process is stopping.
Take ==
    /\ proc.pc = "waiting"
    /\ IF proc.stopping THEN proc' = Leave("clean")
       ELSE proc' = [proc EXCEPT !.pc = "driving", !.open = @ \cup {"lease"}]
    /\ UNCHANGED <<world, watch, sink>>

\* lease.lost stops the driver as a signal does.
LeaseLost ==
    /\ proc.pc = "driving" /\ "lease" \in proc.open /\ ~proc.stopping
    /\ proc' = [proc EXCEPT !.stopping = TRUE]
    /\ UNCHANGED <<world, watch, sink>>

\* runRounds returns once the signal fired, or throws at any step.
DriverEnds ==
    /\ proc.pc \in {"driving", "running"}
    /\ \/ proc.stopping /\ proc' = Leave("clean")
       \/ proc.pc = "driving" /\ proc' = Leave("failed")
    /\ UNCHANGED <<world, watch, sink>>

\* The next close.  Clients that quit swallow their own errors.
CloseNext ==
    /\ proc.pc = "closing" /\ proc.step <= Len(CloseOrder(proc.kind))
    /\ proc' = [proc EXCEPT !.step = @ + 1,
                            !.open = @ \ {CloseOrder(proc.kind)[proc.step]}]
    /\ UNCHANGED <<world, watch, sink>>

\* `await alerts.drained()`; then main() settles, rejecting on a failure.
Drained ==
    /\ proc.pc = "closing" /\ proc.step > Len(CloseOrder(proc.kind))
    /\ sink.queue = << >>
    /\ proc' = [proc EXCEPT !.pc = "settled"]
    /\ IF proc.exit = "failed" THEN send(<<Message("NOTICE", "failed")>>) ELSE UNCHANGED sink
    /\ UNCHANGED <<world, watch>>

\* main() has settled: the process ends once nothing keeps its loop alive.
ProcessEnds ==
    /\ proc.pc = "settled" /\ proc.open = {}
    /\ proc' = [proc EXCEPT !.pc = "ended"]
    /\ UNCHANGED <<world, watch, sink>>

-----------------------------------------------------------------------------
(* Alerts                                                                    *)

\* The clock, another instance driving rounds, and the vault's cover changing.
Clock ==
    /\ world.clock < MaxClock
    /\ world' = [world EXCEPT !.clock = @ + 1]
    /\ UNCHANGED <<proc, watch, sink>>

RoundMoves ==
    /\ \/ /\ world.state = "FINALIZED" /\ world.round < MaxRounds
          /\ world' = [world EXCEPT !.round = @ + 1, !.state = "OPEN",
                                    !.endAt = world.clock + RoundTime]
       \/ /\ world.state = "OPEN" /\ world.clock >= world.endAt
          /\ world' = [world EXCEPT !.state = "FINALIZED"]
    /\ UNCHANGED <<proc, watch, sink>>

CoverChanges ==
    /\ world.changes < MaxCover
    /\ world' = [world EXCEPT !.changes = @ + 1,
                              !.cover = IF @ = "covered" THEN "uncovered" ELSE "covered"]
    /\ UNCHANGED <<proc, watch, sink>>

Watching == proc.kind # "gateway" /\ Running

\* followStore and onRound: the watch's round is the store's, as of this read.
FollowStore ==
    /\ Watching
    /\ watch' = [watch EXCEPT !.round = world.round, !.state = world.state,
                              !.endAt = world.endAt]
    /\ UNCHANGED <<proc, world, sink>>

\* readCover: an answer, or a failed read that keeps what was last known.
ReadCover ==
    /\ Watching
    /\ watch' = [watch EXCEPT !.cover = world.cover]
    /\ UNCHANGED <<proc, world, sink>>

\* stuckRound and uncoveredVault, as the watch sees them.
Conditions ==
    (IF watch.round > 0 /\ watch.state # "FINALIZED"
        /\ world.clock - watch.endAt > StuckAfter THEN {watch.round} ELSE {})
    \cup (IF watch.cover = "uncovered" THEN {0} ELSE {})

\* Mutant: a condition that lasts is sent again whenever another one changes.
reconcileNagging(active, current) ==
    SetToSeq({Message("FIRING", k) : k \in current})
    \o SetToSeq({Message("RESOLVED", k) : k \in active \ current})

\* reconcile: one FIRING for each condition that began, in the order they were
\* evaluated, then one RESOLVED for each that stopped.
reconcile(active, current) ==
    SetToSeq({Message("FIRING", k) : k \in current \ active})
    \o SetToSeq({Message("RESOLVED", k) : k \in active \ current})

WatchTick ==
    /\ Watching
    /\ Conditions # watch.reported
    /\ watch' = [watch EXCEPT !.reported = Conditions]
    /\ send(reconcile(watch.reported, Conditions))
    /\ UNCHANGED <<proc, world>>

\* The head of the queue is posted.  A refusal is caught and logged and the
\* message is not sent again, so the queue moves on as it does for one that
\* arrived.
Deliver ==
    /\ sink.queue # << >> /\ proc.pc # "ended"
    /\ sink' = [sink EXCEPT !.queue = Tail(@)]
    /\ UNCHANGED <<proc, world, watch>>

ProcessStep == BootStep \/ Booted \/ Backfill \/ Take \/ DriverEnds \/ CloseNext
               \/ Drained \/ ProcessEnds \/ Deliver

ServerNext == ProcessStep \/ BootRefused \/ Signal \/ LeaseLost \/ Clock \/ RoundMoves
              \/ CoverChanges \/ FollowStore \/ ReadCover \/ WatchTick

-----------------------------------------------------------------------------
ServerTypeOK ==
    /\ proc.pc \in {"boot", "backfill", "waiting", "driving", "running", "closing",
                    "settled", "ended"}
    /\ proc.open \subseteq {"database", "sockets", "bus", "limit", "api", "claims",
                            "market", "lease"}
    /\ proc.exit \in {"", "clean", "failed"}
    /\ watch.reported \subseteq 0..MaxRounds

\* However the conditions come and go while messages wait for the webhook,
\* what is queued about one condition alternates between FIRING and RESOLVED
\* and ends with FIRING exactly while the condition is reported (alerts.ts
\* reconcile, alert-sink.ts queue).
AlertsBracket ==
    \A k \in 0..MaxRounds :
        LET about == {i \in DOMAIN sink.queue : About(sink.queue[i], k)} IN
        /\ \A i, j \in about :
             i < j /\ (\A h \in about : h <= i \/ j <= h) => sink.queue[i].status # sink.queue[j].status
        /\ \A i \in about : (\A h \in about : h <= i) => sink.queue[i].status = sink.last[k]
        /\ (k \in watch.reported) <=> (sink.last[k] = "FIRING")

\* A process that could not bind its port ends: "a process that failed to bind
\* after subscribing would sit on the bus delivering to nobody, which looks
\* healthy from the outside" (gateway.ts:103; main.ts:686 for the server).
FailedBindEnds == (proc.pc = "settled" /\ proc.refused = "listen") => proc.open = {}
=============================================================================
