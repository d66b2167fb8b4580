---------------------------- MODULE Distribution ----------------------------
(***************************************************************************)
(* Reward distributions from the War Point ledger to the chain: the window *)
(* store (store-postgres/src/distribution-store.ts), the worker that keeps *)
(* windows on time (apps/server/src/rewards-worker.ts), the operator's     *)
(* commands (distribution.ts), the snapshot file both write                *)
(* (snapshot-file.ts) and the publication job (publication.ts over         *)
(* chain/src/rpc-distributor.ts), composed with the contract.              *)
(*                                                                         *)
(* A database transaction is one step, taken under DISTRIBUTION_LOCK.      *)
(* Processes crash between any two of their awaits, a commit may be        *)
(* acknowledged to nobody, and a transaction outlives the job that sent it.*)
(***************************************************************************)
EXTENDS RewardsDistributor, RewardMath

CONSTANTS Awards,           \* ledger rows: records [wallet, points, n]
          DISTRIBUTION_WINDOW,
          MinimumClaim,     \* MIN_CLAIM_THRESHOLD_SPY, in base units: the worker's
          MinimumClaims,    \* the operator's --minimum-claim, given to a command
          PoolBalances,     \* the operator's --pool-balance, read by hand
          Takers,           \* processes that take snapshots: worker, operator
          Worker,
          NoTx, Multisig,   \* publication_tx IS NULL; a Safe's transaction
          MaxNow, MaxTx, MaxFailures   \* bounds

ASSUME DistributionAssumption ==
  /\ Worker \in Takers
  /\ DISTRIBUTION_WINDOW \in Nat \ {0}
  /\ MinimumClaim \in Nat
  /\ MinimumClaims \subseteq Nat /\ PoolBalances \subseteq Nat
  /\ MaxNow \in Nat /\ MaxTx \in Nat /\ MaxFailures \in Nat

VARIABLES now,
          wpLedger,     \* wpLedger[a]: Unwritten, Unclaimed or a window's id
          windows,      \* distribution_windows and reward_allocations
          carryForward, \* reward_carry_forward
          files,        \* files[id]: the snapshot file of that name
          taker,        \* taker[t]: where a snapshot process is
          job,          \* the publication job
          txs,          \* txs[n]: "unsent", "pending", "success", "reverted"
          txId,         \* txId[n]: the distribution transaction n publishes
          publishedBy,  \* history: the transaction that put id's root on chain
          failures      \* bound on crashes and lost acknowledgements

windowVars == <<now, wpLedger, windows, carryForward, files, taker, failures>>
jobVars == <<job, txs, txId, publishedBy>>
distributionVars == <<windowVars, jobVars, contractVars>>

States == {"NONE", "OPEN", "SNAPSHOT", "CALCULATED", "PUBLISHED"}

NoWindow == [state |-> "NONE", start |-> 0, end |-> 0, pool |-> 0,
             minimumClaim |-> 0, allocations |-> <<>>, publicationTx |-> NoTx]

\* No row yet; a row whose distribution_id IS NULL.
Unwritten == -2
Unclaimed == -1

Absent == [state |-> "absent"]
Empty == [state |-> "empty"]

Idle == [pc |-> "idle"]

DistributionInit ==
  /\ DistributorInit
  /\ now = 0
  /\ wpLedger = [a \in Awards |-> Unwritten]
  /\ windows = [id \in Ids |-> NoWindow]
  /\ carryForward = [a \in Accounts |-> 0]
  /\ files = [id \in Ids |-> Absent]
  /\ taker = [t \in Takers |-> Idle]
  /\ job = Idle
  /\ txs = [n \in 1..MaxTx |-> "unsent"]
  /\ txId = [n \in 1..MaxTx |-> 0]
  /\ publishedBy = [id \in Ids |-> NoTx]
  /\ failures = 0

-----------------------------------------------------------------------------
\* Awards and standings.

\* A finalized round writes an award; no window has it yet.
WriteAward(a) ==
  /\ wpLedger[a] = Unwritten
  /\ wpLedger' = [wpLedger EXCEPT ![a] = Unclaimed]
  /\ UNCHANGED <<now, windows, carryForward, files, taker, failures, jobVars,
                 contractVars>>

RowsOf(l, id, w) == {a \in Awards : l[a] = id /\ a.wallet = w}

PointsOf(rows) == MapThenSumSet(LAMBDA a : a.points, rows)

Standings(l, id) ==
  [w \in {v \in Accounts : RowsOf(l, id, v) # {}} |-> PointsOf(RowsOf(l, id, w))]

ClaimsUnclaimed(id) ==
  [a \in Awards |-> IF wpLedger[a] = Unclaimed THEN id ELSE wpLedger[a]]

-----------------------------------------------------------------------------
\* The store's transactions.

openRefused(id, start) ==
  \/ \E other \in Ids : windows[other].state = "OPEN"
  \/ windows[id].state # "NONE"
  \/ \E other \in Ids : windows[other].state # "NONE" /\ windows[other].start = start

openWindow(id, start) ==
  windows' = [windows EXCEPT ![id] =
                [NoWindow EXCEPT !.state = "OPEN", !.start = start,
                                 !.end = start + DISTRIBUTION_WINDOW]]

snapshotRefused(id) == windows[id].state # "OPEN" \/ windows[id].end > now

\* Claims the unclaimed rows, fixes the pool.
snapshot(id, pool) ==
  /\ wpLedger' = ClaimsUnclaimed(id)
  /\ windows' = [windows EXCEPT ![id].state = "SNAPSHOT", ![id].pool = pool]

TakenFile(id, pool, minimumClaim) ==
  [state |-> "written", pool |-> pool, minimumClaim |-> minimumClaim,
   standings |-> Standings(wpLedger, id)]

\* `calculate --id --minimum-claim`: once, on the rows the snapshot claimed.
\* The threshold is the command's, whatever the snapshot's file says.
calculate(id, minimumClaim) ==
  LET allocations == allocateDistribution(Standings(wpLedger, id),
                                          windows[id].pool, minimumClaim)
      carried(w) == IF w \in DOMAIN allocations
                    THEN allocations[w].carriedForward ELSE 0
  IN /\ windows[id].state = "SNAPSHOT"
     /\ windows' = [windows EXCEPT ![id].state = "CALCULATED",
                                   ![id].minimumClaim = minimumClaim,
                                   ![id].allocations = allocations]
     /\ carryForward' = [w \in Accounts |-> carryForward[w] + carried(w)]
     /\ UNCHANGED <<now, wpLedger, files, taker, failures, jobVars, contractVars>>

RootOfAllocations(id, allocations) ==
  LET paying == Claimable(allocations)
  IN IF paying = {} THEN None
     ELSE {[id |-> id, wallet |-> w, amount |-> allocations[w].amount] : w \in paying}

\* readCalculated: the root and the total a calculated window commits.
Root(id) == RootOfAllocations(id, windows[id].allocations)
Total(id) == totalAllocated(windows[id].allocations)

recordRefused(id, onChainRoot, onChainTotal) ==
  \/ windows[id].state # "CALCULATED"
  \/ Root(id) = None
  \/ onChainRoot # Root(id)
  \/ onChainTotal # Total(id)

recordPublication(id, tx) ==
  windows' = [windows EXCEPT ![id].state = "PUBLISHED", ![id].publicationTx = tx]

\* latestWindow: the greatest id, whatever its state.
latestWindow ==
  LET opened == {id \in Ids : windows[id].state # "NONE"}
  IN IF opened = {} THEN 0 ELSE Max(opened)

-----------------------------------------------------------------------------
(***************************************************************************)
(* The worker's loop and the operator's `open` and `snapshot`.  A step     *)
(* that throws ends the attempt: the worker retries on its next pass, the  *)
(* operator runs the command again.                                        *)
(***************************************************************************)
nextWindowStep ==
  LET id == latestWindow
  IN CASE id = 0 -> [kind |-> "OPEN", id |-> 1, start |-> now]
       [] id # 0 /\ windows[id].state = "OPEN" /\ now >= windows[id].end ->
            [kind |-> "SNAPSHOT", id |-> id, start |-> 0]
       [] id # 0 /\ windows[id].state = "OPEN" /\ now < windows[id].end ->
            [kind |-> "WAIT", id |-> id, start |-> 0]
       [] OTHER -> [kind |-> "OPEN", id |-> id + 1, start |-> windows[id].end]

takeStep(t, state) == taker' = [taker EXCEPT ![t] = state]

\* One pass of the worker: the schedule is read, then acted on.
Decide ==
  LET step == nextWindowStep
  IN /\ taker[Worker].pc = "idle"
     /\ step.kind # "WAIT"
     /\ step.id \in Ids
     /\ takeStep(Worker, [pc |-> step.kind, id |-> step.id, start |-> step.start])
     /\ UNCHANGED <<now, wpLedger, windows, carryForward, files, failures, jobVars,
                    contractVars>>

\* The operator's command line: a snapshot's pool and threshold come on it.
Command(t, id) ==
  /\ t # Worker
  /\ taker[t].pc = "idle"
  /\ \/ takeStep(t, [pc |-> "OPEN", id |-> id, start |-> now])
     \/ \E pool \in PoolBalances, minimumClaim \in MinimumClaims :
          takeStep(t, [pc |-> "claim", id |-> id, pool |-> pool,
                       minimumClaim |-> minimumClaim])
  /\ UNCHANGED <<now, wpLedger, windows, carryForward, files, failures, jobVars,
                 contractVars>>

Open(t) ==
  LET s == taker[t]
  IN /\ s.pc = "OPEN"
     /\ IF openRefused(s.id, s.start) THEN UNCHANGED windows
                                      ELSE openWindow(s.id, s.start)
     /\ takeStep(t, Idle)
     /\ UNCHANGED <<now, wpLedger, carryForward, files, failures, jobVars, contractVars>>

\* The worker's pool: uncommittedBalance, read before anything is claimed.
ReadPool(t) ==
  LET s == taker[t]
  IN /\ s.pc = "SNAPSHOT"
     /\ takeStep(t, [pc |-> "claim", id |-> s.id, pool |-> uncommittedBalance,
                     minimumClaim |-> MinimumClaim])
     /\ UNCHANGED <<now, wpLedger, windows, carryForward, files, failures, jobVars,
                    contractVars>>

\* open(path, 'wx'): a name already taken ends the attempt.
ClaimFile(t) ==
  LET s == taker[t]
  IN /\ s.pc = "claim"
     /\ IF files[s.id] = Absent
        THEN /\ files' = [files EXCEPT ![s.id] = Empty]
             /\ takeStep(t, [s EXCEPT !.pc = "take"])
        ELSE /\ takeStep(t, Idle)
             /\ UNCHANGED files
     /\ UNCHANGED <<now, wpLedger, windows, carryForward, failures, jobVars, contractVars>>

\* The snapshot transaction commits, or is refused and the file removed.
TakeSnapshot(t) ==
  LET s == taker[t]
  IN /\ s.pc = "take"
     /\ IF snapshotRefused(s.id)
        THEN /\ files' = [files EXCEPT ![s.id] = Absent]
             /\ takeStep(t, Idle)
             /\ UNCHANGED <<wpLedger, windows>>
        ELSE /\ snapshot(s.id, s.pool)
             /\ takeStep(t, [s EXCEPT !.pc = "write"])
             /\ UNCHANGED files
     /\ UNCHANGED <<now, carryForward, failures, jobVars, contractVars>>

\* The commit succeeds and its acknowledgement is lost: the caller takes it
\* for a refusal and removes the file.
TakeSnapshotUnacknowledged(t) ==
  LET s == taker[t]
  IN /\ s.pc = "take"
     /\ failures < MaxFailures
     /\ ~snapshotRefused(s.id)
     /\ snapshot(s.id, s.pool)
     /\ files' = [files EXCEPT ![s.id] = Absent]
     /\ takeStep(t, Idle)
     /\ failures' = failures + 1
     /\ UNCHANGED <<now, carryForward, jobVars, contractVars>>

\* The rows were read in the snapshot's transaction.
WriteFile(t) ==
  LET s == taker[t]
  IN /\ s.pc = "write"
     /\ files' = [files EXCEPT ![s.id] = TakenFile(s.id, s.pool, s.minimumClaim)]
     /\ takeStep(t, Idle)
     /\ UNCHANGED <<now, wpLedger, windows, carryForward, failures, jobVars,
                    contractVars>>

\* The process dies, or the endpoint, the disk or the database fails it.
CrashTaker(t) ==
  /\ taker[t].pc # "idle"
  /\ failures < MaxFailures
  /\ failures' = failures + 1
  /\ takeStep(t, Idle)
  /\ UNCHANGED <<now, wpLedger, windows, carryForward, files, jobVars, contractVars>>

-----------------------------------------------------------------------------
(***************************************************************************)
(* publishDistribution: one job, run again after every failure.            *)
(***************************************************************************)
jobStep(state) ==
  /\ job' = state
  /\ UNCHANGED <<now, wpLedger, carryForward, files, taker, failures>>

\* calculated(id): recorded windows, rootless windows and another expected
\* root are refused before the chain is read.
StartJob(id) ==
  /\ job.pc = "idle"
  /\ windows[id].state = "CALCULATED"
  /\ Root(id) # None
  /\ jobStep([pc |-> "read", id |-> id])
  /\ UNCHANGED <<windows, txs, txId, publishedBy, contractVars>>

\* findPublication: null for one older than PUBLICATION_LOOKBACK_BLOCKS.
findPublication(id) == {publishedBy[id], NoTx}

\* contract.distribution: an unpublished root waits for a publisher's key, this
\* root is recorded if its transaction is found, another is an incident.
ReadChain ==
  LET d == distributions[job.id]
      unpublished == d.root = None
      asCalculated == d.root = Root(job.id) /\ d.total = Total(job.id)
  IN /\ job.pc = "read"
     /\ \/ unpublished /\ jobStep([job EXCEPT !.pc = "fund"])
        \/ jobStep(Idle)
        \/ /\ ~unpublished /\ asCalculated
           /\ \E tx \in findPublication(job.id) \ {NoTx} :
                jobStep([pc |-> "record", id |-> job.id, root |-> d.root,
                         total |-> d.total, tx |-> tx])
     /\ UNCHANGED <<windows, txs, txId, publishedBy, contractVars>>

\* The publisher's role is held; the balance must cover the root.
CheckFunding ==
  /\ job.pc = "fund"
  /\ jobStep(IF uncommittedBalance < Total(job.id) THEN Idle
             ELSE [job EXCEPT !.pc = "send"])
  /\ UNCHANGED <<windows, txs, txId, publishedBy, contractVars>>

\* publish: simulated first, so a revert that can be seen is not sent.
SendPublication(n) ==
  /\ job.pc = "send"
  /\ txs[n] = "unsent"
  /\ \A m \in 1..(n - 1) : txs[m] # "unsent"
  /\ IF PublishReverts(job.id, Root(job.id), Total(job.id)) = "no"
     THEN /\ txs' = [txs EXCEPT ![n] = "pending"]
          /\ txId' = [txId EXCEPT ![n] = job.id]
          /\ jobStep([pc |-> "sent", id |-> job.id, tx |-> n])
     ELSE /\ jobStep(Idle)
          /\ UNCHANGED <<txs, txId>>
  /\ UNCHANGED <<windows, publishedBy, contractVars>>

\* A pending publication lands, whether or not its sender still waits.
Mine(n) ==
  LET id == txId[n]
  IN /\ txs[n] = "pending"
     /\ IF PublishReverts(id, Root(id), Total(id)) = "no"
        THEN /\ publishDistribution(id, Root(id), Total(id))
             /\ txs' = [txs EXCEPT ![n] = "success"]
             /\ publishedBy' = [publishedBy EXCEPT ![id] = n]
        ELSE /\ txs' = [txs EXCEPT ![n] = "reverted"]
             /\ UNCHANGED <<publishedBy, contractVars>>
     /\ UNCHANGED <<windowVars, job, txId>>

\* Mutation: a reverted transaction is taken for the one that published.
ReadBackOfAnyReceipt ==
  LET d == distributions[job.id]
  IN /\ job.pc = "sent"
     /\ txs[job.tx] \in {"success", "reverted"}
     /\ jobStep([pc |-> "record", id |-> job.id, root |-> d.root,
                 total |-> d.total, tx |-> job.tx])
     /\ UNCHANGED <<windows, txs, txId, publishedBy, contractVars>>

\* The receipt, then the contract read back.
ReadBack ==
  LET d == distributions[job.id]
  IN /\ job.pc = "sent"
     /\ txs[job.tx] \in {"success", "reverted"}
     /\ jobStep(IF txs[job.tx] = "reverted" THEN Idle
                ELSE [pc |-> "record", id |-> job.id, root |-> d.root,
                      total |-> d.total, tx |-> job.tx])
     /\ UNCHANGED <<windows, txs, txId, publishedBy, contractVars>>

Record ==
  /\ job.pc = "record"
  /\ IF recordRefused(job.id, job.root, job.total) THEN UNCHANGED windows
                                                   ELSE recordPublication(job.id, job.tx)
  /\ jobStep(Idle)
  /\ UNCHANGED <<txs, txId, publishedBy, contractVars>>

\* A crash, an endpoint error or a receipt that does not come in time.
CrashJob ==
  /\ job.pc # "idle"
  /\ failures < MaxFailures
  /\ failures' = failures + 1
  /\ job' = Idle
  /\ UNCHANGED <<now, wpLedger, windows, carryForward, files, taker, txs, txId,
                 publishedBy, contractVars>>

\* A Safe executes a proposal: the calculated root, or one nobody calculated.
MultisigPublishes(id) ==
  /\ \/ windows[id].state = "CALCULATED" /\ publishDistribution(id, Root(id), Total(id))
     \/ \E a \in Accounts :
          publishDistribution(id, {[id |-> id, wallet |-> a, amount |-> 1]}, 1)
  /\ publishedBy' = [publishedBy EXCEPT ![id] = Multisig]
  /\ UNCHANGED <<windowVars, job, txs, txId>>

\* A player's claim against a published leaf.
Claim(id) ==
  /\ distributions[id].root # None
  /\ \E l \in distributions[id].root : claim(id, l.wallet, l.amount)
  /\ UNCHANGED <<windowVars, jobVars>>

Tick ==
  /\ now < MaxNow
  /\ now' = now + 1
  /\ UNCHANGED <<wpLedger, windows, carryForward, files, taker, failures, jobVars,
                 contractVars>>

-----------------------------------------------------------------------------
\* A pass of the worker, or a command, once begun.
TakerStep(t) ==
  Open(t) \/ ReadPool(t) \/ ClaimFile(t) \/ TakeSnapshot(t) \/ WriteFile(t)

PublishStep ==
  \/ \E id \in Ids : StartJob(id)
  \/ ReadChain \/ CheckFunding \/ ReadBack \/ Record
  \/ \E n \in 1..MaxTx : SendPublication(n)

TreasuryStep == Treasury /\ UNCHANGED <<windowVars, jobVars>>

\* Everything about windows, and what they read of the chain.
WindowNext ==
  \/ Decide
  \/ \E t \in Takers, id \in Ids : Command(t, id)
  \/ \E t \in Takers : TakerStep(t) \/ CrashTaker(t) \/ TakeSnapshotUnacknowledged(t)
  \/ \E a \in Awards : WriteAward(a)
  \/ \E id \in Ids, minimumClaim \in MinimumClaims : calculate(id, minimumClaim)
  \/ Tick

\* Everything after a window is calculated.
PublicationNext ==
  \/ PublishStep
  \/ CrashJob
  \/ \E n \in 1..MaxTx : Mine(n)
  \/ \E id \in Ids : MultisigPublishes(id) \/ Claim(id)

DistributionNext == WindowNext \/ PublicationNext \/ TreasuryStep

\* The worker's loop never ends and every command begun runs on; nothing is
\* assumed of the operator, the chain or the treasury.
DistributionSpec == DistributionInit /\ [][DistributionNext]_distributionVars

-----------------------------------------------------------------------------
\* Windows, files and jobs are well formed.
DistributionTypeOK ==
  /\ now \in 0..MaxNow
  /\ wpLedger \in [Awards -> {Unwritten, Unclaimed} \cup Ids]
  /\ \A id \in Ids :
       /\ windows[id].state \in States
       /\ windows[id].publicationTx \in 1..MaxTx \cup {NoTx, Multisig}
       /\ files[id].state \in {"absent", "empty", "written"}
  /\ carryForward \in [Accounts -> Nat]
  /\ \A t \in Takers : taker[t].pc \in {"idle", "OPEN", "SNAPSHOT", "claim", "take", "write"}
  /\ job.pc \in {"idle", "read", "fund", "send", "sent", "record"}

\* What a window pays can be recomputed from its file and found on chain.
\* Recomputing the allocation from a written file's standings and pool, with
\* the threshold the window was calculated with, gives the window's root,
\* whatever was written to the ledger, funded or snapshotted since, and whoever
\* took the snapshot with whatever pool and threshold (snapshot-file.ts:15-25,
\* distribution-store.ts:24-28, 261-271); and a window is recorded as published
\* only against that root and its total, under the transaction that put them on
\* chain, although the job may crash after sending, time out before its
\* transaction lands, or find a Safe's publication there (publication.ts:25-26,
\* distribution-store.ts:381-386).
WindowIsReproducible ==
  \A id \in Ids :
    /\ (files[id].state = "written" /\ windows[id].state \in {"CALCULATED", "PUBLISHED"}) =>
         Root(id) = RootOfAllocations(id,
                      allocateDistribution(files[id].standings, files[id].pool,
                                           windows[id].minimumClaim))
    /\ windows[id].state = "PUBLISHED" =>
         /\ distributions[id].root = Root(id)
         /\ distributions[id].total = Total(id)
         /\ windows[id].publicationTx = publishedBy[id]

\* snapshot-file.ts:44, the minimum claim is "recorded so the calculation uses
\* the snapshot's own": a window is calculated with the threshold in its file.
CalculatedAsSnapshotted ==
  \A id \in Ids :
    (files[id].state = "written" /\ windows[id].state \in {"CALCULATED", "PUBLISHED"}) =>
      windows[id].minimumClaim = files[id].minimumClaim

\* docs/operations/rewards-distribution.md:84-86, "a snapshot is never taken
\* without its standings landing on disk": when nobody is at work on it, a
\* snapshotted window has its file.
SnapshotLandsOnDisk ==
  \A id \in Ids :
    ( /\ windows[id].state \in {"SNAPSHOT", "CALCULATED", "PUBLISHED"}
      /\ \A t \in Takers : taker[t].pc = "write" => taker[t].id # id ) =>
      files[id].state = "written"

=============================================================================
