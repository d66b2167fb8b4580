----------------------------- MODULE MCRewards -----------------------------
(***************************************************************************)
(* Rewards on small pools and a two-row ledger, in parts explored side by  *)
(* side: windows from an empty database to their calculation; publication  *)
(* and claims from a state in which two windows have been calculated from  *)
(* one balance; the readers of the claims on chain; and the page a player  *)
(* claims from, for distributions and for the Secret.                      *)
(***************************************************************************)
EXTENDS Distribution, RewardClaims, TLC

CONSTANTS w1, w2

VARIABLE part

vars == <<distributionVars, claimsVars, part>>

MCAwards == {[wallet |-> w1, points |-> 2, n |-> 1], [wallet |-> w2, points |-> 1, n |-> 1]}

Calculated(id, w) ==
  LET row == CHOOSE a \in Awards : a.wallet = w
  IN [NoWindow EXCEPT !.state = "CALCULATED", !.start = id - 1, !.end = id, !.pool = MaxSupply,
        !.minimumClaim = MinimumClaim,
        !.allocations = allocateDistribution((w :> row.points), MaxSupply, MinimumClaim)]

PublicationInit ==
  /\ distributions = [id \in Ids |-> Unpublished]
  /\ hasClaimed = {} /\ outstandingCommitment = 0 /\ paused = FALSE
  /\ balance = MaxSupply /\ supplied = MaxSupply
  /\ paid = [a \in Accounts |-> 0]
  /\ now = MaxNow
  /\ wpLedger = [a \in Awards |-> IF a.wallet = w1 THEN 1 ELSE 2]
  /\ windows = [id \in Ids |-> Calculated(id, IF id = 1 THEN w1 ELSE w2)]
  /\ carryForward = [a \in Accounts |-> 0]
  /\ files = [id \in Ids |-> TakenFile(id, MaxSupply, MinimumClaim)]
  /\ taker = [t \in Takers |-> Idle]
  /\ job = Idle
  /\ txs = [n \in 1..MaxTx |-> "unsent"]
  /\ txId = [n \in 1..MaxTx |-> 0]
  /\ publishedBy = [id \in Ids |-> NoTx]
  /\ failures = 0

MCEntitled == {<<1, w1>>, <<1, w2>>, <<Secret, w1>>}
MCForeign == {<<2, w2>>}

MCInit ==
  /\ ClaimsInit
  /\ \/ part = "windows" /\ DistributionInit
     \/ part \in {"publication", "readers", "page", "secret"} /\ PublicationInit
  /\ part \notin {"page", "secret"} => account = w1

Funding == \E amount \in Amounts : Supply(amount) /\ UNCHANGED <<windowVars, jobVars>>

MCNext ==
  /\ \/ part = "windows" /\ (WindowNext \/ Funding) /\ UNCHANGED claimsVars
     \/ part = "publication" /\ (PublicationNext \/ TreasuryStep) /\ UNCHANGED claimsVars
     \/ part = "readers" /\ ReaderNext /\ UNCHANGED distributionVars
     \/ part = "page" /\ PageStep({"rewards"}) /\ UNCHANGED distributionVars
     \/ part = "secret" /\ PageStep({"secret"}) /\ UNCHANGED distributionVars
  /\ part' = part

MCSpec == MCInit /\ [][MCNext]_vars

=============================================================================
