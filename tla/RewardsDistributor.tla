------------------------- MODULE RewardsDistributor -------------------------
(***************************************************************************)
(* contracts/src/RewardsDistributor.sol: published Merkle roots and the    *)
(* claims paid against them.  A transaction is atomic, a revert is no      *)
(* step.  A root is the set of leaves under it, so a proof verifies        *)
(* exactly for a member (that the tree's proofs do verify is checked with  *)
(* RewardMath); a leaf carries the distribution's id.  Roles are fixed at  *)
(* deployment and taken as held.                                           *)
(***************************************************************************)
EXTENDS Integers, FiniteSets, FiniteSetsExt, Functions

CONSTANTS Ids,              \* distribution ids
          Accounts,         \* the wallets that may be allocated a reward
          None,             \* no root: bytes32(0)
          Amounts,          \* what the treasury moves at a time
          MaxSupply         \* bound: all the reward token there is

ASSUME DistributorAssumption ==
  /\ Ids \subseteq Nat /\ IsFiniteSet(Ids)
  /\ Amounts \subseteq Nat /\ MaxSupply \in Nat

VARIABLES distributions,          \* distributions[id]: root, total, claimed
          hasClaimed,             \* {<<id, account>> : _claimed[id][account]}
          outstandingCommitment,  \* published totals less what was claimed
          balance,                \* REWARD_TOKEN.balanceOf(distributor)
          supplied,               \* history: all ever transferred to it
          paid,                   \* history: paid[account]
          paused

contractVars == <<distributions, hasClaimed, outstandingCommitment, balance,
                  supplied, paid, paused>>

Leaf == [id : Ids, wallet : Accounts, amount : Nat]

Unpublished == [root |-> None, total |-> 0, claimed |-> 0]

DistributorInit ==
  /\ distributions = [id \in Ids |-> Unpublished]
  /\ hasClaimed = {}
  /\ outstandingCommitment = 0
  /\ balance = 0
  /\ supplied = 0
  /\ paid = [a \in Accounts |-> 0]
  /\ paused = FALSE

\* Mutation: what is owed is not held back.
WholeBalance == balance

uncommittedBalance ==
  IF balance > outstandingCommitment THEN balance - outstandingCommitment ELSE 0

\* A transfer of the reward token; the contract is not called.
Supply(amount) ==
  /\ supplied + amount <= MaxSupply
  /\ supplied' = supplied + amount
  /\ balance' = balance + amount
  /\ UNCHANGED <<distributions, hasClaimed, outstandingCommitment, paid, paused>>

\* The checks of publishDistribution, in the order that names the revert.
PublishReverts(id, root, total) ==
  CASE root = None -> "EmptyRoot"
    [] root # None /\ total = 0 -> "ZeroTotal"
    [] root # None /\ total # 0 /\ distributions[id].root # None ->
         "DistributionAlreadyPublished"
    [] root # None /\ total # 0 /\ distributions[id].root = None
         /\ total > uncommittedBalance -> "InsufficientUncommittedBalance"
    [] OTHER -> "no"

publishDistribution(id, root, total) ==
  /\ PublishReverts(id, root, total) = "no"
  /\ distributions' =
       [distributions EXCEPT ![id] = [root |-> root, total |-> total, claimed |-> 0]]
  /\ outstandingCommitment' = outstandingCommitment + total
  /\ UNCHANGED <<hasClaimed, balance, supplied, paid, paused>>

\* claim(id, account, amount, proof): the checked subtraction and the transfer
\* revert when the commitment or the balance is short.
claim(id, account, amount) ==
  LET d == distributions[id] IN
  /\ ~paused
  /\ d.root # None
  /\ <<id, account>> \notin hasClaimed
  /\ [id |-> id, wallet |-> account, amount |-> amount] \in d.root
  /\ d.claimed + amount <= d.total
  /\ amount <= outstandingCommitment /\ amount <= balance
  /\ hasClaimed' = hasClaimed \cup {<<id, account>>}
  /\ distributions' = [distributions EXCEPT ![id].claimed = @ + amount]
  /\ outstandingCommitment' = outstandingCommitment - amount
  /\ balance' = balance - amount
  /\ paid' = [paid EXCEPT ![account] = @ + amount]
  /\ UNCHANGED <<supplied, paused>>

withdrawUncommitted(amount) ==
  /\ amount # 0
  /\ amount <= uncommittedBalance
  /\ balance' = balance - amount
  /\ UNCHANGED <<distributions, hasClaimed, outstandingCommitment, supplied,
                 paid, paused>>

Pause ==
  /\ paused' = ~paused
  /\ UNCHANGED <<distributions, hasClaimed, outstandingCommitment, balance,
                 supplied, paid>>

-----------------------------------------------------------------------------
\* Steps of the treasury.
Treasury ==
  \/ \E amount \in Amounts : Supply(amount) \/ withdrawUncommitted(amount)
  \/ Pause

\* Every transaction the contract can be sent: the publisher commits any root,
\* of finitely many leaves, with any total, and any leaf of it is claimed.
DistributorNext ==
  \/ Treasury
  \/ \E id \in Ids, root \in SUBSET Leaf, total \in Nat :
       IsFiniteSet(root) /\ publishDistribution(id, root, total)
  \/ \E leaf \in Leaf : claim(leaf.id, leaf.wallet, leaf.amount)

DistributorSpec == DistributorInit /\ [][DistributorNext]_contractVars

-----------------------------------------------------------------------------
\* The contract's state is well formed.
DistributorTypeOK ==
  /\ distributions \in [Ids -> [root : (SUBSET Leaf) \cup {None},
                                total : Nat, claimed : Nat]]
  /\ hasClaimed \subseteq Ids \X Accounts
  /\ outstandingCommitment \in Nat
  /\ balance \in Nat
  /\ supplied \in 0..MaxSupply
  /\ paid \in [Accounts -> Nat]
  /\ paused \in BOOLEAN

Owed(id) == distributions[id].total - distributions[id].claimed

\* The balance covers what is committed, and no distribution has paid more than
\* its total (RewardsDistributor.sol:25-36, 172-200).
Covered ==
  /\ outstandingCommitment <= balance
  /\ \A id \in Ids : distributions[id].claimed <= distributions[id].total

Allotted(id, a) == {l.amount : l \in {m \in distributions[id].root : m.wallet = a}}

\* What an account has claimed, by distribution: a root may hold several leaves of
\* one account, and one of them can be claimed.
ClaimedBy(a) ==
  [id \in Ids |-> IF <<id, a>> \in hasClaimed THEN Max(Allotted(id, a)) ELSE 0]

\* Published rewards are backed and paid once: what is committed is covered and
\* is exactly what the published totals still owe, and what an account received
\* is at most the sum of the leaves it claimed, whatever is funded, withdrawn,
\* published or claimed in between.
FullyBacked ==
  /\ Covered
  /\ outstandingCommitment = SumFunction([id \in Ids |-> Owed(id)])
  /\ \A a \in Accounts : paid[a] <= SumFunction(ClaimedBy(a))

\* A published root and its total never change, and no claim is undone
\* (RewardsDistributor.sol:22-24, 124-126).
RootsAreImmutable ==
  [][ /\ \A id \in Ids : distributions[id].root # None =>
           /\ distributions'[id].root = distributions[id].root
           /\ distributions'[id].total = distributions[id].total
           /\ distributions'[id].claimed >= distributions[id].claimed
      /\ hasClaimed \subseteq hasClaimed'
    ]_contractVars

=============================================================================
