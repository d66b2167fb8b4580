----------------------------- MODULE RewardMath -----------------------------
(***************************************************************************)
(* The arithmetic of a distribution: shared-types/src/money.ts and         *)
(* rewards.ts, rewards-math/src/allocation.ts and merkle.ts.  Amounts are  *)
(* integers in base units, as in the code (bigint); the shares, the floor  *)
(* and the weight's scale are parameters so that small pools exercise the  *)
(* cap, the floor and the flooring remainder.                              *)
(***************************************************************************)
EXTENDS Integers, Sequences, FiniteSets, FiniteSetsExt

CONSTANTS POOL_DISTRIBUTABLE_BPS,  \* 8000 in production
          PER_WALLET_CAP_BPS,      \* 200 in production
          MIN_QUALIFYING_WP,       \* 50 in production
          REWARD_WEIGHT_SCALE      \* 10^9 in production

ASSUME RewardMathAssumption ==
  /\ POOL_DISTRIBUTABLE_BPS \in 0..10000
  /\ PER_WALLET_CAP_BPS \in 0..10000
  /\ MIN_QUALIFYING_WP \in Nat \ {0}
  /\ REWARD_WEIGHT_SCALE \in Nat \ {0}

mulDivFloor(amount, numerator, denominator) == (amount * numerator) \div denominator

applyBasisPoints(amount, bps) == mulDivFloor(amount, bps, 10000)

\* Newton's method, followed until it stops falling.
newtonStep(value, previous) == (previous + value \div previous) \div 2

integerSqrt(value) ==
  LET Newton[previous \in 1..value] ==
        IF newtonStep(value, previous) < previous THEN Newton[newtonStep(value, previous)]
        ELSE previous
  IN IF value < 2 THEN value ELSE Newton[value]

rewardWeight(warPoints) ==
  integerSqrt(warPoints * REWARD_WEIGHT_SCALE * REWARD_WEIGHT_SCALE)

qualifiesForDistribution(windowWarPoints) == windowWarPoints >= MIN_QUALIFYING_WP

-----------------------------------------------------------------------------
(***************************************************************************)
(* allocateDistribution.  standings is a function from the wallets with    *)
(* War Points in the window to those points, so no wallet appears twice.   *)
(***************************************************************************)
Qualified(standings) ==
  {w \in DOMAIN standings : qualifiesForDistribution(standings[w])}

Distributable(pool) == applyBasisPoints(pool, POOL_DISTRIBUTABLE_BPS)

Cap(pool) == applyBasisPoints(Distributable(pool), PER_WALLET_CAP_BPS)

WeightOf(standings, wallets) ==
  MapThenSumSet(LAMBDA w : rewardWeight(standings[w]), wallets)

\* One pass: a wallet already capped has the cap, the others share the rest.
\* The shares are all taken against the weights at the head of the pass.
Share(standings, pool, capped, w) ==
  LET rest == Distributable(pool) - Cardinality(capped) * Cap(pool)
      open == Qualified(standings) \ capped
      weight == WeightOf(standings, open)
  IN CASE w \in capped -> Cap(pool)
       [] w \notin capped /\ weight = 0 -> 0
       [] OTHER -> mulDivFloor(IF rest < 0 THEN 0 ELSE rest,
                               rewardWeight(standings[w]), weight)

\* The wallets the cap has bound when a pass adds no more.
CappedWallets(standings, pool) ==
  LET Pass[capped \in SUBSET Qualified(standings)] ==
        LET more == {w \in Qualified(standings) \ capped :
                       Share(standings, pool, capped, w) > Cap(pool)}
        IN IF more = {} THEN capped ELSE Pass[capped \cup more]
  IN Pass[{}]

\* The allocation of every qualified wallet; the threshold is applied last.
allocateDistribution(standings, pool, minimumClaim) ==
  LET capped == CappedWallets(standings, pool)
      due(w) == Share(standings, pool, capped, w)
  IN IF Distributable(pool) = 0 THEN <<>>
     ELSE [w \in Qualified(standings) |->
             [amount |-> IF due(w) >= minimumClaim THEN due(w) ELSE 0,
              carriedForward |-> IF due(w) >= minimumClaim THEN 0 ELSE due(w),
              capped |-> w \in capped]]

Claimable(allocations) == {w \in DOMAIN allocations : allocations[w].amount > 0}

totalAllocated(allocations) ==
  MapThenSumSet(LAMBDA w : allocations[w].amount, DOMAIN allocations)

-----------------------------------------------------------------------------
(***************************************************************************)
(* The Merkle tree over a free hash algebra: a hash is a record of what    *)
(* was hashed, so two are equal only when their preimages are.  A pair is  *)
(* hashed sorted, which makes it the set of its two members; a leaf is     *)
(* hashed twice, which keeps it apart from every pair.                     *)
(***************************************************************************)
leafOf(id, wallet, amount) == [twice |-> <<id, wallet, amount>>]

hashPair(left, right) == [pair |-> {left, right}]

NextLevel(level) ==
  [i \in 1..((Len(level) + 1) \div 2) |->
     IF 2 * i <= Len(level) THEN hashPair(level[2 * i - 1], level[2 * i])
                            ELSE level[2 * i - 1]]

\* levels[d], the nodes d steps above the leaves; the last has one node.
buildLevels(leaves) ==
  LET Depth == CHOOSE d \in 0..Len(leaves) :
                 2 ^ d >= Len(leaves) /\ \A e \in 0..(d - 1) : 2 ^ e < Len(leaves)
      Level[d \in 0..Depth] == IF d = 0 THEN leaves ELSE NextLevel(Level[d - 1])
  IN Level

MerkleRoot(leaves) ==
  LET levels == buildLevels(leaves)
  IN levels[Max(DOMAIN levels)][1]

\* The proof of leaf number index: the sibling at each depth, where there is one.
MerkleProof(leaves, index) ==
  LET levels == buildLevels(leaves)
      top == Max(DOMAIN levels)
      Position[d \in 0..top] == IF d = 0 THEN index - 1 ELSE Position[d - 1] \div 2
      sibling(d) == IF Position[d] % 2 = 0 THEN Position[d] + 2 ELSE Position[d]
      Proof[d \in 0..top] ==
        IF d = top THEN <<>>
        ELSE (IF sibling(d) <= Len(levels[d]) THEN <<levels[d][sibling(d)]>> ELSE <<>>)
             \o Proof[d + 1]
  IN Proof[0]

verifyProof(leaf, proof, root) ==
  LET Computed[k \in 0..Len(proof)] ==
        IF k = 0 THEN leaf ELSE hashPair(Computed[k - 1], proof[k])
  IN Computed[Len(proof)] = root

=============================================================================
