---------------------- MODULE RewardsProofs ----------------------
(***************************************************************************)
(* The rewards contract for any accounts, any distributions and any        *)
(* treasury: what is committed stays covered, a distribution never pays    *)
(* more than its total, and a published root is never touched again.  The  *)
(* commitment is exactly the sum of what the distributions owe: the sums   *)
(* are recursive functions, and induction over the size of what is summed  *)
(* gives that they exist and what one changed summand does to them.        *)
(***************************************************************************)
EXTENDS Distribution, RewardClaims, FiniteSetTheorems, SequenceTheorems,
        WellFoundedInduction, TLAPS

\* Any set of natural numbers has a least: the library's induction, for sets.
LEMMA LeastNatural ==
  ASSUME NEW T, T \subseteq Nat, T # {}
  PROVE  \E n \in T : \A m \in T : n <= m
<1>1. IsWellFoundedOn({ss \in Nat \X Nat : ss[1] < ss[2]}, Nat)
  BY NatLessThanWellFounded DEF OpToRel
<1>2. PICK n \in T : \A m \in T : ~ (<<m, n>> \in {ss \in Nat \X Nat : ss[1] < ss[2]})
  BY <1>1, WFMin, Zenon
<1>3. ASSUME NEW m \in T PROVE n <= m
  <2>1. m \in Nat /\ n \in Nat
    OBVIOUS
  <2>2. ~ (<<m, n>> \in {ss \in Nat \X Nat : ss[1] < ss[2]})
    BY <1>2
  <2>3. QED
    BY <2>1, <2>2
<1>4. QED
  BY <1>3

-----------------------------------------------------------------------------
(***************************************************************************)
(* Sums over finite sets.                                                  *)
(***************************************************************************)

\* One step of the recursion behind SumFunction: f is summed, g has the sums of smaller sets.
Added(f, g, s) == IF s = {} THEN 0 ELSE LET x == CHOOSE x \in s : TRUE IN f[x] + g[s \ {x}]

SumFrom(f, g) == g = [s \in SUBSET DOMAIN f |-> Added(f, g, s)]

LEMMA SumIs ==
  ASSUME NEW f
  PROVE  \E g : /\ g = CHOOSE h : SumFrom(f, h)
                /\ SumFunction(f) = g[DOMAIN f]
BY DEF SumFunction, SumFunctionOnSet, FoldFunctionOnSet, MapThenFoldSet, Added, SumFrom

\* A nonempty finite set less the member it is unfolded by is smaller.
LEMMA OneLess ==
  ASSUME NEW s, IsFiniteSet(s), s # {}, NEW x, x = CHOOSE y \in s : TRUE
  PROVE  /\ x \in s /\ IsFiniteSet(s \ {x})
         /\ Cardinality(s) \in Nat \ {0} /\ Cardinality(s \ {x}) = Cardinality(s) - 1
<1>1. x \in s
  OBVIOUS
<1>2. QED
  BY <1>1, FS_RemoveElement, FS_CardinalityType, FS_EmptySet

Small(d, n) == {s \in SUBSET d : Cardinality(s) <= n}

SumsUpTo(f, n, g) ==
  /\ g = [s \in Small(DOMAIN f, n) |-> g[s]]
  /\ \A s \in Small(DOMAIN f, n) : g[s] = Added(f, g, s)

\* The recursion has a solution, by induction on the size of the sets summed over.
LEMMA SumExists ==
  ASSUME NEW f, IsFiniteSet(DOMAIN f)
  PROVE  \E g : SumFrom(f, g)
<1> DEFINE d == DOMAIN f
           T == {n \in Nat : ~\E g : SumsUpTo(f, n, g)}
<1>1. \A s \in SUBSET d : IsFiniteSet(s) /\ Cardinality(s) \in Nat /\ Cardinality(s) <= Cardinality(d)
  BY FS_Subset, FS_CardinalityType
<1>2. \E g : SumsUpTo(f, 0, g)
  <2>1. \A s \in Small(d, 0) : s = {}
    BY <1>1, FS_EmptySet DEF Small
  <2>2. PICK g : g = [s \in Small(d, 0) |-> 0]
    OBVIOUS
  <2>3. QED
    BY <2>1, <2>2 DEF SumsUpTo, Added
<1>3. ASSUME NEW n \in Nat, NEW g, SumsUpTo(f, n, g)
      PROVE  \E h : SumsUpTo(f, n + 1, h)
  <2>1. PICK h : h = [s \in Small(d, n + 1) |->
                        IF Cardinality(s) <= n THEN g[s] ELSE Added(f, g, s)]
    OBVIOUS
  <2>2. \A s \in Small(d, n) : s \in Small(d, n + 1) /\ h[s] = g[s]
    BY <1>1, <2>1 DEF Small
  <2>3. ASSUME NEW s \in Small(d, n + 1) PROVE h[s] = Added(f, h, s)
    <3>1. h[s] = Added(f, g, s)
      <4>1. CASE Cardinality(s) <= n
        BY <1>3, <2>1, <4>1 DEF Small, SumsUpTo
      <4>2. CASE ~(Cardinality(s) <= n)
        BY <2>1, <4>2
      <4>3. QED
        BY <4>1, <4>2
    <3>2. CASE s = {}
      BY <3>1, <3>2 DEF Added
    <3>3. CASE s # {}
      <4>1. PICK x : x = CHOOSE y \in s : TRUE
        OBVIOUS
      <4>2. s \in SUBSET d /\ IsFiniteSet(s) /\ Cardinality(s) <= n + 1
        BY <1>1 DEF Small
      <4>6. Cardinality(s) \in Nat /\ Cardinality(s \ {x}) = Cardinality(s) - 1
        BY <3>3, <4>1, <4>2, OneLess
      <4>3. s \ {x} \in Small(d, n)
        BY <4>2, <4>6 DEF Small
      <4>4. g[s \ {x}] = h[s \ {x}]
        BY <2>2, <4>3
      <4>5. QED
        BY <3>1, <3>3, <4>1, <4>4 DEF Added
    <3>4. QED
      BY <3>2, <3>3
  <2>4. QED
    BY <2>1, <2>3 DEF SumsUpTo
<1>4. T = {}
  <2> SUFFICES ASSUME T # {} PROVE FALSE
    OBVIOUS
  <2>1. PICK n \in T : \A m \in T : n <= m
    BY LeastNatural
  <2>2. n \in Nat /\ n # 0 /\ n - 1 \in Nat /\ ~(n <= n - 1) /\ (n - 1) + 1 = n
    BY <1>2, <2>1
  <2>3. PICK g : SumsUpTo(f, n - 1, g)
    BY <2>1, <2>2
  <2>4. QED
    BY <1>3, <2>1, <2>2, <2>3
<1>5. Cardinality(d) \in Nat /\ Small(d, Cardinality(d)) = SUBSET d
  BY <1>1, FS_CardinalityType DEF Small
<1>6. PICK g : SumsUpTo(f, Cardinality(d), g)
  BY <1>4, <1>5
<1>7. QED
  BY <1>5, <1>6 DEF SumsUpTo, SumFrom

\* What SumFunction is: the sums over all the subsets, of which it takes the last.
Sums(d, f, g) ==
  /\ SumFunction(f) = g[d]
  /\ \A s \in SUBSET d : g[s] = Added(f, g, s)

LEMMA SumsOf ==
  ASSUME NEW d, IsFiniteSet(d), NEW f, DOMAIN f = d
  PROVE  \E g : Sums(d, f, g)
<1>1. PICK g : g = (CHOOSE h : SumFrom(f, h)) /\ SumFunction(f) = g[DOMAIN f]
  BY SumIs
<1>2. SumFrom(f, g)
  BY <1>1, SumExists
<1>3. QED
  BY <1>1, <1>2 DEF SumFrom, Sums

\* One changed summand changes the sum by the difference.
LEMMA SumOfChange ==
  ASSUME NEW d, IsFiniteSet(d), NEW f \in [d -> Int], NEW x \in d, NEW v \in Int
  PROVE  /\ SumFunction(f) \in Int
         /\ SumFunction([f EXCEPT ![x] = v]) = SumFunction(f) - f[x] + v
<1>1. PICK c : c = [f EXCEPT ![x] = v]
  OBVIOUS
<1>2. DOMAIN f = d /\ DOMAIN c = d /\ c[x] = v /\ \A y \in d \ {x} : c[y] = f[y]
  BY <1>1
<1>3. PICK g : Sums(d, f, g)
  BY ONLY <1>2, IsFiniteSet(d), SumsOf
<1>4. PICK h : Sums(d, c, h)
  BY ONLY <1>2, IsFiniteSet(d), SumsOf
<1> DEFINE Right(s) == g[s] \in Int /\ h[s] = g[s] + IF x \in s THEN v - f[x] ELSE 0
           T == {n \in Nat : \E s \in SUBSET d : Cardinality(s) = n /\ ~Right(s)}
<1>5. T = {}
  <2> SUFFICES ASSUME T # {} PROVE FALSE
    OBVIOUS
  <2>1. PICK n \in T : \A m \in T : n <= m
    BY LeastNatural
  <2>2. PICK s \in SUBSET d : Cardinality(s) = n /\ ~Right(s)
    BY <2>1
  <2>3. IsFiniteSet(s)
    BY FS_Subset
  <2>4. CASE s = {}
    <3>1. g[s] = 0 /\ h[s] = 0 /\ x \notin s
      BY <1>3, <1>4, <2>4 DEF Added, Sums
    <3>2. QED
      BY <2>2, <3>1
  <2>5. CASE s # {}
    <3>1. PICK y : y = CHOOSE z \in s : TRUE
      OBVIOUS
    <3>2. PICK rest : rest = s \ {y}
      OBVIOUS
    <3>3. /\ y \in s /\ rest \in SUBSET d
          /\ Cardinality(rest) = n - 1 /\ n \in Nat \ {0}
      BY <2>2, <2>3, <2>5, <3>1, <3>2, OneLess
    <3>4. n - 1 \in Nat /\ ~(n <= n - 1)
      BY <3>3
    <3>5. n - 1 \notin T
      BY <2>1, <3>4
    <3>6. Right(rest)
      BY <3>3, <3>4, <3>5
    <3>7. g[s] = f[y] + g[rest] /\ h[s] = c[y] + h[rest]
      BY <1>3, <1>4, <2>5, <3>1, <3>2 DEF Added, Sums
    <3>8. f[y] \in Int /\ f[x] \in Int
      BY <3>3
    <3>9. CASE y = x
      BY <1>2, <2>2, <3>2, <3>3, <3>6, <3>7, <3>8, <3>9
    <3>10. CASE y # x
      <4>1. c[y] = f[y] /\ (x \in s <=> x \in rest)
        BY <1>2, <3>2, <3>3, <3>10
      <4>2. QED
        BY <2>2, <3>6, <3>7, <3>8, <4>1
    <3>11. QED
      BY <3>9, <3>10
  <2>6. QED
    BY <2>4, <2>5
<1>6. Right(d)
  BY <1>5, FS_CardinalityType
<1>7. f[x] \in Int
  OBVIOUS
<1>8. QED
  BY <1>1, <1>3, <1>4, <1>6, <1>7 DEF Sums

\* A sum of zeros is zero.
LEMMA SumOfZeros ==
  ASSUME NEW d, IsFiniteSet(d)
  PROVE  SumFunction([x \in d |-> 0]) = 0
<1>1. PICK f : f = [x \in d |-> 0]
  OBVIOUS
<1>2. PICK g : Sums(d, f, g)
  BY <1>1, SumsOf
<1> DEFINE T == {n \in Nat : \E s \in SUBSET d : Cardinality(s) = n /\ g[s] # 0}
<1>3. T = {}
  <2> SUFFICES ASSUME T # {} PROVE FALSE
    OBVIOUS
  <2>1. PICK n \in T : \A m \in T : n <= m
    BY LeastNatural
  <2>2. PICK s \in SUBSET d : Cardinality(s) = n /\ g[s] # 0
    BY <2>1
  <2>3. s # {}
    BY <1>2, <2>2 DEF Added, Sums
  <2>4. PICK y : y = CHOOSE z \in s : TRUE
    OBVIOUS
  <2>5. /\ y \in s /\ s \ {y} \in SUBSET d
        /\ Cardinality(s \ {y}) = n - 1 /\ n \in Nat \ {0}
    BY <2>2, <2>3, <2>4, OneLess, FS_Subset
  <2>6. n - 1 \in Nat /\ ~(n <= n - 1)
    BY <2>5
  <2>7. g[s \ {y}] = 0
    BY <2>1, <2>5, <2>6
  <2>8. g[s] = 0
    BY <1>1, <1>2, <2>3, <2>4, <2>5, <2>7 DEF Added, Sums
  <2>9. QED
    BY <2>2, <2>8
<1>4. QED
  BY <1>1, <1>2, <1>3, FS_CardinalityType DEF Sums

\* A finite nonempty set of natural numbers has a largest.
LEMMA LargestOfFinite ==
  ASSUME NEW s \in SUBSET Nat, IsFiniteSet(s), s # {}
  PROVE  Max(s) \in s /\ \A n \in s : n <= Max(s)
<1> DEFINE Bad(r) == r # {} /\ ~\E m \in r : \A n \in r : m >= n
           T == {n \in Nat : \E r \in SUBSET s : Cardinality(r) = n /\ Bad(r)}
<1>1. T = {}
  <2> SUFFICES ASSUME T # {} PROVE FALSE
    OBVIOUS
  <2>1. PICK n \in T : \A m \in T : n <= m
    BY LeastNatural
  <2>2. PICK r \in SUBSET s : Cardinality(r) = n /\ Bad(r)
    BY <2>1
  <2>3. PICK y : y = CHOOSE z \in r : TRUE
    OBVIOUS
  <2>4. PICK rest : rest = r \ {y}
    OBVIOUS
  <2>5. /\ y \in r /\ rest \in SUBSET s
        /\ Cardinality(rest) = n - 1 /\ n \in Nat \ {0}
    BY <2>2, <2>3, <2>4, OneLess, FS_Subset
  <2>6. n - 1 \in Nat /\ ~(n <= n - 1)
    BY <2>5
  <2>7. ~Bad(rest)
    BY <2>1, <2>5, <2>6
  <2>8. CASE rest = {}
    BY <2>2, <2>4, <2>5, <2>8
  <2>9. CASE rest # {}
    <3>1. PICK m \in rest : \A k \in rest : m >= k
      BY <2>7, <2>9
    <3>2. y \in Nat /\ m \in Nat /\ r = rest \cup {y} /\ m \in r
      BY <2>4, <2>5
    <3>3. CASE m >= y
      BY <2>2, <3>1, <3>2, <3>3
    <3>4. CASE ~(m >= y)
      <4>1. \A k \in rest : k \in Nat /\ y >= k
        BY <2>5, <3>1, <3>2, <3>4
      <4>2. QED
        BY <2>2, <2>5, <3>2, <4>1
    <3>5. QED
      BY <3>3, <3>4
  <2>10. QED
    BY <2>8, <2>9
<1>2. Cardinality(s) \in Nat
  BY FS_CardinalityType
<1>3. PICK m \in s : \A n \in s : m >= n
  BY <1>1, <1>2
<1>4. Max(s) \in s /\ \A n \in s : Max(s) >= n
  BY <1>3 DEF Max
<1>5. QED
  BY <1>4

-----------------------------------------------------------------------------
(***************************************************************************)
(* The contract.                                                           *)
(***************************************************************************)

\* None is what an unpublished entry holds, so it is no set of leaves.
CommittedRoot == (SUBSET Leaf) \cup {None}

ContractTypeOK ==
  /\ distributions \in [Ids -> [root : CommittedRoot, total : Nat, claimed : Nat]]
  /\ hasClaimed \subseteq Ids \X Accounts
  /\ outstandingCommitment \in Nat
  /\ balance \in Nat
  /\ supplied \in Nat

ContractInv == ContractTypeOK /\ Covered

\* What may be withdrawn or committed is what is not committed already.
LEMMA UncommittedIsFree ==
  ASSUME ContractInv
  PROVE  /\ uncommittedBalance \in Nat
         /\ uncommittedBalance + outstandingCommitment = balance
BY DEF ContractInv, ContractTypeOK, Covered, uncommittedBalance

\* A publication passes the contract's four checks.
LEMMA PublicationChecked ==
  ASSUME NEW id, NEW root, NEW total, publishDistribution(id, root, total)
  PROVE  /\ root # None /\ total # 0 /\ distributions[id].root = None
         /\ ~(total > uncommittedBalance)
<1>1. PublishReverts(id, root, total) = "no"
  BY DEF publishDistribution
<1>2. QED
  BY <1>1 DEF PublishReverts

LEMMA PublishKeepsInv ==
  ASSUME ContractInv, NEW id \in Ids, NEW root \in SUBSET Leaf, NEW total \in Nat,
         publishDistribution(id, root, total)
  PROVE  ContractInv'
<1>1. total <= uncommittedBalance
  BY PublicationChecked, UncommittedIsFree
<1>2. outstandingCommitment + total <= balance
  BY <1>1, UncommittedIsFree DEF ContractInv, ContractTypeOK
<1>3. /\ distributions' = [distributions EXCEPT ![id] =
                             [root |-> root, total |-> total, claimed |-> 0]]
      /\ outstandingCommitment' = outstandingCommitment + total
      /\ UNCHANGED <<hasClaimed, balance, supplied>>
  BY DEF publishDistribution
<1>4. ContractTypeOK'
  BY <1>3 DEF ContractInv, ContractTypeOK, CommittedRoot
<1>5. Covered'
  BY <1>2, <1>3 DEF ContractInv, ContractTypeOK, Covered
<1>6. QED
  BY <1>4, <1>5 DEF ContractInv

LEMMA ClaimKeepsInv ==
  ASSUME ContractInv, NEW id \in Ids, NEW wallet \in Accounts, NEW amount \in Nat,
         claim(id, wallet, amount)
  PROVE  ContractInv'
<1>1. /\ distributions[id].claimed + amount <= distributions[id].total
      /\ amount <= outstandingCommitment /\ amount <= balance
      /\ hasClaimed' = hasClaimed \cup {<<id, wallet>>}
      /\ distributions' = [distributions EXCEPT ![id].claimed = @ + amount]
      /\ outstandingCommitment' = outstandingCommitment - amount
      /\ balance' = balance - amount /\ supplied' = supplied
  BY DEF claim
<1>2. ContractTypeOK'
  BY <1>1 DEF ContractInv, ContractTypeOK
<1>3. Covered'
  BY <1>1 DEF ContractInv, ContractTypeOK, Covered
<1>4. QED
  BY <1>2, <1>3 DEF ContractInv

LEMMA TreasuryKeepsInv ==
  ASSUME ContractInv, Treasury
  PROVE  ContractInv'
<1>1. ASSUME NEW amount \in Amounts, Supply(amount)
      PROVE  ContractInv'
  BY <1>1, DistributorAssumption DEF Supply, ContractInv, ContractTypeOK, Covered
<1>2. ASSUME NEW amount \in Amounts, withdrawUncommitted(amount)
      PROVE  ContractInv'
  <2>1. amount \in Nat /\ amount + outstandingCommitment <= balance
    BY <1>2, UncommittedIsFree, DistributorAssumption
       DEF withdrawUncommitted, ContractInv, ContractTypeOK
  <2>2. /\ balance' = balance - amount
        /\ UNCHANGED <<distributions, hasClaimed, outstandingCommitment, supplied>>
    BY <1>2 DEF withdrawUncommitted
  <2>3. balance' \in Nat /\ outstandingCommitment <= balance'
    BY <2>1, <2>2 DEF ContractInv, ContractTypeOK
  <2>4. QED
    BY <2>2, <2>3 DEF ContractInv, ContractTypeOK, Covered
<1>3. CASE Pause
  BY <1>3 DEF Pause, ContractInv, ContractTypeOK, Covered
<1>4. QED
  BY <1>1, <1>2, <1>3 DEF Treasury

LEMMA ContractInvInitially == DistributorInit => ContractInv
BY DEF DistributorInit, ContractInv, ContractTypeOK, CommittedRoot, Covered, Unpublished

LEMMA ContractStepKeepsInv ==
  ASSUME ContractInv, [DistributorNext]_contractVars
  PROVE  ContractInv'
<1>1. CASE UNCHANGED contractVars
  BY <1>1 DEF contractVars, ContractInv, ContractTypeOK, Covered
<1>2. ASSUME NEW leaf \in Leaf, claim(leaf.id, leaf.wallet, leaf.amount)
      PROVE  ContractInv'
  <2>1. leaf.id \in Ids /\ leaf.wallet \in Accounts /\ leaf.amount \in Nat
    BY DEF Leaf
  <2>2. QED
    BY <1>2, <2>1, ClaimKeepsInv
<1>3. QED
  BY <1>1, <1>2, PublishKeepsInv, TreasuryKeepsInv DEF DistributorNext

\* Whatever is funded, withdrawn, published and claimed, the contract can pay
\* every claim it has committed to (RewardsDistributor.sol:25-36, 172-200).
THEOREM CommitmentsAreCovered == DistributorSpec => []Covered
<1>1. ContractInv => Covered
  BY DEF ContractInv
<1>2. QED
  BY <1>1, ContractInvInitially, ContractStepKeepsInv, PTL DEF DistributorSpec

\* Whatever the publisher commits, an entry that holds no root is empty, amounts never turn
\* negative, and no more is ever supplied than there is (RewardsDistributor.sol:40-60).
THEOREM ContractIsWellTyped == DistributorSpec => []DistributorTypeOK
<1> DEFINE More == supplied <= MaxSupply /\ paid \in [Accounts -> Nat] /\ paused \in BOOLEAN
<1>1. DistributorInit => More
  <2>1. MaxSupply \in Nat
    BY DistributorAssumption
  <2>2. DistributorInit => supplied = 0 /\ paid = [a \in Accounts |-> 0] /\ paused = FALSE
    BY DEF DistributorInit
  <2>3. DistributorInit => paused \in BOOLEAN
    BY <2>2, Zenon
  <2>4. DistributorInit => supplied <= MaxSupply /\ paid \in [Accounts -> Nat]
    BY <2>1, <2>2
  <2>5. QED
    BY <2>3, <2>4
<1>2. ASSUME ContractInv, More, [DistributorNext]_contractVars
      PROVE  More'
  <2>1. CASE UNCHANGED contractVars
    BY <1>2, <2>1 DEF contractVars
  <2>2. CASE Treasury
    <3>1. ASSUME NEW amount \in Amounts, Supply(amount)
          PROVE  More'
      BY <1>2, <3>1 DEF Supply
    <3>2. ASSUME NEW amount \in Amounts, withdrawUncommitted(amount)
          PROVE  More'
      BY <1>2, <3>2 DEF withdrawUncommitted
    <3>3. CASE Pause
      BY <1>2, <3>3 DEF Pause
    <3>4. QED
      BY <2>2, <3>1, <3>2, <3>3 DEF Treasury
  <2>3. ASSUME NEW id, NEW root, NEW total, publishDistribution(id, root, total)
        PROVE  More'
    BY <1>2, <2>3 DEF publishDistribution
  <2>4. ASSUME NEW leaf \in Leaf, claim(leaf.id, leaf.wallet, leaf.amount)
        PROVE  More'
    <3>1. leaf.wallet \in Accounts /\ leaf.amount \in Nat
      BY DEF Leaf
    <3>2. /\ paid' = [paid EXCEPT ![leaf.wallet] = paid[leaf.wallet] + leaf.amount]
          /\ UNCHANGED <<supplied, paused>>
      BY <2>4 DEF claim
    <3>3. QED
      BY <1>2, <3>1, <3>2
  <2>5. QED
    BY <1>2, <2>1, <2>2, <2>3, <2>4 DEF DistributorNext
<1>3. ContractInv /\ More => DistributorTypeOK
  BY DistributorAssumption DEF ContractInv, ContractTypeOK, CommittedRoot, DistributorTypeOK
<1>4. QED
  BY <1>1, <1>2, <1>3, ContractInvInitially, ContractStepKeepsInv, PTL DEF DistributorSpec

\* A published root and its total never change and no claim is undone
\* (RewardsDistributor.sol:22-24, 124-126).
THEOREM RootsNeverChange == DistributorSpec => RootsAreImmutable
<1> DEFINE Kept ==
      /\ \A id \in Ids : distributions[id].root # None =>
           /\ distributions'[id].root = distributions[id].root
           /\ distributions'[id].total = distributions[id].total
           /\ distributions'[id].claimed >= distributions[id].claimed
      /\ hasClaimed \subseteq hasClaimed'
<1>1. ContractInv /\ [DistributorNext]_contractVars => [Kept]_contractVars
  <2> SUFFICES ASSUME ContractInv, DistributorNext
               PROVE  Kept
    OBVIOUS
  <2>1. /\ distributions \in [Ids -> [root : CommittedRoot, total : Nat, claimed : Nat]]
        /\ \A id \in Ids : distributions[id].claimed \in Nat
    BY DEF ContractInv, ContractTypeOK
  <2>2. ASSUME NEW id \in Ids, NEW root \in SUBSET Leaf, NEW total \in Nat,
               publishDistribution(id, root, total)
        PROVE  Kept
    <3>1. /\ distributions[id].root = None /\ hasClaimed' = hasClaimed
          /\ distributions' = [distributions EXCEPT ![id] =
                                 [root |-> root, total |-> total, claimed |-> 0]]
      BY <2>2, PublicationChecked DEF publishDistribution
    <3>2. QED
      BY <2>1, <3>1
  <2>3. ASSUME NEW leaf \in Leaf, claim(leaf.id, leaf.wallet, leaf.amount)
        PROVE  Kept
    <3>1. /\ distributions' = [distributions EXCEPT ![leaf.id].claimed = @ + leaf.amount]
          /\ hasClaimed \subseteq hasClaimed' /\ leaf.amount \in Nat /\ leaf.id \in Ids
      BY <2>3 DEF claim, Leaf
    <3>2. QED
      BY <2>1, <3>1
  <2>4. CASE Treasury
    <3>1. UNCHANGED <<distributions, hasClaimed>>
      BY <2>4 DEF Treasury, Supply, withdrawUncommitted, Pause
    <3>2. QED
      BY <2>1, <3>1
  <2>5. QED
    BY <2>2, <2>3, <2>4 DEF DistributorNext
<1>2. QED
  BY <1>1, ContractInvInitially, ContractStepKeepsInv, PTL
     DEF DistributorSpec, RootsAreImmutable

-----------------------------------------------------------------------------
\* Who has claimed has claimed from a root, a published root stays, and the sums hold.
BackedInv ==
  /\ ContractInv
  /\ paid \in [Accounts -> Nat]
  /\ \A id \in Ids :
       IF distributions[id].root = None THEN Owed(id) = 0 ELSE IsFiniteSet(distributions[id].root)
  /\ \A id \in Ids, a \in Accounts : <<id, a>> \in hasClaimed =>
       /\ distributions[id].root # None
       /\ Allotted(id, a) # {}
  /\ outstandingCommitment = SumFunction([id \in Ids |-> Owed(id)])
  /\ \A a \in Accounts : paid[a] <= SumFunction(ClaimedBy(a))

\* A finite root: the amounts allotted to an account have a largest.
LEMMA LargestLeaf ==
  ASSUME ContractTypeOK, NEW id \in Ids, NEW a \in Accounts,
         distributions[id].root # None, IsFiniteSet(distributions[id].root),
         Allotted(id, a) # {}
  PROVE  /\ Max(Allotted(id, a)) \in Nat
         /\ \A n \in Allotted(id, a) : n <= Max(Allotted(id, a))
<1>1. PICK root \in SUBSET Leaf : root = distributions[id].root
  BY DEF ContractTypeOK, CommittedRoot
<1>2. PICK mine : mine = {m \in root : m.wallet = a}
  OBVIOUS
<1>3. PICK amounts : amounts = {l.amount : l \in mine}
  OBVIOUS
<1>4. IsFiniteSet(mine) /\ mine \subseteq Leaf
  BY <1>1, <1>2, FS_Subset
<1>5. IsFiniteSet(amounts)
  <2>1. PICK f : f = [l \in mine |-> l.amount]
    OBVIOUS
  <2>2. f \in Surjection(mine, amounts)
    BY <1>3, <2>1 DEF Surjection
  <2>3. QED
    BY <1>4, <2>2, FS_Surjection
<1>6. amounts \in SUBSET Nat
  BY <1>3, <1>4 DEF Leaf
<1>7. Allotted(id, a) = amounts
  BY <1>1, <1>2, <1>3 DEF Allotted
<1>8. QED
  BY <1>5, <1>6, <1>7, LargestOfFinite

\* The leaf an account claims is among those allotted to it.
LEMMA LeafAtMostLargest ==
  ASSUME ContractTypeOK, NEW id \in Ids, NEW a \in Accounts, NEW amount \in Nat,
         distributions[id].root # None, IsFiniteSet(distributions[id].root),
         [id |-> id, wallet |-> a, amount |-> amount] \in distributions[id].root
  PROVE  /\ Allotted(id, a) # {}
         /\ Max(Allotted(id, a)) \in Nat /\ amount <= Max(Allotted(id, a))
<1>1. amount \in Allotted(id, a)
  <2>1. PICK leaf : leaf = [id |-> id, wallet |-> a, amount |-> amount]
    OBVIOUS
  <2>2. leaf \in distributions[id].root /\ leaf.wallet = a /\ leaf.amount = amount
    BY <2>1
  <2>3. QED
    BY <2>2 DEF Allotted
<1>2. QED
  BY <1>1, LargestLeaf

\* A distribution is published: it owes its total, and nobody has claimed from it.
LEMMA PublishKeepsBacked ==
  ASSUME BackedInv, NEW id \in Ids, NEW root \in SUBSET Leaf, IsFiniteSet(root),
         NEW total \in Nat, publishDistribution(id, root, total)
  PROVE  BackedInv'
<1>1. /\ distributions[id].root = None /\ root # None
      /\ distributions' = [distributions EXCEPT ![id] =
                             [root |-> root, total |-> total, claimed |-> 0]]
      /\ outstandingCommitment' = outstandingCommitment + total
      /\ hasClaimed' = hasClaimed /\ paid' = paid
  BY PublicationChecked DEF publishDistribution
<1>2. ContractInv' /\ ContractTypeOK
  BY PublishKeepsInv DEF BackedInv, ContractInv
<1>3. /\ distributions'[id] = [root |-> root, total |-> total, claimed |-> 0]
      /\ \A other \in Ids \ {id} : distributions'[other] = distributions[other]
  BY <1>1, <1>2 DEF ContractTypeOK
<1>4. PICK owed : owed = [i \in Ids |-> Owed(i)]
  OBVIOUS
<1>5. owed \in [Ids -> Int] /\ owed[id] = 0
  BY <1>1, <1>2, <1>4 DEF BackedInv, ContractTypeOK, Owed
<1>6. [i \in Ids |-> Owed(i)]' = [owed EXCEPT ![id] = total]
  BY <1>2, <1>3, <1>4 DEF Owed, ContractTypeOK
<1>7. outstandingCommitment' = SumFunction([i \in Ids |-> Owed(i)]')
  <2>1. outstandingCommitment = SumFunction(owed)
    BY <1>4 DEF BackedInv
  <2>2. SumFunction([owed EXCEPT ![id] = total]) = SumFunction(owed) - owed[id] + total
    <3>1. IsFiniteSet(Ids) /\ total \in Int
      BY DistributorAssumption
    <3>2. QED
      BY ONLY <1>5, <3>1, id \in Ids, SumOfChange
  <2>3. SumFunction(owed) \in Nat
    BY <1>2, <2>1 DEF ContractTypeOK
  <2>4. QED
    BY <1>1, <1>5, <1>6, <2>1, <2>2, <2>3
<1>8. \A a \in Accounts : <<id, a>> \notin hasClaimed
  BY <1>1 DEF BackedInv
<1>9. \A i \in Ids, a \in Accounts : <<i, a>> \in hasClaimed =>
        i # id /\ Allotted(i, a)' = Allotted(i, a)
  BY <1>3, <1>8 DEF Allotted
<1>10. ASSUME NEW a \in Accounts PROVE ClaimedBy(a)' = ClaimedBy(a)
  BY <1>1, <1>9 DEF ClaimedBy
<1>11. \A i \in Ids :
         IF distributions'[i].root = None THEN Owed(i)' = 0 ELSE IsFiniteSet(distributions'[i].root)
  BY <1>1, <1>3 DEF BackedInv, Owed
<1>12. \A i \in Ids, a \in Accounts : <<i, a>> \in hasClaimed' =>
         distributions'[i].root # None /\ Allotted(i, a)' # {}
  BY <1>1, <1>3, <1>9 DEF BackedInv
<1>13. \A a \in Accounts : paid'[a] <= SumFunction(ClaimedBy(a)')
  BY <1>1, <1>10 DEF BackedInv
<1>14. paid' \in [Accounts -> Nat]
  BY <1>1 DEF BackedInv
<1>15. QED
  BY <1>2, <1>7, <1>11, <1>12, <1>13, <1>14 DEF BackedInv

\* A claim: the distribution owes that much less, and the account has claimed one more leaf.
LEMMA ClaimKeepsBacked ==
  ASSUME BackedInv, NEW id \in Ids, NEW wallet \in Accounts, NEW amount \in Nat,
         claim(id, wallet, amount)
  PROVE  BackedInv'
<1>1. /\ distributions[id].root # None
      /\ <<id, wallet>> \notin hasClaimed
      /\ [id |-> id, wallet |-> wallet, amount |-> amount] \in distributions[id].root
      /\ hasClaimed' = hasClaimed \cup {<<id, wallet>>}
      /\ distributions' = [distributions EXCEPT ![id].claimed = @ + amount]
      /\ outstandingCommitment' = outstandingCommitment - amount
      /\ paid' = [paid EXCEPT ![wallet] = @ + amount]
  BY DEF claim
<1>2. ContractInv' /\ ContractTypeOK
  BY ClaimKeepsInv DEF BackedInv, ContractInv
<1>3. /\ \A i \in Ids : /\ distributions'[i].root = distributions[i].root
                         /\ distributions'[i].total = distributions[i].total
      /\ distributions'[id].claimed = distributions[id].claimed + amount
      /\ \A i \in Ids \ {id} : distributions'[i] = distributions[i]
  BY <1>1, <1>2 DEF ContractTypeOK
<1>4. PICK owed : owed = [i \in Ids |-> Owed(i)]
  OBVIOUS
<1>5. owed \in [Ids -> Int] /\ owed[id] - amount \in Int
  BY <1>2, <1>4 DEF ContractTypeOK, Owed
<1>6. [i \in Ids |-> Owed(i)]' = [owed EXCEPT ![id] = owed[id] - amount]
  BY <1>2, <1>3, <1>4 DEF Owed, ContractTypeOK
<1>7. outstandingCommitment' = SumFunction([i \in Ids |-> Owed(i)]')
  <2>1. outstandingCommitment = SumFunction(owed)
    BY <1>4 DEF BackedInv
  <2>2. SumFunction([owed EXCEPT ![id] = owed[id] - amount]) =
          SumFunction(owed) - owed[id] + (owed[id] - amount)
    <3>1. IsFiniteSet(Ids)
      BY DistributorAssumption
    <3>2. QED
      BY ONLY <1>5, <3>1, id \in Ids, SumOfChange
  <2>3. SumFunction(owed) \in Nat /\ owed[id] \in Int
    BY <1>2, <1>5, <2>1 DEF ContractTypeOK
  <2>4. QED
    BY <1>1, <1>6, <2>1, <2>2, <2>3
<1>8. \A i \in Ids, a \in Accounts : Allotted(i, a)' = Allotted(i, a)
  BY <1>3 DEF Allotted
<1>9. IsFiniteSet(distributions[id].root)
  BY <1>1 DEF BackedInv
<1>10. /\ Allotted(id, wallet) # {}
       /\ Max(Allotted(id, wallet)) \in Nat /\ amount <= Max(Allotted(id, wallet))
  BY <1>1, <1>2, <1>9, LeafAtMostLargest
<1>11. ASSUME NEW a \in Accounts, a # wallet PROVE paid'[a] <= SumFunction(ClaimedBy(a)')
  <2>1. ClaimedBy(a)' = ClaimedBy(a)
    BY <1>1, <1>8, <1>11 DEF ClaimedBy
  <2>2. QED
    BY <1>1, <1>11, <2>1 DEF BackedInv
<1>12. paid'[wallet] <= SumFunction(ClaimedBy(wallet)')
  <2>1. PICK by : by = ClaimedBy(wallet)
    OBVIOUS
  <2>2. PICK most \in Nat : most = Max(Allotted(id, wallet))
    BY <1>10
  <2>3. ASSUME NEW i \in Ids PROVE by[i] \in Int
    <3>1. CASE <<i, wallet>> \in hasClaimed
      <4>1. /\ distributions[i].root # None /\ IsFiniteSet(distributions[i].root)
            /\ Allotted(i, wallet) # {}
        BY <3>1 DEF BackedInv
      <4>2. Max(Allotted(i, wallet)) \in Nat
        BY <1>2, <4>1, LargestLeaf
      <4>3. QED
        BY <2>1, <3>1, <4>2 DEF ClaimedBy
    <3>2. CASE <<i, wallet>> \notin hasClaimed
      BY <2>1, <3>2 DEF ClaimedBy
    <3>3. QED
      BY <3>1, <3>2
  <2>4. by \in [Ids -> Int] /\ by[id] = 0
    BY <1>1, <2>1, <2>3 DEF ClaimedBy
  <2>5. ClaimedBy(wallet)' = [by EXCEPT ![id] = most]
    BY <1>1, <1>8, <2>1, <2>2 DEF ClaimedBy
  <2>6. SumFunction(by) \in Int /\ SumFunction([by EXCEPT ![id] = most]) = SumFunction(by) - by[id] + most
    <3>1. IsFiniteSet(Ids) /\ most \in Int
      BY DistributorAssumption
    <3>2. QED
      BY ONLY <2>4, <3>1, id \in Ids, SumOfChange
  <2>7. paid[wallet] \in Nat /\ paid[wallet] <= SumFunction(by)
    BY <2>1 DEF BackedInv
  <2>8. paid'[wallet] = paid[wallet] + amount
    BY <1>1 DEF BackedInv
  <2>9. QED
    BY <1>10, <2>2, <2>4, <2>5, <2>6, <2>7, <2>8
<1>13. \A i \in Ids :
         IF distributions'[i].root = None THEN Owed(i)' = 0 ELSE IsFiniteSet(distributions'[i].root)
  BY <1>1, <1>3 DEF BackedInv, Owed
<1>14. \A i \in Ids, a \in Accounts : <<i, a>> \in hasClaimed' =>
         distributions'[i].root # None /\ Allotted(i, a)' # {}
  BY <1>1, <1>3, <1>8, <1>10 DEF BackedInv
<1>15. paid' \in [Accounts -> Nat]
  BY <1>1 DEF BackedInv
<1>16. QED
  BY <1>2, <1>7, <1>11, <1>12, <1>13, <1>14, <1>15 DEF BackedInv

\* Steps that publish nothing and claim nothing.
LEMMA StandingBacked ==
  ASSUME BackedInv, ContractInv',
         UNCHANGED <<distributions, hasClaimed, outstandingCommitment, paid>>
  PROVE  BackedInv'
<1>1. \A i \in Ids : Owed(i)' = Owed(i)
  BY DEF Owed
<1>2. \A i \in Ids, a \in Accounts : Allotted(i, a)' = Allotted(i, a)
  BY DEF Allotted
<1>3. [i \in Ids |-> Owed(i)]' = [i \in Ids |-> Owed(i)]
  BY <1>1
<1>4. \A a \in Accounts : ClaimedBy(a)' = ClaimedBy(a)
  BY <1>2 DEF ClaimedBy
<1>5. QED
  BY <1>1, <1>2, <1>3, <1>4 DEF BackedInv

LEMMA BackedInvInitially == DistributorInit => BackedInv
<1> SUFFICES ASSUME DistributorInit PROVE BackedInv
  OBVIOUS
<1>1. PICK zeros : zeros = [i \in Ids |-> 0]
  OBVIOUS
<1>2. [i \in Ids |-> Owed(i)] = zeros
  BY <1>1 DEF DistributorInit, Owed, Unpublished
<1>3. \A a \in Accounts : ClaimedBy(a) = zeros
  BY <1>1 DEF DistributorInit, ClaimedBy
<1>4. SumFunction(zeros) = 0
  BY <1>1, DistributorAssumption, SumOfZeros
<1>5. QED
  BY <1>2, <1>3, <1>4, ContractInvInitially DEF DistributorInit, BackedInv, Owed, Unpublished

\* The contract is backed, to the unit: what is committed is covered and is the sum of what
\* the published distributions still owe, and no account has received more than the leaves
\* it claimed (RewardsDistributor.sol:124-200).
THEOREM PublishedIsBacked == DistributorSpec => []FullyBacked
<1>1. BackedInv => FullyBacked
  BY DEF BackedInv, ContractInv, FullyBacked
<1>2. BackedInv /\ [DistributorNext]_contractVars => BackedInv'
  <2> SUFFICES ASSUME BackedInv, [DistributorNext]_contractVars PROVE BackedInv'
    OBVIOUS
  <2>1. ContractInv'
    BY ContractStepKeepsInv DEF BackedInv
  <2>2. CASE UNCHANGED contractVars
    BY <2>1, <2>2, StandingBacked DEF contractVars
  <2>3. CASE Treasury
    BY <2>1, <2>3, StandingBacked DEF Treasury, Supply, withdrawUncommitted, Pause
  <2>4. ASSUME NEW leaf \in Leaf, claim(leaf.id, leaf.wallet, leaf.amount)
        PROVE  BackedInv'
    <3>1. leaf.id \in Ids /\ leaf.wallet \in Accounts /\ leaf.amount \in Nat
      BY DEF Leaf
    <3>2. QED
      BY <2>4, <3>1, ClaimKeepsBacked
  <2>5. QED
    BY <2>2, <2>3, <2>4, PublishKeepsBacked DEF DistributorNext
<1>3. QED
  BY <1>1, <1>2, BackedInvInitially, PTL DEF DistributorSpec

-----------------------------------------------------------------------------
(***************************************************************************)
(* Distributions.  A window's rows are its own from the snapshot on: every *)
(* later snapshot takes rows nobody has, and every later award is nobody's *)
(* yet.  So what the file says, what calculate works from, and what a      *)
(* later reader of the file works from are one and the same.  A root on    *)
(* chain is there for good, and the job records a window only on what it   *)
(* has read there.                                                         *)
(***************************************************************************)

Taken == {"SNAPSHOT", "CALCULATED", "PUBLISHED"}
Settled == {"CALCULATED", "PUBLISHED"}

\* A process that has its pool and its threshold carries them to the snapshot
\* and the file.
SnapshotTaker(pc, id, pool, minimumClaim) ==
  [pc |-> pc, id |-> id, pool |-> pool, minimumClaim |-> minimumClaim]

TakerShape(s) ==
  /\ s.pc \in {"idle", "OPEN", "SNAPSHOT", "claim", "take", "write"}
  /\ s.pc # "idle" => s.id \in Ids
  /\ s.pc \in {"claim", "take", "write"} => s = SnapshotTaker(s.pc, s.id, s.pool, s.minimumClaim)

WindowShape(w) ==
  /\ DOMAIN w = {"state", "start", "end", "pool", "minimumClaim", "allocations",
                 "publicationTx"}
  /\ w.state \in States

WindowsShape ==
  /\ wpLedger \in [Awards -> {Unwritten, Unclaimed} \cup Ids]
  /\ DOMAIN windows = Ids /\ \A id \in Ids : WindowShape(windows[id])
  /\ DOMAIN files = Ids
  /\ DOMAIN taker = Takers /\ \A t \in Takers : TakerShape(taker[t])

\* A written file is its window's: the rows and the pool.
FileIsTheWindows(id) ==
  /\ windows[id].state \in Taken
  /\ files[id].standings = Standings(wpLedger, id)
  /\ files[id].pool = windows[id].pool

FilesInv == \A id \in Ids : files[id].state = "written" => FileIsTheWindows(id)

\* Who is about to write the file took the snapshot.
WritersInv ==
  \A t \in Takers : taker[t].pc = "write" =>
    /\ windows[taker[t].id].state \in Taken
    /\ windows[taker[t].id].pool = taker[t].pool

\* A window's allocations are those of the rows it claimed, with the threshold
\* recorded on it.
AllocationsInv ==
  \A id \in Ids : windows[id].state \in Settled =>
    windows[id].allocations =
      allocateDistribution(Standings(wpLedger, id), windows[id].pool, windows[id].minimumClaim)

WindowInv == WindowsShape /\ FilesInv /\ WritersInv /\ AllocationsInv

\* The job's states carry the window, the transaction or what was read on chain.
JobShape(j) ==
  /\ j.pc \in {"idle", "read", "fund", "send", "sent", "record"}
  /\ j.pc # "idle" => j.id \in Ids
  /\ j.pc \in {"read", "fund", "send"} => j = [pc |-> j.pc, id |-> j.id]
  /\ j.pc = "sent" => j.tx \in 1..MaxTx

ChainShape ==
  /\ DOMAIN distributions = Ids
  /\ \A id \in Ids : DOMAIN distributions[id] = {"root", "total", "claimed"}
  /\ JobShape(job)
  /\ txs \in [1..MaxTx -> {"unsent", "pending", "success", "reverted"}]
  /\ txId \in [1..MaxTx -> Ids \cup {0}]
  /\ \A n \in 1..MaxTx : txs[n] # "unsent" => txId[n] \in Ids
  /\ DOMAIN publishedBy = Ids

\* The transaction that succeeded is the one that put its root on chain.
ReceiptsInv ==
  \A n \in 1..MaxTx : txs[n] = "success" =>
    /\ publishedBy[txId[n]] = n
    /\ distributions[txId[n]].root # None

\* The job waits for its own transaction, and records what the chain holds.
JobInv ==
  /\ job.pc = "sent" => txs[job.tx] # "unsent" /\ txId[job.tx] = job.id
  /\ job.pc = "record" =>
       /\ job.root # None
       /\ distributions[job.id].root = job.root
       /\ distributions[job.id].total = job.total
       /\ publishedBy[job.id] = job.tx

\* A window recorded as published is so on chain.
PublishedInv ==
  \A id \in Ids : windows[id].state = "PUBLISHED" =>
    /\ Root(id) # None
    /\ distributions[id].root = Root(id)
    /\ distributions[id].total = Total(id)
    /\ windows[id].publicationTx = publishedBy[id]

ChainInv == ChainShape /\ ReceiptsInv /\ JobInv /\ PublishedInv

DistInv == WindowInv /\ ChainInv

LEMMA DistInvSuffices == DistInv => WindowIsReproducible
BY DEF DistInv, WindowInv, ChainInv, FilesInv, FileIsTheWindows, AllocationsInv, PublishedInv,
       WindowIsReproducible, Settled, Root

LEMMA DistInvInitially == DistributionInit => DistInv
<1> SUFFICES ASSUME DistributionInit PROVE DistInv
  OBVIOUS
<1>1. WindowsShape
  <2>1. \A id \in Ids : windows[id] = NoWindow
    BY DEF DistributionInit
  <2>2. WindowShape(NoWindow)
    BY DEF WindowShape, NoWindow, States
  <2>3. \A t \in Takers : taker[t] = Idle
    BY DEF DistributionInit
  <2>4. TakerShape(Idle)
    BY DEF TakerShape, Idle
  <2>5. QED
    BY <2>1, <2>2, <2>3, <2>4 DEF WindowsShape, DistributionInit
<1>2. FilesInv /\ WritersInv /\ AllocationsInv
  BY DEF DistributionInit, FilesInv, WritersInv, AllocationsInv, Absent, Idle, NoWindow, Settled
<1>3. ChainShape
  BY DEF DistributionInit, DistributorInit, ChainShape, Unpublished, JobShape, Idle
<1>4. ReceiptsInv /\ JobInv /\ PublishedInv
  BY DEF DistributionInit, ReceiptsInv, JobInv, PublishedInv, Idle, NoWindow
<1>5. QED
  BY <1>1, <1>2, <1>3, <1>4 DEF DistInv, WindowInv, ChainInv

\* What a window's rows add up to depends on which rows are its own.
LEMMA SameRowsSameStandings ==
  ASSUME NEW l, NEW m, NEW id, \A a \in Awards : l[a] = id <=> m[a] = id
  PROVE  Standings(l, id) = Standings(m, id)
<1>1. \A w : RowsOf(l, id, w) = RowsOf(m, id, w)
  BY DEF RowsOf
<1>2. QED
  BY <1>1 DEF Standings

\* What a step must do to files, processes and windows to keep what is known.
LEMMA WindowStep ==
  ASSUME WindowInv, WindowsShape',
         \A id \in Ids : windows[id].state \in Taken =>
           /\ windows'[id].state \in Taken
           /\ windows'[id].pool = windows[id].pool
           /\ Standings(wpLedger', id) = Standings(wpLedger, id),
         \A id \in Ids : windows'[id].state \in Settled =>
           \/ /\ windows[id].state \in Settled
              /\ windows'[id].allocations = windows[id].allocations
              /\ windows'[id].minimumClaim = windows[id].minimumClaim
           \/ windows'[id].allocations =
                allocateDistribution(Standings(wpLedger', id), windows'[id].pool,
                                     windows'[id].minimumClaim),
         \A id \in Ids : files'[id].state = "written" =>
           files'[id] = files[id] \/ FileIsTheWindows(id)',
         \A t \in Takers : taker'[t].pc = "write" =>
           \/ taker'[t] = taker[t]
           \/ /\ windows'[taker'[t].id].state \in Taken
              /\ windows'[taker'[t].id].pool = taker'[t].pool
  PROVE  WindowInv'
<1>1. FilesInv'
  <2> SUFFICES ASSUME NEW id \in Ids, files'[id].state = "written"
               PROVE  FileIsTheWindows(id)'
    BY DEF FilesInv
  <2>1. CASE files'[id] = files[id]
    <3>1. FileIsTheWindows(id)
      BY <2>1 DEF WindowInv, FilesInv
    <3>2. QED
      BY <2>1, <3>1 DEF FileIsTheWindows
  <2>2. QED
    BY <2>1
<1>2. WritersInv'
  <2> SUFFICES ASSUME NEW t \in Takers, taker'[t].pc = "write"
               PROVE  /\ windows'[taker'[t].id].state \in Taken
                      /\ windows'[taker'[t].id].pool = taker'[t].pool
    BY DEF WritersInv
  <2>1. CASE taker'[t] = taker[t]
    <3>1. /\ windows[taker[t].id].state \in Taken
          /\ windows[taker[t].id].pool = taker[t].pool
      BY <2>1 DEF WindowInv, WritersInv
    <3>2. taker[t].id \in Ids
      BY <2>1 DEF WindowInv, WindowsShape, TakerShape
    <3>3. QED
      BY <2>1, <3>1, <3>2
  <2>2. QED
    BY <2>1
<1>3. AllocationsInv'
  <2> SUFFICES ASSUME NEW id \in Ids, windows'[id].state \in Settled
               PROVE  windows'[id].allocations =
                        allocateDistribution(Standings(wpLedger', id), windows'[id].pool,
                                             windows'[id].minimumClaim)
    BY DEF AllocationsInv
  <2>1. CASE /\ windows[id].state \in Settled
             /\ windows'[id].allocations = windows[id].allocations
             /\ windows'[id].minimumClaim = windows[id].minimumClaim
    <3>1. windows[id].allocations =
            allocateDistribution(Standings(wpLedger, id), windows[id].pool,
                                 windows[id].minimumClaim)
      BY <2>1 DEF WindowInv, AllocationsInv
    <3>2. windows[id].state \in Taken
      BY <2>1 DEF Settled, Taken
    <3>3. QED
      BY <2>1, <3>1, <3>2
  <2>2. QED
    BY <2>1
<1>4. QED
  BY <1>1, <1>2, <1>3 DEF WindowInv

\* A process's own steps, up to the snapshot, are nothing to the windows.
LEMMA TakerOnlyKeeps ==
  ASSUME WindowInv, NEW t \in Takers, NEW s, TakerShape(s), s.pc # "write",
         taker' = [taker EXCEPT ![t] = s], UNCHANGED <<wpLedger, windows, files>>
  PROVE  WindowInv'
<1>1. /\ DOMAIN taker' = Takers
      /\ \A u \in Takers : taker'[u] = IF u = t THEN s ELSE taker[u]
  BY DEF WindowInv, WindowsShape
<1>2. WindowsShape'
  BY <1>1 DEF WindowInv, WindowsShape
<1>3. QED
  BY <1>1, <1>2, WindowStep

LEMMA IdleShape == TakerShape(Idle) /\ Idle.pc = "idle"
BY DEF TakerShape, Idle

LEMMA DecideKeeps ==
  ASSUME WindowInv, Decide
  PROVE  WindowInv'
<1> DEFINE step == nextWindowStep
           s == [pc |-> step.kind, id |-> step.id, start |-> step.start]
<1>1. /\ step.kind # "WAIT" /\ step.id \in Ids
      /\ taker' = [taker EXCEPT ![Worker] = s]
      /\ UNCHANGED <<wpLedger, windows, files>>
  BY DEF Decide, takeStep
<1>2. step.kind \in {"OPEN", "SNAPSHOT", "WAIT"}
  BY DEF nextWindowStep
<1>3. TakerShape(s) /\ s.pc # "write"
  <2> HIDE DEF step
  <2> QED
    BY <1>1, <1>2 DEF TakerShape
<1>4. Worker \in Takers
  BY DistributionAssumption
<1> HIDE DEF s
<1>5. QED
  BY <1>1, <1>3, <1>4, TakerOnlyKeeps

LEMMA CommandKeeps ==
  ASSUME WindowInv, NEW t \in Takers, NEW id \in Ids, Command(t, id)
  PROVE  WindowInv'
<1>1. UNCHANGED <<wpLedger, windows, files>>
  BY DEF Command
<1>2. CASE takeStep(t, [pc |-> "OPEN", id |-> id, start |-> now])
  <2>1. PICK s : s = [pc |-> "OPEN", id |-> id, start |-> now]
    OBVIOUS
  <2>2. TakerShape(s) /\ s.pc # "write" /\ taker' = [taker EXCEPT ![t] = s]
    BY <1>2, <2>1 DEF TakerShape, takeStep
  <2>3. QED
    BY <1>1, <2>2, TakerOnlyKeeps
<1>3. ASSUME NEW pool \in PoolBalances, NEW minimumClaim \in MinimumClaims,
             takeStep(t, SnapshotTaker("claim", id, pool, minimumClaim))
      PROVE  WindowInv'
  <2>1. PICK s : s = SnapshotTaker("claim", id, pool, minimumClaim)
    OBVIOUS
  <2>2. TakerShape(s) /\ s.pc # "write"
    BY <2>1 DEF TakerShape, SnapshotTaker
  <2>3. taker' = [taker EXCEPT ![t] = s]
    BY <1>3, <2>1 DEF takeStep
  <2>4. QED
    BY <1>1, <2>2, <2>3, TakerOnlyKeeps
<1>4. QED
  BY <1>2, <1>3 DEF Command, SnapshotTaker

LEMMA ReadPoolKeeps ==
  ASSUME WindowInv, NEW t \in Takers, ReadPool(t)
  PROVE  WindowInv'
<1>1. PICK pool : pool = uncommittedBalance
  OBVIOUS
<1> DEFINE s == SnapshotTaker("claim", taker[t].id, pool, MinimumClaim)
<1>2. /\ taker' = [taker EXCEPT ![t] = s] /\ taker[t].pc = "SNAPSHOT"
      /\ UNCHANGED <<wpLedger, windows, files>>
  BY <1>1 DEF ReadPool, takeStep, SnapshotTaker
<1>3. taker[t].id \in Ids
  BY <1>2 DEF WindowInv, WindowsShape, TakerShape
<1>4. TakerShape(s) /\ s.pc # "write"
  BY <1>3 DEF TakerShape, SnapshotTaker
<1> HIDE DEF s
<1>5. QED
  BY <1>2, <1>4, TakerOnlyKeeps

LEMMA CrashTakerKeeps ==
  ASSUME WindowInv, NEW t \in Takers, CrashTaker(t)
  PROVE  WindowInv'
BY IdleShape, TakerOnlyKeeps DEF CrashTaker, takeStep

LEMMA OpenKeeps ==
  ASSUME WindowInv, NEW t \in Takers, Open(t)
  PROVE  WindowInv'
<1> DEFINE s == taker[t]
<1>1. /\ s.pc = "OPEN" /\ taker' = [taker EXCEPT ![t] = Idle]
      /\ UNCHANGED <<wpLedger, files>>
  BY DEF Open, takeStep
<1>2. s.id \in Ids /\ DOMAIN windows = Ids /\ \A id \in Ids : WindowShape(windows[id])
  BY <1>1 DEF WindowInv, WindowsShape, TakerShape
<1>3. CASE UNCHANGED windows
  BY <1>1, <1>3, IdleShape, TakerOnlyKeeps
<1>4. CASE openWindow(s.id, s.start) /\ ~openRefused(s.id, s.start)
  <2> DEFINE opened == [NoWindow EXCEPT !.state = "OPEN", !.start = s.start,
                                        !.end = s.start + DISTRIBUTION_WINDOW]
  <2>1. windows' = [windows EXCEPT ![s.id] = opened] /\ windows[s.id].state = "NONE"
    BY <1>4 DEF openWindow, openRefused
  <2>2. WindowShape(opened) /\ opened.state = "OPEN"
    BY DEF WindowShape, NoWindow, States
  <2> HIDE DEF opened
  <2>3. /\ DOMAIN windows' = Ids
        /\ \A id \in Ids : windows'[id] = IF id = s.id THEN opened ELSE windows[id]
    BY <1>2, <2>1
  <2>4. /\ DOMAIN taker' = Takers
        /\ \A u \in Takers : taker'[u] = IF u = t THEN Idle ELSE taker[u]
    BY <1>1 DEF WindowInv, WindowsShape
  <2>5. WindowsShape'
    <3>1. \A id \in Ids : WindowShape(windows'[id])
      BY <1>2, <2>2, <2>3
    <3>2. \A u \in Takers : TakerShape(taker'[u])
      BY <2>4, IdleShape DEF WindowInv, WindowsShape
    <3>3. QED
      BY <1>1, <2>3, <2>4, <3>1, <3>2 DEF WindowInv, WindowsShape
  <2>6. ASSUME NEW id \in Ids
        PROVE  \/ windows'[id] = windows[id]
               \/ windows'[id].state = "OPEN" /\ windows[id].state = "NONE"
    <3>1. CASE id = s.id
      BY <2>1, <2>2, <2>3, <3>1
    <3>2. CASE id # s.id
      BY <2>3, <3>2
    <3>3. QED
      BY <3>1, <3>2
  <2>7. \A u \in Takers : taker'[u] = taker[u] \/ taker'[u].pc = "idle"
    BY <2>4, IdleShape
  <2>8. QED
    BY <1>1, <2>5, <2>6, <2>7, WindowStep DEF Taken, Settled
<1>5. QED
  BY <1>3, <1>4 DEF Open

LEMMA ClaimFileKeeps ==
  ASSUME WindowInv, NEW t \in Takers, ClaimFile(t)
  PROVE  WindowInv'
<1> DEFINE s == taker[t]
<1>1. s.pc = "claim" /\ UNCHANGED <<wpLedger, windows>>
  BY DEF ClaimFile
<1>2. s.id \in Ids /\ s = SnapshotTaker(s.pc, s.id, s.pool, s.minimumClaim)
  BY <1>1 DEF WindowInv, WindowsShape, TakerShape
<1>3. CASE takeStep(t, Idle) /\ UNCHANGED files
  BY <1>1, <1>3, IdleShape, TakerOnlyKeeps DEF takeStep
<1>4. CASE files' = [files EXCEPT ![s.id] = Empty] /\ takeStep(t, [s EXCEPT !.pc = "take"])
  <2> DEFINE next == SnapshotTaker("take", s.id, s.pool, s.minimumClaim)
  <2>1. [s EXCEPT !.pc = "take"] = next
    BY <1>2 DEF SnapshotTaker
  <2>2. taker' = [taker EXCEPT ![t] = next]
    BY <1>4, <2>1 DEF takeStep
  <2>3. TakerShape(next) /\ next.pc = "take"
    BY <1>2 DEF TakerShape, SnapshotTaker
  <2> HIDE DEF next
  <2>4. /\ DOMAIN taker' = Takers
        /\ \A u \in Takers : taker'[u] = IF u = t THEN next ELSE taker[u]
    BY <2>2 DEF WindowInv, WindowsShape
  <2>5. /\ DOMAIN files' = Ids
        /\ \A id \in Ids : files'[id] = files[id] \/ files'[id].state = "empty"
    BY <1>2, <1>4 DEF WindowInv, WindowsShape, Empty
  <2>6. WindowsShape'
    BY <1>1, <2>3, <2>4, <2>5 DEF WindowInv, WindowsShape
  <2>7. QED
    BY <1>1, <2>3, <2>4, <2>5, <2>6, WindowStep
<1>5. QED
  BY <1>3, <1>4 DEF ClaimFile

\* The snapshot's transaction takes the rows nobody has.
LEMMA SnapshotLeavesTheOthers ==
  ASSUME WindowsShape, NEW id0 \in Ids, NEW pool, snapshot(id0, pool), windows[id0].state = "OPEN"
  PROVE  /\ wpLedger' \in [Awards -> {Unwritten, Unclaimed} \cup Ids]
         /\ DOMAIN windows' = Ids
         /\ \A id \in Ids : WindowShape(windows'[id])
         /\ \A id \in Ids \ {id0} : /\ windows'[id] = windows[id]
                                    /\ Standings(wpLedger', id) = Standings(wpLedger, id)
         /\ windows'[id0].state = "SNAPSHOT" /\ windows'[id0].pool = pool
<1>1. /\ wpLedger' = [a \in Awards |-> IF wpLedger[a] = Unclaimed THEN id0 ELSE wpLedger[a]]
      /\ windows' = [windows EXCEPT ![id0].state = "SNAPSHOT", ![id0].pool = pool]
  BY DEF snapshot, ClaimsUnclaimed
<1>2. ASSUME NEW id \in Ids \ {id0}
      PROVE  Standings(wpLedger', id) = Standings(wpLedger, id)
  <2>1. Unclaimed # id
    BY DistributorAssumption DEF Unclaimed
  <2>2. \A a \in Awards : wpLedger'[a] = id <=> wpLedger[a] = id
    BY <1>1, <2>1
  <2>3. PICK l, m : l = wpLedger' /\ m = wpLedger
    OBVIOUS
  <2>4. Standings(l, id) = Standings(m, id)
    BY <2>2, <2>3, SameRowsSameStandings
  <2>5. QED
    BY <2>3, <2>4
<1>3. wpLedger' \in [Awards -> {Unwritten, Unclaimed} \cup Ids]
  BY <1>1 DEF WindowsShape
<1>4. /\ DOMAIN windows' = Ids
      /\ \A id \in Ids \ {id0} : windows'[id] = windows[id]
  BY <1>1 DEF WindowsShape
<1>5. /\ DOMAIN windows'[id0] = DOMAIN windows[id0]
      /\ windows'[id0].state = "SNAPSHOT" /\ windows'[id0].pool = pool
  BY <1>1 DEF WindowsShape, WindowShape
<1>6. \A id \in Ids : WindowShape(windows'[id])
  BY <1>4, <1>5 DEF WindowsShape, WindowShape, States
<1>7. QED
  BY <1>2, <1>3, <1>4, <1>5, <1>6

\* A snapshot taken, acknowledged or not: the caller carries on with the pool
\* the window now has, or gives up and removes the file.
LEMMA TakenSnapshotKeeps ==
  ASSUME WindowInv, NEW t \in Takers, NEW id0 \in Ids, NEW pool, NEW s,
         snapshot(id0, pool), windows[id0].state = "OPEN",
         taker' = [taker EXCEPT ![t] = s], TakerShape(s),
         s.pc = "write" => s.id = id0 /\ s.pool = pool,
         DOMAIN files' = Ids,
         \A id \in Ids : files'[id] = files[id] \/ files'[id].state # "written"
  PROVE  WindowInv'
<1>1. WindowsShape
  BY DEF WindowInv
<1>2. /\ wpLedger' \in [Awards -> {Unwritten, Unclaimed} \cup Ids]
      /\ DOMAIN windows' = Ids
      /\ \A id \in Ids : WindowShape(windows'[id])
      /\ \A id \in Ids \ {id0} : /\ windows'[id] = windows[id]
                                 /\ Standings(wpLedger', id) = Standings(wpLedger, id)
      /\ windows'[id0].state = "SNAPSHOT" /\ windows'[id0].pool = pool
  BY <1>1, SnapshotLeavesTheOthers
<1>3. /\ DOMAIN taker' = Takers
      /\ \A u \in Takers : taker'[u] = IF u = t THEN s ELSE taker[u]
  BY <1>1 DEF WindowsShape
<1>4. WindowsShape'
  <2>1. \A u \in Takers : TakerShape(taker'[u])
    BY <1>1, <1>3 DEF WindowsShape
  <2>2. QED
    BY <1>2, <1>3, <2>1 DEF WindowsShape
<1>5. \A id \in Ids : windows[id].state \in Taken => id # id0
  BY DEF Taken
<1>6. \A id \in Ids : windows'[id].state \in Settled => id # id0
  BY <1>2 DEF Settled
<1>7. \A u \in Takers : taker'[u].pc = "write" =>
        \/ taker'[u] = taker[u]
        \/ windows'[taker'[u].id].state \in Taken /\ windows'[taker'[u].id].pool = taker'[u].pool
  BY <1>2, <1>3 DEF Taken
<1>8. QED
  BY <1>2, <1>4, <1>5, <1>6, <1>7, WindowStep

LEMMA TakeSnapshotKeeps ==
  ASSUME WindowInv, NEW t \in Takers, TakeSnapshot(t)
  PROVE  WindowInv'
<1>1. taker[t].pc = "take"
  BY DEF TakeSnapshot
<1>2. /\ taker[t].id \in Ids
      /\ taker[t] = SnapshotTaker("take", taker[t].id, taker[t].pool, taker[t].minimumClaim)
  BY <1>1 DEF WindowInv, WindowsShape, TakerShape
<1>3. CASE /\ files' = [files EXCEPT ![taker[t].id] = Absent]
           /\ takeStep(t, Idle) /\ UNCHANGED <<wpLedger, windows>>
  <2>1. /\ DOMAIN files' = Ids
        /\ \A id \in Ids : files'[id] = files[id] \/ files'[id].state # "written"
    BY <1>2, <1>3 DEF WindowInv, WindowsShape, Absent
  <2>2. /\ DOMAIN taker' = Takers
        /\ \A u \in Takers : taker'[u] = IF u = t THEN Idle ELSE taker[u]
    BY <1>3 DEF WindowInv, WindowsShape, takeStep
  <2>3. WindowsShape'
    BY <1>3, <2>1, <2>2, IdleShape DEF WindowInv, WindowsShape
  <2>4. QED
    BY <1>3, <2>1, <2>2, <2>3, IdleShape, WindowStep
<1>4. CASE /\ ~snapshotRefused(taker[t].id) /\ snapshot(taker[t].id, taker[t].pool)
           /\ takeStep(t, [taker[t] EXCEPT !.pc = "write"]) /\ UNCHANGED files
  <2> DEFINE next == SnapshotTaker("write", taker[t].id, taker[t].pool, taker[t].minimumClaim)
  <2>1. [taker[t] EXCEPT !.pc = "write"] = next
    BY <1>2 DEF SnapshotTaker
  <2>2. TakerShape(next) /\ next.id = taker[t].id /\ next.pool = taker[t].pool
    BY <1>2 DEF TakerShape, SnapshotTaker
  <2>3. taker' = [taker EXCEPT ![t] = next]
    BY <1>4, <2>1 DEF takeStep
  <2>4. windows[taker[t].id].state = "OPEN" /\ DOMAIN files' = Ids
    BY <1>4 DEF snapshotRefused, WindowInv, WindowsShape
  <2> HIDE DEF next
  <2>5. PICK id0, pool : id0 \in Ids /\ id0 = taker[t].id /\ pool = taker[t].pool
    BY <1>2
  <2>6. /\ snapshot(id0, pool) /\ windows[id0].state = "OPEN"
        /\ \A id \in Ids : files'[id] = files[id]
    BY <1>4, <2>4, <2>5
  <2>7. QED
    BY <2>2, <2>3, <2>4, <2>5, <2>6, TakenSnapshotKeeps
<1>5. QED
  BY <1>3, <1>4 DEF TakeSnapshot

LEMMA UnacknowledgedKeeps ==
  ASSUME WindowInv, NEW t \in Takers, TakeSnapshotUnacknowledged(t)
  PROVE  WindowInv'
<1>1. /\ taker[t].pc = "take" /\ ~snapshotRefused(taker[t].id)
      /\ snapshot(taker[t].id, taker[t].pool)
      /\ files' = [files EXCEPT ![taker[t].id] = Absent]
      /\ taker' = [taker EXCEPT ![t] = Idle]
  BY DEF TakeSnapshotUnacknowledged, takeStep
<1>2. taker[t].id \in Ids
  BY <1>1 DEF WindowInv, WindowsShape, TakerShape
<1>3. /\ DOMAIN files' = Ids
      /\ \A id \in Ids : files'[id] = files[id] \/ files'[id].state # "written"
  BY <1>1, <1>2 DEF WindowInv, WindowsShape, Absent
<1>4. PICK id0, pool : id0 \in Ids /\ id0 = taker[t].id /\ pool = taker[t].pool
  BY <1>2
<1>5. snapshot(id0, pool) /\ windows[id0].state = "OPEN"
  BY <1>1, <1>4 DEF snapshotRefused
<1>6. QED
  BY <1>1, <1>3, <1>4, <1>5, IdleShape, TakenSnapshotKeeps

LEMMA WriteFileKeeps ==
  ASSUME WindowInv, NEW t \in Takers, WriteFile(t)
  PROVE  WindowInv'
<1>1. /\ taker[t].pc = "write" /\ UNCHANGED <<wpLedger, windows>>
      /\ files' = [files EXCEPT ![taker[t].id] =
                     TakenFile(taker[t].id, taker[t].pool, taker[t].minimumClaim)]
      /\ taker' = [taker EXCEPT ![t] = Idle]
  BY DEF WriteFile, takeStep
<1>2. PICK id0, pool, minimumClaim : /\ id0 \in Ids /\ id0 = taker[t].id
                                    /\ pool = taker[t].pool
                                    /\ minimumClaim = taker[t].minimumClaim
  BY <1>1 DEF WindowInv, WindowsShape, TakerShape
<1>3. windows[id0].state \in Taken /\ windows[id0].pool = pool
  BY <1>1, <1>2 DEF WindowInv, WritersInv
<1>4. /\ DOMAIN files' = Ids
      /\ \A id \in Ids :
           files'[id] = IF id = id0 THEN TakenFile(id0, pool, minimumClaim) ELSE files[id]
  BY <1>1, <1>2 DEF WindowInv, WindowsShape
<1>5. FileIsTheWindows(id0)'
  <2>1. files'[id0] = TakenFile(id0, pool, minimumClaim)
    BY <1>2, <1>4
  <2>2. /\ files'[id0].standings = Standings(wpLedger, id0)
        /\ files'[id0].pool = pool
    BY <2>1 DEF TakenFile
  <2>3. QED
    BY <1>1, <1>3, <2>2 DEF FileIsTheWindows
<1>6. /\ DOMAIN taker' = Takers
      /\ \A u \in Takers : taker'[u] = IF u = t THEN Idle ELSE taker[u]
  BY <1>1 DEF WindowInv, WindowsShape
<1>7. WindowsShape'
  BY <1>1, <1>4, <1>6, IdleShape DEF WindowInv, WindowsShape
<1>8. \A id \in Ids : files'[id] = files[id] \/ FileIsTheWindows(id)'
  BY <1>4, <1>5
<1>9. QED
  BY <1>1, <1>6, <1>7, <1>8, IdleShape, WindowStep

\* A new award is no window's.
LEMMA WriteAwardKeeps ==
  ASSUME WindowInv, NEW award \in Awards, WriteAward(award)
  PROVE  WindowInv'
<1>1. /\ wpLedger[award] = Unwritten /\ UNCHANGED <<windows, files, taker>>
      /\ wpLedger' = [wpLedger EXCEPT ![award] = Unclaimed]
  BY DEF WriteAward
<1>2. WindowsShape'
  BY <1>1 DEF WindowInv, WindowsShape
<1>3. ASSUME NEW id \in Ids
      PROVE  Standings(wpLedger', id) = Standings(wpLedger, id)
  <2>1. Unclaimed # id /\ Unwritten # id
    BY DistributorAssumption DEF Unclaimed, Unwritten
  <2>2. \A a \in Awards : wpLedger'[a] = id <=> wpLedger[a] = id
    BY <1>1, <2>1 DEF WindowInv, WindowsShape
  <2>3. PICK l, m : l = wpLedger' /\ m = wpLedger
    OBVIOUS
  <2>4. Standings(l, id) = Standings(m, id)
    BY <2>2, <2>3, SameRowsSameStandings
  <2>5. QED
    BY <2>3, <2>4
<1>4. QED
  BY <1>1, <1>2, <1>3, WindowStep

\* A window is calculated once, from the rows it has.
LEMMA CalculateKeeps ==
  ASSUME WindowInv, NEW id0 \in Ids, NEW minimumClaim, calculate(id0, minimumClaim)
  PROVE  WindowInv'
<1> DEFINE allocations == allocateDistribution(Standings(wpLedger, id0), windows[id0].pool,
                                               minimumClaim)
<1>1. PICK found : found = allocations
  OBVIOUS
<1>2. /\ windows[id0].state = "SNAPSHOT" /\ UNCHANGED <<wpLedger, files, taker>>
      /\ windows' = [windows EXCEPT ![id0].state = "CALCULATED",
                                    ![id0].minimumClaim = minimumClaim,
                                    ![id0].allocations = found]
  BY <1>1 DEF calculate
<1>3. /\ DOMAIN windows = Ids
      /\ DOMAIN windows[id0] = {"state", "start", "end", "pool", "minimumClaim", "allocations",
                                "publicationTx"}
  BY DEF WindowInv, WindowsShape, WindowShape
<1>4. /\ DOMAIN windows' = Ids
      /\ \A id \in Ids \ {id0} : windows'[id] = windows[id]
  BY <1>2, <1>3
<1>5. /\ DOMAIN windows'[id0] = DOMAIN windows[id0] /\ windows'[id0].state = "CALCULATED"
      /\ windows'[id0].pool = windows[id0].pool /\ windows'[id0].allocations = found
      /\ windows'[id0].minimumClaim = minimumClaim
  BY <1>2, <1>3
<1>6. WindowsShape'
  <2>1. \A id \in Ids : WindowShape(windows'[id])
    BY <1>3, <1>4, <1>5 DEF WindowInv, WindowsShape, WindowShape, States
  <2>2. QED
    BY <1>2, <1>4, <2>1 DEF WindowInv, WindowsShape
<1>7. windows'[id0].allocations =
        allocateDistribution(Standings(wpLedger', id0), windows'[id0].pool,
                             windows'[id0].minimumClaim)
  BY <1>1, <1>2, <1>5
<1>8. QED
  BY <1>2, <1>4, <1>5, <1>6, <1>7, WindowStep DEF Taken, Settled

\* The publication job writes only that a window is published.
LEMMA RecordKeepsWindows ==
  ASSUME WindowInv, Record, JobShape(job)
  PROVE  WindowInv'
<1>1. UNCHANGED <<wpLedger, files, taker>> /\ job.id \in Ids
  BY DEF Record, jobStep, JobShape
<1>2. CASE UNCHANGED windows
  BY <1>1, <1>2, WindowStep DEF WindowInv, WindowsShape
<1>3. CASE ~recordRefused(job.id, job.root, job.total) /\ recordPublication(job.id, job.tx)
  <2>1. /\ windows[job.id].state = "CALCULATED"
        /\ windows' = [windows EXCEPT ![job.id].state = "PUBLISHED",
                                      ![job.id].publicationTx = job.tx]
    BY <1>3 DEF recordRefused, recordPublication
  <2>2. PICK id0, tx : id0 \in Ids /\ id0 = job.id /\ tx = job.tx
    BY <1>1
  <2>3. /\ DOMAIN windows = Ids
        /\ DOMAIN windows[id0] = {"state", "start", "end", "pool", "minimumClaim", "allocations",
                                  "publicationTx"}
    BY <2>2 DEF WindowInv, WindowsShape, WindowShape
  <2>4. windows' = [windows EXCEPT ![id0].state = "PUBLISHED", ![id0].publicationTx = tx]
    BY <2>1, <2>2
  <2>5. /\ DOMAIN windows' = Ids
        /\ \A id \in Ids \ {id0} : windows'[id] = windows[id]
    BY <2>2, <2>3, <2>4
  <2>6. /\ DOMAIN windows'[id0] = DOMAIN windows[id0] /\ windows'[id0].state = "PUBLISHED"
        /\ windows'[id0].pool = windows[id0].pool
        /\ windows'[id0].allocations = windows[id0].allocations
        /\ windows'[id0].minimumClaim = windows[id0].minimumClaim
    BY <2>2, <2>3, <2>4
  <2>7. WindowsShape'
    <3>1. \A id \in Ids : WindowShape(windows'[id])
      BY <2>3, <2>5, <2>6 DEF WindowInv, WindowsShape, WindowShape, States
    <3>2. QED
      BY <1>1, <2>5, <3>1 DEF WindowInv, WindowsShape
  <2>8. windows[id0].state = "CALCULATED"
    BY <2>1, <2>2
  <2>9. QED
    BY <1>1, <2>5, <2>6, <2>7, <2>8, WindowStep DEF Taken, Settled
<1>4. QED
  BY <1>2, <1>3 DEF Record

-----------------------------------------------------------------------------
\* What is on chain, and the job that puts it there.

\* A root once on chain stays, with its total and the transaction behind it.
RootsStay ==
  \A id \in Ids : distributions[id].root # None =>
    /\ distributions'[id].root = distributions[id].root
    /\ distributions'[id].total = distributions[id].total
    /\ publishedBy'[id] = publishedBy[id]

PublishedOnChain(id) ==
  /\ Root(id) # None
  /\ distributions[id].root = Root(id)
  /\ distributions[id].total = Total(id)
  /\ windows[id].publicationTx = publishedBy[id]

\* What a step must do to the chain and to the windows to keep what is known.
LEMMA ChainStep ==
  ASSUME ChainInv, ChainShape', RootsStay, JobInv',
         \A n \in 1..MaxTx : txs'[n] = "success" =>
           \/ txs[n] = "success" /\ txId'[n] = txId[n]
           \/ publishedBy'[txId'[n]] = n /\ distributions'[txId'[n]].root # None,
         \A id \in Ids : windows'[id].state = "PUBLISHED" =>
           windows'[id] = windows[id] \/ PublishedOnChain(id)'
  PROVE  ChainInv'
<1>1. ReceiptsInv'
  <2> SUFFICES ASSUME NEW n \in 1..MaxTx, txs'[n] = "success"
               PROVE  publishedBy'[txId'[n]] = n /\ distributions'[txId'[n]].root # None
    BY DEF ReceiptsInv
  <2>1. CASE txs[n] = "success" /\ txId'[n] = txId[n]
    <3>1. txId[n] \in Ids
      BY <2>1 DEF ChainInv, ChainShape
    <3>2. publishedBy[txId[n]] = n /\ distributions[txId[n]].root # None
      BY <2>1 DEF ChainInv, ReceiptsInv
    <3>3. QED
      BY <2>1, <3>1, <3>2 DEF RootsStay
  <2>2. QED
    BY <2>1
<1>2. PublishedInv'
  <2> SUFFICES ASSUME NEW id \in Ids, windows'[id].state = "PUBLISHED"
               PROVE  PublishedOnChain(id)'
    BY DEF PublishedInv, PublishedOnChain
  <2>1. CASE windows'[id] = windows[id]
    <3>1. PublishedOnChain(id)
      BY <2>1 DEF ChainInv, PublishedInv, PublishedOnChain
    <3>2. Root(id)' = Root(id) /\ Total(id)' = Total(id)
      BY <2>1 DEF Root, Total
    <3>3. distributions[id].root # None
      BY <3>1 DEF PublishedOnChain
    <3>4. QED
      BY <2>1, <3>1, <3>2, <3>3 DEF PublishedOnChain, RootsStay
  <2>2. QED
    BY <2>1
<1>3. QED
  BY <1>1, <1>2 DEF ChainInv

\* Nothing happens to the chain and the job, and nothing is published.
LEMMA ChainUntouched ==
  ASSUME ChainInv, UNCHANGED <<jobVars, contractVars>>,
         \A id \in Ids : windows'[id].state = "PUBLISHED" => windows'[id] = windows[id]
  PROVE  ChainInv'
<1>1. UNCHANGED <<job, txs, txId, publishedBy, distributions>>
  BY DEF jobVars, contractVars
<1>2. ChainShape' /\ JobInv' /\ RootsStay
  BY <1>1 DEF ChainInv, ChainShape, JobInv, RootsStay
<1>3. QED
  BY <1>1, <1>2, ChainStep

LEMMA WindowStepsPublishNothing ==
  ASSUME WindowsShape, WindowNext
  PROVE  /\ UNCHANGED <<jobVars, contractVars>>
         /\ \A id \in Ids : windows'[id].state = "PUBLISHED" => windows'[id] = windows[id]
<1>1. CASE \/ Decide \/ \E t \in Takers, id \in Ids : Command(t, id)
           \/ \E t \in Takers : ReadPool(t) \/ ClaimFile(t) \/ WriteFile(t) \/ CrashTaker(t)
           \/ \E a \in Awards : WriteAward(a)
           \/ Tick
  BY <1>1 DEF Decide, Command, ReadPool, ClaimFile, WriteFile, CrashTaker, WriteAward, Tick
<1>2. ASSUME NEW t \in Takers, Open(t)
      PROVE  /\ UNCHANGED <<jobVars, contractVars>>
             /\ \A id \in Ids : windows'[id].state = "PUBLISHED" => windows'[id] = windows[id]
  BY <1>2 DEF Open, openWindow, openRefused, WindowsShape, NoWindow
<1>3. ASSUME NEW t \in Takers, TakeSnapshot(t) \/ TakeSnapshotUnacknowledged(t)
      PROVE  /\ UNCHANGED <<jobVars, contractVars>>
             /\ \A id \in Ids : windows'[id].state = "PUBLISHED" => windows'[id] = windows[id]
  <2>1. UNCHANGED <<jobVars, contractVars>>
    BY <1>3 DEF TakeSnapshot, TakeSnapshotUnacknowledged
  <2>2. CASE UNCHANGED windows
    BY <2>1, <2>2
  <2>3. CASE snapshot(taker[t].id, taker[t].pool)
    <3>1. PICK id0, pool : id0 = taker[t].id /\ pool = taker[t].pool
      OBVIOUS
    <3>2. windows' = [windows EXCEPT ![id0].state = "SNAPSHOT", ![id0].pool = pool]
      BY <2>3, <3>1 DEF snapshot
    <3>3. \A id \in Ids : windows'[id] = windows[id] \/ windows'[id].state = "SNAPSHOT"
      BY <3>2 DEF WindowsShape, WindowShape
    <3>4. QED
      BY <2>1, <3>3
  <2>4. QED
    BY <1>3, <2>2, <2>3 DEF TakeSnapshot, TakeSnapshotUnacknowledged
<1>4. ASSUME NEW id0 \in Ids, NEW minimumClaim \in MinimumClaims, calculate(id0, minimumClaim)
      PROVE  /\ UNCHANGED <<jobVars, contractVars>>
             /\ \A id \in Ids : windows'[id].state = "PUBLISHED" => windows'[id] = windows[id]
  <2>1. UNCHANGED <<jobVars, contractVars>>
    BY <1>4 DEF calculate
  <2>2. PICK found :
          windows' = [windows EXCEPT ![id0].state = "CALCULATED",
                                     ![id0].minimumClaim = minimumClaim,
                                     ![id0].allocations = found]
    BY <1>4 DEF calculate
  <2>3. \A id \in Ids : windows'[id] = windows[id] \/ windows'[id].state = "CALCULATED"
    BY <2>2 DEF WindowsShape, WindowShape
  <2>4. QED
    BY <2>1, <2>3
<1>5. QED
  BY <1>1, <1>2, <1>3, <1>4 DEF WindowNext, TakerStep

\* The job's own steps: what it carries is what it has read.
LEMMA JobOnlyKeeps ==
  ASSUME ChainInv, JobShape(job'), JobInv',
         UNCHANGED <<windows, txs, txId, publishedBy, contractVars>>
  PROVE  ChainInv'
<1>1. UNCHANGED distributions
  BY DEF contractVars
<1>2. ChainShape' /\ RootsStay
  BY <1>1 DEF ChainInv, ChainShape, RootsStay
<1>3. QED
  BY <1>2, ChainStep

LEMMA IdleJob ==
  ASSUME job' = Idle
  PROVE  JobShape(job') /\ JobInv'
BY DEF JobShape, JobInv, Idle

\* The job's record of a window: what it holds is on chain.
LEMMA RecordingJob ==
  ASSUME NEW id \in Ids, NEW root, NEW total, NEW tx,
         job' = [pc |-> "record", id |-> id, root |-> root, total |-> total, tx |-> tx],
         root # None, UNCHANGED <<distributions, publishedBy>>,
         distributions[id].root = root, distributions[id].total = total, publishedBy[id] = tx
  PROVE  JobShape(job') /\ JobInv'
<1>1. job'.pc = "record" /\ job'.id = id /\ job'.root = root /\ job'.total = total /\ job'.tx = tx
  OBVIOUS
<1>2. QED
  BY <1>1 DEF JobShape, JobInv

\* An early state of the job: the window it is about.
LEMMA EarlyJob ==
  ASSUME NEW pc \in {"read", "fund", "send"}, NEW id \in Ids, job' = [pc |-> pc, id |-> id]
  PROVE  JobShape(job') /\ JobInv'
BY DEF JobShape, JobInv

LEMMA JobStepsKeep ==
  ASSUME ChainInv, \/ \E id \in Ids : StartJob(id)
                   \/ ReadChain \/ CheckFunding \/ ReadBack \/ CrashJob
  PROVE  ChainInv'
<1>0. JobShape(job) /\ UNCHANGED <<windows, txs, txId, publishedBy, contractVars>>
  BY DEF ChainInv, ChainShape, StartJob, ReadChain, CheckFunding, ReadBack, CrashJob, jobStep
<1>1. ASSUME NEW id \in Ids, StartJob(id)
      PROVE  JobShape(job') /\ JobInv'
  BY <1>1, EarlyJob DEF StartJob, jobStep
<1>2. CASE ReadChain
  <2>1. PICK id, root, total, tx :
          /\ id \in Ids /\ id = job.id
          /\ root = distributions[id].root /\ total = distributions[id].total
          /\ tx = publishedBy[id]
    BY <1>0, <1>2 DEF ReadChain, JobShape
  <2>2. \/ root = None /\ job' = [job EXCEPT !.pc = "fund"]
        \/ job' = Idle
        \/ /\ root # None
           /\ job' = [pc |-> "record", id |-> id, root |-> root, total |-> total, tx |-> tx]
    BY <1>2, <2>1 DEF ReadChain, findPublication, jobStep
  <2>3. job = [pc |-> "read", id |-> id]
    BY <1>0, <1>2, <2>1 DEF ReadChain, JobShape
  <2>4. ASSUME job' = [job EXCEPT !.pc = "fund"]
        PROVE  JobShape(job') /\ JobInv'
    <3>1. job' = [pc |-> "fund", id |-> id]
      BY <2>3, <2>4
    <3>2. QED
      BY <2>1, <3>1, EarlyJob
  <2>5. UNCHANGED <<distributions, publishedBy>>
    BY <1>0 DEF contractVars
  <2>6. ASSUME root # None,
               job' = [pc |-> "record", id |-> id, root |-> root, total |-> total, tx |-> tx]
        PROVE  JobShape(job') /\ JobInv'
    BY <2>1, <2>5, <2>6, RecordingJob
  <2>7. JobShape(job') /\ JobInv'
    BY <2>2, <2>4, <2>6, IdleJob
  <2>8. QED
    BY <1>0, <2>7, JobOnlyKeeps
<1>3. CASE CheckFunding
  <2>1. PICK id \in Ids : id = job.id
    BY <1>0, <1>3 DEF CheckFunding, JobShape
  <2>2. job = [pc |-> "fund", id |-> id]
    BY <1>0, <1>3, <2>1 DEF CheckFunding, JobShape
  <2>3. job' = Idle \/ job' = [job EXCEPT !.pc = "send"]
    BY <1>3 DEF CheckFunding, jobStep
  <2>4. ASSUME job' = [job EXCEPT !.pc = "send"]
        PROVE  JobShape(job') /\ JobInv'
    <3>1. job' = [pc |-> "send", id |-> id]
      BY <2>2, <2>4
    <3>2. QED
      BY <3>1, EarlyJob
  <2>5. JobShape(job') /\ JobInv'
    BY <2>3, <2>4, IdleJob
  <2>6. QED
    BY <1>0, <2>5, JobOnlyKeeps
<1>4. CASE ReadBack
  <2>1. PICK id, tx, root, total :
          /\ id \in Ids /\ tx \in 1..MaxTx /\ id = job.id /\ tx = job.tx
          /\ root = distributions[id].root /\ total = distributions[id].total
    BY <1>0, <1>4 DEF ReadBack, JobShape
  <2>2. txs[tx] \in {"success", "reverted"} /\ txId[tx] = id
    BY <1>4, <2>1 DEF ReadBack, ChainInv, JobInv
  <2>3. \/ job' = Idle
        \/ /\ txs[tx] # "reverted"
           /\ job' = [pc |-> "record", id |-> id, root |-> root, total |-> total, tx |-> tx]
    BY <1>4, <2>1 DEF ReadBack, jobStep
  <2>4. ASSUME txs[tx] # "reverted",
               job' = [pc |-> "record", id |-> id, root |-> root, total |-> total, tx |-> tx]
        PROVE  JobShape(job') /\ JobInv'
    <3>1. publishedBy[id] = tx /\ root # None
      BY <2>1, <2>2, <2>4 DEF ChainInv, ReceiptsInv
    <3>2. UNCHANGED <<distributions, publishedBy>>
      BY <1>0 DEF contractVars
    <3>3. QED
      BY <2>1, <2>4, <3>1, <3>2, RecordingJob
  <2>5. JobShape(job') /\ JobInv'
    BY <2>3, <2>4, IdleJob
  <2>6. QED
    BY <1>0, <2>5, JobOnlyKeeps
<1>5. CASE CrashJob
  BY <1>0, <1>5, IdleJob, JobOnlyKeeps DEF CrashJob
<1>6. QED
  BY <1>0, <1>1, <1>2, <1>3, <1>4, <1>5, JobOnlyKeeps

\* A transaction is numbered when it is sent; no other is renumbered.
LEMMA SendKeeps ==
  ASSUME ChainInv, NEW n \in 1..MaxTx, SendPublication(n)
  PROVE  ChainInv'
<1>1. /\ job.pc = "send" /\ txs[n] = "unsent"
      /\ UNCHANGED <<windows, publishedBy, contractVars>>
  BY DEF SendPublication
<1>2. UNCHANGED distributions
  BY <1>1 DEF contractVars
<1>3. CASE job' = Idle /\ UNCHANGED <<txs, txId>>
  BY <1>1, <1>3, IdleJob, JobOnlyKeeps
<1>4. CASE /\ txs' = [txs EXCEPT ![n] = "pending"] /\ txId' = [txId EXCEPT ![n] = job.id]
           /\ job' = [pc |-> "sent", id |-> job.id, tx |-> n]
  <2>1. PICK id \in Ids : id = job.id
    BY <1>1 DEF ChainInv, ChainShape, JobShape
  <2>2. /\ txs' \in [1..MaxTx -> {"unsent", "pending", "success", "reverted"}]
        /\ txId' \in [1..MaxTx -> Ids \cup {0}]
        /\ txs'[n] = "pending" /\ txId'[n] = id
        /\ \A m \in 1..MaxTx : m # n => txs'[m] = txs[m] /\ txId'[m] = txId[m]
    BY <1>4, <2>1 DEF ChainInv, ChainShape
  <2>3. job'.pc = "sent" /\ job'.id = id /\ job'.tx = n
    BY <1>4, <2>1
  <2>4. JobShape(job')
    BY <2>3 DEF JobShape
  <2>5. JobInv'
    BY <2>2, <2>3 DEF JobInv
  <2>6. ChainShape'
    BY <1>1, <1>2, <2>2, <2>4 DEF ChainInv, ChainShape
  <2>7. RootsStay
    BY <1>1, <1>2 DEF RootsStay
  <2>8. \A m \in 1..MaxTx : txs'[m] = "success" => txs[m] = "success" /\ txId'[m] = txId[m]
    BY <2>2
  <2>9. QED
    BY <1>1, <2>5, <2>6, <2>7, <2>8, ChainStep
<1>5. QED
  BY <1>3, <1>4 DEF SendPublication, jobStep

\* A publication lands where there was no root.
LEMMA PublicationLands ==
  ASSUME ChainShape, NEW id \in Ids, NEW root, NEW total, publishDistribution(id, root, total),
         NEW by, publishedBy' = [publishedBy EXCEPT ![id] = by]
  PROVE  /\ RootsStay
         /\ DOMAIN distributions' = Ids /\ DOMAIN publishedBy' = Ids
         /\ \A i \in Ids : DOMAIN distributions'[i] = {"root", "total", "claimed"}
         /\ distributions[id].root = None
         /\ distributions'[id].root # None /\ publishedBy'[id] = by
<1>1. /\ root # None /\ distributions[id].root = None
      /\ distributions' = [distributions EXCEPT ![id] =
                             [root |-> root, total |-> total, claimed |-> 0]]
  BY PublicationChecked DEF publishDistribution
<1>2. DOMAIN distributions' = Ids /\ DOMAIN publishedBy' = Ids
  BY <1>1 DEF ChainShape
<1>3. \A i \in Ids \ {id} : distributions'[i] = distributions[i] /\ publishedBy'[i] = publishedBy[i]
  BY <1>1 DEF ChainShape
<1>4. /\ distributions'[id] = [root |-> root, total |-> total, claimed |-> 0]
      /\ publishedBy'[id] = by
  BY <1>1 DEF ChainShape
<1>5. RootsStay
  BY <1>1, <1>3 DEF RootsStay
<1>6. QED
  BY <1>1, <1>2, <1>3, <1>4, <1>5 DEF ChainShape

\* What the job knows of the chain outlives other publications.
LEMMA JobKept ==
  ASSUME ChainInv, RootsStay, job' = job,
         \A n \in 1..MaxTx : txs[n] # "unsent" => txs'[n] # "unsent" /\ txId'[n] = txId[n]
  PROVE  JobInv'
<1>1. CASE job.pc = "sent"
  <2>1. job.tx \in 1..MaxTx /\ txs[job.tx] # "unsent" /\ txId[job.tx] = job.id
    BY <1>1 DEF ChainInv, ChainShape, JobShape, JobInv
  <2>2. QED
    BY <1>1, <2>1 DEF JobInv
<1>2. CASE job.pc = "record"
  <2>1. job.id \in Ids
    BY <1>2 DEF ChainInv, ChainShape, JobShape
  <2>2. QED
    BY <1>2, <2>1 DEF ChainInv, JobInv, RootsStay
<1>3. QED
  BY <1>1, <1>2 DEF JobInv

LEMMA MineKeeps ==
  ASSUME ChainInv, NEW n \in 1..MaxTx, Mine(n)
  PROVE  ChainInv'
<1>1. txs[n] = "pending" /\ UNCHANGED <<windowVars, job, txId>>
  BY DEF Mine
<1>2. PICK id \in Ids : id = txId[n]
  BY <1>1 DEF ChainInv, ChainShape
<1>3. UNCHANGED windows
  BY <1>1 DEF windowVars
<1>4. CASE /\ publishDistribution(id, Root(id), Total(id))
           /\ txs' = [txs EXCEPT ![n] = "success"]
           /\ publishedBy' = [publishedBy EXCEPT ![id] = n]
  <2>1. PICK root, total : root = Root(id) /\ total = Total(id)
    OBVIOUS
  <2>2. publishDistribution(id, root, total)
    BY <1>4, <2>1
  <2>3. /\ RootsStay
        /\ DOMAIN distributions' = Ids /\ DOMAIN publishedBy' = Ids
        /\ \A i \in Ids : DOMAIN distributions'[i] = {"root", "total", "claimed"}
        /\ distributions[id].root = None
        /\ distributions'[id].root # None /\ publishedBy'[id] = n
    BY <1>4, <2>2, PublicationLands DEF ChainInv
  <2>4. /\ txs' \in [1..MaxTx -> {"unsent", "pending", "success", "reverted"}]
        /\ txs'[n] = "success"
        /\ \A m \in 1..MaxTx : m # n => txs'[m] = txs[m]
    BY <1>4 DEF ChainInv, ChainShape
  <2>5. ChainShape'
    BY <1>1, <1>2, <2>3, <2>4 DEF ChainInv, ChainShape
  <2>6. JobInv'
    BY <1>1, <2>3, <2>4, JobKept
  <2>7. \A m \in 1..MaxTx : txs'[m] = "success" =>
          \/ txs[m] = "success" /\ txId'[m] = txId[m]
          \/ publishedBy'[txId'[m]] = m /\ distributions'[txId'[m]].root # None
    BY <1>1, <1>2, <2>3, <2>4
  <2>8. QED
    BY <1>3, <2>3, <2>5, <2>6, <2>7, ChainStep
<1>5. CASE txs' = [txs EXCEPT ![n] = "reverted"] /\ UNCHANGED <<publishedBy, contractVars>>
  <2>1. UNCHANGED distributions
    BY <1>5 DEF contractVars
  <2>2. /\ txs' \in [1..MaxTx -> {"unsent", "pending", "success", "reverted"}]
        /\ txs'[n] = "reverted"
        /\ \A m \in 1..MaxTx : m # n => txs'[m] = txs[m]
    BY <1>5 DEF ChainInv, ChainShape
  <2>3. RootsStay
    BY <1>5, <2>1 DEF RootsStay
  <2>4. ChainShape'
    BY <1>1, <1>2, <1>5, <2>1, <2>2 DEF ChainInv, ChainShape
  <2>5. JobInv'
    BY <1>1, <2>2, <2>3, JobKept
  <2>6. \A m \in 1..MaxTx : txs'[m] = "success" => txs[m] = "success" /\ txId'[m] = txId[m]
    BY <1>1, <2>2
  <2>7. QED
    BY <1>3, <2>3, <2>4, <2>5, <2>6, ChainStep
<1>6. QED
  BY <1>2, <1>4, <1>5 DEF Mine

LEMMA MultisigKeeps ==
  ASSUME ChainInv, NEW id \in Ids, MultisigPublishes(id)
  PROVE  ChainInv'
<1>1. UNCHANGED <<windows, job, txs, txId>>
  BY DEF MultisigPublishes, windowVars
<1>2. PICK root, total : publishDistribution(id, root, total)
  BY DEF MultisigPublishes
<1>3. publishedBy' = [publishedBy EXCEPT ![id] = Multisig]
  BY DEF MultisigPublishes
<1>4. /\ RootsStay
      /\ DOMAIN distributions' = Ids /\ DOMAIN publishedBy' = Ids
      /\ \A i \in Ids : DOMAIN distributions'[i] = {"root", "total", "claimed"}
  BY <1>2, <1>3, PublicationLands DEF ChainInv
<1>5. ChainShape'
  BY <1>1, <1>4 DEF ChainInv, ChainShape
<1>6. JobInv'
  BY <1>1, <1>4, JobKept
<1>7. QED
  BY <1>1, <1>4, <1>5, <1>6, ChainStep

\* Claims and the treasury leave the roots and their totals alone.
LEMMA RootsUntouched ==
  ASSUME ChainInv, UNCHANGED <<windowVars, jobVars>>,
         DOMAIN distributions' = Ids,
         \A i \in Ids : /\ DOMAIN distributions'[i] = {"root", "total", "claimed"}
                        /\ distributions'[i].root = distributions[i].root
                        /\ distributions'[i].total = distributions[i].total
  PROVE  ChainInv'
<1>1. UNCHANGED <<windows, job, txs, txId, publishedBy>>
  BY DEF windowVars, jobVars
<1>2. RootsStay
  BY <1>1 DEF RootsStay
<1>3. ChainShape'
  BY <1>1 DEF ChainInv, ChainShape
<1>4. JobInv'
  BY <1>1, <1>2, JobKept
<1>5. QED
  BY <1>1, <1>2, <1>3, <1>4, ChainStep

LEMMA ClaimKeepsRoots ==
  ASSUME ChainInv, NEW id \in Ids, Claim(id)
  PROVE  ChainInv'
<1>1. UNCHANGED <<windowVars, jobVars>>
  BY DEF Claim
<1>2. PICK l \in distributions[id].root : claim(id, l.wallet, l.amount)
  BY DEF Claim
<1>3. PICK amount : distributions' = [distributions EXCEPT ![id].claimed = @ + amount]
  BY <1>2 DEF claim
<1>4. DOMAIN distributions' = Ids
  BY <1>3 DEF ChainInv, ChainShape
<1>5. \A i \in Ids \ {id} : distributions'[i] = distributions[i]
  BY <1>3 DEF ChainInv, ChainShape
<1>6. /\ DOMAIN distributions'[id] = {"root", "total", "claimed"}
      /\ distributions'[id].root = distributions[id].root
      /\ distributions'[id].total = distributions[id].total
  BY <1>3 DEF ChainInv, ChainShape
<1>7. QED
  BY <1>1, <1>4, <1>5, <1>6, RootsUntouched DEF ChainInv, ChainShape

LEMMA TreasuryKeepsRoots ==
  ASSUME ChainInv, TreasuryStep
  PROVE  ChainInv'
<1>1. UNCHANGED <<windowVars, jobVars>> /\ UNCHANGED distributions
  BY DEF TreasuryStep, Treasury, Supply, withdrawUncommitted, Pause
<1>2. QED
  BY <1>1, RootsUntouched DEF ChainInv, ChainShape

\* The window is recorded against what the chain holds, or not at all.
LEMMA RecordKeeps ==
  ASSUME ChainInv, WindowsShape, Record
  PROVE  ChainInv'
<1>1. /\ job.pc = "record" /\ job' = Idle
      /\ UNCHANGED <<txs, txId, publishedBy, contractVars>>
  BY DEF Record, jobStep
<1>2. UNCHANGED distributions
  BY <1>1 DEF contractVars
<1>3. RootsStay /\ JobInv' /\ JobShape(job')
  BY <1>1, <1>2, IdleJob DEF RootsStay
<1>4. ChainShape'
  BY <1>1, <1>2, <1>3 DEF ChainInv, ChainShape
<1>5. CASE UNCHANGED windows
  BY <1>1, <1>3, <1>4, <1>5, ChainStep
<1>6. CASE ~recordRefused(job.id, job.root, job.total) /\ recordPublication(job.id, job.tx)
  <2>1. PICK id, root, total, tx :
          id \in Ids /\ id = job.id /\ root = job.root /\ total = job.total /\ tx = job.tx
    BY <1>1 DEF ChainInv, ChainShape, JobShape
  <2>2. /\ root = Root(id) /\ total = Total(id) /\ Root(id) # None
        /\ windows' = [windows EXCEPT ![id].state = "PUBLISHED", ![id].publicationTx = tx]
    BY <1>6, <2>1 DEF recordRefused, recordPublication
  <2>3. /\ distributions[id].root = root /\ distributions[id].total = total
        /\ publishedBy[id] = tx
    BY <1>1, <2>1 DEF ChainInv, JobInv
  <2>4. \A i \in Ids \ {id} : windows'[i] = windows[i]
    BY <2>2 DEF WindowsShape
  <2>5. windows'[id].publicationTx = tx /\ windows'[id].allocations = windows[id].allocations
    BY <2>1, <2>2 DEF WindowsShape, WindowShape
  <2>6. Root(id)' = Root(id) /\ Total(id)' = Total(id)
    BY <2>5 DEF Root, Total
  <2>7. PublishedOnChain(id)'
    BY <1>1, <1>2, <2>2, <2>3, <2>5, <2>6 DEF PublishedOnChain
  <2>8. QED
    BY <1>1, <1>3, <1>4, <2>4, <2>7, ChainStep
<1>7. QED
  BY <1>5, <1>6 DEF Record

LEMMA DistStep ==
  ASSUME DistInv, [DistributionNext]_distributionVars
  PROVE  DistInv'
<1>1. WindowInv /\ ChainInv /\ WindowsShape
  BY DEF DistInv, WindowInv
<1>2. ASSUME UNCHANGED <<wpLedger, windows, files, taker>>
      PROVE  WindowInv'
  <2>1. WindowsShape'
    BY <1>1, <1>2 DEF WindowsShape
  <2>2. QED
    BY <1>1, <1>2, <2>1, WindowStep
<1>3. CASE UNCHANGED distributionVars
  <2>1. UNCHANGED <<wpLedger, windows, files, taker>> /\ UNCHANGED <<jobVars, contractVars>>
    BY <1>3 DEF distributionVars, windowVars
  <2>2. QED
    BY <1>1, <1>2, <2>1, ChainUntouched DEF DistInv
<1>4. CASE WindowNext
  <2>1. ChainInv'
    BY <1>1, <1>4, WindowStepsPublishNothing, ChainUntouched
  <2>2. CASE Tick
    BY <1>2, <2>1, <2>2 DEF Tick, DistInv
  <2>3. WindowInv' \/ Tick
    BY <1>1, <1>4, DecideKeeps, CommandKeeps, OpenKeeps, ReadPoolKeeps, ClaimFileKeeps,
       TakeSnapshotKeeps, WriteFileKeeps, CrashTakerKeeps, UnacknowledgedKeeps,
       WriteAwardKeeps, CalculateKeeps DEF WindowNext, TakerStep
  <2>4. QED
    BY <2>1, <2>2, <2>3 DEF DistInv
<1>5. CASE PublicationNext
  <2>1. CASE Record
    BY <1>1, <2>1, RecordKeeps, RecordKeepsWindows DEF DistInv, ChainInv, ChainShape
  <2>2. CASE \/ \E id \in Ids : StartJob(id)
             \/ ReadChain \/ CheckFunding \/ ReadBack \/ CrashJob
    <3>1. UNCHANGED <<wpLedger, windows, files, taker>>
      BY <2>2 DEF StartJob, ReadChain, CheckFunding, ReadBack, CrashJob, jobStep
    <3>2. QED
      BY <1>1, <1>2, <2>2, <3>1, JobStepsKeep DEF DistInv
  <2>3. ASSUME NEW n \in 1..MaxTx, SendPublication(n)
        PROVE  DistInv'
    BY <1>1, <1>2, <2>3, SendKeeps DEF SendPublication, jobStep, DistInv
  <2>4. ASSUME NEW n \in 1..MaxTx, Mine(n)
        PROVE  DistInv'
    BY <1>1, <1>2, <2>4, MineKeeps DEF Mine, windowVars, DistInv
  <2>5. ASSUME NEW id \in Ids, MultisigPublishes(id) \/ Claim(id)
        PROVE  DistInv'
    BY <1>1, <1>2, <2>5, MultisigKeeps, ClaimKeepsRoots
       DEF MultisigPublishes, Claim, windowVars, DistInv
  <2>6. QED
    BY <1>5, <2>1, <2>2, <2>3, <2>4, <2>5 DEF PublicationNext, PublishStep
<1>6. CASE TreasuryStep
  BY <1>1, <1>2, <1>6, TreasuryKeepsRoots DEF TreasuryStep, windowVars, DistInv
<1>7. QED
  BY <1>3, <1>4, <1>5, <1>6 DEF DistributionNext

\* What a window pays is what its snapshot file says and what is on chain,
\* whatever processes crash, lose acknowledgements or race each other, and
\* whoever else publishes (snapshot-file.ts:15-25, distribution-store.ts:261-271,
\* 381-386, publication.ts:25-26).
THEOREM DistributionsAreReproducible == DistributionSpec => []WindowIsReproducible
<1>1. QED
  BY DistInvInitially, DistInvSuffices, DistStep, PTL DEF DistributionSpec

-----------------------------------------------------------------------------
(***************************************************************************)
(* Claims.  Blocks at or below a head once read do not change, so the      *)
(* ranges a turn has still to scan, the logs it has found and what is      *)
(* recorded hold between them every claim of the blocks it is reading.     *)
(***************************************************************************)

\* The claims the distributor's events tell of.
Followed == {p \in Pairs : p[1] # Secret}
Paid(p) == paidAt[p] \in 0..head

ChainOfClaims ==
  /\ head \in Nat
  /\ \A p \in Pairs : paidAt[p] \in -1..head
  /\ paidAt \in [Pairs -> Int]

\* The ranges still to scan, by the blocks in them.
InRange(b, range) == b \in range[1]..range[2]
IsPending(b, pending) == \E i \in 1..Len(pending) : InRange(b, pending[i])

TurnShape(t) ==
  /\ t.at \in {"waiting", "cursor", "scan", "record"}
  /\ DOMAIN t = {"at", "head", "to", "pending", "found"}
  /\ t.head \in 0..head /\ t.to \in Int /\ t.to <= head
  /\ t.pending \in Seq(Nat \X Nat)
  /\ t.at = "record" => t.pending = << >>
  /\ t.found \subseteq {p \in Followed : Paid(p)}

\* A turn that reads up to some block: each claim there is recorded, found, or
\* in a range still to scan.
TurnHolds(t) ==
  t.at \in {"scan", "record"} =>
    \A p \in Entitled \cap Followed : paidAt[p] \in 0..t.to =>
      p \in recorded \/ p \in t.found \/ IsPending(paidAt[p], t.pending)

RecordInv ==
  /\ cursor \in -1..head
  /\ \A p \in Entitled \cap Followed : paidAt[p] \in 0..cursor => p \in recorded
  /\ \A p \in recorded : p \in Pairs /\ Paid(p)

ReadersInv ==
  /\ DOMAIN reader = Readers
  /\ \A r \in Readers : TurnShape(reader[r]) /\ TurnHolds(reader[r])

TxShape == [claimable : Claimables, wallet : Wallets, proofOf : Wallets,
            state : {"pending", "succeeded", "reverted"}]

\* One account is named, proved and sent from.
RunShape(run) ==
  run # NONE =>
    /\ DOMAIN run = {"at", "wallet", "proofOf", "tx"}
    /\ run.wallet \in Wallets /\ run.proofOf = run.wallet

PageInv ==
  /\ session # NONE => session.wallet \in Wallets
  /\ DOMAIN running = Claimables
  /\ \A c \in Claimables : RunShape(running[c])
  /\ sent \in Seq(TxShape)
  /\ \A n \in 1..Len(sent) : sent[n].proofOf = sent[n].wallet

ClaimsInv == ChainOfClaims /\ RecordInv /\ ReadersInv /\ PageInv

LEMMA ClaimsInvSuffices == ClaimsInv => ClaimsFollowTheChain
<1> SUFFICES ASSUME ClaimsInv PROVE ClaimsFollowTheChain
  OBVIOUS
<1>1. ASSUME NEW p \in Entitled, p[1] # Secret
      PROVE  /\ paidAt[p] \in 0..cursor => p \in recorded
             /\ p \in recorded => paidAt[p] # -1
  BY <1>1 DEF ClaimsInv, ChainOfClaims, RecordInv, Followed, Pairs, Paid
<1>2. \A n \in DOMAIN sent : sent[n].proofOf = sent[n].wallet
  BY DEF ClaimsInv, PageInv
<1>3. QED
  BY <1>1, <1>2 DEF ClaimsFollowTheChain

LEMMA WaitingTurn ==
  ASSUME head \in Nat
  PROVE  TurnShape(Waiting) /\ TurnHolds(Waiting)
BY DEF TurnShape, TurnHolds, Waiting

LEMMA ClaimsInvInitially == ClaimsInit => ClaimsInv
<1> SUFFICES ASSUME ClaimsInit PROVE ClaimsInv
  OBVIOUS
<1>1. ChainOfClaims /\ RecordInv
  BY DEF ClaimsInit, ChainOfClaims, RecordInv
<1>2. ReadersInv
  BY <1>1, WaitingTurn DEF ClaimsInit, ReadersInv, ChainOfClaims
<1>3. PageInv
  BY DEF ClaimsInit, PageInv, RunShape
<1>4. QED
  BY <1>1, <1>2, <1>3 DEF ClaimsInv

\* A block is added: what was paid stays paid where it was.
LEMMA BlockAdded ==
  ASSUME ClaimsInv, head' = head + 1, UNCHANGED readerVars,
         NEW paying, paying \subseteq {p \in Pairs : paidAt[p] = -1},
         paidAt' = [p \in Pairs |-> IF p \in paying THEN head + 1 ELSE paidAt[p]]
  PROVE  ChainOfClaims' /\ RecordInv' /\ ReadersInv'
<1>1. /\ UNCHANGED <<recorded, cursor, reader>> /\ head \in Nat
      /\ \A p \in Pairs : paidAt[p] \in -1..head
  BY DEF readerVars, ClaimsInv, ChainOfClaims
<1>2. ChainOfClaims'
  BY <1>1 DEF ChainOfClaims
<1>3. ASSUME NEW p \in Pairs
      PROVE  /\ \/ paidAt'[p] = paidAt[p]
                \/ paidAt[p] = -1 /\ paidAt'[p] = head + 1
             /\ Paid(p) => Paid(p)' /\ paidAt'[p] = paidAt[p]
             /\ \A b \in Int : b <= head /\ paidAt'[p] \in 0..b => paidAt'[p] = paidAt[p]
  <2>1. \/ paidAt'[p] = paidAt[p]
        \/ paidAt[p] = -1 /\ paidAt'[p] = head + 1
    OBVIOUS
  <2>2. paidAt[p] \in -1..head /\ head \in Nat
    BY <1>1
  <2>3. \A b \in Int : b <= head /\ paidAt'[p] \in 0..b => paidAt'[p] = paidAt[p]
    BY <2>1, <2>2
  <2>4. ASSUME Paid(p) PROVE Paid(p)' /\ paidAt'[p] = paidAt[p]
    <3>1. paidAt'[p] = paidAt[p]
      BY <2>1, <2>4 DEF Paid
    <3>2. QED
      BY <2>2, <2>4, <3>1 DEF Paid
  <2>5. QED
    BY <2>1, <2>3, <2>4
<1>4. ASSUME NEW r \in Readers
      PROVE  TurnShape(reader[r])' /\ TurnHolds(reader[r])'
  <2>1. PICK t : t = reader[r]
    OBVIOUS
  <2>2. TurnShape(t) /\ TurnHolds(t)
    BY <2>1 DEF ClaimsInv, ReadersInv
  <2>3. TurnShape(t)'
    BY <1>1, <1>3, <2>2 DEF TurnShape, Followed
  <2>4. TurnHolds(t)'
    <3> SUFFICES ASSUME t.at \in {"scan", "record"},
                        NEW p \in Entitled \cap Followed, paidAt'[p] \in 0..t.to
                 PROVE  p \in recorded \/ p \in t.found \/ IsPending(paidAt'[p], t.pending)
      BY <1>1 DEF TurnHolds
    <3>1. paidAt'[p] = paidAt[p]
      BY <1>3, <2>2 DEF TurnShape, Followed
    <3>2. QED
      BY <2>2, <3>1 DEF TurnHolds
  <2>5. QED
    BY <1>1, <2>1, <2>3, <2>4
<1>5. ReadersInv'
  BY <1>1, <1>4 DEF ReadersInv, ClaimsInv
<1>6. RecordInv'
  <2>1. cursor \in -1..head /\ cursor' \in -1..head'
    BY <1>1 DEF RecordInv, ClaimsInv
  <2>2. ASSUME NEW p \in Entitled \cap Followed, paidAt'[p] \in 0..cursor
        PROVE  p \in recorded
    <3>1. paidAt'[p] = paidAt[p]
      BY <1>1, <1>3, <2>1, <2>2 DEF Followed
    <3>2. QED
      BY <2>2, <3>1 DEF RecordInv, ClaimsInv
  <2>3. \A p \in recorded' : p \in Pairs /\ Paid(p)'
    BY <1>1, <1>3 DEF RecordInv, ClaimsInv
  <2>4. QED
    BY <1>1, <2>1, <2>2, <2>3 DEF RecordInv
<1>7. QED
  BY <1>2, <1>5, <1>6

\* A turn's own steps touch neither the chain nor what is recorded.
LEMMA TurnStep ==
  ASSUME ClaimsInv, NEW r \in Readers, NEW t, TurnShape(t), TurnHolds(t),
         reader' = [reader EXCEPT ![r] = t], UNCHANGED <<chainVars, recorded, cursor, pageVars>>
  PROVE  ClaimsInv'
<1>1. UNCHANGED <<head, paidAt, recorded, cursor, session, running, sent>>
  BY DEF chainVars, pageVars
<1>2. /\ DOMAIN reader' = Readers
      /\ \A q \in Readers : reader'[q] = IF q = r THEN t ELSE reader[q]
  BY DEF ClaimsInv, ReadersInv
<1>3. ChainOfClaims' /\ RecordInv' /\ PageInv'
  BY <1>1 DEF ClaimsInv, ChainOfClaims, RecordInv, PageInv, Paid
<1>4. ASSUME NEW q \in Readers
      PROVE  TurnShape(reader[q])' /\ TurnHolds(reader[q])'
  <2>1. PICK u : u = reader'[q]
    OBVIOUS
  <2>2. TurnShape(u) /\ TurnHolds(u)
    BY <1>2, <2>1 DEF ClaimsInv, ReadersInv
  <2>3. TurnShape(u)' /\ TurnHolds(u)'
    BY <1>1, <2>2 DEF TurnShape, TurnHolds, Paid
  <2>4. QED
    BY <2>1, <2>3
<1>5. ReadersInv'
  BY <1>2, <1>4 DEF ReadersInv
<1>6. QED
  BY <1>3, <1>5 DEF ClaimsInv

LEMMA TurnEnds ==
  ASSUME ClaimsInv, NEW r \in Readers, reader' = [reader EXCEPT ![r] = Waiting],
         UNCHANGED <<chainVars, recorded, cursor, pageVars>>
  PROVE  ClaimsInv'
BY WaitingTurn, TurnStep DEF ClaimsInv, ChainOfClaims

LEMMA ReadHeadKeeps ==
  ASSUME ClaimsInv, NEW r \in Readers, ReadHead(r)
  PROVE  ClaimsInv'
<1>1. PICK h : h = head
  OBVIOUS
<1>2. PICK t : t = [Waiting EXCEPT !.at = "cursor", !.head = h]
  OBVIOUS
<1>3. /\ DOMAIN t = {"at", "head", "to", "pending", "found"}
      /\ t.at = "cursor" /\ t.head = h /\ t.to = 0 /\ t.pending = << >> /\ t.found = {}
  BY <1>2 DEF Waiting
<1>4. /\ reader' = [reader EXCEPT ![r] = t]
      /\ UNCHANGED <<chainVars, recorded, cursor, pageVars>>
  BY <1>1, <1>2 DEF ReadHead
<1>5. TurnShape(t) /\ TurnHolds(t)
  BY <1>1, <1>3 DEF ClaimsInv, ChainOfClaims, TurnShape, TurnHolds
<1>6. QED
  BY <1>4, <1>5, TurnStep

\* The blocks up to the cursor are recorded; the turn takes the next ones.
LEMMA ReadCursorKeeps ==
  ASSUME ClaimsInv, NEW r \in Readers, ReadCursor(r)
  PROVE  ClaimsInv'
<1>1. PICK u : u = reader[r]
  OBVIOUS
<1>2. PICK from, to :
        /\ from = cursor + 1
        /\ to = IF u.head - from + 1 > MAX_BLOCKS_PER_READ
                  THEN from + MAX_BLOCKS_PER_READ - 1 ELSE u.head
  OBVIOUS
<1>3. PICK t : t = [u EXCEPT !.at = "scan", !.to = to, !.pending = << <<from, to>> >>]
  OBVIOUS
<1>4. /\ u.at = "cursor" /\ UNCHANGED <<chainVars, recorded, cursor, pageVars>>
      /\ reader' = [reader EXCEPT ![r] = IF from <= u.head THEN t ELSE Waiting]
  BY <1>1, <1>2, <1>3 DEF ReadCursor
<1>5. TurnShape(u)
  BY <1>1 DEF ClaimsInv, ReadersInv
<1>6. /\ DOMAIN t = {"at", "head", "to", "pending", "found"}
      /\ t.at = "scan" /\ t.head = u.head /\ t.to = to /\ t.found = u.found
      /\ t.pending = << <<from, to>> >>
  BY <1>3, <1>5 DEF TurnShape
<1>7. CASE from <= u.head
  <2>1. /\ head \in Nat /\ u.head \in 0..head /\ cursor \in -1..head
        /\ MAX_BLOCKS_PER_READ \in Nat \ {0}
    BY <1>5, ClaimsAssumption DEF TurnShape, ClaimsInv, ChainOfClaims, RecordInv
  <2>2. from \in Nat /\ to \in Nat /\ to <= head
    BY <1>2, <1>7, <2>1
  <2>3. TurnShape(t)
    <3>1. << <<from, to>> >> \in Seq(Nat \X Nat)
      BY <2>2
    <3>2. u.found \subseteq {p \in Followed : Paid(p)}
      BY <1>5 DEF TurnShape
    <3>3. QED
      BY <1>6, <2>1, <2>2, <3>1, <3>2 DEF TurnShape
  <2>4. TurnHolds(t)
    <3> SUFFICES ASSUME NEW p \in Entitled \cap Followed, paidAt[p] \in 0..to
                 PROVE  p \in recorded \/ IsPending(paidAt[p], << <<from, to>> >>)
      BY <1>6 DEF TurnHolds
    <3>1. paidAt[p] \in 0..cursor \/ paidAt[p] \in from..to
      BY <1>2, <2>1, <2>2
    <3>2. CASE paidAt[p] \in 0..cursor
      BY <3>2 DEF ClaimsInv, RecordInv
    <3>3. CASE paidAt[p] \in from..to
      BY <3>3 DEF IsPending, InRange
    <3>4. QED
      BY <3>1, <3>2, <3>3
  <2>5. QED
    BY <1>4, <1>7, <2>3, <2>4, TurnStep
<1>8. CASE ~(from <= u.head)
  BY <1>4, <1>8, TurnEnds
<1>9. QED
  BY <1>7, <1>8

\* The last range is taken off; the blocks pending are its own and the others'.
LEMMA PoppedRange ==
  ASSUME NEW pending \in Seq(Nat \X Nat), pending # << >>
  PROVE  /\ Front(pending) \in Seq(Nat \X Nat)
         /\ Last(pending) \in Nat \X Nat
         /\ \A b : IsPending(b, pending) =>
              InRange(b, Last(pending)) \/ IsPending(b, Front(pending))
<1>1. /\ Len(pending) \in Nat \ {0} /\ Len(pending) \in 1..Len(pending)
      /\ Last(pending) = pending[Len(pending)]
  BY DEF Last
<1>2. /\ Front(pending) \in Seq(Nat \X Nat)
      /\ Len(Front(pending)) = Len(pending) - 1
      /\ \A i \in 1..(Len(pending) - 1) : Front(pending)[i] = pending[i]
  <2>0. PICK k \in Nat \ {0} : k = Len(pending)
    BY <1>1
  <2>1. PICK n : n = k - 1
    OBVIOUS
  <2>2. Front(pending) = SubSeq(pending, 1, n)
    BY <2>0, <2>1 DEF Front
  <2>3. n \in Nat /\ \A i \in 1..n : pending[i] \in Nat \X Nat
    BY <2>0, <2>1
  <2>4. /\ SubSeq(pending, 1, n) \in Seq(Nat \X Nat)
        /\ Len(SubSeq(pending, 1, n)) = IF 1 <= n THEN n - 1 + 1 ELSE 0
        /\ \A i \in 1..(n - 1 + 1) : SubSeq(pending, 1, n)[i] = pending[1 + i - 1]
    BY <2>3, SubSeqProperties, Z3
  <2>5. Len(pending) - 1 = n /\ n - 1 + 1 = n
    BY <2>0, <2>1, <2>3
  <2>6. QED
    BY <2>2, <2>3, <2>4, <2>5
<1>3. ASSUME NEW b, IsPending(b, pending)
      PROVE  InRange(b, Last(pending)) \/ IsPending(b, Front(pending))
  <2>1. PICK i \in 1..Len(pending) : InRange(b, pending[i])
    BY <1>3 DEF IsPending
  <2>2. CASE i = Len(pending)
    BY <1>1, <2>1, <2>2
  <2>3. CASE i # Len(pending)
    <3>1. i \in 1..(Len(pending) - 1) /\ i \in 1..Len(Front(pending))
      BY <1>1, <1>2, <2>3
    <3>2. Front(pending)[i] = pending[i]
      BY <1>2, <3>1
    <3>3. InRange(b, Front(pending)[i])
      BY <2>1, <3>2
    <3>4. QED
      BY <3>1, <3>3 DEF IsPending
  <2>4. QED
    BY <2>2, <2>3
<1>4. QED
  BY <1>1, <1>2, <1>3

\* Splitting a range loses no block of it.
LEMMA SplitRange ==
  ASSUME NEW rest \in Seq(Nat \X Nat), NEW start \in Nat, NEW middle \in Nat, NEW end \in Nat
  PROVE  /\ rest \o << <<middle + 1, end>>, <<start, middle>> >> \in Seq(Nat \X Nat)
         /\ \A b \in Int : InRange(b, <<start, end>>) \/ IsPending(b, rest) =>
              IsPending(b, rest \o << <<middle + 1, end>>, <<start, middle>> >>)
<1> DEFINE two == << <<middle + 1, end>>, <<start, middle>> >>
           both == rest \o two
<1>1. two \in Seq(Nat \X Nat) /\ Len(two) = 2
  OBVIOUS
<1>2. two[1] = <<middle + 1, end>> /\ two[2] = <<start, middle>>
  OBVIOUS
<1> HIDE DEF two
<1>3. /\ Len(rest) \in Nat /\ both \in Seq(Nat \X Nat) /\ Len(both) = Len(rest) + 2
      /\ \A i \in 1..Len(rest) : both[i] = rest[i]
      /\ both[Len(rest) + 1] = two[1] /\ both[Len(rest) + 2] = two[2]
  <2>1. /\ both \in Seq(Nat \X Nat) /\ Len(both) = Len(rest) + Len(two)
        /\ \A i \in 1..(Len(rest) + Len(two)) :
             both[i] = IF i <= Len(rest) THEN rest[i] ELSE two[i - Len(rest)]
    BY <1>1, ConcatProperties
  <2>2. PICK n \in Nat : n = Len(rest)
    OBVIOUS
  <2>3. both[n + 1] = two[n + 1 - n] /\ both[n + 2] = two[n + 2 - n]
    BY <1>1, <2>1, <2>2
  <2>4. n + 1 - n = 1 /\ n + 2 - n = 2
    OBVIOUS
  <2>5. QED
    BY <1>1, <2>1, <2>2, <2>3, <2>4
<1> HIDE DEF both
<1>4. ASSUME NEW b \in Int, InRange(b, <<start, end>>)
      PROVE  IsPending(b, both)
  <2>1. InRange(b, <<middle + 1, end>>) \/ InRange(b, <<start, middle>>)
    BY <1>4 DEF InRange
  <2>2. Len(rest) + 1 \in 1..Len(both) /\ Len(rest) + 2 \in 1..Len(both)
    BY <1>3
  <2>3. QED
    BY <1>2, <1>3, <2>1, <2>2 DEF IsPending
<1>5. ASSUME NEW b \in Int, IsPending(b, rest)
      PROVE  IsPending(b, both)
  BY <1>3, <1>5 DEF IsPending
<1>6. QED
  BY <1>3, <1>4, <1>5 DEF both, two

\* One query of the logs: what it returns is found, or the range is split.
LEMMA ScanKeeps ==
  ASSUME ClaimsInv, NEW r \in Readers, Scan(r)
  PROVE  ClaimsInv'
<1>1. PICK u : u = reader[r]
  OBVIOUS
<1>2. PICK range, rest : range = Last(u.pending) /\ rest = Front(u.pending)
  OBVIOUS
<1>3. PICK start, end, middle, logs :
        /\ start = range[1] /\ end = range[2] /\ middle = start + (end - start) \div 2
        /\ logs = LogsIn(start, end)
  OBVIOUS
<1>4. PICK read : read = Read(u, logs)
  OBVIOUS
<1>5. PICK split : split = Halved(u)
  OBVIOUS
<1>6. /\ u.at = "scan" /\ u.pending # << >>
      /\ UNCHANGED <<chainVars, recorded, cursor, pageVars>>
      /\ \/ reader' = [reader EXCEPT ![r] = read]
         \/ reader' = [reader EXCEPT ![r] = Waiting]
         \/ reader' = [reader EXCEPT ![r] = split]
  BY <1>1, <1>2, <1>3, <1>4, <1>5 DEF Scan
<1>7. TurnShape(u) /\ TurnHolds(u)
  BY <1>1 DEF ClaimsInv, ReadersInv
<1>8. u.pending \in Seq(Nat \X Nat) /\ u.to \in Int /\ u.to <= head
  BY <1>7 DEF TurnShape
<1>9. /\ rest \in Seq(Nat \X Nat) /\ range \in Nat \X Nat
      /\ \A b : IsPending(b, u.pending) => InRange(b, range) \/ IsPending(b, rest)
  BY <1>2, <1>6, <1>8, PoppedRange
<1>10. range = <<start, end>> /\ start \in Nat /\ end \in Nat
  BY <1>3, <1>9
<1>11. middle \in Nat
  BY <1>3, <1>10
<1>12. ASSUME NEW p \in Entitled \cap Followed, paidAt[p] \in 0..u.to
       PROVE  \/ p \in recorded \/ p \in u.found
              \/ InRange(paidAt[p], range) \/ IsPending(paidAt[p], rest)
  BY <1>6, <1>7, <1>9, <1>12 DEF TurnHolds
<1>13. ASSUME reader' = [reader EXCEPT ![r] = read]
       PROVE  ClaimsInv'
  <2>1. /\ DOMAIN read = {"at", "head", "to", "pending", "found"}
        /\ read.pending = rest /\ read.found = u.found \cup logs
        /\ read.head = u.head /\ read.to = u.to
    BY <1>2, <1>4, <1>7 DEF TurnShape, Read
  <2>2. read.at = IF rest = << >> THEN "record" ELSE "scan"
    BY <1>2, <1>4, <1>6, <1>7 DEF TurnShape, Read
  <2>3. logs \subseteq {p \in Followed : Paid(p)}
    <3>1. logs = {p \in Pairs : p[1] # Secret /\ paidAt[p] \in start..end}
      BY <1>3 DEF LogsIn
    <3>2. ASSUME NEW p \in logs PROVE p \in Followed /\ Paid(p)
      <4>1. p \in Pairs /\ p[1] # Secret /\ paidAt[p] \in start..end
        BY <3>1
      <4>2. paidAt[p] \in -1..head /\ head \in Nat
        BY <4>1 DEF ClaimsInv, ChainOfClaims
      <4>3. paidAt[p] \in 0..head
        BY <1>10, <4>1, <4>2
      <4>4. QED
        BY <4>1, <4>3 DEF Followed, Paid
    <3>3. QED
      BY <3>2
  <2>4. TurnShape(read)
    BY <1>7, <1>9, <2>1, <2>2, <2>3 DEF TurnShape
  <2>5. TurnHolds(read)
    <3> SUFFICES ASSUME NEW p \in Entitled \cap Followed, paidAt[p] \in 0..u.to
                 PROVE  p \in recorded \/ p \in read.found \/ IsPending(paidAt[p], read.pending)
      BY <2>1 DEF TurnHolds
    <3>1. InRange(paidAt[p], range) => p \in logs
      BY <1>3, <1>10 DEF InRange, LogsIn, Followed
    <3>2. QED
      BY <1>12, <2>1, <3>1
  <2>6. QED
    BY <1>6, <1>13, <2>4, <2>5, TurnStep
<1>14. ASSUME reader' = [reader EXCEPT ![r] = split]
       PROVE  ClaimsInv'
  <2>1. PICK both : both = rest \o << <<middle + 1, end>>, <<start, middle>> >>
    OBVIOUS
  <2>2. /\ DOMAIN split = {"at", "head", "to", "pending", "found"}
        /\ split.pending = both /\ split.found = u.found
        /\ split.head = u.head /\ split.to = u.to /\ split.at = "scan"
    BY <1>2, <1>3, <1>5, <1>6, <1>7, <2>1 DEF TurnShape, Halved
  <2>3. /\ both \in Seq(Nat \X Nat)
        /\ \A b \in Int : InRange(b, <<start, end>>) \/ IsPending(b, rest) => IsPending(b, both)
    BY <1>9, <1>10, <1>11, <2>1, SplitRange
  <2>4. TurnShape(split)
    BY <1>7, <2>2, <2>3 DEF TurnShape
  <2>5. TurnHolds(split)
    <3> SUFFICES ASSUME NEW p \in Entitled \cap Followed, paidAt[p] \in 0..u.to
                 PROVE  p \in recorded \/ p \in u.found \/ IsPending(paidAt[p], both)
      BY <2>2 DEF TurnHolds
    <3>1. paidAt[p] \in Int
      OBVIOUS
    <3>2. QED
      BY <1>10, <1>12, <2>3, <3>1
  <2>6. QED
    BY <1>6, <1>14, <2>4, <2>5, TurnStep
<1>15. QED
  BY <1>6, <1>13, <1>14, TurnEnds

\* What is recorded only grows, by claims the chain has paid.
LEMMA RecordClaimKeeps ==
  ASSUME ClaimsInv, NEW r \in Readers, RecordClaim(r)
  PROVE  ClaimsInv'
<1>1. PICK u : u = reader[r]
  OBVIOUS
<1>2. TurnShape(u) /\ TurnHolds(u)
  BY <1>1 DEF ClaimsInv, ReadersInv
<1>3. \A q \in u.found : q \in Followed /\ Paid(q)
  BY <1>2 DEF TurnShape
<1>4. PICK p \in u.found :
        /\ recorded' = recorded \cup ({p} \cap Entitled)
        /\ reader' = [reader EXCEPT ![r].found = u.found \ {p}]
  <2> DEFINE first(q) == \A other \in u.found : paidAt[q] <= paidAt[other]
             chosen == CHOOSE q \in u.found : first(q)
  <2>1. u.found # {}
    BY <1>1 DEF RecordClaim
  <2>2. \E q \in u.found : first(q)
    <3> DEFINE T == {paidAt[q] : q \in u.found}
    <3>1. T \subseteq Nat
      BY <1>3 DEF Paid
    <3>2. T # {}
      BY <2>1
    <3>3. PICK n \in T : \A m \in T : n <= m
      BY <3>1, <3>2, LeastNatural
    <3>4. PICK q \in u.found : n = paidAt[q]
      OBVIOUS
    <3>5. QED
      BY <3>3, <3>4
  <2>3. chosen \in u.found
    BY <2>2
  <2>4. /\ recorded' = recorded \cup ({chosen} \cap Entitled)
        /\ reader' = [reader EXCEPT ![r].found = u.found \ {chosen}]
    BY <1>1 DEF RecordClaim
  <2> HIDE DEF chosen
  <2>5. QED
    BY <2>3, <2>4
<1>5. /\ UNCHANGED <<head, paidAt, cursor, session, running, sent>>
      /\ reader[r].at = "record"
  BY DEF RecordClaim, chainVars, pageVars
<1>6. ChainOfClaims' /\ PageInv'
  BY <1>5 DEF ClaimsInv, ChainOfClaims, PageInv
<1>7. p \in Followed /\ Paid(p)
  BY <1>3
<1>8. RecordInv'
  BY <1>4, <1>5, <1>7 DEF ClaimsInv, RecordInv, Followed, Paid
<1>9. /\ DOMAIN reader' = Readers
      /\ \A q \in Readers \ {r} : reader'[q] = reader[q]
      /\ reader'[r] = [u EXCEPT !.found = u.found \ {p}]
  BY <1>1, <1>4 DEF ClaimsInv, ReadersInv
<1>10. ASSUME NEW v, TurnShape(v), TurnHolds(v)
       PROVE  TurnShape(v)' /\ TurnHolds(v)'
  BY <1>4, <1>5, <1>10 DEF TurnShape, TurnHolds, Paid
<1>11. ASSUME NEW q \in Readers \ {r}
       PROVE  TurnShape(reader[q])' /\ TurnHolds(reader[q])'
  <2>1. PICK v : v = reader[q]
    OBVIOUS
  <2>2. TurnShape(v) /\ TurnHolds(v)
    BY <2>1 DEF ClaimsInv, ReadersInv
  <2>3. reader'[q] = v
    BY <1>9, <2>1
  <2>4. QED
    BY <1>10, <2>2, <2>3
<1>12. TurnShape(reader[r])' /\ TurnHolds(reader[r])'
  <2>1. PICK v : v = [u EXCEPT !.found = u.found \ {p}]
    OBVIOUS
  <2>2. /\ DOMAIN v = DOMAIN u /\ v.found = u.found \ {p}
        /\ v.at = u.at /\ v.head = u.head /\ v.to = u.to /\ v.pending = u.pending
    BY <1>2, <2>1 DEF TurnShape
  <2>3. TurnShape(v)'
    BY <1>2, <1>5, <2>2 DEF TurnShape, Paid
  <2>4. TurnHolds(v)'
    <3> SUFFICES ASSUME v.at \in {"scan", "record"},
                        NEW q \in Entitled \cap Followed, paidAt[q] \in 0..v.to
                 PROVE  q \in recorded' \/ q \in v.found \/ IsPending(paidAt[q], v.pending)
      BY <1>5 DEF TurnHolds
    <3>1. q \in recorded \/ q \in u.found \/ IsPending(paidAt[q], u.pending)
      BY <1>2, <2>2 DEF TurnHolds
    <3>2. q = p => q \in recorded'
      BY <1>4
    <3>3. QED
      BY <1>4, <2>2, <3>1, <3>2
  <2>5. reader'[r] = v
    BY <1>9, <2>1
  <2>6. QED
    BY <2>3, <2>4, <2>5
<1>13. ReadersInv'
  BY <1>9, <1>11, <1>12 DEF ReadersInv
<1>14. QED
  BY <1>6, <1>8, <1>13 DEF ClaimsInv

\* The cursor moves only over blocks whose claims are recorded.
LEMMA AdvanceKeeps ==
  ASSUME ClaimsInv, NEW r \in Readers, Advance(r)
  PROVE  ClaimsInv'
<1>1. PICK u : u = reader[r]
  OBVIOUS
<1>2. /\ u.at = "record" /\ u.found = {} /\ UNCHANGED <<chainVars, recorded, pageVars>>
      /\ cursor' = IF u.to > cursor THEN u.to ELSE cursor
      /\ reader' = [reader EXCEPT ![r] = Waiting]
  BY <1>1 DEF Advance
<1>3. TurnShape(u) /\ TurnHolds(u)
  BY <1>1 DEF ClaimsInv, ReadersInv
<1>4. UNCHANGED <<head, paidAt, session, running, sent>>
  BY <1>2 DEF chainVars, pageVars
<1>5. u.to \in Int /\ u.to <= head /\ u.pending = << >>
  BY <1>2, <1>3 DEF TurnShape
<1>6. \A p \in Entitled \cap Followed : paidAt[p] \in 0..u.to => p \in recorded
  <2>1. \A b : ~IsPending(b, << >>)
    BY DEF IsPending
  <2>2. QED
    BY <1>2, <1>3, <1>5, <2>1 DEF TurnHolds
<1>7. RecordInv'
  <2>1. cursor \in -1..head /\ head \in Nat
    BY DEF ClaimsInv, RecordInv, ChainOfClaims
  <2>2. cursor' \in -1..head
    BY <1>2, <1>5, <2>1
  <2>3. ASSUME NEW p \in Entitled \cap Followed, paidAt[p] \in 0..cursor'
        PROVE  p \in recorded
    BY <1>2, <1>6, <2>3 DEF ClaimsInv, RecordInv
  <2>4. QED
    BY <1>2, <1>4, <2>2, <2>3 DEF ClaimsInv, RecordInv, Paid
<1>8. ASSUME NEW q \in Readers
      PROVE  TurnShape(reader[q])' /\ TurnHolds(reader[q])'
  <2>1. PICK v : v = reader'[q]
    OBVIOUS
  <2>2. v = Waiting \/ v = reader[q]
    BY <1>2, <2>1 DEF ClaimsInv, ReadersInv
  <2>3. TurnShape(v) /\ TurnHolds(v)
    BY <2>2, WaitingTurn DEF ClaimsInv, ReadersInv, ChainOfClaims
  <2>4. TurnShape(v)' /\ TurnHolds(v)'
    BY <1>2, <1>4, <2>3 DEF TurnShape, TurnHolds, Paid
  <2>5. QED
    BY <2>1, <2>4
<1>9. ReadersInv'
  BY <1>2, <1>8 DEF ReadersInv, ClaimsInv
<1>10. ChainOfClaims' /\ PageInv'
  BY <1>4 DEF ClaimsInv, ChainOfClaims, PageInv
<1>11. QED
  BY <1>7, <1>9, <1>10 DEF ClaimsInv

-----------------------------------------------------------------------------
\* The page's steps: what is sent names one account, whatever changes under it.

LEMMA PageOnly ==
  ASSUME ClaimsInv, UNCHANGED <<chainVars, readerVars>>, PageInv'
  PROVE  ClaimsInv'
<1>1. UNCHANGED <<head, paidAt, recorded, cursor, reader>>
  BY DEF chainVars, readerVars
<1>2. ChainOfClaims' /\ RecordInv'
  BY <1>1 DEF ClaimsInv, ChainOfClaims, RecordInv, Paid
<1>3. ASSUME NEW r \in Readers
      PROVE  TurnShape(reader[r])' /\ TurnHolds(reader[r])'
  BY <1>1 DEF ClaimsInv, ReadersInv, TurnShape, TurnHolds, Paid
<1>4. ReadersInv'
  BY <1>1, <1>3 DEF ReadersInv, ClaimsInv
<1>5. QED
  BY <1>2, <1>4 DEF ClaimsInv

\* A run that ends, or goes on with the account it began with.
LEMMA RunGoesOn ==
  ASSUME PageInv, NEW c \in Claimables, NEW run, RunShape(run),
         running' = [running EXCEPT ![c] = run], UNCHANGED <<session, sent>>
  PROVE  PageInv'
<1>1. /\ DOMAIN running' = Claimables
      /\ \A d \in Claimables : running'[d] = IF d = c THEN run ELSE running[d]
  BY DEF PageInv
<1>2. QED
  BY <1>1 DEF PageInv

LEMMA NoRun == RunShape(NONE)
BY DEF RunShape

LEMMA FailKeeps ==
  ASSUME PageInv, NEW c \in Claimables, Fail(c), UNCHANGED <<session, sent>>
  PROVE  PageInv'
BY NoRun, RunGoesOn DEF Fail

\* A run taken one step further: its account and its proof stay.
LEMMA RunFurther ==
  ASSUME PageInv, NEW c \in Claimables, running[c] # NONE, NEW at,
         running' = [running EXCEPT ![c].at = at], UNCHANGED <<session, sent>>
  PROVE  PageInv'
<1>1. PICK u : u = running[c]
  OBVIOUS
<1>2. RunShape(u) /\ u # NONE
  BY <1>1 DEF PageInv
<1>3. PICK run : run = [u EXCEPT !.at = at]
  OBVIOUS
<1>4. /\ DOMAIN run = {"at", "wallet", "proofOf", "tx"}
      /\ run.wallet = u.wallet /\ run.proofOf = u.proofOf
  BY <1>2, <1>3 DEF RunShape
<1>5. RunShape(run)
  BY <1>2, <1>4 DEF RunShape
<1>6. running' = [running EXCEPT ![c] = run]
  BY <1>1, <1>3
<1>7. QED
  BY <1>5, <1>6, RunGoesOn

LEMMA BeginKeeps ==
  ASSUME PageInv, NEW c \in Claimables, session # NONE, NEW proofOf, proofOf = session.wallet,
         Begin(c, proofOf)
  PROVE  PageInv'
<1>1. PICK w : w = session.wallet
  OBVIOUS
<1>2. w \in Wallets
  BY <1>1 DEF PageInv
<1>3. PICK run : run = [at |-> "connect", wallet |-> w, proofOf |-> proofOf, tx |-> 0]
  OBVIOUS
<1>4. running' = [running EXCEPT ![c] = run] /\ UNCHANGED <<session, sent>>
  BY <1>1, <1>3 DEF Begin
<1>5. RunShape(run)
  BY <1>1, <1>2, <1>3 DEF RunShape
<1>6. QED
  BY <1>4, <1>5, RunGoesOn

LEMMA SendKeepsPage ==
  ASSUME PageInv, NEW c \in Claimables, Send(c)
  PROVE  PageInv'
<1>1. running[c] # NONE /\ UNCHANGED session
  BY DEF Send
<1>2. CASE Fail(c) /\ sent' = sent
  BY <1>1, <1>2, FailKeeps
<1>3. CASE /\ sent' = Append(sent, [claimable |-> c, wallet |-> running[c].wallet,
                                    proofOf |-> running[c].proofOf, state |-> "pending"])
           /\ running' = [running EXCEPT ![c].at = "poll", ![c].tx = Len(sent) + 1]
  <2>1. PICK u, n : u = running[c] /\ n = Len(sent) + 1
    OBVIOUS
  <2>2. RunShape(u) /\ u # NONE
    BY <1>1, <2>1 DEF PageInv
  <2>3. PICK tx : tx = [claimable |-> c, wallet |-> u.wallet, proofOf |-> u.proofOf,
                        state |-> "pending"]
    OBVIOUS
  <2>4. tx \in TxShape /\ tx.proofOf = tx.wallet
    BY <2>2, <2>3 DEF TxShape, RunShape
  <2>5. PICK run : run = [u EXCEPT !.at = "poll", !.tx = n]
    OBVIOUS
  <2>6. RunShape(run)
    <3>1. /\ DOMAIN run = {"at", "wallet", "proofOf", "tx"}
          /\ run.wallet = u.wallet /\ run.proofOf = u.proofOf
      BY <2>2, <2>5 DEF RunShape
    <3>2. QED
      BY <2>2, <3>1 DEF RunShape
  <2>7. /\ DOMAIN running' = Claimables
        /\ \A d \in Claimables : RunShape(running'[d])
    <3>1. running' = [running EXCEPT ![c] = run]
      BY <1>3, <2>1, <2>5
    <3>2. QED
      BY <2>6, <3>1 DEF PageInv
  <2>8. sent' = Append(sent, tx)
    BY <1>3, <2>1, <2>3
  <2>9. sent \in Seq(TxShape) /\ \A k \in 1..Len(sent) : sent[k].proofOf = sent[k].wallet
    BY DEF PageInv
  <2>10. /\ sent' \in Seq(TxShape) /\ Len(sent') = Len(sent) + 1
         /\ \A k \in 1..Len(sent) : sent'[k] = sent[k]
         /\ sent'[Len(sent) + 1] = tx
    BY <2>4, <2>8, <2>9, AppendProperties
  <2>11. ASSUME NEW k \in 1..Len(sent')
         PROVE  sent'[k].proofOf = sent'[k].wallet
    <3>1. k \in 1..Len(sent) \/ k = Len(sent) + 1
      BY <2>9, <2>10
    <3>2. QED
      BY <2>4, <2>9, <2>10, <3>1
  <2>12. QED
    BY <1>1, <2>7, <2>10, <2>11 DEF PageInv
<1>4. QED
  BY <1>2, <1>3 DEF Send

\* A transaction is mined: it pays at most once and keeps what it names.
LEMMA MineTxKeeps ==
  ASSUME ClaimsInv, NEW n \in DOMAIN sent, MineTx(n)
  PROVE  ClaimsInv'
<1>1. PICK tx : tx = sent[n]
  OBVIOUS
<1>2. PICK p, pays :
        /\ p = <<tx.claimable, tx.wallet>>
        /\ pays = (p \in Entitled /\ paidAt[p] = -1 /\ tx.proofOf = tx.wallet)
  OBVIOUS
<1>3. /\ head' = head + 1 /\ UNCHANGED <<session, running, readerVars>>
      /\ paidAt' = IF pays THEN [paidAt EXCEPT ![p] = head + 1] ELSE paidAt
      /\ sent' = [sent EXCEPT ![n].state = IF pays THEN "succeeded" ELSE "reverted"]
  BY <1>1, <1>2 DEF MineTx
<1>4. PICK paying : paying = {q \in {p} : pays}
  OBVIOUS
<1>5. /\ paying \subseteq {q \in Pairs : paidAt[q] = -1}
      /\ paidAt' = [q \in Pairs |-> IF q \in paying THEN head + 1 ELSE paidAt[q]]
  BY <1>2, <1>3, <1>4 DEF Pairs, ClaimsInv, ChainOfClaims
<1>6. ChainOfClaims' /\ RecordInv' /\ ReadersInv'
  BY <1>3, <1>5, BlockAdded
<1>7. sent \in Seq(TxShape) /\ n \in 1..Len(sent) /\ tx \in TxShape
  BY <1>1 DEF ClaimsInv, PageInv
<1>8. PICK next : next = [tx EXCEPT !.state = IF pays THEN "succeeded" ELSE "reverted"]
  OBVIOUS
<1>9. next \in TxShape /\ next.proofOf = tx.proofOf /\ next.wallet = tx.wallet
  BY <1>7, <1>8 DEF TxShape
<1>10. sent' = [sent EXCEPT ![n] = next]
  BY <1>1, <1>3, <1>8
<1>11. /\ sent' \in Seq(TxShape) /\ Len(sent') = Len(sent)
       /\ \A k \in 1..Len(sent) : sent'[k] = IF k = n THEN next ELSE sent[k]
  BY <1>7, <1>9, <1>10, ExceptSeq
<1>12. \A k \in 1..Len(sent') : sent'[k].proofOf = sent'[k].wallet
  BY <1>1, <1>7, <1>9, <1>11 DEF ClaimsInv, PageInv
<1>13. PageInv'
  BY <1>3, <1>11, <1>12 DEF ClaimsInv, PageInv
<1>14. QED
  BY <1>6, <1>13 DEF ClaimsInv

LEMMA BlockKeeps ==
  ASSUME ClaimsInv, Block
  PROVE  ClaimsInv'
<1>1. head' = head + 1 /\ UNCHANGED <<readerVars, pageVars>>
  BY DEF Block
<1>2. PICK paying :
        /\ paying \subseteq {q \in Pairs : paidAt[q] = -1}
        /\ paidAt' = [q \in Pairs |-> IF q \in paying THEN head + 1 ELSE paidAt[q]]
  <2>1. PICK p \in {q \in Pairs : q[1] # Secret /\ paidAt[q] = -1} \cup {NONE} :
          paidAt' = IF p = NONE THEN paidAt ELSE [paidAt EXCEPT ![p] = head + 1]
    BY DEF Block
  <2>2. paidAt \in [Pairs -> Int]
    BY DEF ClaimsInv, ChainOfClaims
  <2>3. CASE p = NONE
    <3>1. PICK none : none = {q \in Pairs : FALSE}
      OBVIOUS
    <3>2. none \subseteq {q \in Pairs : paidAt[q] = -1}
      BY <3>1
    <3>3. paidAt' = [q \in Pairs |-> IF q \in none THEN head + 1 ELSE paidAt[q]]
      BY <2>1, <2>2, <2>3, <3>1
    <3>4. QED
      BY <3>2, <3>3
  <2>4. CASE p # NONE
    <3>1. {p} \subseteq {q \in Pairs : paidAt[q] = -1}
      BY <2>1, <2>4
    <3>2. paidAt' = [q \in Pairs |-> IF q \in {p} THEN head + 1 ELSE paidAt[q]]
      BY <2>1, <2>2, <2>4
    <3>3. QED
      BY <3>1, <3>2
  <2>5. QED
    BY <2>3, <2>4
<1>3. ChainOfClaims' /\ RecordInv' /\ ReadersInv'
  BY <1>1, <1>2, BlockAdded
<1>4. PageInv'
  BY <1>1 DEF pageVars, ClaimsInv, PageInv
<1>5. QED
  BY <1>3, <1>4 DEF ClaimsInv

LEMMA PageKeeps ==
  ASSUME ClaimsInv, PageStep(Hooks)
  PROVE  ClaimsInv'
<1>1. PageInv
  BY DEF ClaimsInv
<1>2. ASSUME NEW auth \in {NONE} \cup {Token(w) : w \in Wallets}, SessionChanges(auth)
      PROVE  ClaimsInv'
  <2>1. /\ session' = auth /\ UNCHANGED <<running, sent>>
        /\ UNCHANGED <<chainVars, readerVars>>
    BY <1>2 DEF SessionChanges
  <2>2. auth # NONE => auth.wallet \in Wallets
    BY DEF Token
  <2>3. PageInv'
    BY <1>1, <2>1, <2>2 DEF PageInv
  <2>4. QED
    BY <2>1, <2>3, PageOnly
<1>3. ASSUME \/ Navigate \/ WalletChanges
             \/ \E h \in Hooks : Serve(h) \/ Answer(h) \/ RetryRead(h)
      PROVE  ClaimsInv'
  <2>1. UNCHANGED <<session, running, sent>> /\ UNCHANGED <<chainVars, readerVars>>
    BY <1>3 DEF Navigate, WalletChanges, Serve, Answer, RetryRead
  <2>2. PageInv'
    BY <1>1, <2>1 DEF PageInv
  <2>3. QED
    BY <2>1, <2>2, PageOnly
<1>4. ASSUME NEW c \in Claimables, ClickReward(c)
      PROVE  ClaimsInv'
  <2>1. session # NONE /\ latest["rewards"].auth = session
    BY <1>4 DEF ClickReward, Shown, Hook, Current
  <2>2. Begin(c, latest["rewards"].auth.wallet)
    BY <1>4 DEF ClickReward
  <2>3. PageInv'
    BY <1>1, <2>1, <2>2, BeginKeeps
  <2>4. QED
    BY <2>2, <2>3, PageOnly DEF Begin
<1>5. ASSUME ClickSecret
      PROVE  ClaimsInv'
  <2>1. session # NONE /\ Begin(Secret, session.wallet) /\ Secret \in Claimables
    BY <1>5 DEF ClickSecret, Shown, Claimables
  <2>2. PageInv'
    BY <1>1, <2>1, BeginKeeps
  <2>3. QED
    BY <2>1, <2>2, PageOnly DEF Begin
<1>6. ASSUME NEW c \in Claimables, Connect(c)
      PROVE  ClaimsInv'
  <2>1. /\ running[c] # NONE /\ UNCHANGED <<session, sent>>
        /\ UNCHANGED <<chainVars, readerVars>>
    BY <1>6 DEF Connect
  <2>2. Fail(c) \/ \E at : running' = [running EXCEPT ![c].at = at]
    BY <1>6 DEF Connect
  <2>3. PageInv'
    BY <1>1, <2>1, <2>2, FailKeeps, RunFurther
  <2>4. QED
    BY <2>1, <2>3, PageOnly
<1>7. ASSUME NEW c \in Claimables, Switch(c)
      PROVE  ClaimsInv'
  <2>1. /\ running[c] # NONE /\ UNCHANGED <<session, sent>>
        /\ UNCHANGED <<chainVars, readerVars>>
    BY <1>7 DEF Switch
  <2>2. \/ Fail(c) \/ running' = [running EXCEPT ![c] = NONE]
        \/ running' = [running EXCEPT ![c].at = "send"]
    BY <1>7 DEF Switch
  <2>3. PageInv'
    BY <1>1, <2>1, <2>2, FailKeeps, NoRun, RunGoesOn, RunFurther
  <2>4. QED
    BY <2>1, <2>3, PageOnly
<1>8. ASSUME NEW c \in Claimables, Send(c)
      PROVE  ClaimsInv'
  BY <1>1, <1>8, SendKeepsPage, PageOnly DEF Send
<1>9. ASSUME NEW c \in Claimables, Poll(c)
      PROVE  ClaimsInv'
  <2>1. UNCHANGED <<session, sent>> /\ UNCHANGED <<chainVars, readerVars>>
    BY <1>9 DEF Poll
  <2>2. running' = [running EXCEPT ![c] = NONE]
    BY <1>9 DEF Poll, Fail
  <2>3. PageInv'
    BY <1>1, <2>1, <2>2, NoRun, RunGoesOn
  <2>4. QED
    BY <2>1, <2>3, PageOnly
<1>10. ASSUME NEW n \in DOMAIN sent, MineTx(n)
       PROVE  ClaimsInv'
  BY <1>10, MineTxKeeps
<1>11. QED
  BY <1>2, <1>3, <1>4, <1>5, <1>6, <1>7, <1>8, <1>9, <1>10 DEF PageStep

LEMMA ClaimsStep ==
  ASSUME ClaimsInv, [ClaimsNext]_claimsVars
  PROVE  ClaimsInv'
<1>1. CASE UNCHANGED claimsVars
  <2>1. UNCHANGED <<chainVars, readerVars>> /\ UNCHANGED <<session, running, sent>>
    BY <1>1 DEF claimsVars, pageVars
  <2>2. PageInv'
    BY <2>1 DEF ClaimsInv, PageInv
  <2>3. QED
    BY <2>1, <2>2, PageOnly
<1>2. ASSUME NEW r \in Readers, TurnFails(r)
      PROVE  ClaimsInv'
  BY <1>2, TurnEnds DEF TurnFails
<1>3. CASE ReaderNext
  BY <1>2, <1>3, BlockKeeps, ReadHeadKeeps, ReadCursorKeeps, ScanKeeps, RecordClaimKeeps,
     AdvanceKeeps DEF ReaderNext, ReaderTurn
<1>4. QED
  BY <1>1, <1>3, PageKeeps DEF ClaimsNext

\* The record follows the chain and the page sends only what can be paid,
\* whatever turns fail, however many readers share the cursor, and whatever the
\* player does in the wallet meanwhile (claims.ts:17-18, useRewardClaims.ts:69-116).
THEOREM ClaimsAreFollowed == ClaimsSpec => []ClaimsFollowTheChain
<1>1. QED
  BY ClaimsInvInitially, ClaimsInvSuffices, ClaimsStep, PTL DEF ClaimsSpec

\* The chain and its readers stay within their bounds, what is recorded was allocated by
\* this deployment, and a claim on the page is at one of its steps (claim-store.ts).
THEOREM ClaimsAreWellTyped == ClaimsSpec => []ClaimsTypeOK
<1> DEFINE Steps == {"none", "CONFIRM_IN_WALLET", "SUBMITTING", "CONFIRMED", "FAILED"}
           More == /\ head <= MaxBlock /\ recorded \subseteq Entitled
                   /\ progress \in [Claimables -> Steps]
<1>1. ClaimsInit => More
  BY ClaimsAssumption DEF ClaimsInit
<1>2. ASSUME ClaimsInv, More, [ClaimsNext]_claimsVars
      PROVE  More'
  <2>1. MaxBlock \in Nat /\ head \in Nat
    BY <1>2, ClaimsAssumption DEF ClaimsInv, ChainOfClaims
  <2>2. CASE UNCHANGED claimsVars
    BY <1>2, <2>2 DEF claimsVars, chainVars, readerVars, pageVars
  <2>3. CASE Block
    BY <1>2, <2>1, <2>3 DEF Block, readerVars, pageVars
  <2>4. ASSUME NEW r \in Readers, ReaderTurn(r) \/ TurnFails(r)
        PROVE  More'
    <3>1. UNCHANGED <<head, progress>>
      BY <2>4 DEF ReaderTurn, TurnFails, ReadHead, ReadCursor, Scan, RecordClaim, Advance,
         chainVars, pageVars
    <3>2. recorded' = recorded \/ \E p : recorded' = recorded \cup ({p} \cap Entitled)
      BY <2>4 DEF ReaderTurn, TurnFails, ReadHead, ReadCursor, Scan, RecordClaim, Advance
    <3>3. QED
      BY <1>2, <3>1, <3>2
  <2>5. CASE PageStep(Hooks)
    <3>1. recorded' = recorded
      BY <2>5 DEF PageStep, SessionChanges, Navigate, WalletChanges, Serve, Answer, RetryRead,
         ClickReward, ClickSecret, Begin, Connect, Switch, Send, Poll, MineTx, readerVars
    <3>2. head' = head \/ (head < MaxBlock /\ head' = head + 1)
      BY <2>5 DEF PageStep, SessionChanges, Navigate, WalletChanges, Serve, Answer, RetryRead,
         ClickReward, ClickSecret, Begin, Connect, Switch, Send, Poll, MineTx, chainVars
    <3>3. progress' = progress \/ \E c : \E step \in Steps : progress' = [progress EXCEPT ![c] = step]
      <4>1. ASSUME NEW c, ClickReward(c) \/ ClickSecret
            PROVE  progress' = progress \/ \E d : \E step \in Steps : progress' = [progress EXCEPT ![d] = step]
        BY <4>1 DEF ClickReward, ClickSecret, Begin
      <4>2. ASSUME NEW c, Connect(c) \/ Switch(c) \/ Send(c) \/ Poll(c)
            PROVE  progress' = progress \/ \E step \in Steps : progress' = [progress EXCEPT ![c] = step]
        BY <4>2 DEF Connect, Switch, Send, Poll, Fail
      <4>3. QED
        BY <2>5, <4>1, <4>2 DEF PageStep, SessionChanges, Navigate, WalletChanges, Serve, Answer,
           RetryRead, MineTx
    <3>4. QED
      BY <1>2, <2>1, <3>1, <3>2, <3>3
  <2>6. QED
    BY <1>2, <2>2, <2>3, <2>4, <2>5 DEF ClaimsNext, ReaderNext
<1>3. ClaimsInv /\ More => ClaimsTypeOK
  BY ClaimsAssumption DEF ClaimsInv, ChainOfClaims, RecordInv, ReadersInv, TurnShape,
     ClaimsTypeOK
<1>4. QED
  BY <1>1, <1>2, <1>3, ClaimsInvInitially, ClaimsStep, PTL DEF ClaimsSpec

-----------------------------------------------------------------------------
(***************************************************************************)
(* What a distribution allocates.                                          *)
(***************************************************************************)

\* Induction, for sets of natural numbers and of subsets of a finite set.
LEMMA Induct ==
  ASSUME NEW T, 0 \in T, \A n \in Nat : n \in T => n + 1 \in T
  PROVE  \A n \in Nat : n \in T
<1> DEFINE B == {n \in Nat : n \notin T}
<1>1. B = {}
  <2> SUFFICES ASSUME B # {} PROVE FALSE
    OBVIOUS
  <2>1. PICK n \in B : \A m \in B : n <= m
    BY LeastNatural
  <2>2. n \in Nat /\ n # 0
    OBVIOUS
  <2>3. n - 1 \in Nat /\ ~(n <= n - 1) /\ (n - 1) + 1 = n
    BY <2>2
  <2>4. n - 1 \in T
    BY <2>1, <2>3
  <2>5. QED
    BY <2>3, <2>4
<1>2. QED
  BY <1>1

\* A set of subsets with the empty set, and with each it has the smaller ones of.
Hereditary(d, T) ==
  {} \in T /\ \A s \in SUBSET d : s # {} /\ (\A x \in s : s \ {x} \in T) => s \in T

LEMMA SubsetInduct ==
  ASSUME NEW d, IsFiniteSet(d), NEW T, Hereditary(d, T)
  PROVE  \A s \in SUBSET d : s \in T
<1> DEFINE B == {n \in Nat : \E s \in SUBSET d : Cardinality(s) = n /\ s \notin T}
<1>1. B = {}
  <2> SUFFICES ASSUME B # {} PROVE FALSE
    OBVIOUS
  <2>1. PICK n \in B : \A m \in B : n <= m
    BY LeastNatural
  <2>2. PICK s \in SUBSET d : Cardinality(s) = n /\ s \notin T
    BY <2>1
  <2>3. IsFiniteSet(s) /\ s # {}
    BY <2>2, FS_Subset DEF Hereditary
  <2>4. ASSUME NEW x \in s PROVE s \ {x} \in T
    <3>1. Cardinality(s \ {x}) = n - 1 /\ n \in Nat
      BY <2>1, <2>2, <2>3, FS_RemoveElement
    <3>2. s \ {x} \in SUBSET d
      OBVIOUS
    <3>3. IsFiniteSet(s \ {x})
      BY <2>3, FS_Subset
    <3>4. n - 1 \in Nat /\ ~(n <= n - 1)
      BY <3>1, <3>3, FS_CardinalityType
    <3>5. n - 1 \notin B
      BY <2>1, <3>4
    <3>6. QED
      BY <3>1, <3>2, <3>4, <3>5
  <2>5. QED
    BY <2>2, <2>3, <2>4 DEF Hereditary
<1>2. ASSUME NEW s \in SUBSET d PROVE s \in T
  <2>1. Cardinality(s) \in Nat
    BY FS_Subset, FS_CardinalityType
  <2>2. QED
    BY <1>1, <2>1
<1>3. QED
  BY <1>2

\* Sums do not depend on the order they are taken in.
LEMMA SumAny ==
  ASSUME NEW d, IsFiniteSet(d), NEW f \in [d -> Int], NEW g, Sums(d, f, g)
  PROVE  /\ g[{}] = 0
         /\ \A s \in SUBSET d : g[s] \in Int /\ \A x \in s : g[s] = f[x] + g[s \ {x}]
<1> DEFINE Right(s) == g[s] \in Int /\ \A x \in s : g[s] = f[x] + g[s \ {x}]
           T == {s \in SUBSET d : \A r \in SUBSET s : Right(r)}
<1>1. g[{}] = 0
  BY DEF Sums, Added
<1>2. {} \in T
  BY <1>1
<1>3. ASSUME NEW s \in SUBSET d, s # {}, \A x \in s : s \ {x} \in T PROVE s \in T
  <2>1. PICK y : y = CHOOSE z \in s : TRUE
    OBVIOUS
  <2>2. y \in s /\ g[s] = f[y] + g[s \ {y}] /\ f[y] \in Int
    BY <1>3, <2>1 DEF Sums, Added
  <2>3. \A r \in SUBSET s : r # s => Right(r)
    <3>1. ASSUME NEW r \in SUBSET s, r # s PROVE Right(r)
      <4>1. PICK z \in s : z \notin r
        BY <3>1
      <4>2. s \ {z} \in T /\ r \in SUBSET (s \ {z})
        BY <1>3, <4>1
      <4>3. QED
        BY <4>2
    <3>2. QED
      BY <3>1
  <2>4. g[s] \in Int
    <3>1. g[s \ {y}] \in Int
      BY <2>2, <2>3
    <3>2. QED
      BY <2>2, <3>1
  <2>5. ASSUME NEW x \in s PROVE g[s] = f[x] + g[s \ {x}]
    <3>1. CASE x = y
      BY <2>2, <3>1
    <3>2. CASE x # y
      <4>1. PICK both : both = s \ {x, y}
        OBVIOUS
      <4>2. (s \ {y}) \ {x} = both /\ (s \ {x}) \ {y} = both
        BY <4>1
      <4>3. Right(s \ {y}) /\ Right(s \ {x}) /\ Right(both)
        BY <2>2, <2>3, <4>1
      <4>4. g[s \ {y}] = f[x] + g[both]
        BY <2>2, <3>2, <4>2, <4>3
      <4>5. g[s \ {x}] = f[y] + g[both]
        BY <2>2, <3>2, <4>2, <4>3
      <4>6. f[x] \in Int /\ g[both] \in Int
        BY <4>3
      <4>7. QED
        BY <2>2, <4>4, <4>5, <4>6
    <3>3. QED
      BY <3>1, <3>2
  <2>6. QED
    BY <2>3, <2>4, <2>5
<1>4. Hereditary(d, T)
  <2> HIDE DEF T
  <2>1. QED
    BY <1>2, <1>3 DEF Hereditary
<1>5. \A s \in SUBSET d : s \in T
  <2> HIDE DEF T
  <2>1. QED
    BY <1>4, SubsetInduct
<1>6. QED
  BY <1>1, <1>5

\* Sums of the same summands agree.
AddsUp(d, f, g) == \A s \in SUBSET d : g[s] = Added(f, g, s)

LEMMA SumsAgree ==
  ASSUME NEW d, IsFiniteSet(d), NEW f, NEW g, AddsUp(d, f, g),
         NEW e \in SUBSET d, NEW h, NEW k, AddsUp(e, h, k), \A x \in e : h[x] = f[x]
  PROVE  k[e] = g[e]
<1> DEFINE T == {s \in SUBSET e : k[s] = g[s]}
<1>1. {} \in T
  BY DEF AddsUp, Added
<1>2. ASSUME NEW s \in SUBSET e, s # {}, \A x \in s : s \ {x} \in T PROVE s \in T
  <2>1. PICK y : y = CHOOSE z \in s : TRUE
    OBVIOUS
  <2>2. y \in s /\ s \in SUBSET d /\ k[s \ {y}] = g[s \ {y}] /\ h[y] = f[y]
    BY <1>2, <2>1
  <2>3. k[s] = h[y] + k[s \ {y}] /\ g[s] = f[y] + g[s \ {y}]
    BY <1>2, <2>1, <2>2 DEF AddsUp, Added
  <2>4. QED
    BY <2>2, <2>3
<1>3. IsFiniteSet(e)
  BY FS_Subset
<1>4. Hereditary(e, T)
  <2> HIDE DEF T
  <2>1. QED
    BY <1>1, <1>2 DEF Hereditary
<1>5. e \in T
  <2> HIDE DEF T
  <2>1. QED
    BY <1>3, <1>4, SubsetInduct
<1>6. QED
  BY <1>5

\* The sum of f over the members of s.
SumOver(f, s) == SumFunction([x \in s |-> f[x]])

LEMMA SumOverIs ==
  ASSUME NEW d, IsFiniteSet(d), NEW f \in [d -> Int]
  PROVE  /\ SumOver(f, {}) = 0
         /\ \A s \in SUBSET d : SumOver(f, s) \in Int
         /\ \A s \in SUBSET d : \A x \in s : SumOver(f, s) = f[x] + SumOver(f, s \ {x})
<1>1. PICK g : Sums(d, f, g)
  BY SumsOf
<1>2. ASSUME NEW s \in SUBSET d PROVE SumOver(f, s) = g[s]
  <2>1. PICK h : h = [x \in s |-> f[x]]
    OBVIOUS
  <2>2. IsFiniteSet(s) /\ DOMAIN h = s /\ \A x \in s : h[x] = f[x]
    BY <2>1, FS_Subset
  <2>3. PICK k : Sums(s, h, k)
    BY <2>2, SumsOf
  <2>4. AddsUp(d, f, g) /\ AddsUp(s, h, k)
    BY <1>1, <2>3 DEF Sums, AddsUp
  <2>5. k[s] = g[s]
    BY <2>2, <2>4, SumsAgree
  <2>6. QED
    BY <2>1, <2>3, <2>5 DEF Sums, SumOver
<1>3. /\ g[{}] = 0
      /\ \A s \in SUBSET d : g[s] \in Int /\ \A x \in s : g[s] = f[x] + g[s \ {x}]
  BY <1>1, SumAny
<1>4. \A s \in SUBSET d : \A x \in s : s \ {x} \in SUBSET d
  OBVIOUS
<1>5. {} \in SUBSET d
  OBVIOUS
<1>6. QED
  BY <1>2, <1>3, <1>4, <1>5

\* A sum is the sum over a part and over the rest.
SumOverParts(f, s, part) == SumOver(f, s \cap part) + SumOver(f, s \ part)

LEMMA SumOverSplits ==
  ASSUME NEW d, IsFiniteSet(d), NEW f \in [d -> Int], NEW part
  PROVE  \A s \in SUBSET d : SumOver(f, s) = SumOverParts(f, s, part)
<1> USE DEF SumOverParts
<1> DEFINE T == {s \in SUBSET d : SumOver(f, s) = SumOver(f, s \cap part) + SumOver(f, s \ part)}
<1>1. {} \in T
  <2>1. SumOver(f, {}) = 0 /\ {} \cap part = {} /\ {} \ part = {}
    BY SumOverIs
  <2>2. QED
    BY <2>1
<1>2. ASSUME NEW s \in SUBSET d, s # {}, \A x \in s : s \ {x} \in T PROVE s \in T
  <2>1. PICK x \in s : TRUE
    BY <1>2
  <2>2. PICK r, rin, rout, in, out : /\ r = s \ {x} /\ rin = r \cap part /\ rout = r \ part
                                     /\ in = s \cap part /\ out = s \ part
    OBVIOUS
  <2>3. /\ SumOver(f, s) = f[x] + SumOver(f, r) /\ SumOver(f, r) = SumOver(f, rin) + SumOver(f, rout)
        /\ SumOver(f, rin) \in Int /\ SumOver(f, rout) \in Int /\ f[x] \in Int
    <3>1. r \in SUBSET d /\ rin \in SUBSET d /\ rout \in SUBSET d
      BY <2>2
    <3>2. r \in T
      BY <1>2, <2>1, <2>2
    <3>3. SumOver(f, r) = SumOver(f, rin) + SumOver(f, rout)
      BY <2>2, <3>2
    <3>4. SumOver(f, s) = f[x] + SumOver(f, r)
      BY <2>2, SumOverIs
    <3>5. SumOver(f, rin) \in Int /\ SumOver(f, rout) \in Int
      BY <3>1, SumOverIs
    <3>6. QED
      BY <3>3, <3>4, <3>5
  <2>4. CASE x \in part
    <3>1. in \ {x} = rin /\ out = rout /\ x \in in /\ in \in SUBSET d
      BY <2>2, <2>4
    <3>2. SumOver(f, in) = f[x] + SumOver(f, in \ {x})
      BY <3>1, SumOverIs
    <3>3. SumOver(f, in) = f[x] + SumOver(f, rin) /\ SumOver(f, out) = SumOver(f, rout)
      BY <3>1, <3>2, Zenon
    <3>4. SumOver(f, s) = SumOver(f, in) + SumOver(f, out)
      BY <2>3, <3>3
    <3>5. QED
      BY <2>2, <3>4
  <2>5. CASE x \notin part
    <3>1. out \ {x} = rout /\ in = rin /\ x \in out /\ out \in SUBSET d
      BY <2>2, <2>5
    <3>2. SumOver(f, out) = f[x] + SumOver(f, out \ {x})
      BY <3>1, SumOverIs
    <3>3. SumOver(f, out) = f[x] + SumOver(f, rout) /\ SumOver(f, in) = SumOver(f, rin)
      BY <3>1, <3>2, Zenon
    <3>4. SumOver(f, s) = SumOver(f, in) + SumOver(f, out)
      BY <2>3, <3>3
    <3>5. QED
      BY <2>2, <3>4
  <2>6. QED
    BY <2>4, <2>5
<1>3. Hereditary(d, T)
  <2> HIDE DEF T
  <2>1. QED
    BY <1>1, <1>2 DEF Hereditary
<1>4. \A s \in SUBSET d : s \in T
  <2> HIDE DEF T
  <2>1. QED
    BY <1>3, SubsetInduct
<1>5. QED
  BY <1>4

Times(a, b) == a * b

LEMMA TimesIs ==
  ASSUME NEW a \in Int, NEW b \in Int, NEW c \in Int
  PROVE  /\ Times(a, b) \in Int /\ Times(a, b) = a * b
         /\ Times(0, a) = 0 /\ Times(1, a) = a
         /\ Times(a + b, c) = Times(a, c) + Times(b, c)
         /\ Times(c, a + b) = Times(c, a) + Times(c, b)
BY DEF Times

\* A sum of summands of at most (at least) c is at most (at least) c for each.
LEMMA SumOverBounds ==
  ASSUME NEW d, IsFiniteSet(d), NEW f \in [d -> Int], NEW c \in Int
  PROVE  \A s \in SUBSET d :
           /\ Cardinality(s) \in Nat
           /\ (\A x \in s : f[x] <= c) => SumOver(f, s) <= Times(Cardinality(s), c)
           /\ (\A x \in s : f[x] >= c) => SumOver(f, s) >= Times(Cardinality(s), c)
<1> DEFINE Right(s) == /\ Cardinality(s) \in Nat
                       /\ (\A x \in s : f[x] <= c) => SumOver(f, s) <= Times(Cardinality(s), c)
                       /\ (\A x \in s : f[x] >= c) => SumOver(f, s) >= Times(Cardinality(s), c)
           T == {s \in SUBSET d : Right(s)}
<1>1. {} \in T
  <2>1. SumOver(f, {}) = 0 /\ Cardinality({}) = 0 /\ Times(0, c) = 0
    BY SumOverIs, FS_EmptySet, TimesIs
  <2>2. QED
    BY <2>1
<1>2. ASSUME NEW s \in SUBSET d, s # {}, \A x \in s : s \ {x} \in T PROVE s \in T
  <2>1. PICK x \in s : TRUE
    BY <1>2
  <2>2. PICK r : r = s \ {x}
    OBVIOUS
  <2>3. r \in T /\ r \in SUBSET d /\ f[x] \in Int
    BY <1>2, <2>1, <2>2
  <2>4. SumOver(f, s) = f[x] + SumOver(f, r) /\ SumOver(f, r) \in Int
    BY <2>2, <2>3, SumOverIs
  <2>5. PICK n \in Nat : n = Cardinality(r)
    BY <2>3
  <2>6. Cardinality(s) = n + 1
    <3>1. IsFiniteSet(s)
      BY FS_Subset
    <3>2. Cardinality(r) = Cardinality(s) - 1 /\ Cardinality(s) \in Nat
      BY <2>1, <2>2, <3>1, FS_RemoveElement, FS_CardinalityType
    <3>3. QED
      BY <2>5, <3>2
  <2>7. Times(n + 1, c) = Times(n, c) + c /\ Times(n, c) \in Int
    BY DEF Times
  <2>8. Right(r)
    BY <2>3
  <2>9. ASSUME \A z \in s : f[z] <= c PROVE SumOver(f, s) <= Times(n + 1, c)
    <3>1. f[x] <= c /\ SumOver(f, r) <= Times(n, c)
      BY <2>2, <2>5, <2>8, <2>9
    <3>2. QED
      BY <2>3, <2>4, <2>7, <3>1
  <2>10. ASSUME \A z \in s : f[z] >= c PROVE SumOver(f, s) >= Times(n + 1, c)
    <3>1. f[x] >= c /\ SumOver(f, r) >= Times(n, c)
      BY <2>2, <2>5, <2>8, <2>10
    <3>2. QED
      BY <2>3, <2>4, <2>7, <3>1
  <2>11. n + 1 \in Nat
    OBVIOUS
  <2>12. QED
    BY <2>6, <2>9, <2>10, <2>11
<1>3. Hereditary(d, T)
  <2> HIDE DEF T
  <2>1. QED
    BY <1>1, <1>2 DEF Hereditary
<1>4. \A s \in SUBSET d : s \in T
  <2> HIDE DEF T
  <2>1. QED
    BY <1>3, SubsetInduct
<1>5. QED
  BY <1>4

\* Shares in proportion to weights: q[x] of the whole is no more than weight[x] of w.
LEMMA SumOverShares ==
  ASSUME NEW d, IsFiniteSet(d), NEW q \in [d -> Int], NEW weight \in [d -> Int],
         NEW w \in Int, NEW whole \in Int, NEW s \in SUBSET d,
         \A x \in s : Times(q[x], w) <= Times(whole, weight[x])
  PROVE  Times(SumOver(q, s), w) <= Times(whole, SumOver(weight, s))
<1> DEFINE T == {r \in SUBSET d : r \subseteq s => Times(SumOver(q, r), w) <= Times(whole, SumOver(weight, r))}
<1>1. {} \in T
  <2>1. SumOver(q, {}) = 0 /\ SumOver(weight, {}) = 0
    BY SumOverIs
  <2>2. Times(0, w) = 0 /\ Times(whole, 0) = 0
    BY DEF Times
  <2>3. QED
    BY <2>1, <2>2
<1>2. ASSUME NEW r \in SUBSET d, r # {}, \A x \in r : r \ {x} \in T PROVE r \in T
  <2> SUFFICES ASSUME r \subseteq s PROVE Times(SumOver(q, r), w) <= Times(whole, SumOver(weight, r))
    OBVIOUS
  <2>1. PICK x \in r : TRUE
    BY <1>2
  <2>2. PICK rest : rest = r \ {x}
    OBVIOUS
  <2>3. rest \in T /\ rest \in SUBSET d /\ rest \subseteq s
    BY <1>2, <2>1, <2>2
  <2>4. /\ SumOver(q, r) = q[x] + SumOver(q, rest) /\ SumOver(weight, r) = weight[x] + SumOver(weight, rest)
        /\ SumOver(q, rest) \in Int /\ SumOver(weight, rest) \in Int
    BY <2>2, <2>3, SumOverIs
  <2>5. PICK a \in Int, b \in Int, c \in Int, e \in Int :
          /\ a = q[x] /\ b = SumOver(q, rest) /\ c = weight[x] /\ e = SumOver(weight, rest)
    BY <2>4
  <2>6. Times(b, w) <= Times(whole, e) /\ Times(a, w) <= Times(whole, c)
    BY <2>3, <2>5
  <2>7. Times(a + b, w) = Times(a, w) + Times(b, w) /\ Times(whole, c + e) = Times(whole, c) + Times(whole, e)
    BY DEF Times
  <2>8. Times(a, w) \in Int /\ Times(b, w) \in Int /\ Times(whole, c) \in Int /\ Times(whole, e) \in Int
    BY TimesIs
  <2>9. Times(a + b, w) <= Times(whole, c + e)
    BY <2>6, <2>7, <2>8
  <2>10. QED
    BY <2>4, <2>5, <2>9
<1>3. Hereditary(d, T)
  <2> HIDE DEF T
  <2>1. QED
    BY <1>1, <1>2 DEF Hereditary
<1>4. s \in T
  <2> HIDE DEF T
  <2>1. QED
    BY <1>3, SubsetInduct
<1>5. QED
  BY <1>4

\* A recursion that goes on to an argument of smaller size has a solution.
Repeats(D, done, value, next, g) ==
  g = [p \in D |-> IF p \in done THEN value[p] ELSE g[next[p]]]

\* Every argument it goes on to is smaller.
Shrinks(D, done, next, n, size) ==
  /\ done \in SUBSET D /\ next \in [D -> D] /\ n \in Nat /\ size \in [D -> 0..n]
  /\ \A p \in D : p \notin done => size[next[p]] < size[p]

LEMMA RepeatExists ==
  ASSUME NEW D, NEW done, NEW value, NEW next, NEW n, NEW size, Shrinks(D, done, next, n, size)
  PROVE  \E g : Repeats(D, done, value, next, g)
<1> DEFINE Upto(k, g) == /\ g = [p \in D |-> g[p]]
                         /\ \A p \in D : size[p] < k =>
                               g[p] = IF p \in done THEN value[p] ELSE g[next[p]]
           T == {k \in Nat : \E g : Upto(k, g)}
<1> USE DEF Shrinks
<1>1. 0 \in T
  <2>1. PICK g : g = [p \in D |-> value[p]]
    OBVIOUS
  <2>2. Upto(0, g)
    BY <2>1
  <2>3. QED
    BY <2>2
<1>2. ASSUME NEW k \in Nat, k \in T PROVE k + 1 \in T
  <2>1. PICK g : Upto(k, g)
    BY <1>2
  <2>2. PICK h : h = [p \in D |-> IF p \in done THEN value[p] ELSE g[next[p]]]
    OBVIOUS
  <2>3. ASSUME NEW p \in D, size[p] < k PROVE h[p] = g[p]
    BY <2>1, <2>2, <2>3
  <2>4. ASSUME NEW p \in D, size[p] < k + 1 PROVE h[p] = IF p \in done THEN value[p] ELSE h[next[p]]
    <3>1. CASE p \in done
      BY <2>2, <3>1
    <3>2. CASE p \notin done
      <4>1. next[p] \in D /\ size[p] \in 0..n /\ size[next[p]] \in 0..n /\ size[next[p]] < size[p]
        BY <3>2
      <4>2. size[next[p]] < k
        BY <2>4, <4>1
      <4>3. QED
        BY <2>2, <2>3, <3>2, <4>1, <4>2
    <3>3. QED
      BY <3>1, <3>2
  <2>5. Upto(k + 1, h)
    BY <2>2, <2>4
  <2>6. QED
    BY <2>5
<1>3. \A k \in Nat : k \in T
  <2> HIDE DEF T
  <2>1. QED
    BY <1>1, <1>2, Induct
<1>4. PICK g : Upto(n + 1, g)
  <2>1. n + 1 \in Nat
    OBVIOUS
  <2>2. n + 1 \in T
    BY <1>3, <2>1
  <2>3. QED
    BY <2>2
<1>5. \A p \in D : size[p] < n + 1
  OBVIOUS
<1>6. QED
  BY <1>4, <1>5 DEF Repeats

\* The arguments in good lead to one another and end in V.
Leads(good, done, value, next, V) ==
  \A p \in good : (p \in done => value[p] \in V) /\ (p \notin done => next[p] \in good)

\* What the arguments it starts from keep, its answer has.
LEMMA RepeatInduct ==
  ASSUME NEW D, NEW done, NEW value, NEW next, NEW n, NEW size, Shrinks(D, done, next, n, size),
         NEW g, Repeats(D, done, value, next, g),
         NEW good \in SUBSET D, NEW V, Leads(good, done, value, next, V)
  PROVE  \A p \in good : g[p] \in V
<1> DEFINE T == {k \in Nat : \A p \in good : size[p] < k => g[p] \in V}
<1> USE DEF Shrinks
<1>1. 0 \in T
  OBVIOUS
<1>2. ASSUME NEW k \in Nat, k \in T PROVE k + 1 \in T
  <2>1. ASSUME NEW p \in good, size[p] < k + 1 PROVE g[p] \in V
    <3>1. CASE p \in done
      BY <3>1 DEF Repeats, Leads
    <3>2. CASE p \notin done
      <4>1. next[p] \in good /\ next[p] \in D /\ size[p] \in 0..n /\ size[next[p]] \in 0..n
            /\ size[next[p]] < size[p]
        BY <3>2 DEF Leads
      <4>2. size[next[p]] < k
        BY <2>1, <4>1
      <4>3. g[next[p]] \in V
        BY <1>2, <4>1, <4>2
      <4>4. QED
        BY <3>2, <4>3 DEF Repeats
    <3>3. QED
      BY <3>1, <3>2
  <2>2. QED
    BY <2>1
<1>3. \A k \in Nat : k \in T
  <2> HIDE DEF T
  <2>1. QED
    BY <1>1, <1>2, Induct
<1>4. \A p \in good : size[p] < n + 1
  OBVIOUS
<1>5. n + 1 \in T
  BY <1>3
<1>6. QED
  BY <1>4, <1>5

LEMMA Quotient ==
  ASSUME NEW d \in Nat \ {0}, NEW a \in Nat
  PROVE  a \div d \in Nat /\ d * (a \div d) <= a /\ a < d * ((a \div d) + 1)
<1>1. a \div d \in Nat /\ a % d \in 0..(d - 1) /\ a = d * (a \div d) + (a % d)
  OBVIOUS
<1>2. PICK q \in Nat, r \in Nat : q = a \div d /\ r = a % d
  BY <1>1
<1>3. a = d * q + r /\ r < d /\ d * (q + 1) = d * q + d
  BY <1>1, <1>2
<1>4. QED
  BY <1>2, <1>3

LEMMA ProductOfMeans ==
  ASSUME NEW a \in Int, NEW b \in Int
  PROVE  4 * (a * b) <= (a + b) * (a + b)
<1>1. (a - b) * (a - b) >= 0
  OBVIOUS
<1>2. (a + b) * (a + b) = (a - b) * (a - b) + 4 * (a * b)
  OBVIOUS
<1>3. QED
  BY <1>1, <1>2

LEMMA SquareGrows ==
  ASSUME NEW a \in Nat, NEW b \in Nat, a <= b
  PROVE  a * a <= b * b
OBVIOUS

\* A step never goes below the root, and falls as long as it is above it.
LEMMA NewtonStepIs ==
  ASSUME NEW v \in Nat, v >= 2, NEW previous \in 1..v, NEW c, c = newtonStep(v, previous)
  PROVE  /\ c \in Nat \ {0} /\ v < (c + 1) * (c + 1)
         /\ c >= previous => previous * previous <= v
<1>1. PICK q \in Nat : q = v \div previous /\ previous * q <= v /\ v < previous * (q + 1)
  BY Quotient
<1>2. c \in Nat /\ 2 * c <= previous + q /\ previous + q < 2 * (c + 1)
  <2>1. PICK s \in Nat : s = previous + q
    OBVIOUS
  <2>2. c = s \div 2
    BY <1>1, <2>1 DEF newtonStep
  <2>3. 2 \in Nat \ {0}
    OBVIOUS
  <2>4. QED
    BY <2>1, <2>2, <2>3, Quotient
<1>3. c # 0
  <2>1. CASE previous = 1
    <3>1. 1 * (q + 1) = q + 1
      OBVIOUS
    <3>2. q >= 2
      BY <1>1, <2>1, <3>1
    <3>3. QED
      BY <1>2, <2>1, <3>2
  <2>2. CASE previous # 1
    BY <1>2, <2>2
  <2>3. QED
    BY <2>1, <2>2
<1>4. v < (c + 1) * (c + 1)
  <2>1. 4 * (previous * (q + 1)) <= (previous + (q + 1)) * (previous + (q + 1))
    BY ProductOfMeans
  <2>2. PICK a \in Nat, b \in Nat : a = previous + (q + 1) /\ b = 2 * (c + 1)
    <3>1. previous + (q + 1) \in Nat /\ 2 * (c + 1) \in Nat
      BY <1>2
    <3>2. QED
      BY <3>1
  <2>3. a * a <= b * b
    <3>1. a <= b
      BY <1>2, <2>2
    <3>2. QED
      BY <3>1, SquareGrows
  <2>4. b * b = 4 * ((c + 1) * (c + 1))
    BY <1>2, <2>2
  <2>5. PICK x \in Int, y \in Int, z \in Int : x = previous * (q + 1) /\ y = (c + 1) * (c + 1) /\ z = a * a
    BY <1>2, <2>2
  <2>6. 4 * x <= z /\ z <= 4 * y /\ v < x
    BY <1>1, <2>1, <2>2, <2>3, <2>4, <2>5
  <2>7. QED
    BY <2>5, <2>6
<1>5. ASSUME c >= previous PROVE previous * previous <= v
  <2>1. previous <= q
    BY <1>2, <1>5
  <2>2. previous * previous <= previous * q
    BY <2>1
  <2>3. PICK x \in Int, y \in Int : x = previous * previous /\ y = previous * q
    OBVIOUS
  <2>4. QED
    BY <1>1, <2>2, <2>3
<1>6. QED
  BY <1>2, <1>3, <1>4, <1>5

NewtonFrom(v, g) ==
  g = [previous \in 1..v |->
         IF newtonStep(v, previous) < previous THEN g[newtonStep(v, previous)] ELSE previous]

LEMMA integerSqrtIs ==
  ASSUME NEW v, NEW g, g = CHOOSE f : NewtonFrom(v, f)
  PROVE  integerSqrt(v) = IF v < 2 THEN v ELSE g[v]
<1>1. integerSqrt(v) = IF v < 2 THEN v ELSE (CHOOSE f : NewtonFrom(v, f))[v]
  BY ONLY DEF integerSqrt, NewtonFrom
<1>2. QED
  BY <1>1

\* The largest number whose square is no more than v.
RootOf(v, r) == r \in Nat /\ r * r <= v /\ v < (r + 1) * (r + 1)

LEMMA NewtonEnds ==
  ASSUME NEW v \in Nat, v >= 2, NEW g, g = CHOOSE f : NewtonFrom(v, f)
  PROVE  RootOf(v, g[v])
<1>1. PICK D, size, done, value, next, good, V :
        /\ D = 1..v
        /\ size = [x \in D |-> x]
        /\ done = {x \in D : ~(newtonStep(v, x) < x)}
        /\ value = [x \in D |-> x]
        /\ next = [x \in D |-> IF x \in done THEN x ELSE newtonStep(v, x)]
        /\ good = {x \in D : v < (x + 1) * (x + 1)}
        /\ V = {x \in D : RootOf(v, x)}
  OBVIOUS
<1>2. ASSUME NEW x \in D
      PROVE  /\ x \in 1..v /\ x \in Nat /\ size[x] = x /\ size[x] \in 0..v /\ value[x] = x
             /\ (x \in done <=> ~(newtonStep(v, x) < x))
             /\ (x \notin done => next[x] = newtonStep(v, x))
  BY <1>1
<1>3. ASSUME NEW x \in D, x \notin done
      PROVE  next[x] \in D /\ size[next[x]] < size[x] /\ next[x] \in good
  <2>1. PICK c : c = newtonStep(v, x) /\ next[x] = c /\ c < x
    BY <1>2, <1>3
  <2>2. c \in Nat \ {0} /\ v < (c + 1) * (c + 1)
    BY <1>2, <2>1, NewtonStepIs
  <2>3. c \in 1..v
    BY <1>2, <2>1, <2>2
  <2>4. c \in D /\ c \in good
    BY <1>1, <2>2, <2>3
  <2>5. size[c] = c /\ size[x] = x
    BY <1>2, <2>4
  <2>6. QED
    BY <2>1, <2>4, <2>5
<1>4. Shrinks(D, done, next, v, size)
  <2>1. \A x \in D : next[x] \in D
    BY <1>1, <1>3
  <2>2. done \in SUBSET D /\ next \in [D -> D]
    BY <1>1, <2>1
  <2>3. size \in [D -> 0..v]
    BY <1>1, <1>2
  <2>4. QED
    BY <1>3, <2>2, <2>3 DEF Shrinks
<1>5. Leads(good, done, value, next, V)
  <2>1. ASSUME NEW x \in good, x \in done PROVE value[x] \in V
    <3>1. x \in D /\ v < (x + 1) * (x + 1)
      BY <1>1, <2>1
    <3>2. PICK c : c = newtonStep(v, x)
      OBVIOUS
    <3>3. c \in Nat \ {0} /\ (c >= x => x * x <= v)
      BY <1>2, <3>1, <3>2, NewtonStepIs
    <3>4. c >= x
      BY <1>2, <2>1, <3>1, <3>2, <3>3
    <3>5. RootOf(v, x)
      BY <1>2, <3>1, <3>3, <3>4 DEF RootOf
    <3>6. QED
      BY <1>1, <1>2, <3>1, <3>5
  <2>2. ASSUME NEW x \in good, x \notin done PROVE next[x] \in good
    BY <1>1, <1>3, <2>2
  <2>3. QED
    BY <2>1, <2>2 DEF Leads
<1>6. PICK h : Repeats(D, done, value, next, h)
  BY <1>4, RepeatExists
<1>7. ASSUME NEW f
      PROVE  Repeats(D, done, value, next, f) <=> NewtonFrom(v, f)
  <2>1. \A x \in D : (IF x \in done THEN value[x] ELSE f[next[x]]) =
                     (IF newtonStep(v, x) < x THEN f[newtonStep(v, x)] ELSE x)
    BY <1>2
  <2>2. [x \in D |-> IF x \in done THEN value[x] ELSE f[next[x]]] =
        [x \in D |-> IF newtonStep(v, x) < x THEN f[newtonStep(v, x)] ELSE x]
    BY <2>1
  <2>3. D = 1..v
    BY <1>1
  <2>4. QED
    BY <2>2, <2>3 DEF Repeats, NewtonFrom
<1>8. Repeats(D, done, value, next, g)
  BY <1>6, <1>7
<1>9. \A x \in good : g[x] \in V
  <2>1. good \in SUBSET D
    BY <1>1
  <2>2. QED
    BY <1>4, <1>5, <1>8, <2>1, RepeatInduct
<1>10. v \in good
  <2>1. v * v >= 0 /\ (v + 1) * (v + 1) = v * v + 2 * v + 1
    OBVIOUS
  <2>2. PICK x \in Int : x = v * v
    OBVIOUS
  <2>3. v < (v + 1) * (v + 1)
    BY <2>1, <2>2
  <2>4. QED
    BY <1>1, <2>3
<1>11. QED
  BY <1>1, <1>9, <1>10

\* Newton's method ends at the floor of the square root, for every integer, so the
\* weight of a wallet is exact and the same in production, in a replay and in an
\* audit (money.ts:141-150).
THEOREM SquareRootsAreExact == \A v \in Nat : RootOf(v, integerSqrt(v))
<1>1. SUFFICES ASSUME NEW v \in Nat PROVE RootOf(v, integerSqrt(v))
  OBVIOUS
<1>2. PICK g : g = CHOOSE f : NewtonFrom(v, f)
  OBVIOUS
<1>3. integerSqrt(v) = IF v < 2 THEN v ELSE g[v]
  BY <1>2, integerSqrtIs
<1>4. CASE v < 2
  <2>1. v = 0 \/ v = 1
    BY <1>4
  <2>2. QED
    BY <1>3, <2>1 DEF RootOf
<1>5. CASE ~(v < 2)
  BY <1>2, <1>3, <1>5, NewtonEnds
<1>6. QED
  BY <1>4, <1>5

\* A recursion that adds up a function's values is their sum.
LEMMA AddedUp ==
  ASSUME NEW s, IsFiniteSet(s), NEW f, f = [x \in s |-> f[x]], NEW g, SumFrom(f, g)
  PROVE  g[s] = SumOver(f, s)
<1>1. DOMAIN f = s
  OBVIOUS
<1>2. PICK k : Sums(s, f, k)
  BY <1>1, SumsOf
<1>3. AddsUp(s, f, k) /\ AddsUp(s, f, g)
  BY <1>1, <1>2 DEF Sums, SumFrom, AddsUp
<1>4. k[s] = g[s] /\ SumFunction(f) = k[s]
  <2>1. s \in SUBSET s
    OBVIOUS
  <2>2. QED
    BY <1>2, <1>3, <2>1, SumsAgree DEF Sums
<1>5. QED
  BY <1>4 DEF SumOver

\* What a window can be: some wallets, and their War Points in it.
WindowStandings(standings) ==
  IsFiniteSet(DOMAIN standings) /\ standings \in [DOMAIN standings -> Nat]

Weights(standings) == [w \in DOMAIN standings |-> rewardWeight(standings[w])]

LEMMA WeightsType ==
  ASSUME NEW standings, WindowStandings(standings)
  PROVE  Weights(standings) \in [DOMAIN standings -> Nat]
<1>1. ASSUME NEW w \in DOMAIN standings PROVE rewardWeight(standings[w]) \in Nat
  <2>1. PICK n \in Nat : n = standings[w]
    BY DEF WindowStandings
  <2>2. REWARD_WEIGHT_SCALE \in Nat
    BY RewardMathAssumption
  <2>3. PICK v \in Nat : v = n * REWARD_WEIGHT_SCALE * REWARD_WEIGHT_SCALE
    <3>1. n * REWARD_WEIGHT_SCALE \in Nat
      BY <2>2
    <3>2. QED
      BY <2>2, <3>1
  <2>4. integerSqrt(v) \in Nat
    BY SquareRootsAreExact DEF RootOf
  <2>5. QED
    BY <2>1, <2>3, <2>4 DEF rewardWeight
<1>2. QED
  BY <1>1 DEF Weights

WeighFrom(standings, s, g) ==
  g = [r \in SUBSET s |-> IF r = {} THEN 0
                          ELSE LET x == CHOOSE x \in r : TRUE
                               IN rewardWeight(standings[x]) + g[r \ {x}]]

LEMMA WeightOfIs ==
  ASSUME NEW standings, WindowStandings(standings), NEW s \in SUBSET DOMAIN standings
  PROVE  WeightOf(standings, s) = SumOver(Weights(standings), s)
<1>1. WeightOf(standings, s) = (CHOOSE g : WeighFrom(standings, s, g))[s]
  BY ONLY DEF WeightOf, MapThenSumSet, MapThenFoldSet, WeighFrom
<1>2. PICK f : f = [x \in s |-> rewardWeight(standings[x])]
  OBVIOUS
<1>3. ASSUME NEW g PROVE WeighFrom(standings, s, g) <=> SumFrom(f, g)
  <2>1. DOMAIN f = s
    BY <1>2
  <2>2. ASSUME NEW r \in SUBSET s, r # {}
        PROVE  f[CHOOSE x \in r : TRUE] = rewardWeight(standings[CHOOSE x \in r : TRUE])
    <3>1. PICK y : y = CHOOSE x \in r : TRUE
      OBVIOUS
    <3>2. y \in s
      BY <2>2, <3>1
    <3>3. QED
      BY <1>2, <3>1, <3>2
  <2>3. \A r \in SUBSET s : Added(f, g, r) =
                            IF r = {} THEN 0 ELSE LET x == CHOOSE x \in r : TRUE
                                                  IN rewardWeight(standings[x]) + g[r \ {x}]
    BY <2>2 DEF Added
  <2>4. [r \in SUBSET s |-> Added(f, g, r)] =
        [r \in SUBSET s |-> IF r = {} THEN 0 ELSE LET x == CHOOSE x \in r : TRUE
                                                  IN rewardWeight(standings[x]) + g[r \ {x}]]
    BY <2>3
  <2>5. QED
    BY <2>1, <2>4 DEF SumFrom, WeighFrom
<1>4. IsFiniteSet(s) /\ DOMAIN f = s /\ f = [x \in s |-> f[x]]
  BY <1>2, FS_Subset DEF WindowStandings
<1>5. \E g : SumFrom(f, g)
  BY <1>4, SumExists
<1>6. PICK g : g = CHOOSE h : WeighFrom(standings, s, h)
  OBVIOUS
<1>7. SumFrom(f, g)
  BY <1>3, <1>5, <1>6
<1>8. g[s] = SumOver(f, s)
  BY <1>4, <1>7, AddedUp
<1>9. [x \in s |-> f[x]] = [x \in s |-> Weights(standings)[x]]
  BY <1>2 DEF Weights
<1>10. QED
  BY <1>1, <1>6, <1>8, <1>9 DEF SumOver

TotalFrom(allocations, g) ==
  g = [r \in SUBSET DOMAIN allocations |->
         IF r = {} THEN 0 ELSE LET x == CHOOSE x \in r : TRUE IN allocations[x].amount + g[r \ {x}]]

LEMMA totalAllocatedIs ==
  ASSUME NEW allocations, IsFiniteSet(DOMAIN allocations),
         NEW f, f = [x \in DOMAIN allocations |-> allocations[x].amount]
  PROVE  totalAllocated(allocations) = SumOver(f, DOMAIN allocations)
<1>1. totalAllocated(allocations) = (CHOOSE g : TotalFrom(allocations, g))[DOMAIN allocations]
  BY ONLY DEF totalAllocated, MapThenSumSet, MapThenFoldSet, TotalFrom
<1>2. PICK s : s = DOMAIN allocations
  OBVIOUS
<1>3. ASSUME NEW g PROVE TotalFrom(allocations, g) <=> SumFrom(f, g)
  <2>1. DOMAIN f = s
    BY <1>2
  <2>2. ASSUME NEW r \in SUBSET s, r # {}
        PROVE  f[CHOOSE x \in r : TRUE] = allocations[CHOOSE x \in r : TRUE].amount
    <3>1. PICK y : y = CHOOSE x \in r : TRUE
      OBVIOUS
    <3>2. y \in s
      BY <2>2, <3>1
    <3>3. QED
      BY <1>2, <3>1, <3>2
  <2>3. \A r \in SUBSET s : Added(f, g, r) =
                            IF r = {} THEN 0 ELSE LET x == CHOOSE x \in r : TRUE
                                                  IN allocations[x].amount + g[r \ {x}]
    BY <2>2 DEF Added
  <2>4. [r \in SUBSET s |-> Added(f, g, r)] =
        [r \in SUBSET s |-> IF r = {} THEN 0 ELSE LET x == CHOOSE x \in r : TRUE
                                                  IN allocations[x].amount + g[r \ {x}]]
    BY <2>3
  <2>5. QED
    BY <1>2, <2>1, <2>4 DEF SumFrom, TotalFrom
<1>4. IsFiniteSet(s) /\ DOMAIN f = s /\ f = [x \in s |-> f[x]]
  BY <1>2
<1>5. \E g : SumFrom(f, g)
  BY <1>4, SumExists
<1>6. PICK g : g = CHOOSE h : TotalFrom(allocations, h)
  OBVIOUS
<1>7. SumFrom(f, g)
  BY <1>3, <1>5, <1>6
<1>8. g[s] = SumOver(f, s)
  BY <1>4, <1>7, AddedUp
<1>9. QED
  BY <1>1, <1>2, <1>6, <1>8

LEMMA BasisPointsOf ==
  ASSUME NEW amount \in Nat, NEW bps \in Nat, bps <= 10000
  PROVE  applyBasisPoints(amount, bps) \in Nat /\ applyBasisPoints(amount, bps) <= amount
<1>1. PICK a \in Nat : a = amount * bps
  OBVIOUS
<1>2. a <= 10000 * amount
  BY <1>1
<1>3. a \div 10000 \in Nat /\ 10000 * (a \div 10000) <= a
  <2>1. 10000 \in Nat \ {0}
    OBVIOUS
  <2>2. QED
    BY <2>1, Quotient
<1>4. PICK q \in Nat : q = a \div 10000
  BY <1>3
<1>5. q <= amount
  BY <1>2, <1>3, <1>4
<1>6. applyBasisPoints(amount, bps) = q
  BY <1>1, <1>4 DEF applyBasisPoints, mulDivFloor
<1>7. QED
  BY <1>5, <1>6

LEMMA PoolParts ==
  ASSUME NEW pool \in Nat
  PROVE  /\ Distributable(pool) \in Nat /\ Distributable(pool) <= pool
         /\ Cap(pool) \in Nat /\ Cap(pool) <= Distributable(pool)
<1>1. /\ POOL_DISTRIBUTABLE_BPS \in Nat /\ POOL_DISTRIBUTABLE_BPS <= 10000
      /\ PER_WALLET_CAP_BPS \in Nat /\ PER_WALLET_CAP_BPS <= 10000
  BY RewardMathAssumption
<1>2. PICK share : share = applyBasisPoints(pool, POOL_DISTRIBUTABLE_BPS)
  OBVIOUS
<1>3. share \in Nat /\ share <= pool
  BY <1>1, <1>2, BasisPointsOf
<1>4. PICK cap : cap = applyBasisPoints(share, PER_WALLET_CAP_BPS)
  OBVIOUS
<1>5. cap \in Nat /\ cap <= share
  BY <1>1, <1>3, <1>4, BasisPointsOf
<1>6. Distributable(pool) = share /\ Cap(pool) = cap
  BY <1>2, <1>4 DEF Distributable, Cap
<1>7. QED
  BY <1>3, <1>5, <1>6

\* What the capped wallets take is in the pool, and what is left for the others.
Affordable(pool, capped) == Times(Cardinality(capped), Cap(pool)) <= Distributable(pool)
Left(pool, capped) == Distributable(pool) - Times(Cardinality(capped), Cap(pool))

Dues(standings, pool, capped) ==
  [w \in Qualified(standings) |-> Share(standings, pool, capped, w)]

LEMMA QualifiedIs ==
  ASSUME NEW standings, WindowStandings(standings)
  PROVE  /\ Qualified(standings) \in SUBSET DOMAIN standings /\ IsFiniteSet(Qualified(standings))
         /\ \A s \in SUBSET Qualified(standings) : IsFiniteSet(s) /\ Cardinality(s) \in Nat
<1>1. Qualified(standings) \in SUBSET DOMAIN standings
  BY DEF Qualified
<1>2. IsFiniteSet(Qualified(standings))
  BY <1>1, FS_Subset DEF WindowStandings
<1>3. ASSUME NEW s \in SUBSET Qualified(standings) PROVE IsFiniteSet(s) /\ Cardinality(s) \in Nat
  BY <1>2, FS_Subset, FS_CardinalityType
<1>4. QED
  BY <1>1, <1>2, <1>3

\* What the wallets not yet capped share in a pass is in what the capped ones leave.
LEMMA DuesAre ==
  ASSUME NEW standings, WindowStandings(standings), NEW pool \in Nat,
         NEW capped \in SUBSET Qualified(standings), Affordable(pool, capped),
         NEW q, q = Dues(standings, pool, capped)
  PROVE  /\ q \in [Qualified(standings) -> Nat]
         /\ \A w \in capped : q[w] = Cap(pool)
         /\ SumOver(q, Qualified(standings) \ capped) <= Left(pool, capped)
<1>1. PICK d, f, cap, rest, open, total :
        /\ d = Qualified(standings) /\ f = [w \in d |-> rewardWeight(standings[w])]
        /\ cap = Cap(pool) /\ rest = Left(pool, capped)
        /\ open = d \ capped /\ total = WeightOf(standings, open)
  OBVIOUS
<1>2. /\ IsFiniteSet(d) /\ d \in SUBSET DOMAIN standings /\ open \in SUBSET d
      /\ Cardinality(capped) \in Nat /\ cap \in Nat
  BY <1>1, QualifiedIs, PoolParts
<1>3. rest \in Nat /\ rest = Distributable(pool) - Cardinality(capped) * cap
  <2>1. PICK n \in Nat : n = Cardinality(capped)
    BY <1>2
  <2>2. Times(n, cap) \in Int /\ Times(n, cap) = n * cap
    BY <1>2 DEF Times
  <2>3. Distributable(pool) \in Nat
    BY PoolParts
  <2>4. QED
    BY <1>1, <2>1, <2>2, <2>3 DEF Affordable, Left
<1>4. /\ \A w \in d : f[w] \in Nat /\ f[w] = rewardWeight(standings[w])
      /\ f \in [d -> Int] /\ f \in [d -> Nat]
  <2>1. \A w \in d : Weights(standings)[w] \in Nat /\ Weights(standings)[w] = rewardWeight(standings[w])
    BY <1>2, WeightsType DEF Weights
  <2>2. QED
    BY <1>1, <2>1
<1>5. total = SumOver(f, open) /\ total \in Nat
  <2>1. open \in SUBSET DOMAIN standings
    BY <1>2
  <2>2. total = SumOver(Weights(standings), open)
    BY <1>1, <2>1, WeightOfIs
  <2>3. [x \in open |-> Weights(standings)[x]] = [x \in open |-> f[x]]
    BY <1>1, <1>2, <2>1 DEF Weights
  <2>4. total = SumOver(f, open)
    BY <2>2, <2>3 DEF SumOver
  <2>5. SumOver(f, open) \in Int
    BY <1>2, <1>4, SumOverIs
  <2>6. SumOver(f, open) >= Times(Cardinality(open), 0)
    <3>1. \A x \in open : f[x] >= 0
      BY <1>2, <1>4
    <3>2. 0 \in Int
      OBVIOUS
    <3>3. QED
      BY <1>2, <1>4, <3>1, <3>2, SumOverBounds
  <2>7. Cardinality(open) \in Nat /\ Times(Cardinality(open), 0) = 0
    <3>1. Cardinality(open) \in Nat
      BY <1>1, <1>2, QualifiedIs
    <3>2. QED
      BY <3>1 DEF Times
  <2>8. QED
    BY <2>4, <2>5, <2>6, <2>7
<1>6. ASSUME NEW w \in d
      PROVE  q[w] = IF w \in capped THEN cap ELSE IF total = 0 THEN 0 ELSE (rest * f[w]) \div total
  <2>1. q[w] = Share(standings, pool, capped, w)
    BY <1>1, <1>6 DEF Dues
  <2>2. ~(rest < 0)
    BY <1>3
  <2>3. CASE w \in capped
    BY <1>1, <2>1, <2>3 DEF Share
  <2>4. CASE w \notin capped /\ total = 0
    BY <1>1, <2>1, <2>4 DEF Share
  <2>5. CASE w \notin capped /\ total # 0
    BY <1>1, <1>3, <1>4, <2>1, <2>2, <2>5 DEF Share, mulDivFloor
  <2>6. QED
    BY <2>3, <2>4, <2>5
<1>7. ASSUME NEW w \in d, total # 0
      PROVE  (rest * f[w]) \div total \in Nat /\ total * ((rest * f[w]) \div total) <= rest * f[w]
  <2>1. PICK a \in Nat : a = rest * f[w]
    BY <1>3, <1>4
  <2>2. total \in Nat \ {0}
    BY <1>5, <1>7
  <2>3. QED
    BY <2>1, <2>2, Quotient
<1>8. \A w \in d : q[w] \in Nat
  BY <1>2, <1>6, <1>7
<1>9. q \in [d -> Nat] /\ q \in [d -> Int]
  BY <1>1, <1>8 DEF Dues
<1>10. SumOver(q, open) <= rest
  <2>1. CASE total = 0
    <3>1. ASSUME NEW x \in open PROVE q[x] <= 0
      <4>1. x \in d /\ x \notin capped
        BY <1>1, <3>1
      <4>2. q[x] = 0
        BY <1>6, <2>1, <4>1
      <4>3. QED
        BY <4>2
    <3>2. 0 \in Int /\ SumOver(q, open) \in Int
      BY <1>2, <1>9, SumOverIs
    <3>3. SumOver(q, open) <= Times(Cardinality(open), 0)
      BY <1>2, <1>9, <3>1, <3>2, SumOverBounds
    <3>4. Cardinality(open) \in Nat
      BY <1>1, <1>2, QualifiedIs
    <3>5. Times(Cardinality(open), 0) = 0
      BY <3>4 DEF Times
    <3>6. QED
      BY <1>3, <3>2, <3>3, <3>5
  <2>2. CASE total # 0
    <3>1. ASSUME NEW x \in open PROVE Times(q[x], total) <= Times(rest, f[x])
      <4>1. x \in d /\ x \notin capped
        BY <1>1, <3>1
      <4>2. q[x] = (rest * f[x]) \div total
        BY <1>6, <2>2, <4>1
      <4>3. total * q[x] <= rest * f[x] /\ q[x] \in Nat /\ f[x] \in Nat
        BY <1>4, <1>7, <2>2, <4>1, <4>2
      <4>4. PICK a \in Nat, b \in Nat : a = q[x] /\ b = f[x]
        BY <4>3
      <4>5. total * a = a * total
        BY <1>5
      <4>6. QED
        BY <4>3, <4>4, <4>5 DEF Times
    <3>2. rest \in Int /\ total \in Int
      BY <1>3, <1>5
    <3>3. Times(SumOver(q, open), total) <= Times(rest, SumOver(f, open))
      BY <1>2, <1>4, <1>9, <3>1, <3>2, SumOverShares
    <3>4. PICK s \in Int : s = SumOver(q, open)
      BY <1>2, <1>9, SumOverIs
    <3>5. s * total <= rest * total
      BY <1>5, <3>3, <3>4 DEF Times
    <3>6. ASSUME s > rest PROVE FALSE
      <4>1. s - rest >= 1 /\ s - rest \in Nat
        BY <1>3, <3>6
      <4>2. (s - rest) * total >= total
        BY <1>5, <4>1
      <4>3. (s - rest) * total = s * total - rest * total
        BY <1>3, <1>5
      <4>4. PICK x \in Int, y \in Int : x = s * total /\ y = rest * total
        BY <1>3, <1>5
      <4>5. QED
        BY <1>5, <2>2, <3>5, <4>2, <4>3, <4>4
    <3>7. QED
      BY <1>3, <3>4, <3>6
  <2>3. QED
    BY <2>1, <2>2
<1>11. \A w \in capped : q[w] = cap
  BY <1>1, <1>6
<1>12. QED
  BY <1>1, <1>9, <1>10, <1>11

\* The wallets a pass caps.
NewlyCapped(standings, pool, capped) ==
  {w \in Qualified(standings) \ capped : Share(standings, pool, capped, w) > Cap(pool)}

\* A pass caps only wallets that the pool can pay the cap.
LEMMA PassKeeps ==
  ASSUME NEW standings, WindowStandings(standings), NEW pool \in Nat,
         NEW capped \in SUBSET Qualified(standings), Affordable(pool, capped),
         NEW more, more = NewlyCapped(standings, pool, capped)
  PROVE  Affordable(pool, capped \cup more)
<1>1. PICK d, q, cap, open :
        /\ d = Qualified(standings) /\ q = Dues(standings, pool, capped)
        /\ cap = Cap(pool) /\ open = d \ capped
  OBVIOUS
<1>2. /\ IsFiniteSet(d) /\ open \in SUBSET d /\ more \in SUBSET d /\ (open \ more) \in SUBSET d
      /\ open \cap more = more /\ cap \in Nat /\ cap \in Int
  BY <1>1, QualifiedIs, PoolParts DEF NewlyCapped
<1>3. q \in [d -> Nat] /\ SumOver(q, open) <= Left(pool, capped)
  BY <1>1, DuesAre
<1>4. q \in [d -> Int]
  BY <1>3
<1>5. \A w \in more : q[w] >= cap
  <2>1. ASSUME NEW w \in more PROVE q[w] >= cap
    <3>1. w \in d /\ Share(standings, pool, capped, w) > cap
      BY <1>1, <2>1 DEF NewlyCapped
    <3>2. q[w] = Share(standings, pool, capped, w) /\ q[w] \in Nat
      BY <1>1, <1>3, <3>1 DEF Dues
    <3>3. QED
      BY <1>2, <3>1, <3>2
  <2>2. QED
    BY <2>1
<1>6. SumOver(q, more) >= Times(Cardinality(more), cap)
  BY <1>2, <1>4, <1>5, SumOverBounds
<1>7. SumOver(q, open \ more) >= 0
  <2>1. \A w \in open \ more : q[w] >= 0
    BY <1>2, <1>3
  <2>2. 0 \in Int /\ Cardinality(open \ more) \in Nat
    BY <1>1, <1>2, QualifiedIs
  <2>3. SumOver(q, open \ more) >= Times(Cardinality(open \ more), 0)
    BY <1>2, <1>4, <2>1, <2>2, SumOverBounds
  <2>4. Times(Cardinality(open \ more), 0) = 0
    BY <2>2 DEF Times
  <2>5. QED
    BY <2>3, <2>4
<1>8. SumOver(q, open) = SumOver(q, more) + SumOver(q, open \ more)
  <2>1. SumOver(q, open) = SumOver(q, open \cap more) + SumOver(q, open \ more)
    <3>1. SumOver(q, open) = SumOverParts(q, open, more)
      BY <1>2, <1>4, SumOverSplits
    <3>2. QED
      BY <3>1 DEF SumOverParts
  <2>2. QED
    BY <1>2, <2>1
<1>9. Cardinality(capped \cup more) = Cardinality(capped) + Cardinality(more)
  <2>1. IsFiniteSet(capped) /\ IsFiniteSet(more) /\ capped \cap more = {}
    BY <1>1, <1>2, QualifiedIs DEF NewlyCapped
  <2>2. Cardinality(capped \cup more) =
          Cardinality(capped) + Cardinality(more) - Cardinality(capped \cap more)
    BY <2>1, FS_Union
  <2>3. Cardinality(capped \cap more) = 0
    BY <2>1, FS_EmptySet
  <2>4. Cardinality(capped) \in Nat /\ Cardinality(more) \in Nat
    BY <2>1, FS_CardinalityType
  <2>5. QED
    BY <2>2, <2>3, <2>4
<1>10. PICK n \in Nat, m \in Nat : n = Cardinality(capped) /\ m = Cardinality(more)
  BY <1>1, <1>2, QualifiedIs
<1>11. Times(n + m, cap) = Times(n, cap) + Times(m, cap) /\ Times(n, cap) \in Int /\ Times(m, cap) \in Int
  BY <1>2 DEF Times
<1>12. SumOver(q, open) \in Int /\ SumOver(q, more) \in Int /\ SumOver(q, open \ more) \in Int
  BY <1>2, <1>4, SumOverIs
<1>13. Times(m, cap) <= Left(pool, capped)
  <2>1. Left(pool, capped) \in Int
    BY <1>1, <1>10, <1>11, PoolParts DEF Left
  <2>2. QED
    BY <1>3, <1>6, <1>7, <1>8, <1>10, <1>11, <1>12, <2>1
<1>14. Distributable(pool) \in Nat
  BY PoolParts
<1>15. QED
  BY <1>1, <1>9, <1>10, <1>11, <1>13, <1>14 DEF Affordable, Left

PassFrom(standings, pool, g) ==
  g = [capped \in SUBSET Qualified(standings) |->
         IF NewlyCapped(standings, pool, capped) = {} THEN capped
         ELSE g[capped \cup NewlyCapped(standings, pool, capped)]]

LEMMA CappedWalletsIs ==
  ASSUME NEW standings, NEW pool
  PROVE  CappedWallets(standings, pool) = (CHOOSE g : PassFrom(standings, pool, g))[{}]
BY ONLY DEF CappedWallets, PassFrom, NewlyCapped

\* The passes end; no wallet is then above the cap, and the capped ones can be paid.
CapsHold(standings, pool, capped) ==
  /\ capped \in SUBSET Qualified(standings)
  /\ Affordable(pool, capped) /\ NewlyCapped(standings, pool, capped) = {}

LEMMA PassesEnd ==
  ASSUME NEW standings, WindowStandings(standings), NEW pool \in Nat
  PROVE  CapsHold(standings, pool, CappedWallets(standings, pool))
<1>1. PICK n \in Nat : n = Cardinality(Qualified(standings))
  BY QualifiedIs
<1>2. PICK D, size, done, value, next, good, V :
        /\ D = SUBSET Qualified(standings)
        /\ size = [c \in D |-> n - Cardinality(c)]
        /\ done = {c \in D : NewlyCapped(standings, pool, c) = {}}
        /\ value = [c \in D |-> c]
        /\ next = [c \in D |-> c \cup NewlyCapped(standings, pool, c)]
        /\ good = {c \in D : Affordable(pool, c)}
        /\ V = {c \in D : CapsHold(standings, pool, c)}
  OBVIOUS
<1>3. ASSUME NEW c \in D
      PROVE  /\ c \in SUBSET Qualified(standings) /\ IsFiniteSet(c) /\ Cardinality(c) \in 0..n
             /\ size[c] = n - Cardinality(c) /\ size[c] \in 0..n /\ value[c] = c
             /\ next[c] = c \cup NewlyCapped(standings, pool, c) /\ next[c] \in D
             /\ (c \in done <=> NewlyCapped(standings, pool, c) = {})
  <2>1. c \in SUBSET Qualified(standings) /\ IsFiniteSet(c) /\ Cardinality(c) \in Nat
    BY <1>2, QualifiedIs
  <2>2. Cardinality(c) <= n
    BY <1>1, <2>1, QualifiedIs, FS_Subset
  <2>3. NewlyCapped(standings, pool, c) \in SUBSET Qualified(standings)
    BY DEF NewlyCapped
  <2>4. size[c] = n - Cardinality(c) /\ value[c] = c /\ next[c] = c \cup NewlyCapped(standings, pool, c)
    BY <1>2
  <2>5. next[c] \in D
    BY <1>2, <2>1, <2>3, <2>4
  <2>6. QED
    BY <1>2, <2>1, <2>2, <2>4, <2>5
<1>4. ASSUME NEW c \in D, c \notin done PROVE size[next[c]] < size[c]
  <2>1. PICK e : e = next[c]
    OBVIOUS
  <2>2. e \in D /\ e = c \cup NewlyCapped(standings, pool, c)
    BY <1>3, <2>1
  <2>3. PICK w \in NewlyCapped(standings, pool, c) : TRUE
    BY <1>3, <1>4
  <2>4. w \in e /\ w \notin c
    BY <2>2, <2>3 DEF NewlyCapped
  <2>5. IsFiniteSet(e) /\ c \subseteq e /\ c # e
    BY <1>3, <2>2, <2>4
  <2>6. Cardinality(c) < Cardinality(e)
    <3>1. Cardinality(c) <= Cardinality(e) /\ Cardinality(c) # Cardinality(e)
      BY <2>5, FS_Subset
    <3>2. Cardinality(c) \in Nat /\ Cardinality(e) \in Nat
      BY <1>3, <2>2
    <3>3. QED
      BY <3>1, <3>2
  <2>7. /\ Cardinality(c) \in Nat /\ Cardinality(e) \in Nat
        /\ size[c] = n - Cardinality(c) /\ size[e] = n - Cardinality(e)
    BY <1>3, <2>2
  <2>8. QED
    BY <2>1, <2>6, <2>7
<1>5. Shrinks(D, done, next, n, size)
  <2>1. done \in SUBSET D /\ next \in [D -> D]
    BY <1>2, <1>3
  <2>2. size \in [D -> 0..n]
    BY <1>2, <1>3
  <2>3. QED
    BY <1>4, <2>1, <2>2 DEF Shrinks
<1>6. Leads(good, done, value, next, V)
  <2>1. ASSUME NEW c \in good, c \in done PROVE value[c] \in V
    <3>1. c \in D /\ Affordable(pool, c)
      BY <1>2, <2>1
    <3>2. CapsHold(standings, pool, c)
      BY <1>3, <2>1, <3>1 DEF CapsHold
    <3>3. QED
      BY <1>2, <1>3, <3>1, <3>2
  <2>2. ASSUME NEW c \in good, c \notin done PROVE next[c] \in good
    <3>1. c \in D /\ Affordable(pool, c)
      BY <1>2, <2>2
    <3>2. PICK more : more = NewlyCapped(standings, pool, c)
      OBVIOUS
    <3>3. next[c] = c \cup more /\ next[c] \in D /\ c \in SUBSET Qualified(standings)
      BY <1>3, <3>1, <3>2
    <3>4. Affordable(pool, c \cup more)
      BY <3>1, <3>2, <3>3, PassKeeps
    <3>5. QED
      BY <1>2, <3>3, <3>4
  <2>3. QED
    BY <2>1, <2>2 DEF Leads
<1>7. PICK h : Repeats(D, done, value, next, h)
  BY <1>5, RepeatExists
<1>8. ASSUME NEW f
      PROVE  Repeats(D, done, value, next, f) <=> PassFrom(standings, pool, f)
  <2>1. \A c \in D : (IF c \in done THEN value[c] ELSE f[next[c]]) =
                     (IF NewlyCapped(standings, pool, c) = {} THEN c
                      ELSE f[c \cup NewlyCapped(standings, pool, c)])
    BY <1>3
  <2>2. [c \in D |-> IF c \in done THEN value[c] ELSE f[next[c]]] =
        [c \in D |-> IF NewlyCapped(standings, pool, c) = {} THEN c
                     ELSE f[c \cup NewlyCapped(standings, pool, c)]]
    BY <2>1
  <2>3. D = SUBSET Qualified(standings)
    BY <1>2
  <2>4. QED
    BY <2>2, <2>3 DEF Repeats, PassFrom
<1>9. PICK g : g = CHOOSE f : PassFrom(standings, pool, f)
  OBVIOUS
<1>10. Repeats(D, done, value, next, g)
  BY <1>7, <1>8, <1>9
<1>11. \A c \in good : g[c] \in V
  <2>1. good \in SUBSET D
    BY <1>2
  <2>2. QED
    BY <1>5, <1>6, <1>10, <2>1, RepeatInduct
<1>12. {} \in good
  <2>1. Cardinality({}) = 0 /\ Cap(pool) \in Nat /\ Distributable(pool) \in Nat
    BY FS_EmptySet, PoolParts
  <2>2. Times(0, Cap(pool)) = 0
    BY <2>1 DEF Times
  <2>3. Affordable(pool, {})
    BY <2>1, <2>2 DEF Affordable
  <2>4. QED
    BY <1>2, <2>3
<1>13. CapsHold(standings, pool, g[{}])
  BY <1>2, <1>11, <1>12
<1>14. QED
  BY <1>9, <1>13, CappedWalletsIs

\* Nobody is due more than the cap, and all of it together is in the pool.
WithinPool(allocations, pool) ==
  /\ \A w \in DOMAIN allocations :
       /\ allocations[w].amount \in Nat /\ allocations[w].carriedForward \in Nat
       /\ allocations[w].amount + allocations[w].carriedForward <= Cap(pool)
  /\ totalAllocated(allocations) <= Distributable(pool) /\ Distributable(pool) <= pool

LEMMA AllDues ==
  ASSUME NEW standings, WindowStandings(standings), NEW pool \in Nat,
         NEW q, q = Dues(standings, pool, CappedWallets(standings, pool))
  PROVE  /\ q \in [Qualified(standings) -> Nat]
         /\ \A w \in Qualified(standings) : q[w] <= Cap(pool)
         /\ SumOver(q, Qualified(standings)) <= Distributable(pool)
<1>1. PICK d, capped, cap : d = Qualified(standings) /\ capped = CappedWallets(standings, pool) /\ cap = Cap(pool)
  OBVIOUS
<1>2. CapsHold(standings, pool, capped)
  BY <1>1, PassesEnd
<1>3. /\ capped \in SUBSET Qualified(standings) /\ capped \in SUBSET d
      /\ Affordable(pool, capped) /\ NewlyCapped(standings, pool, capped) = {}
  BY <1>1, <1>2 DEF CapsHold
<1>4. /\ q \in [d -> Nat] /\ \A w \in capped : q[w] = cap
      /\ SumOver(q, d \ capped) <= Left(pool, capped)
  BY <1>1, <1>3, DuesAre
<1>5. /\ q \in [d -> Int] /\ IsFiniteSet(d) /\ cap \in Nat /\ cap \in Int
      /\ (d \ capped) \in SUBSET d /\ d \in SUBSET d /\ d \cap capped = capped
  BY <1>1, <1>3, <1>4, QualifiedIs, PoolParts
<1>6. ASSUME NEW w \in d PROVE q[w] <= cap
  <2>1. CASE w \in capped
    BY <1>4, <1>5, <2>1
  <2>2. CASE w \notin capped
    <3>1. ~(Share(standings, pool, capped, w) > cap)
      BY <1>1, <1>3, <1>6, <2>2 DEF NewlyCapped
    <3>2. q[w] = Share(standings, pool, capped, w) /\ q[w] \in Nat
      BY <1>1, <1>4, <1>6 DEF Dues
    <3>3. QED
      BY <1>5, <3>1, <3>2
  <2>3. QED
    BY <2>1, <2>2
<1>7. SumOver(q, capped) <= Times(Cardinality(capped), cap)
  <2>1. \A w \in capped : q[w] <= cap
    BY <1>4, <1>5
  <2>2. QED
    BY <1>3, <1>5, <2>1, SumOverBounds
<1>8. SumOver(q, d) = SumOver(q, capped) + SumOver(q, d \ capped)
  <2>1. SumOver(q, d) = SumOver(q, d \cap capped) + SumOver(q, d \ capped)
    <3>1. SumOver(q, d) = SumOverParts(q, d, capped)
      BY <1>5, SumOverSplits
    <3>2. QED
      BY <3>1 DEF SumOverParts
  <2>2. QED
    BY <1>5, <2>1
<1>9. SumOver(q, capped) \in Int /\ SumOver(q, d \ capped) \in Int
  BY <1>3, <1>5, SumOverIs
<1>10. PICK x \in Int : x = Times(Cardinality(capped), cap)
  <2>1. Cardinality(capped) \in Nat
    BY <1>3, QualifiedIs
  <2>2. QED
    BY <1>5, <2>1 DEF Times
<1>11. Distributable(pool) \in Nat /\ Left(pool, capped) = Distributable(pool) - x
  BY <1>1, <1>10, PoolParts DEF Left
<1>12. SumOver(q, d) <= Distributable(pool)
  BY <1>4, <1>7, <1>8, <1>9, <1>10, <1>11
<1>13. QED
  BY <1>1, <1>4, <1>6, <1>12

(***************************************************************************)
(* The allocation, for every window's standings and every pool: a wallet   *)
(* is due no more than the cap, what is claimable is no more than the      *)
(* share of the pool that is distributable, and the capped wallets never   *)
(* take more than it has - so what remains for the others is never below   *)
(* zero, and the passes that redistribute the excess end                   *)
(* (rewards-math/src/allocation.ts:98-258).                                *)
(***************************************************************************)
THEOREM PoolIsNeverOverspent ==
  ASSUME NEW standings, WindowStandings(standings), NEW pool \in Nat, NEW minimumClaim \in Nat
  PROVE  /\ WithinPool(allocateDistribution(standings, pool, minimumClaim), pool)
         /\ CapsHold(standings, pool, CappedWallets(standings, pool))
<1>1. PICK a, d, q, capped :
        /\ a = allocateDistribution(standings, pool, minimumClaim)
        /\ d = Qualified(standings) /\ capped = CappedWallets(standings, pool)
        /\ q = Dues(standings, pool, capped)
  OBVIOUS
<1>2. Distributable(pool) \in Nat /\ Distributable(pool) <= pool /\ Cap(pool) \in Nat /\ IsFiniteSet(d)
  BY <1>1, PoolParts, QualifiedIs
<1>3. q \in [d -> Nat] /\ (\A w \in d : q[w] <= Cap(pool)) /\ SumOver(q, d) <= Distributable(pool)
  BY <1>1, AllDues
<1>4. CASE Distributable(pool) = 0
  <2>1. a = <<>>
    BY <1>1, <1>4 DEF allocateDistribution
  <2>2. DOMAIN a = {}
    BY <2>1
  <2>3. PICK f : f = [x \in DOMAIN a |-> a[x].amount]
    OBVIOUS
  <2>4. totalAllocated(a) = SumOver(f, {})
    <3>1. IsFiniteSet(DOMAIN a)
      BY <2>2, FS_EmptySet
    <3>2. totalAllocated(a) = SumOver(f, DOMAIN a)
      BY <2>3, <3>1, totalAllocatedIs
    <3>3. QED
      BY <2>2, <3>2
  <2>5. SumOver(f, {}) = 0
    <3>1. f \in [{} -> Int] /\ IsFiniteSet({})
      BY <2>2, <2>3, FS_EmptySet
    <3>2. QED
      BY <3>1, SumOverIs
  <2>6. QED
    BY <1>1, <1>2, <2>2, <2>4, <2>5, PassesEnd DEF WithinPool
<1>5. CASE Distributable(pool) # 0
  <2>1. ASSUME NEW w \in d
        PROVE  /\ w \in DOMAIN a
               /\ a[w].amount = IF q[w] >= minimumClaim THEN q[w] ELSE 0
               /\ a[w].carriedForward = IF q[w] >= minimumClaim THEN 0 ELSE q[w]
    <3>1. q[w] = Share(standings, pool, capped, w)
      BY <1>1, <2>1 DEF Dues
    <3>2. a[w] = [amount |-> IF q[w] >= minimumClaim THEN q[w] ELSE 0,
                  carriedForward |-> IF q[w] >= minimumClaim THEN 0 ELSE q[w],
                  capped |-> w \in capped] /\ w \in DOMAIN a
      BY <1>1, <1>5, <2>1, <3>1 DEF allocateDistribution
    <3>3. QED
      BY <3>2
  <2>2. DOMAIN a = d
    BY <1>1, <1>5 DEF allocateDistribution
  <2>3. ASSUME NEW w \in d
        PROVE  /\ a[w].amount \in Nat /\ a[w].carriedForward \in Nat
               /\ a[w].amount + a[w].carriedForward <= Cap(pool) /\ a[w].amount <= q[w]
    <3>1. q[w] \in Nat /\ q[w] <= Cap(pool)
      BY <1>3, <2>3
    <3>2. QED
      BY <1>2, <2>1, <2>3, <3>1
  <2>4. PICK f : f = [x \in DOMAIN a |-> a[x].amount]
    OBVIOUS
  <2>5. f \in [d -> Int] /\ q \in [d -> Int] /\ d \in SUBSET d /\ \A w \in d : f[w] <= q[w]
    BY <1>3, <2>2, <2>3, <2>4
  <2>6. totalAllocated(a) = SumOver(f, d)
    <3>1. IsFiniteSet(DOMAIN a)
      BY <1>2, <2>2
    <3>2. totalAllocated(a) = SumOver(f, DOMAIN a)
      BY <2>4, <3>1, totalAllocatedIs
    <3>3. QED
      BY <2>2, <3>2
  <2>7. SumOver(f, d) <= SumOver(q, d)
    <3>1. 1 \in Int
      OBVIOUS
    <3>2. ASSUME NEW w \in d PROVE Times(f[w], 1) <= Times(1, q[w])
      <4>1. f[w] \in Int /\ q[w] \in Int /\ f[w] <= q[w]
        BY <2>5
      <4>2. QED
        BY <4>1 DEF Times
    <3>3. Times(SumOver(f, d), 1) <= Times(1, SumOver(q, d))
      BY <1>2, <2>5, <3>1, <3>2, SumOverShares
    <3>4. SumOver(f, d) \in Int /\ SumOver(q, d) \in Int
      BY <1>2, <2>5, SumOverIs
    <3>5. QED
      BY <3>3, <3>4 DEF Times
  <2>8. SumOver(f, d) \in Int /\ SumOver(q, d) \in Int
    BY <1>2, <2>5, SumOverIs
  <2>9. totalAllocated(a) <= Distributable(pool)
    BY <1>2, <1>3, <2>6, <2>7, <2>8
  <2>10. QED
    BY <1>1, <1>2, <2>2, <2>3, <2>9, PassesEnd DEF WithinPool
<1>6. QED
  BY <1>1, <1>4, <1>5

=============================================================================
