---------------------------- MODULE SecretVault ----------------------------
(***************************************************************************)
(* contracts/src/SecretStockVault.sol: the contract that holds the reward  *)
(* token and sets one fixed reward aside for each wallet that was dealt a  *)
(* Secret.  A transaction is atomic on chain, so each external function is *)
(* one action; a call that reverts changes nothing and is no step.         *)
(***************************************************************************)
EXTENDS Integers, FiniteSets

CONSTANTS Wallets,          \* the wallets that may be dealt a Secret
          REWARD_AMOUNT,    \* the fixed reward, in token base units
          MaxFunded         \* bound: all the vault is ever funded with

ASSUME VaultAssumption ==
  /\ IsFiniteSet(Wallets)
  /\ REWARD_AMOUNT \in Nat \ {0}
  /\ MaxFunded \in Nat

VARIABLES entitlements,     \* entitlements[w]: NONE, RESERVED or CLAIMED
          totalReserved,    \* set aside for winners who have not claimed
          balance,          \* REWARD_TOKEN.balanceOf(vault)
          funded,           \* history: all ever transferred to the vault
          paused            \* OpenZeppelin's Pausable flag

vaultVars == <<entitlements, totalReserved, balance, funded, paused>>

EntitlementState == {"NONE", "RESERVED", "CLAIMED"}

VaultInit ==
  /\ entitlements = [w \in Wallets |-> "NONE"]
  /\ totalReserved = 0
  /\ balance = 0
  /\ funded = 0
  /\ paused = FALSE

availableBalance ==
  IF balance > totalReserved THEN balance - totalReserved ELSE 0

isCovered == availableBalance >= REWARD_AMOUNT

\* A transfer of the reward token to the vault: the vault is not called.
Fund(amount) ==
  /\ funded + amount <= MaxFunded
  /\ funded' = funded + amount
  /\ balance' = balance + amount
  /\ UNCHANGED <<entitlements, totalReserved, paused>>

\* The checks of reserve(account), in the order that names the revert.
WouldRevert(w) ==
  CASE entitlements[w] # "NONE" -> "AlreadyEntitled"
    [] entitlements[w] = "NONE" /\ ~isCovered -> "InsufficientCoverage"
    [] OTHER -> "no"

reserve(w) ==
  /\ WouldRevert(w) = "no"
  /\ entitlements' = [entitlements EXCEPT ![w] = "RESERVED"]
  /\ totalReserved' = totalReserved + REWARD_AMOUNT
  /\ UNCHANGED <<balance, funded, paused>>

\* claim() by the winner: reverts unless RESERVED and not paused; the transfer
\* reverts with it when the balance is short.
Claim(w) ==
  /\ ~paused
  /\ entitlements[w] = "RESERVED"
  /\ balance >= REWARD_AMOUNT
  /\ entitlements' = [entitlements EXCEPT ![w] = "CLAIMED"]
  /\ totalReserved' = totalReserved - REWARD_AMOUNT
  /\ balance' = balance - REWARD_AMOUNT
  /\ UNCHANGED <<funded, paused>>

withdrawAvailable(amount) ==
  /\ amount # 0
  /\ amount <= availableBalance
  /\ balance' = balance - amount
  /\ UNCHANGED <<entitlements, totalReserved, funded, paused>>

Pause ==
  /\ paused' = ~paused
  /\ UNCHANGED <<entitlements, totalReserved, balance, funded>>

-----------------------------------------------------------------------------
\* Every step but the reservation, which the Genesis service takes part in.
Treasury ==
  \/ \E amount \in 1..MaxFunded : Fund(amount) \/ withdrawAvailable(amount)
  \/ \E w \in Wallets : Claim(w)
  \/ Pause

VaultNext == Treasury \/ \E w \in Wallets : reserve(w)

VaultSpec == VaultInit /\ [][VaultNext]_vaultVars

-----------------------------------------------------------------------------
InState(s) == {w \in Wallets : entitlements[w] = s}

\* The vault's state is well formed.
VaultTypeOK ==
  /\ entitlements \in [Wallets -> EntitlementState]
  /\ totalReserved \in Nat
  /\ balance \in Nat
  /\ funded \in 0..MaxFunded
  /\ paused \in BOOLEAN

\* Every reward set aside and not yet claimed is in the vault: totalReserved
\* (SecretStockVault.sol:65) is exactly one REWARD_AMOUNT per RESERVED wallet
\* and the balance covers it, and a CLAIMED wallet was paid out of what was
\* funded, once, whatever is funded, withdrawn, paused or claimed in between.
\* It is what lets the uint256 subtraction in claim() and its transfer succeed
\* for every winner.
Solvent ==
  /\ totalReserved = REWARD_AMOUNT * Cardinality(InState("RESERVED"))
  /\ totalReserved <= balance
  /\ balance + REWARD_AMOUNT * Cardinality(InState("CLAIMED")) <= funded

\* One wallet's entitlement moves on, or stays.
Advances(w) ==
  \/ entitlements'[w] = entitlements[w]
  \/ entitlements[w] = "NONE" /\ entitlements'[w] = "RESERVED"
  \/ entitlements[w] = "RESERVED" /\ entitlements'[w] = "CLAIMED" /\ ~paused

\* An entitlement only advances, NONE to RESERVED to CLAIMED, and never to
\* CLAIMED while paused; what leaves the vault without a claim is never more
\* than was available (SecretStockVault.sol:152-155, 168-169, 185).
EntitlementsOnlyAdvance ==
  [][ /\ \A w \in Wallets : Advances(w)
      /\ entitlements' = entitlements => balance' >= balance - availableBalance
    ]_vaultVars

=============================================================================
