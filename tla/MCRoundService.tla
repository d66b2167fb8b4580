--------------------------- MODULE MCRoundService ---------------------------
(***************************************************************************)
(* Small instances of RoundService for TLC.                                *)
(***************************************************************************)
EXTENDS RoundService

CONSTANTS w1, w2, s1, s2, k1, i1, i2

MCInitialUses == [w \in Wallets |-> 1]

\* The block hash breaks a tie of the first battle left, of the second right.
MCTieBreak == [r \in Rounds |-> [s \in Slots |-> IF s = s1 THEN "LEFT" ELSE "RIGHT"]]

=============================================================================
