---------------------------- MODULE MCPickStore ----------------------------
(***************************************************************************)
(* Small instances of PickStore for TLC.                                   *)
(***************************************************************************)
EXTENDS PickStore, TLC

CONSTANTS w1, w2, s1, s2, k1, k2

\* One wallet whose card has a single charge, the other with two: with two
\* rounds the first runs out and the second does not.
MCInitialUses == [w \in Wallets |-> IF w = w1 THEN 1 ELSE 2]

MCSymmetry == Permutations(Slots) \cup Permutations(Keys)
=============================================================================
