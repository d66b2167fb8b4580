--------------------------- MODULE MCGenesisFlow ---------------------------
(***************************************************************************)
(* GenesisFlow for TLC: which blocks deal from the Secret band.            *)
(***************************************************************************)
EXTENDS GenesisFlow

EveryDraw == Wallets \X (1..MaxBlock)

\* Requests on odd blocks draw a Secret, on even blocks they do not.
OddDraws == Wallets \X {b \in 1..MaxBlock : b % 2 = 1}

=============================================================================
