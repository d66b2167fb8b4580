------------------------------ MODULE MCPages ------------------------------
(***************************************************************************)
(* Three parts of the web app that share nothing but the browser, explored *)
(* side by side: backing a side, the world under the player's fingers, and *)
(* the player's own pages.                                                 *)
(***************************************************************************)
EXTENDS PickPage, WorldView, GenesisPage

VARIABLE part

vars == <<pageVars, worldVars, genesisPageVars, part>>

\* The wallets are alike: which of them comes first does not matter.
FirstWallet == CHOOSE w \in Wallets : TRUE

MCInit ==
  /\ PageInit /\ WorldInit /\ GenesisPageInit
  /\ part \in {"picks", "world", "personal"}
  /\ part # "personal" => hook = "GENESIS"
  /\ part # "world" => route = World
  /\ page.wallet = FirstWallet

MCNext ==
  /\ \/ part = "picks" /\ PageNext /\ (page'.session > 1 => started' <= 2) /\ UNCHANGED <<worldVars, genesisPageVars>>
     \/ part = "world" /\ WorldNext /\ UNCHANGED <<pageVars, genesisPageVars>>
     \/ part = "personal" /\ GenesisPageNext /\ UNCHANGED <<pageVars, worldVars>>
  /\ part' = part

MCSpec == MCInit /\ [][MCNext]_vars /\ (part = "personal" => GenesisPageFairness)

\* The player's own pages alone.
PersonalSpec == MCInit /\ part = "personal" /\ [][MCNext]_vars /\ GenesisPageFairness

=============================================================================
