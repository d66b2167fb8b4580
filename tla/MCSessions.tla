----------------------------- MODULE MCSessions -----------------------------
(***************************************************************************)
(* Signing in and being connected: the socket gateway on one connection,   *)
(* and the sign-in service with a page and another client, explored side   *)
(* by side.                                                                *)
(***************************************************************************)
EXTENDS Gateway, WalletSession, TLC

VARIABLE part

vars == <<gatewayVars, walletVars, part>>

MCInit == GatewayInit /\ WalletInit /\ part \in {"gateway", "servers", "page"}

\* Addresses are interchangeable, and so are the wallets of the gateway.
MCSymmetry == Permutations(Addresses) \cup Permutations(Wallets)

\* Two servers answering clients that may do anything, up to two tokens.
ServersNext ==
  /\ \/ Others(Page) \/ Others(Other)
     \/ Operations
     \/ \E k \in {Page, Other} : Serving(k)
  /\ tokens' <= 2

\* One page against a server nobody else uses.
PageNext ==
  \/ Reload \/ ConnectPressed \/ RotateNow \/ Disconnect \/ PageStep
  \/ Operations
  \/ \E k \in {Page, Rotation} : Serving(k)

MCNext ==
  /\ \/ part = "gateway" /\ GatewayNext /\ UNCHANGED walletVars
     \/ part = "servers" /\ ServersNext /\ UNCHANGED gatewayVars
     \/ part = "page" /\ PageNext /\ UNCHANGED gatewayVars
  /\ part' = part

MCSpec == MCInit /\ [][MCNext]_vars

SignInSpec == MCInit /\ part = "page" /\ [][MCNext]_vars /\ WalletFairness

=============================================================================
