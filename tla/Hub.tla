-------------------------------- MODULE Hub --------------------------------
(***************************************************************************)
(* The reducers of packages/realtime/src/hub.ts and envelope.ts on the     *)
(* entry of one connection: what a frame does to the channels it follows.  *)
(***************************************************************************)
EXTENDS Integers, FiniteSets

CONSTANTS
  Wallets,            \* the wallets sessions belong to; a token names its wallet
  PublicChannels,     \* the world's, the rounds' and the battles' channels
  MAX_SUBSCRIPTIONS,  \* channels one connection may follow
  None                \* no wallet, no connection

WalletChannel(w) == <<"wallet", w>>
Channels == PublicChannels \cup {WalletChannel(w) : w \in Wallets}

Connection == [wallet : Wallets \cup {None}, channels : SUBSET Channels]

ASSUME HubAssumption ==
  /\ MAX_SUBSCRIPTIONS \in Nat
  /\ None \notin Wallets
  /\ None \notin Connection
  /\ \A w \in Wallets : WalletChannel(w) \notin PublicChannels

MaySubscribe(ch, wallet) ==
  ch \in PublicChannels \/ (wallet # None /\ ch = WalletChannel(wallet))

\* identify: subscriptions the new wallet may not see are dropped.
Identify(k, wallet) ==
  [wallet |-> wallet, channels |-> {ch \in k.channels : MaySubscribe(ch, wallet)}]

\* SUBSCRIBE: refused past the limit, denied on another wallet's channel.
Subscribe(k, ch) ==
  IF Cardinality(k.channels) < MAX_SUBSCRIPTIONS /\ MaySubscribe(ch, k.wallet)
  THEN [k EXCEPT !.channels = @ \cup {ch}]
  ELSE k

Unsubscribe(k, ch) == [k EXCEPT !.channels = @ \ {ch}]

\* recipientsOf: whom an envelope that was numbered elsewhere is handed to.
recipientsOf(connections, ch) ==
  {c \in DOMAIN connections : connections[c] # None /\ ch \in connections[c].channels}

=============================================================================
