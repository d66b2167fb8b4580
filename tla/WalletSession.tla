--------------------------- MODULE WalletSession ---------------------------
(***************************************************************************)
(* The web app's side of signing in: apps/web/src/live/useWalletSession.ts *)
(* over auth-client.ts, session-store.ts and wallet-provider.ts.  Four     *)
(* things run beside each other in one page: the check of a stored token   *)
(* begun when the page loads, the sign-in behind connect(), the rotation   *)
(* timer, and sign-out.  Each applies its own answer when it comes.        *)
(***************************************************************************)
EXTENDS Auth

CONSTANTS Page, Rotation, Other   \* the slots of the page's requests, and of
                                  \* another tab, device or client

ASSUME WalletSessionAssumption == {Page, Rotation, Other} \subseteq Slots

VARIABLES session,   \* the session the page holds: token and wallet, or NoSession
          stored,    \* localStorage, the same
          status,    \* what the HUD shows
          loading,   \* the stored session being checked, or NoSession
          flow,      \* connect(): how far it is, for which wallet and nonce
          rotating,  \* whether a rotation of this page is in flight
          wanted     \* history: whether the player asked to be signed in

pageVars == <<session, stored, status, loading, flow, rotating, wanted>>
walletVars == <<authVars, pageVars>>

NoSession == [token |-> 0, wallet |-> NoOne]
NoFlow == [at |-> "idle", wallet |-> NoOne, nonce |-> 0]

WalletInit ==
  /\ AuthInit
  /\ session = NoSession /\ stored = NoSession /\ loading = NoSession
  /\ status = "DISCONNECTED"
  /\ flow = NoFlow /\ rotating = FALSE /\ wanted = FALSE

\* adopt: the page's session, its storage and, with it, what the HUD says.
adopt(s) == session' = s /\ stored' = s

\* A page load: nothing in memory survives, and a stored token is only a claim.
Reload ==
  /\ session' = NoSession /\ flow' = NoFlow /\ rotating' = FALSE
  /\ loading' = stored
  /\ status' = "DISCONNECTED"
  /\ wanted' = (stored # NoSession)
  /\ <<session, loading>> # <<NoSession, stored>>
  /\ UNCHANGED <<authVars, stored>>

\* fetchSession answers: the stored token is adopted for the wallet the server
\* names, or forgotten unless the server could not be reached.
Loaded ==
  /\ loading # NoSession
  /\ \/ /\ LiveAt(loading.token, clock)
        /\ adopt([token |-> loading.token, wallet |-> WalletOfToken(loading.token)])
        /\ status' = "CONNECTED"
     \/ /\ ~LiveAt(loading.token, clock)
        /\ stored' = NoSession /\ session' = session /\ status' = "DISCONNECTED"
     \/ /\ UNCHANGED <<session, stored>> /\ status' = "DISCONNECTED"   \* unreachable
  /\ loading' = NoSession
  /\ UNCHANGED <<authVars, flow, rotating, wanted>>

-----------------------------------------------------------------------------
EndFlow(shown) == flow' = NoFlow /\ status' = shown

\* connect(), from its button: the wallet is asked who it is.
ConnectPressed ==
  /\ status \in {"DISCONNECTED", "REFUSED"} /\ flow.at = "idle"
  /\ flow' = [NoFlow EXCEPT !.at = "wallet"]
  /\ status' = "CONNECTING" /\ wanted' = TRUE
  /\ UNCHANGED <<authVars, session, stored, loading, rotating>>

WalletAnswers ==
  /\ flow.at = "wallet"
  /\ \/ \E w \in Addresses : flow' = [flow EXCEPT !.at = "challenge", !.wallet = w] /\ status' = status
     \/ EndFlow("DISCONNECTED")     \* declined
     \/ EndFlow("REFUSED")          \* the wallet failed
  /\ UNCHANGED <<authVars, session, stored, loading, rotating, wanted>>

\* requestChallenge: issued, refused, or the wrong chain, which is followed by
\* the switch offerSwitch makes and another press of the button.
Challenged ==
  /\ flow.at = "challenge"
  /\ \/ /\ challenge(flow.wallet) /\ calls' = calls
        /\ flow' = [flow EXCEPT !.at = "sign", !.nonce = nonces + 1]
        /\ status' = status
     \/ UNCHANGED authVars /\ EndFlow("REFUSED")
     \/ UNCHANGED authVars /\ EndFlow("DISCONNECTED")   \* switched: connect again
  /\ UNCHANGED <<session, stored, loading, rotating, wanted>>

\* signMessage, then POST /v1/auth/verify: the wallet may have changed account.
Signed ==
  /\ flow.at = "sign"
  /\ \/ UNCHANGED authVars /\ EndFlow("DISCONNECTED")
     \/ \E signer \in Addresses :
          /\ verify(Page, flow.nonce, signer, flow.wallet)
          /\ flow' = [flow EXCEPT !.at = "verify"]
          /\ status' = status
  /\ UNCHANGED <<session, stored, loading, rotating, wanted>>

\* The verification's answer: a session, or a refusal.
Verified ==
  /\ flow.at = "verify" /\ calls[Page].kind = "verify" /\ calls[Page].step = "done"
  /\ IF calls[Page].next = 0
       THEN EndFlow("REFUSED") /\ UNCHANGED <<session, stored>>
       ELSE /\ adopt([token |-> calls[Page].next, wallet |-> calls[Page].wallet])
            /\ EndFlow("CONNECTED")
  /\ UNCHANGED <<authVars, loading, rotating, wanted>>

-----------------------------------------------------------------------------
\* The rotation timer of the session in hand.
RotateNow ==
  /\ session # NoSession /\ ~rotating
  /\ rotate(Rotation, session.token)
  /\ rotating' = TRUE
  /\ UNCHANGED <<session, stored, status, loading, flow, wanted>>

\* Mutation: the answer replaces the token and keeps the wallet on show.
RotatedKeepingWallet ==
  /\ rotating /\ calls[Rotation].kind = "rotate" /\ calls[Rotation].step = "done"
  /\ rotating' = FALSE
  /\ IF calls[Rotation].next = 0
       THEN UNCHANGED <<session, stored, status>>
       ELSE /\ adopt([token |-> calls[Rotation].next, wallet |-> session.wallet])
            /\ status' = "CONNECTED"
  /\ UNCHANGED <<authVars, loading, flow, wanted>>

\* Its answer is adopted whatever the page holds by then; a failure is not shown.
Rotated ==
  /\ rotating /\ calls[Rotation].kind = "rotate" /\ calls[Rotation].step = "done"
  /\ rotating' = FALSE
  /\ IF calls[Rotation].next = 0
       THEN UNCHANGED <<session, stored, status>>
       ELSE /\ adopt([token |-> calls[Rotation].next, wallet |-> calls[Rotation].wallet])
            /\ status' = "CONNECTED"
  /\ UNCHANGED <<authVars, loading, flow, wanted>>

\* disconnect(): the device first, then the server if it can be reached.
Disconnect ==
  /\ status = "CONNECTED"
  /\ adopt(NoSession) /\ status' = "DISCONNECTED" /\ wanted' = FALSE
  /\ UNCHANGED <<loading, flow, rotating>>
  /\ \/ UNCHANGED authVars
     \/ session # NoSession /\ revoke(Page, session.token)

-----------------------------------------------------------------------------
\* Other clients: any wallet asking for a challenge, any nonce presented with
\* any signature, any token rotated or signed out.
Others(k) ==
  /\ \/ \E w \in Addresses : challenge(w) /\ calls' = calls
     \/ \E n \in 1..nonces, s \in Addresses \cup {NoOne}, w \in Addresses : verify(k, n, s, w)
     \/ \E t \in 1..tokens : rotate(k, t) \/ revoke(k, t)
  /\ UNCHANGED pageVars

Operations ==
  /\ (\E w \in Addresses : revokeEverySession(w)) \/ pruneExpired \/ AuthTick
     \/ \E thread \in 0..(Threads - 1) : PoolError(thread)
  /\ UNCHANGED pageVars

Serving(k) == ServerStep(k) /\ UNCHANGED pageVars

PageStep == Loaded \/ WalletAnswers \/ Challenged \/ Signed \/ Verified \/ Rotated

WalletNext ==
  \/ Reload \/ ConnectPressed \/ RotateNow \/ Disconnect \/ PageStep
  \/ Others(Other) \/ Operations
  \/ \E k \in Slots : Serving(k)

WalletSafety == WalletInit /\ [][WalletNext]_walletVars

\* Requests begun run on, and the wallet and the server answer the page.
WalletFairness ==
  /\ \A k \in Slots : WF_walletVars(Serving(k))
  /\ WF_walletVars(PageStep)

-----------------------------------------------------------------------------
\* The page's state is well formed, and storage is what the page holds once the
\* stored token has been checked.
WalletTypeOK ==
  /\ {session.token, stored.token, loading.token} \subseteq 0..MaxTokens
  /\ status \in {"DISCONNECTED", "CONNECTING", "CONNECTED", "REFUSED"}
  /\ flow.at \in {"idle", "wallet", "challenge", "sign", "verify"}
  /\ rotating \in BOOLEAN /\ wanted \in BOOLEAN

\* The page never names a wallet its token is not for (useWalletSession.ts:
\* 57-77, 130, 162, 234), however its answers cross.
TokenIsTheWallets ==
  \A r \in rows : r.token = session.token => r.wallet = session.wallet

\* Signing out is signing out on this device (useWalletSession.ts:244-246): the
\* page is signed in only while the player has asked for it.
SignOutHolds == session # NoSession => wanted

\* A sign-in ends, in a session or in a refusal (recover-pool.ts:60-62, 92-94):
\* the page never waits for ever on a signature that was given.
SignInEnds == flow.at = "verify" ~> flow.at # "verify"

=============================================================================
