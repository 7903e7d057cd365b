------------------------------- MODULE Backends -------------------------------
(***************************************************************************)
(* A backend of the AI gateway is reached either with the key of a named   *)
(* API connection (module ProviderConnections) or with the dedicated       *)
(* account of the native provider (CodexAccount).  The two keep their      *)
(* state in different Vault entries and files under different locks; the   *)
(* model management asks each backend which of them it has.                *)
(***************************************************************************)
EXTENDS ProviderConnections, CodexAccount

VARIABLE native  \* the backend has an account, and no connection

backendVars == <<vars, accountVars, native>>

BackendsInit == Init /\ AccountInit /\ native \in BOOLEAN

OfConnection == ~native /\ Next /\ UNCHANGED <<accountVars, native>>

OfAccount == native /\ AccountNext /\ UNCHANGED <<vars, native>>

BackendsNext == OfConnection \/ OfAccount

BackendsSpec == BackendsInit /\ [][BackendsNext]_backendVars

-----------------------------------------------------------------------------
(* What the gateway guarantees of both.                                    *)

\* The gateway says no more than Vault: the key it offers or uses is the one in
\* Vault, and a sign-in tells what became of its account.
CredentialIsCurrent == KeyIsCurrent /\ AccountTypeOK /\ SignInIsTrue

\* What was retired is gone for good: no key comes back to a connection that was
\* disconnected, and nothing refers to one that was removed.
RetiredIsGone == FencedStaysFenced /\ NoOrphanReference

\* What is over is over: retired connections and their operations, replaced
\* accounts, ended sign-ins and finished invocations.
EndsAreFinal == Retired /\ AccountMovesOn /\ AnswersAreFinal
=============================================================================
