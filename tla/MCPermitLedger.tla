--------------------------- MODULE MCPermitLedger ---------------------------
(* Two permits for one operator scope: the second window opens later, and   *)
(* the first one closes while the second is open.                           *)
EXTENDS PermitLedger, TLC

CONSTANTS a1, a2, s1

MCScopeOf == (a1 :> s1) @@ (a2 :> s1)
MCIssued == (a1 :> 0) @@ (a2 :> 1)
MCExpires == (a1 :> 2) @@ (a2 :> 3)
=============================================================================
