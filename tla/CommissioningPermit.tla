------------------------ MODULE CommissioningPermit ------------------------
(***************************************************************************)
(* What the authority ledger promises, without its files, clocks, locks or *)
(* crashes: a permit is used once, in one direction, and a scope belongs   *)
(* to at most one permit from its lease until its runtime is gone again.   *)
(***************************************************************************)
CONSTANTS
  Auth,      \* the permits
  Scope,     \* the operator scopes
  ScopeOf,   \* the scope each permit targets
  None       \* no runtime

VARIABLES
  permit,    \* how far each permit has been used
  installed  \* the permit whose runtime a scope runs, or None

vars == <<permit, installed>>

Stage == {"issued", "consumed", "leased", "claimed", "spent"}
Holding == {"leased", "claimed"}

Init ==
  /\ permit = [a \in Auth |-> "issued"]
  /\ installed = [s \in Scope |-> None]

Advance(a, from, to) ==
  /\ permit[a] = from
  /\ permit' = [permit EXCEPT ![a] = to]

Consume(a) == Advance(a, "issued", "consumed") /\ UNCHANGED installed

LeaseScope(a) ==
  /\ \A b \in Auth : ScopeOf[b] = ScopeOf[a] => permit[b] \notin Holding
  /\ Advance(a, "consumed", "leased")
  /\ UNCHANGED installed

Claim(a) == Advance(a, "leased", "claimed") /\ UNCHANGED installed

\* A runtime goes into an empty scope, under the claim of its permit.
Install(a) ==
  /\ permit[a] = "claimed"
  /\ installed[ScopeOf[a]] = None
  /\ installed' = [installed EXCEPT ![ScopeOf[a]] = a]
  /\ UNCHANGED permit

\* Only the permit that installed a runtime removes it.
Remove(a) ==
  /\ permit[a] = "claimed"
  /\ installed[ScopeOf[a]] = a
  /\ installed' = [installed EXCEPT ![ScopeOf[a]] = None]
  /\ UNCHANGED permit

\* The scope is given up empty, and the permit with it.
Spend(a) ==
  /\ installed[ScopeOf[a]] = None
  /\ Advance(a, "claimed", "spent")
  /\ UNCHANGED installed

Next == \E a \in Auth :
  \/ Consume(a) \/ LeaseScope(a) \/ Claim(a)
  \/ Install(a) \/ Remove(a) \/ Spend(a)

Spec == Init /\ [][Next]_vars
=============================================================================
