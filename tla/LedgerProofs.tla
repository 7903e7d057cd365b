---------------------------- MODULE LedgerProofs ----------------------------
(***************************************************************************)
(* Proofs about the two ledgers that let an effect happen once: the permits *)
(* of PermitLedger, for any authorizations, scopes and windows, and the     *)
(* release requests of ReleaseDispatch, for any number of runs that could   *)
(* be started, any cancellation keys and any number of crashes.             *)
(***************************************************************************)
EXTENDS PermitLedger, ReleaseDispatch, FiniteSetTheorems, TLAPS

(***************************************************************************)
(* The permits.                                                            *)
(***************************************************************************)
-----------------------------------------------------------------------------
(* Type correctness.                                                       *)

\* The first state has the types.
LEMMA TypeInit == ASSUME LedgerInit PROVE LedgerTypes
BY AbsentAssumption DEF LedgerInit, LedgerTypes, SnapStep, ExecStep

\* So has every step of a snapshot.
LEMMA TypeSnapshot ==
  ASSUME LedgerTypes, NEW a \in Auth, Snapshot(a)
  PROVE  LedgerTypes'
<1> USE ScopeAssumption, WindowAssumption DEF LedgerTypes, SnapStep, ExecStep,
        SnapshotTo, ledgerVars, runVars
<1>1. CASE SnapshotBegin(a) BY <1>1 DEF SnapshotBegin
<1>2. CASE SnapshotConsume(a) BY <1>2 DEF SnapshotConsume
<1>3. CASE SnapshotInspect(a) BY <1>3 DEF SnapshotInspect
<1>4. CASE SnapshotRemove(a) BY <1>4 DEF SnapshotRemove
<1>5. CASE SnapshotMkdir(a) BY <1>5 DEF SnapshotMkdir
<1>6. CASE SnapshotCommit(a) BY <1>6 DEF SnapshotCommit
<1>7. CASE SnapshotCrash(a) BY <1>7 DEF SnapshotCrash
<1> QED BY <1>1, <1>2, <1>3, <1>4, <1>5, <1>6, <1>7 DEF Snapshot

\* So has every step of an execution.
LEMMA TypeExecute ==
  ASSUME LedgerTypes, NEW a \in Auth, Execute(a)
  PROVE  LedgerTypes'
<1> USE ScopeAssumption, WindowAssumption DEF LedgerTypes, SnapStep, ExecStep,
        ExecTo, Deny, ledgerVars, runVars
<1>1. CASE ExecuteBegin(a) BY <1>1 DEF ExecuteBegin
<1>2. CASE CleanupBegin(a) BY <1>2 DEF CleanupBegin
<1>3. CASE ExecuteCrash(a) BY <1>3 DEF ExecuteCrash
<1>4. CASE ProjectOos(a)
  <2> DEFINE start == IF oos[a] # Absent THEN oos[a] ELSE now
  <2>1. start \in Nat
    OBVIOUS
  <2>2. PICK d \in {"absent", "partial", "committed"} :
          runDir' = [runDir EXCEPT ![a] = d]
    BY <1>4 DEF ProjectOos
  <2>3. \/ oos' = [oos EXCEPT ![a] = start] /\ stamp' = [stamp EXCEPT ![a] = start]
        \/ oos' = oos /\ stamp' = [stamp EXCEPT ![a] = Absent]
    BY <1>4 DEF ProjectOos
  <2>4. exec' = [exec EXCEPT ![a] = "projecting"] \/ exec' = [exec EXCEPT ![a] = "idle"]
    BY <1>4 DEF ProjectOos
  <2>5. UNCHANGED <<now, receipt, lease, claim, wgcf, source, runtime, snap>>
    BY <1>4 DEF ProjectOos
  <2> QED BY <2>1, <2>2, <2>3, <2>4, <2>5
<1>5. CASE ProjectWgcf(a) BY <1>5 DEF ProjectWgcf
<1>6. CASE ResumeClaim(a) BY <1>6 DEF ResumeClaim
<1>7. CASE AcquireLease(a)
  <2>1. CASE UNCHANGED lease
    BY <1>7, <2>1 DEF AcquireLease, Lease
  <2>2. CASE lease' = [lease EXCEPT ![ScopeOf[a]] = LeaseOf(a)]
    BY <1>7, <2>2 DEF AcquireLease, LeaseOf, Lease
  <2> QED BY <1>7, <2>1, <2>2 DEF AcquireLease
<1>8. CASE WriteClaim(a) BY <1>8 DEF WriteClaim
<1>9. CASE CheckOut(a) BY <1>9 DEF CheckOut
<1>10. CASE AuthorizePrepare(a) BY <1>10 DEF AuthorizePrepare
<1>11. CASE InstallRuntime(a) BY <1>11 DEF InstallRuntime
<1>12. CASE AuthorizeRemoval(a) BY <1>12 DEF AuthorizeRemoval
<1>13. CASE RemoveRuntime(a) BY <1>13 DEF RemoveRuntime
<1>14. CASE VerifyBaseline(a) BY <1>14 DEF VerifyBaseline
<1>15. CASE ReleaseLease(a) BY <1>15 DEF ReleaseLease
<1>16. CASE DropSource(a) BY <1>16 DEF DropSource
<1> QED BY <1>1, <1>2, <1>3, <1>4, <1>5, <1>6, <1>7, <1>8, <1>9, <1>10, <1>11,
           <1>12, <1>13, <1>14, <1>15, <1>16 DEF Execute, ExecuteStep

\* Every step keeps the types.
LEMMA TypeStep == ASSUME LedgerTypes, [LedgerNext]_allVars PROVE LedgerTypes'
<1>1. CASE Tick BY <1>1 DEF Tick, LedgerTypes, ledgerVars, runVars
<1>2. CASE UNCHANGED allVars BY <1>2 DEF allVars, LedgerTypes, ledgerVars, runVars
<1> QED BY <1>1, <1>2, TypeSnapshot, TypeExecute DEF LedgerNext

\* Every file, lock and timestamp of the ledger keeps its type.
THEOREM LedgerTypeCorrect == LedgerSpec => []LedgerTypes
<1>1. LedgerInit => LedgerTypes BY TypeInit
<1>2. LedgerTypes /\ [LedgerNext]_allVars => LedgerTypes' BY TypeStep
<1> QED BY <1>1, <1>2, PTL DEF LedgerSpec

-----------------------------------------------------------------------------
(* The inductive invariant.  The files alone do not say why a runtime keeps *)
(* its lease: that takes what each command has checked and not yet used.    *)

\* A permit is consumed in its past and not before it is valid.
ReceiptInv ==
  \A a \in Auth : receipt[a] # Absent => Issued[a] <= receipt[a] /\ receipt[a] <= now

\* A lease is of a consumed permit of this scope, was taken with the reserve
\* left, and is the one that the claim of its permit binds if there is a claim.
LeaseInv ==
  \A s \in Scope : lease[s] # Absent =>
    /\ ScopeOf[lease[s].auth] = s
    /\ receipt[lease[s].auth] # Absent
    /\ receipt[lease[s].auth] <= lease[s].at
    /\ lease[s].at + Reserve < Expires[lease[s].auth]
    /\ claim[lease[s].auth] \in {Absent, lease[s].at}

\* What a running command may still rely on.
StepInv ==
  \A a \in Auth :
    /\ exec[a] # "idle" => receipt[a] # Absent
    /\ exec[a] = "leased" =>
         /\ claim[a] = Absent
         /\ lease[ScopeOf[a]] # Absent
         /\ lease[ScopeOf[a]].auth = a
         /\ lease[ScopeOf[a]].at = stamp[a]
    /\ exec[a] \in {"claimed", "checkedOut", "authorized", "removing"} => HoldsLease(a)
    /\ exec[a] = "releasing" /\ HoldsLease(a) => runtime[ScopeOf[a]] = Absent

LedgerInv ==
  /\ LedgerTypes
  /\ ReceiptInv
  /\ LeaseInv
  /\ StepInv
  /\ ClaimFollowsConsumption
  /\ RuntimeUnderLease

\* The lease the code compares with its claim is the lease of the properties.
LEMMA MatchingLease ==
  ASSUME LedgerTypes, NEW a \in Auth
  PROVE  LeaseMatches(a) <=> HoldsLease(a)
BY ScopeAssumption, AbsentAssumption DEF LedgerTypes, LeaseMatches, HoldsLease, Lease

\* Two authorizations never hold the lease of one scope.
LEMMA OneHolder ==
  ASSUME NEW a \in Auth, NEW b \in Auth, HoldsLease(a), HoldsLease(b),
         ScopeOf[a] = ScopeOf[b]
  PROVE  a = b
BY DEF HoldsLease

\* A step that leaves the ledger files and the runtimes alone has only to
\* account for what the commands rely on.
LEMMA FilesKept ==
  ASSUME LedgerInv, LedgerTypes', StepInv', UNCHANGED <<receipt, lease, claim, runtime>>,
         now <= now'
  PROVE  LedgerInv'
<1>1. ReceiptInv' BY DEF LedgerInv, ReceiptInv, LedgerTypes
<1>2. LeaseInv' BY DEF LedgerInv, LeaseInv
<1>3. ClaimFollowsConsumption' BY DEF LedgerInv, ClaimFollowsConsumption
<1>4. RuntimeUnderLease' BY DEF LedgerInv, RuntimeUnderLease, HoldsLease
<1> QED BY <1>1, <1>2, <1>3, <1>4 DEF LedgerInv

\* The ledger's invariant holds at first.
LEMMA LedgerStarts == ASSUME LedgerInit PROVE LedgerInv
BY TypeInit DEF LedgerInit, LedgerInv, ReceiptInv, LeaseInv, StepInv,
   ClaimFollowsConsumption, RuntimeUnderLease

\* A snapshot writes no lease, claim or runtime; its receipt is written once.
LEMMA LedgerSnapshot ==
  ASSUME LedgerInv, NEW a \in Auth, Snapshot(a)
  PROVE  LedgerInv'
<1>1. LedgerTypes' BY TypeSnapshot DEF LedgerInv
<1>2. UNCHANGED <<now, lease, claim, runtime, exec, stamp>>
  BY DEF Snapshot, SnapshotBegin, SnapshotConsume, SnapshotInspect, SnapshotRemove,
         SnapshotMkdir, SnapshotCommit, SnapshotCrash, ledgerVars, runVars
<1>3. \/ UNCHANGED receipt
      \/ receipt[a] = Absent /\ InWindow(a) /\ receipt' = [receipt EXCEPT ![a] = now]
  BY DEF Snapshot, SnapshotBegin, SnapshotConsume, SnapshotInspect, SnapshotRemove,
         SnapshotMkdir, SnapshotCommit, SnapshotCrash, ledgerVars
<1>4. \A b \in Auth : receipt[b] # Absent => receipt'[b] = receipt[b]
  BY <1>3 DEF LedgerInv, LedgerTypes
<1>5. StepInv' 
  BY <1>2, <1>4, AbsentAssumption DEF LedgerInv, StepInv, HoldsLease, LedgerTypes
<1>6. ReceiptInv'
  BY <1>2, <1>3 DEF LedgerInv, ReceiptInv, InWindow, LedgerTypes
<1>7. LeaseInv'
  BY <1>2, <1>4, AbsentAssumption DEF LedgerInv, LeaseInv, LedgerTypes, Lease
<1>8. ClaimFollowsConsumption'
  BY <1>2, <1>4, AbsentAssumption DEF LedgerInv, ClaimFollowsConsumption
<1>9. RuntimeUnderLease'
  BY <1>2 DEF LedgerInv, RuntimeUnderLease, HoldsLease
<1> QED BY <1>1, <1>5, <1>6, <1>7, <1>8, <1>9 DEF LedgerInv

\* Most steps of an execution write no ledger file and no runtime.
LEMMA LedgerQuiet ==
  ASSUME LedgerInv, NEW a \in Auth,
         \/ ExecuteBegin(a) \/ CleanupBegin(a) \/ ExecuteCrash(a)
         \/ ProjectOos(a) \/ ProjectWgcf(a) \/ ResumeClaim(a)
         \/ CheckOut(a) \/ AuthorizePrepare(a) \/ AuthorizeRemoval(a)
         \/ VerifyBaseline(a) \/ DropSource(a)
  PROVE  LedgerInv'
<1>1. LedgerTypes' BY TypeExecute DEF LedgerInv, Execute, ExecuteStep
<1>2. UNCHANGED <<now, receipt, lease, claim, runtime>>
  BY DEF ExecuteBegin, CleanupBegin, ExecuteCrash, ProjectOos, ProjectWgcf,
         ResumeClaim, CheckOut, AuthorizePrepare, AuthorizeRemoval, VerifyBaseline,
         DropSource, ledgerVars
<1>3. \A b \in Auth : HoldsLease(b)' <=> HoldsLease(b)
  BY <1>2 DEF HoldsLease
<1>4. StepInv'
  <2> USE <1>2, <1>3, MatchingLease DEF LedgerInv, StepInv, LedgerTypes, ExecTo, Deny
  <2>1. CASE ExecuteBegin(a) BY <2>1 DEF ExecuteBegin
  <2>2. CASE CleanupBegin(a) BY <2>2 DEF CleanupBegin, ClaimFollowsConsumption
  <2>3. CASE ExecuteCrash(a) BY <2>3 DEF ExecuteCrash
  <2>4. CASE ProjectOos(a) BY <2>4 DEF ProjectOos
  <2>5. CASE ProjectWgcf(a) BY <2>5 DEF ProjectWgcf
  <2>6. CASE ResumeClaim(a) BY <2>6 DEF ResumeClaim
  <2>7. CASE CheckOut(a) BY <2>7 DEF CheckOut
  <2>8. CASE AuthorizePrepare(a) BY <2>8 DEF AuthorizePrepare
  <2>9. CASE AuthorizeRemoval(a) BY <2>9 DEF AuthorizeRemoval, RemovalAuthorized
  <2>10. CASE VerifyBaseline(a) BY <2>10 DEF VerifyBaseline, BaselineRestored
  <2>11. CASE DropSource(a) BY <2>11 DEF DropSource
  <2> QED BY <2>1, <2>2, <2>3, <2>4, <2>5, <2>6, <2>7, <2>8, <2>9, <2>10, <2>11
<1> QED BY <1>1, <1>2, <1>4, FilesKept DEF LedgerInv, LedgerTypes

\* A new lease is of the scope that was free, or is the one already there.
LEMMA LedgerAcquire ==
  ASSUME LedgerInv, NEW a \in Auth, AcquireLease(a)
  PROVE  LedgerInv'
<1> USE DEF LedgerInv
<1>1. LedgerTypes' BY TypeExecute DEF Execute, ExecuteStep
<1>2. UNCHANGED <<now, receipt, claim, runtime>> /\ Unclaimed(a) /\ exec[a] = "contexts"
  BY DEF AcquireLease
<1>3. CASE Deny(a) /\ UNCHANGED lease
  <2>1. StepInv'
    BY <1>2, <1>3 DEF StepInv, HoldsLease, Deny, ExecTo, LedgerTypes
  <2> QED BY <1>1, <1>2, <1>3, <2>1, FilesKept DEF LedgerTypes
<1>4. CASE /\ lease[ScopeOf[a]] # Absent /\ lease[ScopeOf[a]].auth = a
           /\ stamp' = [stamp EXCEPT ![a] = lease[ScopeOf[a]].at]
           /\ ExecTo(a, "leased") /\ UNCHANGED lease
  <2>1. StepInv'
    BY <1>2, <1>4 DEF StepInv, HoldsLease, ExecTo, Unclaimed, LedgerTypes
  <2> QED BY <1>1, <1>2, <1>4, <2>1, FilesKept DEF LedgerTypes
<1>5. CASE ScopeIsFree(a) /\ KeepsReserve(a, now) /\ stamp' = [stamp EXCEPT ![a] = now]
           /\ lease' = [lease EXCEPT ![ScopeOf[a]] = LeaseOf(a)]
           /\ ExecTo(a, "leased")
  <2>1. /\ lease'[ScopeOf[a]].auth = a /\ lease'[ScopeOf[a]].at = now
        /\ lease'[ScopeOf[a]] # Absent
        /\ \A s \in Scope : s # ScopeOf[a] => lease'[s] = lease[s]
    <3>1. LeaseOf(a) \in Lease /\ LeaseOf(a).auth = a /\ LeaseOf(a).at = now
      BY DEF LeaseOf, Lease, LedgerTypes
    <3>2. LeaseOf(a) # Absent BY <3>1, AbsentAssumption
    <3> QED BY <1>5, <3>1, <3>2, ScopeAssumption DEF LedgerTypes
  <2>2. \A b \in Auth : HoldsLease(b) => ScopeOf[b] # ScopeOf[a]
    BY <1>5, ScopeAssumption, AbsentAssumption DEF HoldsLease, ScopeIsFree, LedgerTypes, Lease
  <2>3. \A b \in Auth : HoldsLease(b) => HoldsLease(b)'
    BY <1>2, <2>1, <2>2, ScopeAssumption DEF HoldsLease
  <2>4. \A b \in Auth : HoldsLease(b)' => HoldsLease(b)
    BY <1>2, <2>1, ScopeAssumption DEF HoldsLease, Unclaimed
  <2>5. \A b \in Auth : exec[b] = "leased" => ScopeOf[b] # ScopeOf[a] /\ b # a
    BY <1>2, <1>5 DEF StepInv, ScopeIsFree
  <2>6. exec' = [exec EXCEPT ![a] = "leased"] /\ stamp' = [stamp EXCEPT ![a] = now]
    BY <1>5 DEF ExecTo
  <2>7. StepInv'
    <3> SUFFICES ASSUME NEW b \in Auth
                 PROVE  /\ exec'[b] # "idle" => receipt'[b] # Absent
                        /\ exec'[b] = "leased" =>
                             /\ claim'[b] = Absent
                             /\ lease'[ScopeOf[b]] # Absent
                             /\ lease'[ScopeOf[b]].auth = b
                             /\ lease'[ScopeOf[b]].at = stamp'[b]
                        /\ exec'[b] \in {"claimed", "checkedOut", "authorized", "removing"}
                             => HoldsLease(b)'
                        /\ exec'[b] = "releasing" /\ HoldsLease(b)'
                             => runtime'[ScopeOf[b]] = Absent
      BY DEF StepInv
    <3>1. CASE b = a
      <4>1. exec'[a] = "leased" /\ stamp'[a] = now BY <2>6 DEF LedgerTypes
      <4>2. receipt[a] # Absent BY <1>2 DEF StepInv
      <4> QED BY <1>2, <2>1, <3>1, <4>1, <4>2 DEF Unclaimed
    <3>2. CASE b # a
      <4>1. exec'[b] = exec[b] /\ stamp'[b] = stamp[b] BY <2>6, <3>2 DEF LedgerTypes
      <4>2. exec[b] = "leased" => lease'[ScopeOf[b]] = lease[ScopeOf[b]]
        BY <2>1, <2>5, ScopeAssumption
      <4> QED BY <1>2, <2>3, <2>4, <4>1, <4>2 DEF StepInv
    <3> QED BY <3>1, <3>2
  <2>8. now + Reserve < Expires[a] /\ receipt[a] # Absent /\ receipt[a] <= now
    <3>1. receipt[a] # Absent /\ receipt[a] <= now BY <1>2 DEF StepInv, ReceiptInv
    <3>2. now \in Nat /\ Expires[a] \in Nat BY WindowAssumption DEF LedgerTypes
    <3> QED BY <1>5, <3>1, <3>2, WindowAssumption DEF KeepsReserve
  <2>9. LeaseInv'
    BY <1>2, <2>1, <2>8 DEF LeaseInv, Unclaimed
  <2>10. RuntimeUnderLease'
    BY <1>2, <2>1, <2>2, ScopeAssumption DEF RuntimeUnderLease, HoldsLease, LedgerTypes
  <2>11. ReceiptInv' /\ ClaimFollowsConsumption'
    BY <1>2 DEF ReceiptInv, ClaimFollowsConsumption
  <2> QED BY <1>1, <2>7, <2>9, <2>10, <2>11
<1> QED BY <1>3, <1>4, <1>5 DEF AcquireLease

\* The claim binds the lease that the same command wrote or resumed.
LEMMA LedgerClaim ==
  ASSUME LedgerInv, NEW a \in Auth, WriteClaim(a)
  PROVE  LedgerInv'
<1> USE DEF LedgerInv
<1>1. LedgerTypes' BY TypeExecute DEF Execute, ExecuteStep
<1>2. /\ UNCHANGED <<now, receipt, lease, runtime>>
      /\ exec[a] = "leased" /\ exec' = [exec EXCEPT ![a] = "claimed"]
      /\ claim[a] = Absent /\ claim' = [claim EXCEPT ![a] = stamp[a]]
      /\ stamp' = [stamp EXCEPT ![a] = Absent]
  BY DEF WriteClaim, ExecTo
<1>3. lease[ScopeOf[a]] \in Lease /\ lease[ScopeOf[a]] = [auth |-> a, at |-> stamp[a]]
  <2>1. /\ lease[ScopeOf[a]] \in Lease \cup {Absent} /\ lease[ScopeOf[a]] # Absent
        /\ lease[ScopeOf[a]].auth = a /\ lease[ScopeOf[a]].at = stamp[a]
    BY <1>2, ScopeAssumption DEF StepInv, LedgerTypes
  <2> QED BY <2>1 DEF Lease
<1>4. HoldsLease(a)'
  BY <1>2, <1>3, AbsentAssumption DEF HoldsLease, LedgerTypes, Lease
<1>5. \A b \in Auth : b # a => (HoldsLease(b)' <=> HoldsLease(b))
  BY <1>2 DEF HoldsLease, LedgerTypes
<1>6. StepInv'
  BY <1>2, <1>4, <1>5 DEF StepInv, LedgerTypes
<1>7. LeaseInv'
  BY <1>2, <1>3, ScopeAssumption DEF LeaseInv, LedgerTypes, Lease
<1>8. ClaimFollowsConsumption'
  <2>1. /\ receipt[a] # Absent /\ receipt[a] <= stamp[a]
        /\ stamp[a] + Reserve < Expires[a]
    BY <1>3, ScopeAssumption, AbsentAssumption DEF LeaseInv
  <2>2. Issued[a] <= receipt[a] BY <2>1 DEF ReceiptInv
  <2> QED BY <1>2, <2>1, <2>2 DEF ClaimFollowsConsumption, LedgerTypes
<1>9. RuntimeUnderLease'
  BY <1>2, <1>4, <1>5, AbsentAssumption DEF RuntimeUnderLease, LedgerTypes
<1>10. ReceiptInv' BY <1>2 DEF ReceiptInv
<1> QED BY <1>1, <1>6, <1>7, <1>8, <1>9, <1>10

\* A runtime is installed and removed only under the lease of its scope.
LEMMA LedgerRuntime ==
  ASSUME LedgerInv, NEW a \in Auth, InstallRuntime(a) \/ RemoveRuntime(a)
  PROVE  LedgerInv'
<1> USE DEF LedgerInv
<1>1. LedgerTypes' BY TypeExecute DEF Execute, ExecuteStep
<1>2. UNCHANGED <<now, receipt, lease, claim, stamp>>
  BY DEF InstallRuntime, RemoveRuntime, ledgerVars
<1>3. \A b \in Auth : HoldsLease(b)' <=> HoldsLease(b)
  BY <1>2 DEF HoldsLease
<1>4. HoldsLease(a) /\ exec[a] \in {"authorized", "removing"}
  BY DEF InstallRuntime, RemoveRuntime, StepInv
<1>5. \A s \in Scope : runtime'[s] # runtime[s] => s = ScopeOf[a] /\ runtime'[s] \in {a, Absent}
  BY ScopeAssumption DEF InstallRuntime, RemoveRuntime, LedgerTypes
<1>6. RuntimeUnderLease'
  BY <1>2, <1>4, <1>5, AbsentAssumption DEF RuntimeUnderLease, HoldsLease, LedgerTypes
<1>7. \A b \in Auth : exec[b] = "releasing" /\ HoldsLease(b) => ScopeOf[b] # ScopeOf[a]
  BY <1>4, OneHolder
<1>8. StepInv'
  BY <1>2, <1>3, <1>5, <1>7, ScopeAssumption
  DEF StepInv, InstallRuntime, RemoveRuntime, ExecTo, LedgerTypes
<1>9. ReceiptInv' /\ LeaseInv' /\ ClaimFollowsConsumption'
  BY <1>2 DEF ReceiptInv, LeaseInv, ClaimFollowsConsumption
<1> QED BY <1>1, <1>6, <1>8, <1>9

\* The lease goes only when the scope is empty.
LEMMA LedgerRelease ==
  ASSUME LedgerInv, NEW a \in Auth, ReleaseLease(a)
  PROVE  LedgerInv'
<1> USE DEF LedgerInv
<1>1. LedgerTypes' BY TypeExecute DEF Execute, ExecuteStep
<1>2. UNCHANGED <<now, receipt, claim, runtime, stamp>>
  BY DEF ReleaseLease
<1>3. CASE UNCHANGED lease
  <2>1. StepInv'
    BY <1>2, <1>3 DEF StepInv, HoldsLease, ReleaseLease, ExecTo, LedgerTypes
  <2> QED BY <1>1, <1>2, <1>3, <2>1, FilesKept DEF LedgerTypes
<1>4. CASE /\ HoldsLease(a)
           /\ lease' = [lease EXCEPT ![ScopeOf[a]] = Absent]
           /\ exec' = [exec EXCEPT ![a] = "released"]
  <2>1. exec[a] = "releasing" /\ runtime[ScopeOf[a]] = Absent
    BY <1>4 DEF ReleaseLease, StepInv
  <2>2. \A b \in Auth : b # a /\ HoldsLease(b) => HoldsLease(b)'
    BY <1>2, <1>4, OneHolder, ScopeAssumption DEF HoldsLease, LedgerTypes
  <2>3. \A b \in Auth : HoldsLease(b)' => HoldsLease(b)
    BY <1>2, <1>4, ScopeAssumption, AbsentAssumption DEF HoldsLease, LedgerTypes, Lease
  <2>4. \A b \in Auth : exec[b] = "leased" => ScopeOf[b] # ScopeOf[a]
    <3>1. lease[ScopeOf[a]].auth = a BY <1>4 DEF HoldsLease
    <3> QED BY <2>1, <3>1 DEF StepInv
  <2>5. StepInv'
    BY <1>2, <1>4, <2>1, <2>2, <2>3, <2>4, ScopeAssumption DEF StepInv, LedgerTypes
  <2>6. LeaseInv'
    BY <1>2, <1>4, ScopeAssumption DEF LeaseInv, LedgerTypes
  <2>7. RuntimeUnderLease'
    BY <1>2, <2>1, <2>2 DEF RuntimeUnderLease, HoldsLease, LedgerTypes
  <2>8. ReceiptInv' /\ ClaimFollowsConsumption'
    BY <1>2 DEF ReceiptInv, ClaimFollowsConsumption
  <2> QED BY <1>1, <2>5, <2>6, <2>7, <2>8
<1> QED BY <1>3, <1>4, MatchingLease DEF ReleaseLease, ExecTo

\* Every step keeps the ledger's invariant.
LEMMA LedgerStep == ASSUME LedgerInv, [LedgerNext]_allVars PROVE LedgerInv'
<1>1. CASE Tick
  <2>1. StepInv' BY <1>1 DEF Tick, LedgerInv, StepInv, HoldsLease, ledgerVars
  <2>2. LedgerTypes' BY TypeStep DEF LedgerInv
  <2> QED BY <1>1, <2>1, <2>2, FilesKept DEF Tick, ledgerVars, LedgerInv, LedgerTypes
<1>2. CASE UNCHANGED allVars
  <2>1. StepInv' BY <1>2 DEF allVars, LedgerInv, StepInv, HoldsLease, ledgerVars
  <2>2. LedgerTypes' BY TypeStep DEF LedgerInv
  <2> QED BY <1>2, <2>1, <2>2, FilesKept DEF allVars, ledgerVars, LedgerInv, LedgerTypes
<1>3. ASSUME NEW a \in Auth, Execute(a) PROVE LedgerInv'
  BY <1>3, LedgerQuiet, LedgerAcquire, LedgerClaim, LedgerRuntime, LedgerRelease
  DEF Execute, ExecuteStep
<1> QED BY <1>1, <1>2, <1>3, LedgerSnapshot DEF LedgerNext

\* The ledger's invariant always holds.
LEMMA LedgerAlways == LedgerSpec => []LedgerInv
<1>1. LedgerInit => LedgerInv BY LedgerStarts
<1>2. LedgerInv /\ [LedgerNext]_allVars => LedgerInv' BY LedgerStep
<1> QED BY <1>1, <1>2, PTL DEF LedgerSpec

-----------------------------------------------------------------------------
(* What follows from it.                                                   *)

\* No claim without a consumption before it, and always with the reserve left.
THEOREM ClaimsFollowConsumption == LedgerSpec => []ClaimFollowsConsumption
<1>1. LedgerInv => ClaimFollowsConsumption BY DEF LedgerInv
<1> QED BY <1>1, LedgerAlways, PTL

\* A runtime in a scope is always covered by the lease of its permit.
THEOREM RuntimesUnderLease == LedgerSpec => []RuntimeUnderLease
<1>1. LedgerInv => RuntimeUnderLease BY DEF LedgerInv
<1> QED BY <1>1, LedgerAlways, PTL

\* A script that mutates a scope always does so under the scope's lease.
THEOREM MutationsUnderLease == LedgerSpec => []MutationUnderLease
<1>1. LedgerInv => MutationUnderLease
  BY DEF LedgerInv, StepInv, MutationUnderLease, Mutating
<1> QED BY <1>1, LedgerAlways, PTL

\* What a scope can rely on at any time, in one: types, claims, runtimes and
\* running scripts (claim_execution, validate_execution_scope_lease).
THEOREM LeaseAlwaysCovers == LedgerSpec => []LeaseCovers
<1>1. LedgerTypes /\ ClaimFollowsConsumption /\ RuntimeUnderLease /\ MutationUnderLease
        => LeaseCovers
  BY DEF LeaseCovers
<1> QED
  BY <1>1, LedgerTypeCorrect, ClaimsFollowConsumption, RuntimesUnderLease, MutationsUnderLease, PTL

\* A runtime leaves a scope only by the removal of its own execution.
THEOREM NoForeignRemovals == LedgerSpec => NoForeignRemoval
<1>1. ASSUME LedgerInv, [LedgerNext]_allVars, NEW s \in Scope,
             runtime[s] # Absent, runtime'[s] # runtime[s]
      PROVE  runtime'[s] = Absent /\ exec[runtime[s]] = "removing"
  <2>1. PICK a \in Auth : InstallRuntime(a) \/ RemoveRuntime(a)
    BY <1>1 DEF LedgerNext, allVars, ledgerVars, runVars, Tick, Snapshot, SnapshotBegin,
       SnapshotConsume, SnapshotInspect, SnapshotRemove, SnapshotMkdir,
       SnapshotCommit, SnapshotCrash, Execute, ExecuteStep, ExecuteBegin,
       CleanupBegin, ExecuteCrash, ProjectOos, ProjectWgcf, ResumeClaim,
       AcquireLease, WriteClaim, CheckOut, AuthorizePrepare, AuthorizeRemoval,
       VerifyBaseline, ReleaseLease, DropSource
  <2>2. RemoveRuntime(a) /\ s = ScopeOf[a] /\ runtime'[s] = Absent
    BY <1>1, <2>1, ScopeAssumption DEF InstallRuntime, RemoveRuntime, LedgerInv, LedgerTypes
  <2>3. HoldsLease(a) /\ exec[a] = "removing"
    BY <1>1, <2>2 DEF RemoveRuntime, LedgerInv, StepInv
  <2>4. runtime[s] \in Auth /\ HoldsLease(runtime[s]) /\ ScopeOf[runtime[s]] = s
    BY <1>1 DEF LedgerInv, LedgerTypes, RuntimeUnderLease
  <2>5. runtime[s] = a BY <2>2, <2>3, <2>4, OneHolder
  <2> QED BY <2>2, <2>3, <2>5
<1>2. LedgerInv /\ [LedgerNext]_allVars =>
        [\A s \in Scope : runtime[s] # Absent /\ runtime'[s] # runtime[s] =>
           runtime'[s] = Absent /\ exec[runtime[s]] = "removing"]_allVars
  BY <1>1
<1> QED BY <1>2, LedgerAlways, PTL DEF LedgerSpec, NoForeignRemoval

-----------------------------------------------------------------------------
(* The ledger implements the single-use permit.                            *)

\* Where a permit stands depends on the ledger files alone.
LEMMA SameFilesSamePermit ==
  ASSUME UNCHANGED <<receipt, lease, claim, runtime>>
  PROVE  UNCHANGED Permit!vars
BY DEF Permit!vars, PermitOf, LeasedTo, HoldsLease

\* Only these steps touch the ledger files or a runtime.
LEMMA FileSteps ==
  ASSUME [LedgerNext]_allVars, ~UNCHANGED <<receipt, lease, claim, runtime>>
  PROVE  \E a \in Auth :
           \/ SnapshotConsume(a) \/ AcquireLease(a) \/ WriteClaim(a)
           \/ InstallRuntime(a) \/ RemoveRuntime(a) \/ ReleaseLease(a)
BY DEF LedgerNext, allVars, ledgerVars, runVars, Tick, Snapshot, SnapshotBegin,
   SnapshotInspect, SnapshotRemove, SnapshotMkdir, SnapshotCommit, SnapshotCrash,
   Execute, ExecuteStep, ExecuteBegin, CleanupBegin, ExecuteCrash, ProjectOos,
   ProjectWgcf, ResumeClaim, CheckOut, AuthorizePrepare, AuthorizeRemoval,
   VerifyBaseline, DropSource

\* One permit moves: the others keep their place in the mapping.
LEMMA OnePermitMoves ==
  ASSUME NEW a \in Auth, NEW to, PermitOf(a)' = to,
         \A b \in Auth : b # a => PermitOf(b)' = PermitOf(b)
  PROVE  [b \in Auth |-> PermitOf(b)]' =
           [[b \in Auth |-> PermitOf(b)] EXCEPT ![a] = to]
OBVIOUS

\* A step that writes a receipt is a consumption of the abstract permit.
LEMMA ConsumeMaps ==
  ASSUME LedgerInv, NEW a \in Auth, SnapshotConsume(a), receipt' # receipt
  PROVE  Permit!Consume(a)
<1>1. receipt[a] = Absent /\ receipt' = [receipt EXCEPT ![a] = now]
  BY DEF SnapshotConsume
<1>2. UNCHANGED <<lease, claim, runtime>> BY DEF SnapshotConsume
<1>3. claim[a] = Absent BY <1>1 DEF LedgerInv, ClaimFollowsConsumption
<1>4. ~LeasedTo(a) BY <1>1, ScopeAssumption DEF LedgerInv, LeaseInv, LeasedTo
<1>5. PermitOf(a) = "issued" BY <1>1 DEF PermitOf
<1>6. PermitOf(a)' = "consumed"
  BY <1>1, <1>2, <1>3, <1>4, AbsentAssumption DEF PermitOf, LeasedTo, LedgerInv, LedgerTypes
<1>7. \A b \in Auth : b # a => PermitOf(b)' = PermitOf(b)
  BY <1>1, <1>2 DEF PermitOf, LeasedTo, HoldsLease, LedgerInv, LedgerTypes
<1> QED BY <1>2, <1>5, <1>6, <1>7, OnePermitMoves DEF Permit!Consume, Permit!Advance

\* A step that writes a lease is an acquisition of the scope.
LEMMA AcquireMaps ==
  ASSUME LedgerInv, NEW a \in Auth, AcquireLease(a), lease' # lease
  PROVE  Permit!LeaseScope(a)
<1>1. /\ lease[ScopeOf[a]] = Absent /\ claim[a] = Absent /\ exec[a] = "contexts"
      /\ lease' = [lease EXCEPT ![ScopeOf[a]] = [auth |-> a, at |-> now]]
      /\ UNCHANGED <<receipt, claim, runtime>>
  BY DEF AcquireLease, ScopeIsFree, Unclaimed, LeaseOf
<1>2. receipt[a] # Absent BY <1>1 DEF LedgerInv, StepInv
<1>3. /\ lease'[ScopeOf[a]].auth = a /\ lease'[ScopeOf[a]] # Absent
      /\ \A s \in Scope : s # ScopeOf[a] => lease'[s] = lease[s]
  BY <1>1, ScopeAssumption, AbsentAssumption DEF LedgerInv, LedgerTypes, Lease
<1>4. PermitOf(a) = "consumed" /\ PermitOf(a)' = "leased"
  BY <1>1, <1>2, <1>3 DEF PermitOf, LeasedTo
<1>5. \A b \in Auth : ScopeOf[b] = ScopeOf[a] => ~LeasedTo(b) /\ ~HoldsLease(b)
  BY <1>1, AbsentAssumption DEF LeasedTo, HoldsLease, LedgerInv, LedgerTypes, Lease
<1>6. \A b \in Auth : ScopeOf[b] = ScopeOf[a] => PermitOf(b) \notin {"leased", "claimed"}
  BY <1>5 DEF PermitOf
<1>7. \A b \in Auth : b # a => PermitOf(b)' = PermitOf(b)
  <2> TAKE b \in Auth
  <2> HAVE b # a
  <2>1. CASE ScopeOf[b] # ScopeOf[a]
    BY <1>1, <1>3, <2>1, ScopeAssumption DEF PermitOf, LeasedTo, HoldsLease
  <2>2. CASE ScopeOf[b] = ScopeOf[a]
    <3>1. ~LeasedTo(b)' /\ ~HoldsLease(b)'
      BY <1>1, <1>3, <2>2 DEF LeasedTo, HoldsLease
    <3> QED BY <1>1, <1>5, <2>2, <3>1 DEF PermitOf
  <2> QED BY <2>1, <2>2
<1> QED BY <1>1, <1>4, <1>6, <1>7, OnePermitMoves
        DEF Permit!LeaseScope, Permit!Advance, Permit!Holding

\* A step that writes a claim claims the abstract permit.
LEMMA ClaimMaps ==
  ASSUME LedgerInv, NEW a \in Auth, WriteClaim(a)
  PROVE  Permit!Claim(a)
<1>1. /\ exec[a] = "leased" /\ claim[a] = Absent
      /\ claim' = [claim EXCEPT ![a] = stamp[a]] /\ exec' = [exec EXCEPT ![a] = "claimed"]
      /\ UNCHANGED <<receipt, lease, runtime>>
  BY DEF WriteClaim, ExecTo
<1>2. LeasedTo(a) /\ receipt[a] # Absent BY <1>1 DEF LedgerInv, StepInv, LeasedTo
<1>3. LedgerInv' BY LedgerClaim
<1>4. HoldsLease(a)' /\ claim'[a] # Absent
  <2>1. exec'[a] = "claimed" BY <1>1 DEF LedgerInv, LedgerTypes
  <2>2. HoldsLease(a)' BY <1>3, <2>1 DEF LedgerInv, StepInv
  <2> QED BY <2>2 DEF HoldsLease
<1>5. PermitOf(a) = "leased" /\ PermitOf(a)' = "claimed"
  BY <1>1, <1>2, <1>4 DEF PermitOf
<1>6. \A b \in Auth : b # a => PermitOf(b)' = PermitOf(b)
  BY <1>1 DEF PermitOf, LeasedTo, HoldsLease, LedgerInv, LedgerTypes
<1> QED BY <1>1, <1>5, <1>6, OnePermitMoves DEF Permit!Claim, Permit!Advance

\* A step that removes the lease releases the abstract scope.
LEMMA ReleaseMaps ==
  ASSUME LedgerInv, NEW a \in Auth, ReleaseLease(a), lease' # lease
  PROVE  Permit!Spend(a)
<1>1. /\ exec[a] = "releasing" /\ HoldsLease(a)
      /\ lease' = [lease EXCEPT ![ScopeOf[a]] = Absent]
      /\ UNCHANGED <<receipt, claim, runtime>>
  BY MatchingLease DEF ReleaseLease, LedgerInv
<1>2. receipt[a] # Absent /\ claim[a] # Absent /\ runtime[ScopeOf[a]] = Absent
  BY <1>1 DEF LedgerInv, StepInv, HoldsLease
<1>3. /\ lease'[ScopeOf[a]] = Absent
      /\ \A s \in Scope : s # ScopeOf[a] => lease'[s] = lease[s]
  BY <1>1, ScopeAssumption DEF LedgerInv, LedgerTypes
<1>4. ~HoldsLease(a)' BY <1>3, AbsentAssumption, <1>1 DEF HoldsLease, LedgerInv, LedgerTypes, Lease
<1>5. PermitOf(a) = "claimed" /\ PermitOf(a)' = "spent"
  BY <1>1, <1>2, <1>4 DEF PermitOf
<1>6. \A b \in Auth : b # a => PermitOf(b)' = PermitOf(b)
  <2> TAKE b \in Auth
  <2> HAVE b # a
  <2>1. CASE ScopeOf[b] # ScopeOf[a]
    BY <1>1, <1>3, <2>1, ScopeAssumption DEF PermitOf, LeasedTo, HoldsLease
  <2>2. CASE ScopeOf[b] = ScopeOf[a]
    <3>1. ~LeasedTo(b) /\ ~HoldsLease(b) BY <1>1, <2>2 DEF LeasedTo, HoldsLease
    <3>2. ~LeasedTo(b)' /\ ~HoldsLease(b)'
      BY <1>1, <1>3, <2>2, AbsentAssumption DEF LeasedTo, HoldsLease, LedgerInv, LedgerTypes, Lease
    <3> QED BY <1>1, <3>1, <3>2 DEF PermitOf
  <2> QED BY <2>1, <2>2
<1> QED BY <1>1, <1>2, <1>5, <1>6, OnePermitMoves DEF Permit!Spend, Permit!Advance

\* Installation and removal of the runtime are the abstract ones.
LEMMA RuntimeMaps ==
  ASSUME LedgerInv, NEW a \in Auth, InstallRuntime(a) \/ RemoveRuntime(a),
         runtime' # runtime
  PROVE  Permit!Install(a) \/ Permit!Remove(a)
<1>1. HoldsLease(a) /\ receipt[a] # Absent
  BY DEF InstallRuntime, RemoveRuntime, LedgerInv, StepInv
<1>2. PermitOf(a) = "claimed" BY <1>1 DEF PermitOf, HoldsLease
<1>3. UNCHANGED <<receipt, lease, claim>>
  BY DEF InstallRuntime, RemoveRuntime, ledgerVars
<1>4. [b \in Auth |-> PermitOf(b)]' = [b \in Auth |-> PermitOf(b)]
  BY <1>3 DEF PermitOf, LeasedTo, HoldsLease
<1>5. CASE InstallRuntime(a)
  BY <1>2, <1>4, <1>5 DEF InstallRuntime, Permit!Install
<1>6. CASE RemoveRuntime(a)
  <2>1. runtime' = [runtime EXCEPT ![ScopeOf[a]] = Absent]
    BY <1>6 DEF RemoveRuntime
  <2>2. runtime[ScopeOf[a]] # Absent
    BY <2>1, ScopeAssumption DEF LedgerInv, LedgerTypes
  <2>3. runtime[ScopeOf[a]] = a
    BY <1>1, <2>2, OneHolder, ScopeAssumption DEF LedgerInv, LedgerTypes, RuntimeUnderLease
  <2> QED BY <1>2, <1>4, <2>1, <2>3 DEF Permit!Remove
<1> QED BY <1>5, <1>6

\* The snapshot and execute commands implement the single-use permit: their
\* files, read together, only ever move a permit forward and one scope at a time.
THEOREM LedgerImplementsPermit == LedgerSpec => ImplementsPermit
<1>1. LedgerInit => Permit!Init
  BY DEF LedgerInit, Permit!Init, PermitOf
<1>2. ASSUME LedgerInv, [LedgerNext]_allVars PROVE [Permit!Next]_(Permit!vars)
  <2>1. CASE UNCHANGED <<receipt, lease, claim, runtime>>
    BY <2>1, SameFilesSamePermit
  <2>2. CASE ~UNCHANGED <<receipt, lease, claim, runtime>>
    <3>1. PICK a \in Auth : \/ SnapshotConsume(a) \/ AcquireLease(a) \/ WriteClaim(a)
                            \/ InstallRuntime(a) \/ RemoveRuntime(a) \/ ReleaseLease(a)
      BY <1>2, <2>2, FileSteps
    <3>2. CASE SnapshotConsume(a)
      BY <1>2, <2>2, <3>2, ConsumeMaps DEF SnapshotConsume, Permit!Next
    <3>3. CASE AcquireLease(a)
      BY <1>2, <2>2, <3>3, AcquireMaps DEF AcquireLease, Permit!Next
    <3>4. CASE WriteClaim(a)
      BY <1>2, <3>4, ClaimMaps DEF Permit!Next
    <3>5. CASE InstallRuntime(a) \/ RemoveRuntime(a)
      BY <1>2, <2>2, <3>5, RuntimeMaps
      DEF InstallRuntime, RemoveRuntime, ledgerVars, Permit!Next
    <3>6. CASE ReleaseLease(a)
      BY <1>2, <2>2, <3>6, ReleaseMaps DEF ReleaseLease, Permit!Next
    <3> QED BY <3>1, <3>2, <3>3, <3>4, <3>5, <3>6
  <2> QED BY <2>1, <2>2
<1> QED BY <1>1, <1>2, LedgerAlways, PTL DEF LedgerSpec, ImplementsPermit, Permit!Spec

-----------------------------------------------------------------------------
\* A spent permit never regains its scope, whatever is retried.
THEOREM SpentStaysSpent == LedgerSpec => SpentForever
<1>1. ASSUME LedgerInv, LedgerInv', [LedgerNext]_allVars, NEW a \in Auth, Spent(a)
      PROVE  Spent(a)' /\ runtime'[ScopeOf[a]] # a
  <2>1. claim[a] # Absent /\ ~HoldsLease(a) BY <1>1 DEF Spent
  <2>2. Spent(a)'
    <3>1. CASE UNCHANGED <<receipt, lease, claim, runtime>>
      BY <2>1, <3>1 DEF Spent, HoldsLease
    <3>2. CASE ~UNCHANGED <<receipt, lease, claim, runtime>>
      <4>1. PICK b \in Auth : \/ SnapshotConsume(b) \/ AcquireLease(b) \/ WriteClaim(b)
                              \/ InstallRuntime(b) \/ RemoveRuntime(b) \/ ReleaseLease(b)
        BY <1>1, <3>2, FileSteps
      <4>2. CASE UNCHANGED <<lease, claim>>
        BY <2>1, <4>2 DEF Spent, HoldsLease
      <4>3. CASE AcquireLease(b)
        <5>1. UNCHANGED claim /\ b # a BY <2>1, <4>3 DEF AcquireLease, Unclaimed
        <5>2. CASE UNCHANGED lease BY <4>2, <5>1, <5>2
        <5>3. CASE lease' = [lease EXCEPT ![ScopeOf[b]] = [auth |-> b, at |-> now]]
          <6>1. CASE ScopeOf[b] = ScopeOf[a]
            <7>1. lease'[ScopeOf[a]].auth = b
              BY <1>1, <5>3, <6>1, ScopeAssumption DEF LedgerInv, LedgerTypes
            <7> QED BY <2>1, <5>1, <7>1 DEF Spent, HoldsLease
          <6>2. CASE ScopeOf[b] # ScopeOf[a]
            BY <1>1, <2>1, <5>1, <5>3, <6>2, ScopeAssumption
            DEF Spent, HoldsLease, LedgerInv, LedgerTypes
          <6> QED BY <6>1, <6>2
        <5> QED BY <4>3, <5>2, <5>3 DEF AcquireLease, LeaseOf
      <4>4. CASE WriteClaim(b)
        <5>1. /\ b # a /\ UNCHANGED lease
              /\ claim' = [claim EXCEPT ![b] = stamp[b]]
          BY <1>1, <2>1, <4>4 DEF WriteClaim
        <5>2. claim'[a] = claim[a] BY <1>1, <5>1 DEF LedgerInv, LedgerTypes
        <5> QED BY <2>1, <5>1, <5>2 DEF Spent, HoldsLease
      <4>5. CASE ReleaseLease(b) /\ lease' = [lease EXCEPT ![ScopeOf[b]] = Absent]
        <5>1. UNCHANGED claim BY <4>5 DEF ReleaseLease
        <5>2. lease'[ScopeOf[a]] \in {lease[ScopeOf[a]], Absent}
          BY <1>1, <4>5, ScopeAssumption DEF LedgerInv, LedgerTypes
        <5>3. [auth |-> a, at |-> claim[a]] # Absent
          BY <1>1, <2>1, AbsentAssumption DEF LedgerInv, LedgerTypes, Lease
        <5> QED BY <2>1, <5>1, <5>2, <5>3 DEF Spent, HoldsLease
      <4> QED BY <4>1, <4>2, <4>3, <4>4, <4>5
              DEF SnapshotConsume, InstallRuntime, RemoveRuntime, ReleaseLease, ledgerVars
    <3> QED BY <3>1, <3>2
  <2>3. runtime'[ScopeOf[a]] # a
    BY <1>1, <2>2, ScopeAssumption, AbsentAssumption
    DEF LedgerInv, RuntimeUnderLease, Spent, HoldsLease, LedgerTypes
  <2> QED BY <2>2, <2>3
<1>2. LedgerInv /\ LedgerInv' /\ [LedgerNext]_allVars =>
        [\A a \in Auth : Spent(a) => Spent(a)' /\ runtime'[ScopeOf[a]] # a]_allVars
  BY <1>1
<1> QED BY <1>2, LedgerAlways, PTL DEF LedgerSpec, SpentForever

(***************************************************************************)
(* The release requests.                                                   *)
(***************************************************************************)
-----------------------------------------------------------------------------
(* The invariant.                                                          *)

\* What a record says is true, the one on disk as well as the copy of a call.
Sound(rec) ==
  /\ rec.phase = "prepared" => Started = {} /\ rec.run_id = None
  /\ rec.receipt = [outcome |-> "failed", effect |-> "none"] => Started = {}
  /\ rec.receipt # None => rec.state \in Terminal
  /\ rec.phase = "applied" => review = "merged"
  /\ rec.phase = "no-change" => rec.run_id \in Run /\ run[rec.run_id] = "success"

\* The steps of a call that reconciles.
Reconciling == {"run", "reviews", "effect", "branch", "main", "cancel"}

\* A call works on a copy of an open record, which is marked before the post
\* and knows the run of the record after it.
CallSound ==
  /\ call.at # "idle" /\ record # None /\ call.copy \in Record
  /\ Sound(call.copy)
  /\ record.receipt = None
  /\ record.run_id # None => call.copy.run_id = record.run_id
  /\ record.phase = "prepared" <=> call.at = "dispatch"
  /\ call.copy.phase = "prepared" <=> call.at = "dispatch"
  /\ call.at # "answered" => call.copy.receipt = None
  /\ call.at = "post" =>
       record.phase = "dispatching" /\ record.run_id = None /\ Started = {}
  /\ call.at = "dispatch" => call.key = None

\* What a reconciliation has learnt from a run that ended.
RunRead ==
  /\ call.at \in {"reviews", "effect", "branch", "main"} =>
       /\ call.conclusion \in Conclusion
       /\ call.copy.run_id \in Run /\ run[call.copy.run_id] = call.conclusion
  /\ call.at = "main" => call.conclusion = "success"

\* A run is started once, and nobody but a run that ended makes a review or a branch.
GithubSound ==
  /\ \A q, r \in Started : q = r
  /\ (\A r \in Run : run[r] \notin Conclusion) => review = "none" /\ ~branch

IInv ==
  /\ TypeOK
  /\ IF record = None THEN call = Idle /\ Started = {} ELSE Sound(record)
  /\ call # Idle => CallSound /\ RunRead
  /\ GithubSound

-----------------------------------------------------------------------------
(* Records.                                                                *)

\* What the changes of a record leave and what they set.
LEMMA Changes ==
  ASSUME NEW rec \in Record
  PROVE  /\ Blocked(rec) \in Record
         /\ Blocked(rec).phase = rec.phase /\ Blocked(rec).run_id = rec.run_id
         /\ Blocked(rec).receipt = rec.receipt
         /\ Marked(rec) \in Record
         /\ Marked(rec).phase = "dispatching" /\ Marked(rec).run_id = rec.run_id
         /\ Marked(rec).receipt = rec.receipt
         /\ LostIsUncertain(rec) \in Record
         /\ LostIsUncertain(rec).phase = "uncertain" /\ LostIsUncertain(rec).run_id = rec.run_id
         /\ LostIsUncertain(rec).receipt = rec.receipt
         /\ NotFound(rec) \in Record
         /\ NotFound(rec).phase = "uncertain" /\ NotFound(rec).run_id = rec.run_id
         /\ NotFound(rec).receipt = rec.receipt
         /\ InReview(rec) \in Record
         /\ InReview(rec).phase = "awaiting-review" /\ InReview(rec).run_id = rec.run_id
         /\ InReview(rec).receipt = rec.receipt
         /\ Waiting(rec) \in Record
         /\ Waiting(rec).phase = "awaiting-review" /\ Waiting(rec).run_id = rec.run_id
         /\ Waiting(rec).receipt = rec.receipt
BY DEF Record, Blocked, Marked, LostIsUncertain, NotFound, InReview, Waiting

\* What the changes of a record that name a run leave and what they set.
LEMMA RunChanges ==
  ASSUME NEW rec \in Record, NEW r \in Run
  PROVE  /\ \A id \in {r, None} :
              /\ Numbered(rec, id) \in Record
              /\ Numbered(rec, id).phase \in {"queued", "uncertain"}
              /\ Numbered(rec, id).run_id = id
              /\ Numbered(rec, id).receipt = rec.receipt
         /\ \A state \in {"queued", "running"} :
              /\ Seen(rec, r, state) \in Record
              /\ Seen(rec, r, state).phase = "queued"
              /\ Seen(rec, r, state).run_id = r
              /\ Seen(rec, r, state).receipt = rec.receipt
         /\ Completed(rec, r) \in Record
         /\ Completed(rec, r).phase = rec.phase
         /\ Completed(rec, r).run_id = r
         /\ Completed(rec, r).receipt = rec.receipt
BY DEF Record, Numbered, Seen, Completed

\* A cancellation key leaves everything else of the record.
LEMMA ControlChanges ==
  ASSUME NEW rec \in Record, NEW k \in Key
  PROVE  /\ Controlled(rec, k) \in Record
         /\ Controlled(rec, k).phase = rec.phase
         /\ Controlled(rec, k).run_id = rec.run_id
         /\ Controlled(rec, k).receipt = rec.receipt
BY DEF Record, Controlled

\* The phases and effects a record ends with.
EndPhase == {"applied", "no-change", "failed", "cancelled"}
EndEffect == {"verified", "partial", "none"}

\* The receipt of a record that ends.
LEMMA EndReceipt ==
  ASSUME NEW rec, NEW state \in Terminal, NEW phase, NEW effect \in EndEffect, rec \in Record
  PROVE  /\ Ended(rec, state, phase, effect).receipt \in Receipt
         /\ Ended(rec, state, phase, effect).receipt # None
         /\ Ended(rec, state, phase, effect).receipt.outcome = state
         /\ Ended(rec, state, phase, effect).receipt.effect = effect
BY NoneAssumption DEF Ended, Record, Receipt, EndEffect

\* The rest of a record that ends.
LEMMA EndChanges ==
  ASSUME NEW rec \in Record, NEW state \in Terminal, NEW phase \in EndPhase,
         NEW effect \in EndEffect
  PROVE  /\ Ended(rec, state, phase, effect) \in Record
         /\ Ended(rec, state, phase, effect).state = state
         /\ Ended(rec, state, phase, effect).phase = phase
         /\ Ended(rec, state, phase, effect).run_id = rec.run_id
<1> DEFINE new == [rec EXCEPT !.state = state, !.phase = phase, !.cancel_available = FALSE,
                              !.receipt = [outcome |-> state, effect |-> effect]]
<1>1. [outcome |-> state, effect |-> effect] \in Receipt
  BY DEF Receipt, EndEffect
<1>2. new \in Record /\ new.state = state /\ new.phase = phase /\ new.run_id = rec.run_id
  BY <1>1 DEF Record, EndPhase
<1>3. Ended(rec, state, phase, effect) = new
  BY DEF Ended
<1> QED BY <1>2, <1>3

\* A new record names no run and has no receipt.
LEMMA PreparedSound ==
  Prepared \in Record /\ Prepared.phase = "prepared" /\ Prepared.run_id = None
  /\ Prepared.receipt = None
BY DEF Prepared, Record

-----------------------------------------------------------------------------
(* The invariant is inductive.                                             *)

\* The invariant holds before the submission.
LEMMA Initial == ASSUME Init PROVE IInv
BY DEF Init, IInv, TypeOK, Idle, Step, GithubSound, Started, Conclusion

\* No receipt is not a receipt.
LEMMA NoEffectReceipt == None # [outcome |-> "failed", effect |-> "none"]
BY NoneAssumption DEF Receipt, Terminal

\* An open record that claims nothing is sound.
LEMMA OpenSound ==
  ASSUME NEW rec, rec.receipt = None,
         rec.phase \notin {"prepared", "applied", "no-change"}
  PROVE  Sound(rec)
BY NoEffectReceipt DEF Sound

\* So is one that differs from a sound one in its state only.
LEMMA SameSound ==
  ASSUME NEW rec, NEW new, Sound(rec), rec.receipt = None, new.receipt = None,
         new.phase = rec.phase, new.run_id = rec.run_id
  PROVE  Sound(new)
BY NoEffectReceipt DEF Sound

\* GitHub stays as it is.
Quiet == UNCHANGED <<github, crashes>>

\* While GitHub stays as it is, so does all that is said of it.
LEMMA QuietFacts ==
  ASSUME IInv, Quiet
  PROVE  /\ GithubSound' /\ Started' = Started /\ review' = review /\ run' = run
         /\ run' \in [Run -> {"unborn", "active"} \cup Conclusion]
         /\ listed' \in SUBSET Run
         /\ review' \in {"none", "hidden", "open", "closed"} \cup Merged
         /\ branch' \in BOOLEAN /\ desired' \in BOOLEAN /\ crashes' \in Nat
BY DEF IInv, Quiet, github, GithubSound, Started, TypeOK

\* A step keeps the run of the record.
Keeps(rec) == record # None /\ record.run_id # None => rec.run_id = record.run_id
RunKept == Keeps(record')

\* A call ends with a sound record.
LEMMA CallReturns ==
  ASSUME IInv, Quiet, NEW rec \in Record, Sound(rec), Keeps(rec),
         record' = rec, call' = Idle
  PROVE  IInv' /\ RunKept
<1>1. TypeOK'
  BY QuietFacts DEF TypeOK, Idle, Step
<1>2. record' # None /\ Sound(record)'
  BY QuietFacts, NoneAssumption DEF Sound
<1> QED BY <1>1, <1>2, QuietFacts DEF IInv, RunKept

\* A call goes on with a record and a copy that are sound.
LEMMA CallGoesOn ==
  ASSUME IInv, Quiet, call # Idle,
         NEW step \in Step, NEW copy \in Record, NEW rec \in Record,
         NEW key \in Key \cup {None}, NEW conclusion \in Conclusion \cup {None},
         record' = rec,
         call' = [at |-> step, copy |-> copy, key |-> key, conclusion |-> conclusion],
         Sound(rec), Sound(copy), rec.receipt = None,
         rec.run_id # None => copy.run_id = rec.run_id,
         rec.phase # "prepared", copy.phase # "prepared",
         step \notin {"idle", "dispatch"},
         step # "answered" => copy.receipt = None,
         step = "post" => rec.phase = "dispatching" /\ rec.run_id = None /\ Started = {},
         step \in {"reviews", "effect", "branch", "main"} =>
            /\ conclusion \in Conclusion
            /\ copy.run_id \in Run /\ run[copy.run_id] = conclusion,
         step = "main" => conclusion = "success",
         Keeps(rec)
  PROVE  IInv' /\ RunKept
<1>1. TypeOK'
  BY QuietFacts DEF TypeOK
<1>2. record' # None /\ Sound(record)' /\ Sound(call.copy)'
  BY QuietFacts, NoneAssumption DEF Sound
<1>3. CallSound' /\ RunRead'
  BY <1>2, QuietFacts DEF CallSound, RunRead
<1> QED BY <1>1, <1>2, <1>3, QuietFacts DEF IInv, RunKept

\* What holds while a call is at work.
LEMMA AtWork ==
  ASSUME IInv, call.at # "idle"
  PROVE  /\ call # Idle /\ CallSound /\ RunRead /\ record \in Record /\ Sound(record)
         /\ call = [at |-> call.at, copy |-> call.copy, key |-> call.key,
                    conclusion |-> call.conclusion]
         /\ call.key \in Key \cup {None} /\ call.conclusion \in Conclusion \cup {None}
         /\ Run \in SUBSET Nat
<1>1. call # Idle
  BY DEF Idle
<1>2. CallSound /\ RunRead
  BY <1>1 DEF IInv
<1> QED BY <1>1, <1>2 DEF IInv, TypeOK, CallSound, Run

\* A reading or a check that fails.
LEMMA FailsStep ==
  ASSUME IInv, Quiet, call.at \in Reconciling \cup {"dispatch"}, Unavailable
  PROVE  IInv' /\ RunKept
<1>1. call # Idle /\ CallSound /\ RunRead /\ record \in Record /\ Sound(record)
  BY AtWork DEF Reconciling
<1>2. Blocked(call.copy) \in Record /\ Sound(Blocked(call.copy)) /\ Keeps(Blocked(call.copy))
  BY <1>1, Changes, SameSound DEF CallSound, Reconciling, Keeps
<1>3. CASE Returns(Blocked(call.copy))
  BY <1>2, <1>3, CallReturns DEF Returns
<1>4. CASE call' = Idle /\ UNCHANGED record
  BY <1>1, <1>4, CallReturns DEF Keeps
<1>5. CASE call.key # None /\ call' = [call EXCEPT !.at = "run", !.key = None] /\ UNCHANGED record
  <2>1. call.at # "dispatch"
    BY <1>1, <1>5 DEF CallSound
  <2>2. call' = [at |-> "run", copy |-> call.copy, key |-> None, conclusion |-> call.conclusion]
    BY <1>5, AtWork DEF Reconciling
  <2>3. /\ record' = record /\ record.receipt = None /\ call.copy.receipt = None
        /\ record.run_id # None => call.copy.run_id = record.run_id
        /\ record.phase # "prepared" /\ call.copy.phase # "prepared"
        /\ call.copy \in Record /\ Sound(call.copy)
    BY <1>1, <1>5, <2>1 DEF CallSound, Reconciling
  <2>4. "run" \in Step /\ call.conclusion \in Conclusion \cup {None}
    BY <2>1, AtWork DEF Step, Reconciling
  <2> QED BY <1>1, <2>2, <2>3, <2>4, CallGoesOn DEF Keeps
<1> QED BY <1>3, <1>4, <1>5 DEF Unavailable

-----------------------------------------------------------------------------
(* The steps of the provider.                                              *)

\* A submission, a reading or a cancellation begins.
LEMMA BeginStep ==
  ASSUME IInv, Rejected \/ Submit \/ Read \/ \E k \in Key : Cancel(k)
  PROVE  IInv' /\ RunKept
<1>1. CASE Rejected
  <2>1. Started = {} /\ Quiet
    BY <1>1 DEF IInv, Rejected, Quiet
  <2>2. Ended(Prepared, "failed", "failed", "none") \in Record
        /\ Sound(Ended(Prepared, "failed", "failed", "none"))
    BY <2>1, PreparedSound, EndChanges, EndReceipt DEF Terminal, EndPhase, EndEffect, Sound
  <2> QED BY <1>1, <2>1, <2>2, CallReturns DEF Rejected, Keeps
<1>2. CASE Submit
  <2>1. Started = {} /\ Quiet
    BY <1>2 DEF IInv, Submit, Quiet
  <2>2. Sound(Prepared) /\ Prepared # None
    BY <2>1, PreparedSound, NoneAssumption DEF Sound
  <2>3. record' = Prepared
        /\ call' = [at |-> "dispatch", copy |-> Prepared, key |-> None, conclusion |-> None]
    BY <1>2 DEF Submit, Idle
  <2>4. TypeOK'
    BY <2>1, <2>3, QuietFacts, PreparedSound DEF TypeOK, Step
  <2>5. Sound(record)' /\ CallSound' /\ RunRead'
    BY <2>1, <2>2, <2>3, QuietFacts, PreparedSound DEF Sound, CallSound, RunRead
  <2> QED BY <1>2, <2>1, <2>2, <2>3, <2>4, <2>5, QuietFacts DEF IInv, Submit, RunKept, Keeps
<1>3. ASSUME NEW step \in {"dispatch", "run"}, NEW key \in Key \cup {None},
             step = "dispatch" => record.phase = "prepared" /\ key = None,
             step = "run" => record.phase # "prepared",
             record # None, Open, Quiet, UNCHANGED record,
             call' = [at |-> step, copy |-> record, key |-> key, conclusion |-> None]
      PROVE  IInv' /\ RunKept
  <2>1. record \in Record /\ Sound(record) /\ record.receipt = None
    BY <1>3 DEF IInv, TypeOK, Sound, Open
  <2>3. TypeOK'
    BY <1>3, <2>1, QuietFacts DEF TypeOK, Step
  <2>4. Sound(record)' /\ CallSound' /\ RunRead'
    BY <1>3, <2>1, QuietFacts DEF Sound, CallSound, RunRead
  <2> QED BY <1>3, <2>3, <2>4, QuietFacts DEF IInv, RunKept, Keeps
<1>4. CASE Read
  <2>1. call' = [at |-> Entry(record), copy |-> record, key |-> None, conclusion |-> None]
    BY <1>4 DEF Read, Idle
  <2> QED BY <1>3, <1>4, <2>1 DEF Read, Entry, Quiet
<1>5. ASSUME NEW k \in Key, Cancel(k) PROVE IInv' /\ RunKept
  <2>1. call' = [at |-> "run", copy |-> record, key |-> k, conclusion |-> None]
    BY <1>5 DEF Cancel, Idle
  <2> QED BY <1>3, <1>5, <2>1 DEF Cancel, Quiet
<1> QED BY <1>1, <1>2, <1>4, <1>5

\* The refusal of a dispatch, and its marker.
LEMMA DispatchStep ==
  ASSUME IInv, Refused \/ Mark
  PROVE  IInv' /\ RunKept
<1>0. call.at = "dispatch" /\ Quiet
  BY DEF Refused, Mark, Quiet
<1>1. CallSound /\ record \in Record /\ Sound(record)
  BY <1>0, AtWork
<1>2. CASE Refused
  <2>1. CASE Returns(Ended(call.copy, "failed", "failed", "none"))
    <3>1. Started = {}
      BY <1>0, <1>1 DEF CallSound, Sound
    <3>2. Ended(call.copy, "failed", "failed", "none") \in Record
          /\ Sound(Ended(call.copy, "failed", "failed", "none"))
      BY <1>1, <3>1, EndChanges, EndReceipt DEF CallSound, Sound, Terminal, EndPhase, EndEffect
    <3>3. Keeps(Ended(call.copy, "failed", "failed", "none"))
      BY <1>1, EndChanges, EndReceipt DEF CallSound, Keeps, Terminal, EndPhase, EndEffect
    <3> QED BY <1>0, <2>1, <3>2, <3>3, CallReturns DEF Returns
  <2>2. CASE Unavailable
    BY <1>0, <2>2, FailsStep
  <2> QED BY <1>2, <2>1, <2>2 DEF Refused
<1>3. CASE Mark
  <2> DEFINE new == Marked(call.copy)
  <2>1. new \in Record /\ new.phase = "dispatching" /\ new.run_id = None /\ new.receipt = None
    BY <1>0, <1>1, Changes DEF CallSound, Sound
  <2>2. Sound(new) /\ Started = {}
    BY <1>0, <1>1, <2>1, OpenSound DEF CallSound, Sound
  <2>3. record' = new
    BY <1>3 DEF Mark, MarkerWritten
  <2>4. call' = [at |-> "post", copy |-> new, key |-> call.key, conclusion |-> call.conclusion]
    BY <1>3, <1>0, AtWork DEF Mark, GoesWith
  <2> HIDE DEF new
  <2>5. Keeps(new)
    BY <1>0, <1>1 DEF CallSound, Sound, Keeps
  <2> QED BY <1>0, <2>1, <2>2, <2>3, <2>4, <2>5, AtWork, CallGoesOn DEF Step
<1> QED BY <1>2, <1>3

\* The run that a post starts is the only one.
LEMMA RunStarts ==
  ASSUME IInv, call.at = "post", NEW r \in Run, Starts(r),
         UNCHANGED <<record, listed, review, branch, desired, crashes>>,
         NEW copy \in Record, copy.phase \in {"queued", "uncertain"}, copy.receipt = None,
         GoesWith("answered", copy)
  PROVE  IInv' /\ RunKept
<1>1. CallSound /\ record \in Record /\ Sound(record) /\ call.conclusion \in Conclusion \cup {None}
      /\ call.key \in Key \cup {None}
  BY AtWork
<1>2. \A q \in Run : run[q] = "unborn"
  BY <1>1 DEF CallSound, Started
<1>3. run' = [run EXCEPT ![r] = "active"] /\ run \in [Run -> {"unborn", "active"} \cup Conclusion]
  BY DEF Starts, IInv, TypeOK
<1>4. GithubSound'
  BY <1>2, <1>3 DEF GithubSound, Started, IInv, Conclusion
<1>5. call' = [at |-> "answered", copy |-> copy, key |-> call.key, conclusion |-> call.conclusion]
  BY AtWork DEF GoesWith
<1>6. TypeOK'
  BY <1>1, <1>3, <1>5 DEF IInv, TypeOK, Step
<1>7. record.phase = "dispatching" /\ record.receipt = None /\ record.run_id = None
  BY <1>1 DEF CallSound
<1>8. Sound(record)' /\ Sound(call.copy)'
  BY <1>5, <1>7, NoEffectReceipt DEF Sound
<1>9. CallSound' /\ RunRead'
  BY <1>1, <1>5, <1>7, <1>8 DEF CallSound, RunRead
<1> QED BY <1>1, <1>4, <1>6, <1>7, <1>8, <1>9 DEF IInv, RunKept, Keeps, CallSound

\* The post of the dispatch.
LEMMA PostStep ==
  ASSUME IInv, PostAccepted \/ PostRefused \/ PostLost
  PROVE  IInv' /\ RunKept
<1>0. call.at = "post"
  BY DEF PostAccepted, PostRefused, PostLost
<1>1. CallSound /\ record \in Record /\ Sound(record)
  BY <1>0, AtWork
<1>2. ASSUME Quiet, UNCHANGED record, NEW copy \in Record, Sound(copy),
             copy.phase # "prepared", GoesWith("answered", copy)
      PROVE  IInv' /\ RunKept
  <2>1. call' = [at |-> "answered", copy |-> copy, key |-> call.key, conclusion |-> call.conclusion]
    BY <1>0, <1>2, AtWork DEF GoesWith
  <2>2. record.receipt = None /\ record.phase = "dispatching" /\ record.run_id = None
    BY <1>0, <1>1 DEF CallSound
  <2> QED BY <1>0, <1>1, <1>2, <2>1, <2>2, AtWork, CallGoesOn DEF Step, Keeps
<1>3. CASE PostAccepted
  <2>1. PICK r \in Run, id \in Run \cup {None} :
          Starts(r) /\ id \in {r, None} /\ GoesWith("answered", Numbered(call.copy, id))
    BY <1>3 DEF PostAccepted
  <2> DEFINE new == Numbered(call.copy, id)
  <2>2. new \in Record /\ new.phase \in {"queued", "uncertain"} /\ new.receipt = None
    BY <1>0, <1>1, <2>1, RunChanges DEF CallSound
  <2>3. UNCHANGED <<record, listed, review, branch, desired, crashes>>
    BY <1>3 DEF PostAccepted
  <2> HIDE DEF new
  <2>4. GoesWith("answered", new)
    BY <2>1 DEF new
  <2> QED BY <1>0, <2>1, <2>2, <2>3, <2>4, RunStarts
<1>4. CASE PostRefused
  <2> DEFINE new == Ended(call.copy, "failed", "failed", "none")
  <2>1. new \in Record /\ Sound(new) /\ new.phase # "prepared"
    BY <1>0, <1>1, EndChanges, EndReceipt DEF CallSound, Sound, Terminal, EndPhase, EndEffect
  <2> HIDE DEF new
  <2>2. GoesWith("answered", new) /\ Quiet /\ UNCHANGED record
    BY <1>4 DEF PostRefused, new, Quiet
  <2> QED BY <1>2, <2>1, <2>2
<1>5. CASE PostLost
  <2> DEFINE new == LostIsUncertain(call.copy)
  <2>1. new \in Record /\ Sound(new) /\ new.phase = "uncertain" /\ new.receipt = None
    BY <1>0, <1>1, Changes, OpenSound DEF CallSound
  <2> HIDE DEF new
  <2>2. GoesWith("answered", new) /\ UNCHANGED <<record, listed, review, branch, desired, crashes>>
    BY <1>5 DEF PostLost, new
  <2>3. CASE UNCHANGED run
    BY <1>2, <2>1, <2>2, <2>3 DEF Quiet, github
  <2>4. ASSUME NEW r \in Run, Starts(r) PROVE IInv' /\ RunKept
    BY <1>0, <2>1, <2>2, <2>4, RunStarts
  <2> QED BY <1>5, <2>3, <2>4 DEF PostLost
<1> QED BY <1>3, <1>4, <1>5

\* The answer to the post is written.
LEMMA AnsweredStep ==
  ASSUME IInv, Answered
  PROVE  IInv' /\ RunKept
<1>1. call.at = "answered" /\ Quiet /\ record' = call.copy
  BY DEF Answered, Quiet
<1>2. CallSound /\ record \in Record
  BY <1>1, AtWork
<1>3. call.copy \in Record /\ Sound(call.copy) /\ Keeps(call.copy) /\ call.copy.phase # "prepared"
  BY <1>1, <1>2 DEF CallSound, Keeps
<1>4. CASE call.copy.receipt # None
  BY <1>1, <1>3, <1>4, CallReturns DEF Answered
<1>5. CASE call.copy.receipt = None
  <2>1. call' = [at |-> "run", copy |-> call.copy, key |-> call.key, conclusion |-> call.conclusion]
    BY <1>1, <1>5, AtWork DEF Answered, Goes
  <2> QED BY <1>1, <1>3, <1>5, <2>1, AtWork, CallGoesOn DEF Step
<1> QED BY <1>4, <1>5

\* What holds while a call reconciles.
LEMMA Reconciles ==
  ASSUME IInv, call.at \in Reconciling
  PROVE  /\ call # Idle /\ CallSound /\ RunRead /\ record \in Record
         /\ call.copy \in Record /\ Sound(call.copy) /\ Keeps(call.copy)
         /\ record.receipt = None /\ call.copy.receipt = None
         /\ record.phase # "prepared" /\ call.copy.phase # "prepared"
         /\ record.run_id # None => call.copy.run_id = record.run_id
<1>1. CallSound /\ call # Idle /\ RunRead /\ record \in Record
  BY AtWork DEF Reconciling
<1> QED BY <1>1 DEF CallSound, Keeps, Reconciling

\* A step of a reconciliation that leaves the record and the copy.
LEMMA ReconciliationGoesOn ==
  ASSUME IInv, Quiet, call.at \in Reconciling, UNCHANGED record,
         NEW step \in Reconciling, Goes(step),
         step \in {"reviews", "effect", "branch", "main"} =>
           call.at \in {"reviews", "effect", "branch", "main"},
         step = "main" => call.conclusion = "success"
  PROVE  IInv' /\ RunKept
<1>1. call' = [at |-> step, copy |-> call.copy, key |-> call.key, conclusion |-> call.conclusion]
  BY AtWork DEF Goes, Reconciling
<1>2. step \in Step /\ step \notin {"idle", "dispatch", "answered", "post"}
  BY DEF Reconciling, Step
<1>3. call.key \in Key \cup {None} /\ call.conclusion \in Conclusion \cup {None}
  BY AtWork DEF Reconciling
<1>4. step \in {"reviews", "effect", "branch", "main"} =>
        /\ call.conclusion \in Conclusion
        /\ call.copy.run_id \in Run /\ run[call.copy.run_id] = call.conclusion
  BY Reconciles DEF RunRead
<1>5. Sound(record) /\ Keeps(record)
  BY Reconciles, AtWork DEF Reconciling, Keeps
<1> QED BY <1>1, <1>2, <1>3, <1>4, <1>5, Reconciles, CallGoesOn

\* The run is looked for and read.
LEMMA RunStep ==
  ASSUME IInv, RunUnknown \/ ReadFails \/ PostCancel
               \/ \E r \in Run : RunActive(r) \/ RunCompleted(r)
  PROVE  IInv' /\ RunKept
<1>0. call.at \in Reconciling /\ Quiet
  BY DEF RunUnknown, ReadFails, PostCancel, RunActive, RunCompleted, Reconciling, Quiet
<1>1. CASE RunUnknown
  <2>1. NotFound(call.copy) \in Record /\ Sound(NotFound(call.copy)) /\ Keeps(NotFound(call.copy))
    BY <1>0, Reconciles, Changes, OpenSound DEF Keeps
  <2> QED BY <1>0, <1>1, <2>1, CallReturns DEF RunUnknown, Returns
<1>2. CASE ReadFails
  BY <1>0, <1>2, FailsStep DEF ReadFails
<1>3. CASE PostCancel
  BY <1>0, <1>3, ReconciliationGoesOn DEF PostCancel, Reconciling
<1>4. ASSUME NEW r \in Run, RunActive(r) PROVE IInv' /\ RunKept
  <2>1. PICK state \in {"queued", "running"} :
          \/ Returns(Seen(call.copy, r, state))
          \/ /\ call.key # None
             /\ record' = Controlled(Seen(call.copy, r, state), call.key)
             /\ GoesWith("cancel", Controlled(Seen(call.copy, r, state), call.key))
    BY <1>4 DEF RunActive
  <2> DEFINE seen == Seen(call.copy, r, state)
             kept == Controlled(seen, call.key)
  <2>2. seen \in Record /\ seen.phase = "queued" /\ seen.run_id = r /\ seen.receipt = None
    <3>1. call.copy \in Record /\ call.copy.receipt = None
      BY <1>0, Reconciles
    <3> QED BY <1>4, <2>1, <3>1, RunChanges
  <2>3. Keeps(seen)
    BY <1>0, <1>4, <2>2, Reconciles DEF RunActive, Known, Keeps
  <2>4. CASE Returns(seen)
    BY <1>0, <2>2, <2>3, <2>4, OpenSound, CallReturns DEF Returns
  <2>5. CASE call.key # None /\ record' = kept /\ GoesWith("cancel", kept)
    <3>1. call.key \in Key
      BY <1>0, <2>5, AtWork DEF Reconciling
    <3> HIDE DEF seen
    <3>2. kept \in Record /\ kept.phase = "queued" /\ kept.run_id = r /\ kept.receipt = None
      BY <2>2, <3>1, ControlChanges
    <3> HIDE DEF kept
    <3>3. call' = [at |-> "cancel", copy |-> kept, key |-> call.key,
                   conclusion |-> call.conclusion]
      BY <1>0, <2>5, AtWork DEF GoesWith, Reconciling
    <3>4. Sound(kept) /\ Keeps(kept)
      BY <2>2, <2>3, <3>2, OpenSound DEF Keeps
    <3>5. "cancel" \in Step /\ call # Idle /\ call.conclusion \in Conclusion \cup {None}
      BY <1>0, AtWork DEF Step, Reconciling
    <3> QED BY <1>0, <2>5, <3>1, <3>2, <3>3, <3>4, <3>5, CallGoesOn
  <2> QED BY <2>1, <2>4, <2>5
<1>5. ASSUME NEW r \in Run, RunCompleted(r) PROVE IInv' /\ RunKept
  <2> DEFINE new == Completed(call.copy, r)
  <2>1. new \in Record /\ new.phase = call.copy.phase /\ new.run_id = r /\ new.receipt = None
    <3>1. call.copy \in Record /\ call.copy.receipt = None
      BY <1>0, Reconciles
    <3> HIDE DEF new
    <3>2. new = Completed(call.copy, r)
      BY DEF new
    <3> QED BY <3>1, <3>2, RunChanges
  <2>2. run[r] \in Conclusion /\ UNCHANGED record
    BY <1>5 DEF RunCompleted
  <2>3. record.run_id # None => r = record.run_id
    BY <1>0, <1>5, Reconciles DEF RunCompleted, Known
  <2>4. Sound(new)
    <3>1. call.copy.phase = "no-change" => call.copy.run_id = r
      <4>1. call.copy.phase = "no-change" => call.copy.run_id \in Run
        BY <1>0, Reconciles DEF Sound
      <4>2. call.copy.run_id \in Run => call.copy.run_id # None
        BY DispatchAssumption DEF Run
      <4> QED BY <1>5, <4>1, <4>2 DEF RunCompleted, Known
    <3> QED BY <1>0, <2>1, <3>1, Reconciles, NoEffectReceipt DEF Sound
  <2> HIDE DEF new
  <2>5. call' = [at |-> "reviews", copy |-> new, key |-> call.key, conclusion |-> run[r]]
    BY <1>0, <1>5, AtWork DEF RunCompleted, new, Reconciling
  <2>6. "reviews" \in Step /\ call.key \in Key \cup {None} /\ Sound(record) /\ Keeps(record)
    BY <1>0, AtWork DEF Step, Reconciling, Keeps
  <2> QED BY <1>0, <2>1, <2>2, <2>3, <2>4, <2>5, <2>6, Reconciles, CallGoesOn
<1> QED BY <1>1, <1>2, <1>3, <1>4, <1>5

\* A record that ends after its run is sound.
LEMMA EndSound ==
  ASSUME NEW rec \in Record, NEW state \in Terminal,
         NEW phase \in EndPhase,
         NEW effect \in EndEffect,
         state = "failed" => effect # "none",
         phase = "applied" => review = "merged",
         phase = "no-change" => rec.run_id \in Run /\ run[rec.run_id] = "success"
  PROVE  /\ Ended(rec, state, phase, effect) \in Record
         /\ Ended(rec, state, phase, effect).run_id = rec.run_id
         /\ Sound(Ended(rec, state, phase, effect))
<1> DEFINE new == Ended(rec, state, phase, effect)
<1>1. new \in Record /\ new.state = state
  BY EndChanges
<1>2. new.phase = phase
  BY EndChanges
<1>3. new.run_id = rec.run_id
  BY EndChanges
<1>4. new.receipt.outcome = state
  BY EndReceipt
<1>5. new.receipt.effect = effect
  BY EndReceipt
<1> HIDE DEF new
<1>6. new.receipt # [outcome |-> "failed", effect |-> "none"]
  BY <1>4, <1>5
<1>7. Sound(new)
  BY <1>1, <1>2, <1>3, <1>6 DEF Sound, EndPhase
<1> QED BY <1>1, <1>3, <1>7 DEF new

\* What came of the run is read.
LEMMA OutcomeStep ==
  ASSUME IInv, Reviews \/ Effect \/ Branch \/ Main
  PROVE  IInv' /\ RunKept
<1>0. call.at \in {"reviews", "effect", "branch", "main"} /\ call.at \in Reconciling /\ Quiet
  BY DEF Reviews, Effect, Branch, Main, Reconciling, Quiet
<1>1. ASSUME NEW rec \in Record, rec.phase = "awaiting-review", rec.run_id = call.copy.run_id,
             rec.receipt = None, Returns(rec)
      PROVE  IInv' /\ RunKept
  <2>1. Sound(rec) /\ Keeps(rec)
    BY <1>0, <1>1, Reconciles, OpenSound DEF Keeps
  <2> QED BY <1>0, <1>1, <2>1, CallReturns DEF Returns
<1>2. ASSUME NEW state \in Terminal, NEW phase \in EndPhase,
             NEW effect \in EndEffect,
             state = "failed" => effect # "none",
             phase = "applied" => review = "merged",
             phase = "no-change" => call.at = "main",
             Returns(Ended(call.copy, state, phase, effect))
      PROVE  IInv' /\ RunKept
  <2>1. call.copy \in Record
        /\ (phase = "no-change" => call.copy.run_id \in Run /\ run[call.copy.run_id] = "success")
    BY <1>0, <1>2, Reconciles DEF RunRead
  <2>2. /\ Ended(call.copy, state, phase, effect) \in Record
        /\ Ended(call.copy, state, phase, effect).run_id = call.copy.run_id
        /\ Sound(Ended(call.copy, state, phase, effect))
    BY <1>2, <2>1, EndSound
  <2>3. Keeps(Ended(call.copy, state, phase, effect))
    BY <1>0, <2>2, Reconciles DEF Keeps
  <2> QED BY <1>0, <1>2, <2>2, <2>3, CallReturns DEF Returns
<1>3. CASE Reviews
  <2>1. CASE Goes("branch") /\ UNCHANGED record
    BY <1>0, <2>1, ReconciliationGoesOn DEF Reconciling
  <2>2. CASE Goes("effect") /\ UNCHANGED record
    BY <1>0, <2>2, ReconciliationGoesOn DEF Reconciling
  <2>3. CASE Returns(InReview(call.copy))
    BY <1>0, <1>1, <2>3, Reconciles, Changes
  <2>4. CASE Returns(Ended(call.copy, "failed", "failed", "partial"))
    BY <1>2, <2>4 DEF Terminal, EndPhase, EndEffect
  <2> QED BY <1>3, <2>1, <2>2, <2>3, <2>4 DEF Reviews
<1>4. CASE Effect
  BY <1>2, <1>4 DEF Effect, EffectProven, Terminal, EndPhase, EndEffect
<1>5. CASE Branch
  <2>1. CASE Returns(Waiting(call.copy))
    BY <1>0, <1>1, <2>1, Reconciles, Changes
  <2>2. CASE call.conclusion = "success" /\ Goes("main") /\ UNCHANGED record
    BY <1>0, <2>2, ReconciliationGoesOn DEF Reconciling
  <2>3. CASE Returns(Ended(call.copy, "failed", "failed", "partial"))
    BY <1>2, <2>3 DEF Terminal, EndPhase, EndEffect
  <2>4. CASE Returns(Ended(call.copy, "cancelled", "cancelled", "partial"))
    BY <1>2, <2>4 DEF Terminal, EndPhase, EndEffect
  <2> QED BY <1>5, <2>1, <2>2, <2>3, <2>4 DEF Branch
<1>6. CASE Main
  <2>1. CASE Returns(Waiting(call.copy))
    BY <1>0, <1>1, <2>1, Reconciles, Changes
  <2>2. CASE Returns(Ended(call.copy, "succeeded", "no-change", "none"))
    BY <1>2, <1>6, <2>2 DEF Main, Terminal, EndPhase, EndEffect
  <2> QED BY <1>6, <2>1, <2>2 DEF Main
<1> QED BY <1>3, <1>4, <1>5, <1>6

\* The provider dies.
LEMMA CrashStep ==
  ASSUME IInv, Crash
  PROVE  IInv' /\ RunKept
<1>1. call' = Idle /\ UNCHANGED <<record, github>> /\ crashes' = crashes + 1 /\ call # Idle
  BY DEF Crash
<1>2. TypeOK'
  BY <1>1 DEF IInv, TypeOK, Idle, Step, github
<1>3. record # None /\ Sound(record)' /\ GithubSound'
  BY <1>1 DEF IInv, CallSound, Sound, Started, GithubSound, github
<1> QED BY <1>1, <1>2, <1>3 DEF IInv, RunKept, Keeps

-----------------------------------------------------------------------------
(* The steps of GitHub.                                                    *)

\* GitHub and the people who work there.
LEMMA GithubStep ==
  ASSUME IInv, (\E r \in Run : Listed(r) \/ RunEnds(r)) \/ ReviewMoves \/ MainMoves
  PROVE  IInv' /\ RunKept
<1>0. UNCHANGED <<record, call, crashes>> /\ RunKept
  BY DEF Listed, RunEnds, ReviewMoves, MainMoves, RunKept, Keeps
<1>1. ASSUME UNCHANGED run, review = "merged" => review' = "merged", TypeOK',
             (\A r \in Run : run[r] \notin Conclusion) => review' = "none" /\ ~branch'
      PROVE  IInv'
  <2>1. GithubSound' /\ Started' = Started
    BY <1>1 DEF IInv, GithubSound, Started
  <2>2. /\ Sound(record) => Sound(record)'
        /\ Sound(call.copy) => Sound(call.copy)'
    BY <1>0, <1>1, <2>1 DEF Sound
  <2>3. CallSound /\ RunRead => CallSound' /\ RunRead'
    BY <1>0, <1>1, <2>1, <2>2 DEF CallSound, RunRead
  <2> QED BY <1>0, <1>1, <2>1, <2>2, <2>3 DEF IInv
<1>2. ASSUME NEW r \in Run, Listed(r) PROVE IInv'
  <2>1. TypeOK'
    BY <1>2 DEF IInv, TypeOK, Listed
  <2>2. UNCHANGED <<run, review, branch>>
    BY <1>2 DEF Listed
  <2>3. (\A q \in Run : run[q] \notin Conclusion) => review' = "none" /\ ~branch'
    BY <2>2 DEF IInv, GithubSound
  <2> QED BY <1>0, <1>1, <2>1, <2>2, <2>3
<1>3. CASE MainMoves
  <2>1. TypeOK'
    BY <1>3 DEF IInv, TypeOK, MainMoves
  <2>2. UNCHANGED <<run, review, branch>>
    BY <1>3 DEF MainMoves
  <2>3. (\A r \in Run : run[r] \notin Conclusion) => review' = "none" /\ ~branch'
    BY <2>2 DEF IInv, GithubSound
  <2> QED BY <1>0, <1>1, <2>1, <2>2, <2>3
<1>4. CASE ReviewMoves
  <2>1. TypeOK'
    BY <1>4 DEF IInv, TypeOK, ReviewMoves, Merged
  <2>2. UNCHANGED run /\ (review = "merged" => review' = "merged")
    BY <1>4 DEF ReviewMoves
  <2>3. review # "none" \/ branch
    BY <1>4 DEF ReviewMoves
  <2>4. ~ \A r \in Run : run[r] \notin Conclusion
    BY <2>3 DEF IInv, GithubSound
  <2> QED BY <1>0, <1>1, <2>1, <2>2, <2>4
<1>5. ASSUME NEW r \in Run, RunEnds(r) PROVE IInv'
  <2>1. PICK c \in Conclusion : run' = [run EXCEPT ![r] = c]
    BY <1>5 DEF RunEnds
  <2>2. run \in [Run -> {"unborn", "active"} \cup Conclusion] /\ run[r] = "active"
    BY <1>5 DEF RunEnds, IInv, TypeOK
  <2>3. \A q \in Run : q # r => run[q] = "unborn"
    BY <2>2 DEF IInv, GithubSound, Started
  <2>4. review = "none" /\ run'[r] \in Conclusion
    BY <2>1, <2>2, <2>3 DEF IInv, GithubSound, Conclusion
  <2>5. TypeOK'
    <3>1. review' \in {"hidden", "open", review} /\ branch' \in {TRUE, branch} /\ listed' = listed
          /\ desired' = desired
      BY <1>5 DEF RunEnds
    <3> QED BY <1>0, <2>1, <2>2, <3>1 DEF IInv, TypeOK
  <2>6. GithubSound' /\ Started' = Started
    BY <2>1, <2>2, <2>3, <2>4 DEF GithubSound, Started, Conclusion
  <2>7. \A q \in Run : run[q] \notin Conclusion
    BY <2>2, <2>3 DEF Conclusion
  <2>8. /\ Sound(record) => Sound(record)'
        /\ Sound(call.copy) => Sound(call.copy)'
    BY <1>0, <2>4, <2>6, <2>7 DEF Sound, Conclusion
  <2>9. CallSound /\ RunRead => CallSound' /\ RunRead'
    BY <1>0, <2>6, <2>7, <2>8 DEF CallSound, RunRead
  <2> QED BY <1>0, <2>5, <2>6, <2>8, <2>9 DEF IInv
<1> QED BY <1>0, <1>2, <1>3, <1>4, <1>5

\* Every step keeps the invariant and the run of the record.
LEMMA Inductive ==
  ASSUME IInv, [Next]_vars
  PROVE  IInv' /\ RunKept
<1>1. CASE UNCHANGED vars
  BY <1>1 DEF vars, github, IInv, TypeOK, Sound, Started, CallSound, RunRead, GithubSound,
       RunKept, Keeps
<1>2. CASE CallStep
  BY <1>2, DispatchStep, PostStep, AnsweredStep, RunStep, OutcomeStep DEF CallStep
<1> QED BY <1>1, <1>2, BeginStep, CrashStep, GithubStep DEF Next

-----------------------------------------------------------------------------
(* The theorems.                                                           *)

\* The invariant of a request, over every call, crash and loss
\* (ProviderService.read and control, ReleaseDispatcher).
THEOREM Invariant == Spec => []IInv
<1>1. Init => IInv
  BY Initial
<1>2. IInv /\ [Next]_vars => IInv'
  BY Inductive
<1> QED BY <1>1, <1>2, PTL DEF Spec

\* Record, call, runs and review keep their types, whatever is lost, refused,
\* retried or killed (console_release_dispatch.py).
THEOREM TypeCorrect == Spec => []TypeOK
<1>1. IInv => TypeOK
  BY DEF IInv
<1> QED BY <1>1, Invariant, PTL

\* Runs that are all the same are one at most.
LEMMA OneStarted == ASSUME IInv PROVE AtMostOneRun
<1>1. CASE Started = {}
  BY <1>1, FS_EmptySet DEF AtMostOneRun
<1>2. CASE Started # {}
  <2>1. PICK r \in Started : Started = {r}
    BY <1>2 DEF IInv, GithubSound
  <2>2. Cardinality({r}) = 1
    BY FS_Singleton
  <2> QED BY <2>1, <2>2 DEF AtMostOneRun
<1> QED BY <1>1, <1>2

\* The write-ahead marker of ReleaseDispatcher.dispatch: a request starts one
\* workflow run at most.
THEOREM OneRun == Spec => []AtMostOneRun
BY OneStarted, Invariant, PTL

\* A receipt "failed" with effect "none" is given only when no run was started.
THEOREM NoEffect == Spec => []NoEffectIsTrue
<1>1. IInv => NoEffectIsTrue
  BY DEF IInv, Sound, NoEffectIsTrue
<1> QED BY <1>1, Invariant, PTL

\* A request is applied only by its merged review, and needs no change only if
\* its run succeeded.
THEOREM RealSuccess == Spec => []SuccessIsReal
<1>1. IInv => SuccessIsReal
  BY DEF IInv, Sound, SuccessIsReal
<1> QED BY <1>1, Invariant, PTL

\* Whatever a receipt says is so (ReleaseDispatcher.reconcile, terminal_receipt).
THEOREM TrueReceipts == Spec => []ReceiptIsTrue
<1>1. TypeOK /\ NoEffectIsTrue /\ SuccessIsReal => ReceiptIsTrue
  BY DEF ReceiptIsTrue
<1> QED BY <1>1, TypeCorrect, NoEffect, RealSuccess, PTL

\* No step changes a record that has its receipt.
LEMMA ReceiptStays ==
  ASSUME IInv, [Next]_vars, record # None, record.receipt # None
  PROVE  record' = record
<1>1. call = Idle
  BY DEF IInv, CallSound
<1>2. ~Open
  BY DEF IInv, Sound, Open
<1>3. call.at = "idle"
  BY <1>1 DEF Idle
<1>4. ~CallStep
  BY <1>3 DEF CallStep, Refused, Mark, PostAccepted, PostRefused, PostLost, Answered,
       RunUnknown, ReadFails, PostCancel, RunActive, RunCompleted, Reviews, Effect, Branch, Main
<1>5. ~(Rejected \/ Submit \/ Read \/ (\E k \in Key : Cancel(k)) \/ Crash)
  BY <1>1, <1>2 DEF Rejected, Submit, Read, Cancel, Crash
<1> QED BY <1>4, <1>5 DEF Next, Listed, RunEnds, ReviewMoves, MainMoves, vars

\* A receipt is final, and the run of a record is never replaced
\* (ProviderService.reconcile_release, ReleaseDispatcher._find_run).
THEOREM FinalReceipt == Spec => ReceiptIsFinal
<1>1. IInv /\ [Next]_vars =>
        [record # None =>
           /\ record.receipt # None => record' = record
           /\ record.run_id # None => record'.run_id = record.run_id]_vars
  BY ReceiptStays, Inductive DEF RunKept, Keeps
<1> QED BY <1>1, Invariant, PTL DEF Spec, ReceiptIsFinal
=============================================================================
