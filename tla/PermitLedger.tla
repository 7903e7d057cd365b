---------------------------- MODULE PermitLedger ----------------------------
(***************************************************************************)
(* The authority ledger of one controlled commissioning proof: the files   *)
(* that make a permit single-use and an operator scope exclusive, and the  *)
(* two commands that write them.                                           *)
(*                                                                         *)
(*   snapshot  (scripts/platform_drill.py)  consumes the permit and builds *)
(*             the run directory, run.yaml last;                           *)
(*   execute   (controlled_proof/cli.py)    projects the owner contexts,   *)
(*             leases the operator scope, claims the execution, installs   *)
(*             the runtime, restores the baseline and releases the lease.  *)
(*                                                                         *)
(* Each command holds a non-blocking file lock of its own for the          *)
(* authorization; the two locks are different files, so a snapshot and an  *)
(* execution of one authorization interleave step by step.  Any command    *)
(* may crash between two steps: its lock is dropped by the kernel, every   *)
(* file it wrote stays.  A file is created through a hard link, so it      *)
(* appears whole or not at all.                                            *)
(***************************************************************************)
EXTENDS Integers

CONSTANTS
  Auth,      \* the authorizations (permits) that were issued
  Scope,     \* the operator scopes, each one local runtime
  ScopeOf,   \* the operator scope each authorization targets
  Issued,    \* window.issued_at of each authorization
  Expires,   \* window.expires_at of each authorization
  Reserve,   \* TERMINAL_CLEANUP_START_RESERVE_SECONDS
  MaxTime,   \* bound: the clock stops here
  Absent     \* an absent file, an unset timestamp

ASSUME ScopeAssumption == ScopeOf \in [Auth -> Scope]
ASSUME WindowAssumption == /\ Issued \in [Auth -> Nat]
                           /\ Expires \in [Auth -> Nat]
                           /\ Reserve \in Nat
                           /\ MaxTime \in Nat

VARIABLES
  now,       \* the wall clock
  receipt,   \* consumption receipt: consumed_at, or Absent
  runDir,    \* the run directory: absent, partial, or committed by run.yaml
  oos,       \* OOS owner context: the session start it binds, or Absent
  wgcf,      \* WGCF owner context: the session start it binds, or Absent
  lease,     \* scope lease: its authorization and acquired_at, or Absent
  claim,     \* execution claim: the acquired_at of the lease it binds, or Absent
  source,    \* the permit-bound executor checkout below the output root exists
  runtime,   \* the authorization whose runtime is installed in a scope, or Absent
  snap,      \* where the snapshot command of an authorization stands
  exec,      \* where the execute or cleanup command of an authorization stands
  stamp      \* the timestamp the running execute command carries in memory

ledgerVars == <<receipt, lease, claim>>
runVars == <<runDir, oos, wgcf, source>>
allVars == <<now, ledgerVars, runVars, runtime, snap, exec, stamp>>

-----------------------------------------------------------------------------
SnapStep == {"idle", "validated", "consumed", "removing", "making", "writing"}
ExecStep == {"idle", "locked", "projecting", "contexts", "leased", "claimed",
             "checkedOut", "authorized", "closing", "removing", "verifying",
             "releasing", "released"}

Lease == [auth : Auth, at : Nat]

ASSUME AbsentAssumption == Absent \notin Nat \cup Auth \cup Lease

LedgerTypes ==
  /\ now \in Nat
  /\ receipt \in [Auth -> Nat \cup {Absent}]
  /\ runDir \in [Auth -> {"absent", "partial", "committed"}]
  /\ oos \in [Auth -> Nat \cup {Absent}]
  /\ wgcf \in [Auth -> Nat \cup {Absent}]
  /\ lease \in [Scope -> Lease \cup {Absent}]
  /\ claim \in [Auth -> Nat \cup {Absent}]
  /\ source \in [Auth -> BOOLEAN]
  /\ runtime \in [Scope -> Auth \cup {Absent}]
  /\ snap \in [Auth -> SnapStep]
  /\ exec \in [Auth -> ExecStep]
  /\ stamp \in [Auth -> Nat \cup {Absent}]

LedgerInit ==
  /\ now = 0
  /\ receipt = [a \in Auth |-> Absent]
  /\ runDir = [a \in Auth |-> "absent"]
  /\ oos = [a \in Auth |-> Absent]
  /\ wgcf = [a \in Auth |-> Absent]
  /\ lease = [s \in Scope |-> Absent]
  /\ claim = [a \in Auth |-> Absent]
  /\ source = [a \in Auth |-> FALSE]
  /\ runtime = [s \in Scope |-> Absent]
  /\ snap = [a \in Auth |-> "idle"]
  /\ exec = [a \in Auth |-> "idle"]
  /\ stamp = [a \in Auth |-> Absent]

\* The permit is valid: validate_authorization, consume_authorization.
InWindow(a) == Issued[a] <= now /\ now < Expires[a]

\* A start at time t leaves more than the reserve for the exact restore.
KeepsReserve(a, t) == Expires[a] - t > Reserve

\* The lease record written for an authorization, and its creation only when
\* no lease of the scope exists.
LeaseOf(a) == [auth |-> a, at |-> now]
AnyScope(a) == TRUE
ScopeIsFree(a) == lease[ScopeOf[a]] = Absent

\* The lease file of the scope is byte for byte the one the claim binds:
\* validate_execution_scope_lease.
LeaseMatches(a) ==
  /\ claim[a] # Absent
  /\ lease[ScopeOf[a]] # Absent
  /\ lease[ScopeOf[a]].auth = a
  /\ lease[ScopeOf[a]].at = claim[a]

Tick ==
  /\ now < MaxTime
  /\ now' = now + 1
  /\ UNCHANGED <<ledgerVars, runVars, runtime, snap, exec, stamp>>

-----------------------------------------------------------------------------
(* platform-drill snapshot, one step per file-system operation.            *)

SnapshotTo(a, step) == snap' = [snap EXCEPT ![a] = step]

\* The snapshot lock is taken; run.yaml must be absent and the permit valid.
SnapshotBegin(a) ==
  /\ snap[a] = "idle"
  /\ runDir[a] # "committed"
  /\ InWindow(a)
  /\ SnapshotTo(a, "validated")
  /\ UNCHANGED <<now, ledgerVars, runVars, runtime, exec, stamp>>

\* An existing receipt is reused; a new one is created inside the window only.
SnapshotConsume(a) ==
  /\ snap[a] = "validated"
  /\ \/ /\ receipt[a] # Absent
        /\ SnapshotTo(a, "consumed")
        /\ UNCHANGED receipt
     \/ /\ receipt[a] = Absent
        /\ InWindow(a)
        /\ receipt' = [receipt EXCEPT ![a] = now]
        /\ SnapshotTo(a, "consumed")
     \/ /\ receipt[a] = Absent
        /\ ~InWindow(a)
        /\ SnapshotTo(a, "idle")
        /\ UNCHANGED receipt
  /\ UNCHANGED <<now, lease, claim, runVars, runtime, exec, stamp>>

\* A directory without run.yaml is removed unless a claim file exists now.
SnapshotInspect(a) ==
  /\ snap[a] = "consumed"
  /\ SnapshotTo(a, CASE runDir[a] = "absent" -> "making"
                     [] runDir[a] = "partial" /\ claim[a] = Absent -> "removing"
                     [] OTHER -> "idle")
  /\ UNCHANGED <<now, ledgerVars, runVars, runtime, exec, stamp>>

\* shutil.rmtree of the whole run directory, the output root included.  It
\* stops with an error, and leaves some entries, when an execution creates one
\* below a directory it is emptying.
SnapshotRemove(a) ==
  /\ snap[a] = "removing"
  /\ \/ /\ oos' = [oos EXCEPT ![a] = Absent]
        /\ wgcf' = [wgcf EXCEPT ![a] = Absent]
        /\ source' = [source EXCEPT ![a] = FALSE]
        /\ runDir' = [runDir EXCEPT ![a] = "absent"]
        /\ SnapshotTo(a, "making")
     \/ /\ exec[a] # "idle"
        /\ oos' \in {oos, [oos EXCEPT ![a] = Absent]}
        /\ wgcf' \in {wgcf, [wgcf EXCEPT ![a] = Absent]}
        /\ source' \in {source, [source EXCEPT ![a] = FALSE]}
        /\ SnapshotTo(a, "idle")
        /\ UNCHANGED runDir
  /\ UNCHANGED <<now, ledgerVars, runtime, exec, stamp>>

\* run_dir.mkdir(exist_ok=False): an execution may have created it meanwhile.
SnapshotMkdir(a) ==
  /\ snap[a] = "making"
  /\ \/ /\ runDir[a] = "absent"
        /\ runDir' = [runDir EXCEPT ![a] = "partial"]
        /\ SnapshotTo(a, "writing")
     \/ /\ runDir[a] # "absent"
        /\ SnapshotTo(a, "idle")
        /\ UNCHANGED runDir
  /\ UNCHANGED <<now, ledgerVars, oos, wgcf, source, runtime, exec, stamp>>

\* The phase files are written, then run.yaml: the commit point.
SnapshotCommit(a) ==
  /\ snap[a] = "writing"
  /\ runDir' = [runDir EXCEPT ![a] = "committed"]
  /\ SnapshotTo(a, "idle")
  /\ UNCHANGED <<now, ledgerVars, oos, wgcf, source, runtime, exec, stamp>>

SnapshotCrash(a) ==
  /\ snap[a] # "idle"
  /\ SnapshotTo(a, "idle")
  /\ UNCHANGED <<now, ledgerVars, runVars, runtime, exec, stamp>>

-----------------------------------------------------------------------------
(* controlled_proof.py execute: contexts, lease, claim.                    *)

ExecTo(a, step) == exec' = [exec EXCEPT ![a] = step]

\* The command ends, in an error or in a crash; its memory is gone.
Deny(a) == ExecTo(a, "idle") /\ stamp' = [stamp EXCEPT ![a] = Absent]

\* The permit must be valid and the receipt present; then the lock is taken.
\* The command does not look for run.yaml.
ExecuteBegin(a) ==
  /\ exec[a] = "idle"
  /\ InWindow(a)
  /\ receipt[a] # Absent
  /\ ExecTo(a, "locked")
  /\ UNCHANGED <<now, ledgerVars, runVars, runtime, snap, stamp>>

\* The OOS context is created, or an existing one fixes the session start.
ProjectOos(a) ==
  /\ exec[a] = "locked"
  /\ LET start == IF oos[a] # Absent THEN oos[a] ELSE now
     IN \/ /\ KeepsReserve(a, start)
           /\ oos' = [oos EXCEPT ![a] = start]
           /\ runDir' = [runDir EXCEPT ![a] = IF @ = "absent" THEN "partial" ELSE @]
           /\ stamp' = [stamp EXCEPT ![a] = start]
           /\ ExecTo(a, "projecting")
        \/ /\ ~KeepsReserve(a, start)
           /\ Deny(a)
           /\ runDir' = [runDir EXCEPT ![a] = IF @ = "absent" THEN "partial" ELSE @]
           /\ UNCHANGED oos
  /\ UNCHANGED <<now, ledgerVars, wgcf, source, runtime, snap>>

\* The WGCF context must bind the same session start as the OOS context.
ProjectWgcf(a) ==
  /\ exec[a] = "projecting"
  /\ \/ /\ wgcf[a] \in {Absent, stamp[a]}
        /\ wgcf' = [wgcf EXCEPT ![a] = stamp[a]]
        /\ runDir' = [runDir EXCEPT ![a] = IF @ = "absent" THEN "partial" ELSE @]
        /\ ExecTo(a, "contexts")
        /\ UNCHANGED stamp
     \/ /\ wgcf[a] \notin {Absent, stamp[a]}
        /\ Deny(a)
        /\ UNCHANGED <<runDir, wgcf>>
  /\ UNCHANGED <<now, ledgerVars, oos, source, runtime, snap>>

\* claim_execution: a claim that exists is resumed if its exact lease is held.
ResumeClaim(a) ==
  /\ exec[a] = "contexts"
  /\ claim[a] # Absent
  /\ ExecTo(a, IF KeepsReserve(a, now) /\ LeaseMatches(a) THEN "claimed" ELSE "idle")
  /\ stamp' = [stamp EXCEPT ![a] = Absent]
  /\ UNCHANGED <<now, ledgerVars, runVars, runtime, snap>>

\* claim_execution looks for a claim before it touches the lease.
Reclaimable(a) == TRUE
Unclaimed(a) == claim[a] = Absent

\* claim_execution: the lease of the scope is created before the claim.  A
\* lease of the same authorization is resumed with its own acquired_at.
AcquireLease(a) ==
  /\ exec[a] = "contexts"
  /\ Unclaimed(a)
  /\ LET s == ScopeOf[a]
     IN \/ /\ KeepsReserve(a, now)
           /\ ScopeIsFree(a)
           /\ lease' = [lease EXCEPT ![s] = LeaseOf(a)]
           /\ stamp' = [stamp EXCEPT ![a] = now]
           /\ ExecTo(a, "leased")
        \/ /\ KeepsReserve(a, now)
           /\ lease[s] # Absent
           /\ lease[s].auth = a
           /\ stamp' = [stamp EXCEPT ![a] = lease[s].at]
           /\ ExecTo(a, "leased")
           /\ UNCHANGED lease
        \/ /\ \/ ~KeepsReserve(a, now)
              \/ lease[s] # Absent /\ lease[s].auth # a
           /\ Deny(a)
           /\ UNCHANGED lease
  /\ UNCHANGED <<now, receipt, claim, runVars, runtime, snap>>

\* claim_execution: the claim binds the digest of the lease just written.
WriteClaim(a) ==
  /\ exec[a] = "leased"
  /\ claim[a] = Absent
  /\ claim' = [claim EXCEPT ![a] = stamp[a]]
  /\ stamp' = [stamp EXCEPT ![a] = Absent]
  /\ ExecTo(a, "claimed")
  /\ UNCHANGED <<now, receipt, lease, runVars, runtime, snap>>

-----------------------------------------------------------------------------
(* The execution of the claim: install, prove, remove, verify, release.    *)

\* The executor checkout is created; one left by an earlier attempt, or a
\* window down to its reserve, fails the preparation and leads to the restore.
CheckOut(a) ==
  /\ exec[a] = "claimed"
  /\ \/ /\ KeepsReserve(a, now)
        /\ ~source[a]
        /\ source' = [source EXCEPT ![a] = TRUE]
        /\ runDir' = [runDir EXCEPT ![a] = IF @ = "absent" THEN "partial" ELSE @]
        /\ ExecTo(a, "checkedOut")
     \/ /\ ExecTo(a, "closing")
        /\ UNCHANGED <<source, runDir>>
  /\ UNCHANGED <<now, ledgerVars, oos, wgcf, runtime, snap, stamp>>

\* verify-runtime-action of "prepare": the whole consumed authority, once.
AuthorizePrepare(a) ==
  /\ exec[a] = "checkedOut"
  /\ ExecTo(a, IF /\ InWindow(a) /\ KeepsReserve(a, now)
                  /\ receipt[a] # Absent /\ LeaseMatches(a)
               THEN "authorized" ELSE "closing")
  /\ UNCHANGED <<now, ledgerVars, runVars, runtime, snap, stamp>>

\* prepare_runtime needs an empty scope.  Whether it stops after creating a
\* part, and whether the scenarios then pass or fail, the closing steps follow.
InstallRuntime(a) ==
  /\ exec[a] = "authorized"
  /\ LET s == ScopeOf[a]
     IN \/ /\ runtime[s] = Absent
           /\ runtime' = [runtime EXCEPT ![s] = a]
        \/ UNCHANGED runtime
  /\ ExecTo(a, "closing")
  /\ UNCHANGED <<now, ledgerVars, runVars, snap, stamp>>

\* controlled-cleanup takes the execution lock: a committed run, a claim.
CleanupBegin(a) ==
  /\ exec[a] = "idle"
  /\ runDir[a] = "committed"
  /\ claim[a] # Absent
  /\ ExecTo(a, "closing")
  /\ UNCHANGED <<now, ledgerVars, runVars, runtime, snap, stamp>>

\* verify-runtime-action of a terminal action waives the expiry, not the
\* lease.  Without the executor checkout no removal is attempted at all.
RemovalHasScript(a) == source[a]
RemovalAuthorized(a) == source[a] /\ LeaseMatches(a)

AuthorizeRemoval(a) ==
  /\ exec[a] = "closing"
  /\ ExecTo(a, IF RemovalAuthorized(a) THEN "removing" ELSE "verifying")
  /\ UNCHANGED <<now, ledgerVars, runVars, runtime, snap, stamp>>

\* The namespace of the scope is deleted, whoever installed it, or the
\* deletion fails.
RemoveRuntime(a) ==
  /\ exec[a] = "removing"
  /\ runtime' \in {runtime, [runtime EXCEPT ![ScopeOf[a]] = Absent]}
  /\ ExecTo(a, "verifying")
  /\ UNCHANGED <<now, ledgerVars, runVars, snap, stamp>>

\* The captured baseline had no runtime installed; the probe may also fail.
BaselineAssumed(a) == TRUE
BaselineRestored(a) == runtime[ScopeOf[a]] = Absent

\* A restore that fails is followed by the final cleanup of the same command.
VerifyBaseline(a) ==
  /\ exec[a] = "verifying"
  /\ \/ /\ BaselineRestored(a)
        /\ ExecTo(a, "releasing")
     \/ ExecTo(a, "closing")
     \/ ExecTo(a, "idle")
  /\ UNCHANGED <<now, ledgerVars, runVars, runtime, snap, stamp>>

\* release_execution_scope_lease: only the exact lease of this claim.
ReleaseLease(a) ==
  /\ exec[a] = "releasing"
  /\ \/ /\ LeaseMatches(a)
        /\ lease' = [lease EXCEPT ![ScopeOf[a]] = Absent]
        /\ ExecTo(a, "released")
     \/ /\ ~LeaseMatches(a)
        /\ ExecTo(a, "idle")
        /\ UNCHANGED lease
  /\ UNCHANGED <<now, receipt, claim, runVars, runtime, snap, stamp>>

\* The source snapshots are removed after the release; the command ends.
DropSource(a) ==
  /\ exec[a] = "released"
  /\ source' = [source EXCEPT ![a] = FALSE]
  /\ ExecTo(a, "idle")
  /\ UNCHANGED <<now, ledgerVars, runDir, oos, wgcf, runtime, snap, stamp>>

ExecuteCrash(a) ==
  /\ exec[a] # "idle"
  /\ Deny(a)
  /\ UNCHANGED <<now, ledgerVars, runVars, runtime, snap>>

-----------------------------------------------------------------------------
Snapshot(a) ==
  \/ SnapshotBegin(a) \/ SnapshotConsume(a) \/ SnapshotInspect(a)
  \/ SnapshotRemove(a) \/ SnapshotMkdir(a) \/ SnapshotCommit(a)
  \/ SnapshotCrash(a)

ExecuteStep(a) ==
  \/ ProjectOos(a) \/ ProjectWgcf(a)
  \/ ResumeClaim(a) \/ AcquireLease(a) \/ WriteClaim(a)
  \/ CheckOut(a) \/ AuthorizePrepare(a) \/ InstallRuntime(a)
  \/ AuthorizeRemoval(a) \/ RemoveRuntime(a)
  \/ VerifyBaseline(a) \/ ReleaseLease(a) \/ DropSource(a)

Execute(a) == ExecuteBegin(a) \/ CleanupBegin(a) \/ ExecuteStep(a) \/ ExecuteCrash(a)

LedgerNext == Tick \/ \E a \in Auth : Snapshot(a) \/ Execute(a)

LedgerSpec == LedgerInit /\ [][LedgerNext]_allVars

-----------------------------------------------------------------------------
(* What the ledger guarantees.                                             *)

\* The scope's lease is the one the claim of this authorization binds.
HoldsLease(a) ==
  claim[a] # Absent /\ lease[ScopeOf[a]] = [auth |-> a, at |-> claim[a]]

\* A claim exists only for a consumed permit, was leased no earlier than the
\* consumption, and left more than the restore reserve: consume_authorization
\* and claim_execution, across crashes between any two of their files.
ClaimFollowsConsumption ==
  \A a \in Auth : claim[a] # Absent =>
    /\ receipt[a] # Absent
    /\ Issued[a] <= receipt[a] /\ receipt[a] <= claim[a]
    /\ claim[a] + Reserve < Expires[a]

\* Whatever is installed in a scope belongs to the authorization whose claim
\* binds the scope's current lease: no crash, retry or early release leaves a
\* runtime that another authorization could be leased over.
RuntimeUnderLease ==
  \A s \in Scope : runtime[s] # Absent =>
    ScopeOf[runtime[s]] = s /\ HoldsLease(runtime[s])

\* Between the authority check of a runtime script and its last command the
\* lease stays with it, so two authorizations never mutate one scope at once.
Mutating(a) == exec[a] \in {"authorized", "removing"}
MutationUnderLease == \A a \in Auth : Mutating(a) => HoldsLease(a)

\* What a scope can rely on at any time: whoever has, installs or removes a
\* runtime of it was issued the one permit for it, and holds its one lease.
LeaseCovers ==
  LedgerTypes /\ ClaimFollowsConsumption /\ RuntimeUnderLease /\ MutationUnderLease

\* Only the execution that owns a runtime ever removes it, although the
\* removal deletes the namespace of the scope without looking at its owner.
NoForeignRemoval ==
  [][\A s \in Scope : runtime[s] # Absent /\ runtime'[s] # runtime[s] =>
       runtime'[s] = Absent /\ exec[runtime[s]] = "removing"]_allVars

\* A permit whose claim lost its lease is spent: no later retry, snapshot or
\* cleanup gives it the scope again ("one permit-bound proof execution").
Spent(a) == claim[a] # Absent /\ ~HoldsLease(a)
SpentForever ==
  [][\A a \in Auth : Spent(a) =>
       Spent(a)' /\ runtime'[ScopeOf[a]] # a]_allVars


-----------------------------------------------------------------------------
(* The files implement the abstract permit.                                *)

LeasedTo(a) == lease[ScopeOf[a]] # Absent /\ lease[ScopeOf[a]].auth = a

PermitOf(a) ==
  IF receipt[a] = Absent THEN "issued"
  ELSE IF claim[a] = Absent
       THEN IF LeasedTo(a) THEN "leased" ELSE "consumed"
       ELSE IF HoldsLease(a) THEN "claimed" ELSE "spent"

Permit == INSTANCE CommissioningPermit WITH
  permit <- [a \in Auth |-> PermitOf(a)], installed <- runtime, None <- Absent

\* Every step of the snapshot and execute commands, their crashes and retries
\* included, is a step of the single-use permit or no step of it at all.
ImplementsPermit == Permit!Spec
=============================================================================
