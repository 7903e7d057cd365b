# Verification of platform-engineering

TLA+ models of the lifecycle code of this repository, the TLC configurations that
check them, and TLAPS proofs about them. Every definition is translated from the
source; `PROJECT.json` ("map") names the lines each one stands for, and paths below
are relative to `src/`.

| To … | run, in this directory |
|---|---|
| check a run | `tlc -workers 2 -config <cfg> <module>.tla` |
| check proofs | `tlapm <module>Proofs.tla`, for the eight modules of [section 6](#6-proofs) |

Contents: [1 Inventory](#1-inventory) · [2 Plan](#2-plan) · [3 Modules](#3-modules) ·
[4 Runs and bounds](#4-runs-and-bounds) · [5 Fairness](#5-fairness) ·
[6 Proofs](#6-proofs) · [7 Disagreements](#7-disagreements) ·
[8 What is not covered](#8-what-is-not-covered)

## 1. Inventory

The repository is the control plane of a small platform. Its program logic is mostly
Python commands that keep their state in files and change it in several steps. They
are run by operators, timers, HTTP handlers and detached workers, which overlap, are
killed, and are retried. There is no database and no message bus: what coordinates
them is file locks, exclusively created files, process identities, revisions and
compare-and-set at external services (Vault, GitHub).

### Components

**Controlled proof** (`dev-integration/profiles/temporal/controlled_proof`,
`scripts/platform_drill.py`). A commissioning proof runs under a permit with a time
window.
- *State*: consumption receipt, operator-scope lease, execution claim, OOS and WGCF
  owner contexts, executor checkout, run.yaml and its phase files, evidence files,
  stopped draft, exception, cleanup retry, result; the namespace of the scope.
- *Operations*: capture-baseline, build-claims, issue-permit, snapshot, execute,
  verify-runtime-action, controlled-cleanup, controlled-exception,
  controlled-finalize.
- *Interaction*: snapshot and execute share files under two different locks; the
  runtime script asks the ledger for authority before it mutates a scope; the closing
  commands share run.yaml without a lock.
- *Hard*: crashes between any two files, expiry in the middle, retries, two permits
  of one scope.
- *Correct if*: a permit is used once, a scope belongs to one permit while anything
  is installed in it, a session ends with evidence that is true and never replaced.

**Generic platform drills** (`scripts/platform_drill.py`). The same run directory for
drills by hand: snapshot, attest, activate, verify, record, restore, status. Up to
five files per command, in place, no lock. *Correct if* the files agree with each
other after any crash, a drill is attested before it is activated, and is restored as
a whole.

**Console operation provider**
(`products/governance-operations-console/scripts/platform_operation_provider.py`).
- *State*: one record per command, with the identity of its detached worker.
- *Operations*: submit, read, control (retry, cancel), worker, reconcile.
- *Interaction*: requests and workers share the record under its lock; workers share
  a guard with artifact recovery; releases go to GitHub.
- *Hard*: a worker killed between its effect and its receipt, a worker that outlives
  its recorded identity, controls that race the worker, replayed controls.
- *Correct if* owner commands do not overlap, a receipt tells the truth, a final
  state stays, and no lost worker stays active.

**Release dispatch** (`console_release_dispatch.py`, part of the provider). Dispatches
a native GitHub workflow once and then reads its run, review, branch and main.
*Correct if* one request starts one run, whatever is lost, and its receipt is true.

**Artifact recovery** (`console_artifact_recovery.py`,
`scripts/runtime_artifact_integrity.py`). Repairs corrupt image caches.
- *State*: a journal, one incident per image, the owner guard, the consumers.
- *Operations*: activation, timer tick; the helper's check, repair, confirm.
- *Hard*: the helper is a root process that outlives its caller; the journal and the
  incidents are different files of different owners.
- *Correct if* an image is removed once per incident, never below a running
  consumer, never beside owner work.

**Complete Console runtime** (`console_complete_runtime.py`,
`console_durable_composition.py`, `console_workflow_credentials.py`).
- *State*: the resolved policies, the marker active.json, the online marker, units and
  drop-in, bindings and Secrets of the deployments, durable generations, receipts.
- *Operations*: activate, restart, verify-operating, status, suspend, rollback,
  cleanup, teardown, the renewal timer and the retained supervisor.
- *Interaction*: one lifecycle lock; the status command, the timer before its lock,
  the provider process and systemd run beside it.
- *Hard*: a late renewal after a rollback, a provider with an earlier decision, a
  withdrawal that fails half way, a kill between a new Secret and its rollout.
- *Correct if* what a receipt says was withdrawn stays withdrawn, an activation is of
  one decision, and the token never ages out.

**Cross-domain activation of the Console** (`console_cross_domain_activation.py`,
`console_frontend_artifact.py`). Twelve commands from prepare to commissioning that
install units and tunnels, bind keys and identities, disconnect owners to rehearse
their loss, and rebuild a damaged standalone artifact.
*Hard*: a check that fails while an owner is cut off, an answer that is lost and asked
again, a repair that dies at any of its writes. *Correct if* nothing stays cut off, a
mutation is applied once, an artifact is repaired once and never under its reader.

**Identities and credentials** (`scripts/*_identity.py`,
`scripts/agent_source_*.py`, `console_workflow_credentials.py`). Installation tokens
of GitHub Apps, in Secrets, files and pods: issue, refresh, suspend, revoke, read back
against GitHub. *Hard*: partial revocation, a renewal beside an operator, lost
answers of a mint. *Correct if* a revoked token is dead, a delivered one is mounted,
and a runtime that is needed is there.

**Development sessions** (`scripts/dev_integration*.py`,
`dev-integration/compositions`). Session manifests, host services with process
identities, compositions with compensation, login units that resume after a restart of
the host; up, suspend, down, reset, restore, smoke. *Hard*: processes that outlive
their record, partial failures of an ordered composition, overlapping runs. *Correct
if* one service has one process, the record describes the session, and the host comes
back with what was up.

**AI gateway** (`dev-integration/profiles/governed-ai-gateway/runtime`).
- *State*: revisioned model configuration, connections with their keys in Vault,
  login records, the invocation journal, the audit.
- *Operations*: command, credentials, reconcile, restore, sign in, invoke, route.
- *Hard*: lost and late answers of Vault, replays, revision races, a key that is
  rotated while it is used.
- *Correct if* a retired connection has no key and gets none, an offered one works,
  nothing refers to a removed one.

**Temporal profile** (`dev-integration/profiles/temporal/scripts`). Dumps, restores,
generation retirement: an ordered cutover with manifests and receipts.

**OpenClaw, OpenProject, validators, hosts and charts.** Working-tree rewrites,
idempotent configuration, pure checks and declarative files; no state machine.

`PROJECT.json` ("components") lists all of these file by file with a status, and
"hazards" the places where the code is hard to test, each with the properties that
cover it.

## 2. Plan

Done, in this order:

1. `CommissioningPermit`, `PermitLedger`: the permit, the most dangerous operation;
   with the abstract specification and the refinement.
2. `ProofSession`: what the executing process and the closing commands leave behind.
3. `OwnerOperation`: provider, workers and repair.
4. `ArtifactRecovery`: the other side of the repair.
5. `ReleaseDispatch`; `LedgerProofs`, about it and the permits.
6. `ProviderConnections`.
7. `ConsoleRuntime`, `ConsoleActivation`: the two large lifecycle scripts of the
   Console; `ConsoleRuntimeProofs`.
8. `RuntimeIdentities`, `AgentSource`: custody of the tokens.
9. `HostServices`, `DevSession`: host services, profiles and compositions, with the
   automatic resume.
10. `GenericDrill`, `Drills`: drills by hand, and the run directory of either kind.

11. `CodexAccount`, `Backends`: sign-in and account of the gateway, invocations, and the
    two ways a backend is reached.

Next, by weight of the code and of its hazards: the publication of products, on top of
`ConsoleActivation`; retirement and restore of the Temporal generations.

The safety properties of the controlled proof, drills, provider, artifact recovery,
release dispatch, gateway, runtime identities, agent source, host services, development
sessions and of the Console's complete runtime and activation have proofs: every invariant
and every action property that a run checks. All modules are written for this: constants
with named assumptions, types as sets of records, no RECURSIVE operator, one action per
step.

## 3. Modules

An action is what a process does between two points at which another process, or a
crash, can come in: usually from one durable write (or external call) to the next. A
document is a member of a small set: what is kept of it is what a later step decides
on. Refusals by validation of content that is left out are one nondeterministic
refusal. Long commands are lists of named steps (`todo`), one action per step; a
failure or a kill can come before any of them.

Small operators such as `ScopeIsFree` and `AnyScope`, next to each other, are the
guard of the code and a plausible mistake in its place; the model uses the first, and
`PROJECT.json` ("mutants") shows that a property is violated with the second.

A module's properties are folded into few names: `LeaseCovers` of `PermitLedger` is
its type invariant with three invariants that its proofs also state one by one, and so
in the other modules. Section 4 lists the parts.

### PermitLedger, CommissioningPermit

`CommissioningPermit` is the promise: a permit goes issued, consumed, leased, claimed,
spent; a scope is leased to one permit; its runtime is installed and removed by that
permit only.

`PermitLedger` is the code: the files `receipt`, `oos`, `wgcf`, `lease`, `claim`, the
run directory and the checkout, the clock, and the steps of the snapshot (`snap`) and
execute (`exec`) command of each authorization.

| Actions | Code |
|---|---|
| `SnapshotBegin`, `SnapshotConsume` | `consume_authorization` and the checks before it |
| `SnapshotInspect`, `SnapshotRemove`, `SnapshotMkdir`, `SnapshotCommit` | `recover_incomplete_controlled_run` and the snapshot command of `platform_drill.py` |
| `ExecuteBegin`, `ProjectOos`, `ProjectWgcf` | `cli.py`: lock, owner contexts |
| `ResumeClaim`, `AcquireLease`, `WriteClaim` | `claim_execution` |
| `CheckOut`, `AuthorizePrepare`, `InstallRuntime` | executor checkout, `verify_runtime_action`, the runtime script |
| `CleanupBegin`, `AuthorizeRemoval`, `RemoveRuntime`, `VerifyBaseline` | controlled-cleanup and the restore of an execution |
| `ReleaseLease`, `DropSource` | release of the scope lease, removal of the checkout |
| `SnapshotCrash`, `ExecuteCrash` | the process is killed; its lock is dropped, its files stay |

Files are created through a hard link, so they appear whole (`authority.py`); a crash
inside a write is a crash before or after it. The removal of a run directory is not
atomic and has a partial state.

The abstract permit is read off the files by `PermitOf`; that every step maps is
`ImplementsPermit`, checked by TLC and proved.

### ProofSession, GenericDrill, Drills

`ProofSession` zooms into the one process that `PermitLedger` lets hold the scope, and
adds the three closing commands. `exec` carries the step, the failure and the outcomes
of the running execution, `evidence` the terminal files, `run` what run.yaml says, and
`cmd` the copy of run.yaml each closing command loaded at its start and writes back
whole (`platform_drill.py:1450`). `Finally` is the `finally` block of the executor: it
cleans up whatever failed before, and `CloseRun` writes a result if it is valid, and a
stopped draft otherwise. Evidence names are exclusive, so `RecordOutcome` fails on a
name that exists. Scenario contents are left out: an outcome is passed, failed or not
run, in the window or late.

`GenericDrill` is the drill recorded by hand. A command (`OpenRun`, `AttestBaseline`,
`ActivateRun`, `VerifyCheck`, `RestoreSurface`, `RecordEvidence`) reads the five files of
its run, computes their new contents and then writes them, `WriteFile` by `WriteFile`:
run.yaml first, in place, so that `KillCommand` can leave a file of the old content, of the
new one, or without content. `Contents` is what the five files can say under a contract.
`open` remembers what a killed command was about until it is repeated. A killed attestation,
verification or restore is repaired by repeating it (`Repaired`), because its item is
replaced; a record is appended, so a killed one that is repeated is listed twice in run.yaml
and stays in `open` for good; a file without content leaves only `record` at work, and an
interrupted snapshot's run id cannot be used again. Commands of one run directory are taken
one after the other: overlapping ones, which nothing excludes, can lose each other's
updates, and a late attestation can put back an older baseline under a recorded activation.
The status "blocked" of a check and "exception" of a surface are one.

`Drills` composes the two: one run directory is a controlled proof or a generic drill
(`kind`, decided by the snapshot), and every command asks which.

### OwnerOperation

One command of the provider. `record` is its file; `process` and `child` are the
workers and their owner commands, separate because a worker can die and leave its
command to itself. `WorkerIsCurrent` is the comparison of pid, boot and start time: a
dead worker stays a zombie, with its identity, until the provider next starts a
process (`Reap`), and the code does take a zombie for a worker.

| Actions | Code |
|---|---|
| `Submit`, `Read`, `Retry`, `Cancel` | `ProviderService.submit`, `read`, `control`; each under the record's lock |
| `Defer`, `Deferred`, `Start`, `Reject`, `Leave`, `ChildEnds`, `Finish` | `run_worker` and its critical sections |
| `Kill`, `Reap`, `Reboot` | signals, `waitpid`, the host |
| `RepairGuard`, `RepairDeferred`, `RepairWork`, `RepairEnd`, `Confirmed` | the exclusive guard, `assert_idle` and the journal of artifact recovery |

`kind` says whether the action runs inside its worker and whether it is exempt from
the block of recovery.

### ArtifactRecovery

The adapter (one at a time under the lifecycle lock), the root helper it starts, and
the provider's owner work as the guard and the journal see it. `adapter.at` walks
through `startup` or `maintenance`, the helper through check, repair and confirm image
by image; a replacement is incident file, removal, pull, verification, in this order.
`consumers` says for each image whether its pods are there and ready; the helper lists
them once when it starts (`helper.ready`), and `confirm` refuses only if one that it
listed is unready: with no pods at all it closes. A quiescence scales the consumers of
the images it found broken, one controller after another, so a failed or killed one has
stopped some of them. `Probed` is the readiness that Kubernetes reports. `AdapterKilled`
leaves the helper at work without the guard. `removals` is a history variable.

Simplified: one image per repository, so that an image is missing only by a repair of
its own; automatic repair is enabled; an incident of the frontend artifact is a
refusal that can happen at any time.

### ReleaseDispatch

One release request. `call` is the request that holds the record's lock, with its copy
of the record; `record` changes only where the code writes it. `Mark` is the
write-ahead marker, `PostAccepted`, `PostRefused` and `PostLost` the dispatch, then
`Answered`; a reconciliation finds the run by number or in the listing
(`RunActive`, `RunCompleted`, `RunUnknown`), reads reviews, effect, branch and main one
after another and writes what it finds. GitHub and the people there are external:
`Starts`, `Listed`, `RunEnds`, `ReviewMoves`, `MainMoves` move between any two
readings.

### ProviderConnections

One API connection of the gateway: `item` and `ops` as the file has them, `vault` with
the version that compare-and-set tests, `late` the writes that were given up and may
still arrive, `config` the reference in the model configuration. `Disconnect`,
`Remove`, `Reconnect`, `Credentials` and `Reconcile` begin a call; `ReadKey`,
`WriteKey`, `ReadAgain`, `Recover`, `Fence`, `Tombstone`, `Finish` are its steps, each
ending where Vault or the file is written. Uses and admissions hold the lock of the
connection, reconciliations do not.

Simplified: the expected revision of a connection command (a stale client changes
nothing), routes, policies and verification of models, the Vault version shown in
receipts (read only).

### CodexAccount, Backends

`CodexAccount` is the dedicated account of the native provider: `account` and `drifting`
are its Vault entry and the writes that were given up, `projection` and `slot` the file
lock of the account and the process slot, both taken without waiting and in different
orders by sign-ins, invocations and probes. `login` is the record of each sign-in,
`signIn` the thread of the active one with the steps of `_run`, `cancelling` the time
between the two locks of a cancellation. An invocation has its `journal` entry before
anything is sent; `handler` walks through its route, with the submission of the turn
(`SubmitTurn`, `SubmitOther`) as the point after which nothing may fall back; `turns`
counts submissions. `Persist` has the outcomes of a Vault write: applied with or without
its answer, refused, lost, or late (`Drifts`). `ServerDies` drops threads, locks and slot
and keeps records, journal and Vault.

A backend of the other kind (a local model, an API) can refuse before it is asked
(`PassOver`): it is busy, its identity does not match, or, for a local model, the reading
of its version and models times out, which counts as an unknown completion. Asked, it
answers, fails or loses its answer.

Simplified: what an account contains is the sign-in it is from.

`Backends` composes the two kinds of backend, as `native` says: they share no state, so
a backend of one kind is checked beside nothing of the other.

### ConsoleRuntime

The complete runtime. `op` is the command that holds the lifecycle lock, with what it
has left to do; `Plan` gives the steps of each command in the order of the code, the
withdrawals shared by rollback, cleanup and teardown. A failing step aborts an
activation and is only noted by a withdrawal (`Note`), which then leaves no receipt.
Beside the lock: the status command (`StatusReads`, `StatusWrites`), a renewal between
its timer and the lock (`Tick`, `Refresh`, `Busy`), the provider process that systemd
restarts with whatever policy is on disk, the retained supervisor (`Delegate`,
`Activate`), reboots. A Security decision stands for the whole source set it binds;
files and processes hold the decision they were made from, which is what
`ActivationIsWhole` compares. `op.seen` is what a rollback saw of the Secret: the code
takes a failed reading for an absent one, and only a rollback that saw it claims it
gone.

### ConsoleActivation

The twelve commands of the cross-domain activation, built from steps in the same way;
`commission` is eight of them in one. A disconnection may fail after it took effect
(`FailedCut`: the scaling to zero was applied and its wait failed, a unit was stopped and
the command failed), which is before the `try` whose `finally` reconnects: it then leaves
its reconnection in `broken`. One that succeeds arms it (`arm`), and whatever fails after
that carries it out; if it fails itself or is killed it is in `broken` too. `frontend`
holds, per revision of the checkout, the artifact, its incident and what was quarantined;
`console` the revision the unit names and the one its process serves. `Mutate` asks up to
three times when an answer is lost, with one acceptance id. The environment moves the
checkout, ends the session, damages files, stalls and recycles tunnels, and stops and starts
the Console.

### RuntimeIdentities

Tokens at GitHub (`live`, `aging`), Secrets with the session they are bound to, the broker
and the readiness runtime as template and pods, per identity, an operator's command and a
tick of the renewal timer. A token is named by who minted it, for which identity and when
(`Token`), as GitHub's tokens are distinct. The three kinds of identity are the three
delivery scripts; each has its steps in the order of its script, the removal in two orders
(the cleanup of a failed delivery, and a revocation). The renewal reads all Secrets, mints,
replaces those that did not change since it read them (`Replaced`, compare and set), rolls
out, and gives back what it did not project. `renewal.force` is the renewal that the
verification of the operating runtime asks for: it replaces every token of the group, one
that was delivered just now included. The template carries the token it was stamped with
(`stamp`), the pods the one they mount (`mount`).

### AgentSource

One Landing Unit: the approved intents the provider executes and the maintenance commands of
an engineer. `token` is what became of each token at GitHub, `file` the projection, `state`
the unit's intent file with its pending entry, `run` the command that holds the projection
lock. A mint can lose its answer or its process; `Window`, `Uncertain` and `Close` are how
the code lives with a token it cannot name: it waits an hour from the announcement of the
mint (`started`). GitHub's hour starts at the mint, which comes later, by at most `Delay`:
the time a request can be under way, which the client bounds
(`repository_provider_identity.py:218`). A request whose command gave up or was killed may
reach GitHub at any time up to then (`Arrivals`); the maintenance delivery announces
nothing, and its request is not bounded. The file of receipts of superseded intents is
`former`. Simplified: session ids, alias files and the checks of payloads are left out;
admission is the one of the reviewed Workspace inventory.

### HostServices, DevSession

`HostServices` is the record of a declared host process, its leader, its group and the
lock of its profile; `Identity` compares process id, start time and boot. `DevSession`
extends it with profiles and compositions: a `slot` is a command in flight, the steps of
one profile command in `steps`, the profiles a composition still visits in `todo`, with
compensation (`undo`) when one fails. `Resume` is a login unit of systemd, which grants
three starts in ten minutes (`Burst`). `meddled` are profiles on which a direct command
or an overlapping composition acted: nothing in the code excludes those, and the
statements about the composition's record except them. `lost` are processes whose
starter was killed between the spawn and the write of the record. A process is known by
the number of its start, and a start takes a number that stands for none (`Unused`): what
lives and what is recorded is finite, so there always is one.

## 4. Runs and bounds

| Run (module) | Distinct states | Asks |
|---|---|---|
| `permit_ledger` (MCPermitLedger) | 1,615,050 | Does the ledger keep a permit single-use and a scope exclusive, with crashes anywhere, and implement the abstract permit? |
| `proof_session` (Drills) | 1,273,621 | Does a run directory, controlled or by hand, agree with itself and end with true and immutable evidence, whatever fails, expires, overlaps or is killed? |
| `owner_operation` (OwnerOperation) | 664,734 | Do workers, controls and the repair keep owner commands apart and receipts true? |
| `release_dispatch` (ReleaseDispatch) | 101,386 | Does a request start one run and end with a true, final receipt? |
| `artifact_recovery` (ArtifactRecovery) | 2,204,280 | Is an image removed once, with its consumers down and owner work out, and its incident closed only when its bytes were compared? |
| `console_runtime` (ConsoleRuntime) | 228,021 | Does a withdrawal withdraw what its receipt says, is an activation of one decision, does the token stay fresh? |
| `console_activation` (ConsoleActivation) | 1,455,299 | Does a rehearsal reconnect what it cut, is a mutation applied once, an artifact repaired once and never under its reader? |
| `runtime_identities` (RuntimeIdentities) | 3,755,374 | Is a token delivered, mounted, renewed and revoked as the receipts say? |
| `agent_source` (AgentSource) | 4,121,356 | Is every token of a unit accounted for and a revoked one dead, with lost mints and kills? |
| `dev_session` (MCDevSession, DevSession.cfg) | 421,921 | Does the host come back after a restart with what was up? |
| `dev_overlap` (MCDevSession, DevOverlap.cfg) | 3,594,176 | Has a service one process and does the record describe the session, with two commands at a time? |
| `gateway_backends` (MCBackends) | 756,938 (with symmetry) | Do the gateway's records agree with Vault, does an invocation submit one turn, is what is over over? |

### What each property says

| Property | Its parts, in words |
|---|---|
| `LeaseCovers` | types; a claim follows a consumption; a runtime, and every step that mutates it, is under the lease of its permit |
| `NoForeignRemoval`, `SpentForever` | no permit removes another's runtime; a spent permit stays spent |
| `ImplementsPermit` | each step of the ledger is a step of `CommissioningPermit` or none |
| `SessionIsAccounted` | a released scope is empty and stays so; a result or a cleanup is recorded only about a released scope; no execution ends in its window without a draft or a result, unless killed |
| `RunFilesAgree` | run.yaml claims no more than the evidence; the evidence pack and the ledgers of a drill agree item by item, but for the item of a killed command, and run.yaml lists every record the evidence lists |
| `DrillIsWhole` | an activated drill has every surface attested; a recorded restore has restored or excepted every surface of the scope |
| `ResultIsFinal` | a result is written once and passes only about a whole proof |
| `StoppedSessionCloses` | a stopped session in its window gets its result |
| `WorkersExclude` | one owner command at a time, none beside a repair, one worker per control, a cancellation stops the work |
| `OutcomeIsReal`, `FinalStates` | a succeeded record had its effect; a final one stays |
| `LostWorkerIsReported` | an operation whose worker was lost does not stay active |
| `AtMostOneRun`, `ReceiptIsTrue`, `ReceiptIsFinal` | one run per request; effect "none" and success are so; a receipt stays |
| `MergeIsFound` | a merged change leads to a receipt |
| `RepairIsExclusive` | an image is removed once until its incident is closed; ordinary owner work and a replacement never overlap |
| `ConsumersHaveImages`, `ClosedWhenVerified` | consumers never run while the removal of their image is unfinished; an incident closes only after the bytes of its image were compared, with all images there and no consumer that was listed unready |
| `RollbackIsComplete` | what the receipt of a rollback, cleanup or teardown says is gone is gone, and stays so until the next command |
| `ActivationIsWhole` | policy, activation, marker, Console and provider of an active runtime are of one decision |
| `GenerationIsSound` | no worker of a retired durable generation runs |
| `TokenIsMaintained` | a delivered token that ages is replaced and rolled out |
| `DisconnectionEnds` | with no command at work an owner is connected, unless its own disconnection failed after it took effect, or its own reconnection failed or was killed |
| `AddedOnce` | an acceptance is applied once, whatever answers were lost |
| `RepairIsSound`, `ServedStays` | an artifact is repaired once until its repair was served and verified; the artifact a process serves is not moved away |
| `ReadinessCovers` | a broker that serves a workflow has a readiness runtime that serves it |
| `RevocationHolds` | a revoked identity stays out of Secrets and pods whatever a renewal had read; without failed calls a Secret never holds a revoked token |
| `DeliveredIsMounted` | a delivery is reported when the pods mount the token minted for it and GitHub accepts it, or, if a renewal replaced that meanwhile, it or the renewal's, never the one before; without failed calls GitHub accepts what they mount |
| `RevokedIsDead`, `TokensAreSound` | after the receipt of a revocation no token of the intent works, and never do two tokens of the unit, but for a token that is not on file, in its last `Delay` |
| `ResumeSucceeds` | a composition whose unit is registered is active again after a restart of the host |
| `OneProcess` | each live process of a service is the recorded one, or the one its starter is about to record |
| `SessionIsRecorded` | a composition recorded as active runs with the credential on disk, as suspended does not run and is not started at login |
| `CredentialIsCurrent` | the key on offer or in use is the one in Vault; a sign-in that says connected put its account there, a cancelled one never does |
| `RetiredIsGone` | a retired connection has no key and gets none; nothing refers to a removed one |
| `InvokedOnce` | an invocation submits one turn at most; a suggestion answers one, none was submitted when no fallback was left, and after one no other backend is tried |
| `EndsAreFinal` | retired connections, finished operations, replaced accounts, ended sign-ins and answers stay |

The exceptions some of them make (a kill, a meddled profile) are in their definitions,
and section 7 says what happens there.

### Bounds

- `permit_ledger`: two permits and one scope are the least that can compete; the
  second window opens later and overlaps the first, so one may be expired, in its
  reserve, or early while the other is not. Crashes are not bounded. `MaxTime` stops
  the clock at the end of the first window; three instants give before, in and after
  the restore reserve of each permit.
- `proof_session`: two scenarios (`Proofs`) and the restore, so that a failure can be
  the first, a later one or the last; three instants for in the window, in the reserve,
  expired; one kill of an execution (`MaxCrashes`). For a drill by hand two surfaces
  (`Units`), so that a restore or a scope can be partial, one check, two free records (a
  killed one and its repetition), and one kill (`MaxKills`) between or inside the five writes; the repair after the
  kill is a second command.
- `owner_operation`: three workers allow a retry beside a surviving worker and one
  more; two crashes the kill of a worker and of the provider or host after it.
- `artifact_recovery`: two images, each with its consumers, allow one repaired and one
  not; the third fault can hit the same image in the same incident; two kills hit the
  adapter and its retry.
- `release_dispatch`: `MaxRuns` = 2 lets a second run exist if the code started one;
  two crashes hit the dispatch and a later reading; two keys a new and a replayed
  cancellation.
- `console_runtime`: two decisions, so that a process, a file or a marker can be of
  the other one; two commands besides the reconciliations and timers, which are not
  bounded (an activation and a withdrawal, or a withdrawal that failed and its
  repetition); one fault (a kill, a reboot or a failing step anywhere). `Durable` adds
  the generations.
- `console_activation`: two revisions of the checkout, so that the artifact and the
  process that serves it can be of different ones; two commands, of which one may be
  the commission with its eight parts; two faults: a damage and a kill of its repair,
  or a lost answer and a failing check.
- `runtime_identities`: one identity of each of the three kinds of delivery, so that a
  renewal replaces one while another is being delivered or revoked; one renewal, forced
  or not, beside two commands, two sessions for the two sides of a session's end, one
  fault.
- `agent_source`: three tokens (the old, its replacement and one whose mint lost its
  answer); three instants with a lifetime of two, renewal after one and the expiry of
  an intent at three: a token can be young, due, expired, and the intent expire below
  a live token; a mint of one instant (`Delay`), so that a lost token can outlive the
  wait for it; four requests are issue, renew, suspend or withdraw, and the revocation;
  two faults a lost mint and the kill of what follows.
- `dev_session`: one command at a time, all five kinds, two profiles of which one is
  hosted on the host and one keeps data; two commands, one restart of the host, one
  moved checkout, two faults.
- `dev_overlap`: two commands at a time, up and down only, no moved checkout: the
  interleavings. The two are separate because one run with the bounds of both has more
  than five million states.
- `gateway_backends`: four operations are a key, a retirement, a reconnection and
  another key; two keys tell the old from the new; three later revisions register,
  remove and register again. Two sign-ins let one replace the account of another while
  the one refresh is late; one invocation contends with a sign-in and a probe for the
  lock and the slot, and is asked again after the one fault (a death of the server or a
  write that fails). Identities are interchangeable and no liveness property is
  checked, so symmetry is sound.

Deadlock checking is off in every run: a permit expires, a session or an operation
ends, commands and faults are used up, and what is left is a system that may stop.

Every property has a mutant (`PROJECT.json`, "mutants"): a definition of the model
replaced by a plausible mistake in the code, under which TLC finds the property
violated with the same configuration.

## 5. Fairness

Runs whose specification is an initial condition and steps assume nothing; they check
safety. Five runs check liveness:

- `proof_session` (`DrillsFairness`, the fairness of `ProofSession` restricted to
  controlled proofs): a process that runs keeps running (WF of `ExecuteStep` and of each
  closing command's steps), and the operator records the exception and finalizes, again
  after a kill (WF of `Load`). Nobody is assumed to execute or to retry a cleanup.
- `owner_operation`: the Console polls its operations (WF `Read`), and its catalogue
  makes the provider start processes, which reaps dead children (WF `Reap`). Owner
  commands and repairs may take for ever.
- `release_dispatch`: the Console polls and a call goes on (WF `Read`, `CallStep`).
  That GitHub answers a reading that is tried again and again, and lists a run in the
  end, is assumed of GitHub (SF `RunCompleted`, `Reviews`, `Effect`; WF `Listed`).
- `console_runtime`: a started command goes on, systemd restarts the provider and the
  supervisor and fires the timer (WF `Step`, `Activate`, `Tick`, `ProviderRestarts`), and
  a renewal that finds the lifecycle lock free again and again takes it once (SF
  `Refresh`): operators do not hold the lock at every tick for ever.
- `dev_session`: a command in flight goes on (WF of the steps of each slot), and systemd
  starts an enabled login unit that may be started (WF `Resume`). Nobody is assumed to
  give a command.

No fairness is justified for the others: nothing makes anybody activate a runtime,
retry an operation of a connection, close a rehearsal or run a renewal of a unit.

## 6. Proofs

Every proof module extends the modules it is about and holds for every value of their
constants: any nodes, keys, images and tokens, and any number of attempts, crashes and
faults. Each has one inductive invariant, checked by TLC on the run of its module before
it was proved; one lemma per action, or group of actions, says that the step keeps it;
the properties follow from it. A `NoneAssumption` (in the permits `AbsentAssumption`) says
that the value for "absent" is none of the values it stands beside.

### LedgerProofs

The permits of `PermitLedger` and the release requests of `ReleaseDispatch`: in both a file
written before an effect is what keeps it from happening twice.

**Permits.** From `ScopeAssumption` (every authorization has a scope), `WindowAssumption` (windows
and reserve are naturals) and `AbsentAssumption` (an absent file is no file).

The invariant `LedgerInv` is `LedgerTypes`, the two invariants `ClaimFollowsConsumption`
and `RuntimeUnderLease`, and what makes them inductive: `ReceiptInv` (a receipt is
dated no earlier than its window and not in the future), `LeaseInv` (a lease belongs to
a consumed permit of its scope, was taken after its consumption and with the reserve
left, and is the one its claim binds, if there is a claim), `StepInv` (what a process at
each step knows: the timestamp in its memory, that its lease is still there). The
delicate point is the time between the lease and the claim: a crash there leaves a lease
without claim, a retry must resume it with the time it was acquired, and no other permit
can take the scope meanwhile.

Theorems: `LedgerTypeCorrect`, `ClaimsFollowConsumption`, `RuntimesUnderLease`,
`MutationsUnderLease`, together `LeaseAlwaysCovers`; `NoForeignRemovals`,
`SpentStaysSpent`; and `LedgerImplementsPermit`: each concrete step is a step of
`CommissioningPermit` or a stutter, with one lemma per abstract step (`ConsumeMaps`,
`AcquireMaps`, …).

**Release requests.** From `DispatchAssumption` (the bounds are naturals, `None` is no run) and
`NoneAssumption` (`None` is no receipt and no record).

The invariant `IInv` has, next to `TypeOK`: `Sound` of the record (a prepared record
has started nothing; "failed without effect" likewise; "applied" means merged, "no
change" a run that succeeded), `CallSound` (the copy of a call is sound, the record of
an open call has no receipt, and at the post the marker is on disk and nothing was
started), `RunRead` (after the run was read, its conclusion stays what was read), and
`GithubSound` (all started runs are the same one, and nobody but a run that ended
makes a review). The argument: only a call at `post` starts a run, it gets there only
from a prepared record, and the marker makes the record not prepared before. A crash
loses the copy and keeps the marker.

Theorems: `Invariant`, `TypeCorrect`, `OneRun`, `NoEffect`, `RealSuccess`, together
`TrueReceipts`; `FinalReceipt`. `MaxRuns` and `MaxCrashes` are arbitrary, so these are
not about a bounded number of attempts.

### OwnerWorkProofs

The two sides of the guard between owner work and repair: `OwnerOperation` and
`ArtifactRecovery`. Names of the second that the first has too begin with `Recovery`.

**The operation provider.** From `OperationAssumption` (the bounds are naturals) and
`NoneAssumption`.

A worker that is alive or has its command at work is `Busy`; the one the record counts on
is `Own`; all others are `Stray`. The invariant says that there are at most as many strays
as there were crashes (`StrayInv`), which is how "owner commands do not overlap" becomes
inductive: a worker is started only when the record is lost or queued anew, and then the
one before it is dead, cancelled and terminated, or a stray that a crash has made. Beside
it: a worker that was not started has no command (`ChildInv`), without a crash a worker
executes the attempt of the record (`AttemptInv`), the repair has the guard for itself
(`GuardInv`), every worker was asked for by a control of its own (`SpawnInv`).

Theorems: `Invariant`, `ExclusiveWorkers`, `RealOutcome`, `FinalOutcome`.

**The repair of the image caches.** From `RecoveryAssumption` (finitely many images) and
`NoReplacementAssumption`.

The incident files carry the argument for the images: what is missing from a cache has an
attempted incident, and an attempted one is not removed again (`IncidentInv`,
`ReplacementInv`). Consumers: an image is missing only while its own are down and the
helper fetches it, or until the next run of the adapter asks the helper (`MissingInv`), and
consumers start only after it was asked, by a run that has the helper for itself
(`CallInv`). A confirmation does not look at the phase of an incident, so that none it
closes was only attempted needs an argument of its own (`OpenInv`): an attempted incident
is one the helper has still to repair, and a run of the adapter that has checked since knows
its image as corrupt, and repairs it before it confirms. Owner work: the
guard keeps it out while the adapter lives, and the journal (`repairing`) when its helper
survives it (`OwnerInv`).

Theorems: `RecoveryInvariant`, `ExclusiveRepair`, `ImagesForConsumers`, `VerifiedCloses`.

### CredentialProofs

What keeps credentials: the connections and the account of the gateway, and the source
credentials of a Landing Unit.

**Connections and account.** From `ConnectionAssumption` (finitely many operations,
revisions are naturals, `None` is no operation, key or number), `NoneAssumption` and
`AccountAssumption` (no sign-in is called "none" or "refresh", no request "free", "signIn"
or "probe").

Connections, with the invariant `IInv`. The record of the connection and its pending
operation determine each other (`ItemInv`). A call knows at each step the operation it
works for and a version it has read (`CallInv`, `FinishInv`), which compare-and-set turns
into: what is in Vault is what the operation wrote (`WriteInv`). A write that was given up
can be applied only while an operation is pending that has not written (`QuietInv`), which
is why a connection at rest has the key it says or none (`GenerationInv`), during a use
too (`UseInv`). That no operation writes twice is counted: the version of the entry never
exceeds the number of operations that have written or will not write any more
(`CountInv`). `ConfigInv` says that a removal finds the configuration without references,
also a former one that could be restored.

The account, with the invariant `AInv`. `CustodyInv`: the account in Vault is of a sign-in
that wrote it, a late refresh is of an account that was there, and if it names the present
version, of the present account; so a late refresh never puts back a replaced account.
`ProjectionInv` says the same of what was projected from Vault to the private directory.
`SignInInv` says which sign-ins have written nothing yet, and `InvocationInv` at which
steps the turn was submitted: at none from which another backend is tried. Of an answer
that is unknown it says nothing more, because a timed-out reading of a local model's
version ends an invocation so, too. The two kinds of backend share no state, and the composition
keeps both invariants.

Theorems: `ConnectionInvariant`, `KeysAreCurrent`, `BackendsInvariant`,
`CredentialsAreCurrent`, `RetirementHolds`, `OneTurn`, `OverIsOver`.

**Source credentials.** From `AgentSourceAssumption` (the bounds are naturals, a token is
renewed before it expires, and a mint is under way less long than a token lives). Tokens
are numbered, and a mint takes a number that was not
taken before.

A token `Lingers` when it is nowhere and ends within `Delay`; one that works and does not
linger `Holds`. `Custody`: of the tokens that hold and are not `shadowed`, there is one at
most, it is of the intent on disk, and it is the projected one or a lost one, which was
minted for the pending operation and of which nobody has the name; a lost one ends at most
`Delay` after the pending entry says (`Uncertain`), so that when the wait is over it
lingers at most. `RunInv` and `FileInv` say what the command at work has revoked,
removed and announced. Receipts stand for superseded or present intents (`ReceiptInv`), so
a revocation that waits out `Uncertain` leaves nothing that holds.

Theorems: `SourceInvariant`, `RevokedStaysDead`, `OneTokenWorks`.

### ConsoleRuntimeProofs

From `BoundsAssumption` (decisions are positive, commands and faults natural, durable
orchestration is on or off).

The commands are lists of up to 84 steps, and the proof does not go through them one by
one. `Follows` says which step may come after which, `Path` that a list of steps follows
it throughout and ends nowhere in the middle of a withdrawal; every plan is a `Path`
(`Plans`, composed with `Joining`), and what is left of a path is one (`Onwards`). So the
invariant speaks of the step at hand (`At`) alone, of whichever command it is.

`StateInv` holds whoever has the lock: the unit and the Console do not outlive the
activation policy together, the workers are of the generation on disk, which was not
retired. `DecisionInv` and `PolicyInv` say what a command past its checks relies on: a
decision not older than the generation, a policy on disk, a generation that may work.
`WithdrawalInv` says what a rollback without a noted failure has withdrawn when it comes
to each of its steps, ending with the whole of `RollbackIsComplete` before the receipt.
`ActiveInv` and `WithdrawnInv` are the receipts, with the steps at which the next command
can be before it takes them back: a renewal under an activation works for its decision,
because it was admitted only with that decision on disk, and one after a withdrawal ends
at the missing marker.

Theorems: `RuntimeInvariant`, `WithdrawalsAreComplete`, `ActivationsAreWhole`,
`GenerationsAreSound`.

### DrillsProofs

From `SessionAssumption` (a proof has a scenario, the times are naturals) and
`DrillAssumption` (the bounds are naturals). The run directory is of one kind, so there
are two invariants.

Controlled proof (`SessionInv`): `Scope` (executor and retried cleanup exclude each other,
a running execution holds the lease, a released scope is empty), `Closing` (what is
written at the end comes after every outcome), `Unfailed` (an execution that noted no
failure saw none, so that a passing result is about a whole proof), `Evident` (without a
crash and inside the window there is a draft or a result, or the first execution still
runs and has met no evidence but its own), and `Copies`: what each closing command loaded
from run.yaml is backed by files, also while another saves its own older copy.

Drill by hand (`DrillInv`): `InWork` says that what the running command will write differs
from what it read in its own item only (`SameBut`) and is agreed in itself, and `Writing`
which files already have it. `Agreement` compares the files outside the items of killed
commands, `Activated` says that a recorded activation is `OnBaseline`. The attempt to
prove this for any number of records is what showed that a killed record is not repaired
by its repetition (section 7).

Theorems: `RunInvariant`, `SessionAccounts`, `FilesAgree`, `DrillHolds`, `ResultStands`.

### RuntimeIdentitiesProofs

From `IdentitiesAssumption` (no identity is of two kinds, the bounds are naturals, there is
a session), for any identities of each kind.

As in the Console, a command is known by the plan it follows and its step at hand (`Kind`,
`Path`, `Step`). `CoverInv` and `OrderInv` are the order of the two deployments: the readiness
runtime is told to serve, and has settled, before the broker's template names a workflow, and
it is told to stop only when no pod of the broker serves it, on each of the four ways out
(revocation, suspension, the cleanup of a failed delivery, a kill at any step and the command
after it). `RemovalInv` is what a revocation has taken away at each step.

The tokens rest on `OldInv`: what a command or a tick has still to mint is nowhere yet, so
a token in a Secret tells when it was put there. From it follow the three ways a command and
a renewal meet: a renewal replaces only the Secret it has read, and what it read is then
not the token a delivery wrote (`DeliveryInv`), so that it neither overwrites nor retires it;
what it gives back was in no Secret and no pod (`FreshInv`); what it retires is in none any
more (`DoneInv`). A forced renewal may retire the very token of a delivery under way.
`MountInv` therefore follows what the delivery's rollout gives the pods (`Carried`, with
`PodsInv` for the age of what they mount): the token of the delivery, or that of the
renewal that replaced it in the Secret, and not the one before.
Without a failed call (`UnfailedInv`) nothing is left half done, and each Secret holds a
token that GitHub accepts, has aged, or is about to be deleted by the command that ended it
(`SecretsLive`, `Condemned`), and so do the Secret and the pods of a delivery
(`CarriedLive`, with `FreshLive` for what a renewal has still to project).

Theorems: `Invariant`, `Covered`, `Revoked`, `Delivered`.

### ConsoleActivationProofs

From `BoundsAssumption` of the module, for any revisions and any number of commands and
faults.

A command that has not failed follows a `Path`: a list of steps in which `Follows` holds
from each to the next, so that a rehearsal, a withdrawal and a repair have their steps in
order (`Plans`, one list joined to the next with `Joining`, and `Remaining` for what is left
of it). A command that failed has one step left, the reconnection it armed or its report
(`OpInv`), and a reconnection is armed only from the disconnection to the step that carries
it out (`ArmInv`). So what is cut is `Owed`: armed, or in `broken` because its own disconnection or
reconnection failed, whichever other steps fail (`CutInv`);
the units are removed only after they were disabled (`DisabledInv`), which is why the
reconnection of a withdrawn runtime is not asked for. `RepairInv` counts the repairs of an
artifact against its incident, `ServeInv` keeps the Console down from the stop of the
consumer to the quarantine, `CatalogInv` says that a mutation that is asked again was
applied.

Theorems: `Invariant`, `Reconnected`, `Once`, `Repairs`, `Undisturbed`.

### DevSessionProofs

From `DevSessionAssumption` (the order names every profile of the composition, the bounds
are naturals), for any composition, any number of commands in flight, and any number of
faults, restarts of the host and moved checkouts.

`Orders` says of each command in flight what its steps, its profiles still to do and its
stage can be (`Orderly`): what is left of a profile command is one of the `Rests` of its
plan, a composition that has not failed has each profile behind it or before it, and
compensation follows a failure.

The processes (`ServiceInv`). A lock of a profile is held by the command that is at the
spawn, the record or the probe of its service, and by nobody else (`LockHeld`). A living
process is then either the recorded one, with nobody at work on another, or the one the
holder of the lock is about to record (`Accounted`); this needs that a start whose record
was lost stays apart from both (`Unrecorded`). A restart of the host ends all of it at
once, and what a record says of another boot counts for nothing.

The record of the composition (`RecordInv`). `SessionIsRecorded` speaks of the end of a
run, and what makes it inductive is what a run has achieved before it: with which profiles
it is through, that their owner's command succeeded with the credential on disk, and that
no command on a profile alone has still to write what it changed (`ThroughInv`,
`CredentialInv`). Two runs at a time know that they are (`RaceInv`), and the second has put
all profiles among the `meddled`. The record of an earlier run does not count while another
is under way (`IntentInv`), and what finished last still holds (`FinishedInv`), which is
what the lifecycle in the record claims (`LifecycleInv`).

Theorems: `Invariant`, `ProcessIsSingle`, `RecordIsKept`.

### Only model-checked

All liveness: `StoppedSessionCloses`, `LostWorkerIsReported`, `MergeIsFound`,
`TokenIsMaintained`, `ResumeSucceeds`. It rests on fairness and on when actions are
enabled, which is out of the prover's reach, and stays with TLC.

## 7. Disagreements

Behaviour of the code that differs from a document or comment, or that a reader would
not expect. All of it is in the models; the properties leave room for it where they must.

**Controlled proof.**
- The recovery of an incomplete snapshot tests for a claim and then removes the run
  directory, under the snapshot lock only (`platform_drill.py:823`); its docstring
  (`:811`) says "Remove an uncommitted snapshot only before execution ownership exists."
- A draft whose restore ended after expiry is never accepted (`execution.py:1558`);
  `docs/components/temporal/operations.md` says of finalization "It may finish after
  permit expiry because it creates evidence only".
- After a kill before the draft, and expiry, no command removes the runtime
  (`platform_drill.py:1550`); the same page says that expiry "cannot prevent that bounded
  removal".
- A record command that was killed before its evidence is written and is repeated stands
  twice in run.yaml and once in the evidence (`platform_drill.py:1766`); nothing says that
  they may differ.
- A second execute under a held lease writes a failed result beside the stopped draft
  (`execution.py:643`). Execute does not require run.yaml (`cli.py:433`).

**Artifact recovery.**
- The command of a killed worker can be at work while the repair is
  (`console_artifact_recovery.py:136`); `operate-complete-runtime.md:187` says the repair
  must "wait for owner work and pending Helm rollback".
- A deferral overwrites an interrupted attempt in the journal (`:267`); the runbook says
  "Failed/uncertain attempts latch across restart".
- The journal says healthy in place of restored-awaiting-readiness without a
  confirmation (`:328`).
- A confirmation closes incidents also when no pod of the image is there, which is what a
  killed quiescence leaves (`runtime_artifact_integrity.py:493-498`): that the consumers
  run again is not among what it proves.

**Release dispatch.** The number of a run is stored before the run is verified
(`console_release_dispatch.py:203`); the next reading verifies it again. The key of a
cancellation is kept before its post (`:286`), so a lost one is not repeated by it.

**AI gateway.**
- A removal that failed after its backend command, while the backend was registered
  again, is answered command-conflict for ever (`provider_connections.py:214`);
  `docs/records/change-records/2026-10-30-provider-connection-history.md:65` says it "can
  be explicitly retried against current state".
- A sign-in whose first record cannot be written stays noted as active, and every later
  one is busy until the server restarts (`model_login.py:51`; action `StartLogin`).
- A sign-in may say failed although Vault took its account and only the answer was lost
  (`:140`), and one that says interrupted may still connect when its write arrives late.
- A local model whose version or inventory is not read in time ends the invocation as
  provider-completion-unknown (`ollama_adapter.py:246-258`, `task_routing.py:80-83`),
  although no turn was submitted and another backend could have been asked.
- An exception that is no adapter error, or an audit that cannot be written, leaves the
  journal of an invocation pending: it is answered "unknown" from then on.

**Development sessions.**
- A direct access, backup or promote-check rewrites the manifest without its composition
  (`dev_integration.py:534`); a direct down or up is then not refused, against
  `docs/runbooks/dev-integration-profiles.md:308-311`.
- A status after a successful down with a failing child writes degraded over suspended
  (`dev_integration_compositions.py:936-967`), and reset and restore are then refused.
- A service whose leader died while its group lives is not stopped before a new start
  (`dev_integration_host_services.py:617-625`).
- A failed down of a composition removes the login units of the profiles that it did
  bring down (runbook `:289-291`). One that was killed after it removed the credential is
  repaired by up only.
- Nothing excludes overlapping lifecycle commands, and the guard is tested before it is
  used; a kill between spawn and record leaves an orphan (`lost` in the model). A pending
  Helm operation refuses starts, and systemd gives up after three.

**Complete runtime** (`console_complete_runtime.py`).
- A rollback takes a failed reading of the Secret for its absence and notes no failure
  (1011-1015): `RollbackIsComplete` asks for the token only if the Secret was read.
- An unlocked status can write the online marker after a rollback removed it (2078).
- Restart does not bind the decision of the security owner again (2094-2124), and after a
  rollback starts the provider's unit without enabling it.
- A cleanup whose provider cannot be disabled still deletes the unit file and policies
  (2232-2241), so that no later cleanup or teardown succeeds.
- The operating proof's rollback, teardown and activation of the same decision are refused
  with durable orchestration (runbook `:372` and 985-989).
- A kill while the stale marker is being tried leaves the forged marker (2287-2304).

**Cross-domain activation.** Rollback removes console.env only with `remove_files`
(1537-1545), unlike `activate-cross-domain-awareness.md`; the aggregate of a commission
does not compare its children's source revisions; a kill during a rehearsal leaves
replicas at zero, and so does an ordinary failure of the scaling after it was applied
(1427 and 1455 are before the `try`; the wait or a reading in 1011-1031 fails): a later
rehearsal refuses; a kill between the rename of the
release and the note of the incident leaves it "attempted" for ever.

**Identities.**
- The prior token may end before pods mount its successor
  (`prototype_workflow_identity.py:1318-1330`; `prototype-landing-identity.md:27-29`).
- A forced renewal between a delivery's rollout and its receipt ends the token that the
  receipt is about (`console_workflow_credentials.py:286`), against the "Success therefore
  proves" of `workspace-intake-identity.md`; the pods then mount the renewal's.
- A lost token lives an hour from its mint, and the code waits an hour from the
  announcement (`agent_source_intent.py:271`, `:283`, `:320`): a revocation may be receipted,
  and another token minted, while the lost one still works for as long as the mint took.
- A revocation that races a renewal can delete a Secret with a renewed token, which lives
  until it expires. A plain or intake redelivery never revokes the previous token.
- A failed intake delivery deletes the Secret and leaves a volume that needs it. A lost
  answer in the renewal's replacement revokes the token that the Secret holds; the next
  tick repairs that.
- A maintenance delivery of an agent source ignores the state of the intent (`shadowed`
  excepts its tokens), a credential of it blocks even a revocation, and a withdrawal
  killed between revoke and unlink leaves a dead token that issue reports as current.

## 8. What is not covered

The components with status not_modelled in `PROJECT.json`: those without state
(validators, documents, schemas, read models), those that other systems carry out
(charts, playbooks, the OpenProject catalogue), sequences of calls by one operator
(OpenClaw, gateway scripts, model profile source changes), and two that have state and
are next in the plan: the publication of products, which adds a binding and its
rollback on top of `ConsoleActivation`, and the retirement and restore of Temporal
generations.

Inside modelled components:

- content of permits, claims, baselines, policies, evidence and responses: digests and
  schemas are pure checks, and each is a refusal or a failing step;
- the generic owner command that fails after a partial effect and is recorded with
  effect "none" (`platform_operation_provider.py:617`): the effect of a command on the
  world is not modelled;
- `PermitLedger` lets an execution run without a run.yaml, `ProofSession` starts with a
  committed run;
- an execution that creates a context while a snapshot removes or makes the run
  directory (`platform_drill.py:823`) makes the snapshot fail: the model has it, and no
  property asks that a snapshot succeeds;
- overlapping commands of one generic drill; reset and promotion of a development
  session; the middle of a run at a restart of the host (it is a kill followed by the
  restart); the owner script of a killed command that finishes later; `lifecycle.py`
  killed while it has scaled its service to zero;
- the commissioning of agent source repositories (a mint and a revoke of one token each),
  session ids and alias files;
- replays of invocations and the audit ledger as such, unrouted adapters, policies and
  profiles of the gateway; that the private directory of a projected account is removed;
  more than one server process.
