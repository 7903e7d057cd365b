-------------------------- MODULE ConsoleActivation --------------------------
(***************************************************************************)
(* The cross-domain activation of the Console                              *)
(* (console_cross_domain_activation.py), with the identity projection it   *)
(* issues (console_session_projection.py), the tunnels it supervises       *)
(* (console_backend_connection.py) and the standalone frontend it builds   *)
(* and repairs (console_frontend_artifact.py).                             *)
(*                                                                         *)
(* One command runs at a time (the complete runtime's lock, or the single  *)
(* operator) and works through "todo".  A rehearsal disconnects an owner   *)
(* and arms the step that reconnects it; commissioning strings eight       *)
(* commands together and restores availability when one fails.             *)
(***************************************************************************)
EXTENDS Naturals, Sequences, FiniteSets

CONSTANTS Revisions,  \* console revisions 1..Revisions, checked out in turn
          Commands,   \* operator commands the run explores
          Faults      \* steps that fail, answers lost, kills, damaged files

ASSUME BoundsAssumption == /\ Revisions \in Nat \ {0}
                           /\ Commands \in Nat
                           /\ Faults \in Nat

VARIABLES
  head,       \* the console revision checked out
  unit,       \* what systemd runs of each role
  stalled,    \* tunnels whose process runs and carries nothing
  enabled,    \* the roles that start with the host
  console,    \* the revision the console unit names, and the one served (0: none)
  frontend,   \* the artifact of each revision, its incident, what is quarantined
  key,        \* the WGCF reader secret: on disk, in the cluster, in the pod, in the env file
  identity,   \* the operator's session, and the projection of it
  replicas,   \* the deployments a rehearsal scales down
  catalog,    \* values the Catalog has gained
  op,         \* the running command
  evidence,   \* receipts: action, source revision, revisions of the children
  last,       \* the receipt the last command ended with
  broken,     \* the reconnections owed and not carried out
  spent

vars == <<head, unit, stalled, enabled, console, frontend, key, identity, replicas,
          catalog, op, evidence, last, broken, spent>>

Roles == {"oos", "wgcf", "console"}
Revision == 1 .. Revisions

(***************************************************************************)
(* The commands, as lists of steps.                                        *)
(***************************************************************************)
\* The served artifact is quarantined without a stop of its consumer.
PrepareRunning == <<"inspect", "attempt", "quarantine", "compile", "build", "note">>

Prepare == <<"inspect", "stopConsumer", "attempt", "quarantine", "compile", "build", "note">>
Proof == <<"activity", "catalog">>
Boundary == <<"served", "discard", "close">>

ActivateSteps ==
  <<"validate", "secret", "bind", "expose", "revokeOld", "issue", "environment">>
  \o Prepare \o <<"units", "enable">> \o Proof \o Boundary \o <<"activate">>

StatusSteps == <<"validate", "active">> \o Proof \o Boundary \o <<"status">>

RestartSteps ==
  <<"validate">> \o Prepare \o <<"units", "rollout", "relaunch">>
  \o Proof \o Boundary \o <<"restart">>

RefreshSteps == <<"validate", "tunnels", "retunnel", "probe", "refresh">>

RehearseSteps ==
  <<"validate", "cutTunnel", "seenLost", "joinTunnel", "activity">>
  \o Boundary \o <<"rehearse">>

CatalogSteps ==
  <<"validate", "active", "catalog", "add", "readBack", "edit", "staleDenied",
    "cutSession", "sessionDenied", "joinSession", "cutOwner", "ownerDenied",
    "joinOwner", "catalog", "cutReadiness", "readinessDenied", "joinReadiness",
    "cutBackend", "backendDenied", "joinBackend", "unchanged", "catalog",
    "activity">>
  \o Boundary \o <<"rehearsed">>

Withdrawal == <<"disable", "revoke", "conceal", "unbind", "preserved">>
RollbackSteps == Withdrawal \o <<"gone", "rollback">>
CleanupSteps == Withdrawal \o <<"files", "gone", "cleanup">>

\* What follows the commands of a commissioning, and is not restored from.
Conclusion == <<"activity">> \o Boundary \o <<"commission">>

CommissionSteps ==
  <<"validate">> \o ActivateSteps \o StatusSteps \o CatalogSteps \o RestartSteps \o StatusSteps
  \o RollbackSteps \o CleanupSteps \o ActivateSteps \o StatusSteps
  \o Conclusion

\* The receipts a Proposal Target commissioning is made from.
Children == {"activate", "status", "restart", "rollback", "cleanup"}

ProposalSteps == <<"validate", "children", "served", "activity", "proposal">>

VerifySteps ==
  <<"validate", "commissioned">> \o Proof \o Boundary \o <<"verified">>

VerifyProposalSteps ==
  <<"validate", "proposed", "children", "served", "activity", "verified">>

Plan(cmd) ==
  CASE cmd = "activate"        -> ActivateSteps
    [] cmd = "status"          -> StatusSteps
    [] cmd = "restart"         -> RestartSteps
    [] cmd = "refresh"         -> RefreshSteps
    [] cmd = "rehearse"        -> RehearseSteps
    [] cmd = "catalog"         -> CatalogSteps
    [] cmd = "rollback"        -> RollbackSteps
    [] cmd = "cleanup"         -> CleanupSteps
    [] cmd = "commission"      -> CommissionSteps
    [] cmd = "proposal"        -> ProposalSteps
    [] cmd = "verify"          -> VerifySteps
    [] cmd = "verifyProposal"  -> VerifyProposalSteps

CommandNames == {"activate", "status", "restart", "refresh", "rehearse", "catalog",
                 "rollback", "cleanup", "commission", "proposal", "verify",
                 "verifyProposal"}

Idle == [cmd |-> "idle", todo |-> << >>, arm |-> "none", failing |-> FALSE,
         restoring |-> FALSE, applied |-> FALSE, tries |-> 0, from |-> {}]
NoReceipt == [act |-> "none", src |-> 0]

Init ==
  /\ head = 1
  /\ unit = [r \in Roles |-> "absent"]
  /\ stalled = {}
  /\ enabled = {}
  /\ console = [names |-> 0, serves |-> 0]
  /\ frontend = [r \in Revision |->
                   [state |-> "none", incident |-> "none", kept |-> FALSE, repairs |-> 0]]
  /\ key = [file |-> 0, cluster |-> 0, pod |-> 0, env |-> 0]
  /\ identity = [admitted |-> TRUE, projection |-> "none"]
  /\ replicas = [wgcf |-> TRUE, backend |-> TRUE]
  /\ catalog = [adds |-> 0, edits |-> 0]
  /\ op = Idle
  /\ evidence = {}
  /\ last = NoReceipt
  /\ broken = {}
  /\ spent = [commands |-> 0, faults |-> 0, keys |-> 0]

(***************************************************************************)
(* What the commands read back.                                            *)
(***************************************************************************)
\* Every file of the artifact has the recorded digest.
Intact(r) == frontend[r].state = "good"

ConsoleAnswers == unit["console"] = "running" /\ console.serves # 0

Reaches(role) == unit[role] = "running" /\ role \notin stalled

\* Both owners are current: the WGCF pod takes the secret of the Console.
ActivityLive ==
  /\ ConsoleAnswers
  /\ Reaches("oos") /\ Reaches("wgcf")
  /\ replicas.wgcf
  /\ key.env # 0 /\ key.env = key.pod

CatalogReady == ConsoleAnswers /\ Reaches("oos") /\ replicas.backend

\* The process serves the selected artifact, byte for byte.
FrontendServed ==
  /\ ConsoleAnswers /\ console.serves = head
  /\ Intact(head)

BindingPresent == key.cluster # 0 /\ key.pod # 0

ServicesActive == \A r \in Roles : unit[r] = "running"

(***************************************************************************)
(* Progress and failure of the running command.                            *)
(***************************************************************************)
Now(step) == op.todo # << >> /\ Head(op.todo) = step

Rest == [op EXCEPT !.todo = Tail(@)]

Proceed == op' = Rest

\* The steps of the running command after the given one.
After(step) ==
  LET i == CHOOSE j \in 1 .. Len(op.todo) :
             op.todo[j] = step /\ \A k \in 1 .. (j - 1) : op.todo[k] # step
  IN SubSeq(op.todo, i + 1, Len(op.todo))

\* A failed step runs the reconnection that is armed; then the command fails,
\* and a commissioning first activates and reads the status once more.
Restores ==
  /\ op.cmd = "commission" /\ ~op.restoring
  /\ Len(op.todo) \notin {Len(CommissionSteps)} \cup 1 .. Len(Conclusion) \/ op.failing

Raised ==
  IF Restores
    THEN [op EXCEPT !.todo = ActivateSteps \o StatusSteps \o <<"raise">>,
                    !.arm = "none", !.failing = FALSE, !.restoring = TRUE]
    ELSE Idle

\* Nothing is reconnected when a step fails.
FailedAtOnce == Raised

Failed == IF op.arm # "none" THEN [op EXCEPT !.todo = <<op.arm>>, !.failing = TRUE]
                             ELSE Raised

Fail == op' = Failed

Fault == /\ spent.faults < Faults
         /\ spent' = [spent EXCEPT !.faults = @ + 1]

Require(holds) == IF holds THEN Proceed ELSE Fail

files == <<console, frontend>>
owners == <<key, identity, replicas, catalog>>
history == <<evidence, last, broken>>

\* Steps that only check.
Checks ==
  [ active       |-> ServicesActive,
    activity     |-> ActivityLive,
    catalog      |-> CatalogReady,
    served       |-> FrontendServed,
    probe        |-> Reaches("oos") /\ Reaches("wgcf"),
    seenLost     |-> ConsoleAnswers /\ Reaches("oos"),
    readBack     |-> CatalogReady,
    staleDenied  |-> ConsoleAnswers,
    sessionDenied   |-> identity.projection # "live",
    ownerDenied     |-> ~Reaches("oos"),
    readinessDenied |-> ~replicas.wgcf,
    backendDenied   |-> ~replicas.backend,
    unchanged    |-> CatalogReady,
    preserved    |-> TRUE,
    gone         |-> ~BindingPresent /\ \A r \in Roles : unit[r] # "running",
    children     |-> \A a \in Children : \E e \in evidence : e.act = a /\ e.src = head,
    proposed     |-> \E e \in evidence : e.act = "proposal" /\ e.src = head,
    commissioned |-> \E e \in evidence : e.act = "commission" /\ e.src = head ]

Check ==
  /\ op.todo # << >> /\ Head(op.todo) \in DOMAIN Checks
  /\ Require(Checks[Head(op.todo)])
  /\ UNCHANGED <<head, stalled, unit, enabled, files, owners, history, spent>>

\* Sources, manifests, the Security review and the policy are what was accepted.
Validate ==
  /\ Now("validate")
  /\ Proceed
  /\ UNCHANGED <<head, stalled, unit, enabled, files, owners, history, spent>>

\* A checkout is dirty, moved or not what Security reviewed.
SourceRefused ==
  /\ Now("validate")
  /\ Fault /\ Fail
  /\ UNCHANGED <<head, stalled, unit, enabled, files, owners, history>>

(***************************************************************************)
(* The reader binding and the identity projection.                         *)
(***************************************************************************)
Secret ==
  /\ Now("secret")
  /\ Proceed
  /\ IF key.file # 0
       THEN UNCHANGED <<key, spent>>
       ELSE /\ key' = [key EXCEPT !.file = spent.keys + 1]
            /\ spent' = [spent EXCEPT !.keys = @ + 1]
  /\ UNCHANGED <<head, stalled, unit, enabled, files, identity, replicas, catalog, history>>

SetKey(step, new) ==
  /\ Now(step)
  /\ Proceed
  /\ key' = new
  /\ UNCHANGED <<head, stalled, unit, enabled, files, identity, replicas, catalog, history, spent>>

Bind == SetKey("bind", [key EXCEPT !.cluster = key.file])
Expose == SetKey("expose", [key EXCEPT !.pod = key.cluster])
Environment == SetKey("environment", [key EXCEPT !.env = key.file])
Conceal == SetKey("conceal", [key EXCEPT !.pod = 0])
Unbind == SetKey("unbind", [key EXCEPT !.cluster = 0])

Revoked == [identity EXCEPT !.projection = IF @ = "none" THEN @ ELSE "revoked"]

SetIdentity(new, next) ==
  /\ identity' = new
  /\ op' = next
  /\ UNCHANGED <<head, stalled, unit, enabled, files, key, replicas, catalog, evidence, last, spent>>

\* Before an issue a failed revocation is ignored.
RevokeOld == Now("revokeOld") /\ SetIdentity(Revoked, Rest) /\ UNCHANGED broken
Revoke == Now("revoke") /\ SetIdentity(Revoked, Rest) /\ UNCHANGED broken
CutSession == /\ Now("cutSession")
              /\ SetIdentity(Revoked, [Rest EXCEPT !.arm = "joinSession"])
              /\ UNCHANGED broken

\* The policy, the manifest or an earlier projection is not acceptable.
IdentityRefused ==
  /\ Now("issue") \/ Now("revoke") \/ Now("cutSession")
  /\ Fault /\ Fail
  /\ UNCHANGED <<head, stalled, unit, enabled, files, owners, history>>

Issued == [identity EXCEPT !.projection = "live"]

\* A session past its lifetime has no identity any more.
Issue ==
  /\ Now("issue")
  /\ IF identity.admitted THEN SetIdentity(Issued, Rest) ELSE SetIdentity(Revoked, Failed)
  /\ UNCHANGED broken

(***************************************************************************)
(* The standalone frontend: built once, repaired at most once.             *)
(***************************************************************************)
\* An earlier repair does not stand in the way of another one.
NeverConsumed == FALSE

\* A repair was started, or its result has not been served and verified.
Consumed == frontend[head].incident \in {"attempted", "rebuilt"}

Skip(step) == op' = [op EXCEPT !.todo = After(step)]

Inspect ==
  /\ Now("inspect")
  /\ IF Intact(head) THEN Skip("note")
     ELSE IF Consumed THEN Fail
     ELSE IF frontend[head].state = "corrupt" THEN Proceed
     ELSE Skip("quarantine")
  /\ UNCHANGED <<head, stalled, unit, enabled, files, owners, history, spent>>

\* The managed process is stopped; an earlier quarantine then refuses.
StopConsumer ==
  /\ Now("stopConsumer")
  /\ Require(~frontend[head].kept)
  /\ unit' = [unit EXCEPT !["console"] = IF @ = "absent" THEN @ ELSE "stopped"]
  /\ console' = [console EXCEPT !.serves = 0]
  /\ UNCHANGED <<head, stalled, enabled, frontend, owners, history, spent>>

SetFrontend(step, new) ==
  /\ Now(step)
  /\ Proceed
  /\ frontend' = [frontend EXCEPT ![head] = new]
  /\ UNCHANGED <<head, stalled, unit, enabled, console, owners, history, spent>>

Attempt == SetFrontend("attempt", [frontend[head] EXCEPT !.incident = "attempted"])

Quarantine ==
  SetFrontend("quarantine",
    [frontend[head] EXCEPT !.state = "none", !.kept = TRUE])

\* A build that replaces a damaged artifact is a repair.
Compile ==
  SetFrontend("compile",
    IF frontend[head].incident = "attempted"
      THEN [frontend[head] EXCEPT !.repairs = @ + 1]
      ELSE frontend[head])

Build == SetFrontend("build", [frontend[head] EXCEPT !.state = "good"])

Note == SetFrontend("note",
  [frontend[head] EXCEPT !.incident = IF frontend[head].kept THEN "rebuilt" ELSE @])

\* After the checks of the served process only.
Discard ==
  SetFrontend("discard",
    IF frontend[head].incident = "rebuilt" THEN [frontend[head] EXCEPT !.kept = FALSE]
                                           ELSE frontend[head])

Close ==
  SetFrontend("close",
    IF frontend[head].incident = "rebuilt"
      THEN [frontend[head] EXCEPT !.incident = "closed", !.repairs = 0]
      ELSE frontend[head])

(***************************************************************************)
(* Units.                                                                  *)
(***************************************************************************)
\* A starting console validates its artifact and exits when it is damaged.
Started(names) == IF names # 0 /\ Intact(names) THEN names ELSE 0

Present(role) == IF unit[role] = "absent" THEN "stopped" ELSE unit[role]

WriteUnits ==
  /\ Now("units")
  /\ Proceed
  /\ unit' = [r \in Roles |-> Present(r)]
  /\ console' = [console EXCEPT !.names = head]
  /\ UNCHANGED <<head, stalled, enabled, frontend, owners, history, spent>>

Start(step, on) ==
  /\ Now(step)
  /\ Proceed
  /\ unit' = [r \in Roles |-> "running"]
  /\ enabled' = on
  /\ stalled' = {}
  /\ console' = [console EXCEPT !.serves = Started(console.names)]
  /\ UNCHANGED <<head, frontend, owners, history, spent>>

Enable == Start("enable", Roles)
Relaunch == Start("relaunch", enabled)

Rollout ==
  /\ Now("rollout")
  /\ Proceed
  /\ UNCHANGED <<head, stalled, unit, enabled, files, owners, history, spent>>

\* Only the two tunnels; the Console and the owners are left alone.
Tunnels ==
  /\ Now("tunnels")
  /\ Proceed
  /\ unit' = [r \in Roles |-> IF r = "console" THEN unit[r] ELSE Present(r)]
  /\ UNCHANGED <<head, stalled, enabled, files, owners, history, spent>>

Retunnel ==
  /\ Now("retunnel")
  /\ Proceed
  /\ unit' = [r \in Roles |-> IF r = "console" THEN unit[r] ELSE "running"]
  /\ stalled' = {}
  /\ UNCHANGED <<head, enabled, files, owners, history, spent>>

\* A unit that is not there cannot be disabled; the result is ignored.
Disable ==
  /\ Now("disable")
  /\ Proceed
  /\ unit' = [r \in Roles |-> IF unit[r] = "absent" THEN "absent" ELSE "stopped"]
  /\ enabled' = {}
  /\ console' = [console EXCEPT !.serves = 0]
  /\ UNCHANGED <<head, stalled, frontend, owners, history, spent>>

RemoveFiles ==
  /\ Now("files")
  /\ Proceed
  /\ unit' = [r \in Roles |-> "absent"]
  /\ key' = [key EXCEPT !.file = 0, !.env = 0]
  /\ identity' = [identity EXCEPT !.projection = "none"]
  /\ UNCHANGED <<head, stalled, enabled, files, replicas, catalog, history, spent>>

(***************************************************************************)
(* Disconnections and the reconnections they arm.                          *)
(***************************************************************************)
Cut(step, join) ==
  /\ Now(step)
  /\ op' = [Rest EXCEPT !.arm = join]

Joined == IF op.failing THEN Raised ELSE [Rest EXCEPT !.arm = "none"]

Join(step) ==
  /\ Now(step)
  /\ op' = Joined
  /\ broken' = broken \ {step}

SetUnit(role, state) ==
  /\ unit' = [unit EXCEPT ![role] = state]
  /\ stalled' = stalled \ {role}
  /\ UNCHANGED <<head, enabled, files, owners, evidence, last>>

CutUnit(step, join, role) ==
  Cut(step, join) /\ SetUnit(role, "stopped") /\ UNCHANGED <<broken, spent>>

CutTunnel == CutUnit("cutTunnel", "joinTunnel", "wgcf")
CutOwner == CutUnit("cutOwner", "joinOwner", "oos")
JoinOwner == Join("joinOwner") /\ SetUnit("oos", "running") /\ UNCHANGED spent

\* A stopped Console is started with the tunnel.
JoinTunnel ==
  /\ Join("joinTunnel")
  /\ unit' = [unit EXCEPT !["wgcf"] = "running", !["console"] = "running"]
  /\ stalled' = stalled \ {"wgcf"}
  /\ console' = [console EXCEPT !.serves = IF @ = 0 THEN Started(console.names) ELSE @]
  /\ UNCHANGED <<head, enabled, frontend, owners, evidence, last, spent>>

SetReplicas(which, up) ==
  /\ replicas' = [replicas EXCEPT ![which] = up]
  /\ UNCHANGED <<head, stalled, unit, enabled, files, key, identity, catalog, evidence, last>>

\* A deployment without a replica has nothing to rehearse.
CutReplicas(step, join, which) ==
  \/ replicas[which] /\ Cut(step, join) /\ SetReplicas(which, FALSE) /\ UNCHANGED <<broken, spent>>
  \/ ~replicas[which] /\ Now(step) /\ Fail
     /\ UNCHANGED <<head, stalled, unit, enabled, files, owners, history, spent>>

CutReadiness == CutReplicas("cutReadiness", "joinReadiness", "wgcf")
CutBackend == CutReplicas("cutBackend", "joinBackend", "backend")
JoinReadiness == Join("joinReadiness") /\ SetReplicas("wgcf", TRUE) /\ UNCHANGED spent
JoinBackend == Join("joinBackend") /\ SetReplicas("backend", TRUE) /\ UNCHANGED spent

\* The call that disconnects stands before the "try" that reconnects: when it
\* fails after it took effect (the stop or the wait for the last replica ran
\* out of time, a reading of the deployment failed), nothing is armed.
FailedCut(step, join) ==
  /\ Now(step)
  /\ Fault /\ Fail
  /\ broken' = broken \cup {join}

CutFails ==
  \/ FailedCut("cutTunnel", "joinTunnel") /\ SetUnit("wgcf", "stopped")
  \/ FailedCut("cutOwner", "joinOwner") /\ SetUnit("oos", "stopped")
  \/ replicas.wgcf /\ FailedCut("cutReadiness", "joinReadiness") /\ SetReplicas("wgcf", FALSE)
  \/ replicas.backend /\ FailedCut("cutBackend", "joinBackend") /\ SetReplicas("backend", FALSE)

JoinSession ==
  /\ Now("joinSession")
  /\ IF identity.admitted
       THEN SetIdentity(Issued, Joined) /\ broken' = broken \ {"joinSession"}
       ELSE SetIdentity(Revoked, [op EXCEPT !.arm = "none", !.failing = TRUE,
                                            !.todo = <<"raise">>])
            /\ broken' = broken \cup {"joinSession"}

(***************************************************************************)
(* Catalog mutations: three attempts with one acceptance id.               *)
(***************************************************************************)
\* Every attempt has an acceptance id of its own.
FreshId == FALSE

\* The owner has applied this acceptance id before and replays its answer.
Replayed == op.applied

Counted(kind) == [catalog EXCEPT ![kind] = @ + (IF Replayed THEN 0 ELSE 1)]

Answered == [Rest EXCEPT !.applied = FALSE, !.tries = 0]

\* A value the Catalog has already is edited and not added again.
Mutate(step, kind) ==
  /\ Now(step)
  /\ \/ step = "add" /\ catalog.adds # 0 /\ ~op.applied /\ op.tries = 0
        /\ Proceed /\ UNCHANGED <<catalog, spent>>
     \/ /\ step = "add" => catalog.adds = 0 \/ op.applied \/ op.tries # 0
        /\ IF ~CatalogReady THEN op' = [Failed EXCEPT !.applied = FALSE, !.tries = 0]
                                 /\ UNCHANGED <<catalog, spent>>
           ELSE \/ op' = Answered /\ catalog' = Counted(kind) /\ UNCHANGED spent
                \/ /\ Fault
                   /\ op' = IF op.tries = 2
                              THEN [Failed EXCEPT !.applied = FALSE, !.tries = 0]
                              ELSE [op EXCEPT !.applied = TRUE, !.tries = @ + 1]
                   /\ catalog' = Counted(kind)
  /\ UNCHANGED <<head, stalled, unit, enabled, files, key, identity, replicas, history>>

Add == Mutate("add", "adds")
Edit == Mutate("edit", "edits")

(***************************************************************************)
(* Receipts.                                                               *)
(***************************************************************************)
Receipts == {"activate", "status", "restart", "refresh", "rehearse", "rehearsed",
             "rollback", "cleanup", "commission", "proposal", "verified"}

\* The aggregate names its children by content; it does not compare sources.
Receipt ==
  /\ op.todo # << >> /\ Head(op.todo) \in Receipts
  /\ LET act == Head(op.todo)
         next == [Rest EXCEPT !.from = @ \cup {head}]
     IN /\ op' = IF next.todo = << >> THEN Idle ELSE next
        /\ evidence' = evidence \cup
             {[act |-> act, src |-> head, from |-> IF act = "commission" THEN op.from ELSE {}]}
        /\ last' = IF next.todo = << >> THEN [act |-> act, src |-> head] ELSE last
  /\ UNCHANGED <<head, stalled, unit, enabled, files, owners, broken, spent>>

\* The failure is reported after availability was restored.
Raise ==
  /\ Now("raise")
  /\ op' = Raised
  /\ UNCHANGED <<head, stalled, unit, enabled, files, owners, history, spent>>

(***************************************************************************)
(* Failures, commands and the surroundings.                                *)
(***************************************************************************)
External == {"bind", "expose", "environment", "build", "units", "enable",
             "rollout", "relaunch", "tunnels", "retunnel", "conceal", "unbind",
             "preserved", "cutOwner", "cutTunnel", "cutReadiness", "cutBackend",
             "activity", "catalog",
             "readBack", "staleDenied", "sessionDenied", "ownerDenied",
             "readinessDenied", "backendDenied", "unchanged", "seenLost", "probe"}

Joins == {"joinSession", "joinOwner", "joinTunnel", "joinReadiness", "joinBackend"}

\* The application, its merge or the recorded denials are refused.
ProposalRefused ==
  /\ Now("children")
  /\ Fault /\ Fail
  /\ UNCHANGED <<head, stalled, unit, enabled, files, owners, history>>

StepFails ==
  /\ op.todo # << >> /\ Head(op.todo) \in External
  /\ Fault
  /\ Fail
  /\ UNCHANGED <<head, stalled, unit, enabled, files, owners, history>>

JoinFails ==
  /\ op.todo # << >> /\ Head(op.todo) \in Joins
  /\ Fault
  /\ op' = [op EXCEPT !.arm = "none", !.todo = <<"raise">>, !.failing = TRUE]
  /\ broken' = broken \cup {Head(op.todo)}
  /\ UNCHANGED <<head, stalled, unit, enabled, files, owners, evidence, last>>

Killed ==
  /\ op.cmd # "idle"
  /\ Fault
  /\ op' = Idle
  /\ broken' = broken \cup ({op.arm} \cap Joins)
  /\ UNCHANGED <<head, stalled, unit, enabled, files, owners, evidence, last>>

Command ==
  /\ op.cmd = "idle"
  /\ spent.commands < Commands
  /\ spent' = [spent EXCEPT !.commands = @ + 1]
  /\ \E cmd \in CommandNames : op' = [Idle EXCEPT !.cmd = cmd, !.todo = Plan(cmd)]
  /\ last' = NoReceipt
  /\ UNCHANGED <<head, stalled, unit, enabled, files, owners, evidence, broken>>

SourceMoves ==
  /\ head < Revisions
  /\ head' = head + 1
  /\ UNCHANGED <<unit, stalled, enabled, files, owners, op, history, spent>>

SessionExpires ==
  /\ identity.admitted
  /\ Fault
  /\ identity' = [identity EXCEPT !.admitted = FALSE]
  /\ UNCHANGED <<head, stalled, unit, enabled, files, key, replicas, catalog, op, history>>

Damage ==
  /\ Fault
  /\ \E r \in Revision :
       /\ Intact(r)
       /\ frontend' = [frontend EXCEPT ![r].state = "corrupt"]
  /\ UNCHANGED <<head, stalled, unit, enabled, console, owners, op, history>>

TunnelStalls ==
  /\ Fault
  /\ \E r \in Roles \ {"console"} :
       /\ unit[r] = "running" /\ r \notin stalled
       /\ stalled' = stalled \cup {r}
  /\ UNCHANGED <<head, unit, enabled, files, owners, op, history>>

\* Three probes without an answer end the process; systemd starts another.
TunnelRecycled ==
  /\ stalled # {}
  /\ \E r \in stalled : stalled' = stalled \ {r}
  /\ UNCHANGED <<head, unit, enabled, files, owners, op, history, spent>>

\* systemd starts a console that exited, and gives up when it cannot start.
ConsoleExits ==
  /\ console.serves # 0
  /\ Fault
  /\ console' = [console EXCEPT !.serves = 0]
  /\ UNCHANGED <<head, stalled, unit, enabled, frontend, owners, op, history>>

ConsoleStarts ==
  /\ unit["console"] = "running" /\ console.serves = 0
  /\ Started(console.names) # 0
  /\ console' = [console EXCEPT !.serves = console.names]
  /\ UNCHANGED <<head, stalled, unit, enabled, frontend, owners, op, history, spent>>

Step ==
  \/ Validate \/ Check \/ Secret \/ Bind \/ Expose \/ RevokeOld \/ Issue \/ Environment
  \/ Inspect \/ StopConsumer \/ Attempt \/ Quarantine \/ Compile \/ Build \/ Note
  \/ WriteUnits \/ Enable \/ Rollout \/ Relaunch \/ Tunnels \/ Retunnel
  \/ Discard \/ Close \/ Disable \/ Revoke \/ Conceal \/ Unbind \/ RemoveFiles
  \/ CutTunnel \/ JoinTunnel \/ CutOwner \/ JoinOwner \/ CutSession \/ JoinSession
  \/ CutReadiness \/ JoinReadiness \/ CutBackend \/ JoinBackend
  \/ Add \/ Edit \/ Receipt \/ Raise

Next ==
  \/ Step \/ SourceRefused \/ IdentityRefused \/ ProposalRefused
  \/ StepFails \/ CutFails \/ JoinFails \/ Killed \/ Command
  \/ SourceMoves \/ SessionExpires \/ Damage \/ ConsoleExits \/ ConsoleStarts
  \/ TunnelStalls \/ TunnelRecycled

Spec == Init /\ [][Next]_vars

(***************************************************************************)
(* Properties.                                                             *)
(***************************************************************************)
\* The type invariant; a command is running exactly while steps remain.
TypeOK ==
  /\ head \in Revision
  /\ unit \in [Roles -> {"absent", "stopped", "running"}]
  /\ stalled \subseteq Roles \ {"console"}
  /\ enabled \subseteq Roles
  /\ console \in [names : 0 .. Revisions, serves : 0 .. Revisions]
  /\ \A r \in Revision :
       /\ frontend[r].state \in {"none", "good", "corrupt"}
       /\ frontend[r].incident \in {"none", "attempted", "rebuilt", "closed"}
  /\ identity \in [admitted : BOOLEAN, projection : {"none", "live", "revoked"}]
  /\ replicas \in [wgcf : BOOLEAN, backend : BOOLEAN]
  /\ op.cmd = "idle" <=> op.todo = << >>

\* Whatever step of a rehearsal fails, alone or inside a commissioning, the
\* owner it disconnected is connected again when the command ends
\* (console_cross_domain_activation.py:1251, :1396-1487).  Left cut is at most
\* an owner whose last reconnection failed or was cut off by a kill, or whose
\* disconnection took effect and failed before the "try" (:1213, :1408, :1427,
\* :1455), until a later rehearsal reconnects it; no other owner is left so.
DisconnectionEnds ==
  op.cmd = "idle" =>
    /\ replicas.wgcf \/ "joinReadiness" \in broken
    /\ replicas.backend \/ "joinBackend" \in broken
    /\ enabled = Roles => /\ unit["oos"] = "running" \/ "joinOwner" \in broken
                          /\ unit["wgcf"] = "running" \/ "joinTunnel" \in broken

\* Lost answers, failed and killed rehearsals and a second commissioning
\* together add the repository to the Catalog once: attempts share one
\* acceptance id and a later rehearsal finds the value.
AddedOnce == catalog.adds <= 1

\* Until a repaired frontend has been served and verified no second repair
\* starts, whatever failed or was killed in between: an interrupted rebuild is
\* inspected and not replayed (console_frontend_artifact.py:160).
RepairedOnce == \A r \in Revision : frontend[r].repairs <= 1

\* The frontend's incidents are kept as its artifacts are.
RepairIsSound == TypeOK /\ RepairedOnce

\* An artifact is never moved away under the process that serves it.
ServedStays ==
  [][\A r \in Revision :
       frontend'[r].state = "none" /\ frontend[r].state # "none" => console.serves # r]_vars
=============================================================================
