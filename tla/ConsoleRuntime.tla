--------------------------- MODULE ConsoleRuntime ---------------------------
(***************************************************************************)
(* The lifecycle of the complete Console runtime                           *)
(* (console_complete_runtime.py with console_durable_composition.py).      *)
(*                                                                         *)
(* A command holds the lifecycle lock and works through a list of steps    *)
(* ("todo"); a step that fails aborts an activation and is only noted by a *)
(* rollback.  Beside it run, without the lock, the renewal timer, the      *)
(* status command, the provider process that systemd restarts, and the     *)
(* retained supervisor that activates.  A command may be killed between    *)
(* any two steps and the host may reboot.                                  *)
(*                                                                         *)
(* A Security decision stands for the whole source set it binds: "decision"*)
(* is the accepted one together with the checkouts that carry it, and a    *)
(* file or process holds the decision it was made from (0: none).  Each    *)
(* decision admits its own durable generation.                             *)
(***************************************************************************)
EXTENDS Naturals, Sequences

CONSTANTS Decisions,   \* Security decisions 1..Decisions, accepted in turn
          Commands,    \* operator commands the run explores
          Faults,      \* external steps that fail, kills and reboots
          Durable      \* whether the policy enables durable orchestration

ASSUME BoundsAssumption == /\ Decisions \in Nat \ {0}
                           /\ Commands \in Nat
                           /\ Faults \in Nat
                           /\ Durable \in BOOLEAN

VARIABLES
  decision,   \* the decision accepted now and checked out
  accepted,   \* its acceptance has not been revoked
  disk,       \* files: resolved policies, active.json, core-online.json, unit files
  provider,   \* the operation provider: enabled, and the decision it loaded
  timer,      \* the renewal timer is enabled and running
  renewal,    \* a renewal process has started and has not taken the lock yet
  cluster,    \* what the deployments hold
  durable,    \* the orchestration generation on disk, retired, and at work
  op,         \* the command that holds the lifecycle lock
  watch,      \* the unlocked status command: what it has checked
  wanted,     \* the retained supervisor unit has been asked to activate
  last,       \* the last receipt, until another command starts work
  spent       \* commands and faults used up

vars == <<decision, accepted, disk, provider, timer, renewal, cluster, durable,
          op, watch, wanted, last, spent>>

Decision == 1 .. Decisions
NoDecision == 0
Forged == Decisions + 1   \* a marker that names another decision
Idle == [cmd |-> "idle", todo |-> << >>, d |-> NoDecision, failed |-> FALSE,
         seen |-> FALSE, unbound |-> TRUE]
NoReceipt == [act |-> "none", d |-> NoDecision, seen |-> FALSE]

(***************************************************************************)
(* The commands, as lists of steps.                                        *)
(***************************************************************************)
Materialize == <<"policy", "activation">>

ActivateSteps ==
  <<"resolve", "offline">> \o Materialize \o
  <<"supervise", "prepare", "generation", "records", "compose", "deliver",
    "workflows", "serve", "bind", "attach", "models", "console", "mark",
    "reload", "renewals", "confirm">>

RestartSteps ==
  <<"resolve">> \o Materialize \o
  <<"offline", "generation", "records", "deliver", "workflows", "relaunch",
    "rollout", "attach", "console", "mark", "renewals", "confirm">>

RenewSteps == <<"admit", "maintain", "renewable", "renew", "workflows", "check">>

Withdrawals ==
  <<"stopRenewal", "suspend", "withdraw", "release", "revoke", "unbind", "hide">>

RollbackSteps == Withdrawals \o <<"stop", "conclude">>

CleanupSteps == Withdrawals \o <<"purge", "conclude">>

TeardownSteps == CleanupSteps \o <<"down">>

ConnectionSteps == <<"resolve">> \o Materialize \o <<"liaise">>

\* The operating proof runs every command once and provokes the refusals.
ProofSteps ==
  ActivateSteps \o <<"admit", "maintain", "renewable", "deliver", "workflows", "check">>
  \o <<"forge", "restore", "kill">> \o RestartSteps \o RollbackSteps
  \o TeardownSteps \o ActivateSteps \o <<"proven">>

Plan(cmd) ==
  CASE cmd = "activate"    -> ActivateSteps
    [] cmd = "restart"     -> RestartSteps
    [] cmd = "refresh"     -> RenewSteps
    [] cmd = "rollback"    -> RollbackSteps
    [] cmd = "cleanup"     -> CleanupSteps
    [] cmd = "teardown"    -> TeardownSteps
    [] cmd = "verify"      -> ProofSteps
    [] cmd = "connections" -> ConnectionSteps

Retiring == {"rollback", "cleanup", "teardown"}

Init ==
  /\ decision = 1
  /\ accepted = TRUE
  /\ disk = [policy |-> 0, activation |-> 0, marker |-> 0, online |-> 0,
             proof |-> 0, unit |-> FALSE, dropin |-> FALSE]
  /\ provider = [enabled |-> FALSE, loaded |-> 0]
  /\ timer = FALSE
  /\ renewal = FALSE
  /\ cluster = [up |-> FALSE, bound |-> 0, token |-> "none", used |-> TRUE,
                console |-> 0, records |-> FALSE, models |-> FALSE]
  /\ durable = [bundle |-> 0, retired |-> {}, workers |-> 0]
  /\ op = Idle
  /\ watch = NoDecision
  /\ wanted = FALSE
  /\ last = NoReceipt
  /\ spent = [commands |-> 0, faults |-> 0]

(***************************************************************************)
(* What the commands check.                                                *)
(***************************************************************************)
Materialized(d) == disk.policy = d /\ disk.activation = d

\* The provider refuses a policy whose tree is not the one checked out.
Allowed(d) == d = decision

\* The catalogue's policy is not compared.
MarkerCurrent(d) == disk.marker = d

ProviderCurrent(d) == provider.loaded = d /\ disk.marker = d

CompositionRuns == cluster.up

\* The Console reads the provider's catalogue through the bound deployment.
ConsoleOperations == cluster.console # 0 /\ cluster.bound # 0

CredentialUsable == cluster.token \in {"fresh", "due"} /\ cluster.bound # 0

ProvisioningRoute == cluster.console # 0 /\ cluster.up

WorkflowsProven == cluster.used

RecordsBound == cluster.records

OperatorBindings == cluster.bound # 0

PublicationBound == cluster.up

PublicationLive == cluster.console # 0

PrimaryRecords == cluster.console # 0 /\ cluster.up

ModelRuntime == cluster.models

GenerationReady(d) == Durable => durable.bundle = d /\ durable.workers = d

StatusHolds(d) ==
  /\ Materialized(d) /\ Allowed(d)
  /\ CompositionRuns
  /\ timer
  /\ cluster.console = d
  /\ ProviderCurrent(d)
  /\ ConsoleOperations
  /\ CredentialUsable /\ ProvisioningRoute
  /\ WorkflowsProven
  /\ RecordsBound
  /\ PrimaryRecords
  /\ OperatorBindings
  /\ PublicationBound /\ PublicationLive
  /\ ModelRuntime
  /\ GenerationReady(d)

(***************************************************************************)
(* Steps of the lock holder.                                               *)
(***************************************************************************)
Now(step) == op.todo # << >> /\ Head(op.todo) = step

Proceed == op' = IF Len(op.todo) = 1 THEN Idle ELSE [op EXCEPT !.todo = Tail(@)]

Abort == op' = Idle

\* A failed withdrawal is not recorded.
NotNoted == op' = [op EXCEPT !.todo = Tail(@)]

Note == op' = [op EXCEPT !.todo = Tail(@), !.failed = TRUE]

Fault == /\ spent.faults < Faults
         /\ spent' = [spent EXCEPT !.faults = @ + 1]

Receipt(act) == last' = [act |-> act, d |-> op.d, seen |-> op.seen]

world == <<decision, accepted, watch, wanted>>
owners == <<cluster, durable>>
local == <<provider, timer, renewal>>

Resolve ==
  /\ Now("resolve")
  /\ IF accepted
       THEN op' = [op EXCEPT !.todo = Tail(@), !.d = decision]
       ELSE Abort
  /\ last' = NoReceipt
  /\ UNCHANGED <<world, owners, local, disk, spent>>

GoOffline ==
  /\ Now("offline")
  /\ IF Allowed(op.d)
       THEN Proceed /\ disk' = [disk EXCEPT !.online = 0]
       ELSE Abort /\ UNCHANGED disk
  /\ UNCHANGED <<world, owners, local, last, spent>>

WritePolicy ==
  /\ Now("policy")
  /\ Proceed
  /\ disk' = [disk EXCEPT !.policy = op.d]
  /\ UNCHANGED <<world, owners, local, last, spent>>

WriteActivation ==
  /\ Now("activation")
  /\ Proceed
  /\ disk' = [disk EXCEPT !.activation = op.d]
  /\ UNCHANGED <<world, owners, local, last, spent>>

Supervise ==
  /\ Now("supervise")
  /\ Proceed
  /\ disk' = [disk EXCEPT !.dropin = TRUE]
  /\ UNCHANGED <<world, owners, local, last, spent>>

\* Model and profile configuration is prepared; nothing is bound yet.
Prepare ==
  /\ Now("prepare")
  /\ Proceed
  /\ UNCHANGED <<world, owners, local, disk, last, spent>>

\* Only a changed generation is looked at.
OnlyChanged == durable.bundle # 0 /\ durable.bundle # op.d /\ durable.bundle \notin durable.retired

\* A retired generation is refused, a changed one needs the old one retired.
GenerationRefused ==
  /\ Durable
  /\ durable.bundle # 0
  /\ \/ durable.bundle = op.d /\ op.d \in durable.retired
     \/ durable.bundle # op.d /\ durable.bundle \notin durable.retired

PrepareGeneration ==
  /\ Now("generation")
  /\ IF GenerationRefused
       THEN Abort /\ UNCHANGED durable
       ELSE /\ Proceed
            /\ durable' = IF Durable THEN [durable EXCEPT !.bundle = op.d] ELSE durable
  /\ UNCHANGED <<world, cluster, local, disk, last, spent>>

RefreshRecords ==
  /\ Now("records")
  /\ Proceed
  /\ UNCHANGED <<world, owners, local, disk, last, spent>>

Compose ==
  /\ Now("compose")
  /\ Proceed
  /\ cluster' = [cluster EXCEPT !.up = TRUE]
  /\ durable' = IF Durable THEN [durable EXCEPT !.workers = durable.bundle] ELSE durable
  /\ UNCHANGED <<world, local, disk, last, spent>>

Delivered == [cluster EXCEPT !.token = "fresh", !.used = FALSE]

Deliver ==
  /\ Now("deliver")
  /\ Proceed
  /\ cluster' = Delivered
  /\ UNCHANGED <<world, durable, local, disk, last, spent>>

\* The group's renewal ends with one rollout that consumes every Secret.
RenewWorkflows ==
  /\ Now("workflows")
  /\ Proceed
  /\ cluster' = [cluster EXCEPT !.used = TRUE]
  /\ UNCHANGED <<world, durable, local, disk, last, spent>>

\* A starting provider loads the policy on disk, or exits when it refuses it.
Loads == IF disk.policy = decision THEN disk.policy ELSE 0

Serve ==
  /\ Now("serve")
  /\ Proceed
  /\ disk' = [disk EXCEPT !.unit = TRUE]
  /\ provider' = [enabled |-> TRUE,
                  loaded |-> IF provider.loaded = 0 THEN Loads ELSE provider.loaded]
  /\ UNCHANGED <<world, owners, timer, renewal, last, spent>>

Bind ==
  /\ Now("bind")
  /\ IF CompositionRuns
       THEN Proceed /\ cluster' = [cluster EXCEPT !.bound = op.d, !.used = TRUE]
       ELSE Abort /\ UNCHANGED cluster
  /\ UNCHANGED <<world, durable, local, disk, last, spent>>

AttachRecords ==
  /\ Now("attach")
  /\ Proceed
  /\ cluster' = [cluster EXCEPT !.records = TRUE]
  /\ UNCHANGED <<world, durable, local, disk, last, spent>>

BindModels ==
  /\ Now("models")
  /\ IF PublicationBound
       THEN Proceed /\ cluster' = [cluster EXCEPT !.models = TRUE]
       ELSE Abort /\ UNCHANGED cluster
  /\ UNCHANGED <<world, durable, local, disk, last, spent>>

\* The cross-domain command reads the resolved activation policy.
StartConsole ==
  /\ Now("console")
  /\ Proceed
  /\ cluster' = [cluster EXCEPT !.console = disk.activation]
  /\ UNCHANGED <<world, durable, local, disk, last, spent>>

Mark ==
  /\ Now("mark")
  /\ Proceed
  /\ disk' = [disk EXCEPT !.marker = op.d]
  /\ UNCHANGED <<world, owners, local, last, spent>>

ReloadStale ==
  /\ Now("reload")
  /\ IF ProviderCurrent(op.d)
       THEN Proceed /\ UNCHANGED provider
       ELSE /\ provider' = [provider EXCEPT !.loaded = Loads]
            /\ IF Loads = op.d THEN Proceed ELSE Abort
  /\ UNCHANGED <<world, owners, timer, renewal, disk, last, spent>>

StartRenewals ==
  /\ Now("renewals")
  /\ Proceed
  /\ timer' = TRUE
  /\ UNCHANGED <<world, owners, provider, renewal, disk, last, spent>>

Confirm ==
  /\ Now("confirm")
  /\ IF accepted /\ op.d = decision /\ StatusHolds(op.d)
       THEN /\ Proceed
            /\ disk' = [disk EXCEPT !.online = op.d]
            /\ Receipt("active")
       ELSE Abort /\ UNCHANGED <<disk, last>>
  /\ UNCHANGED <<world, owners, local, spent>>

(***************************************************************************)
(* Steps of restart and of refresh-connections alone.                      *)
(***************************************************************************)
Relaunch ==
  /\ Now("relaunch")
  /\ IF disk.unit
       THEN Proceed /\ provider' = [provider EXCEPT !.loaded = Loads]
       ELSE Abort /\ UNCHANGED provider
  /\ UNCHANGED <<world, owners, timer, renewal, disk, last, spent>>

Rollout ==
  /\ Now("rollout")
  /\ IF CompositionRuns
       THEN Proceed /\ cluster' = [cluster EXCEPT !.used = TRUE]
       ELSE Abort /\ UNCHANGED cluster
  /\ UNCHANGED <<world, durable, local, disk, last, spent>>

Liaise ==
  /\ Now("liaise")
  /\ Proceed
  /\ UNCHANGED <<world, owners, local, disk, last, spent>>

(***************************************************************************)
(* Steps of the credential renewal.                                        *)
(***************************************************************************)
Admit ==
  /\ Now("admit")
  /\ IF accepted /\ Materialized(decision)
       THEN op' = [op EXCEPT !.todo = Tail(@), !.d = decision]
       ELSE Abort
  /\ UNCHANGED <<world, owners, local, disk, last, spent>>

\* Artifact maintenance may ask the supervisor to resume and end this tick.
Maintain ==
  /\ Now("maintain")
  /\ \/ Proceed /\ UNCHANGED <<wanted, spent>>
     \/ Fault /\ Abort /\ wanted' = disk.dropin
  /\ UNCHANGED <<decision, accepted, watch, owners, local, disk, last>>

RenewalRefused == disk.marker # op.d

Renewable ==
  /\ Now("renewable")
  /\ IF RenewalRefused THEN Abort ELSE Proceed
  /\ UNCHANGED <<world, owners, local, disk, last, spent>>

\* A token that has expired is replaced, an ageing one not.
OnlyDead == cluster.token = "dead"

RenewalDue == cluster.token # "fresh"

Renew ==
  /\ Now("renew")
  /\ Proceed
  /\ cluster' = IF RenewalDue THEN Delivered ELSE cluster
  /\ UNCHANGED <<world, durable, local, disk, last, spent>>

Check ==
  /\ Now("check")
  /\ IF CredentialUsable THEN Proceed ELSE Abort
  /\ UNCHANGED <<world, owners, local, disk, last, spent>>

(***************************************************************************)
(* Steps of rollback, cleanup and teardown.  Each may fail and is noted;   *)
(* the command goes on and reports the failures at the end.                *)
(***************************************************************************)
StopRenewal ==
  /\ Now("stopRenewal")
  /\ \/ Proceed /\ timer' = FALSE /\ renewal' = FALSE /\ UNCHANGED spent
     \/ Fault /\ Note /\ UNCHANGED <<timer, renewal>>
  /\ last' = NoReceipt
  /\ UNCHANGED <<world, owners, provider, disk>>

Drained == [durable EXCEPT !.workers = 0]
Retired == [Drained EXCEPT !.retired = @ \cup {durable.bundle}]

\* The generation is drained, then sealed; a fault may fall before, between
\* or after the two.  Without a commissioned generation nothing is done.
Suspend ==
  /\ Now("suspend")
  /\ \/ /\ Proceed
        /\ durable' = IF durable.bundle = 0 THEN durable ELSE Retired
        /\ UNCHANGED spent
     \/ /\ durable.bundle # 0
        /\ Fault /\ Note
        /\ durable' \in {durable, Drained, Retired}
  /\ UNCHANGED <<world, cluster, local, disk, last>>

Withdraw ==
  /\ Now("withdraw")
  /\ \/ Proceed /\ cluster' = [cluster EXCEPT !.models = FALSE] /\ UNCHANGED spent
     \/ Fault /\ Note /\ UNCHANGED cluster
  /\ UNCHANGED <<world, durable, local, disk, last>>

Release ==
  /\ Now("release")
  /\ \/ /\ Proceed
        /\ cluster' = [cluster EXCEPT !.records = FALSE]
        /\ disk' = [disk EXCEPT !.dropin = FALSE]
        /\ UNCHANGED spent
     \/ Fault /\ Note /\ UNCHANGED <<cluster, disk>>
  /\ UNCHANGED <<world, durable, local, last>>

\* A Secret that cannot be read counts as absent: nothing is revoked and no
\* failure is noted.
Revoke ==
  /\ Now("revoke")
  /\ \/ /\ op' = [op EXCEPT !.todo = Tail(@), !.seen = TRUE]
        /\ cluster' = [cluster EXCEPT !.token = "none"]
        /\ UNCHANGED spent
     \/ Fault /\ Proceed /\ UNCHANGED cluster
     \/ cluster.token # "none" /\ Fault /\ Note /\ UNCHANGED cluster
  /\ UNCHANGED <<world, durable, local, disk, last>>

Unbind ==
  /\ Now("unbind")
  /\ \/ Proceed /\ cluster' = [cluster EXCEPT !.bound = 0] /\ UNCHANGED spent
     \/ /\ Fault
        /\ op' = [op EXCEPT !.todo = Tail(@), !.failed = TRUE, !.unbound = FALSE]
        /\ \/ cluster' = [cluster EXCEPT !.bound = 0]
           \/ UNCHANGED cluster
  /\ UNCHANGED <<world, durable, local, disk, last>>

\* Without the resolved activation policy there is no command to run.
Hide ==
  /\ Now("hide")
  /\ IF disk.activation = 0
       THEN Proceed /\ UNCHANGED <<cluster, spent>>
     ELSE IF ~op.unbound
       THEN Note /\ UNCHANGED <<cluster, spent>>
     ELSE \/ Proceed /\ cluster' = [cluster EXCEPT !.console = 0] /\ UNCHANGED spent
          \/ Fault /\ Note /\ UNCHANGED cluster
  /\ UNCHANGED <<world, durable, local, disk, last>>

Unmarked == [disk EXCEPT !.marker = 0, !.online = 0]
Cleaned == [Unmarked EXCEPT !.unit = FALSE, !.policy = 0, !.activation = 0]

\* systemctl refuses to disable a unit whose file is missing.
DisableProvider ==
  \/ /\ disk.unit /\ Proceed
     /\ provider' = [enabled |-> FALSE, loaded |-> 0]
     /\ UNCHANGED spent
  \/ ~disk.unit /\ Note /\ UNCHANGED <<provider, spent>>
  \/ disk.unit /\ Fault /\ Note /\ UNCHANGED provider

Stop ==
  /\ Now("stop")
  /\ DisableProvider
  /\ disk' = Unmarked
  /\ UNCHANGED <<world, owners, timer, renewal, last>>

Purge ==
  /\ Now("purge")
  /\ DisableProvider
  /\ disk' = Cleaned
  /\ UNCHANGED <<world, owners, timer, renewal, last>>

Conclude ==
  /\ Now("conclude")
  /\ IF op.failed
       THEN Abort /\ UNCHANGED last
       ELSE /\ Receipt("withdrawn")
            /\ op' = IF Len(op.todo) = 1 THEN Idle
                     ELSE [op EXCEPT !.todo = Tail(@), !.seen = FALSE]
  /\ UNCHANGED <<world, owners, local, disk, spent>>

Down ==
  /\ Now("down")
  /\ Proceed
  /\ cluster' = [cluster EXCEPT !.up = FALSE]
  /\ UNCHANGED <<world, durable, local, disk, last, spent>>

(***************************************************************************)
(* Steps of the operating proof alone.                                     *)
(***************************************************************************)
ForgeMarker ==
  /\ Now("forge")
  /\ Proceed
  /\ disk' = [disk EXCEPT !.marker = Forged]
  /\ last' = NoReceipt
  /\ UNCHANGED <<world, owners, local, spent>>

RestoreMarker ==
  /\ Now("restore")
  /\ Proceed
  /\ disk' = [disk EXCEPT !.marker = op.d]
  /\ UNCHANGED <<world, owners, local, last, spent>>

\* The provider is killed; systemd brings it back before the proof goes on.
KillProvider ==
  /\ Now("kill")
  /\ IF Loads # 0 THEN Proceed ELSE Abort
  /\ provider' = [provider EXCEPT !.loaded = Loads]
  /\ UNCHANGED <<world, owners, timer, renewal, disk, last, spent>>

Proven ==
  /\ Now("proven")
  /\ Proceed
  /\ disk' = [disk EXCEPT !.proof = op.d]
  /\ UNCHANGED <<world, owners, local, last, spent>>

(***************************************************************************)
(* Steps that may fail outright, and the end of a command.                 *)
(***************************************************************************)
External == {"supervise", "prepare", "generation", "compose", "deliver",
             "workflows", "serve", "bind", "attach", "models", "console",
             "reload", "renewals", "records", "relaunch", "rollout", "liaise",
             "renew", "check", "down", "confirm"}

\* The policy, a checkout or the decision is found invalid or unclean.
PolicyRefused ==
  /\ Now("resolve") \/ Now("admit")
  /\ Fault
  /\ Abort
  /\ UNCHANGED <<world, owners, local, disk, last>>

StepFails ==
  /\ op.todo # << >> /\ Head(op.todo) \in External
  /\ Fault
  /\ Abort
  /\ UNCHANGED <<world, owners, local, disk, last>>

Killed ==
  /\ op.cmd # "idle"
  /\ Fault
  /\ Abort
  /\ UNCHANGED <<world, owners, local, disk, last>>

(***************************************************************************)
(* Commands, the supervisor, the timer and the unlocked status.            *)
(***************************************************************************)
Begin(cmd) == /\ op = Idle
              /\ op' = [Idle EXCEPT !.cmd = cmd, !.todo = Plan(cmd)]

Command ==
  /\ spent.commands < Commands
  /\ \E cmd \in {"restart", "connections", "verify"} \cup Retiring :
       /\ cmd = "verify" => accepted /\ disk.proof # decision
       /\ Begin(cmd)
  /\ spent' = [spent EXCEPT !.commands = @ + 1]
  /\ UNCHANGED <<world, owners, local, disk, last>>

\* An activation from a shell only installs the drop-in and restarts the
\* retained unit, which ends an activation that runs in it.
Delegate ==
  /\ spent.commands < Commands
  /\ accepted
  /\ spent' = [spent EXCEPT !.commands = @ + 1]
  /\ disk' = [disk EXCEPT !.dropin = TRUE]
  /\ wanted' = TRUE
  /\ op' = IF op.cmd = "activate" THEN Idle ELSE op
  /\ UNCHANGED <<decision, accepted, watch, owners, local, last>>

Activate ==
  /\ wanted
  /\ Begin("activate")
  /\ wanted' = FALSE
  /\ UNCHANGED <<decision, accepted, watch, owners, local, disk, last, spent>>

\* ConditionPathExists is read when the unit starts.
Tick ==
  /\ timer /\ ~renewal
  /\ disk.marker # 0
  /\ renewal' = TRUE
  /\ UNCHANGED <<world, owners, provider, timer, disk, op, last, spent>>

Refresh ==
  /\ renewal
  /\ Begin("refresh")
  /\ renewal' = FALSE
  /\ UNCHANGED <<world, owners, provider, timer, disk, last, spent>>

Busy ==
  /\ renewal /\ op # Idle
  /\ renewal' = FALSE
  /\ UNCHANGED <<world, owners, provider, timer, disk, op, last, spent>>

StatusReads ==
  /\ watch = NoDecision /\ accepted /\ StatusHolds(decision)
  /\ watch' = decision
  /\ UNCHANGED <<decision, accepted, wanted, owners, local, disk, op, last, spent>>

StatusWrites ==
  /\ watch # NoDecision
  /\ watch' = NoDecision
  /\ disk' = [disk EXCEPT !.online = watch]
  /\ UNCHANGED <<decision, accepted, wanted, owners, local, op, last, spent>>

(***************************************************************************)
(* The environment.                                                        *)
(***************************************************************************)
NewDecision ==
  /\ decision < Decisions
  /\ decision' = decision + 1
  /\ accepted' = TRUE
  /\ UNCHANGED <<watch, wanted, owners, local, disk, op, last, spent>>

RevokeDecision ==
  /\ accepted /\ spent.faults < Faults
  /\ accepted' = FALSE
  /\ spent' = [spent EXCEPT !.faults = @ + 1]
  /\ UNCHANGED <<decision, watch, wanted, owners, local, disk, op, last>>

TokenAges ==
  /\ \/ cluster.token = "fresh" /\ cluster' = [cluster EXCEPT !.token = "due"]
     \/ cluster.token = "due" /\ cluster' = [cluster EXCEPT !.token = "dead"]
  /\ UNCHANGED <<world, durable, local, disk, op, last, spent>>

ProviderDies ==
  /\ provider.loaded # 0
  /\ Fault
  /\ provider' = [provider EXCEPT !.loaded = 0]
  /\ UNCHANGED <<world, owners, timer, renewal, disk, op, last>>

ProviderRestarts ==
  /\ provider.enabled /\ provider.loaded = 0 /\ Loads # 0
  /\ provider' = [provider EXCEPT !.loaded = Loads]
  /\ UNCHANGED <<world, owners, timer, renewal, disk, op, last, spent>>

\* Enabled units come back; core-online.json is of another boot and no reader
\* takes it; the supervisor activates, or without the drop-in only resumes
\* the generic composition.
Reboot ==
  /\ Fault
  /\ op' = Idle
  /\ watch' = NoDecision
  /\ renewal' = FALSE
  /\ provider' = [provider EXCEPT !.loaded = 0]
  /\ disk' = [disk EXCEPT !.online = 0]
  /\ wanted' = disk.dropin
  /\ UNCHANGED <<decision, accepted, timer, owners, last>>

Step ==
  \/ Resolve \/ GoOffline \/ WritePolicy \/ WriteActivation \/ Supervise
  \/ Prepare \/ PrepareGeneration \/ RefreshRecords \/ Compose \/ Deliver
  \/ RenewWorkflows \/ Serve \/ Bind \/ AttachRecords \/ BindModels
  \/ StartConsole \/ Mark \/ ReloadStale \/ StartRenewals \/ Confirm
  \/ Relaunch \/ Rollout \/ Liaise
  \/ Admit \/ Maintain \/ Renewable \/ Renew \/ Check
  \/ StopRenewal \/ Suspend \/ Withdraw \/ Release \/ Revoke \/ Unbind
  \/ Hide \/ Stop \/ Purge \/ Conclude \/ Down
  \/ ForgeMarker \/ RestoreMarker \/ KillProvider \/ Proven

Next ==
  \/ Step \/ PolicyRefused \/ StepFails \/ Killed
  \/ Command \/ Delegate \/ Activate \/ Tick \/ Refresh \/ Busy
  \/ StatusReads \/ StatusWrites
  \/ NewDecision \/ RevokeDecision \/ TokenAges
  \/ ProviderDies \/ ProviderRestarts \/ Reboot

\* A command that holds the lock goes on; systemd keeps its units and timers
\* going, and a renewal that finds the lock free now and then takes it.
Fairness ==
  /\ WF_vars(Step)
  /\ WF_vars(Activate)
  /\ WF_vars(Tick)
  /\ SF_vars(Refresh)
  /\ WF_vars(ProviderRestarts)

Spec == Init /\ [][Next]_vars /\ Fairness

(***************************************************************************)
(* Properties.                                                             *)
(***************************************************************************)
\* The type invariant; the lifecycle lock is held exactly while steps remain.
WorldOK ==
  /\ decision \in Decision
  /\ accepted \in BOOLEAN
  /\ disk \in [policy : 0 .. Decisions, activation : 0 .. Decisions,
               marker : 0 .. Forged, online : 0 .. Decisions,
               proof : 0 .. Decisions, unit : BOOLEAN, dropin : BOOLEAN]
  /\ provider \in [enabled : BOOLEAN, loaded : 0 .. Decisions]
  /\ timer \in BOOLEAN /\ renewal \in BOOLEAN /\ wanted \in BOOLEAN
  /\ cluster \in [up : BOOLEAN, bound : 0 .. Decisions,
                  token : {"none", "fresh", "due", "dead"}, used : BOOLEAN,
                  console : 0 .. Decisions, records : BOOLEAN, models : BOOLEAN]
  /\ durable \in [bundle : 0 .. Decisions, retired : SUBSET Decision,
                  workers : 0 .. Decisions]
  /\ watch \in 0 .. Decisions

TypeOK == WorldOK /\ (op.cmd = "idle" <=> op.todo = << >>)

\* A rollback, cleanup or teardown that leaves a receipt has left nothing
\* running: no provider, no binding, no Console, no renewal, no marker, no
\* durable worker, and no token when the Secret could be read.  It stays so,
\* whatever late renewal, provider restart or reboot follows, until the next
\* command (the receipt of console_complete_runtime.py:2248-2255).
RollbackIsComplete ==
  last.act = "withdrawn" =>
    /\ provider = [enabled |-> FALSE, loaded |-> 0]
    /\ cluster.bound = 0 /\ cluster.console = 0
    /\ ~cluster.records /\ ~cluster.models
    /\ last.seen => cluster.token = "none"
    /\ ~timer
    /\ disk.marker = 0
    /\ durable.workers = 0

\* A receipt of activate, restart or the operating proof means that everything
\* was made from one decision, and only a later command changes that: a
\* provider that crashes comes back with the same decision or not at all.
ActivationIsWhole ==
  last.act = "active" =>
    /\ Materialized(last.d)
    /\ disk.marker = last.d /\ cluster.console = last.d
    /\ provider.loaded \in {0, last.d}
    /\ cluster.token # "none" /\ cluster.bound # 0 /\ timer
    /\ GenerationReady(last.d)

\* No worker of a retired durable generation runs, whatever was interrupted
\* ("a retired digest cannot be reused", operate-complete-runtime.md:372).
RetiredStaysDown == durable.workers \notin durable.retired

\* The durable generations are what the runtime believes of them.
GenerationIsSound == TypeOK /\ RetiredStaysDown

\* While an activation stays in force the timer replaces an ageing token and
\* has it consumed, also after a kill between the two.
Maintained ==
  /\ accepted /\ timer /\ Materialized(decision) /\ disk.marker = decision

TokenIsMaintained ==
  /\ (Maintained /\ cluster.token # "fresh") ~> (cluster.token = "fresh" \/ ~Maintained)
  /\ (Maintained /\ ~cluster.used) ~> (cluster.used \/ ~Maintained)
=============================================================================
